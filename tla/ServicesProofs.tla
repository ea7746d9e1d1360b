---------------------------- MODULE ServicesProofs ----------------------------
(***************************************************************************)
(* The services around the incident engine, for any number of their         *)
(* callers, whatever fails or stops: one connection is shared; who is       *)
(* answered has been notified and what is downloaded is whole; work is left *)
(* behind only by what was interrupted; notifications and reports keep the  *)
(* ledger of jobs; and no snapshot overstates a downtime.                   *)
(***************************************************************************)
EXTENDS MCServices, AvailabilityProofs

(* OneConnection is inductive but for the words `connecting` may have.      *)
Shared == /\ connected \in BOOLEAN
          /\ connecting \in {"none", "pending", "rejected", "resolved"}
          /\ OneConnection

LEMMA SharedAtFirst == RabbitInit => Shared
  BY DEF RabbitInit, Shared, OneConnection

(* Asking: only who finds neither connection nor attempt begins one.        *)
LEMMA RequestKeepsShared ==
  ASSUME Shared, NEW u \in Users, Request(u)
  PROVE  Shared'
<1>1. CASE OpenConnection(u)
  BY <1>1 DEF OpenConnection, Shared, OneConnection
<1>2. CASE UseConnection(u)
  BY <1>2 DEF UseConnection, Shared, OneConnection
<1>3. CASE JoinAttempt(u)
  BY <1>3 DEF JoinAttempt, Shared, OneConnection
<1>4. CASE AwaitEnded(u)
  BY <1>4 DEF AwaitEnded, Shared, OneConnection
<1> QED
  BY <1>1, <1>2, <1>3, <1>4 DEF Request

(* An attempt that ends was the only one, and no connection was open.       *)
LEMMA AttemptEndsKeepsShared ==
  ASSUME Shared, AttemptEnds
  PROVE  Shared'
<1>1. attempts = 1 /\ connecting = "pending" /\ open = 0
  BY DEF AttemptEnds, Connects, Rejects, Shared, OneConnection
<1>2. CASE Connects
  BY <1>1, <1>2 DEF Connects, Shared, OneConnection
<1>3. CASE Rejects
  BY <1>1, <1>3 DEF Rejects, Shared, OneConnection
<1> QED
  BY <1>2, <1>3 DEF AttemptEnds

(* The health check and the consumer share one connection and one attempt   *)
(* to open it, for any number of callers (getConnection).                   *)
THEOREM ConnectionIsShared == RabbitSpec => []OneConnection
<1>1. Shared /\ [RabbitNext \/ RabbitStops]_rabbit => Shared'
  <2> SUFFICES ASSUME Shared, [RabbitNext \/ RabbitStops]_rabbit
               PROVE  Shared'
    OBVIOUS
  <2>1. CASE Polled
    <3>1. ASSUME NEW u \in Users, Request(u)
          PROVE  Shared'
      BY <3>1, RequestKeepsShared
    <3>2. ASSUME NEW u \in Users, EndUse(u)
          PROVE  Shared'
      BY <3>2 DEF EndUse, Shared, OneConnection
    <3> QED
      BY <2>1, <3>1, <3>2 DEF Polled
  <2>2. CASE AttemptEnds
    BY <2>2, AttemptEndsKeepsShared
  <2>3. CASE Close
    <3>1. connected /\ open = 1 /\ attempts = 0
      BY <2>3 DEF Close, Shared, OneConnection
    <3>2. /\ open' = 0 /\ attempts' = 0
          /\ connected' = FALSE /\ connecting' = "none"
      BY <2>3, <3>1 DEF Close
    <3> QED
      BY <3>2 DEF Shared, OneConnection
  <2>4. CASE RabbitStops
    BY <2>4 DEF RabbitStops, Shared, OneConnection
  <2>5. CASE UNCHANGED rabbit
    BY <2>5 DEF rabbit, Shared, OneConnection
  <2> QED
    BY <2>1, <2>2, <2>3, <2>4, <2>5 DEF RabbitNext
<1>2. Shared => OneConnection
  BY DEF Shared
<1> QED
  BY SharedAtFirst, <1>1, <1>2, PTL DEF RabbitSpec

-----------------------------------------------------------------------------
(* Notifications.                                                           *)
Events == {"NONE", "INCIDENT_RESOLVED", "INCIDENT_CLOSED", "INCIDENT_CREATED",
           "INCIDENT_CORRELATED", "RECOVERY_DETECTED"}
CallerStates == [stage : Stages, event : Events, job : Job \union {<<>>}]
NotificationsTyped ==
  /\ caller \in [Dispatches -> CallerStates]
  /\ due \in [Dispatches -> SUBSET Job]
  /\ todo \in [Dispatches -> SUBSET Job]
  /\ notifications \in [Job -> {"ABSENT", "PENDING", "SENDING", "SENT", "FAILED", "SKIPPED"}]
  /\ sent \in [Job -> BOOLEAN]

Of(d) == {j \in Job : j[1] = d}
RowSettled(j) == notifications[j] \in {"SENT", "FAILED", "SKIPPED"}

(* What a dispatch relies on: its jobs are its own, those to come have no    *)
(* row, the one it is at has the row its stage says, and the others are     *)
(* settled unless it was interrupted.                                      *)
CallerRelies(d) ==
  /\ todo[d] \subseteq due[d] /\ due[d] \subseteq Of(d)
  /\ \A j \in Of(d) \ due[d] : notifications[j] = "ABSENT"
  /\ \A j \in todo[d] : notifications[j] = "ABSENT"
  /\ caller[d].stage \in {"waiting", "rules"} => due[d] = {}
  /\ caller[d].stage = "answered" => todo[d] = {}
  /\ caller[d].stage \in Working => Current(d) \in due[d] \ todo[d]
  /\ At(d, "created") => notifications[Current(d)] = "PENDING"
  /\ caller[d].stage \in {"sending", "delivered", "failing"} => notifications[Current(d)] = "SENDING"
  /\ At(d, "delivered") => sent[Current(d)]
  /\ \A j \in due[d] \ todo[d] : \/ RowSettled(j)
                                 \/ caller[d].stage \in Working /\ Current(d) = j
                                 \/ caller[d].stage \in {"thrown", "stopped"}

NotificationsInv == NotificationsTyped /\ \A d \in Dispatches : CallerRelies(d)

-----------------------------------------------------------------------------
(* A step of one caller: it disturbs no job of another.                     *)
CallerStep(d) ==
  \/ \E event \in Events : Begin(d, event) /\ UNCHANGED <<due, todo, delivering>>
  \/ DispatchStep(d)

(* What becomes of the record of a caller.                                  *)
LEMMA CallerChanges ==
  ASSUME NEW c \in CallerStates, NEW s \in Stages
  PROVE  /\ \A e \in Events : [c EXCEPT !.stage = s, !.event = e] \in CallerStates
         /\ \A j \in Job : [c EXCEPT !.stage = s, !.job = j] \in CallerStates
         /\ [c EXCEPT !.stage = s] \in CallerStates
         /\ [c EXCEPT !.stage = s].stage = s /\ [c EXCEPT !.stage = s].job = c.job
BY DEF CallerStates

LEMMA JobsAreOwn == \A j \in Job : j[1] \in Dispatches
BY DEF Job

Undisturbed(e) ==
  /\ caller'[e] = caller[e] /\ due'[e] = due[e] /\ todo'[e] = todo[e]
  /\ \A j \in Of(e) : notifications'[j] = notifications[j] /\ sent'[j] = sent[j]

LEMMA OthersAlone ==
  ASSUME NotificationsInv, NEW d \in Dispatches, CallerStep(d), NEW e \in Dispatches \ {d}
  PROVE  Undisturbed(e)
<1> USE DEF Undisturbed
<1>1. \A j \in due[d] : j \notin Of(e)
  BY DEF NotificationsInv, CallerRelies, Of
<1>2. caller[d].stage \in Working => Current(d) \notin Of(e)
  BY <1>1 DEF NotificationsInv, CallerRelies
<1>3. \A j \in todo[d] : j \notin Of(e)
  BY <1>1 DEF NotificationsInv, CallerRelies
<1>4. ASSUME NEW event \in Events, Begin(d, event), UNCHANGED <<due, todo, delivering>>
      PROVE  Undisturbed(e)
  BY <1>4 DEF Begin, delivering, NotificationsInv, NotificationsTyped
<1>5. ASSUME DispatchStep(d)
      PROVE  Undisturbed(e)
  <2> USE DEF NotificationsInv, NotificationsTyped, At, MovesTo, Mark, Of, Working, delivering
  <2>1. ASSUME NEW severity \in 0..4, ReadRules(d, severity) PROVE Undisturbed(e)
    BY <2>1 DEF ReadRules
  <2>2. ASSUME NEW j \in todo[d], CreateRow(d, j) PROVE Undisturbed(e)
    BY <2>2, <1>3 DEF CreateRow
  <2>3. CASE MarkSending(d) BY <2>3, <1>2 DEF MarkSending
  <2>4. CASE Deliver(d) BY <2>4, <1>2 DEF Deliver
  <2>5. CASE MarkSent(d) BY <2>5, <1>2 DEF MarkSent
  <2>6. CASE DeliveryThrows(d) BY <2>6 DEF DeliveryThrows
  <2>7. CASE MarkFailed(d) BY <2>7, <1>2 DEF MarkFailed
  <2>8. CASE DispatchThrows(d) BY <2>8 DEF DispatchThrows
  <2>9. CASE DispatchEnds(d) BY <2>9 DEF DispatchEnds
  <2> QED
    BY <1>5, <2>1, <2>2, <2>3, <2>4, <2>5, <2>6, <2>7, <2>8, <2>9 DEF DispatchStep
<1> QED
  BY <1>4, <1>5 DEF CallerStep

(* A caller's own step takes it from what it relies on to what it relies on  *)
(* next.                                                                   *)
LEMMA OwnStep ==
  ASSUME NotificationsTyped, NEW d \in Dispatches, CallerRelies(d), CallerStep(d)
  PROVE  NotificationsTyped' /\ CallerRelies(d)'
<1> USE DEF NotificationsTyped, CallerRelies, At, MovesTo, Mark, Of, Current, RowSettled, Working, delivering
<1>1. ASSUME NEW event \in Events, Begin(d, event), UNCHANGED <<due, todo, delivering>>
      PROVE  NotificationsTyped' /\ CallerRelies(d)'
  <2> DEFINE s == IF event = "NONE" THEN "answered" ELSE "rules"
  <2>0. s \in Stages /\ s \in {"answered", "rules"} /\ caller[d] \in CallerStates
    BY DEF Stages, Over
  <2>1. /\ caller' = [caller EXCEPT ![d] = [caller[d] EXCEPT !.stage = s, !.event = event]]
        /\ [caller[d] EXCEPT !.stage = s, !.event = event] \in CallerStates
    <3>1. [caller[d] EXCEPT !.stage = s, !.event = event] \in CallerStates
      BY <2>0, CallerChanges
    <3> QED
      BY <1>1, <3>1 DEF Begin
  <2>4. caller'[d].stage \in {"answered", "rules"} /\ caller' \in [Dispatches -> CallerStates]
    BY <2>0, <2>1 DEF CallerStates
  <2>2. caller[d].stage = "waiting" /\ due' = due /\ todo' = todo /\ notifications' = notifications /\ sent' = sent
    BY <1>1 DEF Begin
  <2>3. NotificationsTyped'
    BY <2>4, <2>2
  <2> QED
    BY <2>4, <2>2, <2>3
<1>2. ASSUME NEW severity \in 0..4, ReadRules(d, severity)
      PROVE  NotificationsTyped' /\ CallerRelies(d)'
  <2>1. JobsFor(d, severity) \subseteq Of(d)
    BY DEF JobsFor
  <2> QED
    BY <1>2, <2>1 DEF ReadRules, Stages, CallerStates
<1>3. ASSUME NEW j \in todo[d], CreateRow(d, j)
      PROVE  NotificationsTyped' /\ CallerRelies(d)'
  <2>1. j \in Job /\ j \in due[d] /\ j[1] = d /\ notifications[j] = "ABSENT"
    OBVIOUS
  <2>2. /\ notifications'[j] = IF j[3] = Unconfigured THEN "SKIPPED" ELSE "PENDING"
        /\ \A k \in Job \ {j} : notifications'[k] = notifications[k]
        /\ todo'[d] = todo[d] \ {j} /\ due' = due /\ sent' = sent
    BY <1>3, <2>1 DEF CreateRow
  <2>3. /\ caller[d].stage = "next" /\ caller'[d].job = j
        /\ caller'[d].stage = IF j[3] = Unconfigured THEN "next" ELSE "created"
    BY <1>3, <2>1 DEF CreateRow
  <2>4. NotificationsTyped'
    <3>1. notifications' \in [Job -> {"ABSENT", "PENDING", "SENDING", "SENT", "FAILED", "SKIPPED"}]
      BY <1>3, <2>1 DEF CreateRow
    <3>2. caller' \in [Dispatches -> CallerStates]
      <4> DEFINE s == IF j[3] = Unconfigured THEN "next" ELSE "created"
      <4>1. s \in Stages
        BY DEF Stages
      <4>2. [caller[d] EXCEPT !.stage = s, !.job = j] \in CallerStates
        BY <2>1, <4>1, CallerChanges
      <4>3. caller' = [caller EXCEPT ![d] = [caller[d] EXCEPT !.stage = s, !.job = j]]
        BY <1>3 DEF CreateRow
      <4> QED
        BY <4>2, <4>3
    <3>3. todo' \in [Dispatches -> SUBSET Job]
      BY <1>3 DEF CreateRow
    <3> QED
      BY <2>2, <3>1, <3>2, <3>3
  <2>a. \A k \in due[d] \ todo[d] : RowSettled(k) /\ k # j
    BY <2>1, <2>3
  <2>b. \A k \in due'[d] \ todo'[d] : k = j \/ RowSettled(k)'
    BY <2>a, <2>2
  <2>c. todo'[d] \subseteq due'[d] /\ due'[d] \subseteq Of(d) /\ j \in due'[d] \ todo'[d]
    BY <2>1, <2>2
  <2>d. /\ \A k \in Of(d) \ due'[d] : notifications'[k] = "ABSENT"
        /\ \A k \in todo'[d] : notifications'[k] = "ABSENT"
    BY <2>1, <2>2
  <2>5. CASE j[3] = Unconfigured
    BY <2>b, <2>c, <2>d, <2>2, <2>3, <2>4, <2>5
  <2>6. CASE j[3] # Unconfigured
    BY <2>b, <2>c, <2>d, <2>2, <2>3, <2>4, <2>6
  <2> QED
    BY <2>5, <2>6
<1>4. CASE MarkSending(d) BY <1>4 DEF MarkSending, Stages, CallerStates
<1>5. CASE Deliver(d) BY <1>5 DEF Deliver, Stages, CallerStates
<1>6. CASE MarkSent(d) BY <1>6 DEF MarkSent, Stages, CallerStates
<1>7. CASE DeliveryThrows(d) BY <1>7 DEF DeliveryThrows, Stages, CallerStates
<1>8. CASE MarkFailed(d) BY <1>8 DEF MarkFailed, Stages, CallerStates
<1>9. CASE DispatchThrows(d) BY <1>9 DEF DispatchThrows, Stages, CallerStates, Over
<1>10. CASE DispatchEnds(d) BY <1>10 DEF DispatchEnds, Stages, CallerStates, Over
<1> QED
  BY <1>1, <1>2, <1>3, <1>4, <1>5, <1>6, <1>7, <1>8, <1>9, <1>10
  DEF CallerStep, DispatchStep

LEMMA NotificationsInvAtFirst == NotificationsInit => NotificationsInv
BY DEF NotificationsInit, NotificationsInv, NotificationsTyped, CallerRelies, Of, At,
    Working, Stages, Events, CallerStates

(* Of a step of the system, what matters here: one caller's step, a stop, or *)
(* nothing.                                                                *)
LEMMA StepKinds ==
  ASSUME [NotificationsNext \/ NotificationsStop]_notifying
  PROVE  \/ \E d \in Dispatches : CallerStep(d)
         \/ NotificationsStop
         \/ UNCHANGED <<caller, due, todo, notifications, sent>>
<1>1. ASSUME NEW d \in Dispatches, NEW status \in Statuses, Transition(d, status)
      PROVE  CallerStep(d)
  <2>1. EventOf(status) \in Events
    BY DEF EventOf, Events
  <2> QED
    BY <1>1, <2>1 DEF Transition, CallerStep
<1>2. ASSUME NEW d \in Dispatches, NEW event \in Events, AlertProcessed(d, event)
      PROVE  CallerStep(d)
  BY <1>2 DEF AlertProcessed, CallerStep
<1>3. ASSUME NEW r \in Rules, NEW row \in RuleRows \union {NoRule}, EditRule(r, row)
      PROVE  UNCHANGED <<caller, due, todo, notifications, sent>>
  BY <1>3 DEF EditRule, delivering
<1> QED
  BY <1>1, <1>2, <1>3 DEF NotificationsNext, CallerStep, Events, notifying

LEMMA NotificationsInvKept ==
  NotificationsInv /\ [NotificationsNext \/ NotificationsStop]_notifying => NotificationsInv'
<1> SUFFICES ASSUME NotificationsInv, [NotificationsNext \/ NotificationsStop]_notifying
             PROVE  NotificationsInv'
  OBVIOUS
<1>1. ASSUME NEW d \in Dispatches, CallerStep(d) PROVE NotificationsInv'
  <2>1. NotificationsTyped' /\ CallerRelies(d)'
    BY <1>1, OwnStep DEF NotificationsInv
  <2>2. ASSUME NEW e \in Dispatches \ {d} PROVE CallerRelies(e)'
    <3>1. /\ caller'[e] = caller[e] /\ due'[e] = due[e] /\ todo'[e] = todo[e]
          /\ \A j \in Of(e) : notifications'[j] = notifications[j] /\ sent'[j] = sent[j]
      BY <1>1, OthersAlone DEF Undisturbed
    <3>2. CallerRelies(e)
      BY DEF NotificationsInv
    <3>3. \A j \in due[e] : j \in Of(e) /\ notifications'[j] = notifications[j] /\ sent'[j] = sent[j]
      BY <3>1, <3>2 DEF CallerRelies
    <3>4. caller[e].stage \in Working => Current(e) \in due[e]
      BY <3>2 DEF CallerRelies
    <3>5. {"created", "sending", "delivered", "failing"} \subseteq Working
      BY DEF Working
    <3> QED
      BY <3>1, <3>2, <3>3, <3>4, <3>5 DEF CallerRelies, At, Current, RowSettled, Of
  <2> QED
    BY <2>1, <2>2 DEF NotificationsInv
<1>2. CASE NotificationsStop
  <2>1. \A d \in Dispatches :
          /\ caller'[d].job = caller[d].job
          /\ \/ caller'[d] = caller[d]
             \/ caller'[d].stage = "stopped" /\ ~At(d, "waiting")
    BY <1>2 DEF NotificationsStop, NotificationsInv, NotificationsTyped
  <2>2. NotificationsTyped'
    BY <1>2
    DEF NotificationsStop, NotificationsInv, NotificationsTyped, delivering, Stages,
        Over, CallerStates
  <2>3. ASSUME NEW d \in Dispatches PROVE CallerRelies(d)'
    <3>1. CallerRelies(d) /\ UNCHANGED <<due, todo, notifications, sent>>
      BY <1>2 DEF NotificationsInv, NotificationsStop, delivering
    <3>2. caller[d].stage \in Over \/ At(d, "waiting") => caller'[d] = caller[d]
      BY <1>2 DEF NotificationsStop
    <3>3. CASE caller'[d] = caller[d]
      BY <3>1, <3>3 DEF CallerRelies, At, Current, RowSettled, Of
    <3>4. CASE caller'[d].stage = "stopped"
      BY <3>1, <3>4 DEF CallerRelies, At, Current, RowSettled, Of, Working
    <3> QED
      BY <2>1, <3>3, <3>4
  <2> QED
    BY <2>2, <2>3 DEF NotificationsInv
<1>3. CASE UNCHANGED <<caller, due, todo, notifications, sent>>
  BY <1>3
  DEF NotificationsInv, NotificationsTyped, CallerRelies, Of, At, Current, RowSettled
<1> QED
  BY <1>1, <1>2, <1>3, StepKinds

(* Whoever is answered, among any number of callers, rules and destinations, *)
(* has a settled row for every destination that was due.                   *)
THEOREM AnsweredAreNotified == NotificationsSpec => []AnsweredIsNotified
<1>1. NotificationsInv => AnsweredIsNotified
  BY DEF NotificationsInv, CallerRelies, AnsweredIsNotified, At, RowSettled, Working
<1> QED
  BY <1>1, NotificationsInvAtFirst, NotificationsInvKept, PTL DEF NotificationsSpec

(* A row is left PENDING or SENDING only by a dispatch that is at it, that   *)
(* threw, or that went down with the process.                              *)
THEOREM RowsLeftWereInterrupted == NotificationsSpec => []UnsettledIsInterrupted
<1>1. ASSUME NotificationsInv, NEW j \in Job, notifications[j] \in {"PENDING", "SENDING"}
      PROVE  \/ caller[j[1]].stage \in Working /\ Current(j[1]) = j
             \/ caller[j[1]].stage \in {"thrown", "stopped"}
  <2>1. j[1] \in Dispatches /\ j \in Of(j[1]) /\ CallerRelies(j[1])
    BY <1>1, JobsAreOwn DEF NotificationsInv, Of
  <2> QED
    BY <1>1, <2>1 DEF CallerRelies, RowSettled
<1>2. NotificationsInv => UnsettledIsInterrupted
  BY <1>1 DEF UnsettledIsInterrupted
<1> QED
  BY <1>2, NotificationsInvAtFirst, NotificationsInvKept, PTL DEF NotificationsSpec

-----------------------------------------------------------------------------
(* The ledger: what each step is to the row and the message of its job.      *)
NotificationRow == [j \in Job |-> LedgerStatus(notifications[j])]

LEMMA NotificationLedgerAtFirst == NotificationsInit => NotificationLedger!Init
BY DEF NotificationsInit, NotificationLedger!Init, LedgerStatus

(* One row goes from one status to another, and nothing is sent.            *)
LEMMA RowMoves ==
  ASSUME NotificationsTyped, NEW j \in Job, NEW status, Mark(j, status), UNCHANGED sent
  PROVE  NotificationRow' = [NotificationRow EXCEPT ![j] = LedgerStatus(status)] /\ NotificationRow[j] = LedgerStatus(notifications[j])
BY DEF NotificationsTyped, Mark, NotificationRow

LEMMA NotificationLedgerStep ==
  NotificationsInv /\ [NotificationsNext \/ NotificationsStop]_notifying
    => [NotificationLedger!Next]_<<NotificationRow, sent>>
<1> SUFFICES ASSUME NotificationsInv, [NotificationsNext \/ NotificationsStop]_notifying
             PROVE  [NotificationLedger!Next]_<<NotificationRow, sent>>
  OBVIOUS
<1> USE DEF NotificationLedger!Next, NotificationLedger!Moves, NotificationLedger!Happens
<1>1. CASE UNCHANGED <<notifications, sent>>
  BY <1>1 DEF NotificationRow
<1>2. ASSUME NEW d \in Dispatches, caller[d].stage \in Working
      PROVE  Current(d) \in Job
  BY <1>2 DEF NotificationsInv, NotificationsTyped, CallerRelies
<1>3. ASSUME NEW d \in Dispatches, NEW j \in todo[d], CreateRow(d, j)
      PROVE  NotificationLedger!Next
  <2>1. j \in Job /\ notifications[j] = "ABSENT"
    BY DEF NotificationsInv, NotificationsTyped, CallerRelies
  <2>2. CASE j[3] = Unconfigured
    <3>1. NotificationRow' = [NotificationRow EXCEPT ![j] = "SKIPPED"] /\ NotificationRow[j] = "ABSENT" /\ sent' = sent
      BY <1>3, <2>1, <2>2, RowMoves DEF CreateRow, NotificationsInv, LedgerStatus
    <3> QED
      BY <2>1, <3>1 DEF NotificationRow
  <2>3. CASE j[3] # Unconfigured
    <3>1. NotificationRow' = [NotificationRow EXCEPT ![j] = "PENDING"] /\ NotificationRow[j] = "ABSENT" /\ sent' = sent
      BY <1>3, <2>1, <2>3, RowMoves DEF CreateRow, NotificationsInv, LedgerStatus
    <3> QED
      BY <2>1, <3>1 DEF NotificationRow
  <2> QED
    BY <2>2, <2>3
<1>4. ASSUME NEW d \in Dispatches, MarkSending(d) PROVE NotificationLedger!Next
  <2>1. Current(d) \in Job /\ notifications[Current(d)] = "PENDING"
    BY <1>2, <1>4 DEF MarkSending, At, Working, NotificationsInv, CallerRelies
  <2>2. NotificationRow' = [NotificationRow EXCEPT ![Current(d)] = "RUNNING"] /\ NotificationRow[Current(d)] = "PENDING" /\ sent' = sent
    BY <1>4, <2>1, RowMoves DEF MarkSending, NotificationsInv, LedgerStatus
  <2> QED
    BY <2>1, <2>2 DEF NotificationRow
<1>5. ASSUME NEW d \in Dispatches, Deliver(d) PROVE NotificationLedger!Next
  <2>1. Current(d) \in Job /\ notifications[Current(d)] = "SENDING"
    BY <1>2, <1>5 DEF Deliver, At, Working, NotificationsInv, CallerRelies
  <2>2. sent' = [sent EXCEPT ![Current(d)] = TRUE] /\ NotificationRow' = NotificationRow /\ NotificationRow[Current(d)] = "RUNNING"
    BY <1>5, <2>1 DEF Deliver, NotificationRow, LedgerStatus
  <2> QED
    BY <2>1, <2>2 DEF NotificationRow
<1>6. ASSUME NEW d \in Dispatches, MarkSent(d) PROVE NotificationLedger!Next
  <2>1. Current(d) \in Job /\ notifications[Current(d)] = "SENDING" /\ sent[Current(d)]
    BY <1>2, <1>6 DEF MarkSent, At, Working, NotificationsInv, CallerRelies
  <2>2. NotificationRow' = [NotificationRow EXCEPT ![Current(d)] = "DONE"] /\ NotificationRow[Current(d)] = "RUNNING" /\ sent' = sent
    BY <1>6, <2>1, RowMoves DEF MarkSent, NotificationsInv, LedgerStatus
  <2> QED
    BY <2>1, <2>2 DEF NotificationRow
<1>7. ASSUME NEW d \in Dispatches, MarkFailed(d) PROVE NotificationLedger!Next
  <2>1. Current(d) \in Job /\ notifications[Current(d)] = "SENDING"
    BY <1>2, <1>7 DEF MarkFailed, At, Working, NotificationsInv, CallerRelies
  <2>2. NotificationRow' = [NotificationRow EXCEPT ![Current(d)] = "FAILED"] /\ NotificationRow[Current(d)] = "RUNNING" /\ sent' = sent
    BY <1>7, <2>1, RowMoves DEF MarkFailed, NotificationsInv, LedgerStatus
  <2> QED
    BY <2>1, <2>2 DEF NotificationRow
<1>8. ASSUME NEW d \in Dispatches,
             \/ \E event \in Events : Begin(d, event) /\ UNCHANGED <<due, todo, delivering>>
             \/ \E severity \in 0..4 : ReadRules(d, severity)
             \/ DeliveryThrows(d) \/ DispatchThrows(d) \/ DispatchEnds(d)
      PROVE  UNCHANGED <<notifications, sent>>
  BY <1>8 DEF ReadRules, DeliveryThrows, DispatchThrows, DispatchEnds, delivering
<1>9. CASE NotificationsStop
  BY <1>1, <1>9 DEF NotificationsStop, delivering
<1> QED
  BY <1>1, <1>3, <1>4, <1>5, <1>6, <1>7, <1>8, <1>9, StepKinds
  DEF CallerStep, DispatchStep

(* Notifications keep the ledger: a row never says SENT of a message that    *)
(* has not left, and one that is settled stays so.                         *)
THEOREM NotificationsKeepLedger == NotificationsSpec => NotificationLedger!Spec
<1>1. NotificationsInit => NotificationLedger!Init
  BY NotificationLedgerAtFirst
<1>2. NotificationsInv /\ [NotificationsNext \/ NotificationsStop]_notifying
        => [NotificationLedger!Next]_<<NotificationRow, sent>>
  BY NotificationLedgerStep
<1> QED
  BY <1>1, <1>2, NotificationsInvAtFirst, NotificationsInvKept, PTL
  DEF NotificationsSpec, NotificationLedger!Spec, NotificationRow

-----------------------------------------------------------------------------
(* Reports.                                                                 *)
RequestStages == Generating \union Ended \union {"waiting"}
ReportsTyped ==
  /\ revision \in Nat
  /\ generation \in [Generations -> RequestStages]
  /\ summary \in [Generations -> Nat]
  /\ details \in [Generations -> Nat]
  /\ reports \in [Generations -> {"ABSENT", "PENDING", "GENERATING", "COMPLETED", "FAILED"}]
  /\ files \in [Generations -> {"none", "part", "whole"}]
  /\ downloads \subseteq Generations

(* What a request relies on, by where it is: its row, its file, and what it  *)
(* has read.  A row is COMPLETED only when its request was answered.        *)
RowAt(stage) == CASE stage \in {"waiting", "refused"} -> {"ABSENT"}
                  [] stage = "created" -> {"PENDING"}
                  [] stage \in {"reading", "gathering", "rendering", "writing", "written"} -> {"GENERATING"}
                  [] stage = "failing" -> {"PENDING", "GENERATING"}
                  [] stage = "answered" -> {"COMPLETED"}
                  [] stage = "thrown" -> {"ABSENT", "PENDING", "GENERATING", "FAILED"}
                  [] OTHER -> {"PENDING", "GENERATING"}
ReportRelies(g) ==
  /\ reports[g] \in RowAt(generation[g])
  /\ generation[g] \in {"waiting", "created", "reading", "gathering", "rendering"} => files[g] = "none"
  /\ generation[g] \in {"written", "answered"} => files[g] = "whole"
  /\ generation[g] = "gathering" => summary[g] <= revision
  /\ generation[g] \in {"rendering", "writing", "written", "answered"} => summary[g] <= details[g]

ReportsInv == /\ ReportsTyped
              /\ \A g \in Generations : ReportRelies(g)
              /\ \A g \in downloads : generation[g] = "answered"

-----------------------------------------------------------------------------
(* A step of one request leaves the others alone.                           *)
RequestStep(g) ==
  \/ Refuse(g) \/ Create(g) \/ StartGenerating(g) \/ ReadIncidents(g) \/ ReadDetails(g)
  \/ OpenFile(g) \/ WriteFile(g) \/ Complete(g) \/ GenerateThrows(g)
  \/ RecordFailure(g) \/ ReportLost(g)

LEMMA OtherReportsAlone ==
  ASSUME ReportsTyped, NEW g \in Generations, RequestStep(g)
  PROVE  /\ \A h \in Generations \ {g} :
              /\ generation'[h] = generation[h] /\ reports'[h] = reports[h]
              /\ files'[h] = files[h] /\ summary'[h] = summary[h] /\ details'[h] = details[h]
         /\ UNCHANGED <<revision, downloads>>
         /\ generation[g] # "answered"
BY DEF RequestStep, ReportsTyped, Refuse, Create, StartGenerating, ReadIncidents,
    ReadDetails,
       OpenFile, WriteFile, Complete, GenerateThrows, RecordFailure, ReportLost, Goes, Generating

(* A request's own step takes it from what it relies on to what it relies    *)
(* on next.                                                                *)
LEMMA OwnRequestStep ==
  ASSUME ReportsTyped, NEW g \in Generations, ReportRelies(g), RequestStep(g)
  PROVE  ReportsTyped' /\ ReportRelies(g)'
<1> USE DEF ReportsTyped, ReportRelies, RowAt, Goes
<1>1. CASE Refuse(g) BY <1>1 DEF Refuse, RequestStages, Ended
<1>2. CASE Create(g) BY <1>2 DEF Create, RequestStages, Generating
<1>3. CASE StartGenerating(g) BY <1>3 DEF StartGenerating, RequestStages, Generating
<1>4. CASE ReadIncidents(g) BY <1>4 DEF ReadIncidents, RequestStages, Generating
<1>5. CASE ReadDetails(g) BY <1>5 DEF ReadDetails, RequestStages, Generating
<1>6. CASE OpenFile(g) BY <1>6 DEF OpenFile, RequestStages, Generating
<1>7. CASE WriteFile(g) BY <1>7 DEF WriteFile, RequestStages, Generating
<1>8. CASE Complete(g) BY <1>8 DEF Complete, RequestStages, Ended
<1>9. CASE GenerateThrows(g) BY <1>9 DEF GenerateThrows, RequestStages, Generating
<1>10. CASE RecordFailure(g) BY <1>10 DEF RecordFailure, RequestStages, Ended
<1>11. CASE ReportLost(g) BY <1>11 DEF ReportLost, RequestStages, Ended
<1> QED
  BY <1>1, <1>2, <1>3, <1>4, <1>5, <1>6, <1>7, <1>8, <1>9, <1>10, <1>11 DEF RequestStep

LEMMA ReportsInvAtFirst == ReportsInit => ReportsInv
BY DEF ReportsInit, ReportsInv, ReportsTyped, RequestStages, ReportRelies, RowAt

LEMMA ReportsInvKept == ReportsInv /\ [ReportsNext \/ ReportsStop]_reporting => ReportsInv'
<1> SUFFICES ASSUME ReportsInv, [ReportsNext \/ ReportsStop]_reporting PROVE ReportsInv'
  OBVIOUS
<1>1. ASSUME NEW g \in Generations, RequestStep(g) PROVE ReportsInv'
  <2>1. ReportsTyped' /\ ReportRelies(g)'
    BY <1>1, OwnRequestStep DEF ReportsInv
  <2>2. \A h \in Generations \ {g} : ReportRelies(h)'
    BY <1>1, OtherReportsAlone DEF ReportsInv, ReportRelies
  <2>3. \A h \in downloads' : generation'[h] = "answered"
    BY <1>1, OtherReportsAlone DEF ReportsInv, ReportsTyped
  <2> QED
    BY <2>1, <2>2, <2>3 DEF ReportsInv
<1>2. ASSUME NEW g \in Generations, Download(g) PROVE ReportsInv'
  <2>1. generation[g] = "answered"
    BY <1>2
    DEF Download, ReportsInv, ReportsTyped, ReportRelies, RowAt, RequestStages,
        Generating, Ended
  <2> QED
    BY <1>2, <2>1 DEF Download, ReportsInv, ReportsTyped, ReportRelies
<1>3. CASE Revise
  BY <1>3 DEF Revise, ReportsInv, ReportsTyped, ReportRelies
<1>4. CASE ReportsStop
  <2>1. \A g \in Generations :
          generation'[g] = IF generation[g] \in Generating THEN "stopped" ELSE generation[g]
    BY <1>4 DEF ReportsStop
  <2>2. ReportsTyped'
    BY <1>4 DEF ReportsStop, ReportsInv, ReportsTyped, RequestStages, Ended
  <2>3. ASSUME NEW g \in Generations PROVE ReportRelies(g)'
    BY <1>4, <2>1, <2>3 DEF ReportsStop, ReportsInv, ReportRelies, RowAt, Generating
  <2>4. \A g \in downloads' : generation'[g] = "answered"
    BY <1>4, <2>1 DEF ReportsStop, ReportsInv, ReportsTyped, Generating
  <2> QED
    BY <2>2, <2>3, <2>4 DEF ReportsInv
<1>5. CASE UNCHANGED reporting
  BY <1>5 DEF reporting, ReportsInv, ReportsTyped, ReportRelies
<1> QED
  BY <1>1, <1>2, <1>3, <1>4, <1>5 DEF ReportsNext, RequestStep

(* Every report downloaded, of any number requested while the incident      *)
(* changes, writes fail and the process stops, is a whole file with details *)
(* no older than its summary.                                              *)
THEOREM DownloadsAreWhole == ReportsSpec => []DownloadIsWhole
<1>1. ReportsInv => DownloadIsWhole
  BY DEF ReportsInv, ReportsTyped, ReportRelies, DownloadIsWhole
<1> QED
  BY <1>1, ReportsInvAtFirst, ReportsInvKept, PTL DEF ReportsSpec

(* A report is left PENDING or GENERATING only by a request that is at work, *)
(* could not record its failure, or went down with the process.            *)
THEOREM ReportsLeftWereInterrupted == ReportsSpec => []ReportUnsettledIsInterrupted
<1>1. ReportsInv => ReportUnsettledIsInterrupted
  BY DEF ReportsInv, ReportsTyped, ReportRelies, RowAt, RequestStages, Ended, Generating,
         ReportUnsettledIsInterrupted
<1> QED
  BY <1>1, ReportsInvAtFirst, ReportsInvKept, PTL DEF ReportsSpec

-----------------------------------------------------------------------------
(* The ledger: what each step is to the row and the file of its request.     *)
ReportRow == [g \in Generations |-> LedgerRow(reports[g])]
FileWhole == [g \in Generations |-> files[g] = "whole"]

LEMMA ReportLedgerAtFirst == ReportsInit => ReportLedger!Init
BY DEF ReportsInit, ReportLedger!Init, LedgerRow

LEMMA ReportLedgerStep ==
  ReportsInv /\ [ReportsNext \/ ReportsStop]_reporting => [ReportLedger!Next]_<<ReportRow, FileWhole>>
<1> SUFFICES ASSUME ReportsInv, [ReportsNext \/ ReportsStop]_reporting
             PROVE  [ReportLedger!Next]_<<ReportRow, FileWhole>>
  OBVIOUS
<1>1. CASE UNCHANGED reports /\ \A g \in Generations : (files'[g] = "whole") = (files[g] = "whole")
  BY <1>1 DEF ReportRow, FileWhole
<1>2. ASSUME NEW g \in Generations, Create(g) PROVE ReportLedger!Next
  <2>1. reports[g] = "ABSENT"
    BY <1>2 DEF Create, Goes, ReportsInv, ReportRelies, RowAt
  <2>2. ReportRow' = [ReportRow EXCEPT ![g] = "PENDING"] /\ ReportRow[g] = "ABSENT" /\ FileWhole' = FileWhole
    BY <1>2, <2>1 DEF Create, ReportRow, FileWhole, LedgerRow, ReportsInv, ReportsTyped
  <2> QED
    BY <2>2 DEF ReportLedger!Next, ReportLedger!Moves, ReportRow, FileWhole
<1>3. ASSUME NEW g \in Generations, StartGenerating(g) PROVE ReportLedger!Next
  <2>1. reports[g] = "PENDING"
    BY <1>3 DEF StartGenerating, Goes, ReportsInv, ReportRelies, RowAt
  <2>2. ReportRow' = [ReportRow EXCEPT ![g] = "RUNNING"] /\ ReportRow[g] = "PENDING" /\ FileWhole' = FileWhole
    BY <1>3, <2>1
    DEF StartGenerating, ReportRow, FileWhole, LedgerRow, ReportsInv, ReportsTyped
  <2> QED
    BY <2>2 DEF ReportLedger!Next, ReportLedger!Moves, ReportRow, FileWhole
<1>4. ASSUME NEW g \in Generations, WriteFile(g) PROVE ReportLedger!Next
  <2>1. reports[g] = "GENERATING"
    BY <1>4 DEF WriteFile, Goes, ReportsInv, ReportRelies, RowAt
  <2>2. FileWhole' = [FileWhole EXCEPT ![g] = TRUE] /\ ReportRow[g] = "RUNNING" /\ ReportRow' = ReportRow
    BY <1>4, <2>1 DEF WriteFile, ReportRow, FileWhole, LedgerRow, ReportsInv, ReportsTyped
  <2> QED
    BY <2>2 DEF ReportLedger!Next, ReportLedger!Happens, ReportRow, FileWhole
<1>5. ASSUME NEW g \in Generations, Complete(g) PROVE ReportLedger!Next
  <2>1. reports[g] = "GENERATING" /\ files[g] = "whole"
    BY <1>5 DEF Complete, Goes, ReportsInv, ReportRelies, RowAt
  <2>2. ReportRow' = [ReportRow EXCEPT ![g] = "DONE"] /\ ReportRow[g] = "RUNNING" /\ FileWhole' = FileWhole /\ FileWhole[g]
    BY <1>5, <2>1 DEF Complete, ReportRow, FileWhole, LedgerRow, ReportsInv, ReportsTyped
  <2> QED
    BY <2>2 DEF ReportLedger!Next, ReportLedger!Moves, ReportRow, FileWhole
<1>6. ASSUME NEW g \in Generations, RecordFailure(g) PROVE ReportLedger!Next
  <2>1. reports[g] \in {"PENDING", "GENERATING"}
    BY <1>6 DEF RecordFailure, Goes, ReportsInv, ReportRelies, RowAt
  <2>2. ReportRow' = [ReportRow EXCEPT ![g] = "FAILED"] /\ ReportRow[g] \in {"PENDING", "RUNNING"} /\ FileWhole' = FileWhole
    BY <1>6, <2>1
    DEF RecordFailure, ReportRow, FileWhole, LedgerRow, ReportsInv, ReportsTyped
  <2> QED
    BY <2>2 DEF ReportLedger!Next, ReportLedger!Moves, ReportRow, FileWhole
<1>7. ASSUME NEW g \in Generations, OpenFile(g)
      PROVE  UNCHANGED reports /\ \A h \in Generations : (files'[h] = "whole") = (files[h] = "whole")
  BY <1>7 DEF OpenFile, Goes, ReportsInv, ReportsTyped, ReportRelies
<1>8. ASSUME NEW g \in Generations,
             \/ Refuse(g) \/ ReadIncidents(g) \/ ReadDetails(g) \/ GenerateThrows(g)
             \/ ReportLost(g) \/ Download(g)
      PROVE  UNCHANGED <<reports, files>>
  BY <1>8 DEF Refuse, ReadIncidents, ReadDetails, GenerateThrows, ReportLost, Download
<1>9. CASE Revise \/ ReportsStop \/ UNCHANGED reporting
  BY <1>1, <1>9 DEF Revise, ReportsStop, reporting
<1> QED
  BY <1>1, <1>2, <1>3, <1>4, <1>5, <1>6, <1>7, <1>8, <1>9 DEF ReportsNext

(* The reports keep the ledger: the row of a report is never ahead of its    *)
(* file, and one that is settled stays so.                                 *)
THEOREM ReportsKeepLedger == ReportsSpec => ReportLedger!Spec
<1>1. ReportsInit => ReportLedger!Init
  BY ReportLedgerAtFirst
<1>2. ReportsInv /\ [ReportsNext \/ ReportsStop]_reporting => [ReportLedger!Next]_<<ReportRow, FileWhole>>
  BY ReportLedgerStep
<1> QED
  BY <1>1, <1>2, ReportsInvAtFirst, ReportsInvKept, PTL
  DEF ReportsSpec, ReportLedger!Spec, ReportRow, FileWhole

-----------------------------------------------------------------------------
(* Side by side: what the services do together is what each does alone.     *)
LEMMA PartsAtFirst ==
  Init => NotificationsInit /\ ReportsInit /\ RabbitInit /\ AvailabilityInit
BY DEF Init

LEMMA PartsStep ==
  [Next]_services =>
    /\ [NotificationsNext \/ NotificationsStop]_notifying
    /\ [ReportsNext \/ ReportsStop]_reporting
    /\ [RabbitNext \/ RabbitStops]_rabbit
    /\ [AvailabilityNext]_availability
<1> SUFFICES ASSUME [Next]_services
             PROVE  /\ [NotificationsNext \/ NotificationsStop]_notifying
                    /\ [ReportsNext \/ ReportsStop]_reporting
                    /\ [RabbitNext \/ RabbitStops]_rabbit
                    /\ [AvailabilityNext]_availability
  OBVIOUS
<1>1. CASE Next
  BY <1>1 DEF Next, Runs, Stops, AvailabilityNext
<1>2. CASE UNCHANGED services
  BY <1>2 DEF services
<1> QED
  BY <1>1, <1>2

(* Work is left behind only by what was interrupted, in the notifications   *)
(* (deliver) and in the reports (generate), for any number of both.         *)
THEOREM WorkLeftWasInterrupted == Spec => []WorkLeftIsInterrupted
<1>1. Spec => NotificationsSpec /\ ReportsSpec
  BY PartsAtFirst, PartsStep, PTL DEF Spec, NotificationsSpec, ReportsSpec
<1> QED
  BY <1>1, RowsLeftWereInterrupted, ReportsLeftWereInterrupted, PTL
  DEF WorkLeftIsInterrupted

(* Notifications and reports keep the ledger of jobs (JobLedger): a row     *)
(* never claims an effect that has not happened, and one that is settled    *)
(* stays so.                                                               *)
THEOREM ServicesKeepLedgers == Spec => KeepsJobLedger
<1>1. Spec => NotificationsSpec /\ ReportsSpec
  BY PartsAtFirst, PartsStep, PTL DEF Spec, NotificationsSpec, ReportsSpec
<1> QED
  BY <1>1, NotificationsKeepLedger, ReportsKeepLedger, PTL DEF KeepsJobLedger

(* The downtime of every scope and period is the number of its minutes in   *)
(* which a counted outage lasted (buildCalculation, mergeIntervals).        *)
THEOREM DowntimesAreCoverage == Spec => []DowntimeIsCoverage
<1>1. ViewsInv /\ [Next]_services => ViewsInv'
  BY PartsStep, ViewsInvKept
<1>2. Init => ViewsInv
  BY PartsAtFirst, ViewsInvAtFirst
<1>3. ViewsInv => DowntimeIsCoverage
  BY TypedIsCoverage DEF ViewsInv
<1> QED
  BY <1>1, <1>2, <1>3, PTL DEF Spec

(* Statistics, dashboard and SLA agree about the outages of a customer, the *)
(* open incidents, and the days and PONs the incidents belong to.           *)
THEOREM ViewsAreAgreed == Spec => []ViewsAgree
<1>1. ViewsInv /\ [Next]_services => ViewsInv'
  BY PartsStep, ViewsInvKept
<1>2. Init => ViewsInv
  BY PartsAtFirst, ViewsInvAtFirst
<1> QED
  BY <1>1, <1>2, TypedViewsAgree, PTL DEF Spec

(* No snapshot ever overstates a downtime, although it is written after its *)
(* calculation, by requests that overtake each other, while incidents are   *)
(* found late, resolved and reopened (createSnapshot).                      *)
THEOREM SnapshotsStayTrue == Spec => []SnapshotsNotOverstated
<1>1. SnapshotInv /\ [Next]_services => SnapshotInv'
  BY PartsStep, SnapshotInvKept
<1>2. Init => SnapshotInv
  BY PartsAtFirst, SnapshotInvAtFirst
<1> QED
  BY <1>1, <1>2, SoundIsNotOverstated, PTL DEF Spec
=============================================================================
