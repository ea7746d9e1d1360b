--------------------------- MODULE Notifications ---------------------------
(***************************************************************************)
(* NotificationsService.dispatch and deliver                               *)
(* (src/notifications/notifications.service.ts), called after a commit by   *)
(* the channels of alerts and by IncidentsService.transition               *)
(* (src/incidents/incidents.service.ts), while an administrator changes the *)
(* rules (notification-rules.service.ts).  Every await is a step; each      *)
(* statement can fail, and the process can stop in between.                *)
(***************************************************************************)
EXTENDS IncidentStates, Naturals, FiniteSets

CONSTANTS Dispatches,   \* the callers: each makes one change and one dispatch
          Rules,        \* notification rules
          Targets,      \* destinations
          RuleRows,     \* what a rule may be set to
          MaxEdits      \* bound: changes of rules

ASSUME NotificationsAssumption == MaxEdits \in Nat

VARIABLES
  incident,        \* status of the incident
  rules,           \* notification_rules
  edits,           \* changes made to them
  caller,          \* what each caller is doing, and for which event
  due,             \* the rules and destinations its dispatch is for
  todo,            \* those it has not come to
  notifications,   \* the row of each of its deliveries
  sent             \* whether the message has left

notifying == <<incident, rules, edits, caller, due, todo, notifications, sent>>
delivering == <<notifications, sent>>

NoRule == [enabled |-> FALSE, event |-> "NONE", minimum |-> 0, destinations |-> {}]
Unconfigured == "UNCONFIGURED"
Job == Dispatches \X Rules \X (Targets \union {Unconfigured})

(* A caller waits, reads the rules, works on a job (its row is created,     *)
(* sending, its message is out, or its failure is to be recorded), has      *)
(* answered, has thrown, or went down with the process.                    *)
Working == {"created", "sending", "delivered", "failing"}
Over == {"answered", "thrown", "stopped"}
Stages == {"waiting", "rules", "next"} \union Working \union Over

At(d, stage) == caller[d].stage = stage
MovesTo(d, stage) == caller' = [caller EXCEPT ![d].stage = stage]
Current(d) == caller[d].job
Mark(j, status) == notifications' = [notifications EXCEPT ![j] = status]

NotificationsInit ==
  /\ incident \in Statuses
  /\ rules \in [Rules -> RuleRows]
  /\ edits = 0
  /\ caller = [d \in Dispatches |-> [stage |-> "waiting", event |-> "NONE", job |-> <<>>]]
  /\ due = [d \in Dispatches |-> {}]
  /\ todo = [d \in Dispatches |-> {}]
  /\ notifications = [j \in Job |-> "ABSENT"]
  /\ sent = [j \in Job |-> FALSE]

-----------------------------------------------------------------------------
(* Callers.  transition commits, then dispatches on RESOLVED and CLOSED;    *)
(* acknowledge, resolve and close are transitions to a fixed status.       *)
EventOf(status) == CASE status = "RESOLVED" -> "INCIDENT_RESOLVED"
                     [] status = "CLOSED" -> "INCIDENT_CLOSED"
                     [] OTHER -> "NONE"
Begin(d, event) ==
  /\ At(d, "waiting")
  /\ caller' = [caller EXCEPT ![d].stage = IF event = "NONE" THEN "answered" ELSE "rules",
                              ![d].event = event]
Transition(d, status) ==
  /\ CanTransition(incident, status)
  /\ incident' = status
  /\ Begin(d, EventOf(status))
  /\ UNCHANGED <<rules, edits, due, todo, delivering>>

(* A delivery of an alert, after the engine's commit.                       *)
AlertProcessed(d, event) ==
  /\ Begin(d, event)
  /\ UNCHANGED <<incident, rules, edits, due, todo, delivering>>

-----------------------------------------------------------------------------
(* The rules of the event whose minimum the severity meets; destinationsFor *)
(* splits the destination, and none is a job that is skipped.              *)
JobsFor(d, severity) ==
  {j \in Job :
     /\ j[1] = d
     /\ rules[j[2]].enabled
     /\ rules[j[2]].event = caller[d].event
     /\ severity >= rules[j[2]].minimum
     /\ j[3] \in IF rules[j[2]].destinations = {} THEN {Unconfigured}
                 ELSE rules[j[2]].destinations}

ReadRules(d, severity) ==
  /\ At(d, "rules")
  /\ due' = [due EXCEPT ![d] = JobsFor(d, severity)]
  /\ todo' = [todo EXCEPT ![d] = JobsFor(d, severity)]
  /\ MovesTo(d, "next")
  /\ UNCHANGED <<incident, rules, edits, delivering>>

(* The row refers to the rule; without a destination it is all there is.    *)
CreateRow(d, j) ==
  /\ At(d, "next")
  /\ j \in todo[d]
  /\ rules[j[2]] # NoRule
  /\ todo' = [todo EXCEPT ![d] = @ \ {j}]
  /\ Mark(j, IF j[3] = Unconfigured THEN "SKIPPED" ELSE "PENDING")
  /\ caller' = [caller EXCEPT ![d].stage = IF j[3] = Unconfigured THEN "next" ELSE "created",
                              ![d].job = j]
  /\ UNCHANGED <<incident, rules, edits, due, sent>>

MarkSending(d) ==
  /\ At(d, "created")
  /\ Mark(Current(d), "SENDING")
  /\ MovesTo(d, "sending")
  /\ UNCHANGED <<incident, rules, edits, due, todo, sent>>

(* The strategy's deliver: the mail server, or the webhook, takes the        *)
(* message and answers; the answer may be lost.                            *)
Deliver(d) ==
  /\ At(d, "sending")
  /\ sent' = [sent EXCEPT ![Current(d)] = TRUE]
  /\ caller' \in {[caller EXCEPT ![d].stage = s] : s \in {"delivered", "failing"}}
  /\ UNCHANGED <<incident, rules, edits, due, todo, notifications>>

(* Faulty variant: the row says SENT before the message is out.             *)
MarkSentEarly(d) ==
  /\ caller[d].stage \in {"sending", "delivered"}
  /\ Mark(Current(d), "SENT")
  /\ MovesTo(d, "next")
  /\ UNCHANGED <<incident, rules, edits, due, todo, sent>>
MarkSent(d) ==
  /\ At(d, "delivered")
  /\ Mark(Current(d), "SENT")
  /\ MovesTo(d, "next")
  /\ UNCHANGED <<incident, rules, edits, due, todo, sent>>

(* deliver's catch: the strategy threw, or the row could not be marked.     *)
DeliveryThrows(d) ==
  /\ caller[d].stage \in {"sending", "delivered"}
  /\ MovesTo(d, "failing")
  /\ UNCHANGED <<incident, rules, edits, due, todo, delivering>>

(* Faulty variants: the first failure ends the dispatch; a failure is       *)
(* logged instead of recorded.                                             *)
MarkFailedAndEnd(d) ==
  /\ At(d, "failing")
  /\ Mark(Current(d), "FAILED")
  /\ MovesTo(d, "answered")
  /\ UNCHANGED <<incident, rules, edits, due, todo, sent>>
LogFailure(d) ==
  /\ At(d, "failing")
  /\ MovesTo(d, "next")
  /\ UNCHANGED <<incident, rules, edits, due, todo, delivering>>
MarkFailed(d) ==
  /\ At(d, "failing")
  /\ Mark(Current(d), "FAILED")
  /\ MovesTo(d, "next")
  /\ UNCHANGED <<incident, rules, edits, due, todo, sent>>

(* What throws out of dispatch: reading the rules, creating a row (also     *)
(* when its rule was removed since), marking it SENDING or FAILED.         *)
DispatchThrows(d) ==
  /\ \/ At(d, "rules") \/ At(d, "created") \/ At(d, "failing")
     \/ At(d, "next") /\ todo[d] # {}
  /\ MovesTo(d, "thrown")
  /\ UNCHANGED <<incident, rules, edits, due, todo, delivering>>

DispatchEnds(d) ==
  /\ At(d, "next")
  /\ todo[d] = {}
  /\ MovesTo(d, "answered")
  /\ UNCHANGED <<incident, rules, edits, due, todo, delivering>>

(* update and remove of a rule; to a dispatch, a rule that is created is    *)
(* one that is enabled.                                                    *)
EditRule(r, row) ==
  /\ edits < MaxEdits
  /\ rules[r] # NoRule
  /\ row # rules[r]
  /\ rules' = [rules EXCEPT ![r] = row]
  /\ edits' = edits + 1
  /\ UNCHANGED <<incident, caller, due, todo, delivering>>

NotificationsStop ==
  /\ caller' = [d \in Dispatches |->
                 IF At(d, "waiting") \/ caller[d].stage \in Over THEN caller[d]
                 ELSE [caller[d] EXCEPT !.stage = "stopped"]]
  /\ UNCHANGED <<incident, rules, edits, due, todo, delivering>>

DispatchStep(d) ==
  \/ \E severity \in 0..4 : ReadRules(d, severity)
  \/ \E j \in todo[d] : CreateRow(d, j)
  \/ MarkSending(d) \/ Deliver(d) \/ MarkSent(d) \/ DeliveryThrows(d) \/ MarkFailed(d)
  \/ DispatchThrows(d) \/ DispatchEnds(d)

NotificationsNext ==
  \/ \E d \in Dispatches :
       \/ \E status \in Statuses : Transition(d, status)
       \/ \E event \in {"INCIDENT_CREATED", "INCIDENT_CORRELATED", "RECOVERY_DETECTED"} :
            AlertProcessed(d, event)
       \/ DispatchStep(d)
  \/ \E r \in Rules, row \in RuleRows \union {NoRule} : EditRule(r, row)

NotificationsSpec == NotificationsInit /\ [][NotificationsNext \/ NotificationsStop]_notifying

-----------------------------------------------------------------------------
(* The row of a notification is never ahead of its message (JobLedger).      *)
LedgerStatus(row) == CASE row = "SENDING" -> "RUNNING" [] row = "SENT" -> "DONE" [] OTHER -> row
NotificationLedger == INSTANCE JobLedger WITH
  Jobs <- Job, status <- [j \in Job |-> LedgerStatus(notifications[j])], effect <- sent

(* A request answered without error, or a delivery that goes on, has a      *)
(* settled row for every destination that was due: one destination's        *)
(* failure keeps no other from its message.                                *)
AnsweredIsNotified ==
  \A d \in Dispatches : At(d, "answered") =>
    \A j \in due[d] : notifications[j] \in {"SENT", "FAILED", "SKIPPED"}

(* A row is left PENDING or SENDING only by a dispatch that is at it, that  *)
(* threw, or that the process took down.                                   *)
UnsettledIsInterrupted ==
  \A j \in Job : notifications[j] \in {"PENDING", "SENDING"} =>
    \/ caller[j[1]].stage \in Working /\ Current(j[1]) = j
    \/ caller[j[1]].stage \in {"thrown", "stopped"}
=============================================================================
