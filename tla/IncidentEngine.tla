--------------------------- MODULE IncidentEngine ---------------------------
(***************************************************************************)
(* Alerts become incidents (src/incidents/incident-engine.service.ts) while *)
(* operators move incidents along their life cycle                         *)
(* (src/incidents/incidents.service.ts).                                   *)
(*                                                                         *)
(* Each delivery of an alert - a queue message, an HTTP request, a polled  *)
(* event, or a repetition of one - is handled by a worker in one           *)
(* PostgreSQL transaction at READ COMMITTED: every statement reads what is *)
(* committed when it starts, writes stay private until the commit, and a   *)
(* row, a sequence row or a unique-index entry written by an unfinished    *)
(* transaction makes the next writer wait.  A worker's step is one such    *)
(* statement.                                                              *)
(***************************************************************************)
EXTENDS CorrelationEngine, IncidentStates

CONSTANTS Workers,       \* deliveries that may be in progress together
          Operators,     \* HTTP requests that change a status
          IncidentIds    \* the uuids incidents draw from

ASSUME IdsAssumption == Null \notin IncidentIds /\ IsFiniteSet(Workers)

VARIABLES
  alertStatus,   \* alerts.status, "ABSENT" before the row is inserted
  incidents,     \* the committed incidents rows, by id
  links,         \* the committed incident_events rows with their timeline kind
  results,       \* the committed correlation_results rows
  nextNumber,    \* incident_sequences.nextNumber, 0 before the row exists
  tx,            \* the open transaction of each worker
  requests       \* the open transaction of each operator

database == <<alertStatus, incidents, links, results, nextNumber>>
vars == <<alertStatus, incidents, links, results, nextNumber, tx, requests>>

YearOf(a) == AlertData[a].year
Years == {YearOf(a) : a \in Alerts}
Stamps == {"acknowledgedAt", "resolvedAt", "closedAt"}
LinkKinds == {"INCIDENT_CREATED", "ALERT_CORRELATED", "RECOVERY_DETECTED"}

IncidentRows ==
  [status : Statuses, correlationKey : Keys, severity : Severities,
   diagnosis : STRING, rootCauseConfidence : Nat, detectedAt : Int,
   year : Years, number : Nat, stamps : SUBSET Stamps]

Idle == [pc |-> "idle"]

(* What a transaction knows grows with its program counter: the alert, its *)
(* decision, then the incident it found or makes, the row it will write    *)
(* and whether it writes that row at all.                                  *)
Checking == [pc : {"check", "analyze"}, alert : Alerts]
Deciding == [pc : {"find", "number", "ignore"}, alert : Alerts,
             decision : Decisions]
Targeting == [pc : {"update", "attach", "record"}, alert : Alerts,
              decision : Decisions, incident : IncidentIds, row : IncidentRows,
              writes : BOOLEAN, kind : LinkKinds]
Transactions == {Idle} \union Checking \union Deciding \union Targeting

Requests == {Idle} \union
            [pc : {"write"}, incident : IncidentIds, from : Statuses, to : Statuses]

TypeOK ==
  /\ alertStatus \in [Alerts -> {"ABSENT", "NEW", "CORRELATED", "RESOLVED"}]
  /\ DOMAIN incidents \subseteq IncidentIds
  /\ incidents \in [DOMAIN incidents -> IncidentRows]
  /\ links \subseteq [alert : Alerts, incident : DOMAIN incidents, kind : LinkKinds]
  /\ results \subseteq [alert : Alerts, decision : Decisions,
                        incident : DOMAIN incidents \union {Null}]
  /\ nextNumber \in [Years -> Nat]
  /\ tx \in [Workers -> Transactions]
  /\ requests \in [Operators -> Requests]

Init ==
  /\ alertStatus = [a \in Alerts |-> "ABSENT"]
  /\ incidents = <<>>
  /\ links = {}
  /\ results = {}
  /\ nextNumber = [y \in Years |-> 0]
  /\ tx = [w \in Workers |-> Idle]
  /\ requests = [o \in Operators |-> Idle]

-----------------------------------------------------------------------------
Stored == {a \in Alerts : alertStatus[a] # "ABSENT"}
IsLinked(a) == \E l \in links : l.alert = a
IsRecorded(a) == \E r \in results : r.alert = a

(* Locks held by the unfinished transaction of worker w.                   *)
HasWritten(w) == tx[w].pc \in {"attach", "record"} /\ tx[w].writes
HoldsIncident(w, i) == HasWritten(w) /\ tx[w].incident = i
HoldsSequence(w, y) == /\ HasWritten(w)
                       /\ tx[w].kind = "INCIDENT_CREATED"
                       /\ tx[w].row.year = y
HoldsLink(w, a) == tx[w].pc = "record" /\ tx[w].alert = a

Enter(w, transaction) ==
  /\ tx' = [tx EXCEPT ![w] = transaction]
  /\ UNCHANGED <<database, requests>>

(* The delivery inserts the alert, or finds it on the unique               *)
(* externalEventId, and opens the engine's transaction.                    *)
Ingest(w, a) ==
  /\ tx[w] = Idle
  /\ alertStatus' = IF alertStatus[a] # "ABSENT" THEN alertStatus
                    ELSE [alertStatus EXCEPT ![a] =
                            IF IsRecovery(a) THEN "RESOLVED" ELSE "NEW"]
  /\ tx' = [tx EXCEPT ![w] = [pc |-> "check", alert |-> a]]
  /\ UNCHANGED <<incidents, links, results, nextNumber, requests>>

(* An alert that is already linked ends the transaction: ALREADY_PROCESSED. *)
CheckLink(w) ==
  /\ tx[w].pc = "check"
  /\ Enter(w, IF IsLinked(tx[w].alert) THEN Idle
              ELSE [pc |-> "analyze", alert |-> tx[w].alert])

(* Faulty variant: counts only the alerts that joined no incident yet.     *)
AnalyzeNewAlerts(w) ==
  /\ tx[w].pc = "analyze"
  /\ Enter(w, [pc |-> "find", alert |-> tx[w].alert,
               decision |-> Analyze(tx[w].alert, {a \in Stored : alertStatus[a] = "NEW"})])

AnalyzeAlert(w) ==
  /\ tx[w].pc = "analyze"
  /\ Enter(w, [pc |-> "find", alert |-> tx[w].alert,
               decision |-> Analyze(tx[w].alert, Stored)])

-----------------------------------------------------------------------------
OpenWithKey(key) == {i \in DOMAIN incidents :
                       /\ incidents[i].status \in OpenStatuses
                       /\ incidents[i].correlationKey = key}

(* Faulty variants: a window open at its start, and no window.             *)
JoinableAfter(a, key) == {i \in OpenWithKey(key) :
                            incidents[i].detectedAt > WindowStart(a)}
JoinableAnyTime(a, key) == OpenWithKey(key)

(* The open incidents a fault alert may join.                              *)
Joinable(a, key) == {i \in OpenWithKey(key) :
                       incidents[i].detectedAt >= WindowStart(a)}

Earliest(S) == {i \in S : \A j \in S : incidents[i].detectedAt <= incidents[j].detectedAt}
Latest(S) == {i \in S : \A j \in S : incidents[i].detectedAt >= incidents[j].detectedAt}

(* Faulty variants: the diagnosis, or the severity, of the last decision.  *)
UpgradedToLastDiagnosis(row, d) ==
  [row EXCEPT
     !.severity = IF d.severity > row.severity THEN d.severity ELSE row.severity,
     !.diagnosis = d.diagnosis,
     !.rootCauseConfidence = IF d.rootCauseConfidence > row.rootCauseConfidence
                             THEN d.rootCauseConfidence
                             ELSE row.rootCauseConfidence]
UpgradedToLastSeverity(row, d) ==
  [row EXCEPT
     !.severity = d.severity,
     !.diagnosis = IF d.rootCauseConfidence > row.rootCauseConfidence
                   THEN d.diagnosis ELSE row.diagnosis,
     !.rootCauseConfidence = IF d.rootCauseConfidence > row.rootCauseConfidence
                             THEN d.rootCauseConfidence
                             ELSE row.rootCauseConfidence]

(* applyDecision: the row as the worker read it, upgraded by its decision. *)
Upgraded(row, d) ==
  [row EXCEPT
     !.severity = IF d.severity > row.severity THEN d.severity ELSE row.severity,
     !.diagnosis = IF d.rootCauseConfidence > row.rootCauseConfidence
                   THEN d.diagnosis ELSE row.diagnosis,
     !.rootCauseConfidence = IF d.rootCauseConfidence > row.rootCauseConfidence
                             THEN d.rootCauseConfidence
                             ELSE row.rootCauseConfidence]

Target(w, i, row, kind) ==
  [pc |-> IF row = incidents[i] /\ kind = "ALERT_CORRELATED"
          THEN "attach" ELSE "update",
   alert |-> tx[w].alert, decision |-> tx[w].decision, incident |-> i,
   row |-> row, writes |-> FALSE, kind |-> kind]

(* findFirst of a fault alert, oldest incident first.                      *)
FindIncident(w) ==
  /\ tx[w].pc = "find"
  /\ ~IsRecovery(tx[w].alert)
  /\ LET d == tx[w].decision
         found == Earliest(Joinable(tx[w].alert, d.correlationKey))
     IN  \/ /\ found = {}
            /\ Enter(w, [tx[w] EXCEPT !.pc = "number"])
         \/ \E i \in found :
              Enter(w, Target(w, i, Upgraded(incidents[i], d), "ALERT_CORRELATED"))

(* findFirst of a recovery alert: no time window, newest incident first.   *)
FindRecovering(w) ==
  /\ tx[w].pc = "find"
  /\ IsRecovery(tx[w].alert)
  /\ LET found == Latest(OpenWithKey(tx[w].decision.correlationKey))
     IN  \/ /\ found = {}
            /\ Enter(w, [tx[w] EXCEPT !.pc = "ignore"])
         \/ \E i \in found :
              Enter(w, Target(w, i, [incidents[i] EXCEPT !.status = "MONITORING"],
                              "RECOVERY_DETECTED"))

-----------------------------------------------------------------------------
(* incident.update: waits for the row lock, then writes privately.         *)
UpdateIncident(w) ==
  /\ tx[w].pc = "update"
  /\ \A v \in Workers \ {w} : ~HoldsIncident(v, tx[w].incident)
  /\ Enter(w, [tx[w] EXCEPT !.pc = "attach", !.writes = TRUE])

NewRow(a, d, number) ==
  [status |-> "DETECTED", correlationKey |-> d.correlationKey,
   severity |-> d.severity, diagnosis |-> d.diagnosis,
   rootCauseConfidence |-> d.rootCauseConfidence,
   detectedAt |-> AlertData[a].detectedAt, year |-> YearOf(a),
   number |-> number, stamps |-> {}]

(* Faulty variant: the next number is read without locking the sequence.   *)
CreateIncidentUnlocked(w) ==
  /\ tx[w].pc = "number"
  /\ LET a == tx[w].alert
     IN  \E i \in {j \in IncidentIds \ DOMAIN incidents :
                    \A v \in Workers : ~HoldsIncident(v, j)} :
           Enter(w, [pc |-> "attach", alert |-> a, decision |-> tx[w].decision,
                     incident |-> i,
                     row |-> NewRow(a, tx[w].decision, nextNumber[YearOf(a)] + 1),
                     writes |-> TRUE, kind |-> "INCIDENT_CREATED"])

(* The sequence upsert, which waits for the year's row, and the insert of  *)
(* the incident under a fresh uuid.                                        *)
CreateIncident(w) ==
  /\ tx[w].pc = "number"
  /\ LET a == tx[w].alert
         fresh == {i \in IncidentIds \ DOMAIN incidents :
                     \A v \in Workers : ~HoldsIncident(v, i)}
     IN  /\ \A v \in Workers \ {w} : ~HoldsSequence(v, YearOf(a))
         /\ \E i \in fresh :
              Enter(w, [pc |-> "attach", alert |-> a, decision |-> tx[w].decision,
                        incident |-> i,
                        row |-> NewRow(a, tx[w].decision, nextNumber[YearOf(a)] + 1),
                        writes |-> TRUE, kind |-> "INCIDENT_CREATED"])

(* Faulty variant: waits on a committed link as if it were unfinished.     *)
AttachAlertOrWait(w) ==
  /\ tx[w].pc = "attach"
  /\ \A v \in Workers \ {w} : ~HoldsLink(v, tx[w].alert)
  /\ ~IsLinked(tx[w].alert)
  /\ Enter(w, [tx[w] EXCEPT !.pc = "record"])

(* attachAlert: the insert waits for an unfinished insert of the same      *)
(* alert and fails, rolling everything back, on a committed one.           *)
AttachAlert(w) ==
  /\ tx[w].pc = "attach"
  /\ \A v \in Workers \ {w} : ~HoldsLink(v, tx[w].alert)
  /\ Enter(w, IF IsLinked(tx[w].alert) THEN Idle
              ELSE [tx[w] EXCEPT !.pc = "record"])

(* Faulty variant: every update writes the whole row as it was read.       *)
WrittenWholeRow(w) ==
  [j \in DOMAIN incidents \union {tx[w].incident} |->
     IF j = tx[w].incident THEN tx[w].row ELSE incidents[j]]

(* The committed rows of the incident table after worker w commits.        *)
Written(w) ==
  LET i == tx[w].incident
      row == tx[w].row
  IN  CASE tx[w].kind = "INCIDENT_CREATED" ->
             [j \in DOMAIN incidents \union {i} |->
                IF j = i THEN row ELSE incidents[j]]
        [] tx[w].kind = "ALERT_CORRELATED" /\ tx[w].writes ->
             [incidents EXCEPT
                ![i].severity = row.severity, ![i].diagnosis = row.diagnosis,
                ![i].rootCauseConfidence = row.rootCauseConfidence]
        [] tx[w].kind = "RECOVERY_DETECTED" ->
             [incidents EXCEPT ![i].status = row.status]
        [] OTHER -> incidents

(* Faulty variant: the number advances with every alert.                   *)
NumbersForEveryAlert(w) == [nextNumber EXCEPT ![YearOf(tx[w].alert)] = @ + 1]

(* The sequence rows after worker w commits.                               *)
NumbersWritten(w) ==
  IF tx[w].kind = "INCIDENT_CREATED"
  THEN [nextNumber EXCEPT ![YearOf(tx[w].alert)] = tx[w].row.number]
  ELSE nextNumber

(* Faulty variant: only a founding alert becomes CORRELATED.               *)
FounderCorrelated(w) ==
  IF tx[w].kind = "INCIDENT_CREATED"
  THEN [alertStatus EXCEPT ![tx[w].alert] = "CORRELATED"] ELSE alertStatus

(* attachAlert leaves the status of a recovery alert alone.                *)
AlertsWritten(w) ==
  IF alertStatus[tx[w].alert] = "RESOLVED" THEN alertStatus
  ELSE [alertStatus EXCEPT ![tx[w].alert] = "CORRELATED"]

(* record, then the commit, or the rollback when a result exists already.  *)
Commit(w) ==
  /\ tx[w].pc = "record"
  /\ LET a == tx[w].alert
         i == tx[w].incident
     IN  IF IsRecorded(a)
         THEN Enter(w, Idle)
         ELSE /\ incidents' = Written(w)
              /\ nextNumber' = NumbersWritten(w)
              /\ alertStatus' = AlertsWritten(w)
              /\ links' = links \union
                   {[alert |-> a, incident |-> i, kind |-> tx[w].kind]}
              /\ results' = results \union
                   {[alert |-> a, incident |-> i, decision |-> tx[w].decision]}
              /\ tx' = [tx EXCEPT ![w] = Idle]
              /\ UNCHANGED requests

(* Faulty variant: record does not find the result of an earlier delivery. *)
CommitIgnoredAgain(w) ==
  /\ tx[w].pc = "ignore"
  /\ results' = results \union
       {[alert |-> tx[w].alert, decision |-> tx[w].decision, incident |-> Null]}
  /\ tx' = [tx EXCEPT ![w] = Idle]
  /\ UNCHANGED <<alertStatus, incidents, links, nextNumber, requests>>

(* A recovery alert with no open incident records its decision alone.      *)
CommitIgnored(w) ==
  /\ tx[w].pc = "ignore"
  /\ IF IsRecorded(tx[w].alert)
     THEN Enter(w, Idle)
     ELSE /\ results' = results \union
               {[alert |-> tx[w].alert, decision |-> tx[w].decision,
                 incident |-> Null]}
          /\ tx' = [tx EXCEPT ![w] = Idle]
          /\ UNCHANGED <<alertStatus, incidents, links, nextNumber, requests>>

(* A timeout, a lost connection or a crash rolls the transaction back.     *)
Abort(w) ==
  /\ tx[w] # Idle
  /\ Enter(w, Idle)

-----------------------------------------------------------------------------
StampOf(to) == CASE to = "INVESTIGATING" -> {"acknowledgedAt"}
                 [] to = "RESOLVED" -> {"resolvedAt"}
                 [] to = "CLOSED" -> {"closedAt"}
                 [] OTHER -> {}

(* Faulty variant: the transition is not asserted.                         *)
ReadIncidentUnchecked(o, i, to) ==
  /\ requests[o] = Idle
  /\ requests' = [requests EXCEPT ![o] = [pc |-> "write", incident |-> i,
                                           from |-> incidents[i].status, to |-> to]]
  /\ UNCHANGED <<database, tx>>

(* transition reads the incident and accepts the change; a refused request *)
(* changes nothing.  The status it read is the previousStatus of the       *)
(* timeline entry it writes.                                               *)
ReadIncident(o, i, to) ==
  /\ requests[o] = Idle
  /\ CanTransition(incidents[i].status, to)
  /\ requests' = [requests EXCEPT ![o] = [pc |-> "write", incident |-> i,
                                           from |-> incidents[i].status, to |-> to]]
  /\ UNCHANGED <<database, tx>>

(* The update by id, which waits for the row lock, and the commit.         *)
WriteStatus(o) ==
  /\ requests[o].pc = "write"
  /\ LET i == requests[o].incident
         to == requests[o].to
     IN  /\ \A w \in Workers : ~HoldsIncident(w, i)
         /\ incidents' = [incidents EXCEPT ![i].status = to,
                                           ![i].stamps = @ \union StampOf(to)]
  /\ requests' = [requests EXCEPT ![o] = Idle]
  /\ UNCHANGED <<alertStatus, links, results, nextNumber, tx>>

AbortRequest(o) ==
  /\ requests[o] # Idle
  /\ requests' = [requests EXCEPT ![o] = Idle]
  /\ UNCHANGED <<database, tx>>

-----------------------------------------------------------------------------
WorkerStep(w) == \/ CheckLink(w)      \/ AnalyzeAlert(w)
                 \/ FindIncident(w)   \/ FindRecovering(w)
                 \/ UpdateIncident(w) \/ CreateIncident(w)
                 \/ AttachAlert(w)    \/ Commit(w) \/ CommitIgnored(w)

OperatorStep(o) == \/ \E i \in DOMAIN incidents, to \in Statuses : ReadIncident(o, i, to)
                   \/ WriteStatus(o)
                   \/ AbortRequest(o)

Next == \/ \E w \in Workers : \/ \E a \in Alerts : Ingest(w, a)
                              \/ WorkerStep(w)
                              \/ Abort(w)
        \/ \E o \in Operators : OperatorStep(o)

Spec == Init /\ [][Next]_vars

-----------------------------------------------------------------------------
(* Safety.                                                                 *)

LinksOf(i) == {l \in links : l.incident = i}
FaultLinksOf(i) == {l \in LinksOf(i) : ~IsRecovery(l.alert)}
ResultOf(a) == CHOOSE r \in results : r.alert = a

(* However often and wherever an alert is delivered, at most one committed *)
(* incident_events row and one correlation_results row carry it            *)
(* (processInTransaction, attachAlert, record).                            *)
AlertLinkedOnce ==
  /\ \A l, m \in links : l.alert = m.alert => l = m
  /\ \A r, s \in results : r.alert = s.alert => r = s

NumbersOf(y) ==
  {incidents[i].number : i \in {j \in DOMAIN incidents : incidents[j].year = y}}

(* The codes of each year run from 1 with no gap and no repetition, also   *)
(* after transactions that took a number and failed (the sequence upsert). *)
CodesSequential ==
  /\ \A y \in Years : NumbersOf(y) = 1..nextNumber[y]
  /\ \A i, j \in DOMAIN incidents :
       incidents[i].year = incidents[j].year /\ incidents[i].number = incidents[j].number
         => i = j

(* A transaction leaves all of its rows or none: a link, its result and,   *)
(* for a fault, the alert status CORRELATED go together.                   *)
NothingHalfDone ==
  /\ {<<l.alert, l.incident>> : l \in links}
       = {<<r.alert, r.incident>> : r \in {s \in results : s.incident # Null}}
  /\ \A a \in Alerts : ~IsRecovery(a) => (alertStatus[a] = "CORRELATED" <=> IsLinked(a))

(* Every incident has one founding alert, linked to it, whose time and key *)
(* it carries; every alert linked to it has its key, and no fault joined   *)
(* it that was detected more than a window after it.                       *)
IncidentHoldsItsAlerts ==
  \A i \in DOMAIN incidents :
    /\ Cardinality({l \in LinksOf(i) : l.kind = "INCIDENT_CREATED"}) = 1
    /\ \A l \in LinksOf(i) :
         /\ CorrelationKey(l.alert) = incidents[i].correlationKey
         /\ l.kind = "INCIDENT_CREATED"
              => AlertData[l.alert].detectedAt = incidents[i].detectedAt
         /\ l.kind = "ALERT_CORRELATED"
              => incidents[i].detectedAt >= WindowStart(l.alert)

(* The verdict of an incident is never a mixture: its diagnosis comes with *)
(* the confidence one of its own alerts gave it, and its severity is the   *)
(* one some alert of it was given, also when updates race.                 *)
VerdictHasEvidence ==
  \A i \in DOMAIN incidents :
    /\ \E l \in FaultLinksOf(i) :
         LET d == ResultOf(l.alert).decision
         IN  /\ d.diagnosis = incidents[i].diagnosis
             /\ d.rootCauseConfidence = incidents[i].rootCauseConfidence
    /\ \E l \in FaultLinksOf(i) :
         ResultOf(l.alert).decision.severity = incidents[i].severity

(* Of faults on one object detected within one window, the last to be      *)
(* analysed counts them all: a rule's minimum number of events is reached  *)
(* in some result, however the deliveries interleave (ingest commits       *)
(* before analyze reads).                                                  *)
EscalationNotMissed ==
  \A S \in SUBSET {a \in Alerts : IsLinked(a) /\ ~IsRecovery(a)} :
    (S # {} /\ \A a, b \in S : b \in Counted(a, S))
      => \E a \in S : ResultOf(a).decision.eventCount >= Cardinality(S)

(* A resolved incident has its resolvedAt, a closed one both of its times, *)
(* whatever the requests that race for it.                                 *)
StampsMatchStatus ==
  \A i \in DOMAIN incidents :
    /\ incidents[i].status = "RESOLVED" => "resolvedAt" \in incidents[i].stamps
    /\ incidents[i].status = "CLOSED" => {"resolvedAt", "closedAt"} \subseteq incidents[i].stamps

(* Every status change follows the table of incident-state-machine.ts.     *)
StatusFollowsMachine ==
  [][\A i \in DOMAIN incidents :
       incidents'[i].status # incidents[i].status
         => CanTransition(incidents[i].status, incidents'[i].status)]_vars

(* What skips the table is a race or a recovery, and nothing else: a request *)
(* writes what was accepted from a status that is no longer the incident's  *)
(* (transition), or a recovery alert monitors an incident that it read open *)
(* (handleRecoveryAlert).  No upgrade of an incident changes its status.   *)
Overwrites(o, i, to) ==
  /\ requests[o].pc = "write" /\ requests[o].incident = i /\ requests[o].to = to
  /\ CanTransition(requests[o].from, to)
  /\ requests[o].from # incidents[i].status
Recovers(w, i, to) ==
  /\ tx[w].pc = "record" /\ tx[w].kind = "RECOVERY_DETECTED" /\ tx[w].incident = i
  /\ to = "MONITORING"
SkipsAreRaces ==
  [][\A i \in DOMAIN incidents :
       LET from == incidents[i].status
           to == incidents'[i].status
       IN  to # from => \/ CanTransition(from, to)
                        \/ \E o \in Operators : Overwrites(o, i, to)
                        \/ \E w \in Workers : Recovers(w, i, to)]_vars

(* Upgrades only raise: an incident is at least as severe, and at least as *)
(* confidently diagnosed, as the decision of every fault linked to it      *)
(* (applyDecision).                                                        *)
VerdictCoversAlerts ==
  \A r \in results :
    r.incident # Null /\ ~IsRecovery(r.alert)
      => /\ incidents[r.incident].severity >= r.decision.severity
         /\ incidents[r.incident].rootCauseConfidence >= r.decision.rootCauseConfidence

(* Deliveries that race may split a group, by no more incidents than there  *)
(* are deliveries: of those with one key and within one window of each     *)
(* other that nobody has acted upon yet, there are never more than workers *)
(* (findFirst and create are two statements, and nothing keeps both from   *)
(* creating).                                                              *)
Alike(i, j) ==
  /\ incidents[i].correlationKey = incidents[j].correlationKey
  /\ incidents[i].detectedAt - incidents[j].detectedAt \in -Window..Window
NewIncidents == {i \in DOMAIN incidents : incidents[i].status = "DETECTED"}
SplitsAreBounded ==
  \A S \in SUBSET NewIncidents :
    (\A i, j \in S : Alike(i, j)) => Cardinality(S) <= Cardinality(Workers)

(* Whatever upgrades race, and whichever is written last, an incident is   *)
(* never less severe, or less confidently diagnosed, than the decision it  *)
(* was founded with (applyDecision).                                       *)
VerdictCoversFounder ==
  \A l \in links : l.kind = "INCIDENT_CREATED" =>
    LET d == ResultOf(l.alert).decision
    IN  /\ incidents[l.incident].severity >= d.severity
        /\ incidents[l.incident].rootCauseConfidence >= d.rootCauseConfidence

(* Where only recovery alerts change a status, an incident that recovered  *)
(* is in MONITORING: a correlated update computed from an older copy of    *)
(* the row does not put the status back (applyDecision).                   *)
RecoveryNotUndone ==
  \A l \in links : l.kind = "RECOVERY_DETECTED"
                     => incidents[l.incident].status = "MONITORING"

-----------------------------------------------------------------------------
(* The strengthening that makes the invariants above inductive.            *)

(* The incident a transaction updates or links to exists.                  *)
TargetsExist ==
  \A w \in Workers :
    tx[w].pc \in {"update", "attach", "record"} /\ tx[w].kind # "INCIDENT_CREATED"
      => tx[w].incident \in DOMAIN incidents

(* Past the unique index, an alert has no committed link, and no other     *)
(* transaction is past the index with it.                                  *)
LinkGuarded ==
  \A w \in Workers :
    tx[w].pc = "record"
      => /\ ~IsLinked(tx[w].alert)
         /\ \A v \in Workers : HoldsLink(v, tx[w].alert) => v = w

Creating(w) == /\ tx[w].pc \in {"update", "attach", "record"}
               /\ tx[w].kind = "INCIDENT_CREATED"

(* The number a transaction took stays the next one of its year, and its   *)
(* uuid stays unused, until it ends.                                       *)
NumberGuarded ==
  \A w \in Workers :
    Creating(w)
      => /\ HasWritten(w)
         /\ tx[w].row.year = YearOf(tx[w].alert)
         /\ tx[w].row.number = nextNumber[tx[w].row.year] + 1
         /\ tx[w].incident \notin DOMAIN incidents
         /\ \A v \in Workers :
              Creating(v) /\ (tx[v].row.year = tx[w].row.year
                                \/ tx[v].incident = tx[w].incident) => v = w

(* What no transaction may lose while another works.                       *)
EngineInv == TargetsExist /\ LinkGuarded /\ NumberGuarded

-----------------------------------------------------------------------------
EntryOf(a) == IF IsLinked(a) THEN (CHOOSE l \in links : l.alert = a).incident ELSE Null
CodeOf(i) == [year |-> incidents[i].year, number |-> incidents[i].number]

Ledger == INSTANCE AlertLedger WITH
            Nowhere <- Null,
            entry <- [a \in Alerts |-> EntryOf(a)],
            code <- [i \in DOMAIN incidents |-> CodeOf(i)],
            issued <- nextNumber

(* The racing transactions of the engine implement the ledger: each commit *)
(* enters one alert, once, and every other step leaves the books alone.    *)
KeepsLedger == Ledger!Spec

(* No deadlock: as long as transactions are open, one of them can run its  *)
(* next statement, whatever row, sequence and index locks the others hold. *)
SomeoneProceeds ==
  (\E w \in Workers : tx[w] # Idle)
    => \E w \in Workers : tx[w] # Idle /\ ENABLED WorkerStep(w)
=============================================================================
