------------------------ MODULE IncidentEngineProofs ------------------------
(***************************************************************************)
(* Theorems about the incident engine for every set of alerts, workers,    *)
(* operators, incident ids and rules.                                      *)
(***************************************************************************)
EXTENDS IncidentEngine, FiniteSetTheorems, TLAPS

(* A nonempty set of severities has a greatest one.                        *)
LEMMA GreatestSeverity ==
  ASSUME NEW S \in SUBSET Severities, S # {}
  PROVE  \E s \in S : \A t \in S : t <= s
<1>1. PICK x \in S : TRUE
  OBVIOUS
<1>2. CASE 5 \in S
  BY <1>2 DEF Severities
<1>3. CASE 5 \notin S /\ 4 \in S
  BY <1>3 DEF Severities
<1>4. CASE 5 \notin S /\ 4 \notin S /\ 3 \in S
  BY <1>4 DEF Severities
<1>5. CASE 5 \notin S /\ 4 \notin S /\ 3 \notin S /\ 2 \in S
  BY <1>5 DEF Severities
<1>6. CASE 5 \notin S /\ 4 \notin S /\ 3 \notin S /\ 2 \notin S
  BY <1>1, <1>6 DEF Severities
<1> QED
  BY <1>2, <1>3, <1>4, <1>5, <1>6

(* analyze returns a well-formed decision for every set of stored alerts.  *)
LEMMA AnalyzeType ==
  ASSUME NEW a \in Alerts, NEW stored \in SUBSET Alerts
  PROVE  Analyze(a, stored) \in Decisions
<1>1. EventCount(a, stored) \in Nat
  <2>1. IsFiniteSet(Counted(a, stored))
    BY AlertsAssumption, FS_Subset DEF Counted
  <2> QED
    BY <2>1, FS_CardinalityType DEF EventCount
<1>2. \A k \in DOMAIN Rules : Rules[k] \in RuleRows
  BY RulesAssumption
<1>3. /\ Diagnosis(a, stored).diagnosis \in STRING
      /\ Diagnosis(a, stored).rootCauseConfidence \in Nat
  <2> DEFINE classifying == {k \in MatchingRules(a, stored) : Rules[k].diagnosis # Null}
             first == {k \in classifying : \A j \in classifying : k <= j}
             k0 == CHOOSE k \in first : TRUE
  <2>1. CASE first = {}
    BY <2>1, NullAssumption DEF Diagnosis
  <2>2. CASE first # {}
    <3>1. k0 \in first
      BY <2>2
    <3>2. k0 \in DOMAIN Rules /\ Rules[k0].diagnosis # Null
      BY <3>1 DEF MatchingRules
    <3>3. Rules[k0].diagnosis \in STRING /\ Rules[k0].rootCauseConfidence \in Nat
      BY <1>2, <3>2 DEF RuleRows
    <3>4. Diagnosis(a, stored) = [diagnosis |-> Rules[k0].diagnosis,
                                  rootCauseConfidence |-> Rules[k0].rootCauseConfidence]
      BY <2>2 DEF Diagnosis
    <3> QED
      BY <3>3, <3>4
  <2> QED
    BY <2>1, <2>2
<1>4. Severity(a, stored) \in Severities
  <2> DEFINE raised == {AlertData[a].severity} \union
                       ({Rules[k].severity : k \in MatchingRules(a, stored)} \ {Null})
  <2>1. AlertData[a].severity \in Severities
    BY AlertsAssumption DEF AlertRows
  <2>2. \A k \in MatchingRules(a, stored) : Rules[k].severity \in Severities \union {Null}
    BY <1>2 DEF MatchingRules, RuleRows
  <2>3. raised \in SUBSET Severities /\ raised # {}
    BY <2>1, <2>2
  <2>4. PICK top \in raised : \A t \in raised : t <= top
    BY <2>3, GreatestSeverity
  <2>5. (CHOOSE s \in raised : \A t \in raised : t <= s) \in raised
    BY <2>4
  <2> QED
    BY <2>3, <2>5 DEF Severity
<1> QED
  BY <1>1, <1>3, <1>4 DEF Analyze, Decisions, Keys

-----------------------------------------------------------------------------
(* The program counter of a transaction tells what it knows.               *)
LEMMA TransactionShape ==
  ASSUME NEW t \in Transactions
  PROVE  /\ t.pc = "idle" => t = Idle
         /\ t.pc \in {"check", "analyze"} => t \in Checking
         /\ t.pc \in {"find", "number", "ignore"} => t \in Deciding
         /\ t.pc \in {"update", "attach", "record"} => t \in Targeting
BY DEF Transactions, Idle, Checking, Deciding, Targeting

(* An upgraded row and a new row are rows.                                 *)
LEMMA UpgradedType ==
  ASSUME NEW row \in IncidentRows, NEW d \in Decisions
  PROVE  Upgraded(row, d) \in IncidentRows
BY DEF Upgraded, IncidentRows, Decisions

LEMMA NewRowType ==
  ASSUME NEW a \in Alerts, NEW d \in Decisions, NEW n \in Nat
  PROVE  NewRow(a, d, n) \in IncidentRows
<1>1. AlertData[a].detectedAt \in Int /\ YearOf(a) \in Years
  BY AlertsAssumption DEF AlertRows, YearOf, Years
<1> QED
  BY <1>1 DEF NewRow, IncidentRows, Decisions, Statuses

TypeInv == TypeOK /\ TargetsExist

(* A step that only moves one worker to a well-formed transaction.         *)
LEMMA EnterType ==
  ASSUME TypeInv, NEW w \in Workers, NEW t \in Transactions, Enter(w, t),
         t.pc \in {"update", "attach", "record"} /\ t.kind # "INCIDENT_CREATED"
           => t.incident \in DOMAIN incidents
  PROVE  TypeInv'
<1>1. TypeOK'
  BY DEF TypeInv, TypeOK, Enter, database
<1>2. TargetsExist'
  BY DEF TypeInv, TypeOK, TargetsExist, Enter, database
<1> QED
  BY <1>1, <1>2 DEF TypeInv

LEMMA IdleType == Idle \in Transactions /\ Idle.pc = "idle"
BY DEF Idle, Transactions

(* Target is a transaction on an incident that exists.                     *)
LEMMA TargetType ==
  ASSUME TypeInv, NEW w \in Workers, tx[w] \in Deciding,
         NEW i \in DOMAIN incidents, NEW row \in IncidentRows,
         NEW kind \in LinkKinds
  PROVE  /\ Target(w, i, row, kind) \in Transactions
         /\ Target(w, i, row, kind).incident = i
BY DEF TypeInv, TypeOK, Target, Deciding, Targeting, Transactions

(* The rows a commit leaves are well formed.                               *)
LEMMA WrittenType ==
  ASSUME TypeInv, NEW w \in Workers, tx[w] \in Targeting
  PROVE  /\ Written(w) \in [DOMAIN Written(w) -> IncidentRows]
         /\ DOMAIN Written(w) = IF tx[w].kind = "INCIDENT_CREATED"
                                THEN DOMAIN incidents \union {tx[w].incident}
                                ELSE DOMAIN incidents
<1> DEFINE i == tx[w].incident
           row == tx[w].row
<1>1. row \in IncidentRows /\ i \in IncidentIds /\ tx[w].kind \in LinkKinds
      /\ incidents \in [DOMAIN incidents -> IncidentRows]
  BY DEF Targeting, TypeInv, TypeOK
<1>2. CASE tx[w].kind = "INCIDENT_CREATED"
  BY <1>1, <1>2 DEF Written
<1>3. CASE tx[w].kind = "ALERT_CORRELATED" /\ tx[w].writes
  <2> DEFINE new == [incidents EXCEPT
                       ![i].severity = row.severity, ![i].diagnosis = row.diagnosis,
                       ![i].rootCauseConfidence = row.rootCauseConfidence]
  <2>1. Written(w) = new
    BY <1>3 DEF Written
  <2>2. DOMAIN new = DOMAIN incidents
    OBVIOUS
  <2>3. ASSUME NEW j \in DOMAIN incidents
        PROVE  new[j] \in IncidentRows
    BY <1>1 DEF IncidentRows
  <2>4. new = [j \in DOMAIN incidents |-> new[j]]
    OBVIOUS
  <2> QED
    BY <1>3, <2>1, <2>2, <2>3, <2>4
<1>4. CASE tx[w].kind = "RECOVERY_DETECTED"
  <2> DEFINE new == [incidents EXCEPT ![i].status = row.status]
  <2>1. Written(w) = new
    BY <1>4 DEF Written
  <2>2. DOMAIN new = DOMAIN incidents
    OBVIOUS
  <2>3. ASSUME NEW j \in DOMAIN incidents
        PROVE  new[j] \in IncidentRows
    BY <1>1 DEF IncidentRows
  <2>4. new = [j \in DOMAIN incidents |-> new[j]]
    OBVIOUS
  <2> QED
    BY <1>4, <2>1, <2>2, <2>3, <2>4
<1>5. CASE tx[w].kind = "ALERT_CORRELATED" /\ ~tx[w].writes
  BY <1>1, <1>5 DEF Written
<1> QED
  BY <1>1, <1>2, <1>3, <1>4, <1>5 DEF LinkKinds, Targeting

(* A worker's statements before its commit keep the types.                 *)
LEMMA StatementType ==
  ASSUME TypeInv, NEW w \in Workers,
         \/ CheckLink(w) \/ AnalyzeAlert(w) \/ FindIncident(w) \/ FindRecovering(w)
         \/ UpdateIncident(w) \/ CreateIncident(w) \/ AttachAlert(w) \/ Abort(w)
  PROVE  TypeInv'
<1> USE DEF TypeInv, TypeOK
<1>0. tx[w] \in Transactions
  OBVIOUS
<1>1. CASE CheckLink(w)
  <2>1. tx[w].alert \in Alerts
    BY <1>0, <1>1, TransactionShape DEF CheckLink, Checking
  <2>2. [pc |-> "analyze", alert |-> tx[w].alert] \in Transactions
    BY <2>1 DEF Transactions, Checking
  <2> QED
    BY <1>1, <2>2, EnterType, IdleType DEF CheckLink
<1>2. CASE AnalyzeAlert(w)
  <2>1. tx[w].alert \in Alerts
    BY <1>0, <1>2, TransactionShape DEF AnalyzeAlert, Checking
  <2>2. Analyze(tx[w].alert, Stored) \in Decisions
    BY <2>1, AnalyzeType DEF Stored
  <2>3. [pc |-> "find", alert |-> tx[w].alert,
         decision |-> Analyze(tx[w].alert, Stored)] \in Transactions
    BY <2>1, <2>2 DEF Transactions, Deciding
  <2> QED
    BY <1>2, <2>3, EnterType DEF AnalyzeAlert
<1>3. CASE FindIncident(w)
  <2>1. tx[w] \in Deciding
    BY <1>0, <1>3, TransactionShape DEF FindIncident
  <2>2. /\ [tx[w] EXCEPT !.pc = "number"] \in Transactions
        /\ [tx[w] EXCEPT !.pc = "number"].pc = "number"
    BY <2>1 DEF Deciding, Transactions
  <2>3. ASSUME NEW i \in Earliest(Joinable(tx[w].alert, tx[w].decision.correlationKey)),
               Enter(w, Target(w, i, Upgraded(incidents[i], tx[w].decision),
                               "ALERT_CORRELATED"))
        PROVE  TypeInv'
    <3>1. i \in DOMAIN incidents
      BY DEF Earliest, Joinable, OpenWithKey
    <3>2. incidents[i] \in IncidentRows
      BY <3>1
    <3>3. Upgraded(incidents[i], tx[w].decision) \in IncidentRows
      BY <2>1, <3>2, UpgradedType DEF Deciding
    <3> QED
      BY <2>1, <2>3, <3>1, <3>3, TargetType, EnterType DEF LinkKinds
  <2>4. CASE Enter(w, [tx[w] EXCEPT !.pc = "number"])
    BY <2>2, <2>4, EnterType
  <2> QED
    BY <1>3, <2>3, <2>4 DEF FindIncident
<1>4. CASE FindRecovering(w)
  <2>1. tx[w] \in Deciding
    BY <1>0, <1>4, TransactionShape DEF FindRecovering
  <2>2. /\ [tx[w] EXCEPT !.pc = "ignore"] \in Transactions
        /\ [tx[w] EXCEPT !.pc = "ignore"].pc = "ignore"
    BY <2>1 DEF Deciding, Transactions
  <2>3. ASSUME NEW i \in Latest(OpenWithKey(tx[w].decision.correlationKey)),
               Enter(w, Target(w, i, [incidents[i] EXCEPT !.status = "MONITORING"],
                               "RECOVERY_DETECTED"))
        PROVE  TypeInv'
    <3>1. i \in DOMAIN incidents
      BY DEF Latest, OpenWithKey
    <3>2. incidents[i] \in IncidentRows
      BY <3>1
    <3>3. [incidents[i] EXCEPT !.status = "MONITORING"] \in IncidentRows
      BY <3>2 DEF IncidentRows, Statuses
    <3> QED
      BY <2>1, <2>3, <3>1, <3>3, TargetType, EnterType DEF LinkKinds
  <2>4. CASE Enter(w, [tx[w] EXCEPT !.pc = "ignore"])
    BY <2>2, <2>4, EnterType
  <2> QED
    BY <1>4, <2>3, <2>4 DEF FindRecovering
<1>5. CASE UpdateIncident(w)
  <2>1. tx[w] \in Targeting
    BY <1>0, <1>5, TransactionShape DEF UpdateIncident
  <2>2. [tx[w] EXCEPT !.pc = "attach", !.writes = TRUE] \in Transactions
    BY <2>1 DEF Targeting, Transactions
  <2> QED
    BY <1>5, <2>1, <2>2, EnterType DEF UpdateIncident, TargetsExist, Targeting
<1>6. CASE CreateIncident(w)
  <2>1. tx[w] \in Deciding
    BY <1>0, <1>6, TransactionShape DEF CreateIncident
  <2> DEFINE a == tx[w].alert
             row == NewRow(a, tx[w].decision, nextNumber[YearOf(a)] + 1)
             t(i) == [pc |-> "attach", alert |-> a, decision |-> tx[w].decision,
                      incident |-> i, row |-> row, writes |-> TRUE,
                      kind |-> "INCIDENT_CREATED"]
  <2>2. a \in Alerts /\ tx[w].decision \in Decisions /\ YearOf(a) \in Years
    BY <2>1 DEF Deciding, Years
  <2>3. row \in IncidentRows
    BY <2>2, NewRowType
  <2>4. \A i \in IncidentIds : t(i) \in Transactions
    BY <2>2, <2>3 DEF Transactions, Targeting, LinkKinds
  <2>5. PICK i \in IncidentIds : Enter(w, t(i))
    BY <1>6 DEF CreateIncident
  <2> QED
    BY <2>4, <2>5, EnterType
<1>7. CASE AttachAlert(w)
  <2>1. tx[w] \in Targeting
    BY <1>0, <1>7, TransactionShape DEF AttachAlert
  <2>2. [tx[w] EXCEPT !.pc = "record"] \in Transactions
    BY <2>1 DEF Targeting, Transactions
  <2> QED
    BY <1>7, <2>1, <2>2, EnterType, IdleType DEF AttachAlert, TargetsExist, Targeting
<1>8. CASE Abort(w)
  BY <1>8, EnterType, IdleType DEF Abort
<1> QED
  BY <1>1, <1>2, <1>3, <1>4, <1>5, <1>6, <1>7, <1>8

(* So do the delivery and the two commits.                                 *)
LEMMA IngestType ==
  ASSUME TypeInv, NEW w \in Workers, NEW a \in Alerts, Ingest(w, a)
  PROVE  TypeInv'
<1>1. [pc |-> "check", alert |-> a] \in Transactions
      /\ [pc |-> "check", alert |-> a].pc = "check"
  BY DEF Transactions, Checking
<1>2. TypeOK'
  BY <1>1 DEF TypeInv, TypeOK, Ingest
<1>3. TargetsExist'
  BY <1>1 DEF TypeInv, TypeOK, TargetsExist, Ingest
<1> QED
  BY <1>2, <1>3 DEF TypeInv

LEMMA CommitType ==
  ASSUME TypeInv, NEW w \in Workers, Commit(w)
  PROVE  TypeInv'
<1>1. tx[w] \in Targeting
  BY TransactionShape DEF TypeInv, TypeOK, Commit
<1> DEFINE a == tx[w].alert
           i == tx[w].incident
<1>2. /\ a \in Alerts /\ i \in IncidentIds /\ tx[w].kind \in LinkKinds
      /\ tx[w].decision \in Decisions /\ tx[w].row.number \in Nat
  BY <1>1 DEF Targeting, IncidentRows
<1>3. CASE IsRecorded(a)
  BY <1>3, EnterType, IdleType DEF Commit
<1>4. CASE ~IsRecorded(a)
  <2>1. /\ incidents' = Written(w)
        /\ nextNumber' = NumbersWritten(w)
        /\ alertStatus' = AlertsWritten(w)
        /\ links' = links \union {[alert |-> a, incident |-> i, kind |-> tx[w].kind]}
        /\ results' = results \union
             {[alert |-> a, incident |-> i, decision |-> tx[w].decision]}
        /\ tx' = [tx EXCEPT ![w] = Idle]
        /\ requests' = requests
    BY <1>4 DEF Commit
  <2>2. /\ incidents' \in [DOMAIN incidents' -> IncidentRows]
        /\ DOMAIN incidents' \subseteq IncidentIds
        /\ DOMAIN incidents \subseteq DOMAIN incidents'
        /\ tx[w].kind = "INCIDENT_CREATED" => i \in DOMAIN incidents'
    BY <1>1, <1>2, <2>1, WrittenType DEF TypeInv, TypeOK
  <2>3. i \in DOMAIN incidents'
    BY <2>2 DEF TypeInv, TargetsExist, Commit
  <2>4. links' \subseteq [alert : Alerts, incident : DOMAIN incidents', kind : LinkKinds]
    BY <1>2, <2>1, <2>2, <2>3 DEF TypeInv, TypeOK
  <2>5. results' \subseteq [alert : Alerts, decision : Decisions,
                            incident : DOMAIN incidents' \union {Null}]
    BY <1>2, <2>1, <2>2, <2>3 DEF TypeInv, TypeOK
  <2>6. nextNumber' \in [Years -> Nat]
    BY <1>2, <2>1 DEF TypeInv, TypeOK, NumbersWritten, Years
  <2>7. alertStatus' \in [Alerts -> {"ABSENT", "NEW", "CORRELATED", "RESOLVED"}]
    BY <1>2, <2>1 DEF TypeInv, TypeOK, AlertsWritten
  <2>8. tx' \in [Workers -> Transactions]
    BY <2>1, IdleType DEF TypeInv, TypeOK
  <2>9. TypeOK'
    BY <2>1, <2>2, <2>4, <2>5, <2>6, <2>7, <2>8 DEF TypeInv, TypeOK
  <2>10. TargetsExist'
    BY <2>1, <2>2, IdleType DEF TypeInv, TypeOK, TargetsExist
  <2> QED
    BY <2>9, <2>10 DEF TypeInv
<1> QED
  BY <1>3, <1>4

LEMMA CommitIgnoredType ==
  ASSUME TypeInv, NEW w \in Workers, CommitIgnored(w)
  PROVE  TypeInv'
<1>1. tx[w] \in Deciding
  BY TransactionShape DEF TypeInv, TypeOK, CommitIgnored
<1>2. CASE IsRecorded(tx[w].alert)
  BY <1>2, EnterType, IdleType DEF CommitIgnored
<1>3. CASE ~IsRecorded(tx[w].alert)
  <2>1. TypeOK'
    BY <1>1, <1>3, IdleType DEF TypeInv, TypeOK, CommitIgnored, Deciding
  <2>2. TargetsExist'
    BY <1>3, IdleType DEF TypeInv, TypeOK, TargetsExist, CommitIgnored
  <2> QED
    BY <2>1, <2>2 DEF TypeInv
<1> QED
  BY <1>2, <1>3

(* And so do the operators.                                                *)
LEMMA OperatorType ==
  ASSUME TypeInv, NEW o \in Operators, OperatorStep(o)
  PROVE  TypeInv'
<1>1. ASSUME NEW i \in DOMAIN incidents, NEW to \in Statuses, ReadIncident(o, i, to)
      PROVE  TypeInv'
  <2>1. incidents[i] \in IncidentRows
    BY DEF TypeInv, TypeOK
  <2>2. [pc |-> "write", incident |-> i, from |-> incidents[i].status, to |-> to] \in Requests
    BY <2>1 DEF TypeInv, TypeOK, Requests, IncidentRows
  <2> QED
    BY <1>1, <2>2 DEF TypeInv, TypeOK, TargetsExist, ReadIncident, database
<1>2. CASE WriteStatus(o)
  <2> DEFINE i == requests[o].incident
             to == requests[o].to
             new == [incidents EXCEPT ![i].status = to,
                                      ![i].stamps = @ \union StampOf(to)]
  <2>1. to \in Statuses
    BY <1>2 DEF TypeInv, TypeOK, Requests, WriteStatus, Idle
  <2>2. StampOf(to) \in SUBSET Stamps
    BY DEF StampOf, Stamps
  <2>3. ASSUME NEW j \in DOMAIN incidents
        PROVE  new[j] \in IncidentRows
    <3>1. incidents[j] \in IncidentRows
      BY DEF TypeInv, TypeOK
    <3> QED
      BY <2>1, <2>2, <3>1 DEF IncidentRows
  <2>4. incidents' = new /\ DOMAIN new = DOMAIN incidents
    BY <1>2 DEF WriteStatus
  <2>5. new = [j \in DOMAIN incidents |-> new[j]]
    OBVIOUS
  <2>6. incidents' \in [DOMAIN incidents' -> IncidentRows]
    BY <2>3, <2>4, <2>5
  <2>7. /\ requests' = [requests EXCEPT ![o] = Idle]
        /\ UNCHANGED <<alertStatus, links, results, nextNumber, tx>>
    BY <1>2 DEF WriteStatus
  <2>8. TypeOK'
    BY <2>4, <2>6, <2>7 DEF TypeInv, TypeOK, Requests
  <2>9. TargetsExist'
    BY <2>4, <2>7 DEF TypeInv, TargetsExist
  <2> QED
    BY <2>8, <2>9 DEF TypeInv
<1>3. CASE AbortRequest(o)
  BY <1>3 DEF TypeInv, TypeOK, TargetsExist, AbortRequest, database, Requests
<1> QED
  BY <1>1, <1>2, <1>3 DEF OperatorStep

LEMMA TypeInit == Init => TypeInv
<1> SUFFICES ASSUME Init PROVE TypeInv
  OBVIOUS
<1>1. \A w \in Workers : tx[w].pc = "idle"
  BY IdleType DEF Init
<1> QED
  BY <1>1, IdleType DEF Init, TypeInv, TypeOK, TargetsExist, Requests

LEMMA TypeStep == TypeInv /\ [Next]_vars => TypeInv'
<1> SUFFICES ASSUME TypeInv, [Next]_vars PROVE TypeInv'
  OBVIOUS
<1>1. ASSUME NEW w \in Workers, NEW a \in Alerts, Ingest(w, a) PROVE TypeInv'
  BY <1>1, IngestType
<1>2. ASSUME NEW w \in Workers, WorkerStep(w) \/ Abort(w) PROVE TypeInv'
  BY <1>2, StatementType, CommitType, CommitIgnoredType DEF WorkerStep
<1>3. ASSUME NEW o \in Operators, OperatorStep(o) PROVE TypeInv'
  BY <1>3, OperatorType
<1>4. CASE UNCHANGED vars
  BY <1>4 DEF vars, TypeInv, TypeOK, TargetsExist
<1> QED
  BY <1>1, <1>2, <1>3, <1>4 DEF Next

(* The engine keeps every row, transaction and request well formed, for    *)
(* every number of deliveries, operators, alerts and rules.                *)
THEOREM TypeCorrect == Spec => []TypeOK
<1>1. TypeInv => TypeOK
  BY DEF TypeInv
<1> QED
  BY <1>1, TypeInit, TypeStep, PTL DEF Spec

-----------------------------------------------------------------------------
(* Each alert is linked once.  Between the unique index and the commit a   *)
(* transaction owns its alert (LinkGuarded), so the row it inserts is the  *)
(* first one.                                                              *)
LinkInv == TypeInv /\ LinkGuarded /\ AlertLinkedOnce

(* A step that moves one worker elsewhere than past the index.             *)
LEMMA EnterLink ==
  ASSUME LinkInv, NEW w \in Workers, NEW t, Enter(w, t), t.pc # "record"
  PROVE  LinkGuarded' /\ AlertLinkedOnce'
<1>1. /\ links' = links /\ results' = results
      /\ tx' = [tx EXCEPT ![w] = t]
      /\ tx \in [Workers -> Transactions]
  BY DEF Enter, database, LinkInv, TypeInv, TypeOK
<1>2. \A v \in Workers : tx'[v].pc = "record" => v # w /\ tx'[v] = tx[v]
  BY <1>1
<1>3. LinkGuarded'
  BY <1>1, <1>2 DEF LinkInv, LinkGuarded, HoldsLink, IsLinked
<1>4. AlertLinkedOnce'
  BY <1>1 DEF LinkInv, AlertLinkedOnce
<1> QED
  BY <1>3, <1>4

(* What a statement other than the index insert moves its worker to.       *)
LEMMA StatementLink ==
  ASSUME LinkInv, NEW w \in Workers,
         \/ CheckLink(w) \/ AnalyzeAlert(w) \/ FindIncident(w) \/ FindRecovering(w)
         \/ UpdateIncident(w) \/ CreateIncident(w) \/ Abort(w)
  PROVE  \E t : Enter(w, t) /\ t.pc # "record"
<1>0. tx[w] \in Transactions
  BY DEF LinkInv, TypeInv, TypeOK
<1>1. CASE CheckLink(w) \/ AnalyzeAlert(w) \/ Abort(w)
  BY <1>1, IdleType DEF CheckLink, AnalyzeAlert, Abort
<1>2. CASE FindIncident(w)
  <2>1. [tx[w] EXCEPT !.pc = "number"].pc # "record"
    BY <1>0, <1>2, TransactionShape DEF FindIncident, Deciding
  <2>2. \/ Enter(w, [tx[w] EXCEPT !.pc = "number"])
        \/ \E i, row : Enter(w, Target(w, i, row, "ALERT_CORRELATED"))
    BY <1>2 DEF FindIncident
  <2>3. \A i, row, kind : Target(w, i, row, kind).pc # "record"
    BY DEF Target
  <2> QED
    BY <2>1, <2>2, <2>3
<1>3. CASE FindRecovering(w)
  <2>1. [tx[w] EXCEPT !.pc = "ignore"].pc # "record"
    BY <1>0, <1>3, TransactionShape DEF FindRecovering, Deciding
  <2>2. \/ Enter(w, [tx[w] EXCEPT !.pc = "ignore"])
        \/ \E i, row : Enter(w, Target(w, i, row, "RECOVERY_DETECTED"))
    BY <1>3 DEF FindRecovering
  <2>3. \A i, row, kind : Target(w, i, row, kind).pc # "record"
    BY DEF Target
  <2> QED
    BY <2>1, <2>2, <2>3
<1>4. CASE UpdateIncident(w)
  <2>1. [tx[w] EXCEPT !.pc = "attach", !.writes = TRUE].pc # "record"
    BY <1>0, <1>4, TransactionShape DEF UpdateIncident, Targeting
  <2> QED
    BY <1>4, <2>1 DEF UpdateIncident
<1>5. CASE CreateIncident(w)
  BY <1>5 DEF CreateIncident
<1> QED
  BY <1>1, <1>2, <1>3, <1>4, <1>5

LEMMA AttachLink ==
  ASSUME LinkInv, NEW w \in Workers, AttachAlert(w)
  PROVE  LinkGuarded' /\ AlertLinkedOnce'
<1>1. tx[w] \in Targeting
  BY TransactionShape DEF LinkInv, TypeInv, TypeOK, AttachAlert
<1>2. CASE IsLinked(tx[w].alert)
  BY <1>2, EnterLink, IdleType DEF AttachAlert
<1>3. CASE ~IsLinked(tx[w].alert)
  <2> DEFINE t == [tx[w] EXCEPT !.pc = "record"]
  <2>1. t.pc = "record" /\ t.alert = tx[w].alert
    BY <1>1 DEF Targeting
  <2>2. /\ links' = links /\ results' = results
        /\ tx' = [tx EXCEPT ![w] = t]
        /\ tx \in [Workers -> Transactions]
    BY <1>3 DEF AttachAlert, Enter, database, LinkInv, TypeInv, TypeOK
  <2>3. \A v \in Workers : ~HoldsLink(v, tx[w].alert)
    BY DEF AttachAlert, HoldsLink
  <2>4. LinkGuarded'
    BY <1>3, <2>1, <2>2, <2>3 DEF LinkInv, LinkGuarded, HoldsLink, IsLinked
  <2>5. AlertLinkedOnce'
    BY <2>2 DEF LinkInv, AlertLinkedOnce
  <2> QED
    BY <2>4, <2>5
<1> QED
  BY <1>2, <1>3

LEMMA CommitLink ==
  ASSUME LinkInv, NEW w \in Workers, Commit(w)
  PROVE  LinkGuarded' /\ AlertLinkedOnce'
<1> DEFINE a == tx[w].alert
           link == [alert |-> a, incident |-> tx[w].incident, kind |-> tx[w].kind]
           result == [alert |-> a, incident |-> tx[w].incident,
                      decision |-> tx[w].decision]
<1>1. CASE IsRecorded(a)
  BY <1>1, EnterLink, IdleType DEF Commit
<1>2. CASE ~IsRecorded(a)
  <2>1. /\ links' = links \union {link}
        /\ results' = results \union {result}
        /\ tx' = [tx EXCEPT ![w] = Idle]
        /\ tx \in [Workers -> Transactions]
    BY <1>2 DEF Commit, LinkInv, TypeInv, TypeOK
  <2>2. tx[w].pc = "record"
    BY DEF Commit
  <2>3. ~IsLinked(a) /\ \A v \in Workers : HoldsLink(v, a) => v = w
    BY <2>2 DEF LinkInv, LinkGuarded
  <2>4. \A l \in links : l.alert # a
    BY <2>3 DEF IsLinked
  <2>5. \A r \in results : r.alert # a
    BY <1>2 DEF IsRecorded
  <2>6. AlertLinkedOnce'
    BY <2>1, <2>4, <2>5 DEF LinkInv, AlertLinkedOnce
  <2>7. \A v \in Workers : tx'[v].pc = "record"
                             => v # w /\ tx'[v] = tx[v] /\ tx[v].alert # a
    BY <2>1, <2>3, IdleType DEF HoldsLink
  <2>8. LinkGuarded'
    BY <2>1, <2>7 DEF LinkInv, LinkGuarded, HoldsLink, IsLinked
  <2> QED
    BY <2>6, <2>8
<1> QED
  BY <1>1, <1>2

LEMMA CommitIgnoredLink ==
  ASSUME LinkInv, NEW w \in Workers, CommitIgnored(w)
  PROVE  LinkGuarded' /\ AlertLinkedOnce'
<1> DEFINE a == tx[w].alert
<1>1. CASE IsRecorded(a)
  BY <1>1, EnterLink, IdleType DEF CommitIgnored
<1>2. CASE ~IsRecorded(a)
  <2>1. /\ links' = links
        /\ results' = results \union
             {[alert |-> a, decision |-> tx[w].decision, incident |-> Null]}
        /\ tx' = [tx EXCEPT ![w] = Idle]
        /\ tx \in [Workers -> Transactions]
    BY <1>2 DEF CommitIgnored, LinkInv, TypeInv, TypeOK
  <2>2. \A r \in results : r.alert # a
    BY <1>2 DEF IsRecorded
  <2>3. AlertLinkedOnce'
    BY <2>1, <2>2 DEF LinkInv, AlertLinkedOnce
  <2>4. \A v \in Workers : tx'[v].pc = "record" => tx'[v] = tx[v]
    BY <2>1, IdleType
  <2>5. LinkGuarded'
    BY <2>1, <2>4 DEF LinkInv, LinkGuarded, HoldsLink, IsLinked
  <2> QED
    BY <2>3, <2>5
<1> QED
  BY <1>1, <1>2

(* A step that touches no worker, link or result.                          *)
LEMMA FrameLink ==
  ASSUME LinkInv, UNCHANGED <<links, results, tx>>
  PROVE  LinkGuarded' /\ AlertLinkedOnce'
BY DEF LinkInv, LinkGuarded, AlertLinkedOnce, HoldsLink, IsLinked

LEMMA LinkStep == LinkInv /\ [Next]_vars => LinkInv'
<1> SUFFICES ASSUME LinkInv, [Next]_vars PROVE LinkGuarded' /\ AlertLinkedOnce'
  BY TypeStep DEF LinkInv
<1>1. ASSUME NEW w \in Workers, NEW a \in Alerts, Ingest(w, a)
      PROVE  LinkGuarded' /\ AlertLinkedOnce'
  <2>1. /\ links' = links /\ results' = results
        /\ tx' = [tx EXCEPT ![w] = [pc |-> "check", alert |-> a]]
        /\ tx \in [Workers -> Transactions]
    BY <1>1 DEF Ingest, LinkInv, TypeInv, TypeOK
  <2>2. \A v \in Workers : tx'[v].pc = "record" => tx'[v] = tx[v]
    BY <2>1
  <2> QED
    BY <2>1, <2>2 DEF LinkInv, LinkGuarded, AlertLinkedOnce, HoldsLink, IsLinked
<1>2. ASSUME NEW w \in Workers, WorkerStep(w) \/ Abort(w)
      PROVE  LinkGuarded' /\ AlertLinkedOnce'
  BY <1>2, StatementLink, EnterLink, AttachLink, CommitLink, CommitIgnoredLink
     DEF WorkerStep
<1>3. ASSUME NEW o \in Operators, OperatorStep(o)
      PROVE  LinkGuarded' /\ AlertLinkedOnce'
  <2>1. UNCHANGED <<links, results, tx>>
    BY <1>3 DEF OperatorStep, ReadIncident, WriteStatus, AbortRequest, database
  <2> QED
    BY <2>1, FrameLink
<1>4. CASE UNCHANGED vars
  BY <1>4, FrameLink DEF vars
<1> QED
  BY <1>1, <1>2, <1>3, <1>4 DEF Next

LEMMA LinkInit == Init => LinkInv
<1> SUFFICES ASSUME Init PROVE LinkGuarded /\ AlertLinkedOnce
  BY TypeInit DEF LinkInv
<1>1. \A w \in Workers : tx[w].pc = "idle"
  BY IdleType DEF Init
<1> QED
  BY <1>1 DEF Init, LinkGuarded, AlertLinkedOnce

(* However many deliveries of an alert race, are repeated or fail, it is   *)
(* linked to at most one incident and has at most one correlation result.  *)
THEOREM LinkedOnce == Spec => []AlertLinkedOnce
<1>1. LinkInv => AlertLinkedOnce
  BY DEF LinkInv
<1> QED
  BY <1>1, LinkInit, LinkStep, PTL DEF Spec

-----------------------------------------------------------------------------
(* The codes have no gap and no repetition.  The sequence row is locked    *)
(* from the moment a transaction takes a number until it ends, so that     *)
(* number is still the next one at the commit (NumberGuarded).             *)
CodeInv == TypeInv /\ NumberGuarded /\ CodesSequential

(* A step that leaves every code and sequence row alone.                   *)
LEMMA FrameCodes ==
  ASSUME CodeInv, DOMAIN incidents' = DOMAIN incidents, nextNumber' = nextNumber,
         \A i \in DOMAIN incidents : /\ incidents'[i].year = incidents[i].year
                                     /\ incidents'[i].number = incidents[i].number
  PROVE  CodesSequential'
<1>1. \A y : NumbersOf(y)' = NumbersOf(y)
  BY DEF NumbersOf
<1> QED
  BY <1>1 DEF CodeInv, CodesSequential

(* ... and lets no worker start creating.                                  *)
LEMMA FrameNumbers ==
  ASSUME CodeInv, DOMAIN incidents' = DOMAIN incidents, nextNumber' = nextNumber,
         \A v \in Workers :
           Creating(v)' => /\ Creating(v)
                           /\ HasWritten(v)'
                           /\ tx'[v].row = tx[v].row
                           /\ tx'[v].alert = tx[v].alert
                           /\ tx'[v].incident = tx[v].incident
  PROVE  NumberGuarded'
<1> SUFFICES ASSUME NEW w \in Workers, Creating(w)'
             PROVE  /\ HasWritten(w)'
                    /\ tx'[w].row.year = YearOf(tx'[w].alert)
                    /\ tx'[w].row.number = nextNumber'[tx'[w].row.year] + 1
                    /\ tx'[w].incident \notin DOMAIN incidents'
                    /\ \A v \in Workers :
                         Creating(v)' /\ (tx'[v].row.year = tx'[w].row.year
                                           \/ tx'[v].incident = tx'[w].incident) => v = w
  BY DEF NumberGuarded
<1> QED
  BY DEF CodeInv, NumberGuarded

LEMMA EnterCodes ==
  ASSUME CodeInv, NEW w \in Workers, NEW t, Enter(w, t),
         t.pc \in {"update", "attach", "record"} => t.kind # "INCIDENT_CREATED"
  PROVE  NumberGuarded' /\ CodesSequential'
<1>1. /\ incidents' = incidents /\ nextNumber' = nextNumber
      /\ tx' = [tx EXCEPT ![w] = t]
      /\ tx \in [Workers -> Transactions]
  BY DEF Enter, database, CodeInv, TypeInv, TypeOK
<1>2. \A v \in Workers : Creating(v)' => v # w /\ tx'[v] = tx[v]
  BY <1>1 DEF Creating
<1>3. \A v \in Workers : Creating(v)' => Creating(v) /\ HasWritten(v)'
  BY <1>2 DEF Creating, HasWritten, CodeInv, NumberGuarded
<1> QED
  BY <1>1, <1>2, <1>3, FrameCodes, FrameNumbers

(* Before an incident is created no statement makes a worker a creator.    *)
LEMMA StatementCodes ==
  ASSUME CodeInv, NEW w \in Workers,
         \/ CheckLink(w) \/ AnalyzeAlert(w) \/ FindIncident(w) \/ FindRecovering(w)
         \/ UpdateIncident(w) \/ Abort(w)
  PROVE  \E t : /\ Enter(w, t)
                /\ t.pc \in {"update", "attach", "record"} => t.kind # "INCIDENT_CREATED"
<1>0. tx[w] \in Transactions
  BY DEF CodeInv, TypeInv, TypeOK
<1>1. CASE CheckLink(w) \/ AnalyzeAlert(w) \/ Abort(w)
  BY <1>1, IdleType DEF CheckLink, AnalyzeAlert, Abort
<1>2. CASE FindIncident(w)
  <2>1. [tx[w] EXCEPT !.pc = "number"].pc = "number"
    BY <1>0, <1>2, TransactionShape DEF FindIncident, Deciding
  <2>2. \/ Enter(w, [tx[w] EXCEPT !.pc = "number"])
        \/ \E i, row : Enter(w, Target(w, i, row, "ALERT_CORRELATED"))
    BY <1>2 DEF FindIncident
  <2>3. \A i, row : Target(w, i, row, "ALERT_CORRELATED").kind # "INCIDENT_CREATED"
    BY DEF Target
  <2> QED
    BY <2>1, <2>2, <2>3
<1>3. CASE FindRecovering(w)
  <2>1. [tx[w] EXCEPT !.pc = "ignore"].pc = "ignore"
    BY <1>0, <1>3, TransactionShape DEF FindRecovering, Deciding
  <2>2. \/ Enter(w, [tx[w] EXCEPT !.pc = "ignore"])
        \/ \E i, row : Enter(w, Target(w, i, row, "RECOVERY_DETECTED"))
    BY <1>3 DEF FindRecovering
  <2>3. \A i, row : Target(w, i, row, "RECOVERY_DETECTED").kind # "INCIDENT_CREATED"
    BY DEF Target
  <2> QED
    BY <2>1, <2>2, <2>3
<1>4. CASE UpdateIncident(w)
  <2>1. tx[w].kind # "INCIDENT_CREATED"
    BY <1>4 DEF UpdateIncident, CodeInv, NumberGuarded, Creating, HasWritten
  <2>2. [tx[w] EXCEPT !.pc = "attach", !.writes = TRUE].kind = tx[w].kind
    BY <1>0, <1>4, TransactionShape DEF UpdateIncident, Targeting
  <2> QED
    BY <1>4, <2>1, <2>2 DEF UpdateIncident
<1> QED
  BY <1>1, <1>2, <1>3, <1>4

(* The insert takes the next number of a sequence nobody holds and a uuid  *)
(* nobody holds.                                                           *)
LEMMA CreateCodes ==
  ASSUME CodeInv, NEW w \in Workers, CreateIncident(w)
  PROVE  NumberGuarded' /\ CodesSequential'
<1> DEFINE a == tx[w].alert
           row == NewRow(a, tx[w].decision, nextNumber[YearOf(a)] + 1)
           t(i) == [pc |-> "attach", alert |-> a, decision |-> tx[w].decision,
                    incident |-> i, row |-> row, writes |-> TRUE,
                    kind |-> "INCIDENT_CREATED"]
<1>1. PICK i \in IncidentIds \ DOMAIN incidents :
        /\ \A v \in Workers : ~HoldsIncident(v, i)
        /\ Enter(w, t(i))
  BY DEF CreateIncident
<1>2. /\ incidents' = incidents /\ nextNumber' = nextNumber
      /\ tx' = [tx EXCEPT ![w] = t(i)]
      /\ tx \in [Workers -> Transactions]
  BY <1>1 DEF Enter, database, CodeInv, TypeInv, TypeOK
<1>3. CodesSequential'
  BY <1>2, FrameCodes
<1>4. /\ tx'[w].pc = "attach" /\ tx'[w].writes /\ tx'[w].kind = "INCIDENT_CREATED"
      /\ tx'[w].alert = a /\ tx'[w].incident = i
      /\ tx'[w].row.year = YearOf(a)
      /\ tx'[w].row.number = nextNumber[YearOf(a)] + 1
  BY <1>2 DEF NewRow
<1>5. \A v \in Workers \ {w} : tx'[v] = tx[v] /\ (Creating(v)' <=> Creating(v))
                               /\ (HasWritten(v)' <=> HasWritten(v))
  BY <1>2 DEF Creating, HasWritten
<1>6. \A v \in Workers \ {w} :
        Creating(v) => tx[v].row.year # YearOf(a) /\ tx[v].incident # i
  <2> SUFFICES ASSUME NEW v \in Workers \ {w}, Creating(v)
               PROVE  tx[v].row.year # YearOf(a) /\ tx[v].incident # i
    OBVIOUS
  <2>1. HasWritten(v) /\ tx[v].kind = "INCIDENT_CREATED"
    BY DEF CodeInv, NumberGuarded, Creating
  <2>2. ~HoldsSequence(v, YearOf(a))
    BY DEF CreateIncident
  <2> QED
    BY <1>1, <2>1, <2>2 DEF HoldsSequence, HoldsIncident
<1>7. NumberGuarded'
  <2> SUFFICES ASSUME NEW u \in Workers, Creating(u)'
               PROVE  /\ HasWritten(u)'
                      /\ tx'[u].row.year = YearOf(tx'[u].alert)
                      /\ tx'[u].row.number = nextNumber'[tx'[u].row.year] + 1
                      /\ tx'[u].incident \notin DOMAIN incidents'
                      /\ \A v \in Workers :
                           Creating(v)' /\ (tx'[v].row.year = tx'[u].row.year
                                             \/ tx'[v].incident = tx'[u].incident) => v = u
    BY DEF NumberGuarded
  <2>1. CASE u = w
    BY <1>1, <1>2, <1>4, <1>5, <1>6, <2>1 DEF HasWritten
  <2>2. CASE u # w
    BY <1>2, <1>4, <1>5, <1>6, <2>2 DEF CodeInv, NumberGuarded
  <2> QED
    BY <2>1, <2>2
<1> QED
  BY <1>3, <1>7

LEMMA AttachCodes ==
  ASSUME CodeInv, NEW w \in Workers, AttachAlert(w)
  PROVE  NumberGuarded' /\ CodesSequential'
<1>1. tx[w] \in Targeting
  BY TransactionShape DEF CodeInv, TypeInv, TypeOK, AttachAlert
<1>2. CASE IsLinked(tx[w].alert)
  BY <1>2, EnterCodes, IdleType DEF AttachAlert
<1>3. CASE ~IsLinked(tx[w].alert)
  <2> DEFINE t == [tx[w] EXCEPT !.pc = "record"]
  <2>1. /\ t.pc = "record" /\ t.alert = tx[w].alert /\ t.incident = tx[w].incident
        /\ t.row = tx[w].row /\ t.kind = tx[w].kind /\ t.writes = tx[w].writes
    BY <1>1 DEF Targeting
  <2>2. /\ incidents' = incidents /\ nextNumber' = nextNumber
        /\ tx' = [tx EXCEPT ![w] = t]
        /\ tx \in [Workers -> Transactions]
    BY <1>3 DEF AttachAlert, Enter, database, CodeInv, TypeInv, TypeOK
  <2>3. ASSUME NEW v \in Workers, Creating(v)'
        PROVE  /\ Creating(v) /\ HasWritten(v)' /\ tx'[v].row = tx[v].row
               /\ tx'[v].alert = tx[v].alert /\ tx'[v].incident = tx[v].incident
    <3>1. CASE v = w
      BY <2>1, <2>2, <2>3, <3>1 DEF Creating, HasWritten, AttachAlert,
         CodeInv, NumberGuarded
    <3>2. CASE v # w
      BY <2>2, <2>3, <3>2 DEF Creating, HasWritten, CodeInv, NumberGuarded
    <3> QED
      BY <3>1, <3>2
  <2> QED
    BY <2>2, <2>3, FrameCodes, FrameNumbers
<1> QED
  BY <1>2, <1>3

(* The update of an existing incident leaves every code alone.             *)
LEMMA WrittenKeepsCodes ==
  ASSUME TypeInv, NEW w \in Workers, tx[w] \in Targeting,
         tx[w].kind # "INCIDENT_CREATED", NEW j \in DOMAIN incidents
  PROVE  /\ Written(w)[j].year = incidents[j].year
         /\ Written(w)[j].number = incidents[j].number
<1>1. incidents[j] \in IncidentRows
  BY DEF TypeInv, TypeOK
<1>2. CASE tx[w].kind = "ALERT_CORRELATED" /\ tx[w].writes
  <2> DEFINE i == tx[w].incident
             row == tx[w].row
             new == [incidents EXCEPT
                       ![i].severity = row.severity, ![i].diagnosis = row.diagnosis,
                       ![i].rootCauseConfidence = row.rootCauseConfidence]
  <2>1. Written(w) = new
    BY <1>2 DEF Written
  <2>2. new[j].year = incidents[j].year /\ new[j].number = incidents[j].number
    BY <1>1 DEF IncidentRows
  <2> QED
    BY <2>1, <2>2
<1>3. CASE tx[w].kind = "RECOVERY_DETECTED"
  <2> DEFINE new == [incidents EXCEPT ![tx[w].incident].status = tx[w].row.status]
  <2>1. Written(w) = new
    BY <1>3 DEF Written
  <2>2. new[j].year = incidents[j].year /\ new[j].number = incidents[j].number
    BY <1>1 DEF IncidentRows
  <2> QED
    BY <2>1, <2>2
<1>4. CASE tx[w].kind = "ALERT_CORRELATED" /\ ~tx[w].writes
  BY <1>4 DEF Written
<1> QED
  BY <1>2, <1>3, <1>4 DEF LinkKinds, Targeting

LEMMA CommitCodes ==
  ASSUME CodeInv, NEW w \in Workers, Commit(w)
  PROVE  NumberGuarded' /\ CodesSequential'
<1>1. tx[w] \in Targeting /\ tx[w].pc = "record"
  BY TransactionShape DEF CodeInv, TypeInv, TypeOK, Commit
<1>2. CASE IsRecorded(tx[w].alert)
  BY <1>2, EnterCodes, IdleType DEF Commit
<1>3. ASSUME ~IsRecorded(tx[w].alert), tx[w].kind # "INCIDENT_CREATED"
      PROVE  NumberGuarded' /\ CodesSequential'
  <2>1. /\ incidents' = Written(w) /\ nextNumber' = nextNumber
        /\ tx' = [tx EXCEPT ![w] = Idle]
        /\ tx \in [Workers -> Transactions]
    BY <1>3 DEF Commit, NumbersWritten, CodeInv, TypeInv, TypeOK
  <2>2. DOMAIN incidents' = DOMAIN incidents
    BY <1>1, <1>3, <2>1, WrittenType DEF CodeInv
  <2>3. \A j \in DOMAIN incidents : /\ incidents'[j].year = incidents[j].year
                                    /\ incidents'[j].number = incidents[j].number
    BY <1>1, <1>3, <2>1, WrittenKeepsCodes DEF CodeInv
  <2>4. \A v \in Workers : Creating(v)' => Creating(v) /\ HasWritten(v)' /\ tx'[v] = tx[v]
    BY <2>1, IdleType DEF Creating, HasWritten, CodeInv, NumberGuarded
  <2> QED
    BY <2>1, <2>2, <2>3, <2>4, FrameCodes, FrameNumbers
<1>4. ASSUME ~IsRecorded(tx[w].alert), tx[w].kind = "INCIDENT_CREATED"
      PROVE  NumberGuarded' /\ CodesSequential'
  <2> DEFINE i == tx[w].incident
             row == tx[w].row
             y0 == row.year
  <2>1. Creating(w)
    BY <1>1, <1>4 DEF Creating
  <2>2. /\ y0 = YearOf(tx[w].alert) /\ y0 \in Years
        /\ row.number = nextNumber[y0] + 1
        /\ i \notin DOMAIN incidents
        /\ \A v \in Workers : Creating(v) /\ (tx[v].row.year = y0 \/ tx[v].incident = i)
                                => v = w
    BY <1>1, <2>1 DEF CodeInv, NumberGuarded, Targeting, IncidentRows
  <2>3. /\ incidents' = [j \in DOMAIN incidents \union {i} |->
                           IF j = i THEN row ELSE incidents[j]]
        /\ nextNumber' = [nextNumber EXCEPT ![y0] = row.number]
        /\ tx' = [tx EXCEPT ![w] = Idle]
        /\ tx \in [Workers -> Transactions]
        /\ nextNumber \in [Years -> Nat]
    BY <1>4, <2>2 DEF Commit, NumbersWritten, Written, CodeInv, TypeInv, TypeOK
  <2>4. ASSUME NEW y \in Years
        PROVE  NumbersOf(y)' = 1..nextNumber'[y]
    <3>1. NumbersOf(y) = 1..nextNumber[y] /\ nextNumber[y] \in Nat
      BY <2>3 DEF CodeInv, CodesSequential
    <3>2. CASE y = y0
      <4>1. NumbersOf(y)' = NumbersOf(y) \union {row.number}
        BY <2>2, <2>3, <3>2 DEF NumbersOf
      <4>2. nextNumber'[y] = nextNumber[y] + 1
        BY <2>2, <2>3, <3>2
      <4> QED
        BY <2>2, <3>1, <3>2, <4>1, <4>2
    <3>3. CASE y # y0
      <4>1. NumbersOf(y)' = NumbersOf(y)
        BY <2>2, <2>3, <3>3 DEF NumbersOf
      <4> QED
        BY <2>3, <3>1, <3>3, <4>1
    <3> QED
      BY <3>2, <3>3
  <2>5. ASSUME NEW j \in DOMAIN incidents, incidents[j].year = y0
        PROVE  incidents[j].number # row.number
    <3>1. incidents[j].number \in NumbersOf(y0)
      BY <2>5 DEF NumbersOf
    <3>2. NumbersOf(y0) = 1..nextNumber[y0] /\ nextNumber[y0] \in Nat
      BY <2>2, <2>3 DEF CodeInv, CodesSequential
    <3> QED
      BY <2>2, <3>1, <3>2
  <2>6. CodesSequential'
    <3>1. ASSUME NEW j \in DOMAIN incidents', NEW k \in DOMAIN incidents',
                 incidents'[j].year = incidents'[k].year,
                 incidents'[j].number = incidents'[k].number
          PROVE  j = k
      BY <2>2, <2>3, <2>5, <3>1 DEF CodeInv, CodesSequential
    <3> QED
      BY <2>4, <3>1 DEF CodesSequential
  <2>7. \A v \in Workers :
          Creating(v)' => v # w /\ tx'[v] = tx[v] /\ Creating(v) /\ HasWritten(v)'
    BY <2>3, IdleType DEF Creating, HasWritten, CodeInv, NumberGuarded
  <2>8. NumberGuarded'
    <3> SUFFICES ASSUME NEW u \in Workers, Creating(u)'
                 PROVE  /\ HasWritten(u)'
                        /\ tx'[u].row.year = YearOf(tx'[u].alert)
                        /\ tx'[u].row.number = nextNumber'[tx'[u].row.year] + 1
                        /\ tx'[u].incident \notin DOMAIN incidents'
                        /\ \A v \in Workers :
                             Creating(v)' /\ (tx'[v].row.year = tx'[u].row.year
                                               \/ tx'[v].incident = tx'[u].incident)
                               => v = u
      BY DEF NumberGuarded
    <3>1. u # w /\ tx'[u] = tx[u] /\ Creating(u) /\ HasWritten(u)'
      BY <2>7
    <3>2. tx[u].row.year # y0 /\ tx[u].incident # i
      BY <2>2, <3>1
    <3>3. nextNumber'[tx[u].row.year] = nextNumber[tx[u].row.year]
      <4>1. tx[u] \in Targeting
        BY <2>3, <3>1, TransactionShape DEF Creating
      <4> QED
        BY <2>3, <3>2, <4>1 DEF Targeting, IncidentRows
    <3> QED
      BY <2>3, <2>7, <3>1, <3>2, <3>3 DEF CodeInv, NumberGuarded
  <2> QED
    BY <2>6, <2>8
<1> QED
  BY <1>2, <1>3, <1>4

(* A change of status leaves every code alone.                             *)
LEMMA OperatorKeepsCodes ==
  ASSUME TypeInv, NEW o \in Operators, OperatorStep(o)
  PROVE  /\ DOMAIN incidents' = DOMAIN incidents
         /\ \A j \in DOMAIN incidents : /\ incidents'[j].year = incidents[j].year
                                        /\ incidents'[j].number = incidents[j].number
<1>1. CASE WriteStatus(o)
  <2> DEFINE i == requests[o].incident
             new == [incidents EXCEPT ![i].status = requests[o].to,
                       ![i].stamps = @ \union StampOf(requests[o].to)]
  <2>1. incidents' = new /\ DOMAIN new = DOMAIN incidents
    BY <1>1 DEF WriteStatus
  <2>2. ASSUME NEW j \in DOMAIN incidents
        PROVE  new[j].year = incidents[j].year /\ new[j].number = incidents[j].number
    <3>1. incidents[j] \in IncidentRows
      BY DEF TypeInv, TypeOK
    <3> QED
      BY <3>1 DEF IncidentRows
  <2> QED
    BY <2>1, <2>2
<1>2. CASE ~WriteStatus(o)
  BY <1>2 DEF OperatorStep, ReadIncident, AbortRequest, database
<1> QED
  BY <1>1, <1>2

LEMMA CodeStep == CodeInv /\ [Next]_vars => CodeInv'
<1> SUFFICES ASSUME CodeInv, [Next]_vars PROVE NumberGuarded' /\ CodesSequential'
  BY TypeStep DEF CodeInv
<1>1. ASSUME NEW w \in Workers, NEW a \in Alerts, Ingest(w, a)
      PROVE  NumberGuarded' /\ CodesSequential'
  <2>1. /\ incidents' = incidents /\ nextNumber' = nextNumber
        /\ tx' = [tx EXCEPT ![w] = [pc |-> "check", alert |-> a]]
        /\ tx \in [Workers -> Transactions]
    BY <1>1 DEF Ingest, CodeInv, TypeInv, TypeOK
  <2>2. \A v \in Workers : Creating(v)' => Creating(v) /\ HasWritten(v)' /\ tx'[v] = tx[v]
    BY <2>1 DEF Creating, HasWritten, CodeInv, NumberGuarded
  <2> QED
    BY <2>1, <2>2, FrameCodes, FrameNumbers
<1>2. ASSUME NEW w \in Workers, CommitIgnored(w)
      PROVE  NumberGuarded' /\ CodesSequential'
  <2>1. /\ incidents' = incidents /\ nextNumber' = nextNumber
        /\ tx' = [tx EXCEPT ![w] = Idle]
        /\ tx \in [Workers -> Transactions]
    BY <1>2 DEF CommitIgnored, Enter, database, CodeInv, TypeInv, TypeOK
  <2>2. \A v \in Workers : Creating(v)' => Creating(v) /\ HasWritten(v)' /\ tx'[v] = tx[v]
    BY <2>1, IdleType DEF Creating, HasWritten, CodeInv, NumberGuarded
  <2> QED
    BY <2>1, <2>2, FrameCodes, FrameNumbers
<1>3. ASSUME NEW w \in Workers, WorkerStep(w) \/ Abort(w)
      PROVE  NumberGuarded' /\ CodesSequential'
  BY <1>2, <1>3, StatementCodes, EnterCodes, CreateCodes, AttachCodes, CommitCodes
     DEF WorkerStep
<1>4. ASSUME NEW o \in Operators, OperatorStep(o)
      PROVE  NumberGuarded' /\ CodesSequential'
  <2>1. UNCHANGED <<nextNumber, tx>>
    BY <1>4 DEF OperatorStep, ReadIncident, WriteStatus, AbortRequest, database
  <2>2. /\ DOMAIN incidents' = DOMAIN incidents
        /\ \A j \in DOMAIN incidents : /\ incidents'[j].year = incidents[j].year
                                       /\ incidents'[j].number = incidents[j].number
    BY <1>4, OperatorKeepsCodes DEF CodeInv
  <2>3. \A v \in Workers : Creating(v)' => Creating(v) /\ HasWritten(v)' /\ tx'[v] = tx[v]
    BY <2>1 DEF Creating, HasWritten, CodeInv, NumberGuarded
  <2> QED
    BY <2>1, <2>2, <2>3, FrameCodes, FrameNumbers
<1>5. CASE UNCHANGED vars
  BY <1>5, FrameCodes, FrameNumbers
     DEF vars, Creating, HasWritten, CodeInv, NumberGuarded
<1> QED
  BY <1>1, <1>3, <1>4, <1>5 DEF Next

LEMMA CodeInit == Init => CodeInv
<1> SUFFICES ASSUME Init PROVE NumberGuarded /\ CodesSequential
  BY TypeInit DEF CodeInv
<1>1. \A w \in Workers : tx[w].pc = "idle"
  BY IdleType DEF Init
<1>2. DOMAIN incidents = {} /\ \A y \in Years : nextNumber[y] = 0
  BY DEF Init
<1> QED
  BY <1>1, <1>2 DEF NumberGuarded, Creating, CodesSequential, NumbersOf

(* The incidents of each year carry the numbers 1, 2, ... up to the last   *)
(* one issued, each once, whatever transactions race, fail or are repeated *)
(* after taking a number.                                                  *)
THEOREM CodesAreSequential == Spec => []CodesSequential
<1>1. CodeInv => CodesSequential
  BY DEF CodeInv
<1> QED
  BY <1>1, CodeInit, CodeStep, PTL DEF Spec

(* The three strengthenings that carry the inductions hold throughout.     *)
THEOREM EngineInvariant == Spec => []EngineInv
<1>1. LinkInv /\ CodeInv => EngineInv
  BY DEF LinkInv, CodeInv, TypeInv, EngineInv
<1> QED
  BY <1>1, LinkInit, LinkStep, CodeInit, CodeStep, PTL DEF Spec

-----------------------------------------------------------------------------
(* Waiting.  v holds what the next statement of w waits for: the row of the *)
(* incident it updates, the sequence of its year, or the entry of its alert *)
(* in the unique index.                                                    *)
WaitsFor(w, v) ==
  /\ v # w
  /\ \/ tx[w].pc = "update" /\ HoldsIncident(v, tx[w].incident)
     \/ tx[w].pc = "number" /\ HoldsSequence(v, YearOf(tx[w].alert))
     \/ tx[w].pc = "attach" /\ HoldsLink(v, tx[w].alert)

Waits(w) == \E v \in Workers : WaitsFor(w, v)

(* Rows and sequences are held by transactions that may only wait for the   *)
(* index, and the index by those that only commit.                         *)
LEMMA LocksAreOrdered ==
  ASSUME NEW w \in Workers, NEW v \in Workers, WaitsFor(w, v)
  PROVE  /\ tx[v].pc \in {"attach", "record"}
         /\ tx[v].pc = "record" => ~Waits(v)
         /\ \A u \in Workers : WaitsFor(v, u) => tx[u].pc = "record" /\ ~Waits(u)
BY DEF WaitsFor, Waits, HoldsIncident, HoldsSequence, HoldsLink, HasWritten

(* Whenever a transaction waits, one that does not wait is what holds it    *)
(* up, itself or through one other: no set of deliveries, however large,    *)
(* waits in a circle (incident.update, the upsert of incident_sequences,    *)
(* incident_events' unique alert).                                         *)
NoCircleOfWaits ==
  \A w \in Workers :
    Waits(w) => \E v \in Workers :
                  /\ tx[v] # Idle /\ ~Waits(v)
                  /\ \/ WaitsFor(w, v)
                     \/ \E u \in Workers : WaitsFor(w, u) /\ WaitsFor(u, v)

THEOREM NobodyWaitsInACircle == Spec => []NoCircleOfWaits
<1>1. NoCircleOfWaits
  <2> SUFFICES ASSUME NEW w \in Workers, NEW u \in Workers, WaitsFor(w, u)
               PROVE  \E v \in Workers :
                        /\ tx[v] # Idle /\ ~Waits(v)
                        /\ \/ WaitsFor(w, v)
                           \/ \E x \in Workers : WaitsFor(w, x) /\ WaitsFor(x, v)
    BY DEF NoCircleOfWaits, Waits
  <2>1. \A v \in Workers : tx[v].pc \in {"attach", "record"} => tx[v] # Idle
    BY IdleType
  <2>2. CASE ~Waits(u)
    BY <2>1, <2>2, LocksAreOrdered
  <2>3. CASE Waits(u)
    <3>1. PICK v \in Workers : WaitsFor(u, v)
      BY <2>3 DEF Waits
    <3>2. tx[v].pc = "record" /\ ~Waits(v)
      BY <3>1, LocksAreOrdered
    <3> QED
      BY <2>1, <3>1, <3>2
  <2> QED
    BY <2>2, <2>3
<1> QED
  BY <1>1, PTL

-----------------------------------------------------------------------------
(* Nothing is half done: only the two commits touch links and results, and *)
(* a fault's status says whether it is linked.                             *)
FaultsNotResolved == \A a \in Alerts : ~IsRecovery(a) => alertStatus[a] # "RESOLVED"
BooksInv == LinkInv /\ FaultsNotResolved /\ NothingHalfDone

LEMMA FrameBooks ==
  ASSUME BooksInv, UNCHANGED <<alertStatus, links, results>>
  PROVE  FaultsNotResolved' /\ NothingHalfDone'
BY DEF BooksInv, FaultsNotResolved, NothingHalfDone, IsLinked

LEMMA IngestBooks ==
  ASSUME BooksInv, NEW w \in Workers, NEW a \in Alerts, Ingest(w, a)
  PROVE  FaultsNotResolved' /\ NothingHalfDone'
<1>1. links' = links /\ results' = results
  BY DEF Ingest
<1>2. \A b \in Alerts :
        \/ alertStatus'[b] = alertStatus[b]
        \/ /\ alertStatus[b] = "ABSENT"
           /\ alertStatus'[b] = IF IsRecovery(b) THEN "RESOLVED" ELSE "NEW"
  BY DEF Ingest, BooksInv, LinkInv, TypeInv, TypeOK
<1> QED
  BY <1>1, <1>2 DEF BooksInv, FaultsNotResolved, NothingHalfDone, IsLinked

LEMMA CommitBooks ==
  ASSUME BooksInv, NEW w \in Workers, Commit(w)
  PROVE  FaultsNotResolved' /\ NothingHalfDone'
<1> DEFINE a == tx[w].alert
           i == tx[w].incident
<1>1. a \in Alerts /\ i # Null
  BY TransactionShape, IdsAssumption
  DEF BooksInv, LinkInv, TypeInv, TypeOK, Commit, Targeting
<1>2. CASE IsRecorded(a)
  BY <1>2, FrameBooks DEF Commit, Enter, database
<1>3. CASE ~IsRecorded(a)
  <2>0. PICK link, result :
          /\ link.alert = a /\ link.incident = i
          /\ result.alert = a /\ result.incident = i
          /\ links' = links \union {link} /\ results' = results \union {result}
    BY <1>3 DEF Commit
  <2>1. alertStatus' = AlertsWritten(w)
    BY <1>3 DEF Commit
  <2>2. \A b \in Alerts : IsLinked(b)' <=> IsLinked(b) \/ b = a
    BY <2>0 DEF IsLinked
  <2>3. /\ ~IsRecovery(a) => alertStatus'[a] = "CORRELATED"
        /\ \A b \in Alerts \ {a} : alertStatus'[b] = alertStatus[b]
    BY <1>1, <2>1
    DEF AlertsWritten, BooksInv, FaultsNotResolved, LinkInv, TypeInv, TypeOK
  <2>4. FaultsNotResolved'
    BY <2>3 DEF BooksInv, FaultsNotResolved
  <2>5. \A b \in Alerts : ~IsRecovery(b) => (alertStatus'[b] = "CORRELATED" <=> IsLinked(b)')
    BY <2>2, <2>3 DEF BooksInv, NothingHalfDone
  <2>6. {<<l.alert, l.incident>> : l \in links'}
          = {<<l.alert, l.incident>> : l \in links} \union {<<a, i>>}
    BY <2>0
  <2>7. {<<r.alert, r.incident>> : r \in {s \in results' : s.incident # Null}}
          = {<<r.alert, r.incident>> : r \in {s \in results : s.incident # Null}}
              \union {<<a, i>>}
    BY <1>1, <2>0
  <2> QED
    BY <2>4, <2>5, <2>6, <2>7 DEF BooksInv, NothingHalfDone
<1> QED
  BY <1>2, <1>3

LEMMA CommitIgnoredBooks ==
  ASSUME BooksInv, NEW w \in Workers, CommitIgnored(w)
  PROVE  FaultsNotResolved' /\ NothingHalfDone'
<1>1. alertStatus' = alertStatus /\ links' = links
  BY DEF CommitIgnored, Enter, database
<1>2. {s \in results' : s.incident # Null} = {s \in results : s.incident # Null}
  BY DEF CommitIgnored, Enter, database
<1> QED
  BY <1>1, <1>2 DEF BooksInv, FaultsNotResolved, NothingHalfDone, IsLinked

LEMMA BooksInit == Init => BooksInv
  BY LinkInit DEF Init, BooksInv, FaultsNotResolved, NothingHalfDone, IsLinked

LEMMA BooksStep == BooksInv /\ [Next]_vars => BooksInv'
<1> SUFFICES ASSUME BooksInv, [Next]_vars
             PROVE  FaultsNotResolved' /\ NothingHalfDone'
  BY LinkStep DEF BooksInv
<1>1. ASSUME NEW w \in Workers, WorkerStep(w) \/ Abort(w), ~Commit(w), ~CommitIgnored(w)
      PROVE  FaultsNotResolved' /\ NothingHalfDone'
  <2>1. UNCHANGED database
    BY <1>1
    DEF WorkerStep, Abort, CheckLink, AnalyzeAlert, FindIncident, FindRecovering,
        UpdateIncident, CreateIncident, AttachAlert, Enter
  <2> QED
    BY <2>1, FrameBooks DEF database
<1>2. ASSUME NEW o \in Operators, OperatorStep(o)
      PROVE  FaultsNotResolved' /\ NothingHalfDone'
  BY <1>2, FrameBooks DEF OperatorStep, ReadIncident, WriteStatus, AbortRequest, database
<1>3. CASE UNCHANGED vars
  BY <1>3, FrameBooks DEF vars
<1> QED
  BY <1>1, <1>2, <1>3, IngestBooks, CommitBooks, CommitIgnoredBooks DEF Next

(* A transaction leaves all of its rows or none, whatever races with it    *)
(* and wherever it fails (processInTransaction).                           *)
THEOREM NothingIsHalfDone == Spec => []NothingHalfDone
<1>1. BooksInv => NothingHalfDone
  BY DEF BooksInv
<1> QED
  BY <1>1, BooksInit, BooksStep, PTL DEF Spec

-----------------------------------------------------------------------------
(* The times of a status.  An update in progress writes the status of its  *)
(* kind, never one it has read, and a request that closes an incident was  *)
(* accepted when the incident had been resolved.                          *)
OwnStatus(t) ==
  t.pc \in {"update", "attach", "record"}
    => /\ t.kind = "INCIDENT_CREATED" => t.row.status = "DETECTED"
       /\ t.kind = "RECOVERY_DETECTED" => t.row.status = "MONITORING"

ClosesResolved ==
  \A o \in Operators :
    requests[o].pc = "write" /\ requests[o].to = "CLOSED"
      => /\ requests[o].incident \in DOMAIN incidents
         /\ "resolvedAt" \in incidents[requests[o].incident].stamps

Stamped == (\A w \in Workers : OwnStatus(tx[w])) /\ ClosesResolved /\ StampsMatchStatus
StampsInv == CodeInv /\ Stamped

(* No step takes a time away; one that sets a status without its times is  *)
(* a step of the engine.                                                  *)
LEMMA StampsStay ==
  ASSUME ClosesResolved, StampsMatchStatus, requests' = requests,
         DOMAIN incidents \subseteq DOMAIN incidents',
         \A i \in DOMAIN incidents :
           /\ incidents'[i].stamps = incidents[i].stamps
           /\ incidents'[i].status \in {incidents[i].status, "MONITORING"},
         \A i \in DOMAIN incidents' \ DOMAIN incidents : incidents'[i].status = "DETECTED"
  PROVE  ClosesResolved' /\ StampsMatchStatus'
BY DEF ClosesResolved, StampsMatchStatus

(* The statements before the commit.                                       *)
LEMMA StatementStamps ==
  ASSUME StampsInv, NEW w \in Workers,
         \/ CheckLink(w) \/ AnalyzeAlert(w) \/ FindIncident(w) \/ FindRecovering(w)
         \/ UpdateIncident(w) \/ CreateIncident(w) \/ AttachAlert(w) \/ Abort(w)
  PROVE  \E t : Enter(w, t) /\ OwnStatus(t)
<1>0. tx[w] \in Transactions /\ OwnStatus(tx[w])
  BY DEF StampsInv, Stamped, CodeInv, TypeInv, TypeOK
<1>1. CASE CheckLink(w) \/ AnalyzeAlert(w) \/ Abort(w)
  BY <1>1, IdleType DEF CheckLink, AnalyzeAlert, Abort, OwnStatus
<1>2. CASE FindIncident(w)
  <2>1. [tx[w] EXCEPT !.pc = "number"].pc = "number"
    BY <1>0, <1>2, TransactionShape DEF FindIncident, Deciding
  <2>2. \/ Enter(w, [tx[w] EXCEPT !.pc = "number"])
        \/ \E i, row : Enter(w, Target(w, i, row, "ALERT_CORRELATED"))
    BY <1>2 DEF FindIncident
  <2>3. \A i, row : OwnStatus(Target(w, i, row, "ALERT_CORRELATED"))
    BY DEF Target, OwnStatus
  <2>4. OwnStatus([tx[w] EXCEPT !.pc = "number"])
    BY <2>1 DEF OwnStatus
  <2> QED
    BY <2>2, <2>3, <2>4
<1>3. CASE FindRecovering(w)
  <2>1. [tx[w] EXCEPT !.pc = "ignore"].pc = "ignore"
    BY <1>0, <1>3, TransactionShape DEF FindRecovering, Deciding
  <2>2. ASSUME NEW i \in DOMAIN incidents
        PROVE  OwnStatus(Target(w, i, [incidents[i] EXCEPT !.status = "MONITORING"],
                                "RECOVERY_DETECTED"))
    <3>1. incidents[i] \in IncidentRows
      BY DEF StampsInv, CodeInv, TypeInv, TypeOK
    <3>2. [incidents[i] EXCEPT !.status = "MONITORING"].status = "MONITORING"
      BY <3>1 DEF IncidentRows
    <3> QED
      BY <3>2 DEF Target, OwnStatus
  <2>3. \/ Enter(w, [tx[w] EXCEPT !.pc = "ignore"])
        \/ \E i \in DOMAIN incidents :
             Enter(w, Target(w, i, [incidents[i] EXCEPT !.status = "MONITORING"],
                             "RECOVERY_DETECTED"))
    BY <1>3 DEF FindRecovering, Latest, OpenWithKey
  <2> QED
    BY <2>1, <2>2, <2>3 DEF OwnStatus
<1>4. CASE UpdateIncident(w)
  <2> DEFINE t == [tx[w] EXCEPT !.pc = "attach", !.writes = TRUE]
  <2>1. t.kind = tx[w].kind /\ t.row = tx[w].row
    BY <1>0, <1>4, TransactionShape DEF UpdateIncident, Targeting
  <2>2. OwnStatus(t)
    BY <1>0, <1>4, <2>1 DEF UpdateIncident, OwnStatus
  <2> QED
    BY <1>4, <2>2 DEF UpdateIncident
<1>5. CASE CreateIncident(w)
  <2>1. PICK i : Enter(w, [pc |-> "attach", alert |-> tx[w].alert, decision |-> tx[w].decision,
                           incident |-> i,
                           row |-> NewRow(tx[w].alert, tx[w].decision,
                                          nextNumber[YearOf(tx[w].alert)] + 1),
                           writes |-> TRUE, kind |-> "INCIDENT_CREATED"])
    BY <1>5 DEF CreateIncident
  <2> QED
    BY <2>1 DEF OwnStatus, NewRow
<1>6. CASE AttachAlert(w)
  <2> DEFINE t == [tx[w] EXCEPT !.pc = "record"]
  <2>1. t.kind = tx[w].kind /\ t.row = tx[w].row
    BY <1>0, <1>6, TransactionShape DEF AttachAlert, Targeting
  <2>2. OwnStatus(t)
    BY <1>0, <1>6, <2>1 DEF AttachAlert, OwnStatus
  <2> QED
    BY <1>6, <2>2, IdleType DEF AttachAlert, OwnStatus
<1> QED
  BY <1>1, <1>2, <1>3, <1>4, <1>5, <1>6

LEMMA EnterStamps ==
  ASSUME StampsInv, NEW w \in Workers, NEW t, OwnStatus(t),
         tx' = [tx EXCEPT ![w] = t], UNCHANGED <<incidents, requests>>
  PROVE  Stamped'
<1>1. \A v \in Workers : OwnStatus(tx'[v])
  BY DEF StampsInv, Stamped, CodeInv, TypeInv, TypeOK
<1>2. ClosesResolved' /\ StampsMatchStatus'
  BY DEF StampsInv, Stamped, ClosesResolved, StampsMatchStatus
<1> QED
  BY <1>1, <1>2 DEF Stamped

(* What a commit writes of a status is DETECTED or MONITORING.             *)
LEMMA CommitStamps ==
  ASSUME StampsInv, NEW w \in Workers, Commit(w)
  PROVE  Stamped'
<1>1. tx[w] \in Targeting /\ OwnStatus(tx[w]) /\ tx[w].pc = "record" /\ TypeInv
  BY TransactionShape DEF StampsInv, Stamped, CodeInv, TypeInv, TypeOK, Commit
<1>2. OwnStatus(Idle)
  BY IdleType DEF OwnStatus
<1>3. CASE IsRecorded(tx[w].alert)
  BY <1>2, <1>3, EnterStamps DEF Commit, Enter, database
<1>4. CASE ~IsRecorded(tx[w].alert)
  <2> DEFINE i == tx[w].incident
             row == tx[w].row
  <2>1. incidents' = Written(w) /\ tx' = [tx EXCEPT ![w] = Idle] /\ requests' = requests
    BY <1>4 DEF Commit
  <2>2. \A v \in Workers : OwnStatus(tx'[v])
    BY <1>2, <2>1 DEF StampsInv, Stamped, CodeInv, TypeInv, TypeOK
  <2>3. CASE tx[w].kind = "INCIDENT_CREATED"
    <3>1. i \notin DOMAIN incidents
      BY <1>1, <2>3 DEF StampsInv, CodeInv, NumberGuarded, Creating
    <3>2. incidents' = [j \in DOMAIN incidents \union {i} |->
                          IF j = i THEN row ELSE incidents[j]]
      BY <2>1, <2>3 DEF Written
    <3>3. row.status = "DETECTED"
      BY <1>1, <2>3 DEF OwnStatus
    <3> QED
      BY <2>1, <2>2, <3>1, <3>2, <3>3, StampsStay DEF StampsInv, Stamped
  <2>4. CASE tx[w].kind # "INCIDENT_CREATED"
    <3>1. DOMAIN incidents' = DOMAIN incidents
      BY <1>1, <2>1, <2>4, WrittenType
    <3>2. ASSUME NEW j \in DOMAIN incidents
          PROVE  /\ incidents'[j].stamps = incidents[j].stamps
                 /\ incidents'[j].status \in {incidents[j].status, "MONITORING"}
      <4>0. incidents[j] \in IncidentRows
        BY <1>1 DEF TypeInv, TypeOK
      <4>1. CASE tx[w].kind = "ALERT_CORRELATED" /\ tx[w].writes
        <5> DEFINE new == [incidents EXCEPT
                             ![i].severity = row.severity, ![i].diagnosis = row.diagnosis,
                             ![i].rootCauseConfidence = row.rootCauseConfidence]
        <5>1. incidents' = new
          BY <2>1, <4>1 DEF Written
        <5>2. new[j].stamps = incidents[j].stamps /\ new[j].status = incidents[j].status
          BY <4>0 DEF IncidentRows
        <5> QED
          BY <5>1, <5>2
      <4>2. CASE tx[w].kind = "RECOVERY_DETECTED"
        <5> DEFINE new == [incidents EXCEPT ![i].status = row.status]
        <5>1. incidents' = new /\ row.status = "MONITORING"
          BY <1>1, <2>1, <4>2 DEF Written, OwnStatus
        <5>2. new[j].stamps = incidents[j].stamps
              /\ new[j].status \in {incidents[j].status, row.status}
          BY <4>0 DEF IncidentRows
        <5> QED
          BY <5>1, <5>2
      <4>3. CASE tx[w].kind = "ALERT_CORRELATED" /\ ~tx[w].writes
        BY <2>1, <4>3 DEF Written
      <4> QED
        BY <1>1, <2>4, <4>1, <4>2, <4>3 DEF LinkKinds, Targeting
    <3> QED
      BY <2>1, <2>2, <3>1, <3>2, StampsStay DEF StampsInv, Stamped
  <2> QED
    BY <2>3, <2>4
<1> QED
  BY <1>3, <1>4

(* An incident that may be closed has been resolved.                       *)
LEMMA OperatorStamps ==
  ASSUME StampsInv, NEW o \in Operators, OperatorStep(o)
  PROVE  Stamped'
<1>0. /\ TypeOK /\ ClosesResolved /\ StampsMatchStatus
      /\ requests \in [Operators -> Requests]
      /\ \A j \in DOMAIN incidents : incidents[j] \in IncidentRows
  BY DEF StampsInv, Stamped, CodeInv, TypeInv, TypeOK
<1>1. tx' = tx /\ \A w \in Workers : OwnStatus(tx'[w])
  BY DEF OperatorStep, ReadIncident, WriteStatus, AbortRequest, StampsInv, Stamped
<1>2. ASSUME NEW i \in DOMAIN incidents, NEW to \in Statuses, ReadIncident(o, i, to)
      PROVE  ClosesResolved' /\ StampsMatchStatus'
  <2>1. /\ incidents' = incidents
        /\ requests' = [requests EXCEPT ![o] = [pc |-> "write", incident |-> i,
                                                 from |-> incidents[i].status, to |-> to]]
    BY <1>2 DEF ReadIncident, database
  <2>2. to = "CLOSED" => incidents[i].status = "RESOLVED"
    BY <1>0, <1>2 DEF ReadIncident, CanTransition, Transitions, IncidentRows, Statuses
  <2>3. to = "CLOSED" => "resolvedAt" \in incidents[i].stamps
    BY <1>0, <2>2 DEF StampsMatchStatus
  <2> QED
    BY <1>0, <2>1, <2>3 DEF ClosesResolved, StampsMatchStatus
<1>3. CASE WriteStatus(o)
  <2> DEFINE i == requests[o].incident
             to == requests[o].to
             new == [incidents EXCEPT ![i].status = to,
                                      ![i].stamps = @ \union StampOf(to)]
  <2>1. /\ incidents' = new /\ DOMAIN new = DOMAIN incidents
        /\ requests' = [requests EXCEPT ![o] = Idle] /\ requests[o].pc = "write"
    BY <1>3 DEF WriteStatus
  <2>2. ASSUME NEW j \in DOMAIN incidents
        PROVE  /\ incidents[j].stamps \subseteq new[j].stamps
               /\ j # i => new[j] = incidents[j]
               /\ j = i => /\ new[j].status = to
                           /\ new[j].stamps = incidents[j].stamps \union StampOf(to)
    BY <1>0 DEF IncidentRows
  <2>3. StampsMatchStatus'
    <3> SUFFICES ASSUME NEW j \in DOMAIN incidents
                 PROVE  /\ new[j].status = "RESOLVED" => "resolvedAt" \in new[j].stamps
                        /\ new[j].status = "CLOSED"
                             => {"resolvedAt", "closedAt"} \subseteq new[j].stamps
      BY <2>1 DEF StampsMatchStatus
    <3>1. CASE j # i
      BY <1>0, <2>2, <3>1 DEF StampsMatchStatus
    <3>2. CASE j = i
      <4>1. to = "CLOSED" => "resolvedAt" \in incidents[j].stamps
        BY <1>0, <2>1, <3>2 DEF ClosesResolved
      <4>2. /\ to = "RESOLVED" => "resolvedAt" \in StampOf(to)
            /\ to = "CLOSED" => "closedAt" \in StampOf(to)
        BY DEF StampOf
      <4>3. new[j].status = to /\ new[j].stamps = incidents[j].stamps \union StampOf(to)
        BY <2>2, <3>2
      <4> QED
        BY <4>1, <4>2, <4>3
    <3> QED
      BY <3>1, <3>2
  <2>4. ClosesResolved'
    <3>1. \A p \in Operators : requests'[p].pc = "write" => requests'[p] = requests[p]
      BY <1>0, <2>1 DEF Idle
    <3>2. \A j \in DOMAIN incidents : incidents[j].stamps \subseteq incidents'[j].stamps
      BY <2>1, <2>2
    <3> QED
      BY <1>0, <2>1, <3>1, <3>2 DEF ClosesResolved
  <2> QED
    BY <1>1, <2>3, <2>4 DEF Stamped
<1>4. CASE AbortRequest(o)
  <2>1. incidents' = incidents /\ requests' = [requests EXCEPT ![o] = Idle]
    BY <1>4 DEF AbortRequest, database
  <2>2. \A p \in Operators : requests'[p].pc = "write" => requests'[p] = requests[p]
    BY <1>0, <2>1 DEF Idle
  <2> QED
    BY <1>0, <1>1, <2>1, <2>2 DEF ClosesResolved, StampsMatchStatus, Stamped
<1> QED
  BY <1>1, <1>2, <1>3, <1>4 DEF OperatorStep, Stamped

LEMMA StampsInit == Init => StampsInv
<1> SUFFICES ASSUME Init
             PROVE  Stamped
  BY CodeInit DEF StampsInv
<1> QED
  BY IdleType DEF Init, Stamped, OwnStatus, ClosesResolved, StampsMatchStatus, Idle

LEMMA StampsStep == StampsInv /\ [Next]_vars => StampsInv'
<1> SUFFICES ASSUME StampsInv, [Next]_vars
             PROVE  Stamped'
  BY CodeStep DEF StampsInv
<1>1. ASSUME NEW w \in Workers, WorkerStep(w) \/ Abort(w), ~Commit(w), ~CommitIgnored(w)
      PROVE  Stamped'
  <2>1. PICK t : Enter(w, t) /\ OwnStatus(t)
    BY <1>1, StatementStamps DEF WorkerStep
  <2> QED
    BY <2>1, EnterStamps DEF Enter, database
<1>2. ASSUME NEW w \in Workers, CommitIgnored(w)
      PROVE  Stamped'
  <2>1. tx' = [tx EXCEPT ![w] = Idle] /\ UNCHANGED <<incidents, requests>>
    BY <1>2 DEF CommitIgnored, Enter, database
  <2>2. OwnStatus(Idle)
    BY IdleType DEF OwnStatus
  <2> QED
    BY <2>1, <2>2, EnterStamps
<1>3. ASSUME NEW w \in Workers, NEW a \in Alerts, Ingest(w, a)
      PROVE  Stamped'
  <2>1. OwnStatus([pc |-> "check", alert |-> a])
    BY DEF OwnStatus
  <2> QED
    BY <1>3, <2>1, EnterStamps DEF Ingest
<1>4. CASE UNCHANGED vars
  BY <1>4 DEF vars, StampsInv, Stamped, ClosesResolved, StampsMatchStatus
<1> QED
  BY <1>1, <1>2, <1>3, <1>4, CommitStamps, OperatorStamps DEF Next

(* A resolved incident has its resolvedAt and a closed one both times, for *)
(* any number of operators that race with each other and with the engine   *)
(* (transition, applyDecision).                                            *)
THEOREM TimesMatchStatus == Spec => []StampsMatchStatus
<1>1. StampsInv => StampsMatchStatus
  BY DEF StampsInv, Stamped
<1> QED
  BY <1>1, StampsInit, StampsStep, PTL DEF Spec

-----------------------------------------------------------------------------
(* The engine implements the ledger: a commit that creates an incident is  *)
(* Open, any other commit of a link is Join, and no other step moves the   *)
(* books.                                                                  *)
LEMMA OnlyLink ==
  ASSUME NEW S, NEW l \in S, \A m, n \in S : m.alert = n.alert => m = n
  PROVE  (CHOOSE m \in S : m.alert = l.alert) = l
OBVIOUS

(* A step that leaves links and codes alone.                               *)
LEMMA FrameLedger ==
  ASSUME links' = links, nextNumber' = nextNumber, DOMAIN incidents' = DOMAIN incidents,
         \A i \in DOMAIN incidents : /\ incidents'[i].year = incidents[i].year
                                     /\ incidents'[i].number = incidents[i].number
  PROVE  UNCHANGED Ledger!ledger
<1>1. \A a \in Alerts : EntryOf(a)' = EntryOf(a)
  BY DEF EntryOf, IsLinked
<1>2. \A i \in DOMAIN incidents : CodeOf(i)' = CodeOf(i)
  BY DEF CodeOf
<1> QED
  BY <1>1, <1>2 DEF Ledger!ledger

(* The link a commit inserts is the first one of its alert.                *)
LEMMA CommitEnters ==
  ASSUME LinkInv, AlertLinkedOnce', NEW w \in Workers, Commit(w), ~IsRecorded(tx[w].alert)
  PROVE  /\ EntryOf(tx[w].alert) = Null
         /\ \A a \in Alerts :
              EntryOf(a)' = IF a = tx[w].alert THEN tx[w].incident ELSE EntryOf(a)
<1> DEFINE a0 == tx[w].alert
           link == [alert |-> a0, incident |-> tx[w].incident, kind |-> tx[w].kind]
<1>1. links' = links \union {link}
  BY DEF Commit
<1>2. ~IsLinked(a0)
  BY DEF Commit, LinkInv, LinkGuarded
<1>3. ASSUME NEW a \in Alerts, a = a0
      PROVE  EntryOf(a)' = tx[w].incident
  <2>1. \A m, n \in links' : m.alert = n.alert => m = n
    BY DEF AlertLinkedOnce
  <2>2. PICK l \in links' : l.alert = a /\ l.incident = tx[w].incident
    <3>1. link \in links' /\ link.alert = a /\ link.incident = tx[w].incident
      BY <1>1, <1>3
    <3> HIDE DEF link
    <3> QED
      BY <3>1
  <2>3. (CHOOSE m \in links' : m.alert = a) = l
    BY <2>1, <2>2, OnlyLink
  <2> QED
    BY <2>2, <2>3 DEF EntryOf, IsLinked
<1>4. ASSUME NEW a \in Alerts, a # a0
      PROVE  EntryOf(a)' = EntryOf(a)
  <2>1. \A m \in links' : m.alert = a => m \in links
    BY <1>1, <1>4
  <2>2. CASE IsLinked(a)
    <3>1. PICK l \in links : l.alert = a
      BY <2>2 DEF IsLinked
    <3>2. /\ \A m, n \in links : m.alert = n.alert => m = n
          /\ \A m, n \in links' : m.alert = n.alert => m = n
          /\ l \in links'
      BY <1>1 DEF LinkInv, AlertLinkedOnce
    <3>3. /\ (CHOOSE m \in links : m.alert = a) = l
          /\ (CHOOSE m \in links' : m.alert = a) = l
      BY <3>1, <3>2, OnlyLink
    <3> QED
      BY <2>2, <3>1, <3>2, <3>3 DEF EntryOf, IsLinked
  <2>3. CASE ~IsLinked(a)
    BY <2>1, <2>3 DEF EntryOf, IsLinked
  <2> QED
    BY <2>2, <2>3
<1> QED
  BY <1>2, <1>3, <1>4 DEF EntryOf

LEMMA CommitLedger ==
  ASSUME LinkInv, CodeInv, AlertLinkedOnce', NEW w \in Workers, Commit(w)
  PROVE  Ledger!Next \/ UNCHANGED Ledger!ledger
<1> DEFINE a0 == tx[w].alert
           i0 == tx[w].incident
           row == tx[w].row
           entry == [a \in Alerts |-> EntryOf(a)]
           code == [i \in DOMAIN incidents |-> CodeOf(i)]
<1>1. tx[w] \in Targeting /\ tx[w].pc = "record"
  BY TransactionShape DEF CodeInv, TypeInv, TypeOK, Commit
<1>2. a0 \in Alerts /\ i0 \in IncidentIds
  BY <1>1 DEF Targeting
<1>3. CASE IsRecorded(a0)
  BY <1>3, FrameLedger DEF Commit, Enter, database
<1>4. CASE ~IsRecorded(a0)
  <2>1. entry[a0] = Null /\ entry' = [entry EXCEPT ![a0] = i0]
    BY <1>2, <1>4, CommitEnters
  <2>2. ASSUME tx[w].kind = "INCIDENT_CREATED"
        PROVE  Ledger!Open(a0, i0)
    <3> DEFINE y0 == YearOf(a0)
    <3>1. /\ row.year = y0 /\ row.number = nextNumber[y0] + 1
          /\ i0 \notin DOMAIN incidents
      BY <1>1, <2>2 DEF CodeInv, NumberGuarded, Creating
    <3>2. /\ incidents' = [j \in DOMAIN incidents \union {i0} |->
                             IF j = i0 THEN row ELSE incidents[j]]
          /\ nextNumber' = [nextNumber EXCEPT ![y0] = nextNumber[y0] + 1]
      BY <1>4, <2>2, <3>1 DEF Commit, NumbersWritten, Written
    <3>3. code' = [j \in DOMAIN code \union {i0} |->
                     IF j = i0 THEN [year |-> y0, number |-> nextNumber[y0] + 1]
                     ELSE code[j]]
      BY <3>1, <3>2 DEF CodeOf
    <3> QED
      BY <2>1, <3>1, <3>2, <3>3 DEF Ledger!Open
  <2>3. ASSUME tx[w].kind # "INCIDENT_CREATED"
        PROVE  Ledger!Join(a0, i0)
    <3>1. i0 \in DOMAIN incidents
      BY <1>1, <2>3 DEF CodeInv, TypeInv, TargetsExist
    <3>2. incidents' = Written(w) /\ nextNumber' = nextNumber
      BY <1>4, <2>3 DEF Commit, NumbersWritten
    <3>3. /\ DOMAIN incidents' = DOMAIN incidents
          /\ \A j \in DOMAIN incidents : /\ incidents'[j].year = incidents[j].year
                                          /\ incidents'[j].number = incidents[j].number
      BY <1>1, <2>3, <3>2, WrittenType, WrittenKeepsCodes DEF CodeInv
    <3>4. code' = code
      BY <3>3 DEF CodeOf
    <3> QED
      BY <2>1, <3>1, <3>2, <3>4 DEF Ledger!Join
  <2> QED
    BY <1>2, <2>2, <2>3 DEF Ledger!Next
<1> QED
  BY <1>3, <1>4

LEMMA LedgerStep ==
  LinkInv /\ CodeInv /\ AlertLinkedOnce' /\ [Next]_vars
    => Ledger!Next \/ UNCHANGED Ledger!ledger
<1> SUFFICES ASSUME LinkInv, CodeInv, AlertLinkedOnce', [Next]_vars
             PROVE  Ledger!Next \/ UNCHANGED Ledger!ledger
  OBVIOUS
<1>1. ASSUME NEW w \in Workers, NEW a \in Alerts, Ingest(w, a)
      PROVE  UNCHANGED Ledger!ledger
  BY <1>1, FrameLedger DEF Ingest
<1>2. ASSUME NEW w \in Workers,
             \/ CheckLink(w) \/ AnalyzeAlert(w) \/ FindIncident(w) \/ FindRecovering(w)
             \/ UpdateIncident(w) \/ CreateIncident(w) \/ AttachAlert(w)
             \/ CommitIgnored(w) \/ Abort(w)
      PROVE  UNCHANGED Ledger!ledger
  <2>1. UNCHANGED <<links, incidents, nextNumber>>
    BY <1>2 DEF CheckLink, AnalyzeAlert, FindIncident, FindRecovering, UpdateIncident,
       CreateIncident, AttachAlert, CommitIgnored, Abort, Enter, database
  <2> QED
    BY <2>1, FrameLedger
<1>3. ASSUME NEW o \in Operators, OperatorStep(o)
      PROVE  UNCHANGED Ledger!ledger
  <2>1. UNCHANGED <<links, nextNumber>>
    BY <1>3 DEF OperatorStep, ReadIncident, WriteStatus, AbortRequest, database
  <2> QED
    BY <1>3, <2>1, OperatorKeepsCodes, FrameLedger DEF LinkInv
<1>4. CASE UNCHANGED vars
  BY <1>4, FrameLedger DEF vars
<1> QED
  BY <1>1, <1>2, <1>3, <1>4, CommitLedger DEF Next, WorkerStep

(* The racing transactions implement the ledger of README.md, "Fase 4":    *)
(* each alert is entered once, opening the next code of its year or        *)
(* joining an incident, and nothing entered is changed or withdrawn.       *)
THEOREM EngineKeepsLedger == Spec => KeepsLedger
<1>1. Init => Ledger!Init
  BY DEF Init, Ledger!Init, EntryOf, IsLinked, CodeOf
<1>2. LinkInv /\ CodeInv /\ AlertLinkedOnce' /\ [Next]_vars
        => [Ledger!Next]_(Ledger!ledger)
  BY LedgerStep
<1>3. LinkInv => AlertLinkedOnce
  BY DEF LinkInv
<1> QED
  BY <1>1, <1>2, <1>3, LinkInit, LinkStep, CodeInit, CodeStep, PTL
     DEF Spec, KeepsLedger, Ledger!Spec
=============================================================================
