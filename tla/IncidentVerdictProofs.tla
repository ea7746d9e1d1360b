------------------------ MODULE IncidentVerdictProofs ------------------------
(***************************************************************************)
(* What the incident engine says of an incident: the alerts it holds, the   *)
(* evidence for its verdict and its status, for every set of alerts, rules, *)
(* workers and ids.  IncidentEngineProofs has the invariants of the locks   *)
(* and of the books that these theorems rest on.                           *)
(***************************************************************************)
EXTENDS IncidentEngineProofs

-----------------------------------------------------------------------------
(* The statements of a transaction that touch no committed row, by what     *)
(* they let worker w know: t is its transaction after the statement.       *)

EndsOrChecks(w, t) == \/ t.pc = "idle"
                      \/ tx[w].pc = "check" /\ t.pc = "analyze" /\ t.alert = tx[w].alert

Decides(w, t) == /\ tx[w].pc = "analyze" /\ t.pc = "find"
                 /\ t.alert = tx[w].alert
                 /\ t.decision = Analyze(t.alert, Stored)

FindsNone(w, t) == /\ tx[w].pc = "find" /\ t.pc \in {"number", "ignore"}
                   /\ t.alert = tx[w].alert /\ t.decision = tx[w].decision
                   /\ t.pc = "ignore" <=> IsRecovery(t.alert)
                   /\ t.pc = "number"
                        => Earliest(Joinable(t.alert, t.decision.correlationKey)) = {}

FindsToJoin(w, t) == /\ tx[w].pc = "find" /\ t.pc \in {"update", "attach"}
                     /\ t.alert = tx[w].alert /\ t.decision = tx[w].decision
                     /\ t.kind = "ALERT_CORRELATED" /\ ~IsRecovery(t.alert)
                     /\ t.incident \in Joinable(t.alert, t.decision.correlationKey)
                     /\ t.row = Upgraded(incidents[t.incident], t.decision)
                     /\ t.pc = "attach" <=> t.row = incidents[t.incident]
                     /\ ~t.writes

FindsToRecover(w, t) == /\ tx[w].pc = "find" /\ t.pc = "update"
                        /\ t.alert = tx[w].alert /\ t.decision = tx[w].decision
                        /\ t.kind = "RECOVERY_DETECTED" /\ IsRecovery(t.alert)
                        /\ t.incident \in OpenWithKey(t.decision.correlationKey)

Creates(w, t) == /\ tx[w].pc = "number" /\ t.pc = "attach"
                 /\ t.alert = tx[w].alert /\ t.decision = tx[w].decision
                 /\ t.kind = "INCIDENT_CREATED"
                 /\ t.row = NewRow(t.alert, t.decision, t.row.number)

Advances(w, t) == /\ \/ tx[w].pc = "update" /\ t.pc = "attach" /\ t.writes
                     \/ tx[w].pc = "attach" /\ t.pc = "record" /\ t.writes = tx[w].writes
                  /\ t.alert = tx[w].alert /\ t.decision = tx[w].decision
                  /\ t.incident = tx[w].incident /\ t.row = tx[w].row
                  /\ t.kind = tx[w].kind

Learns(w, t) == \/ EndsOrChecks(w, t) \/ Decides(w, t) \/ FindsNone(w, t)
                \/ FindsToJoin(w, t) \/ FindsToRecover(w, t)
                \/ Creates(w, t) \/ Advances(w, t)

LEMMA StatementLearns ==
  ASSUME TypeInv, NEW w \in Workers,
         \/ CheckLink(w) \/ AnalyzeAlert(w) \/ FindIncident(w) \/ FindRecovering(w)
         \/ UpdateIncident(w) \/ CreateIncident(w) \/ AttachAlert(w) \/ Abort(w)
  PROVE  \E t : Enter(w, t) /\ Learns(w, t)
<1>0. tx[w] \in Transactions
  BY DEF TypeInv, TypeOK
<1>1. CASE CheckLink(w) \/ Abort(w)
  BY <1>1, IdleType DEF CheckLink, Abort, Learns, EndsOrChecks
<1>2. CASE AnalyzeAlert(w)
  BY <1>2 DEF AnalyzeAlert, Learns, Decides
<1>3. CASE FindIncident(w)
  <2>1. tx[w] \in Deciding /\ tx[w].pc = "find" /\ ~IsRecovery(tx[w].alert)
    BY <1>0, <1>3, TransactionShape DEF FindIncident
  <2> DEFINE found == Earliest(Joinable(tx[w].alert, tx[w].decision.correlationKey))
  <2>2. CASE found = {} /\ Enter(w, [tx[w] EXCEPT !.pc = "number"])
    <3> DEFINE t == [tx[w] EXCEPT !.pc = "number"]
    <3>1. t.pc = "number" /\ t.alert = tx[w].alert /\ t.decision = tx[w].decision
      BY <2>1 DEF Deciding
    <3>2. FindsNone(w, t)
      BY <2>1, <2>2, <3>1 DEF FindsNone
    <3> QED
      BY <2>2, <3>2 DEF Learns
  <2>3. ASSUME NEW i \in found,
               Enter(w, Target(w, i, Upgraded(incidents[i], tx[w].decision),
                               "ALERT_CORRELATED"))
        PROVE  \E t : Enter(w, t) /\ Learns(w, t)
    <3> DEFINE t == Target(w, i, Upgraded(incidents[i], tx[w].decision), "ALERT_CORRELATED")
    <3>1. i \in Joinable(tx[w].alert, tx[w].decision.correlationKey)
      BY DEF Earliest
    <3>2. FindsToJoin(w, t)
      BY <2>1, <3>1 DEF FindsToJoin, Target
    <3> QED
      BY <2>3, <3>2 DEF Learns
  <2> QED
    BY <1>3, <2>2, <2>3 DEF FindIncident
<1>4. CASE FindRecovering(w)
  <2>1. tx[w] \in Deciding /\ tx[w].pc = "find" /\ IsRecovery(tx[w].alert)
    BY <1>0, <1>4, TransactionShape DEF FindRecovering
  <2> DEFINE found == Latest(OpenWithKey(tx[w].decision.correlationKey))
  <2>2. CASE Enter(w, [tx[w] EXCEPT !.pc = "ignore"])
    <3> DEFINE t == [tx[w] EXCEPT !.pc = "ignore"]
    <3>1. t.pc = "ignore" /\ t.alert = tx[w].alert /\ t.decision = tx[w].decision
      BY <2>1 DEF Deciding
    <3>2. FindsNone(w, t)
      BY <2>1, <3>1 DEF FindsNone
    <3> QED
      BY <2>2, <3>2 DEF Learns
  <2>3. ASSUME NEW i \in found,
               Enter(w, Target(w, i, [incidents[i] EXCEPT !.status = "MONITORING"],
                               "RECOVERY_DETECTED"))
        PROVE  \E t : Enter(w, t) /\ Learns(w, t)
    <3> DEFINE t == Target(w, i, [incidents[i] EXCEPT !.status = "MONITORING"],
                           "RECOVERY_DETECTED")
    <3>1. i \in OpenWithKey(tx[w].decision.correlationKey)
      BY DEF Latest
    <3>2. FindsToRecover(w, t)
      BY <2>1, <3>1 DEF FindsToRecover, Target
    <3> QED
      BY <2>3, <3>2 DEF Learns
  <2> QED
    BY <1>4, <2>2, <2>3 DEF FindRecovering
<1>5. CASE UpdateIncident(w)
  <2> DEFINE t == [tx[w] EXCEPT !.pc = "attach", !.writes = TRUE]
  <2>1. tx[w] \in Targeting
    BY <1>0, <1>5, TransactionShape DEF UpdateIncident
  <2>2. Advances(w, t)
    BY <1>5, <2>1 DEF UpdateIncident, Advances, Targeting
  <2> QED
    BY <1>5, <2>2 DEF UpdateIncident, Learns
<1>6. CASE CreateIncident(w)
  <2>1. PICK i : Enter(w, [pc |-> "attach", alert |-> tx[w].alert, decision |-> tx[w].decision,
                           incident |-> i,
                           row |-> NewRow(tx[w].alert, tx[w].decision,
                                          nextNumber[YearOf(tx[w].alert)] + 1),
                           writes |-> TRUE, kind |-> "INCIDENT_CREATED"])
    BY <1>6 DEF CreateIncident
  <2> DEFINE t == [pc |-> "attach", alert |-> tx[w].alert, decision |-> tx[w].decision,
                   incident |-> i,
                   row |-> NewRow(tx[w].alert, tx[w].decision,
                                  nextNumber[YearOf(tx[w].alert)] + 1),
                   writes |-> TRUE, kind |-> "INCIDENT_CREATED"]
  <2>2. t.row.number = nextNumber[YearOf(tx[w].alert)] + 1
    BY DEF NewRow
  <2>3. Creates(w, t)
    BY <1>6, <2>2 DEF CreateIncident, Creates
  <2> QED
    BY <2>1, <2>3 DEF Learns
<1>7. CASE AttachAlert(w)
  <2> DEFINE t == [tx[w] EXCEPT !.pc = "record"]
  <2>1. tx[w] \in Targeting
    BY <1>0, <1>7, TransactionShape DEF AttachAlert
  <2>2. Advances(w, t)
    BY <1>7, <2>1 DEF AttachAlert, Advances, Targeting
  <2> QED
    BY <1>7, <2>2, IdleType DEF AttachAlert, Learns, EndsOrChecks
<1> QED
  BY <1>1, <1>2, <1>3, <1>4, <1>5, <1>6, <1>7

(* The row of an existing incident after worker w commits.                 *)
LEMMA WrittenRow ==
  ASSUME TypeInv, NEW w \in Workers, tx[w] \in Targeting,
         tx[w].kind # "INCIDENT_CREATED", NEW j \in DOMAIN incidents
  PROVE  LET old == incidents[j]
             new == Written(w)[j]
             upgraded == j = tx[w].incident /\ tx[w].kind = "ALERT_CORRELATED" /\ tx[w].writes
         IN  /\ new.correlationKey = old.correlationKey
             /\ new.detectedAt = old.detectedAt
             /\ new.severity = IF upgraded THEN tx[w].row.severity ELSE old.severity
             /\ new.diagnosis = IF upgraded THEN tx[w].row.diagnosis ELSE old.diagnosis
             /\ new.rootCauseConfidence = IF upgraded THEN tx[w].row.rootCauseConfidence
                                          ELSE old.rootCauseConfidence
             /\ new.status = IF j = tx[w].incident /\ tx[w].kind = "RECOVERY_DETECTED"
                             THEN tx[w].row.status ELSE old.status
<1>1. incidents[j] \in IncidentRows
  BY DEF TypeInv, TypeOK
<1> DEFINE i == tx[w].incident
           row == tx[w].row
<1>2. CASE tx[w].kind = "ALERT_CORRELATED" /\ tx[w].writes
  <2> DEFINE new == [incidents EXCEPT
                       ![i].severity = row.severity, ![i].diagnosis = row.diagnosis,
                       ![i].rootCauseConfidence = row.rootCauseConfidence]
  <2>1. Written(w) = new
    BY <1>2 DEF Written
  <2> HIDE DEF row, i
  <2>2. CASE j = i
    <3>1. new[j] = [incidents[j] EXCEPT !.severity = row.severity, !.diagnosis = row.diagnosis,
                                        !.rootCauseConfidence = row.rootCauseConfidence]
      BY <2>2
    <3>2. /\ new[j].correlationKey = incidents[j].correlationKey
          /\ new[j].detectedAt = incidents[j].detectedAt
          /\ new[j].status = incidents[j].status
          /\ new[j].severity = row.severity /\ new[j].diagnosis = row.diagnosis
          /\ new[j].rootCauseConfidence = row.rootCauseConfidence
      BY <1>1, <3>1 DEF IncidentRows
    <3> QED
      BY <1>2, <2>1, <2>2, <3>2 DEF row, i
  <2>3. CASE j # i
    <3>1. new[j] = incidents[j]
      BY <2>3
    <3> QED
      BY <1>2, <2>1, <2>3, <3>1 DEF i
  <2> QED
    BY <2>2, <2>3
<1>3. CASE tx[w].kind = "RECOVERY_DETECTED"
  <2>1. Written(w) = [incidents EXCEPT ![i].status = row.status]
    BY <1>3 DEF Written
  <2> QED
    BY <1>1, <1>3, <2>1 DEF IncidentRows
<1>4. CASE tx[w].kind = "ALERT_CORRELATED" /\ ~tx[w].writes
  BY <1>4 DEF Written
<1> QED
  BY <1>2, <1>3, <1>4 DEF LinkKinds, Targeting

(* An operator changes of a row its status and its times.                  *)
LEMMA OperatorRow ==
  ASSUME TypeInv, NEW o \in Operators, OperatorStep(o)
  PROVE  /\ DOMAIN incidents' = DOMAIN incidents
         /\ \A j \in DOMAIN incidents :
              /\ incidents'[j].correlationKey = incidents[j].correlationKey
              /\ incidents'[j].detectedAt = incidents[j].detectedAt
              /\ incidents'[j].severity = incidents[j].severity
              /\ incidents'[j].diagnosis = incidents[j].diagnosis
              /\ incidents'[j].rootCauseConfidence = incidents[j].rootCauseConfidence
         /\ UNCHANGED <<alertStatus, links, results, tx>>
<1>1. CASE WriteStatus(o)
  <2> DEFINE i == requests[o].incident
             new == [incidents EXCEPT ![i].status = requests[o].to,
                       ![i].stamps = @ \union StampOf(requests[o].to)]
  <2>1. incidents' = new /\ DOMAIN new = DOMAIN incidents
        /\ UNCHANGED <<alertStatus, links, results, tx>>
    BY <1>1 DEF WriteStatus
  <2>2. ASSUME NEW j \in DOMAIN incidents
        PROVE  /\ new[j].correlationKey = incidents[j].correlationKey
               /\ new[j].detectedAt = incidents[j].detectedAt
               /\ new[j].severity = incidents[j].severity
               /\ new[j].diagnosis = incidents[j].diagnosis
               /\ new[j].rootCauseConfidence = incidents[j].rootCauseConfidence
    <3>1. incidents[j] \in IncidentRows
      BY DEF TypeInv, TypeOK
    <3> QED
      BY <3>1 DEF IncidentRows
  <2> QED
    BY <2>1, <2>2
<1>2. CASE ~WriteStatus(o)
  BY <1>2 DEF OperatorStep, ReadIncident, AbortRequest, database
<1> QED
  BY <1>1, <1>2

-----------------------------------------------------------------------------
(* The alerts of an incident.  What a transaction has decided is about its  *)
(* alert, the row it makes is its alert's, and the incident it joins goes   *)
(* with its alert until it commits, for nothing rewrites a key or a time.   *)
Bound(t) ==
  /\ t.pc \in {"find", "number", "ignore", "update", "attach", "record"}
       => t.decision.correlationKey = CorrelationKey(t.alert)
  /\ t.pc = "number" => ~IsRecovery(t.alert)
  /\ t.pc \in {"update", "attach", "record"} =>
       /\ t.kind = "RECOVERY_DETECTED" <=> IsRecovery(t.alert)
       /\ t.kind = "INCIDENT_CREATED" => t.row = NewRow(t.alert, t.decision, t.row.number)
       /\ t.kind # "INCIDENT_CREATED"
            => incidents[t.incident].correlationKey = CorrelationKey(t.alert)
       /\ t.kind = "ALERT_CORRELATED"
            => incidents[t.incident].detectedAt >= WindowStart(t.alert)

AllBound == \A w \in Workers : Bound(tx[w])
HoldInv == LinkInv /\ CodeInv /\ AllBound /\ IncidentHoldsItsAlerts

LEMMA LearnsBound ==
  ASSUME HoldInv, NEW w \in Workers, NEW t, Learns(w, t)
  PROVE  Bound(t)
<1>0. Bound(tx[w])
  BY DEF HoldInv, AllBound
<1>1. CASE EndsOrChecks(w, t)
  BY <1>1 DEF EndsOrChecks, Bound
<1>2. CASE Decides(w, t)
  BY <1>2 DEF Decides, Bound, Analyze
<1>3. CASE FindsNone(w, t)
  BY <1>0, <1>3 DEF FindsNone, Bound
<1>4. CASE FindsToJoin(w, t)
  BY <1>0, <1>4 DEF FindsToJoin, Bound, Joinable, OpenWithKey
<1>5. CASE FindsToRecover(w, t)
  BY <1>0, <1>5 DEF FindsToRecover, Bound, OpenWithKey
<1>6. CASE Creates(w, t)
  BY <1>0, <1>6 DEF Creates, Bound
<1>7. CASE Advances(w, t)
  BY <1>0, <1>7 DEF Advances, Bound
<1> QED
  BY <1>1, <1>2, <1>3, <1>4, <1>5, <1>6, <1>7 DEF Learns

(* Rows are added and keep their key and their time.                       *)
RowsStay == /\ DOMAIN incidents \subseteq DOMAIN incidents'
            /\ \A j \in DOMAIN incidents :
                 /\ incidents'[j].correlationKey = incidents[j].correlationKey
                 /\ incidents'[j].detectedAt = incidents[j].detectedAt

LEMMA StayBound ==
  ASSUME HoldInv, RowsStay,
         \A v \in Workers : tx'[v] = tx[v] \/ tx'[v].pc \in {"idle", "check"}
  PROVE  AllBound'
<1> SUFFICES ASSUME NEW v \in Workers
             PROVE  Bound(tx[v])'
  BY DEF AllBound
<1>1. CASE tx'[v].pc \in {"idle", "check"}
  BY <1>1 DEF Bound
<1>2. CASE tx'[v] = tx[v]
  <2>1. /\ Bound(tx[v])
        /\ tx[v].pc \in {"update", "attach", "record"} /\ tx[v].kind # "INCIDENT_CREATED"
             => tx[v].incident \in DOMAIN incidents
    BY DEF HoldInv, AllBound, CodeInv, TypeInv, TargetsExist
  <2> QED
    BY <1>2, <2>1 DEF Bound, RowsStay
<1> QED
  BY <1>1, <1>2

LEMMA StayHolds ==
  ASSUME HoldInv, RowsStay, DOMAIN incidents' = DOMAIN incidents, links' = links
  PROVE  IncidentHoldsItsAlerts'
<1>1. \A i : LinksOf(i)' = LinksOf(i)
  BY DEF LinksOf
<1> QED
  BY <1>1 DEF HoldInv, IncidentHoldsItsAlerts, RowsStay

(* What a commit does to the rows.                                         *)
LEMMA CommitRows ==
  ASSUME TypeInv, NumberGuarded, NEW w \in Workers, Commit(w), ~IsRecorded(tx[w].alert)
  PROVE  /\ RowsStay
         /\ tx[w] \in Targeting /\ tx[w].pc = "record"
         /\ tx' = [tx EXCEPT ![w] = Idle]
         /\ \A v \in Workers : tx'[v] = tx[v] \/ tx'[v].pc \in {"idle", "check"}
         /\ tx[w].incident \in DOMAIN incidents'
         /\ tx[w].kind # "INCIDENT_CREATED" => DOMAIN incidents' = DOMAIN incidents
         /\ tx[w].kind = "INCIDENT_CREATED"
              => /\ DOMAIN incidents' = DOMAIN incidents \union {tx[w].incident}
                 /\ tx[w].incident \notin DOMAIN incidents
                 /\ \A j \in DOMAIN incidents : incidents'[j] = incidents[j]
                 /\ incidents'[tx[w].incident] = tx[w].row
<1>1. tx[w] \in Targeting /\ tx[w].pc = "record" /\ tx \in [Workers -> Transactions]
  BY TransactionShape DEF TypeInv, TypeOK, Commit
<1>2. incidents' = Written(w) /\ tx' = [tx EXCEPT ![w] = Idle]
  BY DEF Commit
<1>3. \A v \in Workers : tx'[v] = tx[v] \/ tx'[v].pc \in {"idle", "check"}
  BY <1>1, <1>2, IdleType
<1>4. CASE tx[w].kind = "INCIDENT_CREATED"
  <2>1. tx[w].incident \notin DOMAIN incidents
    BY <1>1, <1>4 DEF NumberGuarded, Creating
  <2>2. incidents' = [j \in DOMAIN incidents \union {tx[w].incident} |->
                        IF j = tx[w].incident THEN tx[w].row ELSE incidents[j]]
    BY <1>2, <1>4 DEF Written
  <2> QED
    BY <1>1, <1>2, <1>3, <1>4, <2>1, <2>2 DEF RowsStay
<1>5. CASE tx[w].kind # "INCIDENT_CREATED"
  <2>1. DOMAIN incidents' = DOMAIN incidents /\ tx[w].incident \in DOMAIN incidents
    BY <1>1, <1>2, <1>5, WrittenType DEF TypeInv, TargetsExist
  <2>2. RowsStay
    BY <1>1, <1>2, <1>5, <2>1, WrittenRow DEF RowsStay
  <2> QED
    BY <1>1, <1>2, <1>3, <1>5, <2>1, <2>2
<1> QED
  BY <1>4, <1>5

LEMMA CommitHolds ==
  ASSUME HoldInv, NEW w \in Workers, Commit(w), ~IsRecorded(tx[w].alert)
  PROVE  IncidentHoldsItsAlerts'
<1> DEFINE a == tx[w].alert
           i0 == tx[w].incident
           link == [alert |-> a, incident |-> i0, kind |-> tx[w].kind]
<1>1. /\ RowsStay /\ tx[w] \in Targeting /\ tx[w].pc = "record"
      /\ tx[w].kind # "INCIDENT_CREATED" => DOMAIN incidents' = DOMAIN incidents
      /\ tx[w].kind = "INCIDENT_CREATED"
           => /\ DOMAIN incidents' = DOMAIN incidents \union {i0}
              /\ i0 \notin DOMAIN incidents
              /\ incidents'[i0] = tx[w].row
  BY CommitRows DEF HoldInv, CodeInv
<1>2. links' = links \union {link}
  BY DEF Commit
<1>3. Bound(tx[w]) /\ IncidentHoldsItsAlerts
  BY DEF HoldInv, AllBound
<1>4. \A i : LinksOf(i)' = LinksOf(i) \union (IF i = i0 THEN {link} ELSE {})
  BY <1>2 DEF LinksOf
<1>5. ASSUME NEW i \in DOMAIN incidents, NEW l \in LinksOf(i)
      PROVE  /\ CorrelationKey(l.alert) = incidents'[i].correlationKey
             /\ l.kind = "INCIDENT_CREATED"
                  => AlertData[l.alert].detectedAt = incidents'[i].detectedAt
             /\ l.kind = "ALERT_CORRELATED"
                  => incidents'[i].detectedAt >= WindowStart(l.alert)
  BY <1>1, <1>3 DEF IncidentHoldsItsAlerts, RowsStay
<1>6. CASE tx[w].kind = "INCIDENT_CREATED"
  <2>1. LinksOf(i0) = {}
    BY <1>1, <1>6 DEF LinksOf, HoldInv, CodeInv, TypeInv, TypeOK
  <2>2. /\ \A i : i = i0 => LinksOf(i)' = {link}
        /\ link.alert = a /\ link.kind = "INCIDENT_CREATED"
    BY <1>4, <1>6, <2>1
  <2>3. /\ CorrelationKey(a) = incidents'[i0].correlationKey
        /\ AlertData[a].detectedAt = incidents'[i0].detectedAt
    BY <1>1, <1>3, <1>6 DEF Bound, NewRow
  <2> SUFFICES ASSUME NEW i \in DOMAIN incidents'
               PROVE  /\ Cardinality({l \in LinksOf(i)' : l.kind = "INCIDENT_CREATED"}) = 1
                      /\ \A l \in LinksOf(i)' :
                           /\ CorrelationKey(l.alert) = incidents'[i].correlationKey
                           /\ l.kind = "INCIDENT_CREATED"
                                => AlertData[l.alert].detectedAt = incidents'[i].detectedAt
                           /\ l.kind = "ALERT_CORRELATED"
                                => incidents'[i].detectedAt >= WindowStart(l.alert)
    BY DEF IncidentHoldsItsAlerts
  <2>4. CASE i = i0
    <3> HIDE DEF link
    <3>1. {l \in LinksOf(i)' : l.kind = "INCIDENT_CREATED"} = {link}
      BY <2>2, <2>4
    <3>2. Cardinality({link}) = 1
      BY FS_Singleton
    <3>3. \A l \in LinksOf(i)' : l.alert = a /\ l.kind = "INCIDENT_CREATED"
      BY <2>2, <2>4
    <3> QED
      BY <2>3, <2>4, <3>1, <3>2, <3>3
  <2>5. CASE i # i0
    BY <1>1, <1>3, <1>4, <1>5, <1>6, <2>5 DEF IncidentHoldsItsAlerts
  <2> QED
    BY <2>4, <2>5
<1>7. CASE tx[w].kind # "INCIDENT_CREATED"
  <2>1. i0 \in DOMAIN incidents /\ DOMAIN incidents' = DOMAIN incidents
    BY <1>1, <1>7 DEF HoldInv, CodeInv, TypeInv, TargetsExist
  <2>2. /\ CorrelationKey(a) = incidents'[i0].correlationKey
        /\ tx[w].kind = "ALERT_CORRELATED" => incidents'[i0].detectedAt >= WindowStart(a)
    BY <1>1, <1>3, <1>7, <2>1 DEF Bound, RowsStay
  <2>3. ASSUME NEW i \in DOMAIN incidents
        PROVE  /\ {l \in LinksOf(i)' : l.kind = "INCIDENT_CREATED"}
                    = {l \in LinksOf(i) : l.kind = "INCIDENT_CREATED"}
               /\ \A l \in LinksOf(i)' : l \in LinksOf(i) \/ (l = link /\ i = i0)
    BY <1>4, <1>7
  <2>4. link.alert = a /\ link.kind = tx[w].kind
    OBVIOUS
  <2> HIDE DEF link
  <2> QED
    BY <1>3, <1>5, <1>7, <2>1, <2>2, <2>3, <2>4 DEF IncidentHoldsItsAlerts
<1> QED
  BY <1>6, <1>7

LEMMA HoldInit == Init => HoldInv
<1> SUFFICES ASSUME Init PROVE AllBound /\ IncidentHoldsItsAlerts
  BY LinkInit, CodeInit DEF HoldInv
<1>1. \A w \in Workers : tx[w].pc = "idle"
  BY IdleType DEF Init
<1> QED
  BY <1>1 DEF Init, AllBound, Bound, IncidentHoldsItsAlerts

LEMMA HoldStep == HoldInv /\ [Next]_vars => HoldInv'
<1> SUFFICES ASSUME HoldInv, [Next]_vars
             PROVE  AllBound' /\ IncidentHoldsItsAlerts'
  BY LinkStep, CodeStep DEF HoldInv
<1>0. TypeInv /\ NumberGuarded /\ tx \in [Workers -> Transactions]
  BY DEF HoldInv, CodeInv, TypeInv, TypeOK
<1>1. ASSUME NEW w \in Workers, NEW t, Enter(w, t), Learns(w, t)
      PROVE  AllBound' /\ IncidentHoldsItsAlerts'
  <2>1. Bound(t)
    BY <1>1, LearnsBound
  <2>2. /\ tx' = [tx EXCEPT ![w] = t]
        /\ UNCHANGED <<incidents, links>>
    BY <1>1 DEF Enter, database
  <2>3. AllBound'
    BY <1>0, <2>1, <2>2 DEF HoldInv, AllBound, Bound
  <2> QED
    BY <2>2, <2>3, StayHolds DEF RowsStay
<1>2. ASSUME NEW w \in Workers, NEW a \in Alerts, Ingest(w, a)
      PROVE  AllBound' /\ IncidentHoldsItsAlerts'
  BY <1>0, <1>2, StayBound, StayHolds DEF Ingest, RowsStay
<1>3. ASSUME NEW w \in Workers, Commit(w) \/ CommitIgnored(w),
             IsRecorded(tx[w].alert) \/ CommitIgnored(w)
      PROVE  AllBound' /\ IncidentHoldsItsAlerts'
  <2>1. tx' = [tx EXCEPT ![w] = Idle] /\ UNCHANGED <<incidents, links>>
    BY <1>3 DEF Commit, CommitIgnored, Enter, database
  <2>2. \A v \in Workers : tx'[v] = tx[v] \/ tx'[v].pc \in {"idle", "check"}
    BY <1>0, <2>1, IdleType
  <2> QED
    BY <2>1, <2>2, StayBound, StayHolds DEF RowsStay
<1>4. ASSUME NEW w \in Workers, Commit(w), ~IsRecorded(tx[w].alert)
      PROVE  AllBound' /\ IncidentHoldsItsAlerts'
  BY <1>0, <1>4, CommitRows, StayBound, CommitHolds
<1>5. ASSUME NEW o \in Operators, OperatorStep(o)
      PROVE  AllBound' /\ IncidentHoldsItsAlerts'
  BY <1>0, <1>5, OperatorRow, StayBound, StayHolds DEF RowsStay
<1>6. CASE UNCHANGED vars
  BY <1>6, StayBound, StayHolds DEF vars, RowsStay
<1>7. ASSUME NEW w \in Workers, WorkerStep(w) \/ Abort(w), ~Commit(w), ~CommitIgnored(w)
      PROVE  AllBound' /\ IncidentHoldsItsAlerts'
  BY <1>0, <1>1, <1>7, StatementLearns DEF WorkerStep
<1> QED
  BY <1>2, <1>3, <1>4, <1>5, <1>6, <1>7 DEF Next, WorkerStep

(* Every incident has one founding alert whose key and time it carries, and *)
(* holds only alerts of its key, no fault of which came more than a window  *)
(* before it, however many deliveries found and join incidents together     *)
(* (processInTransaction, attachAlert).                                    *)
THEOREM IncidentsHoldTheirAlerts == Spec => []IncidentHoldsItsAlerts
<1>1. HoldInv => IncidentHoldsItsAlerts
  BY DEF HoldInv
<1> QED
  BY <1>1, HoldInit, HoldStep, PTL DEF Spec

-----------------------------------------------------------------------------
(* The evidence of a verdict.  A row computed from an older copy of the     *)
(* incident takes each of its parts from the decision of its transaction or *)
(* from that copy, whose parts some linked fault was given; links and       *)
(* results only grow, so that evidence is still there at the commit.        *)
DiagnosisBacked(i, diagnosis, confidence) ==
  \E l \in FaultLinksOf(i) : LET d == ResultOf(l.alert).decision
                             IN  /\ d.diagnosis = diagnosis
                                 /\ d.rootCauseConfidence = confidence
SeverityBacked(i, severity) ==
  \E l \in FaultLinksOf(i) : ResultOf(l.alert).decision.severity = severity

Backed(t) ==
  t.pc \in {"update", "attach", "record"} /\ t.kind = "ALERT_CORRELATED" =>
    /\ \/ /\ t.row.diagnosis = t.decision.diagnosis
          /\ t.row.rootCauseConfidence = t.decision.rootCauseConfidence
       \/ DiagnosisBacked(t.incident, t.row.diagnosis, t.row.rootCauseConfidence)
    /\ \/ t.row.severity = t.decision.severity
       \/ SeverityBacked(t.incident, t.row.severity)

AllBacked == \A w \in Workers : Backed(tx[w])
EvidenceInv == HoldInv /\ BooksInv /\ AllBacked /\ VerdictHasEvidence

LEMMA EvidenceOfRow ==
  ASSUME VerdictHasEvidence, NEW i \in DOMAIN incidents
  PROVE  /\ DiagnosisBacked(i, incidents[i].diagnosis, incidents[i].rootCauseConfidence)
         /\ SeverityBacked(i, incidents[i].severity)
BY DEF VerdictHasEvidence, DiagnosisBacked, SeverityBacked

(* Every linked alert has its result, and keeps it.                        *)
LEMMA LinkedHaveResults ==
  ASSUME BooksInv, NEW l \in links
  PROVE  \E r \in results : r.alert = l.alert /\ r.incident # Null
<1>1. <<l.alert, l.incident>> \in {<<m.alert, m.incident>> : m \in links}
  OBVIOUS
<1> QED
  BY <1>1 DEF BooksInv, NothingHalfDone

LEMMA OnlyResult ==
  ASSUME NEW S, NEW a, NEW r \in S, r.alert = a, \A s, t \in S : s.alert = t.alert => s = t
  PROVE  (CHOOSE s \in S : s.alert = a) = r
OBVIOUS

LEMMA ResultStays ==
  ASSUME BooksInv, AlertLinkedOnce', results \subseteq results', NEW l \in links
  PROVE  ResultOf(l.alert)' = ResultOf(l.alert)
<1>1. PICK r \in results : r.alert = l.alert
  BY LinkedHaveResults
<1>2. /\ \A s, t \in results : s.alert = t.alert => s = t
      /\ \A s, t \in results' : s.alert = t.alert => s = t
  BY DEF BooksInv, LinkInv, AlertLinkedOnce
<1>3. /\ (CHOOSE s \in results : s.alert = l.alert) = r
      /\ (CHOOSE s \in results' : s.alert = l.alert) = r
  BY <1>1, <1>2, OnlyResult
<1> QED
  BY <1>3 DEF ResultOf

LEMMA EvidenceStays ==
  ASSUME BooksInv, AlertLinkedOnce', links \subseteq links', results \subseteq results'
  PROVE  /\ \A i, d, c : DiagnosisBacked(i, d, c) => DiagnosisBacked(i, d, c)'
         /\ \A i, s : SeverityBacked(i, s) => SeverityBacked(i, s)'
<1>1. ASSUME NEW i, NEW l \in FaultLinksOf(i)
      PROVE  l \in FaultLinksOf(i)' /\ ResultOf(l.alert)' = ResultOf(l.alert)
  BY ResultStays DEF FaultLinksOf, LinksOf
<1> QED
  BY <1>1 DEF DiagnosisBacked, SeverityBacked

LEMMA LearnsBacked ==
  ASSUME EvidenceInv, NEW w \in Workers, NEW t, Learns(w, t)
  PROVE  Backed(t)
<1>0. Backed(tx[w]) /\ tx[w] \in Transactions
  BY DEF EvidenceInv, AllBacked, HoldInv, CodeInv, TypeInv, TypeOK
<1>1. CASE EndsOrChecks(w, t) \/ Decides(w, t) \/ FindsNone(w, t)
           \/ FindsToRecover(w, t) \/ Creates(w, t)
  BY <1>1 DEF Backed, EndsOrChecks, Decides, FindsNone, FindsToRecover, Creates
<1>2. CASE FindsToJoin(w, t)
  <2> DEFINE i == t.incident
  <2>1. i \in DOMAIN incidents /\ incidents[i] \in IncidentRows
    BY <1>2 DEF FindsToJoin, Joinable, OpenWithKey, EvidenceInv, HoldInv, CodeInv,
                TypeInv, TypeOK
  <2>2. /\ DiagnosisBacked(i, incidents[i].diagnosis, incidents[i].rootCauseConfidence)
        /\ SeverityBacked(i, incidents[i].severity)
    BY <2>1, EvidenceOfRow DEF EvidenceInv
  <2>3. /\ \/ /\ t.row.diagnosis = t.decision.diagnosis
              /\ t.row.rootCauseConfidence = t.decision.rootCauseConfidence
           \/ /\ t.row.diagnosis = incidents[i].diagnosis
              /\ t.row.rootCauseConfidence = incidents[i].rootCauseConfidence
        /\ t.row.severity \in {t.decision.severity, incidents[i].severity}
    BY <1>2, <2>1 DEF FindsToJoin, Upgraded, IncidentRows
  <2> QED
    BY <2>2, <2>3 DEF Backed
<1>3. CASE Advances(w, t)
  BY <1>0, <1>3 DEF Advances, Backed
<1> QED
  BY <1>1, <1>2, <1>3 DEF Learns

(* A transaction keeps its evidence while others commit.                   *)
LEMMA StayBacked ==
  ASSUME EvidenceInv, AlertLinkedOnce', links \subseteq links', results \subseteq results',
         \A v \in Workers : tx'[v] = tx[v] \/ tx'[v].pc \in {"idle", "check"}
  PROVE  AllBacked'
<1> SUFFICES ASSUME NEW v \in Workers
             PROVE  Backed(tx[v])'
  BY DEF AllBacked
<1>1. CASE tx'[v].pc \in {"idle", "check"}
  BY <1>1 DEF Backed
<1>2. CASE tx'[v] = tx[v]
  <2>1. \A t : Backed(t) => Backed(t)'
    BY EvidenceStays DEF Backed, EvidenceInv
  <2>2. \A t : t = tx[v] => Backed(t)'
    BY <2>1 DEF EvidenceInv, AllBacked
  <2> QED
    BY <1>2, <2>2 DEF Backed
<1> QED
  BY <1>1, <1>2

LEMMA StayEvidence ==
  ASSUME EvidenceInv, AlertLinkedOnce', links \subseteq links', results \subseteq results',
         DOMAIN incidents' = DOMAIN incidents,
         \A i \in DOMAIN incidents :
           /\ incidents'[i].severity = incidents[i].severity
           /\ incidents'[i].diagnosis = incidents[i].diagnosis
           /\ incidents'[i].rootCauseConfidence = incidents[i].rootCauseConfidence
  PROVE  VerdictHasEvidence'
<1> SUFFICES ASSUME NEW i \in DOMAIN incidents
             PROVE  \A d, c, s : /\ d = incidents'[i].diagnosis
                                 /\ c = incidents'[i].rootCauseConfidence
                                 /\ s = incidents'[i].severity
                                 => DiagnosisBacked(i, d, c)' /\ SeverityBacked(i, s)'
  BY DEF VerdictHasEvidence, DiagnosisBacked, SeverityBacked
<1> QED
  BY EvidenceStays, EvidenceOfRow DEF EvidenceInv

(* The link a commit adds carries the decision of its transaction.         *)
LEMMA CommitBacks ==
  ASSUME AlertLinkedOnce', NEW w \in Workers, Commit(w), ~IsRecorded(tx[w].alert),
         ~IsRecovery(tx[w].alert)
  PROVE  \A i, d : i = tx[w].incident /\ d = tx[w].decision
           => /\ DiagnosisBacked(i, d.diagnosis, d.rootCauseConfidence)'
              /\ SeverityBacked(i, d.severity)'
<1> SUFFICES ASSUME NEW i, NEW d, NEW a,
                    i = tx[w].incident, d = tx[w].decision, a = tx[w].alert
             PROVE  /\ DiagnosisBacked(i, d.diagnosis, d.rootCauseConfidence)'
                    /\ SeverityBacked(i, d.severity)'
  OBVIOUS
<1>1. PICK l \in links' : l.alert = a /\ l.incident = i
  <2> DEFINE link == [alert |-> a, incident |-> i, kind |-> tx[w].kind]
  <2>1. link \in links' /\ link.alert = a /\ link.incident = i
    BY DEF Commit
  <2> HIDE DEF link
  <2> QED
    BY <2>1
<1>2. PICK r \in results' : r.alert = a /\ r.decision = d
  <2> DEFINE result == [alert |-> a, incident |-> i, decision |-> d]
  <2>1. result \in results' /\ result.alert = a /\ result.decision = d
    BY DEF Commit
  <2> HIDE DEF result
  <2> QED
    BY <2>1
<1>3. ResultOf(a)' = r
  <2>1. \A s, t \in results' : s.alert = t.alert => s = t
    BY DEF AlertLinkedOnce
  <2> QED
    BY <1>2, <2>1, OnlyResult DEF ResultOf
<1>4. l \in FaultLinksOf(i)'
  BY <1>1 DEF FaultLinksOf, LinksOf
<1> QED
  BY <1>1, <1>2, <1>3, <1>4 DEF DiagnosisBacked, SeverityBacked

LEMMA CommitEvidence ==
  ASSUME EvidenceInv, AlertLinkedOnce', NEW w \in Workers, Commit(w),
         ~IsRecorded(tx[w].alert)
  PROVE  VerdictHasEvidence'
<1>1. /\ links \subseteq links' /\ results \subseteq results'
      /\ TypeInv /\ NumberGuarded /\ Bound(tx[w]) /\ Backed(tx[w])
  BY DEF Commit, EvidenceInv, HoldInv, CodeInv, AllBound, AllBacked
<1>2. /\ tx[w] \in Targeting /\ tx[w].pc = "record"
      /\ tx[w].kind # "INCIDENT_CREATED" => DOMAIN incidents' = DOMAIN incidents
      /\ tx[w].kind = "INCIDENT_CREATED"
           => /\ DOMAIN incidents' = DOMAIN incidents \union {tx[w].incident}
              /\ \A j \in DOMAIN incidents : incidents'[j] = incidents[j]
              /\ incidents'[tx[w].incident] = tx[w].row
  BY <1>1, CommitRows
<1> SUFFICES ASSUME NEW i \in DOMAIN incidents', NEW d, NEW c, NEW s,
                    d = incidents'[i].diagnosis, c = incidents'[i].rootCauseConfidence,
                    s = incidents'[i].severity
             PROVE  DiagnosisBacked(i, d, c)' /\ SeverityBacked(i, s)'
  BY DEF VerdictHasEvidence, DiagnosisBacked, SeverityBacked
<1> DEFINE own == tx[w].decision
<1>3. ASSUME i = tx[w].incident, ~IsRecovery(tx[w].alert)
      PROVE  /\ d = own.diagnosis /\ c = own.rootCauseConfidence => DiagnosisBacked(i, d, c)'
             /\ s = own.severity => SeverityBacked(i, s)'
  BY <1>3, CommitBacks
<1>4. CASE i \in DOMAIN incidents /\ d = incidents[i].diagnosis
           /\ c = incidents[i].rootCauseConfidence /\ s = incidents[i].severity
  BY <1>1, <1>4, EvidenceStays, EvidenceOfRow DEF EvidenceInv
<1>5. CASE tx[w].kind = "INCIDENT_CREATED" /\ i = tx[w].incident
  <2>1. ~IsRecovery(tx[w].alert) /\ tx[w].row = NewRow(tx[w].alert, own, tx[w].row.number)
    BY <1>1, <1>2, <1>5 DEF Bound
  <2>2. d = own.diagnosis /\ c = own.rootCauseConfidence /\ s = own.severity
    BY <1>2, <1>5, <2>1 DEF NewRow
  <2> QED
    BY <1>3, <1>5, <2>1, <2>2
<1>6. CASE tx[w].kind = "ALERT_CORRELATED" /\ tx[w].writes /\ i = tx[w].incident
  <2>1. ~IsRecovery(tx[w].alert)
    BY <1>1, <1>2, <1>6 DEF Bound
  <2>2. incidents' = Written(w) /\ i \in DOMAIN incidents
    BY <1>2, <1>6 DEF Commit
  <2>3. /\ d = tx[w].row.diagnosis /\ c = tx[w].row.rootCauseConfidence
        /\ s = tx[w].row.severity
    BY <1>1, <1>2, <1>6, <2>2, WrittenRow
  <2>4. /\ \/ d = own.diagnosis /\ c = own.rootCauseConfidence
           \/ DiagnosisBacked(i, d, c)
        /\ s = own.severity \/ SeverityBacked(i, s)
    BY <1>1, <1>2, <1>6, <2>3 DEF Backed
  <2> QED
    BY <1>1, <1>3, <1>6, <2>1, <2>4, EvidenceStays DEF EvidenceInv
<1>7. CASE tx[w].kind # "INCIDENT_CREATED"
           /\ ~(tx[w].kind = "ALERT_CORRELATED" /\ tx[w].writes /\ i = tx[w].incident)
  <2>1. incidents' = Written(w) /\ i \in DOMAIN incidents
    BY <1>2, <1>7 DEF Commit
  <2> QED
    BY <1>1, <1>2, <1>4, <1>7, <2>1, WrittenRow
<1> QED
  BY <1>2, <1>4, <1>5, <1>6, <1>7

LEMMA EvidenceInit == Init => EvidenceInv
<1> SUFFICES ASSUME Init PROVE AllBacked /\ VerdictHasEvidence
  BY HoldInit, BooksInit DEF EvidenceInv
<1>1. \A w \in Workers : tx[w].pc = "idle"
  BY IdleType DEF Init
<1> QED
  BY <1>1 DEF Init, AllBacked, Backed, VerdictHasEvidence

LEMMA EvidenceStep == EvidenceInv /\ [Next]_vars => EvidenceInv'
<1> SUFFICES ASSUME EvidenceInv, [Next]_vars
             PROVE  AllBacked' /\ VerdictHasEvidence'
  BY HoldStep, BooksStep DEF EvidenceInv
<1>0. /\ TypeInv /\ NumberGuarded /\ tx \in [Workers -> Transactions]
      /\ AlertLinkedOnce'
  BY HoldStep DEF EvidenceInv, HoldInv, LinkInv, CodeInv, TypeInv, TypeOK
<1>1. ASSUME NEW w \in Workers, NEW t, Enter(w, t), Learns(w, t)
      PROVE  AllBacked' /\ VerdictHasEvidence'
  <2>1. Backed(t)
    BY <1>1, LearnsBacked
  <2>2. tx' = [tx EXCEPT ![w] = t] /\ UNCHANGED <<incidents, links, results>>
    BY <1>1 DEF Enter, database
  <2>3. \A u : Backed(u) => Backed(u)'
    BY <2>2 DEF Backed, DiagnosisBacked, SeverityBacked, FaultLinksOf, LinksOf, ResultOf
  <2>4. \A v \in Workers : \A u : u = tx'[v] => Backed(u)'
    BY <1>0, <2>1, <2>2, <2>3 DEF EvidenceInv, AllBacked
  <2>5. AllBacked'
    BY <2>4 DEF AllBacked, Backed
  <2> QED
    BY <1>0, <2>2, <2>5, StayEvidence
<1>2. ASSUME NEW w \in Workers, NEW a \in Alerts, Ingest(w, a)
      PROVE  AllBacked' /\ VerdictHasEvidence'
  BY <1>0, <1>2, StayBacked, StayEvidence DEF Ingest
<1>3. ASSUME NEW w \in Workers, Commit(w) \/ CommitIgnored(w),
             IsRecorded(tx[w].alert) \/ CommitIgnored(w)
      PROVE  AllBacked' /\ VerdictHasEvidence'
  <2>1. /\ tx' = [tx EXCEPT ![w] = Idle] /\ UNCHANGED <<incidents, links>>
        /\ results \subseteq results'
    BY <1>3 DEF Commit, CommitIgnored, Enter, database
  <2>2. \A v \in Workers : tx'[v] = tx[v] \/ tx'[v].pc \in {"idle", "check"}
    BY <1>0, <2>1, IdleType
  <2> QED
    BY <1>0, <2>1, <2>2, StayBacked, StayEvidence
<1>4. ASSUME NEW w \in Workers, Commit(w), ~IsRecorded(tx[w].alert)
      PROVE  AllBacked' /\ VerdictHasEvidence'
  <2>1. links \subseteq links' /\ results \subseteq results'
    BY <1>4 DEF Commit
  <2> QED
    BY <1>0, <1>4, <2>1, CommitRows, StayBacked, CommitEvidence
<1>5. ASSUME NEW o \in Operators, OperatorStep(o)
      PROVE  AllBacked' /\ VerdictHasEvidence'
  BY <1>0, <1>5, OperatorRow, StayBacked, StayEvidence
<1>6. CASE UNCHANGED vars
  BY <1>0, <1>6, StayBacked, StayEvidence DEF vars
<1>7. ASSUME NEW w \in Workers, WorkerStep(w) \/ Abort(w), ~Commit(w), ~CommitIgnored(w)
      PROVE  AllBacked' /\ VerdictHasEvidence'
  BY <1>0, <1>1, <1>7, StatementLearns DEF WorkerStep
<1> QED
  BY <1>2, <1>3, <1>4, <1>5, <1>6, <1>7 DEF Next, WorkerStep

(* The verdict of an incident is never a mixture: its diagnosis and the     *)
(* confidence in it come from one fault linked to it, and so does its       *)
(* severity, however many transactions upgrade it at once (applyDecision).  *)
THEOREM VerdictsHaveEvidence == Spec => []VerdictHasEvidence
<1>1. EvidenceInv => VerdictHasEvidence
  BY DEF EvidenceInv
<1> QED
  BY <1>1, EvidenceInit, EvidenceStep, PTL DEF Spec

-----------------------------------------------------------------------------
(* Escalation.  Every alert decided on is stored, and each analysis counts  *)
(* all that is stored; so of alerts that count each other, the one decided  *)
(* on last counts them all, whether its decision is recorded or pending.   *)
HasDecided(w) == tx[w].pc \in {"find", "number", "ignore", "update", "attach", "record"}
Decided(a, d) ==
  \/ \E r \in results : r.alert = a /\ r.decision = d
  \/ \E w \in Workers : HasDecided(w) /\ tx[w].alert = a /\ tx[w].decision = d

OneCountsAll ==
  \A S \in SUBSET Alerts : \A f \in [S -> Decisions] :
    /\ S # {}
    /\ \A a, b \in S : b \in Counted(a, S)
    /\ \A a \in S : Decided(a, f[a])
    => \E a \in S : f[a].eventCount >= Cardinality(S)

HandledAreStored ==
  /\ \A r \in results : alertStatus[r.alert] # "ABSENT"
  /\ \A w \in Workers : tx[w].pc # "idle" => alertStatus[tx[w].alert] # "ABSENT"

CountInv == BooksInv /\ HandledAreStored /\ OneCountsAll

(* An analysis of a counts every set of stored alerts that a counts.       *)
LEMMA AnalysisCounts ==
  ASSUME NEW a \in Alerts, NEW S \in SUBSET Stored, a \in S,
         \A b \in S : b \in Counted(a, S)
  PROVE  Analyze(a, Stored).eventCount >= Cardinality(S)
<1>1. S \subseteq Counted(a, Stored)
  BY DEF Counted
<1>2. IsFiniteSet(Counted(a, Stored))
  BY AlertsAssumption, FS_Subset DEF Counted, Stored
<1>3. /\ Cardinality(S) <= Cardinality(Counted(a, Stored))
      /\ Cardinality(S) \in Nat /\ Cardinality(Counted(a, Stored)) \in Nat
  BY <1>1, <1>2, FS_Subset, FS_CardinalityType
<1>4. Counted(a, Stored) # {}
  BY <1>1
<1> QED
  BY <1>3, <1>4 DEF Analyze, EventCount

(* A step adds at most one decision, that of an analysis.                  *)
LEMMA CountsStay ==
  ASSUME CountInv, NEW w \in Workers, tx[w].pc \in {"idle", "analyze"},
         \A a, d : Decided(a, d)'
           => \/ Decided(a, d)
              \/ tx[w].pc = "analyze" /\ a = tx[w].alert /\ d = Analyze(a, Stored)
  PROVE  OneCountsAll'
<1> SUFFICES ASSUME NEW S \in SUBSET Alerts, NEW f \in [S -> Decisions], S # {},
                    \A a, b \in S : b \in Counted(a, S),
                    \A a \in S : Decided(a, f[a])'
             PROVE  \E a \in S : f[a].eventCount >= Cardinality(S)
  BY DEF OneCountsAll
<1>1. CASE \A a \in S : Decided(a, f[a])
  BY <1>1 DEF CountInv, OneCountsAll
<1>2. ASSUME NEW a \in S, ~Decided(a, f[a])
      PROVE  f[a].eventCount >= Cardinality(S)
  <2>1. tx[w].pc = "analyze" /\ a = tx[w].alert /\ f[a] = Analyze(a, Stored)
    BY <1>2
  <2>2. \A b \in S : Decided(b, f[b]) \/ b = a
    BY <2>1
  <2>3. \A b \in S : alertStatus[b] # "ABSENT"
    BY <2>1, <2>2 DEF CountInv, HandledAreStored, Decided, HasDecided
  <2>4. S \in SUBSET Stored
    BY <2>3 DEF Stored
  <2> QED
    BY <2>1, <2>4, AnalysisCounts
<1> QED
  BY <1>1, <1>2

LEMMA FrameCounts ==
  ASSUME CountInv, \A a, d : Decided(a, d)' => Decided(a, d)
  PROVE  OneCountsAll'
BY DEF CountInv, OneCountsAll

(* What a statement makes worker w decide.                                 *)
LEMMA LearnsDecided ==
  ASSUME CountInv, NEW w \in Workers, NEW t, Enter(w, t), Learns(w, t)
  PROVE  HandledAreStored' /\ OneCountsAll'
<1>1. /\ tx' = [tx EXCEPT ![w] = t] /\ tx \in [Workers -> Transactions]
      /\ UNCHANGED <<results, alertStatus>>
  BY DEF Enter, database, CountInv, BooksInv, LinkInv, TypeInv, TypeOK
<1>2. CASE Decides(w, t)
  <2>1. \A a, d : Decided(a, d)'
          => \/ Decided(a, d)
             \/ tx[w].pc = "analyze" /\ a = tx[w].alert /\ d = Analyze(a, Stored)
    BY <1>1, <1>2 DEF Decided, HasDecided, Decides
  <2>2. HandledAreStored'
    BY <1>1, <1>2 DEF CountInv, HandledAreStored, Decides
  <2> QED
    BY <1>2, <2>1, <2>2, CountsStay DEF Decides
<1>3. CASE ~Decides(w, t)
  <2>1. HasDecided(w)'
          => HasDecided(w) /\ t.alert = tx[w].alert /\ t.decision = tx[w].decision
    BY <1>1, <1>3 DEF Learns, EndsOrChecks, FindsNone, FindsToJoin, FindsToRecover,
       Creates, Advances, HasDecided
  <2>2. t.pc # "idle" => tx[w].pc # "idle" /\ t.alert = tx[w].alert
    BY <1>3 DEF Learns, EndsOrChecks, FindsNone, FindsToJoin, FindsToRecover, Creates,
       Advances
  <2>3. \A a, d : Decided(a, d)' => Decided(a, d)
    BY <1>1, <2>1 DEF Decided, HasDecided
  <2> QED
    BY <1>1, <2>2, <2>3, FrameCounts DEF CountInv, HandledAreStored
<1> QED
  BY <1>2, <1>3

LEMMA CountInit == Init => CountInv
<1> SUFFICES ASSUME Init PROVE HandledAreStored /\ OneCountsAll
  BY BooksInit DEF CountInv
<1>1. \A w \in Workers : tx[w].pc = "idle"
  BY IdleType DEF Init
<1> QED
  BY <1>1 DEF Init, HandledAreStored, OneCountsAll, Decided, HasDecided

LEMMA CountStep == CountInv /\ [Next]_vars => CountInv'
<1> SUFFICES ASSUME CountInv, [Next]_vars
             PROVE  HandledAreStored' /\ OneCountsAll'
  BY BooksStep DEF CountInv
<1>0. /\ tx \in [Workers -> Transactions]
      /\ alertStatus \in [Alerts -> {"ABSENT", "NEW", "CORRELATED", "RESOLVED"}]
      /\ results \subseteq [alert : Alerts, decision : Decisions,
                            incident : DOMAIN incidents \union {Null}]
  BY DEF CountInv, BooksInv, LinkInv, TypeInv, TypeOK
<1>1. ASSUME NEW w \in Workers, NEW a \in Alerts, Ingest(w, a)
      PROVE  HandledAreStored' /\ OneCountsAll'
  <2>1. /\ tx' = [tx EXCEPT ![w] = [pc |-> "check", alert |-> a]] /\ results' = results
        /\ \A b \in Alerts : alertStatus[b] # "ABSENT" => alertStatus'[b] # "ABSENT"
        /\ alertStatus'[a] # "ABSENT"
    BY <1>0, <1>1 DEF Ingest
  <2>2. \A b, d : Decided(b, d)' => Decided(b, d)
    BY <1>0, <2>1 DEF Decided, HasDecided
  <2>3. \A v \in Workers : tx[v].pc # "idle" => tx[v].alert \in Alerts
    BY <1>0, TransactionShape DEF Transactions, Idle, Checking, Deciding, Targeting
  <2> QED
    BY <1>0, <2>1, <2>2, <2>3, FrameCounts DEF CountInv, HandledAreStored
<1>2. ASSUME NEW w \in Workers, Commit(w) \/ CommitIgnored(w)
      PROVE  HandledAreStored' /\ OneCountsAll'
  <2>1. tx[w] \in Deciding \/ tx[w] \in Targeting
    BY <1>0, <1>2, TransactionShape DEF Commit, CommitIgnored
  <2>2. /\ tx' = [tx EXCEPT ![w] = Idle] /\ HasDecided(w)
        /\ \A r \in results' : \/ r \in results
                               \/ r.alert = tx[w].alert /\ r.decision = tx[w].decision
        /\ \A b \in Alerts : alertStatus[b] # "ABSENT" => alertStatus'[b] # "ABSENT"
    BY <1>0, <1>2 DEF Commit, CommitIgnored, Enter, database, AlertsWritten, HasDecided
  <2>3. \A b, d : Decided(b, d)' => Decided(b, d)
    BY <1>0, <2>2, IdleType DEF Decided, HasDecided
  <2>4. \A v \in Workers : tx[v].pc # "idle" => tx[v].alert \in Alerts
    BY <1>0, TransactionShape DEF Transactions, Idle, Checking, Deciding, Targeting
  <2> QED
    BY <1>0, <2>2, <2>3, <2>4, IdleType, FrameCounts
       DEF CountInv, HandledAreStored, HasDecided
<1>3. ASSUME NEW o \in Operators, OperatorStep(o)
      PROVE  HandledAreStored' /\ OneCountsAll'
  <2>1. UNCHANGED <<alertStatus, results, tx>>
    BY <1>3, OperatorRow DEF CountInv, BooksInv, LinkInv
  <2> QED
    BY <2>1, FrameCounts DEF CountInv, HandledAreStored, Decided, HasDecided
<1>4. CASE UNCHANGED vars
  BY <1>4, FrameCounts DEF vars, CountInv, HandledAreStored, Decided, HasDecided
<1>5. ASSUME NEW w \in Workers, WorkerStep(w) \/ Abort(w), ~Commit(w), ~CommitIgnored(w)
      PROVE  HandledAreStored' /\ OneCountsAll'
  BY <1>5, StatementLearns, LearnsDecided DEF WorkerStep, CountInv, BooksInv, LinkInv
<1> QED
  BY <1>1, <1>2, <1>3, <1>4, <1>5 DEF Next

(* No escalation is missed: of linked faults that count each other, some    *)
(* one's result counts them all, however their deliveries interleave        *)
(* (ingest commits before analyze reads).                                  *)
THEOREM EscalationsAreNotMissed == Spec => []EscalationNotMissed
<1>1. CountInv => EscalationNotMissed
  <2> SUFFICES ASSUME CountInv,
                      NEW S \in SUBSET {a \in Alerts : IsLinked(a) /\ ~IsRecovery(a)},
                      S # {}, \A a, b \in S : b \in Counted(a, S)
               PROVE  \E a \in S : ResultOf(a).decision.eventCount >= Cardinality(S)
    BY DEF EscalationNotMissed
  <2> DEFINE f == [a \in S |-> ResultOf(a).decision]
  <2>1. ASSUME NEW a \in S
        PROVE  ResultOf(a) \in results /\ ResultOf(a).alert = a
    <3>1. PICK l \in links : l.alert = a
      BY DEF IsLinked
    <3>2. PICK r \in results : r.alert = a
      BY <3>1, LinkedHaveResults DEF CountInv
    <3> QED
      BY <3>2 DEF ResultOf
  <2>2. \A a \in S : f[a] \in Decisions /\ Decided(a, f[a])
    BY <2>1 DEF Decided, CountInv, BooksInv, LinkInv, TypeInv, TypeOK
  <2>3. S \in SUBSET Alerts /\ f \in [S -> Decisions]
    BY <2>2
  <2>4. PICK a \in S : f[a].eventCount >= Cardinality(S)
    BY <2>2, <2>3 DEF CountInv, OneCountsAll
  <2> QED
    BY <2>4
<1> QED
  BY <1>1, CountInit, CountStep, PTL DEF Spec

-----------------------------------------------------------------------------
(* The founding decision.  An upgrade may overwrite what another one wrote  *)
(* after its copy of the row was read, so an incident need not cover every  *)
(* fault linked to it; but every copy already covers the decision of the    *)
(* founder, and no upgrade lowers its copy.                                *)
AtLeast(row, d) == /\ row.severity >= d.severity
                   /\ row.rootCauseConfidence >= d.rootCauseConfidence

CoversFounder(i, row) ==
  \A l \in links : l.kind = "INCIDENT_CREATED" /\ l.incident = i
                     => AtLeast(row, ResultOf(l.alert).decision)

Covering(t) ==
  t.pc \in {"update", "attach", "record"} /\ t.kind = "ALERT_CORRELATED"
    => CoversFounder(t.incident, t.row)

AllCovering == \A w \in Workers : Covering(tx[w])
CoverInv == HoldInv /\ BooksInv /\ AllCovering /\ VerdictCoversFounder

LEMMA ResultOfLinked ==
  ASSUME BooksInv, NEW l \in links
  PROVE  /\ ResultOf(l.alert) \in results
         /\ ResultOf(l.alert).decision \in Decisions
         /\ ResultOf(l.alert).decision.severity \in Int
         /\ ResultOf(l.alert).decision.rootCauseConfidence \in Int
<1>1. PICK r \in results : r.alert = l.alert
  BY LinkedHaveResults
<1>2. ResultOf(l.alert) \in results
  BY <1>1 DEF ResultOf
<1>3. results \subseteq [alert : Alerts, decision : Decisions,
                         incident : DOMAIN incidents \union {Null}]
  BY DEF BooksInv, LinkInv, TypeInv, TypeOK
<1>4. ResultOf(l.alert).decision \in Decisions
  BY <1>2, <1>3
<1> QED
  BY <1>2, <1>4 DEF Decisions, Severities

LEMMA LearnsCovering ==
  ASSUME CoverInv, NEW w \in Workers, NEW t, Learns(w, t)
  PROVE  Covering(t)
<1>0. Covering(tx[w]) /\ tx[w] \in Transactions
  BY DEF CoverInv, AllCovering, HoldInv, CodeInv, TypeInv, TypeOK
<1>1. CASE EndsOrChecks(w, t) \/ Decides(w, t) \/ FindsNone(w, t)
           \/ FindsToRecover(w, t) \/ Creates(w, t)
  BY <1>1 DEF Covering, EndsOrChecks, Decides, FindsNone, FindsToRecover, Creates
<1>2. CASE FindsToJoin(w, t)
  <2> DEFINE old == incidents[t.incident]
  <2>1. old \in IncidentRows
    BY <1>2
    DEF FindsToJoin, Joinable, OpenWithKey, CoverInv, HoldInv, CodeInv, TypeInv, TypeOK
  <2>2. t.decision \in Decisions
    BY <1>0, <1>2, TransactionShape DEF FindsToJoin, Deciding
  <2>3. /\ t.row.severity = IF t.decision.severity > old.severity
                            THEN t.decision.severity ELSE old.severity
        /\ t.row.rootCauseConfidence
             = IF t.decision.rootCauseConfidence > old.rootCauseConfidence
               THEN t.decision.rootCauseConfidence ELSE old.rootCauseConfidence
    BY <1>2, <2>1 DEF FindsToJoin, Upgraded, IncidentRows
  <2>4. /\ t.decision.severity \in Int /\ old.severity \in Int
        /\ t.decision.rootCauseConfidence \in Int /\ old.rootCauseConfidence \in Int
    BY <2>1, <2>2 DEF IncidentRows, Decisions, Severities
  <2>5. ASSUME NEW l \in links, l.kind = "INCIDENT_CREATED", l.incident = t.incident
        PROVE  AtLeast(t.row, ResultOf(l.alert).decision)
    <3>1. AtLeast(old, ResultOf(l.alert).decision)
      BY <2>5 DEF CoverInv, VerdictCoversFounder, AtLeast
    <3>2. /\ ResultOf(l.alert).decision.severity \in Int
          /\ ResultOf(l.alert).decision.rootCauseConfidence \in Int
      BY ResultOfLinked DEF CoverInv
    <3> HIDE DEF old
    <3> QED
      BY <2>3, <2>4, <3>1, <3>2 DEF AtLeast
  <2> QED
    BY <2>5 DEF Covering, CoversFounder
<1>3. CASE Advances(w, t)
  BY <1>0, <1>3 DEF Advances, Covering
<1> QED
  BY <1>1, <1>2, <1>3 DEF Learns

(* What covers a founder covers it while results are added and no link is. *)
LEMMA FounderStays ==
  ASSUME BooksInv, AlertLinkedOnce', results \subseteq results', links' = links
  PROVE  \A i, row : CoversFounder(i, row) => CoversFounder(i, row)'
<1>1. \A l \in links : ResultOf(l.alert)' = ResultOf(l.alert)
  BY ResultStays
<1> QED
  BY <1>1 DEF CoversFounder, AtLeast

LEMMA StayCovering ==
  ASSUME CoverInv, AlertLinkedOnce', results \subseteq results', links' = links,
         \A j \in DOMAIN incidents :
           /\ incidents'[j].severity = incidents[j].severity
           /\ incidents'[j].rootCauseConfidence = incidents[j].rootCauseConfidence,
         \A v \in Workers : tx'[v] = tx[v] \/ tx'[v].pc \in {"idle", "check"}
  PROVE  AllCovering' /\ VerdictCoversFounder'
<1>1. AllCovering'
  <2> SUFFICES ASSUME NEW v \in Workers
               PROVE  Covering(tx[v])'
    BY DEF AllCovering
  <2>1. CASE tx'[v].pc \in {"idle", "check"}
    BY <2>1 DEF Covering
  <2>2. CASE tx'[v] = tx[v]
    <3>1. \A u : u = tx[v] => (Covering(u) => Covering(u)')
      BY FounderStays DEF CoverInv, Covering
    <3> QED
      BY <2>2, <3>1 DEF CoverInv, AllCovering, Covering
  <2> QED
    BY <2>1, <2>2
<1>2. VerdictCoversFounder'
  <2> SUFFICES ASSUME NEW l \in links, l.kind = "INCIDENT_CREATED"
               PROVE  AtLeast(incidents'[l.incident], ResultOf(l.alert)'.decision)
    BY DEF VerdictCoversFounder, AtLeast
  <2>1. l.incident \in DOMAIN incidents
    BY DEF CoverInv, HoldInv, CodeInv, TypeInv, TypeOK
  <2>2. ResultOf(l.alert)' = ResultOf(l.alert)
    BY ResultStays DEF CoverInv
  <2>3. AtLeast(incidents[l.incident], ResultOf(l.alert).decision)
    BY DEF CoverInv, VerdictCoversFounder, AtLeast
  <2> QED
    BY <2>1, <2>2, <2>3 DEF AtLeast
<1> QED
  BY <1>1, <1>2

(* A commit founds an incident with the decision of its alert, or writes a  *)
(* row that covers the founder of the incident it joins.                   *)
LEMMA CommitCovers ==
  ASSUME CoverInv, AlertLinkedOnce', NEW w \in Workers, Commit(w), ~IsRecorded(tx[w].alert)
  PROVE  AllCovering' /\ VerdictCoversFounder'
<1> DEFINE a == tx[w].alert
           i == tx[w].incident
           d == tx[w].decision
           link == [alert |-> a, incident |-> i, kind |-> tx[w].kind]
           result == [alert |-> a, incident |-> i, decision |-> d]
<1>1. /\ TypeInv /\ NumberGuarded /\ Bound(tx[w]) /\ Covering(tx[w]) /\ BooksInv
      /\ links' = links \union {link} /\ results' = results \union {result}
      /\ link.alert = a /\ link.incident = i /\ link.kind = tx[w].kind
      /\ result.alert = a /\ result.decision = d
  BY DEF Commit, CoverInv, HoldInv, CodeInv, AllBound, AllCovering
<1> HIDE DEF link, result
<1>2. /\ tx[w] \in Targeting /\ tx[w].pc = "record"
      /\ \A v \in Workers : tx'[v] = tx[v] \/ tx'[v].pc \in {"idle", "check"}
      /\ tx[w].kind = "INCIDENT_CREATED"
           => /\ i \notin DOMAIN incidents
              /\ \A j \in DOMAIN incidents : incidents'[j] = incidents[j]
              /\ incidents'[i] = tx[w].row
  BY <1>1, CommitRows
<1>3. ASSUME NEW l \in links
      PROVE  /\ ResultOf(l.alert)' = ResultOf(l.alert)
             /\ l.incident \in DOMAIN incidents
  BY <1>1, ResultStays DEF TypeInv, TypeOK
<1>4. ASSUME NEW l \in links, l.kind = "INCIDENT_CREATED"
      PROVE  AtLeast(incidents'[l.incident], ResultOf(l.alert)'.decision)
  <2>1. AtLeast(incidents[l.incident], ResultOf(l.alert).decision)
    BY <1>4 DEF CoverInv, VerdictCoversFounder, AtLeast
  <2>2. CASE tx[w].kind = "INCIDENT_CREATED"
    BY <1>2, <1>3, <2>1, <2>2
  <2>3. CASE tx[w].kind # "INCIDENT_CREATED"
    <3>1. incidents' = Written(w)
      BY DEF Commit
    <3>2. CASE l.incident = i /\ tx[w].kind = "ALERT_CORRELATED" /\ tx[w].writes
      <4>1. /\ incidents'[l.incident].severity = tx[w].row.severity
            /\ incidents'[l.incident].rootCauseConfidence = tx[w].row.rootCauseConfidence
        BY <1>1, <1>2, <1>3, <2>3, <3>1, <3>2, WrittenRow
      <4>2. AtLeast(tx[w].row, ResultOf(l.alert).decision)
        BY <1>1, <1>2, <1>4, <3>2 DEF Covering, CoversFounder
      <4> QED
        BY <1>3, <4>1, <4>2 DEF AtLeast
    <3>3. CASE ~(l.incident = i /\ tx[w].kind = "ALERT_CORRELATED" /\ tx[w].writes)
      <4>1. /\ incidents'[l.incident].severity = incidents[l.incident].severity
            /\ incidents'[l.incident].rootCauseConfidence
                 = incidents[l.incident].rootCauseConfidence
        BY <1>1, <1>2, <1>3, <2>3, <3>1, <3>3, WrittenRow
      <4> QED
        BY <1>3, <2>1, <4>1 DEF AtLeast
    <3> QED
      BY <3>2, <3>3
  <2> QED
    BY <2>2, <2>3
<1>5. ASSUME tx[w].kind = "INCIDENT_CREATED", NEW b, b = a
      PROVE  AtLeast(incidents'[i], ResultOf(b)'.decision)
  <2>1. ResultOf(b)' = result
    <3>1. \A s, t \in results' : s.alert = t.alert => s = t
      BY DEF AlertLinkedOnce
    <3>2. result \in results'
      BY <1>1
    <3> QED
      BY <1>1, <1>5, <3>1, <3>2, OnlyResult DEF ResultOf
  <2>2. tx[w].row.severity = d.severity /\ tx[w].row.rootCauseConfidence = d.rootCauseConfidence
    BY <1>1, <1>2, <1>5 DEF Bound, NewRow
  <2>3. d.severity \in Int /\ d.rootCauseConfidence \in Int
    BY <1>2 DEF Targeting, Decisions, Severities
  <2> QED
    BY <1>1, <1>2, <1>5, <2>1, <2>2, <2>3 DEF AtLeast
<1>6. VerdictCoversFounder'
  <2> SUFFICES ASSUME NEW l \in links', l.kind = "INCIDENT_CREATED"
               PROVE  AtLeast(incidents'[l.incident], ResultOf(l.alert)'.decision)
    BY DEF VerdictCoversFounder, AtLeast
  <2>1. CASE l \in links
    BY <1>4, <2>1
  <2>2. CASE l = link
    BY <1>1, <1>5, <2>2
  <2> QED
    BY <1>1, <2>1, <2>2
<1>7. AllCovering'
  <2> SUFFICES ASSUME NEW v \in Workers
               PROVE  Covering(tx[v])'
    BY DEF AllCovering
  <2>1. CASE tx'[v].pc \in {"idle", "check"}
    BY <2>1 DEF Covering
  <2>2. CASE tx'[v] = tx[v]
    <3> SUFFICES ASSUME tx[v].pc \in {"update", "attach", "record"},
                        tx[v].kind = "ALERT_CORRELATED",
                        NEW l \in links', l.kind = "INCIDENT_CREATED",
                        l.incident = tx[v].incident
                 PROVE  AtLeast(tx[v].row, ResultOf(l.alert)'.decision)
      BY <2>2 DEF Covering, CoversFounder, AtLeast
    <3>1. tx[v].incident \in DOMAIN incidents
      BY <1>1 DEF TypeInv, TargetsExist
    <3>2. l \in links
      BY <1>1, <1>2, <3>1
    <3>3. AtLeast(tx[v].row, ResultOf(l.alert).decision)
      BY <3>2 DEF CoverInv, AllCovering, Covering, CoversFounder
    <3> QED
      BY <1>3, <3>2, <3>3
  <2> QED
    BY <1>2, <2>1, <2>2
<1> QED
  BY <1>6, <1>7

LEMMA CoverInit == Init => CoverInv
<1> SUFFICES ASSUME Init PROVE AllCovering /\ VerdictCoversFounder
  BY HoldInit, BooksInit DEF CoverInv
<1>1. \A w \in Workers : tx[w].pc = "idle"
  BY IdleType DEF Init
<1> QED
  BY <1>1 DEF Init, AllCovering, Covering, VerdictCoversFounder

LEMMA CoverStep == CoverInv /\ [Next]_vars => CoverInv'
<1> SUFFICES ASSUME CoverInv, [Next]_vars
             PROVE  AllCovering' /\ VerdictCoversFounder'
  BY HoldStep, BooksStep DEF CoverInv
<1>0. /\ HoldInv /\ TypeInv /\ NumberGuarded /\ tx \in [Workers -> Transactions]
      /\ AlertLinkedOnce'
  BY HoldStep DEF CoverInv, HoldInv, LinkInv, CodeInv, TypeInv, TypeOK
<1>1. ASSUME NEW w \in Workers, NEW t, Enter(w, t), Learns(w, t)
      PROVE  AllCovering' /\ VerdictCoversFounder'
  <2>1. Covering(t)
    BY <1>1, LearnsCovering
  <2>2. tx' = [tx EXCEPT ![w] = t] /\ UNCHANGED <<incidents, links, results>>
    BY <1>1 DEF Enter, database
  <2>3. \A u : Covering(u) => Covering(u)'
    BY <2>2 DEF Covering, CoversFounder, AtLeast, ResultOf
  <2>4. \A v \in Workers : \A u : u = tx'[v] => Covering(u)'
    BY <1>0, <2>1, <2>2, <2>3 DEF CoverInv, AllCovering
  <2>5. AllCovering'
    BY <2>4 DEF AllCovering, Covering
  <2> QED
    BY <2>2, <2>5 DEF CoverInv, VerdictCoversFounder, ResultOf
<1>2. ASSUME NEW w \in Workers, NEW a \in Alerts, Ingest(w, a)
      PROVE  AllCovering' /\ VerdictCoversFounder'
  BY <1>0, <1>2, StayCovering DEF Ingest
<1>3. ASSUME NEW w \in Workers, Commit(w) \/ CommitIgnored(w),
             IsRecorded(tx[w].alert) \/ CommitIgnored(w)
      PROVE  AllCovering' /\ VerdictCoversFounder'
  <2>1. /\ tx' = [tx EXCEPT ![w] = Idle] /\ UNCHANGED <<incidents, links>>
        /\ results \subseteq results'
    BY <1>3 DEF Commit, CommitIgnored, Enter, database
  <2>2. \A v \in Workers : tx'[v] = tx[v] \/ tx'[v].pc \in {"idle", "check"}
    BY <1>0, <2>1, IdleType
  <2> QED
    BY <1>0, <2>1, <2>2, StayCovering
<1>4. ASSUME NEW w \in Workers, Commit(w), ~IsRecorded(tx[w].alert)
      PROVE  AllCovering' /\ VerdictCoversFounder'
  BY <1>0, <1>4, CommitCovers
<1>5. ASSUME NEW o \in Operators, OperatorStep(o)
      PROVE  AllCovering' /\ VerdictCoversFounder'
  BY <1>0, <1>5, OperatorRow, StayCovering
<1>6. CASE UNCHANGED vars
  BY <1>0, <1>6, StayCovering DEF vars
<1>7. ASSUME NEW w \in Workers, WorkerStep(w) \/ Abort(w), ~Commit(w), ~CommitIgnored(w)
      PROVE  AllCovering' /\ VerdictCoversFounder'
  BY <1>0, <1>1, <1>7, StatementLearns DEF WorkerStep
<1> QED
  BY <1>2, <1>3, <1>4, <1>5, <1>6, <1>7 DEF Next, WorkerStep

(* Whatever deliveries and requests race, an incident is never less severe, *)
(* or less confidently diagnosed, than the decision it was founded with: a  *)
(* lost upgrade costs at most what was raised since (applyDecision).       *)
THEOREM FoundersAreCovered == Spec => []VerdictCoversFounder
<1>1. CoverInv => VerdictCoversFounder
  BY DEF CoverInv
<1> QED
  BY <1>1, CoverInit, CoverStep, PTL DEF Spec

-----------------------------------------------------------------------------
(* A nonempty set of times from one on has a first.                        *)
LEMMA FirstTime ==
  ASSUME NEW S \in SUBSET Int, NEW from \in Int, S # {}, \A s \in S : s >= from
  PROVE  \E s \in S : \A t \in S : s <= t
<1> DEFINE T == {s - from : s \in S}
<1>1. \A s \in S : s - from \in Nat
  OBVIOUS
<1>2. T \subseteq Nat /\ T # {}
  BY <1>1
<1>3. \E m \in T : \A n \in T : ~(<<n, m>> \in OpToRel(<, Nat))
  <2> HIDE DEF T
  <2> DEFINE R == OpToRel(<, Nat)
  <2>1. IsWellFoundedOn(R, Nat)
    BY NatLessThanWellFounded
  <2> HIDE DEF R
  <2>2. \E m \in T : \A n \in T : ~(<<n, m>> \in R)
    BY <1>2, <2>1, WFMin
  <2> QED
    BY <2>2 DEF R
<1>4. PICK m \in T : \A n \in T : ~(n < m)
  BY <1>2, <1>3 DEF OpToRel
<1>5. PICK s \in S : m = s - from
  OBVIOUS
<1>6. ASSUME NEW t \in S
      PROVE  s <= t
  <2>1. t - from \in T
    OBVIOUS
  <2>2. ~(t - from < s - from)
    BY <1>4, <1>5, <2>1
  <2>3. s \in Int /\ t \in Int
    OBVIOUS
  <2> QED
    BY <2>2, <2>3
<1> QED
  BY <1>6

LEMMA EarliestExists ==
  ASSUME TypeInv, NEW a \in Alerts, NEW key, Earliest(Joinable(a, key)) = {}
  PROVE  Joinable(a, key) = {}
<1> SUFFICES ASSUME Joinable(a, key) # {}
             PROVE  Earliest(Joinable(a, key)) # {}
  OBVIOUS
<1> DEFINE J == Joinable(a, key)
           times == {incidents[i].detectedAt : i \in J}
<1>1. \A i \in J : incidents[i].detectedAt \in Int /\ incidents[i].detectedAt >= WindowStart(a)
  BY DEF Joinable, OpenWithKey, TypeInv, TypeOK, IncidentRows
<1>2. WindowStart(a) \in Int
  BY AlertsAssumption, WindowAssumption DEF WindowStart, AlertRows
<1> HIDE DEF J
<1>3. times \in SUBSET Int /\ times # {} /\ \A s \in times : s >= WindowStart(a)
  BY <1>1 DEF J
<1>4. PICK s \in times : \A t \in times : s <= t
  BY <1>2, <1>3, FirstTime
<1>5. PICK i \in J : s = incidents[i].detectedAt
  OBVIOUS
<1>6. i \in Earliest(J)
  BY <1>4, <1>5 DEF Earliest
<1> QED
  BY <1>6 DEF J


-----------------------------------------------------------------------------
(* Splits.  A delivery that found no incident to join founds one, and those *)
(* that found none together each found their own.  In any window of one     *)
(* key, the new incidents and the deliveries about to add one are together  *)
(* never more than the workers: a search finds nothing only where there is  *)
(* no new incident, and a commit puts an incident in its delivery's place.  *)
Founding(w) == \/ tx[w].pc = "number"
               \/ tx[w].pc \in {"attach", "record"} /\ tx[w].kind = "INCIDENT_CREATED"

NewIn(key, from) ==
  {i \in NewIncidents : /\ incidents[i].correlationKey = key
                        /\ incidents[i].detectedAt \in from..(from + Window)}
FoundersIn(key, from) ==
  {w \in Workers : /\ Founding(w)
                   /\ CorrelationKey(tx[w].alert) = key
                   /\ AlertData[tx[w].alert].detectedAt \in from..(from + Window)}

PlacesBounded ==
  \A key : \A from \in Int :
    Cardinality(NewIn(key, from)) + Cardinality(FoundersIn(key, from)) <= Cardinality(Workers)

NoneBackToNew == \A o \in Operators : requests[o].pc = "write" => requests[o].to # "DETECTED"

SplitInv == /\ HoldInv /\ StampsInv /\ NoneBackToNew
            /\ IsFiniteSet(DOMAIN incidents) /\ PlacesBounded

LEMMA SumShrinks ==
  ASSUME NEW A, NEW B, IsFiniteSet(A), IsFiniteSet(B), NEW C \in SUBSET A, NEW D \in SUBSET B,
         NEW n \in Nat, Cardinality(A) + Cardinality(B) <= n
  PROVE  Cardinality(C) + Cardinality(D) <= n
<1>1. /\ IsFiniteSet(C) /\ Cardinality(C) <= Cardinality(A)
      /\ IsFiniteSet(D) /\ Cardinality(D) <= Cardinality(B)
  BY FS_Subset
<1>2. /\ Cardinality(A) \in Nat /\ Cardinality(B) \in Nat
      /\ Cardinality(C) \in Nat /\ Cardinality(D) \in Nat
  BY <1>1, FS_CardinalityType
<1> QED
  BY <1>1, <1>2

LEMMA PlacesFinite ==
  ASSUME SplitInv, NEW key, NEW from \in Int
  PROVE  /\ IsFiniteSet(NewIn(key, from)) /\ IsFiniteSet(FoundersIn(key, from))
         /\ Cardinality(NewIn(key, from)) \in Nat /\ Cardinality(FoundersIn(key, from)) \in Nat
         /\ Cardinality(Workers) \in Nat
         /\ Cardinality(NewIn(key, from)) + Cardinality(FoundersIn(key, from))
              <= Cardinality(Workers)
<1>1. NewIn(key, from) \subseteq DOMAIN incidents /\ FoundersIn(key, from) \subseteq Workers
  BY DEF NewIn, NewIncidents, FoundersIn
<1>2. IsFiniteSet(NewIn(key, from)) /\ IsFiniteSet(FoundersIn(key, from))
  BY <1>1, IdsAssumption, FS_Subset DEF SplitInv
<1> QED
  BY <1>2, IdsAssumption, FS_CardinalityType DEF SplitInv, PlacesBounded

(* Fewer new incidents and fewer founding deliveries keep the bound.       *)
LEMMA FewerPlaces ==
  ASSUME SplitInv, NEW key, NEW from \in Int,
         NewIn(key, from)' \subseteq NewIn(key, from),
         FoundersIn(key, from)' \subseteq FoundersIn(key, from)
  PROVE  Cardinality(NewIn(key, from)') + Cardinality(FoundersIn(key, from)')
           <= Cardinality(Workers)
BY PlacesFinite, SumShrinks

LEMMA StaySplit ==
  ASSUME SplitInv, RowsStay, DOMAIN incidents' = DOMAIN incidents,
         \A j \in DOMAIN incidents :
           incidents'[j].status = "DETECTED" => incidents[j].status = "DETECTED",
         \A v \in Workers : tx'[v] = tx[v] \/ tx'[v].pc \in {"idle", "check"}
  PROVE  IsFiniteSet(DOMAIN incidents)' /\ PlacesBounded'
<1>1. \A key, from : NewIn(key, from)' \subseteq NewIn(key, from)
  BY DEF NewIn, NewIncidents, RowsStay
<1>2. \A key, from : FoundersIn(key, from)' \subseteq FoundersIn(key, from)
  <2>1. \A v \in Workers : Founding(v)' => Founding(v) /\ tx'[v] = tx[v]
    BY DEF Founding
  <2> QED
    BY <2>1 DEF FoundersIn
<1>3. PlacesBounded'
  BY <1>1, <1>2, FewerPlaces DEF PlacesBounded
<1> QED
  BY <1>3 DEF SplitInv

(* Before its commit a delivery becomes a founding one by a search alone,   *)
(* and in the windows of its alert there is then no new incident.          *)
LEMMA StatementSplits ==
  ASSUME SplitInv, NEW w \in Workers, NEW t, Enter(w, t), Learns(w, t)
  PROVE  IsFiniteSet(DOMAIN incidents)' /\ PlacesBounded'
<1>0. /\ TypeInv /\ NumberGuarded /\ tx[w] \in Transactions /\ Bound(tx[w])
      /\ tx' = [tx EXCEPT ![w] = t] /\ tx \in [Workers -> Transactions]
      /\ incidents' = incidents
  BY DEF SplitInv, HoldInv, AllBound, CodeInv, TypeInv, TypeOK, Enter, database
<1>1. \A key, from : NewIn(key, from)' = NewIn(key, from)
  BY <1>0 DEF NewIn, NewIncidents
<1>2. \A v \in Workers : IF v = w THEN tx'[v] = t ELSE tx'[v] = tx[v]
  BY <1>0
<1>3. CASE FindsNone(w, t) /\ t.pc = "number"
  <2> DEFINE a == t.alert
             k == CorrelationKey(a)
             at == AlertData[a].detectedAt
  <2>1. a \in Alerts /\ t.decision.correlationKey = k
    BY <1>0, <1>3, TransactionShape DEF FindsNone, Deciding, Bound
  <2>2. Joinable(a, k) = {}
    BY <1>0, <1>3, <2>1, EarliestExists DEF FindsNone
  <2>3. at \in Int /\ Window \in Int /\ WindowStart(a) = at - Window
    BY <2>1, AlertsAssumption, WindowAssumption DEF AlertRows, WindowStart
  <2>4. ASSUME NEW from \in Int, at \in from..(from + Window)
        PROVE  NewIn(k, from) = {}
    <3>1. \A i \in NewIn(k, from) : /\ i \in DOMAIN incidents
                                    /\ incidents[i].status \in OpenStatuses
                                    /\ incidents[i].correlationKey = k
                                    /\ incidents[i].detectedAt \in from..(from + Window)
      BY DEF NewIn, NewIncidents, OpenStatuses, Statuses, TerminalStatuses
    <3>2. \A i \in NewIn(k, from) : incidents[i].detectedAt >= WindowStart(a)
      BY <2>3, <2>4, <3>1
    <3>3. \A i \in NewIn(k, from) : i \in Joinable(a, k)
      BY <3>1, <3>2 DEF Joinable, OpenWithKey
    <3> QED
      BY <2>2, <3>3
  <2> HIDE DEF k, at
  <2>5. ASSUME NEW key, NEW from \in Int
        PROVE  Cardinality(NewIn(key, from)') + Cardinality(FoundersIn(key, from)')
                 <= Cardinality(Workers)
    <3>1. CASE key = k /\ at \in from..(from + Window)
      <4>1. NewIn(key, from)' = {} /\ Cardinality(NewIn(key, from)') = 0
        BY <1>1, <2>4, <3>1, FS_EmptySet
      <4>2. FoundersIn(key, from)' \subseteq Workers
        BY DEF FoundersIn
      <4>3. /\ Cardinality(FoundersIn(key, from)') \in Nat
            /\ Cardinality(FoundersIn(key, from)') <= Cardinality(Workers)
        BY <4>2, IdsAssumption, FS_Subset, FS_CardinalityType
      <4> QED
        BY <4>1, <4>3
    <3>2. CASE ~(key = k /\ at \in from..(from + Window))
      <4>1. FoundersIn(key, from)' \subseteq FoundersIn(key, from)
        BY <1>2, <3>2 DEF FoundersIn, Founding, k, at
      <4> QED
        BY <1>1, <4>1, FewerPlaces
    <3> QED
      BY <3>1, <3>2
  <2>6. PlacesBounded'
    BY <2>5 DEF PlacesBounded
  <2> QED
    BY <1>0, <2>6 DEF SplitInv
<1>4. CASE ~(FindsNone(w, t) /\ t.pc = "number")
  <2> DEFINE founds == \/ t.pc = "number"
                       \/ t.pc \in {"attach", "record"} /\ t.kind = "INCIDENT_CREATED"
  <2>1. founds => Founding(w) /\ t.alert = tx[w].alert
    BY <1>0, <1>4 DEF Learns, EndsOrChecks, Decides, FindsNone, FindsToJoin, FindsToRecover,
                      Creates, Advances, Founding, NumberGuarded, Creating, HasWritten
  <2>2. \A key, from : FoundersIn(key, from)' \subseteq FoundersIn(key, from)
    <3>1. ASSUME NEW v \in Workers, Founding(v)'
          PROVE  Founding(v) /\ tx'[v].alert = tx[v].alert
      <4>1. CASE v = w
        <5>0. tx'[v] = t
          BY <1>2, <4>1
        <5>1. founds
          BY <3>1, <5>0 DEF Founding
        <5> QED
          BY <2>1, <4>1, <5>0, <5>1
      <4>2. CASE v # w
        BY <1>2, <3>1, <4>2 DEF Founding
      <4> QED
        BY <4>1, <4>2
    <3> QED
      BY <3>1 DEF FoundersIn
  <2>3. PlacesBounded'
    BY <1>1, <2>2, FewerPlaces DEF PlacesBounded
  <2> QED
    BY <1>0, <2>3 DEF SplitInv
<1> QED
  BY <1>3, <1>4

(* The incident a delivery founds takes its place.                         *)
LEMMA CreationSplits ==
  ASSUME SplitInv, NEW w \in Workers, Commit(w), ~IsRecorded(tx[w].alert),
         tx[w].kind = "INCIDENT_CREATED"
  PROVE  IsFiniteSet(DOMAIN incidents)' /\ PlacesBounded'
<1> DEFINE i == tx[w].incident
           a == tx[w].alert
<1>0. Bound(tx[w]) /\ OwnStatus(tx[w]) /\ tx \in [Workers -> Transactions]
  BY DEF SplitInv, HoldInv, AllBound, StampsInv, Stamped, CodeInv, TypeInv, TypeOK
<1>1. /\ tx[w] \in Targeting /\ tx[w].pc = "record" /\ tx' = [tx EXCEPT ![w] = Idle]
      /\ DOMAIN incidents' = DOMAIN incidents \union {i} /\ i \notin DOMAIN incidents
      /\ \A j \in DOMAIN incidents : incidents'[j] = incidents[j]
      /\ incidents'[i] = tx[w].row
  BY CommitRows DEF SplitInv, HoldInv, CodeInv
<1>2. /\ incidents'[i].correlationKey = CorrelationKey(a)
      /\ incidents'[i].detectedAt = AlertData[a].detectedAt
  BY <1>0, <1>1 DEF Bound, NewRow
<1>3. IsFiniteSet(DOMAIN incidents)'
  BY <1>1, FS_AddElement DEF SplitInv
<1>4. \A v \in Workers : IF v = w THEN tx'[v].pc = "idle" ELSE tx'[v] = tx[v]
  BY <1>0, <1>1, IdleType
<1>5. ASSUME NEW key, NEW from \in Int
      PROVE  Cardinality(NewIn(key, from)') + Cardinality(FoundersIn(key, from)')
               <= Cardinality(Workers)
  <2>1. FoundersIn(key, from)' = FoundersIn(key, from) \ {w}
    BY <1>4 DEF FoundersIn, Founding
  <2>2. CASE key = CorrelationKey(a) /\ AlertData[a].detectedAt \in from..(from + Window)
    <3>1. w \in FoundersIn(key, from)
      BY <1>1, <2>2 DEF FoundersIn, Founding
    <3>2. NewIn(key, from)' \subseteq NewIn(key, from) \union {i}
      BY <1>1 DEF NewIn, NewIncidents
    <3>3. /\ Cardinality(FoundersIn(key, from)') = Cardinality(FoundersIn(key, from)) - 1
          /\ Cardinality(FoundersIn(key, from)) \in Nat
      <4> DEFINE F == FoundersIn(key, from)
      <4>1. IsFiniteSet(F) /\ Cardinality(F) \in Nat
        BY PlacesFinite
      <4>2. w \in F
        BY <3>1
      <4> HIDE DEF F
      <4>3. Cardinality(F \ {w}) = Cardinality(F) - 1
        BY <4>1, <4>2, FS_RemoveElement
      <4> QED
        BY <2>1, <4>1, <4>3 DEF F
    <3>4. /\ IsFiniteSet(NewIn(key, from) \union {i})
          /\ Cardinality(NewIn(key, from) \union {i}) <= Cardinality(NewIn(key, from)) + 1
          /\ Cardinality(NewIn(key, from) \union {i}) \in Nat
      <4> DEFINE N == NewIn(key, from)
      <4>1. IsFiniteSet(N) /\ Cardinality(N) \in Nat
        BY PlacesFinite
      <4> HIDE DEF N
      <4>2. /\ IsFiniteSet(N \union {i})
            /\ Cardinality(N \union {i}) \in {Cardinality(N), Cardinality(N) + 1}
        BY <4>1, FS_AddElement
      <4> QED
        BY <4>1, <4>2 DEF N
    <3>5. /\ Cardinality(NewIn(key, from)') <= Cardinality(NewIn(key, from) \union {i})
          /\ Cardinality(NewIn(key, from)') \in Nat
      BY <3>2, <3>4, FS_Subset, FS_CardinalityType
    <3> QED
      BY <3>3, <3>4, <3>5, PlacesFinite
  <2>3. CASE ~(key = CorrelationKey(a) /\ AlertData[a].detectedAt \in from..(from + Window))
    <3>1. NewIn(key, from)' \subseteq NewIn(key, from)
      BY <1>1, <1>2, <2>3 DEF NewIn, NewIncidents
    <3> QED
      BY <2>1, <3>1, FewerPlaces
  <2> QED
    BY <2>2, <2>3
<1>6. PlacesBounded'
  BY <1>5 DEF PlacesBounded
<1> QED
  BY <1>3, <1>6

(* A request leads away from DETECTED.                                     *)
LEMMA OperatorLeavesNew ==
  ASSUME SplitInv, NEW o \in Operators, OperatorStep(o)
  PROVE  /\ NoneBackToNew'
         /\ \A j \in DOMAIN incidents :
              incidents'[j].status = "DETECTED" => incidents[j].status = "DETECTED"
<1>0. /\ incidents \in [DOMAIN incidents -> IncidentRows] /\ requests \in [Operators -> Requests]
      /\ Idle.pc # "write" /\ TypeInv
  BY IdleType DEF SplitInv, HoldInv, CodeInv, TypeInv, TypeOK
<1>1. ASSUME NEW i \in DOMAIN incidents, NEW to \in Statuses, ReadIncident(o, i, to)
      PROVE  NoneBackToNew' /\ incidents' = incidents
  <2>1. incidents[i].status \in Statuses
    BY <1>0 DEF IncidentRows
  <2>2. to # "DETECTED"
    BY <1>1, <2>1 DEF ReadIncident, CanTransition, Transitions, Statuses
  <2> QED
    BY <1>0, <1>1, <2>2 DEF ReadIncident, database, SplitInv, NoneBackToNew
<1>2. CASE AbortRequest(o)
  BY <1>0, <1>2 DEF AbortRequest, database, SplitInv, NoneBackToNew
<1>3. CASE WriteStatus(o)
  <2> DEFINE i == requests[o].incident
             to == requests[o].to
             new == [incidents EXCEPT ![i].status = to, ![i].stamps = @ \union StampOf(to)]
  <2>1. /\ incidents' = new /\ requests' = [requests EXCEPT ![o] = Idle]
        /\ to # "DETECTED"
    BY <1>3 DEF WriteStatus, SplitInv, NoneBackToNew
  <2>2. \A j \in DOMAIN incidents \ {i} : new[j] = incidents[j]
    OBVIOUS
  <2>3. i \in DOMAIN incidents => new[i].status = to
    <3>1. i \in DOMAIN incidents
            => new[i] = [incidents[i] EXCEPT !.status = to, !.stamps = @ \union StampOf(to)]
      OBVIOUS
    <3> QED
      BY <1>0, <3>1 DEF IncidentRows
  <2> HIDE DEF i, to, new
  <2>4. NoneBackToNew'
    BY <1>0, <2>1 DEF SplitInv, NoneBackToNew
  <2> QED
    BY <2>1, <2>2, <2>3, <2>4
<1> QED
  BY <1>1, <1>2, <1>3 DEF OperatorStep

LEMMA SplitInit == Init => SplitInv
<1> SUFFICES ASSUME Init
             PROVE  NoneBackToNew /\ IsFiniteSet(DOMAIN incidents) /\ PlacesBounded
  BY HoldInit, StampsInit DEF SplitInv
<1>1. DOMAIN incidents = {} /\ \A w \in Workers : tx[w].pc = "idle"
  BY IdleType DEF Init
<1>2. \A key, from : NewIn(key, from) = {} /\ FoundersIn(key, from) = {}
  BY <1>1 DEF NewIn, NewIncidents, FoundersIn, Founding
<1>3. Cardinality({}) = 0 /\ Cardinality(Workers) \in Nat
  BY IdsAssumption, FS_EmptySet, FS_CardinalityType
<1>4. NoneBackToNew
  BY IdleType DEF Init, NoneBackToNew
<1>5. PlacesBounded
  <2> SUFFICES ASSUME NEW key, NEW from \in Int
               PROVE  Cardinality(NewIn(key, from)) + Cardinality(FoundersIn(key, from))
                        <= Cardinality(Workers)
    BY DEF PlacesBounded
  <2>1. Cardinality(NewIn(key, from)) = 0 /\ Cardinality(FoundersIn(key, from)) = 0
    BY <1>2, <1>3
  <2> QED
    BY <1>3, <2>1
<1> QED
  BY <1>1, <1>4, <1>5, FS_EmptySet

LEMMA SplitStep == SplitInv /\ [Next]_vars => SplitInv'
<1> SUFFICES ASSUME SplitInv, [Next]_vars
             PROVE  NoneBackToNew' /\ IsFiniteSet(DOMAIN incidents)' /\ PlacesBounded'
  BY HoldStep, StampsStep DEF SplitInv
<1>0. /\ HoldInv /\ TypeInv /\ NumberGuarded /\ tx \in [Workers -> Transactions]
  BY DEF SplitInv, HoldInv, CodeInv, TypeInv, TypeOK
<1>1. ASSUME NEW w \in Workers, NEW t, Enter(w, t), Learns(w, t)
      PROVE  NoneBackToNew' /\ IsFiniteSet(DOMAIN incidents)' /\ PlacesBounded'
  BY <1>1, StatementSplits DEF Enter, SplitInv, NoneBackToNew
<1>2. ASSUME NEW w \in Workers, NEW a \in Alerts, Ingest(w, a)
      PROVE  NoneBackToNew' /\ IsFiniteSet(DOMAIN incidents)' /\ PlacesBounded'
  <2>1. /\ RowsStay /\ UNCHANGED <<incidents, requests>>
        /\ \A v \in Workers : tx'[v] = tx[v] \/ tx'[v].pc \in {"idle", "check"}
    BY <1>0, <1>2 DEF Ingest, RowsStay
  <2> QED
    BY <2>1, StaySplit DEF SplitInv, NoneBackToNew
<1>3. ASSUME NEW w \in Workers, Commit(w) \/ CommitIgnored(w),
             IsRecorded(tx[w].alert) \/ CommitIgnored(w)
      PROVE  NoneBackToNew' /\ IsFiniteSet(DOMAIN incidents)' /\ PlacesBounded'
  <2>1. tx' = [tx EXCEPT ![w] = Idle] /\ UNCHANGED <<incidents, requests>>
    BY <1>3 DEF Commit, CommitIgnored, Enter, database
  <2>2. RowsStay /\ \A v \in Workers : tx'[v] = tx[v] \/ tx'[v].pc \in {"idle", "check"}
    BY <1>0, <2>1, IdleType DEF RowsStay
  <2> QED
    BY <2>1, <2>2, StaySplit DEF SplitInv, NoneBackToNew
<1>4. ASSUME NEW w \in Workers, Commit(w), ~IsRecorded(tx[w].alert)
      PROVE  NoneBackToNew' /\ IsFiniteSet(DOMAIN incidents)' /\ PlacesBounded'
  <2>1. UNCHANGED requests /\ incidents' = Written(w) /\ OwnStatus(tx[w])
    BY <1>4 DEF Commit, SplitInv, StampsInv, Stamped
  <2>2. CASE tx[w].kind = "INCIDENT_CREATED"
    BY <1>4, <2>1, <2>2, CreationSplits DEF SplitInv, NoneBackToNew
  <2>3. CASE tx[w].kind # "INCIDENT_CREATED"
    <3>1. /\ RowsStay /\ tx[w] \in Targeting /\ tx[w].pc = "record"
          /\ DOMAIN incidents' = DOMAIN incidents
          /\ \A v \in Workers : tx'[v] = tx[v] \/ tx'[v].pc \in {"idle", "check"}
      BY <1>0, <1>4, <2>3, CommitRows
    <3>2. \A j \in DOMAIN incidents : incidents'[j].status \in {incidents[j].status, "MONITORING"}
      BY <1>0, <2>1, <2>3, <3>1, WrittenRow DEF OwnStatus
    <3> QED
      BY <2>1, <3>1, <3>2, StaySplit DEF SplitInv, NoneBackToNew
  <2> QED
    BY <2>2, <2>3
<1>5. ASSUME NEW o \in Operators, OperatorStep(o)
      PROVE  NoneBackToNew' /\ IsFiniteSet(DOMAIN incidents)' /\ PlacesBounded'
  <2>1. RowsStay /\ DOMAIN incidents' = DOMAIN incidents /\ tx' = tx
    BY <1>0, <1>5, OperatorRow DEF RowsStay
  <2> QED
    BY <1>5, <2>1, OperatorLeavesNew, StaySplit
<1>6. CASE UNCHANGED vars
  <2>1. RowsStay /\ UNCHANGED <<incidents, requests, tx>>
    BY <1>6 DEF vars, RowsStay
  <2> QED
    BY <2>1, StaySplit DEF SplitInv, NoneBackToNew
<1>7. ASSUME NEW w \in Workers, WorkerStep(w) \/ Abort(w), ~Commit(w), ~CommitIgnored(w)
      PROVE  NoneBackToNew' /\ IsFiniteSet(DOMAIN incidents)' /\ PlacesBounded'
  BY <1>0, <1>1, <1>7, StatementLearns DEF WorkerStep
<1> QED
  BY <1>2, <1>3, <1>4, <1>5, <1>6, <1>7 DEF Next, WorkerStep

(* Racing deliveries may split a group, by no more incidents than there are *)
(* deliveries in progress: of those of one key and one window that nobody   *)
(* has acted upon there are never more than workers, for any number of      *)
(* alerts, repetitions, aborts and requests (processInTransaction).        *)
THEOREM SplitsAreFew == Spec => []SplitsAreBounded
<1>1. SplitInv => SplitsAreBounded
  <2> SUFFICES ASSUME SplitInv, NEW S \in SUBSET NewIncidents, \A i, j \in S : Alike(i, j)
               PROVE  Cardinality(S) <= Cardinality(Workers)
    BY DEF SplitsAreBounded
  <2>1. CASE S = {}
    BY <2>1, IdsAssumption, FS_EmptySet, FS_CardinalityType
  <2>2. CASE S # {}
    <3> DEFINE times == {incidents[i].detectedAt : i \in S}
    <3>1. PICK first \in S : TRUE
      BY <2>2
    <3>2. Window \in Nat /\ \A i \in S : incidents[i].detectedAt \in Int
      BY WindowAssumption
      DEF NewIncidents, SplitInv, HoldInv, CodeInv, TypeInv, TypeOK, IncidentRows
    <3>3. \A i \in S : incidents[i].detectedAt >= incidents[first].detectedAt - Window
      BY <3>1, <3>2 DEF Alike
    <3>4. PICK from \in times : \A s \in times : from <= s
      <4>1. /\ times \in SUBSET Int /\ times # {}
            /\ incidents[first].detectedAt - Window \in Int
            /\ \A s \in times : s >= incidents[first].detectedAt - Window
        BY <3>1, <3>2, <3>3
      <4> HIDE DEF times
      <4> QED
        BY <4>1, FirstTime
    <3>5. PICK e \in S : from = incidents[e].detectedAt
      BY <3>4
    <3> DEFINE key == incidents[e].correlationKey
    <3>6. \A i \in S : /\ incidents[i].correlationKey = key
                       /\ incidents[i].detectedAt \in from..(from + Window)
      <4> SUFFICES ASSUME NEW i \in S
                   PROVE  /\ incidents[i].correlationKey = key
                          /\ incidents[i].detectedAt \in from..(from + Window)
        OBVIOUS
      <4>1. Alike(i, e) /\ incidents[i].detectedAt \in times
        OBVIOUS
      <4>2. from <= incidents[i].detectedAt /\ from \in Int /\ incidents[i].detectedAt \in Int
        BY <3>2, <3>4, <3>5, <4>1
      <4> QED
        BY <3>2, <3>5, <4>1, <4>2 DEF Alike
    <3>7. S \subseteq NewIn(key, from) /\ from \in Int
      BY <3>2, <3>5, <3>6 DEF NewIn
    <3> HIDE DEF key
    <3>8. Cardinality(S) + Cardinality({}) <= Cardinality(Workers)
      BY <3>7, PlacesFinite, SumShrinks
    <3>9. Cardinality({}) = 0 /\ Cardinality(S) \in Nat
      BY <3>7, PlacesFinite, FS_EmptySet, FS_Subset, FS_CardinalityType
    <3> QED
      BY <3>8, <3>9
  <2> QED
    BY <2>1, <2>2
<1> QED
  BY <1>1, SplitInit, SplitStep, PTL DEF Spec

-----------------------------------------------------------------------------
(* The status of a recovered incident.                                     *)
RecoveryInv == HoldInv /\ StampsInv /\ RecoveryNotUndone

LEMMA RecoveryStep ==
  ASSUME Operators = {}
  PROVE  RecoveryInv /\ [Next]_vars => RecoveryInv'
<1> SUFFICES ASSUME RecoveryInv, [Next]_vars
             PROVE  RecoveryNotUndone'
  BY HoldStep, StampsStep DEF RecoveryInv
<1>0. /\ TypeInv /\ NumberGuarded /\ tx \in [Workers -> Transactions]
      /\ links \subseteq [alert : Alerts, incident : DOMAIN incidents, kind : LinkKinds]
  BY DEF RecoveryInv, HoldInv, CodeInv, TypeInv, TypeOK
<1>1. ASSUME NEW w \in Workers, Commit(w), ~IsRecorded(tx[w].alert)
      PROVE  RecoveryNotUndone'
  <2>1. /\ tx[w] \in Targeting /\ tx[w].pc = "record" /\ OwnStatus(tx[w])
        /\ tx[w].kind = "INCIDENT_CREATED"
             => \A j \in DOMAIN incidents : incidents'[j] = incidents[j]
        /\ tx[w].kind # "INCIDENT_CREATED" => tx[w].incident \in DOMAIN incidents
        /\ incidents' = Written(w)
    BY <1>0, <1>1, CommitRows
    DEF Commit, RecoveryInv, StampsInv, Stamped, TypeInv, TargetsExist
  <2> DEFINE link == [alert |-> tx[w].alert, incident |-> tx[w].incident, kind |-> tx[w].kind]
  <2>2. links' = links \union {link}
    BY <1>1 DEF Commit
  <2>3. \A j \in DOMAIN incidents : incidents'[j].status \in {incidents[j].status, "MONITORING"}
    BY <1>0, <2>1, WrittenRow DEF OwnStatus
  <2>4. tx[w].kind = "RECOVERY_DETECTED" => \A i : i = tx[w].incident
                                                    => incidents'[i].status = "MONITORING"
    BY <1>0, <2>1, WrittenRow DEF OwnStatus
  <2>5. link.kind = tx[w].kind /\ link.incident = tx[w].incident
    OBVIOUS
  <2> HIDE DEF link
  <2> SUFFICES ASSUME NEW l \in links', l.kind = "RECOVERY_DETECTED"
               PROVE  incidents'[l.incident].status = "MONITORING"
    BY DEF RecoveryNotUndone
  <2>6. CASE l \in links
    BY <1>0, <2>3, <2>6 DEF RecoveryInv, RecoveryNotUndone
  <2>7. CASE l = link
    BY <2>4, <2>5, <2>7
  <2> QED
    BY <2>2, <2>6, <2>7
<1>2. ASSUME UNCHANGED <<incidents, links>>
      PROVE  RecoveryNotUndone'
  BY <1>2 DEF RecoveryInv, RecoveryNotUndone
<1>3. ASSUME NEW w \in Workers, WorkerStep(w) \/ Abort(w), ~Commit(w), ~CommitIgnored(w)
      PROVE  RecoveryNotUndone'
  BY <1>0, <1>2, <1>3, StatementLearns DEF WorkerStep, Enter, database
<1>4. ASSUME NEW w \in Workers, Commit(w) \/ CommitIgnored(w),
             IsRecorded(tx[w].alert) \/ CommitIgnored(w)
      PROVE  RecoveryNotUndone'
  BY <1>2, <1>4 DEF Commit, CommitIgnored, Enter, database
<1> QED
  BY <1>1, <1>2, <1>3, <1>4 DEF Next, WorkerStep, Ingest, vars

(* Where only recovery alerts change a status, a recovered incident stays   *)
(* in MONITORING: no upgrade computed from an older copy of the row puts    *)
(* its status back, for any number of racing deliveries (applyDecision).   *)
THEOREM RecoveriesAreNotUndone ==
  ASSUME Operators = {}
  PROVE  Spec => []RecoveryNotUndone
<1>1. Init => RecoveryInv
  BY HoldInit, StampsInit DEF RecoveryInv, Init, RecoveryNotUndone
<1>2. RecoveryInv /\ [Next]_vars => RecoveryInv'
  BY RecoveryStep
<1>3. RecoveryInv => RecoveryNotUndone
  BY DEF RecoveryInv
<1> QED
  BY <1>1, <1>2, <1>3, PTL DEF Spec

-----------------------------------------------------------------------------
(* The life cycle.  What a request writes was accepted from the status that *)
(* it read, wherever the incident is by now; the engine sets the status of  *)
(* an incident that exists only for a recovery.                            *)
Accepted ==
  \A o \in Operators :
    requests[o].pc = "write" => CanTransition(requests[o].from, requests[o].to)

AcceptedInv == HoldInv /\ StampsInv /\ Accepted

Explained(i) ==
  LET from == incidents[i].status
      to == incidents'[i].status
  IN  to # from => \/ CanTransition(from, to)
                   \/ \E o \in Operators : Overwrites(o, i, to)
                   \/ \E w \in Workers : Recovers(w, i, to)

LEMMA EngineMoves ==
  ASSUME AcceptedInv, [Next]_vars, \A o \in Operators : ~OperatorStep(o)
  PROVE  UNCHANGED requests /\ \A i \in DOMAIN incidents : Explained(i)
<1>0. TypeInv /\ NumberGuarded
  BY DEF AcceptedInv, HoldInv, CodeInv
<1>1. ASSUME NEW w \in Workers, Commit(w), ~IsRecorded(tx[w].alert)
      PROVE  UNCHANGED requests /\ \A i \in DOMAIN incidents : Explained(i)
  <2>1. /\ tx[w] \in Targeting /\ tx[w].pc = "record"
        /\ tx[w].kind = "INCIDENT_CREATED"
             => \A i \in DOMAIN incidents : incidents'[i] = incidents[i]
        /\ incidents' = Written(w) /\ UNCHANGED requests
    BY <1>0, <1>1, CommitRows DEF Commit, AcceptedInv
  <2>2. tx[w].kind = "RECOVERY_DETECTED" => tx[w].row.status = "MONITORING"
    BY <2>1 DEF AcceptedInv, StampsInv, Stamped, OwnStatus
  <2>3. ASSUME NEW i \in DOMAIN incidents, incidents'[i].status # incidents[i].status
        PROVE  Recovers(w, i, incidents'[i].status)
    BY <1>0, <2>1, <2>2, <2>3, WrittenRow DEF Recovers
  <2> QED
    BY <2>1, <2>3 DEF Explained
<1>2. ASSUME NEW w \in Workers, WorkerStep(w) \/ Abort(w), ~Commit(w), ~CommitIgnored(w)
      PROVE  UNCHANGED <<incidents, requests>>
  BY <1>0, <1>2, StatementLearns DEF WorkerStep, Enter, database
<1>3. ASSUME NEW w \in Workers, Commit(w) \/ CommitIgnored(w),
             IsRecorded(tx[w].alert) \/ CommitIgnored(w)
      PROVE  UNCHANGED <<incidents, requests>>
  BY <1>3 DEF Commit, CommitIgnored, Enter, database
<1>4. UNCHANGED <<incidents, requests>> => \A i \in DOMAIN incidents : Explained(i)
  BY DEF Explained
<1> QED
  BY <1>1, <1>2, <1>3, <1>4 DEF Next, WorkerStep, Ingest, vars

LEMMA OperatorMoves ==
  ASSUME AcceptedInv, NEW o \in Operators, OperatorStep(o)
  PROVE  Accepted' /\ \A i \in DOMAIN incidents : Explained(i)
<1>0. /\ incidents \in [DOMAIN incidents -> IncidentRows] /\ requests \in [Operators -> Requests]
      /\ Idle.pc # "write"
  BY IdleType DEF AcceptedInv, HoldInv, CodeInv, TypeInv, TypeOK
<1>1. ASSUME NEW i \in DOMAIN incidents, NEW to \in Statuses, ReadIncident(o, i, to)
      PROVE  Accepted' /\ incidents' = incidents
  BY <1>0, <1>1 DEF ReadIncident, database, AcceptedInv, Accepted
<1>2. CASE AbortRequest(o)
  BY <1>0, <1>2 DEF AbortRequest, database, AcceptedInv, Accepted, Explained
<1>3. CASE WriteStatus(o)
  <2> DEFINE i == requests[o].incident
             to == requests[o].to
             new == [incidents EXCEPT ![i].status = to, ![i].stamps = @ \union StampOf(to)]
  <2>1. /\ incidents' = new /\ requests' = [requests EXCEPT ![o] = Idle]
        /\ requests[o].pc = "write" /\ CanTransition(requests[o].from, to)
    BY <1>3 DEF WriteStatus, AcceptedInv, Accepted
  <2>2. Accepted'
    BY <1>0, <2>1 DEF AcceptedInv, Accepted
  <2>3. ASSUME NEW j \in DOMAIN incidents, j # i
        PROVE  incidents'[j] = incidents[j]
    BY <2>1, <2>3
  <2>4. ASSUME i \in DOMAIN incidents
        PROVE  incidents'[i].status = to
    <3>1. incidents[i] \in IncidentRows
      BY <1>0, <2>4
    <3>2. new[i] = [incidents[i] EXCEPT !.status = to, !.stamps = @ \union StampOf(to)]
      BY <2>4
    <3>3. incidents'[i] = new[i]
      BY <2>1
    <3> HIDE DEF i, to, new
    <3> QED
      BY <3>1, <3>2, <3>3 DEF IncidentRows
  <2>5. i \in DOMAIN incidents => Explained(i)
    <3> HIDE DEF to
    <3>1. CASE requests[o].from = incidents[i].status
      BY <2>1, <2>4, <3>1 DEF Explained
    <3>2. CASE requests[o].from # incidents[i].status
      BY <2>1, <2>4, <3>2 DEF Explained, Overwrites, to
    <3> QED
      BY <3>1, <3>2
  <2> QED
    BY <2>2, <2>3, <2>5 DEF Explained
<1>4. incidents' = incidents => \A i \in DOMAIN incidents : Explained(i)
  BY DEF Explained
<1> QED
  BY <1>1, <1>2, <1>3, <1>4 DEF OperatorStep

(* Of any requests and deliveries that race, alerts of recovery included,   *)
(* a status change that skips the table of incident-state-machine.ts is one *)
(* that a request had accepted from a status changed since, or a recovery   *)
(* (transition, handleRecoveryAlert).                                      *)
THEOREM SkipsAreOnlyRaces == Spec => SkipsAreRaces
<1>1. Init => AcceptedInv
  BY HoldInit, StampsInit, IdleType DEF Init, AcceptedInv, Accepted
<1>2. AcceptedInv /\ [Next]_vars
        => AcceptedInv' /\ [\A i \in DOMAIN incidents : Explained(i)]_vars
  <2> SUFFICES ASSUME AcceptedInv, [Next]_vars
               PROVE  Accepted' /\ \A i \in DOMAIN incidents : Explained(i)
    BY HoldStep, StampsStep DEF AcceptedInv
  <2>1. CASE \E o \in Operators : OperatorStep(o)
    BY <2>1, OperatorMoves
  <2>2. CASE \A o \in Operators : ~OperatorStep(o)
    BY <2>2, EngineMoves DEF AcceptedInv, Accepted
  <2> QED
    BY <2>1, <2>2
<1> QED
  BY <1>1, <1>2, PTL DEF Spec, SkipsAreRaces, Explained
=============================================================================
