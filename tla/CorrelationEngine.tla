------------------------- MODULE CorrelationEngine --------------------------
(***************************************************************************)
(* The deterministic correlation of one alert                              *)
(* (src/correlation/correlation-engine.service.ts): the key that groups    *)
(* alerts, the alerts counted with it, the rules that match and the        *)
(* decision they give.  Everything here is a function of the alert, of the *)
(* set of alert rows the transaction sees and of the enabled rules.        *)
(*                                                                         *)
(* An alert is named by its row id; its immutable columns are AlertData.   *)
(* An event type such as "onu.signal.critical" is the sequence of its      *)
(* segments.  Severities are their SEVERITY_RANK.                          *)
(***************************************************************************)
EXTENDS Integers, Sequences, FiniteSets

CONSTANTS Alerts,        \* ids of the alert rows that may be delivered
          AlertData,       \* the immutable columns of each alert
          Rules,           \* the enabled rules, ordered by priority and name
          Window,          \* INCIDENT_CORRELATION_WINDOW_SECONDS
          Null,            \* an absent (SQL NULL) column
          Undiagnosed      \* type UNKNOWN with root cause UNKNOWN

Severities == 0..5          \* INFO, WARNING, MINOR, MAJOR, CRITICAL, DISASTER

(* An event pattern: "*" and "pon.*" are prefixes, others are exact.       *)
AlertRows ==
  [event : Seq(STRING), olt : STRING \union {Null},
   pon : STRING \union {Null}, onu : STRING \union {Null},
   detectedAt : Int, year : Nat, severity : Severities, onuOffline : Nat]

RuleRows ==
  [pattern : Seq(STRING), prefix : BOOLEAN, minimumEventCount : Nat,
   minimumDistinctOnus : Nat, minimumAffectedCustomers : Nat,
   diagnosis : STRING \union {Null}, rootCauseConfidence : Nat,
   severity : Severities \union {Null}]

ASSUME AlertsAssumption == /\ IsFiniteSet(Alerts)
                           /\ AlertData \in [Alerts -> AlertRows]
ASSUME RulesAssumption == Rules \in Seq(RuleRows)
ASSUME WindowAssumption == Window \in Nat
ASSUME NullAssumption == /\ Null \notin STRING
                         /\ Null \notin Severities
                         /\ Undiagnosed \in STRING

-----------------------------------------------------------------------------
RecoveryEvents == {<<"onu", "online">>, <<"pon", "up">>, <<"olt", "up">>,
                   <<"uplink", "up">>, <<"zabbix", "problem", "resolved">>}

IsRecovery(a) == AlertData[a].event \in RecoveryEvents

Family(a) == AlertData[a].event[1]

(* The kind of object the alert is about, by the order of the tests of     *)
(* buildCorrelationKey.                                                    *)
KeyKind(a) == CASE Family(a) \in {"olt", "uplink"} -> Family(a)
                [] Family(a) \notin {"olt", "uplink"}
                     /\ AlertData[a].pon # Null -> "pon"
                [] Family(a) \notin {"olt", "uplink"}
                     /\ AlertData[a].pon = Null
                     /\ AlertData[a].onu # Null -> "onu"
                [] OTHER -> "alert"

CorrelationKey(a) ==
  [kind   |-> KeyKind(a),
   olt    |-> AlertData[a].olt,
   object |-> CASE KeyKind(a) = "pon" -> AlertData[a].pon
                [] KeyKind(a) = "onu" -> AlertData[a].onu
                [] KeyKind(a) = "alert" -> a
                [] OTHER -> Null]

Keys == {CorrelationKey(a) : a \in Alerts}

(* Is alert b counted when alert a is analysed, whatever its time?         *)
InScope(a, b) ==
  LET same(column) == AlertData[a][column] = AlertData[b][column]
  IN  CASE KeyKind(a) = "pon"   -> same("olt") /\ same("pon")
        [] KeyKind(a) = "onu"   -> same("olt") /\ same("onu")
        [] KeyKind(a) = "alert" -> a = b
        [] OTHER -> same("olt")

WindowStart(a) == AlertData[a].detectedAt - Window

(* The rows of the findMany of analyze, out of the stored alerts.          *)
Counted(a, stored) ==
  {b \in stored : /\ InScope(a, b)
                  /\ AlertData[b].detectedAt >= WindowStart(a)
                  /\ ~IsRecovery(b)}

EventCount(a, stored) ==
  IF Counted(a, stored) = {} THEN 1 ELSE Cardinality(Counted(a, stored))

DistinctOnus(a, stored) ==
  {AlertData[b].onu : b \in {c \in Counted(a, stored) :
                               AlertData[c].event = <<"onu", "offline">>}}
    \ {Null}

(* The largest onuOffline reported reaches n, or n = 0.                    *)
AffectedAtLeast(a, stored, n) ==
  n = 0 \/ \E b \in Counted(a, stored) : AlertData[b].onuOffline >= n

MatchesPattern(rule, event) ==
  IF rule.prefix
  THEN /\ Len(rule.pattern) < Len(event)
       /\ SubSeq(event, 1, Len(rule.pattern)) = rule.pattern
  ELSE rule.pattern = event

(* A minimum of 0 stands for a NULL minimum: the DTO only accepts >= 1.    *)
Matches(rule, a, stored) ==
  /\ MatchesPattern(rule, AlertData[a].event)
  /\ EventCount(a, stored) >= rule.minimumEventCount
  /\ Cardinality(DistinctOnus(a, stored)) >= rule.minimumDistinctOnus
  /\ AffectedAtLeast(a, stored, rule.minimumAffectedCustomers)

MatchingRules(a, stored) == {k \in DOMAIN Rules : Matches(Rules[k], a, stored)}

(* Faulty variant: no default type when no rule classifies.                *)
DiagnosisOrNull(a, stored) ==
  LET classifying == {k \in MatchingRules(a, stored) :
                        Rules[k].diagnosis # Null}
      first == {k \in classifying : \A j \in classifying : k <= j}
  IN  IF first = {}
      THEN [diagnosis |-> Null, rootCauseConfidence |-> 0]
      ELSE LET rule == Rules[CHOOSE k \in first : TRUE]
           IN  [diagnosis |-> rule.diagnosis,
                rootCauseConfidence |-> rule.rootCauseConfidence]

(* The first matching rule that classifies the incident gives the type,    *)
(* the root cause and its confidence.                                      *)
Diagnosis(a, stored) ==
  LET classifying == {k \in MatchingRules(a, stored) :
                        Rules[k].diagnosis # Null}
      first == {k \in classifying : \A j \in classifying : k <= j}
  IN  IF first = {}
      THEN [diagnosis |-> Undiagnosed, rootCauseConfidence |-> 0]
      ELSE LET rule == Rules[CHOOSE k \in first : TRUE]
           IN  [diagnosis |-> rule.diagnosis,
                rootCauseConfidence |-> rule.rootCauseConfidence]

(* The most severe of the alert and of every matching rule.                *)
Severity(a, stored) ==
  LET raised == {AlertData[a].severity} \union
                ({Rules[k].severity : k \in MatchingRules(a, stored)} \ {Null})
  IN  CHOOSE s \in raised : \A t \in raised : t <= s

Decisions == [correlationKey : Keys, eventCount : Nat, severity : Severities,
              diagnosis : STRING, rootCauseConfidence : Nat]

Analyze(a, stored) ==
  [correlationKey |-> CorrelationKey(a),
   eventCount |-> EventCount(a, stored),
   severity |-> Severity(a, stored),
   diagnosis |-> Diagnosis(a, stored).diagnosis,
   rootCauseConfidence |-> Diagnosis(a, stored).rootCauseConfidence]
=============================================================================
