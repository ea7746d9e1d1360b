---------------------------- MODULE ImpactEngine ----------------------------
(***************************************************************************)
(* ImpactEngineService (src/impact/impact-engine.service.ts): refreshes of  *)
(* the customers of one incident.  A refresh asks the provider, reads the   *)
(* customers it knew, and writes both rows and counters in one transaction; *)
(* deliveries and operators start refreshes that overlap.                  *)
(*                                                                         *)
(* A time is reduced to whether it is set.  Row locks order transactions    *)
(* that share a row, and all share the incident's: each is one step.       *)
(***************************************************************************)
EXTENDS CircuitBreaker, FiniteSets

CONSTANTS Customers,   \* customers the provider may report on the PON
          Words,       \* the provider's words for the state of a customer
          MaxChanges   \* bound: changes at the provider

ASSUME ImpactAssumption == IsFiniteSet(Customers) /\ MaxChanges \in Nat

VARIABLES
  provider,   \* what the provider would answer: a word for each customer,
              \* "MISSING" for one that is not on the PON
  changes,    \* how often that has changed
  rows,       \* incident_customers
  counters,   \* the counters of the incident
  answer,     \* the mapped answer of each refresh
  seen        \* the rows each refresh has read

working == <<answer, seen>>
impactVars == <<breaker, call, provider, changes, rows, counters, working>>

(* mapStatus: words are upper-cased first.                                  *)
Statuses == {"ONLINE", "OFFLINE", "UNKNOWN"}
MapStatus(word) ==
  CASE word = "MISSING" -> "MISSING"
    [] word \in {"ONLINE", "UP", "ACTIVE", "CONNECTED"} -> "ONLINE"
    [] word \in {"OFFLINE", "DOWN", "LOS", "DISCONNECTED", "INACTIVE"} -> "OFFLINE"
    [] OTHER -> "UNKNOWN"

(* A row has the customer's status (OFFLINE is confirmedAffected), whether  *)
(* affectedFrom and restoredAt are set, and whether impactDurationSeconds   *)
(* is the time between them.                                               *)
Rows == [status : Statuses \union {"NONE"}, affected : BOOLEAN,
         restored : BOOLEAN, measured : BOOLEAN]
NoRow == [status |-> "NONE", affected |-> FALSE, restored |-> FALSE, measured |-> FALSE]
NoRows == [c \in Customers |-> NoRow]
Answers == [Customers -> Statuses \union {"MISSING"}]
NoAnswer == [c \in Customers |-> "MISSING"]
With(a, status) == {c \in Customers : a[c] = status}

ImpactTypeOK ==
  /\ BreakerTypeOK
  /\ provider \in [Customers -> Words \union {"MISSING"}]
  /\ changes \in 0..MaxChanges
  /\ rows \in [Customers -> Rows]
  /\ counters \in [potential : Nat, affected : Nat, online : Nat]
  /\ answer \in [Callers -> Answers]
  /\ seen \in [Callers -> [Customers -> Rows]]

ImpactInit ==
  /\ BreakerInit
  /\ provider \in [Customers -> Words]
  /\ changes = 0
  /\ rows = NoRows
  /\ counters = [potential |-> 0, affected |-> 0, online |-> 0]
  /\ answer = [r \in Callers |-> NoAnswer]
  /\ seen = [r \in Callers |-> NoRows]

-----------------------------------------------------------------------------
(* The provider's customers change.                                         *)
Change(c, word) ==
  /\ changes < MaxChanges
  /\ word # provider[c]
  /\ provider' = [provider EXCEPT ![c] = word]
  /\ changes' = changes + 1
  /\ UNCHANGED <<breaker, call, rows, counters, working>>

(* getCustomersForPon, up to the status line; the provider answers with     *)
(* what it knows now.                                                       *)
GetCustomers(r) ==
  /\ Receive(r)
  /\ answer' = [answer EXCEPT ![r] = [c \in Customers |-> MapStatus(provider[c])]]
  /\ UNCHANGED <<provider, changes, rows, counters, seen>>

ReadPrevious(r) ==
  /\ CallMoves(r, "body", "write")
  /\ seen' = [seen EXCEPT ![r] = rows]
  /\ UNCHANGED <<breaker, provider, changes, rows, counters, answer>>

(* upsertCustomer: what becomes of affectedFrom and restoredAt.             *)
(* Faulty variant: an outage is dated only when its customer is first seen. *)
AffectedWhenNew(previous, status) ==
  (status = "OFFLINE" /\ previous = NoRow) \/ previous.affected
AffectedFrom(previous, status) == status = "OFFLINE" \/ previous.affected
RestoredAt(previous, status) ==
  previous.restored \/ (status # "OFFLINE" /\ previous.affected)

(* With no previous row, an undefined value leaves what the row has by now; *)
(* a previous row's null overwrites it.                                    *)
Upserted(row, previous, status) ==
  LET from == AffectedFrom(previous, status)
      until == RestoredAt(previous, status)
      left == previous.status = "NONE"
  IN [status   |-> status,
      affected |-> from \/ (left /\ row.affected),
      restored |-> until \/ (left /\ row.restored),
      measured |-> (until /\ from) \/ previous.measured]

(* Faulty variant: customers reported as unknown are skipped.               *)
WrittenKnown(r) ==
  [c \in Customers |-> IF answer[r][c] \in {"MISSING", "UNKNOWN"} THEN rows[c]
                       ELSE Upserted(rows[c], seen[r][c], answer[r][c])]
Written(r) ==
  [c \in Customers |-> IF answer[r][c] = "MISSING" THEN rows[c]
                       ELSE Upserted(rows[c], seen[r][c], answer[r][c])]

(* calculateSummary; customers of unknown status count as potential only.   *)
Summary(a) == [potential |-> Cardinality(Customers \ With(a, "MISSING")),
               affected  |-> Cardinality(With(a, "OFFLINE")),
               online    |-> Cardinality(With(a, "ONLINE"))]

Forget(r) == /\ answer' = [answer EXCEPT ![r] = NoAnswer]
             /\ seen' = [seen EXCEPT ![r] = NoRows]

Commit(r) ==
  /\ CallMoves(r, "write", "done")
  /\ rows' = Written(r)
  /\ counters' = Summary(answer[r])
  /\ Forget(r)
  /\ UNCHANGED <<breaker, provider, changes>>

(* The database fails; the transaction is rolled back.                      *)
RefreshFails(r) ==
  /\ \/ BodyFails(r)
     \/ CallMoves(r, "write", "thrown") /\ UNCHANGED breaker
  /\ Forget(r)
  /\ UNCHANGED <<provider, changes, rows, counters>>

RefreshStep(r) == GetCustomers(r) \/ ReadPrevious(r) \/ Commit(r) \/ RefreshFails(r)

(* The other queries of the adapter share the circuit; to it, each is a     *)
(* refresh that writes nothing.                                            *)
RequestStep ==
  /\ \E r \in Callers : Send(r) \/ Refuse(r) \/ Fail(r) \/ Return(r)
  /\ UNCHANGED <<provider, changes, rows, counters, working>>

TimePasses == Tick /\ UNCHANGED <<provider, changes, rows, counters, working>>

ImpactNext ==
  \/ RequestStep
  \/ TimePasses
  \/ \E r \in Callers : RefreshStep(r)
  \/ \E c \in Customers, word \in Words \union {"MISSING"} : Change(c, word)

(* Time passes; no call need succeed, or even end.                          *)
ImpactSpec == ImpactInit /\ [][ImpactNext]_impactVars /\ WF_impactVars(TimePasses)

-----------------------------------------------------------------------------
(* The counters of the incident are covered by its rows, whichever of two   *)
(* overlapping refreshes wrote last; rows beyond them belong to customers   *)
(* that are no longer reported.                                            *)
RowsWith(S) == {c \in Customers : rows[c].status \in S}
RowsCoverCounters ==
  /\ counters.affected <= Cardinality(RowsWith({"OFFLINE"}))
  /\ counters.online <= Cardinality(RowsWith({"ONLINE"}))
  /\ counters.potential <= Cardinality(RowsWith(Statuses))
  /\ counters.potential = Cardinality(RowsWith(Statuses)) =>
       counters.affected = Cardinality(RowsWith({"OFFLINE"}))

(* A refresh that no other overtook between its read and its write leaves   *)
(* every customer it reports coherent: who is offline has an outage, one    *)
(* that was offline and no longer is has it ended and measured; and it      *)
(* forgets no outage and no recovery, even of customers not reported.      *)
Coherent(row) == /\ row.status = "OFFLINE" => row.affected
                 /\ row.status # "OFFLINE" /\ row.affected => row.restored /\ row.measured
RefreshRepairs ==
  [][ \A r \in Callers :
        call[r] = "write" /\ call'[r] = "done" /\ seen[r] = rows =>
          \A c \in Customers :
            /\ answer[r][c] # "MISSING" => Coherent(rows'[c])
            /\ rows[c].affected => rows'[c].affected
            /\ rows[c].restored => rows'[c].restored ]_impactVars
=============================================================================
