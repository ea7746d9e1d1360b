------------------------- MODULE ImpactEngineProofs -------------------------
(***************************************************************************)
(* For any number of customers and of refreshes that overlap and fail: the  *)
(* counters of the incident are covered by its rows, and a refresh that no  *)
(* other overtook leaves every customer it reports coherent.               *)
(***************************************************************************)
EXTENDS ImpactEngine, FiniteSetTheorems, TLAPS

(* The types the arguments need.                                             *)
ImpactTyped == /\ rows \in [Customers -> Rows]
               /\ counters \in [potential : Nat, affected : Nat, online : Nat]
               /\ answer \in [Callers -> Answers]

ImpactInv == ImpactTyped /\ RowsCoverCounters

LEMMA ImpactInvAtFirst == ImpactInit => ImpactInv
<1> SUFFICES ASSUME ImpactInit
             PROVE  ImpactInv
  OBVIOUS
<1>1. ImpactTyped
  BY DEF ImpactInit, ImpactTyped, NoRows, NoRow, Rows, NoAnswer, Answers
<1>2. \A S : RowsWith(S) \subseteq Customers
  BY DEF RowsWith
<1>3. \A S : Cardinality(RowsWith(S)) \in Nat
  BY <1>2, ImpactAssumption, FS_Subset, FS_CardinalityType
<1>4. RowsWith({"OFFLINE"}) = {}
  BY DEF ImpactInit, RowsWith, NoRows, NoRow
<1>5. Cardinality(RowsWith({"OFFLINE"})) = 0
  BY <1>4, FS_EmptySet
<1> QED
  BY <1>1, <1>3, <1>5 DEF ImpactInit, ImpactInv, RowsCoverCounters

(* What a refresh writes covers what it counts: every customer it reports   *)
(* gets a row with the status it is counted for, and if no other row is     *)
(* left, the affected rows are the affected customers.                      *)
LEMMA CommitCoversCounters ==
  ASSUME ImpactTyped, NEW r \in Callers, Commit(r)
  PROVE  ImpactInv'
<1> DEFINE a == answer[r]
           Reported == Customers \ With(a, "MISSING")
<1>1. a \in Answers
  BY DEF ImpactTyped
<1>2. \A c \in Customers : rows'[c] \in Rows /\ (c \in Reported => rows'[c].status = a[c])
  BY <1>1 DEF Commit, Written, Upserted, With, Answers, Rows, ImpactTyped, Statuses,
              AffectedFrom, RestoredAt
<1>3. rows' \in [Customers -> Rows] /\ counters' = Summary(a)
  BY <1>2 DEF Commit, Written
<1>4. /\ With(a, "OFFLINE") \subseteq RowsWith({"OFFLINE"})'
      /\ With(a, "ONLINE") \subseteq RowsWith({"ONLINE"})'
      /\ Reported \subseteq RowsWith(Statuses)'
      /\ RowsWith({"OFFLINE"})' \subseteq RowsWith(Statuses)'
      /\ RowsWith({"OFFLINE"})' \intersect Reported = With(a, "OFFLINE")
  BY <1>1, <1>2 DEF With, RowsWith, Statuses, Answers
<1>5. /\ IsFiniteSet(RowsWith({"OFFLINE"})') /\ IsFiniteSet(RowsWith({"ONLINE"})')
      /\ IsFiniteSet(RowsWith(Statuses)') /\ IsFiniteSet(With(a, "OFFLINE"))
      /\ IsFiniteSet(With(a, "ONLINE")) /\ IsFiniteSet(Reported)
  BY ImpactAssumption, FS_Subset DEF RowsWith, With
<1>6. /\ Cardinality(With(a, "OFFLINE")) <= Cardinality(RowsWith({"OFFLINE"})')
      /\ Cardinality(With(a, "ONLINE")) <= Cardinality(RowsWith({"ONLINE"})')
      /\ Cardinality(Reported) <= Cardinality(RowsWith(Statuses)')
  BY <1>4, <1>5, FS_Subset
<1>7. ASSUME Cardinality(Reported) = Cardinality(RowsWith(Statuses)')
      PROVE  RowsWith({"OFFLINE"})' = With(a, "OFFLINE")
  <2>1. Reported = RowsWith(Statuses)'
    BY <1>4, <1>5, <1>7, FS_Subset
  <2> QED
    BY <1>4, <2>1
<1>8. RowsCoverCounters'
  BY <1>3, <1>6, <1>7 DEF RowsCoverCounters, Summary
<1>9. counters' \in [potential : Nat, affected : Nat, online : Nat]
  BY <1>3, <1>5, FS_CardinalityType DEF Summary
<1>10. answer' \in [Callers -> Answers]
  BY DEF Commit, Forget, ImpactTyped, NoAnswer, Answers
<1> QED
  BY <1>3, <1>8, <1>9, <1>10 DEF ImpactInv, ImpactTyped

(* Every other step leaves rows and counters alone.                         *)
LEMMA OthersKeepImpactInv ==
  ASSUME ImpactInv, UNCHANGED <<rows, counters>>, answer' \in [Callers -> Answers]
  PROVE  ImpactInv'
BY DEF ImpactInv, ImpactTyped, RowsCoverCounters, RowsWith

LEMMA MappedIsStatus == \A word : MapStatus(word) \in Statuses \union {"MISSING"}
  BY DEF MapStatus, Statuses

LEMMA ImpactInvKept == ImpactInv /\ [ImpactNext]_impactVars => ImpactInv'
<1> SUFFICES ASSUME ImpactInv, [ImpactNext]_impactVars
             PROVE  ImpactInv'
  OBVIOUS
<1>1. CASE RequestStep \/ TimePasses \/ UNCHANGED impactVars
           \/ \E c \in Customers, word \in Words \union {"MISSING"} : Change(c, word)
  BY <1>1, OthersKeepImpactInv
  DEF RequestStep, TimePasses, Change, impactVars, working, ImpactInv, ImpactTyped
<1>2. ASSUME NEW r \in Callers, RefreshStep(r)
      PROVE  ImpactInv'
  <2>1. CASE GetCustomers(r)
    <3>1. answer' \in [Callers -> Answers]
      BY <2>1, MappedIsStatus DEF GetCustomers, ImpactInv, ImpactTyped, Answers
    <3> QED
      BY <2>1, <3>1, OthersKeepImpactInv DEF GetCustomers
  <2>2. CASE ReadPrevious(r)
    BY <2>2, OthersKeepImpactInv DEF ReadPrevious, ImpactInv, ImpactTyped
  <2>3. CASE Commit(r)
    BY <2>3, CommitCoversCounters DEF ImpactInv
  <2>4. CASE RefreshFails(r)
    <3>1. answer' \in [Callers -> Answers]
      BY <2>4 DEF RefreshFails, Forget, ImpactInv, ImpactTyped, NoAnswer, Answers
    <3> QED
      BY <2>4, <3>1, OthersKeepImpactInv DEF RefreshFails
  <2> QED
    BY <1>2, <2>1, <2>2, <2>3, <2>4 DEF RefreshStep
<1> QED
  BY <1>1, <1>2 DEF ImpactNext

(* The counters of the incident are covered by its rows, for any number of  *)
(* customers and of refreshes that overlap and fail (upsertCustomer and      *)
(* calculateSummary in one transaction).                                    *)
THEOREM CountersAreCovered == ImpactSpec => []RowsCoverCounters
<1>1. ImpactInv => RowsCoverCounters
  BY DEF ImpactInv
<1> QED
  BY ImpactInvAtFirst, ImpactInvKept, <1>1, PTL DEF ImpactSpec

-----------------------------------------------------------------------------
(* Only the end of its own transaction takes a call from its write to done.  *)
CallsTyped == call \in [Callers -> CallStages]

LEMMA CallsStayTyped == CallsTyped /\ [ImpactNext]_impactVars => CallsTyped'
<1> SUFFICES ASSUME CallsTyped, [ImpactNext]_impactVars
             PROVE  CallsTyped'
  OBVIOUS
<1>1. CASE RequestStep
  BY <1>1 DEF RequestStep, Send, Refuse, Fail, Return, CallMoves, CallsTyped, CallStages
<1>2. CASE \E r \in Callers : RefreshStep(r)
  BY <1>2
  DEF RefreshStep, GetCustomers, Receive, ReadPrevious, Commit, RefreshFails, BodyFails,
      CallMoves, CallsTyped, CallStages
<1> QED
  BY <1>1, <1>2 DEF ImpactNext, TimePasses, Tick, Change, impactVars, CallsTyped

LEMMA OnlyCommitEnds ==
  ASSUME CallsTyped, [ImpactNext]_impactVars, NEW r \in Callers,
         call[r] = "write", call'[r] = "done"
  PROVE  Commit(r)
<1>1. CASE RequestStep
  BY <1>1 DEF RequestStep, Send, Refuse, Fail, Return, CallMoves, CallsTyped
<1>2. ASSUME NEW q \in Callers, RefreshStep(q)
      PROVE  Commit(r)
  <2>1. CASE GetCustomers(q)
    BY <2>1 DEF GetCustomers, Receive, CallMoves, CallsTyped
  <2>2. CASE ReadPrevious(q)
    BY <2>2 DEF ReadPrevious, CallMoves, CallsTyped
  <2>3. CASE Commit(q)
    <3>1. q = r
      BY <2>3 DEF Commit, CallMoves, CallsTyped
    <3> QED
      BY <2>3, <3>1
  <2>4. CASE RefreshFails(q)
    BY <2>4 DEF RefreshFails, BodyFails, CallMoves, CallsTyped
  <2> QED
    BY <1>2, <2>1, <2>2, <2>3, <2>4 DEF RefreshStep
<1>3. CASE TimePasses \/ UNCHANGED impactVars
           \/ \E c \in Customers, word \in Words \union {"MISSING"} : Change(c, word)
  BY <1>3 DEF TimePasses, Tick, Change, impactVars
<1> QED
  BY <1>1, <1>2, <1>3 DEF ImpactNext

(* What upsertCustomer makes of a row that is as it was read.               *)
LEMMA UpsertIsCoherent ==
  ASSUME NEW row \in Rows, NEW status \in Statuses
  PROVE  /\ Coherent(Upserted(row, row, status))
         /\ row.affected => Upserted(row, row, status).affected
         /\ row.restored => Upserted(row, row, status).restored
BY DEF Coherent, Upserted, AffectedFrom, RestoredAt, Rows, Statuses

(* A refresh that no other overtook between its read and its write leaves   *)
(* every customer it reports coherent and forgets no outage and no          *)
(* recovery, for any number of customers and of other refreshes             *)
(* (upsertCustomer).                                                       *)
THEOREM RefreshesRepair == ImpactSpec => RefreshRepairs
<1> DEFINE Repairs ==
             \A r \in Callers :
               call[r] = "write" /\ call'[r] = "done" /\ seen[r] = rows =>
                 \A c \in Customers :
                   /\ answer[r][c] # "MISSING" => Coherent(rows'[c])
                   /\ rows[c].affected => rows'[c].affected
                   /\ rows[c].restored => rows'[c].restored
<1>1. ImpactInit => CallsTyped
  BY DEF ImpactInit, BreakerInit, CallsTyped, CallStages
<1>2. ImpactInv /\ CallsTyped /\ [ImpactNext]_impactVars => Repairs
  <2> SUFFICES ASSUME ImpactInv, CallsTyped, [ImpactNext]_impactVars,
                      NEW r \in Callers, call[r] = "write", call'[r] = "done", seen[r] = rows,
                      NEW c \in Customers
               PROVE  /\ answer[r][c] # "MISSING" => Coherent(rows'[c])
                      /\ rows[c].affected => rows'[c].affected
                      /\ rows[c].restored => rows'[c].restored
    OBVIOUS
  <2>1. rows' = Written(r)
    BY OnlyCommitEnds DEF Commit
  <2>2. rows[c] \in Rows /\ answer[r][c] \in Statuses \union {"MISSING"}
    BY DEF ImpactInv, ImpactTyped, Answers
  <2>3. rows'[c] = IF answer[r][c] = "MISSING" THEN rows[c]
                   ELSE Upserted(rows[c], rows[c], answer[r][c])
    BY <2>1 DEF Written
  <2> QED
    BY <2>2, <2>3, UpsertIsCoherent
<1>3. RefreshRepairs <=> [][Repairs]_impactVars
  BY PTL DEF RefreshRepairs
<1> QED
  BY <1>1, <1>2, <1>3, ImpactInvAtFirst, ImpactInvKept, CallsStayTyped, PTL DEF ImpactSpec
=============================================================================
