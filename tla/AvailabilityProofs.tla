-------------------------- MODULE AvailabilityProofs --------------------------
(***************************************************************************)
(* Downtime is counted right, for any number of incidents and customers and *)
(* any period: merging intervals leaves apart what covers the same minutes, *)
(* so the sum of what is merged is the number of minutes covered; hence the *)
(* views of an outage agree.                                               *)
(*                                                                         *)
(* The loops of the code are recursive functions here.  What such a         *)
(* function returns is shown by the least number of rounds after which it   *)
(* would not hold (LeastNatural).                                          *)
(***************************************************************************)
EXTENDS Availability, FiniteSetTheorems, FunctionTheorems, WellFoundedInduction, TLAPS

-----------------------------------------------------------------------------
(* Loops.                                                                  *)

LEMMA LeastNatural ==
  ASSUME NEW S \in SUBSET Nat, S # {}
  PROVE  \E m \in S : \A n \in S : m <= n
<1>1. \E m \in S : \A n \in S : ~(<<n, m>> \in OpToRel(<, Nat))
  <2> DEFINE R == OpToRel(<, Nat)
  <2>1. IsWellFoundedOn(R, Nat)
    BY NatLessThanWellFounded
  <2> HIDE DEF R
  <2>2. \E m \in S : \A n \in S : ~(<<n, m>> \in R)
    BY <2>1, WFMin
  <2> QED
    BY <2>2 DEF R
<1>2. PICK m \in S : \A n \in S : ~(n < m)
  BY <1>1 DEF OpToRel
<1> QED
  BY <1>2

LEMMA EveryRound ==
  ASSUME NEW n \in Nat, NEW Holds, 0 \in Holds,
         \A k \in 1..n : k - 1 \in Holds => k \in Holds
  PROVE  \A k \in 0..n : k \in Holds
<1> DEFINE Not == (0..n) \ Holds
<1>1. Not \in SUBSET Nat
  OBVIOUS
<1>2. ASSUME Not # {}
      PROVE  FALSE
  <2>1. PICK m \in Not : \A l \in Not : m <= l
    <3> HIDE DEF Not
    <3> QED
      BY <1>1, <1>2, LeastNatural
  <2>2. m \in 1..n /\ m - 1 \in 0..n /\ m - 1 \notin Not
    BY <2>1
  <2> QED
    BY <2>1, <2>2
<1> QED
  BY <1>2

(* A loop of n rounds, of which round k takes a value d to step[k][d], has  *)
(* a value after each round.                                               *)
LEMMA LoopRuns ==
  ASSUME NEW D, NEW first \in D, NEW n \in Nat, NEW step \in [1..n -> [D -> D]]
  PROVE  \E f \in [0..n -> D] :
           f[0] = first /\ \A k \in 1..n : f[k] = step[k][f[k - 1]]
<1> DEFINE Runs(f, m) == f[0] = first /\ \A k \in 1..m : f[k] = step[k][f[k - 1]]
           Short == {m \in 0..n : ~\E f \in [0..m -> D] : Runs(f, m)}
<1>1. ASSUME Short # {}
      PROVE  FALSE
  <2>1. PICK m \in Short : \A l \in Short : m <= l
    <3>1. Short \in SUBSET Nat
      OBVIOUS
    <3> HIDE DEF Short
    <3> QED
      BY <1>1, <3>1, LeastNatural
  <2>2. CASE m = 0
    <3>1. [k \in 0..0 |-> first] \in [0..m -> D] /\ Runs([k \in 0..0 |-> first], m)
      BY <2>2
    <3> QED
      BY <2>1, <3>1
  <2>3. CASE m # 0
    <3>1. m - 1 \in 0..n /\ m - 1 \notin Short /\ m \in 1..n
      BY <2>1, <2>3
    <3>2. PICK f \in [0..(m - 1) -> D] : Runs(f, m - 1)
      BY <3>1
    <3> DEFINE g == [k \in 0..m |-> IF k = m THEN step[m][f[m - 1]] ELSE f[k]]
    <3>3. step[m] \in [D -> D] /\ f[m - 1] \in D
      BY <3>1, <3>2
    <3>4. g \in [0..m -> D]
      BY <3>1, <3>2, <3>3
    <3>5. ASSUME NEW k \in 1..m
          PROVE  g[k] = step[k][g[k - 1]]
      <4>1. k - 1 \in 0..(m - 1) /\ g[k - 1] = f[k - 1]
        BY <3>1
      <4>2. CASE k = m
        BY <4>1, <4>2
      <4>3. CASE k # m
        <5>1. k \in 1..(m - 1) /\ g[k] = f[k]
          BY <3>1, <4>3
        <5> QED
          BY <3>2, <4>1, <5>1
      <4> QED
        BY <4>2, <4>3
    <3>6. g[0] = first
      BY <3>1, <3>2
    <3> HIDE DEF g
    <3> QED
      BY <2>1, <3>4, <3>5, <3>6
  <2> QED
    BY <2>2, <2>3
<1>2. PICK f \in [0..n -> D] : Runs(f, n)
  BY <1>1
<1> QED
  BY <1>2

-----------------------------------------------------------------------------
(* Sorting.                                                                *)

Spans == [start : Nat, end : Nat]

Sorted(s, S) ==
  /\ s \in [1..Cardinality(S) -> S]
  /\ \A x \in S : \E k \in DOMAIN s : s[k] = x
  /\ \A j, k \in DOMAIN s : j < k => s[j].start <= s[k].start

(* A finite set of intervals can be put in order: its first before the rest *)
(* of it.                                                                  *)
LEMMA FirstThenRest ==
  ASSUME NEW S \in SUBSET Spans, IsFiniteSet(S), NEW x \in S,
         \A y \in S : x.start <= y.start, NEW rest, Sorted(rest, S \ {x})
  PROVE  \E s : Sorted(s, S)
<1> DEFINE n == Cardinality(S)
           s == [k \in 1..n |-> IF k = 1 THEN x ELSE rest[k - 1]]
<1>1. /\ n \in Nat /\ n > 0 /\ Cardinality(S \ {x}) = n - 1
      /\ rest \in [1..(n - 1) -> S \ {x}]
  <2>1. n \in Nat /\ n # 0
    BY FS_CardinalityType, FS_EmptySet
  <2>2. Cardinality(S \ {x}) = n - 1
    BY FS_RemoveElement
  <2>3. rest \in [1..Cardinality(S \ {x}) -> S \ {x}]
    BY DEF Sorted
  <2>4. rest \in [1..(n - 1) -> S \ {x}]
    BY <2>2, <2>3
  <2> HIDE DEF n
  <2>5. n > 0
    BY <2>1
  <2> QED
    BY <2>1, <2>2, <2>4, <2>5
<1> HIDE DEF n
<1>2. s[1] = x /\ \A k \in 1..(n - 1) : s[k + 1] = rest[k]
  BY <1>1
<1>3. s \in [1..n -> S]
  BY <1>1
<1>4. ASSUME NEW y \in S
      PROVE  \E k \in 1..n : s[k] = y
  <2>1. CASE y = x
    BY <1>1, <1>2, <2>1
  <2>2. CASE y # x
    <3>1. PICK k \in 1..(n - 1) : rest[k] = y
      BY <1>1, <2>2 DEF Sorted
    <3>2. k + 1 \in 1..n /\ s[k + 1] = y
      BY <1>1, <1>2, <3>1
    <3> QED
      BY <3>2
  <2> QED
    BY <2>1, <2>2
<1>5. ASSUME NEW j \in 1..n, NEW k \in 1..n, j < k
      PROVE  s[j].start <= s[k].start
  <2>1. k - 1 \in 1..(n - 1) /\ s[k] = rest[k - 1] /\ s[k] \in S
    BY <1>1, <1>3, <1>5
  <2>2. CASE j = 1
    BY <1>2, <2>1, <2>2
  <2>3. CASE j # 1
    <3>1. j - 1 \in 1..(n - 1) /\ s[j] = rest[j - 1] /\ j - 1 < k - 1
      BY <1>1, <1>5, <2>3
    <3> QED
      BY <1>1, <2>1, <3>1 DEF Sorted
  <2> QED
    BY <2>2, <2>3
<1>6. DOMAIN s = 1..n
  OBVIOUS
<1> HIDE DEF s
<1> QED
  BY <1>3, <1>4, <1>5, <1>6 DEF Sorted, n

LEMMA IntervalsInOrder ==
  ASSUME NEW S \in SUBSET Spans, IsFiniteSet(S)
  PROVE  Sorted(InOrder(S), S)
<1> DEFINE Unsorted == {n \in Nat : \E T \in SUBSET Spans :
                          /\ IsFiniteSet(T) /\ Cardinality(T) = n
                          /\ ~\E s : Sorted(s, T)}
<1>1. ASSUME Unsorted # {}
      PROVE  FALSE
  <2>1. PICK n \in Unsorted : \A m \in Unsorted : n <= m
    <3>1. Unsorted \in SUBSET Nat
      OBVIOUS
    <3> HIDE DEF Unsorted
    <3> QED
      BY <1>1, <3>1, LeastNatural
  <2>2. PICK T \in SUBSET Spans : /\ IsFiniteSet(T) /\ Cardinality(T) = n
                                 /\ ~\E s : Sorted(s, T)
    BY <2>1
  <2>3. CASE T = {}
    <3>1. Cardinality(T) = 0
      BY <2>3, FS_EmptySet
    <3>2. Sorted([k \in 1..0 |-> 0], T)
      BY <2>3, <3>1 DEF Sorted
    <3> QED
      BY <2>2, <3>2
  <2>4. CASE T # {}
    <3>1. PICK x \in T : \A y \in T : x.start <= y.start
      <4> DEFINE starts == {y.start : y \in T}
      <4>1. starts \in SUBSET Nat /\ starts # {}
        BY <2>4 DEF Spans
      <4>2. PICK m \in starts : \A l \in starts : m <= l
        <5> HIDE DEF starts
        <5> QED
          BY <4>1, LeastNatural
      <4> QED
        BY <4>2
    <3>2. IsFiniteSet(T \ {x}) /\ Cardinality(T \ {x}) = n - 1 /\ n - 1 \in Nat
      <4>1. IsFiniteSet(T \ {x}) /\ Cardinality(T \ {x}) = n - 1
        BY <2>2, FS_RemoveElement
      <4> QED
        BY <2>1, <4>1, FS_CardinalityType
    <3>3. n - 1 \notin Unsorted
      BY <2>1, <3>2
    <3>4. PICK rest : Sorted(rest, T \ {x})
      BY <3>2, <3>3
    <3> QED
      BY <2>2, <3>1, <3>4, FirstThenRest
  <2> QED
    BY <2>3, <2>4
<1>2. Cardinality(S) \in Nat
  BY FS_CardinalityType
<1>3. PICK s : Sorted(s, S)
  BY <1>1, <1>2
<1> QED
  BY <1>3 DEF Sorted, InOrder

-----------------------------------------------------------------------------
(* Merging.  What has been merged is a sequence of intervals in order and   *)
(* apart from each other, which cover what the intervals so far do.         *)

Apart(s) ==
  /\ s \in Seq(Spans)
  /\ \A k \in 1..Len(s) : s[k].start < s[k].end
  /\ \A j, k \in 1..Len(s) : j < k => s[j].end < s[k].start

During(x) == {m \in Nat : x.start <= m /\ m < x.end}
Covered(S) == {m \in Nat : \E x \in S : m \in During(x)}
CoveredBy(s, n) == {m \in Nat : \E k \in 1..n : m \in During(s[k])}

(* Each of the three ways to go on keeps that.                             *)
LEMMA ExtendedIsApart ==
  ASSUME NEW s, Apart(s), NEW x \in Spans, x.start < x.end,
         s # <<>> => Last(s).start <= x.start
  PROVE  /\ Apart(Extended(s, x)) /\ Extended(s, x) # <<>>
         /\ Last(Extended(s, x)).start <= x.start
         /\ CoveredBy(Extended(s, x), Len(Extended(s, x))) = CoveredBy(s, Len(s)) \union During(x)
<1> DEFINE n == Len(s)
           r == Extended(s, x)
<1>0. /\ n \in Nat /\ s \in [1..n -> Spans] /\ x.start \in Nat /\ x.end \in Nat
      /\ s # <<>> <=> n > 0
      /\ \A k \in 1..n : /\ s[k].start \in Nat /\ s[k].end \in Nat
                         /\ s[k].start < s[k].end
      /\ \A j, k \in 1..n : j < k => s[j].end < s[k].start
  <2>1. s \in Seq(Spans)
    BY DEF Apart
  <2>2. n \in Nat /\ s \in [1..n -> Spans] /\ (s # <<>> <=> n > 0)
    BY <2>1
  <2>3. /\ \A k \in 1..n : s[k].start < s[k].end
        /\ \A j, k \in 1..n : j < k => s[j].end < s[k].start
    BY DEF Apart
  <2> HIDE DEF n
  <2>4. \A k \in 1..n : s[k] \in Spans
    BY <2>2
  <2> QED
    BY <2>2, <2>3, <2>4 DEF Spans
<1>1. CASE s = <<>> \/ x.start > Last(s).end
  <2>1. r = Append(s, x)
    BY <1>1 DEF Extended
  <2>2. /\ r \in Seq(Spans) /\ Len(r) = n + 1 /\ r[n + 1] = x
        /\ \A k \in 1..n : r[k] = s[k]
    BY <1>0, <2>1 DEF Apart
  <2>3. \A k \in 1..n : s[k].end < x.start
    BY <1>0, <1>1 DEF Apart, Last
  <2>4. Apart(r)
    <3> HIDE DEF r, n
    <3>1. ASSUME NEW k \in 1..(n + 1)
          PROVE  r[k].start < r[k].end
      <4>1. CASE k = n + 1
        BY <2>2, <4>1
      <4>2. CASE k # n + 1
        BY <1>0, <2>2, <4>2
      <4> QED
        BY <4>1, <4>2
    <3>2. ASSUME NEW j \in 1..(n + 1), NEW k \in 1..(n + 1), j < k
          PROVE  r[j].end < r[k].start
      <4>1. CASE k = n + 1
        BY <1>0, <2>2, <2>3, <3>2, <4>1
      <4>2. CASE k # n + 1
        BY <1>0, <2>2, <3>2, <4>2
      <4> QED
        BY <4>1, <4>2
    <3> QED
      BY <2>2, <3>1, <3>2 DEF Apart
  <2>5. r # <<>> /\ Last(r).start <= x.start
    <3> HIDE DEF r
    <3> QED
      BY <1>0, <2>2 DEF Last
  <2>6. CoveredBy(r, n + 1) = CoveredBy(s, n) \union During(x)
    <3> HIDE DEF r, n
    <3>1. \A k \in 1..(n + 1) : k \in 1..n \/ k = n + 1
      BY <1>0
    <3>2. \A k \in 1..n : k \in 1..(n + 1)
      BY <1>0
    <3>3. n + 1 \in 1..(n + 1)
      BY <1>0
    <3> QED
      BY <2>2, <3>1, <3>2, <3>3 DEF CoveredBy, During
  <2> QED
    BY <2>2, <2>4, <2>5, <2>6
<1>2. CASE ~(s = <<>> \/ x.start > Last(s).end) /\ x.end > Last(s).end
  <2> DEFINE y == [start |-> s[n].start, end |-> x.end]
  <2>1. r = [s EXCEPT ![n] = y]
    BY <1>2 DEF Extended, Last
  <2>2. /\ n \in 1..n /\ s[n].start <= x.start /\ x.start <= s[n].end /\ x.end > s[n].end
        /\ s[n].start < s[n].end
    BY <1>0, <1>2 DEF Last, Apart
  <2>3. y \in Spans /\ y.start = s[n].start /\ y.end = x.end
    BY <1>0, <2>2 DEF Spans
  <2>4. During(y) = During(s[n]) \union During(x)
    BY <1>0, <2>2, <2>3 DEF During
  <2> HIDE DEF y
  <2>5. /\ r \in Seq(Spans) /\ Len(r) = n /\ r[n] = y
        /\ \A k \in 1..n : k # n => r[k] = s[k]
    <3>1. r \in [1..n -> Spans] /\ r[n] = y /\ \A k \in 1..n : k # n => r[k] = s[k]
      <4> HIDE DEF n, r
      <4> QED
        BY <1>0, <2>1, <2>2, <2>3
    <3>2. \A z \in [1..n -> Spans] : z \in Seq(Spans) /\ Len(z) = n
      <4> HIDE DEF n
      <4> QED
        BY <1>0
    <3> QED
      BY <3>1, <3>2
  <2> HIDE DEF r
  <2>6. Apart(r)
    <3> HIDE DEF n
    <3>1. \A k \in 1..n : r[k].start < r[k].end
      BY <1>0, <2>2, <2>3, <2>5
    <3>2. ASSUME NEW j \in 1..n, NEW k \in 1..n, j < k
          PROVE  r[j].end < r[k].start
      <4>1. j # n /\ r[j] = s[j] /\ s[j].end < s[k].start
        BY <1>0, <2>5, <3>2
      <4>2. r[k].start = s[k].start
        BY <2>3, <2>5
      <4> QED
        BY <4>1, <4>2
    <3> QED
      BY <2>5, <3>1, <3>2 DEF Apart
  <2>7. r # <<>> /\ Last(r).start <= x.start
    <3>1. r # <<>> /\ Last(r) = r[n]
      BY <2>2, <2>5 DEF Last
    <3> HIDE DEF n
    <3> QED
      BY <2>2, <2>3, <2>5, <3>1
  <2>8. CoveredBy(r, n) = CoveredBy(s, n) \union During(x)
    <3>1. \A m : (\E k \in 1..n : m \in During(r[k]))
                   <=> m \in During(x) \/ \E k \in 1..n : m \in During(s[k])
      <4> HIDE DEF n
      <4> QED
        BY <2>2, <2>4, <2>5
    <3>2. During(x) \subseteq Nat
      BY DEF During
    <3> QED
      BY <3>1, <3>2 DEF CoveredBy
  <2> QED
    BY <2>5, <2>6, <2>7, <2>8 DEF r
<1>3. CASE ~(s = <<>> \/ x.start > Last(s).end) /\ ~(x.end > Last(s).end)
  <2>1. r = s
    BY <1>3 DEF Extended
  <2>2. n \in 1..n /\ s[n].start <= x.start /\ x.end <= s[n].end
    BY <1>0, <1>3 DEF Last
  <2>3. During(x) \subseteq During(s[n])
    BY <1>0, <2>2 DEF During
  <2>4. During(x) \subseteq CoveredBy(s, n)
    BY <2>2, <2>3 DEF CoveredBy, During
  <2> HIDE DEF r
  <2> QED
    BY <1>3, <2>1, <2>4 DEF r
<1> QED
  BY <1>1, <1>2, <1>3

LEMMA ExtendedType ==
  ASSUME NEW s \in Seq(Spans), NEW x \in Spans
  PROVE  Extended(s, x) \in Seq(Spans)
<1> DEFINE n == Len(s)
           y == [start |-> s[n].start, end |-> x.end]
<1>1. n \in Nat /\ s \in [1..n -> Spans] /\ (s # <<>> => n \in 1..n)
  OBVIOUS
<1>2. CASE s = <<>> \/ x.start > Last(s).end
  BY <1>2 DEF Extended
<1>3. CASE ~(s = <<>> \/ x.start > Last(s).end) /\ x.end > Last(s).end
  <2>1. Extended(s, x) = [s EXCEPT ![n] = y]
    BY <1>3 DEF Extended, Last
  <2>2. y \in Spans
    <3> HIDE DEF n
    <3> QED
      BY <1>1, <1>3 DEF Spans
  <2>3. [s EXCEPT ![n] = y] \in [1..n -> Spans]
    <3> HIDE DEF n, y
    <3> QED
      BY <1>1, <2>2
  <2>4. \A z \in [1..n -> Spans] : z \in Seq(Spans)
    <3> HIDE DEF n
    <3> QED
      BY <1>1
  <2> QED
    BY <2>1, <2>3, <2>4
<1>4. CASE ~(s = <<>> \/ x.start > Last(s).end) /\ ~(x.end > Last(s).end)
  BY <1>4 DEF Extended
<1> QED
  BY <1>2, <1>3, <1>4

(* The rounds of the merge: what it has after round k is made from what it  *)
(* had before it and the k-th interval.                                    *)
LEMMA MergeRounds ==
  ASSUME NEW S \in SUBSET Spans, IsFiniteSet(S)
  PROVE  \E f : /\ f[0] = <<>>
                /\ \A k \in 1..Cardinality(S) : f[k] = Extended(f[k - 1], InOrder(S)[k])
                /\ Merge(S) = f[Cardinality(S)]
<1> DEFINE n == Cardinality(S)
           ordered == InOrder(S)
<1>1. n \in Nat /\ ordered \in [1..n -> S] /\ Len(ordered) = n
  <2>1. n \in Nat
    BY FS_CardinalityType
  <2>2. ordered \in [1..n -> S]
    BY IntervalsInOrder DEF Sorted
  <2> HIDE DEF n, ordered
  <2> QED
    BY <2>1, <2>2
<1> DEFINE step == [k \in 1..n |-> [d \in Seq(Spans) |-> Extended(d, ordered[k])]]
           Loop(f) == f = [k \in 0..n |-> IF k = 0 THEN <<>> ELSE Extended(f[k - 1], ordered[k])]
<1>2. step \in [1..n -> [Seq(Spans) -> Seq(Spans)]]
  <2> HIDE DEF n, ordered
  <2> QED
    BY <1>1, ExtendedType
<1>3. <<>> \in Seq(Spans)
  OBVIOUS
<1>4. PICK f \in [0..n -> Seq(Spans)] :
             f[0] = <<>> /\ \A k \in 1..n : f[k] = step[k][f[k - 1]]
  <2> DEFINE D == Seq(Spans)
             first == <<>>
  <2>1. n \in Nat /\ step \in [1..n -> [D -> D]] /\ first \in D
    BY <1>1, <1>2, <1>3
  <2>2. \E f \in [0..n -> D] :
          f[0] = first /\ \A k \in 1..n : f[k] = step[k][f[k - 1]]
    <3> HIDE DEF n, step, D, first
    <3> QED
      BY <2>1, LoopRuns
  <2> QED
    BY <2>2
<1>5. Loop(f)
  <2> HIDE DEF n, ordered
  <2>1. ASSUME NEW k \in 0..n, k # 0
        PROVE  f[k] = Extended(f[k - 1], ordered[k])
    <3>1. k \in 1..n /\ k - 1 \in 0..n
      BY <1>1, <2>1
    <3> QED
      BY <3>1, <1>4
  <2> HIDE DEF step
  <2> QED
    BY <1>4, <2>1
<1> DEFINE g == CHOOSE h : Loop(h)
<1>6. Loop(g)
  <2> HIDE DEF Loop
  <2> QED
    BY <1>5
<1>7. Merge(S) = g[n]
  BY <1>1 DEF Merge
<1> HIDE DEF g, n, ordered
<1>8. g[0] = <<>> /\ \A k \in 1..n : g[k] = Extended(g[k - 1], ordered[k])
  BY <1>1, <1>6
<1> QED
  BY <1>7, <1>8 DEF n, ordered

(* Merging leaves apart what covers the same minutes.                      *)
LEMMA MergeIsApart ==
  ASSUME NEW S \in SUBSET Spans, IsFiniteSet(S), \A x \in S : x.start < x.end
  PROVE  /\ Apart(Merge(S))
         /\ CoveredBy(Merge(S), Len(Merge(S))) = Covered(S)
<1> DEFINE n == Cardinality(S)
           ordered == InOrder(S)
<1>1. /\ n \in Nat /\ ordered \in [1..n -> S]
      /\ \A x \in S : \E k \in 1..n : ordered[k] = x
      /\ \A j, k \in 1..n : j < k => ordered[j].start <= ordered[k].start
  BY FS_CardinalityType, IntervalsInOrder DEF Sorted
<1>2. PICK f : /\ f[0] = <<>> /\ \A k \in 1..n : f[k] = Extended(f[k - 1], ordered[k])
               /\ Merge(S) = f[n]
  BY MergeRounds
<1> HIDE DEF n, ordered
<1> DEFINE Right(k) ==
             /\ Apart(f[k])
             /\ k > 0 => f[k] # <<>> /\ Last(f[k]).start <= ordered[k].start
             /\ CoveredBy(f[k], Len(f[k])) = CoveredBy(ordered, k)
           Rounds == {k \in Nat : Right(k)}
<1>3. Right(0)
  <2>1. Apart(<<>>)
    BY DEF Apart
  <2>2. CoveredBy(<<>>, Len(<<>>)) = CoveredBy(ordered, 0)
    BY DEF CoveredBy
  <2> QED
    BY <1>2, <2>1, <2>2
<1>4. ASSUME NEW k \in 1..n, k - 1 \in Rounds
      PROVE  k \in Rounds
  <2>1. k \in Nat /\ Right(k - 1) /\ f[k] = Extended(f[k - 1], ordered[k])
    BY <1>1, <1>2, <1>4
  <2>2. ordered[k] \in Spans /\ ordered[k].start < ordered[k].end
    BY <1>1
  <2>3. f[k - 1] # <<>> => Last(f[k - 1]).start <= ordered[k].start
    <3>1. CASE k = 1
      BY <1>2, <3>1
    <3>2. CASE k # 1
      <4>1. k - 1 \in 1..n /\ k - 1 > 0 /\ k - 1 < k
        BY <1>1, <3>2
      <4>2. Last(f[k - 1]).start <= ordered[k - 1].start
        BY <2>1, <4>1
      <4>3. ordered[k - 1].start <= ordered[k].start
        BY <1>1, <4>1
      <4>4. ordered[k - 1].start \in Nat /\ ordered[k].start \in Nat
        BY <1>1, <4>1 DEF Spans
      <4>5. Last(f[k - 1]).start \in Nat
        <5>1. f[k - 1] # <<>> /\ f[k - 1] \in Seq(Spans)
          BY <2>1, <4>1 DEF Apart
        <5>2. Last(f[k - 1]) \in Spans
          BY <5>1 DEF Last
        <5> QED
          BY <5>2 DEF Spans
      <4> QED
        BY <4>2, <4>3, <4>4, <4>5
    <3> QED
      BY <3>1, <3>2
  <2>4. /\ Apart(f[k]) /\ f[k] # <<>> /\ Last(f[k]).start <= ordered[k].start
        /\ CoveredBy(f[k], Len(f[k])) = CoveredBy(f[k - 1], Len(f[k - 1])) \union During(ordered[k])
    BY <2>1, <2>2, <2>3, ExtendedIsApart
  <2>5. CoveredBy(ordered, k) = CoveredBy(ordered, k - 1) \union During(ordered[k])
    <3>1. \A j : j \in 1..k <=> j \in 1..(k - 1) \/ j = k
      BY <2>1
    <3> QED
      BY <3>1 DEF CoveredBy, During
  <2> QED
    BY <2>1, <2>4, <2>5
<1>5. Right(n)
  <2>1. 0 \in Rounds
    BY <1>3
  <2>2. \A k \in 0..n : k \in Rounds
    <3> HIDE DEF Rounds
    <3> QED
      BY <1>1, <1>4, <2>1, EveryRound
  <2> QED
    BY <1>1, <2>2
<1>6. CoveredBy(ordered, n) = Covered(S)
  BY <1>1 DEF CoveredBy, Covered
<1> QED
  BY <1>2, <1>5, <1>6

-----------------------------------------------------------------------------
(* Counting.                                                               *)

LEMMA DuringCounts ==
  ASSUME NEW x \in Spans, x.start < x.end
  PROVE  IsFiniteSet(During(x)) /\ Cardinality(During(x)) = x.end - x.start
<1>1. x.start \in Int /\ x.end - 1 \in Int /\ ~(x.start > x.end - 1)
  BY DEF Spans
<1>2. During(x) = x.start..(x.end - 1)
  BY DEF During, Spans
<1>3. /\ IsFiniteSet(x.start..(x.end - 1))
      /\ Cardinality(x.start..(x.end - 1)) = (x.end - 1) - x.start + 1
  BY <1>1, FS_Interval
<1> QED
  BY <1>2, <1>3 DEF Spans

LEMMA DisjointCounts ==
  ASSUME NEW S, NEW T, IsFiniteSet(S), IsFiniteSet(T), S \cap T = {}
  PROVE  IsFiniteSet(S \union T) /\ Cardinality(S \union T) = Cardinality(S) + Cardinality(T)
<1>1. /\ IsFiniteSet(S \union T)
      /\ Cardinality(S \union T) = Cardinality(S) + Cardinality(T) - Cardinality(S \cap T)
  BY FS_Union
<1>2. Cardinality(S \cap T) = 0
  BY FS_EmptySet
<1> QED
  BY <1>1, <1>2, FS_CardinalityType

(* The rounds of the sum.                                                  *)
LEMMA MinutesRounds ==
  ASSUME NEW s \in Seq(Spans)
  PROVE  \E f : /\ f[0] = 0
                /\ \A k \in 1..Len(s) : f[k] = f[k - 1] + (s[k].end - s[k].start)
                /\ Minutes(s) = f[Len(s)]
<1> DEFINE n == Len(s)
           step == [k \in 1..n |-> [d \in Int |-> d + (s[k].end - s[k].start)]]
           Loop(f) == f = [k \in 0..n |-> IF k = 0 THEN 0
                                          ELSE f[k - 1] + (s[k].end - s[k].start)]
<1>1. n \in Nat /\ \A k \in 1..n : s[k].end - s[k].start \in Int
  <2>1. n \in Nat /\ s \in [1..n -> Spans]
    OBVIOUS
  <2> HIDE DEF n
  <2> QED
    BY <2>1 DEF Spans
<1> HIDE DEF n
<1>2. step \in [1..n -> [Int -> Int]]
  BY <1>1
<1>3. PICK f \in [0..n -> Int] :
             f[0] = 0 /\ \A k \in 1..n : f[k] = step[k][f[k - 1]]
  <2> DEFINE D == Int
             first == 0
  <2>1. n \in Nat /\ first \in D /\ step \in [1..n -> [D -> D]]
    BY <1>1, <1>2
  <2>2. \E f \in [0..n -> D] :
          f[0] = first /\ \A k \in 1..n : f[k] = step[k][f[k - 1]]
    <3> HIDE DEF step, D, first
    <3> QED
      BY <2>1, LoopRuns
  <2> QED
    BY <2>2
<1>4. Loop(f)
  <2>1. ASSUME NEW k \in 0..n, k # 0
        PROVE  f[k] = f[k - 1] + (s[k].end - s[k].start)
    <3>1. k \in 1..n /\ k - 1 \in 0..n
      BY <1>1, <2>1
    <3> QED
      BY <3>1, <1>3
  <2> HIDE DEF step
  <2> QED
    BY <1>3, <2>1
<1> DEFINE g == CHOOSE h : Loop(h)
<1>5. Loop(g)
  <2> HIDE DEF Loop
  <2> QED
    BY <1>4
<1>6. Minutes(s) = g[n]
  BY DEF Minutes, n
<1> HIDE DEF g
<1>7. g[0] = 0 /\ \A k \in 1..n : g[k] = g[k - 1] + (s[k].end - s[k].start)
  BY <1>1, <1>5
<1> QED
  BY <1>6, <1>7 DEF n

(* The sum of intervals that are apart is the number of minutes they cover. *)
LEMMA MinutesAreCovered ==
  ASSUME NEW s, Apart(s)
  PROVE  /\ IsFiniteSet(CoveredBy(s, Len(s)))
         /\ Minutes(s) = Cardinality(CoveredBy(s, Len(s)))
<1> DEFINE n == Len(s)
<1>1. /\ s \in Seq(Spans) /\ n \in Nat
      /\ \A k \in 1..n : s[k] \in Spans /\ s[k].start < s[k].end
      /\ \A j, k \in 1..n : j < k => s[j].end < s[k].start
  <2>1. s \in Seq(Spans)
    BY DEF Apart
  <2>2. n \in Nat /\ s \in [1..n -> Spans]
    BY <2>1
  <2>3. \A k \in 1..n : s[k] \in Spans
    <3> HIDE DEF n
    <3> QED
      BY <2>2
  <2> QED
    BY <2>1, <2>2, <2>3 DEF Apart
<1>2. PICK f : /\ f[0] = 0
               /\ \A k \in 1..n : f[k] = f[k - 1] + (s[k].end - s[k].start)
               /\ Minutes(s) = f[n]
  BY <1>1, MinutesRounds
<1> HIDE DEF n
<1> DEFINE Right(k) == /\ IsFiniteSet(CoveredBy(s, k))
                       /\ f[k] = Cardinality(CoveredBy(s, k))
           Rounds == {k \in Nat : Right(k)}
<1>3. Right(0)
  <2>1. CoveredBy(s, 0) = {}
    BY DEF CoveredBy
  <2> QED
    BY <1>2, <2>1, FS_EmptySet
<1>4. ASSUME NEW k \in 1..n, k - 1 \in Rounds
      PROVE  k \in Rounds
  <2>1. k \in Nat /\ Right(k - 1) /\ f[k] = f[k - 1] + (s[k].end - s[k].start)
    BY <1>1, <1>2, <1>4
  <2>2. CoveredBy(s, k) = CoveredBy(s, k - 1) \union During(s[k])
    <3>1. \A j : j \in 1..k <=> j \in 1..(k - 1) \/ j = k
      BY <2>1
    <3> QED
      BY <3>1 DEF CoveredBy, During
  <2>3. CoveredBy(s, k - 1) \cap During(s[k]) = {}
    <3>1. ASSUME NEW m \in Nat, NEW j \in 1..(k - 1), m \in During(s[j]), m \in During(s[k])
          PROVE  FALSE
      <4>1. j \in 1..n /\ j < k
        BY <1>1
      <4>2. s[j].end < s[k].start /\ s[j].end \in Nat /\ s[k].start \in Nat
        BY <1>1, <4>1 DEF Spans
      <4> QED
        BY <3>1, <4>2 DEF During
    <3> QED
      BY <3>1 DEF CoveredBy
  <2>4. /\ IsFiniteSet(During(s[k]))
        /\ Cardinality(During(s[k])) = s[k].end - s[k].start
    BY <1>1, DuringCounts
  <2>5. /\ IsFiniteSet(CoveredBy(s, k))
        /\ Cardinality(CoveredBy(s, k)) = Cardinality(CoveredBy(s, k - 1)) + Cardinality(During(s[k]))
    BY <2>1, <2>2, <2>3, <2>4, DisjointCounts
  <2> QED
    BY <2>1, <2>4, <2>5
<1>5. \A k \in 0..n : k \in Rounds
  <2>1. 0 \in Rounds
    BY <1>3
  <2> HIDE DEF Rounds
  <2> QED
    BY <1>1, <1>4, <2>1, EveryRound
<1> QED
  BY <1>1, <1>2, <1>5 DEF n

(* The minutes of merged intervals are the minutes they cover, counted once. *)
LEMMA MergedMinutes ==
  ASSUME NEW S \in SUBSET Spans, IsFiniteSet(S), \A x \in S : x.start < x.end
  PROVE  IsFiniteSet(Covered(S)) /\ Minutes(Merge(S)) = Cardinality(Covered(S))
BY MergeIsApart, MinutesAreCovered

-----------------------------------------------------------------------------
(* Outages of a period.                                                    *)

LEMMA GreaterOrLess ==
  ASSUME NEW a \in Int, NEW b \in Int
  PROVE  /\ Max({a, b}) = IF a >= b THEN a ELSE b
         /\ Min({a, b}) = IF a <= b THEN a ELSE b
<1>1. \E x \in {a, b} : \A y \in {a, b} : x >= y
  OBVIOUS
<1>2. \E x \in {a, b} : \A y \in {a, b} : x =< y
  OBVIOUS
<1>3. Max({a, b}) \in {a, b} /\ \A y \in {a, b} : Max({a, b}) >= y
  BY <1>1 DEF Max
<1>4. Min({a, b}) \in {a, b} /\ \A y \in {a, b} : Min({a, b}) =< y
  BY <1>2 DEF Min
<1> QED
  BY <1>3, <1>4

(* The minutes of a period in which something lasted.                       *)
Lasted(from, until, p) == {m \in p.start..(p.end - 1) : from <= m /\ m < until}

(* The interval of an outage covers the minutes of the period in which it   *)
(* lasted; if it has not ended, to the end of the period.                  *)
LEMMA IntervalIsLasted ==
  ASSUME NEW from \in Times, NEW until \in Times \union {Null}, NEW p \in Periods
  PROVE  /\ Interval(from, until, p) \in SUBSET Spans
         /\ IsFiniteSet(Interval(from, until, p))
         /\ \A x \in Interval(from, until, p) : x.start < x.end
         /\ Covered(Interval(from, until, p)) = Lasted(from, until, p)
<1>1. /\ from \in Nat /\ until \in Nat /\ p.start \in Nat /\ p.end \in Nat
      /\ p.start < p.end /\ p.end < Null /\ from < Null
  BY AvailabilityAssumption DEF Times, Null, Periods
<1> DEFINE start == Max({from, p.start})
           end == Min({IF until = Null THEN p.end ELSE until, p.end})
<1>2. /\ start \in Nat /\ start >= from /\ start >= p.start /\ start \in {from, p.start}
      /\ end \in Nat /\ end <= until /\ end <= p.end /\ end \in {until, p.end}
  <2>1. start = IF from >= p.start THEN from ELSE p.start
    BY <1>1, GreaterOrLess
  <2> DEFINE ends == IF until = Null THEN p.end ELSE until
  <2>2. ends \in Nat /\ (ends <= until \/ ends = p.end)
    BY <1>1
  <2>3. end = IF ends <= p.end THEN ends ELSE p.end
    <3>1. ends \in Int /\ p.end \in Int
      BY <1>1
    <3>2. end = Min({ends, p.end})
      OBVIOUS
    <3> HIDE DEF ends, end
    <3> QED
      BY <3>1, <3>2, GreaterOrLess
  <2> HIDE DEF start, end
  <2> QED
    BY <1>1, <2>1, <2>2, <2>3
<1>3. Interval(from, until, p) = IF end > start THEN {[start |-> start, end |-> end]} ELSE {}
  BY DEF Interval
<1> HIDE DEF start, end
<1>4. CASE end > start
  <2> DEFINE x == [start |-> start, end |-> end]
  <2>1. Interval(from, until, p) = {x} /\ x \in Spans
    BY <1>2, <1>3, <1>4 DEF Spans
  <2>2. During(x) = Lasted(from, until, p)
    BY <1>1, <1>2 DEF During, Lasted
  <2>3. Covered({x}) = During(x)
    BY DEF Covered, During
  <2> QED
    <3>1. IsFiniteSet({x})
      BY FS_Singleton
    <3>2. x.start = start /\ x.end = end
      OBVIOUS
    <3> HIDE DEF x
    <3> QED
      BY <1>4, <2>1, <2>2, <2>3, <3>1, <3>2
<1>5. CASE ~(end > start)
  <2>1. Interval(from, until, p) = {}
    BY <1>3, <1>5
  <2>2. Covered({}) = {}
    BY DEF Covered
  <2>3. Lasted(from, until, p) = {}
    BY <1>1, <1>2, <1>5 DEF Lasted
  <2> QED
    BY <2>1, <2>2, <2>3, FS_EmptySet
<1> QED
  BY <1>4, <1>5

Gathered(S, from, until, p) == UNION {Interval(from[i], until[i], p) : i \in S}
DownIn(S, from, until, p) ==
  {m \in p.start..(p.end - 1) : \E i \in S : from[i] <= m /\ m < until[i]}

(* So the intervals of some outages, merged, come to the number of minutes  *)
(* of the period in which one of them lasted, never more than it has.       *)
LEMMA DowntimeOfOutages ==
  ASSUME NEW S, IsFiniteSet(S), NEW from \in [S -> Times],
         NEW until \in [S -> Times \union {Null}], NEW p \in Periods
  PROVE  /\ Minutes(Merge(Gathered(S, from, until, p))) = Cardinality(DownIn(S, from, until, p))
         /\ \A N : BuildCalculation(N, Gathered(S, from, until, p), p).downtime
                     = Cardinality(DownIn(S, from, until, p))
<1> DEFINE intervals == Gathered(S, from, until, p)
           of(i) == Interval(from[i], until[i], p)
           down == {m \in p.start..(p.end - 1) : \E i \in S : from[i] <= m /\ m < until[i]}
<1>1. \A i \in S : /\ of(i) \in SUBSET Spans /\ IsFiniteSet(of(i))
                   /\ \A x \in of(i) : x.start < x.end
                   /\ Covered(of(i)) = Lasted(from[i], until[i], p)
  BY IntervalIsLasted
<1>2. p.start \in Nat /\ p.end \in Nat /\ p.start < p.end
  BY AvailabilityAssumption DEF Times, Periods
<1>3. down = Covered(intervals)
  <2>1. \A m : m \in down <=> \E i \in S : m \in Lasted(from[i], until[i], p)
    BY DEF Lasted
  <2>2. \A m : m \in Covered(intervals) <=> \E i \in S : m \in Covered(of(i))
    BY DEF Covered, Gathered
  <2>3. \A m : m \in down <=> m \in Covered(intervals)
    <3> HIDE DEF down, of
    <3> QED
      BY <1>1, <2>1, <2>2
  <2> HIDE DEF down
  <2> QED
    BY <2>3
<1>4. IsFiniteSet(intervals)
  <2> DEFINE parts == {of(i) : i \in S}
             give == [i \in S |-> of(i)]
  <2>1. give \in Surjection(S, parts)
    BY DEF Surjection
  <2>2. IsFiniteSet(parts)
    <3> HIDE DEF give, parts
    <3> QED
      BY <2>1, FS_Surjection
  <2>3. \A T \in parts : IsFiniteSet(T)
    BY <1>1
  <2>4. intervals = UNION parts
    BY DEF Gathered
  <2> HIDE DEF parts
  <2> QED
    BY <2>2, <2>3, <2>4, FS_UNION
<1>5. intervals \in SUBSET Spans /\ \A x \in intervals : x.start < x.end
  <2> HIDE DEF of
  <2>1. intervals = UNION {of(i) : i \in S}
    BY DEF of, Gathered
  <2> QED
    BY <1>1, <2>1
<1>6. Minutes(Merge(intervals)) = Cardinality(down)
  BY <1>3, <1>4, <1>5, MergedMinutes
<1>7. Cardinality(down) \in Nat /\ Cardinality(down) <= p.end - p.start
  <2>1. /\ IsFiniteSet(p.start..(p.end - 1))
        /\ Cardinality(p.start..(p.end - 1)) = p.end - p.start
    <3>1. p.start \in Int /\ p.end - 1 \in Int /\ ~(p.start > p.end - 1)
      BY <1>2
    <3>2. /\ IsFiniteSet(p.start..(p.end - 1))
          /\ Cardinality(p.start..(p.end - 1)) = (p.end - 1) - p.start + 1
      BY <3>1, FS_Interval
    <3> QED
      BY <1>2, <3>2
  <2>2. down \subseteq p.start..(p.end - 1)
    OBVIOUS
  <2> HIDE DEF down
  <2> QED
    BY <2>1, <2>2, FS_Subset, FS_CardinalityType
<1>8. ASSUME NEW N
      PROVE  BuildCalculation(N, intervals, p).downtime = Cardinality(down)
  <2>1. BuildCalculation(N, intervals, p).downtime
          = Min({p.end - p.start, Minutes(Merge(intervals))})
    BY DEF BuildCalculation
  <2>2. p.end - p.start \in Int
    BY <1>2
  <2> HIDE DEF down
  <2>3. \A a, b \in Int : b <= a => Min({a, b}) = b
    BY GreaterOrLess
  <2>4. Cardinality(down) \in Int
    BY <1>7
  <2>5. Min({p.end - p.start, Cardinality(down)}) = Cardinality(down)
    BY <1>7, <2>2, <2>3, <2>4
  <2> QED
    BY <1>6, <2>1, <2>5
<1> QED
  BY <1>6, <1>8 DEF DownIn

-----------------------------------------------------------------------------
(* The types of the outages.                                               *)
IncidentsTyped ==
  /\ now \in Times
  /\ incidents \in [Incidents -> [status : {"NONE", "OPEN", "COMPLETED", "FALSE_POSITIVE"},
                                  detectedAt : Times, resolvedAt : Times \union {Null}]]

LEMMA TypedIsCoverage == IncidentsTyped => DowntimeIsCoverage
<1> SUFFICES ASSUME IncidentsTyped, NEW scope \in Scopes \ CustomerCodes, NEW p \in Periods
             PROVE  Calculate(scope, p).downtime =
                      Cardinality({m \in p.start..(p.end - 1) :
                        \E i \in Incidents : /\ incidents[i].status \notin {"NONE", "FALSE_POSITIVE"}
                                             /\ scope \in {All, PonOf[i]}
                                             /\ Covers(i, m)})
  BY DEF DowntimeIsCoverage
<1> DEFINE S == IncidentWhere(scope, p)
           from == [i \in S |-> incidents[i].detectedAt]
           until == [i \in S |-> incidents[i].resolvedAt]
<1>1. S \subseteq Incidents /\ IsFiniteSet(S)
  <2>1. S \subseteq Incidents
    BY DEF IncidentWhere
  <2> QED
    BY <2>1, AvailabilityAssumption, FS_Subset
<1>2. from \in [S -> Times] /\ until \in [S -> Times \union {Null}]
  <2> HIDE DEF S
  <2> QED
    BY <1>1 DEF IncidentsTyped
<1>3. UNION {IncidentInterval(i, p) : i \in S} = Gathered(S, from, until, p)
  <2> HIDE DEF S
  <2> QED
    BY DEF IncidentInterval, Gathered
<1>4. Calculate(scope, p).downtime
        = BuildCalculation(S, UNION {IncidentInterval(i, p) : i \in S}, p).downtime
  BY DEF Calculate
<1>5. Calculate(scope, p).downtime
        = Cardinality(DownIn(S, from, until, p))
  <2> HIDE DEF S, from, until
  <2>1. BuildCalculation(S, Gathered(S, from, until, p), p).downtime
          = Cardinality(DownIn(S, from, until, p))
    BY <1>1, <1>2, DowntimeOfOutages
  <2> QED
    BY <1>3, <1>4, <2>1
<1>6. ASSUME NEW m \in p.start..(p.end - 1)
      PROVE  (\E i \in S : from[i] <= m /\ m < until[i])
               <=> \E i \in Incidents : /\ incidents[i].status \notin {"NONE", "FALSE_POSITIVE"}
                                        /\ scope \in {All, PonOf[i]}
                                        /\ Covers(i, m)
  <2>1. p.start \in Nat /\ p.end \in Nat /\ m \in Nat /\ p.start <= m /\ m < p.end
    BY AvailabilityAssumption DEF Times, Periods
  <2>2. ASSUME NEW i \in Incidents, Covers(i, m)
        PROVE  Overlaps(incidents[i].detectedAt, incidents[i].resolvedAt, p)
    <3>1. incidents[i].detectedAt \in Nat /\ incidents[i].resolvedAt \in Nat
      BY AvailabilityAssumption DEF IncidentsTyped, Times, Null
    <3> QED
      BY <2>1, <2>2, <3>1 DEF Overlaps, Covers
  <2>3. \A i : i \in S <=> /\ i \in Incidents
                           /\ incidents[i].status \notin {"NONE", "FALSE_POSITIVE"}
                           /\ Overlaps(incidents[i].detectedAt, incidents[i].resolvedAt, p)
                           /\ scope \in {All, PonOf[i]}
    BY DEF IncidentWhere
  <2>4. \A i \in S : (from[i] <= m /\ m < until[i]) <=> Covers(i, m)
    BY DEF Covers
  <2> HIDE DEF S, from, until
  <2> QED
    BY <2>2, <2>3, <2>4
<1> HIDE DEF S, from, until
<1> QED
  BY <1>5, <1>6 DEF DownIn

-----------------------------------------------------------------------------
(* Grouping.                                                               *)

Group(S, key, d) == {i \in S : key[i] = d}
Groups(S, key) == [d \in {key[i] : i \in S} |-> Cardinality(Group(S, key, d))]

(* The sizes of the groups of a finite set add up to its size: who is k-th  *)
(* in the group of d is one of the set, and each is so once.               *)
LEMMA GroupsAddUp ==
  ASSUME NEW S, IsFiniteSet(S), NEW key
  PROVE  Sum(Groups(S, key)) = Cardinality(S)
<1> DEFINE keys == {key[i] : i \in S}
           size(d) == Cardinality(Group(S, key, d))
           pairs == UNION {{d} \X (1..size(d)) : d \in keys}
           kth == [d \in keys |-> CHOOSE b \in Bijection(1..size(d), Group(S, key, d)) : TRUE]
           who == [x \in pairs |-> kth[x[1]][x[2]]]
<1>1. \A d \in keys : kth[d] \in Bijection(1..size(d), Group(S, key, d))
  <2> SUFFICES ASSUME NEW d \in keys
               PROVE  kth[d] \in Bijection(1..size(d), Group(S, key, d))
    OBVIOUS
  <2>1. IsFiniteSet(Group(S, key, d))
    <3>1. Group(S, key, d) \subseteq S
      BY DEF Group
    <3> QED
      BY <3>1, FS_Subset
  <2>2. Bijection(1..size(d), Group(S, key, d)) # {}
    BY <2>1, FS_CardinalityType DEF ExistsBijection
  <2>3. kth[d] = CHOOSE b \in Bijection(1..size(d), Group(S, key, d)) : TRUE
    OBVIOUS
  <2> HIDE DEF kth, keys, size
  <2> QED
    BY <2>2, <2>3
<1>2. \A d \in keys :
        /\ kth[d] \in [1..size(d) -> Group(S, key, d)]
        /\ \A a, b \in 1..size(d) : kth[d][a] = kth[d][b] => a = b
        /\ \A i \in Group(S, key, d) : \E k \in 1..size(d) : kth[d][k] = i
  <2> SUFFICES ASSUME NEW d \in keys
               PROVE  /\ kth[d] \in [1..size(d) -> Group(S, key, d)]
                      /\ \A a, b \in 1..size(d) : kth[d][a] = kth[d][b] => a = b
                      /\ \A i \in Group(S, key, d) : \E k \in 1..size(d) : kth[d][k] = i
    OBVIOUS
  <2>1. kth[d] \in Bijection(1..size(d), Group(S, key, d))
    BY <1>1
  <2> DEFINE f == kth[d]
             A == 1..size(d)
             B == Group(S, key, d)
  <2>2. f \in Bijection(A, B)
    BY <2>1
  <2> HIDE DEF f, A, B
  <2>3. /\ f \in [A -> B] /\ \A a, b \in A : f[a] = f[b] => a = b
        /\ \A i \in B : \E k \in A : f[k] = i
    BY <2>2, Fun_BijectionProperties
  <2> QED
    BY <2>3 DEF f, A, B
<1> HIDE DEF kth
<1>3. \A x : x \in pairs <=> \E d \in keys : \E k \in 1..size(d) : x = <<d, k>>
  <2> HIDE DEF keys, size
  <2> QED
    OBVIOUS
<1>4. \A d \in keys : \A k \in 1..size(d) : <<d, k>> \in pairs /\ who[<<d, k>>] = kth[d][k]
  <2>1. ASSUME NEW d \in keys, NEW k \in 1..size(d)
        PROVE  <<d, k>> \in pairs
    BY <1>3
  <2> HIDE DEF pairs, keys, size
  <2> QED
    BY <2>1
<1>5. \A x \in pairs : \E d \in keys : \E k \in 1..size(d) :
        x = <<d, k>> /\ who[x] = kth[d][k] /\ who[x] \in S /\ key[who[x]] = d
  <2> SUFFICES ASSUME NEW x \in pairs
               PROVE  \E d \in keys : \E k \in 1..size(d) :
                        x = <<d, k>> /\ who[x] = kth[d][k] /\ who[x] \in S /\ key[who[x]] = d
    OBVIOUS
  <2>1. PICK d \in keys : \E k \in 1..size(d) : x = <<d, k>>
    BY <1>3
  <2>2. PICK k \in 1..size(d) : x = <<d, k>>
    BY <2>1
  <2>3. who[x] = kth[d][k]
    BY <1>4, <2>2
  <2>4. kth[d][k] \in Group(S, key, d)
    <3> HIDE DEF keys, size
    <3> QED
      BY <1>2
  <2>5. who[x] \in S /\ key[who[x]] = d
    BY <2>3, <2>4 DEF Group
  <2> HIDE DEF who, pairs, keys, size
  <2> QED
    BY <2>2, <2>3, <2>5
<1>6. who \in [pairs -> S]
  <2>1. \A x \in pairs : who[x] \in S
    BY <1>5
  <2> HIDE DEF pairs
  <2> QED
    BY <2>1
<1>7. \A x, y \in pairs : who[x] = who[y] => x = y
  <2> HIDE DEF pairs, keys, size, who
  <2> QED
    BY <1>2, <1>5
<1>8. \A i \in S : \E x \in pairs : who[x] = i
  <2> SUFFICES ASSUME NEW i \in S
               PROVE  \E x \in pairs : who[x] = i
    OBVIOUS
  <2>1. key[i] \in keys /\ i \in Group(S, key, key[i])
    BY DEF Group
  <2>2. PICK k \in 1..size(key[i]) : kth[key[i]][k] = i
    BY <1>2, <2>1
  <2> QED
    BY <1>4, <2>1, <2>2
<1>9. Cardinality(pairs) = Cardinality(S)
  <2> HIDE DEF pairs, who
  <2>1. who \in Bijection(pairs, S)
    BY <1>6, <1>7, <1>8, Fun_IsBij
  <2>2. ExistsBijection(S, pairs)
    BY <2>1, Fun_ExistsBijSymmetric DEF ExistsBijection
  <2> QED
    BY <2>2, FS_Bijection
<1>10. UNION {{x} \X (1..Groups(S, key)[x]) : x \in DOMAIN Groups(S, key)} = pairs
  BY DEF Groups
<1> QED
  BY <1>9, <1>10 DEF Sum

-----------------------------------------------------------------------------
(* Snapshots.  The minutes a scope was down in a period: once the period is *)
(* over they only become more, whatever is resolved, reopened or found late *)
(* since; so what was calculated for it stays true until it is written, and *)
(* after.                                                                  *)
DownMinutes(of, p) ==
  {m \in p.start..(p.end - 1) :
     \E i \in Incidents : /\ incidents[i].status # "NONE"
                          /\ of \in {All, PonOf[i]}
                          /\ Covers(i, m)}

Sound(of, downtime, p) ==
  /\ p.end <= now
  /\ of \notin CustomerCodes =>
       downtime \in Nat /\ downtime <= Cardinality(DownMinutes(of, p))

RequestsSound ==
  /\ DOMAIN requests = Requests
  /\ \A r \in Requests : requests[r].downtime # None =>
       /\ requests[r].key \in SnapshotKeys
       /\ requests[r].period \in Periods
       /\ Sound(requests[r].of, requests[r].downtime, requests[r].period)

SnapshotsSound ==
  /\ DOMAIN snapshots = SnapshotKeys \X Periods
  /\ \A key \in SnapshotKeys, p \in Periods : snapshots[<<key, p>>].downtime # None =>
       Sound(snapshots[<<key, p>>].of, snapshots[<<key, p>>].downtime, p)

SnapshotInv == IncidentsTyped /\ RequestsSound /\ SnapshotsSound

LEMMA DownIsFinite ==
  ASSUME NEW of, NEW p \in Periods
  PROVE  /\ IsFiniteSet(DownMinutes(of, p)) /\ Cardinality(DownMinutes(of, p)) \in Nat
         /\ p.start \in Nat /\ p.end \in Nat
<1>1. p.start \in Nat /\ p.end \in Nat
  BY AvailabilityAssumption DEF Periods, Times
<1>2. IsFiniteSet(p.start..(p.end - 1))
  <2>1. p.start \in Int /\ p.end - 1 \in Int
    BY <1>1
  <2> QED
    BY <2>1, FS_Interval
<1>3. DownMinutes(of, p) \subseteq p.start..(p.end - 1)
  BY DEF DownMinutes
<1> QED
  BY <1>1, <1>2, <1>3, FS_Subset, FS_CardinalityType

(* An incident that there was is still there, since the same time, and if   *)
(* it has ended meanwhile then not before now.                             *)
LEMMA IncidentsStay ==
  ASSUME IncidentsTyped, [AvailabilityNext]_availability
  PROVE  /\ IncidentsTyped' /\ now <= now'
         /\ \A i \in Incidents : incidents[i].status # "NONE" =>
              /\ incidents'[i].status # "NONE"
              /\ incidents'[i].detectedAt = incidents[i].detectedAt
              /\ incidents'[i].resolvedAt \in {incidents[i].resolvedAt, now}
<1> USE DEF IncidentsTyped
<1>0. now \in Nat /\ MaxTime \in Nat
  BY AvailabilityAssumption DEF Times
<1>1. CASE UNCHANGED <<now, incidents>>
  BY <1>0, <1>1
<1>2. CASE Tick
  BY <1>0, <1>2 DEF Tick, Times
<1>3. ASSUME NEW i \in Incidents, NEW t \in Times, Detect(i, t)
      PROVE  /\ IncidentsTyped' /\ now <= now'
             /\ \A j \in Incidents : incidents[j].status # "NONE" => incidents'[j] = incidents[j]
  BY <1>0, <1>3 DEF Detect
<1>4. ASSUME NEW i \in Incidents, IncidentMoves(i)
      PROVE  /\ IncidentsTyped' /\ now <= now'
             /\ \A j \in Incidents : incidents[j].status # "NONE" =>
                  /\ incidents'[j].status # "NONE"
                  /\ incidents'[j].detectedAt = incidents[j].detectedAt
                  /\ incidents'[j].resolvedAt \in {incidents[j].resolvedAt, now}
  BY <1>0, <1>4 DEF IncidentMoves, Moves
<1>5. ASSUME CustomerNext \/ SnapshotNext \/ UNCHANGED availability
      PROVE  UNCHANGED <<now, incidents>>
  BY <1>5
  DEF CustomerNext, Affect, Restore, SnapshotNext, CalculateSnapshot, UpsertSnapshot,
              availability
<1> QED
  BY <1>1, <1>2, <1>3, <1>4, <1>5 DEF AvailabilityNext, IncidentNext

LEMMA SoundStays ==
  ASSUME IncidentsTyped, [AvailabilityNext]_availability,
         NEW of, NEW downtime, NEW p \in Periods, Sound(of, downtime, p)
  PROVE  Sound(of, downtime, p)'
<1>1. now \in Nat /\ now' \in Nat /\ p.end <= now /\ p.end \in Nat /\ p.start \in Nat
  <2>1. now \in Nat /\ now' \in Nat
    BY IncidentsStay, AvailabilityAssumption DEF IncidentsTyped, Times
  <2>2. p.end \in Nat /\ p.start \in Nat
    BY DownIsFinite
  <2> QED
    BY <2>1, <2>2 DEF Sound
<1>2. ASSUME NEW m \in DownMinutes(of, p)
      PROVE  m \in DownMinutes(of, p)'
  <2>1. PICK i \in Incidents : /\ incidents[i].status # "NONE"
                               /\ of \in {All, PonOf[i]}
                               /\ Covers(i, m)
    BY DEF DownMinutes
  <2>2. m \in p.start..(p.end - 1) /\ m < now
    BY <1>1 DEF DownMinutes
  <2>3. /\ incidents'[i].status # "NONE"
        /\ incidents'[i].detectedAt <= m
        /\ m < incidents'[i].resolvedAt
    BY <2>1, <2>2, IncidentsStay DEF Covers
  <2> QED
    BY <2>1, <2>2, <2>3 DEF DownMinutes, Covers
<1>3. ASSUME of \notin CustomerCodes
      PROVE  downtime \in Nat /\ downtime <= Cardinality(DownMinutes(of, p)')
  <2>1. /\ IsFiniteSet(DownMinutes(of, p)') /\ Cardinality(DownMinutes(of, p)') \in Nat
        /\ Cardinality(DownMinutes(of, p)) \in Nat
    <3>1. IsFiniteSet(p.start..(p.end - 1))
      <4>1. p.start \in Int /\ p.end - 1 \in Int
        BY <1>1
      <4> QED
        BY <4>1, FS_Interval
    <3>2. DownMinutes(of, p)' \subseteq p.start..(p.end - 1)
      BY DEF DownMinutes
    <3> QED
      BY <3>1, <3>2, DownIsFinite, FS_Subset, FS_CardinalityType
  <2>2. Cardinality(DownMinutes(of, p)) <= Cardinality(DownMinutes(of, p)')
    BY <1>2, <2>1, FS_Subset
  <2> QED
    BY <1>3, <2>1, <2>2 DEF Sound
<1>4. p.end <= now'
  BY <1>1, IncidentsStay
<1> QED
  BY <1>3, <1>4 DEF Sound

(* What is calculated is sound.                                             *)
LEMMA CalculatedIsSound ==
  ASSUME IncidentsTyped, NEW ask \in Asked,
         NEW p, p = ResolvePeriod(ask.start, ask.end), p.start < p.end
  PROVE  p \in Periods /\ Sound(ask.scope, Calculate(ask.scope, p).downtime, p)
<1>1. /\ now \in Nat /\ now <= MaxTime /\ MaxTime \in Nat
      /\ ask.start \in Nat /\ ask.end \in Nat /\ ask.scope \in Scopes
  BY AvailabilityAssumption DEF IncidentsTyped, Times
<1>2. p.end <= now /\ p.start \in Nat /\ p.end \in Nat /\ p.start = ask.start
      /\ p = [start |-> p.start, end |-> p.end]
  BY <1>1 DEF ResolvePeriod
<1>3. p.start \in Times /\ p.end \in Times
  BY <1>1, <1>2 DEF Times
<1>4. p \in Periods
  BY <1>2, <1>3 DEF Periods
<1>5. ASSUME ask.scope \notin CustomerCodes
      PROVE  /\ Calculate(ask.scope, p).downtime \in Nat
             /\ Calculate(ask.scope, p).downtime <= Cardinality(DownMinutes(ask.scope, p))
  <2> DEFINE covered == {m \in p.start..(p.end - 1) :
                          \E i \in Incidents :
                            /\ incidents[i].status \notin {"NONE", "FALSE_POSITIVE"}
                            /\ ask.scope \in {All, PonOf[i]}
                            /\ Covers(i, m)}
  <2>1. Calculate(ask.scope, p).downtime = Cardinality(covered)
    BY <1>1, <1>4, <1>5, TypedIsCoverage DEF DowntimeIsCoverage
  <2>2. covered \subseteq DownMinutes(ask.scope, p)
    BY DEF DownMinutes
  <2> HIDE DEF covered
  <2>3. IsFiniteSet(DownMinutes(ask.scope, p))
    BY <1>4, DownIsFinite
  <2>4. IsFiniteSet(covered) /\ Cardinality(covered) <= Cardinality(DownMinutes(ask.scope, p))
    BY <2>2, <2>3, FS_Subset
  <2>5. Cardinality(covered) \in Nat
    BY <2>4, FS_CardinalityType
  <2> QED
    BY <2>1, <2>4, <2>5
<1> QED
  BY <1>2, <1>4, <1>5 DEF Sound

LEMMA SnapshotInvAtFirst == AvailabilityInit => SnapshotInv
<1> SUFFICES ASSUME AvailabilityInit
             PROVE  SnapshotInv
  OBVIOUS
<1>1. IncidentsTyped
  BY AvailabilityAssumption DEF AvailabilityInit, IncidentsTyped, NoIncident, Times
<1>2. RequestsSound /\ SnapshotsSound
  BY DEF AvailabilityInit, RequestsSound, SnapshotsSound, NoRequest, NoSnapshot
<1> QED
  BY <1>1, <1>2 DEF SnapshotInv

LEMMA SnapshotInvKept ==
  ASSUME SnapshotInv, [AvailabilityNext]_availability
  PROVE  SnapshotInv'
<1>1. IncidentsTyped'
  BY IncidentsStay DEF SnapshotInv
<1>2. CASE UNCHANGED <<requests, snapshots>>
  <2>1. RequestsSound'
    <3> SUFFICES ASSUME NEW r \in Requests, requests'[r].downtime # None
                 PROVE  /\ requests'[r].key \in SnapshotKeys /\ requests'[r].period \in Periods
                        /\ Sound(requests[r].of, requests[r].downtime, requests[r].period)'
      BY <1>2 DEF RequestsSound, SnapshotInv
    <3>1. PICK q : q = requests[r] /\ q = requests'[r]
      BY <1>2
    <3>2. q.key \in SnapshotKeys /\ q.period \in Periods /\ Sound(q.of, q.downtime, q.period)
      BY <3>1 DEF SnapshotInv, RequestsSound
    <3>3. Sound(q.of, q.downtime, q.period)'
      BY <3>2, SoundStays DEF SnapshotInv
    <3> QED
      BY <3>1, <3>2, <3>3
  <2>2. SnapshotsSound'
    <3> SUFFICES ASSUME NEW key \in SnapshotKeys, NEW p \in Periods,
                        snapshots'[<<key, p>>].downtime # None
                 PROVE  Sound(snapshots[<<key, p>>].of, snapshots[<<key, p>>].downtime, p)'
      BY <1>2 DEF SnapshotsSound, SnapshotInv
    <3>1. PICK s : s = snapshots[<<key, p>>] /\ s = snapshots'[<<key, p>>]
      BY <1>2
    <3>2. Sound(s.of, s.downtime, p)'
      BY <3>1, SoundStays DEF SnapshotInv, SnapshotsSound
    <3> QED
      BY <3>1, <3>2
  <2> QED
    BY <1>1, <2>1, <2>2 DEF SnapshotInv
<1>3. ASSUME NEW r \in Requests, NEW ask \in Asked, CalculateSnapshot(r, ask)
      PROVE  SnapshotInv'
  <2>1. PICK p : p = ResolvePeriod(ask.start, ask.end)
    OBVIOUS
  <2>2. PICK q : /\ q = [of |-> ask.scope, key |-> SnapshotKey(ask), period |-> p,
                         downtime |-> Calculate(ask.scope, p).downtime]
                 /\ requests' = [requests EXCEPT ![r] = q]
                 /\ p.start < p.end /\ UNCHANGED snapshots
    BY <1>3, <2>1 DEF CalculateSnapshot
  <2>3. /\ q.key \in SnapshotKeys /\ q.period \in Periods
        /\ Sound(q.of, q.downtime, q.period)
    BY <2>1, <2>2, CalculatedIsSound DEF SnapshotInv, SnapshotKeys
  <2>4. Sound(q.of, q.downtime, q.period)'
    BY <2>3, SoundStays DEF SnapshotInv
  <2>5. RequestsSound'
    <3>1. DOMAIN requests' = Requests
      BY <2>2 DEF SnapshotInv, RequestsSound
    <3>2. ASSUME NEW u \in Requests, requests'[u].downtime # None
          PROVE  /\ requests'[u].key \in SnapshotKeys /\ requests'[u].period \in Periods
                 /\ Sound(requests[u].of, requests[u].downtime, requests[u].period)'
      <4>1. PICK v : v = requests'[u] /\ (v = q \/ v = requests[u])
        BY <2>2 DEF SnapshotInv, RequestsSound
      <4>2. /\ v.key \in SnapshotKeys /\ v.period \in Periods
            /\ Sound(v.of, v.downtime, v.period)
        BY <2>3, <3>2, <4>1 DEF SnapshotInv, RequestsSound
      <4>3. Sound(v.of, v.downtime, v.period)'
        BY <4>2, SoundStays DEF SnapshotInv
      <4> QED
        BY <4>1, <4>2, <4>3
    <3> QED
      BY <3>1, <3>2 DEF RequestsSound
  <2>6. SnapshotsSound'
    <3> SUFFICES ASSUME NEW key \in SnapshotKeys, NEW p0 \in Periods,
                        snapshots'[<<key, p0>>].downtime # None
                 PROVE  Sound(snapshots[<<key, p0>>].of, snapshots[<<key, p0>>].downtime, p0)'
      BY <2>2 DEF SnapshotsSound, SnapshotInv
    <3>1. PICK s : s = snapshots[<<key, p0>>] /\ s = snapshots'[<<key, p0>>]
      BY <2>2
    <3>2. Sound(s.of, s.downtime, p0)'
      BY <3>1, SoundStays DEF SnapshotInv, SnapshotsSound
    <3> QED
      BY <3>1, <3>2
  <2> QED
    BY <1>1, <2>5, <2>6 DEF SnapshotInv
<1>4. ASSUME NEW r \in Requests, UpsertSnapshot(r)
      PROVE  SnapshotInv'
  <2>1. PICK q : q = requests[r]
    OBVIOUS
  <2>2. /\ q.key \in SnapshotKeys /\ q.period \in Periods
        /\ Sound(q.of, q.downtime, q.period)
    BY <1>4, <2>1 DEF UpsertSnapshot, SnapshotInv, RequestsSound
  <2>3. /\ snapshots' = [snapshots EXCEPT ![<<q.key, q.period>>] =
                            [of |-> q.of, downtime |-> q.downtime]]
        /\ requests' = [requests EXCEPT ![r] = NoRequest]
    BY <1>4, <2>1 DEF UpsertSnapshot
  <2>4. RequestsSound'
    <3>1. DOMAIN requests' = Requests
      BY <2>3 DEF SnapshotInv, RequestsSound
    <3>2. ASSUME NEW u \in Requests, requests'[u].downtime # None
          PROVE  /\ requests'[u].key \in SnapshotKeys /\ requests'[u].period \in Periods
                 /\ Sound(requests[u].of, requests[u].downtime, requests[u].period)'
      <4>1. PICK v : v = requests'[u] /\ v = requests[u]
        BY <2>3, <3>2 DEF SnapshotInv, RequestsSound, NoRequest
      <4>2. /\ v.key \in SnapshotKeys /\ v.period \in Periods
            /\ Sound(v.of, v.downtime, v.period)
        BY <3>2, <4>1 DEF SnapshotInv, RequestsSound
      <4>3. Sound(v.of, v.downtime, v.period)'
        BY <4>2, SoundStays DEF SnapshotInv
      <4> QED
        BY <4>1, <4>2, <4>3
    <3> QED
      BY <3>1, <3>2 DEF RequestsSound
  <2>5. SnapshotsSound'
    <3>1. DOMAIN snapshots' = SnapshotKeys \X Periods
      BY <2>3 DEF SnapshotInv, SnapshotsSound
    <3>2. ASSUME NEW key \in SnapshotKeys, NEW p \in Periods,
                 snapshots'[<<key, p>>].downtime # None
          PROVE  Sound(snapshots[<<key, p>>].of, snapshots[<<key, p>>].downtime, p)'
      <4>1. PICK s : /\ s = snapshots'[<<key, p>>]
                     /\ \/ s = snapshots[<<key, p>>]
                        \/ p = q.period /\ s.of = q.of /\ s.downtime = q.downtime
        BY <2>3 DEF SnapshotInv, SnapshotsSound
      <4>2. Sound(s.of, s.downtime, p)
        BY <2>2, <3>2, <4>1 DEF SnapshotInv, SnapshotsSound
      <4>3. Sound(s.of, s.downtime, p)'
        BY <4>2, SoundStays DEF SnapshotInv
      <4> QED
        BY <4>1, <4>3
    <3> QED
      BY <3>1, <3>2 DEF SnapshotsSound
  <2> QED
    BY <1>1, <2>4, <2>5 DEF SnapshotInv
<1>5. ASSUME IncidentNext \/ CustomerNext \/ UNCHANGED availability
      PROVE  UNCHANGED <<requests, snapshots>>
  BY <1>5
  DEF IncidentNext, Tick, Detect, IncidentMoves, Moves, CustomerNext, Affect, Restore,
              availability
<1> QED
  BY <1>2, <1>3, <1>4, <1>5 DEF AvailabilityNext, SnapshotNext

LEMMA SoundIsNotOverstated == SnapshotInv => SnapshotsNotOverstated
<1> SUFFICES ASSUME SnapshotInv, NEW key \in SnapshotKeys, NEW p \in Periods,
                    snapshots[<<key, p>>].of \notin CustomerCodes
             PROVE  snapshots[<<key, p>>].downtime
                      <= Cardinality(DownMinutes(snapshots[<<key, p>>].of, p))
  BY DEF SnapshotsNotOverstated, DownMinutes
<1>1. PICK of : of = snapshots[<<key, p>>].of
  OBVIOUS
<1>2. Cardinality(DownMinutes(of, p)) \in Nat
  BY DownIsFinite
<1>3. CASE snapshots[<<key, p>>].downtime = None
  BY <1>1, <1>2, <1>3 DEF None
<1>4. CASE snapshots[<<key, p>>].downtime # None
  BY <1>1, <1>4 DEF SnapshotInv, SnapshotsSound, Sound
<1> QED
  BY <1>3, <1>4

-----------------------------------------------------------------------------
(* The views.  They read the same outages; what they need of them is their  *)
(* types, and that no incident is detected later than now.                 *)
OutagesTyped == outages \in [Rows -> Outages]
DetectedByNow == \A i \in Incidents : incidents[i].status # "NONE" => incidents[i].detectedAt <= now

ViewsInv == IncidentsTyped /\ OutagesTyped /\ DetectedByNow

LEMMA ViewsInvAtFirst == AvailabilityInit => ViewsInv
<1> SUFFICES ASSUME AvailabilityInit
             PROVE  ViewsInv
  OBVIOUS
<1>1. IncidentsTyped
  BY SnapshotInvAtFirst DEF SnapshotInv
<1>2. OutagesTyped
  BY DEF AvailabilityInit, OutagesTyped, NoOutage, Outages
<1>3. DetectedByNow
  BY DEF AvailabilityInit, DetectedByNow, NoIncident
<1> QED
  BY <1>1, <1>2, <1>3 DEF ViewsInv

LEMMA ViewsInvKept == ViewsInv /\ [AvailabilityNext]_availability => ViewsInv'
<1> SUFFICES ASSUME ViewsInv, [AvailabilityNext]_availability
             PROVE  ViewsInv'
  OBVIOUS
<1>1. IncidentsTyped' /\ now \in Nat /\ now' \in Nat /\ now <= now'
  BY IncidentsStay, AvailabilityAssumption DEF ViewsInv, IncidentsTyped, Times
<1>2. OutagesTyped'
  <2>1. ASSUME NEW row \in Rows, NEW code \in CustomerCodes \union {NoCode},
               Affect(row, code) \/ Restore(row, code)
        PROVE  OutagesTyped'
    <3>1. now \in Times /\ outages \in [Rows -> Outages] /\ outages[row] \in Outages
      BY DEF ViewsInv, OutagesTyped, IncidentsTyped
    <3>2. Coded(row, code) \in CustomerCodes \union {NoCode}
      BY <3>1 DEF Coded, Outages
    <3>3. PICK o \in Outages : outages' = [outages EXCEPT ![row] = o]
      <4>1. CASE Affect(row, code)
        <5>1. [outages[row] EXCEPT !.affected = TRUE, !.code = Coded(row, code)] \in Outages
          BY <3>1, <3>2 DEF Outages
        <5>2. outages' = [outages EXCEPT ![row] =
                            [outages[row] EXCEPT !.affected = TRUE, !.code = Coded(row, code)]]
          BY <3>1, <4>1 DEF Affect
        <5> QED
          BY <5>1, <5>2
      <4>2. CASE Restore(row, code)
        <5> DEFINE at == IF outages[row].affected /\ outages[row].restoredAt = Null
                         THEN now ELSE outages[row].restoredAt
        <5>1. [outages[row] EXCEPT !.code = Coded(row, code), !.restoredAt = at] \in Outages
          BY <3>1, <3>2 DEF Outages
        <5>2. outages' = [outages EXCEPT ![row] =
                            [outages[row] EXCEPT !.code = Coded(row, code), !.restoredAt = at]]
          BY <3>1, <4>2 DEF Restore
        <5> QED
          BY <5>1, <5>2
      <4> QED
        BY <2>1, <4>1, <4>2
    <3> QED
      BY <3>1, <3>3 DEF OutagesTyped
  <2>2. ASSUME IncidentNext \/ SnapshotNext \/ UNCHANGED availability
        PROVE  UNCHANGED outages
    BY <2>2
    DEF IncidentNext, Tick, Detect, IncidentMoves, Moves, SnapshotNext, CalculateSnapshot,
        UpsertSnapshot, availability
  <2> QED
    BY <2>1, <2>2 DEF AvailabilityNext, CustomerNext, ViewsInv, OutagesTyped
<1>3. DetectedByNow'
  <2> SUFFICES ASSUME NEW i \in Incidents, incidents'[i].status # "NONE"
               PROVE  incidents'[i].detectedAt <= now'
    BY DEF DetectedByNow
  <2>1. CASE incidents[i].status # "NONE"
    <3>1. incidents'[i].detectedAt = incidents[i].detectedAt
      BY <2>1, IncidentsStay DEF ViewsInv
    <3>2. incidents[i].detectedAt \in Nat /\ incidents[i].detectedAt <= now
      BY <2>1, AvailabilityAssumption DEF ViewsInv, IncidentsTyped, DetectedByNow, Times
    <3> QED
      BY <1>1, <3>1, <3>2
  <2>2. CASE incidents[i].status = "NONE"
    <3>1. PICK t \in Times : Detect(i, t)
      <4>1. ASSUME NEW j \in Incidents, j # i, (\E t \in Times : Detect(j, t)) \/ IncidentMoves(j)
            PROVE  incidents'[i] = incidents[i]
        BY <4>1 DEF Detect, IncidentMoves, Moves, ViewsInv, IncidentsTyped
      <4>2. ~IncidentMoves(i)
        BY <2>2 DEF IncidentMoves, Moves
      <4>3. ASSUME Tick \/ CustomerNext \/ SnapshotNext \/ UNCHANGED availability
            PROVE  UNCHANGED incidents
        BY <4>3
        DEF Tick, CustomerNext, Affect, Restore, SnapshotNext, CalculateSnapshot,
            UpsertSnapshot, availability
      <4> QED
        BY <2>2, <4>1, <4>2, <4>3 DEF AvailabilityNext, IncidentNext
    <3>2. t <= now /\ incidents'[i].detectedAt = t /\ t \in Nat
      <4>1. t \in Max({0, now - MaxDelay})..now /\ t \in Nat
        BY <3>1, AvailabilityAssumption DEF Detect, Times
      <4>2. t <= now
        BY <4>1
      <4> QED
        BY <3>1, <4>1, <4>2 DEF Detect, ViewsInv, IncidentsTyped
    <3> QED
      BY <1>1, <3>2
  <2> QED
    BY <2>1, <2>2
<1> QED
  BY <1>1, <1>2, <1>3 DEF ViewsInv

(* The downtime of some rows, counted by either view.                        *)
DownOf(R, p) == DownIn(R, [row \in R |-> incidents[row[1]].detectedAt],
                       [row \in R |-> outages[row].restoredAt], p)

LEMMA DowntimeOfRows ==
  ASSUME ViewsInv, NEW p \in Periods, NEW R \in SUBSET Rows
  PROVE  /\ IsFiniteSet(DownOf(R, p))
         /\ Minutes(Merge(CustomerIntervals(R, p))) = Cardinality(DownOf(R, p))
         /\ \A N : BuildCalculation(N, CustomerIntervals(R, p), p).downtime = Cardinality(DownOf(R, p))
<1> DEFINE from == [row \in R |-> incidents[row[1]].detectedAt]
           until == [row \in R |-> outages[row].restoredAt]
<1>1. IsFiniteSet(R)
  <2>1. IsFiniteSet(Rows)
    BY AvailabilityAssumption, FS_Product DEF Rows
  <2> QED
    BY <2>1, FS_Subset
<1>2. from \in [R -> Times] /\ until \in [R -> Times \union {Null}]
  BY DEF ViewsInv, IncidentsTyped, OutagesTyped, Rows, Outages
<1>3. CustomerIntervals(R, p) = Gathered(R, from, until, p)
  BY DEF CustomerIntervals, Gathered
<1>4. DownOf(R, p) = DownIn(R, from, until, p)
  BY DEF DownOf
<1>5. IsFiniteSet(DownOf(R, p))
  <2>1. DownOf(R, p) \subseteq p.start..(p.end - 1)
    BY DEF DownOf, DownIn
  <2>2. p.start \in Int /\ p.end - 1 \in Int
    BY AvailabilityAssumption DEF Times, Periods
  <2> QED
    BY <2>1, <2>2, FS_Interval, FS_Subset
<1> HIDE DEF from, until
<1> QED
  BY <1>1, <1>2, <1>3, <1>4, <1>5, DowntimeOfOutages

(* What the statistics show under a key is the downtime of the rows that      *)
(* have it.                                                                *)
LEMMA ShownOfRows ==
  ASSUME ViewsInv, NEW p \in Periods, NEW scope, NEW c
  PROVE  Shown(CustomerStatistics(scope, p), c)
           = Cardinality(DownOf({row \in CustomerRows(scope, p) : CustomerKey(row) = c}, p))
<1> DEFINE R == CustomerRows(scope, p)
           own == {row \in R : CustomerKey(row) = c}
<1>1. own \in SUBSET Rows
  BY DEF CustomerRows
<1>2. /\ DOMAIN CustomerStatistics(scope, p) = {CustomerKey(row) : row \in R}
      /\ c \in {CustomerKey(row) : row \in R} =>
           CustomerStatistics(scope, p)[c].downtime = Minutes(Merge(CustomerIntervals(own, p)))
  BY DEF CustomerStatistics, GroupCustomers
<1>3. c \in {CustomerKey(row) : row \in R} <=> own # {}
  OBVIOUS
<1>4. Minutes(Merge(CustomerIntervals(own, p))) = Cardinality(DownOf(own, p))
  <2> HIDE DEF own
  <2> QED
    BY <1>1, DowntimeOfRows
<1> HIDE DEF own, R
<1>5. CASE own = {}
  <2>1. DownOf(own, p) = {}
    BY <1>5 DEF DownOf, DownIn
  <2>2. Cardinality(DownOf(own, p)) = 0
    BY <2>1, FS_EmptySet
  <2>3. Shown(CustomerStatistics(scope, p), c) = 0
    BY <1>2, <1>3, <1>5 DEF Shown
  <2> QED
    BY <2>2, <2>3 DEF own, R
<1>6. CASE own # {}
  <2>1. Shown(CustomerStatistics(scope, p), c) = Minutes(Merge(CustomerIntervals(own, p)))
    BY <1>2, <1>3, <1>6 DEF Shown
  <2> QED
    BY <1>4, <2>1 DEF own, R
<1> QED
  BY <1>5, <1>6

(* The statistics of a code give it the downtime of its SLA; those of all     *)
(* customers add to that only rows without a code.                         *)
LEMMA CustomerViewsAgree ==
  ASSUME ViewsInv, NEW p \in Periods, NEW c \in CustomerCodes
  PROVE  /\ Shown(CustomerStatistics(c, p), c) = Calculate(c, p).downtime
         /\ Shown(CustomerStatistics(All, p), c) >= Calculate(c, p).downtime
         /\ TakenFor(c, p) = {} =>
              Shown(CustomerStatistics(All, p), c) = Calculate(c, p).downtime
<1> DEFINE R == CustomerRows(c, p)
           all == {row \in CustomerRows(All, p) : CustomerKey(row) = c}
<1>1. All \notin CustomerCodes /\ c # NoCode /\ c # All
  BY AvailabilityAssumption
<1>2. R \in SUBSET Rows /\ all \in SUBSET Rows
  BY DEF CustomerRows
<1>3. {row \in R : CustomerKey(row) = c} = R
  BY <1>1 DEF CustomerRows, CustomerKey
<1>4. IncidentWhere(c, p) = IncidentWhere(All, p)
  BY DEF IncidentWhere
<1>5. R = {row \in CustomerRows(All, p) : outages[row].code = c}
  BY <1>1, <1>4 DEF CustomerRows
<1>6. R \subseteq all
  BY <1>1, <1>5 DEF CustomerKey
<1>7. TakenFor(c, p) = {} => all = R
  BY <1>1, <1>5 DEF TakenFor, CustomerKey
<1>8. Calculate(c, p).downtime
        = BuildCalculation({row[1] : row \in R}, CustomerIntervals(R, p), p).downtime
  BY DEF Calculate
<1>9. /\ Shown(CustomerStatistics(c, p), c) = Cardinality(DownOf({row \in R : CustomerKey(row) = c}, p))
      /\ Shown(CustomerStatistics(All, p), c) = Cardinality(DownOf(all, p))
  BY ShownOfRows
<1> HIDE DEF R, all
<1>10. Calculate(c, p).downtime = Cardinality(DownOf(R, p))
  BY <1>2, <1>8, DowntimeOfRows
<1>11. DownOf(R, p) \subseteq DownOf(all, p)
  BY <1>6 DEF DownOf, DownIn
<1>12. IsFiniteSet(DownOf(all, p))
  BY <1>2, DowntimeOfRows
<1>13. /\ Cardinality(DownOf(R, p)) <= Cardinality(DownOf(all, p))
       /\ Cardinality(DownOf(R, p)) \in Nat /\ Cardinality(DownOf(all, p)) \in Nat
  BY <1>11, <1>12, FS_Subset, FS_CardinalityType
<1> QED
  BY <1>3, <1>7, <1>9, <1>10, <1>13

(* The days and the PONs of the incidents are groups of them.               *)
LEMMA TypedViewsAgree == ViewsInv => ViewsAgree
<1> SUFFICES ASSUME ViewsInv
             PROVE  ViewsAgree
  OBVIOUS
<1> DEFINE period == [start |-> 0, end |-> now]
           S == DetectedIncidents(period)
<1>1. now \in Nat
  BY AvailabilityAssumption DEF ViewsInv, IncidentsTyped, Times
<1>2. S \subseteq Incidents /\ IsFiniteSet(S)
  <2>1. S \subseteq Incidents
    BY DEF DetectedIncidents
  <2> QED
    BY <2>1, AvailabilityAssumption, FS_Subset
<1>3. IncidentStatistics(period).active = Summary(All, period, 0).active
  <2>1. IncidentStatistics(period).active = Cardinality({i \in S : incidents[i].status = "OPEN"})
    BY DEF IncidentStatistics, CountEnum
  <2>2. Summary(All, period, 0).active = Cardinality(ActiveWhere(All))
    BY DEF Summary
  <2>3. ASSUME NEW i \in Incidents, incidents[i].status = "OPEN"
        PROVE  i \in S
    <3>1. incidents[i].detectedAt \in Nat /\ incidents[i].detectedAt <= now
      BY <2>3, AvailabilityAssumption DEF ViewsInv, IncidentsTyped, DetectedByNow, Times
    <3> QED
      BY <1>1, <2>3, <3>1 DEF DetectedIncidents
  <2>4. {i \in S : incidents[i].status = "OPEN"} = ActiveWhere(All)
    <3> HIDE DEF S
    <3> QED
      BY <1>2, <2>3 DEF ActiveWhere, LocationWhere
  <2> QED
    BY <2>1, <2>2, <2>4
<1>4. Sum(IncidentStatistics(period).byDay) = IncidentStatistics(period).incidents
  <2> DEFINE day == [i \in S |-> incidents[i].detectedAt]
  <2>1. /\ IncidentStatistics(period).byDay = ByDay(S)
        /\ IncidentStatistics(period).incidents = Cardinality(S)
    BY DEF IncidentStatistics
  <2> HIDE DEF S
  <2>2. ByDay(S) = Groups(S, day)
    BY DEF ByDay, Groups, Group
  <2> HIDE DEF day
  <2> QED
    BY <1>2, <2>1, <2>2, GroupsAddUp
<1>5. Sum(IncidentStatistics(period).byPon) = IncidentStatistics(period).incidents
  <2> DEFINE pon == [i \in S |-> PonOf[i]]
  <2>1. /\ IncidentStatistics(period).byPon = ByLocation(S)
        /\ IncidentStatistics(period).incidents = Cardinality(S)
    BY DEF IncidentStatistics
  <2> HIDE DEF S
  <2>2. ByLocation(S) = Groups(S, pon)
    BY DEF ByLocation, Groups, Group
  <2> HIDE DEF pon
  <2> QED
    BY <1>2, <2>1, <2>2, GroupsAddUp
<1> HIDE DEF period
<1> QED
  BY <1>3, <1>4, <1>5, CustomerViewsAgree DEF ViewsAgree, period
=============================================================================
