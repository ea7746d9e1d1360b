---------------------------- MODULE AlertLedger -----------------------------
(***************************************************************************)
(* What the incident engine promises of its books                          *)
(* (README.md, "Fase 4"): codes are issued sequentially in each year and   *)
(* each alert is entered once, either opening the next incident or joining *)
(* one that exists.  Entries and codes are never changed or withdrawn.     *)
(***************************************************************************)
EXTENDS Integers

CONSTANTS Alerts, IncidentIds, Years, YearOf(_), Nowhere

VARIABLES entry,    \* the incident each alert is entered under, or Nowhere
          code,     \* the code of each incident that exists
          issued    \* how many codes each year has issued

ledger == <<entry, code, issued>>

Init == /\ entry = [a \in Alerts |-> Nowhere]
        /\ code = <<>>
        /\ issued = [y \in Years |-> 0]

(* Alert a opens incident i under the next code of its year.               *)
Open(a, i) ==
  /\ entry[a] = Nowhere
  /\ i \notin DOMAIN code
  /\ LET y == YearOf(a)
     IN  /\ issued' = [issued EXCEPT ![y] = issued[y] + 1]
         /\ code' = [j \in DOMAIN code \union {i} |->
                       IF j = i THEN [year |-> y, number |-> issued[y] + 1]
                       ELSE code[j]]
  /\ entry' = [entry EXCEPT ![a] = i]

(* Alert a joins incident i.                                               *)
Join(a, i) ==
  /\ entry[a] = Nowhere
  /\ i \in DOMAIN code
  /\ entry' = [entry EXCEPT ![a] = i]
  /\ UNCHANGED <<code, issued>>

Next == \E a \in Alerts, i \in IncidentIds : Open(a, i) \/ Join(a, i)

Spec == Init /\ [][Next]_ledger
=============================================================================
