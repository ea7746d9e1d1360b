-------------------------- MODULE MCIncidentEngine --------------------------
(***************************************************************************)
(* Small instances of IncidentEngine.  Times are in units of half a        *)
(* window: Window is 2.                                                    *)
(***************************************************************************)
EXTENDS IncidentEngine, TLC

Fault(pon, detectedAt, year, severity) ==
  [event |-> <<"pon", "los">>, olt |-> "olt1", pon |-> pon, onu |-> Null,
   detectedAt |-> detectedAt, year |-> year, severity |-> severity,
   onuOffline |-> severity]

Rule(pattern, prefix, events, customers, diagnosis, confidence, severity) ==
  [pattern |-> pattern, prefix |-> prefix, minimumEventCount |-> events,
   minimumDistinctOnus |-> 0, minimumAffectedCustomers |-> customers,
   diagnosis |-> diagnosis, rootCauseConfidence |-> confidence,
   severity |-> severity]

(* Two events classify with more confidence than one; many customers       *)
(* escalate without classifying.                                           *)
MCRules == << Rule(<<"pon">>, TRUE, 2, 0, "PON_FAILURE", 85, 3),
              Rule(<<"pon", "los">>, FALSE, 0, 0, "ONU_LOS", 60, Null),
              Rule(<<>>, TRUE, 0, 3, Null, 0, 4) >>

(* Without rules every fault is undiagnosed, of the severity it comes with. *)
NoRules == <<>>

CONSTANTS a1, a2, a3, a4

Cut(pon, detectedAt, year, severity) ==
  [Fault(pon, detectedAt, year, severity) EXCEPT !.event = <<"fiber", "cut">>]

(* Three faults of one PON, the last in another year and more than a       *)
(* window after the first, the second unknown to every classifying rule,   *)
(* severities in no order.                                                 *)
ThreeFaults == {a1, a2, a3}
ThreeFaultsData == (a1 :> Fault("1", 10, 0, 2)) @@ (a2 :> Cut("1", 12, 0, 1))
                     @@ (a3 :> Fault("1", 13, 1, 3))

(* The same with a fault of another PON.                                   *)
TwoPons == {a1, a2, a3, a4}
TwoPonsData == ThreeFaultsData @@ (a4 :> Fault("2", 12, 0, 2))

(* The first two of them.                                                  *)
TwoFaults == {a1, a2}
TwoFaultsData == (a1 :> Fault("1", 10, 0, 2)) @@ (a2 :> Cut("1", 12, 0, 1))

Recovery(pon, detectedAt) ==
  [Fault(pon, detectedAt, 0, 0) EXCEPT !.event = <<"pon", "up">>]

(* Three faults of one PON within a window, the last at the end of it, and  *)
(* a recovery.                                                             *)
OneWindow == {a1, a2, a3, a4}
OneWindowData == (a1 :> Fault("1", 10, 0, 2)) @@ (a2 :> Cut("1", 10, 0, 1))
                   @@ (a3 :> Fault("1", 12, 0, 3)) @@ (a4 :> Recovery("1", 11))

Symmetry == Permutations(IncidentIds) \union Permutations(Workers) \union Permutations(Operators)
=============================================================================
