--------------------------- MODULE MCImpactEngine ---------------------------
(* An instance of ImpactEngine: two refreshes of an incident with two       *)
(* customers.                                                              *)
EXTENDS ImpactEngine

CONSTANTS r1, r2, c1, c2
=============================================================================
