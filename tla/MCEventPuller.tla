---------------------------- MODULE MCEventPuller ----------------------------
(* Instances of EventPuller: two valid events and one that fails validation. *)
EXTENDS EventPuller

CONSTANTS e1, e2, bad, puller
=============================================================================
