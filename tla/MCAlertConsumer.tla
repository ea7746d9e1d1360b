--------------------------- MODULE MCAlertConsumer ---------------------------
(* Instances of AlertConsumer: a valid event and one that is invalid.        *)
EXTENDS AlertConsumer

CONSTANTS e1, bad, c1, c2
=============================================================================
