---------------------------- MODULE MCAlertIntake ----------------------------
(* An instance of AlertIntake: one event, which may come over every channel.  *)
EXTENDS AlertIntake

CONSTANTS e1, puller, consumer, request
=============================================================================
