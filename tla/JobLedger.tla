----------------------------- MODULE JobLedger -----------------------------
(***************************************************************************)
(* What the database says of work with an effect outside it: a             *)
(* notification that is sent, a report whose file is written.  The row is   *)
(* never ahead of the effect, and a settled row stays as it is.            *)
(***************************************************************************)
CONSTANT Jobs

VARIABLES status,   \* the row of each job
          effect    \* whether its effect has happened

Settled == {"DONE", "FAILED", "SKIPPED"}

Init == /\ status = [j \in Jobs |-> "ABSENT"]
        /\ effect = [j \in Jobs |-> FALSE]

Moves(j, from, to) == /\ status[j] \in from
                      /\ status' = [status EXCEPT ![j] = to]
                      /\ UNCHANGED effect

Happens(j) == /\ status[j] = "RUNNING"
              /\ effect' = [effect EXCEPT ![j] = TRUE]
              /\ UNCHANGED status

Next == \E j \in Jobs : \/ Moves(j, {"ABSENT"}, "PENDING")
                        \/ Moves(j, {"ABSENT"}, "SKIPPED")
                        \/ Moves(j, {"PENDING"}, "RUNNING")
                        \/ Happens(j)
                        \/ effect[j] /\ Moves(j, {"RUNNING"}, "DONE")
                        \/ Moves(j, {"PENDING", "RUNNING"}, "FAILED")

Spec == Init /\ [][Next]_<<status, effect>>
=============================================================================
