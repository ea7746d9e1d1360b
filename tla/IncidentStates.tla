--------------------------- MODULE IncidentStates ---------------------------
(***************************************************************************)
(* The life cycle of an incident: src/incidents/incident-state-machine.ts. *)
(***************************************************************************)

Statuses == {"DETECTED", "INVESTIGATING", "CONFIRMED", "IN_PROGRESS",
             "MONITORING", "RESOLVED", "CLOSED", "FALSE_POSITIVE"}

(* The statuses an operator may move an incident to from each status.      *)
Transitions ==
  [DETECTED       |-> {"INVESTIGATING", "FALSE_POSITIVE"},
   INVESTIGATING  |-> {"CONFIRMED", "FALSE_POSITIVE"},
   CONFIRMED      |-> {"IN_PROGRESS", "FALSE_POSITIVE"},
   IN_PROGRESS    |-> {"MONITORING", "RESOLVED"},
   MONITORING     |-> {"IN_PROGRESS", "RESOLVED"},
   RESOLVED       |-> {"IN_PROGRESS", "CLOSED"},
   CLOSED         |-> {},
   FALSE_POSITIVE |-> {}]

(* assertIncidentTransition: the operation goes on only when this holds.   *)
CanTransition(from, to) == to \in Transitions[from]

TerminalStatuses == {"RESOLVED", "CLOSED", "FALSE_POSITIVE"}

(* isOpenIncidentStatus, and the IN list of both incident searches.        *)
OpenStatuses == Statuses \ TerminalStatuses
=============================================================================
