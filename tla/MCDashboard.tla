----------------------------- MODULE MCDashboard -----------------------------
(***************************************************************************)
(* The browser side, in parts that `part` names: the session with the       *)
(* server; the paging of the view, with one incident listed and one detail  *)
(* at a time; the details of several incidents, without automatic refresh   *)
(* and clicks for other pages.                                             *)
(***************************************************************************)
EXTENDS Sessions, DashboardView

VARIABLE part

Parts == {"session", "paging", "details"}
MCOltOf == [i \in Listed |-> <<"olt", i>>]
One == CHOOSE i \in Listed : TRUE
First == CHOOSE v \in Views : TRUE

Init == SessionsInit /\ ViewInit /\ part \in Parts /\ (part # "paging" => ~auto)

Paging == /\ rows \subseteq {One}
          /\ \A v \in Views \ {First} : view[v] = Still
Details == /\ ~auto /\ clicks = 0 /\ failures = 0
           /\ rows \in {{}, Listed} /\ Cardinality(groups) <= 1

Next ==
  /\ UNCHANGED part
  /\ \/ part = "session" /\ SessionsNext /\ UNCHANGED dashboard
     \/ part = "paging" /\ ViewNext /\ Paging' /\ UNCHANGED sessions
     \/ part = "details" /\ ViewNext /\ Details' /\ UNCHANGED sessions

Spec == /\ Init /\ [][Next]_<<sessions, dashboard, part>>
        /\ WF_dashboard(part = "paging" /\ TimerFires)
        /\ WF_dashboard(part = "paging" /\ OverviewEnds /\ Paging')
=============================================================================
