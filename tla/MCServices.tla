------------------------------ MODULE MCServices ------------------------------
(***************************************************************************)
(* The services around the incident engine, side by side: they share no     *)
(* state that is modelled, so each behaviour is one of them at work, named  *)
(* by `part`, while the others stay as they begin.  Snapshots and the       *)
(* outages of single customers are two parts of their own.                 *)
(***************************************************************************)
EXTENDS Notifications, Reports, RabbitConnection, Availability

CONSTANT MaxStops   \* bound: stops of the process

VARIABLES part,     \* the service at work
          stops     \* how often it stopped

Parts == {"notifications", "reports", "connection", "customers", "snapshots"}
services == <<notifying, reporting, rabbit, availability, part, stops>>

MCRuleRows == {[enabled |-> TRUE, event |-> "INCIDENT_RESOLVED", minimum |-> 2,
                destinations |-> Targets],
               [enabled |-> TRUE, event |-> "INCIDENT_RESOLVED", minimum |-> 0,
                destinations |-> {}]}
FirstIncident == CHOOSE i \in Incidents : TRUE
MCPonOf == [i \in Incidents |-> IF i = FirstIncident THEN "pon1" ELSE "pon2"]
MCAsked == {[scope |-> PonOf[i], label |-> "weekly", start |-> 0, end |-> 2] : i \in Incidents}

(* Bounds of the part of customers: its last minute is left out, incidents    *)
(* are not opened again, and the customer whose external id is somebody's    *)
(* code has no code and is affected by one incident only.                   *)
FewOutages ==
  /\ now < MaxTime
  /\ \A i \in Incidents : incidents[i].status = "OPEN" => incidents[i].resolvedAt = Null
  /\ \A row \in Rows : row[2] \in CustomerCodes =>
       /\ outages[row].code = NoCode
       /\ row[1] # FirstIncident => outages[row] = NoOutage

Init == /\ NotificationsInit
        /\ ReportsInit
        /\ RabbitInit
        /\ AvailabilityInit
        /\ part \in Parts
        /\ part # "notifications" => /\ incident = "CLOSED"
                                     /\ rules = [r \in Rules |-> CHOOSE row \in RuleRows : TRUE]
        /\ part # "connection" => connected
        /\ stops = 0

Stops(service) == /\ stops < MaxStops
                  /\ stops' = stops + 1
                  /\ service
Runs(service) == service /\ UNCHANGED stops

Next ==
  /\ UNCHANGED part
  /\ \/ /\ part = "notifications"
        /\ \/ Runs(NotificationsNext)
           \/ Stops(NotificationsStop)
        /\ UNCHANGED <<reporting, rabbit, availability>>
     \/ /\ part = "reports"
        /\ \/ Runs(ReportsNext)
           \/ Stops(ReportsStop)
        /\ UNCHANGED <<notifying, rabbit, availability>>
     \/ /\ part = "connection"
        /\ Runs(RabbitNext) \/ Stops(RabbitStops)
        /\ UNCHANGED <<notifying, reporting, availability>>
     \/ /\ \/ part = "customers" /\ Runs(IncidentNext \/ CustomerNext) /\ FewOutages'
           \/ part = "snapshots" /\ Runs(IncidentNext \/ SnapshotNext)
        /\ UNCHANGED <<notifying, reporting, rabbit>>

Spec == /\ Init /\ [][Next]_services
        /\ WF_rabbit(part = "connection" /\ Polled)
        /\ WF_rabbit(part = "connection" /\ AttemptEnds)

(* Notifications and reports keep their ledgers.                             *)
KeepsJobLedger == NotificationLedger!Spec /\ ReportLedger!Spec

(* Work is left behind only by what was interrupted.                         *)
WorkLeftIsInterrupted == UnsettledIsInterrupted /\ ReportUnsettledIsInterrupted
=============================================================================
