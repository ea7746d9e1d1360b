---------------------------- MODULE AlertPipeline ----------------------------
(***************************************************************************)
(* What every channel does with an event it accepts: ingest the alert, let  *)
(* the incident engine process it, refresh the impact of the incident,      *)
(* dispatch a notification.  The queue consumer, the event puller and the   *)
(* HTTP endpoint run these four calls in this order, each call awaited, and *)
(* differ in how they begin, what a failure does and how they settle.       *)
(*                                                                         *)
(* A delivery is one run of the four calls; its slot is a place for one     *)
(* delivery at a time.  ProcessAlert is atomic here: module IncidentEngine  *)
(* has its statements.  Events that pass validation are never recoveries,   *)
(* so processing one always yields its incident.                           *)
(***************************************************************************)
EXTENDS Naturals

CONSTANTS Events,   \* events, by eventId
          Valid,    \* those that match NormalizedNetworkEventDto
          Slots,    \* places for a delivery in progress
          MaxCrashes   \* bound: stops of the process

ASSUME PipelineAssumption == Valid \subseteq Events /\ MaxCrashes \in Nat

VARIABLES
  ingested,     \* events with an alerts row
  processed,    \* events whose alert is linked to an incident
  measured,     \* events after whose processing the impact was refreshed
  dispatched,   \* how often a notification of the event was dispatched
  delivery,     \* the delivery of each slot
  crashes       \* how often the process stopped

database == <<ingested, processed, measured, dispatched>>
shared == <<database, crashes>>
pipeline == <<shared, delivery>>

Idle == [stage |-> "idle"]
Calls == {"ingest", "process", "measure", "dispatch"}
(* A delivery past its calls settles; a rejected one never makes them; an   *)
(* answered one has settled towards its channel but not yet left its slot.  *)
Stages == Calls \union {"reject", "settle", "answered"}
Deliveries == [stage : Stages, event : Events, fresh : BOOLEAN]

PipelineTypeOK ==
  /\ ingested \subseteq Valid
  /\ processed \subseteq ingested
  /\ measured \subseteq processed
  /\ dispatched \in [Events -> Nat]
  /\ delivery \in [Slots -> {Idle} \union Deliveries]
  /\ crashes \in 0..MaxCrashes

PipelineInit ==
  /\ ingested = {}
  /\ processed = {}
  /\ measured = {}
  /\ dispatched = [e \in Events |-> 0]
  /\ delivery = [s \in Slots |-> Idle]
  /\ crashes = 0

(* The first thing a channel does with an event is to validate it.          *)
Accepted(e) == [stage |-> IF e \in Valid THEN "ingest" ELSE "reject",
                event |-> e, fresh |-> FALSE]

At(s, stage) == delivery[s].stage = stage
MoveTo(s, stage) == delivery' = [delivery EXCEPT ![s].stage = stage]

(* The alert is created, or found by its externalEventId.                   *)
IngestAlert(s) ==
  /\ At(s, "ingest")
  /\ ingested' = ingested \union {delivery[s].event}
  /\ MoveTo(s, "process")
  /\ UNCHANGED <<processed, measured, dispatched, crashes>>

(* Faulty variant: an alert that is already linked is taken for a new one.  *)
ProcessAlertAsNew(s) ==
  /\ At(s, "process")
  /\ processed' = processed \union {delivery[s].event}
  /\ delivery' = [delivery EXCEPT ![s].stage = "measure", ![s].fresh = TRUE]
  /\ UNCHANGED <<ingested, measured, dispatched, crashes>>

(* The engine's transaction commits, or answers ALREADY_PROCESSED.          *)
ProcessAlert(s) ==
  /\ At(s, "process")
  /\ processed' = processed \union {delivery[s].event}
  /\ delivery' = [delivery EXCEPT ![s].stage = "measure",
                                  ![s].fresh = delivery[s].event \notin processed]
  /\ UNCHANGED <<ingested, measured, dispatched, crashes>>

(* The impact is refreshed for every incident found, new or not; only a     *)
(* fresh outcome has a notification event.                                  *)
RefreshImpact(s) ==
  /\ At(s, "measure")
  /\ measured' = measured \union {delivery[s].event}
  /\ MoveTo(s, IF delivery[s].fresh THEN "dispatch" ELSE "settle")
  /\ UNCHANGED <<ingested, processed, dispatched, crashes>>

Dispatch(s) ==
  /\ At(s, "dispatch")
  /\ dispatched' = [dispatched EXCEPT ![delivery[s].event] = @ + 1]
  /\ MoveTo(s, "settle")
  /\ UNCHANGED <<ingested, processed, measured, crashes>>

Call(s) == IngestAlert(s) \/ ProcessAlert(s) \/ RefreshImpact(s) \/ Dispatch(s)

(* A call throws: the database, the provider or a lost race for an alert.   *)
(* A dispatch may throw after its notification went out.  What becomes of   *)
(* the delivery is up to its channel.                                       *)
CallThrows(s) ==
  /\ delivery[s].stage \in Calls
  /\ \/ UNCHANGED dispatched
     \/ /\ At(s, "dispatch")
        /\ dispatched' = [dispatched EXCEPT ![delivery[s].event] = @ + 1]
  /\ UNCHANGED <<ingested, processed, measured, crashes>>

(* The process stops once more, within the bound.                           *)
CountCrash == crashes < MaxCrashes /\ crashes' = crashes + 1

(* An event needs nothing more from any channel.                            *)
Settled(e) == e \in measured

(* However often, and over however many channels, an event is delivered,    *)
(* retried or replayed, at most one notification of it is dispatched: only  *)
(* the delivery whose transaction linked the alert reports a new outcome.   *)
NotifiedAtMostOnce == \A e \in Events : dispatched[e] <= 1
=============================================================================
