----------------------------- MODULE AlertIntake -----------------------------
(***************************************************************************)
(* The three channels of one process together: the queue consumer, the      *)
(* event puller and the HTTP endpoint (src/alerts/alerts.controller.ts).    *)
(* The same event may come over each of them at the same time; they share   *)
(* the database, and the process they stop with.                           *)
(***************************************************************************)
EXTENDS EventPuller, AlertConsumer

CONSTANT Requests     \* the slots of HTTP requests

ASSUME SlotsAssumption == /\ Requests \subseteq Slots
                          /\ Puller \notin Consumers \union Requests
                          /\ Consumers \intersect Requests = {}

ofPuller == <<source, stored, cursor, poll>>
ofConsumer == <<published, queues, session, failures, losses>>
vars == <<pipeline, ofPuller, ofConsumer>>

Init == PullerInit /\ ConsumerInit

-----------------------------------------------------------------------------
(* What each channel does while the process runs.                           *)

PullerRuns == /\ SourceStep \/ PullStep \/ Deliver \/ PollFails
              /\ UNCHANGED ofConsumer

ConsumerRuns == /\ QueueStep \/ \E s \in Consumers : MessageStep(s)
                /\ UNCHANGED ofPuller

(* A request that fails validation is refused and changes nothing.          *)
Post(s, e) ==
  /\ session # "down"
  /\ delivery[s] = Idle
  /\ e \in Valid
  /\ delivery' = [delivery EXCEPT ![s] = Accepted(e)]
  /\ UNCHANGED shared

Respond(s) ==
  /\ At(s, "settle")
  /\ delivery' = [delivery EXCEPT ![s] = Idle]
  /\ UNCHANGED shared

(* HTTP 500; the endpoint does not retry.                                   *)
RespondError(s) ==
  /\ CallThrows(s)
  /\ delivery' = [delivery EXCEPT ![s] = Idle]

RequestRuns == /\ \E s \in Requests : \/ \E e \in Events : Post(s, e)
                                      \/ Call(s) \/ Respond(s) \/ RespondError(s)
               /\ UNCHANGED <<ofPuller, ofConsumer>>

-----------------------------------------------------------------------------
(* The process stops, and all its channels with it.                         *)
Stops ==
  /\ delivery' = [s \in Slots |-> Idle]
  /\ session' = "down"
  /\ pull' = "down"
  /\ cursor' = 0
  /\ page' = <<>>
  /\ hasMore' = FALSE
  /\ pagesLeft' = 0
  /\ UNCHANGED <<source, stored, published, failures, losses>>

Crash ==
  /\ session # "down" \/ pull # "down"
  /\ CountCrash
  /\ Stops
  /\ Requeue
  /\ UNCHANGED database

UnhandledRejection ==
  /\ \E s \in Consumers : CannotAnswer(s)
  /\ Stops
  /\ UNCHANGED queues

Next == PullerRuns \/ ConsumerRuns \/ RequestRuns \/ Crash \/ UnhandledRejection

Spec == Init /\ [][Next]_vars

-----------------------------------------------------------------------------
(* What makes the notification unique: of all deliveries of an event in     *)
(* progress, over all channels, at most one saw the link as new, and none   *)
(* that still has to dispatch once the notification is out.                 *)
Unnotified == {s \in Slots : /\ delivery[s].stage \in {"measure", "dispatch"}
                             /\ delivery[s].fresh}
OneFreshDelivery ==
  \A s \in Unnotified :
    /\ delivery[s].event \in processed
    /\ dispatched[delivery[s].event] = 0
    /\ \A t \in Unnotified : delivery[t].event = delivery[s].event => t = s

(* The strengthening that makes both inductive: only fresh deliveries       *)
(* dispatch, only events that were processed were notified, and a slot      *)
(* whose channel is open holds the message it handles.                      *)
DispatchesAreFresh ==
  /\ \A s \in Slots : At(s, "dispatch") => delivery[s].fresh
  /\ \A e \in Events : dispatched[e] > 0 => e \in processed
SlotsHoldMessages ==
  \A s \in Consumers :
    delivery[s] # Idle => /\ session # "down"
                          /\ session = "open" => inHand[s] # Nothing
=============================================================================
