------------------------- MODULE AlertConsumerProofs -------------------------
(***************************************************************************)
(* What the retries of the consumer do, for any number of events, slots,    *)
(* retries, crashes and lost connections: no message is lost (what is not   *)
(* settled is carried by a message of a queue or a slot, or is among the    *)
(* dead letters), a message is given up after its last retry only, and the  *)
(* copies of an event never outnumber the faults that can make one.         *)
(***************************************************************************)
EXTENDS AlertConsumer, FiniteSetTheorems, FunctionTheorems, TLAPS

(* The types the argument needs.                                            *)
ConsumerTyped ==
  /\ delivery \in [Slots -> {Idle} \union Deliveries]
  /\ IsABag(queue) /\ DOMAIN queue \subseteq Messages
  /\ IsABag(retrying) /\ DOMAIN retrying \subseteq Messages
  /\ inHand \in [Consumers -> Messages \union {Nothing}]

(* While the channel is open, a slot in use holds the message it handles.   *)
HandlersHold ==
  \A s \in Consumers :
    delivery[s] # Idle =>
      /\ session # "down"
      /\ session = "open" => /\ inHand[s] # Nothing
                             /\ inHand[s].event = delivery[s].event

(* A handler that has nothing left but to notify and acknowledge has        *)
(* settled its event.                                                      *)
FinishedAreSettled ==
  \A s \in Consumers :
    delivery[s].stage \in {"dispatch", "settle"} => Settled(delivery[s].event)

(* The copy of a retried message waits until the message is acknowledged.   *)
AnsweredHaveCopies ==
  \A s \in Consumers :
    At(s, "answered") => \E m \in DOMAIN retrying : m.event = delivery[s].event

Handlers == HandlersHold /\ FinishedAreSettled /\ AnsweredHaveCopies

(* The messages there are, and what it means that an event is not lost.     *)
InHands == {inHand[s] : s \in Held}
Carried == DOMAIN queue \union DOMAIN retrying \union DOMAIN dead \union InHands
Kept(e) == Settled(e) \/ \E m \in Carried : m.event = e
NothingLost == \A e \in published : Kept(e)

ConsumerInv == ConsumerTyped /\ Handlers /\ NothingLost

LEMMA NothingLostIsMessageNotLost == NothingLost <=> MessageNotLost
  BY DEF NothingLost, Kept, Carried, InHands, MessageNotLost, CopiesLeft, IsDead

-----------------------------------------------------------------------------
(* The bags of RabbitMQ.                                                    *)
LEMMA PutBag ==
  ASSUME NEW bag, NEW m
  PROVE  /\ DOMAIN Put(bag, m) = DOMAIN bag \union {m}
         /\ IsABag(bag) => IsABag(Put(bag, m))
BY DEF Put, SetToBag, (+), IsABag

LEMMA TakeBag ==
  ASSUME NEW bag, NEW m, IsABag(bag)
  PROVE  /\ DOMAIN Take(bag, m) \subseteq DOMAIN bag
         /\ DOMAIN bag \ {m} \subseteq DOMAIN Take(bag, m)
         /\ IsABag(Take(bag, m))
BY DEF Take, SetToBag, (-), IsABag

(* Requeueing puts every message in hand back.                              *)
LEMMA RequeueBag ==
  ASSUME ConsumerTyped, Requeue
  PROVE  /\ DOMAIN queue' = DOMAIN queue \union InHands
         /\ IsABag(queue') /\ DOMAIN queue' \subseteq Messages
<1> DEFINE Holders(m) == {s \in Held : inHand[s] = m}
           Back == [m \in InHands |-> Cardinality(Holders(m))]
<1>1. queue' = queue (+) Back
  BY DEF Requeue, InHands
<1>2. DOMAIN queue' = DOMAIN queue \union InHands
  BY <1>1 DEF (+)
<1>3. InHands \subseteq Messages
  BY DEF InHands, Held, ConsumerTyped
<1>4. ASSUME NEW m \in InHands
      PROVE  Back[m] \in Nat \ {0}
  <2>1. IsFiniteSet(Holders(m)) /\ Holders(m) # {}
    BY ConsumerAssumption, FS_Subset DEF Held, InHands
  <2>2. Cardinality(Holders(m)) \in Nat /\ Cardinality(Holders(m)) # 0
    BY <2>1, FS_EmptySet, FS_CardinalityType
  <2> QED
    BY <2>2
<1>5. IsABag(queue')
  <2> SUFFICES ASSUME NEW m \in DOMAIN queue'
               PROVE  queue'[m] \in Nat /\ queue'[m] > 0
    BY <1>1 DEF IsABag, (+)
  <2>1. queue'[m] = (IF m \in DOMAIN queue THEN queue[m] ELSE 0)
                      + (IF m \in InHands THEN Back[m] ELSE 0)
    BY <1>1, <1>2 DEF (+)
  <2>2. m \in DOMAIN queue => queue[m] \in Nat /\ queue[m] > 0
    BY DEF ConsumerTyped, IsABag
  <2>3. m \in InHands => Back[m] \in Nat /\ Back[m] > 0
    BY <1>4
  <2> HIDE DEF Back
  <2> QED
    BY <1>2, <2>1, <2>2, <2>3
<1> QED
  BY <1>2, <1>3, <1>5 DEF ConsumerTyped

-----------------------------------------------------------------------------
(* Messages that stay, or whose event is kept, lose nothing.                *)
LEMMA CarriedIsNotLost ==
  ASSUME NothingLost, published' = published, measured \subseteq measured',
         \A m \in Carried : m \in Carried' \/ Kept(m.event)'
  PROVE  NothingLost'
BY DEF NothingLost, Kept, Settled

LEMMA ConsumerInvAtFirst == ConsumerInit => ConsumerInv
<1> SUFFICES ASSUME ConsumerInit
             PROVE  ConsumerInv
  OBVIOUS
<1>1. ConsumerTyped
  BY DEF ConsumerInit, PipelineInit, ConsumerTyped, EmptyBag, SetToBag, IsABag
<1>2. Handlers
  BY ConsumerAssumption
  DEF ConsumerInit, PipelineInit, Handlers, HandlersHold, FinishedAreSettled,
      AnsweredHaveCopies, At, Idle
<1>3. NothingLost
  BY DEF ConsumerInit, NothingLost
<1> QED
  BY <1>1, <1>2, <1>3 DEF ConsumerInv

LEMMA PublishKeepsInv ==
  ASSUME ConsumerInv, NEW e \in Events, Publish(e)
  PROVE  ConsumerInv'
<1> DEFINE m0 == [event |-> e, retries |-> 0]
<1>1. /\ queue' = Put(queue, m0) /\ published' = published \union {e}
      /\ UNCHANGED <<pipeline, retrying, dead, inHand, session>>
  BY DEF Publish
<1>2. m0 \in Messages /\ m0.event = e
  BY ConsumerAssumption DEF Messages
<1> HIDE DEF m0
<1>3. DOMAIN queue' = DOMAIN queue \union {m0} /\ IsABag(queue')
  BY <1>1, PutBag DEF ConsumerInv, ConsumerTyped
<1>4. ConsumerTyped'
  BY <1>1, <1>2, <1>3 DEF ConsumerInv, ConsumerTyped, pipeline, Messages, Nothing
<1>5. Handlers'
  BY <1>1
  DEF ConsumerInv, Handlers, HandlersHold, FinishedAreSettled, AnsweredHaveCopies, At,
      Settled,
      pipeline, shared, database, Nothing
<1>6. Carried' = Carried \union {m0}
  BY <1>1, <1>3 DEF Carried, InHands, Held, Nothing
<1>7. NothingLost'
  BY <1>1, <1>2, <1>6
  DEF ConsumerInv, NothingLost, Kept, Settled, pipeline, shared, database
<1> QED
  BY <1>4, <1>5, <1>7 DEF ConsumerInv

(* No copy expires while its original waits for its acknowledgement.        *)
LEMMA ExpireKeepsInv ==
  ASSUME ConsumerInv, NEW m \in DOMAIN retrying, Expire(m)
  PROVE  ConsumerInv'
<1>1. /\ queue' = Put(queue, m) /\ retrying' = Take(retrying, m)
      /\ \A s \in Consumers : ~At(s, "answered")
      /\ UNCHANGED <<pipeline, published, dead, inHand, session>>
  BY DEF Expire
<1>2. /\ DOMAIN queue' = DOMAIN queue \union {m} /\ IsABag(queue')
      /\ DOMAIN retrying' \subseteq DOMAIN retrying
      /\ DOMAIN retrying \ {m} \subseteq DOMAIN retrying' /\ IsABag(retrying')
  BY <1>1, PutBag, TakeBag DEF ConsumerInv, ConsumerTyped
<1>3. ConsumerTyped'
  BY <1>1, <1>2 DEF ConsumerInv, ConsumerTyped, pipeline, Messages, Nothing
<1>4. Handlers'
  BY <1>1
  DEF ConsumerInv, Handlers, HandlersHold, FinishedAreSettled, AnsweredHaveCopies, At,
      Settled,
      pipeline, shared, database, Nothing
<1>5. Carried \subseteq Carried'
  BY <1>1, <1>2 DEF Carried, InHands, Held, Nothing
<1>6. NothingLost'
  BY <1>1, <1>5, CarriedIsNotLost DEF ConsumerInv, pipeline, shared, database
<1> QED
  BY <1>3, <1>4, <1>6 DEF ConsumerInv

(* The process or its connection goes: handlers in between end, or, at a    *)
(* lost connection, go on without their messages.                          *)
LEMMA RequeueKeepsInv ==
  ASSUME ConsumerInv, Requeue, session' \in {"down", "lost"},
         UNCHANGED <<measured, published>>,
         delivery' \in [Slots -> {Idle} \union Deliveries],
         \A s \in Consumers : delivery'[s] # Idle =>
           session' = "lost" /\ delivery'[s] = delivery[s] /\ ~At(s, "answered")
  PROVE  ConsumerInv'
<1>1. /\ DOMAIN queue' = DOMAIN queue \union InHands
      /\ IsABag(queue') /\ DOMAIN queue' \subseteq Messages
  BY RequeueBag DEF ConsumerInv
<1>2. inHand' = [s \in Consumers |-> Nothing] /\ UNCHANGED <<retrying, dead>>
  BY DEF Requeue
<1>3. ConsumerTyped'
  BY <1>1, <1>2 DEF ConsumerInv, ConsumerTyped, Messages, Nothing
<1>4. Handlers'
  BY <1>2
  DEF ConsumerInv, Handlers, HandlersHold, FinishedAreSettled, AnsweredHaveCopies, At,
      Settled, Idle
<1>5. Carried \subseteq Carried'
  BY <1>1, <1>2 DEF Carried
<1>6. NothingLost'
  BY <1>5, CarriedIsNotLost DEF ConsumerInv
<1> QED
  BY <1>3, <1>4, <1>6 DEF ConsumerInv

-----------------------------------------------------------------------------
(* Steps of one slot.                                                       *)

LEMMA ReceiveKeepsInv ==
  ASSUME ConsumerInv, NEW s \in Consumers, NEW m \in DOMAIN queue, Receive(s, m)
  PROVE  ConsumerInv'
<1>1. /\ session = "open" /\ inHand[s] = Nothing
      /\ queue' = Take(queue, m)
      /\ inHand' = [inHand EXCEPT ![s] = m]
      /\ delivery' = [delivery EXCEPT ![s] = Accepted(m.event)]
      /\ UNCHANGED <<shared, published, retrying, dead, session>>
  BY DEF Receive
<1>2. m \in Messages /\ m.event \in Events /\ m # Nothing
  BY DEF ConsumerInv, ConsumerTyped, Messages, Nothing
<1>3. /\ Accepted(m.event) \in Deliveries /\ Accepted(m.event).event = m.event
      /\ Accepted(m.event).stage \in {"ingest", "reject"}
  BY <1>2 DEF Accepted, Deliveries, Stages, Calls
<1>4. /\ DOMAIN queue' \subseteq DOMAIN queue
      /\ DOMAIN queue \ {m} \subseteq DOMAIN queue' /\ IsABag(queue')
  BY <1>1, TakeBag DEF ConsumerInv, ConsumerTyped
<1>5. /\ delivery'[s] = Accepted(m.event) /\ inHand'[s] = m
      /\ \A t \in Consumers \ {s} : delivery'[t] = delivery[t] /\ inHand'[t] = inHand[t]
  BY <1>1, ConsumerAssumption DEF ConsumerInv, ConsumerTyped
<1>6. ConsumerTyped'
  BY <1>1, <1>2, <1>3, <1>4 DEF ConsumerInv, ConsumerTyped, Messages, Nothing
<1>7. Handlers'
  <2>1. HandlersHold'
    BY <1>1, <1>2, <1>3, <1>5 DEF ConsumerInv, Handlers, HandlersHold, Nothing
  <2>2. FinishedAreSettled' /\ AnsweredHaveCopies'
    BY <1>1, <1>3, <1>5
    DEF ConsumerInv, Handlers, FinishedAreSettled, AnsweredHaveCopies, At, Settled,
        shared, database
  <2> QED
    BY <2>1, <2>2 DEF Handlers
<1>8. InHands \union {m} \subseteq InHands'
  BY <1>1, <1>2, <1>5 DEF InHands, Held, Nothing
<1>9. Carried \subseteq Carried'
  BY <1>1, <1>4, <1>8 DEF Carried
<1>10. NothingLost'
  BY <1>1, <1>9, CarriedIsNotLost DEF ConsumerInv, shared, database
<1> QED
  BY <1>6, <1>7, <1>10 DEF ConsumerInv

LEMMA HandleKeepsInv ==
  ASSUME ConsumerInv, NEW s \in Consumers, Handle(s)
  PROVE  ConsumerInv'
<1>1. Call(s) /\ UNCHANGED <<published, queues, session>>
  BY DEF Handle
<1>2. UNCHANGED <<queue, retrying, dead, inHand>>
  BY <1>1 DEF queues
<1>3. s \in Slots /\ delivery[s] \in Deliveries /\ delivery[s] # Idle
  BY <1>1, ConsumerAssumption
  DEF ConsumerInv, ConsumerTyped, Call, IngestAlert, ProcessAlert, RefreshImpact, Dispatch, At,
      Idle
<1>4. measured \subseteq measured'
  BY <1>1 DEF Call, IngestAlert, ProcessAlert, RefreshImpact, Dispatch
<1>5. /\ delivery' \in [Slots -> {Idle} \union Deliveries]
      /\ delivery'[s] # Idle /\ delivery'[s].event = delivery[s].event
      /\ delivery'[s].stage # "answered"
      /\ delivery'[s].stage \in {"dispatch", "settle"} => Settled(delivery[s].event)'
      /\ \A t \in Slots \ {s} : delivery'[t] = delivery[t]
  <2>1. CASE IngestAlert(s)
    BY <1>3, <2>1
    DEF IngestAlert, MoveTo, ConsumerInv, ConsumerTyped, Deliveries, Stages, Calls, Idle
  <2>2. CASE ProcessAlert(s)
    BY <1>3, <2>2 DEF ProcessAlert, ConsumerInv, ConsumerTyped, Deliveries, Stages, Calls, Idle
  <2>3. CASE RefreshImpact(s)
    <3>1. delivery' = [delivery EXCEPT ![s].stage = IF delivery[s].fresh THEN "dispatch" ELSE "settle"]
          /\ Settled(delivery[s].event)'
      BY <2>3 DEF RefreshImpact, MoveTo, Settled
    <3>2. (IF delivery[s].fresh THEN "dispatch" ELSE "settle") \in {"dispatch", "settle"}
      OBVIOUS
    <3>3. PICK x \in {"dispatch", "settle"} : delivery' = [delivery EXCEPT ![s].stage = x]
      BY <3>1, <3>2
    <3> QED
      BY <1>3, <3>1, <3>3 DEF ConsumerInv, ConsumerTyped, Deliveries, Stages, Calls, Idle
  <2>4. CASE Dispatch(s)
    <3>1. delivery' = [delivery EXCEPT ![s].stage = "settle"] /\ measured' = measured
      BY <2>4 DEF Dispatch, MoveTo
    <3>2. Settled(delivery[s].event)
      BY <2>4 DEF Dispatch, At, ConsumerInv, Handlers, FinishedAreSettled
    <3>3. Settled(delivery[s].event)'
      BY <1>3, <2>4, <3>1, <3>2
      DEF Dispatch, Settled, MoveTo, ConsumerInv, ConsumerTyped, Deliveries
    <3> QED
      BY <1>3, <3>1, <3>2, <3>3
      DEF ConsumerInv, ConsumerTyped, Deliveries, Stages, Calls, Idle, Settled
  <2> QED
    BY <1>1, <2>1, <2>2, <2>3, <2>4 DEF Call
<1>6. ConsumerTyped'
  BY <1>2, <1>5 DEF ConsumerInv, ConsumerTyped, Messages, Nothing
<1>7. HandlersHold'
  BY <1>1, <1>2, <1>3, <1>5, ConsumerAssumption
  DEF ConsumerInv, Handlers, HandlersHold, Nothing
<1>8. FinishedAreSettled' /\ AnsweredHaveCopies'
  BY <1>2, <1>4, <1>5, ConsumerAssumption
  DEF ConsumerInv, Handlers, FinishedAreSettled, AnsweredHaveCopies, At, Settled
<1>9. Carried' = Carried
  BY <1>2 DEF Carried, InHands, Held, Nothing
<1>10. NothingLost'
  BY <1>1, <1>4, <1>9, CarriedIsNotLost DEF ConsumerInv
<1> QED
  BY <1>6, <1>7, <1>8, <1>10 DEF ConsumerInv, Handlers

(* A message may leave its slot once its event is kept elsewhere.           *)
LEMMA ReleaseKeepsInv ==
  ASSUME ConsumerInv, NEW s \in Consumers, Release(s), NEW m0, m0 = inHand[s],
         UNCHANGED <<measured, published, queue, retrying, session>>,
         DOMAIN dead \subseteq DOMAIN dead',
         Kept(m0.event)'
  PROVE  ConsumerInv'
<1>1. /\ inHand' = [inHand EXCEPT ![s] = Nothing]
      /\ delivery' = [delivery EXCEPT ![s] = Idle]
  BY DEF Release
<1>2. /\ delivery'[s] = Idle
      /\ \A t \in Consumers \ {s} : delivery'[t] = delivery[t] /\ inHand'[t] = inHand[t]
  BY <1>1, ConsumerAssumption DEF ConsumerInv, ConsumerTyped
<1>3. ConsumerTyped'
  BY <1>1 DEF ConsumerInv, ConsumerTyped, Messages, Nothing
<1>4. Handlers'
  BY <1>2
  DEF ConsumerInv, Handlers, HandlersHold, FinishedAreSettled, AnsweredHaveCopies, At,
      Settled,
      Idle, Nothing
<1>5. \A m \in InHands : m \in InHands' \/ m = m0
  BY <1>2 DEF InHands, Held, Nothing
<1>6. \A m \in Carried : m \in Carried' \/ m = m0
  BY <1>5 DEF Carried
<1>7. \A m \in Carried : m \in Carried' \/ Kept(m.event)'
  BY <1>6
<1>8. NothingLost'
  BY <1>7, CarriedIsNotLost DEF ConsumerInv
<1> QED
  BY <1>3, <1>4, <1>8 DEF ConsumerInv

(* Acknowledged: settled, or with a copy that waits to be retried.          *)
LEMMA AckKeepsInv ==
  ASSUME ConsumerInv, NEW s \in Consumers, Ack(s)
  PROVE  ConsumerInv'
<1>1. /\ session = "open" /\ delivery[s].stage \in {"settle", "answered"}
      /\ Release(s)
      /\ UNCHANGED <<shared, published, queue, retrying, dead, session>>
  BY DEF Ack
<1>2. PICK m0 : m0 = inHand[s]
  OBVIOUS
<1>3. m0.event = delivery[s].event
  BY <1>1, <1>2 DEF ConsumerInv, Handlers, HandlersHold, Idle
<1>4. Settled(m0.event) \/ \E m \in DOMAIN retrying : m.event = m0.event
  BY <1>1, <1>3 DEF ConsumerInv, Handlers, FinishedAreSettled, AnsweredHaveCopies, At
<1>5. UNCHANGED <<measured, retrying>>
  BY <1>1 DEF shared, database
<1>6. Kept(m0.event)'
  BY <1>4, <1>5 DEF Kept, Settled, Carried
<1> QED
  BY <1>1, <1>2, <1>5, <1>6, ReleaseKeepsInv

LEMMA RejectKeepsInv ==
  ASSUME ConsumerInv, NEW s \in Consumers, Reject(s) \/ DeadLetter(s)
  PROVE  ConsumerInv'
<1>1. /\ Release(s) /\ dead' = Put(dead, inHand[s])
      /\ UNCHANGED <<measured, published, queue, retrying, session>>
  BY DEF Reject, DeadLetter, CallThrows, shared, database
<1>2. DOMAIN dead' = DOMAIN dead \union {inHand[s]}
  BY <1>1, PutBag
<1>3. PICK m0 : m0 = inHand[s]
  OBVIOUS
<1>4. Kept(m0.event)'
  BY <1>2, <1>3 DEF Kept, Carried
<1> QED
  BY <1>1, <1>2, <1>3, <1>4, ReleaseKeepsInv

(* retryOrDeadLetter: the copy is there before the message is acknowledged. *)
LEMMA RetryKeepsInv ==
  ASSUME ConsumerInv, NEW s \in Consumers, Retry(s)
  PROVE  ConsumerInv'
<1>1. /\ session = "open" /\ delivery[s].stage \in Calls /\ inHand[s].retries < MaxRetries
      /\ retrying' = Put(retrying, Retried(inHand[s]))
      /\ delivery' = [delivery EXCEPT ![s].stage = "answered"]
      /\ UNCHANGED <<measured, published, queue, dead, inHand, session>>
  BY DEF Retry, CallThrows, MoveTo
<1>2. s \in Slots /\ delivery[s] \in Deliveries /\ delivery[s] # Idle
  BY <1>1, ConsumerAssumption DEF ConsumerInv, ConsumerTyped, Calls, Idle
<1>3. inHand[s] \in Messages /\ inHand[s].event = delivery[s].event
  BY <1>1, <1>2 DEF ConsumerInv, ConsumerTyped, Handlers, HandlersHold
<1>4. PICK m0 : m0 = Retried(inHand[s])
  OBVIOUS
<1>5. m0 \in Messages /\ m0.event = delivery[s].event
  BY <1>1, <1>3, <1>4, ConsumerAssumption DEF Retried, Messages
<1>6. DOMAIN retrying' = DOMAIN retrying \union {m0} /\ IsABag(retrying')
  BY <1>1, <1>4, PutBag DEF ConsumerInv, ConsumerTyped
<1>7. /\ delivery' \in [Slots -> {Idle} \union Deliveries]
      /\ delivery'[s].stage = "answered" /\ delivery'[s].event = delivery[s].event
      /\ \A t \in Slots \ {s} : delivery'[t] = delivery[t]
  BY <1>1, <1>2 DEF ConsumerInv, ConsumerTyped, Deliveries, Stages
<1>8. ConsumerTyped'
  BY <1>1, <1>5, <1>6, <1>7 DEF ConsumerInv, ConsumerTyped, Messages, Nothing
<1>9. HandlersHold'
  BY <1>1, <1>2, <1>7, ConsumerAssumption DEF ConsumerInv, Handlers, HandlersHold, Nothing
<1>10. FinishedAreSettled' /\ AnsweredHaveCopies'
  BY <1>1, <1>5, <1>6, <1>7, ConsumerAssumption
  DEF ConsumerInv, Handlers, FinishedAreSettled, AnsweredHaveCopies, At, Settled
<1>11. Carried \subseteq Carried'
  BY <1>1, <1>6 DEF Carried, InHands, Held, Nothing
<1>12. NothingLost'
  BY <1>1, <1>11, CarriedIsNotLost DEF ConsumerInv
<1> QED
  BY <1>8, <1>9, <1>10, <1>12 DEF ConsumerInv, Handlers

-----------------------------------------------------------------------------
(* The session begins and ends.                                             *)

LEMMA StartKeepsInv ==
  ASSUME ConsumerInv, Start
  PROVE  ConsumerInv'
<1>1. session = "down" /\ UNCHANGED <<delivery, measured, published, queue, retrying, dead, inHand>>
  BY DEF Start, pipeline, shared, database, queues
<1>2. ConsumerTyped'
  BY <1>1 DEF ConsumerInv, ConsumerTyped, Messages, Nothing
<1>3. Handlers'
  BY <1>1
  DEF ConsumerInv, Handlers, HandlersHold, FinishedAreSettled, AnsweredHaveCopies, At,
      Settled, Nothing
<1>4. Carried' = Carried
  BY <1>1 DEF Carried, InHands, Held, Nothing
<1>5. NothingLost'
  BY <1>1, <1>4, CarriedIsNotLost DEF ConsumerInv
<1> QED
  BY <1>2, <1>3, <1>5 DEF ConsumerInv

LEMMA SessionEndKeepsInv ==
  ASSUME ConsumerInv, LoseConnection \/ ConsumerCrash
  PROVE  ConsumerInv'
<1>1. CASE LoseConnection
  <2>1. /\ session' = "lost" /\ Requeue /\ UNCHANGED <<shared, published>>
        /\ delivery' = [s \in Slots |-> IF s \in Consumers /\ At(s, "answered")
                                        THEN Idle ELSE delivery[s]]
    BY <1>1 DEF LoseConnection
  <2>2. \A s \in Consumers : delivery'[s] # Idle =>
          delivery'[s] = delivery[s] /\ ~At(s, "answered")
    BY <2>1, ConsumerAssumption
  <2>3. delivery' \in [Slots -> {Idle} \union Deliveries]
    BY <2>1 DEF ConsumerInv, ConsumerTyped
  <2> QED
    BY <2>1, <2>2, <2>3, RequeueKeepsInv DEF shared, database
<1>2. CASE ConsumerCrash
  <2>1. /\ session' = "down" /\ Requeue /\ UNCHANGED <<database, published>>
        /\ delivery' = [s \in Slots |-> IF s \in Consumers THEN Idle ELSE delivery[s]]
    BY <1>2 DEF ConsumerCrash, StopProcess
  <2>2. /\ delivery' \in [Slots -> {Idle} \union Deliveries]
        /\ \A s \in Consumers : delivery'[s] = Idle
    BY <2>1, ConsumerAssumption DEF ConsumerInv, ConsumerTyped
  <2> QED
    BY <2>1, <2>2, RequeueKeepsInv DEF database
<1> QED
  BY <1>1, <1>2

(* Without a channel nothing is in hand: the messages went back when it     *)
(* closed.                                                                 *)
LEMMA QuitKeepsInv ==
  ASSUME ConsumerInv, UNCHANGED <<measured, published, queue, retrying, dead, inHand>>,
         delivery' \in [Slots -> {Idle} \union Deliveries],
         \A t \in Consumers : delivery'[t] = Idle
  PROVE  ConsumerInv'
<1>1. ConsumerTyped'
  BY DEF ConsumerInv, ConsumerTyped, Messages, Nothing
<1>2. Handlers'
  BY DEF Handlers, HandlersHold, FinishedAreSettled, AnsweredHaveCopies, At, Idle
<1>3. Carried' = Carried
  BY DEF Carried, InHands, Held, Nothing
<1>4. NothingLost'
  BY <1>3, CarriedIsNotLost DEF ConsumerInv
<1> QED
  BY <1>1, <1>2, <1>4 DEF ConsumerInv

LEMMA AnswerFailsKeepsInv ==
  ASSUME ConsumerInv, NEW s \in Consumers, AnswerFails(s)
  PROVE  ConsumerInv'
<1>1. /\ delivery' = [t \in Slots |-> IF t \in Consumers THEN Idle ELSE delivery[t]]
      /\ UNCHANGED <<measured, published, queue, retrying, dead, inHand>>
  BY DEF AnswerFails, CannotAnswer, CallThrows, StopProcess, queues, shared, database
<1>2. /\ delivery' \in [Slots -> {Idle} \union Deliveries]
      /\ \A t \in Consumers : delivery'[t] = Idle
  BY <1>1, ConsumerAssumption DEF ConsumerInv, ConsumerTyped
<1> QED
  BY <1>1, <1>2, QuitKeepsInv

LEMMA ConsumerStepKeepsInv ==
  ASSUME ConsumerInv, NEW s \in Consumers, ConsumerStep(s)
  PROVE  ConsumerInv'
<1>1. CASE \E m \in DOMAIN queue : Receive(s, m)
  BY <1>1, ReceiveKeepsInv
<1>2. CASE Handle(s)
  BY <1>2, HandleKeepsInv
<1>3. CASE Ack(s)
  BY <1>3, AckKeepsInv
<1>4. CASE Reject(s) \/ DeadLetter(s)
  BY <1>4, RejectKeepsInv
<1>5. CASE Retry(s)
  BY <1>5, RetryKeepsInv
<1>6. CASE AnswerFails(s)
  BY <1>6, AnswerFailsKeepsInv
<1> QED
  BY <1>1, <1>2, <1>3, <1>4, <1>5, <1>6 DEF ConsumerStep, MessageStep

-----------------------------------------------------------------------------
LEMMA ConsumerInvKept == ConsumerInv /\ [ConsumerNext]_consumerVars => ConsumerInv'
<1> SUFFICES ASSUME ConsumerInv, [ConsumerNext]_consumerVars
             PROVE  ConsumerInv'
  OBVIOUS
<1>1. CASE QueueStep
  BY <1>1, PublishKeepsInv, ExpireKeepsInv, StartKeepsInv, SessionEndKeepsInv
  DEF QueueStep
<1>2. CASE \E s \in Consumers : ConsumerStep(s)
  BY <1>2, ConsumerStepKeepsInv
<1>3. CASE ConsumerCrash
  BY <1>3, SessionEndKeepsInv
<1>4. CASE UNCHANGED consumerVars
  <2>1. UNCHANGED <<delivery, measured, published, queue, retrying, dead, inHand, session>>
    BY <1>4 DEF consumerVars, pipeline, shared, database, queues
  <2>2. ConsumerTyped'
    BY <2>1 DEF ConsumerInv, ConsumerTyped, Messages, Nothing
  <2>3. Handlers'
    BY <2>1
    DEF ConsumerInv, Handlers, HandlersHold, FinishedAreSettled, AnsweredHaveCopies, At,
        Settled,
        Nothing
  <2>4. Carried' = Carried
    BY <2>1 DEF Carried, InHands, Held, Nothing
  <2>5. NothingLost'
    BY <2>1, <2>4, CarriedIsNotLost DEF ConsumerInv
  <2> QED
    BY <2>2, <2>3, <2>5 DEF ConsumerInv
<1> QED
  BY <1>1, <1>2, <1>3, <1>4 DEF ConsumerNext

(* No message is lost: a published event that is not completely handled is  *)
(* in a queue, in a slot or among the dead letters, whatever crashes and    *)
(* closed connections come between a retry and its acknowledgement          *)
(* (handleMessage and retryOrDeadLetter).                                   *)
THEOREM LosesNoMessage == ConsumerSpec => []MessageNotLost
<1>1. ConsumerInv => MessageNotLost
  BY NothingLostIsMessageNotLost DEF ConsumerInv
<1> QED
  BY ConsumerInvAtFirst, ConsumerInvKept, <1>1, PTL DEF ConsumerSpec

-----------------------------------------------------------------------------
(* What is given up was tried often enough.  A message says how often its   *)
(* event was retried, and no message says more than the failures of its     *)
(* event there were; copies and redeliveries only add failures.            *)
Waiting == DOMAIN queue \union DOMAIN retrying \union InHands

CountedRetries == \A m \in Waiting : m.retries <= failures[m.event]
RejectsInvalid == \A s \in Consumers : At(s, "reject") => delivery[s].event \notin Valid
FailuresTyped == failures \in [Events -> 0..(MaxRetries + 1)]

RetriedInv == /\ ConsumerInv /\ FailuresTyped
              /\ RejectsInvalid /\ CountedRetries /\ DeadLettersWereRetried

LEMMA FailureCounted ==
  ASSUME FailuresTyped, NEW e \in Events, CountFailure(e)
  PROVE  /\ FailuresTyped'
         /\ \A x \in Events : failures[x] <= failures'[x]
         /\ \A n \in 0..MaxRetries : n <= failures[e] => n + 1 <= failures'[e]
<1>1. failures' = [failures EXCEPT ![e] = IF failures[e] > MaxRetries THEN failures[e]
                                          ELSE failures[e] + 1]
  BY DEF CountFailure
<1>2. MaxRetries \in Nat /\ \A x \in Events : failures[x] \in 0..(MaxRetries + 1)
  BY ConsumerAssumption DEF FailuresTyped
<1>3. failures'[e] = (IF failures[e] > MaxRetries THEN failures[e] ELSE failures[e] + 1)
  BY <1>1 DEF FailuresTyped
<1>4. \A x \in Events \ {e} : failures'[x] = failures[x]
  BY <1>1 DEF FailuresTyped
<1>5. failures'[e] \in 0..(MaxRetries + 1)
  BY <1>2, <1>3
<1>6. FailuresTyped'
  BY <1>1, <1>2, <1>3, <1>4, <1>5 DEF FailuresTyped
<1>7. \A x \in Events : failures[x] <= failures'[x]
  BY <1>2, <1>3, <1>4
<1> QED
  BY <1>2, <1>3, <1>6, <1>7

(* Messages that were there, fewer than the failures, stay so.             *)
LEMMA StaysCounted ==
  ASSUME RetriedInv, ConsumerInv', FailuresTyped',
         \A x \in Events : failures[x] <= failures'[x],
         \A m \in Waiting' : m \in Waiting \/ m.retries <= failures'[m.event],
         \A m \in DOMAIN dead' : \/ m \in DOMAIN dead
                                 \/ m.event \in Valid => failures'[m.event] > MaxRetries
  PROVE  CountedRetries' /\ DeadLettersWereRetried'
<1>1. /\ \A m \in Waiting : m \in Messages
      /\ \A x \in Events : failures[x] \in Int /\ failures'[x] \in Int
      /\ MaxRetries \in Int
  BY ConsumerAssumption
  DEF RetriedInv, FailuresTyped, ConsumerInv, ConsumerTyped, Waiting, InHands, Held
<1>2. \A m \in Waiting : m.event \in Events /\ m.retries \in Int
  BY <1>1 DEF Messages
<1>3. CountedRetries'
  BY <1>1, <1>2 DEF RetriedInv, CountedRetries
<1>4. DeadLettersWereRetried'
  BY <1>1, PipelineAssumption DEF RetriedInv, DeadLettersWereRetried
<1> QED
  BY <1>3, <1>4

(* A slot that rejects is one that received an invalid event.              *)
LEMMA StaysRejecting ==
  ASSUME RetriedInv, [ConsumerNext]_consumerVars
  PROVE  RejectsInvalid'
<1>0. /\ RejectsInvalid /\ delivery \in [Slots -> {Idle} \union Deliveries]
      /\ Consumers \subseteq Slots /\ Idle.stage # "reject"
  BY ConsumerAssumption DEF RetriedInv, ConsumerInv, ConsumerTyped, Idle
<1>1. ASSUME NEW s \in Consumers, NEW m \in DOMAIN queue, Receive(s, m)
      PROVE  RejectsInvalid'
  <2>1. delivery' = [delivery EXCEPT ![s] = Accepted(m.event)]
    BY <1>1 DEF Receive
  <2>2. Accepted(m.event).stage = "reject" => Accepted(m.event).event \notin Valid
    BY DEF Accepted
  <2> QED
    BY <1>0, <2>1, <2>2 DEF RejectsInvalid, At
<1>2. ASSUME NEW s \in Consumers, Handle(s)
      PROVE  RejectsInvalid'
  <2>1. delivery[s] \in Deliveries
    BY <1>0, <1>2
    DEF Handle, Call, IngestAlert, ProcessAlert, RefreshImpact, Dispatch, At, Idle
  <2>2. /\ delivery'[s].stage # "reject"
        /\ \A t \in Consumers \ {s} : delivery'[t] = delivery[t]
    BY <1>0, <1>2, <2>1
    DEF Handle, Call, IngestAlert, ProcessAlert, RefreshImpact, Dispatch, MoveTo,
        Deliveries
  <2> QED
    BY <1>0, <2>2 DEF RejectsInvalid, At
<1>3. ASSUME NEW s \in Consumers, Ack(s) \/ Reject(s) \/ DeadLetter(s)
      PROVE  RejectsInvalid'
  BY <1>0, <1>3 DEF Ack, Reject, DeadLetter, Release, RejectsInvalid, At
<1>4. ASSUME NEW s \in Consumers, Retry(s)
      PROVE  RejectsInvalid'
  <2>1. delivery[s] \in Deliveries
    BY <1>0, <1>4 DEF Retry, CallThrows, Calls, Idle
  <2>2. /\ delivery'[s].stage = "answered"
        /\ \A t \in Consumers \ {s} : delivery'[t] = delivery[t]
    BY <1>0, <1>4, <2>1 DEF Retry, MoveTo, Deliveries
  <2> QED
    BY <1>0, <2>2 DEF RejectsInvalid, At
<1>5. ASSUME NEW s \in Consumers, AnswerFails(s)
      PROVE  RejectsInvalid'
  BY <1>0, <1>5 DEF AnswerFails, StopProcess, RejectsInvalid, At
<1>6. ASSUME LoseConnection \/ ConsumerCrash
      PROVE  RejectsInvalid'
  BY <1>0, <1>6 DEF LoseConnection, ConsumerCrash, StopProcess, RejectsInvalid, At
<1>7. ASSUME UNCHANGED delivery
      PROVE  RejectsInvalid'
  BY <1>0, <1>7 DEF RejectsInvalid, At
<1> QED
  BY <1>1, <1>2, <1>3, <1>4, <1>5, <1>6, <1>7
  DEF ConsumerNext, QueueStep, ConsumerStep, MessageStep, Publish, Expire, Start,
      consumerVars,
      pipeline

(* A step that counts no failure and gives nothing up: what waits after it  *)
(* waited before, or is new and was never retried.                         *)
LEMMA NothingGivenUp ==
  ASSUME RetriedInv, ConsumerInv', UNCHANGED <<failures, dead>>,
         \A m \in Waiting' : m \in Waiting \/ m.retries = 0
  PROVE  FailuresTyped' /\ CountedRetries' /\ DeadLettersWereRetried'
<1>1. FailuresTyped' /\ \A x \in Events : failures[x] <= failures'[x]
  BY ConsumerAssumption DEF RetriedInv, FailuresTyped
<1>2. \A m \in Waiting' : m.event \in Events
  BY DEF ConsumerInv, ConsumerTyped, Waiting, InHands, Held, Messages
<1>3. \A m \in Waiting' : m \in Waiting \/ m.retries <= failures'[m.event]
  BY <1>1, <1>2, ConsumerAssumption DEF FailuresTyped
<1> QED
  BY <1>1, <1>3, StaysCounted

(* Nor does requeueing what is in hand.                                     *)
LEMMA RequeueGivesNothingUp ==
  ASSUME RetriedInv, ConsumerInv', Requeue, UNCHANGED failures
  PROVE  FailuresTyped' /\ CountedRetries' /\ DeadLettersWereRetried'
<1>1. /\ DOMAIN queue' = DOMAIN queue \union InHands /\ UNCHANGED <<dead, retrying>>
      /\ InHands' = {}
  BY RequeueBag DEF RetriedInv, ConsumerInv, Requeue, InHands, Held
<1> QED
  BY <1>1, NothingGivenUp DEF Waiting

LEMMA RetriedStep == RetriedInv /\ [ConsumerNext]_consumerVars => RetriedInv'
<1> SUFFICES ASSUME RetriedInv, [ConsumerNext]_consumerVars
             PROVE  FailuresTyped' /\ CountedRetries' /\ DeadLettersWereRetried'
  BY ConsumerInvKept, StaysRejecting DEF RetriedInv
<1>0. ConsumerInv' /\ ConsumerInv /\ FailuresTyped /\ ConsumerTyped
  BY ConsumerInvKept DEF RetriedInv, ConsumerInv
<1> DEFINE Goal == FailuresTyped' /\ CountedRetries' /\ DeadLettersWereRetried'
<1>1. ASSUME UNCHANGED <<failures, dead>>,
             \A m \in Waiting' : m \in Waiting \/ m.retries = 0
      PROVE  Goal
  BY <1>0, <1>1, NothingGivenUp
<1>2. ASSUME NEW e \in Events, Publish(e)
      PROVE  Goal
  <2>1. /\ queue' = Put(queue, [event |-> e, retries |-> 0])
        /\ UNCHANGED <<retrying, dead, inHand, failures>>
    BY <1>2 DEF Publish
  <2>2. DOMAIN queue' = DOMAIN queue \union {[event |-> e, retries |-> 0]}
    BY <2>1, PutBag
  <2> QED
    BY <1>1, <2>1, <2>2 DEF Waiting, InHands, Held, Nothing
<1>3. ASSUME NEW m \in DOMAIN retrying, Expire(m)
      PROVE  Goal
  <2>1. /\ queue' = Put(queue, m) /\ retrying' = Take(retrying, m)
        /\ UNCHANGED <<dead, inHand, failures>>
    BY <1>3 DEF Expire
  <2>2. DOMAIN queue' = DOMAIN queue \union {m} /\ DOMAIN retrying' \subseteq DOMAIN retrying
    BY <1>0, <2>1, PutBag, TakeBag DEF ConsumerTyped
  <2> QED
    BY <1>1, <2>1, <2>2 DEF Waiting, InHands, Held, Nothing
<1>4. ASSUME LoseConnection \/ ConsumerCrash
      PROVE  Goal
  <2>1. Requeue /\ UNCHANGED failures
    BY <1>4 DEF LoseConnection, ConsumerCrash, StopProcess
  <2> QED
    BY <1>0, <2>1, RequeueGivesNothingUp
<1>5. ASSUME NEW s \in Consumers, NEW m \in DOMAIN queue, Receive(s, m)
      PROVE  Goal
  <2>1. /\ queue' = Take(queue, m) /\ inHand' = [inHand EXCEPT ![s] = m]
        /\ UNCHANGED <<dead, retrying, failures>>
    BY <1>5 DEF Receive
  <2>2. DOMAIN queue' \subseteq DOMAIN queue
    BY <1>0, <2>1, TakeBag DEF ConsumerTyped
  <2>3. InHands' \subseteq InHands \union {m}
    BY <1>0, <2>1 DEF InHands, Held, ConsumerTyped, Nothing
  <2> QED
    BY <1>1, <2>1, <2>2, <2>3 DEF Waiting
<1>6. ASSUME UNCHANGED <<queue, retrying, dead, inHand, failures>>
      PROVE  Goal
  BY <1>1, <1>6 DEF Waiting, InHands, Held, Nothing
<1>7. ASSUME NEW s \in Consumers, Release(s)
      PROVE  InHands' \subseteq InHands
  BY <1>0, <1>7 DEF Release, InHands, Held, ConsumerTyped, Nothing
<1>8. ASSUME NEW s \in Consumers, Ack(s)
      PROVE  Goal
  BY <1>1, <1>7, <1>8 DEF Ack, Waiting
<1>9. ASSUME NEW s \in Consumers, Reject(s)
      PROVE  Goal
  <2>1. /\ Release(s) /\ dead' = Put(dead, inHand[s])
        /\ UNCHANGED <<queue, retrying, failures>> /\ session = "open" /\ At(s, "reject")
    BY <1>9 DEF Reject
  <2>2. inHand[s].event \notin Valid
    BY <1>0, <2>1
    DEF ConsumerInv, Handlers, HandlersHold, RetriedInv, RejectsInvalid, At, Idle
  <2>3. DOMAIN dead' = DOMAIN dead \union {inHand[s]}
    BY <2>1, PutBag
  <2>4. Waiting' \subseteq Waiting
    BY <1>7, <2>1 DEF Waiting
  <2>5. FailuresTyped' /\ \A x \in Events : failures[x] <= failures'[x]
    BY <1>0, <2>1, ConsumerAssumption DEF FailuresTyped
  <2> QED
    BY <1>0, <2>2, <2>3, <2>4, <2>5, StaysCounted
<1>10. ASSUME NEW s \in Consumers, CallThrows(s), session = "open"
       PROVE  inHand[s] \in Messages /\ inHand[s] \in Waiting
  <2>1. inHand[s] # Nothing
    BY <1>0, <1>10 DEF ConsumerInv, Handlers, HandlersHold, CallThrows, Calls, Idle
  <2> QED
    BY <1>0, <2>1 DEF ConsumerTyped, Waiting, InHands, Held
<1>11. ASSUME NEW s \in Consumers, DeadLetter(s)
       PROVE  Goal
  <2>1. /\ Release(s) /\ dead' = Put(dead, inHand[s]) /\ UNCHANGED <<queue, retrying>>
        /\ inHand[s].retries >= MaxRetries /\ CountFailure(inHand[s].event)
        /\ inHand[s] \in Messages /\ inHand[s] \in Waiting
    BY <1>10, <1>11 DEF DeadLetter
  <2>2. inHand[s].event \in Events /\ inHand[s].retries \in 0..MaxRetries
    BY <2>1 DEF Messages
  <2>3. inHand[s].retries <= failures[inHand[s].event]
    BY <2>1 DEF RetriedInv, CountedRetries
  <2>4. /\ FailuresTyped' /\ \A x \in Events : failures[x] <= failures'[x]
        /\ inHand[s].retries + 1 <= failures'[inHand[s].event]
    BY <1>0, <2>1, <2>2, <2>3, FailureCounted
  <2>5. failures'[inHand[s].event] > MaxRetries
    BY <2>1, <2>2, <2>4, ConsumerAssumption DEF FailuresTyped
  <2>6. DOMAIN dead' = DOMAIN dead \union {inHand[s]}
    BY <2>1, PutBag
  <2>7. Waiting' \subseteq Waiting
    BY <1>7, <2>1 DEF Waiting
  <2> QED
    BY <1>0, <2>4, <2>5, <2>6, <2>7, StaysCounted
<1>12. ASSUME NEW s \in Consumers, Retry(s)
       PROVE  Goal
  <2>1. /\ retrying' = Put(retrying, Retried(inHand[s])) /\ UNCHANGED <<queue, dead, inHand>>
        /\ inHand[s].retries < MaxRetries /\ CountFailure(inHand[s].event)
        /\ inHand[s] \in Messages /\ inHand[s] \in Waiting
    BY <1>10, <1>12 DEF Retry
  <2>2. /\ inHand[s].event \in Events /\ inHand[s].retries \in 0..MaxRetries
        /\ Retried(inHand[s]).event = inHand[s].event
        /\ Retried(inHand[s]).retries = inHand[s].retries + 1
    BY <2>1 DEF Messages, Retried
  <2>3. inHand[s].retries <= failures[inHand[s].event]
    BY <2>1 DEF RetriedInv, CountedRetries
  <2>4. /\ FailuresTyped' /\ \A x \in Events : failures[x] <= failures'[x]
        /\ inHand[s].retries + 1 <= failures'[inHand[s].event]
    BY <1>0, <2>1, <2>2, <2>3, FailureCounted
  <2>5. DOMAIN retrying' = DOMAIN retrying \union {Retried(inHand[s])}
    BY <2>1, PutBag
  <2>6. \A m \in Waiting' : m \in Waiting \/ m = Retried(inHand[s])
    BY <2>1, <2>5 DEF Waiting, InHands, Held, Nothing
  <2>7. \A m \in Waiting' : m \in Waiting \/ m.retries <= failures'[m.event]
    BY <2>2, <2>4, <2>6
  <2> QED
    BY <1>0, <2>1, <2>4, <2>7, StaysCounted
<1>13. ASSUME NEW s \in Consumers, AnswerFails(s) \/ Handle(s)
       PROVE  Goal
  BY <1>6, <1>13 DEF AnswerFails, StopProcess, Handle, queues
<1> QED
  BY <1>2, <1>3, <1>4, <1>5, <1>6, <1>8, <1>9, <1>11, <1>12, <1>13
  DEF ConsumerNext, QueueStep, ConsumerStep, MessageStep, Start, consumerVars, queues

LEMMA RetriedAtFirst == ConsumerInit => RetriedInv
<1> SUFFICES ASSUME ConsumerInit
             PROVE  FailuresTyped /\ RejectsInvalid /\ CountedRetries /\ DeadLettersWereRetried
  BY ConsumerInvAtFirst DEF RetriedInv
<1>1. DOMAIN queue = {} /\ DOMAIN retrying = {} /\ DOMAIN dead = {} /\ InHands = {}
  BY DEF ConsumerInit, EmptyBag, SetToBag, InHands, Held
<1>2. FailuresTyped
  BY ConsumerAssumption DEF ConsumerInit, FailuresTyped
<1>3. RejectsInvalid
  BY ConsumerAssumption DEF ConsumerInit, PipelineInit, RejectsInvalid, At, Idle
<1> QED
  BY <1>1, <1>2, <1>3 DEF CountedRetries, DeadLettersWereRetried, Waiting

(* A valid event is given up only after its first attempt and MaxRetries    *)
(* retries failed, however many copies and redeliveries of it crashes and   *)
(* lost connections make (retryOrDeadLetter).                              *)
THEOREM GivesUpAfterRetries == ConsumerSpec => []DeadLettersWereRetried
<1>1. RetriedInv => DeadLettersWereRetried
  BY DEF RetriedInv
<1> QED
  BY <1>1, RetriedAtFirst, RetriedStep, PTL DEF ConsumerSpec

-----------------------------------------------------------------------------
(* The copies of one event.  A retry and its acknowledgement arrive in      *)
(* order on one channel, so at most one message is in hand whose copy is    *)
(* already sent; requeueing what is in hand, when the process or the        *)
(* connection goes, makes that one message two.                            *)
SlotsWith(e) == {s \in Unanswered : inHand[s].event = e}
CopiesOf(e) == CarriersIn(queue, e) + CarriersIn(retrying, e) + CarriersIn(dead, e)
                 + Cardinality(SlotsWith(e))

CountsTyped == /\ crashes \in Nat /\ losses \in Nat /\ IsABag(dead)
               /\ \A e : \A bag \in {queue, retrying, dead} : IsFiniteSet(CarriersOf(bag, e))
AllPublished == \A m \in Carried : m.event \in published
OneAnswered ==
  /\ \A s, t \in Consumers : At(s, "answered") /\ At(t, "answered") => s = t
  /\ session # "open" => Held = {} /\ \A s \in Consumers : ~At(s, "answered")

CopiesInv == /\ ConsumerInv /\ CountsTyped /\ AllPublished /\ OneAnswered
             /\ OneCopyPerFault

LEMMA Carriers ==
  ASSUME NEW bag, NEW e, NEW x
  PROVE  x \in CarriersOf(bag, e)
           <=> \E m \in DOMAIN bag : \E k \in 1..bag[m] : m.event = e /\ x = <<m, k>>
BY DEF CarriersOf

LEMMA PutCarriers ==
  ASSUME NEW bag, NEW m, NEW e, IsABag(bag), IsFiniteSet(CarriersOf(bag, e))
  PROVE  /\ IsFiniteSet(CarriersOf(Put(bag, m), e))
         /\ CarriersIn(bag, e) \in Nat
         /\ CarriersIn(Put(bag, m), e) = CarriersIn(bag, e) + (IF m.event = e THEN 1 ELSE 0)
<1> DEFINE n == IF m \in DOMAIN bag THEN bag[m] ELSE 0
           x == <<m, n + 1>>
           new == Put(bag, m)
<1>1. n \in Nat /\ \A d \in DOMAIN bag : bag[d] \in Nat
  BY DEF IsABag
<1>2. /\ DOMAIN new = DOMAIN bag \union {m} /\ new[m] = n + 1
      /\ \A d \in DOMAIN bag \ {m} : new[d] = bag[d]
  BY <1>1 DEF Put, SetToBag, (+)
<1> HIDE DEF new, n
<1>3. x \notin CarriersOf(bag, e)
  BY <1>1, Carriers DEF n
<1>4. CASE m.event = e
  <2>1. ASSUME NEW y
        PROVE  y \in CarriersOf(new, e) <=> y \in CarriersOf(bag, e) \/ y = x
    <3>1. ASSUME y \in CarriersOf(new, e)
          PROVE  y \in CarriersOf(bag, e) \/ y = x
      <4>1. PICK d \in DOMAIN new : \E k \in 1..new[d] : d.event = e /\ y = <<d, k>>
        BY <3>1, Carriers
      <4>2. PICK k \in 1..new[d] : d.event = e /\ y = <<d, k>>
        BY <4>1
      <4>3. CASE d = m
        <5>1. k \in 1..(n + 1)
          BY <1>2, <4>2, <4>3
        <5>2. k = n + 1 \/ (k \in 1..n /\ n # 0)
          BY <1>1, <5>1
        <5> QED
          BY <4>2, <4>3, <5>2, Carriers DEF n
      <4>4. CASE d # m
        BY <1>2, <4>2, <4>4, Carriers
      <4> QED
        BY <4>3, <4>4
    <3>2. ASSUME y \in CarriersOf(bag, e)
          PROVE  y \in CarriersOf(new, e)
      <4>1. PICK d \in DOMAIN bag : \E k \in 1..bag[d] : d.event = e /\ y = <<d, k>>
        BY <3>2, Carriers
      <4>2. PICK k \in 1..bag[d] : d.event = e /\ y = <<d, k>>
        BY <4>1
      <4>3. d \in DOMAIN new /\ k \in 1..new[d]
        BY <1>1, <1>2 DEF n
      <4> QED
        BY <4>2, <4>3, Carriers
    <3>3. x \in CarriersOf(new, e)
      <4>1. n + 1 \in 1..new[m] /\ m \in DOMAIN new
        BY <1>1, <1>2
      <4> QED
        BY <1>4, <4>1, Carriers
    <3> QED
      BY <3>1, <3>2, <3>3
  <2>2. CarriersOf(new, e) = CarriersOf(bag, e) \union {x}
    BY <2>1
  <2>3. /\ IsFiniteSet(CarriersOf(bag, e) \union {x})
        /\ Cardinality(CarriersOf(bag, e) \union {x}) = Cardinality(CarriersOf(bag, e)) + 1
    BY <1>3, FS_AddElement
  <2>4. Cardinality(CarriersOf(bag, e)) \in Nat
    BY FS_CardinalityType
  <2> HIDE DEF x
  <2> QED
    BY <1>4, <2>2, <2>3, <2>4 DEF CarriersIn, new
<1>5. CASE m.event # e
  <2>1. CarriersOf(new, e) = CarriersOf(bag, e)
    <3>1. {d \in DOMAIN new : d.event = e} = {d \in DOMAIN bag : d.event = e}
      BY <1>2, <1>5
    <3>2. \A d \in {d \in DOMAIN bag : d.event = e} : new[d] = bag[d]
      BY <1>2, <1>5
    <3> QED
      BY <3>1, <3>2 DEF CarriersOf
  <2> QED
    BY <1>5, <2>1, FS_CardinalityType DEF CarriersIn, new
<1> QED
  BY <1>4, <1>5

LEMMA TakeCarriers ==
  ASSUME NEW bag, NEW m \in DOMAIN bag, NEW e, IsABag(bag), IsFiniteSet(CarriersOf(bag, e))
  PROVE  /\ IsFiniteSet(CarriersOf(Take(bag, m), e))
         /\ CarriersIn(bag, e) \in Nat
         /\ CarriersIn(Take(bag, m), e) = CarriersIn(bag, e) - (IF m.event = e THEN 1 ELSE 0)
<1> DEFINE n == bag[m]
           x == <<m, n>>
           new == Take(bag, m)
<1>1. /\ n \in Nat /\ n > 0 /\ \A d \in DOMAIN bag : bag[d] \in Nat /\ bag[d] > 0
  BY DEF IsABag
<1>2. /\ DOMAIN new \subseteq DOMAIN bag /\ DOMAIN bag \ {m} \subseteq DOMAIN new
      /\ \A d \in DOMAIN new : new[d] = IF d = m THEN n - 1 ELSE bag[d]
      /\ m \in DOMAIN new <=> n > 1
  BY <1>1 DEF Take, SetToBag, (-)
<1> HIDE DEF new, n
<1>3. CASE m.event = e
  <2>1. ASSUME NEW y
        PROVE  y \in CarriersOf(new, e) <=> y \in CarriersOf(bag, e) /\ y # x
    <3>1. ASSUME y \in CarriersOf(new, e)
          PROVE  y \in CarriersOf(bag, e) /\ y # x
      <4>1. PICK d \in DOMAIN new : \E k \in 1..new[d] : d.event = e /\ y = <<d, k>>
        BY <3>1, Carriers
      <4>2. PICK k \in 1..new[d] : d.event = e /\ y = <<d, k>>
        BY <4>1
      <4>3. d \in DOMAIN bag /\ k \in 1..bag[d] /\ (d = m => k # n)
        BY <1>1, <1>2 DEF n
      <4> QED
        BY <4>2, <4>3, Carriers
    <3>2. ASSUME y \in CarriersOf(bag, e), y # x
          PROVE  y \in CarriersOf(new, e)
      <4>1. PICK d \in DOMAIN bag : \E k \in 1..bag[d] : d.event = e /\ y = <<d, k>>
        BY <3>2, Carriers
      <4>2. PICK k \in 1..bag[d] : d.event = e /\ y = <<d, k>>
        BY <4>1
      <4>3. d = m => k \in 1..(n - 1) /\ n > 1
        BY <1>1, <3>2, <4>2 DEF n
      <4>4. d \in DOMAIN new /\ k \in 1..new[d]
        BY <1>1, <1>2, <4>3
      <4> QED
        BY <4>2, <4>4, Carriers
    <3> QED
      BY <3>1, <3>2
  <2>2. CarriersOf(new, e) = CarriersOf(bag, e) \ {x}
    BY <2>1
  <2>3. x \in CarriersOf(bag, e)
    <3>1. n \in 1..bag[m]
      BY <1>1 DEF n
    <3> QED
      BY <1>3, <3>1, Carriers
  <2> QED
    BY <1>3, <2>2, <2>3, FS_RemoveElement, FS_CardinalityType DEF CarriersIn, new
<1>4. CASE m.event # e
  <2>1. CarriersOf(new, e) = CarriersOf(bag, e)
    <3>1. {d \in DOMAIN new : d.event = e} = {d \in DOMAIN bag : d.event = e}
      BY <1>2, <1>4
    <3>2. \A d \in {d \in DOMAIN bag : d.event = e} : new[d] = bag[d]
      BY <1>2, <1>4
    <3> QED
      BY <3>1, <3>2 DEF CarriersOf
  <2> QED
    BY <1>4, <2>1, FS_CardinalityType DEF CarriersIn, new
<1> QED
  BY <1>3, <1>4

(* Requeueing adds at most one copy for each message in hand.              *)
LEMMA RequeueCarriers ==
  ASSUME ConsumerTyped, Requeue, NEW e, IsFiniteSet(CarriersOf(queue, e))
  PROVE  LET holders == {s \in Held : inHand[s].event = e}
         IN  /\ IsFiniteSet(CarriersOf(queue', e)) /\ IsFiniteSet(holders)
             /\ CarriersIn(queue', e) \in Nat /\ CarriersIn(queue, e) \in Nat
             /\ CarriersIn(queue', e) <= CarriersIn(queue, e) + Cardinality(holders)
<1> DEFINE holders == {s \in Held : inHand[s].event = e}
           of(m) == {s \in Held : inHand[s] = m}
           n(m) == Cardinality(of(m))
           q(m) == IF m \in DOMAIN queue THEN queue[m] ELSE 0
           place == [m \in InHands |-> CHOOSE f : f \in Bijection(of(m), 1..n(m))]
           copy == [s \in holders |-> <<inHand[s], q(inHand[s]) + place[inHand[s]][s]>>]
           added == {copy[s] : s \in holders}
<1>1. IsFiniteSet(holders) /\ \A m : IsFiniteSet(of(m)) /\ n(m) \in Nat
  BY ConsumerAssumption, FS_Subset, FS_CardinalityType DEF Held
<1>2. ASSUME NEW m \in InHands
      PROVE  place[m] \in Bijection(of(m), 1..n(m))
  <2>1. ExistsBijection(1..n(m), of(m))
    BY <1>1, FS_CardinalityType
  <2>2. ExistsBijection(of(m), 1..n(m))
    BY <2>1, Fun_ExistsBijSymmetric
  <2> QED
    BY <2>2 DEF ExistsBijection
<1>3. /\ IsFiniteSet(added) /\ Cardinality(added) <= Cardinality(holders)
      /\ Cardinality(added) \in Nat /\ Cardinality(holders) \in Nat
  <2> HIDE DEF holders, copy
  <2>0. DOMAIN copy = holders
    BY DEF copy
  <2>1. copy \in [holders -> added]
    BY <2>0 DEF copy
  <2>2. copy \in Surjection(holders, added)
    BY <2>1 DEF Surjection
  <2> HIDE DEF added
  <2> QED
    BY <1>1, <2>2, FS_Surjection, FS_CardinalityType
<1>4. /\ DOMAIN queue' = DOMAIN queue \union InHands
      /\ \A m \in DOMAIN queue' : queue'[m] = q(m) + (IF m \in InHands THEN n(m) ELSE 0)
  BY DEF Requeue, InHands, (+)
<1>5. \A m : q(m) \in Nat
  BY DEF ConsumerTyped, IsABag
<1> HIDE DEF n, q, place
<1>6. CarriersOf(queue', e) \subseteq CarriersOf(queue, e) \union added
  <2> SUFFICES ASSUME NEW y \in CarriersOf(queue', e), y \notin CarriersOf(queue, e)
               PROVE  y \in added
    OBVIOUS
  <2>1. PICK m \in DOMAIN queue' : \E k \in 1..queue'[m] : m.event = e /\ y = <<m, k>>
    BY Carriers
  <2>2. PICK k \in 1..queue'[m] : m.event = e /\ y = <<m, k>>
    BY <2>1
  <2>3. ~(m \in DOMAIN queue /\ k \in 1..queue[m])
    BY <2>2, Carriers
  <2>4. ~(k \in 1..q(m))
    BY <2>3 DEF q
  <2>5. m \in InHands /\ k - q(m) \in 1..n(m)
    <3>1. q(m) \in Nat /\ n(m) \in Nat
      BY <1>1, <1>5 DEF n
    <3>2. k \in 1..(q(m) + (IF m \in InHands THEN n(m) ELSE 0))
      BY <1>4, <2>2
    <3> QED
      BY <2>4, <3>1, <3>2
  <2>6. PICK s \in of(m) : place[m][s] = k - q(m)
    BY <1>2, <2>5 DEF Bijection, Surjection
  <2>7. s \in holders /\ copy[s] = <<m, q(m) + (k - q(m))>>
    BY <2>2, <2>6
  <2>8. q(m) + (k - q(m)) = k
    BY <1>1, <1>4, <1>5, <2>5
  <2> QED
    BY <2>2, <2>7, <2>8
<1>7. /\ IsFiniteSet(CarriersOf(queue, e) \union added)
      /\ Cardinality(CarriersOf(queue, e) \union added)
           = Cardinality(CarriersOf(queue, e)) + Cardinality(added)
               - Cardinality(CarriersOf(queue, e) \intersect added)
  BY <1>3, FS_Union
<1>8. /\ IsFiniteSet(CarriersOf(queue, e) \intersect added)
      /\ Cardinality(CarriersOf(queue, e) \intersect added) \in Nat
      /\ Cardinality(CarriersOf(queue, e)) \in Nat
  BY <1>3, FS_Subset, FS_CardinalityType
<1>9. /\ IsFiniteSet(CarriersOf(queue', e)) /\ Cardinality(CarriersOf(queue', e)) \in Nat
      /\ Cardinality(CarriersOf(queue', e)) <= Cardinality(CarriersOf(queue, e) \union added)
  BY <1>6, <1>7, FS_Subset, FS_CardinalityType
<1> HIDE DEF holders, added
<1>10. Cardinality(CarriersOf(queue', e)) <= Cardinality(CarriersOf(queue, e)) + Cardinality(holders)
  BY <1>3, <1>7, <1>8, <1>9
<1> QED
  BY <1>1, <1>8, <1>9, <1>10 DEF CarriersIn, holders

(* The four numbers a step adds to or takes from.                          *)
LEMMA CountTypes ==
  ASSUME CopiesInv, NEW e
  PROVE  /\ CarriersIn(queue, e) \in Nat /\ CarriersIn(retrying, e) \in Nat
         /\ CarriersIn(dead, e) \in Nat
         /\ IsFiniteSet(SlotsWith(e)) /\ Cardinality(SlotsWith(e)) \in Nat
         /\ crashes \in Nat /\ losses \in Nat
<1>1. SlotsWith(e) \subseteq Consumers
  BY DEF SlotsWith, Unanswered, Held
<1>2. IsFiniteSet(SlotsWith(e))
  BY <1>1, ConsumerAssumption, FS_Subset
<1> QED
  BY <1>2, FS_CardinalityType DEF CopiesInv, CountsTyped, CarriersIn

LEMMA NoMoreCopies ==
  ASSUME CopiesInv, UNCHANGED <<published, crashes, losses>>,
         \A e \in published : CopiesOf(e)' = CopiesOf(e) \/ CopiesOf(e)' = CopiesOf(e) - 1
  PROVE  OneCopyPerFault'
<1> SUFFICES ASSUME NEW e \in published
             PROVE  CopiesOf(e)' <= 1 + crashes + losses
  BY DEF OneCopyPerFault, CopiesOf, SlotsWith
<1>1. CopiesOf(e) \in Int /\ crashes \in Nat /\ losses \in Nat
  BY CountTypes DEF CopiesOf
<1>2. CopiesOf(e) <= 1 + crashes + losses
  BY DEF CopiesInv, OneCopyPerFault, CopiesOf, SlotsWith
<1> QED
  BY <1>1, <1>2

(* Nothing of an event is anywhere before it is published.                 *)
LEMMA UnpublishedHasNone ==
  ASSUME CopiesInv, NEW e, e \notin published
  PROVE  CopiesOf(e) = 0
<1>1. ASSUME NEW bag, DOMAIN bag \subseteq Carried
      PROVE  CarriersIn(bag, e) = 0
  <2>1. CarriersOf(bag, e) = {}
    BY <1>1 DEF CarriersOf, CopiesInv, AllPublished
  <2> QED
    BY <2>1, FS_EmptySet DEF CarriersIn
<1>2. SlotsWith(e) = {}
  BY DEF SlotsWith, Unanswered, CopiesInv, AllPublished, Carried, InHands
<1> QED
  BY <1>1, <1>2, FS_EmptySet DEF CopiesOf, Carried

LEMMA PublishCopies ==
  ASSUME CopiesInv, NEW x \in Events, Publish(x)
  PROVE  CountsTyped' /\ AllPublished' /\ OneAnswered' /\ OneCopyPerFault'
<1> DEFINE m == [event |-> x, retries |-> 0]
<1>1. /\ x \notin published /\ published' = published \union {x} /\ queue' = Put(queue, m)
      /\ UNCHANGED <<crashes, losses, retrying, dead, inHand, delivery, session>>
  BY DEF Publish, pipeline, shared
<1>2. m.event = x
  OBVIOUS
<1> HIDE DEF m
<1>3. /\ CountsTyped /\ IsABag(queue) /\ DOMAIN queue' = DOMAIN queue \union {m}
  BY <1>1, PutBag DEF CopiesInv, ConsumerInv, ConsumerTyped
<1>4. \A e : /\ IsFiniteSet(CarriersOf(queue', e))
             /\ CarriersIn(queue', e) = CarriersIn(queue, e) + (IF e = x THEN 1 ELSE 0)
  BY <1>1, <1>2, <1>3, PutCarriers DEF CountsTyped
<1>5. CountsTyped'
  BY <1>1, <1>3, <1>4 DEF CountsTyped
<1>6. Carried' = Carried \union {m} /\ AllPublished'
  BY <1>1, <1>2, <1>3 DEF Carried, InHands, Held, Nothing, CopiesInv, AllPublished
<1>7. OneAnswered' /\ \A e : SlotsWith(e)' = SlotsWith(e)
  BY <1>1 DEF CopiesInv, OneAnswered, At, Held, Nothing, SlotsWith, Unanswered
<1>8. \A e : CopiesOf(e)' = CopiesOf(e) + (IF e = x THEN 1 ELSE 0)
  BY <1>1, <1>4, <1>7, CountTypes DEF CopiesOf
<1>9. OneCopyPerFault'
  <2> SUFFICES ASSUME NEW e \in published'
               PROVE  CopiesOf(e)' <= 1 + crashes + losses
    BY <1>1 DEF OneCopyPerFault, CopiesOf, SlotsWith
  <2>1. CopiesOf(e) \in Int /\ crashes \in Nat /\ losses \in Nat
    BY CountTypes DEF CopiesOf
  <2>2. CASE e = x
    BY <1>1, <1>8, <2>1, <2>2, UnpublishedHasNone
  <2>3. CASE e # x
    BY <1>1, <1>8, <2>1, <2>3 DEF CopiesInv, OneCopyPerFault, CopiesOf, SlotsWith
  <2> QED
    BY <2>2, <2>3
<1> QED
  BY <1>5, <1>6, <1>7, <1>9

LEMMA ExpireCopies ==
  ASSUME CopiesInv, NEW m \in DOMAIN retrying, Expire(m)
  PROVE  CountsTyped' /\ AllPublished' /\ OneAnswered' /\ OneCopyPerFault'
<1>1. /\ queue' = Put(queue, m) /\ retrying' = Take(retrying, m)
      /\ UNCHANGED <<published, crashes, losses, dead, inHand, delivery, session>>
  BY DEF Expire, pipeline, shared
<1>2. /\ CountsTyped /\ IsABag(queue) /\ IsABag(retrying)
      /\ DOMAIN queue' = DOMAIN queue \union {m} /\ DOMAIN retrying' \subseteq DOMAIN retrying
  BY <1>1, PutBag, TakeBag DEF CopiesInv, ConsumerInv, ConsumerTyped
<1>3. \A e : /\ IsFiniteSet(CarriersOf(queue', e))
             /\ CarriersIn(queue', e) = CarriersIn(queue, e) + (IF m.event = e THEN 1 ELSE 0)
  BY <1>1, <1>2, PutCarriers DEF CountsTyped
<1>4. \A e : /\ IsFiniteSet(CarriersOf(retrying', e))
             /\ CarriersIn(retrying', e)
                  = CarriersIn(retrying, e) - (IF m.event = e THEN 1 ELSE 0)
  BY <1>1, <1>2, TakeCarriers DEF CountsTyped
<1>5. CountsTyped'
  BY <1>1, <1>2, <1>3, <1>4 DEF CountsTyped
<1>6. Carried' \subseteq Carried /\ AllPublished'
  BY <1>1, <1>2 DEF Carried, InHands, Held, Nothing, CopiesInv, AllPublished
<1>7. OneAnswered' /\ \A e : SlotsWith(e)' = SlotsWith(e)
  BY <1>1 DEF CopiesInv, OneAnswered, At, Held, Nothing, SlotsWith, Unanswered
<1>8. \A e : CopiesOf(e)' = CopiesOf(e)
  BY <1>1, <1>3, <1>4, <1>7, CountTypes DEF CopiesOf
<1> QED
  BY <1>1, <1>5, <1>6, <1>7, <1>8, NoMoreCopies

(* A fault returns what is in hand, twice at most one message of it.       *)
LEMMA RequeueCopies ==
  ASSUME CopiesInv, Requeue, UNCHANGED published, session' # "open",
         \A s \in Consumers : delivery'[s].stage # "answered",
         \/ crashes' = crashes + 1 /\ losses' = losses
         \/ crashes' = crashes /\ losses' = losses + 1
  PROVE  CountsTyped' /\ AllPublished' /\ OneAnswered' /\ OneCopyPerFault'
<1> DEFINE holders(e) == {s \in Held : inHand[s].event = e}
<1>1. /\ UNCHANGED <<retrying, dead>>
      /\ inHand' = [s \in Consumers |-> Nothing]
  BY DEF Requeue
<1>2. /\ ConsumerTyped /\ CountsTyped /\ DOMAIN queue' = DOMAIN queue \union InHands
  BY <1>1, RequeueBag DEF CopiesInv, ConsumerInv
<1>3. \A e : /\ IsFiniteSet(CarriersOf(queue', e)) /\ CarriersIn(queue', e) \in Nat
             /\ IsFiniteSet(holders(e))
             /\ CarriersIn(queue', e) <= CarriersIn(queue, e) + Cardinality(holders(e))
  BY <1>1, <1>2, RequeueCarriers DEF CountsTyped
<1>4. CountsTyped'
  <2>1. crashes' \in Nat /\ losses' \in Nat
    BY <1>1, <1>2 DEF CountsTyped
  <2>2. IsABag(dead') /\ dead' = dead /\ retrying' = retrying
    BY <1>1, <1>2 DEF CountsTyped
  <2>3. \A e : \A bag \in {queue', retrying', dead'} : IsFiniteSet(CarriersOf(bag, e))
    BY <1>2, <1>3, <2>2 DEF CountsTyped
  <2> QED
    BY <2>1, <2>2, <2>3 DEF CountsTyped
<1>5. Held' = {} /\ OneAnswered' /\ \A e : SlotsWith(e)' = {}
  BY <1>1 DEF OneAnswered, At, Held, SlotsWith, Unanswered
<1>6. Carried' \subseteq Carried /\ AllPublished'
  BY <1>1, <1>2, <1>5 DEF Carried, InHands, CopiesInv, AllPublished
<1>7. ASSUME NEW e
      PROVE  /\ Cardinality(holders(e)) <= Cardinality(SlotsWith(e)) + 1
             /\ Cardinality(holders(e)) \in Nat
  <2>1. CASE \E a \in Consumers : At(a, "answered")
    <3>1. PICK a \in Consumers : At(a, "answered")
      BY <2>1
    <3>2. holders(e) \subseteq SlotsWith(e) \union {a}
      BY <3>1 DEF CopiesInv, OneAnswered, SlotsWith, Unanswered, Held
    <3>3. /\ IsFiniteSet(SlotsWith(e) \union {a})
          /\ Cardinality(SlotsWith(e) \union {a}) <= Cardinality(SlotsWith(e)) + 1
          /\ Cardinality(SlotsWith(e) \union {a}) \in Nat
      <4>1. IsFiniteSet(SlotsWith(e)) /\ Cardinality(SlotsWith(e)) \in Nat
        BY CountTypes
      <4>2. /\ IsFiniteSet(SlotsWith(e) \union {a})
            /\ Cardinality(SlotsWith(e) \union {a})
                 = IF a \in SlotsWith(e) THEN Cardinality(SlotsWith(e))
                                         ELSE Cardinality(SlotsWith(e)) + 1
        BY <4>1, FS_AddElement
      <4> QED
        BY <4>1, <4>2
    <3>4. /\ Cardinality(holders(e)) <= Cardinality(SlotsWith(e) \union {a})
          /\ Cardinality(holders(e)) \in Nat
      BY <3>2, <3>3, FS_Subset, FS_CardinalityType
    <3>5. Cardinality(SlotsWith(e)) \in Nat
      BY CountTypes
    <3> HIDE DEF holders
    <3> QED
      BY <3>3, <3>4, <3>5
  <2>2. CASE ~\E a \in Consumers : At(a, "answered")
    <3>1. holders(e) = SlotsWith(e)
      BY <2>2 DEF SlotsWith, Unanswered, Held
    <3>2. Cardinality(SlotsWith(e)) \in Nat
      BY CountTypes
    <3> HIDE DEF holders
    <3> QED
      BY <3>1, <3>2
  <2> QED
    BY <2>1, <2>2
<1>8. OneCopyPerFault'
  <2> SUFFICES ASSUME NEW e \in published
               PROVE  CopiesOf(e)' <= 1 + crashes' + losses'
    BY <1>1 DEF OneCopyPerFault, CopiesOf, SlotsWith
  <2>1. CopiesOf(e) <= 1 + crashes + losses
    BY DEF CopiesInv, OneCopyPerFault, CopiesOf, SlotsWith
  <2>2. CopiesOf(e)' = CarriersIn(queue', e) + CarriersIn(retrying, e) + CarriersIn(dead, e) + 0
    BY <1>1, <1>5, FS_EmptySet DEF CopiesOf
  <2> HIDE DEF holders
  <2> QED
    BY <1>1, <1>3, <1>7, <2>1, <2>2, CountTypes DEF CopiesOf
<1> QED
  BY <1>4, <1>5, <1>6, <1>8

LEMMA SessionEndCopies ==
  ASSUME CopiesInv, LoseConnection \/ ConsumerCrash
  PROVE  CountsTyped' /\ AllPublished' /\ OneAnswered' /\ OneCopyPerFault'
<1>1. /\ Requeue /\ UNCHANGED published /\ session' # "open"
      /\ \A s \in Consumers : delivery'[s].stage # "answered"
      /\ \/ crashes' = crashes + 1 /\ losses' = losses
         \/ crashes' = crashes /\ losses' = losses + 1
  BY ConsumerAssumption
  DEF LoseConnection, ConsumerCrash, CountCrash, StopProcess, shared, At, Idle
<1> QED
  BY <1>1, RequeueCopies

-----------------------------------------------------------------------------
(* A message that leaves its slot.                                          *)
LEMMA LeftSlot ==
  ASSUME CopiesInv, NEW s \in Consumers, Release(s), session = "open", session' = session
  PROVE  /\ OneAnswered' /\ InHands' \subseteq InHands
         /\ \A e : /\ Cardinality(SlotsWith(e))' \in Nat
                   /\ Cardinality(SlotsWith(e))'
                        = Cardinality(SlotsWith(e)) - (IF s \in SlotsWith(e) THEN 1 ELSE 0)
<1>1. /\ delivery'[s] = Idle /\ inHand'[s] = Nothing
      /\ \A t \in Consumers \ {s} : delivery'[t] = delivery[t] /\ inHand'[t] = inHand[t]
  BY ConsumerAssumption DEF Release, CopiesInv, ConsumerInv, ConsumerTyped
<1>2. OneAnswered' /\ InHands' \subseteq InHands
  BY <1>1 DEF CopiesInv, OneAnswered, At, Idle, InHands, Held, Nothing
<1>3. ASSUME NEW e
      PROVE  /\ Cardinality(SlotsWith(e))' \in Nat
             /\ Cardinality(SlotsWith(e))'
                  = Cardinality(SlotsWith(e)) - (IF s \in SlotsWith(e) THEN 1 ELSE 0)
  <2>1. SlotsWith(e)' = SlotsWith(e) \ {s}
    BY <1>1 DEF SlotsWith, Unanswered, Held, At
  <2>2. IsFiniteSet(SlotsWith(e)) /\ Cardinality(SlotsWith(e)) \in Nat
    BY CountTypes
  <2>3. s \notin SlotsWith(e) => SlotsWith(e) \ {s} = SlotsWith(e)
    OBVIOUS
  <2>4. IsFiniteSet(SlotsWith(e) \ {s}) /\ Cardinality(SlotsWith(e) \ {s}) \in Nat
    BY <2>2, FS_Subset, FS_CardinalityType
  <2>5. s \in SlotsWith(e) => Cardinality(SlotsWith(e) \ {s}) = Cardinality(SlotsWith(e)) - 1
    BY <2>2, FS_RemoveElement
  <2> QED
    BY <2>1, <2>2, <2>3, <2>4, <2>5
<1> QED
  BY <1>2, <1>3

(* What is in hand and not answered is counted in its slot.                 *)
LEMMA InSlot ==
  ASSUME CopiesInv, NEW s \in Consumers, session = "open",
         delivery[s].stage \in Calls \union {"reject"}
  PROVE  /\ inHand[s] \in Messages /\ inHand[s] \in InHands
         /\ \A e : s \in SlotsWith(e) <=> inHand[s].event = e
<1>1. delivery[s] # Idle /\ ~At(s, "answered")
  BY DEF Calls, Idle, At
<1>2. inHand[s] # Nothing /\ inHand[s] \in Messages
  BY <1>1 DEF CopiesInv, ConsumerInv, Handlers, HandlersHold, ConsumerTyped
<1> QED
  BY <1>1, <1>2 DEF SlotsWith, Unanswered, Held, InHands

LEMMA ReceiveCopies ==
  ASSUME CopiesInv, NEW s \in Consumers, NEW m \in DOMAIN queue, Receive(s, m)
  PROVE  CountsTyped' /\ AllPublished' /\ OneAnswered' /\ OneCopyPerFault'
<1>1. /\ session = "open" /\ inHand[s] = Nothing /\ queue' = Take(queue, m)
      /\ inHand' = [inHand EXCEPT ![s] = m]
      /\ delivery' = [delivery EXCEPT ![s] = Accepted(m.event)]
      /\ UNCHANGED <<published, crashes, losses, retrying, dead, session>>
  BY DEF Receive, shared
<1>2. /\ CountsTyped /\ IsABag(queue) /\ DOMAIN queue' \subseteq DOMAIN queue
      /\ m \in Messages /\ m # Nothing
  BY <1>1, TakeBag DEF CopiesInv, ConsumerInv, ConsumerTyped, Messages, Nothing
<1>3. \A e : /\ IsFiniteSet(CarriersOf(queue', e))
             /\ CarriersIn(queue', e) = CarriersIn(queue, e) - (IF m.event = e THEN 1 ELSE 0)
  BY <1>1, <1>2, TakeCarriers DEF CountsTyped
<1>4. CountsTyped'
  BY <1>1, <1>2, <1>3 DEF CountsTyped
<1>5. /\ inHand'[s] = m /\ delivery'[s].stage \in {"ingest", "reject"}
      /\ \A t \in Consumers \ {s} : delivery'[t] = delivery[t] /\ inHand'[t] = inHand[t]
  BY <1>1, ConsumerAssumption DEF CopiesInv, ConsumerInv, ConsumerTyped, Accepted
<1>6. Carried' \subseteq Carried /\ AllPublished'
  <2>1. InHands' \subseteq InHands \union {m}
    BY <1>5 DEF InHands, Held, Nothing
  <2> QED
    BY <1>1, <1>2, <2>1 DEF Carried, CopiesInv, AllPublished
<1>7. OneAnswered'
  BY <1>1, <1>5 DEF CopiesInv, OneAnswered, At
<1>8. ASSUME NEW e
      PROVE  CopiesOf(e)' = CopiesOf(e)
  <2>1. SlotsWith(e)' = IF m.event = e THEN SlotsWith(e) \union {s} ELSE SlotsWith(e)
    BY <1>1, <1>2, <1>5 DEF SlotsWith, Unanswered, Held, At
  <2>2. s \notin SlotsWith(e)
    BY <1>1 DEF SlotsWith, Unanswered, Held
  <2>3. Cardinality(SlotsWith(e) \union {s}) = Cardinality(SlotsWith(e)) + 1
    BY <2>2, CountTypes, FS_AddElement
  <2> QED
    BY <1>1, <1>3, <2>1, <2>3, CountTypes DEF CopiesOf
<1> QED
  BY <1>1, <1>4, <1>6, <1>7, <1>8, NoMoreCopies

LEMMA HandleCopies ==
  ASSUME CopiesInv, NEW s \in Consumers, Handle(s)
  PROVE  CountsTyped' /\ AllPublished' /\ OneAnswered' /\ OneCopyPerFault'
<1>1. /\ UNCHANGED <<published, crashes, losses, queue, retrying, dead, inHand, session>>
      /\ delivery[s].stage \in Calls
  BY DEF Handle, Call, IngestAlert, ProcessAlert, RefreshImpact, Dispatch, queues, At,
      Calls
<1>2. /\ delivery'[s].stage # "answered"
      /\ \A t \in Slots \ {s} : delivery'[t] = delivery[t]
  <2>1. delivery \in [Slots -> {Idle} \union Deliveries] /\ s \in Slots
    BY ConsumerAssumption DEF CopiesInv, ConsumerInv, ConsumerTyped
  <2>2. delivery[s] \in Deliveries
    BY <1>1, <2>1 DEF Idle, Calls
  <2>3. CASE IngestAlert(s)
    BY <2>1, <2>2, <2>3 DEF IngestAlert, MoveTo, Deliveries
  <2>4. CASE ProcessAlert(s)
    BY <2>1, <2>2, <2>4 DEF ProcessAlert, Deliveries
  <2>5. CASE RefreshImpact(s)
    <3>1. PICK x \in {"dispatch", "settle"} : delivery' = [delivery EXCEPT ![s].stage = x]
      BY <2>5 DEF RefreshImpact, MoveTo
    <3> QED
      BY <2>1, <2>2, <3>1 DEF Deliveries
  <2>6. CASE Dispatch(s)
    BY <2>1, <2>2, <2>6 DEF Dispatch, MoveTo, Deliveries
  <2> QED
    BY <2>3, <2>4, <2>5, <2>6 DEF Handle, Call
<1>3. ~At(s, "answered")
  BY <1>1 DEF At, Calls
<1>4. CountsTyped' /\ AllPublished'
  BY <1>1 DEF CopiesInv, CountsTyped, AllPublished, Carried, InHands, Held, Nothing
<1>5. \A t \in Consumers : At(t, "answered")' <=> At(t, "answered")
  BY <1>2, <1>3, ConsumerAssumption DEF At
<1>6. OneAnswered' /\ \A e : SlotsWith(e)' = SlotsWith(e)
  BY <1>1, <1>5 DEF CopiesInv, OneAnswered, Held, Nothing, SlotsWith, Unanswered
<1>7. \A e : CopiesOf(e)' = CopiesOf(e)
  BY <1>1, <1>6 DEF CopiesOf
<1> QED
  BY <1>1, <1>4, <1>6, <1>7, NoMoreCopies

LEMMA AckCopies ==
  ASSUME CopiesInv, NEW s \in Consumers, Ack(s)
  PROVE  CountsTyped' /\ AllPublished' /\ OneAnswered' /\ OneCopyPerFault'
<1>1. /\ session = "open" /\ Release(s)
      /\ UNCHANGED <<published, crashes, losses, queue, retrying, dead, session>>
  BY DEF Ack, shared
<1>2. CountsTyped' /\ AllPublished' /\ OneAnswered'
  BY <1>1, LeftSlot DEF CopiesInv, CountsTyped, AllPublished, Carried
<1>3. ASSUME NEW e
      PROVE  CopiesOf(e)' = CopiesOf(e) \/ CopiesOf(e)' = CopiesOf(e) - 1
  <2>1. \/ Cardinality(SlotsWith(e))' = Cardinality(SlotsWith(e))
        \/ Cardinality(SlotsWith(e))' = Cardinality(SlotsWith(e)) - 1
    BY <1>1, LeftSlot, CountTypes
  <2> QED
    BY <1>1, <2>1, CountTypes DEF CopiesOf
<1> QED
  BY <1>1, <1>2, <1>3, NoMoreCopies

LEMMA RejectCopies ==
  ASSUME CopiesInv, NEW s \in Consumers, Reject(s) \/ DeadLetter(s)
  PROVE  CountsTyped' /\ AllPublished' /\ OneAnswered' /\ OneCopyPerFault'
<1>1. /\ session = "open" /\ Release(s) /\ dead' = Put(dead, inHand[s])
      /\ delivery[s].stage \in Calls \union {"reject"}
      /\ UNCHANGED <<published, crashes, losses, queue, retrying, session>>
  BY DEF Reject, DeadLetter, CallThrows, shared, At
<1>2. PICK m : m = inHand[s]
  OBVIOUS
<1>3. /\ CountsTyped /\ m \in InHands
      /\ \A e : s \in SlotsWith(e) <=> m.event = e
  BY <1>1, <1>2, InSlot DEF CopiesInv
<1>4. IsABag(dead') /\ DOMAIN dead' = DOMAIN dead \union {m}
  BY <1>1, <1>2, <1>3, PutBag DEF CountsTyped
<1>5. \A e : /\ IsFiniteSet(CarriersOf(dead', e))
             /\ CarriersIn(dead', e) = CarriersIn(dead, e) + (IF m.event = e THEN 1 ELSE 0)
  BY <1>1, <1>2, <1>3, PutCarriers DEF CountsTyped
<1>6. CountsTyped'
  BY <1>1, <1>3, <1>4, <1>5 DEF CountsTyped
<1>7. OneAnswered' /\ Carried' \subseteq Carried /\ AllPublished'
  BY <1>1, <1>3, <1>4, LeftSlot DEF Carried, CopiesInv, AllPublished
<1>8. ASSUME NEW e
      PROVE  CopiesOf(e)' = CopiesOf(e)
  BY <1>1, <1>3, <1>5, LeftSlot, CountTypes DEF CopiesOf
<1> QED
  BY <1>1, <1>6, <1>7, <1>8, NoMoreCopies

(* A retry sends the copy and takes the original out of the count.          *)
LEMMA RetryCopies ==
  ASSUME CopiesInv, NEW s \in Consumers, Retry(s)
  PROVE  CountsTyped' /\ AllPublished' /\ OneAnswered' /\ OneCopyPerFault'
<1>1. /\ session = "open" /\ delivery[s].stage \in Calls
      /\ \A t \in Consumers : ~At(t, "answered")
      /\ retrying' = Put(retrying, Retried(inHand[s]))
      /\ delivery' = [delivery EXCEPT ![s].stage = "answered"]
      /\ UNCHANGED <<published, crashes, losses, queue, dead, inHand, session>>
  BY DEF Retry, CallThrows, MoveTo
<1>2. PICK m : m = Retried(inHand[s])
  OBVIOUS
<1>3. /\ CountsTyped /\ IsABag(retrying)
      /\ inHand[s] \in Messages /\ inHand[s] \in InHands /\ m.event = inHand[s].event
      /\ \A e : s \in SlotsWith(e) <=> m.event = e
  <2>1. inHand[s] \in Messages /\ inHand[s] \in InHands
        /\ \A e : s \in SlotsWith(e) <=> inHand[s].event = e
    BY <1>1, InSlot
  <2>2. m.event = inHand[s].event
    BY <1>2, <2>1 DEF Retried, Messages
  <2> QED
    BY <2>1, <2>2 DEF CopiesInv, ConsumerInv, ConsumerTyped
<1>4. DOMAIN retrying' = DOMAIN retrying \union {m}
  BY <1>1, <1>2, PutBag
<1>5. \A e : /\ IsFiniteSet(CarriersOf(retrying', e))
             /\ CarriersIn(retrying', e)
                  = CarriersIn(retrying, e) + (IF m.event = e THEN 1 ELSE 0)
  BY <1>1, <1>2, <1>3, PutCarriers DEF CountsTyped
<1>6. CountsTyped'
  BY <1>1, <1>3, <1>5 DEF CountsTyped
<1>7. AllPublished'
  <2>1. Carried' = Carried \union {m}
    BY <1>1, <1>4 DEF Carried, InHands, Held, Nothing
  <2>2. m.event \in published
    BY <1>3 DEF Carried, CopiesInv, AllPublished
  <2> QED
    BY <1>1, <2>1, <2>2 DEF CopiesInv, AllPublished
<1>8. \A t \in Consumers : At(t, "answered")' <=> t = s
  <2>1. delivery \in [Slots -> {Idle} \union Deliveries] /\ s \in Slots
    BY ConsumerAssumption DEF CopiesInv, ConsumerInv, ConsumerTyped
  <2>2. delivery[s] \in Deliveries
    BY <1>1, <2>1 DEF Idle, Calls
  <2> QED
    BY <1>1, <2>1, <2>2, ConsumerAssumption DEF At, Deliveries
<1>9. OneAnswered' /\ \A e : SlotsWith(e)' = SlotsWith(e) \ {s}
  BY <1>1, <1>8 DEF OneAnswered, Held, Nothing, SlotsWith, Unanswered
<1>10. ASSUME NEW e
       PROVE  CopiesOf(e)' = CopiesOf(e)
  <2>1. s \notin SlotsWith(e) => SlotsWith(e) \ {s} = SlotsWith(e)
    OBVIOUS
  <2>2. s \in SlotsWith(e) => Cardinality(SlotsWith(e) \ {s}) = Cardinality(SlotsWith(e)) - 1
    BY CountTypes, FS_RemoveElement
  <2>3. Cardinality(SlotsWith(e))' = Cardinality(SlotsWith(e)) - (IF m.event = e THEN 1 ELSE 0)
    <3>1. Cardinality(SlotsWith(e)) \in Nat
      BY CountTypes
    <3>2. Cardinality(SlotsWith(e))' = Cardinality(SlotsWith(e) \ {s})
      BY <1>9
    <3>3. s \in SlotsWith(e) <=> m.event = e
      BY <1>3
    <3> QED
      BY <2>1, <2>2, <3>1, <3>2, <3>3
  <2> QED
    BY <1>1, <1>5, <2>3, CountTypes DEF CopiesOf
<1> QED
  BY <1>1, <1>6, <1>7, <1>9, <1>10, NoMoreCopies

(* Start, a stuttering step, and the end of a process without a channel:    *)
(* no message moves.                                                       *)
LEMMA StillCopies ==
  ASSUME CopiesInv, UNCHANGED <<published, crashes, losses, queue, retrying, dead, inHand>>,
         \/ UNCHANGED <<delivery, session>>
         \/ UNCHANGED delivery /\ session = "down"
         \/ session # "open" /\ \A t \in Consumers : delivery'[t] = Idle
  PROVE  CountsTyped' /\ AllPublished' /\ OneAnswered' /\ OneCopyPerFault'
<1>1. CountsTyped' /\ AllPublished' /\ Held' = Held
  BY DEF CopiesInv, CountsTyped, AllPublished, Carried, InHands, Held, Nothing
<1>2. OneAnswered' /\ \A e : SlotsWith(e)' = SlotsWith(e)
  <2>1. CASE UNCHANGED <<delivery, session>>
    BY <1>1, <2>1 DEF CopiesInv, OneAnswered, At, SlotsWith, Unanswered
  <2>2. CASE UNCHANGED delivery /\ session = "down"
    BY <1>1, <2>2 DEF CopiesInv, OneAnswered, At, SlotsWith, Unanswered
  <2>3. CASE session # "open" /\ \A t \in Consumers : delivery'[t] = Idle
    BY <1>1, <2>3 DEF CopiesInv, OneAnswered, At, Idle, SlotsWith, Unanswered
  <2> QED
    BY <2>1, <2>2, <2>3
<1>3. \A e : CopiesOf(e)' = CopiesOf(e)
  BY <1>2 DEF CopiesOf
<1> QED
  BY <1>1, <1>2, <1>3, NoMoreCopies

LEMMA AnswerFailsCopies ==
  ASSUME CopiesInv, NEW s \in Consumers, AnswerFails(s)
  PROVE  CountsTyped' /\ AllPublished' /\ OneAnswered' /\ OneCopyPerFault'
<1>1. /\ session = "lost"
      /\ UNCHANGED <<published, crashes, losses, queue, retrying, dead, inHand>>
  BY DEF AnswerFails, CannotAnswer, CallThrows, StopProcess, queues, shared
<1>2. \A t \in Consumers : delivery'[t] = Idle
  BY ConsumerAssumption DEF AnswerFails, StopProcess
<1> QED
  BY <1>1, <1>2, StillCopies

LEMMA CopiesStep == CopiesInv /\ [ConsumerNext]_consumerVars => CopiesInv'
<1> SUFFICES ASSUME CopiesInv, [ConsumerNext]_consumerVars
             PROVE  CopiesInv'
  OBVIOUS
<1>1. ConsumerInv'
  BY ConsumerInvKept DEF CopiesInv
<1>2. CountsTyped' /\ AllPublished' /\ OneAnswered' /\ OneCopyPerFault'
  <2>1. CASE \E e \in Events : Publish(e)
    BY <2>1, PublishCopies
  <2>2. CASE \E m \in DOMAIN retrying : Expire(m)
    BY <2>2, ExpireCopies
  <2>3. CASE LoseConnection \/ ConsumerCrash
    BY <2>3, SessionEndCopies
  <2>4. CASE Start \/ UNCHANGED consumerVars
    <3>1. UNCHANGED <<published, crashes, losses, queue, retrying, dead, inHand, delivery>>
          /\ (session' = session \/ session = "down")
      BY <2>4 DEF Start, consumerVars, pipeline, shared, queues
    <3> QED
      BY <3>1, StillCopies
  <2>5. CASE \E s \in Consumers : ConsumerStep(s)
    BY <2>5, ReceiveCopies, HandleCopies, AckCopies, RejectCopies, RetryCopies,
       AnswerFailsCopies
    DEF ConsumerStep, MessageStep
  <2> QED
    BY <2>1, <2>2, <2>3, <2>4, <2>5 DEF ConsumerNext, QueueStep
<1> QED
  BY <1>1, <1>2 DEF CopiesInv

LEMMA CopiesAtFirst == ConsumerInit => CopiesInv
<1> SUFFICES ASSUME ConsumerInit
             PROVE  CountsTyped /\ AllPublished /\ OneAnswered /\ OneCopyPerFault
  BY ConsumerInvAtFirst DEF CopiesInv
<1>1. /\ DOMAIN queue = {} /\ DOMAIN retrying = {} /\ DOMAIN dead = {} /\ Held = {}
      /\ published = {} /\ crashes = 0 /\ losses = 0 /\ IsABag(dead)
      /\ delivery = [s \in Slots |-> Idle]
  BY DEF ConsumerInit, PipelineInit, EmptyBag, SetToBag, Held, IsABag
<1>2. \A e : \A bag \in {queue, retrying, dead} : CarriersOf(bag, e) = {}
  BY <1>1 DEF CarriersOf
<1>3. CountsTyped
  BY <1>1, <1>2, FS_EmptySet DEF CountsTyped
<1>4. AllPublished /\ OneAnswered /\ OneCopyPerFault
  BY <1>1, ConsumerAssumption
  DEF AllPublished, Carried, InHands, OneAnswered, At, Idle, OneCopyPerFault
<1> QED
  BY <1>3, <1>4

(* Retries do not multiply (retryOrDeadLetter and the broker's              *)
(* redeliveries): but for one copy more with each crash or lost connection, *)
(* which may come between a retry and its acknowledgement, one message      *)
(* carries each event, whatever the number of slots, retries and events.    *)
THEOREM RetriesDoNotMultiply == ConsumerSpec => []OneCopyPerFault
<1>1. CopiesInv => OneCopyPerFault
  BY DEF CopiesInv
<1> QED
  BY CopiesAtFirst, CopiesStep, <1>1, PTL DEF ConsumerSpec
=============================================================================
