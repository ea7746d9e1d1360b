---------------------------- MODULE AlertConsumer ----------------------------
(***************************************************************************)
(* AlertConsumerService (src/alerts/alert-consumer.service.ts) on the       *)
(* topology of RabbitMqService: the alert queue, a retry queue whose        *)
(* expired messages return to the alert queue through the events exchange,  *)
(* and a dead-letter queue.                                                *)
(*                                                                         *)
(* A message carries its event and its x-retry-count.  RabbitMQ is outside  *)
(* the repository: durable queues, one consumer channel whose publications  *)
(* and acknowledgements arrive in order, and unacknowledged messages that   *)
(* return to the queue when the channel is gone.  A message's slot is one   *)
(* of the prefetch count's.  Delays are not modelled: an expiration is      *)
(* reached at any later time, and the queues are bags, because nothing      *)
(* here relies on their order.                                             *)
(***************************************************************************)
EXTENDS AlertPipeline, FiniteSets, Bags

CONSTANTS Consumers,    \* the slots of the consumer, one per prefetched message
          MaxRetries,   \* RABBITMQ_MAX_RETRIES
          MaxLosses     \* bound: losses of the connection

ASSUME ConsumerAssumption ==
  /\ Consumers \subseteq Slots
  /\ IsFiniteSet(Consumers)
  /\ MaxRetries \in Nat
  /\ MaxLosses \in Nat

VARIABLES
  published,   \* events the provider has published
  queue,       \* the alert queue, a bag of messages
  retrying,    \* the retry queue
  dead,        \* the dead-letter queue
  inHand,      \* the unacknowledged message of each consumer slot
  session,     \* the process and its channel
  failures,    \* failed handlings of each event, up to MaxRetries + 1
  losses       \* losses of the connection so far

queues == <<queue, retrying, dead, inHand>>
consumerVars == <<pipeline, published, queues, session, failures, losses>>

Messages == [event : Events, retries : 0..MaxRetries]
Nothing == [event |-> "none"]

ConsumerTypeOK ==
  /\ PipelineTypeOK
  /\ published \subseteq Events
  /\ \A bag \in {queue, retrying, dead} :
       /\ DOMAIN bag \subseteq Messages
       /\ \A m \in DOMAIN bag : bag[m] \in Nat \ {0}
  /\ inHand \in [Consumers -> Messages \union {Nothing}]
  /\ session \in {"down", "open", "lost"}
  /\ failures \in [Events -> 0..(MaxRetries + 1)]
  /\ losses \in 0..MaxLosses

ConsumerInit ==
  /\ PipelineInit
  /\ published = {}
  /\ queue = EmptyBag
  /\ retrying = EmptyBag
  /\ dead = EmptyBag
  /\ inHand = [s \in Consumers |-> Nothing]
  /\ session = "down"
  /\ failures = [e \in Events |-> 0]
  /\ losses = 0

Put(bag, m) == bag (+) SetToBag({m})
Take(bag, m) == bag (-) SetToBag({m})

-----------------------------------------------------------------------------
(* RabbitMQ and the provider.                                               *)

Publish(e) ==
  /\ e \notin published
  /\ published' = published \union {e}
  /\ queue' = Put(queue, [event |-> e, retries |-> 0])
  /\ UNCHANGED <<pipeline, retrying, dead, inHand, session, failures, losses>>

(* A retried message expires and is dead-lettered to the alert queue.  Its  *)
(* delay is longer than the acknowledgement sent with it takes to arrive.   *)
Expire(m) ==
  /\ BagIn(m, retrying)
  /\ \A s \in Consumers : ~At(s, "answered")
  /\ retrying' = Take(retrying, m)
  /\ queue' = Put(queue, m)
  /\ UNCHANGED <<pipeline, published, dead, inHand, session, failures, losses>>

Held == {s \in Consumers : inHand[s] # Nothing}

(* Every unacknowledged message returns to the queue as it was.             *)
Requeue ==
  /\ queue' = queue (+) [m \in {inHand[s] : s \in Held} |->
                           Cardinality({s \in Held : inHand[s] = m})]
  /\ inHand' = [s \in Consumers |-> Nothing]
  /\ UNCHANGED <<retrying, dead>>

(* The broker closes the connection, as it does when it is stopped: only    *)
(* 'close' is emitted, and the handlers go on with what they do, but for    *)
(* those whose acknowledgement was on its way: they were done.  A broken    *)
(* connection emits 'error', for which nothing listens: the process stops,  *)
(* which is ConsumerCrash.                                                  *)
LoseConnection ==
  /\ session = "open"
  /\ losses < MaxLosses
  /\ losses' = losses + 1
  /\ session' = "lost"
  /\ delivery' = [s \in Slots |-> IF s \in Consumers /\ At(s, "answered")
                                 THEN Idle ELSE delivery[s]]
  /\ Requeue
  /\ UNCHANGED <<shared, published, failures>>

-----------------------------------------------------------------------------
(* onModuleInit: topology, prefetch and subscription.                       *)
Start ==
  /\ session = "down"
  /\ session' = "open"
  /\ UNCHANGED <<pipeline, published, queues, failures, losses>>

StopProcess ==
  /\ session' = "down"
  /\ delivery' = [s \in Slots |-> IF s \in Consumers THEN Idle ELSE delivery[s]]
  /\ UNCHANGED <<published, failures>>

ConsumerCrash ==
  /\ session # "down"
  /\ CountCrash
  /\ StopProcess
  /\ Requeue
  /\ UNCHANGED <<database, losses>>

(* RabbitMQ hands a message to a free slot; deserialize accepts it or not.  *)
Receive(s, m) ==
  /\ session = "open"
  /\ inHand[s] = Nothing
  /\ delivery[s] = Idle
  /\ BagIn(m, queue)
  /\ queue' = Take(queue, m)
  /\ inHand' = [inHand EXCEPT ![s] = m]
  /\ delivery' = [delivery EXCEPT ![s] = Accepted(m.event)]
  /\ UNCHANGED <<shared, published, retrying, dead, session, failures, losses>>

Handle(s) ==
  /\ Call(s)
  /\ UNCHANGED <<published, queues, session, failures, losses>>

(* The message leaves its slot, by ack or by nack without requeue.          *)
Release(s) ==
  /\ inHand' = [inHand EXCEPT ![s] = Nothing]
  /\ delivery' = [delivery EXCEPT ![s] = Idle]

(* ack, of a message handled, or of one whose retry has been sent.          *)
Ack(s) ==
  /\ session = "open"
  /\ delivery[s].stage \in {"settle", "answered"}
  /\ Release(s)
  /\ UNCHANGED <<shared, published, queue, retrying, dead, session, failures, losses>>

(* InvalidAlertMessageError: nack without requeue, to the dead letters.     *)
Reject(s) ==
  /\ session = "open"
  /\ At(s, "reject")
  /\ dead' = Put(dead, inHand[s])
  /\ Release(s)
  /\ UNCHANGED <<shared, published, queue, retrying, session, failures, losses>>

CountFailure(e) ==
  failures' = [failures EXCEPT ![e] = IF @ > MaxRetries THEN @ ELSE @ + 1]

(* Faulty variant: one retry fewer.                                         *)
DeadLetterEarly(s) ==
  /\ session = "open"
  /\ CallThrows(s)
  /\ inHand[s].retries + 1 >= MaxRetries
  /\ dead' = Put(dead, inHand[s])
  /\ Release(s)
  /\ CountFailure(inHand[s].event)
  /\ UNCHANGED <<published, queue, retrying, session, losses>>

(* retryOrDeadLetter with its retries exhausted: nack.                      *)
DeadLetter(s) ==
  /\ session = "open"
  /\ CallThrows(s)
  /\ inHand[s].retries >= MaxRetries
  /\ dead' = Put(dead, inHand[s])
  /\ Release(s)
  /\ CountFailure(inHand[s].event)
  /\ UNCHANGED <<published, queue, retrying, session, losses>>

Retried(m) == [m EXCEPT !.retries = @ + 1]

(* Faulty variant: returns the message to its queue besides sending a retry. *)
RetryAndRequeue(s) ==
  /\ session = "open"
  /\ CallThrows(s)
  /\ inHand[s].retries < MaxRetries
  /\ retrying' = Put(retrying, Retried(inHand[s]))
  /\ queue' = Put(queue, inHand[s])
  /\ Release(s)
  /\ CountFailure(inHand[s].event)
  /\ UNCHANGED <<published, dead, session, losses>>

(* Faulty variant: acknowledges the message, then sends its retry.          *)
RetryAfterAck(s) ==
  /\ session = "open"
  /\ CallThrows(s)
  /\ inHand[s].retries < MaxRetries
  /\ Release(s)
  /\ CountFailure(inHand[s].event)
  /\ \/ retrying' = Put(retrying, Retried(inHand[s]))
     \/ UNCHANGED retrying
  /\ UNCHANGED <<published, queue, dead, session, losses>>

(* retryOrDeadLetter: the copy is sent, with its count raised, and at once  *)
(* the ack of the original; a fault may come between their arrivals, but no *)
(* other copy: what the one channel sends arrives in its order.             *)
Retry(s) ==
  /\ session = "open"
  /\ CallThrows(s)
  /\ \A t \in Consumers : ~At(t, "answered")
  /\ inHand[s].retries < MaxRetries
  /\ retrying' = Put(retrying, Retried(inHand[s]))
  /\ MoveTo(s, "answered")
  /\ CountFailure(inHand[s].event)
  /\ UNCHANGED <<published, queue, dead, inHand, session, losses>>

(* On a closed channel ack, nack and sendToQueue throw, the last one out of *)
(* handleMessage: the unhandled rejection ends the process.                 *)
CannotAnswer(s) ==
  /\ session = "lost"
  /\ \/ delivery[s].stage \in {"settle", "reject"} /\ UNCHANGED shared
     \/ CallThrows(s)

AnswerFails(s) ==
  /\ CannotAnswer(s)
  /\ StopProcess
  /\ UNCHANGED <<queues, losses>>

MessageStep(s) ==
  \/ \E m \in DOMAIN queue : Receive(s, m)
  \/ Handle(s)     \/ Ack(s) \/ Reject(s)
  \/ DeadLetter(s) \/ Retry(s)

ConsumerStep(s) == MessageStep(s) \/ AnswerFails(s)

QueueStep ==
  \/ \E e \in Events : Publish(e)
  \/ \E m \in DOMAIN retrying : Expire(m)
  \/ Start \/ LoseConnection

ConsumerNext == QueueStep \/ (\E s \in Consumers : ConsumerStep(s)) \/ ConsumerCrash

ConsumerSpec == ConsumerInit /\ [][ConsumerNext]_consumerVars

(* The container is restarted, expirations pass, a queued message is handed *)
(* to a free slot, and a handler that awaits gets an answer, be it an error.*)
ConsumerFairness ==
  /\ WF_consumerVars(Start)
  /\ WF_consumerVars(\E m \in DOMAIN retrying : Expire(m))
  /\ \A s \in Consumers : WF_consumerVars(ConsumerStep(s))

ConsumerFairSpec == ConsumerSpec /\ ConsumerFairness

-----------------------------------------------------------------------------
CopiesLeft(e) == \/ \E bag \in {queue, retrying} : \E m \in DOMAIN bag : m.event = e
                 \/ \E s \in Held : inHand[s].event = e
IsDead(e) == \E m \in DOMAIN dead : m.event = e

(* No message is lost: a published event that is not completely handled is  *)
(* in a queue, in a slot or among the dead letters, whatever crashes and    *)
(* closed connections come between a retry and its acknowledgement.         *)
MessageNotLost ==
  \A e \in published : CopiesLeft(e) \/ IsDead(e) \/ Settled(e)

(* A valid event is given up only after its first attempt and MaxRetries    *)
(* retries failed, although copies are duplicated and redelivered.          *)
DeadLettersWereRetried ==
  \A m \in DOMAIN dead : m.event \in Valid => failures[m.event] > MaxRetries

Unanswered == {s \in Held : ~At(s, "answered")}

(* The messages of a bag that carry event e, each with the number of its    *)
(* copy, and how many they are.                                             *)
CarriersOf(bag, e) ==
  UNION {{m} \X (1..bag[m]) : m \in {n \in DOMAIN bag : n.event = e}}
CarriersIn(bag, e) == Cardinality(CarriersOf(bag, e))

(* Retries do not multiply: but for one copy more with each crash or lost   *)
(* connection, which may come between a retry and its acknowledgement, one  *)
(* message carries each event.                                              *)
OneCopyPerFault ==
  \A e \in published :
    CarriersIn(queue, e) + CarriersIn(retrying, e) + CarriersIn(dead, e)
      + Cardinality({s \in Unanswered : inHand[s].event = e}) <= 1 + crashes + losses

(* Liveness: as long as it has its connection, the consumer settles or      *)
(* dead-letters every published event in the end; an event waits for ever   *)
(* only at a lost connection.                                               *)
ConcludedOrLost ==
  \A e \in Events : e \in published ~> (Settled(e) \/ IsDead(e) \/ session = "lost")
=============================================================================
