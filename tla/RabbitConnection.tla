-------------------------- MODULE RabbitConnection --------------------------
(***************************************************************************)
(* RabbitMqService.getConnection (src/rabbitmq/rabbitmq.service.ts) and its *)
(* users: the health check (src/health/health.service.ts) and the consumer *)
(* share one cached connection and one attempt to open it.                 *)
(*                                                                         *)
(* When an attempt ends, everyone who awaits it goes on before any other    *)
(* event of the process, so that is one step.                              *)
(***************************************************************************)
EXTENDS Naturals

CONSTANTS Users,        \* calls that use the connection
          MaxRejected   \* bound: attempts the broker refuses

ASSUME RabbitAssumption == MaxRejected \in Nat

VARIABLES
  connected,    \* whether `connection` is set
  connecting,   \* `connecting`: none, pending, rejected or resolved
  attempts,     \* calls of amqp.connect in progress
  open,         \* connections that are open
  rejections,   \* attempts that were refused
  user          \* where each user is

rabbit == <<connected, connecting, attempts, open, rejections, user>>

(* There may be a connection already.                                        *)
RabbitInit == /\ connected \in BOOLEAN
              /\ connecting = (IF connected THEN "resolved" ELSE "none")
              /\ attempts = 0
              /\ open = (IF connected THEN 1 ELSE 0)
              /\ rejections = 0
              /\ user = [u \in Users |-> "idle"]

UserGoes(u, from, to) == /\ user[u] = from
                         /\ user' = [user EXCEPT ![u] = to]

(* Faulty variant: every caller that finds no connection opens one.         *)
OpenAlways(u) == /\ ~connected
                 /\ UserGoes(u, "idle", "awaits")
                 /\ connecting' = "pending"
                 /\ attempts' = attempts + 1
                 /\ UNCHANGED <<connected, open, rejections>>
OpenConnection(u) == /\ ~connected
                     /\ connecting = "none"
                     /\ UserGoes(u, "idle", "awaits")
                     /\ connecting' = "pending"
                     /\ attempts' = attempts + 1
                     /\ UNCHANGED <<connected, open, rejections>>

(* The connection, or the attempt somebody else has begun.                  *)
UseConnection(u) == /\ connected
                    /\ UserGoes(u, "idle", "works")
                    /\ UNCHANGED <<connected, connecting, attempts, open, rejections>>
JoinAttempt(u) == /\ ~connected
                  /\ connecting = "pending"
                  /\ UserGoes(u, "idle", "awaits")
                  /\ UNCHANGED <<connected, connecting, attempts, open, rejections>>

(* Awaiting an attempt that has ended.                                      *)
AwaitEnded(u) == /\ ~connected
                 /\ \/ connecting = "rejected" /\ UserGoes(u, "idle", "failed")
                    \/ connecting = "resolved" /\ UserGoes(u, "idle", "works")
                 /\ connected' = (connecting = "resolved")
                 /\ UNCHANGED <<connecting, attempts, open, rejections>>

Answered(outcome) == user' = [u \in Users |-> IF user[u] = "awaits" THEN outcome ELSE user[u]]

Connects == /\ attempts > 0
            /\ attempts' = attempts - 1
            /\ open' = open + 1
            /\ connecting' = "resolved"
            /\ connected' = TRUE
            /\ Answered("works")
            /\ UNCHANGED rejections

Rejects == /\ attempts > 0
           /\ rejections < MaxRejected
           /\ rejections' = rejections + 1
           /\ attempts' = attempts - 1
           /\ connecting' = "rejected"
           /\ Answered("failed")
           /\ UNCHANGED <<connected, open>>

(* The 'close' handler; whoever works on the connection fails.              *)
(* Faulty variant: the resolved attempt is kept.                            *)
CloseKeepsAttempt ==
  /\ open > 0
  /\ open' = open - 1
  /\ connected' = FALSE
  /\ user' = [u \in Users |-> IF user[u] = "works" THEN "failed" ELSE user[u]]
  /\ UNCHANGED <<attempts, rejections, connecting>>
Close ==
  /\ open > 0
  /\ open' = open - 1
  /\ connected' = FALSE
  /\ connecting' = "none"
  /\ user' = [u \in Users |-> IF user[u] = "works" THEN "failed" ELSE user[u]]
  /\ UNCHANGED <<attempts, rejections>>

(* assertInfrastructure: a channel, the topology, the channel closed; then  *)
(* checkDependency reports the service up, or down when anything threw.    *)
EndUse(u) == /\ user[u] \in {"works", "failed"}
             /\ user' = [user EXCEPT ![u] = "idle"]
             /\ UNCHANGED <<connected, connecting, attempts, open, rejections>>

RabbitStops == /\ connected' = FALSE
               /\ connecting' = "none"
               /\ attempts' = 0
               /\ open' = 0
               /\ user' = [u \in Users |-> "idle"]
               /\ UNCHANGED rejections

Request(u) == OpenConnection(u) \/ UseConnection(u) \/ JoinAttempt(u) \/ AwaitEnded(u)

(* Somebody asks again and again (the health check is polled), and an        *)
(* attempt ends.                                                           *)
Polled == \E u \in Users : Request(u) \/ EndUse(u)
AttemptEnds == Connects \/ Rejects
RabbitNext == Polled \/ AttemptEnds \/ Close
RabbitSpec == /\ RabbitInit /\ [][RabbitNext \/ RabbitStops]_rabbit
              /\ WF_rabbit(Polled) /\ WF_rabbit(AttemptEnds)

-----------------------------------------------------------------------------
(* Everyone shares one connection: it is cached exactly while it is open,   *)
(* and no second attempt runs beside it.                                   *)
OneConnection == /\ open = (IF connected THEN 1 ELSE 0)
                 /\ attempts = (IF connecting = "pending" THEN 1 ELSE 0)
                 /\ connected <=> connecting = "resolved"

(* A lost connection is replaced when it is asked for, unless the attempt   *)
(* is refused: a refused attempt is kept, and nothing is tried after it.   *)
ReplacedOrRefused == (open = 0) ~> (open > 0 \/ connecting = "rejected")
=============================================================================
