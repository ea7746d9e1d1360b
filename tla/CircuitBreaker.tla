--------------------------- MODULE CircuitBreaker ---------------------------
(***************************************************************************)
(* HttpZasmaoltAdapter.request                                             *)
(* (src/integrations/zasmaolt/http-zasmaolt.adapter.ts): the circuit        *)
(* breaker that all calls to api_zaSmaOlt share.  A call is refused while    *)
(* the circuit is open; its answer or failure may come long after the       *)
(* circuit opened or closed again.                                         *)
(*                                                                         *)
(* Time is what is left of the open period, which Tick lets pass.          *)
(***************************************************************************)
EXTENDS Naturals

CONSTANTS Callers,     \* the calls that may be in progress at once
          Threshold,   \* ZASMAOLT_CIRCUIT_BREAKER_FAILURE_THRESHOLD
          ResetTime    \* ZASMAOLT_CIRCUIT_BREAKER_RESET_SECONDS

ASSUME BreakerAssumption == /\ Threshold \in Nat \ {0}
                            /\ ResetTime \in Nat \ {0}

VARIABLES
  failures,   \* consecutiveFailures, counted up to the threshold
  openFor,    \* what is left of circuitOpenUntil
  call        \* where each call is

breaker == <<failures, openFor>>

(* A call is sent, has its status and waits for its body, writes what it    *)
(* got, is done, or has thrown.                                            *)
CallStages == {"idle", "sent", "body", "write", "done", "thrown"}

BreakerTypeOK == /\ failures \in 0..Threshold
                 /\ openFor \in 0..ResetTime
                 /\ call \in [Callers -> CallStages]

BreakerInit == /\ failures = 0
               /\ openFor = 0
               /\ call = [c \in Callers |-> "idle"]

CallMoves(c, from, to) == /\ call[c] = from
                          /\ call' = [call EXCEPT ![c] = to]

-----------------------------------------------------------------------------
(* ensureCircuitIsClosed.                                                   *)
Send(c) == /\ openFor = 0
           /\ CallMoves(c, "idle", "sent")
           /\ UNCHANGED breaker

CountFailure ==
  /\ failures' = IF failures < Threshold THEN failures + 1 ELSE Threshold
  /\ openFor' = IF failures' = Threshold THEN ResetTime ELSE openFor

(* Faulty variant: the refusal is raised inside the try block.              *)
RefuseAndCount(c) == /\ openFor > 0
                     /\ CallMoves(c, "idle", "thrown")
                     /\ CountFailure
Refuse(c) == /\ openFor > 0
             /\ CallMoves(c, "idle", "thrown")
             /\ UNCHANGED breaker

(* The status is good.  The body is not awaited inside the try block: the   *)
(* timeout is cleared and the circuit counts a success whatever follows.    *)
Receive(c) == /\ CallMoves(c, "sent", "body")
              /\ failures' = 0
              /\ UNCHANGED openFor

(* No connection, a bad status, or the timeout.                             *)
Fail(c) == /\ CallMoves(c, "sent", "thrown")
           /\ CountFailure

(* The body is not JSON, or holds an item without its identity.             *)
BodyFails(c) == /\ CallMoves(c, "body", "thrown")
                /\ UNCHANGED breaker

Return(c) == /\ call[c] \in {"done", "thrown"}
             /\ call' = [call EXCEPT ![c] = "idle"]
             /\ UNCHANGED breaker

Tick == /\ openFor > 0
        /\ openFor' = openFor - 1
        /\ UNCHANGED <<failures, call>>

-----------------------------------------------------------------------------
(* An open circuit lets a call through again and again, although callers    *)
(* keep asking while it is open and failures of calls sent before it        *)
(* opened, or together as it closed, extend it.                            *)
CircuitLetsTrialsThrough == []<>(openFor = 0)
=============================================================================
