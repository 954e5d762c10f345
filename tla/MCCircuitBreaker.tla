--------------------------- MODULE MCCircuitBreaker ---------------------------
(* TLC instances of CircuitBreaker: the trading coroutine, which looks at the *)
(* state first, and the event worker, which does not.                        *)
EXTENDS CircuitBreaker

CONSTANTS trader, worker
=============================================================================
