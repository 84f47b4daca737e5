-------------------------- MODULE MCCircuitBreaker --------------------------
(***************************************************************************)
(* A small instance of CircuitBreaker: two threads, so that one records    *)
(* what the other no longer expects.                                       *)
(***************************************************************************)
EXTENDS CircuitBreaker

CONSTANTS c1, c2     \* threads, as model values
=============================================================================
