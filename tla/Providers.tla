----------------------------- MODULE Providers -----------------------------
(***************************************************************************)
(* The calls one thread makes through execute_with_retry, each provider    *)
(* with its circuit breaker; the steps within a call are those of module   *)
(* CircuitBreaker. A call ends with an answer, with an error after its last*)
(* attempt, or at once because the breaker is open.                        *)
(***************************************************************************)
EXTENDS Naturals

CONSTANTS
  ProviderNames,
  Threshold,    \* llm_circuit_breaker_failures
  Attempts      \* max(1, llm_retry_attempts + 1)

ASSUME ProvidersAssumption == Threshold \in Nat \ {0} /\ Attempts \in Nat \ {0}

VARIABLE breaker   \* per provider: failures counted, and whether it is open

ProvidersInit == breaker = [p \in ProviderNames |-> [failures |-> 0, open |-> FALSE]]

Skips(p) == breaker[p].open /\ UNCHANGED breaker

AnswersAt(p) ==
  /\ ~breaker[p].open
  /\ breaker' = [breaker EXCEPT ![p] = [failures |-> 0, open |-> FALSE]]

Fails(p) ==
  /\ ~breaker[p].open
  /\ LET n == breaker[p].failures + Attempts IN
       breaker' = [breaker EXCEPT ![p] =
                     [failures |-> IF n < Threshold THEN n ELSE Threshold,
                      open |-> n >= Threshold]]

NoAnswer(p) == Skips(p) \/ Fails(p)

(* recovery_timeout is over.                                               *)
Recovers(p) ==
  /\ breaker[p].open
  /\ breaker' = [breaker EXCEPT ![p].open = FALSE]
=============================================================================
