--------------------------- MODULE CircuitBreaker ---------------------------
(***************************************************************************)
(* inference.py: one CircuitBreaker and the threads that call a provider   *)
(* through execute_with_retry with it. The class locks its two fields for  *)
(* several callers; in the guardian the router thread is the only one.     *)
(*                                                                         *)
(* open_until is modelled by the time that is left of it. The model's clock*)
(* stops at zero: only "open" and "not open" are told apart.               *)
(***************************************************************************)
EXTENDS Naturals

CONSTANTS
  Callers,      \* threads that share the breaker
  Threshold,    \* failure_threshold
  Recovery,     \* recovery_timeout, in ticks
  Attempts      \* max(1, llm_retry_attempts + 1)

ASSUME BreakerAssumption ==
  /\ Threshold \in Nat \ {0}
  /\ Recovery \in Nat \ {0}
  /\ Attempts \in Nat \ {0}

VARIABLES
  failures,     \* failure_count, which the code compares with Threshold only:
                \* it is counted up to there
  cooling,      \* ticks until open_until
  pc,           \* per caller: where it is in execute_with_retry
  attempt,      \* per caller: its attempt
  healthy       \* does the provider answer?

breakerVars == <<failures, cooling>>
vars == <<breakerVars, pc, attempt, healthy>>

Init ==
  /\ failures = 0 /\ cooling = 0
  /\ pc = [c \in Callers |-> "idle"]
  /\ attempt = [c \in Callers |-> 1]
  /\ healthy = TRUE

IsOpen == cooling > 0

At(c, from, to) == pc[c] = from /\ pc' = [pc EXCEPT ![c] = to]

(* Entry of execute_with_retry, where is_open is read, once and unlocked.  *)
Skip(c) ==
  /\ pc[c] = "idle" /\ IsOpen
  /\ pc' = [pc EXCEPT ![c] = "skipped"]
  /\ UNCHANGED <<breakerVars, attempt, healthy>>

Admit(c) ==
  /\ ~IsOpen
  /\ At(c, "idle", "calling")
  /\ attempt' = [attempt EXCEPT ![c] = 1]
  /\ UNCHANGED <<breakerVars, healthy>>

Begin(c) == Skip(c) \/ Admit(c)

(* (None, "circuit_open") is returned.                                     *)
ReturnSkipped(c) ==
  /\ At(c, "skipped", "idle")
  /\ UNCHANGED <<breakerVars, attempt, healthy>>

(* fn() returns or raises.                                                 *)
CallEnds(c) ==
  /\ At(c, "calling", IF healthy THEN "succeeded" ELSE "failed")
  /\ UNCHANGED <<breakerVars, attempt, healthy>>

(* The counter is reset, open_until is not.                                *)
RecordSuccessBug(c) ==
  /\ At(c, "succeeded", "idle")
  /\ failures' = 0
  /\ UNCHANGED <<cooling, attempt, healthy>>

(* The count is left where it is.                                          *)
RecordSuccessKeepsCountBug(c) ==
  /\ At(c, "succeeded", "idle")
  /\ cooling' = 0
  /\ UNCHANGED <<failures, attempt, healthy>>

(* _record_success, under the lock; the result is returned.                *)
RecordSuccess(c) ==
  /\ At(c, "succeeded", "idle")
  /\ failures' = 0 /\ cooling' = 0
  /\ UNCHANGED <<attempt, healthy>>

(* The count before the failure is compared.                               *)
RecordFailureBug(c) ==
  /\ failures' = IF failures < Threshold THEN failures + 1 ELSE Threshold
  /\ cooling' = IF failures >= Threshold THEN Recovery ELSE cooling
  /\ \/ attempt[c] < Attempts /\ At(c, "failed", "backoff")
     \/ attempt[c] = Attempts /\ At(c, "failed", "idle")
  /\ UNCHANGED <<attempt, healthy>>

(* _record_failure, under the lock; then a pause before the next attempt,  *)
(* or (None, "llm_error") after the last one.                              *)
RecordFailure(c) ==
  /\ failures' = IF failures < Threshold THEN failures + 1 ELSE Threshold
  /\ cooling' = IF failures' >= Threshold THEN Recovery ELSE cooling
  /\ \/ attempt[c] < Attempts /\ At(c, "failed", "backoff")
     \/ attempt[c] = Attempts /\ At(c, "failed", "idle")
  /\ UNCHANGED <<attempt, healthy>>

(* The next attempt: is_open is not read again.                            *)
Retry(c) ==
  /\ At(c, "backoff", "calling")
  /\ attempt' = [attempt EXCEPT ![c] = @ + 1]
  /\ UNCHANGED <<breakerVars, healthy>>

(* reset(), under the lock, by whoever holds the breaker.                  *)
Reset ==
  /\ failures' = 0 /\ cooling' = 0
  /\ UNCHANGED <<pc, attempt, healthy>>

(* Time passes.                                                            *)
Tick ==
  /\ cooling > 0
  /\ cooling' = cooling - 1
  /\ UNCHANGED <<failures, pc, attempt, healthy>>

(* The provider fails or comes back.                                       *)
HealthChanges ==
  /\ healthy' = ~healthy
  /\ UNCHANGED <<breakerVars, pc, attempt>>

InCall(c) ==
  ReturnSkipped(c) \/ CallEnds(c) \/ RecordSuccess(c) \/ RecordFailure(c) \/ Retry(c)

Next ==
  \/ \E c \in Callers : Begin(c) \/ InCall(c)
  \/ Reset
  \/ Tick
  \/ HealthChanges

(* A provider call has a time-out, a pause ends, and time goes on. Calls   *)
(* come when events come: Begin is not fair.                               *)
Fairness ==
  /\ \A c \in Callers : WF_vars(InCall(c))
  /\ WF_vars(Tick)

Spec == Init /\ [][Next]_vars
FairSpec == Spec /\ Fairness
-----------------------------------------------------------------------------
CallerStates == {"idle", "skipped", "calling", "succeeded", "failed", "backoff"}

(* Every variable has its type; nobody makes more than Attempts attempts,  *)
(* so a caller that pauses has an attempt left.                            *)
TypeOK ==
  /\ failures \in 0..Threshold
  /\ cooling \in 0..Recovery
  /\ pc \in [Callers -> CallerStates]
  /\ attempt \in [Callers -> 1..Attempts]
  /\ healthy \in BOOLEAN
  /\ \A c \in Callers : pc[c] = "backoff" => attempt[c] < Attempts

(* The breaker is open only after Threshold failures with no success among *)
(* them, whichever thread recorded them and however late.                  *)
OpenIsJustified == IsOpen => failures = Threshold

(* failure_count and open_until, two fields, are the one state of a circuit*)
(* breaker; half-open, which the code does not name, is a full count whose *)
(* time is over.                                                           *)
BreakerState ==
  IF IsOpen THEN "open" ELSE IF failures = Threshold THEN "halfOpen" ELSE "closed"
States == INSTANCE BreakerStates WITH state <- BreakerState
ImplementsBreaker == States!StatesSpec

(* When the provider is back for good and calls keep coming, the breaker   *)
(* closes and stays closed with no failure counted: no failure of the time *)
(* before, and no skipped call, keeps it open.                             *)
RecoversAfterOutage ==
  (<>[]healthy /\ []<><<\E c \in Callers : Begin(c)>>_vars)
    => <>[](failures = 0 /\ cooling = 0)

(* inference.py, class CircuitBreaker: "When open, calls are skipped". No  *)
(* attempt starts while the breaker is open.                               *)
SkippedWhenOpen ==
  [][\A c \in Callers : IsOpen /\ pc[c] # "calling" => pc'[c] # "calling"]_vars
=============================================================================
