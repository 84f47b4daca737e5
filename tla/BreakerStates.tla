---------------------------- MODULE BreakerStates ----------------------------
(***************************************************************************)
(* What a circuit breaker is expected to be: closed while calls succeed,   *)
(* open after a run of failures, half-open when its time is over. From     *)
(* closed it never becomes half-open; from half-open a failure opens it    *)
(* again; and a success closes it, whatever its state.                     *)
(*                                                                         *)
(* CircuitBreaker implements this specification.                           *)
(***************************************************************************)
VARIABLE state

StatesInit == state = "closed"

Trip == state \in {"closed", "halfOpen"} /\ state' = "open"
CoolDown == state = "open" /\ state' = "halfOpen"
Close == state \in {"open", "halfOpen"} /\ state' = "closed"

StatesNext == Trip \/ CoolDown \/ Close

StatesSpec == StatesInit /\ [][StatesNext]_state
=============================================================================
