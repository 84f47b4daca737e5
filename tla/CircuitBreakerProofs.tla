------------------------ MODULE CircuitBreakerProofs ------------------------
(***************************************************************************)
(* Proofs about CircuitBreaker, for any number of callers and any limits.  *)
(* TypeOK is inductive as it stands, and OpenIsJustified is inductive      *)
(* relative to it; ImplementsBreaker follows from both.                    *)
(***************************************************************************)
EXTENDS CircuitBreaker, TLAPS

(* The limits, as the provers like to have them.                           *)
LEMMA Limits ==
  /\ Threshold \in Nat /\ Threshold > 0
  /\ Recovery \in Nat /\ Recovery > 0
  /\ Attempts \in Nat /\ Attempts > 0
BY BreakerAssumption

LEMMA InitType == Init => TypeOK
<1> SUFFICES ASSUME Init PROVE TypeOK
  OBVIOUS
<1>1. /\ failures \in 0..Threshold
      /\ cooling \in 0..Recovery
  BY Limits DEF Init
<1>2. pc \in [Callers -> CallerStates] /\ \A c \in Callers : pc[c] = "idle"
  BY DEF Init, CallerStates
<1>3. 1 \in 1..Attempts
  BY Limits
<1>4. attempt \in [Callers -> 1..Attempts]
  BY <1>3 DEF Init
<1>5. healthy \in BOOLEAN
  BY DEF Init
<1> QED BY <1>1, <1>2, <1>4, <1>5 DEF TypeOK

(* One action at a time: what it does to the count, to the clock and to    *)
(* its caller keeps every conjunct of TypeOK.                              *)
LEMMA NextType == TypeOK /\ [Next]_vars => TypeOK'
<1> SUFFICES ASSUME TypeOK, [Next]_vars PROVE TypeOK'
  OBVIOUS
<1> USE Limits DEF TypeOK, CallerStates
<1>1. ASSUME NEW c \in Callers, Skip(c) PROVE TypeOK'
  BY <1>1 DEF Skip, breakerVars
<1>2. ASSUME NEW c \in Callers, Admit(c) PROVE TypeOK'
  <2>1. 1 \in 1..Attempts
    OBVIOUS
  <2>2. attempt' \in [Callers -> 1..Attempts] /\ pc' \in [Callers -> CallerStates]
    BY <1>2, <2>1 DEF Admit, At
  <2>3. ASSUME NEW d \in Callers, pc'[d] = "backoff" PROVE attempt'[d] < Attempts
    BY <1>2, <2>3 DEF Admit, At
  <2> QED BY <1>2, <2>2, <2>3 DEF Admit, breakerVars
<1>3. ASSUME NEW c \in Callers, ReturnSkipped(c) PROVE TypeOK'
  BY <1>3 DEF ReturnSkipped, At, breakerVars
<1>4. ASSUME NEW c \in Callers, CallEnds(c) PROVE TypeOK'
  BY <1>4 DEF CallEnds, At, breakerVars
<1>5. ASSUME NEW c \in Callers, RecordSuccess(c) PROVE TypeOK'
  BY <1>5 DEF RecordSuccess, At
<1>6. ASSUME NEW c \in Callers, RecordFailure(c) PROVE TypeOK'
  <2>1. failures' \in 0..Threshold /\ cooling' \in 0..Recovery
    BY <1>6 DEF RecordFailure
  <2>2. CASE attempt[c] < Attempts /\ At(c, "failed", "backoff")
    BY <1>6, <2>1, <2>2 DEF RecordFailure, At
  <2>3. CASE attempt[c] = Attempts /\ At(c, "failed", "idle")
    BY <1>6, <2>1, <2>3 DEF RecordFailure, At
  <2> QED BY <1>6, <2>2, <2>3 DEF RecordFailure
<1>7. ASSUME NEW c \in Callers, Retry(c) PROVE TypeOK'
  <2>1. attempt[c] + 1 \in 1..Attempts
    BY <1>7 DEF Retry, At
  <2>2. attempt' \in [Callers -> 1..Attempts] /\ pc' \in [Callers -> CallerStates]
    BY <1>7, <2>1 DEF Retry, At
  <2>3. ASSUME NEW d \in Callers, pc'[d] = "backoff" PROVE attempt'[d] < Attempts
    BY <1>7, <2>3 DEF Retry, At
  <2> QED BY <1>7, <2>2, <2>3 DEF Retry, breakerVars
<1>8. CASE Reset
  BY <1>8 DEF Reset
<1>9. CASE Tick
  BY <1>9 DEF Tick
<1>10. CASE HealthChanges
  BY <1>10 DEF HealthChanges, breakerVars
<1>11. CASE UNCHANGED vars
  BY <1>11 DEF vars, breakerVars
<1> QED BY <1>1, <1>2, <1>3, <1>4, <1>5, <1>6, <1>7, <1>8, <1>9, <1>10, <1>11
        DEF Next, Begin, InCall

(* Type correctness, and with it: a caller that pauses has an attempt left,*)
(* so execute_with_retry never makes more than its attempts.               *)
THEOREM TypeCorrect == Spec => []TypeOK
<1>1. Init => TypeOK
  BY InitType
<1>2. TypeOK /\ [Next]_vars => TypeOK'
  BY NextType
<1> QED BY <1>1, <1>2, PTL DEF Spec

(* What any step can do to the two fields of the breaker: a success and    *)
(* reset() clear both, a failure counts and perhaps opens, time passes.    *)
LEMMA BreakerMoves ==
  ASSUME TypeOK, [Next]_vars
  PROVE  \/ failures' = 0 /\ cooling' = 0
         \/ /\ failures' = IF failures < Threshold THEN failures + 1 ELSE Threshold
            /\ cooling' = IF failures' >= Threshold THEN Recovery ELSE cooling
         \/ cooling > 0 /\ cooling' = cooling - 1 /\ failures' = failures
         \/ UNCHANGED breakerVars
<1>1. ASSUME NEW c \in Callers, Begin(c) PROVE UNCHANGED breakerVars
  BY <1>1 DEF Begin, Skip, Admit
<1>2. ASSUME NEW c \in Callers, ReturnSkipped(c) \/ CallEnds(c) \/ Retry(c)
      PROVE  UNCHANGED breakerVars
  BY <1>2 DEF ReturnSkipped, CallEnds, Retry
<1>3. ASSUME NEW c \in Callers, RecordSuccess(c) PROVE failures' = 0 /\ cooling' = 0
  BY <1>3 DEF RecordSuccess
<1>4. ASSUME NEW c \in Callers, RecordFailure(c)
      PROVE  /\ failures' = IF failures < Threshold THEN failures + 1 ELSE Threshold
             /\ cooling' = IF failures' >= Threshold THEN Recovery ELSE cooling
  BY <1>4 DEF RecordFailure
<1>5. Reset => failures' = 0 /\ cooling' = 0
  BY DEF Reset
<1>6. Tick => cooling > 0 /\ cooling' = cooling - 1 /\ failures' = failures
  BY DEF Tick
<1>7. HealthChanges \/ UNCHANGED vars => UNCHANGED breakerVars
  BY DEF HealthChanges, vars
<1> QED BY <1>1, <1>2, <1>3, <1>4, <1>5, <1>6, <1>7 DEF Next, InCall

LEMMA NextJustified == TypeOK /\ OpenIsJustified /\ [Next]_vars => OpenIsJustified'
<1> SUFFICES ASSUME TypeOK, OpenIsJustified, [Next]_vars PROVE OpenIsJustified'
  OBVIOUS
<1> QED BY BreakerMoves, Limits DEF TypeOK, OpenIsJustified, IsOpen, breakerVars

(* The breaker is open only with a full count, whoever recorded what.      *)
THEOREM Justified == Spec => []OpenIsJustified
<1>1. Init => TypeOK /\ OpenIsJustified
  BY InitType DEF Init, OpenIsJustified, IsOpen
<1>2. TypeOK /\ OpenIsJustified /\ [Next]_vars => (TypeOK /\ OpenIsJustified)'
  BY NextType, NextJustified
<1> QED BY <1>1, <1>2, PTL DEF Spec

(* The two fields are one circuit breaker: from closed it never becomes    *)
(* half-open, a half-open one opens again at the next failure, and a       *)
(* success closes it.                                                      *)
THEOREM BreakerImplementsStates == Spec => ImplementsBreaker
<1>1. Init => States!StatesInit
  BY Limits DEF Init, States!StatesInit, BreakerState, IsOpen
<1>2. ASSUME TypeOK, OpenIsJustified, [Next]_vars
      PROVE  [States!StatesNext]_BreakerState
  <2> USE Limits DEF TypeOK, OpenIsJustified, IsOpen, BreakerState,
          States!StatesNext, States!Trip, States!CoolDown, States!Close
  <2>1. CASE failures' = 0 /\ cooling' = 0
    BY <1>2, <2>1
  <2>2. CASE /\ failures' = IF failures < Threshold THEN failures + 1 ELSE Threshold
             /\ cooling' = IF failures' >= Threshold THEN Recovery ELSE cooling
    BY <1>2, <2>2
  <2>3. CASE cooling > 0 /\ cooling' = cooling - 1 /\ failures' = failures
    BY <1>2, <2>3
  <2>4. CASE UNCHANGED breakerVars
    BY <2>4 DEF breakerVars
  <2> QED BY <1>2, BreakerMoves, <2>1, <2>2, <2>3, <2>4
<1> QED BY <1>1, <1>2, TypeCorrect, Justified, PTL
        DEF Spec, ImplementsBreaker, States!StatesSpec
=============================================================================
