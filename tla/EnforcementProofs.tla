-------------------------- MODULE EnforcementProofs --------------------------
(***************************************************************************)
(* What TLC checks of Enforcement on small instances, proved for every set *)
(* of events, of concurrent operators, of decisions and of configurations. *)
(*                                                                         *)
(* CausalInv says how far each event has come in the three processes at    *)
(* once; with the types it is inductive and gives SanctionedActionsOnly    *)
(* and RefusalIsFinal. LedgerInv strengthens EffectsAreAccountedFor: among *)
(* the events that answer for an effect there is one for which nobody is   *)
(* about to mark a rollback.                                               *)
(***************************************************************************)
EXTENDS Enforcement, TLAPS

USE EnforcementAssumption

Dispatched(e) ==
  /\ row[e] = verdict[e]
  /\ verdict[e].allowed
  /\ verdict[e].effective \in DestructiveActions

(* An event, across the tables and the goroutine that works on it.         *)
Linked(e) ==
  /\ decision[e] = None => row[e] = None /\ result[e] = "none" /\ exec[e] = "none"
  /\ decision[e] # None => verdict[e] \in {PolicyGate(config, decision[e]), Downgraded}
  /\ exec[e] # "none" => Dispatched(e)
  /\ exec[e] \in {"none", "spawned"} => ~outcome[e]
  /\ exec[e] # "finished" => actions[e] = None
  /\ outcome[e] => Executable(config, decision[e])
  /\ result[e] \in Refusals => exec[e] = "none"
  /\ result[e] = "dispatch_success" => exec[e] # "none"

(* The event in the router's hands.                                        *)
RouterInv ==
  rpc # "idle" =>
    /\ decision[cur] # None
    /\ result[cur] = "none"
    /\ rpc # "await" => exec[cur] = "none"
    /\ rpc = "await" => exec[cur] # "none"
    /\ rpc = "dispatch" => row[cur] = verdict[cur]
    /\ rpc \in {"post", "await"} => Dispatched(cur)

CausalInv == (\A e \in Events : Linked(e)) /\ RouterInv

IInv == TypeOK /\ CausalInv

-----------------------------------------------------------------------------
(* The gate's answer is a verdict.                                         *)
LEMMA PolicyGateType ==
  ASSUME NEW c, NEW d \in Decisions
  PROVE  PolicyGate(c, d) \in Verdicts
BY DEF PolicyGate, Verdicts, ActionTypes, DestructiveActions

LEMMA InitIInv == Init => IInv
<1> SUFFICES ASSUME Init PROVE IInv
  OBVIOUS
<1>1. TypeOK
  BY DEF Init, TypeOK, Idle, RouterStages, Results, Verdicts, ActionTypes
<1>2. CausalInv
  BY DEF Init, CausalInv, Linked, RouterInv, Refusals
<1>3. QED
  BY <1>1, <1>2 DEF IInv

-----------------------------------------------------------------------------
(***************************************************************************)
(* The router's steps.                                                     *)
(***************************************************************************)
LEMMA DecideIInv ==
  ASSUME IInv, NEW e \in Events, Decide(e)
  PROVE  IInv'
<1> USE DEF Decide, executorVars
<1>1. PICK d \in Decisions :
        /\ decision' = [decision EXCEPT ![e] = d]
        /\ verdict' = [verdict EXCEPT ![e] = PolicyGate(config, d)]
  OBVIOUS
<1>2. PolicyGate(config, d) \in Verdicts
  BY PolicyGateType
<1>3. TypeOK'
  BY <1>1, <1>2 DEF IInv, TypeOK, RouterStages
<1>4. \A f \in Events : Linked(f)'
  BY <1>1, <1>2 DEF IInv, TypeOK, CausalInv, Linked, Dispatched
<1>5. RouterInv'
  BY <1>1 DEF IInv, TypeOK, CausalInv, Linked, RouterInv
<1>6. QED
  BY <1>3, <1>4, <1>5 DEF IInv, CausalInv

(* Settling an event that was not dispatched.                              *)
LEMMA SettleRefused ==
  ASSUME IInv, rpc \notin {"idle", "await"}, NEW r \in Refusals, Settle(r),
         UNCHANGED <<config, decision, executorVars, marked, effects, ops>>,
         verdict' \in [Events -> Verdicts], row' \in [Events -> Verdicts \cup {None}],
         \A e \in Events \ {cur} : verdict'[e] = verdict[e] /\ row'[e] = row[e],
         verdict'[cur] \in {verdict[cur], Downgraded}
  PROVE  IInv'
<1> USE DEF Settle, executorVars
<1>1. TypeOK'
  BY DEF IInv, TypeOK, RouterStages, Results, Refusals
<1>2. \A f \in Events : Linked(f)'
  BY DEF IInv, TypeOK, CausalInv, Linked, RouterInv, Dispatched, Refusals
<1>3. RouterInv'
  BY DEF RouterInv
<1>4. QED
  BY <1>1, <1>2, <1>3 DEF IInv, CausalInv

LEMMA StoreEventIInv == IInv /\ StoreEvent => IInv'
<1> SUFFICES ASSUME IInv, StoreEvent PROVE IInv'
  OBVIOUS
<1>1. CASE Settle("event_not_persisted") /\ UNCHANGED row
  BY <1>1, SettleRefused DEF StoreEvent, IInv, TypeOK, Refusals
<1>2. CASE /\ row' = [row EXCEPT ![cur] = verdict[cur]]
           /\ rpc' = "dispatch" /\ UNCHANGED <<cur, result>>
  <2> USE <1>2 DEF StoreEvent, executorVars
  <2>1. TypeOK'
    BY DEF IInv, TypeOK, RouterStages
  <2>2. \A f \in Events : Linked(f)'
    BY DEF IInv, TypeOK, CausalInv, Linked, RouterInv, Dispatched
  <2>3. RouterInv'
    BY DEF IInv, TypeOK, CausalInv, RouterInv
  <2>4. QED
    BY <2>1, <2>2, <2>3 DEF IInv, CausalInv
<1>3. QED
  BY <1>1, <1>2 DEF StoreEvent

LEMMA IntegrityFailsIInv == IInv /\ IntegrityFails => IInv'
<1> SUFFICES ASSUME IInv, IntegrityFails PROVE IInv'
  OBVIOUS
<1>1. cur \in Events /\ Downgraded \in Verdicts
  BY DEF IInv, TypeOK, IntegrityFails, MustDispatch, Downgraded, Verdicts, ActionTypes
<1>2. /\ verdict' \in [Events -> Verdicts]
      /\ row' \in [Events -> Verdicts \cup {None}]
      /\ \A e \in Events \ {cur} : verdict'[e] = verdict[e] /\ row'[e] = row[e]
      /\ verdict'[cur] = Downgraded
  BY <1>1 DEF IInv, TypeOK, IntegrityFails
<1>3. QED
  BY <1>1, <1>2, SettleRefused DEF IntegrityFails, MustDispatch, Refusals

LEMMA IntegrityHoldsIInv == IInv /\ IntegrityHolds => IInv'
<1> SUFFICES ASSUME IInv, IntegrityHolds PROVE IInv'
  OBVIOUS
<1> USE DEF IntegrityHolds, MustDispatch, executorVars
<1>1. TypeOK'
  BY DEF IInv, TypeOK, RouterStages
<1>2. \A f \in Events : Linked(f)'
  BY DEF IInv, CausalInv, Linked, Dispatched
<1>3. RouterInv'
  BY DEF IInv, CausalInv, RouterInv, Dispatched
<1>4. QED
  BY <1>1, <1>2, <1>3 DEF IInv, CausalInv

LEMMA PostArrivesIInv == IInv /\ PostArrives => IInv'
<1> SUFFICES ASSUME IInv, PostArrives PROVE IInv'
  OBVIOUS
<1> USE DEF PostArrives
<1>1. TypeOK'
  BY DEF IInv, TypeOK, RouterStages
<1>2. \A f \in Events : Linked(f)'
  BY DEF IInv, TypeOK, CausalInv, Linked, RouterInv, Dispatched, Refusals
<1>3. RouterInv'
  BY DEF IInv, TypeOK, CausalInv, RouterInv, Dispatched
<1>4. QED
  BY <1>1, <1>2, <1>3 DEF IInv, CausalInv

(* The two results that do not refuse.                                     *)
LEMMA SettleDispatchedIInv == IInv /\ (AnswerArrives \/ PostFails) => IInv'
<1> SUFFICES ASSUME IInv, AnswerArrives \/ PostFails PROVE IInv'
  OBVIOUS
<1> USE DEF AnswerArrives, PostFails, Settle, executorVars
<1>1. TypeOK'
  BY DEF IInv, TypeOK, RouterStages, Results
<1>2. \A f \in Events : Linked(f)'
  BY DEF IInv, TypeOK, CausalInv, Linked, RouterInv, Dispatched, Refusals
<1>3. RouterInv'
  BY DEF RouterInv
<1>4. QED
  BY <1>1, <1>2, <1>3 DEF IInv, CausalInv

LEMMA RouterIInv == IInv /\ RouterStep => IInv'
<1> SUFFICES ASSUME IInv, RouterStep PROVE IInv'
  OBVIOUS
<1>1. CASE MonitorRaises
  BY <1>1, SettleRefused DEF MonitorRaises, IInv, TypeOK, Refusals
<1>2. CASE NothingToDispatch
  BY <1>2, SettleRefused DEF NothingToDispatch, IInv, TypeOK, Refusals
<1>3. QED
  BY <1>1, <1>2, DecideIInv, StoreEventIInv, IntegrityFailsIInv, IntegrityHoldsIInv,
     PostArrivesIInv, SettleDispatchedIInv DEF RouterStep

-----------------------------------------------------------------------------
(***************************************************************************)
(* The executor's and the operators' steps.                                *)
(***************************************************************************)
LEMMA ExecutorIInv ==
  ASSUME IInv, NEW e \in Events, ExecutorStep(e)
  PROVE  IInv'
<1> USE DEF routerVars
<1>1. CASE IgnoreVerdict(e)
  <2>1. TypeOK'
    BY <1>1 DEF IgnoreVerdict, IInv, TypeOK
  <2>2. \A f \in Events : Linked(f)'
    BY <1>1 DEF IgnoreVerdict, IInv, TypeOK, CausalInv, Linked, Dispatched
  <2>3. RouterInv'
    BY <1>1 DEF IgnoreVerdict, IInv, TypeOK, CausalInv, RouterInv, Dispatched
  <2>4. QED
    BY <2>1, <2>2, <2>3 DEF IInv, CausalInv
<1>2. CASE Act(e)
  <2>1. TypeOK'
    BY <1>2 DEF Act, IInv, TypeOK
  <2>2. \A f \in Events : Linked(f)'
    BY <1>2 DEF Act, IInv, TypeOK, CausalInv, Linked, Dispatched
  <2>3. RouterInv'
    BY <1>2 DEF Act, IInv, TypeOK, CausalInv, RouterInv, Dispatched
  <2>4. QED
    BY <2>1, <2>2, <2>3 DEF IInv, CausalInv
<1>3. CASE FailToAct(e)
  <2>1. TypeOK'
    BY <1>3 DEF FailToAct, IInv, TypeOK
  <2>2. \A f \in Events : Linked(f)'
    BY <1>3 DEF FailToAct, IInv, TypeOK, CausalInv, Linked, Dispatched
  <2>3. RouterInv'
    BY <1>3 DEF FailToAct, IInv, TypeOK, CausalInv, RouterInv, Dispatched
  <2>4. QED
    BY <2>1, <2>2, <2>3 DEF IInv, CausalInv
<1>4. CASE LogAction(e)
  <2> DEFINE entry == [success |-> outcome[e], rolledBack |-> FALSE]
  <2>a. entry \in Entries /\ entry # None
    <3>1. outcome[e] \in BOOLEAN
      BY DEF IInv, TypeOK
    <3>2. entry \in Entries
      BY <3>1 DEF Entries
    <3>3. QED
      BY <3>2
  <2>b. actions' = [actions EXCEPT ![e] = entry] \/ actions' = actions
    BY <1>4 DEF LogAction
  <2>c. /\ actions' \in [Events -> Entries \cup {None}]
        /\ \A f \in Events : actions[f] # None => actions'[f] # None
    <3> HIDE DEF entry
    <3>1. QED
      BY <2>a, <2>b DEF IInv, TypeOK
  <2>1. TypeOK'
    BY <1>4, <2>c DEF LogAction, IInv, TypeOK
  <2>2. \A f \in Events : Linked(f)'
    BY <1>4 DEF LogAction, IInv, TypeOK, CausalInv, Linked, Dispatched
  <2>3. RouterInv'
    BY <1>4 DEF LogAction, IInv, TypeOK, CausalInv, RouterInv, Dispatched
  <2>4. QED
    BY <2>1, <2>2, <2>3 DEF IInv, CausalInv
<1>5. QED
  BY <1>1, <1>2, <1>3, <1>4 DEF ExecutorStep

(* The actions table as operators leave it: no row comes or goes.          *)
LEMMA OperatorCausal ==
  ASSUME IInv, UNCHANGED <<config, routerVars, exec, outcome>>,
         \A e \in Events : actions[e] = None => actions'[e] = None
  PROVE  CausalInv'
BY DEF IInv, CausalInv, Linked, RouterInv, Dispatched, routerVars

LEMMA OperatorIInv ==
  ASSUME IInv, NEW o \in Operators, OperatorStep(o)
  PROVE  IInv'
<1>1. CASE \E e \in Events : MarkFalsePositive(o, e)
  <2>1. TypeOK'
    BY <1>1 DEF MarkFalsePositive, IInv, TypeOK, routerVars, executorVars
  <2>2. QED
    BY <1>1, <2>1, OperatorCausal DEF MarkFalsePositive, IInv, executorVars
<1>2. CASE SelectActions(o)
  <2>1. TypeOK'
    BY <1>2, SMTT(30)
    DEF SelectActions, StandingAction, Goes, Returns, Idle, IInv, TypeOK, routerVars, executorVars
  <2>2. QED
    BY <1>2, <2>1, OperatorCausal DEF SelectActions, IInv, executorVars
<1>3. CASE RollbackUnreachable(o)
  <2>1. TypeOK'
    BY <1>3 DEF RollbackUnreachable, Returns, Idle, IInv, TypeOK, routerVars, executorVars
  <2>2. QED
    BY <1>3, <2>1, OperatorCausal DEF RollbackUnreachable, IInv, executorVars
<1>4. CASE UndoAction(o)
  <2>a. ops[o].pc = "undo" /\ UNCHANGED <<config, routerVars, executorVars, marked>>
    BY <1>4 DEF UndoAction
  <2>b. \/ ops' = [ops EXCEPT ![o].pc = "update"]
        \/ ops' = [ops EXCEPT ![o] = Idle]
    BY <1>4 DEF UndoAction, Goes, Returns
  <2>1. TypeOK'
    <3>1. CASE ops' = [ops EXCEPT ![o].pc = "update"]
      <4>1. ops'[o].event = ops[o].event /\ \A q \in Operators \ {o} : ops'[q] = ops[q]
        BY <3>1 DEF IInv, TypeOK
      <4>2. ops' \in [Operators -> [pc : {"idle", "select", "undo", "update"},
                                    event : Events \cup {None}]]
        BY <3>1 DEF IInv, TypeOK
      <4>3. QED
        BY <2>a, <4>1, <4>2 DEF IInv, TypeOK, routerVars, executorVars
    <3>2. CASE ops' = [ops EXCEPT ![o] = Idle]
      BY <2>a, <3>2 DEF Idle, IInv, TypeOK, routerVars, executorVars
    <3>3. QED
      BY <2>b, <3>1, <3>2
  <2>2. QED
    BY <1>4, <2>1, OperatorCausal DEF UndoAction, IInv, executorVars
<1>5. CASE MarkRolledBack(o)
  <2> DEFINE e == ops[o].event
  <2>1. e \in Events /\ actions[e] \in Entries
    BY <1>5 DEF MarkRolledBack, IInv, TypeOK
  <2>2. [actions[e] EXCEPT !.rolledBack = TRUE] \in Entries
    BY <2>1 DEF Entries
  <2>3. \/ actions' = [actions EXCEPT ![e] = [actions[e] EXCEPT !.rolledBack = TRUE]]
        \/ actions' = actions
    BY <1>5 DEF MarkRolledBack
  <2>4. /\ actions' \in [Events -> Entries \cup {None}]
        /\ \A f \in Events : actions'[f] = None <=> actions[f] = None
    BY <2>1, <2>2, <2>3 DEF IInv, TypeOK
  <2>5. TypeOK'
    BY <1>5, <2>4 DEF MarkRolledBack, Returns, Idle, IInv, TypeOK, routerVars
  <2>6. QED
    BY <1>5, <2>4, <2>5, OperatorCausal DEF MarkRolledBack, IInv
<1>6. QED
  BY <1>1, <1>2, <1>3, <1>4, <1>5 DEF OperatorStep, Rollback

LEMMA NextIInv == IInv /\ [Next]_vars => IInv'
<1> SUFFICES ASSUME IInv, [Next]_vars PROVE IInv'
  OBVIOUS
<1>1. CASE UNCHANGED vars
  BY <1>1
  DEF vars, routerVars, executorVars, IInv, TypeOK, CausalInv, Linked, RouterInv, Dispatched
<1>2. QED
  BY <1>1, RouterIInv, ExecutorIInv, OperatorIInv DEF Next

THEOREM IInvHolds == Spec => []IInv
BY InitIInv, NextIInv, PTL DEF Spec

(* In every behaviour the variables keep their types, and whoever works on *)
(* an event has one to work on.                                            *)
THEOREM TypeCorrect == Spec => []TypeOK
<1>1. IInv => TypeOK
  BY DEF IInv
<1>2. QED
  BY <1>1, IInvHolds, PTL
-----------------------------------------------------------------------------
(***************************************************************************)
(* The safety properties.                                                  *)
(***************************************************************************)

(* A verdict that still allows a destructive action is the gate's own.     *)
LEMMA AllowedMeansPassed ==
  ASSUME NEW c, NEW d, NEW v \in {PolicyGate(c, d), Downgraded},
         v.allowed, v.effective \in DestructiveActions
  PROVE  v = [effective |-> d.action, allowed |-> TRUE] /\ ~Refused(c, d)
BY DEF PolicyGate, Downgraded

(* What passes both sides' reading of a target. KILL: the executor needs a *)
(* number; the guardian has looked at that very number when it has no sign,*)
(* and otherwise at the pid of the event, if there is one.                 *)
LEMMA PassedBothGuards ==
  ASSUME NEW c \in Configs, NEW d \in Decisions, ~Refused(c, d), Executable(c, d)
  PROVE  /\ ~SafeMode(c)
         /\ d.confidence >= c.threshold
         /\ d.action = "KILL" => d.target.id > 2 /\ d.target.id >= c.minPid
         /\ d.action = "KILL" /\ d.target.form = "pid" => d.target.id > c.protectedMax
         /\ d.action = "KILL" /\ d.target.form = "pidSigned" /\ d.rawPid # None =>
              d.rawPid > c.protectedMax
         /\ d.action = "BLOCK" /\ d.target.class = "private" =>
              /\ c.allowPrivate
              /\ d.target.form = "ip4" => ~c.neverBlockPrivate
         /\ d.action = "BLOCK" /\ d.target.form = "ip4" /\ d.target.class = "reserved" =>
              ~c.neverBlockPrivate
<1>1. /\ d.confidence \in Nat /\ c.threshold \in Nat /\ d.target.id \in Nat
      /\ c.protectedMax \in Nat /\ c.minPid \in Nat
  BY DEF Targets
<1>2. d.confidence >= c.threshold
  BY <1>1 DEF Refused
<1>3. d.action = "KILL" => d.target.id > 2 /\ d.target.id >= c.minPid
  BY DEF Executable
<1>4. ASSUME d.action = "KILL", PidOf(d) # None, PidOf(d) \in Nat
      PROVE  PidOf(d) > c.protectedMax
  <2>1. ~(PidOf(d) <= c.protectedMax)
    BY <1>4 DEF Refused
  <2>2. QED
    BY <1>1, <1>4, <2>1
<1>5. d.action = "KILL" /\ d.target.form = "pid" => d.target.id > c.protectedMax
  <2>1. d.target.form = "pid" => PidOf(d) = d.target.id /\ d.target.id # None
    BY <1>1 DEF PidOf
  <2>2. QED
    BY <1>1, <1>4, <2>1
<1>6. d.action = "KILL" /\ d.target.form = "pidSigned" /\ d.rawPid # None =>
        d.rawPid > c.protectedMax
  <2>1. d.target.form = "pidSigned" => PidOf(d) = d.rawPid
    BY DEF PidOf
  <2>2. d.rawPid # None => d.rawPid \in Nat
    OBVIOUS
  <2>3. QED
    BY <1>4, <2>1, <2>2
<1>7. QED
  BY <1>2, <1>3, <1>5, <1>6 DEF Refused, Executable

(* Only what the gates that know its target let pass, and the events table *)
(* says so, ever succeeds on the host: a kill is above the executor's      *)
(* limits, and above protected_pids_max if the target is a number without  *)
(* a sign.                                                                 *)
THEOREM OnlySanctioned == Spec => []SanctionedActionsOnly
<1>1. IInv => SanctionedActionsOnly
  <2> SUFFICES ASSUME IInv, NEW e \in Events, outcome[e]
               PROVE  LET d == decision[e] IN
                      /\ row[e] = [effective |-> d.action, allowed |-> TRUE]
                      /\ ~Refused(config, d) /\ Executable(config, d)
                      /\ d \in Decisions /\ config \in Configs
    BY PassedBothGuards DEF SanctionedActionsOnly
  <2>1. exec[e] # "none" /\ Executable(config, decision[e])
    BY DEF IInv, CausalInv, Linked
  <2>2. Dispatched(e) /\ decision[e] # None
    BY <2>1 DEF IInv, CausalInv, Linked
  <2>3. verdict[e] \in {PolicyGate(config, decision[e]), Downgraded}
    BY <2>2 DEF IInv, CausalInv, Linked
  <2>4. /\ verdict[e] = [effective |-> decision[e].action, allowed |-> TRUE]
        /\ ~Refused(config, decision[e])
    BY <2>2, <2>3, AllowedMeansPassed DEF Dispatched
  <2>5. QED
    BY <2>1, <2>2, <2>4 DEF Dispatched, IInv, TypeOK
<1>2. QED
  BY <1>1, IInvHolds, PTL

(* A refused dispatch never has a goroutine.                               *)
THEOREM RefusalHolds == Spec => []RefusalIsFinal
<1>1. IInv => RefusalIsFinal
  BY DEF IInv, CausalInv, Linked, RefusalIsFinal
<1>2. QED
  BY <1>1, IInvHolds, PTL

-----------------------------------------------------------------------------
(***************************************************************************)
(* Accounting of effects.                                                  *)
(***************************************************************************)
Untouched(e) == \A o \in Operators : ~(ops[o].pc = "update" /\ ops[o].event = e)

AnswersFor(e, x) ==
  /\ Answerable(e)
  /\ EffectOf(e) = x
  /\ exec[e] = "finished" /\ actions[e] = None => Fault("log")
  /\ Untouched(e)

LedgerInv ==
  \A x \in effects : x.action # "KILL" => \E e \in Events : AnswersFor(e, x)

(* A step that changes none of what an event answers with.                 *)
LEMMA AnswerKept ==
  ASSUME NEW e \in Events, NEW x, AnswersFor(e, x), UNCHANGED config,
         outcome'[e] = outcome[e], decision'[e] = decision[e],
         exec'[e] = exec[e], actions'[e] = actions[e], Untouched(e)'
  PROVE  AnswersFor(e, x)'
BY DEF AnswersFor, Answerable, EffectOf, Fault

LEMMA RouterLedger == IInv /\ LedgerInv /\ RouterStep => LedgerInv'
<1> SUFFICES ASSUME IInv, LedgerInv, RouterStep PROVE LedgerInv'
  OBVIOUS
<1>1. UNCHANGED <<config, outcome, actions, effects, ops>>
  BY DEF RouterStep, Decide, MonitorRaises, StoreEvent, NothingToDispatch, IntegrityFails,
         IntegrityHolds, PostArrives, AnswerArrives, PostFails, executorVars
<1>2. ASSUME NEW e \in Events, outcome[e]
      PROVE  decision'[e] = decision[e] /\ exec'[e] = exec[e]
  <2>1. exec[e] \notin {"none", "spawned"} /\ decision[e] # None
    BY <1>2 DEF IInv, CausalInv, Linked
  <2>2. CASE \E f \in Events : Decide(f)
    BY <2>1, <2>2 DEF Decide, IInv, TypeOK, executorVars
  <2>3. CASE PostArrives
    BY <2>1, <2>3 DEF PostArrives, IInv, TypeOK, CausalInv, RouterInv
  <2>4. CASE UNCHANGED <<decision, exec>>
    BY <2>4
  <2>5. QED
    BY <2>2, <2>3, <2>4
    DEF RouterStep, MonitorRaises, StoreEvent, NothingToDispatch, IntegrityFails,
        IntegrityHolds, AnswerArrives, PostFails, executorVars
<1>3. ASSUME NEW e \in Events, NEW x, AnswersFor(e, x) PROVE AnswersFor(e, x)'
  <2>1. outcome[e] /\ Untouched(e)
    BY <1>3 DEF AnswersFor, Answerable
  <2>2. Untouched(e)'
    BY <1>1, <2>1 DEF Untouched
  <2>3. QED
    BY <1>1, <1>2, <1>3, <2>1, <2>2, AnswerKept
<1>4. QED
  BY <1>1, <1>3 DEF LedgerInv

LEMMA ExecutorLedger ==
  ASSUME IInv, LedgerInv, NEW e \in Events, ExecutorStep(e)
  PROVE  LedgerInv'
<1> USE DEF routerVars
<1>1. UNCHANGED <<config, decision, ops>>
  BY DEF ExecutorStep, IgnoreVerdict, Act, FailToAct, LogAction
<1>2. \A f \in Events : Untouched(f) => Untouched(f)'
  BY <1>1 DEF Untouched
<1>3. ASSUME NEW f \in Events \ {e}, NEW x, AnswersFor(f, x) PROVE AnswersFor(f, x)'
  <2>1. /\ outcome'[f] = outcome[f] /\ exec'[f] = exec[f] /\ actions'[f] = actions[f]
    BY DEF ExecutorStep, IgnoreVerdict, Act, FailToAct, LogAction, IInv, TypeOK
  <2>2. QED
    BY <1>1, <1>2, <1>3, <2>1, AnswerKept DEF AnswersFor
<1>4. CASE Act(e)
  <2>1. outcome'[e] /\ exec'[e] = "logging" /\ actions'[e] = None
    BY <1>4 DEF Act, IInv, TypeOK, CausalInv, Linked
  <2>2. Untouched(e)'
    BY <1>1, <1>4 DEF Act, Untouched, IInv, TypeOK, CausalInv, Linked
  <2>3. EffectOf(e)' = EffectOf(e)
    BY <1>1 DEF EffectOf
  <2>4. ASSUME NEW x, x = EffectOf(e) PROVE AnswersFor(e, x)'
    BY <2>1, <2>2, <2>3, <2>4 DEF AnswersFor, Answerable
  <2>5. \A x : ~AnswersFor(e, x)
    BY <1>4 DEF Act, AnswersFor, Answerable, IInv, CausalInv, Linked
  <2>6. effects' = effects \cup {EffectOf(e)}
    BY <1>4 DEF Act
  <2>7. SUFFICES ASSUME NEW x \in effects', x.action # "KILL"
                 PROVE  \E f \in Events : AnswersFor(f, x)'
    BY DEF LedgerInv
  <2>8. CASE x = EffectOf(e)
    BY <2>4, <2>8
  <2>9. CASE x \in effects
    <3>1. PICK f \in Events : AnswersFor(f, x)
      BY <2>7, <2>9 DEF LedgerInv
    <3>2. QED
      BY <1>3, <2>5, <3>1
  <2>10. QED
    BY <2>6, <2>7, <2>8, <2>9
<1>5. CASE LogAction(e)
  <2>1. effects' = effects
    BY <1>5 DEF LogAction
  <2>2. ASSUME NEW x, AnswersFor(e, x) PROVE AnswersFor(e, x)'
    <3>1. outcome' = outcome /\ exec'[e] = "finished" /\ actions[e] = None
      BY <1>5 DEF LogAction, IInv, TypeOK, CausalInv, Linked
    <3>2. \/ actions'[e] = [success |-> outcome[e], rolledBack |-> FALSE]
          \/ actions'[e] = None /\ Fault("log")
      BY <1>5, <3>1 DEF LogAction, IInv, TypeOK
    <3>3. actions'[e] # None => ~actions'[e].rolledBack
      BY <3>2
    <3>4. actions'[e] = None => Fault("log")'
      <4>1. [success |-> outcome[e], rolledBack |-> FALSE] \in Entries
        BY DEF IInv, TypeOK, Entries
      <4>2. [success |-> outcome[e], rolledBack |-> FALSE] # None
        BY <4>1
      <4>3. QED
        BY <1>1, <3>2, <4>2 DEF Fault
    <3>5. QED
      BY <1>1, <1>2, <2>2, <3>1, <3>3, <3>4 DEF AnswersFor, Answerable, EffectOf
  <2>3. QED
    BY <1>3, <2>1, <2>2 DEF LedgerInv
<1>6. CASE IgnoreVerdict(e) \/ FailToAct(e)
  <2>1. effects' = effects
    BY <1>6 DEF IgnoreVerdict, FailToAct
  <2>2. \A x : ~AnswersFor(e, x)
    BY <1>6 DEF IgnoreVerdict, FailToAct, AnswersFor, Answerable, IInv, CausalInv, Linked
  <2>3. QED
    BY <1>3, <2>1, <2>2 DEF LedgerInv
<1>7. QED
  BY <1>4, <1>5, <1>6 DEF ExecutorStep

(* Who answers for an effect that stays is not the event being undone.     *)
LEMMA OperatorLedger ==
  ASSUME IInv, LedgerInv, NEW o \in Operators, OperatorStep(o)
  PROVE  LedgerInv'
<1> USE DEF routerVars, executorVars
<1>1. UNCHANGED <<config, decision, exec, outcome>> /\ effects' \subseteq effects
  BY DEF OperatorStep, Rollback, MarkFalsePositive, SelectActions, RollbackUnreachable,
         UndoAction, MarkRolledBack
<1>2. SUFFICES ASSUME NEW x \in effects', x.action # "KILL",
                      NEW e \in Events, AnswersFor(e, x)
               PROVE  actions'[e] = actions[e] /\ Untouched(e)'
  BY <1>1, AnswerKept DEF LedgerInv
<1>3. Untouched(e) /\ EffectOf(e) = x
  BY <1>2 DEF AnswersFor
<1>4. CASE \E f \in Events : MarkFalsePositive(o, f)
  BY <1>3, <1>4 DEF MarkFalsePositive, Untouched, IInv, TypeOK
<1>5. CASE SelectActions(o)
  BY <1>3, <1>5 DEF SelectActions, Goes, Returns, Idle, Untouched, IInv, TypeOK
<1>6. CASE RollbackUnreachable(o)
  BY <1>3, <1>6 DEF RollbackUnreachable, Returns, Idle, Untouched, IInv, TypeOK
<1>7. CASE UndoAction(o)
  <2> DEFINE f == ops[o].event
  <2>1. \/ ops' = [ops EXCEPT ![o] = Idle]
        \/ ops' = [ops EXCEPT ![o].pc = "update"] /\ decision[f].action = "KILL"
        \/ ops' = [ops EXCEPT ![o].pc = "update"] /\ effects' = effects \ {EffectOf(f)}
    BY <1>7 DEF UndoAction, Goes, Returns
  <2>2. ops' = [ops EXCEPT ![o].pc = "update"] => f # e
    BY <1>2, <1>3, <2>1 DEF EffectOf, Idle, IInv, TypeOK
  <2>3. Untouched(e)'
    BY <1>3, <2>1, <2>2 DEF Untouched, Idle, IInv, TypeOK
  <2>4. QED
    BY <1>7, <2>3 DEF UndoAction
<1>8. CASE MarkRolledBack(o)
  <2>1. ops[o].event # e
    BY <1>3, <1>8 DEF MarkRolledBack, Untouched
  <2>2. actions'[e] = actions[e]
    BY <1>8, <2>1 DEF MarkRolledBack, IInv, TypeOK
  <2>3. Untouched(e)'
    BY <1>3, <1>8 DEF MarkRolledBack, Returns, Idle, Untouched, IInv, TypeOK
  <2>4. QED
    BY <2>2, <2>3
<1>9. QED
  BY <1>4, <1>5, <1>6, <1>7, <1>8 DEF OperatorStep, Rollback

(* The actions table knows what is in force, for any number of concurrent  *)
(* actions and rollbacks.                                                  *)
THEOREM EffectsAccounted == Spec => []EffectsAreAccountedFor
<1>1. Init => LedgerInv
  BY DEF Init, LedgerInv
<1>2. IInv /\ LedgerInv /\ [Next]_vars => LedgerInv'
  <2> SUFFICES ASSUME IInv, LedgerInv, [Next]_vars PROVE LedgerInv'
    OBVIOUS
  <2>1. CASE UNCHANGED vars
    BY <2>1
    DEF vars, routerVars, executorVars, LedgerInv, AnswersFor, Answerable, EffectOf, Fault,
        Untouched
  <2>2. QED
    BY <2>1, RouterLedger, ExecutorLedger, OperatorLedger DEF Next
<1>3. LedgerInv => EffectsAreAccountedFor
  BY DEF LedgerInv, AnswersFor, EffectsAreAccountedFor
<1>4. QED
  BY <1>1, <1>2, <1>3, IInvHolds, PTL DEF Spec

-----------------------------------------------------------------------------
(***************************************************************************)
(* The refinement: each step of guardian, executor and operators is a step *)
(* of ActionLedger or none. CallsInv is what it needs beyond IInv: who is  *)
(* about to log had a target, calls concern marked events, and the event   *)
(* about to be stored has no row.                                          *)
(***************************************************************************)
CallsInv ==
  /\ \A e \in Events : exec[e] = "logging" => decision[e].target.form # "empty"
  /\ \A o \in Operators : ops[o].pc # "idle" => ops[o].event \in marked
  /\ rpc = "store" => row[cur] = None

LEMMA RouterCalls == IInv /\ CallsInv /\ RouterStep => CallsInv'
<1> SUFFICES ASSUME IInv, CallsInv, RouterStep PROVE CallsInv'
  OBVIOUS
<1>1. UNCHANGED <<ops, marked>>
  BY DEF RouterStep, Decide, MonitorRaises, StoreEvent, NothingToDispatch, IntegrityFails,
         IntegrityHolds, PostArrives, AnswerArrives, PostFails
<1>2. ASSUME NEW e \in Events, exec'[e] = "logging"
      PROVE  exec[e] = "logging" /\ decision'[e] = decision[e]
  <2>1. CASE \E f \in Events : Decide(f)
    BY <1>2, <2>1 DEF Decide, IInv, TypeOK, CausalInv, Linked, executorVars
  <2>2. CASE PostArrives
    BY <1>2, <2>2 DEF PostArrives, IInv, TypeOK
  <2>3. CASE UNCHANGED <<decision, exec>>
    BY <1>2, <2>3
  <2>4. QED
    BY <2>1, <2>2, <2>3
    DEF RouterStep, MonitorRaises, StoreEvent, NothingToDispatch, IntegrityFails,
        IntegrityHolds, AnswerArrives, PostFails, executorVars
<1>3. rpc' = "store" => row'[cur'] = None
  BY DEF RouterStep, Decide, MonitorRaises, StoreEvent, NothingToDispatch, IntegrityFails,
         IntegrityHolds, PostArrives, AnswerArrives, PostFails, Settle,
         IInv, CausalInv, Linked
<1>4. QED
  BY <1>1, <1>2, <1>3 DEF CallsInv

LEMMA ExecutorCalls ==
  ASSUME IInv, CallsInv, NEW e \in Events, ExecutorStep(e)
  PROVE  CallsInv'
<1>1. UNCHANGED <<rpc, cur, row, decision, ops, marked>>
  BY DEF ExecutorStep, IgnoreVerdict, Act, FailToAct, LogAction, routerVars
<1>2. Executable(config, decision[e]) => decision[e].target.form # "empty"
  BY DEF Executable
<1>3. \A f \in Events : exec'[f] = "logging" =>
        exec[f] = "logging" \/ decision[f].target.form # "empty"
  BY <1>2 DEF ExecutorStep, IgnoreVerdict, Act, FailToAct, LogAction, IInv, TypeOK
<1>4. QED
  BY <1>1, <1>3 DEF CallsInv

LEMMA OperatorCalls ==
  ASSUME IInv, CallsInv, NEW o \in Operators, OperatorStep(o)
  PROVE  CallsInv'
<1>1. UNCHANGED <<rpc, cur, row, decision, exec>> /\ marked \subseteq marked'
  BY DEF OperatorStep, Rollback, MarkFalsePositive, SelectActions, RollbackUnreachable,
         UndoAction, MarkRolledBack, routerVars, executorVars
<1>2. ASSUME NEW q \in Operators, ops'[q].pc # "idle" PROVE ops'[q].event \in marked'
  <2>1. CASE \E e \in Events : MarkFalsePositive(o, e)
    BY <1>2, <2>1 DEF MarkFalsePositive, CallsInv, IInv, TypeOK
  <2>2. CASE Rollback(o)
    <3>1. \/ \E pc \in {"undo", "update"} : Goes(o, pc)
          \/ Returns(o)
      BY <2>2 DEF Rollback, SelectActions, RollbackUnreachable, UndoAction, MarkRolledBack
    <3>2. ops[o].pc # "idle"
      BY <2>2 DEF Rollback, SelectActions, RollbackUnreachable, UndoAction, MarkRolledBack
    <3>3. ops'[q].event = ops[q].event /\ ops[q].pc # "idle"
      <4>1. CASE q = o
        <5>1. ops'[o].pc # "idle" => \E pc \in {"undo", "update"} : Goes(o, pc)
          BY <3>1 DEF Returns, Idle, IInv, TypeOK
        <5>2. PICK pc \in {"undo", "update"} : Goes(o, pc)
          BY <1>2, <4>1, <5>1
        <5>3. ops'[o].event = ops[o].event
          BY <5>2 DEF Goes, IInv, TypeOK
        <5>4. QED
          BY <3>2, <4>1, <5>3
      <4>2. CASE q # o
        BY <1>2, <3>1, <4>2 DEF Goes, Returns, IInv, TypeOK
      <4>3. QED
        BY <4>1, <4>2
    <3>4. QED
      BY <1>1, <3>3 DEF CallsInv
  <2>3. QED
    BY <2>1, <2>2 DEF OperatorStep
<1>3. QED
  BY <1>1, <1>2 DEF CallsInv

THEOREM CallsInvHolds == Spec => []CallsInv
<1>1. Init => CallsInv
  BY DEF Init, CallsInv, Idle
<1>2. IInv /\ CallsInv /\ [Next]_vars => CallsInv'
  <2> SUFFICES ASSUME IInv, CallsInv, [Next]_vars PROVE CallsInv'
    OBVIOUS
  <2>1. CASE UNCHANGED vars
    BY <2>1 DEF vars, routerVars, executorVars, CallsInv
  <2>2. QED
    BY <2>1, RouterCalls, ExecutorCalls, OperatorCalls DEF Next
<1>3. QED
  BY <1>1, <1>2, IInvHolds, PTL DEF Spec

(* What of an event the ledger shows.                                      *)
Shown(e) == <<StageOf(e), AimOf(e)>>

LEMMA ShownKept ==
  ASSUME NEW e \in Events, row'[e] = row[e],
         row[e] # None =>
           decision'[e] = decision[e] /\ Attempted(e)' = Attempted(e) /\ outcome'[e] = outcome[e]
  PROVE  Shown(e)' = Shown(e)
BY DEF Shown, StageOf, AimOf, Ordered, EffectOf

LEMMA QuietStep ==
  ASSUME \A e \in Events : Shown(e)' = Shown(e),
         \A o \in Operators : UndoneBy(o)' = UndoneBy(o),
         UNCHANGED <<actions, marked, effects>>
  PROVE  UNCHANGED Ledger!ledgerVars
BY DEF Shown, BookingOf, StandingAction, Ledger!ledgerVars

LEMMA StoreIsRuling ==
  ASSUME NEW e \in Events, e = cur, IInv, CallsInv, StoreEvent, row' # row
  PROVE  Ledger!Refuse(e) \/ \E x \in PossibleEffects : Ledger!Order(e, x)
<1>1. /\ row[e] = None /\ exec[e] = "none" /\ decision[e] \in Decisions
      /\ row' = [row EXCEPT ![e] = verdict[e]] /\ verdict[e] \in Verdicts
      /\ UNCHANGED <<decision, exec, outcome, actions, marked, effects, ops>>
  BY DEF StoreEvent, IInv, TypeOK, CausalInv, RouterInv, CallsInv, executorVars
<1>2. /\ row'[e] = verdict[e] /\ row'[e] # None
      /\ \A f \in Events \ {e} : row'[f] = row[f]
  BY <1>1 DEF IInv, TypeOK
<1>3. \A f \in Events \ {e} : Shown(f)' = Shown(f)
  BY <1>1, <1>2, ShownKept DEF Attempted
<1>4. StageOf(e) = "open" /\ ~Attempted(e)' /\ EffectOf(e)' = EffectOf(e)
  BY <1>1 DEF StageOf, Ordered, Attempted, EffectOf
<1>5. UNCHANGED <<[f \in Events |-> BookingOf(f)], [o \in Operators |-> UndoneBy(o)]>>
  BY <1>1 DEF BookingOf, StandingAction, UndoneBy
<1>6. CASE Ordered(e)'
  <2>1. StageOf(e)' = "ordered"
    BY <1>2, <1>4, <1>6 DEF StageOf
  <2>2. EffectOf(e) \in PossibleEffects
    BY <1>1 DEF EffectOf, PossibleEffects
  <2>3. Ledger!Order(e, EffectOf(e))
    BY <1>1, <1>3, <1>4, <1>5, <1>6, <2>1 DEF Ledger!Order, Shown, AimOf
  <2>4. QED
    BY <2>2, <2>3
<1>7. CASE ~Ordered(e)'
  <2>1. StageOf(e)' = "refused"
    BY <1>2, <1>7 DEF StageOf
  <2>2. QED
    BY <1>1, <1>3, <1>4, <1>5, <1>7, <2>1 DEF Ledger!Refuse, Shown, AimOf
<1>8. QED
  BY <1>6, <1>7

LEMMA DowngradeIsRefusal ==
  ASSUME NEW e \in Events, e = cur, IInv, IntegrityFails, row' # row
  PROVE  Ledger!Refuse(e)
<1>1. /\ exec[e] = "none" /\ Ordered(e)
      /\ row' = [row EXCEPT ![e] = Downgraded]
      /\ UNCHANGED <<decision, exec, outcome, actions, marked, effects, ops>>
  BY DEF IntegrityFails, MustDispatch, Ordered, IInv, TypeOK, CausalInv, RouterInv, executorVars
<1>2. /\ row'[e] = Downgraded /\ Downgraded \in Verdicts
      /\ \A f \in Events \ {e} : row'[f] = row[f]
  BY <1>1 DEF IInv, TypeOK, Downgraded, Verdicts, ActionTypes
<1>3. \A f \in Events \ {e} : Shown(f)' = Shown(f)
  BY <1>1, <1>2, ShownKept DEF Attempted
<1>4. StageOf(e) = "ordered"
  BY <1>1 DEF StageOf, Ordered, Attempted
<1>5. StageOf(e)' = "refused" /\ ~Ordered(e)'
  <2>1. row'[e] # None
    BY <1>2
  <2>2. ~Ordered(e)'
    BY <1>2 DEF Ordered, Downgraded
  <2>3. QED
    BY <2>1, <2>2 DEF StageOf
<1>6. UNCHANGED <<[f \in Events |-> BookingOf(f)], [o \in Operators |-> UndoneBy(o)]>>
  BY <1>1 DEF BookingOf, StandingAction, UndoneBy
<1>7. QED
  BY <1>1, <1>3, <1>4, <1>5, <1>6 DEF Ledger!Refuse, Shown, AimOf

LEMMA RouterRefines ==
  ASSUME IInv, CallsInv, RouterStep
  PROVE  [Ledger!LedgerNext]_Ledger!ledgerVars
<1>1. UNCHANGED <<outcome, actions, marked, ops, effects>>
  BY DEF RouterStep, Decide, MonitorRaises, StoreEvent, NothingToDispatch, IntegrityFails,
         IntegrityHolds, PostArrives, AnswerArrives, PostFails, executorVars
<1>2. CASE row' # row
  <2>1. StoreEvent \/ IntegrityFails
    BY <1>2 DEF RouterStep, Decide, MonitorRaises, NothingToDispatch, IntegrityHolds,
                PostArrives, AnswerArrives, PostFails
  <2>2. PICK e \in Events : e = cur
    BY <2>1 DEF StoreEvent, IntegrityFails, MustDispatch, IInv, TypeOK
  <2>3. QED
    BY <1>2, <2>1, <2>2, StoreIsRuling, DowngradeIsRefusal DEF Ledger!LedgerNext
<1>3. CASE row' = row
  <2> SUFFICES ASSUME NEW e \in Events, row[e] # None
               PROVE  decision'[e] = decision[e] /\ Attempted(e)' = Attempted(e)
    BY <1>1, <1>3, ShownKept, QuietStep DEF UndoneBy
  <2>1. CASE \E f \in Events : Decide(f)
    BY <2>1 DEF Decide, Attempted, IInv, TypeOK, CausalInv, Linked, executorVars
  <2>2. CASE PostArrives
    BY <2>2 DEF PostArrives, Attempted, IInv, TypeOK, CausalInv, RouterInv
  <2>3. CASE UNCHANGED <<decision, exec>>
    BY <2>3 DEF Attempted
  <2>4. QED
    BY <2>1, <2>2, <2>3
    DEF RouterStep, MonitorRaises, StoreEvent, NothingToDispatch, IntegrityFails,
        IntegrityHolds, AnswerArrives, PostFails, executorVars
<1>4. QED
  BY <1>2, <1>3
LEMMA ExecutorRefines ==
  ASSUME IInv, CallsInv, NEW e \in Events, ExecutorStep(e)
  PROVE  [Ledger!LedgerNext]_Ledger!ledgerVars
<1>1. /\ UNCHANGED <<config, row, decision, marked, ops>>
      /\ \A o \in Operators : UndoneBy(o)' = UndoneBy(o)
  BY DEF ExecutorStep, IgnoreVerdict, Act, FailToAct, LogAction, routerVars, UndoneBy
<1>2. \A f \in Events : AimOf(f)' = AimOf(f) /\ Ordered(f)' = Ordered(f)
  BY <1>1 DEF AimOf, Ordered, EffectOf
<1>3. \A f \in Events \ {e} :
        outcome'[f] = outcome[f] /\ exec'[f] = exec[f] /\ actions'[f] = actions[f]
  BY DEF ExecutorStep, IgnoreVerdict, Act, FailToAct, LogAction, IInv, TypeOK
<1>4. \A f \in Events \ {e} : StageOf(f)' = StageOf(f) /\ BookingOf(f)' = BookingOf(f)
  BY <1>1, <1>2, <1>3 DEF StageOf, Attempted, BookingOf, StandingAction
<1>5. exec[e] # "none" /\ Ordered(e) /\ row[e] # None
  BY DEF ExecutorStep, IgnoreVerdict, Act, FailToAct, LogAction, IInv, TypeOK, CausalInv,
         Linked, Dispatched, Ordered
<1>6. AimOf(e) = EffectOf(e)
  BY <1>5 DEF AimOf
<1>7. StageOf(e) = IF ~Attempted(e) THEN "ordered" ELSE IF outcome[e] THEN "done" ELSE "failed"
  BY <1>5 DEF StageOf
<1>8. StageOf(e)' = IF ~Attempted(e)' THEN "ordered"
                    ELSE IF outcome'[e] THEN "done" ELSE "failed"
  BY <1>1, <1>2, <1>5 DEF StageOf
<1>9. CASE IgnoreVerdict(e)
  <2>1. ~Attempted(e) /\ ~Attempted(e)' /\ UNCHANGED <<actions, effects>>
    BY <1>9 DEF IgnoreVerdict, Attempted, IInv, TypeOK, routerVars
  <2>2. \A f \in Events : Shown(f)' = Shown(f)
    BY <1>2, <1>4, <1>7, <1>8, <2>1 DEF Shown
  <2>3. QED
    BY <1>1, <2>1, <2>2, QuietStep
<1>10. CASE Act(e) \/ FailToAct(e)
  <2>1. decision[e].target.form # "empty"
    BY <1>10 DEF Act, FailToAct, Executable
  <2>2. ~Attempted(e) /\ Attempted(e)' /\ UNCHANGED actions
    BY <1>1, <1>10, <2>1 DEF Act, FailToAct, Attempted, IInv, TypeOK
  <2>3. \/ outcome'[e] /\ effects' = effects \cup {EffectOf(e)}
        \/ ~outcome'[e] /\ effects' = effects
    BY <1>10 DEF Act, FailToAct, IInv, TypeOK, CausalInv, Linked
  <2>4. \A f \in Events : BookingOf(f)' = BookingOf(f)
    BY <2>2 DEF BookingOf, StandingAction
  <2>5. StageOf(e) = "ordered" /\ StageOf(e)' = IF outcome'[e] THEN "done" ELSE "failed"
    BY <1>7, <1>8, <2>2
  <2>6. Ledger!Attempt(e)
    BY <1>1, <1>2, <1>4, <1>6, <2>3, <2>4, <2>5 DEF Ledger!Attempt
  <2>7. QED
    BY <2>6 DEF Ledger!LedgerNext
<1>11. CASE LogAction(e)
  <2>1. Attempted(e) /\ Attempted(e)' /\ UNCHANGED <<outcome, effects>> /\ actions[e] = None
    BY <1>1, <1>11 DEF LogAction, Attempted, CallsInv, IInv, TypeOK, CausalInv, Linked
  <2>2. \A f \in Events : StageOf(f)' = StageOf(f)
    BY <1>4, <1>7, <1>8, <2>1
  <2>3. CASE UNCHANGED actions
    BY <1>1, <1>2, <2>1, <2>2, <2>3, QuietStep DEF Shown
  <2>4. CASE actions' = [actions EXCEPT ![e] = [success |-> outcome[e], rolledBack |-> FALSE]]
    <3>1. [success |-> outcome[e], rolledBack |-> FALSE] \in Entries
      BY DEF IInv, TypeOK, Entries
    <3>2. actions'[e] # None /\ ~actions'[e].rolledBack
      BY <2>4, <3>1 DEF IInv, TypeOK
    <3>3. BookingOf(e) = "none" /\ BookingOf(e)' = "standing"
      BY <2>1, <3>2 DEF BookingOf, StandingAction
    <3>4. StageOf(e) \in {"done", "failed"}
      BY <1>7, <2>1
    <3>5. Ledger!Book(e)
      BY <1>1, <1>2, <1>4, <2>1, <2>2, <3>3, <3>4 DEF Ledger!Book
    <3>6. QED
      BY <3>5 DEF Ledger!LedgerNext
  <2>5. QED
    BY <1>11, <2>3, <2>4 DEF LogAction
<1>12. QED
  BY <1>9, <1>10, <1>11 DEF ExecutorStep

(* A row of the actions table is of an event whose order was carried out.  *)
LEMMA UndoIsUndo ==
  ASSUME IInv, CallsInv, NEW o \in Operators, NEW e \in Events,
         UndoAction(o), ops[o].event = e, ops' = [ops EXCEPT ![o].pc = "update"]
  PROVE  Ledger!Undo(o, e)
<1>1. /\ ops[o].pc = "undo" /\ e \in marked /\ actions[e] # None
      /\ UNCHANGED <<row, decision, exec, outcome, actions, marked>>
  BY DEF UndoAction, CallsInv, IInv, TypeOK, routerVars, executorVars
<1>2. Ordered(e) /\ decision[e] \in Decisions
  BY <1>1 DEF Ordered, IInv, TypeOK, CausalInv, Linked, Dispatched
<1>3. AimOf(e) = EffectOf(e) /\ EffectOf(e) \in PossibleEffects
  BY <1>2 DEF AimOf, EffectOf, PossibleEffects
<1>4. EffectOf(e).action = decision[e].action
  BY DEF EffectOf
<1>5. effects' = IF decision[e].action = "KILL" THEN effects ELSE effects \ {EffectOf(e)}
  <2>1. ops' # [ops EXCEPT ![o] = Idle]
    BY DEF Idle, IInv, TypeOK
  <2>2. QED
    BY <2>1 DEF UndoAction, Returns
<1>6. BookingOf(e) # "none"
  BY <1>1 DEF BookingOf
<1>7. UndoneBy(o) = None /\ UndoneBy(o)' = e
  BY <1>1 DEF UndoneBy, IInv, TypeOK
<1>8. \A q \in Operators \ {o} : UndoneBy(q)' = UndoneBy(q)
  BY DEF UndoneBy, IInv, TypeOK
<1>9. \A f \in Events : /\ StageOf(f)' = StageOf(f) /\ AimOf(f)' = AimOf(f)
                        /\ BookingOf(f)' = BookingOf(f)
  BY <1>1 DEF StageOf, AimOf, BookingOf, StandingAction, Ordered, Attempted, EffectOf
<1>10. QED
  BY <1>1, <1>3, <1>4, <1>5, <1>6, <1>7, <1>8, <1>9 DEF Ledger!Undo

LEMMA OperatorRefines ==
  ASSUME IInv, CallsInv, NEW o \in Operators, OperatorStep(o)
  PROVE  [Ledger!LedgerNext]_Ledger!ledgerVars
<1>1. UNCHANGED <<row, decision, exec, outcome>>
  BY DEF OperatorStep, Rollback, MarkFalsePositive, SelectActions, RollbackUnreachable,
         UndoAction, MarkRolledBack, routerVars, executorVars
<1>2. \A f \in Events : StageOf(f)' = StageOf(f) /\ AimOf(f)' = AimOf(f)
  BY <1>1 DEF StageOf, AimOf, Ordered, Attempted, EffectOf
<1>3. \A f \in Events : Shown(f)' = Shown(f)
  BY <1>2 DEF Shown
<1>4. ASSUME NEW e \in Events, MarkFalsePositive(o, e) PROVE Ledger!Disown(e)
  <2>1. StageOf(e) # "open"
    BY <1>4 DEF MarkFalsePositive, StageOf, Ordered
  <2>2. \A q \in Operators : UndoneBy(q)' = UndoneBy(q)
    BY <1>4 DEF MarkFalsePositive, UndoneBy, IInv, TypeOK
  <2>3. \A f \in Events : BookingOf(f)' = BookingOf(f)
    BY <1>4 DEF MarkFalsePositive, BookingOf, StandingAction, executorVars
  <2>4. QED
    BY <1>2, <1>4, <2>1, <2>2, <2>3 DEF MarkFalsePositive, Ledger!Disown
<1>5. CASE SelectActions(o) \/ RollbackUnreachable(o)
  <2>1. /\ ops[o].pc # "update" /\ UNCHANGED <<actions, marked, effects>>
        /\ Goes(o, "undo") \/ Returns(o)
    BY <1>5 DEF SelectActions, RollbackUnreachable, executorVars
  <2>2. \A q \in Operators : UndoneBy(q)' = UndoneBy(q)
    BY <2>1 DEF Goes, Returns, Idle, UndoneBy, IInv, TypeOK
  <2>3. QED
    BY <1>3, <2>1, <2>2, QuietStep
<1>6. CASE UndoAction(o)
  <2>1. PICK e \in Events : e = ops[o].event
    BY <1>6 DEF UndoAction, IInv, TypeOK
  <2>2. CASE ops' = [ops EXCEPT ![o].pc = "update"]
    BY <1>6, <2>1, <2>2, UndoIsUndo DEF Ledger!LedgerNext
  <2>3. CASE ops' # [ops EXCEPT ![o].pc = "update"]
    <3>1. /\ ops[o].pc = "undo" /\ ops' = [ops EXCEPT ![o] = Idle]
          /\ UNCHANGED <<actions, marked, effects>>
      BY <1>6, <2>3 DEF UndoAction, Goes, Returns, executorVars
    <3>2. \A q \in Operators : UndoneBy(q)' = UndoneBy(q)
      BY <3>1 DEF Idle, UndoneBy, IInv, TypeOK
    <3>3. QED
      BY <1>3, <3>1, <3>2, QuietStep
  <2>4. QED
    BY <2>2, <2>3
<1>7. CASE MarkRolledBack(o)
  <2>1. PICK e \in Events : e = ops[o].event
    BY <1>7 DEF MarkRolledBack, IInv, TypeOK
  <2>2. UndoneBy(o) = e /\ e # None /\ actions[e] \in Entries
    BY <1>7, <2>1 DEF MarkRolledBack, UndoneBy, IInv, TypeOK
  <2>3. UndoneBy(o)' = None /\ \A q \in Operators \ {o} : UndoneBy(q)' = UndoneBy(q)
    BY <1>7 DEF MarkRolledBack, Returns, Idle, UndoneBy, IInv, TypeOK
  <2>4. \/ \A f \in Events : BookingOf(f)' = BookingOf(f)
        \/ /\ BookingOf(e)' = "closed"
           /\ \A f \in Events \ {e} : BookingOf(f)' = BookingOf(f)
    <3>1. CASE UNCHANGED actions
      BY <3>1 DEF BookingOf, StandingAction
    <3>2. CASE actions' = [actions EXCEPT ![e].rolledBack = TRUE]
      <4>1. [actions[e] EXCEPT !.rolledBack = TRUE] \in Entries
        BY <2>2 DEF Entries
      <4>2. /\ actions'[e] # None /\ actions'[e].rolledBack
            /\ \A f \in Events \ {e} : actions'[f] = actions[f]
        BY <2>2, <3>2, <4>1 DEF IInv, TypeOK, Entries
      <4>3. QED
        BY <4>2 DEF BookingOf, StandingAction
    <3>3. QED
      BY <1>7, <2>1, <3>1, <3>2 DEF MarkRolledBack
  <2>5. UNCHANGED <<marked, effects>>
    BY <1>7 DEF MarkRolledBack
  <2>6. Ledger!Close(o)
    <3> DEFINE pending == [q \in Operators |-> UndoneBy(q)]
               bookings == [f \in Events |-> BookingOf(f)]
    <3>1. pending[o] = e
      BY <2>2
    <3>2. pending' = [pending EXCEPT ![o] = None]
      BY <2>3
    <3>3. bookings' = bookings \/ bookings' = [bookings EXCEPT ![e] = "closed"]
      <4>1. CASE \A f \in Events : BookingOf(f)' = BookingOf(f)
        BY <4>1
      <4>2. CASE /\ BookingOf(e)' = "closed"
                 /\ \A f \in Events \ {e} : BookingOf(f)' = BookingOf(f)
        BY <4>2
      <4>3. QED
        BY <2>4, <4>1, <4>2
    <3>4. UNCHANGED <<[f \in Events |-> StageOf(f)], [f \in Events |-> AimOf(f)]>>
      BY <1>2
    <3>5. QED
      BY <2>2, <2>5, <3>1, <3>2, <3>3, <3>4 DEF Ledger!Close
  <2>7. QED
    BY <2>6 DEF Ledger!LedgerNext
<1>8. QED
  BY <1>4, <1>5, <1>6, <1>7 DEF OperatorStep, Rollback, Ledger!LedgerNext

(* Guardian, executor and operators keep a ledger of actions, for any      *)
(* number of events and of overlapping calls.                              *)
THEOREM EnforcementImplementsLedger == Spec => ImplementsLedger
<1>1. Init => Ledger!LedgerInit
  <2> SUFFICES ASSUME Init PROVE Ledger!LedgerInit
    OBVIOUS
  <2>1. \A e \in Events : ~Ordered(e) /\ row[e] = None /\ actions[e] = None
    BY DEF Init, Ordered
  <2>2. \A e \in Events : StageOf(e) = "open" /\ AimOf(e) = None /\ BookingOf(e) = "none"
    BY <2>1 DEF StageOf, AimOf, BookingOf, StandingAction
  <2>3. \A o \in Operators : UndoneBy(o) = None
    BY DEF Init, Idle, UndoneBy
  <2>4. QED
    BY <2>2, <2>3 DEF Init, Ledger!LedgerInit
<1>2. IInv /\ CallsInv /\ [Next]_vars => [Ledger!LedgerNext]_Ledger!ledgerVars
  <2> SUFFICES ASSUME IInv, CallsInv, [Next]_vars
               PROVE  [Ledger!LedgerNext]_Ledger!ledgerVars
    OBVIOUS
  <2>1. CASE UNCHANGED vars
    <3>1. \A e \in Events : Shown(e)' = Shown(e)
      BY <2>1, ShownKept DEF vars, routerVars, executorVars, Attempted
    <3>2. \A o \in Operators : UndoneBy(o)' = UndoneBy(o)
      BY <2>1 DEF vars, UndoneBy
    <3>3. QED
      BY <2>1, <3>1, <3>2, QuietStep DEF vars, executorVars
  <2>2. QED
    BY <2>1, RouterRefines, ExecutorRefines, OperatorRefines DEF Next
<1>3. QED
  BY <1>1, <1>2, IInvHolds, CallsInvHolds, PTL DEF Spec, ImplementsLedger, Ledger!LedgerSpec
=============================================================================
