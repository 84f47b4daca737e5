----------------------------- MODULE Enforcement -----------------------------
(***************************************************************************)
(* The way of a decision from the analyst to the host and back: the router *)
(* thread of the guardian (policy gate, events table, dispatch), the Go    *)
(* executor with one goroutine per verdict (action, actions table), and    *)
(* operators who mark false positives and so ask for a rollback.           *)
(*                                                                         *)
(* The three run concurrently and meet only in the database, in HTTP calls *)
(* that may fail or be answered too late, and on the host itself.          *)
(***************************************************************************)
EXTENDS Naturals, FiniteSets

CONSTANTS
  Events,      \* events the analyst decides on; also the ids of their rows
  Decisions,   \* what the analyst may answer
  Configs,     \* configurations of guardian and executor, and their faults
  Operators,   \* concurrent calls of mark_false_positive
  None         \* no event, no pid, no decision, no row

(* What the guardian and the executor tell targets apart by: a number, an  *)
(* address or a path (told apart by id), text that is none of them ("None" *)
(* stands for a missing target), or nothing at all. A "reserved" address   *)
(* is private to Python's ipaddress and not to the executor; an "escaped"  *)
(* path has a character in it that JSON writes with a backslash.           *)
(*                                                                         *)
(* A number may have a sign ("+150", "pidSigned"): to str.isdigit it is no *)
(* number, to strconv.Atoi it is the same one. (Digits of other scripts    *)
(* are one to the gate only, as "pid:150" is.)                             *)
Forms == {"pid", "pidSigned", "pidColon", "ip4", "ip6", "path", "text", "empty"}
Classes == {"public", "private", "reserved", "protectedName", "escaped", "plain"}
Targets == [form : Forms, id : Nat, class : Classes]

DestructiveActions == {"KILL", "BLOCK", "QUARANTINE"}
ActionTypes == DestructiveActions \cup {"ALERT", "LOG", "NONE"}

Verdicts == [effective : ActionTypes, allowed : BOOLEAN]
Entries == [success : BOOLEAN, rolledBack : BOOLEAN]

(* What may go wrong: a write of the live monitor, of the events table, the*)
(* integrity check, HTTP between guardian and executor, a command of the   *)
(* executor, a write of the actions table.                                 *)
Faults == {"monitor", "store", "integrity", "link", "command", "log"}

ASSUME EnforcementAssumption ==
  /\ None \notin Events \cup Nat \cup Decisions \cup Verdicts \cup Entries
  /\ Decisions \subseteq [action : ActionTypes, target : Targets,
                          confidence : Nat, rawPid : Nat \cup {None}]
  /\ Configs \subseteq [learning : BOOLEAN, dryRun : BOOLEAN, autonomous : BOOLEAN,
                        threshold : Nat, minEvidence : Nat, neverBlockPrivate : BOOLEAN,
                        protectedMax : Nat, minPid : Nat, allowPrivate : BOOLEAN,
                        faults : SUBSET Faults]

VARIABLES
  config,             \* chosen when guardian and executor start
  rpc, cur,           \* the router thread: stage and event
  decision, verdict,  \* per event: the analyst's decision, what the gate made of it
  row, marked,        \* table events: decision column; rows with false_positive = 1
  result,             \* per event: what _dispatch_enforcement returned
  exec, outcome,      \* per event: its goroutine in the executor, ActionResult.Success
  actions,            \* table actions, at most one row per event
  effects,            \* what is in force on the host
  ops                 \* the calls of mark_false_positive

routerVars == <<rpc, cur, decision, verdict, row, result>>
executorVars == <<exec, outcome, actions>>
vars == <<config, routerVars, executorVars, marked, effects, ops>>

(* No call of mark_false_positive is under way.                            *)
Idle == [pc |-> "idle", event |-> None]

Init ==
  /\ config \in Configs
  /\ rpc = "idle" /\ cur = None
  /\ decision = [e \in Events |-> None]
  /\ verdict = [e \in Events |-> [effective |-> "NONE", allowed |-> FALSE]]
  /\ row = [e \in Events |-> None]
  /\ marked = {}
  /\ result = [e \in Events |-> "none"]
  /\ exec = [e \in Events |-> "none"]
  /\ outcome = [e \in Events |-> FALSE]
  /\ actions = [e \in Events |-> None]
  /\ effects = {}
  /\ ops = [o \in Operators |-> Idle]

Fault(f) == f \in config.faults

-----------------------------------------------------------------------------
(***************************************************************************)
(* The policy gate, a pure function of configuration and decision. A name  *)
(* that ends in Bug is a faulty variant of the definition after it, used   *)
(* to show that a property can fail and never part of Next.                *)
(***************************************************************************)

(* The event's pid wins over the target's.                                 *)
PidOfRawFirstBug(d) ==
  IF d.rawPid # None THEN d.rawPid
  ELSE IF d.target.form \in {"pid", "pidColon"} THEN d.target.id ELSE None

(* The pid the gate looks at: the target's if isdigit or "pid:" tell it    *)
(* apart, else the event's own.                                            *)
PidOf(d) ==
  IF d.target.form \in {"pid", "pidColon"} THEN d.target.id ELSE d.rawPid

(* No decision of the guardian's analyst carries an evidence_count (the    *)
(* schema has no such field), so the gate is given its default.            *)
EvidenceCount == 2

SafeMode(c) == c.learning \/ c.dryRun \/ ~c.autonomous

(* The gates a destructive decision can fail. A process name is only read  *)
(* off a path; an address only off a target with a dot, so not off IPv6.   *)
Refused(c, d) ==
  \/ SafeMode(c)
  \/ d.confidence < c.threshold
  \/ EvidenceCount < c.minEvidence
  \/ d.action = "KILL" /\ PidOf(d) # None /\ PidOf(d) <= c.protectedMax
  \/ d.action = "KILL" /\ d.target.form = "path" /\ d.target.class = "protectedName"
  \/ /\ d.action = "BLOCK" /\ c.neverBlockPrivate
     /\ d.target.form = "ip4" /\ d.target.class \in {"private", "reserved"}

PolicyGate(c, d) ==
  IF d.action \in DestructiveActions /\ Refused(c, d)
  THEN [effective |-> "ALERT", allowed |-> FALSE]
  ELSE [effective |-> d.action, allowed |-> TRUE]

-----------------------------------------------------------------------------
(***************************************************************************)
(* The router thread.                                                      *)
(***************************************************************************)

(* _reason_event and apply_policy_gate.                                    *)
Decide(e) ==
  /\ rpc = "idle"
  /\ decision[e] = None
  /\ \E d \in Decisions :
       /\ decision' = [decision EXCEPT ![e] = d]
       /\ verdict' = [verdict EXCEPT ![e] = PolicyGate(config, d)]
  /\ rpc' = "store" /\ cur' = e
  /\ UNCHANGED <<config, row, result, executorVars, marked, effects, ops>>

(* The router is done with an event, with this result.                     *)
Settle(r) ==
  /\ result' = [result EXCEPT ![cur] = r]
  /\ rpc' = "idle" /\ cur' = None

(* A write of the live monitor raises: the generic handler gives the event *)
(* up wherever it is.                                                      *)
MonitorRaises ==
  /\ Fault("monitor")
  /\ rpc \in {"store", "dispatch"}
  /\ Settle("pipeline_error")
  /\ UNCHANGED <<config, decision, verdict, row, executorVars, marked, effects, ops>>

(* store_event: the row and its id, or -1 -- which _dispatch_enforcement   *)
(* answers before anything else.                                           *)
StoreEvent ==
  /\ rpc = "store"
  /\ \/ row' = [row EXCEPT ![cur] = verdict[cur]] /\ rpc' = "dispatch" /\ UNCHANGED <<cur, result>>
     \/ Fault("store") /\ Settle("event_not_persisted") /\ UNCHANGED row
  /\ UNCHANGED <<config, decision, verdict, executorVars, marked, effects, ops>>

(* A gated verdict is an ALERT, so a refusal also ends here.               *)
NothingToDispatch ==
  /\ rpc = "dispatch"
  /\ verdict[cur].effective \notin DestructiveActions
  /\ Settle("no_destructive_action")
  /\ UNCHANGED <<config, decision, verdict, row, executorVars, marked, effects, ops>>

MustDispatch ==
  /\ rpc = "dispatch"
  /\ verdict[cur].effective \in DestructiveActions
  /\ verdict[cur].allowed

Downgraded == [effective |-> "ALERT", allowed |-> FALSE]

(* The downgrade is recorded and the dispatch goes on.                     *)
IntegrityFailsBug ==
  /\ MustDispatch
  /\ Fault("integrity")
  /\ verdict' = [verdict EXCEPT ![cur] = Downgraded]
  /\ row' = [row EXCEPT ![cur] = Downgraded]
  /\ result' = [result EXCEPT ![cur] = "integrity_check_failed"]
  /\ rpc' = "post"
  /\ UNCHANGED <<config, cur, decision, executorVars, marked, effects, ops>>

(* check_executor_integrity says no: the decision is downgraded and its    *)
(* row updated, unless the update fails too.                               *)
IntegrityFails ==
  /\ MustDispatch
  /\ Fault("integrity")
  /\ verdict' = [verdict EXCEPT ![cur] = Downgraded]
  /\ \/ row' = [row EXCEPT ![cur] = Downgraded]
     \/ Fault("store") /\ UNCHANGED row
  /\ Settle("integrity_check_failed")
  /\ UNCHANGED <<config, decision, executorVars, marked, effects, ops>>

IntegrityHolds ==
  /\ MustDispatch
  /\ rpc' = "post"
  /\ UNCHANGED <<config, cur, decision, verdict, row, result,
                 executorVars, marked, effects, ops>>

(* execute_decision, the request arrives: handleVerdict starts a goroutine *)
(* and answers before it has done anything.                                *)
PostArrives ==
  /\ rpc = "post"
  /\ exec' = [exec EXCEPT ![cur] = "spawned"]
  /\ rpc' = "await"
  /\ UNCHANGED <<config, cur, decision, verdict, row, result, outcome, actions,
                 marked, effects, ops>>

(* The answer, which may also be lost or come after the 5 s time-out.      *)
AnswerArrives ==
  /\ rpc = "await"
  /\ \/ Settle("dispatch_success")
     \/ Fault("link") /\ Settle("dispatch_failed")
  /\ UNCHANGED <<config, decision, verdict, row, executorVars, marked, effects, ops>>

(* No healthy executor, no token, or the request does not arrive.          *)
PostFails ==
  /\ rpc = "post"
  /\ Fault("link")
  /\ Settle("dispatch_failed")
  /\ UNCHANGED <<config, decision, verdict, row, executorVars, marked, effects, ops>>

RouterStep ==
  \/ \E e \in Events : Decide(e)
  \/ MonitorRaises
  \/ StoreEvent
  \/ NothingToDispatch
  \/ IntegrityFails
  \/ IntegrityHolds
  \/ PostArrives
  \/ AnswerArrives
  \/ PostFails
-----------------------------------------------------------------------------
(***************************************************************************)
(* The executor. Each goroutine acts for one event and logs what it did.   *)
(***************************************************************************)

(* What blockIP and killProcess refuse of their own: net.ParseIP, Atoi and *)
(* the guards of safety.go.                                                *)
Executable(c, d) ==
  \/ /\ d.action = "KILL" /\ d.target.form \in {"pid", "pidSigned"}
     /\ d.target.id > 2 /\ d.target.id >= c.minPid
  \/ /\ d.action = "BLOCK" /\ d.target.form \in {"ip4", "ip6"}
     /\ d.target.class = "private" => c.allowPrivate
  \/ d.action = "QUARANTINE" /\ d.target.form = "path"

(* What an action leaves on the host. A rule or a killed process is the    *)
(* same for whoever asked for it; every quarantined file has its own name. *)
EffectOf(e) ==
  [action |-> decision[e].action, target |-> decision[e].target,
   file |-> IF decision[e].action = "QUARANTINE" THEN e ELSE None]

(* Is the target still there for the command to act on, whatever the text  *)
(* it was named by? ufw skips a rule it has and reports success.           *)
Applicable(e) ==
  \/ decision[e].action = "BLOCK"
  \/ \A x \in effects :
       ~(x.action = decision[e].action /\ x.target.id = decision[e].target.id)

(* dispatchMitigation: no target, no action and no log.                    *)
IgnoreVerdict(e) ==
  /\ exec[e] = "spawned"
  /\ decision[e].target.form = "empty"
  /\ exec' = [exec EXCEPT ![e] = "finished"]
  /\ UNCHANGED <<config, routerVars, outcome, actions, marked, effects, ops>>

(* killProcess, blockIP, quarantineFile: the command succeeded.            *)
Act(e) ==
  /\ exec[e] = "spawned"
  /\ Executable(config, decision[e]) /\ Applicable(e)
  /\ effects' = effects \cup {EffectOf(e)}
  /\ outcome' = [outcome EXCEPT ![e] = TRUE]
  /\ exec' = [exec EXCEPT ![e] = "logging"]
  /\ UNCHANGED <<config, routerVars, actions, marked, ops>>

(* The executor refused, or its command failed.                            *)
FailToAct(e) ==
  /\ exec[e] = "spawned"
  /\ decision[e].target.form # "empty"
  /\ Executable(config, decision[e]) /\ Applicable(e) => Fault("command")
  /\ exec' = [exec EXCEPT ![e] = "logging"]
  /\ UNCHANGED <<config, routerVars, outcome, actions, marked, effects, ops>>

(* logAction: an error of the insert is logged and forgotten. A restart of *)
(* the executor at this point has the same outcome.                        *)
LogAction(e) ==
  /\ exec[e] = "logging"
  /\ \/ actions' = [actions EXCEPT ![e] = [success |-> outcome[e], rolledBack |-> FALSE]]
     \/ Fault("log") /\ UNCHANGED actions
  /\ exec' = [exec EXCEPT ![e] = "finished"]
  /\ UNCHANGED <<config, routerVars, outcome, marked, effects, ops>>

ExecutorStep(e) == IgnoreVerdict(e) \/ Act(e) \/ FailToAct(e) \/ LogAction(e)

-----------------------------------------------------------------------------
(***************************************************************************)
(* mark_false_positive, and the handler of /rollback it calls.             *)
(***************************************************************************)
Goes(o, pc) == ops' = [ops EXCEPT ![o].pc = pc]
Returns(o) == ops' = [ops EXCEPT ![o] = Idle]

(* UPDATE events, INSERT INTO false_positives, commit.                     *)
MarkFalsePositive(o, e) ==
  /\ ops[o].pc = "idle"
  /\ row[e] # None
  /\ marked' = marked \cup {e}
  /\ ops' = [ops EXCEPT ![o] = [pc |-> "select", event |-> e]]
  /\ UNCHANGED <<config, routerVars, executorVars, effects>>

StandingAction(e) == actions[e] # None /\ ~actions[e].rolledBack

(* WHERE rolled_back = 1 for WHERE rolled_back = 0.                        *)
SelectActionsInvertedBug(o) ==
  LET e == ops[o].event IN
  /\ ops[o].pc = "select"
  /\ IF actions[e] # None /\ ~StandingAction(e) THEN Goes(o, "undo") ELSE Returns(o)
  /\ UNCHANGED <<config, routerVars, executorVars, marked, effects>>

(* Every action of the event that is not rolled back, failed ones too.     *)
SelectActions(o) ==
  /\ ops[o].pc = "select"
  /\ IF StandingAction(ops[o].event) THEN Goes(o, "undo") ELSE Returns(o)
  /\ UNCHANGED <<config, routerVars, executorVars, marked, effects>>

(* rollback_last_action gives up: no healthy executor, no token, no answer.*)
(* mark_false_positive returns True all the same.                          *)
RollbackUnreachable(o) ==
  /\ ops[o].pc = "undo"
  /\ Fault("link")
  /\ Returns(o)
  /\ UNCHANGED <<config, routerVars, executorVars, marked, effects>>

(* The rollback data is JSON text that was put together without escaping:  *)
(* the names of some files are not read back from it, or not as they were. *)
Readable(d) == d.target.class # "escaped"

(* Is there anything the undo could fail on? A rule that is gone may be    *)
(* reported either way; a file that is gone cannot be moved.               *)
MayFail(e) ==
  \/ Fault("command")
  \/ ~Executable(config, decision[e]) \/ ~Readable(decision[e])
  \/ EffectOf(e) \notin effects

MaySucceed(e) ==
  /\ Executable(config, decision[e]) /\ Readable(decision[e])
  /\ decision[e].action = "QUARANTINE" => EffectOf(e) \in effects

(* The undo's error is not returned: the row is marked all the same.       *)
UndoActionBug(o) ==
  LET e == ops[o].event IN
  /\ ops[o].pc = "undo"
  /\ \/ effects' = effects \ {EffectOf(e)}
     \/ MayFail(e) /\ UNCHANGED effects
  /\ Goes(o, "update")
  /\ UNCHANGED <<config, routerVars, executorVars, marked>>

(* rollbackAction up to its UPDATE. A kill is not undone and not an error; *)
(* without rollback data, with data that is not readable ("invalid rollback*)
(* data"), or when the command fails, the handler returns.                 *)
UndoAction(o) ==
  LET e == ops[o].event IN
  /\ ops[o].pc = "undo"
  /\ IF decision[e].action = "KILL"
     THEN UNCHANGED effects /\ Goes(o, "update")
     ELSE \/ MaySucceed(e) /\ effects' = effects \ {EffectOf(e)} /\ Goes(o, "update")
          \/ MayFail(e) /\ UNCHANGED effects /\ Returns(o)
  /\ UNCHANGED <<config, routerVars, executorVars, marked>>

(* UPDATE actions SET rolled_back = 1.                                     *)
MarkRolledBack(o) ==
  /\ ops[o].pc = "update"
  /\ \/ actions' = [actions EXCEPT ![ops[o].event].rolledBack = TRUE]
     \/ Fault("log") /\ UNCHANGED actions
  /\ Returns(o)
  /\ UNCHANGED <<config, routerVars, exec, outcome, marked, effects>>

Rollback(o) ==
  SelectActions(o) \/ RollbackUnreachable(o) \/ UndoAction(o) \/ MarkRolledBack(o)

OperatorStep(o) == Rollback(o) \/ \E e \in Events : MarkFalsePositive(o, e)

-----------------------------------------------------------------------------
Next ==
  \/ RouterStep
  \/ \E e \in Events : ExecutorStep(e)
  \/ \E o \in Operators : OperatorStep(o)

(* The executor's goroutines and the calls an operator has begun run on;   *)
(* the arrival of events and of operators is not fair.                     *)
Fairness ==
  /\ \A e \in Events : WF_vars(ExecutorStep(e))
  /\ \A o \in Operators : WF_vars(Rollback(o))

Spec == Init /\ [][Next]_vars
FairSpec == Spec /\ Fairness

-----------------------------------------------------------------------------
(***************************************************************************)
(* Properties.                                                             *)
(***************************************************************************)
RouterStages == {"idle", "store", "dispatch", "post", "await"}
Results == {"none", "pipeline_error", "event_not_persisted", "no_destructive_action",
            "integrity_check_failed", "dispatch_success", "dispatch_failed"}

(* Every variable has its type (effects apart, which EffectsAreAccountedFor*)
(* bounds); who works on an event has one to work on: the router, a call of*)
(* mark_false_positive, a rollback (whose row in actions exists).          *)
TypeOK ==
  /\ config \in Configs
  /\ rpc \in RouterStages
  /\ cur \in Events \cup {None}
  /\ rpc # "idle" => cur \in Events
  /\ decision \in [Events -> Decisions \cup {None}]
  /\ verdict \in [Events -> Verdicts]
  /\ row \in [Events -> Verdicts \cup {None}]
  /\ marked \subseteq Events
  /\ result \in [Events -> Results]
  /\ exec \in [Events -> {"none", "spawned", "logging", "finished"}]
  /\ outcome \in [Events -> BOOLEAN]
  /\ actions \in [Events -> Entries \cup {None}]
  /\ ops \in [Operators -> [pc : {"idle", "select", "undo", "update"},
                            event : Events \cup {None}]]
  /\ \A o \in Operators : ops[o].pc # "idle" => ops[o].event \in Events
  /\ \A o \in Operators : ops[o].pc \in {"undo", "update"} => actions[ops[o].event] # None

(* An action succeeded on the host only if the gates let it pass that know *)
(* its target -- the guardian's, which reads its own idea of the target,   *)
(* and the executor's, which reads the text -- and only for a row of the   *)
(* events table that still says so. The two ideas differ: the guardian     *)
(* does not know the pid in a number with a sign, and compares the event's *)
(* own, or none, with protected_pids_max; it does not know an IPv6 address.*)
(* For those the executor's guards alone hold.                             *)
SanctionedActionsOnly ==
  \A e \in Events : outcome[e] =>
    LET d == decision[e] IN
    /\ row[e] = [effective |-> d.action, allowed |-> TRUE]
    /\ ~SafeMode(config)
    /\ d.confidence >= config.threshold
    /\ d.action = "KILL" => d.target.id > 2 /\ d.target.id >= config.minPid
    /\ d.action = "KILL" /\ d.target.form = "pid" => d.target.id > config.protectedMax
    /\ d.action = "KILL" /\ d.target.form = "pidSigned" /\ d.rawPid # None =>
         d.rawPid > config.protectedMax
    /\ d.action = "BLOCK" /\ d.target.class = "private" =>
         /\ config.allowPrivate
         /\ d.target.form = "ip4" => ~config.neverBlockPrivate
    /\ d.action = "BLOCK" /\ d.target.form = "ip4" /\ d.target.class = "reserved" =>
         ~config.neverBlockPrivate

(* An event whose dispatch was refused, by the gate, for want of a row or  *)
(* by the integrity check, never gets a goroutine, neither before nor after*)
(* the refusal; only "dispatch_failed" leaves that open.                   *)
Refusals ==
  {"pipeline_error", "event_not_persisted", "no_destructive_action", "integrity_check_failed"}
RefusalIsFinal ==
  \A e \in Events :
    /\ result[e] \in Refusals => exec[e] = "none"
    /\ result[e] = "dispatch_success" => exec[e] # "none"

(* The actions table knows what is in force: a rule or a quarantined file  *)
(* has a standing row of a successful action, or somebody is about to write*)
(* one, or its write failed. Concurrent actions on the same address and    *)
(* repeated rollbacks do not change that.                                  *)
Answerable(e) ==
  /\ outcome[e]
  /\ actions[e] # None => ~actions[e].rolledBack
EffectsAreAccountedFor ==
  \A x \in effects : x.action # "KILL" =>
    \E e \in Events :
      /\ Answerable(e)
      /\ EffectOf(e) = x
      /\ exec[e] = "finished" /\ actions[e] = None => Fault("log")

(* The events table, the actions table, the host and the calls of          *)
(* mark_false_positive read as a ledger of actions.                        *)
Ordered(e) == row[e] # None /\ row[e].allowed /\ row[e].effective \in DestructiveActions
Attempted(e) == exec[e] \in {"logging", "finished"} /\ decision[e].target.form # "empty"
StageOf(e) ==
  CASE row[e] = None -> "open"
    [] row[e] # None /\ ~Ordered(e) -> "refused"
    [] Ordered(e) /\ ~Attempted(e) -> "ordered"
    [] Ordered(e) /\ Attempted(e) -> IF outcome[e] THEN "done" ELSE "failed"
BookingOf(e) ==
  CASE actions[e] = None -> "none"
    [] StandingAction(e) -> "standing"
    [] OTHER -> "closed"
AimOf(e) == IF Ordered(e) THEN EffectOf(e) ELSE None
UndoneBy(o) == IF ops[o].pc = "update" THEN ops[o].event ELSE None
PossibleEffects ==
  {[action |-> d.action, target |-> d.target, file |-> f] :
     d \in Decisions, f \in Events \cup {None}}

Ledger == INSTANCE ActionLedger WITH
  Effects <- PossibleEffects,
  Lasting <- {x \in PossibleEffects : x.action = "KILL"},
  Clerks <- Operators,
  stage <- [e \in Events |-> StageOf(e)],
  aim <- [e \in Events |-> AimOf(e)],
  booking <- [e \in Events |-> BookingOf(e)],
  disowned <- marked,
  undoing <- [o \in Operators |-> UndoneBy(o)],
  inForce <- effects

(* Guardian, executor and operators keep such a ledger: nothing is done on *)
(* the host before its row is stored, a withdrawn verdict is never carried *)
(* out, an event is acted on and booked once; an effect leaves the host,   *)
(* and a booking is closed, only on behalf of a false positive, and a row  *)
(* that is rolled back is never standing again -- whatever calls overlap.  *)
ImplementsLedger == Ledger!LedgerSpec

(* A call of mark_false_positive that finds the event's action in the table*)
(* takes it off the host or, for a kill, marks it, if calls and commands do*)
(* not fail and the rollback data can be read back. (For a file with a     *)
(* quote or a backslash in its path it cannot, and the file stays away.)   *)
Reliable == config.faults \cap {"link", "command", "log"} = {}
ReversalTakesHold ==
  \A o \in Operators, e \in Events :
    (/\ Reliable /\ ops[o].pc = "select" /\ ops[o].event = e
     /\ StandingAction(e) /\ Readable(decision[e]))
      ~> (~StandingAction(e) \/ EffectOf(e) \notin effects)

(* docs/THREAT_MODEL.md: "Every autonomous action is logged with rollback  *)
(* data. False positives can be reversed within seconds." With everybody   *)
(* at rest, no effect of an event marked as a false positive is in force.  *)
AtRest ==
  /\ rpc = "idle"
  /\ \A e \in Events : exec[e] \in {"none", "finished"}
  /\ \A o \in Operators : ops[o].pc = "idle"
FalsePositivesAreReversed ==
  AtRest => \A e \in marked :
    decision[e].action # "KILL" => EffectOf(e) \notin effects

(* policy.py: "No action reaches the executor without passing: [...]       *)
(* Evidence count check for destructive actions". An action that succeeded *)
(* has as many events against its target as the configuration asks for.    *)
RepeatedEvidence ==
  \A e \in Events : outcome[e] =>
    Cardinality({f \in Events : decision[f] # None /\ decision[f].target = decision[e].target})
      >= config.minEvidence
=============================================================================
