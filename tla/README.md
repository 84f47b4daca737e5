# A TLA+ model of Bifrost

Bifrost watches a host, lets a language model ("Heimdall") judge what it sees,
passes the judgement through a policy gate and carries out what is left of it:
kill a process, block an address, quarantine a file. This directory holds TLA+
modules of the parts of it where threads, processes and failures meet, the TLC
configurations that check them on small instances, and TLAPS proofs of the
results for every instance. Source paths are relative to the repository's root.

## The system

| Part | State it keeps | Operations | Talks to |
| --- | --- | --- | --- |
| Event queue (`bifrost/event_queue.py`, `EVENT_QUEUE` in `guardian.py`) | a `queue.Queue` of 10000, its `unfinished_tasks`, `METRICS` | `safe_enqueue`: three attempts, then drop and count | all producers, the router, `main()` |
| Collectors (`guardian.py`: auditd, honeypot log, process and network watchers) | file position and inode; pids and connections already seen | read a line or scan, enqueue, look at `COLLECTOR_STOP` | the queue, the host |
| Ingest server (`bifrost/ingest.py`) | one thread, one request at a time | `do_POST`, `stop` | the Go agent, the queue |
| Go agent (`agent/collector.go`) | a channel, four workers | accept a frame, post it | the ingest server |
| EventRouter (`guardian.py`) | the event in hand, a connection, two breakers, counters | `run`: validate, compress, reason, gate, store, dispatch, record | nearly everything |
| Policy gate (`bifrost/policy.py`, `apply_policy_gate`) | none | a function of configuration and decision | the router |
| Executor client (`bifrost/router.py`) | none | `execute_decision`, `rollback_last_action` | the Go executor |
| Go executor (`agent/executor.go`, `safety.go`) | the host; rows of `actions` | `handleVerdict` starts a goroutine; `handleRollback` | host, database |
| Feedback (`bifrost/feedback.py`) | `events.false_positive`, `false_positives` | `mark_false_positive` | database, executor |
| Database (`init_database`, `resilience.py`, `db_maintenance.py`) | SQLite in WAL mode | retry and reconnect; retention of 30 days | router, executor, feedback, backfill |
| Inference (`bifrost/inference.py`) | `failure_count`, `open_until` | `execute_with_retry`, `CircuitBreaker` | LLM providers |
| Analyst (`EventRouter.compress_event`, `route_to_heimdall`, `_reason_event`) | two breakers, `METRICS`, the metadata of the last calls | compress, ask, fall back | inference, the router |
| Reasoner chain, brain, memory (`reasoner.py`, `heimdall/`) | breakers, rolling buffers, counters | provider chain, deterministic rules, overrides, audit | each other (the guardian starts none of them) |
| Live monitor (`live_monitor.py`) | windows, cooldowns, a structured log | `record_event`, summaries | the router, which it can make fail |
| Dashboard (`dashboard.py`) | none: it reads the log for each request | slices of the log for a time and a range | the live monitor's log |
| Set-up (`setup.py`, `load_config`) | `heimdall_config.json` and its checksum | write and seal; read and compare | the operator, the guardian's start |
| Backfill (`backfill.py`) | rows fetched at its start | reason about old rows, update them | database |
| Alerts (`gjallarhorn/`) | one MQTT connection | publish, heartbeat | broker |

Redaction, MITRE tags, downloads, demo, lab and kernel probes keep no state the
other parts depend on.

What is hard: five or more threads meet in one queue and in counters that no
lock covers together; shutdown goes on while they run; a decision passes a gate
that reads its target in one way and an executor that reads it in another; the
executor answers before it acts and logs after it has acted; operators roll
back what is still being done. `PROJECT.json` lists the hazards, each at its
line with the properties aimed at it.

What makes the parts correct, in a sentence each:

- *Queue, router, shutdown*: every event is settled once, the counters of the
  threads agree, "drained" is true when it is said, the process comes down.
- *Gate and executor*: only what the gates allow that know its target is done,
  a refusal is final, the tables answer for what is in force unless their write
  failed, a rollback that finds its row and can read it takes hold.
- *Inference*: the breaker is open with cause only, and closes after an outage.
- *Collectors and agent*: what they see they report once and in order, across
  rotation, reused pids and lost answers; no file is followed that was rotated.
- *Database*: one row per store, whatever was retried; decisions and actions are
  not overwritten or removed before their time.
- *Reasoning*: every event has one decision, whatever the models answer; what
  history demands is in a decision of the models that reports an incident; a
  host of one's own is not blocked when it is named by its bare address.
- *Monitor and dashboard*: alerts are spaced by the cooldown and not held back
  longer, the counts of the repeats are true, and both count the same.
- *Set-up*: production starts after it has seen a sealed configuration, and on
  that one if nobody writes the file between the two times it is read.

## The modules

`EventChannel` is the abstract specification of the in-process channel: a
bounded FIFO, served one item at a time and each item once, with a "quiet"
report that is given only when nothing waits and nothing is served.

`EventPipeline` is the code around `EVENT_QUEUE`. An action is what a thread
does between two points where another can see it: `Put`, `CountReceived`,
`PutTimesOut` and `Drop` are `safe_enqueue`; `ReadLine`, `BeginScan`, `ScanHit`,
`EndScan`, `StopCollector` and `TailerFails` the loops of the collectors;
`AcceptRequest`, `ReceiveEvent`, `RefuseRequest` and `StopServing` the ingest
thread; `GetEvent` to `TaskDone` the body of `EventRouter.run` between two
writes of the live monitor, each of which may raise (`Proceed`); `ExitLoop` and
`IdleSummaryRaises` its two ends; `StopRequested` to `ReportAndExit` the way of
`main()` from the signal to `sys.exit`. A timed wait is an action that may end
by its time-out whenever what it waits for is false. Events differ by what the
router tells them apart by: refused by the validator, honeypot noise, routed.

`Enforcement` is the way of a decision to the host and back. `PolicyGate` is
`apply_policy_gate` with `evaluate_policy`, as a function. The router's actions
end with what `_dispatch_enforcement` returns; `PostArrives` and `AnswerArrives`
are two steps since `handleVerdict` answers at once and the client waits 5 s.
`ExecutorStep(e)` is the goroutine of one verdict: `Act` or `FailToAct`, then
`LogAction`. `OperatorStep(o)` is one call of `mark_false_positive`, whose
rollback undoes first and marks the row second. A target has a form and an
identity instead of a text: a number, a number with a sign, `pid:` and a number,
an address with a dot or without, a path, other text, nothing. Gate and executor
each know some of the forms: `isdigit` takes a number with a sign for no pid,
`strconv.Atoi` takes `pid:` and a number for none (`PidOf`, `Executable`). A path
may have a character that its rollback data do not survive, since they are put
together without escaping: its action succeeds and its rollback never does
(`Readable`). Faults are part of the configuration, so one run has hosts where
everything works and hosts where anything may fail.

`ActionLedger` is what the three promise together, without saying who does it: an
action is ordered before it is attempted and attempted once, a refused one never;
it is booked once; it leaves the host only for an event that was disowned and whose
action is booked, and a booking is closed only after that, for good. `Enforcement`
reads its own tables as such a ledger: the stage of an event off its row, its
goroutine and its outcome, the booking off its row in `actions`, and what a clerk
is undoing off the call of `mark_false_positive` between its undo and its update.

`BreakerStates` is the textbook circuit breaker; `CircuitBreaker` is the class
of that name with its callers in `execute_with_retry`, in which "half-open" has
no field: it is a full count whose time is over.

`Store` is the events table and everyone who writes it. `WithRetry(c)` is
`execute_with_db_retry` for the router and for backfill: `Execute`, then `Commit`;
the statement may find the database locked (`Busy`), be rejected on a connection
that is then replaced (`Rejected`, `ReopenFails`), or fail for good (`Broken`),
the commit may fail (`CommitFails`). `copies` counts how often the statement was
executed in the transaction that is open, since a retry repeats both. `StoreEvent` and
`UpdateStoredDecision` are the router's calls, `BackfillStarts`, `BackfillRow`,
`BackfillRowFails` and `BackfillEnds` the program that updates old rows from a
list it read once, `Start` is `init_database`, `Maintain` the retention
transaction. `PostVerdict` hands an action to the executor, which logs it whenever
it is done, with the guardian or after its end (`LogAction`); `MarkFalsePositive`
is what the operator writes. `Crash` is the end of the guardian in any state, and
`KilledAfterCommit` its end between a commit and the return, which leaves a row
nobody was told of. SQLite's writer lock is external. A row is its id, the day it was written, the form of
its `compressed_event` and its decision.

`LogTail` is one log collector (audit or honeypot) and the program whose log it
reads: `Create`, `Unlink`, `Write` and `WriteRest` change the files, `Open` to
`Leave` are the collector's loop. A line is written in one piece or in two, so
that `readline` may return half of it, and may be no UTF-8. `HostWatchers` has
`Glob`, `Examine`, `Prune` of the process watcher and `ScanConnections` of the
network watcher against processes and connections that come, exec, end and reuse
pids. `Agent` is the Go agent: `Arrive` (a frame never waits for room), `Post`
and `PostEnds` of a worker, `Serve` of an ingest server that may take a request
its client gave up, `Exit`.

`LiveMonitor` has one action, `RecordEvent`: the router calls `record_event` and
the whole of it runs before the router goes on, up to a write of the log that
raises. Windows, suppression, cooldown (none if it is 0), dampening and the capped
stores are as in the code; an attacker, its pattern and its fingerprint are one source.
`Dashboard` is functions only: the slices of the state `dashboard.py` computes
from the log, each from the part of the log the code gives it;
`MonitoredDashboard` puts it over the monitor's log. Selecting and sorting (here
and in `ChainMemory`) are `Selections`: a sequence is told by its places, a
selection by the set of places it keeps, a sort by how many places come no later
than each.

`Analyst` is the guardian's way to a decision, an action per outcome of
`compress_event` and of `route_to_heimdall`. `Brain` is `BifrostBrain.process_event`
with the reasoner's chain: extract, remember, context, rules, then each provider
in turn (not asked, asked in vain, no object, a decision), validation, overrides, policy, audit.
A model may name the host of the event by its address or its token, bare or with
a label (`ip:` and the address, the form `setup.py` asks for); names are put back
and the label stays, so that the policy gate reads no address in it.
It is built from `Reasoner` (rules, context, overrides), `DecisionSchema`
(validation with pydantic and without), `ChainMemory` (rolling buffers of
`memory.py`), `Anonymizer` (names and the tokens that stand for them) and
`Providers` (one breaker per provider, with the steps within a call taken
together; `CircuitBreaker` has them one by one).

`Setup` is `setup.py` and `load_config`: a file is absent, torn or holds a
configuration; a set-up or an operator's edit opens and closes the configuration
and then the checksum and may die in between, while a guardian parses the
configuration, and then reads it again to compare it with the checksum. Whether
the file was opened for writing between the two is remembered (`since`,
`replaced`).

`MC...` modules give the constants of the small instances. `...Proofs` modules
hold the theorems and their lemmas. Definitions ending in `Bug` are faulty variants of the
definition that follows them and never part of a specification: each shows that
one property fails when the code has that fault.

## What the runs check

| Run | Shows | Bounds |
| --- | --- | --- |
| `EventPipeline.cfg` | types; the books of queue, producers and router (`Accounting`); the promises at exit; `ImplementsChannel`; shutdown completes; accepted events are settled | one collector of each kind and the ingest thread, a queue of 1, 2 attempts, 2 events |
| `EventPipelineDecision.cfg` | a decision is lost when a monitor write raises before `store_event` (finding) | the same |
| `EnforcementGate.cfg` | `SanctionedActionsOnly`, `RefusalIsFinal` | 1 event, 1 operator; 15 decisions, of every form that gate and executor tell apart, the forms they read differently included, and on both sides of the gate's thresholds; 8 configurations, each without and with all faults |
| `Enforcement.cfg` | `EffectsAreAccountedFor`, `ImplementsLedger`, `ReversalTakesHold` | 2 events, 2 operators; four decisions, two of whose effects can coincide and one of which has rollback data that cannot be read; no faults, faults of integrity check, row update and commands, faults of calls and the actions table |
| `EnforcementReversed.cfg` | a false positive marked too early is never rolled back, with no fault at all (finding) | 1 event, 1 operator |
| `EnforcementEvidence.cfg` | one event suffices for a destructive action (finding) | 1 event, 1 operator |
| `CircuitBreaker.cfg` | `OpenIsJustified`, `ImplementsBreaker`, `RecoversAfterOutage` | 2 callers, threshold 3, 2 attempts, recovery of 2 ticks |
| `CircuitBreakerSkips.cfg` | attempts go on while the breaker is open (finding) | 1 caller, as in the guardian |
| `Store.cfg` | `TypeOK`, `OneRowPerStore`, `RetainedEventsKeepActions`, `BackfillKeepsDecisions`, `CleanBackfillLeavesNothing`, `RefusalHasACause` | 3 attempts, 2 calls of `store_event`, 1 row from before (with an encoded text; backfill writes the same object for one without), 1 fault, a window of 1 day, a day and a half that passes |
| `Sources.cfg` | `OfferedInOrder`, `FollowsTheLog`; `ReportedOnce`; `FrameAccounting`, `ChannelDrains` | 2 files and 3 lines; 2 pids, 4 processes, 2 connections of one endpoint; 2 workers, a channel of 2, 4 frames |
| `Monitor.cfg` | `MonitorTypeOK`, `AlertsAreSpaced`, `CooldownEnds`, `RepeatCountsAreTrue`, `SummaryIsRight`, `DashboardAgrees` | 4 sources (three of them alike, one safelisted), stores of 2, 4 events at 3 times in any order, a failing write |
| `Reasoning.cfg` | `BrainTypeOK`, `BrainCounters`, `AnalystAccounting`, `OverridesHold`, `InternalHostsAreBlockedByLabel`, `ChainsAreTheKeysOwn`, `SealedUnlessReplaced` | 3 machines and 3 writes of a configuration; 2 events through the brain; 3 events through the analyst, of which a breaker of 3 failures opens |

Why these bounds. With a queue of one place, producers find it full as often as
not, and two events are enough for one to wait while the other is in the
router's hands; the order within a longer queue is not exercised by TLC but
covered by the proof. Three attempts instead of two repeat the same step. Two
events and two operators are the fewest that share an address or roll back the
same row; the gate is a function of one decision, so one event is enough there,
with many decisions. The breaker's threshold of 3 against 2 attempts makes it
open in the middle of a call. In `Store` the second call is the first that can meet what a
crash or a replaced connection of the first has left, one fault makes one retry,
and a day and a half is the least that passes a whole day's window at a half-day
that counts. Two files are one rotation, three lines are one before, one at and
one after it. Four processes on two pids give each pid to a second process
during a scan. A third source drives one out of a store of two, the store of
alerts included: three of the four can be alerted. The brain's
second event is the first with a past; its sets of replies, histories and raw
events have one member for each branch they lead to. Bounds of the model and
not of the code: those that their modules call so (`MaxEvents`, `MaxCalls`,
`MaxTime`, `MaxFaults`, `MaxFiles`, `MaxLines`, `MaxBirths`, `MaxConnects`,
`MaxFrames`, `MaxWrites`, `MaxRaw`, `MaxClock`, `MaxHandled`, `MaxLog`), the
finite sets of events, and in `CircuitBreaker` a count that stops at the
threshold, with which alone the code compares it.

`Monitor.cfg` counts three of its four sources as symmetric: nothing but equality
tells them apart. `Sources.cfg` and `Reasoning.cfg` hold three models each that
share no state at run time; in each behaviour one of them is at work.

Deadlock is checked in the pipeline (where `Terminated` is the end of the
process) and the breaker. The other runs say `CHECK_DEADLOCK FALSE`: their models
have finitely many events, lines, calls or writes, and when these are done
everyone waits. That nobody waits for ever before is what the liveness
properties say.

## Fairness

- `EventPipeline`: the steps of `safe_enqueue`, of a collector that must stop,
  of a finite scan, of the ingest thread after its stop flag, of the router and
  of `main()` are weakly fair: the interpreter schedules every thread, and each
  of these waits has a time-out. Not fair: the arrival of lines, requests, their
  bodies, the signal, an exception of the monitor. `ShutdownCompletes` has the
  premise `NoClientStalls`, since `do_POST` reads without a time-out and
  `server.shutdown()` waits for it without one.
- `Enforcement`: a goroutine, and a call of `mark_false_positive` once begun,
  run on (every wait has a time-out). Events and operators may never come.
- `LogTail`: the collector's thread runs (each of its waits is timed); lines,
  rotations and the stop flag may never come. `FollowsTheLog` says of a
  collector that nothing has ended that it comes to the end of the file under
  the log's name again and again.
- `Agent`: the workers run and the client's time-out ends each request; nothing
  is assumed of the server, so `ChannelDrains` holds against one that hangs.
- `CircuitBreaker`: a call once begun goes on (its request has a time-out), and
  time passes. Calls come when events do, so `RecoversAfterOutage` has "calls
  keep coming and the provider stays healthy" as its premise.

## What is proved

TLAPS checks these for all values of the constants, under the named assumptions
next to the constants (a finite set of producers, disjoint kinds of threads,
positive limits; in `Enforcement` only the types of decisions and
configurations and that `None` is none of them).

*EventPipelineProofs.* `IInv == TypeOK /\ Accounting` is inductive: the value of
`unfinished_tasks` cannot be followed without knowing whether the router holds
an event, nor `events_received` without the producers between put and count.
`ShutdownInv` adds what `main()` knows at each stage (who has stopped; that
after a successful drain nothing comes in) and is inductive given `IInv`; it
implies `DrainMeansNothingLost` and `SummaryHidesNothing`. The refinement of
`EventChannel` maps `Put`, `GetEvent`, `TaskDone` and `Drained` to the
channel's actions and every other step to a stutter; `IInv` is needed where
`Drained` reads `unfinished_tasks` and the channel promises an empty queue and
an idle router.

*EnforcementProofs.* `TypeOK` is strengthened by who may work on which event at
which stage, and by what a goroutine's existence says about the row and the
verdict it was started for. From that follow `SanctionedActionsOnly` (with a
lemma on what the gates and the executor's guards leave of each form of target)
and `RefusalIsFinal`. What the two sides of a target differ in is part of the
first: `protected_pids_max` bounds a pid written as a plain number; a number with
a sign passes it, as an IPv6 address passes the gate for private addresses, and
only the executor's limits hold.
`EffectsAreAccountedFor` is carried by the same invariant, since a rollback
that has undone an effect is the only one to mark its row. The refinement of
`ActionLedger` needs `CallsInv` besides: calls concern marked events, who is about
to log had a target, and the event about to be stored has no row. `StoreEvent`
maps to `Order` or `Refuse`, `IntegrityFails` to `Refuse`, `Act` and `FailToAct`
to `Attempt`, `LogAction` to `Book`, the operators' steps to `Disown`, `Undo` and
`Close`, all others to a stutter. What the ledger takes for granted and the code
has to earn is that a row withdrawn by the integrity check has no goroutine yet,
and that an undo, whose look at the table is older than its effect, still is one of
a booked action.

*CircuitBreakerProofs.* `TypeOK` is inductive, `OpenIsJustified` inductive given
it; a lemma on what a step can do to the two fields gives the refinement of
`BreakerStates`.

*StoreProofs.* `StoreInv` has four parts: what the tables hold (`TablesOK`, ids
under `lastId`), actions that are taken or logged not older than their events
(`ActionsOK`), one row for each call that was answered with an id, and none or one
for a call the guardian died in (`CallsOK`), and what a writer in the
middle of a retry is about to write (`WritersOK`: the router its own row,
backfill a row the guardian has not decided, an open transaction one execution).
`StoreIsTyped` is the first of them. The last is what makes one row of many
attempts: in WAL mode a locked database
is met by the statement and not by the commit, so that no retry finds the
statement executed already; with a rollback journal it would (the mutant of
`OneRowPerStore`). `RefusalHasACause` needs an argument about attempts
(`SecondAttempt`) and the assumption of three or more; `CleanBackfillLeavesNothing`
adds `CleanInv`, that a fetched row is done or still on the list.

*SourcesProofs.* `TailInv` relates what was offered to what was written and to
what is unread: lines are numbered as they are written, a line without its end is
the last one, and each unread piece is newer than all that was offered, but for
the second half of a record whose first half was just offered. A file is opened
at its end, hence after all that was offered. `WatchersInv` says that a process
that was reported is in `seen_pids` while it has its pid; `AgentInv` that each
frame has one fate.

*SelectionProofs* are lemmas only, used by the two modules below. How many places
come no later than each is a bijection from the places kept to `1..n`
(`RanksAreTaken`), so an arrangement moves places without losing or doubling any
(`ArrangedPlaces`), holds what was selected (`PlacesSelect`) and of any of the
places as many as there were (`PlacesCount`).

*MonitorProofs.* `AlertsInv` says that what the store of fingerprints holds is
the time of one of their alerts, and, while no more of them were alerted than
the store has room for, that it has forgotten none and, where there is a
cooldown, that the time is the latest.
The first gives `CooldownEnds`, the second `AlertsAreSpaced`. `MonitorInv` are
the types: no store holds a key twice or more keys than its bound, and a source
has a window just when it is in the store that bounds the windows. `SummaryInv`
adds the books: the counters are the sizes of sets of records (`CountedOK`), the
known sources are some of those seen and all of them while there is room
(`KnownOK`), and the queue of possible false positives has no incident whose
latest record was none (`FpQueueOK`). `RepeatInv` adds for each window an
injection from its times to the records of its source (`Backs`): whatever is not
among them is older than the window, as long as nobody was dropped. `Trimmed`
stops at the first time that is young enough, so a time out of order may stay;
the count is an upper bound then, and exact when the times came in order.
`DashboardInv` adds that the log is the records as long as every write went well
(`WrittenOK`). The slices agree for any log (`SlicesAgreeAlways`): numbers
counted by class add up to the number of places (`TotalOfClasses`, by a bijection
from the places to class and rank), a range leaves every record of the last hour
(`TimelineIsMinutes`, from the assumption that no range is shorter), and the
first of the newest is the last of its source (`LastIsSeen`).

*ReasoningProofs.* `OverridesInv` follows a decision from the models to the audit
record (the decisions the code falls back on when an override or a validation
raises have no override: `OverridesHold` exempts them, and answers that report no
incident); `InternalInv` follows the address of an event through the anonymizer and
back, for any number of addresses but the 28th, whose token is a backslash, and
for a target without a label;
`CountersInv` and the analyst's invariant count decisions and fallbacks against
events. `ChainsInv` relates the memory to the events recorded: each entry of a
chain is matched with a record of its key that has as many records of that key
after it as the chain has entries (`Follows`). Counting from the end is what
survives a chain that is capped, a key that is evicted and comes back, an event
that is recorded twice and a clock that is set back; it gives
`ChainsAreTheKeysOwn` and, with the bounds of the tables, `BrainTypeOK`.
(`MCReasoning` has TLC evaluate `NamesComeBack` besides: up to nine users
and 27 addresses of one event come back as themselves.)
What a guardian of the set-up will have verified is decided by what the checksum
file may hold: nothing, a torn write, or the checksum of a configuration that was
sealed (`Disk`). What it parsed is what the file holds still, unless the file was
opened for writing since (`Parsed`). The two make `SealedUnlessReplaced`
inductive.

With these every invariant and every step property that a passing run checks is a
theorem. Model-checked only: the liveness properties (fairness and ENABLED are
beyond the prover: `ShutdownCompletes`, `AcceptedEventsAreSettled`,
`ReversalTakesHold`, `RecoversAfterOutage`, `FollowsTheLog`, `ChannelDrains`) and
of course the four violations. Selecting by a predicate, sorting and summing are
defined in the libraries by recursion over the data, which the prover cannot
follow; the models use sets of places, ranks and the sizes of sets instead.

## Not modelled

- *Gjallarhorn* (alerts over MQTT): nothing that runs imports it in this commit,
  so its callers and their interleavings would be invented.
- *Learning baseline* (`baseline.py`): its functions are called by hand; the
  guardian knows only the field `learning_mode`, which is in `Enforcement` and
  `Setup`.
- *Kernel probes, demo, lab, desktop shell, second dashboard*: kernel code,
  offline scripts, and views without state.
- *Texts*: prompts, rationales, redaction, MITRE tags, log lines, HTML, tokens
  and HTTP status codes beyond "answered or not", SQL beyond the rows and
  columns named above.
- *File modes and process identity*: an effect of the executor is in force or it
  is not; that a restored file keeps mode 000 (`agent/executor.go:300`) is
  listed as a hazard no property covers.

What a next step would add, in this order: the composition of `Enforcement` with
the router of `EventPipeline`, whose router is the same thread; the collectors
composed with the drops of `safe_enqueue`.
