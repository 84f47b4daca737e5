---------------------------- MODULE EventPipeline ----------------------------
(***************************************************************************)
(* The threads of the guardian process around EVENT_QUEUE: collectors and  *)
(* the ingest server put events with safe_enqueue, the EventRouter thread  *)
(* takes them one at a time, and main() takes the process down.            *)
(*                                                                         *)
(* An action is what one thread does between two points where another      *)
(* thread can observe it: a queue operation, a METRICS update, a wait.     *)
(* Time-outs are nondeterministic: a timed wait may end by its time-out at *)
(* any moment at which the awaited condition is false.                     *)
(***************************************************************************)
EXTENDS Naturals, Sequences, FiniteSets

CONSTANTS
  Tailers,       \* AuditdCollector, HoneypotLogCollector: stop is tested per line
  Watchers,      \* ProcessWatcher, NetworkWatcher: stop is tested per scan
  Ingest,        \* the thread of IngestServer, one request at a time
  Capacity,      \* EVENT_QUEUE's maxsize
  MaxAttempts,   \* put attempts of safe_enqueue
  MaxEvents,     \* bound of the model: events the producers make
  TestMode,      \* live_monitor test mode: idle summaries are written
  MonitorFails,  \* may a write to the monitor's structured log raise?
  NoEvent

Collectors == Tailers \cup Watchers
Producers == Collectors \cup {Ingest}

ASSUME ProducersAssumption ==
  /\ IsFiniteSet(Producers)
  /\ Tailers \cap Watchers = {}
  /\ Ingest \notin Collectors
ASSUME BoundsAssumption ==
  /\ Capacity \in Nat \ {0}
  /\ MaxAttempts \in Nat \ {0}
  /\ MaxEvents \in Nat
  /\ TestMode \in BOOLEAN
  /\ MonitorFails \in BOOLEAN

(***************************************************************************)
(* What the router tells events apart by: validate_event_envelope refuses  *)
(* an "invalid" one, should_route_to_reasoner refuses a "noise" one.       *)
(***************************************************************************)
Kinds == {"invalid", "noise", "routed"}
Events == [from : Producers, seq : 1..MaxEvents, kind : Kinds]
ASSUME NoEventAssumption == NoEvent \notin Events

VARIABLES
  queue, unfinished,               \* queue.Queue: contents, unfinished_tasks
  ppc, attempt, item, made,        \* producer threads; made numbers their events
  received, dropped,               \* METRICS of event_queue.py
  rpc, current, facts,             \* router thread: stage, event, what was done for it
  processed, invalid, errors,      \* event_count and METRICS of the router
  mpc, collectorStop, ingestStop, shutdown,   \* main() and its flags
  abandoned, drained, remaining    \* collectors left behind, drain result, summary

queueVars == <<queue, unfinished>>
producerVars == <<ppc, attempt, item, made, received, dropped>>
routerVars == <<rpc, current, facts, processed, invalid, errors>>
mainVars == <<mpc, collectorStop, ingestStop, shutdown, abandoned, drained, remaining>>
vars == <<queueVars, producerVars, routerVars, mainVars>>

(* The ingest thread ends at once when its port is taken.                  *)
Init ==
  /\ queue = <<>> /\ unfinished = 0
  /\ \E bound \in {"loop", "stopped"} :
       ppc = [p \in Producers |-> IF p = Ingest THEN bound ELSE "loop"]
  /\ attempt = [p \in Producers |-> 1]
  /\ item = [p \in Producers |-> NoEvent]
  /\ made = 0
  /\ received = 0 /\ dropped = 0
  /\ rpc = "get" /\ current = NoEvent /\ facts = {}
  /\ processed = 0 /\ invalid = 0 /\ errors = 0
  /\ mpc = "run"
  /\ collectorStop = FALSE /\ ingestStop = FALSE /\ shutdown = FALSE
  /\ abandoned = {} /\ drained = FALSE /\ remaining = 0

-----------------------------------------------------------------------------
(***************************************************************************)
(* A definition whose name ends in Bug is a faulty variant of the one it   *)
(* precedes, never part of Next: it shows that a property can fail.        *)
(***************************************************************************)

(***************************************************************************)
(* Producers.                                                              *)
(***************************************************************************)

(* do_POST refuses an envelope that fails validate_event_envelope (400);   *)
(* watchers see the host, and only the honeypot's events can be noise.     *)
KindsFrom(p) ==
  CASE p = Ingest -> Kinds \ {"invalid"}
    [] p \in Watchers -> Kinds \ {"noise"}
    [] OTHER -> Kinds

(* A producer has an event in hand and enters safe_enqueue.                *)
Offer(p) ==
  /\ made < MaxEvents
  /\ \E k \in KindsFrom(p) :
       item' = [item EXCEPT ![p] = [from |-> p, seq |-> made + 1, kind |-> k]]
  /\ made' = made + 1
  /\ ppc' = [ppc EXCEPT ![p] = "put"]
  /\ UNCHANGED <<attempt, received, dropped, queueVars, routerVars, mainVars>>

(* A producer moves in its loop without touching the queue.                *)
Goto(p, from, to) ==
  /\ ppc[p] = from
  /\ ppc' = [ppc EXCEPT ![p] = to]
  /\ UNCHANGED <<attempt, item, made, received, dropped, queueVars, routerVars, mainVars>>

ReadLine(t) == ppc[t] = "loop" /\ ~collectorStop /\ Offer(t)
BeginScan(w) == ~collectorStop /\ Goto(w, "loop", "scan")
ScanHit(w) == ppc[w] = "scan" /\ Offer(w)
EndScan(w) == Goto(w, "scan", "loop")
StopCollector(c) == collectorStop /\ Goto(c, "loop", "stopped")

(* AuditdCollector gives up on an exception that is no OSError.            *)
TailerFails(t) == Goto(t, "loop", "stopped")

(* One request at a time: do_POST reads for as long as the client takes,   *)
(* then offers the event, or refuses the request (4xx, 5xx).               *)
AcceptRequest == ~ingestStop /\ Goto(Ingest, "loop", "reading")
ReceiveEvent == ppc[Ingest] = "reading" /\ Offer(Ingest)
RefuseRequest == Goto(Ingest, "reading", "loop")
StopServing == ingestStop /\ Goto(Ingest, "loop", "stopped")

(* Where safe_enqueue returns to.                                          *)
AfterEnqueue(p) == IF p \in Watchers THEN "scan" ELSE "loop"

(* queue.put: the item and unfinished_tasks change under one lock; METRICS *)
(* follows in a step of its own, so the router may overtake the count.     *)
Put(p) ==
  /\ ppc[p] = "put"
  /\ Len(queue) < Capacity
  /\ queue' = Append(queue, item[p])
  /\ unfinished' = unfinished + 1
  /\ ppc' = [ppc EXCEPT ![p] = "counting"]
  /\ attempt' = [attempt EXCEPT ![p] = 1]
  /\ UNCHANGED <<item, made, received, dropped, routerVars, mainVars>>

CountReceived(p) ==
  /\ ppc[p] = "counting"
  /\ received' = received + 1
  /\ item' = [item EXCEPT ![p] = NoEvent]
  /\ ppc' = [ppc EXCEPT ![p] = AfterEnqueue(p)]
  /\ UNCHANGED <<attempt, made, dropped, queueVars, routerVars, mainVars>>

(* Full after 0.2 s, slept 0.05 s: another attempt.                        *)
PutTimesOut(p) ==
  /\ ppc[p] = "put"
  /\ Len(queue) >= Capacity
  /\ attempt[p] < MaxAttempts
  /\ attempt' = [attempt EXCEPT ![p] = @ + 1]
  /\ UNCHANGED <<ppc, item, made, received, dropped, queueVars, routerVars, mainVars>>

(* Full on the last attempt: the event is given up and counted.            *)
Drop(p) ==
  /\ ppc[p] = "put"
  /\ Len(queue) >= Capacity
  /\ attempt[p] = MaxAttempts
  /\ dropped' = dropped + 1
  /\ item' = [item EXCEPT ![p] = NoEvent]
  /\ ppc' = [ppc EXCEPT ![p] = AfterEnqueue(p)]
  /\ attempt' = [attempt EXCEPT ![p] = 1]
  /\ UNCHANGED <<made, received, queueVars, routerVars, mainVars>>

SafeEnqueue(p) == Put(p) \/ CountReceived(p) \/ PutTimesOut(p) \/ Drop(p)

Produce ==
  \/ \E t \in Tailers : ReadLine(t) \/ TailerFails(t)
  \/ \E w \in Watchers : BeginScan(w) \/ ScanHit(w) \/ EndScan(w)
  \/ \E c \in Collectors : StopCollector(c)
  \/ AcceptRequest
  \/ ReceiveEvent
  \/ RefuseRequest
  \/ StopServing
  \/ \E p \in Producers : SafeEnqueue(p)
-----------------------------------------------------------------------------
(***************************************************************************)
(* The router thread: EventRouter.run. rpc is its place in the loop body:  *)
(* "get" before queue.get, "handle" with a fresh event, "decide" when it   *)
(* is compressed, "persist" when store_event is next, "record" when the    *)
(* row is written, "done" in the finally clause, "exited" after the loop,  *)
(* "dead" after an exception nobody catches.                               *)
(***************************************************************************)

(* task_done at the get instead of after the handling.                     *)
GetEventEarlyDoneBug ==
  /\ rpc = "get"
  /\ queue # <<>>
  /\ current' = Head(queue)
  /\ queue' = Tail(queue)
  /\ unfinished' = unfinished - 1
  /\ rpc' = "handle"
  /\ UNCHANGED <<facts, processed, invalid, errors, producerVars, mainVars>>

(* Take the oldest event. queue.get leaves unfinished_tasks alone.         *)
GetEvent ==
  /\ rpc = "get"
  /\ queue # <<>>
  /\ current' = Head(queue)
  /\ queue' = Tail(queue)
  /\ rpc' = "handle"
  /\ UNCHANGED <<unfinished, facts, processed, invalid, errors, producerVars, mainVars>>

(* queue.get timed out: the idle summary is written in the Empty handler,  *)
(* where an exception of the write is outside every try of the loop.       *)
IdleSummaryRaises ==
  /\ rpc = "get"
  /\ queue = <<>>
  /\ TestMode /\ MonitorFails
  /\ rpc' = "dead"
  /\ UNCHANGED <<current, facts, processed, invalid, errors, queueVars, producerVars, mainVars>>

(* An exception ends the handling without being counted.                   *)
ProceedUncountedBug(next) ==
  \/ rpc' = next /\ UNCHANGED errors
  \/ MonitorFails /\ rpc' = "done" /\ UNCHANGED errors

(* A stage writes the monitor's structured log: the write succeeds and the *)
(* next stage follows, or it raises and the generic handler counts it.     *)
Proceed(next) ==
  \/ rpc' = next /\ UNCHANGED errors
  \/ MonitorFails /\ rpc' = "done" /\ errors' = errors + 1

(* task_done before the continue, and again in the finally clause.         *)
RejectInvalidDoubleDoneBug ==
  /\ rpc = "handle"
  /\ current.kind = "invalid"
  /\ invalid' = invalid + 1
  /\ unfinished' = unfinished - 1
  /\ rpc' = "done"
  /\ UNCHANGED <<queue, current, facts, processed, errors, producerVars, mainVars>>

RejectInvalid ==
  /\ rpc = "handle"
  /\ current.kind = "invalid"
  /\ invalid' = invalid + 1
  /\ rpc' = "done"
  /\ UNCHANGED <<current, facts, processed, errors, queueVars, producerVars, mainVars>>

(* compress_event between two monitor steps.                               *)
Compress ==
  /\ rpc = "handle"
  /\ current.kind = "routed"
  /\ Proceed("decide")
  /\ UNCHANGED <<current, facts, processed, invalid, queueVars, producerVars, mainVars>>

(* _reason_event and apply_policy_gate, each followed by a monitor step.   *)
Decide ==
  /\ rpc = "decide"
  /\ facts' = facts \cup {"decided"}
  /\ Proceed("persist")
  /\ UNCHANGED <<current, processed, invalid, queueVars, producerVars, mainVars>>

(* store_event (which never raises) of a decided event, then a monitor     *)
(* step; honeypot noise is stored without a decision and without the step. *)
StoreEvent ==
  /\ \/ rpc = "persist" /\ Proceed("record")
     \/ rpc = "handle" /\ current.kind = "noise" /\ rpc' = "record" /\ UNCHANGED errors
  /\ facts' = facts \cup {"written"}
  /\ UNCHANGED <<current, processed, invalid, queueVars, producerVars, mainVars>>

(* _dispatch_enforcement and its monitor step for a decided event, then    *)
(* live_monitor.record_event and event_count += 1.                         *)
RecordEvent ==
  /\ rpc = "record"
  /\ Proceed("done")
  /\ processed' = IF errors' = errors THEN processed + 1 ELSE processed
  /\ UNCHANGED <<current, facts, invalid, queueVars, producerVars, mainVars>>

(* finally: task_done, whatever happened to the event.                     *)
TaskDone ==
  /\ rpc = "done"
  /\ unfinished' = unfinished - 1
  /\ current' = NoEvent
  /\ facts' = {}
  /\ rpc' = "get"
  /\ UNCHANGED <<queue, processed, invalid, errors, producerVars, mainVars>>

(* The loop ends on an empty queue, shutdown or not.                       *)
ExitLoopBug ==
  /\ rpc = "get"
  /\ shutdown \/ queue = <<>>
  /\ rpc' = "exited"
  /\ UNCHANGED <<current, facts, processed, invalid, errors, queueVars, producerVars, mainVars>>

(* The loop condition fails; flush_db and the last summary follow.         *)
ExitLoop ==
  /\ rpc = "get"
  /\ shutdown /\ queue = <<>>
  /\ rpc' = "exited"
  /\ UNCHANGED <<current, facts, processed, invalid, errors, queueVars, producerVars, mainVars>>

RouterStep ==
  \/ GetEvent
  \/ RejectInvalid
  \/ Compress
  \/ Decide
  \/ StoreEvent
  \/ RecordEvent
  \/ TaskDone
  \/ ExitLoop

-----------------------------------------------------------------------------
(***************************************************************************)
(* main() from the signal to sys.exit. Every other thread is a daemon:     *)
(* when main has exited nothing moves any more.                            *)
(***************************************************************************)

MainAt(from, to) == mpc = from /\ mpc' = to

(* SIGINT or SIGTERM: signal_handler sets COLLECTOR_STOP.                  *)
StopRequested ==
  /\ MainAt("run", "join")
  /\ collectorStop' = TRUE
  /\ UNCHANGED <<ingestStop, shutdown, abandoned, drained, remaining,
                 queueVars, producerVars, routerVars>>

(* join(timeout=2.0) of every collector: those still alive are left behind.*)
(* Then server.shutdown() sets the ingest thread's stop flag ...           *)
JoinCollectors ==
  /\ MainAt("join", "awaitIngest")
  /\ abandoned' = {c \in Collectors : ppc[c] # "stopped"}
  /\ ingestStop' = TRUE
  /\ UNCHANGED <<collectorStop, shutdown, drained, remaining,
                 queueVars, producerVars, routerVars>>

(* ... and returns when serve_forever has ended.                           *)
IngestStopped ==
  /\ MainAt("awaitIngest", "drain")
  /\ ppc[Ingest] = "stopped"
  /\ UNCHANGED <<collectorStop, ingestStop, shutdown, abandoned, drained, remaining,
                 queueVars, producerVars, routerVars>>

(* The drain looks at queue.empty() instead of unfinished_tasks.           *)
DrainedWhenEmptyBug ==
  /\ MainAt("drain", "joinRouter")
  /\ queue = <<>>
  /\ drained' = TRUE
  /\ shutdown' = TRUE
  /\ UNCHANGED <<collectorStop, ingestStop, abandoned, remaining,
                 queueVars, producerVars, routerVars>>

(* drain_event_queue: (True, 0) as soon as unfinished_tasks is 0; then    *)
(* SHUTDOWN is set.                                                        *)
Drained ==
  /\ MainAt("drain", "joinRouter")
  /\ unfinished = 0
  /\ drained' = TRUE
  /\ shutdown' = TRUE
  /\ UNCHANGED <<collectorStop, ingestStop, abandoned, remaining,
                 queueVars, producerVars, routerVars>>

(* queue.join() instead of the timed drain: no time-out.                   *)
DrainTimesOutNeverBug == mpc = "drain" /\ mpc # "drain" /\ UNCHANGED vars

(* (False, remaining) when 10 s are over; SHUTDOWN is set all the same.    *)
DrainTimesOut ==
  /\ MainAt("drain", "joinRouter")
  /\ unfinished > 0
  /\ shutdown' = TRUE
  /\ UNCHANGED <<collectorStop, ingestStop, abandoned, drained, remaining,
                 queueVars, producerVars, routerVars>>

(* The summary reads queue.qsize() instead of unfinished_tasks.            *)
JoinRouterQsizeBug ==
  /\ MainAt("joinRouter", "report")
  /\ remaining' = Len(queue)
  /\ UNCHANGED <<collectorStop, ingestStop, shutdown, abandoned, drained,
                 queueVars, producerVars, routerVars>>

(* router.join(timeout=5.0) returns, by the router's end or by time-out;   *)
(* then unfinished_tasks is read for the shutdown summary.                 *)
JoinRouter ==
  /\ MainAt("joinRouter", "report")
  /\ remaining' = unfinished
  /\ UNCHANGED <<collectorStop, ingestStop, shutdown, abandoned, drained,
                 queueVars, producerVars, routerVars>>

(* event_count and METRICS are read for the summary, and sys.exit(0).      *)
ReportAndExit ==
  /\ MainAt("report", "exited")
  /\ UNCHANGED <<collectorStop, ingestStop, shutdown, abandoned, drained, remaining,
                 queueVars, producerVars, routerVars>>

MainStep ==
  \/ JoinCollectors
  \/ IngestStopped
  \/ Drained
  \/ DrainTimesOut
  \/ JoinRouter
  \/ ReportAndExit

-----------------------------------------------------------------------------
Running == mpc # "exited"

(* The process is gone; the model stutters.                                *)
Terminated == mpc = "exited" /\ UNCHANGED vars

Next ==
  \/ Running /\ (Produce \/ RouterStep \/ IdleSummaryRaises \/ StopRequested \/ MainStep)
  \/ Terminated

(***************************************************************************)
(* Fairness: every thread is scheduled by the interpreter, every wait of   *)
(* safe_enqueue and of main() has a time-out, the router's calls do, and a *)
(* watcher's scan is finite. The arrival of events, of requests and their  *)
(* bodies, and of the signal is not fair.                                  *)
(***************************************************************************)
Fairness ==
  /\ \A p \in Producers : WF_vars(Running /\ SafeEnqueue(p))
  /\ \A c \in Collectors : WF_vars(Running /\ StopCollector(c))
  /\ \A w \in Watchers : WF_vars(Running /\ EndScan(w))
  /\ WF_vars(Running /\ StopServing)
  /\ WF_vars(Running /\ RouterStep)
  /\ WF_vars(Running /\ MainStep)

Spec == Init /\ [][Next]_vars
FairSpec == Spec /\ Fairness
-----------------------------------------------------------------------------
(***************************************************************************)
(* Properties.                                                             *)
(***************************************************************************)

ProducerStates == {"loop", "scan", "reading", "put", "counting", "stopped"}
RouterBusy == rpc \in {"handle", "decide", "persist", "record", "done"}
RouterStates == {"get", "handle", "decide", "persist", "record", "done", "exited", "dead"}
MainStates == {"run", "join", "awaitIngest", "drain", "joinRouter", "report", "exited"}

(* Every variable has its type; counters stay natural numbers, the queue   *)
(* within its maxsize (unfinished_tasks never goes below zero, which       *)
(* queue.Queue.task_done would answer with ValueError in the finally).     *)
TypeOK ==
  /\ queue \in Seq(Events) /\ Len(queue) <= Capacity
  /\ unfinished \in Nat
  /\ ppc \in [Producers -> ProducerStates]
  /\ attempt \in [Producers -> 1..MaxAttempts]
  /\ item \in [Producers -> Events \cup {NoEvent}]
  /\ \A p \in Producers : ppc[p] = "put" => item[p] \in Events
  /\ made \in 0..MaxEvents
  /\ received \in Nat /\ dropped \in Nat
  /\ rpc \in RouterStates
  /\ current \in Events \cup {NoEvent}
  /\ facts \subseteq {"decided", "written"}
  /\ processed \in Nat /\ invalid \in Nat /\ errors \in Nat
  /\ mpc \in MainStates
  /\ collectorStop \in BOOLEAN /\ ingestStop \in BOOLEAN /\ shutdown \in BOOLEAN
  /\ abandoned \subseteq Collectors
  /\ drained \in BOOLEAN
  /\ remaining \in Nat

(* Producers between their queue.put and its count in METRICS.             *)
Counting == {p \in Producers : ppc[p] = "counting"}

(* Events whose handling has ended, by any of the three ends it can have.  *)
Settled == processed + invalid + errors

(* The books of three sets of threads agree at every moment, with no lock  *)
(* held over all of them: unfinished_tasks (event_queue's and the drain's  *)
(* view) is what waits or is in the router's hands, and events_received    *)
(* (the producers' view) is what the router settled, has or will get, less *)
(* the producers that have put and not yet counted.                        *)
Accounting ==
  /\ RouterBusy <=> current # NoEvent
  /\ unfinished = Len(queue) + (IF RouterBusy THEN 1 ELSE 0)
  /\ received + Cardinality(Counting)
       = Settled + Len(queue) + (IF RouterBusy /\ rpc # "done" THEN 1 ELSE 0)

(* "Event queue drained successfully" (guardian.py main) can be believed:  *)
(* when the drain succeeded and no collector was left behind, the process  *)
(* exits with every received event settled and nothing in the queue.       *)
DrainMeansNothingLost ==
  mpc = "exited" /\ drained /\ abandoned = {}
    => queue = <<>> /\ received = Settled

(* The shutdown summary may count an event twice (the router goes on       *)
(* between the reads) but never hides one: with no collector left behind,  *)
(* received events are among processed, invalid, failed and remaining.     *)
SummaryHidesNothing ==
  mpc = "exited" /\ abandoned = {} => received <= Settled + remaining

(* The queue, the router and the drain are an event channel: first in      *)
(* first out, one event at a time, each once, and "drained" is reported    *)
(* only at a moment when nothing waits and nothing is in the router's      *)
(* hands -- though main() reads nothing but unfinished_tasks.              *)
Channel == INSTANCE EventChannel WITH
  Item <- Events, Bound <- Capacity, None <- NoEvent,
  waiting <- queue, serving <- current, quiet <- drained

ImplementsChannel == Channel!ChannelSpec

(* Once a signal has arrived the process exits, whatever state queue,      *)
(* collectors and router are in, a dead router included -- provided that no*)
(* client keeps the ingest thread reading for ever: main() waits for that  *)
(* thread without a time-out, and reading a request has none either.       *)
NoClientStalls == []<>(ppc[Ingest] # "reading")
ShutdownCompletes == NoClientStalls => (collectorStop ~> mpc = "exited")

(* An event that was accepted into the queue is settled, unless the        *)
(* process exits first or the router died of an idle summary.              *)
Held(n) ==
  \/ \E i \in 1..Len(queue) : queue[i].seq = n
  \/ current # NoEvent /\ current.seq = n
AcceptedEventsAreSettled ==
  \A n \in 1..MaxEvents :
    Held(n) ~> (~Held(n) \/ mpc = "exited" \/ rpc = "dead")

(* guardian.py, EventRouter.run: "Step 3: ALWAYS write decision to SQLite  *)
(* -- never blocked". An event with a decision reaches store_event before  *)
(* the router is done with it.                                             *)
AlwaysWritesDecision ==
  rpc = "done" /\ "decided" \in facts => "written" \in facts
=============================================================================
