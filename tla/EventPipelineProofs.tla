------------------------- MODULE EventPipelineProofs -------------------------
(***************************************************************************)
(* What TLC checks of EventPipeline on a small instance, proved for every  *)
(* finite set of producers, every queue size, number of attempts and number*)
(* of events.                                                              *)
(*                                                                         *)
(* IInv relates the counters of the threads and is inductive by itself.    *)
(* ShutdownInv adds what main() knows at each of its stages; it is         *)
(* inductive given IInv, and implies the two promises about the exit. The  *)
(* refinement of EventChannel needs IInv in one place: the step Drained.   *)
(***************************************************************************)
EXTENDS EventPipeline, TLAPS, FiniteSetTheorems

IInv == TypeOK /\ Accounting

(* The producers between put and count are finitely many: their number is  *)
(* a natural number, zero for the empty set.                               *)
LEMMA CountingFinite ==
  /\ IsFiniteSet(Counting)
  /\ Cardinality(Counting) \in Nat
  /\ Counting = {} => Cardinality(Counting) = 0
<1>1. Counting \subseteq Producers
  BY DEF Counting
<1>2. IsFiniteSet(Counting)
  BY <1>1, ProducersAssumption, FS_Subset
<1>3. QED
  BY <1>2, FS_CardinalityType, FS_EmptySet

(* A producer step that neither enters nor leaves "counting" keeps the set.*)
LEMMA CountingSame ==
  ASSUME NEW p \in Producers, TypeOK, NEW st, st # "counting",
         ppc[p] # "counting", ppc' = [ppc EXCEPT ![p] = st]
  PROVE  Counting' = Counting
BY DEF Counting, TypeOK

LEMMA InitIInv == Init => IInv
<1> SUFFICES ASSUME Init PROVE IInv
  OBVIOUS
<1>1. TypeOK
  <2>1. queue \in Seq(Events) /\ Len(queue) <= Capacity
    BY BoundsAssumption DEF Init
  <2>2. /\ ppc \in [Producers -> ProducerStates]
        /\ attempt \in [Producers -> 1..MaxAttempts]
        /\ item \in [Producers -> Events \cup {NoEvent}]
        /\ \A p \in Producers : ppc[p] # "put"
        /\ made \in 0..MaxEvents
    BY BoundsAssumption DEF Init, ProducerStates
  <2>3. QED
    BY <2>1, <2>2 DEF Init, TypeOK, RouterStates, MainStates
<1>2. Counting = {}
  BY DEF Init, Counting
<1>3. Accounting
  BY <1>2, CountingFinite DEF Init, Accounting, RouterBusy, Settled
<1>4. QED
  BY <1>1, <1>3 DEF IInv

-----------------------------------------------------------------------------
(***************************************************************************)
(* Producer steps.                                                         *)
(***************************************************************************)

(* Steps that touch neither the queue nor a counter of Accounting.         *)
LEMMA QuietAccounting ==
  ASSUME Accounting, UNCHANGED <<queueVars, routerVars, received>>, Counting' = Counting
  PROVE  Accounting'
BY DEF Accounting, RouterBusy, Settled, queueVars, routerVars

LEMMA OfferIInv ==
  ASSUME IInv, NEW p \in Producers, ppc[p] # "counting", Offer(p)
  PROVE  IInv'
<1>1. TypeOK'
  BY BoundsAssumption, SMTT(30)
  DEF IInv, TypeOK, Offer, KindsFrom, Kinds, Events, ProducerStates,
      queueVars, routerVars, mainVars
<1>2. Counting' = Counting
  BY CountingSame DEF IInv, Offer
<1>3. QED
  BY <1>1, <1>2, QuietAccounting DEF IInv, Offer

LEMMA GotoIInv ==
  ASSUME IInv, NEW p \in Producers, NEW from, NEW to \in ProducerStates \ {"put", "counting"},
         from # "counting", Goto(p, from, to)
  PROVE  IInv'
<1>1. TypeOK'
  BY DEF IInv, TypeOK, Goto, queueVars, routerVars, mainVars
<1>2. Counting' = Counting
  BY CountingSame DEF IInv, Goto
<1>3. QED
  BY <1>1, <1>2, QuietAccounting DEF IInv, Goto

LEMMA PutIInv ==
  ASSUME IInv, NEW p \in Producers, Put(p)
  PROVE  IInv'
<1>1. item[p] \in Events
  BY DEF IInv, TypeOK, Put
<1>2. TypeOK'
  BY <1>1, BoundsAssumption
  DEF IInv, TypeOK, Put, ProducerStates, routerVars, mainVars
<1>3. Cardinality(Counting') = Cardinality(Counting) + 1
  <2>1. Counting' = Counting \cup {p} /\ p \notin Counting
    BY DEF IInv, TypeOK, Put, Counting
  <2>2. QED
    BY <2>1, CountingFinite, FS_AddElement
<1>4. Len(queue') = Len(queue) + 1
  BY <1>1 DEF IInv, TypeOK, Put
<1>5. Accounting'
  BY <1>3, <1>4, CountingFinite, SMTT(30)
  DEF IInv, TypeOK, Accounting, Put, RouterBusy, Settled, routerVars
<1>6. QED
  BY <1>2, <1>5 DEF IInv

LEMMA CountReceivedIInv ==
  ASSUME IInv, NEW p \in Producers, CountReceived(p)
  PROVE  IInv'
<1>1. TypeOK'
  BY DEF IInv, TypeOK, CountReceived, AfterEnqueue, ProducerStates,
         queueVars, routerVars, mainVars
<1>2. Cardinality(Counting') = Cardinality(Counting) - 1
  <2>1. Counting' = Counting \ {p} /\ p \in Counting
    BY DEF IInv, TypeOK, CountReceived, AfterEnqueue, Counting
  <2>2. QED
    BY <2>1, CountingFinite, FS_RemoveElement
<1>3. Accounting'
  BY <1>2, CountingFinite
  DEF IInv, TypeOK, Accounting, CountReceived, RouterBusy, Settled, queueVars, routerVars
<1>4. QED
  BY <1>1, <1>3 DEF IInv

LEMMA PutTimesOutIInv ==
  ASSUME IInv, NEW p \in Producers, PutTimesOut(p)
  PROVE  IInv'
<1>1. TypeOK'
  BY BoundsAssumption DEF IInv, TypeOK, PutTimesOut, queueVars, routerVars, mainVars
<1>2. Counting' = Counting
  BY DEF PutTimesOut, Counting
<1>3. QED
  BY <1>1, <1>2, QuietAccounting DEF IInv, PutTimesOut

LEMMA DropIInv ==
  ASSUME IInv, NEW p \in Producers, Drop(p)
  PROVE  IInv'
<1>1. TypeOK'
  BY BoundsAssumption
  DEF IInv, TypeOK, Drop, AfterEnqueue, ProducerStates, queueVars, routerVars, mainVars
<1>2. Counting' = Counting
  BY CountingSame DEF IInv, Drop, AfterEnqueue
<1>3. QED
  BY <1>1, <1>2, QuietAccounting DEF IInv, Drop

LEMMA ProduceIInv == IInv /\ Produce => IInv'
<1> SUFFICES ASSUME IInv, Produce PROVE IInv'
  OBVIOUS
<1> USE ProducersAssumption DEF Producers, Collectors
<1>1. CASE \E t \in Tailers : ReadLine(t) \/ TailerFails(t)
  <2>1. ASSUME NEW t \in Tailers, ReadLine(t) PROVE IInv'
    BY <2>1, OfferIInv DEF ReadLine
  <2>2. ASSUME NEW t \in Tailers, TailerFails(t) PROVE IInv'
    BY <2>2, GotoIInv DEF TailerFails, ProducerStates
  <2>3. QED
    BY <1>1, <2>1, <2>2
<1>2. CASE \E w \in Watchers : BeginScan(w) \/ ScanHit(w) \/ EndScan(w)
  <2> PICK w \in Watchers : BeginScan(w) \/ ScanHit(w) \/ EndScan(w)
    BY <1>2
  <2>1. CASE BeginScan(w)
    BY <2>1, GotoIInv DEF BeginScan, ProducerStates
  <2>2. CASE ScanHit(w)
    BY <2>2, OfferIInv DEF ScanHit
  <2>3. CASE EndScan(w)
    BY <2>3, GotoIInv DEF EndScan, ProducerStates
  <2>4. QED
    BY <2>1, <2>2, <2>3
<1>3. CASE \E c \in Collectors : StopCollector(c)
  BY <1>3, GotoIInv DEF StopCollector, ProducerStates
<1>4. CASE AcceptRequest \/ ReceiveEvent \/ RefuseRequest
  <2>1. CASE AcceptRequest
    BY <2>1, GotoIInv DEF AcceptRequest, ProducerStates
  <2>2. CASE ReceiveEvent
    BY <2>2, OfferIInv DEF ReceiveEvent
  <2>3. CASE RefuseRequest
    BY <2>3, GotoIInv DEF RefuseRequest, ProducerStates
  <2>4. QED
    BY <1>4, <2>1, <2>2, <2>3
<1>5. CASE StopServing
  BY <1>5, GotoIInv DEF StopServing, ProducerStates
<1>6. CASE \E p \in Producers : SafeEnqueue(p)
  BY <1>6, PutIInv, CountReceivedIInv, PutTimesOutIInv, DropIInv DEF SafeEnqueue
<1>7. QED
  BY <1>1, <1>2, <1>3, <1>4, <1>5, <1>6 DEF Produce
-----------------------------------------------------------------------------
(***************************************************************************)
(* Router and main() steps.                                                *)
(***************************************************************************)

(* Only producers enter or leave "counting".                               *)
LEMMA CountingKept ==
  ASSUME UNCHANGED producerVars
  PROVE  Counting' = Counting
BY DEF Counting, producerVars

(* The router's types are kept by whatever leaves the other threads alone. *)
LEMMA RouterTypeOK ==
  ASSUME TypeOK, UNCHANGED <<producerVars, mainVars>>,
         queue' \in Seq(Events), Len(queue') <= Capacity, unfinished' \in Nat,
         rpc' \in RouterStates, current' \in Events \cup {NoEvent},
         facts' \subseteq {"decided", "written"},
         processed' \in Nat, invalid' \in Nat, errors' \in Nat
  PROVE  TypeOK'
BY DEF TypeOK, producerVars, mainVars

LEMMA GetEventIInv == IInv /\ GetEvent => IInv'
<1> SUFFICES ASSUME IInv, GetEvent PROVE IInv'
  OBVIOUS
<1>1. /\ queue' \in Seq(Events) /\ Len(queue') = Len(queue) - 1
      /\ current' \in Events /\ current' # NoEvent
  <2>1. queue \in Seq(Events) /\ queue # <<>>
    BY DEF IInv, TypeOK, GetEvent
  <2>2. QED
    BY <2>1, NoEventAssumption DEF GetEvent
<1>2. TypeOK'
  BY <1>1, RouterTypeOK, BoundsAssumption DEF IInv, TypeOK, GetEvent, RouterStates
<1>3. Accounting'
  BY <1>1, CountingKept, CountingFinite
  DEF IInv, TypeOK, Accounting, GetEvent, RouterBusy, Settled, producerVars
<1>4. QED
  BY <1>2, <1>3 DEF IInv

(* A stage between "handle" and the finally clause: the event stays in the *)
(* router's hands and is settled exactly if the finally clause is next.    *)
LEMMA HandlingIInv ==
  ASSUME IInv, UNCHANGED <<queueVars, producerVars, mainVars, current>>,
         rpc \in {"handle", "decide", "persist", "record"},
         facts' \subseteq {"decided", "written"},
         processed' \in Nat, invalid' \in Nat, errors' \in Nat,
         \/ rpc' \in {"decide", "persist", "record"} /\ Settled' = Settled
         \/ rpc' = "done" /\ Settled' = Settled + 1
  PROVE  IInv'
<1>1. TypeOK'
  BY RouterTypeOK DEF IInv, TypeOK, queueVars, RouterStates
<1>2. Cardinality(Counting') = Cardinality(Counting) /\ Cardinality(Counting) \in Nat
  BY CountingKept, CountingFinite
<1>3. Settled \in Nat /\ received' = received /\ received \in Nat
  BY DEF IInv, TypeOK, Settled, producerVars
<1>4. queue' = queue /\ Len(queue) \in Nat /\ unfinished' = unfinished
  BY DEF IInv, TypeOK, queueVars
<1>5. Accounting'
  BY <1>2, <1>3, <1>4, SMTT(30) DEF IInv, Accounting, RouterBusy
<1>6. QED
  BY <1>1, <1>5 DEF IInv

LEMMA TaskDoneIInv == IInv /\ TaskDone => IInv'
<1> SUFFICES ASSUME IInv, TaskDone PROVE IInv'
  OBVIOUS
<1>1. unfinished = Len(queue) + 1 /\ Len(queue) \in Nat
  BY DEF IInv, TypeOK, Accounting, RouterBusy, TaskDone
<1>2. TypeOK'
  BY <1>1, RouterTypeOK DEF IInv, TypeOK, TaskDone, RouterStates
<1>3. Accounting'
  BY <1>1, CountingKept, CountingFinite
  DEF IInv, TypeOK, Accounting, TaskDone, RouterBusy, Settled, producerVars
<1>4. QED
  BY <1>2, <1>3 DEF IInv

(* The end of the loop, ordinary or by an exception in the Empty handler.  *)
LEMMA LeaveLoopIInv == IInv /\ (ExitLoop \/ IdleSummaryRaises) => IInv'
<1> SUFFICES ASSUME IInv, ExitLoop \/ IdleSummaryRaises PROVE IInv'
  OBVIOUS
<1>1. TypeOK'
  BY RouterTypeOK DEF IInv, TypeOK, ExitLoop, IdleSummaryRaises, RouterStates, queueVars
<1>2. Accounting'
  BY CountingKept
  DEF IInv, Accounting, ExitLoop, IdleSummaryRaises, RouterBusy, Settled,
      producerVars, queueVars
<1>3. QED
  BY <1>1, <1>2 DEF IInv

LEMMA RouterStepIInv == IInv /\ RouterStep => IInv'
<1> SUFFICES ASSUME IInv, RouterStep PROVE IInv'
  OBVIOUS
<1> USE DEF queueVars
<1>0. processed \in Nat /\ invalid \in Nat /\ errors \in Nat /\ facts \subseteq {"decided", "written"}
  BY DEF IInv, TypeOK
<1>1. CASE RejectInvalid
  BY <1>0, <1>1, HandlingIInv DEF RejectInvalid, Settled
<1>2. CASE Compress
  BY <1>0, <1>2, HandlingIInv DEF Compress, Proceed, Settled
<1>3. CASE Decide
  BY <1>0, <1>3, HandlingIInv DEF Decide, Proceed, Settled
<1>4. CASE StoreEvent
  BY <1>0, <1>4, HandlingIInv DEF StoreEvent, Proceed, Settled
<1>5. CASE RecordEvent
  BY <1>0, <1>5, HandlingIInv DEF RecordEvent, Proceed, Settled
<1>6. QED
  BY <1>1, <1>2, <1>3, <1>4, <1>5, GetEventIInv, TaskDoneIInv, LeaveLoopIInv DEF RouterStep

LEMMA MainIInv == IInv /\ (StopRequested \/ MainStep) => IInv'
<1> SUFFICES ASSUME IInv, StopRequested \/ MainStep PROVE IInv'
  OBVIOUS
<1>1. UNCHANGED <<queueVars, producerVars, routerVars>>
  BY DEF StopRequested, MainStep, JoinCollectors, IngestStopped, Drained, DrainTimesOut,
         JoinRouter, ReportAndExit
<1>2. TypeOK'
  BY <1>1
  DEF IInv, TypeOK, queueVars, producerVars, routerVars, MainStates, MainAt,
      StopRequested, MainStep, JoinCollectors, IngestStopped, Drained, DrainTimesOut,
      JoinRouter, ReportAndExit
<1>3. Counting' = Counting
  BY <1>1, CountingKept
<1>4. QED
  BY <1>1, <1>2, <1>3, QuietAccounting DEF IInv, producerVars

LEMMA NextIInv == IInv /\ [Next]_vars => IInv'
<1> SUFFICES ASSUME IInv, [Next]_vars PROVE IInv'
  OBVIOUS
<1>1. CASE UNCHANGED vars
  BY <1>1
  DEF vars, queueVars, producerVars, routerVars, mainVars, IInv, TypeOK, Accounting,
      Counting, RouterBusy, Settled
<1>2. CASE Next
  BY <1>1, <1>2, ProduceIInv, RouterStepIInv, LeaveLoopIInv, MainIInv DEF Next, Terminated
<1>3. QED
  BY <1>1, <1>2

THEOREM IInvHolds == Spec => []IInv
BY InitIInv, NextIInv, PTL DEF Spec

(* In every behaviour the variables keep their types; in particular        *)
(* task_done is never called on a queue without unfinished tasks.          *)
THEOREM TypeCorrect == Spec => []TypeOK
<1>1. IInv => TypeOK
  BY DEF IInv
<1>2. QED
  BY <1>1, IInvHolds, PTL

(* The counters of queue, producers and router agree in every behaviour.   *)
THEOREM AccountingHolds == Spec => []Accounting
<1>1. IInv => Accounting
  BY DEF IInv
<1>2. QED
  BY <1>1, IInvHolds, PTL
-----------------------------------------------------------------------------
(***************************************************************************)
(* What main() knows as it comes down. Once the ingest thread has been     *)
(* awaited it has stopped, and so has every collector main did not leave   *)
(* behind; a successful drain is then final, because nobody is left who    *)
(* could put; and the number read for the summary covers what is unsettled.*)
(***************************************************************************)
ShutdownInv ==
  /\ mpc \in {"drain", "joinRouter", "report", "exited"} => ppc[Ingest] = "stopped"
  /\ mpc \notin {"run", "join"} => \A c \in Collectors \ abandoned : ppc[c] = "stopped"
  /\ drained => mpc \in {"joinRouter", "report", "exited"}
  /\ drained /\ abandoned = {} => queue = <<>> /\ current = NoEvent
  /\ mpc \in {"report", "exited"} /\ abandoned = {} => received <= Settled + remaining

(* From the drain on, with no collector left behind, no producer runs: none*)
(* is between put and count either.                                        *)
LEMMA AllStopped ==
  ASSUME ShutdownInv, abandoned = {},
         mpc \in {"drain", "joinRouter", "report", "exited"}
  PROVE  /\ \A p \in Producers : ppc[p] = "stopped"
         /\ Cardinality(Counting) = 0
<1>1. \A p \in Producers : ppc[p] = "stopped"
  BY DEF ShutdownInv, Producers
<1>2. Counting = {}
  BY <1>1 DEF Counting
<1>3. QED
  BY <1>1, <1>2, CountingFinite

(* Then the unsettled events are exactly those unfinished_tasks counts, up *)
(* to one that is settled and not yet marked done.                         *)
LEMMA ReceivedIsCovered ==
  ASSUME IInv, Cardinality(Counting) = 0
  PROVE  /\ received <= Settled + unfinished
         /\ queue = <<>> /\ current = NoEvent => received = Settled
<1>1. queue = <<>> => Len(queue) = 0
  OBVIOUS
<1>2. Settled \in Nat /\ received \in Nat /\ Len(queue) \in Nat
  BY DEF IInv, TypeOK, Settled
<1>3. QED
  BY <1>1, <1>2 DEF IInv, Accounting

(* A step of the producers has an actor, who has not stopped.              *)
Acts(p) ==
  /\ ppc[p] # "stopped"
  /\ \E st : ppc' = [ppc EXCEPT ![p] = st]
  /\ UNCHANGED <<mainVars, routerVars>>

LEMMA ProduceActor == IInv /\ Produce => \E p \in Producers : Acts(p)
<1> SUFFICES ASSUME IInv, Produce PROVE \E p \in Producers : Acts(p)
  OBVIOUS
<1>1. \A p \in Producers : Offer(p) /\ ppc[p] # "stopped" => Acts(p)
  BY DEF Offer, Acts
<1>2. \A p \in Producers : Goto(p, "loop", "scan") \/ Goto(p, "scan", "loop")
                             \/ Goto(p, "loop", "reading") \/ Goto(p, "reading", "loop")
                             \/ Goto(p, "loop", "stopped") => Acts(p)
  BY DEF Goto, Acts
<1>3. ASSUME NEW p \in Producers, SafeEnqueue(p) PROVE Acts(p)
  <2>1. CASE PutTimesOut(p)
    BY <2>1 DEF PutTimesOut, IInv, TypeOK, Acts
  <2>2. QED
    BY <1>3, <2>1 DEF SafeEnqueue, Put, CountReceived, Drop, Acts
<1>4. \A c \in Collectors : c \in Producers
  BY DEF Producers
<1>5. CASE \E t \in Tailers : ReadLine(t) \/ TailerFails(t)
  BY <1>1, <1>2, <1>4, <1>5 DEF Collectors, ReadLine, TailerFails
<1>6. CASE \E w \in Watchers : BeginScan(w) \/ ScanHit(w) \/ EndScan(w)
  BY <1>1, <1>2, <1>4, <1>6 DEF Collectors, BeginScan, ScanHit, EndScan
<1>7. CASE \E c \in Collectors : StopCollector(c)
  BY <1>2, <1>4, <1>7 DEF StopCollector
<1>8. CASE AcceptRequest \/ ReceiveEvent \/ RefuseRequest \/ StopServing
  BY <1>1, <1>2, <1>8
  DEF Producers, AcceptRequest, ReceiveEvent, RefuseRequest, StopServing
<1>9. QED
  BY <1>3, <1>5, <1>6, <1>7, <1>8 DEF Produce

LEMMA ProduceShutdownInv == IInv /\ ShutdownInv /\ Produce => ShutdownInv'
<1> SUFFICES ASSUME IInv, ShutdownInv, Produce PROVE ShutdownInv'
  OBVIOUS
<1>1. PICK p \in Producers : Acts(p)
  BY ProduceActor
<1> USE DEF Acts
<1>2. \A q \in Producers \ {p} : ppc'[q] = ppc[q]
  BY <1>1
<1>3. ~(mpc \in {"drain", "joinRouter", "report", "exited"} /\ abandoned = {})
  BY <1>1, AllStopped
<1>4. mpc \in {"drain", "joinRouter", "report", "exited"} => ppc'[Ingest] = "stopped"
  BY <1>1, <1>2 DEF ShutdownInv, Producers
<1>5. mpc \notin {"run", "join"} => \A c \in Collectors \ abandoned : ppc'[c] = "stopped"
  BY <1>1, <1>2 DEF ShutdownInv, Producers
<1>6. QED
  BY <1>1, <1>3, <1>4, <1>5 DEF ShutdownInv, mainVars, routerVars, Settled

(* The router works on: an event it settles moves from one side of the sum *)
(* to the other, and after a final drain there is nothing to work on.      *)
LEMMA RouterShutdownInv ==
  IInv /\ ShutdownInv /\ (RouterStep \/ IdleSummaryRaises) => ShutdownInv'
<1> SUFFICES ASSUME IInv, ShutdownInv, RouterStep \/ IdleSummaryRaises PROVE ShutdownInv'
  OBVIOUS
<1>1. UNCHANGED <<producerVars, mainVars>>
  BY DEF RouterStep, GetEvent, RejectInvalid, Compress, Decide, StoreEvent, RecordEvent,
         TaskDone, ExitLoop, IdleSummaryRaises
<1>2. Settled' = Settled \/ Settled' = Settled + 1
  BY DEF IInv, TypeOK, Settled, Proceed, RouterStep, GetEvent, RejectInvalid, Compress,
         Decide, StoreEvent, RecordEvent, TaskDone, ExitLoop, IdleSummaryRaises
<1>3. Settled \in Nat /\ received \in Nat /\ remaining \in Nat
  BY DEF IInv, TypeOK, Settled
<1>4. queue = <<>> /\ current = NoEvent => queue' = <<>> /\ current' = NoEvent
  BY DEF IInv, Accounting, RouterBusy, queueVars, RouterStep, GetEvent, RejectInvalid,
         Compress, Decide, StoreEvent, RecordEvent, TaskDone, ExitLoop, IdleSummaryRaises
<1>5. (mpc \in {"report", "exited"} /\ abandoned = {} => received <= Settled + remaining)'
  <2>1. received' = received /\ remaining' = remaining /\ mpc' = mpc /\ abandoned' = abandoned
    BY <1>1 DEF producerVars, mainVars
  <2>2. received <= Settled + remaining => received <= Settled' + remaining
    BY <1>2, <1>3
  <2>3. QED
    BY <2>1, <2>2 DEF ShutdownInv
<1>6. (drained /\ abandoned = {} => queue = <<>> /\ current = NoEvent)'
  BY <1>1, <1>4 DEF ShutdownInv, mainVars
<1>7. QED
  BY <1>1, <1>5, <1>6 DEF ShutdownInv, producerVars, mainVars

LEMMA MainShutdownInv == IInv /\ ShutdownInv /\ (StopRequested \/ MainStep) => ShutdownInv'
<1> SUFFICES ASSUME IInv, ShutdownInv, StopRequested \/ MainStep PROVE ShutdownInv'
  OBVIOUS
<1> USE DEF MainAt, ShutdownInv
<1>0. mpc \in MainStates
  BY DEF IInv, TypeOK
<1>1. CASE StopRequested
  BY <1>1 DEF StopRequested, queueVars, producerVars, routerVars
<1>2. CASE JoinCollectors
  BY <1>2 DEF JoinCollectors, queueVars, producerVars, routerVars
<1>3. CASE IngestStopped
  BY <1>3 DEF IngestStopped, queueVars, producerVars, routerVars
<1>4. CASE Drained
  <2>1. queue = <<>> /\ current = NoEvent
    BY <1>4 DEF Drained, IInv, TypeOK, Accounting
  <2>2. QED
    BY <1>4, <2>1 DEF Drained, queueVars, producerVars, routerVars
<1>5. CASE DrainTimesOut
  BY <1>5 DEF DrainTimesOut, queueVars, producerVars, routerVars
<1>6. CASE JoinRouter
  <2>1. abandoned = {} => received <= Settled + unfinished
    BY <1>6, AllStopped, ReceivedIsCovered DEF JoinRouter
  <2>2. Settled' = Settled /\ remaining' = unfinished
    BY <1>6 DEF JoinRouter, Settled, routerVars
  <2>3. QED
    BY <1>6, <2>1, <2>2 DEF JoinRouter, queueVars, producerVars, routerVars
<1>7. CASE ReportAndExit
  BY <1>7 DEF ReportAndExit, queueVars, producerVars, routerVars, Settled
<1>8. QED
  BY <1>1, <1>2, <1>3, <1>4, <1>5, <1>6, <1>7 DEF MainStep

THEOREM ShutdownInvHolds == Spec => []ShutdownInv
<1>1. Init => ShutdownInv
  BY DEF Init, ShutdownInv
<1>2. IInv /\ ShutdownInv /\ [Next]_vars => ShutdownInv'
  <2> SUFFICES ASSUME IInv, ShutdownInv, [Next]_vars PROVE ShutdownInv'
    OBVIOUS
  <2>1. CASE UNCHANGED vars
    BY <2>1
    DEF vars, queueVars, producerVars, routerVars, mainVars, ShutdownInv, Settled
  <2>2. QED
    BY <2>1, ProduceShutdownInv, RouterShutdownInv, MainShutdownInv DEF Next, Terminated
<1>3. QED
  BY <1>1, <1>2, IInvHolds, PTL DEF Spec

(* A successful drain with no collector left behind loses nothing.         *)
THEOREM NothingLost == Spec => []DrainMeansNothingLost
<1>1. IInv /\ ShutdownInv => DrainMeansNothingLost
  BY AllStopped, ReceivedIsCovered DEF DrainMeansNothingLost, ShutdownInv
<1>2. QED
  BY <1>1, IInvHolds, ShutdownInvHolds, PTL

(* The shutdown summary hides no event.                                    *)
THEOREM NothingHidden == Spec => []SummaryHidesNothing
<1>1. ShutdownInv => SummaryHidesNothing
  BY DEF SummaryHidesNothing, ShutdownInv
<1>2. QED
  BY <1>1, ShutdownInvHolds, PTL

-----------------------------------------------------------------------------
(***************************************************************************)
(* The refinement: each step of the pipeline is a step of EventChannel or  *)
(* a stutter of it.                                                        *)
(***************************************************************************)
LEMMA PutIsAccept ==
  ASSUME IInv, NEW p \in Producers, Put(p)
  PROVE  \E e \in Events : Channel!Accept(e)
<1>1. item[p] \in Events
  BY DEF IInv, TypeOK, Put
<1>2. Channel!Accept(item[p])
  BY DEF Put, Channel!Accept, routerVars, mainVars
<1>3. QED
  BY <1>1, <1>2

LEMMA ProduceRefines ==
  IInv /\ Produce => [Channel!ChannelNext]_Channel!channelVars
<1> SUFFICES ASSUME IInv, Produce
             PROVE  [Channel!ChannelNext]_Channel!channelVars
  OBVIOUS
<1>1. CASE \E p \in Producers : Put(p)
  BY <1>1, PutIsAccept DEF Channel!ChannelNext
<1>2. CASE UNCHANGED <<queueVars, routerVars, mainVars>>
  BY <1>2 DEF Channel!channelVars, queueVars, routerVars, mainVars
<1>3. QED
  BY <1>1, <1>2
  DEF Produce, ReadLine, BeginScan, ScanHit, EndScan, StopCollector, TailerFails,
      AcceptRequest, ReceiveEvent, RefuseRequest,
      StopServing, Offer, Goto, SafeEnqueue, CountReceived, PutTimesOut, Drop

LEMMA RouterRefines ==
  IInv /\ (RouterStep \/ IdleSummaryRaises) => [Channel!ChannelNext]_Channel!channelVars
<1> SUFFICES ASSUME IInv, RouterStep \/ IdleSummaryRaises
             PROVE  [Channel!ChannelNext]_Channel!channelVars
  OBVIOUS
<1>1. CASE GetEvent
  <2>1. current = NoEvent
    BY <1>1 DEF GetEvent, IInv, Accounting, RouterBusy
  <2>2. Channel!Serve
    BY <1>1, <2>1 DEF GetEvent, Channel!Serve, mainVars
  <2>3. QED
    BY <2>2 DEF Channel!ChannelNext
<1>2. CASE TaskDone
  <2>1. current # NoEvent
    BY <1>2 DEF TaskDone, IInv, Accounting, RouterBusy
  <2>2. Channel!Finish
    BY <1>2, <2>1 DEF TaskDone, Channel!Finish, mainVars
  <2>3. QED
    BY <2>2 DEF Channel!ChannelNext
<1>3. CASE UNCHANGED <<queueVars, current, mainVars>>
  BY <1>3 DEF Channel!channelVars, queueVars, mainVars
<1>4. QED
  BY <1>1, <1>2, <1>3
  DEF RouterStep, RejectInvalid, Compress, Decide, StoreEvent, RecordEvent, ExitLoop,
      IdleSummaryRaises

(* main() looks only at unfinished_tasks; that this is enough to report    *)
(* the channel quiet is what Accounting says.                              *)
LEMMA MainRefines ==
  IInv /\ (StopRequested \/ MainStep) => [Channel!ChannelNext]_Channel!channelVars
<1> SUFFICES ASSUME IInv, StopRequested \/ MainStep
             PROVE  [Channel!ChannelNext]_Channel!channelVars
  OBVIOUS
<1>1. CASE Drained
  <2>1. queue = <<>> /\ current = NoEvent
    BY <1>1 DEF Drained, IInv, TypeOK, Accounting
  <2>2. Channel!ReportQuiet
    BY <1>1, <2>1 DEF Drained, Channel!ReportQuiet, queueVars, routerVars
  <2>3. QED
    BY <2>2 DEF Channel!ChannelNext
<1>2. CASE UNCHANGED <<queueVars, routerVars, drained>>
  BY <1>2 DEF Channel!channelVars, queueVars, routerVars
<1>3. QED
  BY <1>1, <1>2
  DEF StopRequested, MainStep, JoinCollectors, IngestStopped, DrainTimesOut, JoinRouter,
      ReportAndExit

(* Queue, router and drain together are an event channel.                  *)
THEOREM PipelineImplementsChannel == Spec => ImplementsChannel
<1>1. Init => Channel!ChannelInit
  BY DEF Init, Channel!ChannelInit
<1>2. IInv /\ [Next]_vars => [Channel!ChannelNext]_Channel!channelVars
  <2> SUFFICES ASSUME IInv, [Next]_vars
               PROVE  [Channel!ChannelNext]_Channel!channelVars
    OBVIOUS
  <2>1. CASE UNCHANGED vars
    BY <2>1 DEF vars, queueVars, routerVars, mainVars, Channel!channelVars
  <2>2. QED
    BY <2>1, ProduceRefines, RouterRefines, MainRefines DEF Next, Terminated
<1>3. QED
  BY <1>1, <1>2, IInvHolds, PTL DEF Spec, ImplementsChannel, Channel!ChannelSpec
=============================================================================
