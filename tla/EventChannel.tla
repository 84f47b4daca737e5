---------------------------- MODULE EventChannel ----------------------------
(***************************************************************************)
(* What the guardian's in-process event channel promises, whatever threads *)
(* implement it: a bounded FIFO, served one item at a time and each item   *)
(* once, and a "quiet" report which is given only at a moment when nothing *)
(* is waiting and nothing is being served.                                 *)
(*                                                                         *)
(* EventPipeline implements this specification.                            *)
(***************************************************************************)
EXTENDS Naturals, Sequences

CONSTANTS
  Item,         \* what producers offer
  Bound,        \* how many items may wait
  None          \* "nothing is being served"

VARIABLES
  waiting,      \* accepted items, oldest first
  serving,      \* the item in service, or None
  quiet         \* has the channel been reported quiet?

channelVars == <<waiting, serving, quiet>>

ChannelInit ==
  /\ waiting = <<>>
  /\ serving = None
  /\ quiet = FALSE

Accept(e) ==
  /\ Len(waiting) < Bound
  /\ waiting' = Append(waiting, e)
  /\ UNCHANGED <<serving, quiet>>

Serve ==
  /\ serving = None
  /\ waiting # <<>>
  /\ serving' = Head(waiting)
  /\ waiting' = Tail(waiting)
  /\ UNCHANGED quiet

Finish ==
  /\ serving # None
  /\ serving' = None
  /\ UNCHANGED <<waiting, quiet>>

ReportQuiet ==
  /\ waiting = <<>>
  /\ serving = None
  /\ quiet' = TRUE
  /\ UNCHANGED <<waiting, serving>>

ChannelNext ==
  \/ \E e \in Item : Accept(e)
  \/ Serve
  \/ Finish
  \/ ReportQuiet

ChannelSpec == ChannelInit /\ [][ChannelNext]_channelVars
=============================================================================
