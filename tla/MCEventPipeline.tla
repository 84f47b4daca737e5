--------------------------- MODULE MCEventPipeline ---------------------------
(***************************************************************************)
(* A small instance of EventPipeline: one collector of each kind and the   *)
(* ingest thread. The cfg gives the queue one place, so that it is full as *)
(* often as not.                                                           *)
(***************************************************************************)
EXTENDS EventPipeline

CONSTANTS t1, w1, ingest     \* the producer threads, as model values
=============================================================================
