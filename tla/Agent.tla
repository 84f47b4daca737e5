------------------------------- MODULE Agent -------------------------------
(***************************************************************************)
(* The Go agent's collector: connections of the socket put frames into a   *)
(* bounded channel, workers post them to the guardian's ingest server. The *)
(* client gives a request three seconds; the server may still take what    *)
(* the client has given up.                                                *)
(***************************************************************************)
EXTENDS Naturals, Sequences, FiniteSets

CONSTANTS
  Workers,      \* WorkerCount
  QueueSize,
  MaxFrames     \* bound of the model: frames that arrive

ASSUME AgentAssumption ==
  QueueSize \in Nat \ {0} /\ MaxFrames \in Nat /\ IsFiniteSet(Workers)

VARIABLES
  frames,      \* frames that arrived; they are numbered
  channel,     \* the buffered channel
  sending,     \* worker -> the frame it posts, or 0
  atServer,    \* requests the ingest server works on, frames
  accepted,    \* frame -> how often the server took it
  lost,        \* frames the agent dropped, gave up or saw refused
  up           \* the agent runs
agentVars == <<frames, channel, sending, atServer, accepted, lost, up>>

Frames == 1..MaxFrames

AgentInit ==
  /\ frames = 0 /\ channel = <<>>
  /\ sending = [w \in Workers |-> 0]
  /\ atServer = {} /\ accepted = [f \in Frames |-> 0] /\ lost = {} /\ up = TRUE

(* handleConnection: a frame never waits for room.                         *)
Arrive ==
  /\ up /\ frames < MaxFrames
  /\ frames' = frames + 1
  /\ IF Len(channel) < QueueSize
     THEN channel' = Append(channel, frames + 1) /\ UNCHANGED lost
     ELSE lost' = lost \cup {frames + 1} /\ UNCHANGED channel
  /\ UNCHANGED <<sending, atServer, accepted, up>>

(* dispatchWorker takes a frame and posts it.                              *)
Post(w) ==
  /\ up /\ sending[w] = 0 /\ channel # <<>>
  /\ sending' = [sending EXCEPT ![w] = Head(channel)]
  /\ atServer' = atServer \cup {Head(channel)}
  /\ channel' = Tail(channel)
  /\ UNCHANGED <<frames, accepted, lost, up>>

(* The request ends for the client: with a status, which is not looked at, *)
(* with an error, or at its timeout.                                       *)
PostEndsRetryBug(w) ==
  /\ up /\ sending[w] # 0
  /\ sending' = [sending EXCEPT ![w] = 0]
  /\ \/ channel' = channel
     \/ sending[w] \in atServer /\ Len(channel) < QueueSize
        /\ channel' = Append(channel, sending[w])
  /\ UNCHANGED <<frames, atServer, accepted, lost, up>>

PostEndsUntimedBug(w) ==
  /\ up /\ sending[w] # 0 /\ sending[w] \notin atServer
  /\ sending' = [sending EXCEPT ![w] = 0]
  /\ UNCHANGED <<frames, channel, atServer, accepted, lost, up>>

PostEnds(w) ==
  /\ up /\ sending[w] # 0
  /\ sending' = [sending EXCEPT ![w] = 0]
  /\ UNCHANGED <<frames, channel, atServer, accepted, lost, up>>

(* The ingest server answers 202, or refuses (401, 400, 503): early, late, *)
(* or not at all.                                                          *)
Serve(f, taken) ==
  /\ f \in atServer
  /\ atServer' = atServer \ {f}
  /\ IF taken THEN accepted' = [accepted EXCEPT ![f] = @ + 1] /\ UNCHANGED lost
              ELSE lost' = lost \cup {f} /\ UNCHANGED accepted
  /\ UNCHANGED <<frames, channel, sending, up>>

(* SIGTERM: the socket is removed and the process exits.                   *)
Exit ==
  /\ up
  /\ up' = FALSE /\ channel' = <<>>
  /\ sending' = [w \in Workers |-> 0]
  /\ lost' = lost \cup {channel[i] : i \in DOMAIN channel}
  /\ UNCHANGED <<frames, atServer, accepted>>

AgentNext ==
  \/ Arrive \/ Exit
  \/ \E w \in Workers : Post(w) \/ PostEnds(w)
  \/ \E f \in Frames, taken \in BOOLEAN : Serve(f, taken)

AgentSpec == AgentInit /\ [][AgentNext]_agentVars

(* Workers run, and the client's timeout ends every request. Nothing is    *)
(* assumed of the server.                                                  *)
AgentFairness == \A w \in Workers : WF_agentVars(Post(w)) /\ WF_agentVars(PostEnds(w))

-----------------------------------------------------------------------------
(***************************************************************************)
(* Properties.                                                             *)
(***************************************************************************)
Queued == {channel[i] : i \in DOMAIN channel}

(* A frame is taken by the guardian at most once, answers that come late   *)
(* included; and a frame that was not taken is still on its way or was     *)
(* lost, never both.                                                       *)
FrameAccounting ==
  \A f \in 1..frames :
    accepted[f] + (IF f \in lost THEN 1 ELSE 0) + (IF f \in atServer THEN 1 ELSE 0)
      + (IF f \in Queued THEN 1 ELSE 0) = 1

(* Even when the ingest server hangs, the channel drains while the agent   *)
(* is up.                                                                  *)
ChannelDrains == \A f \in Frames : f \in Queued ~> f \notin Queued
=============================================================================
