----------------------------- MODULE MCSources -----------------------------
(***************************************************************************)
(* The sources of events on small instances. They share nothing but the    *)
(* queue they offer to, so that each behaviour has one of them at work.    *)
(***************************************************************************)
EXTENDS LogTail, HostWatchers, Agent

CONSTANTS p1, p2, e1, w1, w2

MCPids == {p1, p2}
MCEndpoints == {e1}
MCWorkers == {w1, w2}

VARIABLE source   \* the one that is at work

sourcesVars == <<source, logTailVars, hostWatcherVars, agentVars>>

Init ==
  /\ source \in {"log", "host", "agent"}
  /\ TailInit /\ WatchersInit /\ AgentInit
  /\ source # "log" => format = "auditd"

Next ==
  \/ source = "log" /\ TailNext /\ UNCHANGED <<source, hostWatcherVars, agentVars>>
  \/ source = "host" /\ WatchersNext /\ UNCHANGED <<source, logTailVars, agentVars>>
  \/ source = "agent" /\ AgentNext /\ UNCHANGED <<source, logTailVars, hostWatcherVars>>

(* A source that is not at work has nothing to do: fairness says nothing   *)
(* of it.                                                                  *)
Spec == Init /\ [][Next]_sourcesVars /\ TailFairness /\ AgentFairness
=============================================================================
