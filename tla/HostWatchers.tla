---------------------------- MODULE HostWatchers ----------------------------
(***************************************************************************)
(* ProcessWatcher and NetworkWatcher: each scans what the kernel shows of  *)
(* the host and reports what it has not seen before. Processes come, exec, *)
(* end, and leave their pid to others while a scan goes on.                *)
(***************************************************************************)
EXTENDS Naturals, FiniteSets

CONSTANTS
  Pids,
  Endpoints,    \* local address and port, remote address: connections share one
  MaxBirths,    \* bound of the model: processes that are born
  MaxConnects   \* bound of the model: connections that are opened

ASSUME WatchersAssumption == MaxBirths \in Nat /\ MaxConnects \in Nat

VARIABLES
  alive,      \* pid -> number of the process that has it, or 0
  suspicious, \* processes that now run a suspicious executable
  births,     \* processes so far
  connected,  \* endpoint -> number of the connection, or 0
  connects    \* connections so far
hostVars == <<alive, suspicious, births, connected, connects>>

VARIABLES
  seenPids, toScan,    \* ProcessWatcher: seen_pids, what is left of the glob
  reported,            \* processes it reported, with how often
  seenConnections,     \* NetworkWatcher: seen_connections
  alerts               \* connections it reported, by endpoint
watcherVars == <<seenPids, toScan, reported, seenConnections, alerts>>
hostWatcherVars == <<hostVars, watcherVars>>

WatchersInit ==
  /\ alive = [p \in Pids |-> 0] /\ suspicious = {} /\ births = 0
  /\ connected = [e \in Endpoints |-> 0] /\ connects = 0
  /\ seenPids = {} /\ toScan = {}
  /\ reported = [n \in 1..MaxBirths |-> 0]
  /\ seenConnections = {} /\ alerts = [e \in Endpoints |-> {}]

-----------------------------------------------------------------------------
(* The host.                                                               *)
Birth(p) ==
  /\ alive[p] = 0 /\ births < MaxBirths
  /\ births' = births + 1
  /\ alive' = [alive EXCEPT ![p] = births + 1]
  /\ UNCHANGED <<suspicious, connected, connects, watcherVars>>

(* From a scratch directory, or under a kernel thread's name.              *)
Exec(p) ==
  /\ alive[p] # 0
  /\ suspicious' = suspicious \cup {alive[p]}
  /\ UNCHANGED <<alive, births, connected, connects, watcherVars>>

Death(p) ==
  /\ alive[p] # 0
  /\ alive' = [alive EXCEPT ![p] = 0]
  /\ UNCHANGED <<suspicious, births, connected, connects, watcherVars>>

Connect(e) ==
  /\ connected[e] = 0 /\ connects < MaxConnects
  /\ connects' = connects + 1
  /\ connected' = [connected EXCEPT ![e] = connects + 1]
  /\ UNCHANGED <<alive, suspicious, births, watcherVars>>

Disconnect(e) ==
  /\ connected[e] # 0
  /\ connected' = [connected EXCEPT ![e] = 0]
  /\ UNCHANGED <<alive, suspicious, births, connects, watcherVars>>

-----------------------------------------------------------------------------
(* ProcessWatcher.run.                                                     *)
Alive == {p \in Pids : alive[p] # 0}

Glob ==
  /\ toScan = {} /\ Alive # {}
  /\ toScan' = Alive
  /\ UNCHANGED <<hostVars, seenPids, reported, seenConnections, alerts>>

(* One pid of the glob: passed over when it was seen; not marked as seen   *)
(* when it is gone or may not be read.                                     *)
Examine(p, readable) ==
  /\ p \in toScan
  /\ toScan' = toScan \ {p}
  /\ IF p \in seenPids \/ p \notin Alive \/ ~readable
     THEN UNCHANGED <<reported, seenPids>>
     ELSE /\ reported' = IF alive[p] \in suspicious
                         THEN [reported EXCEPT ![alive[p]] = @ + 1] ELSE reported
          /\ seenPids' = seenPids \cup {p}
  /\ UNCHANGED <<hostVars, seenConnections, alerts>>

KeptBug == seenPids \cap toScan
Kept == seenPids \cap Alive

(* The second glob. When it fails nothing is forgotten.                    *)
Prune ==
  /\ toScan = {}
  /\ seenPids' = Kept
  /\ UNCHANGED <<hostVars, toScan, reported, seenConnections, alerts>>

(* NetworkWatcher.scan_connections: one read of /proc/net/tcp. Each        *)
(* endpoint is marked as seen before its event is offered, and for good.   *)
NewEndpoints == {e \in Endpoints : connected[e] # 0} \ seenConnections

ScanConnections ==
  /\ NewEndpoints # {}
  /\ seenConnections' = seenConnections \cup NewEndpoints
  /\ alerts' = [e \in Endpoints |->
       IF e \in NewEndpoints THEN alerts[e] \cup {connected[e]} ELSE alerts[e]]
  /\ UNCHANGED <<hostVars, seenPids, toScan, reported>>

WatchersNext ==
  \/ \E p \in Pids : Birth(p) \/ Exec(p) \/ Death(p)
  \/ \E e \in Endpoints : Connect(e) \/ Disconnect(e)
  \/ Glob \/ Prune \/ ScanConnections
  \/ \E p \in Pids, readable \in BOOLEAN : Examine(p, readable)

WatchersSpec == WatchersInit /\ [][WatchersNext]_hostWatcherVars

-----------------------------------------------------------------------------
(***************************************************************************)
(* Properties.                                                             *)
(***************************************************************************)

(* A process is reported at most once, though its pid is forgotten between *)
(* scans, was taken from another process and is given to the next; and     *)
(* only when it was suspicious. An endpoint is reported once for all its   *)
(* connections.                                                            *)
ReportedOnce ==
  /\ \A n \in 1..MaxBirths : reported[n] <= (IF n \in suspicious THEN 1 ELSE 0)
  /\ \A e \in Endpoints : Cardinality(alerts[e]) <= 1
=============================================================================
