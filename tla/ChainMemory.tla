---------------------------- MODULE ChainMemory ----------------------------
(***************************************************************************)
(* heimdall/memory.py: the rolling buffers of events by address and by     *)
(* process. A table is the sequence of its keys in the order in which the  *)
(* dictionaries got them, each with its deque and the time it was last     *)
(* seen. Every function of the module runs under one lock.                 *)
(***************************************************************************)
EXTENDS Naturals, SequencesExt, Selections

CONSTANTS
  BufferSize,      \* length of one key's chain
  MaxIps, MaxProcesses,
  Ttl              \* TTL_SECONDS, in ticks

ASSUME MemoryAssumption ==
  /\ BufferSize \in Nat \ {0} /\ MaxIps \in Nat \ {0} /\ MaxProcesses \in Nat \ {0}
  /\ Ttl \in Nat

(* compressed.get("ip"), or process, is missing or empty.                  *)
NoKey == <<"none">>

EmptyMemory == [ips |-> <<>>, processes |-> <<>>, all |-> <<>>]

LastOnes(s, n) == IF Len(s) > n THEN SubSeq(s, Len(s) - n + 1, Len(s)) ELSE s

Keys(table) == {table[i].key : i \in DOMAIN table}
Entry(table, key) == table[CHOOSE i \in DOMAIN table : table[i].key = key]

(* _evict_stale: a clock that was set back makes nothing stale.            *)
Fresh(table, now) == Picked(table, {i \in DOMAIN table : now <= table[i].seen + Ttl})

(* deque.append with maxlen.                                               *)
AppendedBug(chain, e) == IF Len(chain) = BufferSize THEN chain ELSE Append(chain, e)
Appended(chain, e) == LastOnes(Append(chain, e), BufferSize)

Recorded(table, key, e, now) ==
  IF key \in Keys(table)
  THEN [i \in DOMAIN table |->
         IF table[i].key = key
         THEN [table[i] EXCEPT !.chain = Appended(@, e), !.seen = now] ELSE table[i]]
  ELSE Append(table, [key |-> key, chain |-> Appended(<<>>, e), seen |-> now])

(* One key too many is kept.                                               *)
CappedTableBug(table, most) == IF Len(table) <= most + 1 THEN table ELSE Tail(table)

(* _cap_buffers: the key seen longest ago goes, of several the first.      *)
CappedTable(table, most) ==
  IF Len(table) <= most THEN table
  ELSE RemoveAt(table, CHOOSE i \in DOMAIN table : \A j \in DOMAIN table :
         table[i].seen < table[j].seen \/ (table[i].seen = table[j].seen /\ i <= j))

(* update_buffer: the memory afterwards. An event that has an address is   *)
(* not recorded under its process.                                         *)
UpdateBuffer(memory, e, ip, process, now) ==
  LET ips == Fresh(memory.ips, now)
      processes == Fresh(memory.processes, now)
  IN [ips |-> IF ip # NoKey THEN CappedTable(Recorded(ips, ip, e, now), MaxIps)
              ELSE ips,
      processes |-> IF ip = NoKey /\ process # NoKey
                    THEN CappedTable(Recorded(processes, process, e, now), MaxProcesses)
                    ELSE processes,
      all |-> LastOnes(Append(memory.all, e), 5 * BufferSize)]

(* What it then returns. A key that the capping has taken out at once, as  *)
(* it may when the clock was set back, raises KeyError.                    *)
KeyIsLost(memory, ip, process) ==
  IF ip # NoKey THEN ip \notin Keys(memory.ips)
  ELSE process # NoKey /\ process \notin Keys(memory.processes)
Chain(memory, ip, process) ==
  IF ip # NoKey THEN Entry(memory.ips, ip).chain
  ELSE IF process # NoKey THEN Entry(memory.processes, process).chain
  ELSE LastOnes(memory.all, BufferSize)
=============================================================================
