------------------------------- MODULE Store -------------------------------
(***************************************************************************)
(* The events database and its writers: the router thread (store_event,    *)
(* update_stored_decision), the backfill program, the maintenance thread,  *)
(* the executor's action log and the operator's feedback.                  *)
(*                                                                         *)
(* The router and backfill write through execute_with_db_retry: execute,   *)
(* then commit, on a connection that the retries may replace. SQLite is    *)
(* external: one writer lock, held from a transaction's first write to its *)
(* end; closing a connection rolls its transaction back.                   *)
(***************************************************************************)
EXTENDS Naturals, Sequences, FiniteSets

CONSTANTS
  MaxAttempts,   \* max_attempts of execute_with_db_retry
  HalfDays,      \* half-days in the retention window (30 days in the code)
  Legacy,        \* rows found by the first start
  LegacyForms,   \* what their compressed_event may be
  MaxCalls,      \* bound of the model: store_event calls
  MaxTime,       \* bound of the model: half-days that pass
  MaxFaults      \* bound of the model: faults of the database

(* compressed_event: NULL, the text of a JSON object, that text encoded    *)
(* once more as a JSON string, or encoded twice.                           *)
Forms == {"null", "object", "string", "string of string"}

ASSUME StoreAssumption ==
  /\ LegacyForms \subseteq Forms
  /\ MaxAttempts \in Nat \ {0} /\ HalfDays \in Nat \ {0} /\ HalfDays % 2 = 0
  /\ Legacy \in Nat /\ MaxCalls \in Nat /\ MaxTime \in Nat /\ MaxFaults \in Nat

Clients == {"router", "backfill"}
Nobody == "nobody"

Decisions == {"null", "live", "downgraded", "backfilled"}
Row == [call : 0..MaxCalls, decision : Decisions, form : Forms,
        fp : BOOLEAN, created : 0..MaxTime]

VARIABLES
  events,     \* the committed rows of events, by id
  lastId,     \* AUTOINCREMENT: ids are never used again
  actions,    \* the committed rows of actions
  begun,      \* actions the executor has taken and not logged yet
  logged,     \* history: every action that was ever logged
  writer,     \* who holds the writer lock
  now,        \* time, in half-days
  faults      \* faults so far
databaseVars == <<events, lastId, actions, begun, logged, writer>>

VARIABLES
  pc,         \* client: idle, execute or commit
  op,         \* client: what it writes
  attempt,    \* client: attempt in execute_with_db_retry
  conn,       \* client: the connection it keeps from call to call
  fresh,      \* client: is current_conn one that this call opened?
  copies,     \* client: times op was executed in the open transaction
  met         \* client: did this call meet a fault?
clientVars == <<pc, op, attempt, conn, fresh, copies, met>>

VARIABLES
  result,     \* of each store_event call
  stored,     \* the row the router dispatches for, 0 for none
  guardian,   \* is the guardian process up?
  bpc, todo, fetched, errors    \* backfill: stage, rows to do, rows fetched, stats
restVars == <<result, stored, guardian>>
backfillVars == <<bpc, todo, fetched, errors>>
vars == <<databaseVars, now, faults, clientVars, restVars, backfillVars>>

Ids == 1..(Legacy + MaxCalls)

Init ==
  /\ events \in [1..Legacy -> [call : {0}, decision : {"null"}, form : LegacyForms,
                               fp : {FALSE}, created : {0}]]
  /\ lastId = Legacy /\ actions = {} /\ begun = {} /\ logged = {} /\ writer = Nobody
  /\ now = 0 /\ faults = 0
  /\ pc = [c \in Clients |-> "idle"]
  /\ op = [c \in Clients |-> [kind |-> "none"]]
  /\ attempt = [c \in Clients |-> 1]
  /\ conn = [c \in Clients |-> "open"]
  /\ fresh = [c \in Clients |-> FALSE]
  /\ copies = [c \in Clients |-> 0]
  /\ met = [c \in Clients |-> FALSE]
  /\ result = <<>> /\ stored = 0 /\ guardian = FALSE
  /\ bpc = "off" /\ todo = {} /\ fetched = {} /\ errors = 0

-----------------------------------------------------------------------------
(***************************************************************************)
(* _normalize_compressed_event. A layer of string encoding is undone only  *)
(* when the text of an object or a list is directly under it.              *)
(***************************************************************************)
Normal(form) == IF form = "string" THEN "object" ELSE form

(* process_event: the text that was fetched is used again, or the event is *)
(* compressed anew; COALESCE keeps the stored text when there is none.     *)
Rewritten(form) == {IF form = "null" THEN "object" ELSE Normal(form), "object"}

(* configure_sqlite_connection: with PRAGMA journal_mode=WAL a writer waits *)
(* at its first write only. In a rollback journal it waits at the commit   *)
(* too, for the readers.                                                   *)
BusyAtBug == {"execute", "commit"}
BusyAt == {"execute"}

(***************************************************************************)
(* execute_with_db_retry.                                                  *)
(***************************************************************************)
Usable(c) == fresh[c] \/ conn[c] = "open"
LockFree(c) == writer \in {Nobody, c}
Unlocked(c) == IF writer = c THEN Nobody ELSE writer

(* The operation on the committed tables: n inserts, or an update of rows  *)
(* that may be gone (an UPDATE of no row is no error).                     *)
Applied(o, n) ==
  IF o.kind = "insert"
  THEN /\ events' = [i \in DOMAIN events \cup (lastId + 1)..(lastId + n) |->
                       IF i \in DOMAIN events THEN events[i] ELSE o.row]
       /\ lastId' = lastId + n
  ELSE /\ events' = [i \in DOMAIN events |->
                       IF i # o.id THEN events[i]
                       ELSE [events[i] EXCEPT !.decision = o.decision,
                               !.form = IF o.form = "null" THEN @ ELSE o.form]]
       /\ lastId' = lastId

(* Backfill takes the rows it fetched in the order of their ids.           *)
NextRow(r) == \A s \in todo : r.id <= s.id

(* store_event answers with the row's id or -1; backfill counts an error   *)
(* for an exception.                                                       *)
ErrorsAfterBug(ok) == errors
ErrorsAfter(ok) == IF ok THEN errors ELSE errors + 1

Settle(c, ok) ==
  IF c = "router"
  THEN /\ IF op[c].kind = "insert"
          THEN /\ result' = Append(result, IF ok THEN "stored" ELSE "refused")
               /\ stored' = IF ok /\ op[c].row.decision = "live" THEN lastId + 1 ELSE 0
          ELSE UNCHANGED <<result, stored>>
       /\ UNCHANGED <<bpc, todo, fetched, errors, guardian>>
  ELSE /\ todo' = {r \in todo : r.id # op[c].id} /\ errors' = ErrorsAfter(ok)
       /\ UNCHANGED <<bpc, fetched, restVars>>

(* The call ends. The caller keeps the connection of a success; a failure  *)
(* leaves it the one it came with, whatever became of that one.            *)
Leave(c, ok, connection) ==
  /\ pc' = [pc EXCEPT ![c] = "idle"]
  /\ op' = [op EXCEPT ![c] = [kind |-> "none"]]
  /\ attempt' = [attempt EXCEPT ![c] = 1]
  /\ fresh' = [fresh EXCEPT ![c] = FALSE]
  /\ conn' = [conn EXCEPT ![c] = connection]
  /\ met' = [met EXCEPT ![c] = FALSE]
  /\ Settle(c, ok)

Raises(c) == Leave(c, FALSE, conn[c])

(* Another attempt, on the connection at hand or on a new one.             *)
Again(c) ==
  /\ attempt' = [attempt EXCEPT ![c] = @ + 1]
  /\ pc' = [pc EXCEPT ![c] = "execute"]
  /\ UNCHANGED <<op, restVars, backfillVars>>

Fault(c) ==
  /\ faults < MaxFaults
  /\ faults' = faults + 1

Meets(c) == met' = [met EXCEPT ![c] = TRUE]

Execute(c) ==
  /\ pc[c] = "execute" /\ Usable(c) /\ LockFree(c)
  /\ op[c].valid
  /\ writer' = c
  /\ copies' = [copies EXCEPT ![c] = @ + 1]
  /\ pc' = [pc EXCEPT ![c] = "commit"]
  /\ UNCHANGED <<events, lastId, actions, begun, logged, now, faults, op, attempt, conn,
                 fresh, met, restVars, backfillVars>>

Committed(c) ==
  /\ pc[c] = "commit"
  /\ Applied(op[c], copies[c])
  /\ UNCHANGED <<actions, begun, logged, now, faults>>

(* The commit and the return that follows it; KilledAfterCommit is the     *)
(* commit without its return.                                              *)
Commit(c) ==
  /\ Committed(c)
  /\ copies' = [copies EXCEPT ![c] = 0]
  /\ writer' = Nobody
  /\ Leave(c, TRUE, "open")

(* OperationalError "locked" or "busy": the same connection again. A lock  *)
(* of another program (a dashboard, sqlite3) is a fault.                   *)
BusyRetryForeverBug(c) == Again(c) /\ Meets(c) /\ UNCHANGED <<conn, fresh>>

BusyRetry(c) ==
  IF attempt[c] < MaxAttempts
  THEN Again(c) /\ Meets(c) /\ UNCHANGED <<conn, fresh>>
  ELSE Raises(c)

Busy(c) ==
  /\ pc[c] \in BusyAt /\ Usable(c)
  /\ \/ ~LockFree(c) /\ UNCHANGED faults
     \/ LockFree(c) /\ Fault(c)
  /\ BusyRetry(c)
  /\ UNCHANGED <<databaseVars, now, copies>>

(* Any other failure of the commit (disk full, I/O) rolls the transaction  *)
(* back in SQLite and is raised at once.                                   *)
CommitFails(c) ==
  /\ pc[c] = "commit" /\ Fault(c)
  /\ writer' = Nobody
  /\ copies' = [copies EXCEPT ![c] = 0]
  /\ Raises(c)
  /\ UNCHANGED <<events, lastId, actions, begun, logged, now>>

(* DatabaseError: the connection is closed, or the row is refused (no      *)
(* timestamp). Closed and opened again, it is tried once more.             *)
NotReopenedBug(c) == UNCHANGED <<conn, fresh, writer>>

Reopen(c) ==
  /\ conn' = IF fresh[c] THEN conn ELSE [conn EXCEPT ![c] = "closed"]
  /\ fresh' = [fresh EXCEPT ![c] = TRUE]
  /\ writer' = Unlocked(c)

Rejected(c) ==
  /\ pc[c] = "execute"
  /\ ~Usable(c) \/ (LockFree(c) /\ ~op[c].valid)
  /\ attempt[c] < MaxAttempts
  /\ Reopen(c) /\ Again(c)
  /\ UNCHANGED <<events, lastId, actions, begun, logged, now, faults, copies, met>>

(* The last attempt raises. A connection this call opened goes with it; on *)
(* the caller's own the statement has failed but not its transaction,      *)
(* which keeps the writer lock until that connection is used again.        *)
RejectedForGood(c) ==
  /\ pc[c] = "execute"
  /\ ~Usable(c) \/ (LockFree(c) /\ ~op[c].valid)
  /\ attempt[c] = MaxAttempts
  /\ writer' = IF Usable(c) /\ ~fresh[c] THEN c ELSE Unlocked(c)
  /\ Raises(c)
  /\ UNCHANGED <<events, lastId, actions, begun, logged, now, faults, copies>>

(* The new connection cannot be opened or configured: raised from inside   *)
(* the handler.                                                            *)
ReopenFails(c) ==
  /\ pc[c] = "execute"
  /\ ~Usable(c) \/ (LockFree(c) /\ ~op[c].valid)
  /\ attempt[c] < MaxAttempts
  /\ Fault(c)
  /\ writer' = Unlocked(c)
  /\ Leave(c, FALSE, IF fresh[c] THEN conn[c] ELSE "closed")
  /\ UNCHANGED <<events, lastId, actions, begun, logged, now, copies>>

(* Neither busy nor worth a retry: no such table, corrupt, disk full.      *)
Broken(c) ==
  /\ pc[c] = "execute" /\ Usable(c) /\ Fault(c)
  /\ Raises(c)
  /\ UNCHANGED <<databaseVars, now, copies>>

WithRetry(c) ==
  \/ Execute(c) \/ Commit(c) \/ Busy(c) \/ CommitFails(c)
  \/ Rejected(c) \/ RejectedForGood(c) \/ ReopenFails(c) \/ Broken(c)

Enter(c, operation) ==
  /\ pc[c] = "idle"
  /\ pc' = [pc EXCEPT ![c] = "execute"]
  /\ op' = [op EXCEPT ![c] = operation]
  /\ UNCHANGED <<databaseVars, now, faults, attempt, conn, fresh, copies, met>>

-----------------------------------------------------------------------------
(***************************************************************************)
(* The guardian.                                                           *)
(***************************************************************************)

(* init_database and setup_db. What an older version wrote is normalised.  *)
Start ==
  /\ ~guardian /\ writer = Nobody
  /\ guardian' = TRUE /\ stored' = 0
  /\ conn' = [conn EXCEPT !["router"] = "open"]
  /\ events' = [i \in DOMAIN events |->
                  [events[i] EXCEPT !.form = Normal(@)]]
  /\ UNCHANGED <<lastId, actions, begun, logged, writer, now, faults, pc, op, attempt, fresh,
                 copies, met, result, backfillVars>>

(* store_event: of an event that is not routed, with no decision; or of a  *)
(* routed one, compressed and decided. An event without a timestamp passes *)
(* validate_event_envelope and is refused by the table.                    *)
StoreEvent ==
  /\ guardian /\ Len(result) < MaxCalls
  /\ \E routed, valid \in BOOLEAN :
       Enter("router",
         [kind |-> "insert", valid |-> valid,
          row |-> [call |-> Len(result) + 1,
                   decision |-> IF routed THEN "live" ELSE "null",
                   form |-> IF routed THEN "object" ELSE "null",
                   fp |-> FALSE, created |-> now]])
  /\ UNCHANGED <<restVars, backfillVars>>

(* update_stored_decision, when the executor's integrity check failed.     *)
UpdateStoredDecision ==
  /\ guardian /\ stored > 0
  /\ Enter("router", [kind |-> "update", valid |-> TRUE, id |-> stored,
                      decision |-> "downgraded", form |-> "null"])
  /\ stored' = 0
  /\ UNCHANGED <<result, guardian, backfillVars>>

(* The guardian is killed. A call of store_event that was under way answers*)
(* nobody.                                                                 *)
Dies ==
  /\ guardian
  /\ guardian' = FALSE
  /\ writer' = Unlocked("router")
  /\ pc' = [pc EXCEPT !["router"] = "idle"]
  /\ op' = [op EXCEPT !["router"] = [kind |-> "none"]]
  /\ attempt' = [attempt EXCEPT !["router"] = 1]
  /\ fresh' = [fresh EXCEPT !["router"] = FALSE]
  /\ copies' = [copies EXCEPT !["router"] = 0]
  /\ met' = [met EXCEPT !["router"] = FALSE]
  /\ result' = IF op["router"].kind = "insert" THEN Append(result, "crashed") ELSE result
  /\ UNCHANGED <<actions, begun, logged, now, faults, conn, stored, backfillVars>>

(* What it had not committed is rolled back...                             *)
Crash == Dies /\ UNCHANGED <<events, lastId>>

(* ... what it had is there, though the call has not returned.             *)
KilledAfterCommit == Committed("router") /\ Dies

-----------------------------------------------------------------------------
(***************************************************************************)
(* WALCheckpointThread: one transaction, or none when a writer is too      *)
(* slow. created_at is written by SQLite, "2024-05-01 10:00:00", as the    *)
(* limit is; executed_at by the executor, "2024-05-01T10:00:00Z". Compared *)
(* as text, the second is less only when its day is.                       *)
(***************************************************************************)
Day(t) == t \div 2

EventExpired(e) == e.created + HalfDays < now

ActionExpiredSameDayBug(a) == Day(a.executed) + Day(HalfDays) <= Day(now)
ActionExpired(a) == Day(a.executed) + Day(HalfDays) < Day(now)

Maintain ==
  /\ guardian /\ writer = Nobody
  /\ LET kept == {i \in DOMAIN events : ~EventExpired(events[i])} IN
       events' = [i \in kept |-> events[i]]
  /\ actions' = {a \in actions : ~ActionExpired(a)}
  /\ UNCHANGED <<lastId, begun, logged, writer, now, faults, clientVars, restVars, backfillVars>>

(* The router posts the verdict. The executor answers before it acts: the  *)
(* router goes on, and may die, while the action is taken.                 *)
PostVerdict ==
  /\ guardian /\ pc["router"] = "idle" /\ stored > 0
  /\ begun' = begun \cup {[event |-> stored, executed |-> now]}
  /\ stored' = 0
  /\ UNCHANGED <<events, lastId, actions, logged, writer, now, faults, clientVars, result,
                 guardian, backfillVars>>

(* logAction of the executor, whenever the action is done. When the        *)
(* database is locked the entry is lost, as if the action never ended.     *)
LogAction ==
  /\ writer = Nobody
  /\ \E a \in begun :
       /\ actions' = actions \cup {a} /\ logged' = logged \cup {a}
       /\ begun' = begun \ {a}
  /\ UNCHANGED <<events, lastId, writer, now, faults, clientVars, restVars, backfillVars>>

(* mark_false_positive, of an operator who sees the row.                   *)
MarkFalsePositive ==
  /\ writer = Nobody
  /\ \E i \in DOMAIN events :
       /\ ~events[i].fp
       /\ events' = [events EXCEPT ![i].fp = TRUE]
  /\ UNCHANGED <<lastId, actions, begun, logged, writer, now, faults, clientVars, restVars,
                 backfillVars>>

-----------------------------------------------------------------------------
(***************************************************************************)
(* run_backfill: the rows are fetched once.                                *)
(***************************************************************************)
PendingBug(i) == ~events[i].fp
Pending(i) == events[i].decision = "null" /\ ~events[i].fp

BackfillStarts ==
  /\ bpc = "off"
  /\ LET rows == {i \in DOMAIN events : Pending(i)} IN
       /\ rows # {}
       /\ todo' = {[id |-> i, form |-> events[i].form] : i \in rows}
       /\ fetched' = rows
  /\ bpc' = "run" /\ errors' = 0
  /\ conn' = [conn EXCEPT !["backfill"] = "open"]
  /\ UNCHANGED <<databaseVars, now, faults, pc, op, attempt, fresh, copies, met, restVars>>

BackfillRow ==
  /\ bpc = "run" /\ todo # {}
  /\ \E r \in todo : NextRow(r) /\ \E form \in Rewritten(r.form) :
       Enter("backfill", [kind |-> "update", valid |-> TRUE, id |-> r.id,
                          decision |-> "backfilled", form |-> form])
  /\ UNCHANGED <<restVars, backfillVars>>

(* Reasoning raised.                                                       *)
BackfillRowFails ==
  /\ bpc = "run" /\ todo # {} /\ pc["backfill"] = "idle"
  /\ \E r \in todo : NextRow(r) /\ todo' = todo \ {r}
  /\ errors' = ErrorsAfter(FALSE)
  /\ UNCHANGED <<databaseVars, now, faults, clientVars, restVars, bpc, fetched>>

(* The connection is closed, and the statistics are returned.              *)
BackfillEnds ==
  /\ bpc = "run" /\ todo = {} /\ pc["backfill"] = "idle"
  /\ bpc' = "off" /\ fetched' = {} /\ errors' = 0
  /\ writer' = Unlocked("backfill")
  /\ UNCHANGED <<events, lastId, actions, begun, logged, now, faults, clientVars, restVars, todo>>

Tick ==
  /\ now < MaxTime
  /\ now' = now + 1
  /\ UNCHANGED <<databaseVars, faults, clientVars, restVars, backfillVars>>

Next ==
  \/ Start \/ StoreEvent \/ UpdateStoredDecision \/ Crash \/ KilledAfterCommit
  \/ Maintain \/ PostVerdict \/ LogAction \/ MarkFalsePositive \/ Tick
  \/ BackfillStarts \/ BackfillRow \/ BackfillRowFails \/ BackfillEnds
  \/ \E c \in Clients : WithRetry(c)

Spec == Init /\ [][Next]_vars

-----------------------------------------------------------------------------
(***************************************************************************)
(* Properties.                                                             *)
(***************************************************************************)

Ops == [kind : {"none"}]
       \cup [kind : {"insert"}, valid : BOOLEAN, row : Row]
       \cup [kind : {"update"}, valid : {TRUE}, id : Ids, decision : Decisions, form : Forms]

(* Every variable has its type; ids in use were given out.                 *)
TypeOK ==
  /\ lastId \in Nat /\ DOMAIN events \subseteq 1..lastId
  /\ \A i \in DOMAIN events : events[i] \in Row
  /\ actions \subseteq logged
  /\ \A a \in begun \cup logged : a.event \in Nat /\ a.executed \in Nat
  /\ writer \in Clients \cup {Nobody}
  /\ now \in Nat /\ faults \in 0..MaxFaults
  /\ pc \in [Clients -> {"idle", "execute", "commit"}]
  /\ op \in [Clients -> Ops]
  /\ \A c \in Clients : pc[c] = "idle" <=> op[c].kind = "none"
  /\ attempt \in [Clients -> 1..MaxAttempts]
  /\ conn \in [Clients -> {"open", "closed"}]
  /\ fresh \in [Clients -> BOOLEAN] /\ met \in [Clients -> BOOLEAN]
  /\ copies \in [Clients -> Nat]
  /\ result \in Seq({"stored", "refused", "crashed"})
  /\ stored \in Nat /\ guardian \in BOOLEAN
  /\ bpc \in {"off", "run"} /\ errors \in Nat
  /\ fetched \subseteq Nat

(* A store_event call whose answer is an id has put its event in the table *)
(* once, whatever was retried; a call that answers -1, or that has not come*)
(* to its commit, not at all. A call that the guardian died in leaves a row*)
(* or none (nobody was told), and never two. An event is gone only when it *)
(* is old enough.                                                          *)
OneRowPerStore ==
  \A k \in 1..MaxCalls :
    LET rows == {i \in DOMAIN events : events[i].call = k} IN
      /\ \A i, j \in rows : i = j
      /\ rows # {} => k \in DOMAIN result /\ result[k] # "refused"
      /\ k \in DOMAIN result /\ result[k] = "stored" /\ now <= HalfDays => rows # {}

(* A connection that an earlier call lost costs no event: store_event says *)
(* -1 only for a row the table cannot take or when the call met a fault of *)
(* its own.                                                                *)
RefusalHasACause ==
  [][Len(result') > Len(result) /\ result'[Len(result')] = "refused"
       => met["router"] \/ faults' # faults \/ ~op["router"].valid]_vars

(* Backfill updates the rows it fetched long ago without looking again; it *)
(* still never writes over a decision the guardian took.                   *)
BackfillKeepsDecisions ==
  [][\A i \in DOMAIN events \cap DOMAIN events' :
       events[i].decision # events'[i].decision /\ events'[i].decision = "backfilled"
         => events[i].decision = "null"]_vars

(* A backfill that reports no error has left no row it fetched undecided   *)
(* or in a form that init_database would change, unless retention took it. *)
CleanBackfillLeavesNothing ==
  bpc = "run" /\ todo = {} /\ errors = 0 =>
    \A i \in fetched \cap DOMAIN events :
      events[i].decision # "null" /\ events[i].form = Normal(events[i].form)

(* Retention compares two formats of time, table by table: while an event  *)
(* is kept, so is every action that was logged for it.                     *)
RetainedEventsKeepActions ==
  \A a \in logged : a.event \in DOMAIN events => a \in actions
=============================================================================
