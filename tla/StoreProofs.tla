---------------------------- MODULE StoreProofs ----------------------------
(***************************************************************************)
(* Proofs about the events database: for any number of attempts, rows,     *)
(* calls and faults, and any even number of half-days of retention.        *)
(***************************************************************************)
EXTENDS Store, TLAPS

(***************************************************************************)
(* The inductive invariant.                                                *)
(***************************************************************************)
RowOK(e) ==
  /\ DOMAIN e = {"call", "decision", "form", "fp", "created"}
  /\ e.created \in 0..now

TablesOK ==
  /\ lastId \in Nat /\ now \in Nat
  /\ DOMAIN events \subseteq 1..lastId
  /\ \A i \in DOMAIN events : RowOK(events[i])

(* An action is taken, and then logged, for a row after that row was       *)
(* created.                                                                *)
ActionsOK ==
  /\ \A a \in begun \cup logged :
       /\ a.event \in Nat /\ a.event <= lastId
       /\ a.executed \in Nat
       /\ a.event \in DOMAIN events => events[a.event].created <= a.executed
  /\ \A a \in logged : a.event \in DOMAIN events => a \in actions

(* The answers of store_event and the rows: an answer "stored" has one     *)
(* row, a refusal none; a call the guardian died in may have one.          *)
CallsOK ==
  /\ result \in Seq({"stored", "refused", "crashed"})
  /\ \A i \in DOMAIN events :
       /\ events[i].call \in 0..Len(result)
       /\ events[i].call # 0 => result[events[i].call] \in {"stored", "crashed"}
  /\ \A i, j \in DOMAIN events :
       events[i].call = events[j].call /\ events[i].call # 0 => i = j
  /\ now <= HalfDays =>
       \A k \in 1..Len(result) :
         result[k] = "stored" => \E i \in DOMAIN events : events[i].call = k

(* What the guardian decided, and what it did not; a row that is gone      *)
(* counts as both, for its id is never used again.                         *)
Live(i) == i <= lastId /\ (i \in DOMAIN events => events[i].decision \in {"live", "downgraded"})
Open(i) == i <= lastId /\ (i \in DOMAIN events => events[i].decision \in {"null", "backfilled"})

RouterOp(o) ==
  \/ o.kind = "none"
  \/ /\ o.kind = "insert" /\ RowOK(o.row)
     /\ o.row.call = Len(result) + 1
     /\ o.row.decision \in {"null", "live"}
  \/ /\ o.kind = "update" /\ o.decision = "downgraded"
     /\ o.id \in Nat /\ Live(o.id)

BackfillOp(o) ==
  \/ o.kind = "none"
  \/ /\ o.kind = "update" /\ o.decision = "backfilled"
     /\ o.id \in Nat /\ Open(o.id)

(* One execution is in the open transaction when its commit is tried: a    *)
(* busy database is met before, never at the commit.                       *)
CountersOK ==
  /\ DOMAIN pc = Clients /\ DOMAIN op = Clients /\ DOMAIN copies = Clients
  /\ \A c \in Clients : /\ copies[c] = (IF pc[c] = "commit" THEN 1 ELSE 0)
                        /\ pc[c] # "idle" => op[c].kind # "none"

WritersOK ==
  /\ CountersOK
  /\ RouterOp(op["router"]) /\ BackfillOp(op["backfill"])
  /\ stored \in Nat /\ Live(stored)
  /\ \A r \in todo : r.id \in Nat /\ Open(r.id)

StoreInv == TablesOK /\ ActionsOK /\ CallsOK /\ WritersOK

-----------------------------------------------------------------------------
(***************************************************************************)
(* Retention.                                                              *)
(***************************************************************************)

(* While an event is kept, an action no older than it is: the comparison   *)
(* by days errs on the side of keeping, for the window is of whole days.   *)
LEMMA ActionOutlivesEvent ==
  ASSUME NEW e, NEW a, e.created \in Nat, a.executed \in Nat, now \in Nat,
         e.created <= a.executed, ~EventExpired(e)
  PROVE  ~ActionExpired(a)
<1>1. HalfDays \in Nat /\ HalfDays % 2 = 0
  BY StoreAssumption
<1>2. a.executed + HalfDays >= now
  BY <1>1 DEF EventExpired
<1>3. /\ Day(now) \in Nat /\ 2 * Day(now) <= now
      /\ Day(a.executed) \in Nat /\ a.executed <= 2 * Day(a.executed) + 1
      /\ Day(HalfDays) \in Nat /\ HalfDays = 2 * Day(HalfDays)
  BY <1>1 DEF Day
<1>4. ASSUME NEW x \in Nat, NEW dx \in Nat, NEW dh \in Nat, NEW n \in Nat, NEW dn \in Nat,
             x <= 2 * dx + 1, x + 2 * dh >= n, 2 * dn <= n
      PROVE  ~(dx + dh < dn)
  BY <1>4
<1>5. ~(Day(a.executed) + Day(HalfDays) < Day(now))
  BY <1>2, <1>3, <1>4
<1> QED
  BY <1>5 DEF ActionExpired

(***************************************************************************)
(* A step that leaves what the invariant reads of each row: it may change  *)
(* forms and marks, and drop rows when time has come.                      *)
(***************************************************************************)
RowsStay ==
  /\ lastId' = lastId
  /\ now' \in Nat /\ now <= now'
  /\ DOMAIN events' \subseteq DOMAIN events
  /\ \A i \in DOMAIN events' :
       /\ DOMAIN events'[i] = DOMAIN events[i]
       /\ events'[i].call = events[i].call
       /\ events'[i].created = events[i].created
  /\ now' <= HalfDays => DOMAIN events' = DOMAIN events

RowsKept ==
  /\ RowsStay
  /\ \A i \in DOMAIN events' : events'[i].decision = events[i].decision

LEMMA TablesKept ==
  ASSUME TablesOK, RowsStay
  PROVE  TablesOK'
BY DEF TablesOK, RowsStay, RowOK

LEMMA ActionsKept ==
  ASSUME TablesOK, ActionsOK, RowsStay, actions \subseteq actions',
         logged' = logged, begun' = begun
  PROVE  ActionsOK'
BY DEF ActionsOK, RowsStay

LEMMA CallsKept ==
  ASSUME TablesOK, CallsOK, RowsStay,
         \/ result' = result
         \/ \E r \in {"refused", "crashed"} : result' = Append(result, r)
  PROVE  CallsOK'
<1>1. HalfDays \in Nat /\ now \in Nat
  BY StoreAssumption DEF TablesOK
<1>2. CASE result' = result
  BY <1>1, <1>2 DEF CallsOK, RowsStay
<1>3. ASSUME NEW r \in {"refused", "crashed"}, result' = Append(result, r)
      PROVE  CallsOK'
  <2>1. /\ result' \in Seq({"stored", "refused", "crashed"})
        /\ Len(result') = Len(result) + 1 /\ Len(result) \in Nat
        /\ \A k \in 1..Len(result) : result'[k] = result[k]
        /\ result'[Len(result')] # "stored"
    BY <1>3 DEF CallsOK
  <2>2. \A i \in DOMAIN events' :
          /\ events'[i].call \in 0..Len(result')
          /\ events'[i].call # 0 => result'[events'[i].call] \in {"stored", "crashed"}
    BY <2>1 DEF CallsOK, RowsStay
  <2>3. \A i, j \in DOMAIN events' :
          events'[i].call = events'[j].call /\ events'[i].call # 0 => i = j
    BY DEF CallsOK, RowsStay
  <2>4. ASSUME now' <= HalfDays, NEW k \in 1..Len(result'), result'[k] = "stored"
        PROVE  \E i \in DOMAIN events' : events'[i].call = k
    BY <1>1, <2>1, <2>4 DEF CallsOK, RowsStay
  <2> QED BY <2>1, <2>2, <2>3, <2>4 DEF CallsOK
<1> QED BY <1>2, <1>3

(* A call may be dropped, a row of backfill given up, the router's row     *)
(* forgotten.                                                              *)
WritersKept ==
  /\ op'["router"] # op["router"] => op'["router"].kind = "none"
  /\ op'["backfill"] # op["backfill"] => op'["backfill"].kind = "none"
  /\ result' # result => op'["router"].kind = "none"
  /\ stored' \in {stored, 0}
  /\ todo' \subseteq todo

LEMMA NoRowIsLive ==
  ASSUME TablesOK
  PROVE  Live(0)
BY DEF TablesOK, Live

LEMMA CallersKept ==
  ASSUME TablesOK, WritersOK, RowsKept, WritersKept, CountersOK'
  PROVE  WritersOK'
<1>1. TablesOK'
  BY TablesKept DEF RowsKept
<1>2. RouterOp(op["router"])'
  <2>1. CASE op'["router"].kind = "none"
    BY <2>1 DEF RouterOp
  <2>2. CASE op'["router"] = op["router"] /\ result' = result
    BY <2>2 DEF RouterOp, WritersOK, RowOK, RowsKept, RowsStay, Live, TablesOK
  <2> QED BY <2>1, <2>2 DEF WritersKept
<1>3. BackfillOp(op["backfill"])'
  BY DEF WritersKept, WritersOK, BackfillOp, Open, RowsKept, RowsStay
<1>4. stored' \in Nat /\ Live(stored)'
  BY <1>1, NoRowIsLive DEF WritersKept, WritersOK, Live, RowsKept, RowsStay, TablesOK
<1>5. \A r \in todo' : r.id \in Nat /\ Open(r.id)'
  BY DEF WritersKept, WritersOK, Open, RowsKept, RowsStay
<1> QED BY <1>2, <1>3, <1>4, <1>5 DEF WritersOK, CountersOK

(***************************************************************************)
(* The invariant, for steps of that kind.                                  *)
(***************************************************************************)
LEMMA KeepingStep ==
  ASSUME StoreInv, RowsKept, WritersKept, CountersOK',
         \/ result' = result
         \/ \E r \in {"refused", "crashed"} : result' = Append(result, r),
         actions' = actions, logged' = logged, begun' = begun
  PROVE  StoreInv'
BY TablesKept, ActionsKept, CallsKept, CallersKept DEF StoreInv, RowsKept

LEMMA SameRows ==
  ASSUME TablesOK, events' = events, lastId' = lastId, now' \in {now, now + 1}
  PROVE  RowsKept
BY DEF TablesOK, RowsKept, RowsStay

(* An attempt that is followed by another.                                 *)
LEMMA AttemptStep ==
  ASSUME NEW c \in Clients, StoreInv,
         \/ Execute(c)
         \/ Busy(c) /\ attempt[c] < MaxAttempts
         \/ Rejected(c)
  PROVE  StoreInv' /\ RowsKept
<1>1. TablesOK /\ WritersOK
  BY DEF StoreInv
<1>2. /\ events' = events /\ lastId' = lastId /\ now' = now
      /\ actions' = actions /\ logged' = logged /\ begun' = begun
      /\ op' = op /\ result' = result /\ stored' = stored /\ todo' = todo
  BY DEF Execute, Busy, BusyRetry, Rejected, Again, Meets, Reopen,
         databaseVars, restVars, backfillVars
<1>3. \/ pc' = [pc EXCEPT ![c] = "commit"] /\ copies' = [copies EXCEPT ![c] = @ + 1]
      \/ pc' = [pc EXCEPT ![c] = "execute"] /\ copies' = copies
  BY DEF Execute, Busy, BusyRetry, Rejected, Again
<1>4. pc[c] = "execute"
  BY DEF Execute, Busy, BusyAt, Rejected
<1>5. CountersOK'
  BY <1>1, <1>2, <1>3, <1>4 DEF WritersOK, CountersOK
<1>6. WritersKept
  BY <1>2 DEF WritersKept
<1>7. RowsKept
  BY <1>1, <1>2, SameRows
<1> QED BY <1>2, <1>5, <1>6, <1>7, KeepingStep

(* A call that raises.                                                     *)
LEMMA RaisingStep ==
  ASSUME NEW c \in Clients, StoreInv,
         \/ Busy(c) /\ ~(attempt[c] < MaxAttempts)
         \/ CommitFails(c) \/ RejectedForGood(c) \/ ReopenFails(c) \/ Broken(c)
  PROVE  StoreInv' /\ RowsKept
<1>1. TablesOK /\ WritersOK
  BY DEF StoreInv
<1>2. PICK connection \in {conn[c], "closed"} : Leave(c, FALSE, connection)
  BY DEF Busy, BusyRetry, CommitFails, RejectedForGood, ReopenFails, Broken, Raises
<1>3. /\ events' = events /\ lastId' = lastId /\ now' = now
      /\ actions' = actions /\ logged' = logged /\ begun' = begun
  BY DEF Busy, CommitFails, RejectedForGood, ReopenFails, Broken, databaseVars
<1>4. \/ copies' = [copies EXCEPT ![c] = 0]
      \/ pc[c] = "execute" /\ copies' = copies
  BY DEF Busy, BusyAt, CommitFails, RejectedForGood, ReopenFails, Broken
<1>5. /\ pc' = [pc EXCEPT ![c] = "idle"]
      /\ op' = [op EXCEPT ![c] = [kind |-> "none"]]
      /\ Settle(c, FALSE)
  BY <1>2 DEF Leave
<1>6. CountersOK'
  BY <1>1, <1>4, <1>5 DEF WritersOK, CountersOK
<1>7. /\ op'[c].kind = "none"
      /\ \A d \in Clients \ {c} : op'[d] = op[d]
  BY <1>1, <1>5 DEF WritersOK, CountersOK
<1>8. /\ c = "backfill" => result' = result
      /\ \/ result' = result
         \/ \E r \in {"refused", "crashed"} : result' = Append(result, r)
      /\ stored' \in {stored, 0} /\ todo' \subseteq todo
  BY <1>5 DEF Settle, restVars
<1>9. WritersKept
  BY <1>7, <1>8 DEF WritersKept, Clients
<1>10. RowsKept
  BY <1>1, <1>3, SameRows
<1> QED BY <1>3, <1>6, <1>8, <1>9, <1>10, KeepingStep

(* A commit of an update: one row has another decision, if it still is     *)
(* there. It is a row that the updates waiting elsewhere are not about.    *)
LEMMA UpdateStep ==
  ASSUME NEW c \in Clients, StoreInv, op[c].kind = "update",
         Commit(c) \/ (c = "router" /\ KilledAfterCommit)
  PROVE  StoreInv'
<1>1. TablesOK /\ ActionsOK /\ CallsOK /\ WritersOK
  BY DEF StoreInv
<1>2. /\ events' = [i \in DOMAIN events |->
                     IF i # op[c].id THEN events[i]
                     ELSE [events[i] EXCEPT !.decision = op[c].decision,
                             !.form = IF op[c].form = "null" THEN @ ELSE op[c].form]]
      /\ lastId' = lastId /\ now' = now
      /\ actions' = actions /\ logged' = logged /\ begun' = begun
  BY DEF Commit, KilledAfterCommit, Committed, Applied
<1>3. RowsStay
  <2>1. \A i \in DOMAIN events :
          /\ DOMAIN events'[i] = DOMAIN events[i]
          /\ events'[i].call = events[i].call
          /\ events'[i].created = events[i].created
    <3> TAKE i \in DOMAIN events
    <3>1. DOMAIN events[i] = {"call", "decision", "form", "fp", "created"}
      BY <1>1 DEF TablesOK, RowOK
    <3>2. CASE i # op[c].id
      BY <1>2, <3>2
    <3>3. CASE i = op[c].id
      <4>1. PICK f : events'[i] = [events[i] EXCEPT !.decision = op[c].decision, !.form = f]
        BY <1>2, <3>3
      <4>2. /\ events'[i].call = events[i].call
            /\ events'[i].created = events[i].created
        BY <3>1, <4>1
      <4>3. DOMAIN events'[i] = DOMAIN events[i]
        BY <4>1
      <4> QED BY <4>2, <4>3
    <3> QED BY <3>2, <3>3
  <2>2. DOMAIN events' = DOMAIN events /\ lastId' = lastId
    BY <1>2
  <2>3. now' = now /\ now \in Nat
    BY <1>1, <1>2 DEF TablesOK
  <2> QED BY <2>1, <2>2, <2>3 DEF RowsStay
<1>4. \A i \in DOMAIN events :
        events'[i].decision = IF i = op[c].id THEN op[c].decision ELSE events[i].decision
  BY <1>1, <1>2 DEF TablesOK, RowOK
<1>5. /\ pc' = [pc EXCEPT ![c] = "idle"]
      /\ op' = [op EXCEPT ![c] = [kind |-> "none"]]
      /\ copies' = [copies EXCEPT ![c] = 0]
      /\ result' = result /\ stored' = stored /\ todo' \subseteq todo
  BY DEF Commit, KilledAfterCommit, Dies, Leave, Settle, restVars, backfillVars
<1>6. CountersOK'
  BY <1>1, <1>5 DEF WritersOK, CountersOK
<1>7. /\ op'[c].kind = "none"
      /\ \A d \in Clients \ {c} : op'[d] = op[d]
  BY <1>1, <1>5 DEF WritersOK, CountersOK
<1>8. \A i : Live(i) => \/ Live(i)'
                        \/ c = "backfill" /\ i = op[c].id /\ i \in DOMAIN events
  BY <1>1, <1>2, <1>4 DEF Live, WritersOK, RouterOp, BackfillOp, Clients
<1>9. \A i : Open(i) => \/ Open(i)'
                        \/ c = "router" /\ i = op[c].id /\ i \in DOMAIN events
  BY <1>1, <1>2, <1>4 DEF Open, WritersOK, RouterOp, BackfillOp, Clients
<1>10. \A i \in DOMAIN events : ~(Live(i) /\ Open(i))
  BY DEF Live, Open
<1>11. /\ c = "backfill" => Open(op[c].id)
       /\ c = "router" => Live(op[c].id)
  BY <1>1 DEF WritersOK, RouterOp, BackfillOp
<1>12. RouterOp(op["router"])'
  <2>1. CASE c = "router"
    BY <1>7, <2>1 DEF RouterOp
  <2>2. CASE c = "backfill"
    <3>1. op'["router"] = op["router"]
      BY <1>7, <2>2 DEF Clients
    <3>2. op["router"].kind = "update" => Live(op["router"].id)'
      BY <1>1, <1>8, <1>10, <1>11, <2>2, <3>1 DEF WritersOK, RouterOp
    <3> QED BY <1>1, <1>2, <1>5, <3>1, <3>2 DEF WritersOK, RouterOp, RowOK
  <2> QED BY <2>1, <2>2 DEF Clients
<1>13. BackfillOp(op["backfill"])'
  <2>1. CASE c = "backfill"
    BY <1>7, <2>1 DEF BackfillOp
  <2>2. CASE c = "router"
    <3>1. op'["backfill"] = op["backfill"]
      BY <1>7, <2>2 DEF Clients
    <3>2. op["backfill"].kind = "update" => Open(op["backfill"].id)'
      BY <1>1, <1>9, <1>10, <1>11, <2>2, <3>1 DEF WritersOK, BackfillOp
    <3> QED BY <1>1, <3>1, <3>2 DEF WritersOK, BackfillOp
  <2> QED BY <2>1, <2>2 DEF Clients
<1>14. stored' \in Nat /\ Live(stored)'
  BY <1>1, <1>5, <1>8, <1>10, <1>11 DEF WritersOK
<1>15. \A r \in todo' : r.id \in Nat /\ Open(r.id)'
  BY <1>1, <1>5, <1>9, <1>10, <1>11 DEF WritersOK
<1>16. WritersOK'
  BY <1>6, <1>12, <1>13, <1>14, <1>15 DEF WritersOK
<1> QED BY <1>1, <1>2, <1>3, <1>5, <1>16, TablesKept, ActionsKept, CallsKept DEF StoreInv

(* A commit of an insert: one row, for the call that is answered or dies.  *)
LEMMA InsertStep ==
  ASSUME NEW c \in Clients, StoreInv, op[c].kind = "insert",
         Commit(c) \/ (c = "router" /\ KilledAfterCommit)
  PROVE  StoreInv'
<1>1. TablesOK /\ ActionsOK /\ CallsOK /\ WritersOK
  BY DEF StoreInv
<1>2. c = "router"
  BY <1>1 DEF WritersOK, BackfillOp, Clients
<1> DEFINE row == op[c].row
           new == lastId + 1
<1>3. /\ RowOK(row) /\ row.call = Len(result) + 1 /\ row.decision \in {"null", "live"}
  BY <1>1, <1>2 DEF WritersOK, RouterOp
<1>4. copies[c] = 1
  BY <1>1 DEF WritersOK, CountersOK, Commit, KilledAfterCommit, Committed
<1>5. lastId \in Nat /\ now \in Nat /\ new \in Nat /\ new \notin DOMAIN events
  BY <1>1 DEF TablesOK
<1>6. /\ lastId' = new /\ now' = now
      /\ actions' = actions /\ logged' = logged /\ begun' = begun
      /\ DOMAIN events' = DOMAIN events \cup {new}
      /\ \A i \in DOMAIN events : events'[i] = events[i]
      /\ events'[new] = row
  <2>1. (lastId + 1)..(lastId + 1) = {new}
    BY <1>5
  <2> QED BY <1>4, <1>5, <2>1 DEF Commit, KilledAfterCommit, Committed, Applied
<1>7. /\ \E r \in {"stored", "crashed"} : result' = Append(result, r)
      /\ stored' \in {stored, IF row.decision = "live" THEN new ELSE 0}
      /\ todo' = todo
      /\ pc' = [pc EXCEPT ![c] = "idle"]
      /\ op' = [op EXCEPT ![c] = [kind |-> "none"]]
      /\ copies' = [copies EXCEPT ![c] = 0]
  BY <1>2 DEF Commit, KilledAfterCommit, Dies, Leave, Settle, backfillVars
<1>8. /\ result' \in Seq({"stored", "refused", "crashed"})
      /\ Len(result') = Len(result) + 1 /\ Len(result) \in Nat
      /\ \A k \in 1..Len(result) : result'[k] = result[k]
      /\ result'[Len(result) + 1] \in {"stored", "crashed"}
  BY <1>1, <1>7 DEF CallsOK
<1> HIDE DEF row, new
<1>9. TablesOK'
  BY <1>1, <1>3, <1>5, <1>6 DEF TablesOK, RowOK, new
<1>10. ActionsOK'
  BY <1>1, <1>5, <1>6 DEF ActionsOK, new
<1>11. CallsOK'
  <2>1. \A i \in DOMAIN events' :
          /\ events'[i].call \in 0..Len(result')
          /\ events'[i].call # 0 => result'[events'[i].call] \in {"stored", "crashed"}
    BY <1>1, <1>3, <1>6, <1>8 DEF CallsOK
  <2>2. \A i, j \in DOMAIN events' :
          events'[i].call = events'[j].call /\ events'[i].call # 0 => i = j
    BY <1>1, <1>3, <1>6, <1>8 DEF CallsOK
  <2>3. now' <= HalfDays =>
          \A k \in 1..Len(result') :
            result'[k] = "stored" => \E i \in DOMAIN events' : events'[i].call = k
    BY <1>1, <1>3, <1>6, <1>8 DEF CallsOK
  <2> QED BY <1>8, <2>1, <2>2, <2>3 DEF CallsOK
<1>12. CountersOK'
  BY <1>1, <1>7 DEF WritersOK, CountersOK
<1>13. op'["router"].kind = "none" /\ op'["backfill"] = op["backfill"]
  BY <1>1, <1>2, <1>7 DEF WritersOK, CountersOK, Clients
<1>14. \A i \in Nat : Open(i) => Open(i)'
  BY <1>5, <1>6 DEF Open, new
<1>15. stored' \in Nat /\ Live(stored)'
  BY <1>1, <1>3, <1>5, <1>6, <1>7, <1>9 DEF Live, TablesOK, WritersOK, new
<1>16. WritersOK'
  BY <1>1, <1>7, <1>12, <1>13, <1>14, <1>15 DEF WritersOK, RouterOp, BackfillOp
<1> QED BY <1>9, <1>10, <1>11, <1>16 DEF StoreInv

(* What backfill may write over, as BackfillKeepsDecisions says it.        *)
Decided ==
  \A i \in DOMAIN events \cap DOMAIN events' :
    events[i].decision # events'[i].decision /\ events'[i].decision = "backfilled"
      => events[i].decision = "null"

LEMMA KeptIsDecided ==
  ASSUME RowsKept
  PROVE  Decided
BY DEF RowsKept, Decided

LEMMA CommitDecides ==
  ASSUME NEW c \in Clients, StoreInv, Committed(c)
  PROVE  Decided
<1>1. TablesOK /\ WritersOK
  BY DEF StoreInv
<1>2. CASE op[c].kind = "insert"
  <2>1. \A i \in DOMAIN events : i \in DOMAIN events' => events'[i] = events[i]
    BY <1>2 DEF Committed, Applied
  <2> QED BY <2>1 DEF Decided
<1>3. CASE op[c].kind # "insert"
  <2>1. \A i \in DOMAIN events :
          events'[i].decision = IF i = op[c].id THEN op[c].decision ELSE events[i].decision
    <3>1. events' = [i \in DOMAIN events |->
                       IF i # op[c].id THEN events[i]
                       ELSE [events[i] EXCEPT !.decision = op[c].decision,
                               !.form = IF op[c].form = "null" THEN @ ELSE op[c].form]]
      BY <1>3 DEF Committed, Applied
    <3> QED BY <1>1, <3>1 DEF TablesOK, RowOK
  <2>2. op[c].decision = "backfilled" => Open(op[c].id)
    BY <1>1, <1>3 DEF Committed, WritersOK, CountersOK, RouterOp, BackfillOp, Clients
  <2> QED BY <2>1, <2>2 DEF Decided, Open
<1> QED BY <1>2, <1>3

LEMMA RetryStep ==
  ASSUME NEW c \in Clients, StoreInv, WithRetry(c)
  PROVE  StoreInv' /\ Decided
<1>1. CASE Commit(c)
  <2>1. op[c].kind \in {"insert", "update"}
    BY <1>1 DEF Commit, Committed, StoreInv, WritersOK, CountersOK, RouterOp, BackfillOp, Clients
  <2> QED BY <1>1, <2>1, InsertStep, UpdateStep, CommitDecides DEF Commit
<1> QED BY <1>1, AttemptStep, RaisingStep, KeptIsDecided DEF WithRetry

-----------------------------------------------------------------------------
(***************************************************************************)
(* The guardian, the other writers and backfill.                           *)
(***************************************************************************)
LEMMA StartStep ==
  ASSUME StoreInv, Start
  PROVE  StoreInv' /\ RowsKept
<1>1. TablesOK /\ WritersOK
  BY DEF StoreInv
<1>2. \A i \in DOMAIN events' :
        /\ DOMAIN events'[i] = DOMAIN events[i]
        /\ events'[i].call = events[i].call
        /\ events'[i].created = events[i].created
        /\ events'[i].decision = events[i].decision
  BY <1>1 DEF Start, TablesOK, RowOK
<1>3. /\ DOMAIN events' = DOMAIN events /\ lastId' = lastId
      /\ now' = now /\ now \in Nat
  BY <1>1 DEF Start, TablesOK
<1>4. RowsKept
  BY <1>2, <1>3 DEF RowsKept, RowsStay
<1>5. WritersKept /\ CountersOK'
  BY <1>1 DEF Start, WritersKept, WritersOK, CountersOK, backfillVars
<1> QED BY <1>4, <1>5, KeepingStep DEF Start

LEMMA CrashStep ==
  ASSUME StoreInv, Crash
  PROVE  StoreInv' /\ RowsKept
<1>1. TablesOK /\ WritersOK
  BY DEF StoreInv
<1>2. RowsKept
  BY <1>1, SameRows DEF Crash, Dies
<1>3. op'["router"].kind = "none" /\ op'["backfill"] = op["backfill"]
  BY <1>1 DEF Crash, Dies, WritersOK, CountersOK, Clients
<1>4. WritersKept
  BY <1>3 DEF Crash, Dies, WritersKept, backfillVars
<1>5. CountersOK'
  BY <1>1, <1>3 DEF Crash, Dies, WritersOK, CountersOK, Clients
<1> QED BY <1>2, <1>4, <1>5, KeepingStep DEF Crash, Dies

LEMMA KilledStep ==
  ASSUME StoreInv, KilledAfterCommit
  PROVE  StoreInv' /\ Decided
<1>1. op["router"].kind \in {"insert", "update"}
  BY DEF KilledAfterCommit, Committed, StoreInv, WritersOK, CountersOK, RouterOp, Clients
<1> QED BY <1>1, InsertStep, UpdateStep, CommitDecides DEF KilledAfterCommit, Clients

LEMMA MarkStep ==
  ASSUME StoreInv, MarkFalsePositive
  PROVE  StoreInv' /\ RowsKept
<1>1. TablesOK /\ WritersOK
  BY DEF StoreInv
<1>2. PICK i \in DOMAIN events : events' = [events EXCEPT ![i].fp = TRUE]
  BY DEF MarkFalsePositive
<1>3. \A j \in DOMAIN events' :
        /\ DOMAIN events'[j] = DOMAIN events[j]
        /\ events'[j].call = events[j].call
        /\ events'[j].created = events[j].created
        /\ events'[j].decision = events[j].decision
  BY <1>1, <1>2 DEF TablesOK, RowOK
<1>4. /\ DOMAIN events' = DOMAIN events /\ lastId' = lastId
      /\ now' = now /\ now \in Nat
  BY <1>1, <1>2 DEF MarkFalsePositive, TablesOK
<1>5. RowsKept
  BY <1>3, <1>4 DEF RowsKept, RowsStay
<1>6. WritersKept /\ CountersOK'
  BY <1>1 DEF MarkFalsePositive, WritersKept, WritersOK, CountersOK, clientVars, restVars, backfillVars
<1> QED BY <1>5, <1>6, KeepingStep DEF MarkFalsePositive, restVars

LEMMA TickStep ==
  ASSUME StoreInv, Tick
  PROVE  StoreInv' /\ RowsKept
<1>1. TablesOK /\ WritersOK
  BY DEF StoreInv
<1>2. RowsKept
  BY <1>1, SameRows DEF Tick, databaseVars
<1>3. WritersKept /\ CountersOK'
  BY <1>1 DEF Tick, WritersKept, WritersOK, CountersOK, clientVars, restVars, backfillVars
<1> QED BY <1>2, <1>3, KeepingStep DEF Tick, databaseVars, restVars

(* Retention: an event that stays is young enough for its actions to stay. *)
LEMMA MaintainStep ==
  ASSUME StoreInv, Maintain
  PROVE  StoreInv' /\ RowsKept
<1>1. TablesOK /\ ActionsOK /\ CallsOK /\ WritersOK
  BY DEF StoreInv
<1>2. /\ events' = [i \in {j \in DOMAIN events : ~EventExpired(events[j])} |-> events[i]]
      /\ actions' = {a \in actions : ~ActionExpired(a)}
      /\ logged' = logged /\ begun' = begun
      /\ lastId' = lastId /\ now' = now /\ result' = result
  BY DEF Maintain, restVars
<1>3. now \in Nat /\ HalfDays \in Nat
  BY <1>1, StoreAssumption DEF TablesOK
<1>4. now <= HalfDays => DOMAIN events' = DOMAIN events
  <2> SUFFICES ASSUME now <= HalfDays
               PROVE  \A j \in DOMAIN events : ~EventExpired(events[j])
    BY <1>2
  <2>1. \A j \in DOMAIN events : events[j].created \in Nat
    BY <1>1 DEF TablesOK, RowOK
  <2> QED BY <1>3, <2>1 DEF EventExpired
<1>5. RowsKept
  BY <1>2, <1>3, <1>4 DEF RowsKept, RowsStay
<1>6. WritersKept /\ CountersOK'
  BY <1>1 DEF Maintain, WritersKept, WritersOK, CountersOK, clientVars, restVars, backfillVars
<1>7. ActionsOK'
  <2> SUFFICES ASSUME NEW a \in logged, a.event \in DOMAIN events'
               PROVE  a \in actions'
    BY <1>1, <1>2 DEF ActionsOK
  <2>1. a.event \in DOMAIN events /\ ~EventExpired(events[a.event])
    BY <1>2
  <2>2. /\ a \in actions /\ a.executed \in Nat
        /\ events[a.event].created <= a.executed
        /\ events[a.event].created \in Nat
    BY <1>1, <2>1 DEF ActionsOK, TablesOK, RowOK
  <2> QED BY <1>2, <1>3, <2>1, <2>2, ActionOutlivesEvent
<1> QED BY <1>1, <1>2, <1>5, <1>6, <1>7, TablesKept, CallsKept, CallersKept DEF StoreInv, RowsKept

LEMMA PostStep ==
  ASSUME StoreInv, PostVerdict
  PROVE  StoreInv' /\ RowsKept
<1>1. TablesOK /\ ActionsOK /\ CallsOK /\ WritersOK
  BY DEF StoreInv
<1>2. RowsKept
  BY <1>1, SameRows DEF PostVerdict
<1>3. WritersKept /\ CountersOK'
  BY <1>1 DEF PostVerdict, WritersKept, WritersOK, CountersOK, clientVars, backfillVars
<1>4. ActionsOK'
  <2> DEFINE new == [event |-> stored, executed |-> now]
  <2>1. /\ begun' = begun \cup {new} /\ logged' = logged /\ actions' = actions
        /\ events' = events /\ lastId' = lastId
    BY DEF PostVerdict
  <2>2. /\ new.event = stored /\ stored \in Nat /\ stored <= lastId
        /\ new.executed = now /\ now \in Nat
        /\ stored \in DOMAIN events => events[stored].created <= now
    BY <1>1 DEF WritersOK, Live, TablesOK, RowOK
  <2> HIDE DEF new
  <2> QED BY <1>1, <2>1, <2>2 DEF ActionsOK
<1> QED BY <1>1, <1>2, <1>3, <1>4, TablesKept, CallsKept, CallersKept
     DEF StoreInv, RowsKept, PostVerdict

LEMMA LogStep ==
  ASSUME StoreInv, LogAction
  PROVE  StoreInv' /\ RowsKept
<1>1. TablesOK /\ ActionsOK /\ CallsOK /\ WritersOK
  BY DEF StoreInv
<1>2. RowsKept
  BY <1>1, SameRows DEF LogAction
<1>3. WritersKept /\ CountersOK'
  BY <1>1 DEF LogAction, WritersKept, WritersOK, CountersOK, clientVars, restVars,
     backfillVars
<1>4. ActionsOK'
  <2>1. PICK a \in begun :
          /\ actions' = actions \cup {a} /\ logged' = logged \cup {a}
          /\ begun' = begun \ {a}
    BY DEF LogAction
  <2>2. events' = events /\ lastId' = lastId
    BY DEF LogAction
  <2> QED BY <1>1, <2>1, <2>2 DEF ActionsOK
<1> QED BY <1>1, <1>2, <1>3, <1>4, TablesKept, CallsKept, CallersKept
     DEF StoreInv, RowsKept, LogAction, restVars

(* A call begins: nothing else the invariant reads has changed.            *)
LEMMA EnterStep ==
  ASSUME NEW c \in Clients, NEW o, StoreInv, Enter(c, o), o.kind # "none",
         result' = result, stored' \in {stored, 0}, todo' = todo,
         \/ c = "router" /\ RouterOp(o)
         \/ c = "backfill" /\ BackfillOp(o)
  PROVE  StoreInv' /\ RowsKept
<1>1. TablesOK /\ ActionsOK /\ CallsOK /\ WritersOK
  BY DEF StoreInv
<1>2. /\ events' = events /\ lastId' = lastId /\ now' = now
      /\ actions' = actions /\ logged' = logged /\ begun' = begun /\ copies' = copies
      /\ pc[c] = "idle" /\ pc' = [pc EXCEPT ![c] = "execute"]
      /\ op' = [op EXCEPT ![c] = o]
  BY DEF Enter, databaseVars
<1>3. op'[c] = o /\ \A d \in Clients \ {c} : op'[d] = op[d]
  BY <1>1, <1>2 DEF WritersOK, CountersOK
<1>4. CountersOK'
  BY <1>1, <1>2, <1>3 DEF WritersOK, CountersOK
<1>5. /\ c = "router" => op'["router"] = o /\ op'["backfill"] = op["backfill"]
      /\ c = "backfill" => op'["backfill"] = o /\ op'["router"] = op["router"]
  BY <1>3 DEF Clients
<1>6. RouterOp(op["router"])' /\ BackfillOp(op["backfill"])'
  BY <1>1, <1>2, <1>5 DEF WritersOK, RouterOp, BackfillOp, RowOK, Live, Open
<1>7. stored' \in Nat /\ Live(stored)' /\ \A r \in todo' : r.id \in Nat /\ Open(r.id)'
  BY <1>1, <1>2, NoRowIsLive DEF WritersOK, Live, Open
<1>8. RowsKept
  BY <1>1, <1>2, SameRows
<1> QED BY <1>1, <1>2, <1>4, <1>6, <1>7, <1>8, TablesKept, ActionsKept, CallsKept
     DEF StoreInv, RowsKept, WritersOK

LEMMA StoreEventStep ==
  ASSUME StoreInv, StoreEvent
  PROVE  StoreInv' /\ RowsKept
<1>1. PICK routed \in BOOLEAN, valid \in BOOLEAN :
        Enter("router",
          [kind |-> "insert", valid |-> valid,
           row |-> [call |-> Len(result) + 1,
                    decision |-> IF routed THEN "live" ELSE "null",
                    form |-> IF routed THEN "object" ELSE "null",
                    fp |-> FALSE, created |-> now]])
  BY DEF StoreEvent
<1> DEFINE row == [call |-> Len(result) + 1,
                   decision |-> IF routed THEN "live" ELSE "null",
                   form |-> IF routed THEN "object" ELSE "null",
                   fp |-> FALSE, created |-> now]
           o == [kind |-> "insert", valid |-> valid, row |-> row]
<1>2. RowOK(row)
  BY DEF RowOK, StoreInv, TablesOK
<1>3. row.call = Len(result) + 1 /\ row.decision \in {"null", "live"}
  OBVIOUS
<1>4. o.kind = "insert" /\ o.row = row
  OBVIOUS
<1>5. Enter("router", o)
  BY <1>1
<1> HIDE DEF row, o
<1>6. RouterOp(o)
  BY <1>2, <1>3, <1>4 DEF RouterOp
<1>7. result' = result /\ stored' = stored /\ todo' = todo
  BY DEF StoreEvent, restVars, backfillVars
<1> QED BY <1>4, <1>5, <1>6, <1>7, EnterStep DEF Clients

LEMMA UpdateStoredStep ==
  ASSUME StoreInv, UpdateStoredDecision
  PROVE  StoreInv' /\ RowsKept
<1> DEFINE o == [kind |-> "update", valid |-> TRUE, id |-> stored,
                 decision |-> "downgraded", form |-> "null"]
<1>1. Enter("router", o)
  BY DEF UpdateStoredDecision
<1>2. RouterOp(o) /\ o.kind # "none"
  BY DEF RouterOp, StoreInv, WritersOK
<1>3. result' = result /\ stored' = 0 /\ todo' = todo
  BY DEF UpdateStoredDecision, backfillVars
<1> HIDE DEF o
<1> QED BY <1>1, <1>2, <1>3, EnterStep DEF Clients

LEMMA BackfillRowStep ==
  ASSUME StoreInv, BackfillRow
  PROVE  StoreInv' /\ RowsKept
<1>1. PICK r \in todo : \E form \in Rewritten(r.form) :
        Enter("backfill", [kind |-> "update", valid |-> TRUE, id |-> r.id,
                           decision |-> "backfilled", form |-> form])
  BY DEF BackfillRow
<1>2. PICK form \in Rewritten(r.form) :
        Enter("backfill", [kind |-> "update", valid |-> TRUE, id |-> r.id,
                           decision |-> "backfilled", form |-> form])
  BY <1>1
<1> DEFINE o == [kind |-> "update", valid |-> TRUE, id |-> r.id,
                 decision |-> "backfilled", form |-> form]
<1>3. BackfillOp(o) /\ o.kind # "none"
  BY DEF BackfillOp, StoreInv, WritersOK
<1>4. result' = result /\ stored' = stored /\ todo' = todo
  BY DEF BackfillRow, restVars, backfillVars
<1>5. Enter("backfill", o)
  BY <1>2
<1> HIDE DEF o
<1> QED BY <1>3, <1>4, <1>5, EnterStep DEF Clients

LEMMA BackfillStartsStep ==
  ASSUME StoreInv, BackfillStarts
  PROVE  StoreInv' /\ RowsKept
<1>1. TablesOK /\ ActionsOK /\ CallsOK /\ WritersOK
  BY DEF StoreInv
<1>2. /\ events' = events /\ lastId' = lastId /\ now' = now
      /\ actions' = actions /\ logged' = logged /\ begun' = begun
      /\ pc' = pc /\ copies' = copies /\ op' = op
      /\ result' = result /\ stored' = stored
  BY DEF BackfillStarts, databaseVars, restVars
<1>3. RowsKept
  BY <1>1, <1>2, SameRows
<1>4. \A r \in todo' : r.id \in DOMAIN events /\ events[r.id].decision = "null"
  BY DEF BackfillStarts, Pending
<1>5. \A r \in todo' : r.id \in Nat /\ Open(r.id)'
  BY <1>1, <1>2, <1>4 DEF TablesOK, Open
<1>6. WritersOK'
  BY <1>1, <1>2, <1>5 DEF WritersOK, CountersOK, RouterOp, BackfillOp, RowOK, Live, Open
<1> QED BY <1>1, <1>2, <1>3, <1>6, TablesKept, ActionsKept, CallsKept DEF StoreInv, RowsKept

LEMMA BackfillStops ==
  ASSUME StoreInv, BackfillRowFails \/ BackfillEnds
  PROVE  StoreInv' /\ RowsKept
<1>1. TablesOK /\ WritersOK
  BY DEF StoreInv
<1>2. /\ events' = events /\ lastId' = lastId /\ now' = now
      /\ actions' = actions /\ logged' = logged /\ begun' = begun
      /\ pc' = pc /\ copies' = copies /\ op' = op
      /\ result' = result /\ stored' = stored /\ todo' \subseteq todo
  BY DEF BackfillRowFails, BackfillEnds, databaseVars, clientVars, restVars
<1>3. RowsKept
  BY <1>1, <1>2, SameRows
<1>4. WritersKept /\ CountersOK'
  BY <1>1, <1>2 DEF WritersKept, WritersOK, CountersOK
<1> QED BY <1>2, <1>3, <1>4, KeepingStep

-----------------------------------------------------------------------------
LEMMA StoreInvInit ==
  ASSUME Init
  PROVE  StoreInv
<1>1. Legacy \in Nat
  BY StoreAssumption
<1>2. /\ DOMAIN events = 1..Legacy
      /\ \A i \in 1..Legacy :
           /\ DOMAIN events[i] = {"call", "decision", "form", "fp", "created"}
           /\ events[i].call = 0 /\ events[i].created = 0
  BY DEF Init
<1>3. TablesOK
  BY <1>1, <1>2 DEF Init, TablesOK, RowOK
<1>4. ActionsOK
  BY DEF Init, ActionsOK
<1>5. CallsOK
  <2>1. result = <<>> /\ Len(result) = 0
    BY DEF Init
  <2> QED BY <1>2, <2>1 DEF CallsOK
<1>6. WritersOK
  BY <1>3, NoRowIsLive DEF Init, WritersOK, CountersOK, RouterOp, BackfillOp, Clients
<1> QED BY <1>3, <1>4, <1>5, <1>6 DEF StoreInv

LEMMA StoreInvStep ==
  ASSUME StoreInv, [Next]_vars
  PROVE  StoreInv' /\ (Decided \/ UNCHANGED vars)
<1>1. CASE UNCHANGED vars
  BY <1>1 DEF vars, databaseVars, clientVars, restVars, backfillVars, StoreInv, TablesOK,
     ActionsOK, CallsOK, WritersOK, CountersOK, RouterOp, BackfillOp, RowOK, Live, Open
<1>2. CASE Next
  <2>1. CASE \E c \in Clients : WithRetry(c)
    BY <2>1, RetryStep
  <2>2. CASE ~\E c \in Clients : WithRetry(c)
    BY <1>2, <2>2, StartStep, StoreEventStep, UpdateStoredStep, CrashStep, KilledStep,
       MaintainStep, PostStep, LogStep, MarkStep, TickStep, BackfillStartsStep, BackfillRowStep, BackfillStops,
       KeptIsDecided DEF Next
  <2> QED BY <2>1, <2>2
<1> QED BY <1>1, <1>2

LEMMA StoreInvHolds == Spec => []StoreInv
BY StoreInvInit, StoreInvStep, PTL DEF Spec

(***************************************************************************)
(* Whatever was retried, rolled back or killed: each call of store_event   *)
(* that answers with an id has one row, one that answers -1 none, and one  *)
(* that the guardian died in no second one.                                *)
(***************************************************************************)
THEOREM OneRowEach == Spec => []OneRowPerStore
<1>1. ASSUME StoreInv
      PROVE  OneRowPerStore
  <2> SUFFICES ASSUME NEW k \in 1..MaxCalls
               PROVE  LET rows == {i \in DOMAIN events : events[i].call = k} IN
                        /\ \A i, j \in rows : i = j
                        /\ rows # {} => k \in DOMAIN result /\ result[k] # "refused"
                        /\ k \in DOMAIN result /\ result[k] = "stored" /\ now <= HalfDays
                             => rows # {}
    BY DEF OneRowPerStore
  <2>1. /\ CallsOK /\ DOMAIN result = 1..Len(result) /\ k \in Nat /\ k # 0
        /\ Len(result) \in Nat
    BY <1>1, StoreAssumption DEF StoreInv, CallsOK
  <2>2. \A i \in DOMAIN events :
          events[i].call = k => k \in DOMAIN result /\ result[k] # "refused"
    BY <2>1 DEF CallsOK
  <2> QED BY <2>1, <2>2 DEF CallsOK
<1> QED BY <1>1, StoreInvHolds, PTL

(***************************************************************************)
(* While an event is kept, every action that was logged for it is kept.    *)
(***************************************************************************)
THEOREM ActionsOutliveTheirEvents == Spec => []RetainedEventsKeepActions
<1>1. StoreInv => RetainedEventsKeepActions
  BY DEF StoreInv, ActionsOK, RetainedEventsKeepActions
<1> QED BY <1>1, StoreInvHolds, PTL

(***************************************************************************)
(* Backfill does not write over what the guardian decided.                 *)
(***************************************************************************)
THEOREM DecisionsAreKept == Spec => BackfillKeepsDecisions
<1>1. ASSUME StoreInv, [Next]_vars
      PROVE  [Decided]_vars
  BY <1>1, StoreInvStep
<1>2. [Decided]_vars
        => [\A i \in DOMAIN events \cap DOMAIN events' :
              events[i].decision # events'[i].decision
              /\ events'[i].decision = "backfilled"
              => events[i].decision = "null"]_vars
  BY DEF Decided
<1> QED BY <1>1, <1>2, StoreInvHolds, PTL DEF Spec, BackfillKeepsDecisions

(***************************************************************************)
(* A refusal has a cause. Without a fault of its own, a valid insert meets *)
(* at most one thing: the connection that an earlier call lost, which is   *)
(* replaced for good at the second attempt.                                *)
(***************************************************************************)
SecondAttempt ==
  /\ DOMAIN attempt = Clients /\ DOMAIN fresh = Clients /\ DOMAIN met = Clients
  /\ DOMAIN op = Clients /\ DOMAIN pc = Clients
  /\ pc["router"] = "idle" => attempt["router"] = 1
  /\ attempt["router"] \in Nat /\ faults \in Nat
  /\ \/ pc["router"] = "idle" \/ met["router"] \/ ~op["router"].valid
     \/ attempt["router"] = 1
     \/ attempt["router"] = 2 /\ fresh["router"]

Refused == Len(result') > Len(result) /\ result'[Len(result')] = "refused"
Caused == met["router"] \/ faults' # faults \/ ~op["router"].valid

LEMMA FaultsStep ==
  ASSUME NEW c \in Clients, WithRetry(c)
  PROVE  faults' \in {faults, faults + 1}
BY DEF WithRetry, Execute, Commit, Committed, Busy, CommitFails, Rejected, RejectedForGood,
   ReopenFails, Broken, Fault

(* Who calls keeps to its own variables.                                   *)
LEMMA OtherCaller ==
  ASSUME NEW c \in Clients, c # "router", SecondAttempt, WithRetry(c)
  PROVE  SecondAttempt' /\ result' = result
<1>1. /\ \E x : pc' = [pc EXCEPT ![c] = x]
      /\ op' = op \/ \E x : op' = [op EXCEPT ![c] = x]
      /\ attempt' = attempt \/ \E x : attempt' = [attempt EXCEPT ![c] = x]
      /\ fresh' = fresh \/ \E x : fresh' = [fresh EXCEPT ![c] = x]
      /\ met' = met \/ \E x : met' = [met EXCEPT ![c] = x]
  BY DEF WithRetry, Execute, Commit, Committed, Busy, BusyRetry, CommitFails, Rejected, RejectedForGood,
     ReopenFails, Broken, Raises, Leave, Again, Meets, Reopen, clientVars
<1>2. /\ pc'["router"] = pc["router"] /\ op'["router"] = op["router"]
      /\ attempt'["router"] = attempt["router"] /\ fresh'["router"] = fresh["router"]
      /\ met'["router"] = met["router"]
      /\ DOMAIN pc' = Clients /\ DOMAIN op' = Clients /\ DOMAIN attempt' = Clients
      /\ DOMAIN fresh' = Clients /\ DOMAIN met' = Clients
  BY <1>1 DEF SecondAttempt, Clients
<1>3. result' = result
  BY DEF WithRetry, Execute, Commit, Committed, Busy, BusyRetry, CommitFails, Rejected, RejectedForGood,
     ReopenFails, Broken, Raises, Leave, Settle, Again, restVars
<1>4. faults' \in {faults, faults + 1}
  BY FaultsStep
<1> QED BY <1>2, <1>3, <1>4 DEF SecondAttempt

LEMMA RouterRefuses ==
  ASSUME MaxAttempts >= 3, SecondAttempt, WithRetry("router")
  PROVE  SecondAttempt' /\ (Refused => Caused)
<1> "router" \in Clients /\ MaxAttempts \in Nat
  BY StoreAssumption DEF Clients
<1>0. faults' \in Nat
  BY FaultsStep DEF SecondAttempt
<1>1. CASE Execute("router")
  BY <1>0, <1>1 DEF Execute, SecondAttempt, restVars, Refused
<1>2. CASE Commit("router")
  <2>1. SecondAttempt'
    BY <1>0, <1>2 DEF Commit, Committed, Leave, SecondAttempt
  <2>2. ~Refused
    BY <1>2 DEF Commit, Committed, Leave, Settle, Refused
  <2> QED BY <2>1, <2>2
<1>3. CASE Busy("router")
  <2>1. CASE attempt["router"] < MaxAttempts
    BY <1>0, <1>3, <2>1 DEF Busy, BusyRetry, Again, Meets, SecondAttempt, restVars, Refused
  <2>2. CASE ~(attempt["router"] < MaxAttempts)
    <3>1. SecondAttempt'
      BY <1>0, <1>3, <2>2 DEF Busy, BusyRetry, Raises, Leave, SecondAttempt
    <3>2. Caused
      BY <1>3, <2>2 DEF Busy, BusyAt, SecondAttempt, Caused
    <3> QED BY <3>1, <3>2
  <2> QED BY <2>1, <2>2
<1>4. CASE CommitFails("router") \/ Broken("router") \/ ReopenFails("router")
  <2>1. faults' # faults
    <3>1. Fault("router") /\ faults \in Nat
      BY <1>4 DEF CommitFails, Broken, ReopenFails, SecondAttempt
    <3> QED BY <3>1 DEF Fault
  <2>2. PICK x : Leave("router", FALSE, x)
    BY <1>4 DEF CommitFails, Broken, ReopenFails, Raises
  <2>3. SecondAttempt'
    BY <1>0, <2>2 DEF Leave, SecondAttempt
  <2> QED BY <2>1, <2>3 DEF Caused
<1>5. CASE Rejected("router")
  BY <1>0, <1>5 DEF Rejected, Reopen, Again, Usable, SecondAttempt, restVars, Refused
<1>6. CASE RejectedForGood("router")
  <2>1. SecondAttempt'
    BY <1>0, <1>6 DEF RejectedForGood, Raises, Leave, SecondAttempt
  <2>2. Caused
    BY <1>6 DEF RejectedForGood, Usable, SecondAttempt, Caused
  <2> QED BY <2>1, <2>2
<1> QED BY <1>1, <1>2, <1>3, <1>4, <1>5, <1>6 DEF WithRetry

LEMMA RefusalStep ==
  ASSUME MaxAttempts >= 3, SecondAttempt, Next
  PROVE  SecondAttempt' /\ (Refused => Caused)
<1>1. CASE \E c \in Clients : WithRetry(c)
  <2>1. CASE WithRetry("router")
    BY <2>1, RouterRefuses
  <2>2. CASE \E c \in Clients : c # "router" /\ WithRetry(c)
    BY <2>2, OtherCaller DEF Refused
  <2> QED BY <1>1, <2>1, <2>2
<1>2. CASE StoreEvent \/ UpdateStoredDecision \/ BackfillRow
  <2>1. PICK c \in Clients : \E o : Enter(c, o)
    BY <1>2 DEF StoreEvent, UpdateStoredDecision, BackfillRow, Clients
  <2>2. SecondAttempt'
    BY <2>1 DEF Enter, SecondAttempt, Clients
  <2>3. ~Refused
    BY <1>2 DEF StoreEvent, UpdateStoredDecision, BackfillRow, restVars, Refused
  <2> QED BY <2>2, <2>3
<1>3. CASE Crash \/ KilledAfterCommit
  <2>1. Dies
    BY <1>3 DEF Crash, KilledAfterCommit
  <2>2. SecondAttempt'
    BY <2>1 DEF Dies, SecondAttempt, Clients
  <2>3. ~Refused
    BY <2>1 DEF Dies, Refused
  <2> QED BY <2>2, <2>3
<1>4. CASE \/ Start \/ Maintain \/ PostVerdict \/ LogAction \/ MarkFalsePositive \/ Tick
           \/ BackfillStarts \/ BackfillRowFails \/ BackfillEnds
  <2>1. /\ pc' = pc /\ op' = op /\ attempt' = attempt /\ met' = met /\ faults' = faults
        /\ fresh' = fresh /\ result' = result
    BY <1>4 DEF Start, Maintain, PostVerdict, LogAction, MarkFalsePositive, Tick,
       BackfillStarts, BackfillRowFails, BackfillEnds, clientVars, restVars, databaseVars
  <2> QED BY <2>1 DEF SecondAttempt, Refused
<1> QED BY <1>1, <1>2, <1>3, <1>4 DEF Next

(***************************************************************************)
(* store_event says -1 only for a row the table cannot take, or when the   *)
(* call met a fault of its own: the connection lost by an earlier call is  *)
(* replaced in time. It takes the three attempts the code has.             *)
(***************************************************************************)
THEOREM RefusalsHaveACause ==
  ASSUME MaxAttempts >= 3
  PROVE  Spec => RefusalHasACause
<1>1. Init => SecondAttempt
  BY StoreAssumption DEF Init, SecondAttempt, Clients
<1>2. ASSUME SecondAttempt, [Next]_vars
      PROVE  SecondAttempt'
  <2>1. CASE UNCHANGED vars
    BY <1>2, <2>1 DEF vars, clientVars, SecondAttempt
  <2> QED BY <1>2, <2>1, RefusalStep
<1>3. ASSUME SecondAttempt, [Next]_vars
      PROVE  [Refused => Caused]_vars
  BY <1>3, RefusalStep
<1>4. [Refused => Caused]_vars
        => [Len(result') > Len(result) /\ result'[Len(result')] = "refused"
              => met["router"] \/ faults' # faults \/ ~op["router"].valid]_vars
  BY DEF Refused, Caused
<1> QED BY <1>1, <1>2, <1>3, <1>4, PTL DEF Spec, RefusalHasACause

-----------------------------------------------------------------------------
(***************************************************************************)
(* A backfill without errors. Until its row is done, a row that was        *)
(* fetched is still to do; what was once decided and normal stays so under *)
(* the other writers.                                                      *)
(***************************************************************************)
Clean(i) == events[i].decision # "null" /\ events[i].form = Normal(events[i].form)

CleanInv ==
  /\ errors \in Nat
  /\ \A i \in fetched : i \in Nat /\ i <= lastId
  /\ op["router"].kind = "update" => op["router"].form = "null"
  /\ op["backfill"].kind # "none" =>
       op["backfill"].form # "null" /\ op["backfill"].form = Normal(op["backfill"].form)
  /\ bpc = "run" /\ errors = 0 =>
       \A i \in fetched \cap DOMAIN events : Clean(i) \/ \E r \in todo : r.id = i

RowsStayClean ==
  /\ lastId' \in Nat /\ lastId <= lastId'
  /\ \A i \in DOMAIN events' :
       IF i \in DOMAIN events THEN Clean(i) => Clean(i)' ELSE i > lastId

LEMMA SameRowsStayClean ==
  ASSUME TablesOK, lastId' = lastId, DOMAIN events' \subseteq DOMAIN events,
         \A i \in DOMAIN events' : /\ events'[i].decision = events[i].decision
                                  /\ events'[i].form \in {events[i].form, Normal(events[i].form)}
  PROVE  RowsStayClean
BY DEF TablesOK, RowsStayClean, Clean, Normal

LEMMA CommittedRowsStayClean ==
  ASSUME NEW c \in Clients, StoreInv, CleanInv, Committed(c)
  PROVE  /\ RowsStayClean
         /\ c = "backfill" =>
              \A i \in DOMAIN events' : i = op[c].id => Clean(i)'
<1>1. TablesOK /\ WritersOK /\ lastId \in Nat
  BY DEF StoreInv, TablesOK
<1>2. CASE op[c].kind = "insert"
  <2>1. c = "router" /\ copies[c] = 1
    BY <1>1, <1>2 DEF WritersOK, CountersOK, BackfillOp, Clients, Committed
  <2>2. /\ lastId' = lastId + 1
        /\ \A i \in DOMAIN events' : i \in DOMAIN events \/ i \in (lastId + 1)..(lastId + 1)
        /\ \A i \in DOMAIN events : events'[i] = events[i]
    BY <1>2, <2>1 DEF Committed, Applied
  <2> QED BY <1>1, <2>1, <2>2 DEF RowsStayClean, Clean
<1>3. CASE op[c].kind # "insert"
  <2> DEFINE form(i) == IF op[c].form = "null" THEN events[i].form ELSE op[c].form
  <2>1. /\ events' = [i \in DOMAIN events |->
                       IF i # op[c].id THEN events[i]
                       ELSE [events[i] EXCEPT !.decision = op[c].decision,
                               !.form = IF op[c].form = "null" THEN @ ELSE op[c].form]]
        /\ lastId' = lastId
    BY <1>3 DEF Committed, Applied
  <2>2. \A i \in DOMAIN events :
          /\ i # op[c].id => events'[i] = events[i]
          /\ i = op[c].id => events'[i].decision = op[c].decision
    BY <1>1, <2>1 DEF TablesOK, RowOK
  <2>3. \A i \in DOMAIN events : i = op[c].id => events'[i].form = form(i)
    <3> SUFFICES ASSUME NEW i \in DOMAIN events, i = op[c].id
                 PROVE  events'[i].form = form(i)
      OBVIOUS
    <3>1. events'[i] = [events[i] EXCEPT !.decision = op[c].decision,
                          !.form = IF op[c].form = "null" THEN @ ELSE op[c].form]
      BY <2>1
    <3>2. DOMAIN events[i] = {"call", "decision", "form", "fp", "created"}
      BY <1>1 DEF TablesOK, RowOK
    <3>3. CASE op[c].form = "null"
      BY <3>1, <3>2, <3>3
    <3>4. CASE op[c].form # "null"
      BY <3>1, <3>2, <3>4
    <3> QED BY <3>3, <3>4
  <2>4. DOMAIN events' = DOMAIN events /\ lastId' = lastId
    BY <2>1
  <2>5. /\ op[c].decision \in {"downgraded", "backfilled"}
        /\ op[c].form = "null" \/ op[c].form = Normal(op[c].form)
        /\ c = "backfill" => op[c].form # "null"
    BY <1>1, <1>3 DEF Committed, WritersOK, CountersOK, RouterOp, BackfillOp, Clients, CleanInv
  <2>6. \A i \in DOMAIN events : Clean(i) => Clean(i)'
    BY <2>2, <2>3, <2>5 DEF Clean
  <2>7. c = "backfill" => \A i \in DOMAIN events' : i = op[c].id => Clean(i)'
    BY <2>2, <2>3, <2>4, <2>5 DEF Clean
  <2>8. RowsStayClean
    BY <1>1, <2>4, <2>6 DEF RowsStayClean
  <2> QED BY <2>7, <2>8
<1> QED BY <1>2, <1>3

(* Rows that stay clean, and backfill where it was.                        *)
LEMMA CleanKept ==
  ASSUME StoreInv, CleanInv, RowsStayClean,
         \/ op'["router"] = op["router"] \/ op'["router"].kind \in {"none", "insert"}
         \/ op'["router"].form = "null",
         op'["backfill"] = op["backfill"] \/ op'["backfill"].kind = "none",
         \/ bpc' = bpc /\ fetched' = fetched /\ todo' = todo /\ errors' = errors
         \/ bpc' = bpc /\ fetched' = fetched /\ errors' = errors + 1
  PROVE  CleanInv'
<1>1. errors' \in Nat
  BY DEF CleanInv
<1>2. \A i \in fetched' : i \in Nat /\ i <= lastId'
  BY DEF CleanInv, RowsStayClean, StoreInv, TablesOK
<1>3. bpc' = "run" /\ errors' = 0 =>
        \A i \in fetched' \cap DOMAIN events' : Clean(i)' \/ \E r \in todo' : r.id = i
  BY DEF CleanInv, RowsStayClean, StoreInv, TablesOK
<1> QED BY <1>1, <1>2, <1>3 DEF CleanInv

LEMMA CleanRetry ==
  ASSUME NEW c \in Clients, StoreInv, CleanInv, WithRetry(c)
  PROVE  CleanInv'
<1>1. TablesOK /\ WritersOK /\ CountersOK
  BY DEF StoreInv, WritersOK
<1>2. CASE Execute(c) \/ (Busy(c) /\ attempt[c] < MaxAttempts) \/ Rejected(c)
  <2>1. /\ events' = events /\ lastId' = lastId /\ op' = op /\ bpc' = bpc
        /\ fetched' = fetched /\ todo' = todo /\ errors' = errors
    BY <1>2 DEF Execute, Busy, BusyRetry, Rejected, Again, Meets, Reopen,
       databaseVars, restVars, backfillVars
  <2>2. RowsStayClean
    BY <1>1, <2>1, SameRowsStayClean
  <2> QED BY <2>1, <2>2, CleanKept
<1>3. CASE \/ Busy(c) /\ ~(attempt[c] < MaxAttempts)
           \/ CommitFails(c) \/ RejectedForGood(c) \/ ReopenFails(c) \/ Broken(c)
  <2>1. PICK connection : Leave(c, FALSE, connection)
    BY <1>3 DEF Busy, BusyRetry, CommitFails, RejectedForGood, ReopenFails, Broken, Raises
  <2>2. events' = events /\ lastId' = lastId
    BY <1>3 DEF Busy, CommitFails, RejectedForGood, ReopenFails, Broken, databaseVars
  <2>3. /\ op'[c].kind = "none" /\ \A d \in Clients \ {c} : op'[d] = op[d]
    BY <1>1, <2>1 DEF Leave, CountersOK
  <2>4. /\ bpc' = bpc /\ fetched' = fetched
        /\ errors' = errors + 1 \/ (todo' = todo /\ errors' = errors)
    BY <2>1 DEF Leave, Settle, ErrorsAfter
  <2>5. RowsStayClean
    BY <1>1, <2>2, SameRowsStayClean
  <2> QED BY <2>3, <2>4, <2>5, CleanKept DEF Clients
<1>4. CASE Commit(c)
  <2>1. RowsStayClean
    BY <1>4, CommittedRowsStayClean DEF Commit
  <2>2. /\ op'[c].kind = "none" /\ \A d \in Clients \ {c} : op'[d] = op[d]
    BY <1>1, <1>4 DEF Commit, Leave, CountersOK
  <2>3. CASE c = "router"
    <3>1. bpc' = bpc /\ fetched' = fetched /\ todo' = todo /\ errors' = errors
      BY <1>4, <2>3 DEF Commit, Leave, Settle
    <3> QED BY <2>1, <2>2, <2>3, <3>1, CleanKept DEF Clients
  <2>4. CASE c = "backfill"
    <3>1. /\ bpc' = bpc /\ fetched' = fetched /\ errors' = errors
          /\ todo' = {r \in todo : r.id # op[c].id}
      BY <1>4, <2>4 DEF Commit, Leave, Settle, ErrorsAfter
    <3>2. \A i \in DOMAIN events' : i = op[c].id => Clean(i)'
      BY <1>4, <2>4, CommittedRowsStayClean DEF Commit
    <3>3. bpc' = "run" /\ errors' = 0 =>
            \A i \in fetched' \cap DOMAIN events' : Clean(i)' \/ \E r \in todo' : r.id = i
      BY <2>1, <3>1, <3>2 DEF CleanInv, RowsStayClean, StoreInv, TablesOK
    <3>4. \A i \in fetched' : i \in Nat /\ i <= lastId'
      BY <1>1, <2>1, <3>1 DEF CleanInv, RowsStayClean, TablesOK
    <3>5. op'["backfill"].kind = "none" /\ op'["router"] = op["router"]
      BY <2>2, <2>4 DEF Clients
    <3> QED BY <3>1, <3>3, <3>4, <3>5 DEF CleanInv
  <2> QED BY <2>3, <2>4 DEF Clients
<1> QED BY <1>2, <1>3, <1>4 DEF WithRetry

LEMMA CleanStep ==
  ASSUME StoreInv, CleanInv, Next
  PROVE  CleanInv'
<1>1. TablesOK /\ WritersOK /\ CountersOK
  BY DEF StoreInv, WritersOK
<1>2. CASE \E c \in Clients : WithRetry(c)
  BY <1>2, CleanRetry
<1>3. CASE \/ Start \/ Maintain \/ PostVerdict \/ LogAction \/ MarkFalsePositive
           \/ Tick \/ Crash
  <2>1. /\ bpc' = bpc /\ fetched' = fetched /\ todo' = todo /\ errors' = errors
        /\ lastId' = lastId
    BY <1>3 DEF Start, Maintain, PostVerdict, LogAction, MarkFalsePositive, Tick, Crash,
       Dies, backfillVars, databaseVars
  <2>2. /\ DOMAIN events' \subseteq DOMAIN events
        /\ \A i \in DOMAIN events' :
             /\ events'[i].decision = events[i].decision
             /\ events'[i].form \in {events[i].form, Normal(events[i].form)}
    BY <1>1, <1>3 DEF Start, Maintain, PostVerdict, LogAction, MarkFalsePositive, Tick,
       Crash, databaseVars, TablesOK, RowOK
  <2>3. RowsStayClean
    BY <1>1, <2>1, <2>2, SameRowsStayClean
  <2>4. /\ op'["router"] = op["router"] \/ op'["router"].kind = "none"
        /\ op'["backfill"] = op["backfill"]
    BY <1>1, <1>3 DEF Start, Maintain, PostVerdict, LogAction, MarkFalsePositive, Tick,
       Crash, Dies, clientVars, CountersOK, Clients
  <2> QED BY <2>1, <2>3, <2>4, CleanKept
<1>4. CASE StoreEvent \/ UpdateStoredDecision
  <2>1. /\ bpc' = bpc /\ fetched' = fetched /\ todo' = todo /\ errors' = errors
        /\ lastId' = lastId /\ events' = events
    BY <1>4 DEF StoreEvent, UpdateStoredDecision, Enter, backfillVars, databaseVars
  <2>2. RowsStayClean
    BY <1>1, <2>1, SameRowsStayClean
  <2>3. PICK o : Enter("router", o) /\ (o.kind = "insert" \/ o.form = "null")
    <3>1. CASE StoreEvent
      <4>1. PICK routed, valid, row :
              Enter("router", [kind |-> "insert", valid |-> valid, row |-> row])
        BY <3>1 DEF StoreEvent
      <4> QED BY <4>1
    <3>2. CASE UpdateStoredDecision
      BY <3>2 DEF UpdateStoredDecision
    <3> QED BY <1>4, <3>1, <3>2
  <2>4. op'["router"] = o /\ op'["backfill"] = op["backfill"]
    BY <1>1, <2>3 DEF Enter, CountersOK, Clients
  <2> QED BY <2>1, <2>2, <2>3, <2>4, CleanKept
<1>5. CASE BackfillRow
  <2>1. /\ bpc' = bpc /\ fetched' = fetched /\ todo' = todo /\ errors' = errors
        /\ lastId' = lastId /\ events' = events
    BY <1>5 DEF BackfillRow, Enter, backfillVars, databaseVars
  <2>2. PICK r \in todo : \E form \in Rewritten(r.form) :
          Enter("backfill", [kind |-> "update", valid |-> TRUE, id |-> r.id,
                             decision |-> "backfilled", form |-> form])
    BY <1>5 DEF BackfillRow
  <2>3. PICK form \in Rewritten(r.form) :
          Enter("backfill", [kind |-> "update", valid |-> TRUE, id |-> r.id,
                             decision |-> "backfilled", form |-> form])
    BY <2>2
  <2>4. form # "null" /\ form = Normal(form)
    BY <2>3 DEF Rewritten, Normal
  <2>5. op'["backfill"].form = form /\ op'["router"] = op["router"]
    BY <1>1, <2>3 DEF Enter, CountersOK, Clients
  <2> QED BY <2>1, <2>4, <2>5 DEF CleanInv, Clean
<1>6. CASE BackfillStarts
  <2>1. /\ events' = events /\ lastId' = lastId /\ op' = op /\ errors' = 0
        /\ fetched' \subseteq DOMAIN events
        /\ todo' = {[id |-> i, form |-> events[i].form] : i \in fetched'}
    <3>1. /\ todo' = {[id |-> i, form |-> events[i].form] : i \in fetched'}
          /\ fetched' = {i \in DOMAIN events : Pending(i)}
      <4> DEFINE rows == {i \in DOMAIN events : Pending(i)}
      <4>1. /\ todo' = {[id |-> i, form |-> events[i].form] : i \in rows}
            /\ fetched' = rows
        BY <1>6 DEF BackfillStarts
      <4> HIDE DEF rows
      <4>2. todo' = {[id |-> i, form |-> events[i].form] : i \in fetched'}
        BY <4>1
      <4> QED BY <4>1, <4>2 DEF rows
    <3> QED BY <1>6, <3>1 DEF BackfillStarts, databaseVars, clientVars
  <2>2. ASSUME NEW i \in fetched'
        PROVE  \E r \in todo' : r.id = i
    <3> DEFINE row == [id |-> i, form |-> events[i].form]
    <3>1. row \in todo'
      BY <2>1
    <3>2. row.id = i
      OBVIOUS
    <3> HIDE DEF row
    <3> QED BY <3>1, <3>2
  <2>3. \A i \in fetched' : i \in Nat /\ i <= lastId'
    BY <1>1, <2>1 DEF TablesOK
  <2> QED BY <2>1, <2>2, <2>3 DEF CleanInv
<1>7. CASE BackfillRowFails
  <2>1. /\ bpc' = bpc /\ fetched' = fetched /\ errors' = errors + 1
        /\ lastId' = lastId /\ events' = events /\ op' = op
    BY <1>7 DEF BackfillRowFails, ErrorsAfter, databaseVars, clientVars
  <2>2. RowsStayClean
    BY <1>1, <2>1, SameRowsStayClean
  <2> QED BY <2>1, <2>2, CleanKept
<1>8. CASE BackfillEnds
  BY <1>8 DEF BackfillEnds, CleanInv, clientVars
<1>9. CASE KilledAfterCommit
  <2>1. RowsStayClean
    BY <1>9, CommittedRowsStayClean DEF KilledAfterCommit, Clients
  <2>2. /\ bpc' = bpc /\ fetched' = fetched /\ todo' = todo /\ errors' = errors
        /\ op'["router"].kind = "none" /\ op'["backfill"] = op["backfill"]
    BY <1>1, <1>9 DEF KilledAfterCommit, Dies, backfillVars, CountersOK, Clients
  <2> QED BY <2>1, <2>2, CleanKept
<1> QED BY <1>2, <1>3, <1>4, <1>5, <1>6, <1>7, <1>8, <1>9 DEF Next

(***************************************************************************)
(* A backfill that reports no error has left no row it fetched undecided,  *)
(* or in a form that the next start would change.                          *)
(***************************************************************************)
THEOREM CleanBackfills == Spec => []CleanBackfillLeavesNothing
<1>1. Init => CleanInv
  BY DEF Init, CleanInv, Clients
<1>2. StoreInv /\ CleanInv /\ [Next]_vars => CleanInv'
  <2>1. CASE UNCHANGED vars
    BY <2>1 DEF vars, databaseVars, clientVars, backfillVars, CleanInv, Clean
  <2> QED BY <2>1, CleanStep
<1>3. CleanInv => CleanBackfillLeavesNothing
  BY DEF CleanInv, Clean, CleanBackfillLeavesNothing
<1> QED BY <1>1, <1>2, <1>3, StoreInvHolds, PTL DEF Spec

-----------------------------------------------------------------------------
(***************************************************************************)
(* The types. That an id is one of Ids needs the number of calls that were *)
(* answered: a row is given an id only by a call that had none yet.        *)
(***************************************************************************)
RowsTyped ==
  /\ lastId <= Legacy + Len(result)
  /\ now <= MaxTime
  /\ \A i \in DOMAIN events : events[i] \in Row

LogTyped ==
  /\ actions \subseteq logged
  /\ \A a \in begun \cup logged : a.event \in Nat /\ a.executed \in Nat

ClientsTyped ==
  /\ writer \in Clients \cup {Nobody}
  /\ pc \in [Clients -> {"idle", "execute", "commit"}]
  /\ op \in [Clients -> Ops]
  /\ \A c \in Clients : pc[c] = "idle" <=> op[c].kind = "none"
  /\ attempt \in [Clients -> 1..MaxAttempts]
  /\ conn \in [Clients -> {"open", "closed"}]
  /\ fresh \in [Clients -> BOOLEAN] /\ met \in [Clients -> BOOLEAN]
  /\ copies \in [Clients -> Nat]
  /\ faults \in 0..MaxFaults

RestTyped ==
  /\ Len(result) <= MaxCalls
  /\ op["router"].kind = "insert" => Len(result) < MaxCalls
  /\ guardian \in BOOLEAN
  /\ bpc \in {"off", "run"} /\ errors \in Nat /\ fetched \subseteq Nat
  /\ \A r \in todo : r.id \in Nat \ {0} /\ r.form \in Forms

TypesInv == RowsTyped /\ LogTyped /\ ClientsTyped /\ RestTyped

LEMMA TypesSuffice == StoreInv /\ TypesInv => TypeOK
BY DEF StoreInv, TablesOK, CallsOK, WritersOK, TypesInv, RowsTyped, LogTyped, ClientsTyped,
       RestTyped, TypeOK

(* An operation has its type.                                              *)
LEMMA OpsAre ==
  /\ [kind |-> "none"] \in Ops
  /\ \A valid \in BOOLEAN, row \in Row :
       [kind |-> "insert", valid |-> valid, row |-> row] \in Ops
  /\ \A i \in Ids, d \in Decisions, f \in Forms :
       [kind |-> "update", valid |-> TRUE, id |-> i, decision |-> d, form |-> f] \in Ops
<1>1. [kind |-> "none"] \in Ops
  BY DEF Ops
<1>2. \A valid \in BOOLEAN, row \in Row :
        [kind |-> "insert", valid |-> valid, row |-> row] \in Ops
  BY DEF Ops
<1>3. \A i \in Ids, d \in Decisions, f \in Forms :
        [kind |-> "update", valid |-> TRUE, id |-> i, decision |-> d, form |-> f] \in Ops
  BY DEF Ops
<1> QED BY <1>1, <1>2, <1>3

LEMMA OpsFields ==
  ASSUME NEW o \in Ops
  PROVE  /\ o.kind \in {"none", "insert", "update"}
         /\ o.kind = "insert" => o.row \in Row
         /\ o.kind = "update" => o.decision \in Decisions /\ o.form \in Forms
BY DEF Ops

(***************************************************************************)
(* The clients.                                                            *)
(***************************************************************************)
LEMMA RetryTyped ==
  ASSUME NEW c \in Clients, StoreInv, TypesInv, WithRetry(c)
  PROVE  ClientsTyped'
<1>1. /\ MaxAttempts \in Nat \ {0} /\ MaxFaults \in Nat
      /\ faults \in 0..MaxFaults /\ writer \in Clients \cup {Nobody}
      /\ copies \in [Clients -> Nat]
  BY StoreAssumption DEF TypesInv, ClientsTyped
<1>2. faults' = faults \/ Fault(c)
  BY DEF WithRetry, Execute, Commit, Committed, Busy, CommitFails, Rejected, RejectedForGood,
         ReopenFails, Broken, databaseVars
<1>3. faults' \in 0..MaxFaults
  BY <1>1, <1>2 DEF Fault
<1>4. writer' \in {writer, Nobody, c}
  BY DEF WithRetry, Execute, Commit, Committed, Busy, CommitFails, Rejected, RejectedForGood,
         ReopenFails, Broken, Reopen, Unlocked, databaseVars
<1>5. \/ copies' = copies \/ copies' = [copies EXCEPT ![c] = 0]
      \/ copies' = [copies EXCEPT ![c] = @ + 1]
  BY DEF WithRetry, Execute, Commit, Committed, Busy, CommitFails, Rejected, RejectedForGood,
         ReopenFails, Broken
<1>6. copies' \in [Clients -> Nat] /\ writer' \in Clients \cup {Nobody}
  BY <1>1, <1>4, <1>5
(* The call ends.                                                          *)
<1>7. ASSUME NEW connection \in {"open", "closed"}, NEW ok \in BOOLEAN, Leave(c, ok, connection)
      PROVE  ClientsTyped'
  <2>1. /\ pc' = [pc EXCEPT ![c] = "idle"]
        /\ op' = [op EXCEPT ![c] = [kind |-> "none"]]
        /\ attempt' = [attempt EXCEPT ![c] = 1]
        /\ fresh' = [fresh EXCEPT ![c] = FALSE]
        /\ conn' = [conn EXCEPT ![c] = connection]
        /\ met' = [met EXCEPT ![c] = FALSE]
    BY <1>7 DEF Leave
  <2>2. [kind |-> "none"] \in Ops /\ 1 \in 1..MaxAttempts
    BY <1>1, OpsAre
  <2>3. op' \in [Clients -> Ops] /\ attempt' \in [Clients -> 1..MaxAttempts]
    BY <2>1, <2>2 DEF TypesInv, ClientsTyped
  <2>4. \A d \in Clients : pc'[d] = "idle" <=> op'[d].kind = "none"
    BY <2>1 DEF TypesInv, ClientsTyped
  <2>5. /\ pc' \in [Clients -> {"idle", "execute", "commit"}]
        /\ conn' \in [Clients -> {"open", "closed"}]
        /\ fresh' \in [Clients -> BOOLEAN] /\ met' \in [Clients -> BOOLEAN]
    BY <2>1 DEF TypesInv, ClientsTyped
  <2> QED BY <1>3, <1>6, <2>3, <2>4, <2>5 DEF ClientsTyped
(* It goes on.                                                             *)
<1>8. ASSUME pc[c] = "execute", op' = op,
             NEW next \in {"execute", "commit"}, pc' = [pc EXCEPT ![c] = next],
             attempt' = attempt
               \/ (attempt[c] < MaxAttempts /\ attempt' = [attempt EXCEPT ![c] = @ + 1]),
             conn' = conn \/ conn' = [conn EXCEPT ![c] = "closed"],
             fresh' = fresh \/ fresh' = [fresh EXCEPT ![c] = TRUE],
             met' = met \/ met' = [met EXCEPT ![c] = TRUE]
      PROVE  ClientsTyped'
  <2>1. attempt' \in [Clients -> 1..MaxAttempts]
    BY <1>1, <1>8 DEF TypesInv, ClientsTyped
  <2>2. \A d \in Clients : pc'[d] = "idle" <=> op'[d].kind = "none"
    BY <1>8 DEF TypesInv, ClientsTyped
  <2>3. /\ pc' \in [Clients -> {"idle", "execute", "commit"}]
        /\ conn' \in [Clients -> {"open", "closed"}]
        /\ fresh' \in [Clients -> BOOLEAN] /\ met' \in [Clients -> BOOLEAN]
        /\ op' \in [Clients -> Ops]
    BY <1>8 DEF TypesInv, ClientsTyped
  <2> QED BY <1>3, <1>6, <2>1, <2>2, <2>3 DEF ClientsTyped
<1>9. CASE Execute(c)
  <2>1. /\ pc[c] = "execute" /\ pc' = [pc EXCEPT ![c] = "commit"]
        /\ UNCHANGED <<op, attempt, conn, fresh, met>>
    BY <1>9 DEF Execute
  <2> QED BY <1>8, <2>1
<1>10. CASE \/ Commit(c) \/ CommitFails(c) \/ RejectedForGood(c) \/ ReopenFails(c) \/ Broken(c)
            \/ (Busy(c) /\ ~(attempt[c] < MaxAttempts))
  <2>1. conn[c] \in {"open", "closed"}
    BY DEF TypesInv, ClientsTyped
  <2>2. \E connection \in {"open", "closed"}, ok \in BOOLEAN : Leave(c, ok, connection)
    BY <1>10, <2>1 DEF Commit, CommitFails, RejectedForGood, ReopenFails, Broken, Busy,
       BusyRetry, Raises
  <2> QED BY <1>7, <2>2
<1>11. CASE (Busy(c) /\ attempt[c] < MaxAttempts) \/ Rejected(c)
  <2>1. pc[c] = "execute" /\ attempt[c] < MaxAttempts /\ Again(c)
    BY <1>11 DEF Busy, BusyAt, BusyRetry, Rejected
  <2>2. /\ conn' = conn \/ conn' = [conn EXCEPT ![c] = "closed"]
        /\ fresh' = fresh \/ fresh' = [fresh EXCEPT ![c] = TRUE]
        /\ met' = met \/ met' = [met EXCEPT ![c] = TRUE]
    BY <1>11 DEF Busy, BusyRetry, Rejected, Meets, Reopen
  <2> QED BY <1>8, <2>1, <2>2 DEF Again
<1> QED BY <1>9, <1>10, <1>11 DEF WithRetry

LEMMA EnterTyped ==
  ASSUME NEW c \in Clients, NEW o \in Ops, TypesInv, Enter(c, o), o.kind # "none"
  PROVE  ClientsTyped'
BY DEF TypesInv, ClientsTyped, Enter, databaseVars

(* A row of the router is new: its id will be within bounds.               *)
LEMMA InsertIsTyped ==
  ASSUME StoreInv, TypesInv, StoreEvent
  PROVE  ClientsTyped'
<1>1. PICK routed \in BOOLEAN, valid \in BOOLEAN :
        Enter("router",
          [kind |-> "insert", valid |-> valid,
           row |-> [call |-> Len(result) + 1,
                    decision |-> IF routed THEN "live" ELSE "null",
                    form |-> IF routed THEN "object" ELSE "null",
                    fp |-> FALSE, created |-> now]])
  BY DEF StoreEvent
<1> DEFINE decision == IF routed THEN "live" ELSE "null"
           form == IF routed THEN "object" ELSE "null"
           row == [call |-> Len(result) + 1, decision |-> decision, form |-> form,
                   fp |-> FALSE, created |-> now]
<1>2. Len(result) + 1 \in 0..MaxCalls /\ now \in 0..MaxTime
  BY StoreAssumption DEF StoreEvent, StoreInv, CallsOK, TablesOK, TypesInv, RowsTyped
<1>3. decision \in Decisions /\ form \in Forms
  BY DEF Decisions, Forms
<1>4. row \in Row
  <2> HIDE DEF decision, form
  <2> QED BY <1>2, <1>3 DEF Row
<1> HIDE DEF row
<1>5. [kind |-> "insert", valid |-> valid, row |-> row] \in Ops
  BY <1>4, OpsAre
<1>6. Enter("router", [kind |-> "insert", valid |-> valid, row |-> row])
  BY <1>1 DEF row
<1> QED BY <1>5, <1>6, EnterTyped DEF Clients

LEMMA OthersTyped ==
  ASSUME StoreInv, TypesInv,
         \/ Start \/ UpdateStoredDecision \/ Crash \/ KilledAfterCommit \/ Maintain
         \/ PostVerdict \/ LogAction \/ MarkFalsePositive \/ Tick \/ BackfillStarts \/ BackfillRow \/ BackfillRowFails
         \/ BackfillEnds \/ UNCHANGED vars
  PROVE  ClientsTyped'
<1>1. lastId \in Nat /\ lastId <= Legacy + MaxCalls /\ Legacy \in Nat /\ MaxCalls \in Nat
  BY StoreAssumption DEF StoreInv, TablesOK, CallsOK, TypesInv, RowsTyped, RestTyped
<1>2. CASE UpdateStoredDecision
  <2>1. stored \in Ids
    BY <1>1, <1>2 DEF UpdateStoredDecision, StoreInv, WritersOK, Live, Ids
  <2>2. [kind |-> "update", valid |-> TRUE, id |-> stored,
         decision |-> "downgraded", form |-> "null"] \in Ops
    BY <2>1, OpsAre DEF Decisions, Forms
  <2> QED BY <1>2, <2>2, EnterTyped DEF UpdateStoredDecision, Clients
<1>3. CASE BackfillRow
  <2>1. PICK r \in todo : \E form \in Rewritten(r.form) :
          Enter("backfill", [kind |-> "update", valid |-> TRUE, id |-> r.id,
                             decision |-> "backfilled", form |-> form])
    BY <1>3 DEF BackfillRow
  <2>2. PICK form \in Rewritten(r.form) :
          Enter("backfill", [kind |-> "update", valid |-> TRUE, id |-> r.id,
                             decision |-> "backfilled", form |-> form])
    BY <2>1
  <2>3. r.id \in Ids /\ form \in Forms
    <3>1. r.id \in Nat \ {0} /\ r.id <= lastId
      BY DEF StoreInv, WritersOK, Open, TypesInv, RestTyped
    <3>2. form \in Forms
      <4>1. r.form \in Forms
        BY DEF TypesInv, RestTyped
      <4> QED BY <4>1 DEF Rewritten, Normal, Forms
    <3> QED BY <1>1, <3>1, <3>2 DEF Ids
  <2>4. [kind |-> "update", valid |-> TRUE, id |-> r.id,
         decision |-> "backfilled", form |-> form] \in Ops
    BY <2>3, OpsAre DEF Decisions
  <2> QED BY <2>2, <2>4, EnterTyped DEF Clients
<1>4. CASE Crash \/ KilledAfterCommit
  <2>1. [kind |-> "none"] \in Ops /\ 1 \in 1..MaxAttempts
    BY OpsAre, StoreAssumption
  <2>2. Dies
    BY <1>4 DEF Crash, KilledAfterCommit
  <2> QED BY <2>1, <2>2 DEF Dies, TypesInv, ClientsTyped, Unlocked, Clients
<1>5. CASE Start \/ Maintain \/ PostVerdict \/ LogAction \/ MarkFalsePositive \/ Tick
           \/ BackfillStarts \/ BackfillRowFails \/ BackfillEnds \/ UNCHANGED vars
  <2>1. /\ UNCHANGED <<pc, op, attempt, fresh, copies, met, faults>>
        /\ writer' \in {writer, Nobody}
        /\ conn' = conn \/ \E c \in Clients : conn' = [conn EXCEPT ![c] = "open"]
    BY <1>5 DEF Start, Maintain, PostVerdict, LogAction, MarkFalsePositive, Tick,
       BackfillStarts, BackfillRowFails, BackfillEnds, vars, clientVars, databaseVars,
       Unlocked, Clients
  <2> QED BY <2>1 DEF TypesInv, ClientsTyped
<1> QED BY <1>2, <1>3, <1>4, <1>5

(***************************************************************************)
(* The rows.                                                               *)
(***************************************************************************)
LEMMA RowTyped ==
  ASSUME NEW e \in Row
  PROVE  /\ \A f \in Forms : [e EXCEPT !.form = f] \in Row
         /\ \A d \in Decisions : [e EXCEPT !.decision = d] \in Row
         /\ [e EXCEPT !.fp = TRUE] \in Row
         /\ e.form \in Forms
BY DEF Row

LEMMA RowsStep ==
  ASSUME StoreInv, TypesInv, [Next]_vars
  PROVE  \A i \in DOMAIN events' : events'[i] \in Row
<1>1. \A i \in DOMAIN events : events[i] \in Row
  BY DEF TypesInv, RowsTyped
<1>2. CASE events' = events
  BY <1>1, <1>2
<1>3. CASE Start
  <2>1. \A i \in DOMAIN events : Normal(events[i].form) \in Forms
    <3>1. \A f \in Forms : Normal(f) \in Forms
      BY DEF Normal, Forms
    <3> QED BY <1>1, <3>1, RowTyped
  <2>2. events' = [i \in DOMAIN events |->
                     [events[i] EXCEPT !.form = Normal(events[i].form)]]
    BY <1>3 DEF Start
  <2> QED BY <1>1, <2>1, <2>2, RowTyped
<1>4. CASE Maintain
  BY <1>1, <1>4 DEF Maintain
<1>5. CASE MarkFalsePositive
  <2>1. PICK i \in DOMAIN events : events' = [events EXCEPT ![i].fp = TRUE]
    BY <1>5 DEF MarkFalsePositive
  <2>2. events' = [events EXCEPT ![i] = [events[i] EXCEPT !.fp = TRUE]]
    BY <2>1
  <2>3. [events[i] EXCEPT !.fp = TRUE] \in Row
    BY <1>1, RowTyped
  <2> QED BY <1>1, <2>2, <2>3
<1>6. ASSUME NEW c \in Clients, Committed(c)
      PROVE  \A i \in DOMAIN events' : events'[i] \in Row
  <2>1. op[c] \in Ops /\ op[c].kind # "none"
    BY <1>6 DEF Committed, TypesInv, ClientsTyped
  <2>2. CASE op[c].kind = "insert"
    <3>1. op[c].row \in Row
      BY <2>1, <2>2, OpsFields
    <3> QED BY <1>1, <1>6, <2>2, <3>1 DEF Committed, Applied
  <2>3. CASE op[c].kind = "update"
    <3>1. op[c].decision \in Decisions /\ op[c].form \in Forms
      BY <2>1, <2>3, OpsFields
    <3> DEFINE d == op[c].decision
               f(i) == IF op[c].form = "null" THEN events[i].form ELSE op[c].form
    <3>2. events' = [i \in DOMAIN events |->
                       IF i # op[c].id THEN events[i]
                       ELSE [events[i] EXCEPT !.decision = d, !.form = f(i)]]
      BY <1>6, <2>3 DEF Committed, Applied
    <3>3. \A i \in DOMAIN events : d \in Decisions /\ f(i) \in Forms
      BY <1>1, <3>1, RowTyped
    <3> HIDE DEF d, f
    <3>4. \A i \in DOMAIN events : [events[i] EXCEPT !.decision = d, !.form = f(i)] \in Row
      BY <1>1, <3>3 DEF Row
    <3> QED BY <1>1, <3>2, <3>4
  <2> QED BY <2>1, <2>2, <2>3, OpsFields
<1>7. CASE UNCHANGED vars
  BY <1>2, <1>7 DEF vars, databaseVars
<1>8. CASE Next
  <2>1. CASE \E c \in Clients : WithRetry(c)
    <3>1. PICK c \in Clients : WithRetry(c)
      BY <2>1
    <3>2. Committed(c) \/ events' = events
      BY <3>1 DEF WithRetry, Execute, Commit, Busy, CommitFails, Rejected, RejectedForGood,
         ReopenFails, Broken, databaseVars
    <3> QED BY <1>2, <1>6, <3>2
  <2>2. CASE ~\E c \in Clients : WithRetry(c)
    <3>1. \/ Start \/ Maintain \/ MarkFalsePositive \/ Committed("router")
          \/ events' = events
      BY <1>8, <2>2 DEF Next, StoreEvent, UpdateStoredDecision, Crash, KilledAfterCommit,
         PostVerdict, LogAction, Tick, BackfillStarts, BackfillRow, BackfillRowFails,
         BackfillEnds, Enter, databaseVars
    <3> QED BY <1>2, <1>3, <1>4, <1>5, <1>6, <3>1 DEF Clients
  <2> QED BY <2>1, <2>2
<1> QED BY <1>7, <1>8

(***************************************************************************)
(* Ids, answers and the rest.                                              *)
(***************************************************************************)
(* An id is given out by the commit of an insert, with its answer.         *)
LEMMA IdsStep ==
  ASSUME StoreInv, TypesInv, [Next]_vars
  PROVE  /\ lastId' <= Legacy + Len(result')
         /\ now' <= MaxTime
<1>1. /\ lastId \in Nat /\ lastId <= Legacy + Len(result) /\ now \in Nat /\ now <= MaxTime
      /\ result \in Seq({"stored", "refused", "crashed"}) /\ Len(result) \in Nat
      /\ Legacy \in Nat /\ MaxTime \in Nat
  BY StoreAssumption DEF StoreInv, TablesOK, CallsOK, TypesInv, RowsTyped
<1>2. result' = result \/ \E r : result' = Append(result, r)
  <2>1. CASE \E c \in Clients : WithRetry(c)
    BY <2>1 DEF WithRetry, Execute, Commit, Committed, Busy, BusyRetry, CommitFails, Rejected,
       RejectedForGood, ReopenFails, Broken, Raises, Again, Leave, Settle, restVars
  <2>2. CASE ~\E c \in Clients : WithRetry(c)
    BY <2>2 DEF Next, vars, Start, StoreEvent, UpdateStoredDecision, Crash,
       KilledAfterCommit, Dies, Maintain, PostVerdict, LogAction, MarkFalsePositive, Tick,
       BackfillStarts, BackfillRow, BackfillRowFails, BackfillEnds, restVars
  <2> QED BY <2>1, <2>2
<1>3. Len(result') = Len(result) \/ Len(result') = Len(result) + 1
  BY <1>1, <1>2
<1>4. lastId' = lastId
      \/ (lastId' = lastId + 1 /\ \E r : result' = Append(result, r))
  <2>1. ASSUME NEW c \in Clients, WithRetry(c)
        PROVE  \/ lastId' = lastId
               \/ lastId' = lastId + 1 /\ \E r : result' = Append(result, r)
    <3>1. CASE Commit(c) /\ op[c].kind = "insert"
      <4>1. c = "router" /\ copies[c] = 1
        BY <3>1 DEF StoreInv, WritersOK, BackfillOp, CountersOK, Commit, Committed, Clients
      <4> QED BY <3>1, <4>1 DEF Commit, Committed, Applied, Leave, Settle
    <3>2. CASE ~(Commit(c) /\ op[c].kind = "insert")
      BY <2>1, <3>2 DEF WithRetry, Execute, Commit, Committed, Applied, Busy, CommitFails, Rejected,
         RejectedForGood, ReopenFails, Broken, databaseVars
    <3> QED BY <3>1, <3>2
  <2>2. CASE ~\E c \in Clients : WithRetry(c)
    <3>1. CASE KilledAfterCommit
      <4>1. Committed("router") /\ Dies
        BY <3>1 DEF KilledAfterCommit
      <4>2. CASE op["router"].kind = "insert"
        <5>1. copies["router"] = 1
          BY <4>1, <4>2 DEF StoreInv, WritersOK, CountersOK, Committed, Clients
        <5> QED BY <4>1, <4>2, <5>1 DEF Committed, Applied, Dies
      <4>3. CASE op["router"].kind # "insert"
        BY <4>1, <4>3 DEF Committed, Applied
      <4> QED BY <4>2, <4>3
    <3>2. CASE ~KilledAfterCommit
      BY <2>2, <3>2 DEF Next, vars, databaseVars, Start, StoreEvent, UpdateStoredDecision,
         Crash, Maintain, PostVerdict, LogAction, MarkFalsePositive, Tick, BackfillStarts,
         BackfillRow, BackfillRowFails, BackfillEnds, Enter
    <3> QED BY <3>1, <3>2
  <2> QED BY <2>1, <2>2
<1>5. now' = now \/ (now < MaxTime /\ now' = now + 1)
  <2>1. CASE \E c \in Clients : WithRetry(c)
    BY <2>1 DEF WithRetry, Execute, Commit, Committed, Busy, CommitFails, Rejected, RejectedForGood,
       ReopenFails, Broken
  <2>2. CASE ~\E c \in Clients : WithRetry(c)
    BY <2>2 DEF Next, vars, Start, StoreEvent, UpdateStoredDecision, Crash,
       KilledAfterCommit, Dies, Maintain, PostVerdict, LogAction, MarkFalsePositive, Tick,
       BackfillStarts, BackfillRow, BackfillRowFails, BackfillEnds, Enter
  <2> QED BY <2>1, <2>2
<1>6. (\E r : result' = Append(result, r)) => Len(result') = Len(result) + 1
  BY <1>1
<1> QED BY <1>1, <1>3, <1>4, <1>5, <1>6

(* A call that is at work has not been answered: the answers and it are at *)
(* most as many as there are calls.                                        *)
LEMMA AnswersStep ==
  ASSUME StoreInv, TypesInv, [Next]_vars
  PROVE  /\ Len(result') <= MaxCalls
         /\ op'["router"].kind = "insert" => Len(result') < MaxCalls
<1>1. /\ Len(result) <= MaxCalls
      /\ op["router"].kind = "insert" => Len(result) < MaxCalls
      /\ result \in Seq({"stored", "refused", "crashed"})
      /\ Len(result) \in Nat /\ MaxCalls \in Nat
      /\ DOMAIN op = Clients
  BY StoreAssumption
     DEF StoreInv, CallsOK, WritersOK, CountersOK, TypesInv, RestTyped
<1>2. CASE result' = result /\ (op'["router"] = op["router"] \/ op'["router"].kind # "insert")
  BY <1>1, <1>2
<1>3. ASSUME NEW r, result' = Append(result, r), op["router"].kind = "insert",
             op'["router"].kind = "none"
      PROVE  /\ Len(result') <= MaxCalls
             /\ op'["router"].kind = "insert" => Len(result') < MaxCalls
  BY <1>1, <1>3
<1>4. CASE StoreEvent
  BY <1>1, <1>4 DEF StoreEvent, restVars
<1>5. ASSUME NEW c \in Clients, WithRetry(c)
      PROVE  /\ Len(result') <= MaxCalls
             /\ op'["router"].kind = "insert" => Len(result') < MaxCalls
  <2>1. \/ op' = op /\ result' = result
        \/ \E connection, ok : Leave(c, ok, connection)
    BY <1>5 DEF WithRetry, Execute, Commit, Committed, Busy, BusyRetry, CommitFails, Rejected,
       RejectedForGood, ReopenFails, Broken, Raises, Again, restVars
  <2>2. ASSUME NEW connection, NEW ok, Leave(c, ok, connection)
        PROVE  \/ result' = result /\ (op'["router"] = op["router"] \/ op'["router"].kind # "insert")
               \/ /\ op["router"].kind = "insert" /\ op'["router"].kind = "none"
                  /\ \E r : result' = Append(result, r)
    <3>1. op' = [op EXCEPT ![c] = [kind |-> "none"]] /\ Settle(c, ok)
      BY <2>2 DEF Leave
    <3>2. CASE c = "router"
      BY <1>1, <3>1, <3>2 DEF Settle, Clients
    <3>3. CASE c = "backfill"
      BY <1>1, <3>1, <3>3 DEF Settle, restVars, Clients
    <3> QED BY <3>2, <3>3 DEF Clients
  <2> QED BY <1>2, <1>3, <2>1, <2>2
<1>6. CASE Crash \/ KilledAfterCommit
  BY <1>1, <1>2, <1>3, <1>6 DEF Crash, KilledAfterCommit, Dies, Clients
<1>7. CASE BackfillRow
  BY <1>1, <1>2, <1>7 DEF BackfillRow, Enter, restVars, Clients
<1>8. CASE UpdateStoredDecision
  BY <1>1, <1>2, <1>8 DEF UpdateStoredDecision, Enter, Clients
<1>9. CASE Start \/ Maintain \/ PostVerdict \/ LogAction \/ MarkFalsePositive \/ Tick
           \/ BackfillStarts \/ BackfillRowFails \/ BackfillEnds \/ UNCHANGED vars
  BY <1>2, <1>9 DEF Start, Maintain, PostVerdict, LogAction, MarkFalsePositive, Tick,
     BackfillStarts, BackfillRowFails, BackfillEnds, vars, clientVars, restVars
<1> QED BY <1>4, <1>5, <1>6, <1>7, <1>8, <1>9 DEF Next

LEMMA LogTypedStep ==
  ASSUME StoreInv, TypesInv, [Next]_vars
  PROVE  LogTyped'
<1>1. CASE LogAction
  BY <1>1 DEF LogAction, TypesInv, LogTyped, StoreInv, TablesOK, WritersOK
<1>2. CASE Maintain
  BY <1>2 DEF Maintain, TypesInv, LogTyped
<1>3. CASE UNCHANGED <<actions, begun, logged>>
  BY <1>3 DEF TypesInv, LogTyped
<1>4. ASSUME NEW c \in Clients, WithRetry(c) PROVE UNCHANGED <<actions, begun, logged>>
  BY <1>4 DEF WithRetry, Execute, Commit, Committed, Busy, CommitFails, Rejected, RejectedForGood,
     ReopenFails, Broken, databaseVars
<1>5. CASE PostVerdict
  <2>1. stored \in Nat /\ now \in Nat
    BY DEF StoreInv, TablesOK, WritersOK
  <2> QED BY <1>5, <2>1 DEF PostVerdict, TypesInv, LogTyped
<1> QED BY <1>1, <1>2, <1>3, <1>4, <1>5
        DEF Next, vars, databaseVars, Start, StoreEvent, UpdateStoredDecision, Crash,
            KilledAfterCommit, Dies, MarkFalsePositive, Tick, BackfillStarts, BackfillRow, BackfillRowFails,
            BackfillEnds, Enter

LEMMA RestTypedStep ==
  ASSUME StoreInv, TypesInv, [Next]_vars
  PROVE  RestTyped'
<1>1. /\ guardian \in BOOLEAN /\ bpc \in {"off", "run"} /\ errors \in Nat
      /\ fetched \subseteq Nat /\ \A r \in todo : r.id \in Nat \ {0} /\ r.form \in Forms
  BY DEF TypesInv, RestTyped
<1> DEFINE Rest == /\ guardian' \in BOOLEAN /\ bpc' \in {"off", "run"} /\ errors' \in Nat
                   /\ fetched' \subseteq Nat
                   /\ \A r \in todo' : r.id \in Nat \ {0} /\ r.form \in Forms
<1>2. ASSUME NEW c \in Clients, WithRetry(c) PROVE Rest
  <2>1. \/ UNCHANGED <<guardian, backfillVars>>
        \/ \E connection, ok : Leave(c, ok, connection)
    BY <1>2 DEF WithRetry, Execute, Commit, Committed, Busy, BusyRetry, CommitFails, Rejected,
       RejectedForGood, ReopenFails, Broken, Raises, Again, restVars
  <2>2. ASSUME NEW connection, NEW ok, Leave(c, ok, connection)
        PROVE  /\ UNCHANGED <<guardian, bpc, fetched>> /\ errors' \in {errors, errors + 1}
               /\ todo' \subseteq todo
    BY <2>2 DEF Leave, Settle, ErrorsAfter, restVars
  <2>3. CASE UNCHANGED <<guardian, backfillVars>>
    BY <1>1, <2>3 DEF backfillVars
  <2>4. CASE \E connection, ok : Leave(c, ok, connection)
    <3>1. /\ UNCHANGED <<guardian, bpc, fetched>> /\ errors' \in {errors, errors + 1}
          /\ todo' \subseteq todo
      BY <2>2, <2>4
    <3> QED BY <1>1, <3>1
  <2> QED BY <2>1, <2>3, <2>4
<1>3. ASSUME BackfillStarts PROVE Rest
  <2>1. \A i \in DOMAIN events : i \in Nat \ {0} /\ events[i].form \in Forms
    <3>1. DOMAIN events \subseteq Nat \ {0}
      BY DEF StoreInv, TablesOK
    <3>2. \A i \in DOMAIN events : events[i].form \in Forms
      BY RowTyped DEF TypesInv, RowsTyped
    <3> QED BY <3>1, <3>2
  <2>2. /\ \A r \in todo' : \E i \in DOMAIN events : r.id = i /\ r.form = events[i].form
        /\ fetched' \subseteq DOMAIN events /\ bpc' = "run" /\ errors' = 0
        /\ guardian' = guardian
    BY <1>3 DEF BackfillStarts, restVars
  <2> QED BY <1>1, <2>1, <2>2
<1>4. ASSUME Start \/ Dies \/ BackfillRowFails \/ BackfillEnds PROVE Rest
  <2>1. /\ guardian' \in {guardian, TRUE, FALSE} /\ bpc' \in {bpc, "off"}
        /\ fetched' \in {fetched, {}} /\ errors' \in {errors, errors + 1, 0}
        /\ todo' \subseteq todo
    BY <1>4 DEF Start, Dies, BackfillRowFails, BackfillEnds, ErrorsAfter, restVars,
       backfillVars
  <2>2. guardian' \in BOOLEAN /\ bpc' \in {"off", "run"}
    BY <1>1, <2>1
  <2>3. errors' \in Nat
    BY <1>1, <2>1
  <2>4. fetched' \subseteq Nat
    BY <1>1, <2>1
  <2>5. \A r \in todo' : r.id \in Nat \ {0} /\ r.form \in Forms
    BY <1>1, <2>1
  <2> QED BY <2>2, <2>3, <2>4, <2>5
<1>5. ASSUME UNCHANGED <<guardian, backfillVars>> PROVE Rest
  BY <1>1, <1>5 DEF backfillVars
<1>6. Rest
  BY <1>2, <1>3, <1>4, <1>5
     DEF Next, vars, restVars, StoreEvent, UpdateStoredDecision, Crash, KilledAfterCommit,
         Maintain, PostVerdict, LogAction, MarkFalsePositive, Tick, BackfillRow
<1> QED BY <1>6, AnswersStep DEF RestTyped

LEMMA ClientsTypedStep ==
  ASSUME StoreInv, TypesInv, [Next]_vars
  PROVE  ClientsTyped'
BY RetryTyped, InsertIsTyped, OthersTyped DEF Next

LEMMA TypesInit ==
  ASSUME Init
  PROVE  TypesInv
<1>1. Legacy \in Nat /\ MaxTime \in Nat /\ MaxCalls \in Nat /\ MaxFaults \in Nat
      /\ 1 \in 1..MaxAttempts /\ LegacyForms \subseteq Forms
  BY StoreAssumption
<1>2. result = <<>> /\ Len(result) = 0
  BY DEF Init
<1>3. \A i \in DOMAIN events : events[i] \in Row
  <2>1. ASSUME NEW e \in [call : {0}, decision : {"null"}, form : LegacyForms,
                          fp : {FALSE}, created : {0}]
        PROVE  e \in Row
    <3>1. 0 \in 0..MaxCalls /\ 0 \in 0..MaxTime /\ "null" \in Decisions
      BY <1>1 DEF Decisions
    <3> QED BY <1>1, <3>1 DEF Row
  <2> QED BY <2>1 DEF Init
<1>4. ClientsTyped
  <2>1. [kind |-> "none"] \in Ops
    BY OpsAre
  <2> QED BY <1>1, <2>1 DEF Init, ClientsTyped
<1>5. RestTyped
  <2>1. op["router"].kind = "none" /\ todo = {} /\ fetched = {} /\ errors = 0 /\ bpc = "off"
        /\ guardian = FALSE
    BY DEF Init, Clients
  <2>2. Len(result) <= MaxCalls
    BY <1>1, <1>2
  <2>3. op["router"].kind = "insert" => Len(result) < MaxCalls
    BY <1>1, <1>2, <2>1
  <2>4. guardian \in BOOLEAN /\ bpc \in {"off", "run"}
    BY <2>1
  <2>5. errors \in Nat /\ fetched \subseteq Nat
    BY <2>1
  <2>6. \A r \in todo : r.id \in Nat \ {0} /\ r.form \in Forms
    BY <2>1
  <2> QED BY <2>2, <2>3, <2>4, <2>5, <2>6 DEF RestTyped
<1> QED BY <1>1, <1>2, <1>3, <1>4, <1>5 DEF Init, TypesInv, RowsTyped, LogTyped

(* Every variable has its type, whatever is retried or killed: the ids the *)
(* router and backfill work with are ids that were given out, and no call  *)
(* makes more attempts than it may.                                        *)
THEOREM StoreIsTyped == Spec => []TypeOK
<1>1. StoreInv /\ TypesInv /\ [Next]_vars => TypesInv'
  BY RowsStep, IdsStep, AnswersStep, LogTypedStep, RestTypedStep, ClientsTypedStep
     DEF TypesInv, RowsTyped
<1>2. Spec => []TypesInv
  BY <1>1, StoreInvHolds, TypesInit, PTL DEF Spec
<1> QED BY <1>2, StoreInvHolds, TypesSuffice, PTL
=============================================================================
