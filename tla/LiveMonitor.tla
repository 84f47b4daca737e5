---------------------------- MODULE LiveMonitor ----------------------------
(***************************************************************************)
(* live_monitor.py: what record_event remembers of attackers, patterns and *)
(* rules, how it decides which events a human is alerted of, and the       *)
(* records it writes for the dashboard. The router thread is its caller.   *)
(*                                                                         *)
(* Times are those the events carry: events of the ingest server bring     *)
(* their own, so they come in any order. A source is an attacker with one  *)
(* pattern of attack; it stands for attacker, pattern and whole            *)
(* fingerprint, which live in stores of one kind each.                     *)
(***************************************************************************)
EXTENDS Naturals, Sequences, FiniteSets, SequencesExt

CONSTANTS
  Sources,        \* fingerprints
  Safelisted,     \* those the operator put on monitor_safelist
  Cap,            \* monitor_max_tracked_entities
  RepeatWindow, RecentWindow, NoisyWindow, Cooldown, Bucket,   \* in time units
  NoisyThreshold,
  MaxTime,        \* bound of the model: timestamps
  MaxEvents,      \* bound of the model: calls of record_event
  MayFail         \* may a write of the structured log raise?

ASSUME MonitorAssumption ==
  /\ Safelisted \subseteq Sources
  /\ Cap \in Nat \ {0} /\ NoisyThreshold \in Nat \ {0} /\ Bucket \in Nat \ {0}
  /\ RecentWindow \in Nat /\ NoisyWindow \in Nat /\ Cooldown \in Nat
  /\ RepeatWindow \in Nat /\ RepeatWindow >= RecentWindow
  /\ MaxTime \in Nat /\ MaxEvents \in Nat /\ MayFail \in BOOLEAN

(* confidence: under live_confidence_threshold, up to                      *)
(* possible_false_positive_confidence_threshold, or above it.              *)
Confidences == {"low", "middle", "high"}
Times == 0..MaxTime

VARIABLES
  known,       \* _known_attackers, _known_patterns: keys, oldest insertion first
  touched,     \* _attacker_windows, _pattern_windows: keys, last touched last
  window,      \* source -> its deque of times, empty when it is not in touched
  ruleWindow,  \* _rule_windows, of one threat class
  emitKeys,    \* _emit_history: keys, oldest insertion first
  emitAt,      \* _emit_history: source -> time of its last alert
  fpQueue,     \* _possible_false_positive_queue: incident ids
  counts       \* total_events and the other counters

(* For the properties: every record, and which of them reached the log.    *)
VARIABLES records, written, alerts

monitorVars == <<known, touched, window, ruleWindow, emitKeys, emitAt, fpQueue, counts,
                 records, written, alerts>>

Counters == {"total", "new", "repeat", "blocked", "suppressed", "possible_fp"}

MonitorInit ==
  /\ known = <<>> /\ touched = <<>> /\ ruleWindow = <<>>
  /\ window = [s \in Sources |-> <<>>]
  /\ emitKeys = <<>> /\ emitAt = [s \in Sources |-> 0]
  /\ fpQueue = <<>>
  /\ counts = [c \in Counters |-> 0]
  /\ records = <<>> /\ written = <<>> /\ alerts = <<>>

-----------------------------------------------------------------------------
(* _cap_store: the front of the ordered dictionary goes.                   *)
CappedLateBug(keys) == IF Len(keys) > Cap + 1 THEN Tail(keys) ELSE keys
CappedBug(keys) == IF Len(keys) >= Cap THEN Tail(keys) ELSE keys
Capped(keys) == IF Len(keys) > Cap THEN Tail(keys) ELSE keys

(* store[key] = value: a key that is there keeps its place.                *)
Stored(keys, k) == IF k \in ToSet(keys) THEN keys ELSE Capped(Append(keys, k))

(* store.pop(key), then store[key] = value.                                *)
Moved(keys, k) == Capped(Append(RemoveFirst(keys, k), k))

(* The front is dropped while it is older than the window; a time that is  *)
(* out of order may stay behind a younger one.                             *)
TrimmedBug(values, t, span) ==
  LET old == {i \in DOMAIN values : \A j \in 1..i : values[j] + span <= t}
  IN SubSeq(values, Cardinality(old) + 1, Len(values))

Trimmed(values, t, span) ==
  LET old == {i \in DOMAIN values : \A j \in 1..i : values[j] + span < t}
  IN SubSeq(values, Cardinality(old) + 1, Len(values))

(* _touch_window and _count_since.                                         *)
Touch(values, t, span) == Append(Trimmed(values, t, span), t)
CountSince(values, t, span) ==
  Cardinality({i \in DOMAIN values : values[i] + span >= t})

RuleSpan == IF NoisyWindow > RepeatWindow THEN NoisyWindow ELSE RepeatWindow

Incident(s, t) == <<s, t \div Bucket>>

-----------------------------------------------------------------------------
(***************************************************************************)
(* _evaluate_suppression: the reasons not to alert.                        *)
(***************************************************************************)
LastEmitBug(s) == IF window[s] # <<>> THEN <<Last(window[s])>> ELSE <<>>

(* emit_history.get: at most one time.                                     *)
LastEmit(s) == IF s \in ToSet(emitKeys) THEN <<emitAt[s]>> ELSE <<>>

CoolingBug(s, t) == FALSE
Cooling(s, t) ==
  LastEmit(s) # <<>> /\ Cooldown > 0 /\ t < LastEmit(s)[1] + Cooldown

Reasons(s, t, confidence, hits) ==
  {r \in {"allowlisted", "below_confidence_threshold", "dedup_cooldown",
          "noisy_rule_dampening"} :
     CASE r = "allowlisted" -> s \in Safelisted
       [] r = "below_confidence_threshold" -> confidence = "low"
       [] r = "dedup_cooldown" -> Cooling(s, t)
       [] r = "noisy_rule_dampening" -> hits >= NoisyThreshold /\ confidence # "high"}

PossibleFp(reasons) ==
  reasons \cap {"below_confidence_threshold", "noisy_rule_dampening"} # {}

FpQueueAfter(incident, possible) ==
  IF possible THEN Stored(fpQueue, incident) ELSE RemoveFirst(fpQueue, incident)

Bump(which) == [c \in Counters |-> IF c \in which THEN counts[c] + 1 ELSE counts[c]]

(* The alert is the last thing record_event does, after the structured log *)
(* was written.                                                            *)
Alert(s, t) ==
  /\ alerts' = Append(alerts, [source |-> s, time |-> t])
  /\ emitKeys' = Stored(emitKeys, s)
  /\ emitAt' = [emitAt EXCEPT ![s] = t]

(***************************************************************************)
(* record_event, for an event of source s at time t.                       *)
(***************************************************************************)
RecordEvent(s, t, confidence, policyAllowed) ==
  /\ Len(records) < MaxEvents
  /\ known' = Stored(known, s)
  /\ touched' = Moved(touched, s)
  /\ window' = [x \in Sources |->
       IF x = s THEN Touch(window[s], t, RepeatWindow)
       ELSE IF x \in ToSet(touched') THEN window[x] ELSE <<>>]
  /\ ruleWindow' = Touch(ruleWindow, t, RuleSpan)
  /\ LET hits     == CountSince(ruleWindow', t, NoisyWindow)
         reasons  == Reasons(s, t, confidence, hits)
         possible == PossibleFp(reasons)
         status   == IF s \in ToSet(known) THEN "repeat" ELSE "new"
     IN
     /\ counts' = Bump({"total", status}
                       \cup (IF policyAllowed THEN {} ELSE {"blocked"})
                       \cup (IF reasons # {} THEN {"suppressed"} ELSE {})
                       \cup (IF possible THEN {"possible_fp"} ELSE {}))
     /\ fpQueue' = FpQueueAfter(Incident(s, t), possible)
     /\ records' = Append(records,
          [source |-> s, time |-> t, status |-> status, allowed |-> policyAllowed,
           severity |-> confidence,
           action |-> CASE ~policyAllowed -> "ALERT"
                        [] confidence = "high" -> "BLOCK"
                        [] OTHER -> "LOG",
           recent |-> CountSince(window'[s], t, RecentWindow),
           repeat |-> CountSince(window'[s], t, RepeatWindow),
           suppressed |-> reasons # {}, possible |-> possible,
           other |-> reasons \ {"dedup_cooldown"} # {}])
     /\ \/ /\ written' = Append(written, Len(records'))
           /\ IF reasons = {} THEN Alert(s, t) ELSE UNCHANGED <<alerts, emitKeys, emitAt>>
        \/ /\ MayFail
           /\ UNCHANGED <<written, alerts, emitKeys, emitAt>>

MonitorNext ==
  \E s \in Sources, t \in Times, confidence \in Confidences, allowed \in BOOLEAN :
    RecordEvent(s, t, confidence, allowed)

MonitorSpec == MonitorInit /\ [][MonitorNext]_monitorVars

-----------------------------------------------------------------------------
(***************************************************************************)
(* Properties.                                                             *)
(***************************************************************************)
Seen(i) == {records[j].source : j \in 1..i}
CountRecords(P(_)) == Cardinality({i \in DOMAIN records : P(records[i])})

MonitorTypeOK ==
  /\ known \in Seq(Sources) /\ touched \in Seq(Sources) /\ emitKeys \in Seq(Sources)
  /\ Len(known) <= Cap /\ Len(touched) <= Cap /\ Len(emitKeys) <= Cap
  /\ Len(fpQueue) <= Cap
  /\ IsInjective(known) /\ IsInjective(touched) /\ IsInjective(emitKeys)
  /\ \A s \in Sources : s \in ToSet(touched) <=> window[s] # <<>>
  /\ window \in [Sources -> Seq(Times)] /\ ruleWindow \in Seq(Times)
  /\ emitAt \in [Sources -> Times]
  /\ counts \in [Counters -> 0..MaxEvents]

(* The counters agree with what was recorded. While no more sources came   *)
(* than the stores hold, each was new exactly once.                        *)
CountersAddUp ==
  /\ counts["total"] = Len(records)
  /\ counts["new"] + counts["repeat"] = counts["total"]
  /\ counts["possible_fp"] <= counts["suppressed"]
  /\ counts["suppressed"] = CountRecords(LAMBDA r : r.suppressed)
  /\ counts["blocked"] = CountRecords(LAMBDA r : ~r.allowed)
  /\ Cardinality(Seen(Len(records))) <= counts["new"]
  /\ Cardinality(Seen(Len(records))) <= Cap =>
       counts["new"] = Cardinality(Seen(Len(records)))

(* Where there is a cooldown, two alerts of a fingerprint are never closer *)
(* than it, in whatever order times arrive. (A cooldown of 0 turns the     *)
(* check off, and alerts come in the order of their events.) Only when     *)
(* more fingerprints were alerted than the store holds may one be alerted  *)
(* again too early: the store drops the key that came first, not the one   *)
(* that was used last.                                                     *)
AlertsAreSpaced ==
  \A i, j \in DOMAIN alerts :
    /\ i < j /\ alerts[i].source = alerts[j].source
    /\ Cooldown > 0
    /\ Cardinality({alerts[k].source : k \in 1..(j - 1)}) <= Cap
    => alerts[j].time >= alerts[i].time + Cooldown

(* The cooldown ends: an event that comes the cooldown after every alert   *)
(* of its fingerprint, however many were held back between, is not held    *)
(* back as a duplicate.                                                    *)
CooldownEnds ==
  [][\A i \in DOMAIN records' \ DOMAIN records :
       /\ ~records'[i].other
       /\ \A k \in DOMAIN alerts :
            alerts[k].source = records'[i].source
              => records'[i].time >= alerts[k].time + Cooldown
       => ~records'[i].suppressed]_monitorVars

(* The count a record reports is never more than the events there were in  *)
(* the window; it is all of them when the source's times came in order and *)
(* no source was dropped from the stores.                                  *)
InWindow(i) == {j \in 1..i : /\ records[j].source = records[i].source
                             /\ records[j].time + RepeatWindow >= records[i].time}
InOrder(i) == \A j, k \in 1..i :
  j < k /\ records[j].source = records[i].source /\ records[k].source = records[i].source
    => records[j].time <= records[k].time

RepeatCountsAreTrue ==
  \A i \in DOMAIN records :
    /\ records[i].repeat <= Cardinality(InWindow(i))
    /\ InOrder(i) /\ Cardinality(Seen(i)) <= Cap =>
         records[i].repeat = Cardinality(InWindow(i))

(* The queue of possible false positives is up to date: an incident is in  *)
(* it only if its last record was one, and, while there is room, always    *)
(* then.                                                                   *)
LastOf(incident) ==
  LET is == {i \in DOMAIN records : Incident(records[i].source, records[i].time) = incident}
  IN records[CHOOSE i \in is : \A j \in is : j <= i]
Incidents == {Incident(records[i].source, records[i].time) : i \in DOMAIN records}

FpQueueIsCurrent ==
  /\ \A k \in DOMAIN fpQueue : LastOf(fpQueue[k]).possible
  /\ Cardinality(Incidents) <= Cap =>
       \A n \in Incidents : LastOf(n).possible => n \in ToSet(fpQueue)

(* build_summary says what happened: its counters and its list of possible *)
(* false positives are those of the records.                               *)
SummaryIsRight == CountersAddUp /\ FpQueueIsCurrent
=============================================================================
