----------------------------- MODULE Dashboard -----------------------------
(***************************************************************************)
(* dashboard.py: the state the dashboard computes from the records of the  *)
(* structured log, for a time and a range. Its slices are computed one by  *)
(* one, from the whole log or from what the range leaves of it.            *)
(***************************************************************************)
EXTENDS Naturals, SequencesExt, FiniteSetsExt, Selections

CONSTANTS
  Hour,            \* in time units; a unit is the minute of the timeline
  RangeSpans,      \* TIME_RANGE_SECONDS: names and lengths; "all" has none
  IncidentLimit    \* dashboard_incident_limit

ASSUME DashboardAssumption ==
  /\ Hour \in Nat /\ IncidentLimit \in Nat
  /\ \A r \in DOMAIN RangeSpans : RangeSpans[r] \in Nat /\ RangeSpans[r] >= Hour

Ranges == DOMAIN RangeSpans \cup {"all"}

(* _load_jsonl_records: sorted by time. A line that does not parse, the    *)
(* one that is being written for instance, is left out.                    *)
Loaded(log) ==
  Arranged(log, [i \in DOMAIN log |->
    {j \in DOMAIN log : \/ log[j].time < log[i].time
                        \/ log[j].time = log[i].time /\ j <= i}])

(* A sort keeps the order of equal times, a reversed one too.              *)
NewestFirst(log) ==
  Arranged(log, [i \in DOMAIN log |->
    {j \in DOMAIN log : \/ log[j].time > log[i].time
                        \/ log[j].time = log[i].time /\ j <= i}])

(* _filter_by_time_range                                                   *)
Filtered(log, now, range) ==
  Picked(log, {i \in DOMAIN log : range = "all" \/ log[i].time + RangeSpans[range] >= now})

SourcesIn(log) == {log[i].source : i \in DOMAIN log}

SeverityCounts(log) ==
  [s \in {log[i].severity : i \in DOMAIN log} |->
     Cardinality({i \in DOMAIN log : log[i].severity = s})]

(* _summarize_timeline, with its default window, and                       *)
(* _build_minute_breakdown.                                                *)
RecentBug(r, now) == r.time + Hour > now
Recent(r, now) == r.time + Hour >= now

Timeline(log, now) ==
  LET recent == {i \in DOMAIN log : Recent(log[i], now)}
  IN [m \in {log[i].time : i \in recent} |-> Cardinality({i \in recent : log[i].time = m})]

MinuteBreakdown(log, now) ==
  LET recent == {i \in DOMAIN log : log[i].time + Hour >= now}
  IN [m \in {log[i].time : i \in recent} |-> Cardinality({i \in recent : log[i].time = m})]

(* _threat_level_from_incidents                                            *)
Score(severity) == CASE severity = "high" -> 5 [] severity = "middle" -> 3 [] OTHER -> 2
Level(log) ==
  CHOOSE s \in DOMAIN SeverityCounts(log) :
    \A t \in DOMAIN SeverityCounts(log) : Score(t) <= Score(s)

(* _build_attacker_profiles                                                *)
Profiles(log) ==
  [s \in SourcesIn(log) |->
     LET own == Picked(log, {i \in DOMAIN log : log[i].source = s})
         times == {own[i].time : i \in DOMAIN own}
     IN [hits |-> Len(own), first |-> Min(times), last |-> Max(times), level |-> Level(own)]]

(* _build_blocked_actions: what the policy refused and what was blocked.   *)
BlockedActions(log) ==
  NewestFirst(Picked(log, {i \in DOMAIN log : ~log[i].allowed \/ log[i].action = "BLOCK"}))

(* The summary counts what the policy refused.                             *)
Refused(r) == ~r.allowed

(* build_dashboard_state                                                   *)
DashboardState(log, now, range) ==
  LET all      == Loaded(log)
      filtered == Filtered(all, now, range)
  IN [incidents  |-> Len(filtered),
      blocked    |-> Cardinality({i \in DOMAIN filtered : Refused(filtered[i])}),
      attackers  |-> Cardinality(SourcesIn(filtered)),
      lastHour   |-> Cardinality({i \in DOMAIN filtered : filtered[i].time + Hour >= now}),
      severities |-> SeverityCounts(filtered),
      timeline   |-> Timeline(filtered, now),
      minutes    |-> MinuteBreakdown(all, now),
      display    |-> NewestFirst(filtered),
      overview   |-> SubSeq(NewestFirst(filtered), 1,
                            Min({Len(filtered), Max({IncidentLimit, 1})})),
      blockedActions |-> BlockedActions(filtered),
      profiles   |-> Profiles(filtered)]

(* The sum of what a function counts, as one set of all it counts.         *)
Total(f) == Cardinality(UNION {{x} \X (1..f[x]) : x \in DOMAIN f})

(* What the slices of one state must have in common.                       *)
SlicesAgree(state) ==
  /\ Total(state.severities) = state.incidents
  /\ Total([s \in DOMAIN state.profiles |-> state.profiles[s].hits]) = state.incidents
  /\ Cardinality(DOMAIN state.profiles) = state.attackers
  /\ state.timeline = state.minutes
  /\ Total(state.timeline) = state.lastHour
  /\ state.blocked <= Len(state.blockedActions)
  /\ IsPrefix(state.overview, state.display)
  /\ state.incidents > 0 => \E s \in DOMAIN state.profiles :
       state.profiles[s].last = state.display[1].time
=============================================================================
