--------------------------- MODULE MonitorProofs ---------------------------
(***************************************************************************)
(* Proofs about the live monitor, for any number of fingerprints, stores of*)
(* any size, any windows and any order of times: the alerts first, then the*)
(* types of the stores, the summary, and the counts of repeats.            *)
(***************************************************************************)
EXTENDS MonitoredDashboard, SelectionProofs, FiniteSetTheorems, SequenceTheorems, TLAPS

(***************************************************************************)
(* The alerts speak of the past, the emit history is bounded: the invariant*)
(* ties the one to the other. EmitHistory: what the history says of a      *)
(* fingerprint is the time of one of its alerts. Complete: while no more   *)
(* fingerprints were alerted than the store holds, it has forgotten none,  *)
(* and, where there is a cooldown, the time is that of the latest.         *)
(***************************************************************************)
Alerted == {alerts[k].source : k \in DOMAIN alerts}

AlertsOK ==
  /\ alerts \in Seq([source : Sources, time : Times])
  /\ emitKeys \in Seq(Sources)
  /\ emitAt \in [Sources -> Times]
  /\ IsFiniteSet(Alerted)

EmitHistory ==
  \A s \in ToSet(emitKeys) :
    \E k \in DOMAIN alerts : alerts[k].source = s /\ alerts[k].time = emitAt[s]

Complete ==
  Cardinality(Alerted) <= Cap =>
    /\ ToSet(emitKeys) = Alerted /\ Len(emitKeys) = Cardinality(Alerted)
    /\ Cooldown > 0 =>
         \A k \in DOMAIN alerts : alerts[k].time <= emitAt[alerts[k].source]

AlertsInv == AlertsOK /\ EmitHistory /\ Complete /\ AlertsAreSpaced

-----------------------------------------------------------------------------
LEMMA ElementsOf ==
  ASSUME NEW S, NEW q \in Seq(S) PROVE \A k \in 1..Len(q) : q[k] \in S
OBVIOUS

(* What is in the store once a key was put in.                             *)
LEMMA ToSetOfAppend ==
  ASSUME NEW S, NEW q \in Seq(S), NEW x \in S
  PROVE  ToSet(Append(q, x)) = ToSet(q) \cup {x}
<1>1. Append(q, x) \in Seq(S) /\ Len(Append(q, x)) = Len(q) + 1
  OBVIOUS
<1>2. \A i \in 1..Len(q) : Append(q, x)[i] = q[i]
  OBVIOUS
<1>3. Append(q, x)[Len(q) + 1] = x
  OBVIOUS
<1>4. DOMAIN Append(q, x) = 1..(Len(q) + 1) /\ DOMAIN q = 1..Len(q)
  OBVIOUS
<1> QED BY <1>2, <1>3, <1>4 DEF ToSet

LEMMA ToSetOfTail ==
  ASSUME NEW S, NEW q \in Seq(S), q # <<>>
  PROVE  ToSet(Tail(q)) \subseteq ToSet(q)
<1>1. DOMAIN Tail(q) = 1..(Len(q) - 1) /\ DOMAIN q = 1..Len(q)
  OBVIOUS
<1>2. \A i \in 1..(Len(q) - 1) : Tail(q)[i] = q[i + 1]
  OBVIOUS
<1> QED BY <1>1, <1>2 DEF ToSet

LEMMA StoredKeys ==
  ASSUME NEW q \in Seq(Sources), NEW s \in Sources
  PROVE  /\ Stored(q, s) \in Seq(Sources)
         /\ ToSet(Stored(q, s)) \subseteq ToSet(q) \cup {s}
         /\ s \in ToSet(q) => Stored(q, s) = q
         /\ s \notin ToSet(q) /\ Len(q) < Cap =>
              /\ ToSet(Stored(q, s)) = ToSet(q) \cup {s}
              /\ Len(Stored(q, s)) = Len(q) + 1
<1> DEFINE a == Append(q, s)
<1>1. a \in Seq(Sources) /\ Len(a) = Len(q) + 1 /\ a # <<>>
  BY SMTT(30)
<1>2. ToSet(a) = ToSet(q) \cup {s}
  BY ToSetOfAppend
<1>3. Tail(a) \in Seq(Sources) /\ ToSet(Tail(a)) \subseteq ToSet(a)
  <2>1. Tail(a) \in Seq(Sources)
    BY <1>1
  <2> QED BY <1>1, <2>1, ToSetOfTail
<1> HIDE DEF a
<1>4. Capped(a) \in Seq(Sources) /\ ToSet(Capped(a)) \subseteq ToSet(q) \cup {s}
  BY <1>1, <1>2, <1>3 DEF Capped
<1>5. Len(q) < Cap => Capped(a) = a
  BY <1>1, MonitorAssumption DEF Capped
<1>6. Stored(q, s) = IF s \in ToSet(q) THEN q ELSE Capped(a)
  BY DEF Stored, a
<1> QED BY <1>1, <1>2, <1>4, <1>5, <1>6

-----------------------------------------------------------------------------
LEMMA AlertsInitInv == MonitorInit => AlertsInv
<1> SUFFICES ASSUME MonitorInit PROVE AlertsInv
  OBVIOUS
<1>1. alerts = <<>> /\ emitKeys = <<>> /\ emitAt = [s \in Sources |-> 0]
  BY DEF MonitorInit
<1>2. Alerted = {} /\ ToSet(emitKeys) = {} /\ 0 \in Times
  BY <1>1, MonitorAssumption DEF Alerted, ToSet, Times
<1>3. IsFiniteSet(Alerted) /\ Cardinality(Alerted) = 0
  BY <1>2, FS_EmptySet
<1> QED BY <1>1, <1>2, <1>3
        DEF AlertsInv, AlertsOK, EmitHistory, Complete, AlertsAreSpaced

(* An alert is written only for an event that no reason holds back.        *)
LEMMA AlertStep ==
  ASSUME NEW s \in Sources, NEW t \in Times, AlertsInv, Alert(s, t), ~Cooling(s, t)
  PROVE  AlertsInv'
<1> DEFINE n == Len(alerts)
<1>1. /\ alerts \in Seq([source : Sources, time : Times]) /\ DOMAIN alerts = 1..n
      /\ n \in Nat /\ \A k \in 1..n : alerts[k] \in [source : Sources, time : Times]
      /\ emitKeys \in Seq(Sources) /\ emitAt \in [Sources -> Times]
      /\ IsFiniteSet(Alerted)
  <2>1. alerts \in Seq([source : Sources, time : Times])
    BY DEF AlertsInv, AlertsOK
  <2>2. \A k \in 1..n : alerts[k] \in [source : Sources, time : Times]
    BY <2>1, ElementsOf
  <2>3. DOMAIN alerts = 1..n /\ n \in Nat
    BY <2>1
  <2> HIDE DEF n
  <2> QED BY <2>1, <2>2, <2>3 DEF AlertsInv, AlertsOK
<1>2. /\ alerts' \in Seq([source : Sources, time : Times])
      /\ DOMAIN alerts' = 1..(n + 1)
      /\ alerts'[n + 1] = [source |-> s, time |-> t]
      /\ \A k \in 1..n : alerts'[k] = alerts[k]
  BY <1>1 DEF Alert
<1>3. emitKeys' = Stored(emitKeys, s) /\ emitAt' = [emitAt EXCEPT ![s] = t]
  BY DEF Alert
<1> HIDE DEF n
<1>4. /\ Times \subseteq Nat /\ Cooldown \in Nat /\ Cap \in Nat /\ t \in Nat
      /\ \A x \in Sources : emitAt[x] \in Nat
      /\ \A k \in 1..n : alerts[k].source \in Sources /\ alerts[k].time \in Nat
  <2>1. Times \subseteq Nat /\ Cooldown \in Nat /\ Cap \in Nat
    BY MonitorAssumption DEF Times
  <2> QED BY <1>1, <2>1
<1>5. Alerted' = Alerted \cup {s}
  <2>1. Alerted = {alerts[k].source : k \in 1..n}
    BY <1>1 DEF Alerted
  <2>2. Alerted' = {alerts'[k].source : k \in 1..(n + 1)}
    BY <1>2 DEF Alerted
  <2>3. \A k \in 1..(n + 1) : k \in 1..n \/ k = n + 1
    BY <1>1
  <2>4. 1..n \subseteq 1..(n + 1) /\ n + 1 \in 1..(n + 1)
    BY <1>1
  <2> QED BY <1>2, <2>1, <2>2, <2>3, <2>4
<1>6. /\ IsFiniteSet(Alerted') /\ Cardinality(Alerted) \in Nat
      /\ Cardinality(Alerted') = IF s \in Alerted THEN Cardinality(Alerted)
                                 ELSE Cardinality(Alerted) + 1
  BY <1>1, <1>5, FS_AddElement, FS_CardinalityType
<1>7. AlertsOK'
  BY <1>1, <1>2, <1>3, <1>6, StoredKeys DEF AlertsOK
<1>8. EmitHistory'
  <2>1. ToSet(emitKeys') \subseteq ToSet(emitKeys) \cup {s}
    BY <1>1, <1>3, StoredKeys
  <2>2. \E k \in DOMAIN alerts' : alerts'[k].source = s /\ alerts'[k].time = emitAt'[s]
    BY <1>1, <1>2, <1>3, SMTT(30)
  <2>3. ASSUME NEW x \in ToSet(emitKeys), x # s
        PROVE  \E k \in DOMAIN alerts' :
                 alerts'[k].source = x /\ alerts'[k].time = emitAt'[x]
    <3>1. PICK k \in 1..n : alerts[k].source = x /\ alerts[k].time = emitAt[x]
      BY <1>1 DEF AlertsInv, EmitHistory
    <3>2. k \in DOMAIN alerts' /\ alerts'[k] = alerts[k] /\ alerts[k].source \in Sources
      BY <1>1, <1>2, <1>4, <3>1
    <3>3. emitAt'[x] = emitAt[x]
      BY <1>1, <1>3, <2>3
    <3> QED BY <3>1, <3>2, <3>3
  <2> QED BY <2>1, <2>2, <2>3 DEF EmitHistory
(* A fingerprint that was alerted is in the history, so that the cooldown  *)
(* since its latest alert has passed.                                      *)
<1>9. ASSUME Cardinality(Alerted) <= Cap, Cooldown > 0, NEW i \in 1..n, alerts[i].source = s
      PROVE  t >= alerts[i].time + Cooldown /\ t >= alerts[i].time
  <2>1. s \in ToSet(emitKeys) /\ alerts[i].time <= emitAt[s]
    <3>1. alerts[i].source \in Alerted
      BY <1>1 DEF Alerted
    <3>2. ToSet(emitKeys) = Alerted /\ alerts[i].time <= emitAt[alerts[i].source]
      BY <1>1, <1>9 DEF AlertsInv, Complete
    <3> QED BY <1>9, <3>1, <3>2
  <2>2. t >= emitAt[s] + Cooldown
    BY <1>4, <1>9, <2>1 DEF Cooling, LastEmit
  <2>3. emitAt[s] \in Nat /\ alerts[i].time \in Nat
    BY <1>4
  <2> QED BY <1>4, <2>1, <2>2, <2>3
<1>10. Complete'
  <2> SUFFICES ASSUME Cardinality(Alerted') <= Cap
               PROVE  /\ ToSet(emitKeys') = Alerted'
                      /\ Len(emitKeys') = Cardinality(Alerted')
                      /\ Cooldown > 0 =>
                           \A k \in DOMAIN alerts' :
                             alerts'[k].time <= emitAt'[alerts'[k].source]
    BY DEF Complete
  <2>1. Cardinality(Alerted) <= Cap
    BY <1>6, MonitorAssumption
  <2>2. /\ ToSet(emitKeys) = Alerted /\ Len(emitKeys) = Cardinality(Alerted)
        /\ Cooldown > 0 => \A k \in 1..n : alerts[k].time <= emitAt[alerts[k].source]
    BY <1>1, <2>1 DEF AlertsInv, Complete
  <2>3. ToSet(emitKeys') = Alerted' /\ Len(emitKeys') = Cardinality(Alerted')
    <3>1. CASE s \in Alerted
      BY <1>1, <1>3, <1>5, <1>6, <2>2, <3>1, StoredKeys
    <3>2. CASE s \notin Alerted
      <4>1. Len(emitKeys) < Cap /\ s \notin ToSet(emitKeys)
        BY <1>6, <1>4, <2>2, <3>2
      <4>2. /\ ToSet(Stored(emitKeys, s)) = ToSet(emitKeys) \cup {s}
            /\ Len(Stored(emitKeys, s)) = Len(emitKeys) + 1
        BY <1>1, <4>1, StoredKeys
      <4> QED BY <1>3, <1>5, <1>6, <2>2, <3>2, <4>2
    <3> QED BY <3>1, <3>2
  <2>4. ASSUME Cooldown > 0, NEW k \in 1..n PROVE alerts'[k].time <= emitAt'[alerts'[k].source]
    <3>1. alerts'[k] = alerts[k] /\ alerts[k].source \in Sources
      BY <1>2, <1>4
    <3>2. CASE alerts[k].source = s
      <4>1. emitAt'[s] = t /\ alerts[k].time <= t
        BY <1>1, <1>3, <1>9, <2>1, <2>4, <3>2
      <4> QED BY <3>1, <3>2, <4>1
    <3>3. CASE alerts[k].source # s
      BY <1>1, <1>3, <2>2, <2>4, <3>1, <3>3
    <3> QED BY <3>2, <3>3
  <2>5. alerts'[n + 1].time <= emitAt'[alerts'[n + 1].source]
    BY <1>1, <1>2, <1>3, MonitorAssumption DEF Times
  <2> QED BY <1>1, <1>2, <2>3, <2>4, <2>5
<1>11. AlertsAreSpaced'
  <2>1. ASSUME NEW i \in 1..(n + 1), NEW j \in 1..(n + 1),
               i < j, alerts'[i].source = alerts'[j].source, Cooldown > 0,
               Cardinality({alerts'[k].source : k \in 1..(j - 1)}) <= Cap
        PROVE  alerts'[j].time >= alerts'[i].time + Cooldown
    <3>1. i \in 1..n /\ alerts'[i] = alerts[i]
      BY <1>1, <1>2, <2>1
    <3>2. {alerts'[k].source : k \in 1..(j - 1)} = {alerts[k].source : k \in 1..(j - 1)}
      BY <1>1, <1>2, <2>1
    <3>3. CASE j \in 1..n
      <4>1. alerts'[j] = alerts[j]
        BY <1>2, <3>3
      <4> QED BY <1>1, <2>1, <3>1, <3>2, <3>3, <4>1 DEF AlertsInv, AlertsAreSpaced
    <3>4. CASE j = n + 1
      <4>1. j - 1 = n
        BY <1>1, <3>4
      <4>2. Cardinality(Alerted) <= Cap
        BY <1>1, <2>1, <3>2, <4>1 DEF Alerted
      <4>3. alerts[i].source = s /\ alerts'[j].time = t
        BY <1>2, <2>1, <3>1, <3>4
      <4> QED BY <1>9, <2>1, <3>1, <4>2, <4>3
    <3> QED BY <1>1, <3>3, <3>4
  <2> QED BY <1>2, <2>1 DEF AlertsAreSpaced
<1> QED BY <1>7, <1>8, <1>10, <1>11 DEF AlertsInv

LEMMA AlertsStutter ==
  ASSUME AlertsInv, UNCHANGED <<alerts, emitKeys, emitAt>> PROVE AlertsInv'
BY DEF AlertsInv, AlertsOK, EmitHistory, Complete, AlertsAreSpaced, Alerted

LEMMA AlertsNextInv == AlertsInv /\ [MonitorNext]_monitorVars => AlertsInv'
<1> SUFFICES ASSUME AlertsInv, [MonitorNext]_monitorVars PROVE AlertsInv'
  OBVIOUS
<1>1. ASSUME NEW s \in Sources, NEW t \in Times, NEW confidence \in Confidences,
             NEW allowed \in BOOLEAN, RecordEvent(s, t, confidence, allowed)
      PROVE  AlertsInv'
  <2>1. PICK hits :
          \/ Reasons(s, t, confidence, hits) = {} /\ Alert(s, t)
          \/ UNCHANGED <<alerts, emitKeys, emitAt>>
    BY <1>1 DEF RecordEvent
  <2>2. Reasons(s, t, confidence, hits) = {} => ~Cooling(s, t)
    BY DEF Reasons
  <2> QED BY <2>1, <2>2, AlertStep, AlertsStutter
<1>2. CASE UNCHANGED monitorVars
  BY <1>2, AlertsStutter DEF monitorVars
<1> QED BY <1>1, <1>2 DEF MonitorNext

(* Where there is a cooldown, two alerts of a fingerprint are at least it  *)
(* apart, until more fingerprints were alerted than the history holds.     *)
THEOREM CooldownIsKept == MonitorSpec => []AlertsAreSpaced
<1>1. AlertsInv => AlertsAreSpaced
  BY DEF AlertsInv
<1> QED BY <1>1, AlertsInitInv, AlertsNextInv, PTL DEF MonitorSpec

-----------------------------------------------------------------------------
(***************************************************************************)
(* The other direction: the cooldown is all that dedup_cooldown asks for.  *)
(***************************************************************************)
RecordsOK == \E S : records \in Seq(S)

LEMMA OneMore ==
  ASSUME NEW S, NEW q \in Seq(S), NEW x
  PROVE  /\ Append(q, x) \in Seq(S \cup {x})
         /\ DOMAIN Append(q, x) = 1..(Len(q) + 1) /\ DOMAIN q = 1..Len(q)
         /\ Len(q) \in Nat /\ Append(q, x)[Len(q) + 1] = x
<1>1. q \in Seq(S \cup {x})
  OBVIOUS
<1> QED BY <1>1

(* What record_event does to the records and to what is counted of them.   *)
Recorded(s, t, reasons, r) ==
  /\ records' = Append(records, r)
  /\ r.source = s /\ r.time = t
  /\ r.suppressed = (reasons # {}) /\ r.possible = PossibleFp(reasons)
  /\ r.other = (reasons \ {"dedup_cooldown"} # {})
  /\ r.repeat = CountSince(window'[s], t, RepeatWindow)
  /\ counts' = Bump({"total", IF s \in ToSet(known) THEN "repeat" ELSE "new"}
                    \cup (IF r.allowed THEN {} ELSE {"blocked"})
                    \cup (IF r.suppressed THEN {"suppressed"} ELSE {})
                    \cup (IF r.possible THEN {"possible_fp"} ELSE {}))
  /\ fpQueue' = FpQueueAfter(Incident(s, t), r.possible)

LEMMA RecordEventDoes ==
  ASSUME NEW s, NEW t, NEW confidence, NEW allowed,
         RecordEvent(s, t, confidence, allowed)
  PROVE  \E r, hits : r.allowed = allowed /\ Recorded(s, t, Reasons(s, t, confidence, hits), r)
<1> DEFINE n == CountSince(ruleWindow', t, NoisyWindow)
           reasons == Reasons(s, t, confidence, n)
           status == IF s \in ToSet(known) THEN "repeat" ELSE "new"
           r == [source |-> s, time |-> t, status |-> status,
                 allowed |-> allowed, severity |-> confidence,
                 action |-> CASE ~allowed -> "ALERT"
                              [] confidence = "high" -> "BLOCK"
                              [] OTHER -> "LOG",
                 recent |-> CountSince(window'[s], t, RecentWindow),
                 repeat |-> CountSince(window'[s], t, RepeatWindow),
                 suppressed |-> reasons # {}, possible |-> PossibleFp(reasons),
                 other |-> reasons \ {"dedup_cooldown"} # {}]
<1>1. /\ records' = Append(records, r)
      /\ counts' = Bump({"total", status}
                        \cup (IF allowed THEN {} ELSE {"blocked"})
                        \cup (IF reasons # {} THEN {"suppressed"} ELSE {})
                        \cup (IF PossibleFp(reasons) THEN {"possible_fp"} ELSE {}))
      /\ fpQueue' = FpQueueAfter(Incident(s, t), PossibleFp(reasons))
  BY DEF RecordEvent
<1>2. /\ r.source = s /\ r.time = t /\ r.allowed = allowed
      /\ r.suppressed = (reasons # {}) /\ r.possible = PossibleFp(reasons)
      /\ r.other = (reasons \ {"dedup_cooldown"} # {})
      /\ r.repeat = CountSince(window'[s], t, RepeatWindow)
  OBVIOUS
<1> HIDE DEF r, reasons
<1>3. counts' = Bump({"total", status}
                     \cup (IF r.allowed THEN {} ELSE {"blocked"})
                     \cup (IF r.suppressed THEN {"suppressed"} ELSE {})
                     \cup (IF r.possible THEN {"possible_fp"} ELSE {}))
  BY <1>1, <1>2
<1>4. fpQueue' = FpQueueAfter(Incident(s, t), r.possible)
  BY <1>1, <1>2
<1>5. records' = Append(records, r)
  BY <1>1
<1>6. Recorded(s, t, reasons, r)
  BY <1>2, <1>3, <1>4, <1>5 DEF Recorded
<1> QED BY <1>2, <1>6 DEF reasons

LEMMA RecordsNextOK == RecordsOK /\ [MonitorNext]_monitorVars => RecordsOK'
<1> SUFFICES ASSUME RecordsOK, [MonitorNext]_monitorVars PROVE RecordsOK'
  OBVIOUS
<1>1. PICK S : records \in Seq(S)
  BY DEF RecordsOK
<1>2. CASE MonitorNext
  <2>1. PICK r : records' = Append(records, r)
    BY <1>2 DEF MonitorNext, RecordEvent
  <2>2. records' \in Seq(S \cup {r})
    BY <1>1, <2>1, OneMore
  <2> QED BY <2>2 DEF RecordsOK
<1>3. CASE UNCHANGED monitorVars
  BY <1>3 DEF monitorVars, RecordsOK
<1> QED BY <1>2, <1>3

(* An event that comes the cooldown after every alert of its fingerprint   *)
(* is not taken for a duplicate, in whatever order times arrive and        *)
(* whatever the stores have dropped.                                       *)
THEOREM CooldownIsOver == MonitorSpec => CooldownEnds
<1> DEFINE A == \A i \in DOMAIN records' \ DOMAIN records :
                  /\ ~records'[i].other
                  /\ \A k \in DOMAIN alerts :
                       alerts[k].source = records'[i].source
                         => records'[i].time >= alerts[k].time + Cooldown
                  => ~records'[i].suppressed
<1>1. ASSUME AlertsInv, RecordsOK, NEW s \in Sources, NEW t \in Times,
             NEW confidence \in Confidences, NEW allowed \in BOOLEAN,
             RecordEvent(s, t, confidence, allowed)
      PROVE  A
  <2>1. PICK r, hits : /\ r.allowed = allowed
                       /\ Recorded(s, t, Reasons(s, t, confidence, hits), r)
    BY <1>1, RecordEventDoes
  <2> DEFINE reasons == Reasons(s, t, confidence, hits)
  <2>0. /\ records' = Append(records, r) /\ r.source = s /\ r.time = t
        /\ r.suppressed = (reasons # {}) /\ r.other = (reasons \ {"dedup_cooldown"} # {})
    BY <2>1 DEF Recorded
  <2>2. PICK S : records \in Seq(S)
    BY <1>1 DEF RecordsOK
  <2>3. ASSUME NEW i \in DOMAIN records' \ DOMAIN records PROVE records'[i] = r
    BY <2>0, <2>2, <2>3, OneMore
  <2>4. ASSUME \A k \in DOMAIN alerts : alerts[k].source = s => t >= alerts[k].time + Cooldown
        PROVE  ~Cooling(s, t)
    <3>1. CASE s \in ToSet(emitKeys)
      <4>1. PICK k \in DOMAIN alerts : alerts[k].source = s /\ alerts[k].time = emitAt[s]
        BY <1>1, <3>1 DEF AlertsInv, EmitHistory
      <4>2. emitAt[s] \in Nat /\ t \in Nat /\ Cooldown \in Nat
        BY <1>1, MonitorAssumption DEF AlertsInv, AlertsOK, Times
      <4> QED BY <2>4, <3>1, <4>1, <4>2 DEF Cooling, LastEmit
    <3>2. CASE s \notin ToSet(emitKeys)
      BY <3>2 DEF Cooling, LastEmit
    <3> QED BY <3>1, <3>2
  <2>5. ~Cooling(s, t) => "dedup_cooldown" \notin Reasons(s, t, confidence, hits)
    BY DEF Reasons
  <2> QED BY <2>0, <2>3, <2>4, <2>5
<1>2. AlertsInv /\ RecordsOK /\ [MonitorNext]_monitorVars => [A]_monitorVars
  BY <1>1 DEF MonitorNext
<1>3. MonitorInit => RecordsOK
  BY DEF MonitorInit, RecordsOK
<1>4. MonitorSpec => [](AlertsInv /\ RecordsOK)
  BY <1>3, AlertsInitInv, AlertsNextInv, RecordsNextOK, PTL DEF MonitorSpec
<1>5. MonitorSpec => [][A]_monitorVars
  BY <1>2, <1>4, PTL DEF MonitorSpec
<1> QED BY <1>5 DEF CooldownEnds

-----------------------------------------------------------------------------
(***************************************************************************)
(* Lists without duplicates: the ordered dictionaries of the monitor.      *)
(***************************************************************************)
(* A list without duplicates is as long as the set of what is in it.       *)
LEMMA LengthIsCardinality ==
  ASSUME NEW S, NEW q \in Seq(S), IsInjective(q)
  PROVE  IsFiniteSet(ToSet(q)) /\ Cardinality(ToSet(q)) = Len(q)
<1>1. DOMAIN q = 1..Len(q) /\ Len(q) \in Nat
  OBVIOUS
<1>2. q \in [1..Len(q) -> ToSet(q)]
  <2>1. q = [i \in 1..Len(q) |-> q[i]]
    OBVIOUS
  <2>2. \A i \in 1..Len(q) : q[i] \in ToSet(q)
    BY <1>1 DEF ToSet
  <2> QED BY <2>1, <2>2
<1>3. q \in Bijection(1..Len(q), ToSet(q))
  <2>1. \A x \in ToSet(q) : \E i \in 1..Len(q) : q[i] = x
    BY <1>1 DEF ToSet
  <2> QED BY <1>2, <2>1 DEF Bijection, Injection, Surjection
<1>4. IsFiniteSet(1..Len(q)) /\ Cardinality(1..Len(q)) = Len(q)
  <2>1. Len(q) \in Int /\ 1 \in Int
    BY <1>1
  <2>2. /\ IsFiniteSet(1..Len(q))
        /\ Cardinality(1..Len(q)) = IF 1 > Len(q) THEN 0 ELSE Len(q) - 1 + 1
    BY <2>1, FS_Interval
  <2> QED BY <1>1, <2>2
<1>5. ExistsBijection(1..Len(q), ToSet(q))
  BY <1>3 DEF ExistsBijection
<1> QED BY <1>4, <1>5, FS_Bijection

LEMMA AppendOnce ==
  ASSUME NEW S, NEW q \in Seq(S), NEW x \in S, IsInjective(q), x \notin ToSet(q)
  PROVE  IsInjective(Append(q, x))
<1> DEFINE a == Append(q, x)  n == Len(q)
<1>1. /\ DOMAIN a = 1..(n + 1) /\ DOMAIN q = 1..n /\ n \in Nat
      /\ a[n + 1] = x /\ \A i \in 1..n : a[i] = q[i]
  OBVIOUS
<1>2. \A i \in 1..n : q[i] # x
  BY <1>1 DEF ToSet
<1> HIDE DEF a, n
<1>3. \A i, j \in 1..n : a[i] = a[j] => i = j
  BY <1>1 DEF IsInjective
<1>4. \A i \in 1..(n + 1) : i \in 1..n \/ i = n + 1
  BY <1>1
<1>5. IsInjective(a)
  BY <1>1, <1>2, <1>3, <1>4 DEF IsInjective
<1> QED BY <1>5 DEF a

LEMMA TailOnce ==
  ASSUME NEW S, NEW q \in Seq(S), q # <<>>, IsInjective(q)
  PROVE  IsInjective(Tail(q))
<1>1. DOMAIN Tail(q) = 1..(Len(q) - 1) /\ DOMAIN q = 1..Len(q) /\ Len(q) \in Nat
  OBVIOUS
<1>2. \A i \in 1..(Len(q) - 1) : Tail(q)[i] = q[i + 1] /\ i + 1 \in 1..Len(q)
  OBVIOUS
<1>3. ASSUME NEW i \in 1..(Len(q) - 1), NEW j \in 1..(Len(q) - 1), Tail(q)[i] = Tail(q)[j]
      PROVE  i = j
  <2>1. i + 1 = j + 1
    BY <1>1, <1>2, <1>3 DEF IsInjective
  <2> QED BY <2>1
<1> QED BY <1>1, <1>3 DEF IsInjective

(* A new key in a list that has no duplicates and is not over its cap.     *)
LEMMA CappedOnce ==
  ASSUME NEW S, NEW q \in Seq(S), NEW x \in S, IsInjective(q), x \notin ToSet(q),
         Len(q) <= Cap
  PROVE  LET r == Capped(Append(q, x)) IN
         /\ r \in Seq(S) /\ IsInjective(r) /\ Len(r) <= Cap
         /\ x \in ToSet(r) /\ ToSet(r) \subseteq ToSet(q) \cup {x}
         /\ Len(q) < Cap => ToSet(r) = ToSet(q) \cup {x}
<1> DEFINE a == Append(q, x)
<1>1. a \in Seq(S) /\ Len(a) = Len(q) + 1 /\ a # <<>> /\ Len(q) \in Nat
  BY SMTT(30)
<1>2. ToSet(a) = ToSet(q) \cup {x} /\ IsInjective(a) /\ a[Len(a)] = x
  BY ToSetOfAppend, AppendOnce
<1>3. Cap \in Nat /\ Cap > 0
  BY MonitorAssumption
<1> HIDE DEF a
<1>4. CASE Len(a) <= Cap
  <2>1. Capped(a) = a
    BY <1>1, <1>3, <1>4 DEF Capped
  <2> QED BY <1>1, <1>2, <1>4, <2>1 DEF a
<1>5. CASE Len(a) > Cap
  <2>1. Capped(a) = Tail(a)
    BY <1>1, <1>3, <1>5 DEF Capped
  <2>2. /\ Tail(a) \in Seq(S) /\ Len(Tail(a)) = Len(q)
        /\ ToSet(Tail(a)) \subseteq ToSet(a) /\ IsInjective(Tail(a))
    BY <1>1, <1>2, ToSetOfTail, TailOnce
  <2>3. x \in ToSet(Tail(a))
    <3>1. Len(a) - 1 \in DOMAIN Tail(a) /\ Tail(a)[Len(a) - 1] = a[Len(a)]
      BY <1>1, <1>3, <1>5
    <3> QED BY <1>2, <3>1 DEF ToSet
  <2>4. ~ (Len(q) < Cap)
    BY <1>1, <1>3, <1>5
  <2> QED BY <1>2, <2>1, <2>2, <2>3, <2>4 DEF a
<1> QED BY <1>1, <1>3, <1>4, <1>5

(* store[key] = value.                                                     *)
LEMMA StoredOnce ==
  ASSUME NEW S, NEW q \in Seq(S), NEW x \in S, IsInjective(q), Len(q) <= Cap
  PROVE  /\ Stored(q, x) \in Seq(S) /\ IsInjective(Stored(q, x)) /\ Len(Stored(q, x)) <= Cap
         /\ x \in ToSet(Stored(q, x)) /\ ToSet(Stored(q, x)) \subseteq ToSet(q) \cup {x}
         /\ x \in ToSet(q) \/ Len(q) < Cap => ToSet(Stored(q, x)) = ToSet(q) \cup {x}
<1>1. CASE x \in ToSet(q)
  <2>1. Stored(q, x) = q
    BY <1>1 DEF Stored
  <2> QED BY <1>1, <2>1
<1>2. CASE x \notin ToSet(q)
  <2>1. Stored(q, x) = Capped(Append(q, x))
    BY <1>2 DEF Stored
  <2> QED BY <1>2, <2>1, CappedOnce
<1> QED BY <1>1, <1>2

(* store.pop(key): the rest of the list keeps its order.                   *)
LEMMA RemovedOnce ==
  ASSUME NEW S, NEW q \in Seq(S), NEW k, IsInjective(q)
  PROVE  LET r == RemoveFirst(q, k) IN
         /\ r \in Seq(S) /\ IsInjective(r) /\ Len(r) <= Len(q)
         /\ ToSet(r) = ToSet(q) \ {k}
<1>0. DOMAIN q = 1..Len(q) /\ Len(q) \in Nat
  OBVIOUS
<1>1. CASE k \notin ToSet(q)
  <2>1. RemoveFirst(q, k) = q
    BY <1>0, <1>1 DEF RemoveFirst, ToSet
  <2> QED BY <1>1, <2>1
<1>2. CASE k \in ToSet(q)
  <2> DEFINE I == {i \in 1..Len(q) : q[i] = k}  m == Min(I)  r == RemoveAt(q, m)
  <2>1. \E i \in 1..Len(q) : q[i] = k
    BY <1>0, <1>2 DEF ToSet
  <2>2. RemoveFirst(q, k) = RemoveAt(q, Min(I))
    BY <2>1 DEF RemoveFirst, SelectInSeq
  <2>3. m \in I
    <3>1. I \subseteq Nat /\ I # {}
      BY <2>1
    <3>2. \E x \in I : \A y \in I : x <= y
      BY <3>1, LeastElement
    <3> QED BY <3>2 DEF Min
  <2>4. m \in 1..Len(q) /\ q[m] = k
    BY <2>3
  <2> HIDE DEF I, m
  <2> DEFINE a == SubSeq(q, 1, m - 1)  b == SubSeq(q, m + 1, Len(q))
  <2>5. a \in Seq(S) /\ Len(a) = m - 1 /\ \A i \in 1..(m - 1) : a[i] = q[i]
    <3>1. m - 1 \in Int /\ \A i \in 1..(m - 1) : q[i] \in S
      BY <1>0, <2>4
    <3>2. /\ a \in Seq(S) /\ Len(a) = IF 1 <= m - 1 THEN m - 1 - 1 + 1 ELSE 0
          /\ \A i \in 1..(m - 1 - 1 + 1) : a[i] = q[1 + i - 1]
      BY <3>1, SubSeqProperties
    <3> QED BY <1>0, <2>4, <3>2
  <2>6. b \in Seq(S) /\ Len(b) = Len(q) - m /\ \A i \in 1..(Len(q) - m) : b[i] = q[m + i]
    <3>1. m + 1 \in Int /\ \A i \in (m + 1)..Len(q) : q[i] \in S
      BY <1>0, <2>4
    <3>2. Len(q) \in Int
      BY <1>0
    <3>3. /\ b \in Seq(S) /\ Len(b) = IF m + 1 <= Len(q) THEN Len(q) - (m + 1) + 1 ELSE 0
          /\ \A i \in 1..(Len(q) - (m + 1) + 1) : b[i] = q[m + 1 + i - 1]
      BY <3>1, <3>2, SubSeqProperties
    <3> HIDE DEF b
    <3>4. Len(b) = Len(q) - m
      <4>1. Len(b) = IF m + 1 <= Len(q) THEN Len(q) - (m + 1) + 1 ELSE 0
        BY <3>3
      <4>2. m \in 1..Len(q) /\ Len(q) \in Nat
        BY <1>0, <2>4
      <4> QED BY <4>1, <4>2
    <3>5. ASSUME NEW i \in 1..(Len(q) - m) PROVE b[i] = q[m + i]
      <4>1. i \in 1..(Len(q) - (m + 1) + 1) /\ m + 1 + i - 1 = m + i
        BY <1>0, <2>4
      <4> QED BY <3>3, <4>1
    <3> QED BY <3>3, <3>4, <3>5
  <2>7. /\ r \in Seq(S) /\ Len(r) = Len(q) - 1 /\ DOMAIN r = 1..(Len(q) - 1)
        /\ \A i \in 1..(Len(q) - 1) : r[i] = IF i < m THEN q[i] ELSE q[i + 1]
    <3>1. r = a \o b
      BY DEF RemoveAt
    <3> HIDE DEF a, b, r
    <3>2. /\ r \in Seq(S) /\ Len(r) = Len(q) - 1
          /\ \A i \in 1..(Len(q) - 1) : r[i] = IF i <= m - 1 THEN a[i] ELSE b[i - (m - 1)]
      <4>1. Len(a) + Len(b) = Len(q) - 1
        BY <1>0, <2>4, <2>5, <2>6
      <4> QED BY <2>5, <2>6, <3>1, <4>1, ConcatProperties
    <3>3. ASSUME NEW i \in 1..(Len(q) - 1) PROVE r[i] = IF i < m THEN q[i] ELSE q[i + 1]
      <4>1. CASE i < m
        BY <1>0, <2>4, <2>5, <3>2, <4>1
      <4>2. CASE ~ (i < m)
        <5>1. i - (m - 1) \in 1..(Len(q) - m) /\ m + (i - (m - 1)) = i + 1
          BY <1>0, <2>4, <4>2
        <5>2. r[i] = b[i - (m - 1)]
          BY <1>0, <2>4, <3>2, <4>2
        <5> QED BY <2>6, <4>2, <5>1, <5>2
      <4> QED BY <4>1, <4>2
    <3> QED BY <1>0, <3>2, <3>3
  <2> HIDE DEF r
  <2>8. IsInjective(r)
    <3>1. ASSUME NEW i \in 1..(Len(q) - 1), NEW j \in 1..(Len(q) - 1), r[i] = r[j]
          PROVE  i = j
      <4>1. \A x, y \in 1..Len(q) : q[x] = q[y] => x = y
        BY <1>0 DEF IsInjective
      <4> QED BY <1>0, <2>4, <2>7, <3>1, <4>1
    <3> QED BY <2>7, <3>1 DEF IsInjective
  <2>9. ToSet(r) = ToSet(q) \ {k}
    <3>1. ASSUME NEW i \in 1..(Len(q) - 1) PROVE r[i] \in ToSet(q) \ {k}
      <4>1. \E j \in 1..Len(q) : j # m /\ r[i] = q[j]
        BY <1>0, <2>4, <2>7
      <4>2. \A j \in 1..Len(q) : j # m => q[j] # k
        BY <1>0, <2>4 DEF IsInjective
      <4> QED BY <1>0, <4>1, <4>2 DEF ToSet
    <3>2. ASSUME NEW i \in 1..Len(q), i # m PROVE q[i] \in ToSet(r)
      <4>1. \E j \in 1..(Len(q) - 1) : r[j] = q[i]
        <5>1. CASE i < m
          BY <1>0, <2>4, <2>7, <5>1
        <5>2. CASE i > m
          <6>1. i - 1 \in 1..(Len(q) - 1) /\ ~ (i - 1 < m) /\ i - 1 + 1 = i
            BY <1>0, <2>4, <5>2
          <6> QED BY <2>7, <6>1
        <5> QED BY <2>4, <3>2, <5>1, <5>2
      <4> QED BY <2>7, <4>1 DEF ToSet
    <3> QED BY <1>0, <2>4, <2>7, <3>1, <3>2 DEF ToSet
  <2>10. RemoveFirst(q, k) = r
    BY <2>2 DEF r, m
  <2> QED BY <1>0, <2>7, <2>8, <2>9, <2>10
<1> QED BY <1>1, <1>2

(* store.pop(key), then store[key] = value.                                *)
LEMMA MovedOnce ==
  ASSUME NEW S, NEW q \in Seq(S), NEW x \in S, IsInjective(q), Len(q) <= Cap
  PROVE  /\ Moved(q, x) \in Seq(S) /\ IsInjective(Moved(q, x)) /\ Len(Moved(q, x)) <= Cap
         /\ x \in ToSet(Moved(q, x)) /\ ToSet(Moved(q, x)) \subseteq ToSet(q) \cup {x}
         /\ x \in ToSet(q) \/ Len(q) < Cap => ToSet(Moved(q, x)) = ToSet(q) \cup {x}
<1> DEFINE r == RemoveFirst(q, x)
<1>0. Cap \in Nat /\ Len(q) \in Nat
  BY MonitorAssumption
<1>1. r \in Seq(S) /\ IsInjective(r) /\ Len(r) <= Len(q) /\ ToSet(r) = ToSet(q) \ {x}
  BY RemovedOnce
<1>2. Len(r) \in Nat
  BY <1>1
<1>3. x \in ToSet(q) => Len(r) < Len(q)
  <2>1. /\ IsFiniteSet(ToSet(q)) /\ Cardinality(ToSet(q)) = Len(q)
        /\ Cardinality(ToSet(r)) = Len(r)
    BY <1>1, LengthIsCardinality
  <2>2. x \in ToSet(q) => Cardinality(ToSet(q) \ {x}) = Cardinality(ToSet(q)) - 1
    BY <2>1, FS_RemoveElement
  <2> QED BY <1>0, <1>1, <2>1, <2>2
<1>4. Moved(q, x) = Capped(Append(r, x))
  BY DEF Moved
<1> HIDE DEF r
<1>5. Len(r) <= Cap /\ x \notin ToSet(r) /\ (x \in ToSet(q) \/ Len(q) < Cap => Len(r) < Cap)
  BY <1>0, <1>1, <1>2, <1>3
<1> QED BY <1>1, <1>4, <1>5, CappedOnce

-----------------------------------------------------------------------------
(***************************************************************************)
(* The deque of times that _touch_window leaves: a front of old times is   *)
(* gone, whatever the order of the rest, and the new time is its last.     *)
(***************************************************************************)
Dropped(q, t, span, m) ==
  /\ \A i \in 1..m : q[i] + span < t
  /\ Len(Touch(q, t, span)) = Len(q) - m + 1
  /\ \A i \in 1..(Len(q) - m) : Touch(q, t, span)[i] = q[m + i]
  /\ Touch(q, t, span)[Len(q) - m + 1] = t

LEMMA TouchIs ==
  ASSUME NEW q \in Seq(Times), NEW t \in Times, NEW span \in Nat
  PROVE  /\ Touch(q, t, span) \in Seq(Times)
         /\ Touch(q, t, span) # <<>>
         /\ \E m \in 0..Len(q) : Dropped(q, t, span, m)
<1> DEFINE n == Len(q)
           old == {i \in DOMAIN q : \A j \in 1..i : q[j] + span < t}
           rest == {i \in 1..(n + 1) : i \notin old}
<1>1. DOMAIN q = 1..n /\ n \in Nat
  OBVIOUS
<1>2. PICK x \in rest : \A y \in rest : x <= y
  <2>1. rest \subseteq Nat /\ n + 1 \in rest
    BY <1>1
  <2> QED BY <2>1, LeastElement
<1> DEFINE m == x - 1
<1>3. x \in 1..(n + 1) /\ x \notin old /\ m \in 0..n
  BY <1>1, <1>2
<1>4. ASSUME NEW i \in 1..m PROVE i \in old
  BY <1>1, <1>2, <1>3, <1>4
<1>5. ASSUME NEW i \in old PROVE i \in 1..m
  <2>1. i \in 1..n /\ \A j \in 1..i : q[j] + span < t
    BY <1>1
  <2>2. CASE i >= x
    <3>1. x \in 1..n /\ \A j \in 1..x : j \in 1..i
      BY <1>1, <1>3, <2>1, <2>2
    <3> QED BY <1>1, <1>3, <2>1, <3>1
  <2>3. CASE i < x
    BY <1>1, <1>3, <2>1, <2>3
  <2> QED BY <1>3, <2>1, <2>2, <2>3
<1>6. old = 1..m
  BY <1>4, <1>5
<1>7. Cardinality(old) = m
  <2>1. m \in Int /\ m \in Nat
    BY <1>1, <1>3
  <2> HIDE DEF m, old
  <2>2. Cardinality(1..m) = IF 1 > m THEN 0 ELSE m - 1 + 1
    BY <2>1, FS_Interval
  <2> QED BY <1>6, <2>1, <2>2
<1>8. \A i \in 1..m : q[i] + span < t
  BY <1>1, <1>4, <1>3
<1> DEFINE b == SubSeq(q, m + 1, n)
<1>9. Touch(q, t, span) = Append(b, t)
  BY <1>7 DEF Touch, Trimmed
<1>10. b \in Seq(Times) /\ Len(b) = n - m /\ \A i \in 1..(n - m) : b[i] = q[m + i]
  <2>0. m \in 0..n /\ n \in Nat
    BY <1>1, <1>3
  <2> HIDE DEF m
  <2>1. m + 1 \in Int /\ n \in Int /\ \A i \in (m + 1)..n : q[i] \in Times
    BY <1>1, <2>0
  <2>2. /\ b \in Seq(Times) /\ Len(b) = IF m + 1 <= n THEN n - (m + 1) + 1 ELSE 0
        /\ \A i \in 1..(n - (m + 1) + 1) : b[i] = q[m + 1 + i - 1]
    BY <2>1, SubSeqProperties
  <2> HIDE DEF b, n
  <2>3. Len(b) = n - m
    <3>1. Len(b) = IF m + 1 <= n THEN n - (m + 1) + 1 ELSE 0
      BY <2>2
    <3> QED BY <2>0, <3>1
  <2>4. ASSUME NEW i \in 1..(n - m) PROVE b[i] = q[m + i]
    <3>1. i \in 1..(n - (m + 1) + 1) /\ m + 1 + i - 1 = m + i
      BY <2>0
    <3> QED BY <2>2, <3>1
  <2> QED BY <2>2, <2>3, <2>4
<1> HIDE DEF b, m, n
<1>11. /\ Append(b, t) \in Seq(Times) /\ Len(Append(b, t)) = Len(b) + 1
       /\ \A i \in 1..Len(b) : Append(b, t)[i] = b[i]
       /\ Append(b, t)[Len(b) + 1] = t
  BY <1>10
<1>12. Append(b, t) # <<>>
  <2>1. Len(Append(b, t)) # 0
    BY <1>10, <1>11
  <2> QED BY <2>1
<1>13. Dropped(q, t, span, m)
  <2>1. Len(Append(b, t)) = n - m + 1 /\ Append(b, t)[n - m + 1] = t
    BY <1>10, <1>11
  <2>2. \A i \in 1..(n - m) : Append(b, t)[i] = q[m + i]
    BY <1>10, <1>11
  <2> QED BY <1>8, <1>9, <2>1, <2>2 DEF n, Dropped
<1>14. m \in 0..Len(q)
  BY <1>3 DEF n
<1> QED BY <1>9, <1>11, <1>12, <1>13, <1>14

-----------------------------------------------------------------------------
(***************************************************************************)
(* Types. The counters are bounded by the number of records.               *)
(***************************************************************************)
ListsOK ==
  /\ known \in Seq(Sources) /\ IsInjective(known) /\ Len(known) <= Cap
  /\ touched \in Seq(Sources) /\ IsInjective(touched) /\ Len(touched) <= Cap
  /\ emitKeys \in Seq(Sources) /\ IsInjective(emitKeys) /\ Len(emitKeys) <= Cap
  /\ fpQueue \in Seq(Sources \X Nat) /\ IsInjective(fpQueue) /\ Len(fpQueue) <= Cap

WindowsOK ==
  /\ window \in [Sources -> Seq(Times)] /\ ruleWindow \in Seq(Times)
  /\ \A s \in Sources : s \in ToSet(touched) <=> window[s] # <<>>
  /\ emitAt \in [Sources -> Times]

CountsOK ==
  /\ counts \in [Counters -> Nat]
  /\ \A c \in Counters : counts[c] <= Len(records)

RecordsTyped ==
  /\ RecordsOK /\ Len(records) <= MaxEvents
  /\ \A i \in 1..Len(records) :
       /\ records[i].source \in Sources /\ records[i].time \in Times
       /\ records[i].suppressed \in BOOLEAN /\ records[i].possible \in BOOLEAN
       /\ records[i].allowed \in BOOLEAN

MonitorInv == ListsOK /\ WindowsOK /\ CountsOK /\ RecordsTyped

LEMMA MonitorInitInv == MonitorInit => MonitorInv
<1> SUFFICES ASSUME MonitorInit PROVE MonitorInv
  OBVIOUS
<1>1. \A S : <<>> \in Seq(S) /\ Len(<<>>) = 0 /\ IsInjective(<<>>) /\ ToSet(<<>>) = {}
  BY DEF IsInjective, ToSet
<1>2. 0 \in Times /\ Cap \in Nat /\ MaxEvents \in Nat
  BY MonitorAssumption DEF Times
<1>3. ListsOK
  BY <1>1, <1>2 DEF MonitorInit, ListsOK
<1>4. WindowsOK
  BY <1>1, <1>2 DEF MonitorInit, WindowsOK
<1>5. CountsOK
  BY <1>1 DEF MonitorInit, CountsOK
<1>6. RecordsTyped
  BY <1>1, <1>2 DEF MonitorInit, RecordsTyped, RecordsOK
<1> QED BY <1>3, <1>4, <1>5, <1>6 DEF MonitorInv

(* An alert or none: the emit history.                                     *)
LEMMA EmitKeysStep ==
  ASSUME MonitorInv, NEW s \in Sources, NEW t \in Times, NEW confidence, NEW allowed,
         RecordEvent(s, t, confidence, allowed)
  PROVE  /\ emitKeys' \in Seq(Sources) /\ IsInjective(emitKeys') /\ Len(emitKeys') <= Cap
         /\ emitAt' \in [Sources -> Times]
<1>1. /\ emitKeys \in Seq(Sources) /\ IsInjective(emitKeys) /\ Len(emitKeys) <= Cap
      /\ emitAt \in [Sources -> Times]
  BY DEF MonitorInv, ListsOK, WindowsOK
<1>2. Alert(s, t) \/ UNCHANGED <<alerts, emitKeys, emitAt>>
  BY DEF RecordEvent
<1>3. CASE Alert(s, t)
  <2>1. emitKeys' = Stored(emitKeys, s) /\ emitAt' = [emitAt EXCEPT ![s] = t]
    BY <1>3 DEF Alert
  <2>2. emitKeys' \in Seq(Sources) /\ IsInjective(emitKeys') /\ Len(emitKeys') <= Cap
    BY <1>1, <2>1, StoredOnce
  <2> QED BY <1>1, <2>1, <2>2
<1> QED BY <1>1, <1>2, <1>3

(* The window of a source that is not the event's goes with its key.       *)
LEMMA WindowsStep ==
  ASSUME MonitorInv, NEW s \in Sources, NEW t \in Times, NEW confidence, NEW allowed,
         RecordEvent(s, t, confidence, allowed)
  PROVE  /\ touched' = Moved(touched, s) /\ s \in ToSet(touched')
         /\ ToSet(touched') \subseteq ToSet(touched) \cup {s}
         /\ s \in ToSet(touched) \/ Len(touched) < Cap
              => ToSet(touched') = ToSet(touched) \cup {s}
         /\ window'[s] = Touch(window[s], t, RepeatWindow)
         /\ \A x \in Sources \ {s} :
              window'[x] = IF x \in ToSet(touched') THEN window[x] ELSE <<>>
         /\ window' \in [Sources -> Seq(Times)]
         /\ \A x \in Sources : x \in ToSet(touched') <=> window'[x] # <<>>
<1>1. /\ touched \in Seq(Sources) /\ IsInjective(touched) /\ Len(touched) <= Cap
      /\ window \in [Sources -> Seq(Times)] /\ RepeatWindow \in Nat
      /\ \A x \in Sources : x \in ToSet(touched) <=> window[x] # <<>>
  BY MonitorAssumption DEF MonitorInv, ListsOK, WindowsOK
<1>2. /\ touched' = Moved(touched, s)
      /\ window' = [x \in Sources |->
           IF x = s THEN Touch(window[s], t, RepeatWindow)
           ELSE IF x \in ToSet(touched') THEN window[x] ELSE <<>>]
  BY DEF RecordEvent
<1>3. /\ s \in ToSet(touched') /\ ToSet(touched') \subseteq ToSet(touched) \cup {s}
      /\ s \in ToSet(touched) \/ Len(touched) < Cap
              => ToSet(touched') = ToSet(touched) \cup {s}
  BY <1>1, <1>2, MovedOnce
<1>4. /\ Touch(window[s], t, RepeatWindow) \in Seq(Times)
      /\ Touch(window[s], t, RepeatWindow) # <<>>
  <2>1. window[s] \in Seq(Times) /\ t \in Times
    BY <1>1
  <2> QED BY <1>1, <2>1, TouchIs
<1>5. /\ window'[s] = Touch(window[s], t, RepeatWindow)
      /\ \A x \in Sources \ {s} :
           window'[x] = IF x \in ToSet(touched') THEN window[x] ELSE <<>>
  BY <1>2
<1>6. window' \in [Sources -> Seq(Times)]
  <2>1. <<>> \in Seq(Times)
    OBVIOUS
  <2> QED BY <1>1, <1>2, <1>4, <2>1
<1>7. ASSUME NEW x \in Sources PROVE x \in ToSet(touched') <=> window'[x] # <<>>
  BY <1>1, <1>3, <1>4, <1>5
<1> QED BY <1>2, <1>3, <1>5, <1>6, <1>7

(* The records so far stay what they are; the new one is the last.         *)
LEMMA RecordsGrow ==
  ASSUME RecordsOK, NEW r, records' = Append(records, r)
  PROVE  /\ Len(records) \in Nat /\ Len(records') = Len(records) + 1
         /\ DOMAIN records = 1..Len(records) /\ DOMAIN records' = 1..(Len(records) + 1)
         /\ \A i \in 1..Len(records) : records'[i] = records[i]
         /\ records'[Len(records) + 1] = r
         /\ RecordsOK'
<1>1. PICK S : records \in Seq(S)
  BY DEF RecordsOK
<1>2. Append(records, r) \in Seq(S \cup {r}) /\ records \in Seq(S \cup {r})
  BY <1>1, OneMore
<1>3. RecordsOK'
  BY <1>2 DEF RecordsOK
<1> QED BY <1>2, <1>3

LEMMA MonitorStep ==
  ASSUME MonitorInv, NEW s \in Sources, NEW t \in Times, NEW confidence,
         NEW allowed \in BOOLEAN, RecordEvent(s, t, confidence, allowed)
  PROVE  MonitorInv'
<1>1. PICK r, hits : r.allowed = allowed /\ Recorded(s, t, Reasons(s, t, confidence, hits), r)
  BY RecordEventDoes
<1>2. /\ Len(records) \in Nat /\ Len(records') = Len(records) + 1
      /\ \A i \in 1..Len(records) : records'[i] = records[i]
      /\ records'[Len(records) + 1] = r /\ RecordsOK'
  <2>1. RecordsOK /\ records' = Append(records, r)
    BY <1>1 DEF Recorded, MonitorInv, RecordsTyped
  <2> QED BY <2>1, RecordsGrow
<1>3. ListsOK'
  <2>1. known' \in Seq(Sources) /\ IsInjective(known') /\ Len(known') <= Cap
    <3>1. known' = Stored(known, s)
      BY DEF RecordEvent
    <3> QED BY <3>1, StoredOnce DEF MonitorInv, ListsOK
  <2>2. touched' \in Seq(Sources) /\ IsInjective(touched') /\ Len(touched') <= Cap
    <3>1. touched' = Moved(touched, s)
      BY DEF RecordEvent
    <3> QED BY <3>1, MovedOnce DEF MonitorInv, ListsOK
  <2>3. fpQueue' \in Seq(Sources \X Nat) /\ IsInjective(fpQueue') /\ Len(fpQueue') <= Cap
    <3> DEFINE m == Incident(s, t)
    <3>1. m \in Sources \X Nat
      <4>1. t \in Nat /\ Bucket \in Nat \ {0}
        BY MonitorAssumption DEF Times
      <4>2. t \div Bucket \in Nat
        BY <4>1
      <4> QED BY <4>2 DEF Incident
    <3>2. fpQueue' = Stored(fpQueue, m) \/ fpQueue' = RemoveFirst(fpQueue, m)
      BY <1>1 DEF Recorded, FpQueueAfter
    <3>3. fpQueue \in Seq(Sources \X Nat) /\ IsInjective(fpQueue) /\ Len(fpQueue) <= Cap
      BY DEF MonitorInv, ListsOK
    <3> HIDE DEF m
    <3>4. CASE fpQueue' = Stored(fpQueue, m)
      BY <3>1, <3>3, <3>4, StoredOnce
    <3>5. CASE fpQueue' = RemoveFirst(fpQueue, m)
      <4>1. /\ RemoveFirst(fpQueue, m) \in Seq(Sources \X Nat)
            /\ IsInjective(RemoveFirst(fpQueue, m))
            /\ Len(RemoveFirst(fpQueue, m)) <= Len(fpQueue)
        BY <3>3, RemovedOnce
      <4>2. Len(fpQueue) \in Nat /\ Len(RemoveFirst(fpQueue, m)) \in Nat /\ Cap \in Nat
        BY <3>3, <4>1, MonitorAssumption
      <4> QED BY <3>3, <3>5, <4>1, <4>2
    <3> QED BY <3>2, <3>4, <3>5
  <2> QED BY <2>1, <2>2, <2>3, EmitKeysStep DEF ListsOK
<1>4. WindowsOK'
  <2>1. ruleWindow' \in Seq(Times)
    <3>1. ruleWindow \in Seq(Times) /\ RuleSpan \in Nat /\ t \in Times
      BY MonitorAssumption DEF MonitorInv, WindowsOK, RuleSpan
    <3>2. Touch(ruleWindow, t, RuleSpan) \in Seq(Times)
      BY <3>1, TouchIs
    <3> QED BY <3>2 DEF RecordEvent
  <2>2. /\ window' \in [Sources -> Seq(Times)]
        /\ \A x \in Sources : x \in ToSet(touched') <=> window'[x] # <<>>
    BY WindowsStep
  <2> QED BY <2>1, <2>2, EmitKeysStep DEF WindowsOK
<1>5. CountsOK'
  <2>0. PICK which : counts' = Bump(which)
    BY <1>1 DEF Recorded
  <2>1. counts' = [c \in Counters |-> IF c \in which THEN counts[c] + 1 ELSE counts[c]]
    BY <2>0 DEF Bump
  <2>2. /\ counts \in [Counters -> Nat]
        /\ \A c \in Counters : counts[c] \in Nat /\ counts[c] <= Len(records)
    BY DEF MonitorInv, CountsOK
  <2>3. ASSUME NEW c \in Counters PROVE counts'[c] \in Nat /\ counts'[c] <= Len(records')
    BY <1>2, <2>1, <2>2
  <2>4. counts' \in [Counters -> Nat]
    BY <2>1, <2>3
  <2> QED BY <2>3, <2>4 DEF CountsOK
<1>6. RecordsTyped'
  <2>1. Len(records') <= MaxEvents
    BY <1>2, MonitorAssumption DEF RecordEvent
  <2>2. ASSUME NEW i \in 1..Len(records')
        PROVE  /\ records'[i].source \in Sources /\ records'[i].time \in Times
               /\ records'[i].suppressed \in BOOLEAN /\ records'[i].possible \in BOOLEAN
               /\ records'[i].allowed \in BOOLEAN
    <3>1. CASE i = Len(records) + 1
      <4>1. r.suppressed \in BOOLEAN
        BY <1>1 DEF Recorded
      <4>2. r.possible \in BOOLEAN
        BY <1>1 DEF Recorded, PossibleFp
      <4>3. r.source = s /\ r.time = t
        BY <1>1 DEF Recorded
      <4> QED BY <1>1, <1>2, <3>1, <4>1, <4>2, <4>3
    <3>2. CASE i \in 1..Len(records)
      BY <1>2, <3>2 DEF MonitorInv, RecordsTyped
    <3> QED BY <1>2, <3>1, <3>2
  <2> QED BY <1>2, <2>1, <2>2 DEF RecordsTyped
<1> QED BY <1>3, <1>4, <1>5, <1>6 DEF MonitorInv

LEMMA MonitorNextInv == MonitorInv /\ [MonitorNext]_monitorVars => MonitorInv'
<1> SUFFICES ASSUME MonitorInv, [MonitorNext]_monitorVars PROVE MonitorInv'
  OBVIOUS
<1>1. CASE MonitorNext
  BY <1>1, MonitorStep DEF MonitorNext
<1>2. CASE UNCHANGED monitorVars
  BY <1>2 DEF monitorVars, MonitorInv, ListsOK, WindowsOK, CountsOK, RecordsTyped, RecordsOK
<1> QED BY <1>1, <1>2

(* No store of the monitor ever holds a key twice or more keys than the    *)
(* configured bound, the windows are those of the keys it holds, and no    *)
(* counter counts an event twice.                                          *)
THEOREM MonitorIsTyped == MonitorSpec => []MonitorTypeOK
<1>1. MonitorInv => MonitorTypeOK
  <2> SUFFICES ASSUME MonitorInv PROVE MonitorTypeOK
    OBVIOUS
  <2>1. counts \in [Counters -> 0..MaxEvents]
    <3>1. Len(records) \in Nat /\ Len(records) <= MaxEvents /\ MaxEvents \in Nat
      BY MonitorAssumption DEF MonitorInv, RecordsTyped, RecordsOK
    <3>2. ASSUME NEW c \in Counters PROVE counts[c] \in 0..MaxEvents
      <4>1. counts[c] \in Nat /\ counts[c] <= Len(records)
        BY DEF MonitorInv, CountsOK
      <4> QED BY <3>1, <4>1
    <3>3. counts = [c \in Counters |-> counts[c]]
      BY DEF MonitorInv, CountsOK
    <3> QED BY <3>2, <3>3
  <2> QED BY <2>1 DEF MonitorInv, ListsOK, WindowsOK, MonitorTypeOK
<1> QED BY <1>1, MonitorInitInv, MonitorNextInv, PTL DEF MonitorSpec

-----------------------------------------------------------------------------
(***************************************************************************)
(* The summary. CountedOK: the counters are those of the records. KnownOK: *)
(* what the store of known sources has to do with the number of new ones.  *)
(***************************************************************************)
Suppressed == {i \in DOMAIN records : records[i].suppressed}
Blocked == {i \in DOMAIN records : ~records[i].allowed}
SeenAll == {records[j].source : j \in DOMAIN records}

CountedOK ==
  /\ counts["total"] = Len(records)
  /\ counts["new"] + counts["repeat"] = counts["total"]
  /\ counts["possible_fp"] <= counts["suppressed"]
  /\ counts["suppressed"] = Cardinality(Suppressed)
  /\ counts["blocked"] = Cardinality(Blocked)

KnownOK ==
  /\ IsFiniteSet(SeenAll) /\ ToSet(known) \subseteq SeenAll
  /\ Cardinality(SeenAll) <= counts["new"]
  /\ Cardinality(SeenAll) <= Cap =>
       ToSet(known) = SeenAll /\ counts["new"] = Cardinality(SeenAll)

(* A record more: the indices of the records of a kind.                    *)
LEMMA OneIndexMore ==
  ASSUME NEW n \in Nat, NEW P \in SUBSET (1..n), NEW Q \in SUBSET (1..(n + 1)),
         \A i \in 1..n : i \in Q <=> i \in P
  PROVE  /\ IsFiniteSet(P) /\ IsFiniteSet(Q) /\ Cardinality(P) \in Nat
         /\ n + 1 \in Q => Cardinality(Q) = Cardinality(P) + 1
         /\ n + 1 \notin Q => Cardinality(Q) = Cardinality(P)
<1>1. IsFiniteSet(1..n)
  <2>1. n \in Int /\ 1 \in Int
    OBVIOUS
  <2> QED BY <2>1, FS_Interval
<1>2. IsFiniteSet(P)
  BY <1>1, FS_Subset
<1>3. n + 1 \notin P
  OBVIOUS
<1>4. Cardinality(P) \in Nat
  BY <1>2, FS_CardinalityType
<1>5. IsFiniteSet(P \cup {n + 1}) /\ Cardinality(P \cup {n + 1}) = Cardinality(P) + 1
  BY <1>2, <1>3, FS_AddElement
<1>6. \A i \in 1..(n + 1) : i \in 1..n \/ i = n + 1
  OBVIOUS
<1>7. CASE n + 1 \in Q
  <2>1. Q = P \cup {n + 1}
    BY <1>6, <1>7
  <2> QED BY <1>2, <1>4, <1>5, <1>7, <2>1
<1>8. CASE n + 1 \notin Q
  <2>1. Q = P
    BY <1>6, <1>8
  <2> QED BY <1>2, <1>4, <1>8, <2>1
<1> QED BY <1>7, <1>8

LEMMA SeenAllStep ==
  ASSUME RecordsOK, NEW r, records' = Append(records, r)
  PROVE  SeenAll' = SeenAll \cup {r.source}
<1>1. /\ Len(records) \in Nat
      /\ DOMAIN records = 1..Len(records) /\ DOMAIN records' = 1..(Len(records) + 1)
      /\ \A i \in 1..Len(records) : records'[i] = records[i]
      /\ records'[Len(records) + 1] = r
  BY RecordsGrow
<1>2. \A i \in 1..(Len(records) + 1) : i \in 1..Len(records) \/ i = Len(records) + 1
  BY <1>1
<1>3. /\ 1..Len(records) \subseteq 1..(Len(records) + 1)
      /\ Len(records) + 1 \in 1..(Len(records) + 1)
  BY <1>1
<1> QED BY <1>1, <1>2, <1>3 DEF SeenAll

LEMMA CountedStep ==
  ASSUME MonitorInv, CountedOK, NEW s, NEW t, NEW reasons, NEW r,
         r.allowed \in BOOLEAN, Recorded(s, t, reasons, r)
  PROVE  CountedOK'
<1> DEFINE n == Len(records)
<1>1. /\ RecordsOK /\ records' = Append(records, r)
      /\ r.suppressed \in BOOLEAN /\ r.possible \in BOOLEAN /\ (r.possible => r.suppressed)
      /\ counts \in [Counters -> Nat]
  BY DEF Recorded, PossibleFp, MonitorInv, RecordsTyped, CountsOK
<1>2. /\ n \in Nat /\ Len(records') = n + 1
      /\ DOMAIN records = 1..n /\ DOMAIN records' = 1..(n + 1)
      /\ \A i \in 1..n : records'[i] = records[i]
      /\ records'[n + 1] = r
  BY <1>1, RecordsGrow
<1> DEFINE status == IF s \in ToSet(known) THEN "repeat" ELSE "new"
<1>3. /\ counts'["total"] = counts["total"] + 1
      /\ counts'["new"] = IF status = "new" THEN counts["new"] + 1 ELSE counts["new"]
      /\ counts'["repeat"] = IF status = "repeat" THEN counts["repeat"] + 1
                             ELSE counts["repeat"]
      /\ counts'["blocked"] = IF r.allowed THEN counts["blocked"] ELSE counts["blocked"] + 1
      /\ counts'["suppressed"] = IF r.suppressed THEN counts["suppressed"] + 1
                                 ELSE counts["suppressed"]
      /\ counts'["possible_fp"] = IF r.possible THEN counts["possible_fp"] + 1
                                  ELSE counts["possible_fp"]
  <2> DEFINE which == {"total", status}
                      \cup (IF r.allowed THEN {} ELSE {"blocked"})
                      \cup (IF r.suppressed THEN {"suppressed"} ELSE {})
                      \cup (IF r.possible THEN {"possible_fp"} ELSE {})
  <2>1. counts' = [c \in Counters |-> IF c \in which THEN counts[c] + 1 ELSE counts[c]]
    BY DEF Recorded, Bump
  <2>2. \A c \in Counters : counts'[c] = IF c \in which THEN counts[c] + 1 ELSE counts[c]
    BY <2>1
  <2>3. /\ "total" \in which /\ ("new" \in which <=> status = "new")
        /\ ("repeat" \in which <=> status = "repeat")
    OBVIOUS
  <2>4. /\ ("blocked" \in which <=> ~r.allowed) /\ ("suppressed" \in which <=> r.suppressed)
        /\ ("possible_fp" \in which <=> r.possible)
    OBVIOUS
  <2> HIDE DEF which, status
  <2> QED BY <2>2, <2>3, <2>4 DEF Counters
<1>4. status \in {"new", "repeat"}
  OBVIOUS
<1> HIDE DEF n, status
<1>5. /\ Cardinality(Suppressed') = IF r.suppressed THEN Cardinality(Suppressed) + 1
                                    ELSE Cardinality(Suppressed)
      /\ Cardinality(Suppressed) \in Nat
  <2>1. Suppressed \subseteq 1..n /\ Suppressed' \subseteq 1..(n + 1)
    BY <1>2 DEF Suppressed
  <2>2. \A i \in 1..n : i \in Suppressed' <=> i \in Suppressed
    BY <1>2 DEF Suppressed
  <2>3. n + 1 \in Suppressed' <=> r.suppressed
    BY <1>1, <1>2 DEF Suppressed
  <2> DEFINE P == Suppressed  Q == Suppressed'
  <2> HIDE DEF P, Q
  <2>4. /\ Cardinality(P) \in Nat
        /\ n + 1 \in Q => Cardinality(Q) = Cardinality(P) + 1
        /\ n + 1 \notin Q => Cardinality(Q) = Cardinality(P)
    <3>1. n \in Nat /\ P \in SUBSET (1..n) /\ Q \in SUBSET (1..(n + 1))
      BY <1>2, <2>1 DEF P, Q
    <3>2. \A i \in 1..n : i \in Q <=> i \in P
      BY <2>2 DEF P, Q
    <3> QED BY <3>1, <3>2, OneIndexMore
  <2> QED BY <1>1, <2>3, <2>4 DEF P, Q
<1>6. /\ Cardinality(Blocked') = IF r.allowed THEN Cardinality(Blocked)
                                 ELSE Cardinality(Blocked) + 1
      /\ Cardinality(Blocked) \in Nat
  <2>1. Blocked \subseteq 1..n /\ Blocked' \subseteq 1..(n + 1)
    BY <1>2 DEF Blocked
  <2>2. \A i \in 1..n : i \in Blocked' <=> i \in Blocked
    BY <1>2 DEF Blocked
  <2>3. n + 1 \in Blocked' <=> ~r.allowed
    BY <1>1, <1>2 DEF Blocked
  <2> DEFINE P == Blocked  Q == Blocked'
  <2> HIDE DEF P, Q
  <2>4. /\ Cardinality(P) \in Nat
        /\ n + 1 \in Q => Cardinality(Q) = Cardinality(P) + 1
        /\ n + 1 \notin Q => Cardinality(Q) = Cardinality(P)
    <3>1. n \in Nat /\ P \in SUBSET (1..n) /\ Q \in SUBSET (1..(n + 1))
      BY <1>2, <2>1 DEF P, Q
    <3>2. \A i \in 1..n : i \in Q <=> i \in P
      BY <2>2 DEF P, Q
    <3> QED BY <3>1, <3>2, OneIndexMore
  <2> QED BY <1>1, <2>3, <2>4 DEF P, Q
<1>7. \A c \in Counters : counts[c] \in Nat
  BY <1>1
<1>8. counts'["total"] = Len(records') /\ counts'["new"] + counts'["repeat"] = counts'["total"]
  <2>1. counts["total"] = n /\ counts["new"] + counts["repeat"] = counts["total"]
    BY DEF CountedOK, n
  <2>2. counts["total"] \in Nat /\ counts["new"] \in Nat /\ counts["repeat"] \in Nat
    BY <1>7 DEF Counters
  <2>3. CASE status = "new"
    BY <1>2, <1>3, <2>1, <2>2, <2>3
  <2>4. CASE status = "repeat"
    BY <1>2, <1>3, <2>1, <2>2, <2>4
  <2> QED BY <1>4, <2>3, <2>4
<1>9. counts'["possible_fp"] <= counts'["suppressed"]
  BY <1>1, <1>3, <1>7 DEF CountedOK, Counters
<1>10. /\ counts'["suppressed"] = Cardinality(Suppressed')
       /\ counts'["blocked"] = Cardinality(Blocked')
  BY <1>3, <1>5, <1>6 DEF CountedOK
<1> QED BY <1>8, <1>9, <1>10 DEF CountedOK

LEMMA KnownStep ==
  ASSUME MonitorInv, KnownOK, NEW s \in Sources, NEW t, NEW reasons, NEW r,
         Recorded(s, t, reasons, r), known' = Stored(known, s)
  PROVE  KnownOK'
<1>1. /\ known \in Seq(Sources) /\ IsInjective(known) /\ Len(known) <= Cap
      /\ counts \in [Counters -> Nat] /\ Cap \in Nat
  BY MonitorAssumption DEF MonitorInv, ListsOK, CountsOK
<1>2. SeenAll' = SeenAll \cup {s}
  <2>1. RecordsOK /\ records' = Append(records, r) /\ r.source = s
    BY DEF Recorded, MonitorInv, RecordsTyped
  <2> QED BY <2>1, SeenAllStep
<1>3. /\ IsFiniteSet(SeenAll') /\ Cardinality(SeenAll) \in Nat
      /\ Cardinality(SeenAll') = IF s \in SeenAll THEN Cardinality(SeenAll)
                                 ELSE Cardinality(SeenAll) + 1
  BY <1>2, FS_AddElement, FS_CardinalityType DEF KnownOK
<1>4. counts'["new"] = IF s \in ToSet(known) THEN counts["new"] ELSE counts["new"] + 1
  <2> DEFINE which == {"total", IF s \in ToSet(known) THEN "repeat" ELSE "new"}
                      \cup (IF r.allowed THEN {} ELSE {"blocked"})
                      \cup (IF r.suppressed THEN {"suppressed"} ELSE {})
                      \cup (IF r.possible THEN {"possible_fp"} ELSE {})
  <2>1. counts' = [c \in Counters |-> IF c \in which THEN counts[c] + 1 ELSE counts[c]]
    BY DEF Recorded, Bump
  <2>2. "new" \in which <=> s \notin ToSet(known)
    OBVIOUS
  <2> HIDE DEF which
  <2> QED BY <2>1, <2>2 DEF Counters
<1>5. counts["new"] \in Nat
  BY <1>1 DEF Counters
<1>6. /\ ToSet(known') \subseteq ToSet(known) \cup {s}
      /\ s \in ToSet(known) \/ Len(known) < Cap => ToSet(known') = ToSet(known) \cup {s}
  BY <1>1, StoredOnce
<1>7. Cardinality(ToSet(known)) = Len(known) /\ Len(known) \in Nat
  BY <1>1, LengthIsCardinality
<1>8. ToSet(known') \subseteq SeenAll'
  BY <1>2, <1>6 DEF KnownOK
<1>9. Cardinality(SeenAll') <= counts'["new"]
  BY <1>3, <1>4, <1>5 DEF KnownOK
<1>10. ASSUME Cardinality(SeenAll') <= Cap
       PROVE  ToSet(known') = SeenAll' /\ counts'["new"] = Cardinality(SeenAll')
  <2>1. Cardinality(SeenAll) <= Cap
    BY <1>1, <1>3, <1>10
  <2>2. ToSet(known) = SeenAll /\ counts["new"] = Cardinality(SeenAll)
    BY <2>1 DEF KnownOK
  <2>3. s \in ToSet(known) \/ Len(known) < Cap
    BY <1>1, <1>3, <1>7, <1>10, <2>2
  <2> QED BY <1>2, <1>3, <1>4, <1>6, <2>2, <2>3
<1> QED BY <1>3, <1>8, <1>9, <1>10 DEF KnownOK

(***************************************************************************)
(* The queue of possible false positives.                                  *)
(***************************************************************************)
Latest(is) == CHOOSE i \in is : \A j \in is : j <= i

FpQueueOK ==
  /\ IsFiniteSet(Incidents) /\ ToSet(fpQueue) \subseteq Incidents
  /\ \A n \in ToSet(fpQueue) : LastOf(n).possible
  /\ Cardinality(Incidents) <= Cap =>
       \A n \in Incidents : LastOf(n).possible => n \in ToSet(fpQueue)

LEMMA LatestIs ==
  ASSUME NEW n \in Nat, NEW is \in SUBSET (1..n), is # {}
  PROVE  Latest(is) \in is /\ \A j \in is : j <= Latest(is)
<1> DEFINE T == {b \in 0..n : \A j \in is : j <= b}
<1>1. T \subseteq Nat /\ n \in T
  OBVIOUS
<1>2. PICK x \in T : \A y \in T : x <= y
  BY <1>1, LeastElement
<1>3. PICK j \in is : TRUE
  OBVIOUS
<1>4. x \in 1..n
  BY <1>2, <1>3
<1>5. x \in is
  <2> SUFFICES ASSUME x \notin is PROVE FALSE
    OBVIOUS
  <2>1. \A i \in is : i <= x - 1
    BY <1>2, <1>4
  <2>2. x - 1 \in T
    BY <1>4, <2>1
  <2> QED BY <1>2, <1>4, <2>2
<1>6. \E i \in is : \A k \in is : k <= i
  BY <1>2, <1>5
<1> QED BY <1>6 DEF Latest

(* An event says nothing of other incidents; of its own it says all.       *)
LEMMA IncidentsStep ==
  ASSUME RecordsOK, NEW r, records' = Append(records, r),
         NEW m, m = Incident(r.source, r.time)
  PROVE  /\ Incidents' = Incidents \cup {m}
         /\ LastOf(m)' = r
         /\ \A n \in Incidents \ {m} : LastOf(n)' = LastOf(n)
<1> DEFINE N == Len(records)
<1>1. /\ N \in Nat /\ DOMAIN records = 1..N /\ DOMAIN records' = 1..(N + 1)
      /\ \A i \in 1..N : records'[i] = records[i]
      /\ records'[N + 1] = r
  BY RecordsGrow
<1> HIDE DEF N
<1>2. /\ \A i \in 1..(N + 1) : i \in 1..N \/ i = N + 1
      /\ 1..N \subseteq 1..(N + 1) /\ N + 1 \in 1..(N + 1)
  BY <1>1
<1>3. Incidents' = Incidents \cup {m}
  <2>1. Incidents = {Incident(records[i].source, records[i].time) : i \in 1..N}
    BY <1>1 DEF Incidents
  <2>2. Incidents' = {Incident(records'[i].source, records'[i].time) : i \in 1..(N + 1)}
    BY <1>1 DEF Incidents, Incident
  <2> QED BY <1>1, <1>2, <2>1, <2>2
<1>4. LastOf(m)' = r
  <2> DEFINE is == {i \in 1..(N + 1) : Incident(records'[i].source, records'[i].time) = m}
  <2>1. LastOf(m)' = records'[Latest(is)]
    BY <1>1 DEF LastOf, Latest, Incident
  <2>2. N + 1 \in is /\ is \in SUBSET (1..(N + 1)) /\ N + 1 \in Nat
    BY <1>1, <1>2
  <2> HIDE DEF is
  <2>3. Latest(is) \in 1..(N + 1) /\ N + 1 <= Latest(is)
    BY <2>2, LatestIs
  <2>4. Latest(is) = N + 1
    BY <1>1, <2>3
  <2> QED BY <1>1, <2>1, <2>4
<1>5. ASSUME NEW n \in Incidents \ {m} PROVE LastOf(n)' = LastOf(n)
  <2> DEFINE is == {i \in 1..(N + 1) : Incident(records'[i].source, records'[i].time) = n}
             js == {i \in 1..N : Incident(records[i].source, records[i].time) = n}
  <2>1. LastOf(n)' = records'[Latest(is)] /\ LastOf(n) = records[Latest(js)]
    BY <1>1 DEF LastOf, Latest, Incident
  <2>2. is = js
    BY <1>1, <1>2, <1>5
  <2>3. js # {}
    BY <1>1, <1>5 DEF Incidents
  <2>4. js \in SUBSET (1..N)
    OBVIOUS
  <2> HIDE DEF is, js
  <2>5. Latest(js) \in 1..N
    BY <1>1, <2>3, <2>4, LatestIs
  <2> QED BY <1>1, <2>1, <2>2, <2>5
<1> QED BY <1>3, <1>4, <1>5

LEMMA FpQueueStep ==
  ASSUME MonitorInv, FpQueueOK, NEW s \in Sources, NEW t \in Times, NEW reasons, NEW r,
         Recorded(s, t, reasons, r)
  PROVE  FpQueueOK'
<1> DEFINE m == Incident(s, t)
<1>1. /\ fpQueue \in Seq(Sources \X Nat) /\ IsInjective(fpQueue) /\ Len(fpQueue) <= Cap
      /\ Cap \in Nat /\ Len(fpQueue) \in Nat
  BY MonitorAssumption DEF MonitorInv, ListsOK
<1>2. m \in Sources \X Nat
  <2>1. t \in Nat /\ Bucket \in Nat \ {0}
    BY MonitorAssumption DEF Times
  <2>2. t \div Bucket \in Nat
    BY <2>1
  <2> QED BY <2>2 DEF Incident
<1>3. /\ r.possible \in BOOLEAN
      /\ fpQueue' = IF r.possible THEN Stored(fpQueue, m) ELSE RemoveFirst(fpQueue, m)
  BY DEF Recorded, PossibleFp, FpQueueAfter
<1>4. m = Incident(r.source, r.time) /\ RecordsOK /\ records' = Append(records, r)
  BY DEF Recorded, MonitorInv, RecordsTyped
<1> HIDE DEF m
<1>5. /\ Incidents' = Incidents \cup {m} /\ LastOf(m)' = r
      /\ \A n \in Incidents \ {m} : LastOf(n)' = LastOf(n)
  BY <1>4, IncidentsStep
<1>6. /\ IsFiniteSet(Incidents') /\ Cardinality(Incidents) \in Nat
      /\ Cardinality(Incidents') = IF m \in Incidents THEN Cardinality(Incidents)
                                   ELSE Cardinality(Incidents) + 1
  BY <1>5, FS_AddElement, FS_CardinalityType DEF FpQueueOK
<1>7. Cardinality(Incidents') <= Cap => Cardinality(Incidents) <= Cap
  BY <1>1, <1>6
<1>8. CASE r.possible
  <2>1. /\ m \in ToSet(fpQueue') /\ ToSet(fpQueue') \subseteq ToSet(fpQueue) \cup {m}
        /\ m \in ToSet(fpQueue) \/ Len(fpQueue) < Cap
             => ToSet(fpQueue') = ToSet(fpQueue) \cup {m}
    BY <1>1, <1>2, <1>3, <1>8, StoredOnce
  <2>2. ToSet(fpQueue') \subseteq Incidents'
    BY <1>5, <2>1 DEF FpQueueOK
  <2>3. ASSUME NEW n \in ToSet(fpQueue') PROVE LastOf(n)'.possible
    BY <1>5, <1>8, <2>1, <2>3 DEF FpQueueOK
  <2>4. ASSUME Cardinality(Incidents') <= Cap
        PROVE  m \in ToSet(fpQueue) \/ Len(fpQueue) < Cap
    <3> SUFFICES ASSUME m \notin ToSet(fpQueue) PROVE Len(fpQueue) < Cap
      OBVIOUS
    <3>1. Cardinality(ToSet(fpQueue)) = Len(fpQueue) /\ IsFiniteSet(ToSet(fpQueue))
      BY <1>1, LengthIsCardinality
    <3>2. Cardinality(ToSet(fpQueue) \cup {m}) = Len(fpQueue) + 1
      BY <3>1, FS_AddElement
    <3>3. ToSet(fpQueue) \cup {m} \in SUBSET Incidents'
      BY <1>5 DEF FpQueueOK
    <3>4. Cardinality(ToSet(fpQueue) \cup {m}) <= Cardinality(Incidents')
      BY <1>6, <3>3, FS_Subset
    <3>5. Cardinality(Incidents') \in Nat
      BY <1>6
    <3> QED BY <1>1, <2>4, <3>2, <3>4, <3>5
  <2>5. ASSUME Cardinality(Incidents') <= Cap, NEW n \in Incidents', LastOf(n)'.possible
        PROVE  n \in ToSet(fpQueue')
    BY <1>5, <1>7, <2>1, <2>4, <2>5 DEF FpQueueOK
  <2> QED BY <1>6, <2>2, <2>3, <2>5 DEF FpQueueOK
<1>9. CASE ~r.possible
  <2>1. ToSet(fpQueue') = ToSet(fpQueue) \ {m}
    BY <1>1, <1>3, <1>9, RemovedOnce
  <2>2. ToSet(fpQueue') \subseteq Incidents'
    BY <1>5, <2>1 DEF FpQueueOK
  <2>3. ASSUME NEW n \in ToSet(fpQueue') PROVE LastOf(n)'.possible
    BY <1>5, <2>1, <2>3 DEF FpQueueOK
  <2>4. ASSUME Cardinality(Incidents') <= Cap, NEW n \in Incidents', LastOf(n)'.possible
        PROVE  n \in ToSet(fpQueue')
    BY <1>5, <1>7, <1>9, <2>1, <2>4 DEF FpQueueOK
  <2> QED BY <1>6, <2>2, <2>3, <2>4 DEF FpQueueOK
<1> QED BY <1>3, <1>8, <1>9

SummaryInv == MonitorInv /\ CountedOK /\ KnownOK /\ FpQueueOK

LEMMA SummaryInitInv == MonitorInit => SummaryInv
<1> SUFFICES ASSUME MonitorInit PROVE SummaryInv
  OBVIOUS
<1>1. /\ records = <<>> /\ known = <<>> /\ fpQueue = <<>>
      /\ \A c \in Counters : counts[c] = 0
  BY DEF MonitorInit
<1>2. /\ Suppressed = {} /\ Blocked = {} /\ SeenAll = {} /\ Incidents = {}
      /\ ToSet(known) = {} /\ ToSet(fpQueue) = {} /\ Len(records) = 0
  BY <1>1 DEF Suppressed, Blocked, SeenAll, Incidents, ToSet
<1>3. IsFiniteSet({}) /\ Cardinality({}) = 0
  BY FS_EmptySet
<1>4. CountedOK
  BY <1>1, <1>2, <1>3 DEF CountedOK, Counters
<1>5. KnownOK
  BY <1>1, <1>2, <1>3 DEF KnownOK, Counters
<1>6. FpQueueOK
  BY <1>2, <1>3 DEF FpQueueOK
<1> QED BY <1>4, <1>5, <1>6, MonitorInitInv DEF SummaryInv

LEMMA SummaryNextInv == SummaryInv /\ [MonitorNext]_monitorVars => SummaryInv'
<1> SUFFICES ASSUME SummaryInv, [MonitorNext]_monitorVars PROVE SummaryInv'
  OBVIOUS
<1>1. ASSUME NEW s \in Sources, NEW t \in Times, NEW confidence \in Confidences,
             NEW allowed \in BOOLEAN, RecordEvent(s, t, confidence, allowed)
      PROVE  SummaryInv'
  <2>1. PICK r, hits : /\ r.allowed = allowed
                       /\ Recorded(s, t, Reasons(s, t, confidence, hits), r)
    BY <1>1, RecordEventDoes
  <2>2. known' = Stored(known, s)
    BY <1>1 DEF RecordEvent
  <2>3. MonitorInv /\ CountedOK /\ KnownOK /\ FpQueueOK
    BY DEF SummaryInv
  <2>4. CountedOK'
    BY <2>1, <2>3, CountedStep
  <2>5. KnownOK'
    BY <2>1, <2>2, <2>3, KnownStep
  <2>6. FpQueueOK'
    BY <2>1, <2>3, FpQueueStep
  <2>7. MonitorInv'
    BY <1>1, <2>3, MonitorStep
  <2> QED BY <2>4, <2>5, <2>6, <2>7 DEF SummaryInv
<1>2. CASE UNCHANGED monitorVars
  <2>1. MonitorInv'
    BY <1>2, MonitorNextInv DEF SummaryInv
  <2>2. CountedOK' /\ KnownOK'
    BY <1>2 DEF monitorVars, SummaryInv, CountedOK, KnownOK, Suppressed, Blocked, SeenAll
  <2>3. FpQueueOK'
    BY <1>2 DEF monitorVars, SummaryInv, FpQueueOK, Incidents, LastOf, Incident
  <2> QED BY <2>1, <2>2, <2>3 DEF SummaryInv
<1> QED BY <1>1, <1>2 DEF MonitorNext

(* What build_summary shows is what happened: every counter is the number  *)
(* of the records it counts, and the queue of possible false positives     *)
(* holds incidents whose last record was one, all of them while there is   *)
(* room.                                                                   *)
THEOREM SummaryIsTrue == MonitorSpec => []SummaryIsRight
<1>1. SummaryInv => SummaryIsRight
  <2> SUFFICES ASSUME SummaryInv PROVE SummaryIsRight
    OBVIOUS
  <2>1. DOMAIN records = 1..Len(records)
    BY DEF SummaryInv, MonitorInv, RecordsTyped, RecordsOK
  <2>2. Seen(Len(records)) = SeenAll
    BY <2>1 DEF Seen, SeenAll
  <2>3. /\ CountRecords(LAMBDA r : r.suppressed) = Cardinality(Suppressed)
        /\ CountRecords(LAMBDA r : ~r.allowed) = Cardinality(Blocked)
    BY DEF CountRecords, Suppressed, Blocked
  <2>4. CountersAddUp
    BY <2>2, <2>3 DEF SummaryInv, CountedOK, KnownOK, CountersAddUp
  <2>5. FpQueueIsCurrent
    BY DEF SummaryInv, FpQueueOK, FpQueueIsCurrent, ToSet
  <2> QED BY <2>4, <2>5 DEF SummaryIsRight
<1> QED BY <1>1, SummaryInitInv, SummaryNextInv, PTL DEF MonitorSpec

-----------------------------------------------------------------------------
(***************************************************************************)
(* The counts of repeats. The times a window holds are those of different  *)
(* records of its source: f says of which. What is missing, as long as no  *)
(* source was dropped from the stores, is older than the window seen from  *)
(* some record of the source.                                              *)
(***************************************************************************)
Own(recs, s) == {j \in DOMAIN recs : recs[j].source = s}

Backs(f, w, recs, s, all) ==
  /\ f \in [DOMAIN w -> Own(recs, s)] /\ IsInjective(f)
  /\ \A k \in DOMAIN w : w[k] = recs[f[k]].time
  /\ all => \A j \in Own(recs, s) :
              \/ \E k \in DOMAIN w : f[k] = j
              \/ \E i \in Own(recs, s) : recs[j].time + RepeatWindow < recs[i].time

(* recs2 is recs and a record more, of s at t.                             *)
Grown(recs, n, recs2, s, t) ==
  /\ n \in Nat /\ DOMAIN recs = 1..n /\ DOMAIN recs2 = 1..(n + 1)
  /\ \A j \in 1..n : recs2[j] = recs[j]
  /\ recs2[n + 1].source = s /\ recs2[n + 1].time = t

LEMMA OwnGrown ==
  ASSUME NEW recs, NEW n, NEW recs2, NEW s, NEW t, Grown(recs, n, recs2, s, t)
  PROVE  /\ Own(recs2, s) = Own(recs, s) \cup {n + 1} /\ n + 1 \notin Own(recs, s)
         /\ \A x : x # s => Own(recs2, x) = Own(recs, x)
         /\ \A x : \A j \in Own(recs, x) : recs2[j] = recs[j]
<1>1. /\ \A i \in 1..(n + 1) : i \in 1..n \/ i = n + 1
      /\ 1..n \subseteq 1..(n + 1) /\ n + 1 \in 1..(n + 1) /\ n + 1 \notin 1..n
  BY DEF Grown
<1>2. n + 1 \notin Own(recs, s)
  BY <1>1 DEF Grown, Own
<1>3. Own(recs2, s) = Own(recs, s) \cup {n + 1}
  BY <1>1 DEF Grown, Own
<1>4. ASSUME NEW x, x # s PROVE Own(recs2, x) = Own(recs, x)
  BY <1>1, <1>4 DEF Grown, Own
<1>5. \A x : \A j \in Own(recs, x) : recs2[j] = recs[j]
  BY DEF Grown, Own
<1> QED BY <1>2, <1>3, <1>4, <1>5

(* The window of the event's source.                                       *)
LEMMA BacksTouch ==
  ASSUME NEW recs, NEW n, NEW recs2, NEW s, NEW t \in Times, NEW w \in Seq(Times),
         NEW f, NEW all \in BOOLEAN, NEW all2 \in BOOLEAN,
         Grown(recs, n, recs2, s, t), all2 => all, Backs(f, w, recs, s, all)
  PROVE  \E g : Backs(g, Touch(w, t, RepeatWindow), recs2, s, all2)
<1> DEFINE u == Touch(w, t, RepeatWindow)  L == Len(w)
<1>1. L \in Nat /\ DOMAIN w = 1..L
  OBVIOUS
<1>2. u \in Seq(Times) /\ \E m \in 0..L : Dropped(w, t, RepeatWindow, m)
  <2>1. RepeatWindow \in Nat
    BY MonitorAssumption
  <2> QED BY <2>1, TouchIs
<1>3. PICK m \in 0..L : Dropped(w, t, RepeatWindow, m)
  BY <1>2
<1>4. /\ \A i \in 1..m : w[i] + RepeatWindow < t
      /\ Len(u) = L - m + 1 /\ DOMAIN u = 1..(L - m + 1)
      /\ \A i \in 1..(L - m) : u[i] = w[m + i]
      /\ u[L - m + 1] = t
  <2>1. /\ \A i \in 1..m : w[i] + RepeatWindow < t
        /\ Len(u) = L - m + 1 /\ \A i \in 1..(L - m) : u[i] = w[m + i]
        /\ u[L - m + 1] = t
    BY <1>3 DEF Dropped
  <2> HIDE DEF u
  <2>2. DOMAIN u = 1..Len(u)
    BY <1>2
  <2> QED BY <2>1, <2>2
<1> HIDE DEF u, L
<1> DEFINE g == [k \in 1..(L - m + 1) |-> IF k \in 1..(L - m) THEN f[m + k] ELSE n + 1]
<1>5. /\ \A k \in 1..(L - m) : m + k \in 1..L /\ k \in 1..(L - m + 1) /\ g[k] = f[m + k]
      /\ L - m + 1 \in 1..(L - m + 1) /\ L - m + 1 \notin 1..(L - m) /\ g[L - m + 1] = n + 1
      /\ \A k \in 1..(L - m + 1) : k \in 1..(L - m) \/ k = L - m + 1
  BY <1>1
<1>6. /\ Own(recs2, s) = Own(recs, s) \cup {n + 1} /\ n + 1 \notin Own(recs, s)
      /\ \A j \in Own(recs, s) : recs2[j] = recs[j]
  BY OwnGrown
<1>7. /\ f \in [1..L -> Own(recs, s)] /\ \A i, j \in 1..L : f[i] = f[j] => i = j
      /\ \A k \in 1..L : w[k] = recs[f[k]].time
  BY <1>1 DEF Backs, IsInjective
<1>8. g \in [DOMAIN u -> Own(recs2, s)]
  BY <1>4, <1>5, <1>6, <1>7
<1>9. IsInjective(g)
  <2>1. DOMAIN g = 1..(L - m + 1)
    OBVIOUS
  <2> HIDE DEF g
  <2>2. ASSUME NEW i \in 1..(L - m + 1), NEW j \in 1..(L - m + 1), g[i] = g[j] PROVE i = j
    <3>1. CASE i \in 1..(L - m) /\ j \in 1..(L - m)
      <4>1. m + i = m + j
        BY <1>5, <1>7, <2>2, <3>1
      <4> QED BY <1>1, <3>1, <4>1
    <3>2. CASE i \in 1..(L - m) /\ j = L - m + 1
      BY <1>5, <1>6, <1>7, <2>2, <3>2
    <3>3. CASE j \in 1..(L - m) /\ i = L - m + 1
      BY <1>5, <1>6, <1>7, <2>2, <3>3
    <3> QED BY <1>5, <3>1, <3>2, <3>3
  <2> QED BY <2>1, <2>2 DEF IsInjective
<1> HIDE DEF g
<1>10. ASSUME NEW k \in DOMAIN u PROVE u[k] = recs2[g[k]].time
  <2>1. CASE k \in 1..(L - m)
    BY <1>4, <1>5, <1>6, <1>7, <2>1
  <2>2. CASE k = L - m + 1
    BY <1>4, <1>5, <2>2 DEF Grown
  <2> QED BY <1>4, <1>5, <2>1, <2>2
<1>11. ASSUME all2, NEW j \in Own(recs2, s)
       PROVE  \/ \E k \in DOMAIN u : g[k] = j
              \/ \E i \in Own(recs2, s) : recs2[j].time + RepeatWindow < recs2[i].time
  <2>1. CASE j = n + 1
    BY <1>4, <1>5, <2>1
  <2>2. ASSUME j \in Own(recs, s), NEW k \in 1..L, f[k] = j
        PROVE  \/ \E h \in DOMAIN u : g[h] = j
               \/ \E i \in Own(recs2, s) : recs2[j].time + RepeatWindow < recs2[i].time
    <3>1. CASE k \in 1..m
      <4>1. recs2[j].time + RepeatWindow < t
        BY <1>4, <1>6, <1>7, <2>2, <3>1
      <4>2. recs2[n + 1].time = t /\ n + 1 \in Own(recs2, s)
        BY <1>6 DEF Grown
      <4> QED BY <4>1, <4>2
    <3>2. CASE k \notin 1..m
      <4>1. k - m \in 1..(L - m) /\ m + (k - m) = k
        BY <1>1, <3>2
      <4> QED BY <1>4, <1>5, <2>2, <4>1
    <3> QED BY <3>1, <3>2
  <2>3. ASSUME j \in Own(recs, s), NEW i \in Own(recs, s),
               recs[j].time + RepeatWindow < recs[i].time
        PROVE  \E h \in Own(recs2, s) : recs2[j].time + RepeatWindow < recs2[h].time
    BY <1>6, <2>3
  <2>4. j \in Own(recs, s) =>
          \/ \E k \in 1..L : f[k] = j
          \/ \E i \in Own(recs, s) : recs[j].time + RepeatWindow < recs[i].time
    BY <1>1, <1>11 DEF Backs
  <2> QED BY <1>6, <2>1, <2>2, <2>3, <2>4
<1>12. Backs(g, u, recs2, s, all2)
  BY <1>8, <1>9, <1>10, <1>11 DEF Backs
<1> QED BY <1>12 DEF u

(* The windows of the others.                                              *)
LEMMA BacksOther ==
  ASSUME NEW recs, NEW n, NEW recs2, NEW s, NEW t, NEW w, NEW x, x # s,
         NEW f, NEW all \in BOOLEAN, NEW all2 \in BOOLEAN,
         Grown(recs, n, recs2, s, t), all2 => all, Backs(f, w, recs, x, all)
  PROVE  Backs(f, w, recs2, x, all2)
<1>1. Own(recs2, x) = Own(recs, x) /\ \A j \in Own(recs, x) : recs2[j] = recs[j]
  BY OwnGrown
<1>2. f \in [DOMAIN w -> Own(recs, x)]
  BY DEF Backs
<1>3. \A k \in DOMAIN w : recs2[f[k]] = recs[f[k]]
  BY <1>1, <1>2
<1> QED BY <1>1, <1>3 DEF Backs

LEMMA BacksNothing ==
  ASSUME NEW recs, NEW x, NEW all \in BOOLEAN, all => Own(recs, x) = {}
  PROVE  Backs(<<>>, <<>>, recs, x, all)
<1>1. DOMAIN <<>> = {}
  OBVIOUS
<1>2. <<>> \in [DOMAIN <<>> -> Own(recs, x)]
  OBVIOUS
<1> QED BY <1>1, <1>2 DEF Backs, IsInjective

(* What _count_since makes of a window that is backed.                     *)
Windowed(recs, n, s, t) ==
  {j \in 1..n : recs[j].source = s /\ recs[j].time + RepeatWindow >= t}
Ordered(recs, n, s) ==
  \A j, k \in 1..n : j < k /\ recs[j].source = s /\ recs[k].source = s
                       => recs[j].time <= recs[k].time
EndsWith(recs, n, s, t) ==
  /\ n \in Nat /\ DOMAIN recs = 1..n /\ n \in DOMAIN recs
  /\ \A j \in 1..n : recs[j].time \in Nat
  /\ recs[n].source = s /\ recs[n].time = t

LEMMA CountIsTrue ==
  ASSUME NEW recs, NEW n, NEW s, NEW t, EndsWith(recs, n, s, t),
         NEW u \in Seq(Times), NEW g, NEW all \in BOOLEAN, Backs(g, u, recs, s, all)
  PROVE  /\ CountSince(u, t, RepeatWindow) <= Cardinality(Windowed(recs, n, s, t))
         /\ all /\ Ordered(recs, n, s) =>
              CountSince(u, t, RepeatWindow) = Cardinality(Windowed(recs, n, s, t))
<1> DEFINE W == Windowed(recs, n, s, t)
<1>0. /\ n \in Nat /\ DOMAIN recs = 1..n /\ n \in DOMAIN recs
      /\ \A j \in 1..n : recs[j].time \in Nat
      /\ recs[n].source = s /\ recs[n].time = t
  BY DEF EndsWith
<1> DEFINE I == {k \in DOMAIN u : u[k] + RepeatWindow >= t}
           h == [k \in I |-> g[k]]
<1>1. CountSince(u, t, RepeatWindow) = Cardinality(I)
  BY DEF CountSince
<1>2. /\ g \in [DOMAIN u -> Own(recs, s)] /\ \A k \in DOMAIN u : u[k] = recs[g[k]].time
      /\ \A i, j \in DOMAIN u : g[i] = g[j] => i = j
  <2>1. DOMAIN g = DOMAIN u
    BY DEF Backs
  <2> QED BY <2>1 DEF Backs, IsInjective
<1>3. h \in Injection(I, W)
  <2>1. h \in [I -> W]
    BY <1>0, <1>2 DEF Own, Windowed
  <2>2. IsInjective(h)
    BY <1>2 DEF IsInjective
  <2> QED BY <2>1, <2>2 DEF Injection
<1>4. IsFiniteSet(W)
  <2>1. n \in Int /\ 1 \in Int /\ W \in SUBSET (1..n)
    BY <1>0 DEF Windowed
  <2>2. IsFiniteSet(1..n)
    BY <2>1, FS_Interval
  <2> QED BY <2>1, <2>2, FS_Subset
<1>5. /\ Cardinality(I) <= Cardinality(W)
      /\ Cardinality(I) = Cardinality(W) <=> h \in Surjection(I, W)
  BY <1>3, <1>4, FS_Injection
<1>6. ASSUME all, Ordered(recs, n, s) PROVE h \in Surjection(I, W)
  <2>1. ASSUME NEW j \in W PROVE \E k \in I : h[k] = j
    <3>1. j \in 1..n /\ recs[j].source = s /\ recs[j].time + RepeatWindow >= t
      BY DEF Windowed
    <3>2. ASSUME NEW i \in Own(recs, s) PROVE ~ (recs[j].time + RepeatWindow < recs[i].time)
      <4>1. i \in 1..n /\ recs[i].source = s
        BY <1>0 DEF Own
      <4>2. recs[i].time <= t
        <5>1. CASE i = n
          BY <1>0, <4>1, <5>1
        <5>2. CASE i < n
          <6>1. n \in 1..n
            BY <1>0
          <6> QED BY <1>0, <1>6, <4>1, <5>2, <6>1 DEF Ordered
        <5> QED BY <1>0, <4>1, <5>1, <5>2
      <4> QED BY <1>0, <3>1, <4>1, <4>2, MonitorAssumption
    <3>3. \E k \in DOMAIN u : g[k] = j
      <4>1. j \in Own(recs, s)
        BY <1>0, <3>1 DEF Own
      <4> QED BY <1>6, <3>2, <4>1 DEF Backs
    <3>4. PICK k \in DOMAIN u : g[k] = j
      BY <3>3
    <3>5. k \in I
      BY <1>2, <3>1, <3>4
    <3> QED BY <3>4, <3>5
  <2>2. h \in [I -> W]
    BY <1>3 DEF Injection
  <2> QED BY <2>1, <2>2 DEF Surjection
<1> HIDE DEF I, h
<1>7. all /\ Ordered(recs, n, s) => Cardinality(I) = Cardinality(W)
  BY <1>5, <1>6
<1> QED BY <1>1, <1>5, <1>7

TouchedOK ==
  /\ ToSet(touched) \subseteq SeenAll
  /\ Cardinality(SeenAll) <= Cap => ToSet(touched) = SeenAll

AllSeen == Cardinality(SeenAll) <= Cap
WindowsBacked == \A s \in Sources : \E f : Backs(f, window[s], records, s, AllSeen)

RepeatInv == SummaryInv /\ TouchedOK /\ WindowsBacked /\ RepeatCountsAreTrue

LEMMA RepeatInitInv == MonitorInit => RepeatInv
<1> SUFFICES ASSUME MonitorInit PROVE RepeatInv
  OBVIOUS
<1>1. records = <<>> /\ touched = <<>> /\ window = [s \in Sources |-> <<>>]
  BY DEF MonitorInit
<1>2. SeenAll = {} /\ ToSet(touched) = {} /\ DOMAIN records = {}
  BY <1>1 DEF SeenAll, ToSet
<1>3. TouchedOK
  BY <1>2 DEF TouchedOK
<1>4. ASSUME NEW s \in Sources PROVE \E f : Backs(f, window[s], records, s, AllSeen)
  <2>1. Own(records, s) = {} /\ AllSeen \in BOOLEAN /\ window[s] = <<>>
    BY <1>1, <1>2 DEF Own, AllSeen
  <2>2. Backs(<<>>, <<>>, records, s, AllSeen)
    BY <2>1, BacksNothing
  <2> QED BY <2>1, <2>2
<1>5. RepeatCountsAreTrue
  BY <1>2 DEF RepeatCountsAreTrue
<1> QED BY <1>3, <1>4, <1>5, SummaryInitInv DEF RepeatInv, WindowsBacked

LEMMA RepeatStep ==
  ASSUME RepeatInv, SummaryInv', NEW s \in Sources, NEW t \in Times, NEW confidence,
         NEW allowed, RecordEvent(s, t, confidence, allowed)
  PROVE  TouchedOK' /\ WindowsBacked' /\ RepeatCountsAreTrue'
<1>1. PICK r, hits : r.allowed = allowed /\ Recorded(s, t, Reasons(s, t, confidence, hits), r)
  BY RecordEventDoes
<1>2. /\ MonitorInv /\ KnownOK /\ RecordsOK /\ records' = Append(records, r)
      /\ r.source = s /\ r.time = t /\ r.repeat = CountSince(window'[s], t, RepeatWindow)
  BY <1>1 DEF RepeatInv, SummaryInv, MonitorInv, RecordsTyped, Recorded
<1>0. PICK n \in Nat : n = Len(records)
  BY <1>2, RecordsGrow
<1>3. /\ n \in Nat /\ DOMAIN records = 1..n /\ DOMAIN records' = 1..(n + 1)
      /\ \A i \in 1..n : records'[i] = records[i]
      /\ records'[n + 1] = r
  BY <1>0, <1>2, RecordsGrow
<1>4. Grown(records, n, records', s, t)
  BY <1>2, <1>3 DEF Grown
<1>5. SeenAll' = SeenAll \cup {s}
  BY <1>2, SeenAllStep
<1>6. /\ IsFiniteSet(SeenAll) /\ Cardinality(SeenAll) \in Nat
      /\ Cardinality(SeenAll') = IF s \in SeenAll THEN Cardinality(SeenAll)
                                 ELSE Cardinality(SeenAll) + 1
  BY <1>2, <1>5, FS_AddElement, FS_CardinalityType DEF KnownOK
<1>7. Cap \in Nat /\ AllSeen \in BOOLEAN /\ AllSeen' \in BOOLEAN /\ (AllSeen' => AllSeen)
  BY <1>6, MonitorAssumption DEF AllSeen
<1>8. /\ s \in ToSet(touched') /\ ToSet(touched') \subseteq ToSet(touched) \cup {s}
      /\ s \in ToSet(touched) \/ Len(touched) < Cap
           => ToSet(touched') = ToSet(touched) \cup {s}
      /\ window'[s] = Touch(window[s], t, RepeatWindow)
      /\ \A x \in Sources \ {s} :
           window'[x] = IF x \in ToSet(touched') THEN window[x] ELSE <<>>
      /\ window' \in [Sources -> Seq(Times)]
  BY <1>2, WindowsStep
<1>9. TouchedOK'
  <2>1. ToSet(touched') \subseteq SeenAll'
    BY <1>5, <1>8 DEF RepeatInv, TouchedOK
  <2>2. ASSUME Cardinality(SeenAll') <= Cap PROVE ToSet(touched') = SeenAll'
    <3>1. ToSet(touched) = SeenAll
      BY <1>7, <2>2 DEF AllSeen, RepeatInv, TouchedOK
    <3>2. /\ touched \in Seq(Sources) /\ IsInjective(touched)
          /\ Len(touched) <= Cap /\ Len(touched) \in Nat
      BY <1>2 DEF MonitorInv, ListsOK
    <3>3. Cardinality(ToSet(touched)) = Len(touched)
      BY <3>2, LengthIsCardinality
    <3>4. s \in ToSet(touched) \/ Len(touched) < Cap
      BY <1>6, <1>7, <2>2, <3>1, <3>2, <3>3
    <3> QED BY <1>5, <1>8, <3>1, <3>4
  <2> QED BY <2>1, <2>2 DEF TouchedOK
<1>10. window[s] \in Seq(Times) /\ window'[s] \in Seq(Times)
  BY <1>2, <1>8 DEF MonitorInv, WindowsOK
<1>11. \E f : Backs(f, window'[s], records', s, AllSeen')
  <2>1. PICK f : Backs(f, window[s], records, s, AllSeen)
    BY DEF RepeatInv, WindowsBacked
  <2>2. \E g : Backs(g, Touch(window[s], t, RepeatWindow), records', s, AllSeen')
    BY <1>4, <1>7, <1>10, <2>1, BacksTouch
  <2> QED BY <1>8, <2>2
<1>12. ASSUME NEW x \in Sources, x # s
       PROVE  \E f : Backs(f, window'[x], records', x, AllSeen')
  <2>1. CASE x \in ToSet(touched')
    <3>1. window'[x] = window[x]
      BY <1>8, <1>12, <2>1
    <3>2. PICK f : Backs(f, window[x], records, x, AllSeen)
      BY DEF RepeatInv, WindowsBacked
    <3>3. Backs(f, window[x], records', x, AllSeen')
      BY <1>4, <1>7, <1>12, <3>2, BacksOther
    <3> QED BY <3>1, <3>3
  <2>2. CASE x \notin ToSet(touched')
    <3>1. window'[x] = <<>>
      BY <1>8, <1>12, <2>2
    <3>2. AllSeen' => Own(records', x) = {}
      <4>1. AllSeen' => x \notin SeenAll'
        BY <1>9, <2>2 DEF TouchedOK, AllSeen
      <4> QED BY <4>1 DEF SeenAll, Own
    <3>3. Backs(<<>>, <<>>, records', x, AllSeen')
      BY <1>7, <3>2, BacksNothing
    <3> QED BY <3>1, <3>3
  <2> QED BY <2>1, <2>2
<1>13. WindowsBacked'
  BY <1>11, <1>12 DEF WindowsBacked
<1>14. ASSUME NEW i \in 1..n
       PROVE  /\ records'[i].repeat <= Cardinality(InWindow(i)')
              /\ InOrder(i)' /\ Cardinality(Seen(i)') <= Cap =>
                   records'[i].repeat = Cardinality(InWindow(i)')
  <2>1. \A j \in 1..i : records'[j] = records[j]
    BY <1>3
  <2>2. i \in 1..i /\ records'[i] = records[i]
    BY <1>3
  <2>3. InWindow(i)' = InWindow(i)
    <3>1. ASSUME NEW j \in 1..i PROVE j \in InWindow(i)' <=> j \in InWindow(i)
      BY <2>1, <2>2 DEF InWindow
    <3>2. InWindow(i)' \subseteq 1..i /\ InWindow(i) \subseteq 1..i
      BY DEF InWindow
    <3> QED BY <3>1, <3>2
  <2>4. InOrder(i)' => InOrder(i)
    BY <2>1 DEF InOrder
  <2>5. Seen(i)' = Seen(i)
    BY <2>1 DEF Seen
  <2> QED BY <1>3, <2>2, <2>3, <2>4, <2>5 DEF RepeatInv, RepeatCountsAreTrue
<1>15. /\ records'[n + 1].repeat <= Cardinality(InWindow(n + 1)')
       /\ InOrder(n + 1)' /\ Cardinality(Seen(n + 1)') <= Cap =>
            records'[n + 1].repeat = Cardinality(InWindow(n + 1)')
  <2> DEFINE all == AllSeen'  recs == records'  u == window'[s]
  <2>1. /\ recs[n + 1].source = s /\ recs[n + 1].time = t
        /\ recs[n + 1].repeat = CountSince(u, t, RepeatWindow)
    BY <1>2, <1>3
  <2>2. InWindow(n + 1)' = Windowed(recs, n + 1, s, t)
    BY <2>1 DEF InWindow, Windowed
  <2>3. InOrder(n + 1)' => Ordered(recs, n + 1, s)
    BY <2>1 DEF InOrder, Ordered
  <2>4. Cardinality(Seen(n + 1)') <= Cap => all
    BY <1>3 DEF Seen, AllSeen, SeenAll
  <2>5. \A j \in 1..(n + 1) : recs[j].time \in Nat
    <3>1. Len(records') = n + 1
      BY <1>0, <1>2, RecordsGrow
    <3>2. \A j \in 1..Len(records') : records'[j].time \in Times
      BY DEF SummaryInv, MonitorInv, RecordsTyped
    <3> QED BY <3>1, <3>2 DEF Times
  <2>6. EndsWith(recs, n + 1, s, t)
    BY <1>3, <2>1, <2>5 DEF EndsWith
  <2>7. PICK g : Backs(g, u, recs, s, all)
    BY <1>11
  <2>8. all \in BOOLEAN /\ u \in Seq(Times)
    BY <1>7, <1>10
  <2> HIDE DEF all, recs, u
  <2>9. /\ CountSince(u, t, RepeatWindow) <= Cardinality(Windowed(recs, n + 1, s, t))
        /\ all /\ Ordered(recs, n + 1, s) =>
             CountSince(u, t, RepeatWindow) = Cardinality(Windowed(recs, n + 1, s, t))
    BY <2>6, <2>7, <2>8, CountIsTrue
  <2> QED BY <2>1, <2>2, <2>3, <2>4, <2>9 DEF recs
<1>16. RepeatCountsAreTrue'
  <2>1. \A i \in 1..(n + 1) : i \in 1..n \/ i = n + 1
    BY <1>3
  <2> QED BY <1>3, <1>14, <1>15, <2>1 DEF RepeatCountsAreTrue
<1> QED BY <1>9, <1>13, <1>16

LEMMA RepeatNextInv == RepeatInv /\ [MonitorNext]_monitorVars => RepeatInv'
<1> SUFFICES ASSUME RepeatInv, [MonitorNext]_monitorVars PROVE RepeatInv'
  OBVIOUS
<1>1. SummaryInv'
  BY SummaryNextInv DEF RepeatInv
<1>2. CASE MonitorNext
  BY <1>1, <1>2, RepeatStep DEF MonitorNext, RepeatInv
<1>3. CASE UNCHANGED monitorVars
  <2>1. records' = records /\ touched' = touched /\ window' = window
    BY <1>3 DEF monitorVars
  <2>2. TouchedOK' /\ WindowsBacked'
    BY <2>1 DEF RepeatInv, TouchedOK, WindowsBacked, AllSeen, SeenAll
  <2>3. RepeatCountsAreTrue'
    <3>1. ASSUME NEW i PROVE /\ InWindow(i)' = InWindow(i) /\ Seen(i)' = Seen(i)
                             /\ (InOrder(i)' => InOrder(i))
      BY <2>1 DEF InWindow, InOrder, Seen
    <3>2. RepeatCountsAreTrue
      BY DEF RepeatInv
    <3> QED BY <2>1, <3>1, <3>2 DEF RepeatCountsAreTrue
  <2> QED BY <1>1, <2>2, <2>3 DEF RepeatInv
<1> QED BY <1>2, <1>3

(* A record never claims more repeats than there were events of its source *)
(* in the window, in whatever order times arrive; as long as the times of  *)
(* the source came in order and the stores dropped nobody it claims all.   *)
THEOREM RepeatsAreCounted == MonitorSpec => []RepeatCountsAreTrue
<1>1. RepeatInv => RepeatCountsAreTrue
  BY DEF RepeatInv
<1> QED BY <1>1, RepeatInitInv, RepeatNextInv, PTL DEF MonitorSpec

-----------------------------------------------------------------------------
(***************************************************************************)
(* The dashboard. What it counts it counts over the places of a log, and   *)
(* selecting and sorting move places without losing or doubling any.       *)
(***************************************************************************)
CountedBy(f, K, cl) ==
  f = [x \in {cl[i] : i \in K} |-> Cardinality({i \in K : cl[i] = x})]

(* Counted by class, the places of a set are as many as there are.         *)
LEMMA TotalOfClasses ==
  ASSUME NEW K \in SUBSET Nat, IsFiniteSet(K), NEW cl, NEW f, CountedBy(f, K, cl)
  PROVE  Total(f) = Cardinality(K)
<1> DEFINE Of(x) == {i \in K : cl[i] = x}
           Rank(x) == [i \in Of(x) |-> Cardinality({j \in Of(x) : j <= i})]
           g == [i \in K |-> <<cl[i], Rank(cl[i])[i]>>]
           pairs == UNION {{x} \X (1..f[x]) : x \in DOMAIN f}
<1>1. ASSUME NEW x PROVE Rank(x) \in Bijection(Of(x), 1..Cardinality(Of(x)))
  <2> DEFINE upto == [i \in Of(x) |-> {j \in Of(x) : j <= i}]
  <2>1. Of(x) \in SUBSET K /\ Of(x) \in SUBSET Nat
    OBVIOUS
  <2>2. IsFiniteSet(Of(x)) /\ Ordering(Of(x), upto)
    BY <2>1, FS_Subset, PlacesOrdering
  <2>3. [i \in Of(x) |-> Cardinality(upto[i])] = Rank(x)
    OBVIOUS
  <2> HIDE DEF Rank, Of, upto
  <2> QED BY <2>2, <2>3, RanksAreTaken
<1>2. \A x \in DOMAIN f : f[x] = Cardinality(Of(x))
  BY DEF CountedBy
<1>3. \A i \in K : i \in Of(cl[i]) /\ cl[i] \in DOMAIN f
  BY DEF CountedBy
<1>4. \A x : \A i \in Of(x) : i \in K /\ cl[i] = x
  OBVIOUS
<1>5. \A x \in DOMAIN f : \E i \in K : cl[i] = x
  BY DEF CountedBy
<1> HIDE DEF Of, Rank
<1>6. ASSUME NEW x \in DOMAIN f
      PROVE  /\ \A i \in Of(x) : Rank(x)[i] \in 1..f[x]
             /\ \A i, j \in Of(x) : Rank(x)[i] = Rank(x)[j] => i = j
             /\ \A k \in 1..f[x] : \E i \in Of(x) : Rank(x)[i] = k
  BY <1>1, <1>2 DEF Bijection, Injection, Surjection, IsInjective
<1>7. ASSUME NEW i \in K PROVE g[i] \in pairs
  <2>1. cl[i] \in DOMAIN f /\ Rank(cl[i])[i] \in 1..f[cl[i]]
    BY <1>3, <1>6
  <2> QED BY <2>1
<1>8. ASSUME NEW i \in K, NEW j \in K, g[i] = g[j] PROVE i = j
  <2>1. cl[i] = cl[j] /\ Rank(cl[i])[i] = Rank(cl[j])[j]
    BY <1>8
  <2>2. i \in Of(cl[i]) /\ j \in Of(cl[i]) /\ cl[i] \in DOMAIN f
    BY <1>3, <2>1
  <2> QED BY <1>6, <2>1, <2>2
<1>9. ASSUME NEW y \in pairs PROVE \E i \in K : g[i] = y
  <2>1. PICK x \in DOMAIN f : y \in {x} \X (1..f[x])
    BY <1>9
  <2>5. PICK k \in 1..f[x] : y = <<x, k>>
    <3> DEFINE B == 1..f[x]
    <3>1. y \in {x} \X B
      BY <2>1
    <3> HIDE DEF B
    <3>2. \E k \in B : y = <<x, k>>
      BY <3>1
    <3> QED BY <3>2 DEF B
  <2>2. PICK i \in Of(x) : Rank(x)[i] = k
    BY <1>6, <2>5
  <2>3. i \in K /\ cl[i] = x
    BY <1>4
  <2>4. g[i] = <<x, k>>
    BY <2>2, <2>3
  <2> QED BY <2>3, <2>4, <2>5
<1> HIDE DEF pairs, g
<1>10. g \in [K -> pairs]
  BY <1>7 DEF g
<1>11. g \in Bijection(K, pairs)
  BY <1>8, <1>9, <1>10 DEF Bijection, Injection, Surjection, IsInjective
<1>12. Cardinality(pairs) = Cardinality(K)
  BY <1>11, FS_Bijection DEF ExistsBijection
<1> QED BY <1>12 DEF Total, pairs

(* A log of records with a time.                                           *)
Timed(S) == \A r \in S : r.time \in Nat

LEMMA LoadedIs ==
  ASSUME NEW S, Timed(S), NEW log \in Seq(S)
  PROVE  \E p : Places(p, DOMAIN log, Loaded(log), log)
<1> DEFINE K == DOMAIN log
           upto == [i \in K |->
             {j \in K : \/ log[j].time < log[i].time
                        \/ log[j].time = log[i].time /\ j <= i}]
<1>1. K = 1..Len(log) /\ Len(log) \in Nat /\ \A i \in K : log[i].time \in Nat
  BY DEF Timed
<1>2. IsFiniteSet(K)
  BY <1>1, FS_Interval
<1>3. upto \in [K -> SUBSET K] /\ \A i \in K : i \in upto[i]
  BY <1>1
<1>4. ASSUME NEW i \in K, NEW l \in K,
             log[i].time < log[l].time \/ (log[i].time = log[l].time /\ i < l)
      PROVE  upto[i] \subseteq upto[l] \ {l}
  <2>1. ASSUME NEW j \in upto[i] PROVE j \in upto[l] \ {l}
    <3>1. /\ j \in K
          /\ log[j].time < log[i].time \/ (log[j].time = log[i].time /\ j <= i)
      OBVIOUS
    <3>2. /\ i \in Nat /\ j \in Nat /\ l \in Nat
          /\ log[i].time \in Nat /\ log[j].time \in Nat /\ log[l].time \in Nat
      BY <1>1, <3>1
    <3> HIDE DEF K
    <3> QED BY <1>4, <3>1, <3>2
  <2> QED BY <2>1
<1>5. \A i, l \in K :
        \/ i = l
        \/ log[i].time < log[l].time \/ (log[i].time = log[l].time /\ i < l)
        \/ log[l].time < log[i].time \/ (log[l].time = log[i].time /\ l < i)
  BY <1>1
<1>6. Loaded(log) = Arranged(log, upto)
  BY DEF Loaded
<1> HIDE DEF upto, K
<1>7. Ordering(K, upto)
  BY <1>3, <1>4, <1>5 DEF Ordering
<1>8. \E p : Places(p, K, Arranged(log, upto), log)
  BY <1>2, <1>7, ArrangedPlaces
<1> QED BY <1>6, <1>8 DEF K

(* The first of the newest is of the latest time.                          *)
LEMMA NewestFirstIs ==
  ASSUME NEW S, Timed(S), NEW log \in Seq(S)
  PROVE  \E p : /\ Places(p, DOMAIN log, NewestFirst(log), log)
                /\ log # <<>> => \A i \in DOMAIN log : log[i].time <= log[p[1]].time
<1> DEFINE K == DOMAIN log
           upto == [i \in K |->
             {j \in K : \/ log[j].time > log[i].time
                        \/ log[j].time = log[i].time /\ j <= i}]
<1>1. K = 1..Len(log) /\ Len(log) \in Nat /\ \A i \in K : log[i].time \in Nat
  BY DEF Timed
<1>2. IsFiniteSet(K) /\ Cardinality(K) = Len(log)
  BY <1>1, FS_Interval
<1>3. upto \in [K -> SUBSET K] /\ \A i \in K : i \in upto[i]
  BY <1>1
<1>4. ASSUME NEW i \in K, NEW l \in K,
             log[i].time > log[l].time \/ (log[i].time = log[l].time /\ i < l)
      PROVE  upto[i] \subseteq upto[l] \ {l}
  <2>1. ASSUME NEW j \in upto[i] PROVE j \in upto[l] \ {l}
    <3>1. /\ j \in K
          /\ log[j].time > log[i].time \/ (log[j].time = log[i].time /\ j <= i)
      OBVIOUS
    <3>2. /\ i \in Nat /\ j \in Nat /\ l \in Nat
          /\ log[i].time \in Nat /\ log[j].time \in Nat /\ log[l].time \in Nat
      BY <1>1, <3>1
    <3> HIDE DEF K
    <3> QED BY <1>4, <3>1, <3>2
  <2> QED BY <2>1
<1>5. \A i, l \in K :
        \/ i = l
        \/ log[i].time > log[l].time \/ (log[i].time = log[l].time /\ i < l)
        \/ log[l].time > log[i].time \/ (log[l].time = log[i].time /\ l < i)
  BY <1>1
<1>6. NewestFirst(log) = Arranged(log, upto)
  BY DEF NewestFirst
<1>7. \A i, j \in K : j \notin upto[i] => log[j].time <= log[i].time
  BY <1>1
<1> HIDE DEF upto, K
<1>8. Ordering(K, upto)
  BY <1>3, <1>4, <1>5 DEF Ordering
<1>9. PICK p : /\ Places(p, K, Arranged(log, upto), log)
               /\ \A k \in 1..Cardinality(K) : Cardinality(upto[p[k]]) = k
  BY <1>2, <1>8, ArrangedPlaces
<1>10. ASSUME log # <<>>, NEW i \in K PROVE log[i].time <= log[p[1]].time
  <2>1. 1 \in 1..Cardinality(K)
    BY <1>1, <1>2, <1>10
  <2>2. p[1] \in K /\ Cardinality(upto[p[1]]) = 1
    BY <1>9, <2>1 DEF Places, Bijection, Injection
  <2>3. p[1] \in upto[p[1]] /\ upto[p[1]] \in SUBSET K
    BY <1>3, <2>2
  <2>4. IsFiniteSet(upto[p[1]])
    BY <1>2, <2>3, FS_Subset
  <2>5. PICK x : upto[p[1]] = {x}
    BY <2>2, <2>4, FS_Singleton
  <2>6. upto[p[1]] = {p[1]}
    BY <2>3, <2>5
  <2>7. CASE i = p[1]
    BY <1>1, <2>7
  <2>8. CASE i # p[1]
    BY <1>7, <2>2, <2>6, <2>8
  <2> QED BY <2>7, <2>8
<1> QED BY <1>6, <1>9, <1>10 DEF K

LEMMA LengthIs ==
  ASSUME NEW S, NEW s \in Seq(S)
  PROVE  /\ Len(s) \in Nat /\ DOMAIN s = 1..Len(s)
         /\ IsFiniteSet(DOMAIN s) /\ Cardinality(DOMAIN s) = Len(s)
<1>1. Len(s) \in Nat /\ DOMAIN s = 1..Len(s)
  OBVIOUS
<1> DEFINE n == Len(s)
<1>2. n \in Nat
  BY <1>1
<1> HIDE DEF n
<1>3. IsFiniteSet(1..n) /\ Cardinality(1..n) = n
  BY <1>2, FS_Interval
<1> QED BY <1>1, <1>3 DEF n

LEMMA PickedIs ==
  ASSUME NEW S, NEW s \in Seq(S), NEW kept \in SUBSET (DOMAIN s)
  PROVE  /\ Picked(s, kept) \in Seq(S) /\ Len(Picked(s, kept)) = Cardinality(kept)
         /\ \A k \in DOMAIN Picked(s, kept) : \E i \in kept : Picked(s, kept)[k] = s[i]
         /\ \A i \in kept : \E k \in DOMAIN Picked(s, kept) : Picked(s, kept)[k] = s[i]
<1>1. kept \in SUBSET Nat /\ IsFiniteSet(kept)
  BY LengthIs, FS_Subset
<1>2. PICK p : Places(p, kept, Picked(s, kept), s)
  BY <1>1, PickedPlaces
<1> DEFINE a == Picked(s, kept)
<1>3. Places(p, kept, a, s)
  BY <1>2
<1> HIDE DEF a
<1>4. /\ a \in Seq(S) /\ Len(a) = Cardinality(kept)
      /\ \A k \in DOMAIN a : p[k] \in kept /\ a[k] = s[p[k]]
      /\ \A i \in kept : \E k \in DOMAIN a : p[k] = i
  BY <1>3, PlacesSelect
<1>5. \A i \in kept : \E k \in DOMAIN a : a[k] = s[i]
  BY <1>4
<1> QED BY <1>4, <1>5 DEF a

LEMMA SeverityTotal ==
  ASSUME NEW S, NEW log \in Seq(S) PROVE Total(SeverityCounts(log)) = Len(log)
<1> DEFINE K == DOMAIN log
           cl == [i \in K |-> log[i].severity]
<1>1. K \in SUBSET Nat /\ IsFiniteSet(K) /\ Cardinality(K) = Len(log)
  BY LengthIs
<1>2. CountedBy(SeverityCounts(log), K, cl)
  <2>1. {cl[i] : i \in K} = {log[i].severity : i \in K}
    OBVIOUS
  <2>2. \A x : {i \in K : cl[i] = x} = {i \in K : log[i].severity = x}
    OBVIOUS
  <2> QED BY <2>1, <2>2 DEF SeverityCounts, CountedBy
<1> HIDE DEF K, cl
<1>3. Total(SeverityCounts(log)) = Cardinality(K)
  BY <1>1, <1>2, TotalOfClasses
<1> QED BY <1>1, <1>3

LEMMA HitsTotal ==
  ASSUME NEW S, NEW log \in Seq(S)
  PROVE  Total([s \in DOMAIN Profiles(log) |-> Profiles(log)[s].hits]) = Len(log)
<1> DEFINE K == DOMAIN log
           cl == [i \in K |-> log[i].source]
           hits == [s \in DOMAIN Profiles(log) |-> Profiles(log)[s].hits]
<1>1. K \in SUBSET Nat /\ IsFiniteSet(K) /\ Cardinality(K) = Len(log)
  BY LengthIs
<1>2. DOMAIN Profiles(log) = {cl[i] : i \in K}
  BY DEF Profiles, SourcesIn
<1>3. ASSUME NEW s \in {cl[i] : i \in K}
      PROVE  Profiles(log)[s].hits = Cardinality({i \in K : cl[i] = s})
  <2> DEFINE own == {i \in DOMAIN log : log[i].source = s}
  <2>1. s \in SourcesIn(log)
    BY DEF SourcesIn
  <2>2. Profiles(log)[s].hits = Len(Picked(log, own))
    BY <2>1 DEF Profiles
  <2>3. own \in SUBSET (DOMAIN log) /\ own = {i \in K : cl[i] = s}
    OBVIOUS
  <2> HIDE DEF own
  <2>4. Len(Picked(log, own)) = Cardinality(own)
    BY <2>3, PickedIs
  <2> QED BY <2>2, <2>3, <2>4
<1>4. CountedBy(hits, K, cl)
  <2> HIDE DEF cl, K
  <2> QED BY <1>2, <1>3 DEF CountedBy
<1> HIDE DEF K, cl, hits
<1>5. Total(hits) = Cardinality(K)
  BY <1>1, <1>4, TotalOfClasses
<1> QED BY <1>1, <1>5 DEF hits

LEMMA TimelineTotal ==
  ASSUME NEW S, NEW log \in Seq(S), NEW now
  PROVE  Total(Timeline(log, now)) = Cardinality({i \in DOMAIN log : log[i].time + Hour >= now})
<1> DEFINE K == {i \in DOMAIN log : log[i].time + Hour >= now}
           cl == [i \in K |-> log[i].time]
<1>1. K \in SUBSET Nat /\ IsFiniteSet(K)
  BY LengthIs, FS_Subset
<1>2. CountedBy(Timeline(log, now), K, cl)
  <2>1. K = {i \in DOMAIN log : Recent(log[i], now)}
    BY DEF Recent
  <2>2. {cl[i] : i \in K} = {log[i].time : i \in K}
    OBVIOUS
  <2>3. \A x : {i \in K : cl[i] = x} = {i \in K : log[i].time = x}
    OBVIOUS
  <2>4. Timeline(log, now)
          = [m \in {log[i].time : i \in K} |-> Cardinality({i \in K : log[i].time = m})]
    <3> HIDE DEF K
    <3> QED BY <2>1 DEF Timeline
  <2> QED BY <2>2, <2>3, <2>4 DEF CountedBy
<1> HIDE DEF K, cl
<1>3. Total(Timeline(log, now)) = Cardinality(K)
  BY <1>1, <1>2, TotalOfClasses
<1> QED BY <1>3 DEF K

(* The timeline is counted over the range, the breakdown by minutes over   *)
(* the whole log: no range is shorter than the hour they both show.        *)
Kept(log, now, range) ==
  {i \in DOMAIN log : range = "all" \/ log[i].time + RangeSpans[range] >= now}

LEMMA TimelineIsMinutes ==
  ASSUME NEW S, Timed(S), NEW log \in Seq(S), NEW now \in Nat, NEW range \in Ranges
  PROVE  Timeline(Filtered(log, now, range), now) = MinuteBreakdown(log, now)
<1> DEFINE K == Kept(log, now, range)
           F == Filtered(log, now, range)
           R == {i \in DOMAIN log : log[i].time + Hour >= now}
<1>1. K \in SUBSET (DOMAIN log) /\ F = Picked(log, K)
  BY DEF Kept, Filtered
<1>2. K \in SUBSET (DOMAIN log) /\ K \in SUBSET Nat /\ IsFiniteSet(K)
  BY <1>1, LengthIs, FS_Subset
<1>3. R \in SUBSET K
  <2>1. ASSUME NEW i \in R PROVE i \in K
    <3>1. CASE range = "all"
      BY <3>1 DEF Kept
    <3>2. CASE range # "all"
      <4>1. RangeSpans[range] \in Nat /\ RangeSpans[range] >= Hour /\ Hour \in Nat
        BY <3>2, DashboardAssumption DEF Ranges
      <4>2. log[i].time \in Nat /\ log[i].time + Hour >= now
        BY DEF Timed
      <4> QED BY <4>1, <4>2 DEF Kept
    <3> QED BY <3>1, <3>2
  <2> QED BY <2>1
<1> HIDE DEF K, F
<1>4. PICK p : Places(p, K, F, log)
  BY <1>1, <1>2, PickedPlaces
<1>5. /\ \A k \in DOMAIN F : p[k] \in K /\ F[k] = log[p[k]]
      /\ \A i \in K : \E k \in DOMAIN F : p[k] = i
  BY <1>2, <1>4, PlacesSelect
<1> DEFINE RF == {k \in DOMAIN F : F[k].time + Hour >= now}
<1>6. {F[k].time : k \in RF} = {log[i].time : i \in R}
  <2>1. ASSUME NEW k \in RF PROVE p[k] \in R /\ F[k] = log[p[k]]
    BY <1>1, <1>5
  <2>2. ASSUME NEW i \in R PROVE \E k \in RF : F[k] = log[i]
    <3>1. PICK k \in DOMAIN F : p[k] = i
      BY <1>3, <1>5
    <3> QED BY <1>5, <3>1
  <2> HIDE DEF RF, R
  <2> QED BY <2>1, <2>2
<1>7. ASSUME NEW m
      PROVE  Cardinality({k \in RF : F[k].time = m}) = Cardinality({i \in R : log[i].time = m})
  <2> DEFINE G == {i \in R : log[i].time = m}
  <2>1. G \in SUBSET K
    BY <1>3
  <2>2. {k \in RF : F[k].time = m} = Standing(p, F, G)
    BY <1>1, <1>5 DEF Standing
  <2> HIDE DEF G
  <2>3. Cardinality(Standing(p, F, G)) = Cardinality(G)
    BY <1>2, <1>4, <2>1, PlacesCount
  <2> QED BY <2>2, <2>3 DEF G
<1>8. RF = {k \in DOMAIN F : Recent(F[k], now)}
  BY DEF Recent
<1>9. Timeline(F, now)
        = [m \in {F[k].time : k \in RF} |-> Cardinality({k \in RF : F[k].time = m})]
  <2> HIDE DEF RF
  <2> QED BY <1>8 DEF Timeline
<1>10. MinuteBreakdown(log, now)
        = [m \in {log[i].time : i \in R} |-> Cardinality({i \in R : log[i].time = m})]
  BY DEF MinuteBreakdown
<1> HIDE DEF R, RF
<1> QED BY <1>6, <1>7, <1>9, <1>10 DEF F

LEMMA BlockedAreShown ==
  ASSUME NEW S, Timed(S), NEW log \in Seq(S)
  PROVE  Cardinality({i \in DOMAIN log : Refused(log[i])}) <= Len(BlockedActions(log))
<1> DEFINE K == {i \in DOMAIN log : ~log[i].allowed \/ log[i].action = "BLOCK"}
           R == {i \in DOMAIN log : Refused(log[i])}
           B == Picked(log, K)
<1>1. IsFiniteSet(K)
  BY LengthIs, FS_Subset
<1>2. K \in SUBSET (DOMAIN log) /\ R \in SUBSET K
  BY DEF Refused
<1>3. BlockedActions(log) = NewestFirst(B)
  BY DEF BlockedActions
<1> HIDE DEF K, R
<1>4. B \in Seq(S) /\ Len(B) = Cardinality(K)
  BY <1>2, PickedIs
<1> HIDE DEF B
<1>5. PICK p : Places(p, DOMAIN B, NewestFirst(B), B)
  BY <1>4, NewestFirstIs
<1>6. Len(NewestFirst(B)) = Cardinality(DOMAIN B) /\ Cardinality(DOMAIN B) = Len(B)
  BY <1>4, <1>5, PlacesSelect, LengthIs
<1>7. Cardinality(R) <= Cardinality(K)
  BY <1>1, <1>2, FS_Subset
<1> QED BY <1>3, <1>4, <1>6, <1>7 DEF R

LEMMA OverviewIsShown ==
  ASSUME NEW S, NEW display \in Seq(S), NEW limit \in Nat
  PROVE  IsPrefix(SubSeq(display, 1, Min({Len(display), Max({limit, 1})})), display)
<1>1. PICK n \in Nat : n = Len(display)
  OBVIOUS
<1>2. Max({limit, 1}) \in Nat
  <2>1. \E x \in {limit, 1} : \A y \in {limit, 1} : x >= y
    BY limit >= 1 \/ 1 >= limit
  <2>2. Max({limit, 1}) \in {limit, 1}
    BY <2>1 DEF Max
  <2> QED BY <2>2
<1>3. PICK m \in Nat : m = Max({limit, 1})
  BY <1>2
<1>4. Min({n, m}) \in 0..n
  <2>1. \E x \in {n, m} : \A y \in {n, m} : x <= y
    BY n <= m \/ m <= n
  <2>2. Min({n, m}) \in {n, m} /\ \A y \in {n, m} : Min({n, m}) <= y
    BY <2>1 DEF Min
  <2> QED BY <2>2
<1>5. PICK k \in 0..n : k = Min({n, m})
  BY <1>4
<1> DEFINE a == SubSeq(display, 1, k)
<1>6. /\ a \in Seq(S) /\ Len(a) = k
      /\ \A i \in 1..k : a[i] = display[i]
  <2>1. \A i \in 1..k : display[i] \in S
    BY <1>1
  <2>2. /\ a \in Seq(S) /\ Len(a) = IF 1 <= k THEN k - 1 + 1 ELSE 0
        /\ \A i \in 1..(k - 1 + 1) : a[i] = display[1 + i - 1]
    BY <2>1, SubSeqProperties
  <2> QED BY <2>2
<1> HIDE DEF a
<1>7. SubSeq(a, 1, k) = a
  BY <1>6
<1>8. SubSeq(display, 1, Len(a)) = a /\ SubSeq(a, 1, Len(a)) = a
  BY <1>6, <1>7 DEF a
<1>9. IsPrefix(a, display)
  BY <1>1, <1>6, <1>8 DEF IsPrefix
<1>10. Min({Len(display), Max({limit, 1})}) = k
  BY <1>1, <1>3, <1>5
<1> QED BY <1>9, <1>10 DEF a

(* Who was seen last is seen in the profile of its source.                 *)
LEMMA LastIsSeen ==
  ASSUME NEW S, Timed(S), NEW log \in Seq(S), log # <<>>
  PROVE  \E s \in DOMAIN Profiles(log) :
           Profiles(log)[s].last = NewestFirst(log)[1].time
<1>1. /\ DOMAIN log = 1..Len(log) /\ Len(log) \in Nat \ {0}
      /\ Cardinality(DOMAIN log) = Len(log)
      /\ \A i \in DOMAIN log : log[i] \in S
  BY LengthIs
<1>2. PICK p : /\ Places(p, DOMAIN log, NewestFirst(log), log)
               /\ \A i \in DOMAIN log : log[i].time <= log[p[1]].time
  BY NewestFirstIs
<1>3. p[1] \in DOMAIN log /\ NewestFirst(log)[1] = log[p[1]]
  <2>1. 1 \in 1..Cardinality(DOMAIN log)
    BY <1>1
  <2> QED BY <1>2, <2>1 DEF Places, Bijection, Injection
<1> DEFINE s == log[p[1]].source
           K == {i \in DOMAIN log : log[i].source = s}
           own == Picked(log, K)
           times == {own[i].time : i \in DOMAIN own}
           t == log[p[1]].time
<1>4. s \in DOMAIN Profiles(log) /\ Profiles(log)[s].last = Max(times)
  BY <1>3 DEF Profiles, SourcesIn
<1>5. K \in SUBSET (DOMAIN log) /\ p[1] \in K
  BY <1>3
<1> HIDE DEF K
<1>6. /\ \A k \in DOMAIN own : \E i \in K : own[k] = log[i]
      /\ \A i \in K : \E k \in DOMAIN own : own[k] = log[i]
  BY <1>5, PickedIs
<1> HIDE DEF own
<1>7. t \in times
  BY <1>5, <1>6
<1>8. \A u \in times : u <= t /\ u \in Nat
  BY <1>1, <1>2, <1>5, <1>6 DEF Timed
<1> HIDE DEF times, t
<1>9. \A u \in times : t >= u
  BY <1>7, <1>8
<1>10. \A x \in times : (\A y \in times : x >= y) => x = t
  BY <1>7, <1>8
<1>11. Max(times) = t
  BY <1>7, <1>9, <1>10 DEF Max
<1> QED BY <1>3, <1>4, <1>11 DEF t

(* What build_dashboard_state makes of any log, at any time.               *)
LEMMA SlicesAgreeAlways ==
  ASSUME NEW S, Timed(S), NEW log \in Seq(S), NEW now \in Nat, NEW range \in Ranges
  PROVE  SlicesAgree(DashboardState(log, now, range))
<1> DEFINE all == Loaded(log)
           F == Filtered(all, now, range)
           state == DashboardState(log, now, range)
<1>1. all \in Seq(S)
  <2>1. PICK p : Places(p, DOMAIN log, Loaded(log), log)
    BY LoadedIs
  <2> QED BY <2>1, PlacesSelect
<1>2. F = Picked(all, Kept(all, now, range)) /\ Kept(all, now, range) \in SUBSET (DOMAIN all)
  BY DEF Filtered, Kept
<1>3. state = [incidents  |-> Len(F),
      blocked    |-> Cardinality({i \in DOMAIN F : Refused(F[i])}),
      attackers  |-> Cardinality(SourcesIn(F)),
      lastHour   |-> Cardinality({i \in DOMAIN F : F[i].time + Hour >= now}),
      severities |-> SeverityCounts(F),
      timeline   |-> Timeline(F, now),
      minutes    |-> MinuteBreakdown(all, now),
      display    |-> NewestFirst(F),
      overview   |-> SubSeq(NewestFirst(F), 1,
                            Min({Len(F), Max({IncidentLimit, 1})})),
      blockedActions |-> BlockedActions(F),
      profiles   |-> Profiles(F)]
  BY DEF DashboardState
<1> HIDE DEF all
<1>4. F \in Seq(S)
  BY <1>1, <1>2, PickedIs
<1>5. Timeline(F, now) = MinuteBreakdown(all, now)
  BY <1>1, TimelineIsMinutes
<1> HIDE DEF F
<1>6. PICK p : Places(p, DOMAIN F, NewestFirst(F), F)
  BY <1>4, NewestFirstIs
<1>7. NewestFirst(F) \in Seq(S) /\ Len(NewestFirst(F)) = Len(F)
  BY <1>4, <1>6, PlacesSelect, LengthIs
<1>8. IncidentLimit \in Nat
  BY DashboardAssumption
<1>9. Total(SeverityCounts(F)) = Len(F)
  BY <1>4, SeverityTotal
<1>10. Total([s \in DOMAIN Profiles(F) |-> Profiles(F)[s].hits]) = Len(F)
  BY <1>4, HitsTotal
<1>11. DOMAIN Profiles(F) = SourcesIn(F)
  BY DEF Profiles
<1>12. Total(Timeline(F, now)) = Cardinality({i \in DOMAIN F : F[i].time + Hour >= now})
  BY <1>4, TimelineTotal
<1>13. Cardinality({i \in DOMAIN F : Refused(F[i])}) <= Len(BlockedActions(F))
  BY <1>4, BlockedAreShown
<1>14. IsPrefix(SubSeq(NewestFirst(F), 1, Min({Len(F), Max({IncidentLimit, 1})})),
                NewestFirst(F))
  <2> DEFINE d == NewestFirst(F)
  <2>1. d \in Seq(S) /\ Len(d) = Len(F)
    BY <1>7
  <2> HIDE DEF d
  <2>2. IsPrefix(SubSeq(d, 1, Min({Len(d), Max({IncidentLimit, 1})})), d)
    BY <1>8, <2>1, OverviewIsShown
  <2>3. IsPrefix(SubSeq(d, 1, Min({Len(F), Max({IncidentLimit, 1})})), d)
    BY <2>1, <2>2
  <2> QED BY <2>3 DEF d
<1>15. Len(F) > 0 => \E s \in DOMAIN Profiles(F) :
         Profiles(F)[s].last = NewestFirst(F)[1].time
  <2>1. Len(F) > 0 => F # <<>>
    BY <1>4
  <2> QED BY <1>4, <2>1, LastIsSeen
<1> HIDE DEF state
<1>16. /\ state.incidents = Len(F)
       /\ state.blocked = Cardinality({i \in DOMAIN F : Refused(F[i])})
       /\ state.attackers = Cardinality(SourcesIn(F))
       /\ state.lastHour = Cardinality({i \in DOMAIN F : F[i].time + Hour >= now})
       /\ state.severities = SeverityCounts(F) /\ state.timeline = Timeline(F, now)
       /\ state.minutes = MinuteBreakdown(all, now) /\ state.display = NewestFirst(F)
       /\ state.overview = SubSeq(NewestFirst(F), 1, Min({Len(F), Max({IncidentLimit, 1})}))
       /\ state.blockedActions = BlockedActions(F) /\ state.profiles = Profiles(F)
  BY <1>3
<1> QED BY <1>5, <1>9, <1>10, <1>11, <1>12, <1>13, <1>14, <1>15, <1>16 DEF SlicesAgree, state

-----------------------------------------------------------------------------
(***************************************************************************)
(* The log. While every write went well it is the records, each in its     *)
(* place, and the dashboard counts over it what the monitor counted.       *)
(***************************************************************************)
WrittenOK ==
  /\ written \in Seq(Nat) /\ Len(written) <= Len(records)
  /\ \A i \in 1..Len(written) : written[i] \in 1..Len(records)
  /\ Len(written) = Len(records) => \A i \in 1..Len(written) : written[i] = i

DashboardInv == SummaryInv /\ WrittenOK

LEMMA WrittenStep ==
  ASSUME RecordsOK, WrittenOK, NEW r, records' = Append(records, r),
         written' = Append(written, Len(records')) \/ written' = written
  PROVE  WrittenOK'
<1> DEFINE n == Len(records)  m == Len(written)
<1>1. n \in Nat /\ Len(records') = n + 1
  BY RecordsGrow DEF RecordsOK
<1>2. /\ m \in Nat /\ m <= n /\ \A i \in 1..m : written[i] \in 1..n
      /\ m = n => \A i \in 1..m : written[i] = i
  BY DEF WrittenOK
<1>3. CASE written' = written
  <2>1. Len(written') = m /\ \A i \in 1..m : written'[i] = written[i]
    BY <1>3
  <2> HIDE DEF n, m
  <2> QED BY <1>1, <1>2, <1>3, <2>1 DEF WrittenOK
<1>4. CASE written' = Append(written, n + 1)
  <2>1. /\ written' \in Seq(Nat) /\ Len(written') = m + 1 /\ written'[m + 1] = n + 1
        /\ \A i \in 1..m : written'[i] = written[i]
    BY <1>1, <1>2, <1>4, AppendProperties DEF WrittenOK
  <2>2. \A i \in 1..(m + 1) : i \in 1..m \/ i = m + 1
    BY <1>2
  <2> HIDE DEF n, m
  <2>3. ASSUME NEW i \in 1..(m + 1) PROVE written'[i] \in 1..(n + 1)
    <3>1. CASE i \in 1..m
      <4>1. written'[i] = written[i]
        BY <2>1, <3>1
      <4>2. written[i] \in 1..n
        BY <1>2, <3>1
      <4>3. \A k \in 1..n : k \in 1..(n + 1)
        BY <1>1
      <4> QED BY <4>1, <4>2, <4>3
    <3>2. CASE i = m + 1
      BY <1>1, <2>1, <3>2
    <3> QED BY <2>2, <3>1, <3>2
  <2>4. m + 1 = n + 1 => \A i \in 1..(m + 1) : written'[i] = i
    BY <1>1, <1>2, <2>1, <2>2
  <2>5. Len(written') <= Len(records')
    BY <1>1, <1>2, <2>1
  <2> QED BY <1>1, <2>1, <2>3, <2>4, <2>5 DEF WrittenOK
<1> QED BY <1>1, <1>3, <1>4

LEMMA DashboardInitInv == MonitorInit => DashboardInv
<1> SUFFICES ASSUME MonitorInit PROVE DashboardInv
  OBVIOUS
<1>1. WrittenOK
  BY DEF MonitorInit, WrittenOK
<1> QED BY <1>1, SummaryInitInv DEF DashboardInv

LEMMA DashboardNextInv == DashboardInv /\ [MonitorNext]_monitorVars => DashboardInv'
<1> SUFFICES ASSUME DashboardInv, [MonitorNext]_monitorVars PROVE DashboardInv'
  OBVIOUS
<1>1. SummaryInv'
  BY SummaryNextInv DEF DashboardInv
<1>2. CASE MonitorNext
  <2>1. /\ \E r : records' = Append(records, r)
        /\ written' = Append(written, Len(records')) \/ written' = written
    BY <1>2 DEF MonitorNext, RecordEvent
  <2>2. RecordsOK /\ WrittenOK
    BY DEF DashboardInv, SummaryInv, MonitorInv, RecordsTyped
  <2>3. WrittenOK'
    BY <2>1, <2>2, WrittenStep
  <2> QED BY <1>1, <2>3 DEF DashboardInv
<1>3. CASE UNCHANGED monitorVars
  BY <1>1, <1>3 DEF monitorVars, DashboardInv, WrittenOK
<1> QED BY <1>2, <1>3

(* The log holds records, each with its time.                              *)
Shown == {records[i] : i \in 1..Len(records)}

LEMMA LogIs ==
  ASSUME DashboardInv
  PROVE  /\ Log \in Seq(Shown) /\ Timed(Shown)
         /\ Len(written) = Len(records) => Log = records
<1>1. /\ RecordsOK /\ WrittenOK /\ Len(records) \in Nat
      /\ \A i \in 1..Len(records) : records[i].time \in Times
  BY RecordsGrow DEF DashboardInv, SummaryInv, MonitorInv, RecordsTyped, RecordsOK
<1>2. Timed(Shown)
  BY <1>1, MonitorAssumption DEF Timed, Shown, Times
<1>3. /\ DOMAIN written = 1..Len(written) /\ Len(written) \in Nat
      /\ \A i \in 1..Len(written) : records[written[i]] \in Shown
  BY <1>1 DEF WrittenOK, Shown
<1>4. Log \in Seq(Shown) /\ Log = [i \in 1..Len(written) |-> records[written[i]]]
  BY <1>3 DEF Log
<1>5. ASSUME Len(written) = Len(records) PROVE Log = records
  <2>1. records = [i \in 1..Len(records) |-> records[i]]
    BY <1>1 DEF RecordsOK
  <2>2. \A i \in 1..Len(records) : written[i] = i
    BY <1>1, <1>5 DEF WrittenOK
  <2> QED BY <1>4, <1>5, <2>1, <2>2
<1> QED BY <1>2, <1>4, <1>5

(* Over the whole of a log the dashboard counts every record once.         *)
LEMMA CountsOfAll ==
  ASSUME NEW S, Timed(S), NEW log \in Seq(S)
  PROVE  LET state == DashboardState(log, 0, "all") IN
           /\ state.incidents = Len(log)
           /\ state.blocked = Cardinality({i \in DOMAIN log : ~log[i].allowed})
           /\ state.attackers = Cardinality({log[i].source : i \in DOMAIN log})
<1> DEFINE all == Loaded(log)
           F == Filtered(all, 0, "all")
           state == DashboardState(log, 0, "all")
<1>1. PICK p : Places(p, DOMAIN log, all, log)
  BY LoadedIs
<1> HIDE DEF all
<1>2. /\ all \in Seq(S) /\ Len(all) = Len(log)
      /\ \A k \in DOMAIN all : p[k] \in DOMAIN log /\ all[k] = log[p[k]]
      /\ \A i \in DOMAIN log : \E k \in DOMAIN all : p[k] = i
  BY <1>1, PlacesSelect, LengthIs
<1>3. F = Picked(all, DOMAIN all)
  <2>1. {i \in DOMAIN all : TRUE} = DOMAIN all
    OBVIOUS
  <2> QED BY <2>1 DEF Filtered
<1>4. DOMAIN all \in SUBSET Nat /\ IsFiniteSet(DOMAIN all)
  BY <1>2, LengthIs
<1>5. PICK q : Places(q, DOMAIN all, F, all)
  BY <1>3, <1>4, PickedPlaces
<1>6. /\ state.incidents = Len(F)
      /\ state.blocked = Cardinality({i \in DOMAIN F : Refused(F[i])})
      /\ state.attackers = Cardinality(SourcesIn(F))
  BY DEF DashboardState, all
<1> HIDE DEF F, state
<1>7. /\ Len(F) = Len(all)
      /\ \A k \in DOMAIN F : q[k] \in DOMAIN all /\ F[k] = all[q[k]]
      /\ \A i \in DOMAIN all : \E k \in DOMAIN F : q[k] = i
  BY <1>2, <1>5, PlacesSelect, LengthIs
<1>8. SourcesIn(F) = {log[i].source : i \in DOMAIN log}
  <2>1. {F[k].source : k \in DOMAIN F} = {all[k].source : k \in DOMAIN all}
    BY <1>7
  <2>2. {all[k].source : k \in DOMAIN all} = {log[i].source : i \in DOMAIN log}
    BY <1>2
  <2> QED BY <2>1, <2>2 DEF SourcesIn
<1>9. Cardinality({i \in DOMAIN F : Refused(F[i])})
        = Cardinality({i \in DOMAIN log : ~log[i].allowed})
  <2> DEFINE G == {i \in DOMAIN log : ~log[i].allowed}
             H == Standing(p, all, G)
  <2>1. G \in SUBSET (DOMAIN log) /\ H \in SUBSET (DOMAIN all)
    BY DEF Standing
  <2>2. {i \in DOMAIN F : Refused(F[i])} = Standing(q, F, H)
    BY <1>2, <1>7 DEF Standing, Refused
  <2> HIDE DEF G, H
  <2>3. Cardinality(Standing(q, F, H)) = Cardinality(H)
    BY <1>4, <1>5, <2>1, PlacesCount
  <2>4. Cardinality(H) = Cardinality(G)
    BY <1>1, <2>1, LengthIs, PlacesCount DEF H
  <2> QED BY <2>2, <2>3, <2>4 DEF G
<1> QED BY <1>2, <1>6, <1>7, <1>8, <1>9 DEF state

(* build_dashboard_state: at any time and for every range the slices of    *)
(* what the dashboard shows agree with each other, whatever of the log was *)
(* lost; and while nothing was, they are what the monitor counted.         *)
THEOREM DashboardIsRight == MonitorSpec => []DashboardAgrees
<1>1. DashboardInv => DashboardAgrees
  <2> SUFFICES ASSUME DashboardInv PROVE DashboardAgrees
    OBVIOUS
  <2>1. /\ Log \in Seq(Shown) /\ Timed(Shown)
        /\ Len(written) = Len(records) => Log = records
    BY LogIs
  <2>2. ASSUME NEW now \in 1..MaxTime, NEW range \in Ranges
        PROVE  SlicesAgree(DashboardState(Log, now, range))
    <3>1. now \in Nat
      OBVIOUS
    <3> QED BY <2>1, <3>1, SlicesAgreeAlways
  <2>3. ASSUME Len(written) = Len(records) PROVE DashboardMatchesMonitor
    <3> DEFINE state == DashboardState(Log, 0, "all")
    <3>1. /\ state.incidents = Len(Log)
          /\ state.blocked = Cardinality({i \in DOMAIN Log : ~Log[i].allowed})
          /\ state.attackers = Cardinality({Log[i].source : i \in DOMAIN Log})
      BY <2>1, CountsOfAll
    <3> HIDE DEF state
    <3>2. Log = records
      BY <2>1, <2>3
    <3>3. /\ state.incidents = Len(records) /\ state.blocked = Cardinality(Blocked)
          /\ state.attackers = Cardinality(SeenAll)
      BY <3>1, <3>2 DEF Blocked, SeenAll
    <3>4. CountedOK /\ KnownOK /\ known \in Seq(Sources) /\ IsInjective(known)
      BY DEF DashboardInv, SummaryInv, MonitorInv, ListsOK
    <3>5. Len(known) = Cardinality(ToSet(known))
      BY <3>4, LengthIsCardinality
    <3>6. Cardinality(ToSet(known)) <= Cardinality(SeenAll)
      BY <3>4, FS_Subset DEF KnownOK
    <3>7. /\ state.incidents = counts["total"] /\ state.blocked = counts["blocked"]
          /\ state.attackers >= Len(known)
          /\ state.attackers <= Cap => state.attackers = Len(known)
      BY <3>3, <3>4, <3>5, <3>6 DEF CountedOK, KnownOK
    <3> QED BY <3>7 DEF DashboardMatchesMonitor, state
  <2>4. DashboardMatchesMonitor
    BY <2>3 DEF DashboardMatchesMonitor
  <2> QED BY <2>2, <2>4 DEF DashboardAgrees
<1> QED BY <1>1, DashboardInitInv, DashboardNextInv, PTL DEF MonitorSpec
=============================================================================
