-------------------------- MODULE ReasoningProofs --------------------------
(***************************************************************************)
(* Proofs about the brain, the guardian's analyst and the set-up of their  *)
(* configuration: for any set of configurations, events, answers of the    *)
(* models and histories.                                                   *)
(***************************************************************************)
EXTENDS Brain, Analyst, Setup, SelectionProofs, SequenceTheorems, FiniteSetTheorems, TLAPS

(***************************************************************************)
(* What the overrides demand is fixed when the reasoner has come to its    *)
(* decision; the decision is validated and audited later, in the same      *)
(* context. OverridesInv carries the one to the other.                     *)
(***************************************************************************)
Targets == {"self", "labelled self", "low pid", "internal", "public", "none"}
DecisionShape ==
  [incident : BOOLEAN, severity : Severities \cup {"odd"}, action : ActionTexts,
   target : Targets, confidence : {"high", "low", "no number"}, text : BOOLEAN,
   typed : BOOLEAN]

ByReasoner == Routes \cup {"rule engine"}

Demanded(answer, ctx) ==
  Overrides(ctx) => answer.action = Enforced(ctx).action
                    /\ answer.severity = Enforced(ctx).severity

RawOK ==
  stage = "decide" =>
    \/ raw.by \in ByReasoner /\ Demanded(raw.answer, context)
    \/ raw.by \in {"rules", "safe_fallback"}

OverridesInv == RawOK /\ OverridesHold

LEMMA EnforcedIsValid ==
  ASSUME NEW ctx
  PROVE  /\ Enforced(ctx).action \in ActionTypes
         /\ Enforced(ctx).severity \in Severities
BY DEF Enforced, ActionTypes, Severities, Destructive

(* Normalising keeps what was overridden.                                  *)
LEMMA NormalizedOverride ==
  ASSUME NEW ctx,
         NEW d \in DecisionShape
  PROVE  Demanded(Normalized(Overridden(d, ctx)), ctx)
<1> SUFFICES ASSUME Overrides(ctx)
             PROVE  /\ Normalized(Overridden(d, ctx)).action = Enforced(ctx).action
                    /\ Normalized(Overridden(d, ctx)).severity = Enforced(ctx).severity
  BY DEF Demanded
<1>1. /\ Overridden(d, ctx).action = Enforced(ctx).action
      /\ Overridden(d, ctx).severity = Enforced(ctx).severity
  BY DEF Overridden, DecisionShape
<1>2. Enforced(ctx).severity # "odd"
  BY EnforcedIsValid DEF Severities
<1> QED BY <1>1, <1>2, EnforcedIsValid DEF Normalized

(* The rules decide as a model may.                                        *)
LEMMA RuleDecides ==
  ASSUME NEW e, RuleApplies(e)
  PROVE  RulesDecision(e, "self") \in
           DecisionShape
<1> DEFINE rules == DeterministicRules(e)
           first == CHOOSE i \in 1..6 : rules[i].when /\ \A j \in 1..(i - 1) : ~rules[j].when
<1>1. \A i \in 1..6 : /\ rules[i].severity \in Severities
                      /\ rules[i].action \in ActionTypes
  <2>1. /\ rules[1].severity = "HIGH" /\ rules[1].action = "ALERT"
        /\ rules[2].severity = "CRITICAL" /\ rules[2].action = "KILL"
        /\ rules[3].severity = "HIGH" /\ rules[3].action = "ALERT"
        /\ rules[4].severity = "CRITICAL" /\ rules[4].action = "BLOCK"
        /\ rules[5].severity = "CRITICAL" /\ rules[5].action = "ALERT"
        /\ rules[6].severity = "MEDIUM" /\ rules[6].action = "ALERT"
    BY DEF DeterministicRules, Rule
  <2>2. \A i \in 1..6 : i \in {1, 2, 3, 4, 5, 6}
    OBVIOUS
  <2> HIDE DEF rules
  <2> QED BY <2>1, <2>2 DEF Severities, ActionTypes, Destructive
<1>2. \E i \in 1..6 : rules[i].when /\ \A j \in 1..(i - 1) : ~rules[j].when
  <2> HIDE DEF rules
  <2>1. \E i \in 1..6 : rules[i].when
    BY DEF RuleApplies, rules
  <2> QED BY <2>1
<1>3. first \in 1..6
  BY <1>2
<1> DEFINE severity == rules[first].severity
           action == rules[first].action
           confidence == IF rules[first].confident THEN "high" ELSE "low"
<1>4. RulesDecision(e, "self") =
        [incident |-> TRUE, severity |-> severity, action |-> action, target |-> "self",
         confidence |-> confidence, text |-> TRUE, typed |-> TRUE]
  BY DEF RulesDecision
<1>5. /\ severity \in Severities \cup {"odd"} /\ action \in ActionTexts
      /\ confidence \in {"high", "low", "no number"} /\ "self" \in Targets
  BY <1>1, <1>3 DEF ActionTexts, Targets
<1> HIDE DEF severity, action, confidence
<1>6. ASSUME NEW b \in BOOLEAN
      PROVE  [incident |-> b, severity |-> severity, action |-> action, target |-> "self",
              confidence |-> confidence, text |-> b, typed |-> b]
             \in DecisionShape
  BY <1>5 DEF DecisionShape
<1>7. [incident |-> TRUE, severity |-> severity, action |-> action, target |-> "self",
       confidence |-> confidence, text |-> TRUE, typed |-> TRUE]
      \in DecisionShape
  BY <1>6, Zenon
<1> QED BY <1>4, <1>7

(* Neither does the schema change it, unless there is no incident.         *)
LEMMA ValidatedOverride ==
  ASSUME NEW ctx, NEW answer, NEW by, NEW pydantic,
         Overrides(ctx), Demanded(answer, ctx)
  PROVE  LET d == ValidateDecision(answer, by, pydantic) IN
           d.by = "safe_fallback"
           \/ (d.by = by /\ (d.incident => /\ d.action = Enforced(ctx).action
                                           /\ d.severity = Enforced(ctx).severity))
<1>1. CASE ~Accepted(answer, pydantic)
  BY <1>1 DEF ValidateDecision, SafeFallback
<1>2. CASE Accepted(answer, pydantic)
  <2> DEFINE r == Read(answer, by, pydantic)
  <2>1. /\ r.by = by
        /\ r.action = Enforced(ctx).action /\ r.severity = Enforced(ctx).severity
    <3>1. Enforced(ctx).action # "kill"
      BY DEF Enforced
    <3> QED BY <3>1, EnforcedIsValid DEF Read, Raised, Demanded
  <2>2. r \in [by : {by}, incident : {answer.incident}, severity : {r.severity},
               action : {r.action}, target : {answer.target}, confident : {answer.confident}]
    BY DEF Read
  <2>3. ValidateDecision(answer, by, pydantic) = Consistent(r)
    BY <1>2 DEF ValidateDecision
  <2> HIDE DEF r
  <2>4. /\ Consistent(r).by = by
        /\ Consistent(r).incident => Consistent(r) = r
    BY <2>1, <2>2 DEF Consistent
  <2> QED BY <2>1, <2>3, <2>4
<1> QED BY <1>1, <1>2

(* Whatever an answer is, the schema lets nothing destructive through      *)
(* without an incident.                                                    *)
LEMMA ValidatedIsConsistent ==
  ASSUME NEW answer, NEW by, NEW pydantic
  PROVE  LET d == ValidateDecision(answer, by, pydantic) IN
           d.action \in Destructive => d.incident
<1>1. SafeFallback.incident
  BY DEF SafeFallback
<1>2. ASSUME NEW r, r = Read(answer, by, pydantic)
      PROVE  Consistent(r).action \in Destructive => Consistent(r).incident
  <2>1. r \in [by : {by}, incident : {answer.incident}, severity : {r.severity},
               action : {r.action}, target : {answer.target}, confident : {answer.confident}]
    BY <1>2 DEF Read
  <2>2. CASE ~r.incident /\ r.action \in Destructive
    <3>1. Consistent(r).action = "ALERT"
      BY <2>1, <2>2 DEF Consistent
    <3> QED BY <3>1 DEF Destructive
  <2>3. CASE ~(~r.incident /\ r.action \in Destructive)
    BY <2>3 DEF Consistent
  <2> QED BY <2>2, <2>3
<1> QED BY <1>1, <1>2 DEF ValidateDecision

-----------------------------------------------------------------------------
LEMMA OverridesInitInv == BrainInit => OverridesInv
BY DEF BrainInit, OverridesInv, RawOK, OverridesHold, NoAudit

LEMMA OverridesNextInv ==
  OverridesInv /\ [BrainNext]_<<brainVars, breaker>> => OverridesInv'
<1> SUFFICES ASSUME OverridesInv, [BrainNext]_<<brainVars, breaker>> PROVE OverridesInv'
  OBVIOUS
(* Steps that come to no decision and leave the audit alone.               *)
<1>1. ASSUME UNCHANGED audit, stage' # "decide" PROVE OverridesInv'
  BY <1>1 DEF OverridesInv, RawOK, OverridesHold
<1>2. ASSUME NEW e \in RawEvents, Receive(e) PROVE OverridesInv'
  <2>1. stage' # "decide" /\ UNCHANGED audit
    BY <1>2 DEF Receive
  <2> QED BY <1>1, <2>1
<1>3. CASE ExtractByModel \/ ExtractByFields
  BY <1>1, <1>3 DEF ExtractByModel, ExtractByFields, Extracted
<1>4. CASE Remember
  BY <1>1, <1>4 DEF Remember
<1>5. CASE LoadContext
  BY <1>1, <1>5 DEF LoadContext
<1>6. ASSUME NEW route \in Routes,
             NotAsked(route) \/ AskedInVain(route) \/ NoObject(route)
      PROVE  OverridesInv'
  <2>1. NextRoute(route) # "decide"
    BY DEF NextRoute, Routes
  <2> QED BY <1>1, <1>6, <2>1 DEF NotAsked, AskedInVain, NoObject, Passes, Routed
<1>7. ASSUME NEW route \in Routes, NEW r \in Replies, Decides(route, r) PROVE OverridesInv'
  <2> DEFINE d == IF route = "ollama" THEN [r EXCEPT !.incident = FALSE] ELSE r
  <2>1. Reasoned(d, route) /\ UNCHANGED <<context, audit>>
    BY <1>7 DEF Decides, Routed
  <2>2. d \in DecisionShape
    BY BrainAssumption DEF Targets, DecisionShape
  <2> HIDE DEF d
  <2>3. CASE stage' # "decide"
    BY <1>1, <2>1, <2>3
  <2>4. CASE raw' = [by |-> "rules", answer |-> Normalized(RulesDecision(event, "self"))]
    BY <2>1, <2>4 DEF OverridesInv, RawOK, OverridesHold
  <2>5. CASE raw' = [by |-> route, answer |-> Normalized(Overridden(d, context))]
    BY <2>1, <2>2, <2>5, NormalizedOverride DEF OverridesInv, RawOK, OverridesHold, ByReasoner
  <2> QED BY <2>1, <2>3, <2>4, <2>5 DEF Reasoned
<1>8. CASE RuleEngine
  <2> DEFINE d == RulesDecision(event, "self")
  <2>1. UNCHANGED <<context, audit>>
    BY <1>8 DEF RuleEngine, Routed
  <2>2. CASE ~RuleApplies(event)
    BY <1>1, <1>8, <2>1, <2>2 DEF RuleEngine
  <2>3. CASE RuleApplies(event)
    <3>1. raw' = [by |-> "rule engine", answer |-> Normalized(Overridden(d, context))]
      BY <1>8, <2>3 DEF RuleEngine
    <3>2. Demanded(Normalized(Overridden(d, context)), context)
      BY RuleDecides, <2>3, NormalizedOverride
    <3> QED BY <2>1, <3>1, <3>2 DEF OverridesInv, RawOK, OverridesHold, ByReasoner
  <2> QED BY <2>2, <2>3
<1>9. CASE FallBackOnRules
  BY <1>9 DEF FallBackOnRules, Routed, OverridesInv, RawOK, OverridesHold
<1>10. CASE Decide
  <2> DEFINE d == IF raw.by = "safe_fallback" THEN SafeFallback
                  ELSE ValidateDecision(raw.answer, raw.by, brain.pydantic)
  <2>1. /\ audit'.by = d.by /\ audit'.severity = d.severity /\ audit'.incident = d.incident
        /\ audit'.requested = d.action /\ audit'.of = context
    BY <1>10 DEF Decide
  <2>2. d.action \in Destructive => d.incident
    BY ValidatedIsConsistent DEF SafeFallback
  <2>3. ASSUME d.by \in ByReasoner, d.incident, Overrides(context)
        PROVE  d.action = Enforced(context).action /\ d.severity = Enforced(context).severity
    <3>1. d.by \notin {"rules", "safe_fallback"}
      BY <2>3 DEF ByReasoner, Routes
    <3>2. raw.by # "safe_fallback"
      BY <3>1 DEF SafeFallback
    <3>3. d = ValidateDecision(raw.answer, raw.by, brain.pydantic)
      BY <3>2
    <3>4. raw.by # "rules"
      BY <3>1, <3>3 DEF ValidateDecision, SafeFallback, Consistent, Read
    <3>5. Demanded(raw.answer, context)
      BY <1>10, <3>2, <3>4 DEF Decide, OverridesInv, RawOK
    <3> HIDE DEF d
    <3> QED BY <2>3, <3>1, <3>3, <3>5, ValidatedOverride
  <2>4. stage' = "idle"
    BY <1>10 DEF Decide
  <2> HIDE DEF d
  <2> QED BY <2>1, <2>2, <2>3, <2>4 DEF OverridesInv, RawOK, OverridesHold, ByReasoner
<1>11. CASE ClockMoves
  BY <1>1, <1>11 DEF ClockMoves
<1>12. CASE BreakerRecovers \/ UNCHANGED <<brainVars, breaker>>
  BY <1>12 DEF BreakerRecovers, brainVars, eventVars, OverridesInv, RawOK, OverridesHold
<1> QED BY <1>2, <1>3, <1>4, <1>5, <1>6, <1>7, <1>8, <1>9, <1>10, <1>11, <1>12
        DEF BrainNext, ProcessEvent

(* What an attacker's history demands is what is asked for when a model or *)
(* the rule engine decides and reports an incident, whichever it is and    *)
(* however its answer was normalised and validated. Not so of the rules and*)
(* the safe fallback, which _reason turns to when the overriding itself or *)
(* what follows it raises.                                                 *)
THEOREM HistoryOverrides == BrainSpec => []OverridesHold
<1>1. OverridesInv => OverridesHold
  BY DEF OverridesInv
<1> QED BY <1>1, OverridesInitInv, OverridesNextInv, PTL DEF BrainSpec

-----------------------------------------------------------------------------
(***************************************************************************)
(* The counters of the brain: how many fallbacks an event in work may have *)
(* counted depends on how far it is.                                       *)
(***************************************************************************)
TallyOK ==
  /\ DOMAIN tally = {"events", "decisions", "fallbacks", "blocks", "skipped"}
  /\ tally.events \in Nat /\ tally.decisions \in Nat /\ tally.fallbacks \in Nat
  /\ tally.blocks \in Nat /\ tally.skipped \in Nat

CountersInv ==
  /\ TallyOK
  /\ stage \in Stages
  /\ tally.events = tally.decisions + tally.skipped + (IF stage = "idle" THEN 0 ELSE 1)
  /\ tally.blocks <= tally.decisions
  /\ tally.fallbacks <= 2 * tally.decisions
                          + (IF stage = "decide" THEN 2 ELSE IF stage = "rules" THEN 1 ELSE 0)

LEMMA CountersInitInv == BrainInit => CountersInv
BY DEF BrainInit, CountersInv, TallyOK, Stages

(* What a step counts.                                                     *)
Plus(e, d, f, b, k) ==
  /\ DOMAIN tally' = DOMAIN tally
  /\ tally'.events = tally.events + e /\ tally'.decisions = tally.decisions + d
  /\ tally'.fallbacks = tally.fallbacks + f /\ tally'.blocks = tally.blocks + b
  /\ tally'.skipped = tally.skipped + k

LEMMA Counted ==
  ASSUME CountersInv, stage' \in Stages,
         NEW e \in 0..1, NEW d \in 0..1, NEW f \in 0..1, NEW b \in 0..1, NEW k \in 0..1,
         Plus(e, d, f, b, k),
         e + (IF stage = "idle" THEN 0 ELSE 1) = d + k + (IF stage' = "idle" THEN 0 ELSE 1),
         b <= d,
         f + (IF stage = "decide" THEN 2 ELSE IF stage = "rules" THEN 1 ELSE 0)
           <= 2 * d + (IF stage' = "decide" THEN 2 ELSE IF stage' = "rules" THEN 1 ELSE 0)
  PROVE  CountersInv'
<1>1. TallyOK'
  BY DEF Plus, CountersInv, TallyOK
<1>2. tally'.events = tally'.decisions + tally'.skipped + (IF stage' = "idle" THEN 0 ELSE 1)
  BY DEF Plus, CountersInv, TallyOK
<1>3. tally'.blocks <= tally'.decisions
  BY DEF Plus, CountersInv, TallyOK
<1>4. tally'.fallbacks <= 2 * tally'.decisions
        + (IF stage' = "decide" THEN 2 ELSE IF stage' = "rules" THEN 1 ELSE 0)
  BY DEF Plus, CountersInv, TallyOK
<1> QED BY <1>1, <1>2, <1>3, <1>4 DEF CountersInv

LEMMA CountersNextInv ==
  CountersInv /\ [BrainNext]_<<brainVars, breaker>> => CountersInv'
<1> SUFFICES ASSUME CountersInv, [BrainNext]_<<brainVars, breaker>> PROVE CountersInv'
  OBVIOUS
<1>0. /\ tally' = tally => Plus(0, 0, 0, 0, 0)
      /\ tally' = [tally EXCEPT !.fallbacks = @ + 1] => Plus(0, 0, 1, 0, 0)
  BY DEF CountersInv, TallyOK, Plus
(* The steps that count nothing, and those that count one fallback.        *)
<1>1. ASSUME tally' = tally, stage # "idle", stage \notin {"rules", "decide"},
             stage' \in Stages, stage' # "idle"
      PROVE  CountersInv'
  <2>1. Plus(0, 0, 0, 0, 0)
    BY <1>0, <1>1
  <2> QED BY <1>1, <2>1, Counted
<1>2. ASSUME tally' = [tally EXCEPT !.fallbacks = @ + 1], stage # "idle",
             stage \notin {"rules", "decide"}, stage' = "rules"
      PROVE  CountersInv'
  <2>1. Plus(0, 0, 1, 0, 0) /\ stage' \in Stages
    BY <1>0, <1>2 DEF Stages
  <2> QED BY <1>2, <2>1, Counted
<1>3. ASSUME NEW e \in RawEvents, Receive(e) PROVE CountersInv'
  <2>1. \/ Plus(1, 0, 0, 0, 1) /\ stage' = "idle"
        \/ Plus(1, 0, 0, 0, 0) /\ stage' = "extract"
    BY <1>3 DEF Receive, CountersInv, TallyOK, Plus
  <2>2. stage = "idle" /\ {"idle", "extract"} \subseteq Stages
    BY <1>3 DEF Receive, Stages
  <2> QED BY <2>1, <2>2, Counted
<1>4. CASE ExtractByModel \/ ExtractByFields
  BY <1>1, <1>4 DEF ExtractByModel, ExtractByFields, Extracted, Stages
<1>5. CASE Remember
  BY <1>1, <1>2, <1>5 DEF Remember, Stages
<1>6. CASE LoadContext
  BY <1>1, <1>6 DEF LoadContext, Stages, Routes
<1>7. ASSUME NEW route \in Routes, NotAsked(route) \/ AskedInVain(route)
      PROVE  CountersInv'
  <2>1. stage = route /\ stage' = NextRoute(route) /\ tally' = tally
    BY <1>7 DEF NotAsked, AskedInVain, Passes
  <2> QED BY <1>1, <2>1 DEF Stages, Routes, NextRoute
<1>8. ASSUME NEW route \in Routes, NoObject(route) PROVE CountersInv'
  BY <1>2, <1>8 DEF NoObject, Routes
<1>9. ASSUME NEW route \in Routes, NEW d \in Replies, Decides(route, d) PROVE CountersInv'
  <2>1. /\ stage = route
        /\ \/ stage' = "rules" /\ tally' = [tally EXCEPT !.fallbacks = @ + 1]
           \/ stage' \in {"decide", "rules"} /\ tally' = tally
    BY <1>9 DEF Decides, Reasoned
  <2> QED BY <1>1, <1>2, <2>1 DEF Stages, Routes
<1>10. CASE RuleEngine
  BY <1>1, <1>10 DEF RuleEngine, Stages
<1>11. CASE FallBackOnRules
  <2>1. /\ stage = "rules" /\ stage' = "decide" /\ stage' \in Stages
        /\ Plus(0, 0, 1, 0, 0)
    BY <1>0, <1>11 DEF FallBackOnRules, Stages
  <2> QED BY <2>1, Counted
<1>12. CASE Decide
  <2>1. /\ stage = "decide" /\ stage' = "idle" /\ stage' \in Stages
        /\ \/ Plus(0, 1, 0, 0, 0)
           \/ Plus(0, 1, 0, 1, 0)
    BY <1>12 DEF Decide, Stages, CountersInv, TallyOK, Plus
  <2> QED BY <2>1, Counted
<1>13. CASE ClockMoves \/ BreakerRecovers \/ UNCHANGED <<brainVars, breaker>>
  BY <1>13 DEF ClockMoves, BreakerRecovers, brainVars, CountersInv, TallyOK
<1> QED BY <1>3, <1>4, <1>5, <1>6, <1>7, <1>8, <1>9, <1>10, <1>11, <1>12, <1>13
        DEF BrainNext, ProcessEvent

(* Every event but noise is answered once, and no event counts as more than*)
(* two fallbacks.                                                          *)
THEOREM BrainAnswers == BrainSpec => []BrainCounters
<1>1. CountersInv => BrainCounters
  BY DEF CountersInv, TallyOK, BrainCounters
<1> QED BY <1>1, CountersInitInv, CountersNextInv, PTL DEF BrainSpec

-----------------------------------------------------------------------------
(***************************************************************************)
(* Tokens of addresses have one character each: the token of a name is     *)
(* replaced by that name and no other.                                     *)
(***************************************************************************)
LEMMA AddressTokens ==
  ASSUME NEW n \in Nat \ {0}, Token("address", n) # <<Backslash>>
  PROVE  Deanonymized("address", n) = "name"
<1>1. ASSUME NEW k \in 1..n
      PROVE  IsPrefix(Token("address", k), Token("address", n)) <=> k = n
  <2>1. Token("address", k) = <<64 + k>> /\ Token("address", n) = <<64 + n>>
    BY DEF Token
  <2>2. \A i \in Int : Len(<<i>>) = 1 /\ SubSeq(<<i>>, 1, 1) = <<i>>
    <3>1. ASSUME NEW i \in Int PROVE SubSeq(<<i>>, 1, 1) = <<i>>
      <4>1. <<i>> \in Seq(Int) /\ Len(<<i>>) = 1
        OBVIOUS
      <4> QED BY <4>1, SubSeqFull
    <3> QED BY <3>1
  <2> QED BY <2>1, <2>2 DEF IsPrefix
<1>2. FirstReplaced("address", n) = n
  BY <1>1 DEF FirstReplaced
<1> QED BY <1>2 DEF Deanonymized

EventFields == {"id", "valid", "boundary", "breakout", "odd", "ip", "internal", "nth",
                "process", "type", "paths", "alert", "fetches", "session"}

(* No prover knows that "none" is a string.                                *)
Texts == STRING \cup {"none"}

(* An event that the extractor has stripped of its address is not internal.*)
EventOK ==
  stage # "idle" =>
    /\ DOMAIN event = EventFields
    /\ event.id \in Nat /\ event.nth \in Nat \ {0}
    /\ event.ip \in Texts /\ event.process \in Texts /\ event.type \in Texts
    /\ event.internal => event.ip # "none"

InternalInv == CountersInv /\ EventOK /\ InternalHostsAreBlockedByLabel

LEMMA BareEvent ==
  ASSUME NEW e, DOMAIN e = EventFields
  PROVE  /\ DOMAIN Bare(e) = EventFields /\ Bare(e).nth = e.nth /\ ~Bare(e).internal
         /\ Bare(e).id = e.id /\ Bare(e).type = e.type
         /\ Bare(e).ip = "none" /\ Bare(e).process = "none"
BY DEF Bare, EventFields

(* The target of an internal host is internal, or the token of the 28th.   *)
LEMMA InternalTarget ==
  ASSUME stage # "idle", EventOK, event.internal, RestoredTarget("self") # "internal"
  PROVE  Token("address", event.nth) = <<Backslash>>
<1>1. event.ip # "none" /\ event.nth \in Nat \ {0}
  BY DEF EventOK
<1>2. Deanonymized("address", event.nth) # "name"
  BY <1>1 DEF RestoredTarget
<1> QED BY <1>1, <1>2, AddressTokens

(* A validated decision keeps everything when its target is read back.     *)
LEMMA ValidatedTarget ==
  ASSUME NEW answer, NEW by, NEW pydantic, NEW target
  PROVE  LET d == ValidateDecision(answer, by, pydantic)
             r == [d EXCEPT !.target = target]
         IN r.target = target /\ r.action = d.action
<1> DEFINE Fields == {"by", "incident", "severity", "action", "target", "confident"}
<1>1. ASSUME NEW d, DOMAIN d = Fields
      PROVE  [d EXCEPT !.target = target].target = target
             /\ [d EXCEPT !.target = target].action = d.action
  BY <1>1
<1>2. DOMAIN SafeFallback = Fields
  BY DEF SafeFallback
<1>3. DOMAIN Read(answer, by, pydantic) = Fields
  BY DEF Read
<1>4. ASSUME NEW r, DOMAIN r = Fields PROVE DOMAIN Consistent(r) = Fields
  BY <1>4 DEF Consistent
<1>5. DOMAIN ValidateDecision(answer, by, pydantic) = Fields
  BY <1>2, <1>3, <1>4 DEF ValidateDecision
<1> QED BY <1>1, <1>5

LEMMA InternalInitInv == BrainInit => InternalInv
BY CountersInitInv
   DEF BrainInit, InternalInv, EventOK, InternalHostsAreBlockedByLabel, NoAudit

LEMMA InternalNextInv ==
  InternalInv /\ [BrainNext]_<<brainVars, breaker>> => InternalInv'
<1> SUFFICES ASSUME InternalInv, [BrainNext]_<<brainVars, breaker>> PROVE InternalInv'
  OBVIOUS
<1> USE DEF InternalInv
<1>0. CountersInv'
  BY CountersNextInv
(* Most steps have neither the event nor the audit changed.                *)
<1>1. ASSUME UNCHANGED <<event, audit>>, stage # "idle" PROVE InternalInv'
  BY <1>0, <1>1 DEF EventOK, InternalHostsAreBlockedByLabel
<1>2. ASSUME NEW e \in RawEvents, Receive(e) PROVE InternalInv'
  <2>1. /\ stage = "idle" /\ audit' = audit
        /\ stage' = "idle" \/ event' = [e EXCEPT !.id = tally.events + 1]
    BY <1>2 DEF Receive
  <2>2. /\ DOMAIN e = EventFields /\ e.nth \in Nat \ {0}
        /\ e.ip \in Texts /\ e.process \in Texts /\ e.type \in Texts
        /\ e.internal => e.ip # "none"
    BY BrainAssumption DEF EventFields, Texts
  <2>3. ASSUME NEW x, x = [e EXCEPT !.id = tally.events + 1]
        PROVE  /\ DOMAIN x = EventFields /\ x.nth = e.nth /\ x.id = tally.events + 1
               /\ x.internal = e.internal /\ x.ip = e.ip
               /\ x.process = e.process /\ x.type = e.type
    BY <2>2, <2>3 DEF EventFields
  <2>4. tally.events + 1 \in Nat
    BY DEF CountersInv, TallyOK
  <2>5. EventOK'
    <3>1. CASE stage' = "idle"
      BY <3>1 DEF EventOK
    <3>2. CASE event' = [e EXCEPT !.id = tally.events + 1]
      BY <2>2, <2>3, <2>4, <3>2 DEF EventOK
    <3> QED BY <2>1, <3>1, <3>2
  <2>6. InternalHostsAreBlockedByLabel'
    BY <2>1 DEF InternalHostsAreBlockedByLabel
  <2> QED BY <1>0, <2>5, <2>6
<1>3. CASE ExtractByModel \/ ExtractByFields
  <2>1. /\ stage = "extract" /\ audit' = audit
        /\ event' = event \/ event' = Bare(event)
    BY <1>3 DEF ExtractByModel, ExtractByFields, Extracted
  <2>2. DOMAIN event = EventFields
    BY <2>1 DEF EventOK
  <2>3. EventOK'
    <3>1. CASE event' = event
      BY <2>1, <3>1 DEF EventOK
    <3>2. CASE event' = Bare(event)
      <4>1. /\ DOMAIN event' = EventFields /\ event'.nth = event.nth /\ ~event'.internal
            /\ event'.id = event.id /\ event'.type = event.type
            /\ event'.ip = "none" /\ event'.process = "none"
        BY <2>2, <3>2, BareEvent
      <4>2. event.id \in Nat /\ event.nth \in Nat \ {0} /\ event.type \in Texts
        BY <2>1 DEF EventOK
      <4>3. "none" \in Texts
        BY DEF Texts
      <4> QED BY <4>1, <4>2, <4>3 DEF EventOK
    <3> QED BY <2>1, <3>1, <3>2
  <2>4. InternalHostsAreBlockedByLabel'
    BY <2>1 DEF InternalHostsAreBlockedByLabel
  <2> QED BY <1>0, <2>3, <2>4
<1>4. CASE Remember
  BY <1>1, <1>4 DEF Remember
<1>5. CASE LoadContext
  BY <1>1, <1>5 DEF LoadContext
<1>6. ASSUME NEW route \in Routes,
             \/ NotAsked(route) \/ AskedInVain(route) \/ NoObject(route)
             \/ \E d \in Replies : Decides(route, d)
      PROVE  InternalInv'
  <2>1. stage = route /\ UNCHANGED <<event, audit>>
    BY <1>6 DEF NotAsked, AskedInVain, NoObject, Decides, Passes, Routed
  <2> QED BY <1>1, <2>1 DEF Routes
<1>7. CASE RuleEngine \/ FallBackOnRules
  BY <1>1, <1>7 DEF RuleEngine, FallBackOnRules, Routed
<1>8. CASE Decide
  <2> DEFINE d == IF raw.by = "safe_fallback" THEN SafeFallback
                  ELSE ValidateDecision(raw.answer, raw.by, brain.pydantic)
             restored == [d EXCEPT !.target = RestoredTarget(@)]
  <2>1. /\ audit'.effective = (IF GateAllows(restored) THEN d.action ELSE "ALERT")
        /\ audit'.internal = event.internal /\ audit'.nth = event.nth
        /\ audit'.named = d.target
        /\ stage = "decide" /\ stage' = "idle"
    BY <1>8 DEF Decide
  <2>2. restored.target = RestoredTarget(d.target) /\ restored.action = d.action
    BY ValidatedTarget DEF SafeFallback
  <2> HIDE DEF d, restored
  <2>3. ASSUME audit'.effective = "BLOCK", d.target = "self", event.internal
        PROVE  RestoredTarget("self") # "internal"
    BY <2>1, <2>2, <2>3 DEF GateAllows, Destructive
  <2>4. InternalHostsAreBlockedByLabel'
    BY <2>1, <2>3, InternalTarget DEF InternalHostsAreBlockedByLabel
  <2> QED BY <1>0, <2>1, <2>4 DEF EventOK
<1>9. CASE ClockMoves \/ BreakerRecovers \/ UNCHANGED <<brainVars, breaker>>
  BY <1>0, <1>9 DEF ClockMoves, BreakerRecovers, brainVars, eventVars, EventOK,
                    InternalHostsAreBlockedByLabel
<1> QED BY <1>2, <1>3, <1>4, <1>5, <1>6, <1>7, <1>8, <1>9 DEF BrainNext, ProcessEvent

(* A private host that a decision names is blocked only when a label hides *)
(* its address from the gate, or when its token is the one that JSON does  *)
(* not survive, whichever route knows it by a token.                       *)
THEOREM InternalHostsNeedALabel == BrainSpec => []InternalHostsAreBlockedByLabel
<1>1. InternalInv => InternalHostsAreBlockedByLabel
  BY DEF InternalInv
<1> QED BY <1>1, InternalInitInv, InternalNextInv, PTL DEF BrainSpec

-----------------------------------------------------------------------------
(***************************************************************************)
(* The memory. A table is told by its rows: whatever holds of each row is  *)
(* kept when stale rows are left out and when the table is capped.         *)
(***************************************************************************)
RowsOf(s) == {s[i] : i \in DOMAIN s}

LEMMA PickedRows ==
  ASSUME NEW S, NEW s \in Seq(S), NEW kept \in SUBSET (DOMAIN s)
  PROVE  /\ Picked(s, kept) \in Seq(S)
         /\ Len(Picked(s, kept)) <= Len(s)
         /\ RowsOf(Picked(s, kept)) \subseteq RowsOf(s)
<1>1. Len(s) \in Nat /\ kept \in SUBSET (1..Len(s))
  OBVIOUS
<1>2. kept \in SUBSET Nat /\ IsFiniteSet(kept)
  BY <1>1, PlacesAreFinite
<1>3. PICK p : Places(p, kept, Picked(s, kept), s)
  BY <1>2, PickedPlaces
<1> DEFINE a == Picked(s, kept)
<1>4. Places(p, kept, a, s)
  BY <1>3
<1> HIDE DEF a
<1>5. /\ a \in Seq(S) /\ Len(a) = Cardinality(kept) /\ Len(a) <= Len(s)
      /\ DOMAIN a = 1..Cardinality(kept)
      /\ \A k \in DOMAIN a : p[k] \in kept /\ a[k] = s[p[k]]
      /\ \A i \in kept : \E k \in DOMAIN a : p[k] = i
  BY <1>4, PlacesSelect
<1>6. RowsOf(a) \subseteq RowsOf(s)
  BY <1>5 DEF RowsOf
<1> QED BY <1>5, <1>6 DEF a

Entries == [id : Nat, host : Texts]
IpKeys == {<<"address", a>> : a \in Texts}
          \cup {<<"token", Token("address", n)>> : n \in Nat \ {0}}
ProcessKeys == {<<"process", p>> : p \in Texts}
Records == [key : IpKeys \cup ProcessKeys \cup {NoKey}, entry : Entries]
Rows(K) == [key : K, chain : Seq(Entries), seen : 1..MaxClock]

(* What was recorded of a key, and a row whose chain ends where it ends.   *)
Own(key, given) == {k \in DOMAIN given : given[k].key = key}
Later(key, given, k) == {j \in Own(key, given) : j > k}
Follows(row, given) ==
  \A c \in DOMAIN row.chain : \E k \in Own(row.key, given) :
    /\ given[k].entry = row.chain[c]
    /\ Cardinality(Later(row.key, given, k)) = Len(row.chain) - c
RowOK(row, given) == Len(row.chain) \in 1..BufferSize /\ Follows(row, given)
TableOK(t, K, given) == t \in Seq(Rows(K)) /\ \A row \in RowsOf(t) : RowOK(row, given)

LEMMA LastOnesOf ==
  ASSUME NEW S, NEW s \in Seq(S), NEW n \in Nat \ {0}
  PROVE  /\ LastOnes(s, n) \in Seq(S)
         /\ Len(LastOnes(s, n)) = IF Len(s) > n THEN n ELSE Len(s)
         /\ \A i \in 1..Len(LastOnes(s, n)) :
              LastOnes(s, n)[i] = s[Len(s) - Len(LastOnes(s, n)) + i]
<1>1. CASE Len(s) > n
  <2> DEFINE a == Len(s) - n + 1  z == SubSeq(s, a, Len(s))
  <2>1. a \in Nat /\ a >= 1 /\ a <= Len(s) /\ Len(s) \in Nat
    BY <1>1
  <2>2. \A i \in a..Len(s) : s[i] \in S
    BY <2>1
  <2>3. /\ z \in Seq(S) /\ Len(z) = IF a <= Len(s) THEN Len(s) - a + 1 ELSE 0
        /\ \A i \in 1..(Len(s) - a + 1) : z[i] = s[a + i - 1]
    BY <2>1, <2>2, SubSeqProperties
  <2>4. LastOnes(s, n) = z
    BY <1>1 DEF LastOnes
  <2> HIDE DEF z
  <2>5. Len(z) = n
    BY <2>1, <2>3
  <2> QED BY <1>1, <2>1, <2>3, <2>4, <2>5
<1>2. CASE ~ (Len(s) > n)
  BY <1>2 DEF LastOnes
<1> QED BY <1>1, <1>2

LEMMA AppendedTo ==
  ASSUME NEW chain \in Seq(Entries), NEW e \in Entries, Len(chain) <= BufferSize
  PROVE  LET a == Appended(chain, e) IN
           /\ a \in Seq(Entries)
           /\ Len(a) \in 1..BufferSize /\ Len(a) <= Len(chain) + 1
           /\ a[Len(a)] = e
           /\ \A i \in 1..(Len(a) - 1) : a[i] = chain[Len(chain) + 1 - Len(a) + i]
<1> DEFINE b == Append(chain, e)  a == Appended(chain, e)
<1>1. BufferSize \in Nat \ {0}
  BY MemoryAssumption
<1>2. /\ b \in Seq(Entries) /\ Len(b) = Len(chain) + 1 /\ b[Len(chain) + 1] = e
      /\ \A i \in 1..Len(chain) : b[i] = chain[i]
  BY AppendProperties
<1>3. a = LastOnes(b, BufferSize)
  BY DEF Appended
<1> HIDE DEF a, b
<1>4. /\ a \in Seq(Entries)
      /\ Len(a) = IF Len(b) > BufferSize THEN BufferSize ELSE Len(b)
      /\ \A i \in 1..Len(a) : a[i] = b[Len(b) - Len(a) + i]
  BY <1>1, <1>2, <1>3, LastOnesOf, SMTT(30)
<1>5. Len(chain) \in Nat /\ Len(a) \in 1..BufferSize /\ Len(a) <= Len(chain) + 1
  BY <1>1, <1>2, <1>4
<1>6. a[Len(a)] = e
  <2>1. PICK m \in Nat : m = Len(a)
    BY <1>1, <1>5
  <2>2. m \in 1..m /\ Len(b) \in Nat /\ Len(b) - m + m = Len(chain) + 1
    BY <1>1, <1>2, <1>5, <2>1
  <2>3. a[m] = b[Len(b) - m + m]
    BY <1>4, <2>1, <2>2
  <2> QED BY <1>2, <2>1, <2>2, <2>3
<1>7. ASSUME NEW i \in 1..(Len(a) - 1) PROVE a[i] = chain[Len(chain) + 1 - Len(a) + i]
  <2>1. i \in 1..Len(a) /\ Len(chain) + 1 - Len(a) + i \in 1..Len(chain)
    BY <1>1, <1>5
  <2>2. a[i] = b[Len(chain) + 1 - Len(a) + i]
    BY <1>2, <1>4, <2>1
  <2> QED BY <1>2, <2>1, <2>2
<1> QED BY <1>4, <1>5, <1>6, <1>7 DEF a

LEMMA OwnGrows ==
  ASSUME NEW given \in Seq(Records), NEW r \in Records, NEW key
  PROVE  LET more == Append(given, r)
             n == Len(given) + 1
         IN /\ DOMAIN more = 1..n /\ more[n] = r
            /\ \A k \in DOMAIN given : more[k] = given[k]
            /\ r.key # key => Own(key, more) = Own(key, given)
            /\ r.key = key => Own(key, more) = Own(key, given) \cup {n}
            /\ Own(key, given) \in SUBSET (1..Len(given))
<1> DEFINE more == Append(given, r)  n == Len(given) + 1
<1>1. /\ more \in Seq(Records) /\ Len(more) = n /\ more[n] = r
      /\ \A k \in 1..Len(given) : more[k] = given[k]
  BY AppendProperties
<1>2. DOMAIN more = 1..n /\ DOMAIN given = 1..Len(given) /\ Len(given) \in Nat
  BY <1>1
<1> HIDE DEF more
<1>3. ASSUME NEW k PROVE k \in 1..n <=> k \in 1..Len(given) \/ k = n
  BY <1>2
<1>4. r.key # key => Own(key, more) = Own(key, given)
  BY <1>1, <1>2, <1>3 DEF Own
<1>5. r.key = key => Own(key, more) = Own(key, given) \cup {n}
  BY <1>1, <1>2, <1>3 DEF Own
<1> QED BY <1>1, <1>2, <1>4, <1>5 DEF more, Own

LEMMA LaterGrows ==
  ASSUME NEW given \in Seq(Records), NEW r \in Records, NEW k \in DOMAIN given
  PROVE  Cardinality(Later(r.key, Append(given, r), k))
           = Cardinality(Later(r.key, given, k)) + 1
<1> DEFINE more == Append(given, r)
<1>0. PICK n \in Nat : n = Len(given)
  OBVIOUS
<1>1. /\ Own(r.key, more) = Own(r.key, given) \cup {n + 1}
      /\ Own(r.key, given) \in SUBSET (1..n)
  BY <1>0, OwnGrows
<1> HIDE DEF more
<1>2. k \in 1..n
  BY <1>0
<1>3. Later(r.key, more, k) = Later(r.key, given, k) \cup {n + 1}
  BY <1>1, <1>2 DEF Later
<1>4. Later(r.key, given, k) \in SUBSET (1..n) /\ n + 1 \notin Later(r.key, given, k)
  BY <1>1 DEF Later
<1>5. IsFiniteSet(Later(r.key, given, k))
  BY <1>4, PlacesAreFinite
<1> QED BY <1>3, <1>4, <1>5, FS_AddElement DEF more

LEMMA LastIsOver ==
  ASSUME NEW given \in Seq(Records), NEW r \in Records, NEW key
  PROVE  Cardinality(Later(key, Append(given, r), Len(given) + 1)) = 0
<1>1. Own(key, Append(given, r)) \in SUBSET (1..(Len(given) + 1))
  BY OwnGrows DEF Own
<1>2. Later(key, Append(given, r), Len(given) + 1) = {}
  BY <1>1 DEF Later
<1> QED BY <1>2, FS_EmptySet

(* A row of another key.                                                   *)
LEMMA OtherRow ==
  ASSUME NEW given \in Seq(Records), NEW r \in Records,
         NEW row, RowOK(row, given), row.key # r.key
  PROVE  RowOK(row, Append(given, r))
<1>1. /\ Own(row.key, Append(given, r)) = Own(row.key, given)
      /\ \A k \in DOMAIN given : Append(given, r)[k] = given[k]
  BY OwnGrows
<1>2. \A k : Later(row.key, Append(given, r), k) = Later(row.key, given, k)
  BY <1>1 DEF Later
<1>3. \A k \in Own(row.key, given) : k \in DOMAIN given
  BY DEF Own
<1> QED BY <1>1, <1>2, <1>3 DEF RowOK, Follows

(* The row of the key: its new chain ends with the new entry.              *)
LEMMA OwnRow ==
  ASSUME NEW given \in Seq(Records), NEW r \in Records,
         NEW chain \in Seq(Entries), Len(chain) <= BufferSize,
         NEW old, old.key = r.key, old.chain = chain, Follows(old, given),
         NEW row, row.key = r.key, row.chain = Appended(chain, r.entry)
  PROVE  RowOK(row, Append(given, r)) /\ row.chain[Len(row.chain)] = r.entry
<1> DEFINE a == Appended(chain, r.entry)  more == Append(given, r)  n == Len(given) + 1
<1>0. r.entry \in Entries /\ BufferSize \in Nat /\ Len(chain) \in Nat
  BY MemoryAssumption DEF Records
<1>1. /\ a \in Seq(Entries) /\ Len(a) \in 1..BufferSize /\ Len(a) <= Len(chain) + 1
      /\ a[Len(a)] = r.entry
      /\ \A i \in 1..(Len(a) - 1) : a[i] = chain[Len(chain) + 1 - Len(a) + i]
  BY <1>0, AppendedTo
<1>2. /\ DOMAIN more = 1..n /\ more[n] = r /\ n \in DOMAIN more
      /\ \A k \in DOMAIN given : more[k] = given[k]
      /\ Own(r.key, more) = Own(r.key, given) \cup {n}
  <2>1. Len(given) \in Nat /\ n \in 1..n
    OBVIOUS
  <2> QED BY <2>1, OwnGrows
<1>3. Cardinality(Later(r.key, more, n)) = 0
  BY LastIsOver
<1>4. ASSUME NEW k \in DOMAIN given
      PROVE  Cardinality(Later(r.key, more, k)) = Cardinality(Later(r.key, given, k)) + 1
  BY LaterGrows
<1>5. PICK l \in Nat : l = Len(a)
  BY <1>0, <1>1
<1>6. PICK m \in Nat : m = Len(chain)
  BY <1>0
<1> HIDE DEF a, more, n
<1>7. ASSUME NEW c \in 1..l
      PROVE  \E k \in Own(r.key, more) :
               more[k].entry = a[c] /\ Cardinality(Later(r.key, more, k)) = l - c
  <2>1. CASE c = l
    <3>1. n \in Own(r.key, more) /\ more[n].entry = a[c]
      BY <1>1, <1>2, <1>5, <2>1
    <3>2. Cardinality(Later(r.key, more, n)) = l - c
      BY <1>3, <2>1
    <3> QED BY <3>1, <3>2
  <2>2. CASE c # l
    <3>1. c \in 1..(l - 1) /\ m + 1 - l + c \in 1..m
      BY <1>1, <1>5, <1>6, <2>2
    <3>2. a[c] = chain[m + 1 - l + c] /\ m + 1 - l + c \in DOMAIN chain
      BY <1>1, <1>5, <1>6, <3>1
    <3>3. PICK k \in Own(r.key, given) :
            /\ given[k].entry = chain[m + 1 - l + c]
            /\ Cardinality(Later(r.key, given, k)) = m - (m + 1 - l + c)
      BY <1>6, <3>2 DEF Follows
    <3>4. k \in DOMAIN given /\ k \in Own(r.key, more) /\ more[k] = given[k]
      BY <1>2 DEF Own
    <3>5. Cardinality(Later(r.key, more, k)) = m - (m + 1 - l + c) + 1
      BY <1>4, <3>3, <3>4
    <3>6. m - (m + 1 - l + c) + 1 = l - c
      OBVIOUS
    <3> QED BY <3>2, <3>3, <3>4, <3>5, <3>6
  <2> QED BY <2>1, <2>2
<1>8. row.chain = a /\ DOMAIN a = 1..l
  BY <1>1, <1>5 DEF a
<1>9. Follows(row, more)
  BY <1>5, <1>7, <1>8 DEF Follows
<1> QED BY <1>1, <1>8, <1>9 DEF RowOK, more

LEMMA RowsAppended ==
  ASSUME NEW S, NEW s \in Seq(S), NEW x \in S
  PROVE  RowsOf(Append(s, x)) = RowsOf(s) \cup {x}
<1>1. /\ Append(s, x) \in Seq(S) /\ Len(Append(s, x)) = Len(s) + 1
      /\ Append(s, x)[Len(s) + 1] = x
      /\ \A i \in 1..Len(s) : Append(s, x)[i] = s[i]
  BY AppendProperties
<1>2. DOMAIN Append(s, x) = 1..(Len(s) + 1) /\ DOMAIN s = 1..Len(s) /\ Len(s) \in Nat
  BY <1>1
<1>3. ASSUME NEW i PROVE i \in 1..(Len(s) + 1) <=> i \in 1..Len(s) \/ i = Len(s) + 1
  BY <1>2
<1> QED BY <1>1, <1>2, <1>3 DEF RowsOf

LEMMA TableOfOthers ==
  ASSUME NEW given \in Seq(Records), NEW r \in Records, NEW K, NEW t,
         TableOK(t, K, given), r.key \notin K
  PROVE  TableOK(t, K, Append(given, r))
<1>1. ASSUME NEW row \in RowsOf(t) PROVE RowOK(row, Append(given, r))
  <2>1. row \in Rows(K) /\ RowOK(row, given)
    BY DEF TableOK, RowsOf
  <2>2. row.key # r.key
    BY <2>1 DEF Rows
  <2> QED BY <2>1, <2>2, OtherRow
<1> QED BY <1>1 DEF TableOK

LEMMA RecordedIn ==
  ASSUME NEW given \in Seq(Records), NEW r \in Records, NEW K, NEW t,
         TableOK(t, K, given), r.key \in K, NEW time \in 1..MaxClock
  PROVE  LET u == Recorded(t, r.key, r.entry, time) IN
           /\ TableOK(u, K, Append(given, r))
           /\ Len(u) <= Len(t) + 1
           /\ \A row \in RowsOf(u) :
                row.key = r.key => row.chain[Len(row.chain)] = r.entry
<1> DEFINE u == Recorded(t, r.key, r.entry, time)  more == Append(given, r)
           grown(row) == [row EXCEPT !.chain = Appended(@, r.entry), !.seen = time]
           fresh == [key |-> r.key, chain |-> Appended(<<>>, r.entry), seen |-> time]
           Good(row) == /\ row \in Rows(K) /\ RowOK(row, more)
                        /\ row.key = r.key => row.chain[Len(row.chain)] = r.entry
<1>0. r.entry \in Entries /\ BufferSize \in Nat
  BY MemoryAssumption DEF Records
<1>1. \A row \in RowsOf(t) : row \in Rows(K) /\ RowOK(row, given)
  BY DEF TableOK, RowsOf
<1>2. ASSUME NEW row \in RowsOf(t), row.key # r.key PROVE Good(row)
  BY <1>1, <1>2, OtherRow
<1>3. ASSUME NEW row \in RowsOf(t), row.key = r.key PROVE Good(grown(row))
  <2>1. row \in Rows(K) /\ row.chain \in Seq(Entries) /\ Len(row.chain) <= BufferSize
    BY <1>0, <1>1 DEF Rows, RowOK
  <2>2. PICK chain \in Seq(Entries) : chain = Appended(row.chain, r.entry)
    BY <1>0, <2>1, AppendedTo
  <2>3. /\ grown(row).key = r.key /\ grown(row).chain = Appended(row.chain, r.entry)
        /\ grown(row) \in Rows(K)
    <3> DEFINE new == [row EXCEPT !.chain = chain, !.seen = time]
    <3>1. grown(row) = new
      BY <2>2
    <3>2. row \in Rows(K)
      BY <2>1
    <3>3. new \in Rows(K) /\ new.key = row.key /\ new.chain = chain
      BY <2>2, <3>2 DEF Rows
    <3> HIDE DEF grown, new
    <3> QED BY <1>3, <2>2, <3>1, <3>3
  <2>4. Follows(row, given)
    BY <1>1 DEF RowOK
  <2> HIDE DEF grown
  <2>5. /\ RowOK(grown(row), more)
        /\ grown(row).chain[Len(grown(row).chain)] = r.entry
    BY <1>3, <2>1, <2>3, <2>4, OwnRow
  <2> QED BY <2>3, <2>5
<1>4. Good(fresh)
  <2> DEFINE old == [key |-> r.key, chain |-> <<>>]
  <2>1. <<>> \in Seq(Entries) /\ Len(<<>>) = 0 /\ Len(<<>>) <= BufferSize
    BY <1>0
  <2>2. old.key = r.key /\ old.chain = <<>> /\ Follows(old, given)
    BY DEF Follows
  <2>3. fresh.key = r.key /\ fresh.chain = Appended(<<>>, r.entry)
    OBVIOUS
  <2>4. Appended(<<>>, r.entry) \in Seq(Entries)
    BY <1>0, <2>1, AppendedTo
  <2>5. fresh \in Rows(K)
    BY <2>4 DEF Rows
  <2> HIDE DEF old, fresh
  <2>6. RowOK(fresh, more) /\ fresh.chain[Len(fresh.chain)] = r.entry
    BY <2>1, <2>2, <2>3, OwnRow
  <2> QED BY <2>5, <2>6
<1>5. t \in Seq(Rows(K)) /\ Len(t) \in Nat
  BY DEF TableOK
<1>6. CASE r.key \in Keys(t)
  <2>1. u = [i \in DOMAIN t |-> IF t[i].key = r.key THEN grown(t[i]) ELSE t[i]]
    BY <1>6 DEF Recorded
  <2>2. DOMAIN u = DOMAIN t /\ DOMAIN t = 1..Len(t)
    <3> HIDE DEF u, grown
    <3> QED BY <1>5, <2>1
  <2>3. ASSUME NEW i \in DOMAIN t PROVE Good(u[i])
    <3>1. t[i] \in RowsOf(t)
      BY DEF RowsOf
    <3>2. u[i] = IF t[i].key = r.key THEN grown(t[i]) ELSE t[i]
      BY <2>1
    <3> HIDE DEF Good, grown, u
    <3>3. CASE t[i].key = r.key
      BY <1>3, <3>1, <3>2, <3>3
    <3>4. CASE t[i].key # r.key
      BY <1>2, <3>1, <3>2, <3>4
    <3> QED BY <3>3, <3>4
  <2>4. \A i \in 1..Len(t) : u[i] \in Rows(K)
    BY <2>2, <2>3
  <2>5. u = [i \in 1..Len(t) |-> u[i]]
    BY <2>1, <2>2
  <2> HIDE DEF u
  <2>6. u \in Seq(Rows(K)) /\ Len(u) = Len(t)
    BY <1>5, <2>2, <2>4, <2>5
  <2>7. \A row \in RowsOf(u) : Good(row)
    <3> HIDE DEF Good
    <3> QED BY <2>2, <2>3 DEF RowsOf
  <2> QED BY <1>5, <2>6, <2>7 DEF TableOK, u
<1>7. CASE r.key \notin Keys(t)
  <2>1. u = Append(t, fresh)
    BY <1>7 DEF Recorded
  <2>2. fresh \in Rows(K)
    BY <1>4
  <2>3. ASSUME NEW row \in RowsOf(t) PROVE row.key # r.key
    BY <1>7 DEF Keys, RowsOf
  <2> HIDE DEF fresh
  <2>4. u \in Seq(Rows(K)) /\ Len(u) = Len(t) + 1 /\ RowsOf(u) = RowsOf(t) \cup {fresh}
    BY <1>5, <2>1, <2>2, AppendProperties, RowsAppended
  <2>5. \A row \in RowsOf(u) : Good(row)
    <3> HIDE DEF Good
    <3> QED BY <1>2, <1>4, <2>3, <2>4 DEF fresh
  <2> QED BY <1>5, <2>4, <2>5 DEF TableOK
<1> QED BY <1>6, <1>7

LEMMA FreshIn ==
  ASSUME NEW given, NEW K, NEW t, TableOK(t, K, given), NEW time
  PROVE  TableOK(Fresh(t, time), K, given) /\ Len(Fresh(t, time)) <= Len(t)
<1> DEFINE kept == {i \in DOMAIN t : time <= t[i].seen + Ttl}
<1>1. kept \in SUBSET (DOMAIN t) /\ t \in Seq(Rows(K))
  BY DEF TableOK
<1>2. Fresh(t, time) = Picked(t, kept)
  BY DEF Fresh
<1> HIDE DEF kept
<1>3. /\ Picked(t, kept) \in Seq(Rows(K)) /\ Len(Picked(t, kept)) <= Len(t)
      /\ RowsOf(Picked(t, kept)) \subseteq RowsOf(t)
  BY <1>1, PickedRows
<1> QED BY <1>2, <1>3 DEF TableOK

LEMMA RemovedRow ==
  ASSUME NEW S, NEW s \in Seq(S), NEW i \in DOMAIN s
  PROVE  /\ RemoveAt(s, i) \in Seq(S) /\ Len(RemoveAt(s, i)) = Len(s) - 1
         /\ RowsOf(RemoveAt(s, i)) \subseteq RowsOf(s)
<1> DEFINE a == SubSeq(s, 1, i - 1)  b == SubSeq(s, i + 1, Len(s))  u == RemoveAt(s, i)
<1>0. PICK n \in Nat : n = Len(s)
  OBVIOUS
<1>1. i \in 1..n /\ DOMAIN s = 1..n /\ \A j \in 1..n : s[j] \in S
  BY <1>0
<1>2. a \in Seq(S) /\ Len(a) = i - 1 /\ \A j \in 1..(i - 1) : a[j] = s[j]
  <2>1. i - 1 \in Int /\ \A j \in 1..(i - 1) : s[j] \in S
    BY <1>1
  <2>2. /\ a \in Seq(S) /\ Len(a) = IF 1 <= i - 1 THEN i - 1 - 1 + 1 ELSE 0
        /\ \A j \in 1..(i - 1 - 1 + 1) : a[j] = s[1 + j - 1]
    BY <2>1, SubSeqProperties
  <2> HIDE DEF a
  <2> QED BY <1>1, <2>2
<1>3. b \in Seq(S) /\ Len(b) = n - i /\ \A j \in 1..(n - i) : b[j] = s[i + j]
  <2>1. i + 1 \in Int /\ n \in Int /\ \A j \in (i + 1)..n : s[j] \in S
    BY <1>1
  <2>2. b = SubSeq(s, i + 1, n)
    BY <1>0
  <2>3. /\ b \in Seq(S) /\ Len(b) = IF i + 1 <= n THEN n - (i + 1) + 1 ELSE 0
        /\ \A j \in 1..(n - (i + 1) + 1) : b[j] = s[i + 1 + j - 1]
    BY <2>1, <2>2, SubSeqProperties
  <2> HIDE DEF b
  <2>4. Len(b) = n - i /\ n - (i + 1) + 1 = n - i
    BY <1>1, <2>3
  <2>5. ASSUME NEW j \in 1..(n - i) PROVE b[j] = s[i + j]
    <3>1. i + 1 + j - 1 = i + j /\ j \in 1..(n - (i + 1) + 1)
      BY <1>1, <2>4
    <3>2. b[j] = s[i + 1 + j - 1]
      BY <2>3, <3>1
    <3> QED BY <3>1, <3>2
  <2> QED BY <2>3, <2>4, <2>5
<1>4. u = a \o b
  BY DEF RemoveAt
<1> HIDE DEF a, b, u
<1>5. /\ u \in Seq(S) /\ Len(u) = n - 1
      /\ \A j \in 1..(n - 1) : u[j] = IF j <= i - 1 THEN a[j] ELSE b[j - (i - 1)]
  <2>1. /\ u \in Seq(S) /\ Len(u) = Len(a) + Len(b)
        /\ \A j \in 1..Len(a) + Len(b) : u[j] = IF j <= Len(a) THEN a[j] ELSE b[j - Len(a)]
    BY <1>2, <1>3, <1>4, ConcatProperties
  <2> QED BY <1>1, <1>2, <1>3, <2>1
<1>6. ASSUME NEW j \in 1..(n - 1) PROVE u[j] \in RowsOf(s)
  <2>1. CASE j <= i - 1
    <3>1. j \in 1..(i - 1) /\ j \in 1..n
      BY <1>1, <2>1
    <3>2. u[j] = s[j]
      BY <1>2, <1>5, <2>1, <3>1
    <3> QED BY <1>1, <3>1, <3>2 DEF RowsOf
  <2>2. CASE ~ (j <= i - 1)
    <3>1. j - (i - 1) \in 1..(n - i) /\ i + (j - (i - 1)) = j + 1 /\ j + 1 \in 1..n
      BY <1>1, <2>2
    <3>2. u[j] = s[j + 1]
      BY <1>3, <1>5, <2>2, <3>1
    <3> QED BY <1>1, <3>1, <3>2 DEF RowsOf
  <2> QED BY <2>1, <2>2
<1>7. DOMAIN u = 1..(n - 1)
  BY <1>5
<1> QED BY <1>0, <1>5, <1>6, <1>7 DEF RowsOf, u

(* There is a first row of those seen longest ago.                         *)
LEMMA OldestRow ==
  ASSUME NEW K, NEW t \in Seq(Rows(K)), Len(t) > 0
  PROVE  \E i \in DOMAIN t : \A j \in DOMAIN t :
           t[i].seen < t[j].seen \/ (t[i].seen = t[j].seen /\ i <= j)
<1> DEFINE times == {t[i].seen : i \in DOMAIN t}
<1>1. 1 \in DOMAIN t /\ DOMAIN t \subseteq Nat
  OBVIOUS
<1>2. \A i \in DOMAIN t : t[i].seen \in Nat
  <2>1. \A row \in Rows(K) : row.seen \in 1..MaxClock
    BY DEF Rows
  <2>2. \A i \in DOMAIN t : t[i] \in Rows(K)
    OBVIOUS
  <2> QED BY <2>1, <2>2
<1>3. PICK x \in times : \A y \in times : x <= y
  <2>1. times \subseteq Nat /\ times # {}
    BY <1>1, <1>2
  <2> HIDE DEF times
  <2> QED BY <2>1, LeastElement
<1> DEFINE first == {i \in DOMAIN t : t[i].seen = x}
<1>4. PICK i \in first : \A j \in first : i <= j
  <2>1. first \subseteq Nat /\ first # {}
    BY <1>1, <1>3
  <2> HIDE DEF first
  <2> QED BY <2>1, LeastElement
<1>5. i \in DOMAIN t /\ t[i].seen = x
  BY <1>4
<1>6. ASSUME NEW j \in DOMAIN t
      PROVE  t[i].seen < t[j].seen \/ (t[i].seen = t[j].seen /\ i <= j)
  <2>1. x <= t[j].seen /\ t[j].seen \in Nat /\ x \in Nat
    BY <1>2, <1>3, <1>5
  <2>2. t[j].seen = x => i <= j
    BY <1>4
  <2> QED BY <1>5, <2>1, <2>2
<1> QED BY <1>5, <1>6

LEMMA CappedIn ==
  ASSUME NEW given, NEW K, NEW t, TableOK(t, K, given), NEW most \in Nat,
         Len(t) <= most + 1
  PROVE  LET u == CappedTable(t, most) IN
           TableOK(u, K, given) /\ Len(u) <= most /\ RowsOf(u) \subseteq RowsOf(t)
<1>1. t \in Seq(Rows(K)) /\ Len(t) \in Nat
  BY DEF TableOK
<1>2. CASE Len(t) <= most
  BY <1>1, <1>2 DEF CappedTable
<1>3. CASE ~ (Len(t) <= most)
  <2> DEFINE oldest(i) == \A j \in DOMAIN t :
               t[i].seen < t[j].seen \/ (t[i].seen = t[j].seen /\ i <= j)
             o == CHOOSE i \in DOMAIN t : oldest(i)
  <2>1. Len(t) > 0 /\ Len(t) - 1 <= most
    BY <1>1, <1>3
  <2>2. \E i \in DOMAIN t : oldest(i)
    BY <1>1, <2>1, OldestRow
  <2>3. o \in DOMAIN t
    <3> HIDE DEF oldest
    <3> QED BY <2>2
  <2>4. CappedTable(t, most) = RemoveAt(t, o)
    BY <1>3 DEF CappedTable
  <2> HIDE DEF o
  <2>5. /\ RemoveAt(t, o) \in Seq(Rows(K)) /\ Len(RemoveAt(t, o)) = Len(t) - 1
        /\ RowsOf(RemoveAt(t, o)) \subseteq RowsOf(t)
    BY <1>1, <2>3, RemovedRow
  <2> QED BY <2>1, <2>4, <2>5 DEF TableOK
<1> QED BY <1>2, <1>3

LEMMA KeysDiffer ==
  /\ NoKey \notin IpKeys \cup ProcessKeys
  /\ \A k \in IpKeys : k \notin ProcessKeys
<1>1. \A k \in IpKeys : k[1] \in {"address", "token"}
  BY DEF IpKeys
<1>2. \A k \in ProcessKeys : k[1] = "process"
  BY DEF ProcessKeys
<1>3. NoKey[1] = "none"
  BY DEF NoKey
<1> QED BY <1>1, <1>2, <1>3

MemoryOK(m, given) ==
  /\ TableOK(m.ips, IpKeys, given) /\ Len(m.ips) <= MaxIps
  /\ TableOK(m.processes, ProcessKeys, given) /\ Len(m.processes) <= MaxProcesses
  /\ m.all \in Seq(Entries) /\ Len(m.all) <= 5 * BufferSize

EndsWith(chain, e) == Len(chain) > 0 /\ chain[Len(chain)] = e

(* What an update with an entry e of key leaves behind.                    *)
Updated(m, given, key, e) ==
  /\ MemoryOK(m, given)
  /\ \A row \in RowsOf(m.ips) \cup RowsOf(m.processes) :
       row.key = key => EndsWith(row.chain, e)
  /\ EndsWith(m.all, e)

LEMMA TableUpdated ==
  ASSUME NEW given \in Seq(Records), NEW r \in Records, NEW K, NEW t,
         TableOK(t, K, given), r.key \in K, NEW time \in 1..MaxClock,
         NEW most \in Nat, Len(t) <= most
  PROVE  LET u == CappedTable(Recorded(Fresh(t, time), r.key, r.entry, time), most) IN
           /\ TableOK(u, K, Append(given, r)) /\ Len(u) <= most
           /\ \A row \in RowsOf(u) : row.key = r.key => EndsWith(row.chain, r.entry)
<1> DEFINE f == Fresh(t, time)  g == Recorded(f, r.key, r.entry, time)
           u == CappedTable(g, most)
<1>1. TableOK(f, K, given) /\ Len(f) <= Len(t) /\ Len(f) \in Nat /\ Len(t) \in Nat
  <2>1. TableOK(f, K, given) /\ Len(f) <= Len(t)
    BY FreshIn
  <2> QED BY <2>1 DEF TableOK
<1> HIDE DEF f
<1>2. /\ TableOK(g, K, Append(given, r)) /\ Len(g) <= Len(f) + 1
      /\ \A row \in RowsOf(g) : row.key = r.key => row.chain[Len(row.chain)] = r.entry
  BY <1>1, RecordedIn
<1> HIDE DEF g
<1>3. Len(g) <= most + 1
  <2>1. Len(g) \in Nat
    BY <1>2 DEF TableOK
  <2> QED BY <1>1, <1>2, <2>1
<1>4. TableOK(u, K, Append(given, r)) /\ Len(u) <= most /\ RowsOf(u) \subseteq RowsOf(g)
  BY <1>2, <1>3, CappedIn
<1> HIDE DEF u
<1>5. ASSUME NEW row \in RowsOf(u), row.key = r.key PROVE EndsWith(row.chain, r.entry)
  <2>1. RowOK(row, Append(given, r)) /\ row.chain[Len(row.chain)] = r.entry
    BY <1>2, <1>4, <1>5 DEF TableOK
  <2> QED BY <2>1, MemoryAssumption DEF RowOK, EndsWith
<1> QED BY <1>4, <1>5 DEF u, g, f

LEMMA TableKept ==
  ASSUME NEW given \in Seq(Records), NEW r \in Records, NEW K, NEW t,
         TableOK(t, K, given), r.key \notin K, NEW time, NEW most \in Nat, Len(t) <= most
  PROVE  LET u == Fresh(t, time) IN
           /\ TableOK(u, K, Append(given, r)) /\ Len(u) <= most
           /\ \A row \in RowsOf(u) : row.key # r.key
<1> DEFINE u == Fresh(t, time)
<1>1. TableOK(u, K, given) /\ Len(u) <= Len(t) /\ Len(u) \in Nat /\ Len(t) \in Nat
  <2>1. TableOK(u, K, given) /\ Len(u) <= Len(t)
    BY FreshIn
  <2> QED BY <2>1 DEF TableOK
<1> HIDE DEF u
<1>2. TableOK(u, K, Append(given, r))
  BY <1>1, TableOfOthers
<1>3. ASSUME NEW row \in RowsOf(u) PROVE row.key # r.key
  <2>1. row \in Rows(K)
    BY <1>1 DEF TableOK, RowsOf
  <2> QED BY <2>1 DEF Rows
<1> QED BY <1>1, <1>2, <1>3 DEF u

LEMMA LastOnesEnd ==
  ASSUME NEW S, NEW s \in Seq(S), NEW e \in S, NEW n \in Nat \ {0}
  PROVE  LET u == LastOnes(Append(s, e), n) IN
           u \in Seq(S) /\ Len(u) <= n /\ EndsWith(u, e)
<1> DEFINE b == Append(s, e)  u == LastOnes(b, n)
<1>1. b \in Seq(S) /\ Len(b) = Len(s) + 1 /\ b[Len(s) + 1] = e /\ Len(s) \in Nat
  BY AppendProperties
<1> HIDE DEF b
<1>2. /\ u \in Seq(S) /\ Len(u) = IF Len(b) > n THEN n ELSE Len(b)
      /\ \A i \in 1..Len(u) : u[i] = b[Len(b) - Len(u) + i]
  BY <1>1, LastOnesOf
<1> HIDE DEF u
<1>3. PICK m \in Nat \ {0} : m = Len(u)
  BY <1>1, <1>2
<1>4. m \in 1..m /\ Len(b) - m + m = Len(s) + 1 /\ m <= n
  BY <1>1, <1>2, <1>3
<1>5. u[m] = b[Len(b) - m + m]
  BY <1>2, <1>3, <1>4
<1> QED BY <1>1, <1>2, <1>3, <1>4, <1>5 DEF EndsWith, u, b

LEMMA BufferUpdated ==
  ASSUME NEW given \in Seq(Records), NEW m, MemoryOK(m, given),
         NEW e \in Entries, NEW ip \in IpKeys \cup {NoKey},
         NEW process \in ProcessKeys \cup {NoKey}, NEW time \in 1..MaxClock,
         NEW key, key = IF ip # NoKey THEN ip ELSE process
  PROVE  Updated(UpdateBuffer(m, e, ip, process, time),
                 Append(given, [key |-> key, entry |-> e]), key, e)
<1> DEFINE r == [key |-> key, entry |-> e]  new == UpdateBuffer(m, e, ip, process, time)
           more == Append(given, r)
<1>0. /\ MaxIps \in Nat /\ MaxProcesses \in Nat /\ BufferSize \in Nat \ {0}
      /\ 5 * BufferSize \in Nat \ {0}
  BY MemoryAssumption
<1>1. r \in Records /\ r.key = key /\ r.entry = e
  BY DEF Records
<1>2. /\ TableOK(m.ips, IpKeys, given) /\ Len(m.ips) <= MaxIps
      /\ TableOK(m.processes, ProcessKeys, given) /\ Len(m.processes) <= MaxProcesses
      /\ m.all \in Seq(Entries)
  BY DEF MemoryOK
<1>3. /\ new.ips = IF ip # NoKey
                   THEN CappedTable(Recorded(Fresh(m.ips, time), ip, e, time), MaxIps)
                   ELSE Fresh(m.ips, time)
      /\ new.processes = IF ip = NoKey /\ process # NoKey
                   THEN CappedTable(Recorded(Fresh(m.processes, time), process, e, time),
                                    MaxProcesses)
                   ELSE Fresh(m.processes, time)
      /\ new.all = LastOnes(Append(m.all, e), 5 * BufferSize)
  BY DEF UpdateBuffer
<1> HIDE DEF r, new
<1>4. /\ TableOK(new.ips, IpKeys, more) /\ Len(new.ips) <= MaxIps
      /\ \A row \in RowsOf(new.ips) : row.key = key => EndsWith(row.chain, e)
  <2>1. CASE ip # NoKey
    <3>1. r.key \in IpKeys /\ r.key = ip
      BY <1>1, <2>1
    <3> QED BY <1>0, <1>1, <1>2, <1>3, <2>1, <3>1, TableUpdated
  <2>2. CASE ip = NoKey
    <3>1. r.key \notin IpKeys
      BY <1>1, <2>2, KeysDiffer
    <3> QED BY <1>0, <1>1, <1>2, <1>3, <2>2, <3>1, TableKept
  <2> QED BY <2>1, <2>2
<1>5. /\ TableOK(new.processes, ProcessKeys, more) /\ Len(new.processes) <= MaxProcesses
      /\ \A row \in RowsOf(new.processes) : row.key = key => EndsWith(row.chain, e)
  <2>1. CASE ip = NoKey /\ process # NoKey
    <3>1. r.key \in ProcessKeys /\ r.key = process
      BY <1>1, <2>1
    <3> QED BY <1>0, <1>1, <1>2, <1>3, <2>1, <3>1, TableUpdated
  <2>2. CASE ~ (ip = NoKey /\ process # NoKey)
    <3>1. r.key \notin ProcessKeys
      BY <1>1, <2>2, KeysDiffer
    <3> QED BY <1>0, <1>1, <1>2, <1>3, <2>2, <3>1, TableKept
  <2> QED BY <2>1, <2>2
<1>6. new.all \in Seq(Entries) /\ Len(new.all) <= 5 * BufferSize /\ EndsWith(new.all, e)
  BY <1>0, <1>2, <1>3, LastOnesEnd
<1> QED BY <1>4, <1>5, <1>6 DEF Updated, MemoryOK, new, r

(* The chain that is returned, when its key is there: it ends with the     *)
(* entry e, and has none of another address.                               *)
Tells(chain, ip, e, given) ==
  /\ EndsWith(chain, e)
  /\ ip # NoKey => \A c \in DOMAIN chain : \E k \in Own(ip, given) : given[k].entry = chain[c]

LEMMA ChainReturned ==
  ASSUME NEW given \in Seq(Records), NEW m, NEW e \in Entries,
         NEW ip \in IpKeys \cup {NoKey}, NEW process \in ProcessKeys \cup {NoKey},
         NEW key, key = IF ip # NoKey THEN ip ELSE process,
         Updated(m, given, key, e), ~KeyIsLost(m, ip, process)
  PROVE  Tells(Chain(m, ip, process), ip, e, given)
<1> DEFINE chain == Chain(m, ip, process)
<1>1. CASE ip # NoKey
  <2>1. \E i \in DOMAIN m.ips : m.ips[i].key = ip
    BY <1>1 DEF KeyIsLost, Keys
  <2>2. PICK row \in RowsOf(m.ips) : row.key = ip /\ chain = row.chain
    BY <1>1, <2>1 DEF Chain, Entry, RowsOf
  <2>3. row \in Rows(IpKeys) /\ RowOK(row, given) /\ EndsWith(row.chain, e)
    BY <1>1, <2>2 DEF Updated, MemoryOK, TableOK, RowsOf
  <2> HIDE DEF chain
  <2> QED BY <2>2, <2>3 DEF RowOK, Follows, Tells, chain
<1>2. CASE ip = NoKey /\ process # NoKey
  <2>1. \E i \in DOMAIN m.processes : m.processes[i].key = process
    BY <1>2 DEF KeyIsLost, Keys
  <2>2. PICK row \in RowsOf(m.processes) : row.key = process /\ chain = row.chain
    BY <1>2, <2>1 DEF Chain, Entry, RowsOf
  <2>3. row \in Rows(ProcessKeys) /\ EndsWith(row.chain, e)
    BY <1>2, <2>2 DEF Updated, MemoryOK, TableOK, RowsOf
  <2> HIDE DEF chain
  <2> QED BY <1>2, <2>2, <2>3 DEF Tells, chain
<1>3. CASE ip = NoKey /\ process = NoKey
  <2>1. chain = LastOnes(m.all, BufferSize)
    BY <1>3 DEF Chain
  <2>2. m.all \in Seq(Entries) /\ EndsWith(m.all, e) /\ BufferSize \in Nat \ {0}
    BY MemoryAssumption DEF Updated, MemoryOK
  <2> HIDE DEF chain
  <2>3. /\ chain \in Seq(Entries)
        /\ Len(chain) = IF Len(m.all) > BufferSize THEN BufferSize ELSE Len(m.all)
        /\ \A i \in 1..Len(chain) : chain[i] = m.all[Len(m.all) - Len(chain) + i]
    BY <2>1, <2>2, LastOnesOf
  <2>4. PICK l \in Nat \ {0} : l = Len(chain)
    BY <2>2, <2>3 DEF EndsWith
  <2>5. l \in 1..l /\ Len(m.all) - l + l = Len(m.all)
    BY <2>2, <2>3, <2>4
  <2>6. chain[l] = m.all[Len(m.all) - l + l]
    BY <2>3, <2>4, <2>5
  <2> QED BY <1>3, <2>2, <2>3, <2>4, <2>5, <2>6 DEF EndsWith, Tells, chain
<1> QED BY <1>1, <1>2, <1>3

BreakersOK ==
  /\ breaker \in [ProviderNames -> [failures : 0..Threshold, open : BOOLEAN]]
  /\ \A p \in ProviderNames : breaker[p].open => breaker[p].failures = Threshold

(* An address is recorded for its own host only.                           *)
HostsOK(given) ==
  \A k \in DOMAIN given : \A a \in Texts :
    given[k].key = <<"address", a>> => given[k].entry.host = a

ShownOK ==
  stage \in Routes \cup {"context"} =>
    /\ EndsWith(shown, Entry0)
    /\ ~External /\ event.ip # "none" => \A k \in DOMAIN shown : shown[k].host = event.ip

MemoryInv ==
  /\ recorded \in Seq(Records) /\ MemoryOK(memory, recorded) /\ HostsOK(recorded)
  /\ brain \in BrainConfigs /\ now \in 1..MaxClock

ChainsInv == InternalInv /\ BreakersOK /\ MemoryInv /\ ShownOK

LEMMA BreakerStep ==
  ASSUME BreakersOK,
         \/ \E p : AnswersAt(p) \/ NoAnswer(p) \/ Recovers(p)
         \/ UNCHANGED breaker
  PROVE  BreakersOK'
<1>0. Threshold \in Nat \ {0} /\ Attempts \in Nat \ {0}
  BY ProvidersAssumption
<1>1. CASE UNCHANGED breaker
  BY <1>1 DEF BreakersOK
<1>2. ASSUME NEW p, NEW state \in [failures : 0..Threshold, open : BOOLEAN],
             state.open => state.failures = Threshold,
             breaker' = [breaker EXCEPT ![p] = state]
      PROVE  BreakersOK'
  BY <1>2 DEF BreakersOK
<1>3. ASSUME NEW p, AnswersAt(p) PROVE BreakersOK'
  <2>1. [failures |-> 0, open |-> FALSE] \in [failures : 0..Threshold, open : BOOLEAN]
    BY <1>0
  <2> QED BY <1>2, <1>3, <2>1 DEF AnswersAt
<1>4. ASSUME NEW p, NoAnswer(p) PROVE BreakersOK'
  <2>1. CASE Skips(p)
    BY <1>1, <2>1 DEF Skips
  <2>2. CASE Fails(p)
    <3>1. CASE p \notin ProviderNames
      <4>1. breaker' = breaker
        BY <2>2, <3>1 DEF Fails, BreakersOK
      <4> QED BY <1>1, <4>1
    <3>2. CASE p \in ProviderNames
      <4> DEFINE n == breaker[p].failures + Attempts
                 count == IF n < Threshold THEN n ELSE Threshold
                 opens == n >= Threshold
                 state == [failures |-> count, open |-> opens]
      <4>1. n \in Nat
        BY <1>0, <3>2 DEF BreakersOK
      <4>2. breaker' = [breaker EXCEPT ![p] = state]
        BY <2>2 DEF Fails
      <4> HIDE DEF n
      <4>3. count \in 0..Threshold /\ opens \in BOOLEAN /\ (opens => count = Threshold)
        BY <1>0, <4>1
      <4> HIDE DEF count, opens
      <4>4. state \in [failures : 0..Threshold, open : BOOLEAN]
            /\ (state.open => state.failures = Threshold)
        BY <4>3
      <4> HIDE DEF state
      <4> QED BY <1>2, <4>2, <4>4
    <3> QED BY <3>1, <3>2
  <2> QED BY <1>4, <2>1, <2>2 DEF NoAnswer
<1>5. ASSUME NEW p, Recovers(p) PROVE BreakersOK'
  BY <1>0, <1>5 DEF Recovers, BreakersOK
<1> QED BY <1>1, <1>3, <1>4, <1>5

LEMMA BreakerNext ==
  BreakersOK /\ [BrainNext]_<<brainVars, breaker>> => BreakersOK'
<1> SUFFICES ASSUME BreakersOK, [BrainNext]_<<brainVars, breaker>> PROVE BreakersOK'
  OBVIOUS
<1>1. CASE UNCHANGED breaker
  BY <1>1, BreakerStep
<1>2. CASE \E e \in RawEvents : Receive(e)
  BY <1>1, <1>2 DEF Receive
<1>3. CASE ExtractByModel
  BY <1>3, BreakerStep DEF ExtractByModel
<1>4. CASE ExtractByFields \/ Remember \/ LoadContext
  BY <1>1, <1>4 DEF ExtractByFields, Remember, LoadContext
<1>5. ASSUME NEW route \in Routes, NotAsked(route) PROVE BreakersOK'
  BY <1>1, <1>5 DEF NotAsked
<1>6. ASSUME NEW route \in Routes,
             \/ AskedInVain(route) \/ NoObject(route)
             \/ \E d \in Replies : Decides(route, d)
      PROVE  BreakersOK'
  <2>1. AnswersAt(route) \/ NoAnswer(route)
    BY <1>6 DEF AskedInVain, NoObject, Decides
  <2> QED BY <2>1, BreakerStep
<1>7. CASE RuleEngine \/ FallBackOnRules \/ Decide \/ ClockMoves
  BY <1>1, <1>7 DEF RuleEngine, FallBackOnRules, Decide, ClockMoves
<1>8. CASE BreakerRecovers
  BY <1>8, BreakerStep DEF BreakerRecovers
<1> QED BY <1>1, <1>2, <1>3, <1>4, <1>5, <1>6, <1>7, <1>8 DEF BrainNext, ProcessEvent

LEMMA EventKeys ==
  ASSUME stage # "idle", EventOK
  PROVE  /\ KnownAs(event) \in IpKeys \cup {NoKey}
         /\ ProcessOf(event) \in ProcessKeys \cup {NoKey}
         /\ Entry0 \in Entries /\ Entry0.host = event.ip
         /\ ~External /\ event.ip # "none" => KnownAs(event) = <<"address", event.ip>>
         /\ KnownAs(event) = NoKey => event.ip = "none"
         /\ \A a : KnownAs(event) = <<"address", a>> => event.ip = a
<1>1. /\ event.id \in Nat /\ event.nth \in Nat \ {0}
      /\ event.internal => event.ip # "none"
      /\ event.ip \in Texts /\ event.process \in Texts /\ event.type \in Texts
  BY DEF EventOK
<1>2. Entry0 \in Entries /\ Entry0.host = event.ip
  BY <1>1 DEF Entry0, Entries
<1>3. ProcessOf(event) \in ProcessKeys \cup {NoKey}
  <2>1. \A x \in Texts : <<"process", x>> \in ProcessKeys
    BY DEF ProcessKeys
  <2> QED BY <1>1, <2>1 DEF ProcessOf
<1>4. CASE External /\ event.internal
  <2>1. KnownAs(event) = <<"token", Token("address", event.nth)>>
    BY <1>4 DEF KnownAs
  <2>2. KnownAs(event) \in IpKeys
    BY <1>1, <2>1 DEF IpKeys
  <2>3. KnownAs(event)[1] = "token" /\ \A a : <<"address", a>>[1] = "address"
    BY <2>1
  <2> QED BY <1>2, <1>3, <1>4, <2>2, <2>3, KeysDiffer
<1>5. CASE ~ (External /\ event.internal) /\ event.ip = "none"
  <2>1. KnownAs(event) = NoKey
    BY <1>5 DEF KnownAs
  <2>2. NoKey[1] = "none" /\ \A a : <<"address", a>>[1] = "address"
    BY DEF NoKey
  <2> QED BY <1>2, <1>3, <1>5, <2>1, <2>2
<1>6. CASE ~ (External /\ event.internal) /\ event.ip # "none"
  <2>1. KnownAs(event) = <<"address", event.ip>>
    BY <1>6 DEF KnownAs
  <2>2. KnownAs(event) \in IpKeys
    BY <1>1, <2>1 DEF IpKeys
  <2>3. \A a : <<"address", event.ip>> = <<"address", a>> => event.ip = a
    OBVIOUS
  <2> QED BY <1>2, <1>3, <2>1, <2>2, <2>3, KeysDiffer
<1> QED BY <1>4, <1>5, <1>6

LEMMA HostsGrow ==
  ASSUME NEW given \in Seq(Records), HostsOK(given), NEW r \in Records,
         \A a \in Texts : r.key = <<"address", a>> => r.entry.host = a
  PROVE  HostsOK(Append(given, r)) /\ Append(given, r) \in Seq(Records)
<1> DEFINE more == Append(given, r)  n == Len(given) + 1
<1>1. /\ DOMAIN more = 1..n /\ more[n] = r
      /\ \A k \in DOMAIN given : more[k] = given[k]
  BY OwnGrows
<1>2. more \in Seq(Records)
  BY AppendProperties
<1>3. \A k \in 1..n : k \in DOMAIN given \/ k = n
  OBVIOUS
<1> HIDE DEF more, n
<1>4. HostsOK(more)
  BY <1>1, <1>3 DEF HostsOK
<1> QED BY <1>2, <1>4 DEF more

(* One update of the memory with the event in work.                        *)
LEMMA RememberOnce ==
  ASSUME stage # "idle", EventOK, NEW given \in Seq(Records), HostsOK(given),
         NEW m, MemoryOK(m, given), now \in 1..MaxClock,
         NEW key, key = IF KnownAs(event) # NoKey THEN KnownAs(event) ELSE ProcessOf(event),
         NEW more, more = Append(given, [key |-> key, entry |-> Entry0])
  PROVE  /\ Updated(Remembered(m), more, key, Entry0)
         /\ more \in Seq(Records) /\ HostsOK(more)
<1> DEFINE r == [key |-> key, entry |-> Entry0]
<1>1. /\ KnownAs(event) \in IpKeys \cup {NoKey}
      /\ ProcessOf(event) \in ProcessKeys \cup {NoKey}
      /\ Entry0 \in Entries /\ Entry0.host = event.ip
      /\ \A a : KnownAs(event) = <<"address", a>> => event.ip = a
  BY EventKeys
<1>2. Updated(Remembered(m), more, key, Entry0)
  BY <1>1, BufferUpdated DEF Remembered
<1>3. r \in Records /\ r.key = key /\ r.entry = Entry0
  BY <1>1 DEF Records
<1>4. \A a : key = <<"address", a>> => Entry0.host = a
  <2>1. \A k \in ProcessKeys \cup {NoKey} : k[1] # "address"
    BY DEF ProcessKeys, NoKey
  <2>2. \A a : <<"address", a>>[1] = "address"
    OBVIOUS
  <2> QED BY <1>1, <2>1, <2>2
<1> HIDE DEF r
<1>5. HostsOK(Append(given, r)) /\ Append(given, r) \in Seq(Records)
  BY <1>3, <1>4, HostsGrow
<1> QED BY <1>2, <1>5 DEF r

LEMMA RememberStep ==
  ASSUME InternalInv, MemoryInv, Remember
  PROVE  MemoryInv' /\ ShownOK'
<1> DEFINE once == Remembered(memory)
           twice == Remembered(once)
           key == IF KnownAs(event) # NoKey THEN KnownAs(event) ELSE ProcessOf(event)
           r == [key |-> key, entry |-> Entry0]
           lost == KeyIsLost(twice, KnownAs(event), ProcessOf(event))
           one == Append(recorded, r)
           two == Append(one, r)
<1>1. stage = "remember" /\ UNCHANGED <<brain, now, event>>
  BY DEF Remember, Restricted
<1>2. EventOK /\ now \in 1..MaxClock /\ brain \in BrainConfigs
  BY DEF InternalInv, MemoryInv
<1>3. /\ recorded \in Seq(Records) /\ HostsOK(recorded) /\ MemoryOK(memory, recorded)
  BY DEF MemoryInv
<1>4. /\ Updated(once, one, key, Entry0) /\ one \in Seq(Records) /\ HostsOK(one)
  <2> HIDE DEF once, key, one
  <2> QED BY <1>1, <1>2, <1>3, RememberOnce DEF once, key, one
<1>5. /\ Updated(twice, two, key, Entry0) /\ two \in Seq(Records) /\ HostsOK(two)
  <2>1. MemoryOK(once, one)
    BY <1>4 DEF Updated
  <2> HIDE DEF once, key, one
  <2> QED BY <1>1, <1>2, <1>4, <2>1, RememberOnce DEF key
<1>6. recorded \o <<r, r>> = two
  <2>1. r \in Records
    BY <1>1, <1>2, EventKeys DEF Records
  <2> HIDE DEF r
  <2> QED BY <1>3, <2>1
<1>7. CASE brain.pydantic
  <2>1. /\ memory' = twice /\ recorded' = two
        /\ stage' = IF lost THEN "rules" ELSE "context"
        /\ ~lost => shown' = Chain(twice, KnownAs(event), ProcessOf(event))
    BY <1>6, <1>7 DEF Remember
  <2> HIDE DEF twice, two, key
  <2>2. MemoryInv'
    BY <1>1, <1>2, <1>5, <2>1 DEF MemoryInv, Updated
  <2>3. CASE lost
    BY <2>1, <2>2, <2>3 DEF ShownOK, Routes
  <2>4. CASE ~lost
    <3>0. /\ KnownAs(event) \in IpKeys \cup {NoKey}
          /\ ProcessOf(event) \in ProcessKeys \cup {NoKey} /\ Entry0 \in Entries
          /\ ~External /\ event.ip # "none" => KnownAs(event) = <<"address", event.ip>>
      BY <1>1, <1>2, EventKeys
    <3>1. /\ EndsWith(shown', Entry0)
          /\ KnownAs(event) # NoKey =>
               \A c \in DOMAIN shown' : \E k \in Own(KnownAs(event), two) :
                 two[k].entry = shown'[c]
      <4>1. key = IF KnownAs(event) # NoKey THEN KnownAs(event) ELSE ProcessOf(event)
        BY DEF key
      <4>2. Tells(Chain(twice, KnownAs(event), ProcessOf(event)), KnownAs(event), Entry0, two)
        BY <1>5, <2>4, <3>0, <4>1, ChainReturned
      <4> QED BY <2>1, <2>4, <4>2 DEF Tells
    <3>2. ASSUME ~External, event.ip # "none", NEW c \in DOMAIN shown'
          PROVE  shown'[c].host = event.ip
      <4>1. KnownAs(event) = <<"address", event.ip>> /\ event.ip \in Texts
        BY <1>1, <1>2, <3>0, <3>2 DEF EventOK
      <4>2. KnownAs(event) # NoKey
        <5>1. <<"address", event.ip>>[1] # NoKey[1]
          BY DEF NoKey
        <5> QED BY <4>1, <5>1
      <4>3. PICK k \in Own(KnownAs(event), two) : two[k].entry = shown'[c]
        BY <3>1, <4>2
      <4>4. k \in DOMAIN two /\ two[k].key = <<"address", event.ip>>
        BY <4>1, <4>3 DEF Own
      <4> QED BY <1>5, <4>1, <4>3, <4>4 DEF HostsOK
    <3>3. Entry0' = Entry0 /\ External' = External /\ event' = event
      BY <1>1 DEF Entry0, External
    <3>4. ShownOK'
      BY <3>1, <3>2, <3>3 DEF ShownOK
    <3> QED BY <2>2, <3>4
  <2> QED BY <2>2, <2>3, <2>4
<1>8. CASE ~brain.pydantic
  <2>1. memory' = once /\ recorded' = one /\ stage' = "rules"
    BY <1>8 DEF Remember
  <2> HIDE DEF once, one, key
  <2>2. MemoryInv'
    BY <1>1, <1>2, <1>4, <2>1 DEF MemoryInv, Updated
  <2> QED BY <2>1, <2>2 DEF ShownOK, Routes
<1> QED BY <1>7, <1>8

LEMMA ChainsInitInv == BrainInit /\ ProvidersInit => ChainsInv
<1> SUFFICES ASSUME BrainInit, ProvidersInit PROVE ChainsInv
  OBVIOUS
<1>1. InternalInv
  BY InternalInitInv
<1>2. BreakersOK
  BY ProvidersAssumption DEF ProvidersInit, BreakersOK
<1>3. ASSUME NEW K PROVE TableOK(<<>>, K, recorded) /\ Len(<<>>) = 0
  BY DEF TableOK, RowsOf
<1>4. MemoryOK(EmptyMemory, recorded)
  <2>1. EmptyMemory.ips = <<>> /\ EmptyMemory.processes = <<>> /\ EmptyMemory.all = <<>>
    BY DEF EmptyMemory
  <2>2. 0 <= MaxIps /\ 0 <= MaxProcesses /\ 0 <= 5 * BufferSize /\ <<>> \in Seq(Entries)
    BY MemoryAssumption
  <2> QED BY <1>3, <2>1, <2>2 DEF MemoryOK
<1>5. MemoryInv
  <2>1. recorded \in Seq(Records) /\ HostsOK(recorded)
    <3>1. recorded = <<>>
      BY DEF BrainInit
    <3> QED BY <3>1 DEF HostsOK
  <2>2. now \in 1..MaxClock
    <3>1. MaxClock \in Nat \ {0}
      BY BrainAssumption
    <3>2. now = 1
      BY DEF BrainInit
    <3> QED BY <3>1, <3>2
  <2> QED BY <1>4, <2>1, <2>2 DEF BrainInit, MemoryInv
<1>6. ShownOK
  BY DEF BrainInit, ShownOK, Routes
<1> QED BY <1>1, <1>2, <1>5, <1>6 DEF ChainsInv

LEMMA ChainsNextInv == ChainsInv /\ [BrainNext]_<<brainVars, breaker>> => ChainsInv'
<1> SUFFICES ASSUME ChainsInv, [BrainNext]_<<brainVars, breaker>> PROVE ChainsInv'
  OBVIOUS
<1>0. InternalInv /\ BreakersOK /\ MemoryInv /\ ShownOK
  BY DEF ChainsInv
<1>1. InternalInv' /\ BreakersOK'
  BY <1>0, InternalNextInv, BreakerNext
(* The other steps leave the memory alone, and the chain that is shown.    *)
<1>2. ASSUME UNCHANGED <<brain, memory, recorded>>, now' \in 1..MaxClock,
             \/ stage' \notin Routes \cup {"context"}
             \/ stage \in Routes \cup {"context"} /\ UNCHANGED <<event, shown>>
      PROVE  ChainsInv'
  <2>1. MemoryInv'
    BY <1>0, <1>2 DEF MemoryInv
  <2>2. ShownOK'
    BY <1>0, <1>2 DEF ShownOK, Entry0, External
  <2> QED BY <1>1, <2>1, <2>2 DEF ChainsInv
<1>3. now \in 1..MaxClock
  BY <1>0 DEF MemoryInv
<1>4. ASSUME NEW e \in RawEvents, Receive(e) PROVE ChainsInv'
  BY <1>2, <1>3, <1>4 DEF Receive, Restricted, Routes
<1>5. CASE ExtractByModel \/ ExtractByFields
  BY <1>2, <1>3, <1>5 DEF ExtractByModel, ExtractByFields, Extracted, Restricted, Routes
<1>6. CASE Remember
  <2>1. MemoryInv' /\ ShownOK'
    BY <1>0, <1>6, RememberStep
  <2> QED BY <1>1, <2>1 DEF ChainsInv
<1>7. CASE LoadContext
  BY <1>2, <1>3, <1>7 DEF LoadContext, Restricted
<1>8. ASSUME NEW route \in Routes,
             \/ NotAsked(route) \/ AskedInVain(route) \/ NoObject(route)
             \/ \E d \in Replies : Decides(route, d)
      PROVE  ChainsInv'
  <2>1. stage = route /\ UNCHANGED <<brain, now, memory, recorded, event, shown>>
    BY <1>8 DEF NotAsked, AskedInVain, NoObject, Decides, Passes, Routed, Restricted
  <2> QED BY <1>2, <1>3, <2>1
<1>9. CASE RuleEngine \/ FallBackOnRules
  <2>1. /\ stage' \in {"decide", "rules"}
        /\ UNCHANGED <<brain, now, memory, recorded>>
    BY <1>9 DEF RuleEngine, FallBackOnRules, Routed, Restricted
  <2> QED BY <1>2, <1>3, <2>1 DEF Routes
<1>10. CASE Decide
  BY <1>2, <1>3, <1>10 DEF Decide, Restricted, Routes
<1>11. CASE ClockMoves
  <2>1. stage' = "idle" /\ UNCHANGED <<brain, memory, recorded>> /\ now' \in 1..MaxClock
    BY <1>11 DEF ClockMoves
  <2> QED BY <1>2, <2>1 DEF Routes
<1>12. CASE BreakerRecovers \/ UNCHANGED <<brainVars, breaker>>
  <2>1. UNCHANGED <<brain, now, stage, memory, recorded, event, shown>>
    BY <1>12 DEF BreakerRecovers, brainVars, eventVars
  <2> QED BY <1>2, <1>3, <2>1
<1> QED BY <1>4, <1>5, <1>6, <1>7, <1>8, <1>9, <1>10, <1>11, <1>12 DEF BrainNext, ProcessEvent

(* No chain and no table of the memory outgrows its limit, whatever the    *)
(* clock does, and no breaker is open without its threshold of failures.   *)
THEOREM BrainIsTyped == BrainSpec => []BrainTypeOK
<1>1. ChainsInv => BrainTypeOK
  <2> SUFFICES ASSUME ChainsInv PROVE BrainTypeOK
    OBVIOUS
  <2>1. InternalInv /\ BreakersOK /\ MemoryInv
    BY DEF ChainsInv
  <2>2. stage \in Stages
    BY <2>1 DEF InternalInv, CountersInv
  <2>3. ASSUME NEW K, NEW t, TableOK(t, K, recorded), NEW i \in DOMAIN t
        PROVE  Len(t[i].chain) \in 1..BufferSize /\ t[i].seen \in 1..MaxClock
    <3>1. t[i] \in Rows(K) /\ RowOK(t[i], recorded)
      BY <2>3 DEF TableOK, RowsOf
    <3> QED BY <3>1 DEF Rows, RowOK
  <2>4. MemoryOK(memory, recorded) /\ brain \in BrainConfigs /\ now \in 1..MaxClock
    BY <2>1 DEF MemoryInv
  <2>5. \A p \in ProviderNames :
          breaker[p].failures \in 0..Threshold
            /\ (breaker[p].open => breaker[p].failures = Threshold)
    BY <2>1 DEF BreakersOK
  <2>6. \A t \in {memory.ips, memory.processes} : \A i \in DOMAIN t :
          Len(t[i].chain) \in 1..BufferSize /\ t[i].seen \in 1..MaxClock
    BY <2>3, <2>4 DEF MemoryOK
  <2> QED BY <2>2, <2>4, <2>5, <2>6 DEF BrainTypeOK, MemoryOK
<1> QED BY <1>1, ChainsInitInv, ChainsNextInv, PTL DEF BrainSpec

(* The chain of an address or of a process holds its latest events in their*)
(* order; the models are shown one that ends with the event in question,   *)
(* and that is about its host alone while nothing leaves the machine.      *)
THEOREM ChainsAreOwn == BrainSpec => []ChainsAreTheKeysOwn
<1>1. ChainsInv => ChainsAreTheKeysOwn
  <2> SUFFICES ASSUME ChainsInv PROVE ChainsAreTheKeysOwn
    OBVIOUS
  <2>1. MemoryOK(memory, recorded) /\ ShownOK
    BY DEF ChainsInv, MemoryInv
  <2>2. ASSUME NEW K, NEW t, TableOK(t, K, recorded), NEW i \in DOMAIN t
        PROVE  Follows(t[i], recorded)
    BY <2>2 DEF TableOK, RowsOf, RowOK
  <2>3. \A t \in {memory.ips, memory.processes} : \A i \in DOMAIN t : Follows(t[i], recorded)
    BY <2>1, <2>2 DEF MemoryOK
  <2>4. stage \in Routes \cup {"context"} => Last(shown) = Entry0
    BY <2>1 DEF ShownOK, EndsWith, Last
  <2> QED BY <2>1, <2>3, <2>4 DEF ChainsAreTheKeysOwn, ShownOK, Follows, Own, Later
<1> QED BY <1>1, ChainsInitInv, ChainsNextInv, PTL DEF BrainSpec

-----------------------------------------------------------------------------
(***************************************************************************)
(* The guardian's analyst. AnalystAccounting is inductive once the         *)
(* counters are known to be numbers.                                       *)
(***************************************************************************)
MetricsOK ==
  /\ DOMAIN metrics =
       {"decisions", "fallbacks", "errors", "failures", "requests", "prewarms"}
  /\ metrics.decisions \in Nat /\ metrics.fallbacks \in Nat /\ metrics.errors \in Nat
  /\ metrics.failures \in Nat /\ metrics.requests \in Nat /\ metrics.prewarms \in Nat
  /\ handled \in Nat /\ givenUp \in Nat

AnalystInv == MetricsOK /\ at \in {"start", "idle", "compressed"} /\ AnalystAccounting

LEMMA AnalystInitInv == AnalystInit => AnalystInv
BY DEF AnalystInit, AnalystInv, MetricsOK, AnalystAccounting, NoVerdict

(* Where the counters go, of the metrics.                                  *)
Now(m, e, d, f, p) ==
  /\ DOMAIN m = DOMAIN metrics
  /\ m.decisions = metrics.decisions + d /\ m.fallbacks = metrics.fallbacks + f
  /\ m.errors = metrics.errors + e /\ m.prewarms = metrics.prewarms + p
  /\ m.failures = metrics.failures + (IF settings.local THEN e + p ELSE 0)
  /\ m.requests \in Nat

LEMMA FailureCounts == MetricsOK => Now(Failure(metrics), 1, 0, 0, 0)
<1> SUFFICES ASSUME MetricsOK PROVE Now(Failure(metrics), 1, 0, 0, 0)
  OBVIOUS
<1>1. CASE settings.local
  BY <1>1 DEF Failure, Now, MetricsOK
<1>2. CASE ~settings.local
  BY <1>2 DEF Failure, Now, MetricsOK
<1> QED BY <1>1, <1>2

LEMMA AnsweredCounts == MetricsOK => Now(Answered(metrics), 0, 0, 0, 0)
BY DEF Answered, Now, MetricsOK

LEMMA FallbackCounts ==
  ASSUME MetricsOK, NEW m, NEW e \in 0..1, Now(m, e, 0, 0, 0)
  PROVE  Now(Fallback(m), e, 0, 1, 0)
BY DEF Fallback, Now, MetricsOK

(* A step that leaves the verdict alone.                                   *)
LEMMA VerdictStays ==
  ASSUME AnalystInv, UNCHANGED <<settings, verdictOf>>,
         at' \in {"start", "idle", "compressed"},
         NEW e \in 0..1, NEW p \in 0..1, NEW h \in 0..1, NEW g \in 0..1,
         Now(metrics', e, 0, 0, p), p = 1 => settings.local,
         handled' = handled + h, givenUp' = givenUp + g,
         h + (IF at = "compressed" THEN 1 ELSE 0) = g + (IF at' = "compressed" THEN 1 ELSE 0)
  PROVE  AnalystInv'
<1>1. MetricsOK'
  BY DEF AnalystInv, MetricsOK, Now
<1>2. metrics'.decisions + metrics'.fallbacks + givenUp'
        = IF at' = "compressed" THEN handled' - 1 ELSE handled'
  BY DEF AnalystInv, MetricsOK, AnalystAccounting, Now
<1>3. metrics'.failures
        = IF settings'.local THEN metrics'.errors + metrics'.prewarms ELSE 0
  BY DEF AnalystInv, MetricsOK, AnalystAccounting, Now
<1> QED BY <1>1, <1>2, <1>3 DEF AnalystInv, AnalystAccounting

(* A step that ends in a decision of the model or a fallback.              *)
SoundVerdict(d) ==
  /\ d.action \in Destructive => d.incident
  /\ \/ d.by = "guardian fallback"
     \/ d.by \in {"analyst", "safe_fallback"} /\ Called(TRUE)

LEMMA VerdictTaken ==
  ASSUME AnalystInv, NEW d, Concludes(d),
         NEW e \in 0..1, NEW k \in 0..1, NEW f \in 0..1, k + f = 1,
         Now(metrics', e, k, f, 0),
         SoundVerdict(d)
  PROVE  AnalystInv'
<1>1. /\ at = "compressed" /\ at' = "idle" /\ settings' = settings
      /\ handled' = handled /\ givenUp' = givenUp
  BY DEF Concludes
<1>2. MetricsOK'
  <2>1. MetricsOK
    BY DEF AnalystInv
  <2> QED BY <1>1, <2>1 DEF MetricsOK, Now
<1>3. metrics'.decisions + metrics'.fallbacks + givenUp' = handled'
  BY <1>1 DEF AnalystInv, MetricsOK, AnalystAccounting, Now
<1>4. metrics'.failures
        = IF settings'.local THEN metrics'.errors + metrics'.prewarms ELSE 0
  BY <1>1 DEF AnalystInv, MetricsOK, AnalystAccounting, Now
<1>5. verdictOf' = [d |-> d, id |-> handled, by |-> d.by, call |-> analystCall']
  BY DEF Concludes
<1>6. verdictOf'.by \in {"analyst", "safe_fallback"} =>
        verdictOf'.call = [of |-> verdictOf'.id, success |-> TRUE]
  BY <1>5 DEF Called, SoundVerdict
<1>7. verdictOf'.d.action \in Destructive => verdictOf'.d.incident
  BY <1>5 DEF SoundVerdict
<1> QED BY <1>1, <1>2, <1>3, <1>4, <1>5, <1>6, <1>7 DEF AnalystInv, AnalystAccounting

LEMMA AnalystNextInv ==
  AnalystInv /\ [AnalystNext]_<<analystVars, breaker>> => AnalystInv'
<1> SUFFICES ASSUME AnalystInv, [AnalystNext]_<<analystVars, breaker>> PROVE AnalystInv'
  OBVIOUS
<1>1. MetricsOK /\ handled \in Nat /\ givenUp \in Nat
  BY DEF AnalystInv, MetricsOK
<1>2. /\ metrics' = metrics => Now(metrics', 0, 0, 0, 0)
      /\ metrics' = Failure(metrics) => Now(metrics', 1, 0, 0, 0)
      /\ metrics' = Answered(metrics) => Now(metrics', 0, 0, 0, 0)
      /\ metrics' = Fallback(metrics) => Now(metrics', 0, 0, 1, 0)
      /\ metrics' = Fallback(Failure(metrics)) => Now(metrics', 1, 0, 1, 0)
      /\ metrics' = Fallback(Answered(metrics)) => Now(metrics', 0, 0, 1, 0)
  <2>1. Now(metrics, 0, 0, 0, 0)
    BY <1>1 DEF Now, MetricsOK
  <2> QED BY <1>1, <2>1, FailureCounts, AnsweredCounts, FallbackCounts
<1>3. CASE Prewarm
  <2>1. /\ at = "start" /\ at' = "idle" /\ UNCHANGED <<settings, verdictOf, handled, givenUp>>
        /\ \/ metrics' = metrics
           \/ metrics' = [metrics EXCEPT !.requests = @ + 1]
           \/ /\ settings.local
              /\ metrics' = [metrics EXCEPT !.failures = @ + 1, !.prewarms = @ + 1]
    BY <1>3 DEF Prewarm
  <2>2. \/ Now(metrics', 0, 0, 0, 0)
        \/ settings.local /\ Now(metrics', 0, 0, 0, 1)
    <3>1. CASE metrics' = metrics
      BY <1>2, <3>1
    <3>2. CASE metrics' = [metrics EXCEPT !.requests = @ + 1]
      BY <1>1, <3>2 DEF Now, MetricsOK
    <3>3. CASE /\ settings.local
               /\ metrics' = [metrics EXCEPT !.failures = @ + 1, !.prewarms = @ + 1]
      BY <1>1, <3>3 DEF Now, MetricsOK
    <3> QED BY <2>1, <3>1, <3>2, <3>3
  <2> QED BY <1>1, <2>1, <2>2, VerdictStays
<1>4. CASE CompressRaises
  BY <1>1, <1>2, <1>4, VerdictStays DEF CompressRaises
<1>5. CASE CompressRaw \/ CompressFails \/ CompressByModel
  <2>1. /\ at = "idle" /\ at' = "compressed" /\ handled' = handled + 1
        /\ UNCHANGED <<settings, verdictOf, givenUp>>
        /\ Now(metrics', 0, 0, 0, 0) \/ Now(metrics', 1, 0, 0, 0)
    BY <1>2, <1>5 DEF CompressRaw, CompressFails, CompressByModel, Compressed
  <2> QED BY <1>1, <2>1, VerdictStays
<1>6. CASE NoAnalyst \/ AnalystFails \/ AnswerRaises \/ AnswerUnusable
  <2>1. /\ Concludes(SafeLog)
        /\ Now(metrics', 0, 0, 1, 0) \/ Now(metrics', 1, 0, 1, 0)
    BY <1>2, <1>6 DEF NoAnalyst, AnalystFails, AnswerRaises, AnswerUnusable
  <2>2. SoundVerdict(SafeLog)
    BY DEF SafeLog, Destructive, SoundVerdict
  <2> QED BY <2>1, <2>2, VerdictTaken
<1>7. ASSUME NEW r \in AnalystReplies, AnalystDecides(r) PROVE AnalystInv'
  <2> DEFINE d == ValidateDecision(r, "analyst", settings.pydantic)
  <2>1. /\ Concludes(d) /\ Called(TRUE)
        /\ metrics' = [Answered(metrics) EXCEPT !.decisions = @ + 1]
    BY <1>7 DEF AnalystDecides
  <2>2. Now(metrics', 0, 1, 0, 0)
    BY <1>1, <2>1, AnsweredCounts DEF Now, MetricsOK
  <2>3. d.by \in {"analyst", "safe_fallback"}
    <3>1. Consistent(Read(r, "analyst", settings.pydantic)).by = "analyst"
      BY DEF Consistent, Read
    <3> QED BY <3>1 DEF ValidateDecision, SafeFallback
  <2>4. d.action \in Destructive => d.incident
    BY ValidatedIsConsistent
  <2>5. SoundVerdict(d)
    BY <2>1, <2>3, <2>4 DEF SoundVerdict
  <2> HIDE DEF d
  <2> QED BY <2>1, <2>2, <2>5, VerdictTaken
<1>8. CASE AnalystBreakerRecovers \/ UNCHANGED <<analystVars, breaker>>
  BY <1>8 DEF AnalystBreakerRecovers, analystVars, AnalystInv, MetricsOK, AnalystAccounting
<1> QED BY <1>3, <1>4, <1>5, <1>6, <1>7, <1>8 DEF AnalystNext

(* Every event the router takes on ends in one decision or one fallback,   *)
(* and a decision carries the call it was made in.                         *)
THEOREM AnalystAnswers == AnalystSpec => []AnalystAccounting
<1>1. AnalystInv => AnalystAccounting
  BY DEF AnalystInv
<1> QED BY <1>1, AnalystInitInv, AnalystNextInv, PTL DEF AnalystSpec

-----------------------------------------------------------------------------
(***************************************************************************)
(* What a guardian in production has seen and what it runs on, for any     *)
(* hardware, any number of set-ups, operators and starts, and wherever     *)
(* each of them dies. SealedUnlessReplaced is not inductive: what the      *)
(* guardian will have seen is decided earlier, by what the checksum file   *)
(* may hold; and what it parsed is in the file still while nobody has      *)
(* opened it since, for whoever closes it has torn it before. Disk and     *)
(* Parsed say that.                                                        *)
(***************************************************************************)
Disk ==
  /\ file \in {Absent, Torn} \cup Configurations
  /\ sum \in {Absent, Torn} \cup sealed
  /\ writes \in Nat
  /\ job.at = "config" => file = Torn

Parsed ==
  boot.at = "loaded" =>
    boot.since <= writes /\ (boot.since = writes => file = boot.config)

Jobs == {NoJob} \cup [at : {"config", "written", "checksum"}, config : Configurations]

Boots ==
  {NoBoot} \cup [at : {"loaded"}, config : Configurations, since : Nat]
           \cup [at : {"running"}, config : Configurations,
                 verified : Configurations \cup {Absent, Torn}, replaced : BOOLEAN]

SetupInv ==
  /\ Disk
  /\ job \in Jobs
  /\ boot \in Boots
  /\ Parsed
  /\ SealedUnlessReplaced

(* What operators edit was written by set-up or by an operator before.     *)
LEMMA Generates == ASSUME NEW hw \in Hardware, NEW pulled \in Pulls
                   PROVE  Generated(hw, pulled) \in Configurations
BY DEF Configurations, FromSetup

LEMMA GeneratedIsRecord ==
  ASSUME NEW c \in FromSetup
  PROVE  c = [tier |-> c.tier, local |-> c.local, useExtractor |-> c.useExtractor,
              analyst |-> c.analyst, extractor |-> c.extractor, safe |-> c.safe]
<1>1. PICK hw \in Hardware, pulled \in Pulls : c = Generated(hw, pulled)
  BY DEF FromSetup
<1> QED BY <1>1 DEF Generated

LEMMA EditedTwice == ASSUME NEW c \in FromSetup PROVE Edited(Edited(c)) = Edited(c)
BY GeneratedIsRecord DEF Edited

LEMMA TornIsNone == Torn \notin Configurations
<1>1. ASSUME NEW c \in FromSetup PROVE c # Torn /\ Edited(c) # Torn
  <2>1. "tier" \in DOMAIN c /\ "tier" \in DOMAIN Edited(c)
    <3>1. PICK hw \in Hardware, pulled \in Pulls : c = Generated(hw, pulled)
      BY DEF FromSetup
    <3> QED BY <3>1 DEF Generated, Edited
  <2>2. "tier" \notin DOMAIN Torn
    BY DEF Torn
  <2> QED BY <2>1, <2>2
<1> QED BY <1>1 DEF Configurations

LEMMA Edits == ASSUME NEW c \in Configurations PROVE Edited(c) \in Configurations
<1>1. CASE c \in FromSetup
  BY <1>1 DEF Configurations
<1>2. CASE c \in {Edited(d) : d \in FromSetup}
  <2>1. PICK d \in FromSetup : c = Edited(d)
    BY <1>2
  <2>2. Edited(c) = Edited(d)
    BY <2>1, EditedTwice
  <2> QED BY <2>1, <2>2 DEF Configurations
<1> QED BY <1>1, <1>2 DEF Configurations

LEMMA SetupInitInv == SetupInit => SetupInv
BY DEF SetupInit, SetupInv, Disk, Parsed, Jobs, Boots, SealedUnlessReplaced, NoBoot, NoJob

LEMMA OpensKeepsInv == ASSUME SetupInv, NEW c \in Configurations, OpensConfig(c)
                       PROVE  SetupInv'
<1>1. job' \in Jobs
  BY DEF OpensConfig, Jobs
<1>2. Disk'
  BY DEF OpensConfig, SetupInv, Disk
<1>3. Parsed'
  BY DEF OpensConfig, SetupInv, Disk, Parsed, Boots, NoBoot
<1> QED BY <1>1, <1>2, <1>3 DEF OpensConfig, SetupInv, SealedUnlessReplaced

(* The one step that matters: in production the checksum file was read,    *)
(* and held the checksum of the file; what it holds has been sealed, and is*)
(* what was parsed when the file is the same.                              *)
LEMMA VerifiesKeepsInv == ASSUME SetupInv, LoadVerifies PROVE SetupInv'
<1>1. Disk' /\ job' \in Jobs
  BY DEF LoadVerifies, diskVars, SetupInv, Disk
<1>2. boot \in [at : {"loaded"}, config : Configurations, since : Nat]
  BY DEF LoadVerifies, SetupInv, Boots, NoBoot
<1>3. CASE MayStart
  <2>1. boot' = [at |-> "running", config |-> boot.config, verified |-> file,
                 replaced |-> writes # boot.since]
    BY <1>3 DEF LoadVerifies
  <2>2. boot' \in Boots
    BY <1>2, <2>1 DEF SetupInv, Disk, Boots
  <2>3. ASSUME production PROVE file \in sealed
    <3>1. sum # Absent /\ sum = file /\ file # Torn
      BY <1>3, <2>3 DEF MayStart
    <3> QED BY <3>1 DEF SetupInv, Disk
  <2>4. writes = boot.since => file = boot.config
    BY <1>2 DEF SetupInv, Parsed
  <2>5. boot'.at = "running" /\ boot'.config = boot.config /\ boot'.verified = file
        /\ boot'.replaced = (writes # boot.since)
    BY <2>1
  <2>6. SealedUnlessReplaced' /\ Parsed'
    BY <1>2, <2>3, <2>4, <2>5 DEF SealedUnlessReplaced, Parsed, LoadVerifies
  <2> QED BY <1>1, <2>2, <2>6 DEF SetupInv
<1>4. CASE ~MayStart
  <2>1. boot' = NoBoot
    BY <1>4 DEF LoadVerifies
  <2> QED BY <1>1, <2>1 DEF SetupInv, SealedUnlessReplaced, Parsed, Boots, NoBoot
<1> QED BY <1>3, <1>4

LEMMA SetupNextInv == SetupInv /\ [SetupNext]_setupVars => SetupInv'
<1> SUFFICES ASSUME SetupInv, [SetupNext]_setupVars PROVE SetupInv'
  OBVIOUS
<1>1. CASE SetupRuns
  BY <1>1, Generates, OpensKeepsInv DEF SetupRuns
<1>2. CASE OperatorEdits
  BY <1>2, Edits, OpensKeepsInv DEF OperatorEdits
<1>3. CASE ClosesConfig
  <2>1. job \in [at : {"config", "written", "checksum"}, config : Configurations]
    BY <1>3 DEF ClosesConfig, SetupInv, Jobs, NoJob
  <2>2. job' \in Jobs /\ file' \in Configurations
    BY <1>3, <2>1 DEF ClosesConfig, Jobs
  <2>3. boot.at = "loaded" => boot.config \in Configurations
    BY DEF SetupInv, Boots, NoBoot
  <2>4. Parsed'
    BY <1>3, <2>3, TornIsNone DEF ClosesConfig, SetupInv, Disk, Parsed
  <2>5. Disk'
    BY <1>3, <2>2 DEF ClosesConfig, SetupInv, Disk
  <2> QED BY <1>3, <2>2, <2>4, <2>5 DEF ClosesConfig, SetupInv, SealedUnlessReplaced
<1>4. CASE OpensChecksum
  <2>1. job \in [at : {"config", "written", "checksum"}, config : Configurations]
    BY <1>4 DEF OpensChecksum, SetupInv, Jobs, NoJob
  <2>2. job' \in Jobs
    BY <1>4, <2>1 DEF OpensChecksum, Jobs
  <2> QED BY <1>4, <2>2 DEF OpensChecksum, SetupInv, Disk, Parsed, SealedUnlessReplaced
<1>5. CASE ClosesChecksum
  <2>1. Disk' /\ job' \in Jobs
    BY <1>5 DEF ClosesChecksum, SetupInv, Disk, Jobs, NoJob
  <2> QED BY <1>5, <2>1 DEF ClosesChecksum, SetupInv, Parsed, SealedUnlessReplaced
<1>6. CASE JobDies
  BY <1>6 DEF JobDies, SetupInv, Disk, Parsed, Jobs, NoJob, SealedUnlessReplaced
<1>7. CASE LoadReads
  <2>1. /\ boot' = [at |-> "loaded", config |-> file, since |-> writes]
        /\ file \in Configurations /\ writes \in Nat
        /\ UNCHANGED <<production, diskVars, job, sealed, writes>>
    BY <1>7 DEF LoadReads, SetupInv, Disk
  <2>2. boot' \in Boots /\ boot'.at = "loaded"
    BY <2>1 DEF Boots
  <2>3. Parsed' /\ SealedUnlessReplaced'
    BY <2>1 DEF Parsed, SealedUnlessReplaced, diskVars
  <2> QED BY <2>1, <2>2, <2>3 DEF diskVars, SetupInv, Disk
<1>8. CASE LoadVerifies
  BY <1>8, VerifiesKeepsInv
<1>9. CASE GuardianStops
  BY <1>9 DEF GuardianStops, diskVars, SetupInv, Disk, Parsed, Boots, NoBoot,
              SealedUnlessReplaced
<1>10. CASE UNCHANGED setupVars
  BY <1>10 DEF setupVars, SetupInv, Disk, Parsed, SealedUnlessReplaced
<1> QED BY <1>1, <1>2, <1>3, <1>4, <1>5, <1>6, <1>7, <1>8, <1>9, <1>10 DEF SetupNext

(* load_config: a guardian runs on a configuration that was written to its *)
(* end. In production it compared one that was sealed, and it runs on it   *)
(* unless the file was opened for writing between its two readings.        *)
THEOREM SealedBeforeStart == SetupSpec => []SealedUnlessReplaced
<1>1. SetupInv => SealedUnlessReplaced
  BY DEF SetupInv
<1> QED BY <1>1, SetupInitInv, SetupNextInv, PTL DEF SetupSpec
=============================================================================
