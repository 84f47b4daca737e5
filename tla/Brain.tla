------------------------------- MODULE Brain -------------------------------
(***************************************************************************)
(* heimdall/brain.py: process_event, with route_to_heimdall of the reasoner*)
(* and compress_event of the extractor in it. One thread processes events  *)
(* one after the other; what outlives an event is the memory, the breakers *)
(* and the counters.                                                       *)
(*                                                                         *)
(* A brain's configuration is one that setup.py generates, perhaps edited, *)
(* with the API keys of its environment (keys) and with pydantic or not:   *)
(* the reasoner cannot be imported without.                                *)
(***************************************************************************)
EXTENDS ChainMemory, Reasoner, Anonymizer, Providers

CONSTANTS
  BrainConfigs, \* [tier, local, useExtractor, analyst, safe, keys, pydantic]
  RawEvents,    \* what arrives
  Replies,      \* decisions a model may come to
  Histories,    \* what the actions table says of an attacker
  MaxRaw,       \* bound on the events of a behaviour
  MaxClock      \* bound on the time

ASSUME BrainAssumption ==
  /\ RawEvents \subseteq
       [id : {0}, valid : BOOLEAN, boundary : {"HOST", "HONEYPOT"}, breakout : BOOLEAN,
        odd : BOOLEAN, ip : STRING, internal : BOOLEAN, nth : Nat \ {0}, process : STRING,
        type : STRING, paths : SUBSET {"tmp", "shm", "account file"}, alert : STRING,
        fetches : BOOLEAN, session : BOOLEAN]
  /\ MaxRaw \in Nat /\ MaxClock \in Nat \ {0}
  /\ \A e \in RawEvents : e.internal => e.ip # "none"
  /\ Replies \subseteq
       [incident : BOOLEAN, severity : Severities \cup {"odd"}, action : ActionTexts,
        target : {"self", "labelled self", "low pid", "internal", "public", "none"},
        confidence : {"high", "low", "no number"}, text : BOOLEAN, typed : BOOLEAN]

VARIABLES
  brain,        \* configuration of the brain
  stage,        \* where process_event is
  event,        \* the event in work, as the extractor gave it
  context,      \* advanced context of its attacker
  memory, now,  \* heimdall/memory.py, and the clock
  shown,        \* the chain the models are shown
  raw,          \* what the reasoner came to, and who
  audit,        \* the last audit record
  tally,        \* event_count, decision_count, fallback_count, policy_block_count
  recorded      \* what was given to the memory: key and entry (history)

eventVars == <<event, context, shown, raw>>
brainVars == <<brain, stage, eventVars, memory, now, audit, tally, recorded>>

NoEvent == [id |-> 0]
NoRaw == [by |-> "nobody"]
NoAudit == [by |-> "nobody"]

BrainInit ==
  /\ brain \in BrainConfigs
  /\ stage = "idle" /\ event = NoEvent /\ context = NoContext
  /\ shown = <<>> /\ raw = NoRaw /\ audit = NoAudit
  /\ memory = EmptyMemory /\ now = 1 /\ recorded = <<>>
  /\ tally = [events |-> 0, decisions |-> 0, fallbacks |-> 0, blocks |-> 0, skipped |-> 0]

Restricted == UNCHANGED <<brain, now>>
External == ~(brain.local /\ brain.tier \in {1, 2})

(* anonymize_for_external_api: the address by which the memory and the     *)
(* models know the event. Tokens are numbered anew for every event.        *)
KnownAs(e) ==
  IF External /\ e.internal THEN <<"token", Token("address", e.nth)>>
  ELSE IF e.ip = "none" THEN NoKey ELSE <<"address", e.ip>>

(* compressed.get("process") or compressed.get("event_type").              *)
ProcessOf(e) ==
  IF e.process # "none" THEN <<"process", e.process>>
  ELSE IF e.type # "none" THEN <<"process", e.type>> ELSE NoKey

(* A model's target: the address of the event as the model knows it        *)
(* ("self"), the same with a label or a port ("labelled self": ip:10.0.0.1,*)
(* the form the prompt asks for), a pid:n with a protected n, another      *)
(* address, or what the gate reads as neither pid nor address.             *)

(* The gate sees the target as the model wrote it.                         *)
RestoredTargetBug(target) ==
  IF target \notin {"self", "labelled self"} THEN target
  ELSE IF event.ip = "none" THEN "none"
  ELSE IF target = "labelled self" THEN "labelled"
  ELSE IF External /\ event.internal THEN "token" ELSE "public"

(* What the decision's target is once it is read back. A label stays.      *)
RestoredTarget(target) ==
  IF target \notin {"self", "labelled self"} THEN target
  ELSE IF event.ip = "none" THEN "none"
  ELSE IF target = "labelled self" THEN "labelled"
  ELSE IF ~event.internal THEN "public"
  ELSE IF ~External \/ Deanonymized("address", event.nth) = "name" THEN "internal"
  ELSE "token"

(* Honeypot noise is not reasoned about, a breakout is.                    *)
Noise(e) == e.boundary = "HONEYPOT" /\ ~e.breakout

Receive(e) ==
  /\ stage = "idle" /\ tally.events < MaxRaw
  /\ tally' = [tally EXCEPT !.events = @ + 1,
                            !.skipped = IF ~e.valid \/ Noise(e) THEN @ + 1 ELSE @]
  /\ IF ~e.valid \/ Noise(e)
     THEN UNCHANGED <<stage, event>>
     ELSE stage' = "extract" /\ event' = [e EXCEPT !.id = tally.events + 1]
  /\ Restricted /\ UNCHANGED <<context, shown, raw, memory, audit, recorded, breaker>>

(* The fields that _extract keeps when the extractor raises.               *)
Bare(e) == [e EXCEPT !.ip = "none", !.internal = FALSE, !.process = "none",
                     !.paths = {}, !.alert = "none", !.fetches = FALSE]

Extracted(e) ==
  /\ stage' = "remember" /\ event' = e
  /\ Restricted /\ UNCHANGED <<context, shown, raw, memory, audit, tally, recorded>>

(* _extract: the model reads the event, or its fields are parsed. What the *)
(* model leaves out is filled in from the fields.                          *)
ExtractByModel ==
  /\ stage = "extract" /\ brain.useExtractor /\ brain.tier # 4
  /\ \/ AnswersAt("extractor")
     \/ NoAnswer("extractor")
  /\ Extracted(IF event.odd THEN Bare(event) ELSE event)

ExtractByFields ==
  /\ stage = "extract" /\ (~brain.useExtractor \/ brain.tier = 4)
  /\ Extracted(IF event.odd THEN Bare(event) ELSE event)
  /\ UNCHANGED breaker

Entry0 == [id |-> event.id, host |-> event.ip]
Remembered(m) == UpdateBuffer(m, Entry0, KnownAs(event), ProcessOf(event), now)

(* _update_memory, and update_event_buffer at the head of                  *)
(* route_to_heimdall: an event enters the memory twice. When the second one*)
(* raises, or the reasoner cannot be imported, _reason turns to the rules. *)
Remember ==
  /\ stage = "remember"
  /\ LET once == Remembered(memory)
         twice == Remembered(once)
         key == IF KnownAs(event) # NoKey THEN KnownAs(event) ELSE ProcessOf(event)
         record == [key |-> key, entry |-> Entry0]
         lost == KeyIsLost(twice, KnownAs(event), ProcessOf(event))
     IN IF brain.pydantic
        THEN /\ memory' = twice
             /\ recorded' = recorded \o <<record, record>>
             /\ stage' = IF lost THEN "rules" ELSE "context"
             /\ shown' = IF lost THEN <<>>
                         ELSE Chain(twice, KnownAs(event), ProcessOf(event))
             /\ tally' = IF lost THEN [tally EXCEPT !.fallbacks = @ + 1] ELSE tally
        ELSE /\ memory' = once
             /\ recorded' = Append(recorded, record)
             /\ stage' = "rules"
             /\ shown' = <<>>
             /\ tally' = [tally EXCEPT !.fallbacks = @ + 1]
  /\ Restricted /\ UNCHANGED <<event, context, raw, audit, breaker>>

(* _load_advanced_context: nothing without a session or fingerprint, or    *)
(* when the database fails.                                                *)
LoadContext ==
  /\ stage = "context"
  /\ context' \in {NoContext} \cup
       {Context(h) : h \in {g \in Histories : event.session}}
  /\ stage' = "ollama"
  /\ Restricted /\ UNCHANGED <<event, shown, raw, memory, audit, tally, recorded, breaker>>

(* A decision d of the model is overridden and brought into shape.         *)
Reasoned(d, by) ==
  \/ /\ OverrideRaises(d, context)
     /\ stage' = "rules" /\ tally' = [tally EXCEPT !.fallbacks = @ + 1]
     /\ UNCHANGED raw
  \/ /\ ~OverrideRaises(d, context) /\ NormalizeRaises(Overridden(d, context))
     /\ stage' = IF RuleApplies(event) THEN "decide" ELSE "rules"
     /\ raw' = IF RuleApplies(event)
               THEN [by |-> "rules", answer |-> Normalized(RulesDecision(event, "self"))]
               ELSE raw
     /\ UNCHANGED tally
  \/ /\ ~OverrideRaises(d, context) /\ ~NormalizeRaises(Overridden(d, context))
     /\ stage' = "decide"
     /\ raw' = [by |-> by, answer |-> Normalized(Overridden(d, context))]
     /\ UNCHANGED tally

Routed == Restricted /\ UNCHANGED <<event, context, shown, memory, audit, recorded>>

NextRoute(from) == CASE from = "ollama" -> "groq" [] from = "groq" -> "claude"
                     [] from = "claude" -> "rule engine"

Passes(route) ==
  /\ stage' = NextRoute(route)
  /\ UNCHANGED <<raw, tally>>
  /\ Routed

CanAsk(route) ==
  IF route = "ollama" THEN brain.local /\ brain.tier \in {1, 2} /\ brain.analyst # "none"
  ELSE route \in brain.keys

(* route_to_ollama, route_to_groq, route_to_claude: not asked; asked in    *)
(* vain, or answered with no JSON or an empty object; a JSON value that is *)
(* no object, which only ollama's parser sorts out, and which raises in the*)
(* overrides; a decision. The schema ollama is forced into has no field    *)
(* incident_detected.                                                      *)
NotAsked(route) ==
  stage = route /\ ~CanAsk(route) /\ Passes(route) /\ UNCHANGED breaker

AskedInVain(route) ==
  /\ stage = route /\ CanAsk(route)
  /\ \/ NoAnswer(route)
     \/ AnswersAt(route)
  /\ Passes(route)

NoObject(route) ==
  /\ stage = route /\ CanAsk(route) /\ route # "ollama"
  /\ AnswersAt(route)
  /\ stage' = "rules" /\ tally' = [tally EXCEPT !.fallbacks = @ + 1]
  /\ UNCHANGED raw /\ Routed

Decides(route, d) ==
  /\ stage = route /\ CanAsk(route)
  /\ AnswersAt(route)
  /\ Reasoned(IF route = "ollama" THEN [d EXCEPT !.incident = FALSE] ELSE d, route)
  /\ Routed

(* The floor of route_to_heimdall: the rules, overridden as well; None if  *)
(* none of them matches.                                                   *)
RuleEngine ==
  /\ stage = "rule engine"
  /\ IF RuleApplies(event)
     THEN /\ stage' = "decide"
          /\ raw' = [by |-> "rule engine",
                     answer |-> Normalized(Overridden(RulesDecision(event, "self"), context))]
     ELSE stage' = "rules" /\ UNCHANGED raw
  /\ UNCHANGED tally
  /\ Routed /\ UNCHANGED breaker

(* None of the rules: no answer.                                           *)
FallBackOnRulesBug ==
  /\ stage = "rules"
  /\ raw' = IF brain.pydantic /\ RuleApplies(event)
            THEN [by |-> "rules", answer |-> Normalized(RulesDecision(event, "self"))]
            ELSE NoRaw
  /\ tally' = [tally EXCEPT !.fallbacks = @ + 1]
  /\ stage' = IF brain.pydantic /\ RuleApplies(event) THEN "decide" ELSE "idle"
  /\ Routed /\ UNCHANGED breaker

(* _reason, when the reasoner raised or had no decision: the rules without *)
(* overrides, then the safe fallback. Both count as a fallback, and so did *)
(* the exception. Without pydantic there are no rules either.              *)
FallBackOnRules ==
  /\ stage = "rules"
  /\ raw' = IF brain.pydantic /\ RuleApplies(event)
            THEN [by |-> "rules", answer |-> Normalized(RulesDecision(event, "self"))]
            ELSE [by |-> "safe_fallback"]
  /\ tally' = [tally EXCEPT !.fallbacks = @ + 1]
  /\ stage' = "decide"
  /\ Routed /\ UNCHANGED breaker

(* The policy gate, to which the brain always says that the evidence is 2, *)
(* and hands a target with a dot in it as the address. _is_rfc1918 knows a *)
(* private address when it is the whole text; a labelled one is none to it.*)
GateAllows(d) ==
  \/ d.action \notin Destructive
  \/ /\ ~brain.safe /\ d.confident
     /\ ~(d.action = "KILL" /\ d.target = "low pid")
     /\ ~(d.action = "BLOCK" /\ d.target = "internal")

(* validate_decision_dict, _deanonymize, _apply_policy and the audit.      *)
Decide ==
  /\ stage = "decide"
  /\ LET d == IF raw.by = "safe_fallback" THEN SafeFallback
              ELSE ValidateDecision(raw.answer, raw.by, brain.pydantic)
         restored == [d EXCEPT !.target = RestoredTarget(@)]
         allowed == GateAllows(restored)
     IN /\ audit' = [by |-> d.by, id |-> event.id, severity |-> d.severity,
                     incident |-> d.incident, requested |-> d.action,
                     effective |-> IF allowed THEN d.action ELSE "ALERT",
                     target |-> restored.target, internal |-> event.internal,
                     nth |-> event.nth, named |-> d.target, of |-> context]
        /\ tally' = [tally EXCEPT !.decisions = @ + 1,
                                  !.blocks = IF allowed THEN @ ELSE @ + 1]
  /\ stage' = "idle"
  /\ event' = NoEvent /\ context' = NoContext /\ shown' = <<>> /\ raw' = NoRaw
  /\ Restricted /\ UNCHANGED <<memory, recorded, breaker>>

(* The clock moves between events, forwards, or backwards when it is set.  *)
ClockMoves ==
  /\ stage = "idle"
  /\ now' \in {now + 1, now - 1} \cap (1..MaxClock)
  /\ UNCHANGED <<brain, stage, eventVars, memory, audit, tally, recorded, breaker>>

BreakerRecovers ==
  /\ \E p \in ProviderNames : Recovers(p)
  /\ UNCHANGED brainVars

Routes == {"ollama", "groq", "claude"}

ProcessEvent ==
  \/ ExtractByModel \/ ExtractByFields \/ Remember \/ LoadContext
  \/ \E route \in Routes :
       \/ NotAsked(route) \/ AskedInVain(route) \/ NoObject(route)
       \/ \E d \in Replies : Decides(route, d)
  \/ RuleEngine \/ FallBackOnRules \/ Decide

BrainNext ==
  \/ \E e \in RawEvents : Receive(e)
  \/ ProcessEvent
  \/ ClockMoves \/ BreakerRecovers

BrainSpec == BrainInit /\ ProvidersInit /\ [][BrainNext]_<<brainVars, breaker>>
-----------------------------------------------------------------------------
Stages ==
  {"idle", "extract", "remember", "context", "rule engine", "rules", "decide"} \cup Routes

(* Every variable has its type: no chain and no table outgrows its limit,  *)
(* though an event is recorded twice.                                      *)
BrainTypeOK ==
  /\ brain \in BrainConfigs /\ stage \in Stages /\ now \in 1..MaxClock
  /\ \A t \in {memory.ips, memory.processes} : \A i \in DOMAIN t :
       Len(t[i].chain) \in 1..BufferSize /\ t[i].seen \in 1..MaxClock
  /\ Len(memory.ips) <= MaxIps /\ Len(memory.processes) <= MaxProcesses
  /\ Len(memory.all) <= 5 * BufferSize
  /\ \A p \in ProviderNames :
       breaker[p].failures \in 0..Threshold
         /\ (breaker[p].open => breaker[p].failures = Threshold)

(* Every event that is no noise is answered once, whatever fails; an answer*)
(* that came from no reasoner is counted as a fallback, at most twice an   *)
(* event.                                                                  *)
BrainCounters ==
  /\ stage = "idle" => tally.events = tally.decisions + tally.skipped
  /\ tally.blocks <= tally.decisions
  /\ tally.fallbacks <= 2 * (tally.decisions + 1)

(* What the memory tells of an address or a process are its latest events, *)
(* in their order and none of another key: each is followed in the chain by*)
(* as many as were recorded of the key after it. The chain the models are  *)
(* shown ends with the event in question; and while the event does not     *)
(* leave the machine, all of it is about one host. (Tokens are numbered    *)
(* anew for each event: on the external routes hosts share a chain.)       *)
ChainsAreTheKeysOwn ==
  /\ \A t \in {memory.ips, memory.processes} : \A i \in DOMAIN t :
       LET own == {k \in DOMAIN recorded : recorded[k].key = t[i].key} IN
         \A c \in DOMAIN t[i].chain : \E k \in own :
           /\ recorded[k].entry = t[i].chain[c]
           /\ Cardinality({j \in own : j > k}) = Len(t[i].chain) - c
  /\ stage \in Routes \cup {"context"} =>
       /\ Last(shown) = Entry0
       /\ ~External /\ event.ip # "none" =>
            \A k \in DOMAIN shown : shown[k].host = event.ip

(* What the history of an attacker demands holds whoever answers, a model  *)
(* or the rule engine, unless it says that there is no incident; and       *)
(* nothing destructive is required without one.                            *)
OverridesHold ==
  audit.by # "nobody" =>
    /\ audit.by \in Routes \cup {"rule engine"} /\ audit.incident /\ Overrides(audit.of) =>
         /\ audit.requested = Enforced(audit.of).action
         /\ audit.severity = Enforced(audit.of).severity
    /\ audit.requested \in Destructive => audit.incident

(* A private host that a decision names is blocked in two cases only,      *)
(* though the models know it by a token: when they put a label to it, so   *)
(* that the gate reads no address; or when it is the 28th of its event,    *)
(* whose token is a backslash, which JSON does not survive. Any other token*)
(* is resolved before the gate looks.                                      *)
InternalHostsAreBlockedByLabel ==
  /\ audit.by # "nobody" /\ audit.effective = "BLOCK" /\ audit.internal
  /\ audit.named \in {"self", "labelled self"}
  => audit.named = "labelled self" \/ Token("address", audit.nth) = <<Backslash>>
=============================================================================
