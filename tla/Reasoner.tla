------------------------------ MODULE Reasoner ------------------------------
(***************************************************************************)
(* bifrost/reasoner.py: the rules, the context of the attacker and what it *)
(* overrides, and the shape every answer is brought into.                  *)
(***************************************************************************)
EXTENDS FiniteSets, SequencesExt, DecisionSchema

CONSTANT HistoryLimit   \* rows of a session that are read: 4

(* A compressed event is told apart by where its path leads, its alert     *)
(* signal, whether its command fetches something, its source and boundary. *)
Rule(when, severity, action, confident) ==
  [when |-> when, severity |-> severity, action |-> action, confident |-> confident]
DeterministicRules(e) ==
  << Rule("tmp" \in e.paths, "HIGH", "ALERT", TRUE),
     Rule("shm" \in e.paths, "CRITICAL", "KILL", TRUE),
     Rule(e.alert = "True" /\ e.type = "process.watcher", "HIGH", "ALERT", FALSE),
     Rule(e.alert = "honeypot_to_host_connection", "CRITICAL", "BLOCK", TRUE),
     Rule("account file" \in e.paths, "CRITICAL", "ALERT", TRUE),
     Rule(e.fetches /\ e.boundary = "HOST", "MEDIUM", "ALERT", FALSE) >>

RuleApplies(e) == \E i \in 1..6 : DeterministicRules(e)[i].when

(* apply_deterministic_rules: the first rule that matches decides.         *)
RulesDecision(e, target) ==
  LET rules == DeterministicRules(e)
      first == CHOOSE i \in 1..6 : rules[i].when /\ \A j \in 1..(i - 1) : ~rules[j].when
  IN [incident |-> TRUE, severity |-> rules[first].severity, action |-> rules[first].action,
      target |-> target, confidence |-> IF rules[first].confident THEN "high" ELSE "low",
      text |-> TRUE, typed |-> TRUE]

(* get_advanced_attacker_context, of a session's latest actions (the       *)
(* threat class of each, "unknown" where the decision is not readable) and *)
(* of the addresses one SSH client has come from in two hours.             *)
NoContext == [tactics |-> {}, hops |-> FALSE]
Context(history) ==
  [tactics |-> {history.actions[i] : i \in {k \in DOMAIN history.actions : k <= HistoryLimit}}
                 \ {""},
   hops |-> Cardinality(history.addresses) > 1]

Overrides(context) == context.hops \/ Cardinality(context.tactics) >= 2

(* enforce_advanced_defense_logic, where it overrides.                     *)
Enforced(context) ==
  IF context.hops THEN [severity |-> "CRITICAL", action |-> "BLOCK"]
  ELSE IF Cardinality(context.tactics) >= 3 THEN [severity |-> "CRITICAL", action |-> "KILL"]
  ELSE [severity |-> "HIGH", action |-> "BLOCK"]

(* _apply_advanced_overrides.                                              *)
OverriddenBug(d, context) ==
  IF context.hops
  THEN [d EXCEPT !.severity = "CRITICAL", !.action = "BLOCK"] ELSE d
Overridden(d, context) ==
  IF Overrides(context)
  THEN [d EXCEPT !.severity = Enforced(context).severity, !.action = Enforced(context).action]
  ELSE d

(* It takes the reasoning for text when it changes something: outside the  *)
(* try of route_to_heimdall.                                               *)
OverrideRaises(d, context) == ~d.text /\ Overridden(d, context) # d

(* validate_and_normalize, and when it raises: a confidence that is no     *)
(* number, a reasoning that is no text.                                    *)
NormalizeRaises(d) == d.confidence = "no number" \/ ~d.text
Normalized(d) ==
  [incident |-> d.incident,
   severity |-> IF d.severity = "odd" THEN "LOW" ELSE d.severity,
   action |-> IF d.action \in ActionTypes THEN d.action ELSE "LOG",
   target |-> d.target, confident |-> d.confidence = "high", fields |-> d.typed]
=============================================================================
