------------------------------ MODULE Analyst ------------------------------
(***************************************************************************)
(* The guardian's own way to a decision: compress_event, route_to_heimdall *)
(* and _reason_event of its router thread, the METRICS they keep, and what *)
(* they remember of their last calls, which travels with the next decision.*)
(***************************************************************************)
EXTENDS Providers, DecisionSchema

CONSTANTS
  AnalystConfigs, \* [local, analyst, extractor, client, clientReady, pydantic]
  AnalystReplies, \* decisions of the model, complete
  MaxHandled      \* bound on the events of a behaviour

ASSUME AnalystAssumption == AnalystReplies \subseteq Answers

VARIABLES
  settings,       \* the router's configuration, and what its setup achieved
  at,             \* where the router is
  metrics,        \* decisions_made, fallbacks, llm_errors, ollama_...
  extractorCall, analystCall,  \* _last_extractor_call_meta, _last_analyst_call_meta
  verdictOf,      \* the last decision, with its model_calls
  handled,        \* events taken on
  givenUp         \* events lost in compress_event

callVars == <<extractorCall, analystCall>>
analystVars == <<settings, at, metrics, callVars, verdictOf, handled, givenUp>>

NoCall == [of |-> 0, success |-> FALSE]
NoVerdict == [by |-> "nobody"]

AnalystInit ==
  /\ settings \in AnalystConfigs
  /\ at = "start"
  /\ metrics = [decisions |-> 0, fallbacks |-> 0, errors |-> 0, failures |-> 0,
                requests |-> 0, prewarms |-> 0]
  /\ extractorCall = NoCall /\ analystCall = NoCall
  /\ verdictOf = NoVerdict /\ handled = 0 /\ givenUp = 0

(* setup_inference_clients sets the models before it builds the client, the*)
(* extractor's after it: when the client cannot be built (no openai        *)
(* package), extractor_model does not exist.                               *)
NamesExist == settings.local \/ settings.clientReady

HasExtractor == settings.local /\ settings.extractor # "none"
HasAnalyst == IF settings.local THEN settings.analyst # "none" ELSE settings.clientReady

(* prewarm_ollama, before the threads start; it has no breaker.            *)
Prewarm ==
  /\ at = "start"
  /\ at' = "idle"
  /\ \/ /\ settings.local /\ settings.analyst # "none"
        /\ \/ metrics' = [metrics EXCEPT !.requests = @ + 1]
           \/ metrics' = [metrics EXCEPT !.failures = @ + 1, !.prewarms = @ + 1]
     \/ /\ ~(settings.local /\ settings.analyst # "none")
        /\ UNCHANGED metrics
  /\ UNCHANGED <<settings, callVars, verdictOf, handled, givenUp, breaker>>

Failure(m) ==
  [m EXCEPT !.errors = @ + 1, !.failures = IF settings.local THEN @ + 1 ELSE @]
Answered(m) == [m EXCEPT !.requests = IF settings.local THEN @ + 1 ELSE @]

(* compress_event. Without an extractor the raw event is passed on; where  *)
(* the attribute is missing it raises, and the router gives the event up.  *)
CompressRaises ==
  /\ at = "idle" /\ handled < MaxHandled /\ ~NamesExist
  /\ handled' = handled + 1 /\ givenUp' = givenUp + 1
  /\ UNCHANGED <<settings, at, metrics, callVars, verdictOf, breaker>>

Compressed(success) ==
  /\ at = "idle" /\ handled < MaxHandled /\ NamesExist
  /\ handled' = handled + 1
  /\ extractorCall' = [of |-> handled', success |-> success]
  /\ at' = "compressed"
  /\ UNCHANGED <<settings, analystCall, verdictOf, givenUp>>

CompressRaw ==
  /\ ~HasExtractor /\ Compressed(FALSE)
  /\ UNCHANGED <<metrics, breaker>>

CompressFails ==
  /\ HasExtractor /\ Compressed(FALSE)
  /\ NoAnswer("guardian_extractor")
  /\ metrics' = Failure(metrics)

CompressByModel ==
  /\ HasExtractor /\ Compressed(TRUE)
  /\ AnswersAt("guardian_extractor")
  /\ metrics' = Answered(metrics)

(* _reason_event puts the two calls into the decision, whichever event they*)
(* were made for.                                                          *)
Concludes(d) ==
  /\ at = "compressed" /\ at' = "idle"
  /\ verdictOf' = [d |-> d, id |-> handled, by |-> d.by, call |-> analystCall']
  /\ UNCHANGED <<settings, extractorCall, handled, givenUp>>

SafeLog == [by |-> "guardian fallback", incident |-> FALSE, severity |-> "LOW",
            action |-> "LOG", target |-> "none", confident |-> FALSE]
Fallback(m) == [m EXCEPT !.fallbacks = @ + 1]

Called(success) == analystCall' = [of |-> handled, success |-> success]

(* route_to_heimdall: there is nobody to ask.                              *)
NoAnalyst ==
  /\ ~HasAnalyst /\ Called(FALSE)
  /\ Concludes(SafeLog)
  /\ metrics' = Fallback(metrics) /\ UNCHANGED breaker

(* The breaker is open, or all attempts fail.                              *)
AnalystFails ==
  /\ HasAnalyst /\ NoAnswer("guardian_analyst") /\ Called(FALSE)
  /\ Concludes(SafeLog)
  /\ metrics' = Fallback(Failure(metrics))

(* An answer whose shape raises, as a cloud answer without choices.        *)
AnswerRaises ==
  /\ HasAnalyst /\ ~settings.local
  /\ AnswersAt("guardian_analyst") /\ Called(FALSE)
  /\ Concludes(SafeLog)
  /\ metrics' = Fallback(Failure(metrics))

(* An answer that is no JSON object, or without a field that is required.  *)
(* It is no error of the model to the metrics, and it is not remembered.   *)
AnswerUnusable ==
  /\ HasAnalyst /\ AnswersAt("guardian_analyst") /\ UNCHANGED analystCall
  /\ Concludes(SafeLog)
  /\ metrics' = Fallback(Answered(metrics))

(* The call a decision was made in is not remembered.                      *)
AnalystDecidesBug(d) ==
  /\ HasAnalyst /\ AnswersAt("guardian_analyst") /\ UNCHANGED analystCall
  /\ Concludes(ValidateDecision(d, "analyst", settings.pydantic))
  /\ metrics' = [Answered(metrics) EXCEPT !.decisions = @ + 1]

(* A decision, validated: one the schema rejects is replaced by its safe   *)
(* fallback and counts as a decision of the model.                         *)
AnalystDecides(d) ==
  /\ HasAnalyst /\ AnswersAt("guardian_analyst") /\ Called(TRUE)
  /\ Concludes(ValidateDecision(d, "analyst", settings.pydantic))
  /\ metrics' = [Answered(metrics) EXCEPT !.decisions = @ + 1]

AnalystBreakerRecovers ==
  /\ \E p \in ProviderNames : Recovers(p)
  /\ UNCHANGED analystVars

AnalystNext ==
  \/ Prewarm
  \/ CompressRaises \/ CompressRaw \/ CompressFails \/ CompressByModel
  \/ NoAnalyst \/ AnalystFails \/ AnswerRaises \/ AnswerUnusable
  \/ \E d \in AnalystReplies : AnalystDecides(d)
  \/ AnalystBreakerRecovers

AnalystSpec ==
  AnalystInit /\ ProvidersInit /\ [][AnalystNext]_<<analystVars, breaker>>
-----------------------------------------------------------------------------
(* Every event the router takes on ends in one decision or one fallback,   *)
(* unless it was given up before; every failed call of a local model, and  *)
(* no other, is a failure of ollama; and a decision a model has made is    *)
(* accompanied by the call it was made in, though calls are remembered     *)
(* from event to event.                                                    *)
AnalystAccounting ==
  /\ metrics.decisions + metrics.fallbacks + givenUp
       = IF at = "compressed" THEN handled - 1 ELSE handled
  /\ metrics.failures = IF settings.local THEN metrics.errors + metrics.prewarms ELSE 0
  /\ verdictOf.by \in {"analyst", "safe_fallback"} =>
       verdictOf.call = [of |-> verdictOf.id, success |-> TRUE]
  /\ verdictOf.by # "nobody" /\ verdictOf.d.action \in Destructive => verdictOf.d.incident
=============================================================================
