--------------------------- MODULE DecisionSchema ---------------------------
(***************************************************************************)
(* heimdall/schema.py: what validate_decision_dict makes of a model's      *)
(* answer, with pydantic and without it (setup.py does not install it).    *)
(***************************************************************************)
Destructive == {"KILL", "BLOCK", "QUARANTINE"}
ActionTypes == Destructive \cup {"ALERT", "LOG", "NONE"}
Severities == {"CRITICAL", "HIGH", "MEDIUM", "LOW", "INFO"}

(* Text in the field action_required: lower case, or no action at all.     *)
ActionTexts == ActionTypes \cup {"kill", "nuke"}

(* An answer in which "fields" says whether the other fields have types    *)
(* the model accepts and there is no field more.                           *)
Answers == [incident : BOOLEAN, severity : Severities \cup {"odd"},
            action : ActionTexts, target : STRING, confident : BOOLEAN, fields : BOOLEAN]

SafeFallback == [by |-> "safe_fallback", incident |-> TRUE, severity |-> "LOW",
                 action |-> "ALERT", target |-> "none", confident |-> FALSE]

(* dataclasses: letters are raised, an unknown severity is INFO.           *)
Raised(text) == IF text = "kill" THEN "KILL" ELSE text
Accepted(d, pydantic) ==
  /\ d.fields
  /\ IF pydantic
     THEN d.action \in ActionTypes /\ d.severity \in Severities
     ELSE Raised(d.action) \in ActionTypes
Read(d, by, pydantic) ==
  [by |-> by, incident |-> d.incident,
   severity |-> IF d.severity \in Severities THEN d.severity ELSE "INFO",
   action |-> IF pydantic THEN d.action ELSE Raised(d.action),
   target |-> d.target, confident |-> d.confident]

(* from_dict: without an incident nothing destructive is required.         *)
Consistent(d) ==
  IF ~d.incident /\ d.action \in Destructive THEN [d EXCEPT !.action = "ALERT"] ELSE d

ValidateDecision(d, by, pydantic) ==
  IF Accepted(d, pydantic) THEN Consistent(Read(d, by, pydantic)) ELSE SafeFallback
=============================================================================
