---------------------------- MODULE MCReasoning ----------------------------
(***************************************************************************)
(* Set-up, the guardian's analyst and the brain on small instances. At run *)
(* time they share nothing but the configuration: each behaviour has one   *)
(* of them at work, and the configurations of the other two are ones that  *)
(* setup.py generates.                                                     *)
(***************************************************************************)
EXTENDS Setup, Brain, Analyst

Big == [ollama |-> TRUE, vram |-> 24, ram |-> 64]
Small == [ollama |-> TRUE, vram |-> 0, ram |-> 8]
Bare0 == [ollama |-> FALSE, vram |-> 6, ram |-> 16]
MCHardware == {Big, Small, Bare0}

AllModels == {"1.5b", "7b", "32b"}

BrainConfig(c, keys, pydantic) ==
  [tier |-> c.tier, local |-> c.local, useExtractor |-> c.useExtractor,
   analyst |-> c.analyst, safe |-> c.safe, keys |-> keys, pydantic |-> pydantic]
MCBrainConfigs ==
  { BrainConfig(Edited(Generated(Big, AllModels)), {"groq"}, TRUE),
    BrainConfig(Edited(Generated(Bare0, {})), {"groq", "claude"}, TRUE),
    BrainConfig(Generated(Small, AllModels), {}, TRUE),
    BrainConfig(Edited(Generated(Big, {"1.5b"})), {"claude"}, FALSE) }

AnalystConfig(c, clientReady, pydantic) ==
  [local |-> c.local, analyst |-> c.analyst, extractor |-> c.extractor,
   clientReady |-> clientReady, pydantic |-> pydantic]
(* The last one is written by hand: the analyst's model is left empty.     *)
MCAnalystConfigs ==
  {AnalystConfig(Generated(hw, pulled), ready, pydantic) :
     hw \in MCHardware, pulled \in {{}, {"32b"}, AllModels},
     ready \in BOOLEAN, pydantic \in BOOLEAN}
  \cup {[local |-> TRUE, analyst |-> "none", extractor |-> "1.5b",
         clientReady |-> FALSE, pydantic |-> FALSE]}

Plain ==
  [id |-> 0, valid |-> TRUE, boundary |-> "HOST", breakout |-> FALSE, odd |-> FALSE,
   ip |-> "none", internal |-> FALSE, nth |-> 1, process |-> "sh", type |-> "auditd",
   paths |-> {}, alert |-> "none", fetches |-> FALSE, session |-> FALSE]
MCRawEvents ==
  { [Plain EXCEPT !.paths = {"tmp", "shm"}, !.odd = TRUE],
    [Plain EXCEPT !.valid = FALSE],
    [Plain EXCEPT !.boundary = "HONEYPOT", !.ip = "9.9.9.9"],
    [Plain EXCEPT !.boundary = "HONEYPOT", !.breakout = TRUE, !.ip = "10.0.0.1",
                  !.internal = TRUE, !.alert = "honeypot_to_host_connection"],
    [Plain EXCEPT !.ip = "10.0.0.2", !.internal = TRUE, !.session = TRUE, !.nth = 28],
    [Plain EXCEPT !.ip = "9.9.9.9", !.session = TRUE],
    [Plain EXCEPT !.paths = {"shm"}, !.process = "cron"] }

Reply(incident, action, confidence, text, typed) ==
  [incident |-> incident, severity |-> "HIGH", action |-> action, target |-> "self",
   confidence |-> confidence, text |-> text, typed |-> typed]
MCReplies ==
  { Reply(TRUE, "BLOCK", "high", TRUE, TRUE),
    Reply(FALSE, "KILL", "high", TRUE, TRUE),
    Reply(TRUE, "nuke", "no number", TRUE, TRUE),
    Reply(TRUE, "LOG", "low", FALSE, TRUE),
    Reply(TRUE, "ALERT", "high", TRUE, TRUE),
    Reply(TRUE, "BLOCK", "high", TRUE, FALSE),
    [Reply(TRUE, "BLOCK", "high", TRUE, TRUE) EXCEPT !.target = "labelled self"] }

MCHistories ==
  { [actions |-> <<"scan">>, addresses |-> {"9.9.9.9"}],
    [actions |-> <<"scan", "unknown">>, addresses |-> {}],
    [actions |-> <<"scan", "pivot", "exec">>, addresses |-> {"9.9.9.9"}],
    [actions |-> <<"scan", "", "", "scan", "exec">>, addresses |-> {"9.9.9.9", "8.8.8.8"}] }

MCAnalystReplies ==
  {[incident |-> i, severity |-> s, action |-> a, target |-> "none", confident |-> TRUE,
    fields |-> f] :
     i \in BOOLEAN, s \in {"HIGH", "odd"}, a \in {"BLOCK", "kill", "nuke"}, f \in BOOLEAN}

MCProviders ==
  {"extractor", "ollama", "groq", "claude", "guardian_extractor", "guardian_analyst"}

(* The names of one event come back from the models: up to nine users and  *)
(* 27 private addresses. The tenth user's token begins with the first's.   *)
ASSUME NamesComeBack ==
  /\ \A n \in 1..27 : Deanonymized("address", n) = "name"
  /\ \A n \in 1..9 : Deanonymized("user", n) = "name"
  /\ \A n \in 10..12 : Deanonymized("user", n) = "another"

VARIABLE part   \* the one that is at work

reasoningVars == <<part, setupVars, brainVars, analystVars, breaker>>

Init ==
  /\ part \in {"setup", "brain", "analyst"}
  /\ SetupInit /\ BrainInit /\ AnalystInit /\ ProvidersInit
  /\ part # "setup" => production
  /\ part # "brain" => brain = CHOOSE c \in BrainConfigs : TRUE
  /\ part # "analyst" => settings = CHOOSE c \in AnalystConfigs : TRUE

Next ==
  \/ part = "setup" /\ SetupNext /\ UNCHANGED <<part, brainVars, analystVars, breaker>>
  \/ part = "brain" /\ BrainNext /\ UNCHANGED <<part, setupVars, analystVars>>
  \/ part = "analyst" /\ AnalystNext /\ UNCHANGED <<part, setupVars, brainVars>>

Spec == Init /\ [][Next]_reasoningVars
=============================================================================
