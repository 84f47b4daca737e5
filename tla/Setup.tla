------------------------------- MODULE Setup -------------------------------
(***************************************************************************)
(* setup.py writes heimdall_config.json and beside it the checksum of what *)
(* it wrote; load_config of the guardian reads the one and compares it with*)
(* the other. Setup may be run again, may die between two writes, and may  *)
(* run while a guardian starts; an operator edits the file to leave the    *)
(* learning mode and seals it with a new checksum.                         *)
(*                                                                         *)
(* A file is absent, torn (opened for writing and not closed yet), or holds*)
(* a configuration. A configuration stands for its SHA-256.                *)
(***************************************************************************)
EXTENDS Integers, FiniteSets

CONSTANTS
  Hardware,     \* what the audit may find: [ollama, vram, ram] in GB
  MaxWrites     \* bound on the configurations that are ever written

ASSUME SetupAssumption ==
  /\ Hardware \subseteq [ollama : BOOLEAN, vram : Nat, ram : Nat]
  /\ MaxWrites \in Nat

(* get_system_hardware.                                                    *)
Tier(hw) ==
  IF ~hw.ollama THEN 4
  ELSE IF hw.vram >= 12 \/ (hw.ram >= 32 /\ hw.vram > 0) THEN 1
  ELSE IF hw.ram >= 16 \/ hw.vram >= 6 THEN 2
  ELSE IF hw.ram >= 8 THEN 3 ELSE 4

(* TIER_MODELS: the third tier's analyst is the extractor's model.         *)
TierModel == <<"32b", "7b", "1.5b", "none">>

(* main: the models that can be pulled are kept; without its own analyst   *)
(* the machine is of the fourth tier.                                      *)
Generated(hw, pulled) ==
  LET tier == Tier(hw)
      extractor == IF tier # 4 /\ hw.ollama /\ "1.5b" \in pulled THEN "1.5b" ELSE "none"
      wanted == TierModel[tier]
      lost == hw.ollama /\ wanted \notin {"none", extractor} /\ wanted \notin pulled
      analyst == IF lost THEN "none" ELSE wanted
  IN [tier |-> IF lost THEN 4 ELSE tier,
      local |-> hw.ollama /\ analyst # "none",
      useExtractor |-> hw.ollama /\ extractor # "none",
      analyst |-> analyst, extractor |-> extractor, safe |-> TRUE]

(* The operator turns learning_mode and dry_run off and                    *)
(* autonomous_actions_enabled on.                                          *)
Edited(c) == [c EXCEPT !.safe = FALSE]

Pulls == SUBSET {"1.5b", "7b", "32b"}
FromSetup == {Generated(hw, pulled) : hw \in Hardware, pulled \in Pulls}
Configurations == FromSetup \cup {Edited(c) : c \in FromSetup}

Absent == [is |-> "absent"]
Torn == [is |-> "torn"]

VARIABLES
  production,   \* HEIMDALL_ENV
  file, sum,    \* heimdall_config.json and its .sha256
  job,          \* where a running setup or operator is, and what it writes
  boot,         \* where load_config is, or the guardian runs, and with what;
                \* since, replaced: was the file written meanwhile? (history)
  sealed,       \* configurations whose checksum was once written (history)
  writes        \* configurations written so far

setupVars == <<production, file, sum, job, boot, sealed, writes>>
diskVars == <<file, sum>>

NoJob == [at |-> "none"]
NoBoot == [at |-> "down"]

SetupInit ==
  /\ production \in BOOLEAN
  /\ file = Absent /\ sum = Absent
  /\ job = NoJob /\ boot = NoBoot
  /\ sealed = {} /\ writes = 0

(* Somebody opens the file for writing: setup, or the operator's editor.   *)
OpensConfig(c) ==
  /\ job = NoJob /\ writes < MaxWrites
  /\ file' = Torn
  /\ job' = [at |-> "config", config |-> c]
  /\ writes' = writes + 1
  /\ UNCHANGED <<production, sum, boot, sealed>>

SetupRuns == \E hw \in Hardware, pulled \in Pulls : OpensConfig(Generated(hw, pulled))

OperatorEdits == file \in Configurations /\ OpensConfig(Edited(file))

ClosesConfig ==
  /\ job.at = "config"
  /\ file' = job.config
  /\ job' = [job EXCEPT !.at = "written"]
  /\ UNCHANGED <<production, sum, boot, sealed, writes>>

OpensChecksum ==
  /\ job.at = "written"
  /\ sum' = Torn
  /\ job' = [job EXCEPT !.at = "checksum"]
  /\ UNCHANGED <<production, file, boot, sealed, writes>>

ClosesChecksum ==
  /\ job.at = "checksum"
  /\ sum' = job.config
  /\ sealed' = sealed \cup {job.config}
  /\ job' = NoJob
  /\ UNCHANGED <<production, file, boot, writes>>

(* It dies, or the operator forgets the checksum.                          *)
JobDies ==
  /\ job # NoJob
  /\ job' = NoJob
  /\ UNCHANGED <<production, file, sum, boot, sealed, writes>>

(* load_config: the file is read and parsed...                             *)
LoadReads ==
  /\ boot = NoBoot /\ file \in Configurations
  /\ boot' = [at |-> "loaded", config |-> file, since |-> writes]
  /\ UNCHANGED <<production, diskVars, job, sealed, writes>>

(* ... and its bytes are read a second time for the comparison, which a    *)
(* missing checksum spares a guardian that is not in production. What was  *)
(* parsed is what the guardian runs on, whatever the second reading found. *)
MayStartBug == sum = Absent \/ (sum = file /\ file # Torn)
MayStart == IF sum = Absent THEN ~production ELSE sum = file /\ file # Torn

LoadVerifies ==
  /\ boot.at = "loaded"
  /\ boot' = IF MayStart
             THEN [at |-> "running", config |-> boot.config, verified |-> file,
                   replaced |-> writes # boot.since]
             ELSE NoBoot
  /\ UNCHANGED <<production, diskVars, job, sealed, writes>>

GuardianStops ==
  /\ boot.at = "running"
  /\ boot' = NoBoot
  /\ UNCHANGED <<production, diskVars, job, sealed, writes>>

SetupNext ==
  \/ SetupRuns \/ OperatorEdits \/ ClosesConfig \/ OpensChecksum \/ ClosesChecksum
  \/ JobDies
  \/ LoadReads \/ LoadVerifies \/ GuardianStops

SetupSpec == SetupInit /\ [][SetupNext]_setupVars
-----------------------------------------------------------------------------
(* A guardian runs only on a configuration that was written to its end. In *)
(* production it has seen one that was sealed, and it runs on that one,    *)
(* unless the file was opened for writing between the two readings: then it*)
(* may run on one that nobody ever sealed. It holds whatever setups and    *)
(* operators do and wherever they die.                                     *)
SealedUnlessReplaced ==
  boot.at = "running" =>
    /\ boot.config \in Configurations
    /\ production => /\ boot.verified \in sealed
                     /\ boot.config \in sealed \/ boot.replaced
=============================================================================
