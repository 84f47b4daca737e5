---------------------------- MODULE MCEnforcement ----------------------------
(***************************************************************************)
(* Small instances of Enforcement. The decisions hold one of each kind the *)
(* gates and guards tell apart; the configurations a host in safe mode and *)
(* hosts that act.                                                         *)
(***************************************************************************)
EXTENDS Enforcement

CONSTANTS e1, e2, o1, o2     \* events and operators, as model values

Target(form, id, class) == [form |-> form, id |-> id, class |-> class]
Decide1(action, target, confidence, rawPid) ==
  [action |-> action, target |-> target, confidence |-> confidence, rawPid |-> rawPid]

PublicIP == Target("ip4", 1, "public")

(* Decisions that differ for the gates only.                               *)
GateDecisions ==
  { Decide1("KILL", Target("pid", 150, "plain"), 90, 9000),
    Decide1("KILL", Target("pid", 300, "plain"), 90, None),
    Decide1("KILL", Target("pidSigned", 150, "plain"), 90, None),
    Decide1("KILL", Target("pidSigned", 300, "plain"), 90, 120),
    Decide1("KILL", Target("pidColon", 300, "plain"), 90, None),
    Decide1("KILL", Target("path", 1, "protectedName"), 90, 9000),
    Decide1("KILL", Target("text", 0, "plain"), 90, None),
    Decide1("BLOCK", Target("ip4", 2, "private"), 90, None),
    Decide1("BLOCK", Target("ip4", 3, "reserved"), 90, None),
    Decide1("BLOCK", Target("ip6", 4, "private"), 90, None),
    Decide1("BLOCK", PublicIP, 85, None),
    Decide1("BLOCK", PublicIP, 84, None),
    Decide1("BLOCK", Target("empty", 0, "plain"), 90, None),
    Decide1("QUARANTINE", Target("path", 5, "plain"), 90, None),
    Decide1("ALERT", PublicIP, 90, None) }

(* Decisions whose effects and rollbacks meet.                             *)
RollbackDecisions ==
  { Decide1("KILL", Target("pid", 300, "plain"), 90, None),
    Decide1("BLOCK", PublicIP, 90, None),
    Decide1("QUARANTINE", Target("path", 5, "plain"), 90, None),
    Decide1("QUARANTINE", Target("path", 6, "escaped"), 90, None) }

Acting ==
  [learning |-> FALSE, dryRun |-> FALSE, autonomous |-> TRUE, threshold |-> 85,
   minEvidence |-> 2, neverBlockPrivate |-> TRUE, protectedMax |-> 200, minPid |-> 100,
   allowPrivate |-> FALSE, faults |-> {}]

GateConfigs ==
  LET perturbed ==
        { Acting, [Acting EXCEPT !.learning = TRUE], [Acting EXCEPT !.dryRun = TRUE],
          [Acting EXCEPT !.autonomous = FALSE], [Acting EXCEPT !.minEvidence = 3],
          [Acting EXCEPT !.protectedMax = 100, !.minPid = 200],
          [Acting EXCEPT !.neverBlockPrivate = FALSE],
          [Acting EXCEPT !.allowPrivate = TRUE] }
  IN perturbed \cup {[c EXCEPT !.faults = Faults] : c \in perturbed}

(* Nothing fails; decisions and commands do; calls and the actions table do. *)
RollbackConfigs ==
  {[Acting EXCEPT !.faults = f] : f \in {{}, {"integrity", "store", "command"}, {"link", "log"}}}
ReliableConfigs == {Acting}
=============================================================================
