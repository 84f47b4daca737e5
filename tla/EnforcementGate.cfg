SPECIFICATION Spec
CONSTANTS
  e1 = e1
  e2 = e2
  o1 = o1
  o2 = o2
  Events = {e1}
  Operators = {o1}
  Decisions <- GateDecisions
  Configs <- GateConfigs
  None = None
INVARIANTS
  SanctionedActionsOnly
  RefusalIsFinal
CHECK_DEADLOCK FALSE
