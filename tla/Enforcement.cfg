SPECIFICATION FairSpec
CONSTANTS
  e1 = e1
  e2 = e2
  o1 = o1
  o2 = o2
  Events = {e1, e2}
  Operators = {o1, o2}
  Decisions <- RollbackDecisions
  Configs <- RollbackConfigs
  None = None
INVARIANT
  EffectsAreAccountedFor
PROPERTIES
  ReversalTakesHold
  ImplementsLedger
CHECK_DEADLOCK FALSE
