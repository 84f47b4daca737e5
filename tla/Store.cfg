\* The events table under its writers, database faults and crashes.
SPECIFICATION Spec
CONSTANTS
  MaxAttempts = 3
  HalfDays = 2
  Legacy = 1
  LegacyForms = {"string"}
  MaxCalls = 2
  MaxTime = 3
  MaxFaults = 1
INVARIANTS
  TypeOK
  OneRowPerStore
  CleanBackfillLeavesNothing
  RetainedEventsKeepActions
PROPERTIES
  RefusalHasACause
  BackfillKeepsDecisions
CHECK_DEADLOCK FALSE
