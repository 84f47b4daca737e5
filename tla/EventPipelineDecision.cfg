SPECIFICATION Spec
CONSTANTS
  t1 = t1
  w1 = w1
  ingest = ingest
  Tailers = {t1}
  Watchers = {w1}
  Ingest = ingest
  Capacity = 1
  MaxAttempts = 2
  MaxEvents = 2
  TestMode = TRUE
  MonitorFails = TRUE
  NoEvent = NoEvent
INVARIANT
  AlwaysWritesDecision
