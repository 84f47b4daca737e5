\* The live monitor and its dashboard.
SPECIFICATION Spec
SYMMETRY Symmetry
CONSTANTS
  s1 = s1  s2 = s2  s3 = s3  s4 = s4
  MaxLog = 3
  Sources <- MCSources
  Safelisted <- MCSafelisted
  Cap = 2
  RepeatWindow = 1
  RecentWindow = 0
  NoisyWindow = 2
  Cooldown = 2
  Bucket = 2
  NoisyThreshold = 2
  MaxTime = 2
  MaxEvents = 4
  MayFail = TRUE
  Hour = 1
  RangeSpans <- MCRangeSpans
  IncidentLimit = 1
INVARIANTS
  MonitorTypeOK
  SummaryIsRight
  AlertsAreSpaced
  RepeatCountsAreTrue
  DashboardAgrees
PROPERTIES
  CooldownEnds
CHECK_DEADLOCK FALSE
