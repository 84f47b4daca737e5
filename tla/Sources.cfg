\* Log collectors, watchers and the Go agent, one at a time.
SPECIFICATION Spec
CONSTANTS
  p1 = p1  p2 = p2  e1 = e1  w1 = w1  w2 = w2
  MaxFiles = 2
  MaxLines = 3
  Pids <- MCPids
  Endpoints <- MCEndpoints
  MaxBirths = 4
  MaxConnects = 2
  Workers <- MCWorkers
  QueueSize = 2
  MaxFrames = 4
INVARIANTS
  TailTypeOK
  OfferedInOrder
  ReportedOnce
  FrameAccounting
PROPERTIES
  FollowsTheLog
  ChannelDrains
CHECK_DEADLOCK FALSE
