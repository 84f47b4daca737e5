\* Set-up and start, the guardian's analyst, and the brain, one at a time.
SPECIFICATION Spec
CONSTANTS
  Hardware <- MCHardware
  MaxWrites = 3
  BufferSize = 3
  MaxIps = 1
  MaxProcesses = 1
  Ttl = 1
  HistoryLimit = 4
  ProviderNames <- MCProviders
  Threshold = 3
  Attempts = 3
  BrainConfigs <- MCBrainConfigs
  RawEvents <- MCRawEvents
  Replies <- MCReplies
  Histories <- MCHistories
  MaxRaw = 2
  MaxClock = 3
  AnalystConfigs <- MCAnalystConfigs
  AnalystReplies <- MCAnalystReplies
  MaxHandled = 3
INVARIANTS
  BrainTypeOK
  ChainsAreTheKeysOwn
  OverridesHold
  
  BrainCounters
  AnalystAccounting
  SealedUnlessReplaced
CHECK_DEADLOCK FALSE
