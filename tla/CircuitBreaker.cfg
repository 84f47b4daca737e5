SPECIFICATION FairSpec
CONSTANTS
  c1 = c1
  c2 = c2
  Callers = {c1, c2}
  Threshold = 3
  Recovery = 2
  Attempts = 2
INVARIANTS
  OpenIsJustified
PROPERTIES
  ImplementsBreaker
  RecoversAfterOutage
