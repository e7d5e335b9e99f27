SPECIFICATION FairSpec
CONSTANTS
  Calls = {c1, c2, c3}
  Families = {f1}
  Tokens = {1, 2, 3}
  Forged = forged
  None = None
  Ttl = 2
  AbsoluteTtl = 3
  MaxChainLength = 1
  MaxRetries = 2
  MaxTime = 3
  MaxFaults = 2
ACTION_CONSTRAINT DrawsSmallest
INVARIANTS
  ContentionIsAbsorbed SessionCeiling
PROPERTIES
  EveryCallReturns
