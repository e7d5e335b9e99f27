SPECIFICATION Spec
CONSTANTS
  Calls = {c1, c2, c3, c4, c5}
  Families = {f1}
  Tokens = {1, 2, 3, 4, 5}
  Forged = forged
  None = None
  Ttl = 1
  AbsoluteTtl = 2
  MaxChainLength = 1
  MaxRetries = 2
  MaxTime = 2
  MaxFaults = 0
SYMMETRY Symmetry
ACTION_CONSTRAINT DrawsSmallest
INVARIANTS
  NoFork DetectionWindow AlertsAreReal
PROPERTIES
  GuessEndsNoSession ImplementsSession
