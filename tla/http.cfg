SPECIFICATION FairSpec
CONSTANTS
  Calls = {c1, c2}
  Signalled = {c1}
  Attempts = {1, 2}
  Timeout = 2
  BackoffMs = 1
  HooksThrow = TRUE
  None = None
INVARIANTS
  NothingLeftBehind
PROPERTIES
  TimeoutBinds AbortSilences RetriesAreMeant CallSettles
