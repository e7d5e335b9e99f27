SPECIFICATION Spec
CONSTANTS
  Calls = {c1}
  Signalled = {}
  Attempts = {2}
  Timeout = 2
  BackoffMs = 1
  HooksThrow = FALSE
  None = None
INVARIANT
  NeverRejects
