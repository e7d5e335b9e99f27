SPECIFICATION Spec
CONSTANTS
  N = 3
  StopOrder <- FirstStopsFirst
  Timeout = 3
  Drain = 1
  Reentrant = TRUE
INVARIANTS
  OkMeansDown
