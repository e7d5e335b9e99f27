SPECIFICATION FairSpec
CONSTANTS
  Keys = {k1, k2}
  Tags = {t1}
  t1 = t1
  t2 = t2
  Calls = {c1, c2, c3}
  Values = {c1, c2, c3, written}
  None = None
  MaxEntries = 1
  Options <- OneOption
  MaxTime = 1
  SyncThrows = FALSE
  MaxFaults = 1
  MaxDirect = 0
INVARIANTS
  SingleFlight NoStuckFlight
PROPERTIES
  WrapSettles
