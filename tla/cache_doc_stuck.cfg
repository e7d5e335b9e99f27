SPECIFICATION Spec
CONSTANTS
  Keys = {k1}
  Tags = {t1}
  t1 = t1
  t2 = t2
  Calls = {c1, c2}
  Values = {c1, c2, written}
  None = None
  MaxEntries = 1
  Options <- OneOption
  MaxTime = 0
  SyncThrows = TRUE
  MaxFaults = 0
  MaxDirect = 0
INVARIANTS
  NoStuckFlight
