SPECIFICATION Spec
CONSTANTS
  Keys = {k1, k2, k3}
  Tags = {t1, t2}
  t1 = t1
  t2 = t2
  Calls = {c1}
  Values = {c1, written}
  None = None
  MaxEntries = 2
  Options <- TwoOptions
  MaxTime = 1
  SyncThrows = FALSE
  MaxFaults = 1
  MaxDirect = 6
SYMMETRY KeySymmetry
INVARIANTS
  IndexExact
PROPERTIES
  LossHasCause ImplementsTaggedCache
