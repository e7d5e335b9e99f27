SPECIFICATION Spec
CONSTANTS
  Calls = {c1, c2, c3}
  Keys = {k1, k2}
  Tags = {t1, t2}
  t1 = t1
  t2 = t2
  None = None
  Options <- OneTagEach
  Overlapping = {"set"}
  MaxTime = 1
  MaxFaults = 1
SYMMETRY Symmetry
INVARIANTS
  NothingStale IndexComplete
