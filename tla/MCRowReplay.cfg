SPECIFICATION Spec
CONSTANTS
  w1 = w1
  w2 = w2
  k1 = k1
  k2 = k2
  Writers = {w1, w2}
  Keys = {k1, k2}
  MaxChanges = 4
  MaxCrashes = 2
SYMMETRY Symmetric
CHECK_DEADLOCK FALSE
INVARIANTS
  StampsFollowChanges
  ReplayRestores
  DeltasAreRecycled
