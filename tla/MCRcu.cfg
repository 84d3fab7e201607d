SPECIFICATION Spec
CONSTANTS
  t1 = t1
  t2 = t2
  o1 = o1
  o2 = o2
  o3 = o3
  Threads = {t1, t2}
  Writers = {t1}
  Objects = {o1, o2}
  Paths = {"update", "remove"}
  Capacity = 3
  Cleanup = Cleanup
  MaxEpoch = 5
  MaxLimbo = 3
SYMMETRY RowSymmetry
INVARIANTS
  Pinned
  OldElementsUnheld
  LimboIntact
