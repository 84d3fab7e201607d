SPECIFICATION Spec
CONSTANTS
  Keys <- MCKeys
  MergeThreshold = 3
  MergeRatio = 2
  Setups <- Primary
INVARIANTS
  RowsAreFound
CHECK_DEADLOCK FALSE
