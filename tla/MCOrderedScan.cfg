SPECIFICATION Spec
CONSTANTS
  Keys <- MCKeys
  MergeThreshold = 3
  MergeRatio = 2
  Setups <- BothIndexes
INVARIANTS
  MergedRowsAreFound
  DynamicScanIsComplete
  StaticCursorAdvances
  BothStagesAreOrdered
