SPECIFICATION Spec
CONSTANTS
  k1 = k1
  k2 = k2
  k3 = k3
  a = a
  b = b
  Keys = {k1, k2, k3}
  Values = {a, b}
  NoValue = NoValue
  MergeThreshold = 2
  MergeRatio = 1
  Setups <- EverySetup
  CounterLimit = 5
INVARIANTS
  TypeOK
  CountersCoverStages
  StagesDisjoint
  MergesStayDefined
PROPERTY
  MergeKeepsView
  MapSpec
