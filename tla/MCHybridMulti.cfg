SPECIFICATION PackedSpec
CONSTANTS
  v1 = v1
  v2 = v2
  Keys <- ThreeKeys
  Values = {v1, v2}
  Uses <- ThreeUses
  MergeThreshold = 2
  MergeRatio = 1
  Types = {0, 1}
  Clients = {"careful", "any"}
  ValueLimit = 4
SYMMETRY Symmetric
INVARIANTS
  CountersExact
  PackedHoldsLists
PROPERTY
  MultiMapSpec
