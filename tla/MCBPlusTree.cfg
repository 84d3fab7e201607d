SPECIFICATION Spec
CONSTANTS
  Instances <- MCInstances
INVARIANTS
  Verified
  LookupsAgree
  CopiesAreSound
