SPECIFICATION CkpSpec
CONSTANTS
  w1 = w1
  w2 = w2
  k1 = k1
  k2 = k2
  NLogs = 2
  Writers = {w1, w2}
  LogOf <- OneEach
  NoWriter = NoWriter
  BufferFills = FALSE
  Keys = {k1, k2}
  NCkps = 1
  RangeOf <- OneThread
  Unread = Unread
  Absent = Absent
  Torn = Torn
  MaxGen = 2
  MaxEpoch = 5
  MaxChanges = 2
  MaxCrashes = 2
CONSTRAINTS
  FewCrashes
  NewDatabase
  FewChanges
SYMMETRY SwapKeys
CHECK_DEADLOCK FALSE
INVARIANTS
  CheckpointCoversOlder
  CkpRecoveredStays
  RestoredConsistently
PROPERTIES
  CommitsOnlyLogged
