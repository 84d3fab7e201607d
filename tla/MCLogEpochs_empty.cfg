SPECIFICATION Spec
CONSTANTS
  w1 = w1
  w2 = w2
  NLogs = 3
  Writers = {w1, w2}
  LogOf <- OneEach
  NoWriter = NoWriter
  BufferFills = FALSE
  MaxEpoch = 3
  MaxChanges = 2
  MaxCrashes = 1
CHECK_DEADLOCK FALSE
INVARIANTS
  MissedWakesAreNotReplayed
