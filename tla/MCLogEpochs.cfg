SPECIFICATION Spec
CONSTANTS
  w1 = w1
  w2 = w2
  NLogs = 2
  Writers = {w1, w2}
  LogOf <- OneEach
  NoWriter = NoWriter
  BufferFills = FALSE
  MaxEpoch = 3
  MaxChanges = 2
  MaxCrashes = 2
CHECK_DEADLOCK FALSE
INVARIANTS
  LoggedIsDurable
  CompleteLogsReplayConsistently
  RecoveredStaysRecovered
PROPERTIES
  LogEpochsIncrease
