SPECIFICATION FairSpec
CONSTANTS
  w1 = w1
  w2 = w2
  NLogs = 1
  Writers = {w1, w2}
  LogOf <- Shared
  NoWriter = NoWriter
  BufferFills = TRUE
  MaxEpoch = 3
  MaxChanges = 3
  MaxCrashes = 1
CHECK_DEADLOCK FALSE
INVARIANTS
  RecordedOnce
PROPERTIES
  StalledIsRecorded
  AnsweredReachesDisk
