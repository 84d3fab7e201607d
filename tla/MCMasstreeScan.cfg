SPECIFICATION ScanSpec
CONSTANTS
  t1 = t1
  t2 = t2
  a = a
  b = b
  Threads = {t1, t2}
  Scanner = t1
  Keys <- MyKeys
  Values = {a, b}
  Blank = Blank
  Width = 3
  Concurrent = TRUE
  Calls <- MyCalls
  Scans <- MyScans
  Loads <- MyLoads
  ScanCalls <- MyScanCalls
  ScanLoads <- MyScanLoads
  MaxLeaves = 4
  MaxCalls = 3
INVARIANTS
  CallsTakeEffect
  TreeIsConsistent
  RemovalsAreRemembered
  ScanEmitsWhatWasThere
  ScanIsComplete
PROPERTIES
  EveryCallReturns
  OnlyCallsChangeTheTree
CHECK_DEADLOCK FALSE
