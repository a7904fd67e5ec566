SPECIFICATION FairSpec
CONSTANTS
  c1 = c1
  c2 = c2
  Collectors = {c1}
  LockSupported = TRUE
  Kinds = {"rows", "xa"}
  Skew = 0
  Retention = 1
  MaxStaleness = 1
  MaxTxns = 2
  MaxClock = 2
  MaxPurges = 0
  Faults = {"signal", "kill"}
  MaxFaults = 1
PROPERTY WatchReturns
CHECK_DEADLOCK FALSE
