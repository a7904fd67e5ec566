SPECIFICATION FairSpec
CONSTANTS
  c1 = c1
  c2 = c2
  Collectors = {c1}
  LockSupported = TRUE
  Kinds = {"rows"}
  Skew = 0
  Retention = 1
  MaxStaleness = 1
  MaxTxns = 2
  MaxClock = 3
  MaxPurges = 0
  Faults = {"connection"}
  MaxFaults = 1
PROPERTY NothingUnreadBehindCoverage
CHECK_DEADLOCK FALSE
