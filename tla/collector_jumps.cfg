SPECIFICATION Spec
CONSTANTS
  c1 = c1
  c2 = c2
  Collectors = {c1}
  LockSupported = TRUE
  Kinds = {"rows"}
  Skew = 0
  Retention = 1
  MaxStaleness = 1
  MaxTxns = 1
  MaxClock = 3
  MaxPurges = 0
  Faults = {}
  MaxFaults = 0
INVARIANT JumpsAreRefused
CHECK_DEADLOCK FALSE
