SPECIFICATION FairSpec
CONSTANTS
  c1 = c1
  c2 = c2
  Collectors = {c1}
  LockSupported = TRUE
  Kinds = {"rows", "filtered", "mixed", "xa"}
  Skew = 0
  Retention = 1
  MaxStaleness = 1
  MaxTxns = 2
  MaxClock = 2
  MaxPurges = 1
  Faults = {"connection", "refusal", "gap", "signal", "kill"}
  MaxFaults = 1
PROPERTY EventuallyAccounted
CHECK_DEADLOCK FALSE
