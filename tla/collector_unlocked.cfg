SPECIFICATION Spec
CONSTANTS
  c1 = c1
  c2 = c2
  Collectors = {c1, c2}
  LockSupported = FALSE
  Kinds = {"rows", "mixed"}
  Skew = 1
  Retention = 1
  MaxStaleness = 1
  MaxTxns = 2
  MaxClock = 2
  MaxPurges = 1
  Faults = {"connection"}
  MaxFaults = 1
INVARIANTS StoredOnce NoSilentLoss
SYMMETRY Symmetry
CHECK_DEADLOCK FALSE
