SPECIFICATION Spec
CONSTANTS
  c1 = c1
  c2 = c2
  Collectors = {c1, c2}
  LockSupported = TRUE
  Kinds = {"rows", "mixed"}
  Skew = 1
  Retention = 1
  MaxStaleness = 1
  MaxTxns = 2
  MaxClock = 3
  MaxPurges = 1
  Faults = {"kill", "power"}
  MaxFaults = 1
INVARIANTS TypeOK NoSilentLoss SourceOrder
PROPERTY CheckpointAdvances
SYMMETRY Symmetry
CHECK_DEADLOCK FALSE
