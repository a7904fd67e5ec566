SPECIFICATION Spec
CONSTANTS
  c1 = c1
  c2 = c2
  Collectors = {c1}
  LockSupported = TRUE
  Kinds = {"rows", "unreadable", "mixed"}
  Skew = 1
  Retention = 1
  MaxStaleness = 1
  MaxTxns = 2
  MaxClock = 3
  MaxPurges = 1
  Faults = {"refusal", "kill"}
  MaxFaults = 2
INVARIANTS AnswersAreComplete GapsSpanTheirChanges CheckpointNotAhead
PROPERTIES CoverageNeedsAStream CheckpointAdvances
CHECK_DEADLOCK FALSE
