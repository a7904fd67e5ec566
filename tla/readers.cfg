SPECIFICATION Spec
CONSTANTS
  Retention = 1
  MaxStaleness = 1
  Kinds = {"rows", "schema"}
  MaxTxns = 3
  MaxHoles = 1
  MaxClock = 3
  Limit = 1
  Sinks = {"file", "stdout", "response"}
INVARIANTS ListedOnce NoneMissing TrailerMeansComplete FileIsWhole OKHolds ReportIsOneMoment NoFalseAlarm
CHECK_DEADLOCK FALSE
