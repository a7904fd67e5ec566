SPECIFICATION Spec
CONSTANTS
  Keyed = {TRUE, FALSE}
  Keys = {1, 2}
  Values = {3}
  Null = Null
  MaxEvents = 4
  MaxWrites = 1
INVARIANTS NothingRejected StepsBackInTime OtherWritesSurvive
CHECK_DEADLOCK FALSE
