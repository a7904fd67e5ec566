SPECIFICATION Spec
CONSTANTS
  Half = 8
  Digits = 2
  Second = 12
  Values <- MCValues
  Columns <- MCColumns
  MaxValues = 2
  MaxAlters = 1
INVARIANTS RendersTheSame ColumnsComeBack NothingMadeUp OnlyWhatCouldBeWritten
CHECK_DEADLOCK FALSE
