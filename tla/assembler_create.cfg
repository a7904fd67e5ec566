SPECIFICATION Spec
CONSTANTS
  Kinds = {"create"}
  Naming = {TRUE}
  MixedNaming = FALSE
  MaxGroups = 1
  MaxRotates = 0
  MaxDrops = 0
INVARIANT NothingDropped
CHECK_DEADLOCK FALSE
