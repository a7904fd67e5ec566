SPECIFICATION Spec
CONSTANTS
  Kinds = {"insert", "statements", "unwanted", "unreadable", "rolledback", "ddl", "session", "compressed", "xa"}
  Naming = {TRUE, FALSE}
  MixedNaming = FALSE
  MaxGroups = 3
  MaxRotates = 1
  MaxDrops = 2
INVARIANTS NothingDropped QueriesAreTheirs NothingLeftOver FilesAgree
PROPERTY Delivers
CHECK_DEADLOCK FALSE
