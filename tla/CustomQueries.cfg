CONSTANTS
  NumQueries = 3
  Limit = 2
  MaxRows = 2
  DbNames = {"db", ""}
  NoName = ""
SPECIFICATION FairSpec
CHECK_DEADLOCK FALSE
INVARIANTS TypeOK ConnectionsWithinLimit PublishSeesEveryRow CrashNeedsUnnamedDatabase
PROPERTIES ImplementsPool Finishes
