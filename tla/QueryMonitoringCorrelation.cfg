CONSTANTS
  Servers <- MCServers
  Statement <- MCStatement
  Db = {"a", "b"}
  NoId = "nil"
  Versions = {11, 12, 13, 14}
  PlanIds = {"p", "q"}
SPECIFICATION Spec
CHECK_DEADLOCK FALSE
INVARIANT AccurateCorrelation
