CONSTANTS
  NumQueries = 3
  Db = {"a", "b"}
  NoDb = "nil"
  Slots = 2
  MaxIdle = 2
  Plans <- MCPlans
SPECIFICATION Spec
CHECK_DEADLOCK FALSE
INVARIANTS TypeOK PoolBounded StarvedOnlyInLargeGroups PlansAreWholeAndNumbered
