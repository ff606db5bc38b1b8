CONSTANTS
  d1 = d1 d2 = d2 s1 = s1 t1 = t1 i1 = i1
  Server = Server
  Lists <- MCLists
  Versions = {90, 91, 92, 96, 120, 160, 170}
SPECIFICATION Spec
CHECK_DEADLOCK FALSE
INVARIANTS ListedTablesCollected
