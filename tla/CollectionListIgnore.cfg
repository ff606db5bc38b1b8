CONSTANTS
  d1 = d1 d2 = d2 s1 = s1 s2 = s2 t1 = t1 t2 = t2 i1 = i1 i2 = i2
  Null = Null
  Db = {d1, d2}
  RowLists <- MCRowLists
  Hashes <- MCHashes
  NameLists <- MCNameLists
  IgnorableDbs <- MCIgnoreDbs
  IgnorableTables <- MCIgnoreTables
  Slots = 2
SPECIFICATION Spec
CHECK_DEADLOCK FALSE
INVARIANTS IgnoredTablesNeverCollected
