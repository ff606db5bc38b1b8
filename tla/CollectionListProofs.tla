------------------------ MODULE CollectionListProofs ------------------------
(***************************************************************************)
(* Proofs about the list of objects to collect, for every argument, every  *)
(* answer of the server and every number of databases and connections.     *)
(***************************************************************************)
EXTENDS CollectionList, SequenceTheorems, FiniteSetTheorems, TLAPS

-----------------------------------------------------------------------------
(* The loop over the databases *)

\* Types of the variables the loop reads.
LoopTypes ==
  /\ TypeOK
  /\ names \in Seq(Db) /\ pos \in Nat
  /\ pc = "parse" => /\ names = <<>> /\ pos = 1 /\ held = 0
                     /\ dbList = EmptyList /\ ~error
  /\ pc = "loop" => names # <<>> /\ ~error

\* Each name passed over may hold a connection, and no other does; those that
\* were neither ignored nor failed are in the list while connections last.
LoopInv ==
  pc = "loop" =>
    /\ held < pos
    /\ DOMAIN dbList \cap ignoreDb = {}
    /\ Len(names) <= Slots =>
         \A k \in 1 .. pos - 1 :
           names[k] \notin ignoreDb \cup failed => names[k] \in DOMAIN dbList

IInv == /\ LoopTypes /\ LoopInv
        /\ HealthyDatabasesListed /\ IgnoredOrEmptyNeverReturned

\* The entry of one more database.
LEMMA PutDomain ==
  ASSUME NEW d, NEW e, NEW f PROVE DOMAIN Put(f, d, e) = DOMAIN f \cup {d}
  BY DEF Put

LEMMA EmptyDomain == DOMAIN EmptyList = {}
  BY DEF EmptyList

LEMMA InitLoop == Init => IInv
  <1> SUFFICES ASSUME Init PROVE IInv
    OBVIOUS
  <1> USE CollectionAssumption DEF Init
  <1>1. names \in Seq(Db) /\ Len(names) = 0
    OBVIOUS
  <1>2. DOMAIN dbList = {}
    BY EmptyDomain
  <1>3. LoopTypes
    <2>1. /\ form \in {"all", "hash", "array", "malformed"} /\ pc = "parse"
          /\ pos \in 1 .. Len(names) + 1 /\ held \in 0 .. Slots
          /\ error = FALSE /\ failed \subseteq Db
      BY <1>1
    <2>2. error \in BOOLEAN
      BY <2>1, Zenon
    <2> HIDE DEF Init
    <2>3. TypeOK
      BY <1>2, <2>1, <2>2 DEF TypeOK
    <2>4. names = <<>> /\ pos = 1 /\ held = 0 /\ dbList = EmptyList
      BY DEF Init
    <2> QED BY <1>1, <2>1, <2>3, <2>4 DEF LoopTypes
  <1> QED
    BY <1>3 DEF IInv, LoopInv, HealthyDatabasesListed,
                IgnoredOrEmptyNeverReturned, Returned, Success

LEMMA StepTypes == LoopTypes /\ [Next]_vars => LoopTypes'
  <1> SUFFICES ASSUME LoopTypes, [Next]_vars PROVE LoopTypes'
    OBVIOUS
  <1> USE CollectionAssumption DEF LoopTypes, TypeOK
  <1>1. CASE Reject \/ ParseHash
    BY <1>1, EmptyDomain DEF Reject, ParseHash, Return, argVars
  <1>2. CASE ParseNames
    <2>1. names' \in Seq(Db) /\ pos' = 1 /\ UNCHANGED <<hash, form, failed>>
      BY <1>2 DEF ParseNames, argVars
    <2>2. pos' \in 1 .. Len(names') + 1
      BY <2>1
    <2>3. CASE names' = <<>>
      BY <1>2, <2>1, <2>2, <2>3, EmptyDomain DEF ParseNames, Return, argVars
    <2>4. CASE names' # <<>>
      <3>1. /\ pc = "parse" /\ pc' = "loop"
            /\ UNCHANGED <<form, hash, held, dbList, error, failed>>
        BY <1>2, <2>4 DEF ParseNames, argVars
      <3>2. ~error
        BY <3>1
      <3> QED BY <2>1, <2>2, <2>4, <3>1, <3>2
    <2> QED BY <2>3, <2>4
  <1>3. CASE IgnoreDatabase \/ NoConnectionLeft
    BY <1>3 DEF IgnoreDatabase, NoConnectionLeft, More, argVars
  <1>4. CASE ReadSchemas
    <2>1. names[pos] \in Db /\ pos' \in 1 .. Len(names) + 1
      BY <1>4 DEF ReadSchemas, More
    <2>2. DOMAIN dbList' = DOMAIN dbList \cup {names[pos]}
      <3> HIDE DEF LoopTypes, TypeOK
      <3> QED BY <1>4, PutDomain DEF ReadSchemas
    <2>3. /\ pc = "loop" /\ pc' = pc /\ held' \in 0 .. Slots
          /\ UNCHANGED <<form, hash, names, error, failed>>
      BY <1>4 DEF ReadSchemas, More, argVars
    <2> QED BY <2>1, <2>2, <2>3
  <1>5. CASE DatabaseFails
    <2>1. names[pos] \in Db /\ pos' \in 1 .. Len(names) + 1
      BY <1>5 DEF DatabaseFails, More
    <2> QED BY <1>5, <2>1 DEF DatabaseFails, More, argVars
  <1>6. CASE LoopEnds
    BY <1>6 DEF LoopEnds, Return, argVars
  <1>7. CASE UNCHANGED vars
    BY <1>7 DEF vars, argVars
  <1> QED BY <1>1, <1>2, <1>3, <1>4, <1>5, <1>6, <1>7 DEF Next

LEMMA StepLoop == IInv /\ [Next]_vars => IInv'
  <1> SUFFICES ASSUME IInv, [Next]_vars PROVE IInv'
    OBVIOUS
  <1>a. LoopTypes'
    BY StepTypes DEF IInv
  <1>b. /\ names \in Seq(Db) /\ pos \in 1 .. Len(names) + 1
        /\ held \in Nat /\ Slots \in Nat
    BY CollectionAssumption DEF IInv, LoopTypes, TypeOK
  <1> USE DEF IInv, Returned, Success
  <1>1. CASE Reject \/ ParseHash
    <2>1. /\ pc' = "returned" /\ names' = <<>>
          /\ UNCHANGED <<ignoreDb, failed>>
      BY <1>1 DEF Reject, ParseHash, Return, argVars, LoopTypes
    <2>2. error' \/ DOMAIN dbList' \cap ignoreDb = {}
      BY <1>1 DEF Reject, ParseHash, Return
    <2>3. ToSet(names') = {}
      BY <2>1 DEF ToSet
    <2> QED
      BY <1>a, <2>1, <2>2, <2>3
      DEF LoopInv, HealthyDatabasesListed, IgnoredOrEmptyNeverReturned
  <1>2. CASE ParseNames
    <2>1. CASE names' = <<>>
      <3>1. pc' = "returned" /\ DOMAIN dbList' = {}
        BY <1>2, <2>1, EmptyDomain DEF ParseNames, Return
      <3>2. ToSet(names') = {}
        BY <2>1 DEF ToSet
      <3> QED
        BY <1>a, <2>1, <3>1, <3>2
        DEF LoopInv, HealthyDatabasesListed, IgnoredOrEmptyNeverReturned
    <2>2. CASE names' # <<>>
      <3>1. pc' = "loop" /\ held' = 0 /\ pos' = 1 /\ DOMAIN dbList' = {}
        BY <1>2, <2>2, EmptyDomain DEF ParseNames, LoopTypes
      <3>2. LoopInv'
        BY <3>1 DEF LoopInv
      <3> QED
        BY <1>a, <3>1, <3>2
        DEF HealthyDatabasesListed, IgnoredOrEmptyNeverReturned
    <2> QED BY <2>1, <2>2
  <1>3. CASE IgnoreDatabase
    <2>1. /\ pc = "loop" /\ pc' = "loop" /\ pos' = pos + 1
          /\ names[pos] \in ignoreDb
          /\ UNCHANGED <<names, held, dbList, ignoreDb, failed>>
      BY <1>3 DEF IgnoreDatabase, More, argVars
    <2>2. LoopInv'
      BY <1>b, <2>1 DEF LoopInv
    <2> QED
      BY <1>a, <2>1, <2>2
      DEF HealthyDatabasesListed, IgnoredOrEmptyNeverReturned
  <1>4. CASE ReadSchemas
    <2>1. /\ pc = "loop" /\ pc' = "loop" /\ pos' = pos + 1 /\ held' = held + 1
          /\ names[pos] \notin ignoreDb
          /\ UNCHANGED <<names, ignoreDb, failed>>
      BY <1>4 DEF ReadSchemas, More, argVars
    <2>2. DOMAIN dbList' = DOMAIN dbList \cup {names[pos]}
      BY <1>4, PutDomain DEF ReadSchemas
    <2>3. LoopInv'
      BY <1>b, <2>1, <2>2 DEF LoopInv
    <2> QED
      BY <1>a, <2>1, <2>3
      DEF HealthyDatabasesListed, IgnoredOrEmptyNeverReturned
  <1>5. CASE DatabaseFails
    <2>1. /\ pc = "loop" /\ pc' = "loop" /\ pos' = pos + 1
          /\ held' \in {held, held + 1} /\ failed' = failed \cup {names[pos]}
          /\ UNCHANGED <<names, ignoreDb, dbList>>
      BY <1>5 DEF DatabaseFails, More, argVars
    <2>2. LoopInv'
      BY <1>b, <2>1 DEF LoopInv
    <2> QED
      BY <1>a, <2>1, <2>2
      DEF HealthyDatabasesListed, IgnoredOrEmptyNeverReturned
  <1>6. CASE NoConnectionLeft
    <2>1. /\ pc = "loop" /\ pc' = "loop" /\ pos' = pos + 1
          /\ held = Slots /\ pos <= Len(names)
          /\ UNCHANGED <<names, held, ignoreDb, dbList, failed>>
      BY <1>6 DEF NoConnectionLeft, More, argVars
    <2>2. ~(Len(names) <= Slots)
      BY <1>b, <2>1 DEF LoopInv
    <2>3. LoopInv'
      BY <1>b, <2>1, <2>2 DEF LoopInv
    <2> QED
      BY <1>a, <2>1, <2>3
      DEF HealthyDatabasesListed, IgnoredOrEmptyNeverReturned
  <1>7. CASE LoopEnds
    <2>1. /\ pc = "loop" /\ pc' = "returned" /\ pos > Len(names)
          /\ error' = (DOMAIN dbList = {})
          /\ UNCHANGED <<names, ignoreDb, dbList, failed>>
      BY <1>7 DEF LoopEnds, Return, argVars
    <2>2. IgnoredOrEmptyNeverReturned'
      BY <2>1 DEF IgnoredOrEmptyNeverReturned, LoopInv
    <2>3. ASSUME Len(names) <= Slots,
                 NEW d \in ToSet(names) \ (ignoreDb \cup failed)
          PROVE  ~error' /\ d \in DOMAIN dbList
      <3>1. PICK k \in 1 .. Len(names) : d = names[k]
        BY <1>b DEF ToSet
      <3>2. d \in DOMAIN dbList
        BY <1>b, <2>1, <2>3, <3>1 DEF LoopInv
      <3> QED BY <2>1, <3>2
    <2>4. HealthyDatabasesListed'
      BY <2>1, <2>3 DEF HealthyDatabasesListed
    <2> QED BY <1>a, <2>1, <2>2, <2>4 DEF LoopInv
  <1>8. CASE UNCHANGED vars
    BY <1>a, <1>8 DEF vars, argVars, LoopInv, HealthyDatabasesListed,
                      IgnoredOrEmptyNeverReturned
  <1> QED
    BY <1>1, <1>2, <1>3, <1>4, <1>5, <1>6, <1>7, <1>8 DEF Next

\* The loop never runs past its names nor over the server's connections, and
\* the list holds only databases that were named or spelled in the hash.
THEOREM Typing == Spec => []TypeOK
  <1>1. IInv => TypeOK
    BY DEF IInv, LoopTypes
  <1> QED BY <1>1, InitLoop, StepLoop, PTL DEF Spec

\* While the server has a connection for each name, a database is missing
\* from the list only if it is ignored or failed itself.
THEOREM HealthyListed == Spec => []HealthyDatabasesListed
  <1>1. IInv => HealthyDatabasesListed
    BY DEF IInv
  <1> QED BY <1>1, InitLoop, StepLoop, PTL DEF Spec

\* A successful list has no ignored database, whatever form the argument had,
\* and is not empty when databases were named.
THEOREM NoIgnoredNoEmpty == Spec => []IgnoredOrEmptyNeverReturned
  <1>1. IInv => IgnoredOrEmptyNeverReturned
    BY DEF IInv
  <1> QED BY <1>1, InitLoop, StepLoop, PTL DEF Spec

-----------------------------------------------------------------------------
(* Induction over the rows of an answer *)

\* The library's induction takes an operator; over a set of numbers it is a
\* consequence of the order on Nat being well founded.
LEMMA LeastElement ==
  ASSUME NEW T \in SUBSET Nat, T # {}
  PROVE  \E x \in T : \A y \in T : x <= y
  <1> DEFINE R == {ss \in Nat \X Nat : ss[1] < ss[2]}
  <1>1. IsWellFoundedOn(R, Nat)
    BY NatLessThanWellFounded DEF OpToRel
  <1>2. \E x \in T : \A y \in T : ~(<<y, x>> \in R)
    <2> HIDE DEF R
    <2> QED BY <1>1, WFMin
  <1>3. ASSUME NEW x \in T, NEW y \in T, ~(<<y, x>> \in R) PROVE x <= y
    BY <1>3
  <1> QED BY <1>2, <1>3

LEMMA SetInduction ==
  ASSUME NEW T, 0 \in T, \A n \in Nat : n \in T => n + 1 \in T
  PROVE  Nat \subseteq T
  <1> SUFFICES ASSUME Nat \ T # {} PROVE FALSE
    OBVIOUS
  <1>1. PICK x \in Nat \ T : \A y \in Nat \ T : x <= y
    BY LeastElement
  <1>2. x - 1 \in Nat /\ x - 1 \in T
    BY <1>1
  <1> QED BY <1>1, <1>2

\* The recursive function SchemaLists exists: its values can be written down
\* row by row.
LEMMA SchemaListsDef ==
  ASSUME NEW rows, Len(rows) \in Nat
  PROVE  SchemaLists(rows)
           = [k \in 0 .. Len(rows) |->
                IF k = 0 THEN <<>>
                ELSE AddRow(SchemaLists(rows)[k - 1], rows[k])]
  <1> DEFINE IsUpTo(f, n) == f = [k \in 0 .. n |->
                                    IF k = 0 THEN <<>>
                                    ELSE AddRow(f[k - 1], rows[k])]
             T == {n \in Nat : \E f : IsUpTo(f, n)}
  <1>1. 0 \in T
    <2>1. IsUpTo([k \in 0 .. 0 |-> <<>>], 0)
      OBVIOUS
    <2> QED BY <2>1
  <1>2. ASSUME NEW n \in Nat, n \in T PROVE n + 1 \in T
    <2>1. PICK f : IsUpTo(f, n)
      BY <1>2
    <2> DEFINE g == [k \in 0 .. n + 1 |->
                       IF k = n + 1 THEN AddRow(f[n], rows[n + 1]) ELSE f[k]]
    <2>2. /\ g[n + 1] = AddRow(g[n], rows[n + 1])
          /\ \A k \in 0 .. n : g[k] = f[k]
      OBVIOUS
    <2>3. ASSUME NEW k \in 0 .. n + 1
          PROVE  g[k] = IF k = 0 THEN <<>> ELSE AddRow(g[k - 1], rows[k])
      <3>1. CASE k = n + 1
        BY <2>2, <3>1
      <3>2. CASE k = 0
        BY <2>1, <2>2, <3>2
      <3>3. CASE k # n + 1 /\ k # 0
        <4>1. k \in 0 .. n /\ k - 1 \in 0 .. n
          BY <3>3
        <4>2. f[k] = AddRow(f[k - 1], rows[k])
          BY <2>1, <3>3, <4>1
        <4> QED BY <2>2, <3>3, <4>1, <4>2
      <3> QED BY <3>1, <3>2, <3>3
    <2>4. IsUpTo(g, n + 1)
      <3>1. g = [k \in 0 .. n + 1 |-> g[k]]
        OBVIOUS
      <3> HIDE DEF g
      <3> QED BY <2>3, <3>1
    <2>5. \E h : IsUpTo(h, n + 1)
      <3> HIDE DEF g, IsUpTo
      <3> QED BY <2>4
    <2> HIDE DEF g, IsUpTo
    <2> QED BY <2>5
  <1>3. Nat \subseteq T
    <2> HIDE DEF T
    <2> QED BY <1>1, <1>2, SetInduction
  <1>4. \E f : IsUpTo(f, Len(rows))
    BY <1>3
  <1> QED BY <1>4, Zenon DEF SchemaLists

-----------------------------------------------------------------------------
(* What the schema list holds after n rows *)

\* The wanted rows among the first n, those of a schema, and those that give
\* a table of it an index.
WantedUpTo(rows, n) == {k \in 1 .. n : ~Skipped(rows[k])}
OfSchema(rows, n, s) == {k \in WantedUpTo(rows, n) : rows[k].schema = s}
OfTable(rows, n, s, t) ==
  {k \in OfSchema(rows, n, s) : rows[k].table = t /\ rows[k].index # Null}

IndexesMatch(indexes, rows, n, s, t) ==
  /\ indexes \in Seq(ToSet(indexes))
  /\ Len(indexes) = Cardinality(OfTable(rows, n, s, t))
  /\ ToSet(indexes) = {rows[k].index : k \in OfTable(rows, n, s, t)}

TablesMatch(tables, rows, n, s) ==
  /\ DOMAIN tables = {rows[k].table : k \in OfSchema(rows, n, s)}
  /\ \A t \in DOMAIN tables : IndexesMatch(tables[t], rows, n, s, t)

SchemasMatch(schemas, rows, n) ==
  /\ DOMAIN schemas = {rows[k].schema : k \in WantedUpTo(rows, n)}
  /\ \A s \in DOMAIN schemas : TablesMatch(schemas[s], rows, n, s)

LEMMA PutValue ==
  ASSUME NEW f, NEW d, NEW e
  PROVE  /\ Put(f, d, e)[d] = e
         /\ \A x \in DOMAIN f : x # d => Put(f, d, e)[x] = f[x]
  BY DEF Put

\* An entry that is made when it is absent matches the rows so far as well.
LEMMA SchemaEntry ==
  ASSUME NEW schemas, NEW rows, NEW n \in Nat, NEW s,
         SchemasMatch(schemas, rows, n)
  PROVE  TablesMatch(Entry(schemas, s), rows, n, s)
  <1>1. CASE s \in DOMAIN schemas
    BY <1>1 DEF SchemasMatch, Entry
  <1>2. CASE s \notin DOMAIN schemas
    <2>1. Entry(schemas, s) = <<>>
      BY <1>2 DEF Entry
    <2>2. OfSchema(rows, n, s) = {}
      BY <1>2 DEF SchemasMatch, OfSchema
    <2> QED BY <2>1, <2>2 DEF TablesMatch
  <1> QED BY <1>1, <1>2

LEMMA TableEntry ==
  ASSUME NEW tables, NEW rows, NEW n \in Nat, NEW s, NEW t,
         TablesMatch(tables, rows, n, s)
  PROVE  IndexesMatch(Entry(tables, t), rows, n, s, t)
  <1>1. CASE t \in DOMAIN tables
    BY <1>1 DEF TablesMatch, Entry
  <1>2. CASE t \notin DOMAIN tables
    <2>1. Entry(tables, t) = <<>>
      BY <1>2 DEF Entry
    <2>2. OfTable(rows, n, s, t) = {}
      BY <1>2 DEF TablesMatch, OfTable
    <2>3. ToSet(<<>>) = {} /\ <<>> \in Seq(ToSet(<<>>)) /\ Len(<<>>) = 0
      BY DEF ToSet
    <2>4. Cardinality({}) = 0
      BY FS_EmptySet
    <2> QED BY <2>1, <2>2, <2>3, <2>4 DEF IndexesMatch
  <1> QED BY <1>1, <1>2

LEMMA ToSetAppend ==
  ASSUME NEW seq, seq \in Seq(ToSet(seq)), NEW x
  PROVE  /\ Append(seq, x) \in Seq(ToSet(Append(seq, x)))
         /\ Len(Append(seq, x)) = Len(seq) + 1
         /\ ToSet(Append(seq, x)) = ToSet(seq) \cup {x}
  <1> DEFINE S == ToSet(seq) \cup {x}
  <1>1. seq \in Seq(S)
    BY SeqMonotonic
  <1> HIDE DEF S
  <1>2. x \in S
    BY DEF S
  <1>3. /\ Append(seq, x) \in Seq(S) /\ Len(Append(seq, x)) = Len(seq) + 1
        /\ DOMAIN Append(seq, x) = 1 .. Len(seq) + 1
        /\ DOMAIN seq = 1 .. Len(seq) /\ Len(seq) \in Nat
        /\ Append(seq, x)[Len(seq) + 1] = x
        /\ \A k \in 1 .. Len(seq) : Append(seq, x)[k] = seq[k]
    BY <1>1, <1>2, AppendProperties, LenProperties
  <1>4. ToSet(Append(seq, x)) = S
    <2>1. ASSUME NEW y \in ToSet(Append(seq, x)) PROVE y \in S
      BY <1>3 DEF ToSet, S
    <2>2. ASSUME NEW y \in ToSet(seq) PROVE y \in ToSet(Append(seq, x))
      BY <1>3 DEF ToSet
    <2>3. x \in ToSet(Append(seq, x))
      BY <1>3 DEF ToSet
    <2> QED BY <2>1, <2>2, <2>3 DEF S
  <1> QED BY <1>3, <1>4 DEF S

LEMMA UpToFinite ==
  ASSUME NEW rows, NEW n \in Nat, NEW s, NEW t
  PROVE  IsFiniteSet(OfTable(rows, n, s, t))
  <1>1. IsFiniteSet(1 .. n)
    BY FS_Interval
  <1>2. OfTable(rows, n, s, t) \in SUBSET (1 .. n)
    BY DEF OfTable, OfSchema, WantedUpTo
  <1> QED BY <1>1, <1>2, FS_Subset

\* What one more row adds to each of the sets of rows.
LEMMA NextRow ==
  ASSUME NEW rows, NEW n \in Nat
  PROVE  /\ Skipped(rows[n + 1]) =>
              WantedUpTo(rows, n + 1) = WantedUpTo(rows, n)
         /\ ~Skipped(rows[n + 1]) =>
              WantedUpTo(rows, n + 1) = WantedUpTo(rows, n) \cup {n + 1}
         /\ n + 1 \notin WantedUpTo(rows, n)
  <1>1. 1 .. n + 1 = (1 .. n) \cup {n + 1} /\ n + 1 \notin 1 .. n
    OBVIOUS
  <1> QED BY <1>1 DEF WantedUpTo

\* The table lists of a schema after one more row of it.
LEMMA TablesGrow ==
  ASSUME NEW tables, NEW rows, NEW n \in Nat, NEW s,
         TablesMatch(tables, rows, n, s),
         ~Skipped(rows[n + 1]), rows[n + 1].schema = s
  PROVE  TablesMatch(WithIndex(tables, rows[n + 1]), rows, n + 1, s)
  <1> DEFINE row == rows[n + 1]
             old == Entry(tables, row.table)
             new == IF row.index = Null THEN old ELSE Append(old, row.index)
  <1>1. OfSchema(rows, n + 1, s) = OfSchema(rows, n, s) \cup {n + 1}
    BY NextRow DEF OfSchema
  <1>2. n + 1 \notin OfSchema(rows, n, s)
    BY NextRow DEF OfSchema
  <1>3. WithIndex(tables, row) = Put(tables, row.table, new)
    BY DEF WithIndex
  <1>4. IndexesMatch(old, rows, n, s, row.table)
    BY TableEntry
  <1>5. ASSUME NEW t, t # row.table
        PROVE  OfTable(rows, n + 1, s, t) = OfTable(rows, n, s, t)
    BY <1>1, <1>5 DEF OfTable
  <1>6. IndexesMatch(new, rows, n + 1, s, row.table)
    <2>1. CASE row.index = Null
      <3>1. OfTable(rows, n + 1, s, row.table) = OfTable(rows, n, s, row.table)
        BY <1>1, <2>1 DEF OfTable
      <3> QED BY <1>4, <2>1, <3>1 DEF IndexesMatch
    <2>2. CASE row.index # Null
      <3> DEFINE T == OfTable(rows, n, s, row.table)
      <3>1. OfTable(rows, n + 1, s, row.table) = T \cup {n + 1}
        BY <1>1, <2>2 DEF OfTable
      <3>2. n + 1 \notin T
        BY <1>2 DEF OfTable
      <3>3. IsFiniteSet(T)
        BY UpToFinite
      <3>4. Cardinality(T \cup {n + 1}) = Cardinality(T) + 1
        <4> HIDE DEF T
        <4> QED BY <3>2, <3>3, FS_AddElement
      <3>5. /\ Append(old, row.index) \in Seq(ToSet(Append(old, row.index)))
            /\ Len(Append(old, row.index)) = Len(old) + 1
            /\ ToSet(Append(old, row.index)) = ToSet(old) \cup {row.index}
        <4>1. old \in Seq(ToSet(old))
          BY <1>4 DEF IndexesMatch
        <4> HIDE DEF old, row
        <4> QED BY <4>1, ToSetAppend
      <3>6. /\ Len(old) = Cardinality(T)
            /\ ToSet(old) = {rows[k].index : k \in T}
        BY <1>4 DEF IndexesMatch
      <3>7. {rows[k].index : k \in T \cup {n + 1}}
              = {rows[k].index : k \in T} \cup {row.index}
        <4> HIDE DEF T
        <4> QED OBVIOUS
      <3>8. new = Append(old, row.index)
        BY <2>2
      <3> HIDE DEF T, old, new
      <3> QED BY <3>1, <3>4, <3>5, <3>6, <3>7, <3>8 DEF IndexesMatch
    <2> QED BY <2>1, <2>2
  <1>7. DOMAIN Put(tables, row.table, new)
          = {rows[k].table : k \in OfSchema(rows, n + 1, s)}
    <2>1. {rows[k].table : k \in OfSchema(rows, n, s) \cup {n + 1}}
            = {rows[k].table : k \in OfSchema(rows, n, s)} \cup {row.table}
      OBVIOUS
    <2>2. DOMAIN tables = {rows[k].table : k \in OfSchema(rows, n, s)}
      BY DEF TablesMatch
    <2>3. DOMAIN Put(tables, row.table, new) = DOMAIN tables \cup {row.table}
      BY PutDomain
    <2> QED BY <1>1, <2>1, <2>2, <2>3
  <1>8. ASSUME NEW t \in DOMAIN Put(tables, row.table, new)
        PROVE  IndexesMatch(Put(tables, row.table, new)[t], rows, n + 1, s, t)
    <2> HIDE DEF new
    <2>1. CASE t = row.table
      BY <1>6, <2>1, PutValue
    <2>2. CASE t # row.table
      <3>1. t \in DOMAIN tables
        <4>1. DOMAIN Put(tables, row.table, new) = DOMAIN tables \cup {row.table}
          BY PutDomain
        <4> QED BY <2>2, <4>1
      <3>2. Put(tables, row.table, new)[t] = tables[t]
        BY <2>2, <3>1, PutValue
      <3>3. IndexesMatch(tables[t], rows, n, s, t)
        BY <3>1 DEF TablesMatch
      <3>4. OfTable(rows, n + 1, s, t) = OfTable(rows, n, s, t)
        BY <1>5, <2>2
      <3> QED BY <3>2, <3>3, <3>4 DEF IndexesMatch
    <2> QED BY <2>1, <2>2
  <1> HIDE DEF new
  <1> QED BY <1>3, <1>7, <1>8 DEF TablesMatch

\* And so the schema lists after one more row.
LEMMA SchemasGrow ==
  ASSUME NEW schemas, NEW rows, NEW n \in Nat, SchemasMatch(schemas, rows, n)
  PROVE  SchemasMatch(AddRow(schemas, rows[n + 1]), rows, n + 1)
  <1> DEFINE row == rows[n + 1]
  <1>1. CASE Skipped(row)
    <2>1. WantedUpTo(rows, n + 1) = WantedUpTo(rows, n)
      BY <1>1, NextRow
    <2>2. AddRow(schemas, row) = schemas
      BY <1>1 DEF AddRow
    <2>3. /\ DOMAIN schemas = {rows[k].schema : k \in WantedUpTo(rows, n)}
          /\ \A s \in DOMAIN schemas : TablesMatch(schemas[s], rows, n, s)
      BY DEF SchemasMatch
    <2>4. \A s : OfSchema(rows, n + 1, s) = OfSchema(rows, n, s)
      BY <2>1 DEF OfSchema
    <2>5. \A s, t : OfTable(rows, n + 1, s, t) = OfTable(rows, n, s, t)
      BY <2>4 DEF OfTable
    <2>6. \A s \in DOMAIN schemas : TablesMatch(schemas[s], rows, n + 1, s)
      BY <2>3, <2>4, <2>5 DEF TablesMatch, IndexesMatch
    <2> QED BY <2>1, <2>2, <2>3, <2>6 DEF SchemasMatch
  <1>2. CASE ~Skipped(row)
    <2> DEFINE new == WithIndex(Entry(schemas, row.schema), row)
    <2>1. AddRow(schemas, row) = Put(schemas, row.schema, new)
      BY <1>2 DEF AddRow
    <2>2. TablesMatch(new, rows, n + 1, row.schema)
      <3>1. TablesMatch(Entry(schemas, row.schema), rows, n, row.schema)
        BY SchemaEntry
      <3> QED BY <1>2, <3>1, TablesGrow
    <2>3. WantedUpTo(rows, n + 1) = WantedUpTo(rows, n) \cup {n + 1}
      BY <1>2, NextRow
    <2> HIDE DEF new
    <2>4. DOMAIN Put(schemas, row.schema, new)
            = {rows[k].schema : k \in WantedUpTo(rows, n + 1)}
      <3>1. {rows[k].schema : k \in WantedUpTo(rows, n) \cup {n + 1}}
              = {rows[k].schema : k \in WantedUpTo(rows, n)} \cup {row.schema}
        OBVIOUS
      <3>2. DOMAIN schemas = {rows[k].schema : k \in WantedUpTo(rows, n)}
        BY DEF SchemasMatch
      <3>3. DOMAIN Put(schemas, row.schema, new)
              = DOMAIN schemas \cup {row.schema}
        BY PutDomain
      <3> QED BY <2>3, <3>1, <3>2, <3>3
    <2>5. ASSUME NEW s \in DOMAIN Put(schemas, row.schema, new)
          PROVE  TablesMatch(Put(schemas, row.schema, new)[s], rows, n + 1, s)
      <3>1. CASE s = row.schema
        BY <2>2, <3>1, PutValue
      <3>2. CASE s # row.schema
        <4>1. s \in DOMAIN schemas
          <5>1. DOMAIN Put(schemas, row.schema, new)
                  = DOMAIN schemas \cup {row.schema}
            BY PutDomain
          <5> QED BY <3>2, <5>1
        <4>2. Put(schemas, row.schema, new)[s] = schemas[s]
          BY <3>2, <4>1, PutValue
        <4>3. TablesMatch(schemas[s], rows, n, s)
          BY <4>1 DEF SchemasMatch
        <4>4. OfSchema(rows, n + 1, s) = OfSchema(rows, n, s)
          BY <2>3, <3>2 DEF OfSchema
        <4> QED BY <4>2, <4>3, <4>4 DEF TablesMatch, IndexesMatch, OfTable
      <3> QED BY <3>1, <3>2
    <2> QED BY <2>1, <2>4, <2>5 DEF SchemasMatch
  <1> QED BY <1>1, <1>2

\* A database's list is a function of the rows: no ordering of them matters.
LEMMA SchemaListMatches ==
  ASSUME NEW rows, rows \in Seq(ToSet(rows))
  PROVE  SchemasMatch(buildSchemaListForDatabase(rows), rows, Len(rows))
  <1> DEFINE S == SchemaLists(rows)
             T == {n \in Nat : n <= Len(rows) => SchemasMatch(S[n], rows, n)}
  <1>1. Len(rows) \in Nat
    BY LenProperties
  <1>2. S = [k \in 0 .. Len(rows) |->
               IF k = 0 THEN <<>> ELSE AddRow(S[k - 1], rows[k])]
    BY SchemaListsDef
  <1> HIDE DEF S
  <1>3. 0 \in T
    <2>1. S[0] = <<>>
      BY <1>1, <1>2
    <2>2. WantedUpTo(rows, 0) = {}
      BY DEF WantedUpTo
    <2>3. SchemasMatch(<<>>, rows, 0)
      BY <2>2 DEF SchemasMatch
    <2> QED BY <2>1, <2>3
  <1>4. ASSUME NEW n \in Nat, n \in T PROVE n + 1 \in T
    <2> SUFFICES ASSUME n + 1 <= Len(rows)
                 PROVE  SchemasMatch(S[n + 1], rows, n + 1)
      OBVIOUS
    <2>1. SchemasMatch(S[n], rows, n)
      BY <1>1, <1>4
    <2>2. S[n + 1] = AddRow(S[n], rows[n + 1])
      BY <1>1, <1>2, <1>4
    <2> QED BY <1>4, <2>1, <2>2, SchemasGrow
  <1>5. Nat \subseteq T
    <2> HIDE DEF T
    <2> QED BY <1>3, <1>4, SetInduction
  <1>6. SchemasMatch(S[Len(rows)], rows, Len(rows))
    BY <1>1, <1>5
  <1> QED BY <1>6 DEF S, buildSchemaListForDatabase

-----------------------------------------------------------------------------
(* The list of objects and what the server answered *)

\* Every list read from the server is the one its database's answer spells.
\* A hash is returned before any database is asked.
ListInv ==
  form # "hash" =>
    /\ DOMAIN answer = Db
    /\ DOMAIN dbList \subseteq Db
    /\ \A d \in DOMAIN dbList :
         SchemasMatch(dbList[d], answer[d], Len(answer[d]))
    /\ \A d \in Db : answer[d] \in Seq(ToSet(answer[d]))

LEMMA InitList == Init => ListInv
  <1> SUFFICES ASSUME Init PROVE ListInv
    OBVIOUS
  <1>1. DOMAIN dbList = {}
    BY EmptyDomain DEF Init
  <1>2. answer = [d \in Db |-> <<>>]
    BY DEF Init
  <1> QED BY <1>1, <1>2 DEF ListInv

\* The rows that are skipped depend on nothing but the list of ignored tables.
LEMMA SameIgnored ==
  ASSUME ignoreTable' = ignoreTable, NEW schemas, NEW rows, NEW n,
         SchemasMatch(schemas, rows, n)
  PROVE  SchemasMatch(schemas, rows, n)'
  <1>1. WantedUpTo(rows, n)' = WantedUpTo(rows, n)
    BY DEF WantedUpTo, Skipped
  <1>2. \A s : OfSchema(rows, n, s)' = OfSchema(rows, n, s)
    BY <1>1 DEF OfSchema
  <1>3. \A s, t : OfTable(rows, n, s, t)' = OfTable(rows, n, s, t)
    BY <1>2 DEF OfTable
  <1>4. \A x, s, t : IndexesMatch(x, rows, n, s, t)
                       => IndexesMatch(x, rows, n, s, t)'
    BY <1>3 DEF IndexesMatch
  <1>5. \A x, s : TablesMatch(x, rows, n, s) => TablesMatch(x, rows, n, s)'
    BY <1>2, <1>4 DEF TablesMatch
  <1> QED BY <1>1, <1>5 DEF SchemasMatch

LEMMA StepList == LoopTypes /\ ListInv /\ [Next]_vars => ListInv'
  <1> SUFFICES ASSUME LoopTypes, ListInv, [Next]_vars, form # "hash",
                      form' = form
               PROVE  ListInv'
    BY DEF Next, Reject, ParseHash, ParseNames, IgnoreDatabase, ReadSchemas,
           DatabaseFails, NoConnectionLeft, LoopEnds, ListInv, argVars, vars
  <1>0. ignoreTable' = ignoreTable
    BY DEF Next, Reject, ParseHash, ParseNames, IgnoreDatabase, ReadSchemas,
           DatabaseFails, NoConnectionLeft, LoopEnds, argVars, vars
  <1>1. CASE Reject
    <2>1. dbList' = EmptyList /\ UNCHANGED answer
      BY <1>1 DEF Reject, Return
    <2> QED BY <2>1, EmptyDomain DEF ListInv
  <1>2. CASE UNCHANGED <<dbList, answer>>
    <2>1. ASSUME NEW d \in DOMAIN dbList
          PROVE  SchemasMatch(dbList[d], answer[d], Len(answer[d]))'
      <3>1. SchemasMatch(dbList[d], answer[d], Len(answer[d]))
        BY DEF ListInv
      <3> QED BY <1>0, <1>2, <3>1, SameIgnored
    <2> QED BY <1>2, <2>1 DEF ListInv
  <1>3. CASE ReadSchemas
    <2> DEFINE d == names[pos]
    <2>1. d \in Db
      BY <1>3, CollectionAssumption DEF ReadSchemas, More, LoopTypes, TypeOK
    <2>2. PICK rows \in RowLists :
            /\ answer' = [answer EXCEPT ![d] = rows]
            /\ dbList' = Put(dbList, d, buildSchemaListForDatabase(rows))
      BY <1>3 DEF ReadSchemas
    <2>3. rows \in Seq(ToSet(rows))
      BY CollectionAssumption
    <2>4. SchemasMatch(buildSchemaListForDatabase(rows), rows, Len(rows))
      BY <2>3, SchemaListMatches
    <2>5. DOMAIN dbList' = DOMAIN dbList \cup {d}
      BY <2>2, PutDomain
    <2> HIDE DEF d
    <2>6. DOMAIN answer = Db /\ answer'[d] = rows
      BY <2>1, <2>2 DEF ListInv
    <2>7. ASSUME NEW c \in DOMAIN dbList'
          PROVE  SchemasMatch(dbList[c], answer[c], Len(answer[c]))'
      <3>1. SchemasMatch(dbList'[c], answer'[c], Len(answer'[c]))
        <4>1. CASE c = d
          BY <2>2, <2>4, <2>6, <4>1, PutValue
        <4>2. CASE c # d
          <5>1. c \in DOMAIN dbList /\ c \in Db
            BY <2>5, <4>2, <2>7 DEF ListInv
          <5>2. answer'[c] = answer[c]
            BY <2>2, <2>6, <4>2, <5>1
          <5>3. dbList'[c] = dbList[c]
            BY <2>2, <4>2, <5>1, PutValue
          <5> QED BY <5>1, <5>2, <5>3 DEF ListInv
        <4> QED BY <4>1, <4>2
      <3> QED BY <1>0, <3>1, SameIgnored
    <2>8. /\ DOMAIN answer' = Db
          /\ \A c \in Db : answer'[c] \in Seq(ToSet(answer'[c]))
      <3>1. \A c \in Db : c # d => answer'[c] = answer[c]
        BY <2>2, <2>6
      <3> QED BY <2>2, <2>3, <2>6, <3>1 DEF ListInv
    <2> QED BY <2>1, <2>5, <2>7, <2>8 DEF ListInv
  <1>4. CASE ParseNames
    <2>1. UNCHANGED <<dbList, answer>>
      BY <1>4 DEF ParseNames, Return, LoopTypes
    <2> QED BY <1>2, <2>1
  <1>5. CASE \/ IgnoreDatabase \/ DatabaseFails \/ NoConnectionLeft
             \/ LoopEnds \/ UNCHANGED vars
    <2>1. UNCHANGED <<dbList, answer>>
      BY <1>5 DEF IgnoreDatabase, DatabaseFails, NoConnectionLeft, LoopEnds,
                  Return, vars
    <2> QED BY <1>2, <2>1
  <1>6. ~ParseHash
    BY DEF ParseHash
  <1> QED BY <1>1, <1>3, <1>4, <1>5, <1>6 DEF Next

\* The rows spelled out in the property are those of SchemasMatch.
LEMMA MatchIsList == TypeOK /\ ListInv => ListMatchesServer
  <1> SUFFICES ASSUME ListInv, form # "hash", NEW d \in DOMAIN dbList
               PROVE  LET rows == answer[d]
                          of(s) == {k \in Wanted(rows) : rows[k].schema = s}
                          idx(s, t) == {k \in of(s) : /\ rows[k].table = t
                                                      /\ rows[k].index # Null}
                      IN  /\ DOMAIN dbList[d] =
                               {rows[k].schema : k \in Wanted(rows)}
                          /\ \A s \in DOMAIN dbList[d] :
                               /\ DOMAIN dbList[d][s] =
                                    {rows[k].table : k \in of(s)}
                               /\ \A t \in DOMAIN dbList[d][s] :
                                    /\ Len(dbList[d][s][t])
                                         = Cardinality(idx(s, t))
                                    /\ ToSet(dbList[d][s][t])
                                         = {rows[k].index : k \in idx(s, t)}
    BY DEF ListMatchesServer
  <1> DEFINE rows == answer[d]
             of(s) == {k \in Wanted(rows) : rows[k].schema = s}
             idx(s, t) == {k \in of(s) : rows[k].table = t
                                           /\ rows[k].index # Null}
  <1>1. /\ SchemasMatch(dbList[d], rows, Len(rows))
        /\ DOMAIN rows = 1 .. Len(rows)
    <2>1. rows \in Seq(ToSet(rows))
      BY DEF ListInv
    <2> QED BY <2>1, LenProperties DEF ListInv
  <1>2. Wanted(rows) = WantedUpTo(rows, Len(rows))
    BY <1>1 DEF Wanted, WantedUpTo
  <1>3. \A s : of(s) = OfSchema(rows, Len(rows), s)
    BY <1>2 DEF OfSchema
  <1>4. \A s, t : idx(s, t) = OfTable(rows, Len(rows), s, t)
    BY <1>3 DEF OfTable
  <1> HIDE DEF rows, of, idx
  <1>5. DOMAIN dbList[d] = {rows[k].schema : k \in Wanted(rows)}
    BY <1>1, <1>2 DEF SchemasMatch
  <1>6. ASSUME NEW s \in DOMAIN dbList[d]
        PROVE  /\ DOMAIN dbList[d][s] = {rows[k].table : k \in of(s)}
               /\ \A t \in DOMAIN dbList[d][s] :
                    /\ Len(dbList[d][s][t]) = Cardinality(idx(s, t))
                    /\ ToSet(dbList[d][s][t])
                         = {rows[k].index : k \in idx(s, t)}
    <2>1. TablesMatch(dbList[d][s], rows, Len(rows), s)
      BY <1>1 DEF SchemasMatch
    <2> QED BY <1>3, <1>4, <2>1 DEF TablesMatch, IndexesMatch
  <1> QED BY <1>5, <1>6 DEF rows, of, idx

\* The list of a database read from the server holds exactly the schemas and
\* tables it answered and no ignored one, each with all of its indexes once,
\* in whatever order its rows came (buildSchemaListForDatabase).
THEOREM ListMatches == Spec => []ListMatchesServer
  <1>1. Init => LoopTypes /\ ListInv
    BY InitLoop, InitList DEF IInv
  <1>2. (LoopTypes /\ ListInv) /\ [Next]_vars => (LoopTypes /\ ListInv)'
    BY StepTypes, StepList
  <1>3. LoopTypes /\ ListInv => ListMatchesServer
    BY MatchIsList DEF LoopTypes
  <1> QED BY <1>1, <1>2, <1>3, PTL DEF Spec
=============================================================================
