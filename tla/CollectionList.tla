--------------------------- MODULE CollectionList ---------------------------
(***************************************************************************)
(* Building the list of objects to collect (collection.go).  The argument  *)
(* collection_list is the word ALL, a JSON hash that already is the list,  *)
(* or a JSON array of databases whose schemas are read from the server.    *)
(* Databases are read one after the other; the deferred con.Close() calls  *)
(* run when the whole loop returns, so each keeps its server connection.   *)
(***************************************************************************)
EXTENDS Integers, FiniteSets, SequencesExt

CONSTANTS
  Db,           \* database names
  Null,         \* a NULL column
  RowLists,     \* what dbSchemaQuery may answer: sequences of rows
  Hashes,       \* the DatabaseLists a JSON hash may spell
  NameLists,    \* the JSON arrays, and what pg_database may hold
  IgnorableDbs, \* the values of collection_ignore_database_list
  IgnorableTables, \* and of collection_ignore_table_list
  Slots         \* connections the server still has for this role

ASSUME CollectionAssumption ==
  /\ NameLists \subseteq Seq(Db)
  /\ \A rows \in RowLists : rows \in Seq(ToSet(rows))
  /\ Slots \in Nat

VARIABLES
  form,         \* "all", "hash", "array" or "malformed"
  hash,         \* the list, when form is "hash"
  ignoreDb, ignoreTable,
  pc,           \* "parse", "loop" or "returned"
  names, pos,   \* dbNames and the next one to read
  held,         \* server connections whose Close is deferred
  dbList,       \* the DatabaseList built so far
  error,        \* what BuildCollectionList returned beside it
  answer,       \* rows a database answered last, a history variable
  failed        \* databases that refused a connection or the query

argVars == <<form, hash, ignoreDb, ignoreTable>>
vars == <<argVars, pc, names, pos, held, dbList, error, answer, failed>>

EmptyList == [d \in {} |-> <<>>]

Init ==
  /\ form \in {"all", "hash", "array", "malformed"}
  /\ hash \in (IF form = "hash" THEN Hashes ELSE {EmptyList})
  /\ ignoreDb \in IgnorableDbs /\ ignoreTable \in IgnorableTables
  /\ pc = "parse" /\ names = <<>> /\ pos = 1 /\ held = 0
  /\ dbList = EmptyList /\ error = FALSE
  /\ answer = [d \in Db |-> <<>>] /\ failed = {}

-----------------------------------------------------------------------------
(* The rows of buildSchemaListForDatabase *)

\* Assigning to a Go map, and reading an entry that is made when it is absent.
Put(map, key, value) ==
  [x \in DOMAIN map \cup {key} |-> IF x = key THEN value ELSE map[x]]
Entry(map, key) == IF key \in DOMAIN map THEN map[key] ELSE <<>>

\* A table of its schema, with the index appended when the row has one.
WithIndex(tables, row) ==
  LET old == Entry(tables, row.table)
  IN  Put(tables, row.table,
          IF row.index = Null THEN old ELSE Append(old, row.index))

Skipped(row) == row.schema = Null \/ row.table = Null
                  \/ row.table \in ignoreTable

\* Mutation: the schema's table list is made anew for every row.
AddRowForgets(schemas, row) ==
  IF Skipped(row) THEN schemas
  ELSE Put(schemas, row.schema, WithIndex(<<>>, row))

AddRow(schemas, row) ==
  IF Skipped(row) THEN schemas
  ELSE Put(schemas, row.schema, WithIndex(Entry(schemas, row.schema), row))

\* The schema list after each number of rows.
SchemaLists(rows) ==
  LET after[k \in 0 .. Len(rows)] ==
        IF k = 0 THEN <<>> ELSE AddRow(after[k - 1], rows[k])
  IN  after

buildSchemaListForDatabase(rows) == SchemaLists(rows)[Len(rows)]

-----------------------------------------------------------------------------
Return(list, err) ==
  /\ pc' = "returned"
  /\ dbList' = list
  /\ error' = err
  /\ held' = 0

\* An ignore list that is no JSON array, or a collection_list of no known
\* form, is an error before the server is asked.
Reject ==
  /\ pc = "parse"
  /\ Return(EmptyList, TRUE)
  /\ UNCHANGED <<argVars, names, pos, answer, failed>>

\* Mutation: the databases to ignore stay in a list given as a hash.
ParseHashWhole ==
  /\ pc = "parse" /\ form = "hash"
  /\ Return(hash, FALSE)
  /\ UNCHANGED <<argVars, names, pos, answer, failed>>

ParseHash ==
  /\ pc = "parse" /\ form = "hash"
  /\ Return([d \in DOMAIN hash \ ignoreDb |-> hash[d]], FALSE)
  /\ UNCHANGED <<argVars, names, pos, answer, failed>>

\* The array is at hand; ALL asks pg_database, where names are distinct, over
\* a connection it closes.
\* With no name at all the list stays nil, which is no error.
ParseNames ==
  /\ pc = "parse" /\ form \in {"all", "array"}
  /\ names' \in NameLists
  /\ form = "all" => IsInjective(names')
  /\ IF names' = <<>> THEN Return(EmptyList, FALSE)
     ELSE pc' = "loop" /\ UNCHANGED <<held, dbList, error>>
  /\ UNCHANGED <<argVars, pos, answer, failed>>

More == pc = "loop" /\ pos <= Len(names)

\* Mutation: the name after an ignored one is passed over unseen.
IgnoreDatabaseAndNext ==
  /\ More /\ names[pos] \in ignoreDb
  /\ pos' = pos + 2
  /\ UNCHANGED <<argVars, pc, names, held, dbList, error, answer, failed>>

IgnoreDatabase ==
  /\ More /\ names[pos] \in ignoreDb
  /\ pos' = pos + 1
  /\ UNCHANGED <<argVars, pc, names, held, dbList, error, answer, failed>>

ReadSchemas ==
  /\ More /\ names[pos] \notin ignoreDb
  /\ held < Slots
  /\ held' = held + 1
  /\ \E rows \in RowLists :
       /\ answer' = [answer EXCEPT ![names[pos]] = rows]
       /\ dbList' = Put(dbList, names[pos], buildSchemaListForDatabase(rows))
  /\ pos' = pos + 1
  /\ UNCHANGED <<argVars, pc, names, error, failed>>

\* Mutation: the loop returns at the first database that fails.
DatabaseFailsReturn ==
  /\ More /\ names[pos] \notin ignoreDb
  /\ failed' = failed \cup {names[pos]}
  /\ Return(dbList, FALSE)
  /\ UNCHANGED <<argVars, names, pos, answer>>

\* The server refuses this database or fails the query, after it was dialled
\* or before; the error is logged and the loop goes on.
DatabaseFails ==
  /\ More /\ names[pos] \notin ignoreDb
  /\ \/ held' = held
     \/ held < Slots /\ held' = held + 1
  /\ failed' = failed \cup {names[pos]}
  /\ pos' = pos + 1
  /\ UNCHANGED <<argVars, pc, names, dbList, error, answer>>

\* The same path, because the earlier databases hold every connection.
NoConnectionLeft ==
  /\ More /\ names[pos] \notin ignoreDb
  /\ held = Slots
  /\ pos' = pos + 1
  /\ UNCHANGED <<argVars, pc, names, held, dbList, error, answer, failed>>

\* Mutation: an empty result is returned as a success.
LoopEndsSilently ==
  /\ pc = "loop" /\ pos > Len(names)
  /\ Return(dbList, FALSE)
  /\ UNCHANGED <<argVars, names, pos, answer, failed>>

LoopEnds ==
  /\ pc = "loop" /\ pos > Len(names)
  /\ Return(dbList, DOMAIN dbList = {})
  /\ UNCHANGED <<argVars, names, pos, answer, failed>>

Next == \/ Reject \/ ParseHash \/ ParseNames \/ IgnoreDatabase \/ ReadSchemas
        \/ DatabaseFails \/ NoConnectionLeft \/ LoopEnds

Spec == Init /\ [][Next]_vars

-----------------------------------------------------------------------------
Returned == pc = "returned"
Success == Returned /\ ~error

\* Type correctness of the loop over the names and of the list it builds.
TypeOK ==
  /\ form \in {"all", "hash", "array", "malformed"}
  /\ pc \in {"parse", "loop", "returned"}
  /\ pos \in 1 .. Len(names) + 1
  /\ held \in 0 .. Slots
  /\ DOMAIN dbList \subseteq Db \cup DOMAIN hash
  /\ error \in BOOLEAN /\ failed \subseteq Db

\* The rows of an answer that name a table to collect.
Wanted(rows) == {k \in DOMAIN rows : ~Skipped(rows[k])}

\* The list of a database read from the server holds exactly the schemas and
\* tables it answered and no ignored one, each table with all of its indexes
\* once, in whatever order the outer join delivers the rows.
ListMatchesServer ==
  \A d \in DOMAIN dbList : form # "hash" =>
    LET rows == answer[d]
        of(s) == {k \in Wanted(rows) : rows[k].schema = s}
        idx(s, t) == {k \in of(s) : rows[k].table = t /\ rows[k].index # Null}
    IN  /\ DOMAIN dbList[d] = {rows[k].schema : k \in Wanted(rows)}
        /\ \A s \in DOMAIN dbList[d] :
             /\ DOMAIN dbList[d][s] = {rows[k].table : k \in of(s)}
             /\ \A t \in DOMAIN dbList[d][s] :
                  /\ Len(dbList[d][s][t]) = Cardinality(idx(s, t))
                  /\ ToSet(dbList[d][s][t]) = {rows[k].index : k \in idx(s, t)}

\* One failing database costs no other its place: as long as the server has
\* a connection for each name, every named database that is not ignored and
\* answers is in the list, and then the list is returned without an error.
HealthyDatabasesListed ==
  Returned /\ Len(names) <= Slots =>
    \A d \in ToSet(names) \ (ignoreDb \cup failed) :
      ~error /\ d \in DOMAIN dbList

\* Whatever form the argument has, an ignored database is not collected, and
\* naming databases never succeeds with nothing to collect.
IgnoredOrEmptyNeverReturned ==
  Success => /\ DOMAIN dbList \cap ignoreDb = {}
             /\ names # <<>> => DOMAIN dbList # {}

\* The configuration's promise for collection_ignore_table_list: the tables
\* it names are ignored for metrics collection.
IgnoredTablesNeverCollected ==
  Success => \A d \in DOMAIN dbList : \A s \in DOMAIN dbList[d] :
               DOMAIN dbList[d][s] \cap ignoreTable = {}
=============================================================================
