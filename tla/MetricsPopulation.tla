------------------------- MODULE MetricsPopulation -------------------------
(***************************************************************************)
(* PopulateMetrics (metrics.go): the queries that fill the metric sets of  *)
(* the instance, the databases, their tables and indexes, and pgbouncer.   *)
(* Which queries run depends on the server version and on the collection   *)
(* list; every query and every connection may fail, and the loops over the *)
(* list visit its databases in the random order of Go's maps.              *)
(*                                                                         *)
(* A version is major * 10 + minor for 9.x and major * 10 above, so 91 is  *)
(* 9.1 and 120 is 12.0.  A query stands for its QueryDefinition.           *)
(***************************************************************************)
EXTENDS Integers, FiniteSets, Sequences, TLC

CONSTANTS
  Lists,        \* the DatabaseLists that may have been built
  Versions,     \* server versions
  Server        \* stands for the instance in pairs <<subject, query>>

ASSUME PopulationAssumption ==
  /\ Versions \subseteq Nat
  /\ \A l \in Lists : IsFiniteSet(DOMAIN l) /\ Server \notin DOMAIN l

VARIABLES
  list, version,
  collectBloat, collectDbLocks, haveTablefunc, collectPgBouncer,
  pc,           \* the Populate function that runs
  todo,         \* databases its range loop has not visited
  db,           \* database the loop is in, or Server
  queue,        \* queries still to run over the current connection
  dialled,      \* the current connection has reached the server
  open,         \* connections the server holds for the integration
  ran,          \* in this function, pairs <<subject, query>> that answered
  lost,         \* in this function, pairs whose query failed
  refused       \* in this function, databases with no connection

argVars == <<list, version, collectBloat, collectDbLocks, haveTablefunc,
             collectPgBouncer>>
vars == <<argVars, pc, todo, db, queue, dialled, open, ran, lost, refused>>

-----------------------------------------------------------------------------
(* Which queries run *)

\* The first entry of versionDefinitions the version reaches.
generateInstanceDefinitions(v) ==
  CASE v >= 170 -> <<"instanceBase170", "instance170", "instanceIO170">>
    [] v < 170 /\ v >= 92 -> <<"instanceBase", "instance91", "instance92">>
    [] v = 91 -> <<"instanceBase", "instance91">>
    [] v < 91 -> <<"instanceBase">>

generateDatabaseDefinitions(v, databases) ==
  IF DOMAIN databases = {} THEN <<>>
  ELSE (IF v < 91 THEN <<"databaseUnder91">> ELSE <<"databaseOver91">>)
         \o (IF v >= 92 THEN <<"databaseOver92">> ELSE <<>>)

generateLockDefinitions(databases) ==
  IF DOMAIN databases = {} THEN <<>> ELSE <<"lock">>

\* insertSchemaTables and insertSchemaTableIndexes leave no query behind when
\* there is nothing to insert.
SchemaTables(schemas) ==
  UNION {{<<s, t>> : t \in DOMAIN schemas[s]} : s \in DOMAIN schemas}

SchemaTableIndexes(schemas) ==
  UNION {{<<st, k>> : k \in DOMAIN schemas[st[1]][st[2]]}
           : st \in SchemaTables(schemas)}

\* Mutation: version 12.0 still gets the query for older servers.
generateTableDefinitionsOld(v, bloat, schemas) ==
  IF SchemaTables(schemas) = {} THEN <<>>
  ELSE (IF ~bloat THEN <<>>
        ELSE IF v > 120 THEN <<"tableBloatPostV12">> ELSE <<"tableBloat">>)
         \o <<"table">>

generateTableDefinitions(v, bloat, schemas) ==
  IF SchemaTables(schemas) = {} THEN <<>>
  ELSE (IF ~bloat THEN <<>>
        ELSE IF v >= 120 THEN <<"tableBloatPostV12">> ELSE <<"tableBloat">>)
         \o <<"table">>

generateIndexDefinitions(schemas) ==
  IF SchemaTableIndexes(schemas) = {} THEN <<>> ELSE <<"index">>

generatePgBouncerDefinitions == <<"pgbouncerStats", "pgbouncerPools">>

\* Server versions on which the columns a query reads exist, as the comments
\* over the definitions and the server's catalogs say: pg_stat_activity, which
\* the lock query joins by pid, has a procpid before 9.2.
Answerable(query, v) ==
  CASE query \in {"instanceBase", "instance91", "instance92"} ->
         v < 170 /\ (query = "instance91" => v >= 91)
                 /\ (query = "instance92" => v >= 92)
    [] query \in {"instanceBase170", "instance170", "instanceIO170"} -> v >= 170
    [] query = "databaseUnder91" -> v < 91
    [] query = "databaseOver91" -> v >= 91
    [] query \in {"databaseOver92", "lock"} -> v >= 92
    [] query = "tableBloat" -> v < 120
    [] query = "tableBloatPostV12" -> v >= 120
    [] OTHER -> TRUE

-----------------------------------------------------------------------------
(* Control *)

Init ==
  /\ list \in Lists /\ version \in Versions
  /\ collectBloat \in BOOLEAN /\ collectDbLocks \in BOOLEAN
  /\ haveTablefunc \in BOOLEAN /\ collectPgBouncer \in BOOLEAN
  /\ pc = "connect" /\ todo = {} /\ db = Server /\ queue = <<>>
  /\ dialled = FALSE /\ open = 0
  /\ ran = {} /\ lost = {} /\ refused = {}

PerDatabase == {"tables", "indexes"}

After(p) ==
  CASE p = "instance" -> "database" [] p = "database" -> "locks"
    [] p = "locks" -> "tables"      [] p = "tables" -> "indexes"
    [] p = "indexes" -> "custom"    [] p = "custom" -> "pgbouncer"

\* The queries a phase runs over the connection it starts with.
Queue(p) ==
  CASE p = "database" -> generateDatabaseDefinitions(version, list)
    [] p = "locks" /\ collectDbLocks /\ haveTablefunc ->
         generateLockDefinitions(list)
    [] p = "pgbouncer" /\ collectPgBouncer -> generatePgBouncerDefinitions
    [] OTHER -> <<>>

\* The version query over the main connection; without it nothing is
\* collected.  sqlx dials with the first query.
CollectVersion ==
  /\ pc = "connect"
  /\ \/ /\ pc' = "instance"
        /\ queue' = generateInstanceDefinitions(version)
        /\ open' = 1 /\ dialled' = TRUE
     \/ /\ pc' = "done"
        /\ UNCHANGED <<queue, open, dialled>>
  /\ UNCHANGED <<argVars, todo, db, ran, lost, refused>>

Dial == dialled' = TRUE /\ open' = IF dialled THEN open ELSE open + 1

\* The server rejects a query its catalogs have no columns for.
QueryAnswers ==
  /\ queue # <<>> /\ Answerable(Head(queue), version)
  /\ Dial
  /\ ran' = ran \cup {<<db, Head(queue)>>}
  /\ queue' = Tail(queue)
  /\ UNCHANGED <<argVars, pc, todo, db, lost, refused>>

\* Instance and database queries are independent of each other; a failing
\* table, index or pgbouncer query returns from its function.
Rest == IF pc \in PerDatabase \cup {"pgbouncer"} THEN <<>> ELSE Tail(queue)

\* Mutation: a query that fails is sent again.
QueryFailsRetry ==
  /\ queue # <<>>
  /\ Dial \/ UNCHANGED <<dialled, open>>
  /\ lost' = lost \cup {<<db, Head(queue)>>}
  /\ UNCHANGED queue
  /\ UNCHANGED <<argVars, pc, todo, db, ran, refused>>

QueryFails ==
  /\ queue # <<>>
  /\ Dial \/ UNCHANGED <<dialled, open>>
  /\ lost' = lost \cup {<<db, Head(queue)>>}
  /\ queue' = Rest
  /\ UNCHANGED <<argVars, pc, todo, db, ran, refused>>

\* One turn of the range loops of PopulateTableMetrics and
\* PopulateIndexMetrics.  Only the first looks at the length of the schema
\* list, and returns from the whole loop when it is zero.
EnterDatabase ==
  /\ pc \in PerDatabase /\ queue = <<>>
  /\ \E d \in todo :
       /\ db' = d /\ dialled' = FALSE
       /\ IF pc = "tables" /\ DOMAIN list[d] = {}
          THEN todo' = {} /\ queue' = <<>>
          ELSE /\ todo' = todo \ {d}
               /\ queue' = IF pc = "indexes"
                           THEN generateIndexDefinitions(list[d])
                           ELSE generateTableDefinitions(version, collectBloat,
                                                         list[d])
  /\ UNCHANGED <<argVars, pc, open, ran, lost, refused>>

\* Mutation: one refused connection ends the loop.
NoConnectionReturn ==
  /\ pc \in PerDatabase /\ queue = <<>>
  /\ \E d \in todo :
       /\ pc = "tables" => DOMAIN list[d] # {}
       /\ todo' = {}
       /\ refused' = refused \cup {d}
  /\ UNCHANGED <<argVars, pc, db, queue, dialled, open, ran, lost>>

\* NewConnection fails for one database; the loop continues with the others.
NoConnection ==
  /\ pc \in PerDatabase /\ queue = <<>>
  /\ \E d \in todo :
       /\ pc = "tables" => DOMAIN list[d] # {}
       /\ todo' = todo \ {d}
       /\ refused' = refused \cup {d}
  /\ UNCHANGED <<argVars, pc, db, queue, dialled, open, ran, lost>>

\* Mutation: the connections of a finished loop stay open.
NextPhaseLeaks ==
  /\ pc \notin {"connect", "custom", "pgbouncer", "done"}
  /\ queue = <<>> /\ todo = {}
  /\ pc' = After(pc)
  /\ queue' = Queue(pc') /\ db' = Server /\ dialled' = TRUE
  /\ todo' = IF pc' \in PerDatabase THEN DOMAIN list ELSE {}
  /\ ran' = {} /\ lost' = {} /\ refused' = {}
  /\ UNCHANGED <<argVars, open>>

\* A loop's deferred Close calls run when its function returns.
NextPhase ==
  /\ pc \notin {"connect", "custom", "pgbouncer", "done"}
  /\ queue = <<>> /\ todo = {}
  /\ pc' = After(pc)
  /\ queue' = Queue(pc') /\ db' = Server /\ dialled' = TRUE
  /\ todo' = IF pc' \in PerDatabase THEN DOMAIN list ELSE {}
  /\ open' = 1
  /\ ran' = {} /\ lost' = {} /\ refused' = {}
  /\ UNCHANGED <<argVars>>

\* The custom query runs over the main connection; which of its rows become
\* metric sets is left out.  Then NewConnection to pgbouncer may fail.
PopulateCustomMetrics ==
  /\ pc = "custom"
  /\ pc' = "pgbouncer"
  /\ \/ queue' = Queue("pgbouncer") /\ dialled' = FALSE
     \/ queue' = <<>> /\ UNCHANGED dialled
  /\ ran' = {} /\ lost' = {} /\ refused' = {}
  /\ UNCHANGED <<argVars, todo, db, open>>

\* PopulateMetrics returns and closes its two connections.
Finish ==
  /\ pc = "pgbouncer" /\ queue = <<>>
  /\ pc' = "done" /\ open' = 0
  /\ UNCHANGED <<argVars, todo, db, queue, dialled, ran, lost, refused>>

Next == \/ CollectVersion \/ QueryAnswers \/ QueryFails \/ EnterDatabase
        \/ NoConnection \/ NextPhase \/ PopulateCustomMetrics \/ Finish

Spec == Init /\ [][Next]_vars

-----------------------------------------------------------------------------
\* Type correctness, and that a query of a function is sent once.
TypeOK ==
  /\ pc \in {"connect", "instance", "database", "locks", "tables", "indexes",
             "custom", "pgbouncer", "done"}
  /\ todo \subseteq DOMAIN list
  /\ db \in DOMAIN list \cup {Server}
  /\ open \in Nat /\ dialled \in BOOLEAN
  /\ ran \cap lost = {}

\* No query is sent to a server whose catalogs lack its columns, the exact
\* boundary versions included, and none is sent for objects not listed.  The
\* exception is the lock query: there is one for all versions, and before 9.2,
\* with locks asked for and tablefunc installed, it is sent in vain.
QueriesFitServer ==
  \A p \in ran \cup lost :
    /\ \/ Answerable(p[2], version)
       \/ p[2] = "lock" /\ version < 92 /\ p \notin ran
    /\ p[2] \in {"tableBloat", "tableBloatPostV12", "table"} =>
         SchemaTables(list[p[1]]) # {}
    /\ p[2] = "index" => SchemaTableIndexes(list[p[1]]) # {}

\* The Populate function p has nothing left to do.
Over(p) == pc = p /\ queue = <<>> /\ todo = {}

\* Query k of a sequence ran, failed, or comes after one that failed.
Accounted(d, queries) ==
  \A k \in DOMAIN queries :
    \/ <<d, queries[k]>> \in ran
    \/ d \in refused
    \/ \E j \in 1 .. k : <<d, queries[j]>> \in lost

TablesAccounted ==
  \A d \in DOMAIN list :
    Accounted(d, generateTableDefinitions(version, collectBloat, list[d]))

\* Failures are local: whatever order the databases come in, a database that
\* refuses a connection or fails a query costs only its own remaining
\* queries, and a failing instance or database query costs only itself.
\* For tables this needs every database to have a schema in the list.
LossIsLocal ==
  /\ Over("instance") =>
       \A k \in DOMAIN generateInstanceDefinitions(version) :
         <<Server, generateInstanceDefinitions(version)[k]>> \in ran \cup lost
  /\ Over("database") =>
       \A k \in DOMAIN Queue("database") :
         <<Server, Queue("database")[k]>> \in ran \cup lost
  /\ Over("tables") /\ (\A d \in DOMAIN list : DOMAIN list[d] # {}) =>
       TablesAccounted
  /\ Over("indexes") =>
       \A d \in DOMAIN list : Accounted(d, generateIndexDefinitions(list[d]))

\* The documented promise of the hash form, object by object: the tables of
\* every database in the list are collected unless that database fails.
ListedTablesCollected == Over("tables") => TablesAccounted

\* The loops hold at most one connection per listed database beside the main
\* one, and give all of them back before the next function runs; pgbouncer's
\* is the only other one beside it, and in the end there is none.
ConnectionsReturned ==
  open <= CASE pc \in PerDatabase -> 1 + Cardinality(DOMAIN list)
            [] pc = "pgbouncer" -> 2
            [] pc \in {"connect", "done"} -> 0
            [] OTHER -> 1
=============================================================================
