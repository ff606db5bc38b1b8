---------------------------- MODULE ListedObjects ----------------------------
(***************************************************************************)
(* From the collection list to entities: the list becomes keys in the text *)
(* of a query, the query selects the objects of the server with such a     *)
(* key, and each row of the answer becomes a metric set of the entity its  *)
(* names lead to (metrics.go:313-536, metric_types.go, modelers.go).       *)
(*                                                                         *)
(* The list was built some time before the queries run, or written by      *)
(* hand, and objects come and go meanwhile.  An object is a record         *)
(* [db, path] with no names in the path of a database, two in that of a    *)
(* table and three in that of an index.  A name is the sequence of its     *)
(* parts, at least one: the name "b.c" has two.                            *)
(*                                                                         *)
(* A list may name more than the queries can report: the collection takes  *)
(* views, system, foreign and partitioned tables for tables                *)
(* (collection.go:17-23), and a template database can be named by hand.    *)
(* These are Unseen; they exist and can be listed like the others.         *)
(*                                                                         *)
(* Module MetricsPopulation has the connections and the choice of queries; *)
(* here the server is a current one and every optional query is asked for. *)
(***************************************************************************)
EXTENDS Integers, SequencesExt

CONSTANTS
  Objects,      \* what may exist in the databases of the server
  Lists,        \* collection lists: for each database in them, the paths of
                \* the schemas, tables and indexes listed
  Unseen,       \* those the statistics views, pg_tables and the condition on
                \* datistemplate leave out
  QuotedParts,  \* parts of names with a single quote in them
  Pools,        \* what pgbouncer answers: rows [database, user]
  NoName,       \* the database of a row without one
  MaxChanges    \* bound on the objects that come or go during the queries

VARIABLES
  list,
  catalog,      \* objects that exist now
  lasting,      \* objects that have existed all the time
  jobs,         \* queries still to run
  samples,      \* metric sets: definition, entity, and what the row was about
  failed,       \* queries that failed
  changes

vars == <<list, catalog, lasting, jobs, samples, failed, changes>>

Kind(o) == CASE o.path = <<>> -> "pg-database"
             [] Len(o.path) = 2 -> "pg-table"
             [] Len(o.path) = 3 -> "pg-index"

Name == Seq(STRING) \ {NoName}

ListedAssumption ==
  /\ NoName = <<>>
  /\ Objects \subseteq [db : Name, path : Seq(Name)]
  /\ \A o \in Objects : Len(o.path) \in {0, 2, 3}
  /\ Unseen \subseteq Objects /\ QuotedParts \subseteq STRING
  /\ Pools \subseteq [database : Name \cup {NoName}, user : STRING]
  /\ \A l \in Lists :
       /\ IsFiniteSet(DOMAIN l)
       /\ \A d \in DOMAIN l : \A p \in l[d] :
            /\ p \in Seq(Name) /\ Len(p) \in 1 .. 3
            /\ Len(p) > 1 => Front(p) \in l[d]
  /\ MaxChanges \in Nat

\* o belongs to p: a table to its database, an index to its table.
Within(o, p) == o.db = p.db /\ IsPrefix(p.path, o.path)

-----------------------------------------------------------------------------
(* From the list to the queries *)

Definitions(kind) ==
  CASE kind = "pg-database" -> <<"databaseOver91", "databaseOver92", "lock">>
    [] kind = "pg-table"    -> <<"tableBloatPostV12", "table">>
    [] kind = "pg-index"    -> <<"index">>
    [] kind = "pgbouncer"   -> <<"pgbouncerStats", "pgbouncerPools">>

Paths(l, d, kind) ==
  {p \in l[d] : Len(p) = IF kind = "pg-table" THEN 2 ELSE 3}

\* No query is left of a definition when there is nothing to insert.
JobsIn(l, d, kind) ==
  IF Paths(l, d, kind) = {} THEN <<>>
  ELSE [k \in DOMAIN Definitions(kind) |->
          [kind |-> kind, db |-> d, def |-> Definitions(kind)[k]]]

JobsOf(l, order, kind) ==
  FlattenSeq([k \in DOMAIN order |-> JobsIn(l, order[k], kind)])

ServerJobs(kind) ==
  [k \in DOMAIN Definitions(kind) |->
     [kind |-> kind, db |-> NoName, def |-> Definitions(kind)[k]]]

\* PopulateTableMetrics returns at a database with an empty schema list.
BeforeEmpty(l, order) ==
  LET empty == SelectInSeq(order, LAMBDA d : l[d] = {})
  IN  IF empty = 0 THEN order ELSE SubSeq(order, 1, empty - 1)

\* Both loops visit the databases in an order of their own.
Jobs(l, tables, indexes) ==
  (IF DOMAIN l = {} THEN <<>> ELSE ServerJobs("pg-database"))
    \o JobsOf(l, BeforeEmpty(l, tables), "pg-table")
    \o JobsOf(l, indexes, "pg-index")
    \o ServerJobs("pgbouncer")

Init ==
  /\ list \in Lists
  /\ catalog = Objects /\ lasting = Objects
  /\ \E tables, indexes \in SetToSeqs(DOMAIN list) :
       jobs = Jobs(list, tables, indexes)
  /\ samples = {} /\ failed = {} /\ changes = 0

-----------------------------------------------------------------------------
(* From the rows to the entities *)

\* Mutation: the key is the last name.
KeyLast(path) == Last(path)

\* 'schema.table' and 'schema.table.index', here and in the WHERE clauses.
Key(path) == FlattenSeq(path)

Keys(d, kind) == {Key(p) : p \in Paths(list, d, kind)}

\* Locks are reported of a database whose sessions hold some, template or
\* not, bloat of a table of pg_class that has statistics.
Sparse == {"lock", "tableBloatPostV12"}

\* What the relations in a query's FROM hold and its WHERE lets through.
Selected(j, o) ==
  /\ Kind(o) = j.kind
  /\ j.def \in Sparse \/ o \notin Unseen
  /\ IF j.kind = "pg-database" THEN o.db \in DOMAIN list
     ELSE o.db = j.db /\ Key(o.path) \in Keys(j.db, j.kind)

\* Mutation: a pgbouncer row without a database is kept.
AnswersNameless(j) ==
  IF j.kind = "pgbouncer" THEN {Pools}
  ELSE LET all == {o \in catalog : Selected(j, o)}
       IN  IF j.def \in Sparse THEN SUBSET all ELSE {all}

Answers(j) ==
  IF j.kind = "pgbouncer" THEN {{p \in Pools : p.database # NoName}}
  ELSE LET all == {o \in catalog : Selected(j, o)}
       IN  IF j.def \in Sparse THEN SUBSET all ELSE {all}

Inserted(j) ==
  CASE j.kind = "pg-database" -> {<<d>> : d \in DOMAIN list}
    [] j.kind = "pgbouncer"   -> {}
    [] OTHER                  -> Paths(list, j.db, j.kind)

\* Names stand between single quotes as they are, so one with such a quote
\* makes the whole query a syntax error.  (With doubled quotes it would not be
\* one, but ask for another name; no name here has them.)
Malformed(j) == \E p \in Inserted(j) : Range(Key(p)) \cap QuotedParts # {}

\* Mutation: no schema among the attributes of a table's or index's entity.
EntityNoSchema(kind, o) ==
  IF kind = "pgbouncer" THEN [namespace |-> kind, name |-> o.database, in |-> <<>>]
  ELSE IF kind = "pg-database" THEN [namespace |-> kind, name |-> o.db, in |-> <<>>]
  ELSE [namespace |-> kind, name |-> Last(o.path),
        in |-> <<o.db>> \o Tail(Front(o.path))]

\* The name and the id attributes host, port, pg-database, pg-schema and
\* pg-table; the first two are the same for all.
Entity(kind, o) ==
  IF kind = "pgbouncer" THEN [namespace |-> kind, name |-> o.database, in |-> <<>>]
  ELSE IF kind = "pg-database" THEN [namespace |-> kind, name |-> o.db, in |-> <<>>]
  ELSE [namespace |-> kind, name |-> Last(o.path), in |-> <<o.db>> \o Front(o.path)]

Answer ==
  /\ jobs # <<>> /\ ~Malformed(Head(jobs))
  /\ \E rows \in Answers(Head(jobs)) :
       samples' = samples \cup
         {[def |-> Head(jobs).def, entity |-> Entity(Head(jobs).kind, o), of |-> o]
            : o \in rows}
  /\ jobs' = Tail(jobs)
  /\ UNCHANGED <<list, catalog, lasting, failed, changes>>

\* Mutation: a turn goes on as long as the kind is the same.
SameKind(j, k) == j.kind = k.kind

SameLoopTurn(j, k) == j.kind = k.kind /\ j.db = k.db

\* The first n jobs are those of the current turn of the loop.
TurnIs(n) ==
  /\ \A i \in 1 .. n : SameLoopTurn(jobs[i], Head(jobs))
  /\ n < Len(jobs) => ~SameLoopTurn(jobs[n + 1], Head(jobs))

\* processDatabaseDefinitions continues, the others return from the function
\* that has the connection.
Fail ==
  /\ jobs # <<>>
  /\ failed' = failed \cup {Head(jobs)}
  /\ \E n \in 1 .. Len(jobs) :
       /\ IF Head(jobs).kind = "pg-database" THEN n = 1 ELSE TurnIs(n)
       /\ jobs' = SubSeq(jobs, n + 1, Len(jobs))
  /\ UNCHANGED <<list, catalog, lasting, samples, changes>>

-----------------------------------------------------------------------------
(* The server's other clients *)

Drop(o) ==
  /\ jobs # <<>> /\ changes < MaxChanges
  /\ o \in catalog /\ Kind(o) # "pg-database"
  /\ catalog' = {p \in catalog : ~Within(p, o)}
  /\ lasting' = lasting \cap catalog'
  /\ changes' = changes + 1
  /\ UNCHANGED <<list, jobs, samples, failed>>

Create(o) ==
  /\ jobs # <<>> /\ changes < MaxChanges
  /\ o \in Objects \ catalog
  /\ \A p \in Objects : Within(o, p) /\ p # o => p \in catalog
  /\ catalog' = catalog \cup {o}
  /\ changes' = changes + 1
  /\ UNCHANGED <<list, lasting, jobs, samples, failed>>

Next == Answer \/ Fail \/ \E o \in Objects : Drop(o) \/ Create(o)

Spec == Init /\ [][Next]_vars

-----------------------------------------------------------------------------
(* Properties *)

\* Type correctness, and that every entity has a name.
TypeOK ==
  /\ list \in Lists
  /\ lasting \subseteq catalog /\ catalog \subseteq Objects
  /\ changes \in 0 .. MaxChanges
  /\ \A s \in samples : s.of \in Objects \cup Pools /\ s.entity.name # NoName

Listed(o) ==
  o.db \in DOMAIN list /\ (o.path = <<>> \/ o.path \in list[o.db])

\* The query of definition k was lost: it failed or, except for databases,
\* one before it failed in the same turn of the loop.
Lost(o, k) ==
  \E f \in failed :
    /\ f.kind = Kind(o)
    /\ IF f.kind = "pg-database" THEN f.def = Definitions(f.kind)[k]
       ELSE f.db = o.db /\ \E j \in 1 .. k : Definitions(f.kind)[j] = f.def

Reported(o, def) == \E s \in samples : s.of = o /\ s.def = def

NoEmptyDatabase == \A d \in DOMAIN list : list[d] # {}

\* Every listed object that exists as long as the queries run gets a metric
\* set for each definition, whatever comes and goes beside it, unless a query
\* of its own database failed, as one with a quoted name always does; tables
\* if no database of the list is empty.  It says nothing of what is listed but
\* Unseen: that gets no set of these definitions, although the sample
\* configuration promises "all tables and indexes that belong to that
\* database" (postgresql-config.yml.sample:22-23).
ListedAreReported ==
  jobs = <<>> =>
    \A o \in {p \in lasting \ Unseen : Listed(p)} :
      \A k \in DOMAIN Definitions(Kind(o)) :
        \/ Definitions(Kind(o))[k] \in Sparse
        \/ Reported(o, Definitions(Kind(o))[k])
        \/ Lost(o, k)
        \/ Kind(o) = "pg-table" /\ ~NoEmptyDatabase

\* Two objects never share an entity: tables of the same name in two schemas
\* or databases, indexes of the same name, and a database and the pgbouncer
\* database of its name stay apart.
EntityOfItsOwn ==
  \A s, t \in samples :
    s.entity = t.entity =>
      \/ s.of = t.of
      \/ s.of \in Pools /\ t.of \in Pools /\ s.of.database = t.of.database

Dotless(path) == \A k \in DOMAIN path : Len(path[k]) = 1

\* What is reported is listed (collection.go:39-40), if its names have no dot
\* or the list has none with the same key.
DotlessOnlyListed ==
  \A s \in samples :
    s.of \in Objects =>
      \/ Listed(s.of)
      \/ /\ ~Dotless(s.of.path)
         /\ \E p \in list[s.of.db] : ~Dotless(p) /\ Key(p) = Key(s.of.path)

\* Together: metrics.go:313-536 reports every listed object it can see, under an entity
\* of its own, and nothing else.
ListIsReported == ListedAreReported /\ EntityOfItsOwn /\ DotlessOnlyListed
=============================================================================
