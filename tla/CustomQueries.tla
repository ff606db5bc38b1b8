--------------------------- MODULE CustomQueries ---------------------------
(***************************************************************************)
(* Custom queries from a file (metrics.go, PopulateCustomMetricsFromFile   *)
(* and CollectCustomConfig): the main goroutine starts one goroutine per   *)
(* configured query, at most Limit at a time, waits for all of them and    *)
(* goes on to publish.  Each worker runs its deferred calls in reverse     *)
(* order: close the rows, close the connection, leave the semaphore, and   *)
(* last tell the WaitGroup.  A worker that panics runs them as well, with  *)
(* the other goroutines going on, and only then ends the process: main may *)
(* have returned from its wait and published before that.                  *)
(*                                                                         *)
(* A metric set is appended to the shared entity under the SDK's lock and  *)
(* only then filled, so a set exists before its values do.                 *)
(***************************************************************************)
EXTENDS Integers, FiniteSets

CONSTANTS
  NumQueries,   \* queries in the file
  Limit,        \* capacity of the semaphore channel, 10 in the code
  MaxRows,      \* bound on the rows a query returns
  DbNames,      \* database names, the empty one among them
  NoName        \* the empty name

Query == 1 .. NumQueries

ASSUME CustomAssumption ==
  /\ NumQueries \in Nat
  /\ Limit \in Nat \ {0}
  /\ MaxRows \in Nat
  /\ NoName \in DbNames

VARIABLES
  defaultDb,    \* ci.DatabaseName()
  cfgDb,        \* cfg.Database of every query
  mainPc,       \* load, spawn, go, publish or done
  next,         \* next query of the file
  sem,          \* tokens in the semaphore channel
  wg,           \* the WaitGroup's counter
  wpc,          \* control point of every worker
  open,         \* queries with a connection to the server
  entity,       \* name of the worker's entity, NoName when it is nil
  left,         \* rows the server still has for the worker
  scanned,      \* rows MapScan has read, a history variable
  created,      \* metric sets in the entity
  filled,       \* those whose values are set
  panicking,    \* workers unwinding, or done unwinding, after a panic
  crashed       \* the process is dead

cfgVars == <<defaultDb, cfgDb>>
rowVars == <<entity, left, scanned, created, filled>>
panicVars == <<panicking, crashed>>
vars == <<cfgVars, panicVars, mainPc, next, sem, wg, wpc, open, rowVars>>

Zero == [q \in Query |-> 0]

Init ==
  /\ defaultDb \in DbNames
  /\ cfgDb \in [Query -> DbNames]
  /\ mainPc = "load" /\ next = 1 /\ sem = 0 /\ wg = 0
  /\ wpc = [q \in Query |-> "none"]
  /\ open = {}
  /\ entity = [q \in Query |-> NoName]
  /\ left = Zero /\ scanned = Zero /\ created = Zero /\ filled = Zero
  /\ panicking = {} /\ crashed = FALSE

Running == ~crashed

\* dbName of CollectCustomConfig.
DbName(q) == IF cfgDb[q] = NoName THEN defaultDb ELSE cfgDb[q]

-----------------------------------------------------------------------------
(* The main goroutine *)

\* An unreadable or malformed file ends the collection before it starts.
Load ==
  /\ Running /\ mainPc = "load"
  /\ mainPc' \in {"spawn", "publish"}
  /\ UNCHANGED <<cfgVars, panicVars, next, sem, wg, wpc, open, rowVars>>

\* Mutation: a full semaphore lets one more worker in.
AcquireOneMore ==
  /\ Running /\ mainPc = "spawn" /\ next <= NumQueries
  /\ sem <= Limit
  /\ sem' = sem + 1
  /\ mainPc' = "go"
  /\ UNCHANGED <<cfgVars, panicVars, next, wg, wpc, open, rowVars>>

Acquire ==
  /\ Running /\ mainPc = "spawn" /\ next <= NumQueries
  /\ sem < Limit
  /\ sem' = sem + 1
  /\ mainPc' = "go"
  /\ UNCHANGED <<cfgVars, panicVars, next, wg, wpc, open, rowVars>>

AddAndGo ==
  /\ Running /\ mainPc = "go"
  /\ wg' = wg + 1
  /\ wpc' = [wpc EXCEPT ![next] = "connect"]
  /\ next' = next + 1
  /\ mainPc' = "spawn"
  /\ UNCHANGED <<cfgVars, panicVars, sem, open, rowVars>>

\* Mutation: main waits for the semaphore to drain instead of the WaitGroup.
WaitForTokens ==
  /\ Running /\ mainPc = "spawn" /\ next > NumQueries
  /\ sem = 0
  /\ mainPc' = "publish"
  /\ UNCHANGED <<cfgVars, panicVars, next, sem, wg, wpc, open, rowVars>>

\* Mutation: main does not wait.
WaitNever ==
  /\ Running /\ mainPc = "spawn" /\ next > NumQueries
  /\ mainPc' = "publish"
  /\ UNCHANGED <<cfgVars, panicVars, next, sem, wg, wpc, open, rowVars>>

Wait ==
  /\ Running /\ mainPc = "spawn" /\ next > NumQueries
  /\ wg = 0
  /\ mainPc' = "publish"
  /\ UNCHANGED <<cfgVars, panicVars, next, sem, wg, wpc, open, rowVars>>

\* main's Publish writes what the entities hold now, or fails and logs it.
Publish ==
  /\ Running /\ mainPc = "publish"
  /\ mainPc' = "done"
  /\ UNCHANGED <<cfgVars, panicVars, next, sem, wg, wpc, open, rowVars>>

-----------------------------------------------------------------------------
(* The worker of query q *)

Goto(q, from, to) ==
  /\ Running
  /\ wpc[q] = from
  /\ wpc' = [wpc EXCEPT ![q] = to]

\* Mutation: the early return on a connection error keeps the token.
NewConnectionKeepsToken(q) ==
  /\ \/ Goto(q, "connect", "query")
     \/ Goto(q, "connect", "wgDone")
  /\ UNCHANGED <<cfgVars, panicVars, mainPc, next, sem, wg, open, rowVars>>

NewConnection(q) ==
  /\ \/ Goto(q, "connect", "query")
     \/ Goto(q, "connect", "release")
  /\ UNCHANGED <<cfgVars, panicVars, mainPc, next, sem, wg, open, rowVars>>

\* Mutation: con.Close is not deferred before the query can fail.
QueryxLeaks(q) ==
  /\ \/ /\ Goto(q, "query", "entity")
        /\ open' = open \cup {q}
        /\ \E n \in 0 .. MaxRows : left' = [left EXCEPT ![q] = n]
     \/ /\ Goto(q, "query", "release")
        /\ open' \in {open, open \cup {q}}
        /\ UNCHANGED left
  /\ UNCHANGED <<cfgVars, panicVars, mainPc, next, sem, wg, entity, scanned,
                 created, filled>>

\* sqlx dials here.  The query may fail with the connection made or not.
Queryx(q) ==
  /\ \/ /\ Goto(q, "query", "entity")
        /\ open' = open \cup {q}
        /\ \E n \in 0 .. MaxRows : left' = [left EXCEPT ![q] = n]
     \/ /\ Goto(q, "query", "closeConn")
        /\ open' \in {open, open \cup {q}}
        /\ UNCHANGED left
  /\ UNCHANGED <<cfgVars, panicVars, mainPc, next, sem, wg, entity, scanned,
                 created, filled>>

\* Mutation: the entity is named after the file's database only.
EntityOfFile(q) ==
  /\ Goto(q, "entity", "next")
  /\ entity' = [entity EXCEPT ![q] = cfgDb[q]]
  /\ UNCHANGED <<cfgVars, panicVars, mainPc, next, sem, wg, open, left,
                 scanned, created, filled>>

\* Entity rejects an empty name; the error is logged and the entity stays nil.
Entity(q) ==
  /\ Goto(q, "entity", "next")
  /\ entity' = [entity EXCEPT ![q] = DbName(q)]
  /\ UNCHANGED <<cfgVars, panicVars, mainPc, next, sem, wg, open, left,
                 scanned, created, filled>>

\* rows.Next and MapScan: a row that cannot be scanned ends the worker.
NextRow(q) ==
  /\ left[q] > 0
  /\ left' = [left EXCEPT ![q] = @ - 1]
  /\ \/ /\ Goto(q, "next", "create")
        /\ scanned' = [scanned EXCEPT ![q] = @ + 1]
     \/ /\ Goto(q, "next", "closeRows")
        /\ UNCHANGED scanned
  /\ UNCHANGED <<cfgVars, panicVars, mainPc, next, sem, wg, open, entity,
                 created, filled>>

NoMoreRows(q) ==
  /\ left[q] = 0
  /\ Goto(q, "next", "closeRows")
  /\ UNCHANGED <<cfgVars, panicVars, mainPc, next, sem, wg, open, rowVars>>

NewMetricSet(q) ==
  /\ entity[q] # NoName
  /\ Goto(q, "create", "fill")
  /\ created' = [created EXCEPT ![q] = @ + 1]
  /\ UNCHANGED <<cfgVars, panicVars, mainPc, next, sem, wg, open, entity,
                 left, scanned, filled>>

\* NewMetricSet of a nil entity: the deferred calls from CloseRows on follow.
NilEntityPanic(q) ==
  /\ entity[q] = NoName
  /\ Goto(q, "create", "closeRows")
  /\ panicking' = panicking \cup {q}
  /\ UNCHANGED <<cfgVars, crashed, mainPc, next, sem, wg, open, rowVars>>

SetMetrics(q) ==
  /\ Goto(q, "fill", "next")
  /\ filled' = [filled EXCEPT ![q] = @ + 1]
  /\ UNCHANGED <<cfgVars, panicVars, mainPc, next, sem, wg, open, entity,
                 left, scanned, created>>

CloseRows(q) ==
  /\ Goto(q, "closeRows", "closeConn")
  /\ UNCHANGED <<cfgVars, panicVars, mainPc, next, sem, wg, open, rowVars>>

CloseConnection(q) ==
  /\ Goto(q, "closeConn", "release")
  /\ open' = open \ {q}
  /\ UNCHANGED <<cfgVars, panicVars, mainPc, next, sem, wg, rowVars>>

Release(q) ==
  /\ Goto(q, "release", "wgDone")
  /\ sem' = sem - 1
  /\ UNCHANGED <<cfgVars, panicVars, mainPc, next, wg, open, rowVars>>

WgDone(q) ==
  /\ Goto(q, "wgDone", IF q \in panicking THEN "dying" ELSE "done")
  /\ wg' = wg - 1
  /\ UNCHANGED <<cfgVars, panicVars, mainPc, next, sem, open, rowVars>>

\* With the deferred calls behind it, the panic ends the process.
Crash(q) ==
  /\ Goto(q, "dying", "done")
  /\ crashed' = TRUE
  /\ UNCHANGED <<cfgVars, panicking, mainPc, next, sem, wg, open, rowVars>>

Main == Load \/ Acquire \/ AddAndGo \/ Wait \/ Publish

Worker(q) ==
  \/ NewConnection(q) \/ Queryx(q) \/ Entity(q) \/ NextRow(q) \/ NoMoreRows(q)
  \/ NewMetricSet(q) \/ NilEntityPanic(q) \/ SetMetrics(q) \/ CloseRows(q)
  \/ CloseConnection(q) \/ Release(q) \/ WgDone(q)

Next == Main \/ \E q \in Query : Worker(q) \/ Crash(q)

Spec == Init /\ [][Next]_vars

\* The Go scheduler starves no runnable goroutine and server calls return.
\* Nothing is assumed of Crash: main may end the process before it.
FairSpec == Spec /\ WF_vars(Main) /\ \A q \in Query : WF_vars(Worker(q))

-----------------------------------------------------------------------------
Point == {"none", "connect", "query", "entity", "next", "create", "fill",
          "closeRows", "closeConn", "release", "wgDone", "dying", "done"}

\* Type correctness; the semaphore never holds more tokens than its capacity.
TypeOK ==
  /\ defaultDb \in DbNames /\ cfgDb \in [Query -> DbNames]
  /\ mainPc \in {"load", "spawn", "go", "publish", "done"}
  /\ next \in 1 .. NumQueries + 1
  /\ sem \in 0 .. Limit /\ wg \in 0 .. NumQueries
  /\ wpc \in [Query -> Point]
  /\ open \subseteq Query
  /\ entity \in [Query -> DbNames]
  /\ left \in [Query -> Nat] /\ scanned \in [Query -> Nat]
  /\ created \in [Query -> Nat] /\ filled \in [Query -> Nat]
  /\ panicking \subseteq Query /\ crashed \in BOOLEAN

\* The server never sees more than Limit connections of the custom queries:
\* a worker has closed its connection before it gives its token back.
ConnectionsWithinLimit == Cardinality(open) <= Limit

\* Publishing comes after every worker: what is sent for a query is all the
\* rows it scanned, every set filled, and no worker touches an entity later.
\* A query without a database name has nothing published, and at most the one
\* scanned row its worker panicked on: main may publish before the crash.
PublishSeesEveryRow ==
  mainPc \in {"publish", "done"} =>
    /\ \A q \in Query : wpc[q] \in {"none", "dying", "done"}
    /\ open = {} /\ filled = created
    /\ \A q \in Query : IF DbName(q) = NoName
                        THEN created[q] = 0 /\ scanned[q] <= 1
                        ELSE created[q] = scanned[q]

\* The process dies only for a query that has no database name from the file
\* or the arguments and returns a row; failing queries never kill it.
CrashNeedsUnnamedDatabase ==
  crashed => \E q \in Query : DbName(q) = NoName /\ scanned[q] > filled[q]

\* Channel, WaitGroup and deferred calls together implement the bounded pool:
\* a query runs from its go statement until it has given its token back.
InPool == {q \in Query : wpc[q] \notin {"none", "wgDone", "dying", "done"}}
Ended == {q \in Query : wpc[q] \in {"wgDone", "dying", "done"}}
Published == mainPc \in {"publish", "done"}
Pool == INSTANCE BoundedPool WITH
          Job <- Query, free <- Limit - Cardinality(InPool),
          running <- InPool, ended <- Ended, holding <- open,
          closed <- Published
ImplementsPool == Pool!Spec

\* The collection ends: no lost token or missing Done leaves main waiting.
Finishes == <>(mainPc = "done" \/ crashed)
=============================================================================
