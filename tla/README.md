# nri-postgresql: TLA+ models, checks and proofs

`nri-postgresql` is a program New Relic's infrastructure agent starts every few
seconds. One run reads what to collect, asks a PostgreSQL server (and perhaps a
PgBouncer), fills metric sets, prints them as JSON and ends. It keeps nothing
between runs except the store the SDK uses for rates. Line numbers below are
those of `src/src/...` in this repository.

## 1. Inventory

| Component | State | Operations | Talks to |
|---|---|---|---|
| `main.go` | the integration object, the collection list | sequence of the parts below; `Publish`; `os.Exit` on a bad list | all |
| `args` | the argument record | validation of credentials and TLS files | main, connection |
| `collection` | `DatabaseList`: database -> schema -> table -> indexes; two ignore lists; one open connection per database | parse the three forms of `collection_list`, read the schemas of each database | connection, server |
| `connection` | a `sqlx.DB` pool per `NewConnection`, which dials nothing until its first query | connection string from the arguments, open, query, close, which extensions are there | server |
| `metrics.PopulateMetrics` | version, connections, metric sets | version; instance, database, lock, table, index, custom and pgbouncer queries | collection list, server, SDK |
| `metrics.PopulateCustomMetricsFromFile` | semaphore of 10, `WaitGroup`, a goroutine and a connection per query | spawn, run, publish after all | server, SDK |
| `inventory` | - | one query, copied into items, those of an answer that breaks off included | server, SDK |
| `common-parameters` | two thresholds | defaults and limits for what the arguments ask | pipeline, SQL texts |
| `common_helpers.go` | - | hides literals, computes normal forms, draws plan ids | pipeline |
| query monitoring pipeline | extensions, version, lists handed from stage to stage | wait events, blocking sessions, slow queries, individual queries, execution plans; another order and other sources on RDS | server, ingester |
| `execution_plan_metrics.go` | pool per database, rows kept open, shared level counter | group, EXPLAIN, flatten a plan tree | server |
| `ingestion-helpers.go` | entity handle, counter, the integration's pending sets | turn models into sets, publish at 600 | SDK |
| SDK, sqlx, lib/pq, PostgreSQL | external | | |

What is hard here:

* *concurrency*: the custom queries are the only goroutines; they share one
  integration object, a semaphore and a WaitGroup with main (metrics.go:84-98);
* *partial failure*: nearly every error is logged and the loop goes on, or the
  function returns; which of the two decides what one failing database, query,
  row or publish costs the rest of the report;
* *resources held by `defer` in loops*: collection.go:137, metrics.go:364 and
  430, execution_plan_metrics.go:56 keep connections until a function ends;
* *stale handles*: `Publish` clears the integration, so entities obtained before
  it are dead (ingestion-helpers.go:118 obtains a new one);
* *boundaries*: publish threshold, server versions in five different switches;
* *correlation by text* on RDS, where query ids are missing, by functions that
  know no SQL grammar;
* *one integration object* for main and the ingester: what a failed publish of
  the one keeps goes out with a publish of the other;
* *a list read earlier*: objects come and go between the collection list and the
  queries it selects, and keys join names that may contain the separator;
* *map order*: Go visits the databases in a random order.

There is no persistence of its own state, no message passing and no retry, so crash recovery,
delivery and timeout properties do not arise (a connection timeout is one more
failing query). `PROJECT.json` lists each hazard at its line.

What makes each component correct:

* ingester: every model of a list is published once, in order, in batches of at
  most the threshold, whatever failed before; a call that returns nil left nothing;
* custom queries: at most 10 connections; publish only after all goroutines;
  always an end; no panic but for want of a database name;
* collection list: exactly what the server has, minus the ignored; one bad
  database costs nobody else; an empty list is an error;
* population: only queries the server's version understands; failures local;
  connections given back, never more than one per database beside main's;
* execution plans: complete plans, consistently numbered; connections bounded;
* pipeline: nothing reported that refers to something not reported; no
  duplicates; failures local; queries fit version and extensions;
* main: the report of the instance goes out whole or not at all, before query
  monitoring can lose anything, and the run ends with its connections given back;
* version: read from any answer well enough for every choice that hangs on it;
* names: a listed object the queries can see is reported under an entity of its
  own, and no other is;
* connections: encrypted and verified as asked, whatever the server offers;
* texts and thresholds: an anonymized text has no literal, executions of one statement find
  each other, the slowest executions are chosen, lists fit a batch.

## 2. Modules

| Module | Models | State -> code | Actions -> code |
|---|---|---|---|
| `BatchDelivery` | the contract of the ingester | `backlog`, `delivered` | `Accept`, `Deliver`, `Discard` |
| `IngestMetric` | ingestion-helpers.go:38-120 | `pending` = sets of the integration's entity, `attached` = whether `instanceEntity` is that entity, `metricCount` | one action per branch of the loop, one per publish, `PublishFails` with sets kept (store error) or lost (write error) |
| `IngestMetricProofs` | proofs | | |
| `CustomQueries` | metrics.go:69-191, main.go:90 | `sem`, `wg`, `wpc[q]` = control point of a goroutine, `open` = connections | main: `Load Acquire AddAndGo Wait Publish`; worker: one action per statement that can fail or block, deferred calls in reverse order `CloseRows CloseConnection Release WgDone`, after a panic (`NilEntityPanic`) as well, and only then `Crash`, so main may publish in between |
| `BoundedPool` | what the goroutines of the custom queries promise together | `free` slots, jobs `running`, `ended`, `holding` a connection, `closed` | `Start Take GiveBack End Close` |
| `CustomQueriesProofs` | proofs | | |
| `CollectionList` | collection.go:37-195 | `dbList`, `names`/`pos`, `held` = deferred connections | `ParseHash ParseNames Reject`, one action per way a turn of the loop can go; the loop over the rows of an answer is the recursive function `SchemaLists` |
| `CollectionListProofs` | proofs | | |
| `MetricsPopulation` | metrics.go:24-66, 226-618 and the `generate...` functions | `pc` = running Populate function, `queue` = queries left on the connection, `open` | `QueryAnswers` (only what the server's catalogs have columns for), `QueryFails`, `EnterDatabase`, `NoConnection`, `NextPhase`, ... |
| `MetricsPopulationProofs` | proofs | | |
| `ExecutionPlans` | execution_plan_metrics.go:28-122 | `held`/`idle` = the pool, `stack` = pending recursive calls, `level` | group (the loop that fills the groups is the recursive function `Groups`), explain (three outcomes), visit a node |
| `ExecutionPlansProofs` | proofs | | |
| `QueryMonitoring` | query_performance_main.go, performance-metrics/, validations/, query_fetch_helpers.go | `todo` = stages left, the two lists handed on, `reported`, `kept` | one action per Populate function and per way it gives up; `Only` is every loop that keeps a part of a list |
| `QueryMonitoringProofs` | proofs | | |
| `Main` | main.go:31-98, inventory.go, with `IngestMetric` inside | `step` = the statement main is at, `pending` = the sets of the one integration object, `inventory`, `open`, what the last publish returned | one action per part and way it ends; `Monitor` is any action of `IngestMetric`; `Crash` of monitoring, or of a custom query's goroutine at any step from the custom queries to the end of main |
| `MainProofs` | proofs | | |
| `ServerVersion` | metrics.go:226-248 and the comparisons of the definitions | `text` = answer to SHOW server_version as tokens, `version` | `CollectVersion` |
| `ListedObjects` | metrics.go:313-536, metric_types.go, table and index definitions | `list`, `catalog` = objects now, `jobs` = queries left, `samples` with their entities; the constants `Unseen` = objects that are not in the relations the queries read, `QuotedParts` = parts of names with a single quote | `Answer` (not of a query that quotes make malformed), `Fail`; `Drop`, `Create` of other clients |
| `LockMetrics` | lock_definitions.go | `pg_locks`, `metrics` | `Query`; `LockObject`, `Unlock` of the sessions |
| `Connection` | args.Validate, createConnectionURL, HaveExtensionInSchema | `args`, `conns` = pool, connection string, link | `Validate NewConnection Query`; `Reconfigure` of the server |
| `Normalization` | common_helpers.go:14-65 | `first`, `live` = a statement as remembered and as it runs now, in tokens | operators over texts, read from the front; one action per way executions differ |
| `QueryParameters` | common_parameters.go, the LIMITs and the threshold in queries.go | `cp`, `slow`, `individual`, `calls` = lengths of ingested lists | one action per stage |
| `Parts` | the six modules above, which share no state, side by side | `part` = the one that acts, and the variables of all | a step of the one that acts |
| `PartsProofs` | proofs | | |

`Main` instantiates `IngestMetric` over its own variables: both put sets into one
backlog, and both publishes empty it. Its parts before the publish are reduced to
what they may leave behind, which the modules of these parts have in detail.
`IngestMetric` is used by `QueryMonitoring` through its contract (rows published
with what was kept, or an error and the rows kept or lost), `ExecutionPlans` as
"any of the plans may be missing". `MC...` modules give constants
values. `Parts` puts six small modules that share no state into one specification:
a behaviour belongs to one of them, named by `part`, and the variables of the
others rest. So the states of its run are the sum of theirs.
Operators commented "Mutation:" are faulty variants of the definition below
them; nothing refers to them in the specifications.

Abstractions, chosen so that every property still tells right from wrong:

* metric sets, rows and statements are records of what identifies them; names,
  values, formatting and logging are left out;
* `QueryMonitoring` gives each statement its normal form (what
  `AnonymizeAndNormalize` returns) as an attribute: two statements may share one;
  which do is the subject of `Normalization`. Its texts are characters, because
  the properties are about characters; three digits and two letters stand for all;
* `ServerVersion` keeps the digits of a number, because the regular expression
  takes one digit of the third number and all of the others;
* `ListedObjects` has names of one or two dotted parts; a name with a single quote
  makes its query fail, names whose quotes are doubled are left out; one current
  server with every optional query, since `MetricsPopulation` has the choice of
  queries. `MetricsPopulation` leaves out which rows of the custom query of
  metrics.go:538-618 become metric sets, for it holds no connection of its own;
* in `QueryMonitoring` the servers answer less than the SQL `LIMIT`s and
  thresholds; these are the subject of `QueryParameters`. SQL texts are reduced to which query, which filter, and
  what version and extensions it needs (`Answerable`);
* an individual query's reported text is the slow query's with the same database
  and id if there is one (individual_query_metrics.go:88); rows keep the
  statement and the slow query they stem from instead;
* server answers may break off at any row: sqlx reports that only through
  `rows.Err()`, which the code never reads; `Select` reads it, so the queries of
  `MetricsPopulation` answer whole or fail.

## 3. Runs

All runs set `CHECK_DEADLOCK FALSE`: the program ends, and a final state of a
model is the end of main or of the bounded calls. Only the two liveness
properties use fairness. In `Main` it is `WF(Progress)`: main is one goroutine and
waits for nothing but queries and SDK calls, which return; `Progress` leaves out
`Crash`, since nothing has to crash. The ingester's steps are part of it. In
`CustomQueries` it is `WF` of main and of each
worker, with nothing assumed of `Crash` (main may end the process before it), because the Go scheduler starves no runnable
goroutine and queries return (the driver has a connect timeout; a server that
never answers is outside the model). A blocked channel send is not runnable, so
weak fairness is all that is needed: tokens only come free, none is taken back.

| Run | Bounds | Shows |
|---|---|---|
| `ingest` | threshold 2, lists up to 5 over nil/struct/invalid, 2 calls | types, order, nothing left by a nil return, batch size, refinement of `BatchDelivery` |
| `custom_queries` | 3 queries, semaphore 2, 2 rows each, with and without default name | connection limit, publish sees every row but one a worker panicked on, what a crash needs, refinement of `BoundedPool`, termination |
| `collection_list` | databases, ignore lists and rows in `MCCollectionList` | the list equals the server's objects, healthy databases are listed, ignored or empty never returned |
| `population` | lists in `MCMetricsPopulation`, versions on both sides of each boundary, all flags | queries fit the server (the lock query before 9.2 excepted, below), failures local, at most `1 + |list|` connections, given back |
| `execution_plans` | 3 queries, 2 databases, 2 free connections, plans of depth 2 | pool bounded, who is starved, only complete queries are explained, plans whole and numbered |
| `query_monitoring` | 4 servers with shared texts, a shared id, a hidden statement and a statement listed twice; versions 11-14; all extension sets; both modes | references hold, nothing twice that is listed once, failures local in each of the five stages, queries fit |
| `main` | all flags, up to 3 sets of main, 2 rows of inventory, 2 ingest calls with lists up to 5 and threshold 2 | main's report is whole or absent in every state, monitoring costs it nothing, leftovers need a failed publish, main and ingester together implement `BatchDelivery`, every run ends with its connections closed |
| `parts` | below | types, and one property per part, each the conjunction of the named properties of its module |

The parts of `parts` (together about 1.3 million states):

| Part | Bounds | Shows |
|---|---|---|
| `ServerVersion` | releases on both sides of 9.1, 9.2, 12 and 17, patch levels of two digits, four numbers, three unreleased majors, two packagings | `VersionIsUnderstood`: a release is taken for its own major and minor version; every comparison comes out as for the full version; an unreleased server is refused unless its package has a dotted version |
| `Normalization` | statements of two tokens of nine kinds, or of three with a literal at the end, six string values with quotes, blanks, semicolons and newline | `TextsAreSound`: no literal left in an anonymized text; live and remembered text have one normal form for integers and strings without quotes; hiding first changes nothing; one normal form means equal up to quoted names and digits; no digit or capital in a normal form |
| `ListedObjects` | two databases and a template, one table name in two schemas, dotted names on both sides, an index on two tables, a view, a table with a quote in its name, two changes, any order of databases, any failures | `ListIsReported`: listed objects that last and can be seen are reported unless a query of their database failed; no two share an entity; only listed ones are reported where dots do not blur the keys |
| `Connection` | all arguments, two connections, every server, reconfiguration in between | `ConnectedAsAsked`: encrypted iff asked, verified against the supplied authority, trust costs no connection, an extension is found where it is |
| `QueryParameters` | arguments from -1 to above the limits, up to five slow queries with up to three executions | `ThresholdsAreKept`: no list fills a batch; individual queries are the slowest over the threshold, as many as fit |
| `LockMetrics` | three sessions, two modes and one without column, two places, up to four locks | `CountsAreSound`: a count is never too high, is 0 only for a free mode, and exact in one place |

Why the bounds are enough: a batch boundary needs a list longer than the
threshold, and 5 > 2 * 2 closes two batches and leaves a rest; a second call is
what a failure of the first can affect, and a third sees no more than the kept
sets of the second. Three queries on two tokens give a full semaphore with a
waiting main. Two databases are what one failure can spoil for another. Two changes
of the catalog are a drop and a create of one object, or two on different sides.
The parameters are scaled so that count limit times quota stays below the
threshold, as 30 * 10 does below 600, and without either limit exceeds it. The
safety results are also proved for all bounds, but for those section 4 names.

Four runs end in a violation on purpose; each checks one statement of the
repository that the code does not keep:

1. `population_listed_tables` - `PopulateTableMetrics` *returns* when a database
   has no schema in the list (metrics.go:354-355), so databases after it in the
   random map order get no table metrics. collection.go:39-40 says "If it is a
   hash, it collects only the objects listed"; `{"a":{},"b":{...}}` sometimes
   does not collect b. An ALL list has this state too, when a user may read no
   table of some database.
2. `ignore_tables_in_hash` - with a hash the table ignore list has no effect
   (collection.go:62-65); argument_list.go:20 says "A JSON array that list tables
   that will be excluded from collection."
3. `rds_correlation` - texts alone correlate sessions with slow queries
   (wait_event_metrics.go:98-106), so with one schema in two databases a wait of
   the one carries the other's query id; query_performance_main.go:87-88 speaks of
   "accurate correlation".
4. `plan_id_unique` - plan ids are random below 1000000 within a second
   (common_helpers.go:33-42), drawn without a look at the earlier ones; the comment
   says "unique". At the maximum of 300 rows a run, one run in about twenty-three
   has two equal ids.

The positive properties have conditions, and each condition is something the code
does that a reader may not expect. No run is spent on these:

* an answer to the settings query that breaks off leaves part of `pg_settings` in
  the inventory, because inventory.go:23-25 logs the error and goes on;
* "18beta1 (Ubuntu 18~beta1-2.pgdg16.04+1)" is taken for version 16.4, the leftmost
  match of metrics.go:232 (`UnreleasedIsRefused` excepts it);
* a decimal literal or a doubled quote in a literal gives the running statement
  another normal form than the remembered one (`PlainLiterals` in `Correlates`);
* statements that differ in quoted names or in digits of names only have one
  normal form (`Blurred`);
* the lock query has one form for all versions, but `pg_stat_activity` has a `pid`
  since 9.2 only: on 9.0 and 9.1, with locks asked for and tablefunc installed, it
  is sent in vain (`QueriesFitServer` excepts it; lock_definitions.go:34);
* the collection takes all of `information_schema.tables` (collection.go:17-23), but
  the table query reads the statistics of user tables (table_definitions.go:55-56),
  the index query `pg_tables` and `pg_stat_all_indexes` (index_definitions.go:25-32),
  the database queries skip templates (database_definitions.go:49). Views, system,
  foreign and partitioned tables, their indexes and template databases are listed
  and get no such metric set (`Unseen` in `ListedAreReported`), although
  postgresql-config.yml.sample:22-23 speaks of "all tables and indexes that belong to
  that database";
* names go into the queries between single quotes as they are (metric_types.go:31,
  52, 75), so one table with a quote in its name costs its database all tables, and
  one such database name all databases (`Malformed`);
* a custom query whose worker panics leaves main time to publish; what it publishes
  then may lack the row the panic is about (`PublishSeesEveryRow`);
* slow queries whose text has no "alter" are reported without going through
  `AnonymizeQueryText` (slow_query_metrics.go:35; `LiteralsAreHidden` is about texts
  that do);
* table `a.t` of schema `s` in the list also collects table `t` of schema `s.a`
  (`DotlessOnlyListed`);
* on RDS the response time threshold and the limit do not apply to individual
  queries (`SlowestOverThreshold` is about the others), and a count threshold of 0
  is kept although the warning of common_parameters.go:49 asks for more;
* locks of one mode on objects of different places are separate groups, of which
  crosstab keeps one.

## 4. Proofs

Proved with TLAPS, for all values of the constants under the named ASSUMEs, which
TLC evaluates in the runs. The assumptions only say what kind of value a constant
is, and the code gives such a value:

| Assumption | Says | Because |
|---|---|---|
| `IngestAssumption` | the threshold is at least 1, lists of models are finite | `PublishThreshold` = 600, Go slices |
| `CustomAssumption` | the semaphore has at least one slot, queries and rows are finite | `make(chan struct{}, 10)`, a parsed file |
| `MainAssumption` | as for the ingester; finitely many sets and rows | |
| `CollectionAssumption` | names are a list of databases, answers are lists | `args.CollectionList` parsed by `json.Unmarshal` |
| `PopulationAssumption` | versions are numbers, a list has finitely many databases, none of them stands for the main connection | a Go map |
| `PlanAssumption` | finitely many queries and connections; no database is called like a missing name; the nodes of a plan make a tree, the nested plans of each numbered from 1 | `DatabaseName` is a pointer, nil when missing; an EXPLAIN answers JSON |
| `ConnectionAssumption` | a missing file is no authority, rows of `pg_extension` are pairs of strings | an empty argument; `extensionRow` |
| `LockAssumption` | a process id belongs to one database, a mode has a column or none, finitely many locks | `pg_stat_activity`; the columns of the query |
| `ListedAssumption` | names have at least one part, an object is a database, table or index, listed paths are those of schemas, tables and indexes, what cannot be seen is an object, a list has finitely many databases | PostgreSQL refuses an empty identifier; `collection.go`; a Go map |
| `VersionAssumption` | a release has at least two numbers, numbers are below 100 | every release since 6.0; metrics.go reads any number of digits, `ServerVersion` prints two |
| `ParametersAssumption` | the executions of a statement come slowest first; thresholds are numbers; count limit times quota is below the batch size | the ORDER BY of queries.go; 30 * 10 < 600 (constants.go) |
| `NormalizationAssumption` | a statement is a sequence of at least one token, with blanks after each; a word begins with a letter, a number with a digit; a literal stays of its kind; the number of a parameter is digits | the grammar of SQL, in part (below) |
| `MonitoringAssumption` | what a server answers are lists of statements, versions are numbers | `rows.Next()` loops, `uint64` |

`IngestMetricProofs`
* `Typing`: `TypeOK` and "inside a call at least one call was made" are inductive.
* `BatchSize`: `CountInv` relates `pending`, `carried` and `metricCount`. The
  bound itself is not inductive: the counter only bounds the batch because a list
  without invalid models meets the equality test each time it fills up.
* `NothingLeftBehind`: `PlaceInv` says where each model already met is: written
  or pending on the attached entity. Without `attached` the step after a publish
  does not go through, which is exactly why the code obtains the entity again.
* `Ordered`: `published \o pending` is increasing, and everything in it is before
  the next name to be given; needed because a kept failure carries sets over.
* `Implementation`: `Spec => BatchDelivery!Spec` with `backlog <- pending`,
  `delivered <- published`; step lemma per action, using order and types.

`CustomQueriesProofs`
* `Inductive`: `IInv` = tokens equal the workers between acquire and release (plus
  main between acquire and go), the WaitGroup equals the workers not done, workers
  are spawned in order, connections belong to workers between query and close,
  row counters agree with the point a worker is at. A worker that panics has one row
  scanned and no set from then on, and runs its deferred calls like the others, so
  tokens, WaitGroup and connections are counted to its end as well.
* `PoolImplementation`: `Spec => BoundedPool!Spec`. A job runs from
  the loop turn that spawns its goroutine to the release of its token, and the
  slots no job is in are `free`. Needs the whole invariant: a slot is free when a
  goroutine starts because the token main took for it is counted, and `Close`
  finds nothing running because a WaitGroup at zero means every worker is done.
* `Typing`, `ConnectionLimit`, `PublishIsAfterWorkers`, `CrashCause` follow from
  it. The second needs cardinalities: the workers that hold a connection are among
  those that hold a token.
* `NeverStuck` and `EveryStepComesCloser`: the argument for `Finishes`, but for the
  fairness. While main waits for a token, all `Limit` of them are with workers that can
  go on, because there is no token without an owner (the equation of `SemInv`); while it
  waits for the WaitGroup, somebody still has to call Done. And each step lowers
  `MainLeft` or a worker's `WorkerLeft`, natural numbers no step raises.

`MainProofs`
* `Typing`: the types of main need those of the ingester it calls (`IngestTypes`),
  that nothing was written and nobody called before main's publish (`PhaseInv`), and
  that a publish of the ingester is never empty (`CountInv`).
* `ReportWhole`: main's sets stay together (`ReportInv`): until its publish the
  backlog holds exactly those collected; then all of them or none are waiting, all
  of them or none are written, never some of each.
* `CostsNothing`: `CostInv` adds what a successful publish has written; and that
  something waits between two ingest calls only after a publish that failed, which
  needs that a call starts with what was carried over and ends at a publish.
* `Implementation`: main and the ingester, over one backlog, implement
  `BatchDelivery`. `NamesInv` keeps the names apart: no set in the backlog or
  written has the name that the next one gets, whoever put it there.
* `NothingLeftOpen`, `NeverStuck`, `EveryStepComesCloser`: likewise for `Terminates`.
  The measure is lexicographic: parts of main, sets still to collect, calls, rest of the
  list. `OpenInv` says that monitoring has its connection while it ingests and gives it
  back with its last step.

`CollectionListProofs`
* `Typing`, `HealthyListed`, `NoIgnoredNoEmpty`: the loop invariant says of the
  names passed over that each is listed, ignored or failed as long as there are
  connections, and that every connection held belongs to one of them.
* `ListMatches`: by induction over the rows of an answer. After n rows the list of
  schemas holds those of the first n rows, each with their tables, each with their
  indexes, and nothing else; a row in any order adds to one entry and leaves the
  others (`TablesGrow`, `SchemasGrow`).

`MetricsPopulationProofs`
* `Inductive`: `QueueInv` says the queue is the end of what the current function
  sends; `SentInv` and `LoopInv`, that all before it was answered, lost or refused,
  in this database and in those the loop has visited; `PairsInv`, that nothing in the
  queue was sent before (no query is sent twice: `SendsSound`); `OpenInv`, how many
  connections there may be at each point of the loops.
* `Typing`, `QueriesFit` (for every version number, not those of the run),
  `LossStaysLocal` and `Connections` follow from it. The last bound needs that a
  connection which has sent nothing is not open yet.

`ExecutionPlansProofs`
* `Inductive`: what is left of a group and the connections of its pool are together
  no more than the group (`InGroup`): each query takes at most one connection. The
  bound of the pool alone is not inductive.
* `Typing`, `Pool`, `Starved` follow from it; the size of a group is computed by
  induction over the queries (`GroupSound`).
* `WholeAndNumbered`: `StackInv` says of a walk that the stack holds the roots of
  what is left of the plan, in depth-first order and after every row, so each good
  node is a row or under one of the roots; and that the shared counter is the number
  of the query's rows. `SettledInv` follows the queries: those still pending have no
  rows, all others are settled or walked, so no query is explained twice.

`QueryMonitoringProofs`
* `Inductive`: `TodoInv` (what is to do is the rest of the stages, so on RDS the
  slow queries are over when waits are correlated with them), `AskInv` (nobody is
  asked before the version is known to be supported), `TraceInv` and `LocalInv`.
* `RowsTrace`: `TraceInv` is stronger than the property where a publish fails. The
  rows it keeps go out later, ahead of other rows, so they must be founded on what
  was reported when they were made; and a list is handed on only when its rows are
  among those reported. Both hold because the Populate functions return nil when
  the ingester returns an error.
* `FailuresLocal`: `LocalInv` says of each stage that is over and sound that it
  reported all it had (`PlanInv` of the plan stage, that there is a plan for each
  individual query with an id); and of the slow queries also that the list handed on is all
  of them, since other stages search by it.
* `Typing`, `QueriesFit` (for every version number and set of extensions) follow.
* `OnceReported`: `OnceInv` says that the rows reported and those a failed publish
  kept repeat nothing together, and that none of them is of a stage still to run: the
  rows that are kept never meet their own stage again. Within a stage, what a loop
  keeps of a list comes from different places of it (`Spread`), and what two searches
  both find is found under one id (`FlattenTwice`). A server may list a statement
  twice (`pg_stat_statements` per user, waits per event; no query in queries.go is
  DISTINCT), and such rows the property excuses.
* The lists are of any length. What a loop keeps of a list (`Only`), what several
  searches bring together (`FlattenSeq`) and what each stage makes of it have
  lemmas of their own: `OnlyRange`, `FlattenRange`, `...RowsMade`.

`PartsProofs`
* `Inductive`: `PartsInv` has an invariant for each of the six parts, which holds
  while that part acts. `Typing` and the theorems below follow from it.
* `VersionsUnderstood`: the leftmost match in the text of a release is at its
  beginning, however it is packaged (`ReleasedText`); in that of a server not released,
  any match is in the package (`UnreleasedText`). A number is the `Value` of its digits;
  the third, of which one digit is read, decides no comparison, since every boundary
  has a 0 there (`SameChoices`).
* `ThresholdsKept`: as the times of a statement descend, those over the threshold
  are the first of them, so cutting at the quota takes the slowest; and the rows of
  one slow query in the flattened list are exactly its own (`IndividualQueriesJoined`,
  `OfFlatten`). A list is as long as its limit at most, that of the individual queries
  as the count limit times the quota (`FlattenLength`), and both are below a batch.
* `Connections`: `ConnInv` says that a connection is opened only after `Validate`
  let the arguments through, its string is that of the arguments, its link one that
  the string leads to at the server it met (`LinksOf`). Where the server is
  reconfigured between two connections, each keeps the server it dialled.
  `ExtensionFound` says what the loop over the rows of `pg_extension` leaves in the
  map, by induction over the rows (`ExtensionsFound`).
* `TextsSound`: for statements of any length and any tokens, over the characters of
  `Normalization`. A text is read from the
  front (`Read`), so each pass obeys a law about what stands first: a character it
  does not match stays (`SkipLaw`), a run of digits (`DigitLaw`) or a quoted text
  (`QuoteLaw`) becomes one question mark, whatever follows. `DigitsPass`, `QuotedPasses`
  and `rePass` show these laws of the regular expressions. From them `StatementHidden`:
  one pass with `re`, or the three passes of `AnonymizeAndNormalize` together
  (`InTurn`), hide a statement token by token; a string with quotes in it is the
  parts between its quotes (`Segments`). The three passes need more than the one: the
  second meets what the first left, and must find no single quote in a name. What the
  rest makes of a hidden statement are the `Cores` of its tokens, joined
  (`StatementNormal`): no core is empty or has a blank in it, so a normal form says
  which cores it was made of (`JoinsApart`), and a core which `Blurred` token
  (`CoreIs`). `TextInv` says that between two executions only literals, blanks and the
  case of words vary; the types alone do not give `Correlates`.
* `LockCounts`: `LockInv` says that the columns come from the groups of the locks
  that are still there. The groups of one mode in a database are those locks of the
  mode that are in one place (`GroupOfLock`), so whichever of them crosstab keeps
  counts at least one lock, at most all, and all if there is one place.
* `ListedObjectsReported`: `ObjInv` says of each listed object that has lasted
  and can be seen, for each of its definitions, that the metric set is there, the query is lost or its job
  is still to come. Every job of the list is there in the beginning, whatever order the
  loops take (`JobsHaveAll`, from `Orders` and `FlattenRange`); an answer to a
  job reports its objects, as their keys are among those inserted; a failure drops no job
  but those of its own turn. Keys of the same number of names are equal only where
  the names are, or both have a dot (`KeysBlur`): a key has as many parts as
  names just when no name has a dot.

Induction over data. The library's induction theorems take an operator as a
parameter. For a set of numbers the same follows from the order on Nat being well
founded (`LeastElement`, `SetInduction`): a claim about every n is the claim that the
set of numbers it holds for is Nat. A function that is defined by recursion is a
CHOOSE, and says something only if such a function exists; `GroupsDef`,
`SchemaListsDef`, `KeptExists`, `JoinedExists`, `ReadExists` and `Recursion` show that
by the same induction, and `FlattenSteps` gives `FlattenSeq` the form of such a function.

Only model-checked:

* the liveness properties `Finishes` and `Terminates`: fairness and ENABLED are out
  of reach of the provers, which show that there is always a step and that there are
  finitely many;
* the violations.

## 5. Not modelled

* `datamodels`: declarations of structs with tags. Packaging, `legacy`, test
  harnesses and configuration samples.
* Values and types of metrics, columns of the statistics queries, the SQL of the
  bloat queries: data that no control flow looks at.
* Default values and parsing of the arguments, rates and the store file: the SDK's.
* Texts cut off at `track_activity_query_size` or 4095 characters (queries.go:241):
  the rest of a literal would have one quote; nothing says what should become of it.
* An empty answer to `SHOW server_version` (metrics.go:233 indexes row 0): no server
  gives one.
* A server that never answers: no timeout in the code but the driver's.

That an invalid model can be the threshold-th and postpone a batch is in the
model, but no caller passes one.

## 6. What is left

Every invariant and every safety property of an action that the runs check is
stated by a theorem. Left to TLC are the two liveness properties, for which the
provers have the steps but not the fairness. Outside the grammar of `Normalization`,
nothing is said: exponents and signs in numbers, strings with escapes or dollar
quotes, comments, tokens without a blank between, line ends and double quotes in
names, `?` and `$` in operators.
