--------------------------- MODULE QueryMonitoring ---------------------------
(***************************************************************************)
(* The query monitoring pipeline (query_performance_main.go): which stages *)
(* run in which order, what each of them hands to the next, and what is    *)
(* left of a report when a fetch or a publish of one of them fails.        *)
(*                                                                         *)
(* A statement is a record [db, id, text]; text is its normal form, what   *)
(* AnonymizeAndNormalize returns.  A row is a model some Populate function *)
(* ingests: `of` are the statements the server meant (two for a blocking   *)
(* session: blocked, blocking), `from` the slow queries whose id, text or  *)
(* time the row carries.  IngestMetric is its contract: the rows reach the *)
(* output together with what an earlier failure kept, or an error comes    *)
(* back and they are kept or lost (module IngestMetric has the detail).    *)
(***************************************************************************)
EXTENDS Integers, FiniteSets, SequencesExt

CONSTANTS
  Servers,      \* what a server may answer, see ServerType
  Statement,    \* the statements in those answers
  Db,           \* databases
  NoId,         \* the query id of a statement the user may not see
  Versions,     \* major versions
  PlanIds       \* <random int, second> pairs GeneratePlanID can return

Extension == {"pg_stat_statements", "pg_stat_monitor", "pg_wait_sampling"}
ServerType == [slow : Seq(Statement), samples : Seq(Statement),
               active : Seq(Statement), waits : Seq(Statement),
               blocks : Seq(Statement \X Statement)]

ASSUME MonitoringAssumption ==
  /\ \A st \in Statement : DOMAIN st = {"db", "id", "text"} /\ st.db \in Db
  /\ Servers \subseteq ServerType
  /\ Versions \subseteq Nat

VARIABLES
  server, databaseMap, version, enabledExtensions, isRds,
  pc,           \* "start", "run" or "done"
  todo,         \* stages still to run
  slowQueries, individualQueries,   \* what the stages hand on
  reported,     \* rows published, in order
  kept,         \* rows a failed publish left in the integration
  asked,        \* queries sent to the server
  failed        \* stages that lost something to an error

argVars == <<server, databaseMap, version, enabledExtensions, isRds>>
vars == <<argVars, pc, todo, slowQueries, individualQueries, reported, kept,
          asked, failed>>

Init ==
  /\ server \in Servers /\ databaseMap \in SUBSET Db /\ version \in Versions
  /\ enabledExtensions \in SUBSET Extension /\ isRds \in BOOLEAN
  /\ pc = "start" /\ todo = <<>>
  /\ slowQueries = <<>> /\ individualQueries = <<>>
  /\ reported = <<>> /\ kept = <<>> /\ asked = {} /\ failed = {}

-----------------------------------------------------------------------------
(* Eligibility and the choice of queries *)

CheckSlowQueryMetricsFetchEligibility ==
  "pg_stat_statements" \in enabledExtensions

CheckWaitEventMetricsFetchEligibility ==
  {"pg_stat_statements", "pg_wait_sampling"} \subseteq enabledExtensions

\* Mutation: version 14 passes for one that needs no extension.
CheckBlockingUpTo14 ==
  version \in {12, 13, 14} \/ "pg_stat_statements" \in enabledExtensions

CheckBlockingSessionMetricsFetchEligibility ==
  version \in {12, 13} \/ "pg_stat_statements" \in enabledExtensions

CheckIndividualQueryMetricsFetchEligibility ==
  "pg_stat_monitor" \in enabledExtensions

CheckPostgresVersionSupportForQueryMonitoring == version >= 12

FetchVersionSpecificSlowQuery ==
  IF version = 12 THEN "SlowQueriesForV12" ELSE "SlowQueriesForV13AndAbove"

FetchVersionSpecificBlockingQuery ==
  IF version \in {12, 13} THEN "BlockingQueriesForV12AndV13"
                          ELSE "BlockingQueriesForV14AndAbove"

FetchVersionSpecificIndividualQueries ==
  IF version = 12 THEN "IndividualQuerySearchV12"
                  ELSE "IndividualQuerySearchV13AndAbove"

-----------------------------------------------------------------------------
(* Stages *)

\* Mutation: on RDS the wait events are filtered before there are slow queries.
StagesWaitFirst ==
  IF isRds THEN <<"wait", "slow", "individual", "plan", "blocking">>
           ELSE <<"wait", "blocking", "slow", "individual", "plan">>

Stages ==
  IF isRds THEN <<"slow", "individual", "plan", "wait", "blocking">>
           ELSE <<"wait", "blocking", "slow", "individual", "plan">>

At(stage) == pc = "run" /\ todo # <<>> /\ Head(todo) = stage
NextStage == todo' = Tail(todo)

\* What a loop keeps that goes through a list and appends some of it to another.
Only(list, places) ==
  LET upTo[n \in 0 .. Len(list)] ==
        IF n = 0 THEN <<>>
        ELSE IF n \in places THEN Append(upTo[n - 1], list[n]) ELSE upTo[n - 1]
  IN  upTo[Len(list)]

Row(event, of, from, plan) ==
  [event |-> event, of |-> of, from |-> from, plan |-> plan]

NoPlan == "none"

\* Mutation: rows a failed publish kept are written again and again.
IngestMetricAgain(rows) ==
  /\ reported' = IF rows = <<>> THEN reported ELSE reported \o kept \o rows
  /\ UNCHANGED kept

\* An empty list is not published.
IngestMetric(rows) ==
  /\ reported' = IF rows = <<>> THEN reported ELSE reported \o kept \o rows
  /\ kept' = IF rows = <<>> THEN kept ELSE <<>>

IngestFails(rows) ==
  /\ rows # <<>>
  /\ kept' \in {kept \o rows, <<>>}
  /\ UNCHANGED reported

Fail(stage) == failed' = failed \cup {stage}
FailUnless(complete, stage) ==
  failed' = IF complete THEN failed ELSE failed \cup {stage}
Ask(queries) == asked' = asked \cup queries

\* A query that fails or a row that cannot be scanned leaves an empty list;
\* rows.Err() is never asked, so an answer that breaks off is taken as it is.
Fetch(answer) == {SubSeq(answer, 1, n) : n \in 0 .. Len(answer)}

QueryPerformanceMain ==
  /\ pc = "start"
  /\ databaseMap # {} /\ CheckPostgresVersionSupportForQueryMonitoring
  /\ pc' = "run" /\ todo' = Stages
  /\ UNCHANGED <<argVars, slowQueries, individualQueries, reported, kept,
                 asked, failed>>

\* No databases, an old version, or an error of the connection, the version
\* query or the extension query.
GiveUp ==
  /\ pc = "start"
  /\ pc' = "done"
  /\ UNCHANGED <<argVars, todo, slowQueries, individualQueries, reported,
                 kept, asked, failed>>

Finish ==
  /\ pc = "run" /\ todo = <<>>
  /\ pc' = "done"
  /\ UNCHANGED <<argVars, todo, slowQueries, individualQueries, reported,
                 kept, asked, failed>>

\* What the IN list of a query leaves of an answer.
Listed(statements) ==
  Only(statements, {i \in DOMAIN statements : statements[i].db \in databaseMap})

-----------------------------------------------------------------------------
(* Slow queries *)

\* getFilteredSlowMetrics: a slow query whose normal form somebody runs.
getFilteredSlowMetrics(queries, statements) ==
  Only(statements, {i \in DOMAIN statements :
                      \E q \in Range(queries) : q.text = statements[i].text})

SlowRows(list) ==
  [i \in DOMAIN list |-> Row("slow", <<list[i]>>, <<list[i]>>, NoPlan)]

SlowIneligible ==
  /\ At("slow") /\ ~CheckSlowQueryMetricsFetchEligibility
  /\ NextStage
  /\ UNCHANGED <<argVars, pc, slowQueries, individualQueries, reported, kept,
                 asked, failed>>

\* Mutation: the list is handed on although it could not be ingested.
IngestSlowKeepsList(list, complete) ==
  \/ /\ IngestMetric(SlowRows(list)) /\ slowQueries' = list
     /\ FailUnless(complete, "slow")
  \/ IngestFails(SlowRows(list)) /\ slowQueries' = list /\ Fail("slow")

IngestSlow(list, complete) ==
  \/ /\ IngestMetric(SlowRows(list)) /\ slowQueries' = list
     /\ FailUnless(complete, "slow")
  \/ IngestFails(SlowRows(list)) /\ slowQueries' = <<>> /\ Fail("slow")

PopulateSlowRunningMetrics ==
  /\ At("slow") /\ ~isRds /\ CheckSlowQueryMetricsFetchEligibility
  /\ Ask({FetchVersionSpecificSlowQuery})
  /\ \E list \in Fetch(Listed(server.slow)) :
       IngestSlow(list, list = Listed(server.slow))
  /\ NextStage
  /\ UNCHANGED <<argVars, pc, individualQueries>>

PopulateSlowRunningMetricsPgStat ==
  /\ At("slow") /\ isRds /\ CheckSlowQueryMetricsFetchEligibility
  /\ Ask({FetchVersionSpecificSlowQuery, "IndividualQueryFromPgStat"})
  /\ \E active \in Fetch(server.active), list \in Fetch(Listed(server.slow)) :
       IngestSlow(getFilteredSlowMetrics(active, list),
                  active = server.active /\ list = Listed(server.slow))
  /\ NextStage
  /\ UNCHANGED <<argVars, pc, individualQueries>>

-----------------------------------------------------------------------------
(* Individual queries *)

\* Samples that carry the id of a slow query, one search per slow query; the
\* search names all databases.
SamplesOf(st) ==
  LET samples == Listed(server.samples)
  IN  IF st.id = NoId THEN <<>>
      ELSE Only(samples, {i \in DOMAIN samples : samples[i].id = st.id})

Pairs(st) == [i \in DOMAIN SamplesOf(st) |-> <<SamplesOf(st)[i], st>>]

\* On RDS the sample of a slow query is the slow query itself.
getIndividualQueryMetrics ==
  IF isRds THEN [i \in DOMAIN slowQueries |-> <<slowQueries[i], slowQueries[i]>>]
  ELSE FlattenSeq([i \in DOMAIN slowQueries |-> Pairs(slowQueries[i])])

\* GeneratePlanID draws for every row on its own.
IndividualRows(pairs, GeneratePlanID) ==
  [i \in DOMAIN pairs |-> Row("individual", <<pairs[i][1]>>, <<pairs[i][2]>>,
                              GeneratePlanID[i])]

\* Mutation: the individual queries of a failed publish are handed on.
IngestIndividualKeepsList(rows, complete) ==
  /\ \/ IngestMetric(rows) /\ FailUnless(complete, "individual")
     \/ IngestFails(rows) /\ Fail("individual")
  /\ individualQueries' = rows

IngestIndividual(rows, complete) ==
  \/ /\ IngestMetric(rows) /\ individualQueries' = rows
     /\ FailUnless(complete, "individual")
  \/ IngestFails(rows) /\ individualQueries' = <<>> /\ Fail("individual")

AskIndividual ==
  IF isRds \/ \A i \in DOMAIN slowQueries : slowQueries[i].id = NoId
    THEN UNCHANGED asked
    ELSE Ask({FetchVersionSpecificIndividualQueries})

\* Samples that cannot be scanned, and rows GeneratePlanID has no randomness
\* for, are left out one by one.
PopulateIndividualQueryMetrics ==
  /\ At("individual")
  /\ isRds \/ CheckIndividualQueryMetricsFetchEligibility
  /\ AskIndividual
  /\ \E lost \in SUBSET DOMAIN getIndividualQueryMetrics :
       LET pairs == Only(getIndividualQueryMetrics,
                         DOMAIN getIndividualQueryMetrics \ lost)
       IN  \E ids \in [DOMAIN pairs -> PlanIds] :
             IngestIndividual(IndividualRows(pairs, ids), lost = {})
  /\ NextStage
  /\ UNCHANGED <<argVars, pc, slowQueries>>

\* A single failing search drops what the other slow queries had found.
IndividualFetchFails ==
  /\ At("individual") /\ ~isRds
  /\ CheckIndividualQueryMetricsFetchEligibility
  /\ \E st \in Range(slowQueries) : st.id # NoId
  /\ AskIndividual /\ Fail("individual")
  /\ NextStage
  /\ UNCHANGED <<argVars, pc, slowQueries, individualQueries, reported, kept>>

IndividualIneligible ==
  /\ At("individual") /\ ~isRds
  /\ ~CheckIndividualQueryMetricsFetchEligibility
  /\ NextStage
  /\ UNCHANGED <<argVars, pc, slowQueries, individualQueries, reported, kept,
                 asked, failed>>

-----------------------------------------------------------------------------
(* Execution plans: module ExecutionPlans says which plans there are, here   *)
(* any may be missing.  A row stands for all nodes of a plan.                *)

PlanRows(explained) ==
  [i \in DOMAIN explained |->
     Row("plan", explained[i].of, explained[i].from, explained[i].plan)]

\* Mutation: a query without id is explained like the others.
ExplicableAll(row) == TRUE

Explicable(row) == row.from[1].id # NoId

PopulateExecutionPlanMetrics ==
  /\ At("plan")
  /\ \E lost \in SUBSET DOMAIN individualQueries :
       LET rows == PlanRows(Only(individualQueries,
                     {i \in DOMAIN individualQueries \ lost :
                        Explicable(individualQueries[i])}))
       IN  \/ IngestMetric(rows) /\ FailUnless(lost = {}, "plan")
           \/ IngestFails(rows) /\ Fail("plan")
  /\ NextStage
  /\ UNCHANGED <<argVars, pc, slowQueries, individualQueries, asked>>

-----------------------------------------------------------------------------
(* Wait events and blocking sessions *)

\* The last slow query of a normal form, as the map filled in order has it.
slowQueryTextMap(text) ==
  LET same == Only(slowQueries,
                   {i \in DOMAIN slowQueries : slowQueries[i].text = text})
  IN  Last(same)

Known(text) == \E st \in Range(slowQueries) : st.text = text

getFilteredWaitEvents(waits) ==
  LET known == Only(waits, {i \in DOMAIN waits : Known(waits[i].text)})
  IN  [i \in DOMAIN known |-> Row("wait", <<known[i]>>,
         <<slowQueryTextMap(known[i].text)>>, NoPlan)]

getFilteredBlockingSessions(blocks) ==
  LET known == Only(blocks, {i \in DOMAIN blocks :
                 Known(blocks[i][1].text) /\ Known(blocks[i][2].text)})
  IN  [i \in DOMAIN known |-> Row("blocking", known[i],
         <<slowQueryTextMap(known[i][1].text),
           slowQueryTextMap(known[i][2].text)>>, NoPlan)]

\* Only the query on pg_wait_sampling knows ids and wants one.
Waits ==
  Only(server.waits, {i \in DOMAIN server.waits :
                        /\ server.waits[i].db \in databaseMap
                        /\ isRds \/ server.waits[i].id # NoId})

WaitRows(waits) ==
  IF isRds THEN getFilteredWaitEvents(waits)
  ELSE [i \in DOMAIN waits |-> Row("wait", <<waits[i]>>, <<waits[i]>>, NoPlan)]

\* A lock conflict is listed under the database of the blocked session.
Blocks ==
  Only(server.blocks, {i \in DOMAIN server.blocks :
                         server.blocks[i][1].db \in databaseMap})

BlockingRows(blocks) ==
  IF isRds THEN getFilteredBlockingSessions(blocks)
  ELSE [i \in DOMAIN blocks |-> Row("blocking", blocks[i], blocks[i], NoPlan)]

\* The variant for RDS needs no extension and asks for none.
WaitEligible == isRds \/ CheckWaitEventMetricsFetchEligibility

PopulateWaitEventMetrics ==
  /\ At("wait") /\ WaitEligible
  /\ Ask({IF isRds THEN "WaitEventsFromPgStatActivity" ELSE "WaitEvents"})
  /\ \E waits \in Fetch(Waits) :
       \/ IngestMetric(WaitRows(waits)) /\ FailUnless(waits = Waits, "wait")
       \/ IngestFails(WaitRows(waits)) /\ Fail("wait")
  /\ NextStage
  /\ UNCHANGED <<argVars, pc, slowQueries, individualQueries>>

WaitIneligible ==
  /\ At("wait") /\ ~WaitEligible
  /\ NextStage
  /\ UNCHANGED <<argVars, pc, slowQueries, individualQueries, reported, kept,
                 asked, failed>>

PopulateBlockingMetrics ==
  /\ At("blocking") /\ CheckBlockingSessionMetricsFetchEligibility
  /\ Ask({IF isRds THEN "RDSPostgresBlockingQuery"
                   ELSE FetchVersionSpecificBlockingQuery})
  /\ \E blocks \in Fetch(Blocks) :
       \/ /\ IngestMetric(BlockingRows(blocks))
          /\ FailUnless(blocks = Blocks, "blocking")
       \/ IngestFails(BlockingRows(blocks)) /\ Fail("blocking")
  /\ NextStage
  /\ UNCHANGED <<argVars, pc, slowQueries, individualQueries>>

BlockingIneligible ==
  /\ At("blocking") /\ ~CheckBlockingSessionMetricsFetchEligibility
  /\ NextStage
  /\ UNCHANGED <<argVars, pc, slowQueries, individualQueries, reported, kept,
                 asked, failed>>

Next ==
  \/ QueryPerformanceMain \/ GiveUp \/ Finish
  \/ SlowIneligible
  \/ PopulateSlowRunningMetrics \/ PopulateSlowRunningMetricsPgStat
  \/ PopulateIndividualQueryMetrics \/ IndividualFetchFails
  \/ IndividualIneligible
  \/ PopulateExecutionPlanMetrics
  \/ PopulateWaitEventMetrics \/ WaitIneligible
  \/ PopulateBlockingMetrics \/ BlockingIneligible

Spec == Init /\ [][Next]_vars

-----------------------------------------------------------------------------
(* Properties *)

Stage == {"slow", "individual", "plan", "wait", "blocking"}

\* Type correctness: lists hold statements the server knows, rows are well
\* formed, and only a query that has an id is explained.
TypeOK ==
  /\ pc \in {"start", "run", "done"} /\ Range(todo) \subseteq Stage
  /\ Range(slowQueries) \subseteq Statement
  /\ failed \subseteq Stage
  /\ \A row \in Range(reported \o kept \o individualQueries) :
       /\ row.event \in Stage
       /\ Range(row.of) \cup Range(row.from) \subseteq Statement
       /\ row.plan \in PlanIds \cup {NoPlan}
       /\ row.event = "plan" => row.from[1].id # NoId

Reported(event) == {row \in Range(reported) : row.event = event}

\* Nothing is reported that hangs in the air: a plan has its individual query
\* under the same plan id, and that query, like the sessions correlated on
\* RDS, a slow query, reported before.  The Populate functions return nil on an
\* ingest error for this, whatever becomes of the rows of the failed publish.
EveryRowTracesToASlowQuery ==
  /\ \A i \in DOMAIN reported :
       reported[i].event = "plan" =>
         \E j \in 1 .. i - 1 :
           /\ reported[j].event = "individual"
           /\ [reported[j] EXCEPT !.event = "plan"] = reported[i]
  /\ \A i \in DOMAIN reported :
       \/ reported[i].event = "individual"
       \/ isRds /\ reported[i].event \in {"wait", "blocking"}
       => \A st \in Range(reported[i].from) :
            \E j \in 1 .. i - 1 :
              reported[j] = Row("slow", <<st>>, <<st>>, NoPlan)

Twice(list, x) == \E i, j \in DOMAIN list : i # j /\ list[i] = x /\ list[j] = x

\* An answer that lists one statement twice: to two users, with two events.
ListedTwice(answer, row) ==
  \/ row.event = "slow" /\ Twice(answer.slow, row.of[1])
  \/ /\ row.event \in {"individual", "plan"}
     /\ Twice(answer.samples, row.of[1]) \/ Twice(answer.slow, row.from[1])
  \/ row.event = "wait" /\ Twice(answer.waits, row.of[1])
  \/ row.event = "blocking" /\ Twice(answer.blocks, row.of)

\* Nothing is reported twice that the server lists once, neither after a failed
\* publish that kept its rows nor by two searches, unless two slow queries share
\* a query id: then each of them reports the samples of both, with its own
\* average time.
ReportedOnce ==
  \A i, j \in DOMAIN reported :
    /\ i < j
    /\ reported[i].event = reported[j].event /\ reported[i].of = reported[j].of
    => \/ ListedTwice(server, reported[i])
       \/ /\ ~isRds /\ reported[i].event \in {"individual", "plan"}
          /\ reported[i].from # reported[j].from
          /\ reported[i].from[1].id = reported[j].from[1].id

Reports(event, of) == {row \in Reported(event) : row.of = of}

Eligible(stage) ==
  CASE stage = "slow" -> CheckSlowQueryMetricsFetchEligibility
    [] stage = "plan" -> TRUE
    [] stage = "individual" ->
         CheckSlowQueryMetricsFetchEligibility
         /\ (isRds \/ CheckIndividualQueryMetricsFetchEligibility)
    [] stage = "wait" -> WaitEligible
    [] stage = "blocking" -> CheckBlockingSessionMetricsFetchEligibility

Running(st) == \E q \in Range(server.active) : q.text = st.text
SlowOnes == {st \in Range(Listed(server.slow)) : isRds => Running(st)}
Sound(stage) == stage \notin failed /\ Eligible(stage)

SlowComplete == \A st \in SlowOnes : Reports("slow", <<st>>) # {}

IndividualComplete ==
  IF isRds THEN \A st \in SlowOnes : Reports("individual", <<st>>) # {}
  ELSE \A st \in Range(Listed(server.samples)) :
         st.id # NoId /\ (\E slow \in SlowOnes : slow.id = st.id)
           => Reports("individual", <<st>>) # {}

\* A stage whose publish failed hands on nothing, although the rows it kept may
\* be reported later.
PlanComplete ==
  \A row \in Reported("individual") :
    /\ Explicable(row)
    /\ "individual" \notin failed \/ row \in Range(individualQueries)
    => [row EXCEPT !.event = "plan"] \in Reported("plan")

WaitComplete ==
  \A st \in Range(Waits) :
    (isRds => \E slow \in SlowOnes : slow.text = st.text)
      => Reports("wait", <<st>>) # {}

BlockingComplete ==
  \A b \in Range(Blocks) :
    (isRds => \A k \in {1, 2} : \E slow \in SlowOnes : slow.text = b[k].text)
      => Reports("blocking", b) # {}

\* A failure costs no more than its own stage and those that need its list:
\* every stage that neither failed nor lacked an extension reports all that
\* the server had for it, the plan stage a plan for every individual query that
\* has an id, those a partly failed search found included.
FailuresStayLocal ==
  pc = "done" /\ asked # {} =>
    /\ Sound("slow") => SlowComplete
    /\ Sound("slow") /\ Sound("individual") => IndividualComplete
    /\ Sound("plan") => PlanComplete
    /\ Sound("wait") /\ (isRds => Sound("slow")) => WaitComplete
    /\ Sound("blocking") /\ (isRds => Sound("slow")) => BlockingComplete

\* Extensions and versions the SQL texts of queries.go need; those not named
\* read what every server from version 12 on has.
Answerable(query) ==
  CASE query = "SlowQueriesForV12" ->
         version = 12 /\ "pg_stat_statements" \in enabledExtensions
    [] query = "SlowQueriesForV13AndAbove" ->
         version >= 13 /\ "pg_stat_statements" \in enabledExtensions
    [] query = "WaitEvents" ->
         {"pg_stat_statements", "pg_wait_sampling"} \subseteq enabledExtensions
    [] query = "BlockingQueriesForV14AndAbove" ->
         version >= 14 /\ "pg_stat_statements" \in enabledExtensions
    [] query = "IndividualQuerySearchV12" ->
         version = 12 /\ "pg_stat_monitor" \in enabledExtensions
    [] query = "IndividualQuerySearchV13AndAbove" ->
         version >= 13 /\ "pg_stat_monitor" \in enabledExtensions
    [] OTHER -> TRUE

\* No query is sent to a server that lacks an extension or a column it reads:
\* the eligibility checks and the version switches, which live in different
\* packages, agree for every version and set of extensions.
QueriesFitServer ==
  \A query \in asked : version >= 12 /\ Answerable(query)

\* The promise of query_performance_main.go:81-89, "accurate correlation": on
\* RDS a wait event or a blocking session carries the id of its own query.
AccurateCorrelation ==
  isRds => \A row \in Reported("wait") \cup Reported("blocking") :
             \A k \in DOMAIN row.of : row.from[k].id = row.of[k].id

\* The promise of common_helpers.go:33, "a unique plan ID for a query".
PlanIdsAreUnique ==
  \A i, j \in DOMAIN reported :
    /\ reported[i].event = "individual" /\ reported[j].event = "individual"
    /\ reported[i].plan = reported[j].plan
    => i = j
=============================================================================
