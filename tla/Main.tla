-------------------------------- MODULE Main --------------------------------
(***************************************************************************)
(* One run of the program (main.go): read the list, collect the metrics of *)
(* the instance, its databases and the custom queries, collect the         *)
(* inventory, publish, and then monitor queries over the same integration  *)
(* object.  Nothing tells main that a part has failed except a bad list of *)
(* databases: every other error is logged and the next part runs.          *)
(*                                                                         *)
(* The ingester is the module IngestMetric, over the same backlog: a set   *)
(* <<0, k>> comes from main, <<c, k>> from the c-th ingest call.  What the *)
(* parts before it do in detail (CollectionList, MetricsPopulation,        *)
(* CustomQueries) is reduced to what they may leave in the integration.    *)
(***************************************************************************)
EXTENDS Integers, Sequences, FiniteSets, Functions

CONSTANTS
  PublishThreshold, Lists, MaxLen, Failures, MaxCalls,   \* of IngestMetric
  MaxSets,      \* bound on the metric sets of PopulateMetrics
  MaxFileSets,  \* bound on those of the custom queries from a file
  ConfigRows    \* rows of pg_settings

Flags == [showVersion : BOOLEAN, valid : BOOLEAN, hasMetrics : BOOLEAN,
          customConfig : BOOLEAN, hasInventory : BOOLEAN,
          enableQueryMonitoring : BOOLEAN]

\* What IngestMetric assumes of the parameters it shares, and Nat bounds.
ASSUME MainAssumption ==
  /\ PublishThreshold \in Nat \ {0}
  /\ MaxLen \in Nat /\ MaxCalls \in Nat
  /\ Lists \subseteq Seq({"nil", "struct", "invalid"})
  /\ \A list \in Lists : Len(list) <= MaxLen
  /\ MaxSets \in Nat /\ MaxFileSets \in Nat /\ ConfigRows \in Nat
  /\ Failures \subseteq {"kept", "lost"}

VARIABLES
  args,
  step,         \* the part of main that runs, or "exit", "crash"
  status,       \* exit status, -1 while the program runs
  collected,    \* sets that main's parts have put into the integration
  inventory,    \* rows of pg_settings waiting in the instance entity
  sent,         \* rows of pg_settings that were written out
  open,         \* connections main itself holds
  lastPublish,  \* what the last publish of the run returned, if any
  mainPublish,  \* what the publish of main itself returned
  pc, call, metricList, pos, metricCount, attached, pending, published,
  outcome, carried                                       \* of IngestMetric

Ingest == INSTANCE IngestMetric

ingestVars == <<pc, call, metricList, pos, metricCount, attached, pending,
                published, outcome, carried>>
publishVars == <<lastPublish, mainPublish>>
mainVars == <<args, step, status, collected, inventory, sent, open,
              publishVars>>
vars == <<mainVars, ingestVars>>

\* An argument list of the SDK has at least one of metrics and inventory: when
\* neither flag is given both are on.
Init ==
  /\ args \in {a \in Flags : a.hasMetrics \/ a.hasInventory}
  /\ step = "start" /\ status = -1
  /\ collected = 0 /\ inventory = 0 /\ sent = 0
  /\ open = {} /\ lastPublish = "none" /\ mainPublish = "none"
  /\ Ingest!Init

NoIngest == UNCHANGED ingestVars

Exit(code) == step' = "exit" /\ status' = code /\ open' = {}

\* Mutation: main publishes before the custom queries of the file have run.
AfterPublishEarly(part) ==
  CASE part = "list" -> "metrics"
    [] part = "metrics" -> "publish"
    [] part = "publish" -> "file"
    [] part = "file" -> "inventory"
    [] part = "inventory" -> "monitoring"
    [] part = "monitoring" -> "return"

\* Mutation: query monitoring runs before the report of main is published.
AfterMonitoringFirst(part) ==
  CASE part = "list" -> "metrics"
    [] part = "metrics" -> "file"
    [] part = "file" -> "inventory"
    [] part = "inventory" -> "monitoring"
    [] part = "monitoring" -> "publish"
    [] part = "publish" -> "return"

After(part) ==
  CASE part = "list" -> "metrics"
    [] part = "metrics" -> "file"
    [] part = "file" -> "inventory"
    [] part = "inventory" -> "publish"
    [] part = "publish" -> "monitoring"
    [] part = "monitoring" -> "return"

GoOn == step' = After(step) /\ UNCHANGED status

\* integration.New, --show_version and Validate come before any collection.
Start ==
  /\ step = "start"
  /\ \/ Exit(1)                                   \* integration.New
     \/ args.showVersion /\ Exit(0)
     \/ ~args.showVersion /\ ~args.valid /\ Exit(1)
     \/ /\ ~args.showVersion /\ args.valid
        /\ step' = "list" /\ UNCHANGED <<status, open>>
  /\ NoIngest
  /\ UNCHANGED <<args, collected, inventory, sent, publishVars>>

\* BuildCollectionList gives its connections back, or ends the program; then
\* the instance entity is created.
BuildCollectionList ==
  /\ step = "list"
  /\ \/ Exit(1) /\ UNCHANGED attached
     \/ GoOn /\ attached' = TRUE /\ UNCHANGED open
  /\ UNCHANGED <<args, collected, inventory, sent, publishVars>>
  /\ UNCHANGED <<pc, call, metricList, pos, metricCount, pending, published,
                 outcome, carried>>

\* Mutation: a set is put in under the name of the one before it.
CollectAgain ==
  /\ pending' = Append(pending, <<0, IF collected = 0 THEN 1 ELSE collected>>)
  /\ collected' = collected + 1
  /\ UNCHANGED <<pc, call, metricList, pos, metricCount, attached, published,
                 outcome, carried>>

Collect ==
  /\ pending' = Append(pending, <<0, collected + 1>>)
  /\ collected' = collected + 1
  /\ UNCHANGED <<pc, call, metricList, pos, metricCount, attached, published,
                 outcome, carried>>

PopulateMetrics ==
  /\ step = "metrics" /\ args.hasMetrics /\ collected < MaxSets
  /\ Collect
  /\ UNCHANGED <<args, step, status, inventory, sent, open, publishVars>>

FileConfigured == args.hasMetrics /\ args.customConfig

PopulateCustomMetricsFromFile ==
  /\ step = "file" /\ FileConfigured /\ collected < MaxSets + MaxFileSets
  /\ Collect
  /\ UNCHANGED <<args, step, status, inventory, sent, open, publishVars>>

\* Whatever failed inside, what was collected before stays.
PartEnds ==
  /\ step \in {"metrics", "file"}
  /\ GoOn /\ NoIngest
  /\ UNCHANGED <<args, collected, inventory, sent, open, publishVars>>

\* A goroutine that dies takes the process with it.  The worker of a custom
\* query with a nil entity tells the WaitGroup first (CustomQueries), so main
\* may be anywhere behind its wait; the unchecked query text of a sample kills
\* the main goroutine between two ingest calls.
Crash ==
  /\ \/ /\ FileConfigured
        /\ step \in {"file", "inventory", "publish", "monitoring", "return"}
     \/ step = "monitoring" /\ "monitoring" \in open /\ pc = "idle"
  /\ step' = "crash" /\ status' = 2 /\ open' = {}
  /\ NoIngest
  /\ UNCHANGED <<args, collected, inventory, sent, publishVars>>

NoInventory ==
  /\ step = "inventory" /\ ~args.hasInventory
  /\ GoOn /\ NoIngest
  /\ UNCHANGED <<args, collected, inventory, sent, open, publishVars>>

InventoryConnectionFails ==
  /\ step = "inventory" /\ args.hasInventory
  /\ GoOn /\ NoIngest
  /\ UNCHANGED <<args, collected, inventory, sent, open, publishVars>>

\* Select has appended the rows it could read when it returns an error, and
\* the error does not end the function.
PopulateInventory ==
  /\ step = "inventory" /\ args.hasInventory
  /\ inventory' \in 0 .. ConfigRows
  /\ open' = open \cup {"inventory"}              \* until main returns
  /\ GoOn /\ NoIngest
  /\ UNCHANGED <<args, collected, sent, publishVars>>

\* Mutation: without metric sets the integration is not written.
WriteMetricsOnly ==
  /\ IF pending = <<>> THEN UNCHANGED <<sent, inventory>>
     ELSE sent' = sent + inventory /\ inventory' = 0
  /\ lastPublish' = "ok"

\* Mutation: the inventory stays in the integration when it is written.
WriteKeepsInventory ==
  /\ sent' = sent + inventory /\ UNCHANGED inventory
  /\ lastPublish' = "ok"

\* With the metric sets of the backlog goes the inventory.
Write ==
  /\ sent' = sent + inventory /\ inventory' = 0
  /\ lastPublish' = "ok"

Fails(how) ==
  /\ inventory' = IF how = "kept" THEN inventory ELSE 0
  /\ lastPublish' = "error" /\ UNCHANGED sent

\* Saving the store fails before the write and keeps the entities, a failing
\* write loses them.  The error is logged and main goes on.
Publish ==
  /\ step = "publish"
  /\ \/ /\ published' = published \o pending /\ pending' = <<>>
        /\ attached' = FALSE
        /\ Write
     \/ \E how \in Failures :
          /\ pending' = IF how = "kept" THEN pending ELSE <<>>
          /\ attached' = (how = "kept")
          /\ Fails(how) /\ UNCHANGED published
  /\ mainPublish' = lastPublish'
  /\ GoOn
  /\ UNCHANGED <<args, collected, open, pc, call, metricList, pos, metricCount,
                 outcome, carried>>

\* No databases, no connection, no version or extensions, an old server: any
\* of them ends QueryPerformanceMain before it has ingested anything.
StartMonitoring ==
  /\ step = "monitoring" /\ args.enableQueryMonitoring
  /\ "monitoring" \notin open
  /\ open' = open \cup {"monitoring"}
  /\ NoIngest
  /\ UNCHANGED <<args, step, status, collected, inventory, sent, publishVars>>

\* The stages ingest one list after the other (QueryMonitoring).  A publish of
\* the ingester takes along what an earlier failure has kept.
Monitor ==
  /\ step = "monitoring" /\ "monitoring" \in open
  /\ \/ /\ Ingest!Begin \/ Ingest!SkipNil \/ Ingest!AddModel \/ Ingest!EndOfList
        /\ UNCHANGED <<inventory, sent, lastPublish>>
     \/ (Ingest!ThresholdPublish \/ Ingest!FinalPublish) /\ Write
     \/ \E how \in Failures : Ingest!PublishFails(how) /\ Fails(how)
  /\ UNCHANGED <<args, step, status, collected, open, mainPublish>>

\* Mutation: QueryPerformanceMain does not close its connection.
EndMonitoringLeaks ==
  /\ step = "monitoring" /\ pc = "idle"
  /\ GoOn /\ NoIngest
  /\ UNCHANGED <<args, collected, inventory, sent, open, publishVars>>

\* Mutation: monitoring ends only after an ingest call that succeeded.
EndMonitoringOnSuccess ==
  /\ step = "monitoring" /\ pc = "idle" /\ outcome = "nil"
  /\ open' = open \ {"monitoring"}
  /\ GoOn /\ NoIngest
  /\ UNCHANGED <<args, collected, inventory, sent, publishVars>>

EndMonitoring ==
  /\ step = "monitoring" /\ pc = "idle"
  /\ open' = open \ {"monitoring"}
  /\ GoOn /\ NoIngest
  /\ UNCHANGED <<args, collected, inventory, sent, publishVars>>

\* main returns, whatever was lost, and its deferred Close runs.
Return ==
  /\ step = "return"
  /\ step' = "exit" /\ status' = 0
  /\ open' = open \ {"inventory"}
  /\ NoIngest
  /\ UNCHANGED <<args, collected, inventory, sent, publishVars>>

Progress ==
  \/ Start \/ BuildCollectionList
  \/ PopulateMetrics \/ PopulateCustomMetricsFromFile \/ PartEnds
  \/ NoInventory \/ InventoryConnectionFails \/ PopulateInventory
  \/ Publish \/ StartMonitoring \/ Monitor \/ EndMonitoring \/ Return

Next == Progress \/ Crash

Spec == Init /\ [][Next]_vars

\* Every part returns (queries and SDK calls do), and monitoring has finitely
\* many stages.  Nothing has to crash.
FairSpec == Spec /\ WF_vars(Progress)

-----------------------------------------------------------------------------
(* Properties *)

Over == step \in {"exit", "crash"}

\* Type correctness; the connections are those of inventory and monitoring.
TypeOK ==
  /\ args \in Flags
  /\ step \in {"start", "list", "metrics", "file", "inventory", "publish",
               "monitoring", "return", "exit", "crash"}
  /\ status \in -1 .. 2 /\ (status = -1 <=> ~Over)
  /\ collected \in 0 .. MaxSets + MaxFileSets
  /\ inventory \in 0 .. ConfigRows /\ sent \in 0 .. ConfigRows
  /\ open \subseteq {"inventory", "monitoring"}
  /\ lastPublish \in {"none", "ok", "error"}
  /\ mainPublish \in {"none", "ok", "error"}

\* Main and the ingester share one backlog and still implement the delivery
\* contract together: over the whole run, failed publishes and all, every set
\* leaves in the order of its creation, once, and with everything before it.
Delivery == INSTANCE BatchDelivery WITH
              backlog <- pending, delivered <- published,
              Item <- (0 .. MaxCalls) \X (1 .. MaxLen + MaxSets + MaxFileSets)
ImplementsDelivery == Delivery!Spec

\* The report of main is whole or not there, in every state: no part of it is
\* written before the last part has been collected, and a report kept by a
\* failed publish goes out with the first batch of monitoring that succeeds.
MainReportWhole ==
  LET mine == {x[2] : x \in {y \in Range(published) : y[1] = 0}}
  IN  mine \in {{}, 1 .. collected}

\* Query monitoring costs main nothing: whatever it loses, and if it dies, a
\* run whose own publish succeeded has written all main collected.  And main
\* ends with something unsent only if the last thing published failed.
MonitoringCostsNothing ==
  /\ Over /\ mainPublish = "ok" =>
       /\ \A k \in 1 .. collected : <<0, k>> \in Range(published)
       /\ inventory = 0
  /\ step = "exit" /\ (pending # <<>> \/ inventory > 0) => lastPublish = "error"

\* Every run ends, whatever its parts and ingest calls met, and has given back
\* the connections of inventory and of monitoring.
Terminates == <>(Over /\ open = {})
=============================================================================
