---------------------------- MODULE IngestMetric ----------------------------
(***************************************************************************)
(* The batching ingester of query monitoring (common-utils/                *)
(* ingestion-helpers.go): IngestMetric turns every model of a list into a  *)
(* metric set of the instance entity and publishes whenever the entity     *)
(* holds PublishThreshold new sets.  One goroutine makes all the calls, one*)
(* after the other, over the same integration object; a publish may fail   *)
(* in any of them, and the caller goes on with the next list.              *)
(*                                                                         *)
(* A metric set is named <<call, position in metricList>>.  The name       *)
(* "host:port" given to the SDK is never empty, so Entity cannot fail and  *)
(* the error returns of CreateEntity are unreachable.                      *)
(***************************************************************************)
EXTENDS Integers, Sequences

CONSTANTS
  PublishThreshold,   \* sets per batch, 600 in constants.go
  Lists,              \* the metricLists a caller may pass
  MaxLen,             \* bound on their length
  Failures,           \* how a failing Publish may leave the entities
  MaxCalls            \* bound on the number of calls

Kind == {"nil", "struct", "invalid"}   \* as ProcessModel tells models apart

ASSUME IngestAssumption ==
  /\ PublishThreshold \in Nat \ {0}
  /\ MaxLen \in Nat
  /\ Lists \subseteq Seq(Kind)
  /\ \A list \in Lists : Len(list) <= MaxLen
  /\ Failures \subseteq {"kept", "lost"}
  /\ MaxCalls \in Nat

VARIABLES
  pc,            \* "idle" between calls, "loop", or at one of the two publishes
  call,          \* calls begun
  metricList,    \* argument of the current or last call
  pos,           \* next element of metricList
  metricCount,
  attached,      \* instanceEntity is an entity the integration will publish
  pending,       \* metric sets of the integration's entity
  published,     \* metric sets written out, in order
  outcome,       \* result of the last finished call
  carried        \* sets a failed publish had left when this call began

vars == <<pc, call, metricList, pos, metricCount, attached, pending,
          published, outcome, carried>>

Init ==
  /\ pc = "idle" /\ call = 0 /\ metricList = <<>> /\ pos = 1
  /\ metricCount = 0 /\ attached = FALSE
  /\ pending = <<>> /\ published = <<>>
  /\ outcome = "nil" /\ carried = 0

\* Entity() finds the registered entity or registers a new one.
CreateEntity == attached' = TRUE

\* The set is appended to the entity at hand, published later or not.
NewMetricSet ==
  pending' = IF attached THEN Append(pending, <<call, pos>>) ELSE pending

Return(result) == pc' = "idle" /\ outcome' = result

Begin ==
  /\ pc = "idle" /\ call < MaxCalls
  /\ metricList' \in Lists
  /\ call' = call + 1 /\ pos' = 1 /\ metricCount' = 0
  /\ CreateEntity
  /\ carried' = Len(pending)
  /\ pc' = "loop"
  /\ UNCHANGED <<pending, published, outcome>>

\* Mutation: the loop variable of a nil model is never advanced.
SkipNilStuck ==
  /\ pc = "loop" /\ pos <= Len(metricList) /\ metricList[pos] = "nil"
  /\ UNCHANGED vars

SkipNil ==
  /\ pc = "loop" /\ pos <= Len(metricList) /\ metricList[pos] = "nil"
  /\ pos' = pos + 1
  /\ UNCHANGED <<pc, call, metricList, metricCount, attached, pending,
                 published, outcome, carried>>

\* Mutation: the batch is closed one set too late.
ReachesThresholdLate ==
  metricList[pos] = "struct" /\ metricCount = PublishThreshold

\* ProcessModel rejects an invalid model after its set was created and
\* counted, and the continue jumps over the threshold test.
ReachesThreshold ==
  metricList[pos] = "struct" /\ metricCount + 1 = PublishThreshold

\* Mutation: the model that fills a batch is visited again after the publish.
AddModelAgain ==
  /\ pc = "loop" /\ pos <= Len(metricList) /\ metricList[pos] # "nil"
  /\ metricCount' = metricCount + 1
  /\ NewMetricSet
  /\ pos' = IF ReachesThreshold THEN pos ELSE pos + 1
  /\ pc' = IF ReachesThreshold THEN "threshold" ELSE "loop"
  /\ UNCHANGED <<call, metricList, attached, published, outcome, carried>>

\* Mutation: every model also skips its successor.
AddModelSkips ==
  /\ pc = "loop" /\ pos <= Len(metricList) /\ metricList[pos] # "nil"
  /\ metricCount' = metricCount + 1
  /\ NewMetricSet
  /\ pos' = pos + 2
  /\ pc' = IF ReachesThreshold THEN "threshold" ELSE "loop"
  /\ UNCHANGED <<call, metricList, attached, published, outcome, carried>>

AddModel ==
  /\ pc = "loop" /\ pos <= Len(metricList) /\ metricList[pos] # "nil"
  /\ metricCount' = metricCount + 1
  /\ NewMetricSet
  /\ pos' = pos + 1
  /\ pc' = IF ReachesThreshold THEN "threshold" ELSE "loop"
  /\ UNCHANGED <<call, metricList, attached, published, outcome, carried>>

EndOfList ==
  /\ pc = "loop" /\ pos > Len(metricList)
  /\ IF metricCount > 0 THEN pc' = "flush" /\ UNCHANGED outcome
                        ELSE Return("nil")
  /\ UNCHANGED <<call, metricList, pos, metricCount, attached, pending,
                 published, carried>>

\* Mutation: the entity is not created again, so the handle stays detached.
PublishMetricsStale ==
  /\ published' = published \o pending
  /\ pending' = <<>>
  /\ carried' = 0
  /\ attached' = FALSE

\* Publish writes every set and clears the integration, which detaches the
\* old entity; PublishMetrics then creates it again.
PublishMetrics ==
  /\ published' = published \o pending
  /\ pending' = <<>>
  /\ carried' = 0
  /\ CreateEntity

ThresholdPublish ==
  /\ pc = "threshold"
  /\ metricCount' = 0
  /\ PublishMetrics
  /\ pc' = "loop"
  /\ UNCHANGED <<call, metricList, pos, outcome>>

FinalPublish ==
  /\ pc = "flush"
  /\ PublishMetrics
  /\ Return("nil")
  /\ UNCHANGED <<call, metricList, pos, metricCount>>

\* Saving the SDK's store fails before the write and keeps the entities; a
\* failing write loses them.  The error is returned either way.
PublishFails(how) ==
  /\ pc \in {"threshold", "flush"}
  /\ metricCount' = IF pc = "threshold" THEN 0 ELSE metricCount
  /\ pending' = IF how = "kept" THEN pending ELSE <<>>
  /\ attached' = (attached /\ how = "kept")
  /\ Return("error")
  /\ UNCHANGED <<call, metricList, pos, published, carried>>

Next ==
  \/ Begin \/ SkipNil \/ AddModel \/ EndOfList
  \/ ThresholdPublish \/ FinalPublish
  \/ \E how \in Failures : PublishFails(how)

Spec == Init /\ [][Next]_vars

-----------------------------------------------------------------------------
Item == (1 .. MaxCalls) \X (1 .. MaxLen)

\* Type correctness; pos never runs further than one past the list.
TypeOK ==
  /\ pc \in {"idle", "loop", "threshold", "flush"}
  /\ call \in 0 .. MaxCalls
  /\ metricList \in Seq(Kind) /\ Len(metricList) <= MaxLen
  /\ pos \in 1 .. Len(metricList) + 1
  /\ metricCount \in Nat
  /\ attached \in BOOLEAN
  /\ pending \in Seq(Item) /\ published \in Seq(Item)
  /\ outcome \in {"nil", "error"}
  /\ carried \in Nat

Before(a, b) == a[1] < b[1] \/ (a[1] = b[1] /\ a[2] < b[2])

Increasing(s) == \A i, j \in DOMAIN s : i < j => Before(s[i], s[j])

\* What was published, and what is still pending after it, is in the order
\* in which IngestMetric met the models, with no set twice: neither a batch
\* boundary nor the sets a failed call left behind reorder or repeat one.
InOrderAtMostOnce == Increasing(published \o pending)

\* A call that returns nil has published every model of its list that is
\* not nil: no set went to an entity the last Publish had detached.
NilMeansPublished ==
  pc = "idle" /\ outcome = "nil" =>
    \A p \in DOMAIN metricList :
      metricList[p] # "nil" =>
        \E k \in DOMAIN published : published[k] = <<call, p>>

\* A publish never sends nothing, and with the models its callers pass it
\* sends at most PublishThreshold sets beyond those an earlier failure left.
BatchWithinThreshold ==
  pc \in {"threshold", "flush"} =>
    /\ pending # <<>>
    /\ (\A p \in DOMAIN metricList : metricList[p] # "invalid") =>
         Len(pending) <= carried + PublishThreshold

\* The ingester implements the delivery contract: a set leaves the backlog
\* with all of it, by a publish or by a failed write.
Delivery == INSTANCE BatchDelivery WITH
              backlog <- pending, delivered <- published
ImplementsDelivery == Delivery!Spec
=============================================================================
