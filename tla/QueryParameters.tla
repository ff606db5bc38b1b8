--------------------------- MODULE QueryParameters ---------------------------
(***************************************************************************)
(* SetCommonParameters (common_parameters.go) and what its two thresholds  *)
(* do in the queries: how many rows a list passed to IngestMetric can have *)
(* and which executions become individual queries.                         *)
(*                                                                         *)
(* A slow query is the sequence of the times of its recent executions, the *)
(* slowest first, as the ORDER BY of the individual query returns them;    *)
(* the statements come in the order of the slow query's own ORDER BY.      *)
(***************************************************************************)
EXTENDS Integers, SequencesExt

CONSTANTS
  Statements,   \* what pg_stat_statements may hold: sequences of statements
  Times,        \* times of an execution
  CountArgs,    \* values of query_monitoring_count_threshold
  TimeArgs,     \* values of query_monitoring_response_time_threshold
  OtherRows,    \* how many wait events or blocking sessions there may be
  DefaultQueryMonitoringCountThreshold,
  MaxQueryCountThreshold,
  DefaultQueryResponseTimeThreshold,
  MaxIndividualQueryCountThreshold,
  PublishThreshold

\* What the ORDER BY makes of the executions of a statement.
Descending ==
  {times \in Seq(Times) : \A j, k \in DOMAIN times : j <= k => times[j] >= times[k]}

ParametersAssumption ==
  /\ Times \subseteq Nat /\ CountArgs \subseteq Int /\ TimeArgs \subseteq Int
  /\ \A list \in Statements : list \in Seq(Descending)
  /\ OtherRows \subseteq Nat
  /\ DefaultQueryMonitoringCountThreshold \in 0 .. MaxQueryCountThreshold
  /\ DefaultQueryResponseTimeThreshold \in Nat
  /\ MaxIndividualQueryCountThreshold \in Nat \ {0}
  /\ MaxQueryCountThreshold \in Nat /\ PublishThreshold \in Nat
  /\ MaxQueryCountThreshold * MaxIndividualQueryCountThreshold < PublishThreshold

VARIABLES
  countArg, timeArg, isRds,
  server,       \* the statements
  cp,           \* the parameters: count and time
  pc,           \* "start", "other", "slow", "individual" or "done"
  slow,         \* statements reported as slow
  individual,   \* executions reported: which slow query, its time
  calls         \* lengths of the lists passed to IngestMetric

vars == <<countArg, timeArg, isRds, server, cp, pc, slow, individual, calls>>

Init ==
  /\ countArg \in CountArgs /\ timeArg \in TimeArgs /\ isRds \in BOOLEAN
  /\ server \in Statements
  /\ cp = [count |-> 0, time |-> 0]
  /\ pc = "start" /\ slow = <<>> /\ individual = <<>> /\ calls = <<>>

-----------------------------------------------------------------------------
validateAndGetQueryMonitoringResponseTimeThreshold ==
  IF timeArg < 0 THEN DefaultQueryResponseTimeThreshold ELSE timeArg

\* Mutation: no upper limit.
CountThresholdUnlimited ==
  IF countArg < 0 THEN DefaultQueryMonitoringCountThreshold ELSE countArg

validateAndGetQueryMonitoringCountThreshold ==
  IF countArg < 0 THEN DefaultQueryMonitoringCountThreshold
  ELSE Min({countArg, MaxQueryCountThreshold})

SetCommonParameters ==
  /\ pc = "start"
  /\ cp' = [count |-> validateAndGetQueryMonitoringCountThreshold,
            time |-> validateAndGetQueryMonitoringResponseTimeThreshold]
  /\ pc' = "other"
  /\ UNCHANGED <<countArg, timeArg, isRds, server, slow, individual, calls>>

Limit(rows, n) == SubSeq(rows, 1, Min({Len(rows), n}))

\* Wait events and blocking sessions have a LIMIT of their own.
PopulateOtherMetrics ==
  /\ pc = "other"
  /\ \E waits, blocks \in OtherRows :
       calls' = <<Min({waits, cp.count}), Min({blocks, cp.count})>>
  /\ pc' = "slow"
  /\ UNCHANGED <<countArg, timeArg, isRds, server, cp, slow, individual>>

\* On RDS only statements that run now stay in the list; it is passed on even
\* when none does.
PopulateSlowRunningMetrics ==
  /\ pc = "slow"
  /\ LET rows == Limit(server, cp.count)
     IN  \E n \in 0 .. Len(rows) : \E running \in [1 .. n -> DOMAIN rows] :
           /\ \A j, k \in 1 .. n : j < k => running[j] < running[k]
           /\ isRds \/ n = Len(rows)
           /\ slow' = [k \in 1 .. n |-> rows[running[k]]]
  /\ calls' = Append(calls, Len(slow'))
  /\ pc' = "individual"
  /\ UNCHANGED <<countArg, timeArg, isRds, server, cp, individual>>

Quota == Min({cp.count, MaxIndividualQueryCountThreshold})

\* Mutation: an execution as slow as the threshold is taken.
OverThresholdOrAt(times) ==
  LET over[n \in 0 .. Len(times)] ==
        IF n = 0 THEN <<>>
        ELSE IF times[n] >= cp.time THEN Append(over[n - 1], times[n]) ELSE over[n - 1]
  IN  Limit(over[Len(times)], Quota)

OverThreshold(times) ==
  LET over[n \in 0 .. Len(times)] ==
        IF n = 0 THEN <<>>
        ELSE IF times[n] > cp.time THEN Append(over[n - 1], times[n]) ELSE over[n - 1]
  IN  Limit(over[Len(times)], Quota)

IndividualQueries(k) ==
  LET times == OverThreshold(slow[k])
  IN  [j \in DOMAIN times |-> [slow |-> k, time |-> times[j]]]

\* One query per slow query; the rows are appended.
PopulateIndividualQueryMetrics ==
  /\ pc = "individual" /\ ~isRds
  /\ individual' = FlattenSeq([k \in DOMAIN slow |-> IndividualQueries(k)])
  /\ calls' = Append(calls, Len(individual'))
  /\ pc' = "done"
  /\ UNCHANGED <<countArg, timeArg, isRds, server, cp, slow>>

\* The statement a session runs now, or ran last, stands for the slow query.
PopulateIndividualQueryMetricsPgStat ==
  /\ pc = "individual" /\ isRds
  /\ \E now \in [DOMAIN slow -> Times] :
       individual' = [k \in DOMAIN slow |-> [slow |-> k, time |-> now[k]]]
  /\ calls' = Append(calls, Len(individual'))
  /\ pc' = "done"
  /\ UNCHANGED <<countArg, timeArg, isRds, server, cp, slow>>

Next ==
  \/ SetCommonParameters \/ PopulateOtherMetrics \/ PopulateSlowRunningMetrics
  \/ PopulateIndividualQueryMetrics \/ PopulateIndividualQueryMetricsPgStat

Spec == Init /\ [][Next]_vars

-----------------------------------------------------------------------------
(* Properties *)

\* Type correctness.
TypeOK ==
  /\ cp.count \in 0 .. MaxQueryCountThreshold /\ cp.time \in Nat
  /\ Len(slow) <= Len(server)
  /\ \A k \in DOMAIN individual : individual[k].slow \in DOMAIN slow

\* Whatever the arguments, a list of these four kinds never fills a batch of
\* IngestMetric: it is published in one piece or not at all.
CallsFitOneBatch == \A k \in DOMAIN calls : calls[k] < PublishThreshold

\* The rows of the k-th slow query.
Of(rows, k) ==
  LET upTo[n \in 0 .. Len(rows)] ==
        IF n = 0 THEN <<>>
        ELSE IF rows[n].slow = k THEN Append(upTo[n - 1], rows[n]) ELSE upTo[n - 1]
  IN  upTo[Len(rows)]

\* Off RDS the executions reported of a slow query are exactly its slowest
\* over the threshold: one that is missing is not over it, or the quota of
\* its statement is full of others at least as slow.
SlowestOverThreshold ==
  pc = "done" /\ ~isRds =>
    \A k \in DOMAIN slow :
      LET reported == Of(individual, k)
      IN  /\ Len(reported) <= Quota
          /\ \A j \in DOMAIN slow[k] :
               IF j <= Len(reported)
               THEN reported[j].time = slow[k][j] /\ slow[k][j] > cp.time
               ELSE slow[k][j] <= cp.time \/ Len(reported) = Quota

\* Together: both thresholds (common_parameters.go:40-59) do what they are for
\* and no list exceeds the batch they were chosen to fit.
ThresholdsAreKept == CallsFitOneBatch /\ SlowestOverThreshold
=============================================================================
