--------------------------- MODULE ExecutionPlans ---------------------------
(***************************************************************************)
(* Execution plans (performance-metrics/execution_plan_metrics.go): the    *)
(* individual queries are grouped by database, one connection pool is      *)
(* opened per group, and each query is EXPLAINed and its plan tree         *)
(* flattened into metrics.  Only the first row of an answer is read and    *)
(* rows.Close() is deferred inside the loop, so each answered query keeps  *)
(* its server connection until the group is finished.                      *)
(*                                                                         *)
(* A plan tree is a set of nodes, a node the path of child positions that  *)
(* leads to it; "bad" are the nodes mapstructure cannot decode.  The stack *)
(* holds the calls fetchNestedExecutionPlanDetails has still to make.      *)
(***************************************************************************)
EXTENDS Integers, FiniteSets, SequencesExt

CONSTANTS
  NumQueries,   \* individual queries handed over
  Db,           \* their databases
  NoDb,         \* a database name that is nil
  Plans,        \* plans a server may answer, [nodes, bad] records
  Slots,        \* connections the server has left
  MaxIdle       \* idle connections a pool keeps, 2 by default in database/sql

Query == 1 .. NumQueries
NoPlan == [nodes |-> {}, bad |-> {}]

Children(nodes, node) ==
  {n \in nodes : Len(n) = Len(node) + 1 /\ IsPrefix(node, n)}

\* The nested plans of a node are the elements of a JSON array.
IsTree(nodes) ==
  /\ IsFiniteSet(nodes) /\ nodes \subseteq Seq(Nat)
  /\ \A n \in nodes :
       /\ Prefixes(n) \subseteq nodes
       /\ \E c \in 0 .. Cardinality(nodes) :
            Children(nodes, n) = {Append(n, k) : k \in 1 .. c}

ASSUME PlanAssumption ==
  /\ NumQueries \in Nat /\ Slots \in Nat /\ MaxIdle \in Nat
  /\ NoDb \notin Db
  /\ \A plan \in Plans : IsTree(plan.nodes) /\ plan.bad \subseteq plan.nodes

VARIABLES
  dbOf,         \* DatabaseName of every query
  hasText,      \* queries whose text and id are not nil
  pc,           \* "range", "explain", "walk" or "done"
  todo,         \* databases the range over the map has not visited
  rest,         \* queries of the current group still to explain
  held,         \* connections kept by unclosed rows
  idle,         \* connections idle in the pool
  cur,          \* query whose plan is walked
  stack,        \* nodes still to visit
  level,        \* the shared counter behind *level
  metrics,      \* executionPlanMetricsList: [query, node, level] records
  planOf,       \* plan a query was answered with, a history variable
  failed,       \* queries whose own EXPLAIN or answer was unusable
  starved       \* queries for which no connection was left

argVars == <<dbOf, hasText>>
poolVars == <<held, idle>>
walkVars == <<cur, stack, level, metrics>>
vars == <<argVars, pc, todo, rest, poolVars, walkVars, planOf, failed, starved>>

\* A query without a database joins no group.
AddToGroup(groups, q) ==
  IF dbOf[q] = NoDb THEN groups
  ELSE [groups EXCEPT ![dbOf[q]] = Append(@, q)]

\* The groups after each number of queries.
Groups ==
  LET after[k \in 0 .. NumQueries] ==
        IF k = 0 THEN [d \in Db |-> <<>>] ELSE AddToGroup(after[k - 1], k)
  IN  after

groupQueriesByDatabase == Groups[NumQueries]

Init ==
  /\ dbOf \in [Query -> Db \cup {NoDb}] /\ hasText \in SUBSET Query
  /\ pc = "range" /\ rest = <<>>
  /\ todo = {dbOf[q] : q \in Query} \ {NoDb}
  /\ held = 0 /\ idle = 0
  /\ cur = 0 /\ stack = <<>> /\ level = 0 /\ metrics = <<>>
  /\ planOf = [q \in Query |-> NoPlan] /\ failed = {} /\ starved = {}

-----------------------------------------------------------------------------
(* Groups *)

\* A new group; the pool connects lazily.
OpenGroup ==
  /\ pc = "range"
  /\ \E d \in todo :
       /\ todo' = todo \ {d}
       /\ rest' = groupQueriesByDatabase[d]
  /\ pc' = "explain"
  /\ UNCHANGED <<argVars, poolVars, walkVars, planOf, failed, starved>>

\* NewConnection fails; the other groups are still explained.
GroupFails ==
  /\ pc = "range"
  /\ \E d \in todo :
       /\ todo' = todo \ {d}
       /\ failed' = failed \cup {q \in Query : dbOf[q] = d}
  /\ UNCHANGED <<argVars, pc, rest, poolVars, walkVars, planOf, starved>>

\* Mutations: the rows are never closed, so closing the pool leaves their
\* connections open; or the pools, their rows closed, wait for the last group.
CloseGroupKeepsRows ==
  /\ pc = "explain" /\ rest = <<>>
  /\ held' = held /\ idle' = 0
  /\ pc' = "range"
  /\ UNCHANGED <<argVars, todo, rest, walkVars, planOf, failed, starved>>

CloseGroupAtTheEnd ==
  /\ pc = "explain" /\ rest = <<>>
  /\ held' = IF held + idle > MaxIdle THEN MaxIdle ELSE held + idle
  /\ idle' = 0 /\ pc' = "range"
  /\ UNCHANGED <<argVars, todo, rest, walkVars, planOf, failed, starved>>

\* The deferred rows.Close() calls run, then dbConn.Close().
CloseGroup ==
  /\ pc = "explain" /\ rest = <<>>
  /\ held' = 0 /\ idle' = 0
  /\ pc' = "range"
  /\ UNCHANGED <<argVars, todo, rest, walkVars, planOf, failed, starved>>

Finish ==
  /\ pc = "range" /\ todo = {}
  /\ pc' = "done"
  /\ UNCHANGED <<argVars, todo, rest, poolVars, walkVars, planOf, failed,
                 starved>>

-----------------------------------------------------------------------------
(* One query of processExecutionPlanOfQueries *)

Explaining == pc = "explain" /\ rest # <<>>
Skip == rest' = Tail(rest)

\* The pointers of the others are never followed.
Complete == {q \in Query : q \in hasText /\ dbOf[q] # NoDb}

SkipIncomplete ==
  /\ Explaining /\ Head(rest) \notin hasText
  /\ Skip
  /\ UNCHANGED <<argVars, pc, todo, poolVars, walkVars, planOf, failed,
                 starved>>

Saturated == idle = 0 /\ held >= Slots

NoConnectionLeft ==
  /\ Explaining /\ Head(rest) \in hasText
  /\ Saturated
  /\ starved' = starved \cup {Head(rest)}
  /\ Skip
  /\ UNCHANGED <<argVars, pc, todo, poolVars, walkVars, planOf, failed>>

\* A connection is taken from the pool or dialled, which may fail.  An error,
\* or an answer without rows, gives it back to the pool; an answer that cannot be scanned
\* or is no JSON leaves the rows open like a good one.
ExplainFails ==
  /\ Explaining /\ Head(rest) \in hasText
  /\ ~Saturated
  /\ \/ /\ idle' \in {idle, IF idle = 0 /\ MaxIdle > 0 THEN 1 ELSE idle}
        /\ UNCHANGED held
     \/ /\ held' = held + 1
        /\ idle' = IF idle > 0 THEN idle - 1 ELSE 0
  /\ failed' = failed \cup {Head(rest)}
  /\ Skip
  /\ UNCHANGED <<argVars, pc, todo, walkVars, planOf, starved>>

\* Mutation: the check for a query without text or id is lost.
ExplainAnswersUnchecked ==
  /\ Explaining
  /\ ~Saturated
  /\ held' = held + 1
  /\ idle' = IF idle > 0 THEN idle - 1 ELSE 0
  /\ \E plan \in Plans :
       /\ planOf' = [planOf EXCEPT ![Head(rest)] = plan]
       /\ stack' = IF plan.nodes = {} THEN <<>> ELSE << <<>> >>
  /\ cur' = Head(rest) /\ level' = 0
  /\ pc' = "walk"
  /\ Skip
  /\ UNCHANGED <<argVars, todo, metrics, failed, starved>>

ExplainAnswers ==
  /\ Explaining /\ Head(rest) \in hasText
  /\ ~Saturated
  /\ held' = held + 1
  /\ idle' = IF idle > 0 THEN idle - 1 ELSE 0
  /\ \E plan \in Plans :
       /\ planOf' = [planOf EXCEPT ![Head(rest)] = plan]
       /\ stack' = IF plan.nodes = {} THEN <<>> ELSE << <<>> >>
  /\ cur' = Head(rest) /\ level' = 0
  /\ pc' = "walk"
  /\ Skip
  /\ UNCHANGED <<argVars, todo, metrics, failed, starved>>

Plan == planOf[cur]

\* The nested plans of a node, in the order of the JSON array.
Nested(node) ==
  [k \in 1 .. Cardinality(Children(Plan.nodes, node)) |-> Append(node, k)]

\* Mutation: the level is the depth of the node and not the counter.
VisitDepth ==
  /\ pc = "walk" /\ stack # <<>> /\ Head(stack) \notin Plan.bad
  /\ metrics' = Append(metrics, [query |-> cur, node |-> Head(stack),
                                 level |-> Len(Head(stack))])
  /\ level' = level + 1
  /\ stack' = Nested(Head(stack)) \o Tail(stack)
  /\ UNCHANGED <<argVars, pc, todo, rest, poolVars, cur, planOf, failed,
                 starved>>

Visit ==
  /\ pc = "walk" /\ stack # <<>> /\ Head(stack) \notin Plan.bad
  /\ metrics' = Append(metrics, [query |-> cur, node |-> Head(stack),
                                 level |-> level])
  /\ level' = level + 1
  /\ stack' = Nested(Head(stack)) \o Tail(stack)
  /\ UNCHANGED <<argVars, pc, todo, rest, poolVars, cur, planOf, failed,
                 starved>>

\* A node that cannot be decoded is dropped with everything below it.
VisitFails ==
  /\ pc = "walk" /\ stack # <<>> /\ Head(stack) \in Plan.bad
  /\ stack' = Tail(stack)
  /\ UNCHANGED <<argVars, pc, todo, rest, poolVars, cur, level, metrics,
                 planOf, failed, starved>>

WalkEnds ==
  /\ pc = "walk" /\ stack = <<>>
  /\ pc' = "explain"
  /\ UNCHANGED <<argVars, todo, rest, poolVars, walkVars, planOf, failed,
                 starved>>

Next == \/ OpenGroup \/ GroupFails \/ CloseGroup \/ Finish
        \/ SkipIncomplete \/ NoConnectionLeft \/ ExplainFails \/ ExplainAnswers
        \/ Visit \/ VisitFails \/ WalkEnds

Spec == Init /\ [][Next]_vars

-----------------------------------------------------------------------------
\* Type correctness of the loops and the pool's two counters; only a query
\* with text, id and database name is explained and walked.
TypeOK ==
  /\ pc \in {"range", "explain", "walk", "done"}
  /\ todo \subseteq Db /\ rest \in Seq(Query)
  /\ held \in 0 .. Slots /\ idle \in 0 .. MaxIdle
  /\ cur \in Complete \cup {0} /\ level \in Nat
  /\ failed \subseteq Query /\ starved \subseteq Query

\* The server is never asked for more connections than the group has
\* queries, and none survives the group.
PoolBounded ==
  /\ pc \in {"range", "done"} => held + idle = 0
  /\ held + idle <= Slots
  /\ \A d \in Db : rest # <<>> /\ dbOf[Head(rest)] = d =>
       held + idle + Len(rest) <= Cardinality({q \in Query : dbOf[q] = d})

\* No plan is lost to the connections its own group keeps open, unless the
\* group has more queries than the server has connections left: other groups
\* take nothing away.
StarvedOnlyInLargeGroups ==
  \A q \in starved : Cardinality({p \in Query : dbOf[p] = dbOf[q]}) > Slots

RowsOf(q) == {i \in DOMAIN metrics : metrics[i].query = q}

\* Depth-first order of nodes: an ancestor first, then siblings as listed.
Precedes(a, b) ==
  \/ IsStrictPrefix(a, b)
  \/ \E k \in DOMAIN a \cap DOMAIN b :
       a[k] < b[k] /\ SubSeq(a, 1, k - 1) = SubSeq(b, 1, k - 1)

\* The nodes that can be decoded together with their ancestors.
Good(plan) == {n \in plan.nodes : \A m \in plan.bad : ~IsPrefix(m, n)}

Reported(q) ==
  /\ {metrics[i].node : i \in RowsOf(q)} = Good(planOf[q])
  /\ \A i \in RowsOf(q) :
       metrics[i].level = Cardinality({j \in RowsOf(q) : j < i})
  /\ \A i, j \in RowsOf(q) :
       i < j => Precedes(metrics[i].node, metrics[j].node)

\* A query that is neither starved nor failed reports its whole plan: every
\* node that can be decoded together with its ancestors, once, depth first,
\* with levels 0, 1, 2, ... that number the nodes of the plan.
PlansAreWholeAndNumbered ==
  pc = "done" =>
    \A q \in hasText \ (failed \cup starved) : dbOf[q] # NoDb => Reported(q)
=============================================================================
