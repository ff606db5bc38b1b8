----------------------------- MODULE LockMetrics -----------------------------
(***************************************************************************)
(* The lock query (lock_definitions.go): how many locks of each mode the   *)
(* sessions of a listed database hold or wait for.  It counts the locks in *)
(* groups and lets crosstab turn the groups of a database into the columns *)
(* of one row.                                                             *)
(*                                                                         *)
(* A session of one database locks objects of that database, objects all   *)
(* databases share, and objects that belong to none (transactions); the    *)
(* last two show another, or no, database in pg_locks.                     *)
(***************************************************************************)
EXTENDS Integers, FiniteSets

CONSTANTS
  Databases,    \* databases of the server
  Listed,       \* those in the collection list
  Sessions,     \* pairs <<pid, database>>: pg_stat_activity
  Modes,        \* the lock modes the query has a column for
  OtherModes,   \* modes without one: SIReadLock
  Places,       \* where an object may be: own database, shared, none
  MaxLocks      \* bound on the locks held at a time

LockAssumption ==
  /\ Listed \subseteq Databases
  /\ Sessions \subseteq Nat \X Databases
  /\ \A s, t \in Sessions : s[1] = t[1] => s = t
  /\ Modes \cap OtherModes = {} /\ MaxLocks \in Nat

Lock == [session : Sessions, mode : Modes \cup OtherModes, place : Places]

VARIABLES
  pg_locks,     \* the locks, until the query has seen them
  pc,           \* "before" or "after" the query
  metrics       \* database -> mode -> count, of the databases in the answer

vars == <<pg_locks, pc, metrics>>

Init == pg_locks = {} /\ pc = "before" /\ metrics = <<>>

LockObject(lock) ==
  /\ pc = "before"
  /\ Cardinality(pg_locks) < MaxLocks
  /\ pg_locks' = pg_locks \cup {lock}
  /\ UNCHANGED <<pc, metrics>>

Unlock(lock) ==
  /\ pc = "before"
  /\ pg_locks' = pg_locks \ {lock} /\ UNCHANGED <<pc, metrics>>

-----------------------------------------------------------------------------
datname(lock) == lock.session[2]

\* Mutation: the mode is forgotten in the grouping.
GroupNoMode(lock) == <<datname(lock), lock.place>>

\* Mutation: grouped by session as well.
GroupBySession(lock) == <<lock.session, lock.place, lock.mode>>

\* GROUP BY lock.database, lock.mode, psa.datname
Group(lock) == <<datname(lock), lock.place, lock.mode>>

\* LEFT JOIN pg_stat_activity, WHERE psa.datname IN the list
Rows(locks) == {lock \in locks : datname(lock) \in Listed}

\* count(lock.mode) of the group of a lock
Count(lock, rows) == Cardinality({l \in rows : Group(l) = Group(lock)})

\* crosstab makes one row of the groups of a database; of two groups with one
\* mode it keeps the later, and ORDER BY database, mode does not order them.
\* COALESCE fills in the modes without a group.
Columns(d, rows) ==
  {columns \in [Modes -> 0 .. MaxLocks] :
     \A m \in Modes :
       LET counts == {Count(l, rows) : l \in {k \in rows : datname(k) = d /\ k.mode = m}}
       IN  IF counts = {} THEN columns[m] = 0 ELSE columns[m] \in counts}

Query ==
  /\ pc = "before" /\ pc' = "after"
  /\ LET rows == Rows(pg_locks)
     IN  metrics' \in [{datname(l) : l \in rows} -> [Modes -> 0 .. MaxLocks]]
         /\ \A d \in DOMAIN metrics' : metrics'[d] \in Columns(d, rows)
  /\ UNCHANGED pg_locks

Next == Query \/ \E lock \in Lock : LockObject(lock) \/ Unlock(lock)

Spec == Init /\ [][Next]_vars

-----------------------------------------------------------------------------
(* Properties *)

Held(d, m) == {l \in pg_locks : datname(l) = d /\ l.mode = m}

\* Type correctness; there is a metric set of exactly the listed databases
\* whose sessions have locks of whatever mode.
TypeOK ==
  /\ pg_locks \subseteq Lock /\ pc \in {"before", "after"}
  /\ pc = "after" => DOMAIN metrics = {datname(l) : l \in pg_locks} \cap Listed
  /\ \A d \in DOMAIN metrics : metrics[d] \in [Modes -> 0 .. MaxLocks]

\* No count is higher than the locks that were there, and no mode that was
\* held is reported as free: the groups of one mode cost precision only.
NeverOverstated ==
  \A d \in DOMAIN metrics : \A m \in Modes :
    /\ metrics[d][m] <= Cardinality(Held(d, m))
    /\ Held(d, m) # {} => metrics[d][m] > 0

\* The count is exact when all locks of the mode are in one place: then it is
\* the sessions of the database together, not each alone.
ExactInOnePlace ==
  \A d \in DOMAIN metrics : \A m \in Modes :
    Cardinality({l.place : l \in Held(d, m)}) <= 1 =>
      metrics[d][m] = Cardinality(Held(d, m))

\* Together: what a reader of the counts of lock_definitions.go may rely on.
CountsAreSound == NeverOverstated /\ ExactInOnePlace
=============================================================================
