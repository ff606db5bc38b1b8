------------------------ MODULE CustomQueriesProofs ------------------------
(***************************************************************************)
(* Proofs about the custom query workers for any number of queries, any    *)
(* semaphore capacity and any number of rows.                              *)
(***************************************************************************)
EXTENDS CustomQueries, FiniteSetTheorems, TLAPS

\* Control points between <-sem being owed and being done.
Holds == Point \ {"none", "wgDone", "dying", "done"}

Holding == {q \in Query : wpc[q] \in Holds}
Active == {q \in Query : wpc[q] \notin {"none", "dying", "done"}}

\* Every worker that still has to leave the semaphore has its own token, and
\* main has one more between the channel send and the go statement.  There is
\* no other token.
SemInv == sem = Cardinality(Holding) + (IF mainPc = "go" THEN 1 ELSE 0)

\* The WaitGroup counts the workers started that have not called Done.
WgInv == wg = Cardinality(Active)

\* Queries are started in order; main publishes with all workers finished.
SpawnInv ==
  /\ \A q \in Query : wpc[q] = "none" <=> q >= next
  /\ mainPc = "load" => next = 1
  /\ mainPc = "go" => next <= NumQueries
  /\ mainPc \in {"publish", "done"} =>
       \A q \in Query : wpc[q] \in {"none", "dying", "done"}

\* A connection is open only between Queryx and con.Close.
OpenInv == \A q \in open : wpc[q] \in Holds \ {"connect", "query", "release"}

\* A scanned row has its set and a set has its values, but for the row the
\* worker is busy with, or panicked on.
RowInv ==
  \A q \in Query :
    /\ scanned[q] = IF wpc[q] = "create" \/ q \in panicking
                    THEN created[q] + 1 ELSE created[q]
    /\ created[q] = IF wpc[q] = "fill" THEN filled[q] + 1 ELSE filled[q]
    /\ wpc[q] \in {"next", "create", "fill"} => entity[q] = DbName(q)
    /\ DbName(q) = NoName => created[q] = 0

\* A worker panics for want of a name and is then past the last row; the
\* process dies of such a worker only.
PanicInv ==
  /\ \A q \in panicking :
       /\ DbName(q) = NoName
       /\ wpc[q] \in {"closeRows", "closeConn", "release", "wgDone", "dying",
                     "done"}
  /\ \A q \in Query : wpc[q] = "dying" => q \in panicking
  /\ crashed => panicking # {}

IInv == /\ TypeOK /\ SemInv /\ WgInv /\ SpawnInv /\ OpenInv /\ RowInv
        /\ PanicInv

-----------------------------------------------------------------------------
LEMMA QueryFinite ==
  /\ IsFiniteSet(Query) /\ Cardinality(Query) = NumQueries
  /\ \A S \in SUBSET Query : /\ IsFiniteSet(S) /\ Cardinality(S) \in Nat
                             /\ Cardinality(S) <= NumQueries
  <1>1. IsFiniteSet(Query) /\ Cardinality(Query) = NumQueries
    BY CustomAssumption, FS_Interval DEF Query
  <1> QED BY <1>1, FS_Subset, FS_CardinalityType

LEMMA SetsFinite ==
  /\ IsFiniteSet(Holding) /\ Cardinality(Holding) \in Nat
  /\ IsFiniteSet(Active) /\ Cardinality(Active) \in 0 .. NumQueries
  BY QueryFinite, CustomAssumption DEF Holding, Active

\* Moves between points that hold a token leave both counts alone.
LEMMA MoveHeld ==
  ASSUME TypeOK, NEW q \in Query, NEW from \in Holds, NEW to \in Holds,
         Goto(q, from, to)
  PROVE  Holding' = Holding /\ Active' = Active
  BY DEF TypeOK, Goto, Holds, Point, Holding, Active

\* The steps of a worker other than the two that give something back.
Held(q) == \E from, to \in Holds : Goto(q, from, to)

LEMMA HeldSteps ==
  ASSUME NEW q \in Query,
         \/ NewConnection(q) \/ Queryx(q) \/ Entity(q) \/ NextRow(q)
         \/ NoMoreRows(q) \/ NewMetricSet(q) \/ NilEntityPanic(q)
         \/ SetMetrics(q) \/ CloseRows(q) \/ CloseConnection(q)
  PROVE  Held(q) /\ UNCHANGED <<mainPc, next, sem, wg>>
  <1> USE DEF Held, Holds, Point
  <1>1. CASE NewConnection(q)  BY <1>1 DEF NewConnection
  <1>2. CASE Queryx(q)         BY <1>2 DEF Queryx
  <1>3. CASE Entity(q)         BY <1>3 DEF Entity
  <1>4. CASE NextRow(q)        BY <1>4 DEF NextRow
  <1>5. CASE NoMoreRows(q)     BY <1>5 DEF NoMoreRows
  <1>6. CASE NewMetricSet(q)   BY <1>6 DEF NewMetricSet
  <1>7. CASE SetMetrics(q)     BY <1>7 DEF SetMetrics
  <1>8. CASE CloseRows(q)      BY <1>8 DEF CloseRows
  <1>9. CASE CloseConnection(q) BY <1>9 DEF CloseConnection
  <1>10. CASE NilEntityPanic(q) BY <1>10 DEF NilEntityPanic
  <1> QED
    BY <1>1, <1>2, <1>3, <1>4, <1>5, <1>6, <1>7, <1>8, <1>9, <1>10

\* Every step is a main step, a held step, a Release, a Done, a crash or a
\* stutter: the split all the step lemmas below share.
LEMMA Steps ==
  ASSUME [Next]_vars
  PROVE  \/ Load \/ Acquire \/ AddAndGo \/ Wait \/ Publish
         \/ \E q \in Query :
              \/ Held(q) /\ UNCHANGED <<mainPc, next, sem, wg>>
              \/ Release(q) \/ WgDone(q) \/ Crash(q)
         \/ UNCHANGED vars
  <1>1. ASSUME NEW q \in Query, Worker(q)
        PROVE  \/ Held(q) /\ UNCHANGED <<mainPc, next, sem, wg>>
               \/ Release(q) \/ WgDone(q)
    BY <1>1, HeldSteps DEF Worker
  <1> QED BY <1>1 DEF Next, Main

-----------------------------------------------------------------------------
(* Tokens and the WaitGroup *)

LEMMA StepSem == IInv /\ [Next]_vars => SemInv'
  <1> SUFFICES ASSUME IInv, [Next]_vars PROVE SemInv'
    OBVIOUS
  <1> USE DEF IInv, TypeOK, SemInv
  <1>1. CASE Load \/ Wait \/ Publish \/ UNCHANGED vars
    BY <1>1, SetsFinite DEF Load, Wait, Publish, vars, Holding
  <1>2. CASE Acquire
    BY <1>2, SetsFinite DEF Acquire, Holding
  <1>3. CASE AddAndGo
    <2>1. next \in Query /\ wpc[next] = "none"
      BY <1>3, CustomAssumption DEF AddAndGo, SpawnInv, Query
    <2>2. Holding' = Holding \cup {next} /\ next \notin Holding
      BY <1>3, <2>1 DEF AddAndGo, Holding, Holds, Point
    <2>3. Cardinality(Holding') = Cardinality(Holding) + 1
      BY <2>2, SetsFinite, FS_AddElement
    <2> QED BY <1>3, <2>3, SetsFinite DEF AddAndGo
  <1>4. ASSUME NEW q \in Query, Held(q), UNCHANGED <<mainPc, next, sem, wg>>
        PROVE  SemInv'
    BY <1>4, MoveHeld DEF Held
  <1>5. ASSUME NEW q \in Query, Crash(q) PROVE SemInv'
    <2>1. Holding' = Holding
      BY <1>5 DEF Crash, Goto, Holding, Holds, Point
    <2> QED BY <1>5, <2>1 DEF Crash
  <1>6. ASSUME NEW q \in Query, Release(q) PROVE SemInv'
    <2>1. Holding' = Holding \ {q} /\ q \in Holding
      BY <1>6 DEF Release, Goto, Holding, Holds, Point
    <2>2. Cardinality(Holding') = Cardinality(Holding) - 1
      BY <2>1, SetsFinite, FS_RemoveElement
    <2> QED BY <1>6, <2>2, SetsFinite DEF Release
  <1>7. ASSUME NEW q \in Query, WgDone(q) PROVE SemInv'
    <2>1. Holding' = Holding
      BY <1>7 DEF WgDone, Goto, Holding, Holds, Point
    <2> QED BY <1>7, <2>1 DEF WgDone
  <1> QED BY <1>1, <1>2, <1>3, <1>4, <1>5, <1>6, <1>7, Steps

LEMMA StepWg == IInv /\ [Next]_vars => WgInv'
  <1> SUFFICES ASSUME IInv, [Next]_vars PROVE WgInv'
    OBVIOUS
  <1> USE DEF IInv, TypeOK, WgInv
  <1>1. CASE Load \/ Acquire \/ Wait \/ Publish \/ UNCHANGED vars
    BY <1>1 DEF Load, Acquire, Wait, Publish, vars, Active
  <1>2. CASE AddAndGo
    <2>1. next \in Query /\ wpc[next] = "none"
      BY <1>2, CustomAssumption DEF AddAndGo, SpawnInv, Query
    <2>2. Active' = Active \cup {next} /\ next \notin Active
      BY <1>2, <2>1 DEF AddAndGo, Active
    <2>3. Cardinality(Active') = Cardinality(Active) + 1
      BY <2>2, SetsFinite, FS_AddElement
    <2> QED BY <1>2, <2>3 DEF AddAndGo
  <1>3. ASSUME NEW q \in Query, Held(q), UNCHANGED <<mainPc, next, sem, wg>>
        PROVE  WgInv'
    BY <1>3, MoveHeld DEF Held
  <1>4. ASSUME NEW q \in Query, Crash(q) PROVE WgInv'
    <2>1. Active' = Active
      BY <1>4 DEF Crash, Goto, Active
    <2> QED BY <1>4, <2>1 DEF Crash
  <1>5. ASSUME NEW q \in Query, Release(q) PROVE WgInv'
    <2>1. Active' = Active
      BY <1>5 DEF Release, Goto, Active
    <2> QED BY <1>5, <2>1 DEF Release
  <1>6. ASSUME NEW q \in Query, WgDone(q) PROVE WgInv'
    <2>1. Active' = Active \ {q} /\ q \in Active
      BY <1>6 DEF WgDone, Goto, Active
    <2>2. Cardinality(Active') = Cardinality(Active) - 1
      BY <2>1, SetsFinite, FS_RemoveElement
    <2> QED BY <1>6, <2>2 DEF WgDone
  <1> QED BY <1>1, <1>2, <1>3, <1>4, <1>5, <1>6, Steps

-----------------------------------------------------------------------------
(* Types, the order of the workers, connections and rows *)

LEMMA StepTypes == IInv /\ [Next]_vars => TypeOK'
  <1> SUFFICES ASSUME IInv, [Next]_vars PROVE TypeOK'
    OBVIOUS
  <1> USE CustomAssumption DEF IInv, TypeOK, cfgVars, rowVars, panicVars
  <1>w. wg' \in 0 .. NumQueries
    <2>1. Cardinality(Active') \in 0 .. NumQueries
      BY QueryFinite DEF Active
    <2> QED BY <2>1, StepWg DEF WgInv
  <1>1. CASE Load        BY <1>1 DEF Load
  <1>2. CASE Acquire     BY <1>2 DEF Acquire
  <1>3. CASE AddAndGo
    <2>1. wpc' \in [Query -> Point]
      BY <1>3 DEF AddAndGo, Point
    <2>2. next' \in 1 .. NumQueries + 1
      BY <1>3 DEF AddAndGo, SpawnInv
    <2> QED BY <1>3, <1>w, <2>1, <2>2 DEF AddAndGo
  <1>4. CASE Wait        BY <1>4 DEF Wait
  <1>5. CASE Publish     BY <1>5 DEF Publish
  <1>6. ASSUME NEW q \in Query, Worker(q) PROVE TypeOK'
    <2> USE DEF Goto, Point
    <2>1. CASE NewConnection(q)   BY <2>1 DEF NewConnection
    <2>2. CASE Queryx(q)          BY <2>2 DEF Queryx
    <2>3. CASE Entity(q)
      <3>1. DbName(q) \in DbNames
        BY DEF DbName
      <3> QED BY <2>3, <3>1 DEF Entity
    <2>4. CASE NextRow(q)         BY <2>4 DEF NextRow
    <2>5. CASE NoMoreRows(q)      BY <2>5 DEF NoMoreRows
    <2>6. CASE NewMetricSet(q)    BY <2>6 DEF NewMetricSet
    <2>7. CASE NilEntityPanic(q)  BY <2>7 DEF NilEntityPanic
    <2>8. CASE SetMetrics(q)      BY <2>8 DEF SetMetrics
    <2>9. CASE CloseRows(q)       BY <2>9 DEF CloseRows
    <2>10. CASE CloseConnection(q) BY <2>10 DEF CloseConnection
    <2>11. CASE Release(q)
      <3>1. q \in Holding
        BY <2>11 DEF Release, Holding, Holds
      <3>2. Cardinality(Holding) # 0
        BY <3>1, SetsFinite, FS_EmptySet
      <3>3. sem >= 1
        BY <3>2, SetsFinite DEF SemInv
      <3> QED BY <2>11, <3>3 DEF Release
    <2>12. CASE WgDone(q)         BY <2>12, <1>w DEF WgDone
    <2> QED BY <1>6, <2>1, <2>2, <2>3, <2>4, <2>5, <2>6, <2>7, <2>8, <2>9,
               <2>10, <2>11, <2>12 DEF Worker
  <1>7. ASSUME NEW q \in Query, Crash(q) PROVE TypeOK'
    BY <1>7 DEF Crash, Goto, Point
  <1>8. CASE UNCHANGED vars  BY <1>8 DEF vars
  <1> QED BY <1>1, <1>2, <1>3, <1>4, <1>5, <1>6, <1>7, <1>8 DEF Next, Main

LEMMA StepSpawn == IInv /\ [Next]_vars => SpawnInv'
  <1> SUFFICES ASSUME IInv, [Next]_vars PROVE SpawnInv'
    OBVIOUS
  <1> USE CustomAssumption DEF IInv, TypeOK, SpawnInv, Query
  <1>1. CASE Load        BY <1>1 DEF Load
  <1>2. CASE Acquire     BY <1>2 DEF Acquire
  <1>3. CASE AddAndGo    BY <1>3 DEF AddAndGo
  <1>4. CASE Wait
    <2>1. Active = {}
      BY <1>4, SetsFinite, FS_EmptySet DEF Wait, WgInv
    <2>2. \A q \in Query : wpc[q] \in {"none", "dying", "done"}
      BY <2>1 DEF Active
    <2> QED BY <1>4, <2>2 DEF Wait
  <1>5. CASE Publish     BY <1>5 DEF Publish
  <1>6. ASSUME NEW q \in Query, Held(q), UNCHANGED <<mainPc, next, sem, wg>>
        PROVE  SpawnInv'
    <2>1. PICK from \in Holds, to \in Holds : Goto(q, from, to)
      BY <1>6 DEF Held
    <2> QED BY <1>6, <2>1 DEF Goto, Holds, Point
  <1>7. ASSUME NEW q \in Query, Crash(q) PROVE SpawnInv'
    BY <1>7 DEF Crash, Goto
  <1>8. ASSUME NEW q \in Query, Release(q) \/ WgDone(q) PROVE SpawnInv'
    BY <1>8 DEF Release, WgDone, Goto
  <1>9. CASE UNCHANGED vars  BY <1>9 DEF vars
  <1> QED BY <1>1, <1>2, <1>3, <1>4, <1>5, <1>6, <1>7, <1>8, <1>9, Steps

LEMMA StepOpenRow == IInv /\ [Next]_vars => OpenInv' /\ RowInv' /\ PanicInv'
  <1> SUFFICES ASSUME IInv, [Next]_vars PROVE OpenInv' /\ RowInv' /\ PanicInv'
    OBVIOUS
  <1> USE DEF IInv, TypeOK, OpenInv, RowInv, PanicInv, DbName, cfgVars, rowVars,
              panicVars, Holds, Point
  <1>1. CASE Load \/ Acquire \/ Wait \/ Publish
    BY <1>1 DEF Load, Acquire, Wait, Publish
  <1>2. CASE AddAndGo
    <2>1. next \in Query /\ wpc[next] = "none" /\ next \notin open
      BY <1>2, CustomAssumption DEF AddAndGo, SpawnInv, Query
    <2> QED BY <1>2, <2>1 DEF AddAndGo
  <1>3. ASSUME NEW q \in Query, Worker(q)
        PROVE  OpenInv' /\ RowInv' /\ PanicInv'
    <2> USE DEF Goto
    <2>1. CASE NewConnection(q)   BY <2>1 DEF NewConnection
    <2>2. CASE Queryx(q)          BY <2>2 DEF Queryx
    <2>3. CASE Entity(q)          BY <2>3 DEF Entity
    <2>4. CASE NextRow(q)         BY <2>4 DEF NextRow
    <2>5. CASE NoMoreRows(q)      BY <2>5 DEF NoMoreRows
    <2>6. CASE NewMetricSet(q)    BY <2>6 DEF NewMetricSet
    <2>7. CASE NilEntityPanic(q)  BY <2>7 DEF NilEntityPanic
    <2>8. CASE SetMetrics(q)      BY <2>8 DEF SetMetrics
    <2>9. CASE CloseRows(q)       BY <2>9 DEF CloseRows
    <2>10. CASE CloseConnection(q) BY <2>10 DEF CloseConnection
    <2>11. CASE Release(q)        BY <2>11 DEF Release
    <2>12. CASE WgDone(q)         BY <2>12 DEF WgDone
    <2> QED BY <1>3, <2>1, <2>2, <2>3, <2>4, <2>5, <2>6, <2>7, <2>8, <2>9,
               <2>10, <2>11, <2>12 DEF Worker
  <1>4. ASSUME NEW q \in Query, Crash(q)
        PROVE  OpenInv' /\ RowInv' /\ PanicInv'
    BY <1>4 DEF Crash, Goto
  <1>5. CASE UNCHANGED vars
    BY <1>5 DEF vars
  <1> QED BY <1>1, <1>2, <1>3, <1>4, <1>5 DEF Next, Main

LEMMA InitIInv == Init => IInv
  <1> SUFFICES ASSUME Init PROVE IInv
    OBVIOUS
  <1> USE CustomAssumption DEF Init
  <1>1. TypeOK
    <2>1. Zero \in [Query -> Nat]
      BY DEF Zero
    <2>2. wpc \in [Query -> Point] /\ entity \in [Query -> DbNames]
      BY DEF Point
    <2>3. /\ sem \in 0 .. Limit /\ wg \in 0 .. NumQueries
          /\ next \in 1 .. NumQueries + 1
      OBVIOUS
    <2>4. crashed \in BOOLEAN /\ panicking \subseteq Query
      OBVIOUS
    <2> QED BY <2>1, <2>2, <2>3, <2>4, Zenon DEF TypeOK
  <1>2. SemInv /\ WgInv
    <2>1. Holding = {} /\ Active = {}
      BY DEF Holding, Active, Holds
    <2> QED BY <2>1, FS_EmptySet DEF SemInv, WgInv
  <1>3. SpawnInv
    BY DEF SpawnInv, Query
  <1>4. OpenInv /\ RowInv /\ PanicInv
    BY DEF OpenInv, RowInv, PanicInv, Zero
  <1> QED BY <1>1, <1>2, <1>3, <1>4 DEF IInv

\* The tokens, the WaitGroup, the order of the workers, connections and rows
\* stay consistent with the points the workers are at; all below rests on it.
THEOREM Inductive == Spec => []IInv
  <1>1. IInv /\ [Next]_vars => IInv'
    BY StepTypes, StepSem, StepWg, StepSpawn, StepOpenRow DEF IInv
  <1> QED BY <1>1, InitIInv, PTL DEF Spec

\* Every variable keeps its type, the semaphore's counter its range.
THEOREM Typing == Spec => []TypeOK
  <1>1. IInv => TypeOK
    BY DEF IInv
  <1> QED BY <1>1, Inductive, PTL

-----------------------------------------------------------------------------
\* At no time do the custom queries hold more than Limit server connections.
THEOREM ConnectionLimit == Spec => []ConnectionsWithinLimit
  <1>1. IInv => ConnectionsWithinLimit
    <2> SUFFICES ASSUME IInv PROVE Cardinality(open) <= Limit
      BY DEF ConnectionsWithinLimit
    <2>1. open \subseteq Holding
      BY DEF IInv, OpenInv, TypeOK, Holding
    <2>2. Cardinality(open) <= Cardinality(Holding)
      BY <2>1, SetsFinite, FS_Subset
    <2>3. Cardinality(open) \in Nat
      BY QueryFinite DEF IInv, TypeOK
    <2>4. Cardinality(Holding) <= sem /\ sem <= Limit /\ sem \in Nat
      BY SetsFinite, CustomAssumption DEF IInv, SemInv, TypeOK
    <2> QED BY <2>2, <2>3, <2>4, SetsFinite, CustomAssumption
  <1> QED BY <1>1, Inductive, PTL

\* metrics.go:98: when main publishes, every worker has called Done and each
\* row it scanned is a filled set, but for the one row a worker without a
\* database name panicked on; the WaitGroup counts a worker before it can run.
THEOREM PublishIsAfterWorkers == Spec => []PublishSeesEveryRow
  <1>1. IInv => PublishSeesEveryRow
    <2> SUFFICES ASSUME IInv, mainPc \in {"publish", "done"}
                 PROVE  PublishSeesEveryRow
      BY DEF PublishSeesEveryRow
    <2>1. \A q \in Query : wpc[q] \in {"none", "dying", "done"}
      BY DEF IInv, SpawnInv
    <2>2. \A q \in Query : filled[q] = created[q]
      BY <2>1 DEF IInv, RowInv, TypeOK
    <2>3. filled = created
      BY <2>2 DEF IInv, TypeOK
    <2>4. open = {}
      BY <2>1 DEF IInv, OpenInv, TypeOK, Holds
    <2>5. ASSUME NEW q \in Query
          PROVE  IF DbName(q) = NoName THEN created[q] = 0 /\ scanned[q] <= 1
                                       ELSE created[q] = scanned[q]
      <3>1. scanned[q] \in {created[q], created[q] + 1}
        BY DEF IInv, RowInv
      <3>2. DbName(q) = NoName => created[q] = 0
        BY DEF IInv, RowInv
      <3>3. DbName(q) # NoName => scanned[q] = created[q]
        BY <2>1 DEF IInv, RowInv, PanicInv
      <3> QED BY <3>1, <3>2, <3>3
    <2> QED BY <2>1, <2>3, <2>4, <2>5 DEF PublishSeesEveryRow
  <1> QED BY <1>1, Inductive, PTL

\* A panic needs a query for which neither the file nor the arguments name a
\* database.
THEOREM CrashCause == Spec => []CrashNeedsUnnamedDatabase
  <1>1. IInv => CrashNeedsUnnamedDatabase
    <2> SUFFICES ASSUME IInv, crashed PROVE CrashNeedsUnnamedDatabase
      BY DEF CrashNeedsUnnamedDatabase
    <2>1. PICK q \in panicking : q \in Query
      BY DEF IInv, PanicInv, TypeOK
    <2>2. DbName(q) = NoName /\ wpc[q] # "fill"
      BY <2>1 DEF IInv, PanicInv
    <2>3. scanned[q] = filled[q] + 1 /\ filled[q] \in Nat
      BY <2>1, <2>2 DEF IInv, RowInv, TypeOK
    <2> QED BY <2>1, <2>2, <2>3 DEF CrashNeedsUnnamedDatabase
  <1> QED BY <1>1, Inductive, PTL

-----------------------------------------------------------------------------
(* The custom queries implement BoundedPool *)

LEMMA InPoolIsHolding == TypeOK => InPool = Holding
  BY DEF TypeOK, InPool, Holding, Holds

\* A step that moves no query into or out of the pool and leaves connections
\* and main alone is a stutter of the pool.
Stays == UNCHANGED <<InPool, Ended, Published>>

LEMMA StaysStutters ==
  ASSUME Stays, open' = open
  PROVE  UNCHANGED Pool!poolVars
  BY DEF Stays, Pool!poolVars

LEMMA HeldStays ==
  ASSUME TypeOK, NEW q \in Query, Held(q), UNCHANGED mainPc
  PROVE  Stays /\ q \in InPool
  <1>1. PICK from \in Holds, to \in Holds : Goto(q, from, to)
    BY DEF Held
  <1> QED BY <1>1 DEF TypeOK, Goto, Holds, Stays, InPool, Ended, Published

\* Main's token, sent before the go statement, is one the pool has free.
LEMMA SlotIsFree ==
  ASSUME IInv, mainPc = "go"
  PROVE  Limit - Cardinality(InPool) > 0
  <1>1. Cardinality(Holding) + 1 <= sem /\ sem <= Limit /\ sem \in Nat
    BY CustomAssumption DEF IInv, TypeOK, SemInv
  <1> QED BY <1>1, SetsFinite, CustomAssumption, InPoolIsHolding DEF IInv

LEMMA StepStarts ==
  ASSUME IInv, AddAndGo
  PROVE  Pool!Next
  <1> USE DEF IInv, TypeOK
  <1>1. PICK j \in Query : j = next /\ wpc[j] = "none"
    BY CustomAssumption DEF AddAndGo, SpawnInv, Query
  <1>2. j \notin InPool \cup Ended
    BY <1>1 DEF InPool, Ended
  <1>3. /\ InPool' = InPool \cup {j} /\ Ended' = Ended
        /\ ~Published /\ Published' = Published /\ open' = open
    BY <1>1 DEF AddAndGo, InPool, Ended, Published
  <1>4. Limit - Cardinality(InPool) > 0
    BY SlotIsFree DEF AddAndGo
  <1>5. (Limit - Cardinality(InPool))' = (Limit - Cardinality(InPool)) - 1
    <2>1. IsFiniteSet(InPool) /\ Cardinality(InPool) \in Nat
      BY InPoolIsHolding, SetsFinite
    <2>2. Cardinality(InPool \cup {j}) = Cardinality(InPool) + 1
      BY <1>2, <2>1, FS_AddElement
    <2> QED BY <1>3, <2>1, <2>2, CustomAssumption
  <1>6. Pool!Start(j)
    BY <1>2, <1>3, <1>4, <1>5 DEF Pool!Start
  <1> QED BY <1>6 DEF Pool!Next

LEMMA StepEnds ==
  ASSUME IInv, NEW q \in Query, Release(q)
  PROVE  Pool!Next
  <1> USE DEF IInv, TypeOK
  <1>1. /\ q \in InPool /\ InPool' = InPool \ {q} /\ Ended' = Ended \cup {q}
        /\ Published' = Published /\ open' = open
    BY DEF Release, Goto, InPool, Ended, Published
  <1>2. q \notin open
    BY DEF Release, Goto, OpenInv
  <1>3. (Limit - Cardinality(InPool))' = (Limit - Cardinality(InPool)) + 1
    <2>1. IsFiniteSet(InPool) /\ Cardinality(InPool) \in Nat
      BY InPoolIsHolding, SetsFinite
    <2>2. Cardinality(InPool \ {q}) = Cardinality(InPool) - 1
      BY <1>1, <2>1, FS_RemoveElement
    <2> QED BY <1>1, <2>1, <2>2, CustomAssumption
  <1>4. Pool!End(q)
    BY <1>1, <1>2, <1>3 DEF Pool!End
  <1> QED BY <1>4 DEF Pool!Next

LEMMA StepCloses ==
  ASSUME IInv, Load \/ Wait
  PROVE  Pool!Next \/ UNCHANGED Pool!poolVars
  <1> USE DEF IInv, TypeOK, cfgVars, rowVars
  <1>1. UNCHANGED <<InPool, Ended, open>>
    BY DEF Load, Wait, InPool, Ended
  <1>2. CASE mainPc' = "publish"
    <2>1. InPool = {}
      <3>1. CASE Load
        BY <3>1, CustomAssumption DEF Load, SpawnInv, Query, InPool
      <3>2. CASE Wait
        <4>1. Active = {}
          BY <3>2, SetsFinite, FS_EmptySet DEF Wait, WgInv
        <4> QED BY <4>1 DEF Active, InPool
      <3> QED BY <3>1, <3>2
    <2>2. ~Published /\ Published' = TRUE
      BY <1>2 DEF Load, Wait, Published
    <2>3. (Limit - Cardinality(InPool))' = Limit - Cardinality(InPool)
      BY <1>1
    <2>4. Pool!Close
      BY <1>1, <2>1, <2>2, <2>3 DEF Pool!Close
    <2> QED BY <2>4 DEF Pool!Next
  <1>3. CASE mainPc' # "publish"
    BY <1>1, <1>3, StaysStutters DEF Load, Wait, Stays, Published
  <1> QED BY <1>2, <1>3

LEMMA StepWorks ==
  ASSUME IInv, NEW q \in Query, Held(q), UNCHANGED <<mainPc, next, sem, wg>>,
         Worker(q)
  PROVE  Pool!Next \/ UNCHANGED Pool!poolVars
  <1> USE DEF IInv, TypeOK
  <1>1. Stays /\ q \in InPool
    BY HeldStays
  <1>2. open' \in {open, open \cup {q}, open \ {q}}
    BY DEF Worker, NewConnection, Queryx, Entity, NextRow, NoMoreRows,
           NewMetricSet, NilEntityPanic, SetMetrics, CloseRows,
           CloseConnection, Release, WgDone
  <1>3. (Limit - Cardinality(InPool))' = Limit - Cardinality(InPool)
    BY <1>1 DEF Stays
  <1>4. CASE open' = open
    BY <1>1, <1>4, StaysStutters
  <1>5. CASE open' = open \cup {q}
    <2>1. Pool!Take(q)
      BY <1>1, <1>3, <1>5 DEF Stays, Pool!Take
    <2> QED BY <2>1 DEF Pool!Next
  <1>6. CASE open' = open \ {q} /\ q \in open
    <2>1. Pool!GiveBack(q)
      BY <1>1, <1>3, <1>6 DEF Stays, Pool!GiveBack
    <2> QED BY <2>1 DEF Pool!Next
  <1> QED BY <1>2, <1>4, <1>5, <1>6

LEMMA StepPools == IInv /\ [Next]_vars => [Pool!Next]_(Pool!poolVars)
  <1> SUFFICES ASSUME IInv, [Next]_vars
               PROVE  Pool!Next \/ UNCHANGED Pool!poolVars
    OBVIOUS
  <1>1. CASE Acquire \/ Publish \/ UNCHANGED vars
    BY <1>1, StaysStutters
    DEF Acquire, Publish, vars, Stays, InPool, Ended, Published
  <1>2. ASSUME NEW q \in Query, Worker(q)
        PROVE  Pool!Next \/ UNCHANGED Pool!poolVars
    <2>1. CASE WgDone(q)
      BY <2>1, StaysStutters
      DEF IInv, TypeOK, WgDone, Goto, Stays, InPool, Ended, Published
    <2>2. CASE Held(q) /\ UNCHANGED <<mainPc, next, sem, wg>>
      BY <1>2, <2>2, StepWorks
    <2> QED BY <1>2, <2>1, <2>2, HeldSteps, StepEnds DEF Worker
  <1>3. ASSUME NEW q \in Query, Crash(q)
        PROVE  Pool!Next \/ UNCHANGED Pool!poolVars
    BY <1>3, StaysStutters
    DEF IInv, TypeOK, Crash, Goto, Stays, InPool, Ended, Published
  <1> QED BY <1>1, <1>2, <1>3, StepCloses, StepStarts DEF Next, Main

\* Channel, WaitGroup and deferred calls implement the pool for every number
\* of queries and every capacity.
THEOREM PoolImplementation == Spec => ImplementsPool
  <1>1. Init => Pool!Init
    <2> SUFFICES ASSUME Init PROVE Pool!Init
      OBVIOUS
    <2>1. InPool = {} /\ Ended = {} /\ open = {} /\ Published = FALSE
      BY DEF Init, InPool, Ended, Published
    <2>2. Limit - Cardinality(InPool) = Limit
      BY <2>1, FS_EmptySet, CustomAssumption
    <2> QED BY <2>1, <2>2 DEF Pool!Init
  <1> QED
    BY <1>1, Inductive, StepPools, PTL DEF Spec, ImplementsPool, Pool!Spec

-----------------------------------------------------------------------------
(* The collection ends *)

\* The guards of Load, AddAndGo and Publish, of Acquire and of Wait.
MainCanMove ==
  \/ Running /\ mainPc \in {"load", "go", "publish"}
  \/ /\ Running /\ mainPc = "spawn"
     /\ IF next <= NumQueries THEN sem < Limit ELSE wg = 0

\* A worker that was started and has not ended has one way on from each point.
WorkerCanMove(q) == Running /\ wpc[q] \notin {"none", "dying", "done"}

\* metrics.go:75-101: as long as the collection is not over, main or a worker
\* can go on: main never waits for a token that nobody will give back, nor for
\* a Done that nobody will call.
THEOREM NeverStuck ==
  Spec => [](mainPc = "done" \/ crashed \/ MainCanMove
               \/ \E q \in Query : WorkerCanMove(q))
  <1> DEFINE Moves == \E q \in Query : WorkerCanMove(q)
  <1>1. ASSUME IInv, mainPc # "done", Running, ~MainCanMove
        PROVE  Moves
    <2>1. mainPc = "spawn"
      BY <1>1 DEF IInv, TypeOK, MainCanMove
    <2>2. CASE next <= NumQueries
      <3>1. sem = Limit
        BY <1>1, <2>1, <2>2, CustomAssumption DEF IInv, TypeOK, MainCanMove
      <3>2. sem = Cardinality(Holding)
        BY <1>1, <2>1, SetsFinite DEF IInv, SemInv
      <3>3. Holding # {}
        BY <3>1, <3>2, FS_EmptySet, CustomAssumption
      <3> QED BY <1>1, <3>3 DEF Holding, Holds, WorkerCanMove
    <2>3. CASE ~(next <= NumQueries)
      <3>1. Active # {}
        BY <1>1, <2>1, <2>3, FS_EmptySet DEF IInv, WgInv, MainCanMove
      <3> QED BY <1>1, <3>1 DEF Active, WorkerCanMove
    <2> QED BY <2>2, <2>3
  <1>2. IInv => mainPc = "done" \/ crashed \/ MainCanMove \/ Moves
    BY <1>1 DEF Running
  <1> QED BY <1>2, Inductive, PTL

\* The steps main has left at most: two for every query to come.
MainLeft ==
  CASE mainPc = "load"    -> 2 * (NumQueries + 1 - next) + 3
    [] mainPc = "spawn"   -> 2 * (NumQueries + 1 - next) + 2
    [] mainPc = "go"      -> 2 * (NumQueries + 1 - next) + 1
    [] mainPc = "publish" -> 1
    [] OTHER              -> 0

\* The steps a worker has left at most: three for every row to come.
WorkerLeft(q) ==
  CASE wpc[q] = "none"      -> 3 * MaxRows + 10
    [] wpc[q] = "connect"   -> 3 * MaxRows + 9
    [] wpc[q] = "query"     -> 3 * MaxRows + 8
    [] wpc[q] = "entity"    -> 3 * left[q] + 7
    [] wpc[q] = "next"      -> 3 * left[q] + 6
    [] wpc[q] = "create"    -> 3 * left[q] + 8
    [] wpc[q] = "fill"      -> 3 * left[q] + 7
    [] wpc[q] = "closeRows" -> 5
    [] wpc[q] = "closeConn" -> 4
    [] wpc[q] = "release"   -> 3
    [] wpc[q] = "wgDone"    -> 2
    [] wpc[q] = "dying"     -> 1
    [] OTHER                -> 0

\* Nobody has more steps left than before, and somebody has fewer.
ComesCloser ==
  /\ MainLeft' <= MainLeft
  /\ \A q \in Query : WorkerLeft(q)' <= WorkerLeft(q)
  /\ MainLeft' < MainLeft \/ \E q \in Query : WorkerLeft(q)' < WorkerLeft(q)

LEMMA LeftIsNat ==
  ASSUME TypeOK
  PROVE  MainLeft \in Nat /\ \A q \in Query : WorkerLeft(q) \in Nat
  <1>1. MainLeft \in Nat
    BY CustomAssumption DEF TypeOK, MainLeft
  <1>2. ASSUME NEW q \in Query PROVE WorkerLeft(q) \in Nat
    <2>1. left[q] \in Nat /\ 3 * left[q] \in Nat /\ 3 * MaxRows \in Nat
      BY CustomAssumption DEF TypeOK
    <2> QED BY <2>1 DEF WorkerLeft
  <1> QED BY <1>1, <1>2

\* A step of main brings main closer and at most starts a worker.
LEMMA MainComesCloser ==
  ASSUME IInv, Main
  PROVE  ComesCloser
  <1> USE CustomAssumption DEF IInv, TypeOK
  <1>1. /\ MainLeft' < MainLeft /\ MainLeft \in Nat /\ MainLeft' \in Nat
        /\ left' = left
        /\ \/ wpc' = wpc
           \/ /\ next \in Query /\ wpc[next] = "none"
              /\ wpc' = [wpc EXCEPT ![next] = "connect"]
    <2>1. CASE Load
      BY <2>1 DEF Load, MainLeft, SpawnInv, cfgVars, rowVars
    <2>2. CASE Acquire
      BY <2>2 DEF Acquire, MainLeft, cfgVars, rowVars
    <2>3. CASE AddAndGo
      <3>1. /\ mainPc = "go" /\ mainPc' = "spawn" /\ next' = next + 1
            /\ next \in 1 .. NumQueries /\ left' = left
            /\ wpc' = [wpc EXCEPT ![next] = "connect"]
        BY <2>3 DEF AddAndGo, SpawnInv, rowVars
      <3>2. MainLeft' < MainLeft /\ MainLeft \in Nat /\ MainLeft' \in Nat
        BY <3>1 DEF MainLeft
      <3>3. next \in Query /\ wpc[next] = "none"
        BY <3>1 DEF SpawnInv, Query
      <3> QED BY <3>1, <3>2, <3>3
    <2>4. CASE Wait
      BY <2>4 DEF Wait, MainLeft, cfgVars, rowVars
    <2>5. CASE Publish
      BY <2>5 DEF Publish, MainLeft, cfgVars, rowVars
    <2> QED BY <2>1, <2>2, <2>3, <2>4, <2>5 DEF Main
  <1>2. ASSUME NEW q \in Query PROVE WorkerLeft(q)' <= WorkerLeft(q)
    <2>1. WorkerLeft(q) \in Nat
      BY LeftIsNat
    <2>2. CASE wpc'[q] = wpc[q]
      <3>1. WorkerLeft(q)' = WorkerLeft(q)
        BY <1>1, <2>2 DEF WorkerLeft
      <3> QED BY <2>1, <3>1
    <2>3. CASE wpc'[q] # wpc[q]
      <3>1. wpc[q] = "none" /\ wpc'[q] = "connect"
        BY <1>1, <2>3
      <3> QED BY <3>1 DEF WorkerLeft
    <2> QED BY <2>2, <2>3
  <1> QED BY <1>1, <1>2 DEF ComesCloser

\* A step of a worker, or the crash, brings it closer and leaves the others
\* and main where they are.
LEMMA WorkerComesCloser ==
  ASSUME IInv, NEW q \in Query, Worker(q) \/ Crash(q)
  PROVE  ComesCloser
  <1> USE CustomAssumption DEF IInv, TypeOK
  <1>1. MainLeft \in Nat /\ \A p \in Query : WorkerLeft(p) \in Nat
    BY LeftIsNat
  <1>2. /\ UNCHANGED <<mainPc, next>>
        /\ \A p \in Query \ {q} : wpc'[p] = wpc[p] /\ left'[p] = left[p]
    BY DEF Worker, NewConnection, Queryx, Entity, NextRow, NoMoreRows,
           NewMetricSet, NilEntityPanic, SetMetrics, CloseRows, CloseConnection,
           Release, WgDone, Crash, Goto, rowVars
  <1>3. MainLeft' = MainLeft
    BY <1>2 DEF MainLeft
  <1>4. \A p \in Query \ {q} : WorkerLeft(p)' = WorkerLeft(p)
    BY <1>2 DEF WorkerLeft
  <1>5. WorkerLeft(q)' < WorkerLeft(q) /\ WorkerLeft(q)' \in Nat
    <2> USE DEF Goto, WorkerLeft
    <2>1. CASE NewConnection(q)    BY <2>1 DEF NewConnection
    <2>2. CASE Queryx(q)           BY <2>2 DEF Queryx
    <2>3. CASE Entity(q)           BY <2>3 DEF Entity
    <2>4. CASE NextRow(q)          BY <2>4 DEF NextRow
    <2>5. CASE NoMoreRows(q)       BY <2>5 DEF NoMoreRows, rowVars
    <2>6. CASE NewMetricSet(q)     BY <2>6 DEF NewMetricSet
    <2>7. CASE NilEntityPanic(q)   BY <2>7 DEF NilEntityPanic, rowVars
    <2>8. CASE SetMetrics(q)       BY <2>8 DEF SetMetrics
    <2>9. CASE CloseRows(q)        BY <2>9 DEF CloseRows, rowVars
    <2>10. CASE CloseConnection(q) BY <2>10 DEF CloseConnection, rowVars
    <2>11. CASE Release(q)         BY <2>11 DEF Release, rowVars
    <2>12. CASE WgDone(q)          BY <2>12 DEF WgDone, rowVars
    <2>13. CASE Crash(q)           BY <2>13 DEF Crash, rowVars
    <2> QED BY <2>1, <2>2, <2>3, <2>4, <2>5, <2>6, <2>7, <2>8, <2>9, <2>10,
               <2>11, <2>12, <2>13 DEF Worker
  <1>6. ASSUME NEW p \in Query PROVE WorkerLeft(p)' <= WorkerLeft(p)
    <2>1. WorkerLeft(p) \in Nat
      BY <1>1
    <2>2. CASE p = q
      <3>1. WorkerLeft(q) \in Nat
        BY <1>1
      <3>2. WorkerLeft(q)' <= WorkerLeft(q)
        BY <1>5, <3>1
      <3> QED BY <2>2, <3>2
    <2>3. CASE p # q
      BY <1>4, <2>1, <2>3
    <2> QED BY <2>2, <2>3
  <1> QED BY <1>1, <1>3, <1>5, <1>6 DEF ComesCloser

\* metrics.go:75-191: every step of main or a worker brings the end closer, by
\* numbers that cannot fall below zero (LeftIsNat), so the loops over the
\* queries and over the rows come to an end whatever the interleaving.
THEOREM EveryStepComesCloser == Spec => [][ComesCloser]_vars
  <1>1. IInv /\ [Next]_vars => [ComesCloser]_vars
    BY MainComesCloser, WorkerComesCloser DEF Next
  <1> QED BY <1>1, Inductive, PTL DEF Spec
=============================================================================
