----------------------------- MODULE MainProofs -----------------------------
(***************************************************************************)
(* Proofs about one run of the program, for every number of metric sets,   *)
(* inventory rows, ingest calls and every batch size.  The layers: types,  *)
(* what the ingester's counter says of the shared entity, what each part   *)
(* of main has left behind, and which names the metric sets have.          *)
(***************************************************************************)
EXTENDS Main, SequenceTheorems, TLAPS

-----------------------------------------------------------------------------
(* The invariants *)

MainItem == (0 .. MaxCalls) \X (1 .. MaxLen + MaxSets + MaxFileSets)

\* Types of the ingester's variables, over the backlog it shares with main;
\* a call in progress has a number, and belongs to query monitoring; the crash
\* of a custom query may leave one unfinished.
IngestTypes ==
  /\ pc \in {"idle", "loop", "threshold", "flush"}
  /\ call \in 0 .. MaxCalls
  /\ metricList \in Seq(Ingest!Kind) /\ Len(metricList) <= MaxLen
  /\ pos \in 1 .. Len(metricList) + 1
  /\ metricCount \in Nat /\ carried \in Nat
  /\ attached \in BOOLEAN /\ outcome \in {"nil", "error"}
  /\ pending \in Seq(MainItem) /\ published \in Seq(MainItem)
  /\ pc # "idle" => call >= 1 /\ step \in {"monitoring", "crash"}

\* The parts before main's own publish.
Collecting == {"start", "list", "metrics", "file", "inventory", "publish"}

\* Up to its publish main has written nothing and no call has been made, and
\* each part has put in only what the parts up to it collect.
PhaseInv ==
  /\ step \in Collecting =>
       /\ published = <<>> /\ call = 0 /\ sent = 0
       /\ lastPublish = "none" /\ mainPublish = "none"
  /\ step \in Collecting \ {"publish"} => inventory = 0
  /\ step \in {"start", "list"} => pending = <<>> /\ collected = 0
  /\ step = "metrics" => collected <= MaxSets
  /\ sent + inventory <= ConfigRows

\* While a call runs its handle is the registered entity, metricCount is what
\* the call has added since the last publish, and no publish is empty.
CountInv ==
  /\ pc # "idle" => attached /\ Len(pending) = carried + metricCount
  /\ pc \in {"threshold", "flush"} => metricCount > 0

TypeInv == TypeOK /\ IngestTypes /\ PhaseInv /\ CountInv

Mine(s) == {x[2] : x \in {y \in Range(s) : y[1] = 0}}

\* The sets of main stay together, waiting or written.
ReportInv ==
  /\ step \in Collecting => Mine(pending) = 1 .. collected
  /\ Mine(pending) \in {{}, 1 .. collected}
  /\ Mine(published) \in {{}, 1 .. collected}
  /\ Mine(published) = {} \/ Mine(pending) = {}

\* What a successful publish of main has written is not in the entity again,
\* and something waits between two calls only after a failure.
CostInv ==
  /\ mainPublish = "ok" => Mine(published) = 1 .. collected /\ inventory = 0
  /\ step \in {"monitoring", "return", "exit"} =>
       /\ pc = "idle" /\ (pending # <<>> \/ inventory > 0)
            => lastPublish = "error"
       /\ pc # "idle" /\ (carried > 0 \/ inventory > 0)
            => lastPublish = "error"

\* No set in the backlog or written out has the name the next one gets.
NamesInv ==
  \A x \in Range(pending) \cup Range(published) :
    /\ x[1] <= call
    /\ x[1] = 0 => x[2] <= collected
    /\ x[1] = call /\ pc # "idle" => x[2] < pos


-----------------------------------------------------------------------------
(* Types, phases and the counter *)

LEMMA InitTypes == Init => TypeInv
  <1> SUFFICES ASSUME Init PROVE TypeInv
    OBVIOUS
  <1> USE MainAssumption DEF Init, Ingest!Init
  <1>1. args \in Flags /\ TypeOK
    BY DEF TypeOK, Over
  <1>2. metricList \in Seq(Ingest!Kind) /\ Len(metricList) = 0
    OBVIOUS
  <1>3. pending \in Seq(MainItem) /\ published \in Seq(MainItem)
    OBVIOUS
  <1>4. IngestTypes
    <2>1. Len(metricList) <= MaxLen /\ pos \in 1 .. Len(metricList) + 1
      BY <1>2
    <2>2. /\ pc = "idle" /\ call \in 0 .. MaxCalls
          /\ metricCount \in Nat /\ carried \in Nat
          /\ outcome \in {"nil", "error"}
      OBVIOUS
    <2>3. attached \in BOOLEAN
      BY Zenon
    <2> HIDE DEF Init, Ingest!Init
    <2> QED BY <1>2, <1>3, <2>1, <2>2, <2>3 DEF IngestTypes
  <1>5. PhaseInv /\ CountInv
    BY DEF PhaseInv, CountInv, Collecting
  <1> QED BY <1>1, <1>4, <1>5 DEF TypeInv

\* A step of main that leaves the ingester alone keeps what is said of it.
LEMMA FrameIngest ==
  ASSUME TypeInv, NoIngest, pc = "idle" \/ step' = "crash"
  PROVE  IngestTypes' /\ CountInv'
  BY DEF NoIngest, ingestVars, TypeInv, IngestTypes, CountInv

\* The metric set a part of main puts in.
LEMMA CollectTypes ==
  ASSUME TypeInv, Collect, pc = "idle", collected < MaxSets + MaxFileSets
  PROVE  /\ IngestTypes' /\ CountInv'
         /\ collected' \in 0 .. MaxSets + MaxFileSets
  <1> USE MainAssumption DEF TypeInv, TypeOK, IngestTypes, CountInv, Collect
  <1>1. <<0, collected + 1>> \in MainItem
    BY DEF MainItem
  <1>2. pending' \in Seq(MainItem)
    BY <1>1, AppendProperties
  <1> QED BY <1>2

\* A step of an ingest call under Monitor.
LEMMA CallTypes ==
  ASSUME IngestTypes, CountInv, step = "monitoring", step' = step,
         Ingest!Next
  PROVE  IngestTypes' /\ CountInv'
  <1> USE MainAssumption DEF IngestTypes, CountInv
  <1>1. CASE Ingest!Begin
    <2>1. /\ metricList' \in Seq(Ingest!Kind) /\ Len(metricList') <= MaxLen
          /\ Len(metricList') \in Nat
      BY <1>1 DEF Ingest!Begin, Ingest!Kind
    <2>2. Len(pending) \in Nat
      OBVIOUS
    <2>3. IngestTypes'
      BY <1>1, <2>1, <2>2 DEF Ingest!Begin, Ingest!CreateEntity
    <2>4. CountInv'
      BY <1>1, <2>2 DEF Ingest!Begin, Ingest!CreateEntity
    <2> QED BY <2>3, <2>4
  <1>2. CASE Ingest!SkipNil
    <2>1. Len(metricList) \in Nat
      OBVIOUS
    <2>2. pos' \in 1 .. Len(metricList') + 1
      BY <1>2, <2>1 DEF Ingest!SkipNil
    <2> QED BY <1>2, <2>2 DEF Ingest!SkipNil
  <1>3. CASE Ingest!AddModel
    <2>1. <<call, pos>> \in MainItem
      BY <1>3 DEF Ingest!AddModel, MainItem
    <2>2. pending' = Append(pending, <<call, pos>>)
      BY <1>3 DEF Ingest!AddModel, Ingest!NewMetricSet
    <2>3. pending' \in Seq(MainItem) /\ Len(pending') = Len(pending) + 1
      BY <2>1, <2>2, AppendProperties
    <2>4. /\ pc = "loop" /\ pc' \in {"loop", "threshold"}
          /\ pos' \in 1 .. Len(metricList) + 1
          /\ metricCount' = metricCount + 1
          /\ UNCHANGED <<call, metricList, attached, published, outcome,
                         carried>>
      BY <1>3 DEF Ingest!AddModel
    <2>5. IngestTypes'
      BY <2>3, <2>4
    <2>6. CountInv'
      BY <2>3, <2>4
    <2> QED BY <2>5, <2>6
  <1>4. CASE Ingest!EndOfList
    BY <1>4 DEF Ingest!EndOfList, Ingest!Return
  <1>5. CASE Ingest!ThresholdPublish \/ Ingest!FinalPublish
    <2>1. pending' = <<>> /\ published' = published \o pending
      BY <1>5 DEF Ingest!ThresholdPublish, Ingest!FinalPublish,
                  Ingest!PublishMetrics
    <2>2. /\ pending' \in Seq(MainItem) /\ published' \in Seq(MainItem)
          /\ Len(pending') = 0
      BY <2>1, ConcatProperties
    <2>3. /\ carried' = 0 /\ attached' = TRUE /\ pc' \in {"loop", "idle"}
          /\ metricCount' \in {0, metricCount}
          /\ pc' = "loop" => metricCount' = 0
          /\ outcome' \in {outcome, "nil"} /\ pc # "idle"
          /\ UNCHANGED <<call, metricList, pos>>
      BY <1>5 DEF Ingest!ThresholdPublish, Ingest!FinalPublish,
                  Ingest!PublishMetrics, Ingest!CreateEntity, Ingest!Return
    <2>4. IngestTypes'
      BY <2>2, <2>3
    <2>5. CountInv'
      <3>1. attached'
        BY <2>3, Zenon
      <3>2. pc' # "idle" => Len(pending') = carried' + metricCount'
        <4>1. CASE pc' = "loop"
          <5>1. metricCount' = 0 /\ carried' = 0 /\ Len(pending') = 0
            BY <4>1, <2>2, <2>3
          <5> QED BY <5>1
        <4> QED BY <2>3, <4>1
      <3>3. pc' \notin {"threshold", "flush"}
        BY <2>3
      <3> QED BY <3>1, <3>2, <3>3, Zenon
    <2> QED BY <2>4, <2>5
  <1>6. ASSUME NEW how \in Failures, Ingest!PublishFails(how)
        PROVE  IngestTypes' /\ CountInv'
    <2>1. pending' \in Seq(MainItem)
      BY <1>6, EmptySeq DEF Ingest!PublishFails
    <2>2. /\ pc' = "idle" /\ outcome' = "error"
          /\ attached' \in BOOLEAN /\ metricCount' \in {0, metricCount}
          /\ UNCHANGED <<call, metricList, pos, published, carried>>
      BY <1>6 DEF Ingest!PublishFails, Ingest!Return
    <2> QED BY <2>1, <2>2
  <1> QED BY <1>1, <1>2, <1>3, <1>4, <1>5, <1>6 DEF Ingest!Next

LEMMA MonitorIsNext == Monitor => Ingest!Next
  BY DEF Monitor, Ingest!Next

LEMMA MonitorTypes ==
  ASSUME TypeInv, Monitor PROVE TypeInv'
  <1>1. /\ step = "monitoring" /\ step' = step /\ args' = args
        /\ status' = status /\ collected' = collected /\ open' = open
        /\ mainPublish' = mainPublish
    BY DEF Monitor
  <1>2. \/ UNCHANGED <<inventory, sent, lastPublish>>
        \/ Write
        \/ \E how \in Failures : Fails(how)
    BY DEF Monitor
  <1>3. TypeOK' /\ PhaseInv'
    BY <1>1, <1>2, MainAssumption
    DEF Write, Fails, Over, Collecting, TypeInv, TypeOK, PhaseInv
  <1>4. IngestTypes' /\ CountInv'
    BY <1>1, CallTypes, MonitorIsNext DEF TypeInv
  <1> QED BY <1>3, <1>4 DEF TypeInv

LEMMA PublishTypes ==
  ASSUME TypeInv, Publish PROVE TypeInv'
  <1>1. /\ step = "publish" /\ step' = "monitoring" /\ pc = "idle"
        /\ status' = status
    BY DEF Publish, GoOn, After, TypeInv, IngestTypes
  <1>2. pending' \in Seq(MainItem) /\ published' \in Seq(MainItem)
    <2>1. pending' \in {pending, <<>>}
          /\ published' \in {published, published \o pending}
      BY DEF Publish
    <2>2. /\ pending \in Seq(MainItem) /\ published \in Seq(MainItem)
          /\ published \o pending \in Seq(MainItem) /\ <<>> \in Seq(MainItem)
      BY ConcatProperties, EmptySeq DEF TypeInv, IngestTypes
    <2> QED BY <2>1, <2>2
  <1>3. attached' \in BOOLEAN
    BY DEF Publish
  <1>4. /\ UNCHANGED <<args, collected, open, pc, call, metricList, pos,
                       metricCount, outcome, carried>>
        /\ Write \/ \E how \in Failures : Fails(how)
        /\ mainPublish' = lastPublish'
    BY DEF Publish
  <1>5. IngestTypes' /\ CountInv'
    BY <1>1, <1>2, <1>3, <1>4 DEF TypeInv, IngestTypes, CountInv
  <1>6. TypeOK' /\ PhaseInv'
    BY <1>1, <1>4, MainAssumption
    DEF Write, Fails, Over, Collecting, TypeInv, TypeOK, PhaseInv
  <1> QED BY <1>5, <1>6 DEF TypeInv

LEMMA StepTypes == TypeInv /\ [Next]_vars => TypeInv'
  <1> SUFFICES ASSUME TypeInv, [Next]_vars PROVE TypeInv'
    OBVIOUS
  <1> USE MainAssumption DEF Over, Collecting
  <1>1. CASE Start
    <2>1. IngestTypes' /\ CountInv'
      BY <1>1, FrameIngest DEF Start, TypeInv, IngestTypes
    <2>2. /\ step = "start" /\ step' \in {"exit", "list"}
          /\ step' = "exit" => status' \in {0, 1} /\ open' = {}
          /\ step' = "list" => status' = status /\ open' = open
          /\ UNCHANGED <<args, collected, inventory, sent, lastPublish,
                         mainPublish, published, call, pending>>
      BY <1>1 DEF Start, Exit, NoIngest, ingestVars, publishVars
    <2>3. TypeOK'
      <3>1. /\ args' \in Flags /\ open' \subseteq {"inventory", "monitoring"}
            /\ status = -1
        BY <2>2 DEF TypeInv, TypeOK
      <3>2. status' \in {-1, 0, 1} /\ (status' = -1 <=> step' # "exit")
        BY <2>2, <3>1
      <3> QED BY <2>2, <3>1, <3>2 DEF TypeInv, TypeOK
    <2>4. PhaseInv'
      BY <2>2 DEF TypeInv, TypeOK, PhaseInv
    <2> QED BY <2>1, <2>3, <2>4 DEF TypeInv
  <1>2. CASE BuildCollectionList
    <2>1. IngestTypes' /\ CountInv'
      BY <1>2 DEF BuildCollectionList, TypeInv, IngestTypes, CountInv
    <2>2. TypeOK' /\ PhaseInv'
      BY <1>2 DEF BuildCollectionList, Exit, GoOn, After, publishVars, TypeInv,
                  TypeOK, PhaseInv
    <2> QED BY <2>1, <2>2 DEF TypeInv
  <1>3. CASE PopulateMetrics \/ PopulateCustomMetricsFromFile
    <2>1. /\ Collect /\ pc = "idle" /\ collected < MaxSets + MaxFileSets
          /\ step \in {"metrics", "file"}
          /\ step = "metrics" => collected < MaxSets
      BY <1>3 DEF PopulateMetrics, PopulateCustomMetricsFromFile, TypeInv,
                  IngestTypes, TypeOK
    <2>2. /\ IngestTypes' /\ CountInv'
          /\ collected' \in 0 .. MaxSets + MaxFileSets
      BY <2>1, CollectTypes
    <2>3. UNCHANGED <<args, step, status, inventory, sent, open, publishVars>>
      BY <1>3 DEF PopulateMetrics, PopulateCustomMetricsFromFile
    <2>4. TypeOK' /\ PhaseInv'
      BY <2>1, <2>2, <2>3 DEF Collect, publishVars, TypeInv, TypeOK, PhaseInv
    <2> QED BY <2>2, <2>4 DEF TypeInv
  <1>4. CASE PartEnds \/ NoInventory \/ InventoryConnectionFails
               \/ PopulateInventory
    <2>1. /\ step \in {"metrics", "file", "inventory"} /\ GoOn /\ NoIngest
          /\ inventory' = inventory \/ inventory' \in 0 .. ConfigRows
          /\ step # "inventory" => inventory' = inventory
          /\ open' = open \/ open' = open \cup {"inventory"}
          /\ UNCHANGED <<args, collected, sent, publishVars>>
      BY <1>4 DEF PartEnds, NoInventory, InventoryConnectionFails,
                  PopulateInventory
    <2>2. IngestTypes' /\ CountInv'
      BY <2>1, FrameIngest DEF TypeInv, IngestTypes
    <2>3. /\ step' = IF step = "metrics" THEN "file"
                     ELSE IF step = "file" THEN "inventory" ELSE "publish"
          /\ status' = status /\ lastPublish' = lastPublish
          /\ mainPublish' = mainPublish
          /\ UNCHANGED <<published, call, pending>>
      BY <2>1 DEF GoOn, After, NoIngest, ingestVars, publishVars
    <2>4. TypeOK'
      BY <2>1, <2>3 DEF TypeInv, TypeOK
    <2>5. PhaseInv'
      BY <2>1, <2>3 DEF TypeInv, TypeOK, PhaseInv
    <2> QED BY <2>2, <2>4, <2>5 DEF TypeInv
  <1>5. CASE Publish
    BY <1>5, PublishTypes
  <1>6. CASE StartMonitoring
    <2>1. TypeOK' /\ PhaseInv'
      BY <1>6 DEF StartMonitoring, NoIngest, ingestVars, publishVars, TypeInv,
                  TypeOK, PhaseInv
    <2>2. IngestTypes' /\ CountInv'
      BY <1>6 DEF StartMonitoring, NoIngest, ingestVars, TypeInv, IngestTypes,
                  CountInv
    <2> QED BY <2>1, <2>2 DEF TypeInv
  <1>7. CASE Monitor
    BY <1>7, MonitorTypes
  <1>8. CASE EndMonitoring \/ Return \/ Crash
    <2>1. NoIngest /\ (pc = "idle" \/ step' = "crash")
      BY <1>8 DEF EndMonitoring, Return, Crash, TypeInv, IngestTypes
    <2>2. IngestTypes' /\ CountInv'
      BY <2>1, FrameIngest
    <2>3. TypeOK' /\ PhaseInv'
      BY <1>8 DEF EndMonitoring, Return, Crash, GoOn, After, NoIngest,
                  ingestVars, publishVars, TypeInv, TypeOK, PhaseInv
    <2> QED BY <2>2, <2>3 DEF TypeInv
  <1>9. CASE UNCHANGED vars
    BY <1>9 DEF vars, mainVars, publishVars, ingestVars, TypeInv, TypeOK,
                IngestTypes, PhaseInv, CountInv
  <1> QED
    BY <1>1, <1>2, <1>3, <1>4, <1>5, <1>6, <1>7, <1>8, <1>9
    DEF Next, Progress

\* Every variable of the program keeps its type, the exit status is set when
\* and only when the program is over, and no inventory row is sent twice.
THEOREM Typing == Spec => []TypeOK
  <1>1. TypeInv => TypeOK
    BY DEF TypeInv
  <1> QED BY <1>1, InitTypes, StepTypes, PTL DEF Spec

-----------------------------------------------------------------------------
(* The members of a backlog *)

LEMMA RangeAppend ==
  ASSUME NEW S, NEW s \in Seq(S), NEW x \in S
  PROVE  Range(Append(s, x)) = Range(s) \cup {x}
  <1>1. /\ DOMAIN Append(s, x) = 1 .. Len(s) + 1 /\ DOMAIN s = 1 .. Len(s)
        /\ Append(s, x)[Len(s) + 1] = x
        /\ \A k \in 1 .. Len(s) : Append(s, x)[k] = s[k]
        /\ Len(s) \in Nat
    BY AppendProperties, LenProperties
  <1>2. ASSUME NEW y \in Range(Append(s, x)) PROVE y \in Range(s) \cup {x}
    BY <1>1 DEF Range
  <1>3. ASSUME NEW y \in Range(s) PROVE y \in Range(Append(s, x))
    BY <1>1 DEF Range
  <1>4. x \in Range(Append(s, x))
    BY <1>1 DEF Range
  <1> QED BY <1>2, <1>3, <1>4

LEMMA RangeConcat ==
  ASSUME NEW S, NEW s \in Seq(S), NEW t \in Seq(S)
  PROVE  Range(s \o t) = Range(s) \cup Range(t)
  <1>1. /\ DOMAIN (s \o t) = 1 .. Len(s) + Len(t)
        /\ DOMAIN s = 1 .. Len(s) /\ DOMAIN t = 1 .. Len(t)
        /\ Len(s) \in Nat /\ Len(t) \in Nat
        /\ \A k \in 1 .. Len(s) + Len(t) :
             (s \o t)[k] = IF k <= Len(s) THEN s[k] ELSE t[k - Len(s)]
    BY ConcatProperties, LenProperties
  <1>2. ASSUME NEW k \in DOMAIN (s \o t)
        PROVE  (s \o t)[k] \in Range(s) \cup Range(t)
    BY <1>1 DEF Range
  <1>3. ASSUME NEW k \in DOMAIN s PROVE s[k] \in Range(s \o t)
    <2>1. k \in 1 .. Len(s) + Len(t) /\ (s \o t)[k] = s[k]
      BY <1>1
    <2> QED BY <1>1, <2>1 DEF Range
  <1>4. ASSUME NEW k \in DOMAIN t PROVE t[k] \in Range(s \o t)
    <2>1. /\ Len(s) + k \in 1 .. Len(s) + Len(t)
          /\ (s \o t)[Len(s) + k] = t[k]
      BY <1>1
    <2> QED BY <1>1, <2>1 DEF Range
  <1> QED BY <1>2, <1>3, <1>4 DEF Range

LEMMA RangeEmpty == Range(<<>>) = {}
  BY DEF Range

LEMMA MineAppend ==
  ASSUME NEW s \in Seq(MainItem), NEW x \in MainItem
  PROVE  Mine(Append(s, x)) = Mine(s) \cup (IF x[1] = 0 THEN {x[2]} ELSE {})
  <1>1. Range(Append(s, x)) = Range(s) \cup {x}
    BY RangeAppend
  <1> QED BY <1>1 DEF Mine

LEMMA MineConcat ==
  ASSUME NEW s \in Seq(MainItem), NEW t \in Seq(MainItem)
  PROVE  Mine(s \o t) = Mine(s) \cup Mine(t)
  <1>1. Range(s \o t) = Range(s) \cup Range(t)
    BY RangeConcat
  <1> QED BY <1>1 DEF Mine

LEMMA MineEmpty == Mine(<<>>) = {}
  BY RangeEmpty DEF Mine

\* What a step of query monitoring does to the backlog and the inventory:
\* nothing, one more set, all written, or a failure.
LEMMA MonitorMoves ==
  ASSUME TypeInv, Monitor
  PROVE  \/ /\ pc = "loop" /\ pc' # "idle" /\ pos <= Len(metricList)
            /\ pos' = pos + 1 /\ call' = call
            /\ pending' = Append(pending, <<call, pos>>)
            /\ UNCHANGED <<published, carried, inventory, lastPublish>>
         \/ /\ pc \in {"threshold", "flush"}
            /\ pending' = <<>> /\ published' = published \o pending
            /\ call' = call /\ pos' = pos
            /\ carried' = 0 /\ inventory' = 0 /\ lastPublish' = "ok"
         \/ /\ pc \in {"threshold", "flush"} /\ pc' = "idle"
            /\ pending' \in {pending, <<>>}
            /\ call' = call /\ pos' = pos
            /\ UNCHANGED published /\ inventory' \in {inventory, 0}
            /\ lastPublish' = "error"
         \/ /\ pc = "idle" /\ pc' # "idle" /\ call' = call + 1
            /\ carried' = Len(pending)
            /\ UNCHANGED <<pending, published, inventory, lastPublish>>
         \/ /\ pc = "loop" /\ call' = call /\ pos' \in {pos, pos + 1}
            /\ pc' = "idle" => metricCount = 0
            /\ UNCHANGED <<pending, published, carried, inventory, lastPublish>>
  <1>1. CASE Ingest!Begin
    BY <1>1 DEF Monitor, Ingest!Begin, Write, Fails, Ingest!ThresholdPublish,
                Ingest!FinalPublish, Ingest!PublishFails
  <1>2. CASE Ingest!SkipNil \/ Ingest!EndOfList
    <2>1. UNCHANGED <<inventory, lastPublish>>
      BY <1>2 DEF Monitor, Ingest!SkipNil, Ingest!EndOfList,
                  Ingest!ThresholdPublish, Ingest!FinalPublish,
                  Ingest!PublishFails
    <2> QED
      BY <1>2, <2>1 DEF Ingest!SkipNil, Ingest!EndOfList, Ingest!Return,
                        TypeInv, IngestTypes
  <1>3. CASE Ingest!AddModel
    <2>1. UNCHANGED <<inventory, lastPublish>>
      BY <1>3 DEF Monitor, Ingest!AddModel,
                  Ingest!ThresholdPublish, Ingest!FinalPublish,
                  Ingest!PublishFails
    <2> QED
      BY <1>3, <2>1 DEF Ingest!AddModel, Ingest!NewMetricSet, TypeInv, CountInv
  <1>4. ASSUME Ingest!ThresholdPublish \/ Ingest!FinalPublish, Write
        PROVE  /\ pc \in {"threshold", "flush"}
               /\ pending' = <<>> /\ published' = published \o pending
               /\ call' = call /\ pos' = pos
               /\ carried' = 0 /\ inventory' = 0 /\ lastPublish' = "ok"
    BY <1>4 DEF Write, Ingest!ThresholdPublish, Ingest!FinalPublish,
                Ingest!PublishMetrics
  <1>5. ASSUME NEW how \in Failures, Ingest!PublishFails(how), Fails(how)
        PROVE  /\ pc \in {"threshold", "flush"} /\ pc' = "idle"
               /\ pending' \in {pending, <<>>}
               /\ call' = call /\ pos' = pos
               /\ UNCHANGED published /\ inventory' \in {inventory, 0}
               /\ lastPublish' = "error"
    BY <1>5 DEF Ingest!PublishFails, Ingest!Return, Fails
  <1> QED BY <1>1, <1>2, <1>3, <1>4, <1>5 DEF Monitor

-----------------------------------------------------------------------------
(* The report of main *)

LEMMA InitReport == Init => ReportInv
  <1> SUFFICES ASSUME Init PROVE ReportInv
    OBVIOUS
  <1>1. pending = <<>> /\ published = <<>> /\ collected = 0
    BY DEF Init, Ingest!Init
  <1>2. Mine(pending) = {} /\ Mine(published) = {}
    BY <1>1, MineEmpty
  <1>3. 1 .. collected = {}
    BY <1>1
  <1> QED BY <1>2, <1>3 DEF ReportInv

\* A step that leaves backlog, output and main's own sets alone.
LEMMA FrameReport ==
  ASSUME ReportInv, UNCHANGED <<pending, published, collected>>,
         step' \in Collecting => step \in Collecting
  PROVE  ReportInv'
  BY DEF ReportInv

LEMMA StepReport == TypeInv /\ ReportInv /\ [Next]_vars => ReportInv'
  <1> SUFFICES ASSUME TypeInv, ReportInv, [Next]_vars PROVE ReportInv'
    OBVIOUS
  <1>a. /\ pending \in Seq(MainItem) /\ published \in Seq(MainItem)
        /\ collected \in Nat /\ call \in 0 .. MaxCalls
    BY MainAssumption DEF TypeInv, TypeOK, IngestTypes
  <1>1. CASE PopulateMetrics \/ PopulateCustomMetricsFromFile
    <2>1. /\ Collect /\ step \in {"metrics", "file"} /\ step' = step
          /\ collected < MaxSets + MaxFileSets
      BY <1>1, MainAssumption
      DEF PopulateMetrics, PopulateCustomMetricsFromFile, TypeInv, PhaseInv,
          TypeOK
    <2>2. <<0, collected + 1>> \in MainItem
      BY <2>1, <1>a, MainAssumption DEF MainItem
    <2>3. /\ pending' = Append(pending, <<0, collected + 1>>)
          /\ published' = published /\ collected' = collected + 1
      BY <2>1 DEF Collect
    <2>4. Mine(pending) = 1 .. collected /\ published = <<>>
      BY <2>1 DEF ReportInv, Collecting, TypeInv, PhaseInv
    <2>5. Mine(pending') = 1 .. collected'
      <3>1. Mine(pending') = (1 .. collected) \cup {collected + 1}
        BY <1>a, <2>2, <2>3, <2>4, MineAppend
      <3>2. 1 .. collected + 1 = (1 .. collected) \cup {collected + 1}
        <4>1. collected \in Nat
          BY <1>a
        <4> QED BY <4>1
      <3> QED BY <2>3, <3>1, <3>2
    <2>6. Mine(published') = {}
      BY <2>3, <2>4, MineEmpty
    <2> QED BY <2>5, <2>6 DEF ReportInv
  <1>2. CASE Publish
    <2>1. /\ step = "publish" /\ step' = "monitoring" /\ published = <<>>
          /\ collected' = collected
      BY <1>2 DEF Publish, GoOn, After, TypeInv, PhaseInv, Collecting
    <2>2. Mine(pending) = 1 .. collected
      BY <2>1 DEF ReportInv, Collecting
    <2>3. \/ pending' = <<>> /\ published' = published \o pending
          \/ pending' \in {pending, <<>>} /\ published' = published
      BY <1>2 DEF Publish
    <2>4. \/ Mine(pending') = {} /\ Mine(published') = 1 .. collected
          \/ Mine(pending') \in {{}, 1 .. collected} /\ Mine(published') = {}
      BY <1>a, <2>1, <2>2, <2>3, MineConcat, MineEmpty
    <2> QED BY <2>1, <2>4 DEF ReportInv, Collecting
  <1>3. CASE Monitor
    <2>1. step = "monitoring" /\ step' = step /\ collected' = collected
      BY <1>3 DEF Monitor
    <2>2. \/ Mine(pending') = Mine(pending) /\ Mine(published') = Mine(published)
          \/ /\ Mine(pending') = {}
             /\ Mine(published') \in {Mine(published),
                                      Mine(published) \cup Mine(pending)}
      <3>1. CASE pc = "loop" /\ pending' = Append(pending, <<call, pos>>)
                   /\ published' = published /\ pos <= Len(metricList)
        <4>1. <<call, pos>> \in MainItem /\ call # 0
          BY <3>1, MainAssumption DEF TypeInv, IngestTypes, MainItem
        <4> QED BY <3>1, <4>1, <1>a, MineAppend
      <3>2. CASE pending' = <<>> /\ published' = published \o pending
        BY <3>2, <1>a, MineConcat, MineEmpty
      <3>3. CASE pending' \in {pending, <<>>} /\ published' = published
        BY <3>3, MineEmpty
      <3> QED BY <1>3, <3>1, <3>2, <3>3, MonitorMoves
    <2> QED BY <2>1, <2>2 DEF ReportInv, Collecting
  <1>4. CASE \/ Start \/ BuildCollectionList \/ PartEnds \/ NoInventory
             \/ InventoryConnectionFails \/ PopulateInventory
             \/ StartMonitoring \/ EndMonitoring \/ Return \/ Crash
             \/ UNCHANGED vars
    <2>1. UNCHANGED <<pending, published, collected>>
      BY <1>4 DEF Start, BuildCollectionList, PartEnds, NoInventory,
                  InventoryConnectionFails, PopulateInventory,
                  StartMonitoring, EndMonitoring, Return, Crash, vars,
                  mainVars, NoIngest, ingestVars
    <2>2. step' \in Collecting => step \in Collecting
      BY <1>4 DEF Start, BuildCollectionList, PartEnds, NoInventory,
                  InventoryConnectionFails, PopulateInventory,
                  StartMonitoring, EndMonitoring, Return, Crash, vars,
                  mainVars, GoOn, After, Exit, Collecting
    <2> QED BY <2>1, <2>2, FrameReport
  <1> QED BY <1>1, <1>2, <1>3, <1>4 DEF Next, Progress

\* In every state of a run the whole report of main has been written, or
\* nothing of it: no failure and no batch of monitoring splits it.
THEOREM ReportWhole == Spec => []MainReportWhole
  <1>1. ReportInv => MainReportWhole
    BY DEF ReportInv, MainReportWhole, Mine
  <1> QED
    BY <1>1, InitTypes, InitReport, StepTypes, StepReport, PTL DEF Spec

-----------------------------------------------------------------------------
(* What monitoring costs main *)

LEMMA InitCost == Init => CostInv
  BY DEF Init, CostInv

LEMMA FrameCost ==
  ASSUME CostInv, step \in {"monitoring", "return", "exit"} \/ step' = "crash",
         UNCHANGED <<pending, published, collected, inventory, lastPublish,
                     mainPublish, pc, carried>>
  PROVE  CostInv'
  BY DEF CostInv

LEMMA StepCost ==
  TypeInv /\ ReportInv /\ CostInv /\ [Next]_vars => CostInv'
  <1> SUFFICES ASSUME TypeInv, ReportInv, CostInv, [Next]_vars
               PROVE  CostInv'
    OBVIOUS
  <1>a. /\ pending \in Seq(MainItem) /\ published \in Seq(MainItem)
        /\ collected \in Nat /\ call \in 0 .. MaxCalls
    BY MainAssumption DEF TypeInv, TypeOK, IngestTypes
  <1>1. CASE \/ PopulateMetrics \/ PopulateCustomMetricsFromFile \/ PartEnds
             \/ NoInventory \/ InventoryConnectionFails \/ PopulateInventory
    <2>1. /\ step \in {"metrics", "file", "inventory"}
          /\ step' \in {"metrics", "file", "inventory", "publish"}
          /\ mainPublish' = mainPublish
      BY <1>1 DEF PopulateMetrics, PopulateCustomMetricsFromFile, PartEnds,
                  NoInventory, InventoryConnectionFails, PopulateInventory,
                  GoOn, After, publishVars
    <2>2. mainPublish = "none"
      BY <2>1 DEF TypeInv, PhaseInv, Collecting
    <2> QED BY <2>1, <2>2 DEF CostInv
  <1>2. CASE Start \/ BuildCollectionList
    <2>1. /\ step \in {"start", "list"}
          /\ step' \in {"list", "metrics", "exit"} /\ pc = "idle"
          /\ UNCHANGED <<mainPublish, pending, inventory, pc>>
      BY <1>2 DEF Start, BuildCollectionList, Exit, GoOn, After, publishVars,
                  NoIngest, ingestVars, TypeInv, IngestTypes
    <2>2. /\ mainPublish = "none" /\ pending = <<>> /\ inventory = 0
      BY <2>1 DEF TypeInv, PhaseInv, Collecting
    <2> QED BY <2>1, <2>2 DEF CostInv
  <1>3. CASE Publish
    <2>1. /\ step = "publish" /\ step' = "monitoring" /\ pc' = "idle"
          /\ collected' = collected /\ mainPublish' = lastPublish'
          /\ published = <<>>
      BY <1>3 DEF Publish, GoOn, After, TypeInv, IngestTypes, PhaseInv,
                  Collecting
    <2>2. CASE /\ published' = published \o pending /\ pending' = <<>>
               /\ Write
      <3>1. Mine(published') = 1 .. collected
        BY <1>a, <2>1, <2>2, MineConcat, MineEmpty DEF ReportInv, Collecting
      <3> QED BY <2>1, <2>2, <3>1 DEF Write, CostInv
    <2>3. CASE \E how \in Failures : Fails(how)
      BY <2>1, <2>3 DEF Fails, CostInv
    <2> QED BY <1>3, <2>2, <2>3 DEF Publish
  <1>4. CASE Monitor
    <2>1. /\ step = "monitoring" /\ step' = step /\ collected' = collected
          /\ mainPublish' = mainPublish
      BY <1>4 DEF Monitor
    <2>2. mainPublish = "ok" =>
            Mine(published') = 1 .. collected /\ inventory' = 0
      <3> SUFFICES ASSUME mainPublish = "ok"
                   PROVE  Mine(published') = 1 .. collected /\ inventory' = 0
        OBVIOUS
      <3>1. Mine(published) = 1 .. collected /\ inventory = 0
        BY DEF CostInv
      <3>2. Mine(published \o pending) = 1 .. collected
        <4>1. Mine(pending) \subseteq 1 .. collected
          BY DEF ReportInv
        <4> QED BY <1>a, <3>1, <4>1, MineConcat
      <3>3. published' \in {published, published \o pending}
            /\ inventory' \in {inventory, 0}
        BY <1>4, MonitorMoves
      <3> QED BY <3>1, <3>2, <3>3
    <2>3. Len(pending) \in Nat /\ (pending # <<>> => Len(pending) > 0)
      BY <1>a, EmptySeq
    <2>4. pc' = "idle" /\ (pending' # <<>> \/ inventory' > 0)
            => lastPublish' = "error"
      <3>1. CASE pc = "loop" /\ metricCount = 0
                   /\ UNCHANGED <<pending, inventory, lastPublish>>
        BY <2>1, <2>3, <3>1 DEF CostInv, TypeInv, CountInv, IngestTypes
      <3> QED BY <1>4, <3>1, MonitorMoves
    <2>5. pc' # "idle" /\ (carried' > 0 \/ inventory' > 0)
            => lastPublish' = "error"
      <3>1. CASE pc = "idle" /\ carried' = Len(pending)
                   /\ UNCHANGED <<inventory, lastPublish>>
        <4>1. carried' > 0 => pending # <<>>
          BY <3>1, EmptySeq
        <4> QED BY <2>1, <3>1, <4>1 DEF CostInv
      <3>2. CASE pc # "idle" /\ UNCHANGED <<carried, inventory, lastPublish>>
        BY <2>1, <3>2 DEF CostInv
      <3>3. CASE carried' = 0 /\ inventory' = 0
        BY <3>3
      <3> QED BY <1>4, <3>1, <3>2, <3>3, MonitorMoves
    <2> QED BY <2>1, <2>2, <2>4, <2>5 DEF CostInv
  <1>5. CASE StartMonitoring \/ EndMonitoring \/ Return \/ Crash
    <2>1. UNCHANGED <<pending, published, collected, inventory, lastPublish,
                      mainPublish, pc, carried>>
      BY <1>5 DEF StartMonitoring, EndMonitoring, Return, Crash, NoIngest,
                  ingestVars, publishVars
    <2>2. step \in {"monitoring", "return", "exit"} \/ step' = "crash"
      BY <1>5 DEF StartMonitoring, EndMonitoring, Return, Crash
    <2> QED BY <2>1, <2>2, FrameCost
  <1>6. CASE UNCHANGED vars
    BY <1>6 DEF vars, mainVars, publishVars, ingestVars, CostInv
  <1> QED BY <1>1, <1>2, <1>3, <1>4, <1>5, <1>6 DEF Next, Progress

\* A run whose own publish succeeded has written all that main collected,
\* however monitoring ends, and a run that returns leaves something unsent
\* only if the last publish of the run failed.
THEOREM CostsNothing == Spec => []MonitoringCostsNothing
  <1>1. TypeInv /\ CostInv => MonitoringCostsNothing
    <2> SUFFICES ASSUME TypeInv, CostInv PROVE MonitoringCostsNothing
      OBVIOUS
    <2>1. ASSUME mainPublish = "ok", NEW k \in 1 .. collected
          PROVE  <<0, k>> \in Range(published)
      <3>1. PICK x \in Range(published) : x[1] = 0 /\ x[2] = k
        BY <2>1 DEF CostInv, Mine
      <3>2. x \in MainItem
        BY DEF TypeInv, IngestTypes, Range
      <3> QED BY <3>1, <3>2 DEF MainItem
    <2>2. step = "exit" /\ (pending # <<>> \/ inventory > 0)
            => lastPublish = "error"
      BY DEF CostInv, TypeInv, IngestTypes
    <2> QED BY <2>1, <2>2 DEF MonitoringCostsNothing, CostInv
  <1> QED
    BY <1>1, InitTypes, InitReport, InitCost, StepTypes, StepReport, StepCost,
       PTL DEF Spec

-----------------------------------------------------------------------------
(* The names of the sets, and the delivery contract *)

LEMMA InitNames == Init => NamesInv
  BY RangeEmpty DEF Init, Ingest!Init, NamesInv

\* The set a part of main collects is one the delivery contract accepts.
LEMMA CollectAccepts ==
  ASSUME TypeInv, NamesInv,
         PopulateMetrics \/ PopulateCustomMetricsFromFile
  PROVE  /\ pc = "idle" /\ pc' = pc /\ call' = call
         /\ collected' = collected + 1
         /\ <<0, collected + 1>> \in MainItem
         /\ pending' = Append(pending, <<0, collected + 1>>)
         /\ published' = published
         /\ <<0, collected + 1>> \notin Range(pending) \cup Range(published)
  <1>1. Collect /\ collected < MaxSets + MaxFileSets /\ pc = "idle"
    BY MainAssumption
    DEF PopulateMetrics, PopulateCustomMetricsFromFile, TypeInv, TypeOK,
        PhaseInv, IngestTypes
  <1>2. collected \in Nat
    BY MainAssumption DEF TypeInv, TypeOK
  <1>3. <<0, collected + 1>> \in MainItem
    BY <1>1, <1>2, MainAssumption DEF MainItem
  <1>4. <<0, collected + 1>> \notin Range(pending) \cup Range(published)
    BY <1>2 DEF NamesInv
  <1> QED BY <1>1, <1>3, <1>4 DEF Collect

\* So is the set an ingest call creates.
LEMMA AddAccepts ==
  ASSUME TypeInv, NamesInv, pc = "loop", pos <= Len(metricList)
  PROVE  /\ <<call, pos>> \in MainItem
         /\ <<call, pos>> \notin Range(pending) \cup Range(published)
  <1>1. pos \in Nat /\ call # 0
    BY DEF TypeInv, IngestTypes
  <1>2. <<call, pos>> \in MainItem
    BY <1>1, MainAssumption DEF MainItem, TypeInv, IngestTypes
  <1>3. <<call, pos>> \notin Range(pending) \cup Range(published)
    BY <1>1 DEF NamesInv
  <1> QED BY <1>2, <1>3

LEMMA StepNames == TypeInv /\ NamesInv /\ [Next]_vars => NamesInv'
  <1> SUFFICES ASSUME TypeInv, NamesInv, [Next]_vars PROVE NamesInv'
    OBVIOUS
  <1>a. /\ pending \in Seq(MainItem) /\ published \in Seq(MainItem)
        /\ collected \in Nat /\ call \in Nat /\ pos \in Nat
    BY MainAssumption DEF TypeInv, TypeOK, IngestTypes
  <1>b. \A x \in Range(pending) \cup Range(published) :
          x[1] \in Nat /\ x[2] \in Nat
    <2>1. \A list \in Seq(MainItem) : Range(list) \subseteq MainItem
      BY SeqDef DEF Range
    <2>2. Range(pending) \subseteq MainItem /\ Range(published) \subseteq MainItem
      BY <1>a, <2>1
    <2>3. \A x \in MainItem : x[1] \in Nat /\ x[2] \in Nat
      BY MainAssumption DEF MainItem
    <2> QED BY <2>2, <2>3
  <1>1. CASE PopulateMetrics \/ PopulateCustomMetricsFromFile
    <2>1. Range(pending') = Range(pending) \cup {<<0, collected + 1>>}
      <3>1. /\ pending' = Append(pending, <<0, collected + 1>>)
            /\ <<0, collected + 1>> \in MainItem
        BY <1>1, CollectAccepts
      <3> QED BY <1>a, <3>1, RangeAppend
    <2> QED BY <1>a, <1>b, <1>1, <2>1, CollectAccepts DEF NamesInv
  <1>2. CASE Publish
    <2>1. Range(pending') \cup Range(published')
            \subseteq Range(pending) \cup Range(published)
      <3>1. CASE published' = published \o pending /\ pending' = <<>>
        BY <1>a, <3>1, RangeConcat, RangeEmpty
      <3>2. CASE published' = published /\ pending' \in {pending, <<>>}
        BY <3>2, RangeEmpty
      <3> QED BY <1>2, <3>1, <3>2 DEF Publish
    <2>2. pc' = "idle" /\ call' = call /\ collected' = collected
      BY <1>2 DEF Publish, TypeInv, IngestTypes
    <2> QED BY <2>1, <2>2 DEF NamesInv
  <1>3. CASE Monitor
    <2>1. collected' = collected
      BY <1>3 DEF Monitor
    <2>2. CASE /\ pc = "loop" /\ pc' # "idle" /\ pos <= Len(metricList)
               /\ pos' = pos + 1 /\ call' = call
               /\ pending' = Append(pending, <<call, pos>>)
               /\ published' = published
      <3>1. <<call, pos>> \in MainItem /\ call # 0
        BY <2>2, AddAccepts DEF TypeInv, IngestTypes
      <3>2. Range(pending') = Range(pending) \cup {<<call, pos>>}
        BY <1>a, <2>2, <3>1, RangeAppend
      <3>3. ASSUME NEW x \in Range(pending) \cup Range(published)
            PROVE  /\ x[1] <= call' /\ (x[1] = 0 => x[2] <= collected')
                   /\ x[1] = call' /\ pc' # "idle" => x[2] < pos'
        BY <1>a, <1>b, <2>1, <2>2 DEF NamesInv
      <3>4. /\ <<call, pos>>[1] <= call' /\ <<call, pos>>[1] # 0
            /\ <<call, pos>>[2] < pos'
        BY <1>a, <2>2, <3>1
      <3>5. ASSUME NEW x \in Range(pending') \cup Range(published')
            PROVE  x \in Range(pending) \cup Range(published)
                     \/ x = <<call, pos>>
        BY <2>2, <3>2
      <3> QED BY <3>3, <3>4, <3>5 DEF NamesInv
    <2>3. CASE /\ pc # "idle" /\ call' = call /\ pos' = pos
               /\ \/ pending' = <<>> /\ published' = published \o pending
                  \/ pending' \in {pending, <<>>} /\ published' = published
      <3>1. Range(pending') \cup Range(published')
              \subseteq Range(pending) \cup Range(published)
        <4>1. CASE published' = published \o pending /\ pending' = <<>>
          BY <1>a, <4>1, RangeConcat, RangeEmpty
        <4>2. CASE published' = published /\ pending' \in {pending, <<>>}
          BY <4>2, RangeEmpty
        <4> QED BY <2>3, <4>1, <4>2
      <3>2. ASSUME NEW x \in Range(pending) \cup Range(published)
            PROVE  /\ x[1] <= call' /\ (x[1] = 0 => x[2] <= collected')
                   /\ x[1] = call' /\ pc' # "idle" => x[2] < pos'
        BY <2>1, <2>3 DEF NamesInv
      <3>3. ASSUME NEW x \in Range(pending') \cup Range(published')
            PROVE  /\ x[1] <= call' /\ (x[1] = 0 => x[2] <= collected')
                   /\ x[1] = call' /\ pc' # "idle" => x[2] < pos'
        <4>1. x \in Range(pending) \cup Range(published)
          BY <3>1
        <4> QED BY <3>2, <4>1
      <3> QED BY <3>3 DEF NamesInv
    <2>4. CASE /\ pc = "idle" /\ call' = call + 1
               /\ UNCHANGED <<pending, published>>
      BY <1>a, <1>b, <2>1, <2>4 DEF NamesInv
    <2>5. CASE /\ pc = "loop" /\ call' = call /\ pos' \in {pos, pos + 1}
               /\ UNCHANGED <<pending, published>>
      BY <1>a, <1>b, <2>1, <2>5 DEF NamesInv
    <2> QED BY <1>3, <2>2, <2>3, <2>4, <2>5, MonitorMoves
  <1>4. CASE \/ Start \/ BuildCollectionList \/ PartEnds \/ NoInventory
             \/ InventoryConnectionFails \/ PopulateInventory
             \/ StartMonitoring \/ EndMonitoring \/ Return \/ Crash
             \/ UNCHANGED vars
    <2>1. UNCHANGED <<pending, published, collected, call, pc, pos>>
      BY <1>4 DEF Start, BuildCollectionList, PartEnds, NoInventory,
                  InventoryConnectionFails, PopulateInventory,
                  StartMonitoring, EndMonitoring, Return, Crash, vars,
                  mainVars, NoIngest, ingestVars
    <2> QED BY <2>1 DEF NamesInv
  <1> QED BY <1>1, <1>2, <1>3, <1>4 DEF Next, Progress

\* Writing everything, or losing everything, is a step of the contract or,
\* when nothing waits, none.
LEMMA LeavesWhole ==
  ASSUME TypeInv,
         \/ pending' = <<>> /\ published' = published \o pending
         \/ pending' \in {pending, <<>>} /\ published' = published
  PROVE  Delivery!Next \/ UNCHANGED Delivery!bdVars
  <1>1. CASE pending = <<>>
    <2>1. published \o <<>> = published
      BY ConcatEmptySeq DEF TypeInv, IngestTypes
    <2> QED BY <1>1, <2>1 DEF Delivery!bdVars
  <1>2. CASE pending # <<>>
    BY <1>2 DEF Delivery!Next, Delivery!Deliver, Delivery!Discard,
                Delivery!bdVars
  <1> QED BY <1>1, <1>2

LEMMA StepDelivers ==
  TypeInv /\ NamesInv /\ [Next]_vars => [Delivery!Next]_(Delivery!bdVars)
  <1> SUFFICES ASSUME TypeInv, NamesInv, [Next]_vars
               PROVE  Delivery!Next \/ UNCHANGED Delivery!bdVars
    OBVIOUS
  <1>1. ASSUME NEW x \in MainItem, x \notin Range(pending) \cup Range(published),
               pending' = Append(pending, x), published' = published
        PROVE  Delivery!Next
    <2>1. Delivery!Accept(x)
      BY <1>1 DEF Delivery!Accept, Delivery!Fresh, Range
    <2> QED BY <2>1 DEF Delivery!Next, MainItem
  <1>2. CASE PopulateMetrics \/ PopulateCustomMetricsFromFile
    BY <1>1, <1>2, CollectAccepts
  <1>3. CASE Publish
    BY <1>3, LeavesWhole DEF Publish
  <1>4. CASE Monitor
    <2>1. CASE /\ pc = "loop" /\ pos <= Len(metricList)
               /\ pending' = Append(pending, <<call, pos>>)
               /\ published' = published
      BY <1>1, <2>1, AddAccepts
    <2> QED BY <1>4, <2>1, MonitorMoves, LeavesWhole
  <1>5. CASE \/ Start \/ BuildCollectionList \/ PartEnds \/ NoInventory
             \/ InventoryConnectionFails \/ PopulateInventory
             \/ StartMonitoring \/ EndMonitoring \/ Return \/ Crash
             \/ UNCHANGED vars
    BY <1>5 DEF Start, BuildCollectionList, PartEnds, NoInventory,
                InventoryConnectionFails, PopulateInventory,
                StartMonitoring, EndMonitoring, Return, Crash, vars,
                mainVars, NoIngest, ingestVars, Delivery!bdVars
  <1> QED BY <1>2, <1>3, <1>4, <1>5 DEF Next, Progress

\* Main and the ingester, over the one integration object they share, keep
\* the delivery contract across the whole run.
THEOREM Implementation == Spec => ImplementsDelivery
  <1>1. Init => Delivery!Init
    BY DEF Init, Ingest!Init, Delivery!Init
  <1> QED
    BY <1>1, InitTypes, InitNames, StepTypes, StepNames, StepDelivers,
       PTL DEF Spec, ImplementsDelivery, Delivery!Spec

-----------------------------------------------------------------------------
(* Every run ends, with its connections given back *)

\* Monitoring has its connection as long as it lasts and ingests; when main
\* returns, the connection of the inventory is all there is to close.
OpenInv ==
  /\ "monitoring" \in open => step = "monitoring"
  /\ pc # "idle" => "monitoring" \in open \/ step = "crash"
  /\ Over => open = {}

LEMMA StepOpen == TypeInv /\ OpenInv /\ [Next]_vars => OpenInv'
  <1> SUFFICES ASSUME TypeInv, OpenInv, [Next]_vars PROVE OpenInv'
    OBVIOUS
  <1> USE DEF OpenInv, Over
  <1>t. /\ open \subseteq {"inventory", "monitoring"}
        /\ pc # "idle" => step \in {"monitoring", "crash"}
    BY DEF TypeInv, TypeOK, IngestTypes
  <1>1. CASE Start
    BY <1>t, <1>1 DEF Start, Exit, NoIngest, ingestVars
  <1>2. CASE BuildCollectionList
    BY <1>t, <1>2 DEF BuildCollectionList, Exit, GoOn, After
  <1>3. CASE PopulateMetrics \/ PopulateCustomMetricsFromFile
    BY <1>t, <1>3 DEF PopulateMetrics, PopulateCustomMetricsFromFile, Collect
  <1>4. CASE PartEnds \/ NoInventory \/ InventoryConnectionFails \/ PopulateInventory
    BY <1>t, <1>4 DEF PartEnds, NoInventory, InventoryConnectionFails,
                      PopulateInventory, GoOn, After, NoIngest, ingestVars
  <1>5. CASE Publish
    BY <1>t, <1>5 DEF Publish, GoOn, After
  <1>6. CASE StartMonitoring
    BY <1>t, <1>6 DEF StartMonitoring, NoIngest, ingestVars
  <1>7. CASE Monitor
    BY <1>t, <1>7 DEF Monitor
  <1>8. CASE EndMonitoring \/ Return \/ Crash
    BY <1>t, <1>8 DEF EndMonitoring, Return, Crash, GoOn, After, NoIngest, ingestVars
  <1>9. CASE UNCHANGED vars
    BY <1>9 DEF vars, mainVars, ingestVars
  <1> QED BY <1>1, <1>2, <1>3, <1>4, <1>5, <1>6, <1>7, <1>8, <1>9 DEF Next, Progress

LEMMA AlwaysOpenInv == Spec => [](TypeInv /\ OpenInv)
  <1>1. Init => OpenInv
    BY DEF Init, Ingest!Init, OpenInv, Over
  <1> QED BY <1>1, InitTypes, StepTypes, StepOpen, PTL DEF Spec

\* main.go:85, query_performance_main.go:32: a run that is over has given
\* back the connections of inventory and monitoring, whatever way it ended.
THEOREM NothingLeftOpen == Spec => [](Over => open = {})
  <1>1. OpenInv => (Over => open = {})
    BY DEF OpenInv
  <1> QED BY <1>1, AlwaysOpenInv, PTL

\* The guards of main's parts, and of an ingest call under monitoring.
CanGoOn ==
  \/ step \in {"start", "list", "metrics", "file", "inventory", "publish", "return"}
  \/ step = "monitoring" /\ pc = "idle"
  \/ /\ step = "monitoring" /\ "monitoring" \in open
     /\ \/ pc = "loop" /\ pos > Len(metricList)
        \/ pc = "loop" /\ pos <= Len(metricList) /\ metricList[pos] \in Ingest!Kind
        \/ pc \in {"threshold", "flush"}

\* As long as a run is not over it can go on: no part and no ingest call waits
\* for something another part would have to do.
THEOREM NeverStuck == Spec => [](Over \/ CanGoOn)
  <1>1. ASSUME TypeInv, OpenInv, ~Over PROVE CanGoOn
    <2>1. CASE step # "monitoring"
      BY <1>1, <2>1 DEF TypeInv, TypeOK, Over, CanGoOn
    <2>2. CASE step = "monitoring" /\ pc = "loop"
      <3>1. /\ metricList \in Seq(Ingest!Kind) /\ Len(metricList) \in Nat
            /\ pos \in 1 .. Len(metricList) + 1
        BY <1>1 DEF TypeInv, IngestTypes
      <3>2. pos <= Len(metricList) => metricList[pos] \in Ingest!Kind
        BY <3>1
      <3> QED BY <1>1, <2>2, <3>1, <3>2 DEF OpenInv, CanGoOn
    <2>3. CASE step = "monitoring" /\ pc # "loop"
      BY <1>1, <2>3 DEF TypeInv, IngestTypes, OpenInv, CanGoOn
    <2> QED BY <2>1, <2>2, <2>3
  <1>2. TypeInv /\ OpenInv => Over \/ CanGoOn
    BY <1>1
  <1> QED BY <1>2, AlwaysOpenInv, PTL

\* What is left of the run: parts of main, sets they may collect, calls of
\* monitoring, and what is left of the list of the current call.
PartsLeft ==
  CASE step = "start"      -> 9
    [] step = "list"       -> 8
    [] step = "metrics"    -> 7
    [] step = "file"       -> 6
    [] step = "inventory"  -> 5
    [] step = "publish"    -> 4
    [] step = "monitoring" -> IF "monitoring" \in open THEN 2 ELSE 3
    [] step = "return"     -> 1
    [] OTHER               -> 0

SetsLeft == MaxSets + MaxFileSets - collected

CallsLeft == MaxCalls - call

ListLeft ==
  CASE pc = "loop"      -> 2 * (Len(metricList) + 1 - pos) + 2
    [] pc = "threshold" -> 2 * (Len(metricList) + 1 - pos) + 3
    [] pc = "flush"     -> 1
    [] OTHER            -> 0

\* In this order: less is left of the first that changes.
ComesCloser ==
  \/ PartsLeft' < PartsLeft
  \/ /\ PartsLeft' = PartsLeft
     /\ \/ SetsLeft' < SetsLeft
        \/ /\ SetsLeft' = SetsLeft
           /\ \/ CallsLeft' < CallsLeft
              \/ CallsLeft' = CallsLeft /\ ListLeft' < ListLeft

LEMMA LeftIsNat ==
  ASSUME TypeInv
  PROVE  PartsLeft \in Nat /\ SetsLeft \in Nat /\ CallsLeft \in Nat /\ ListLeft \in Nat
  <1>1. PartsLeft \in Nat
    BY DEF PartsLeft
  <1>2. SetsLeft \in Nat /\ CallsLeft \in Nat
    BY MainAssumption DEF TypeInv, TypeOK, IngestTypes, SetsLeft, CallsLeft
  <1>3. ListLeft \in Nat
    <2>1. Len(metricList) \in Nat /\ pos \in 1 .. Len(metricList) + 1
      BY DEF TypeInv, IngestTypes
    <2> QED BY <2>1 DEF ListLeft
  <1> QED BY <1>1, <1>2, <1>3

\* A step of an ingest call begins a call or leaves less of its list.
LEMMA CallComesCloser ==
  ASSUME TypeInv, Monitor
  PROVE  ComesCloser
  <1>1. /\ PartsLeft' = PartsLeft /\ SetsLeft' = SetsLeft /\ Ingest!Next
    BY MonitorIsNext DEF Monitor, PartsLeft, SetsLeft
  <1>2. /\ Len(metricList) \in Nat /\ pos \in 1 .. Len(metricList) + 1 /\ call \in Nat
    BY DEF TypeInv, IngestTypes
  <1>3. \/ CallsLeft' < CallsLeft
        \/ CallsLeft' = CallsLeft /\ ListLeft' < ListLeft
    <2>1. CASE Ingest!Begin
      BY <1>2, <2>1, MainAssumption DEF Ingest!Begin, CallsLeft
    <2>2. CASE Ingest!SkipNil
      BY <1>2, <2>2 DEF Ingest!SkipNil, CallsLeft, ListLeft
    <2>3. CASE Ingest!AddModel
      BY <1>2, <2>3 DEF Ingest!AddModel, CallsLeft, ListLeft
    <2>4. CASE Ingest!EndOfList
      BY <1>2, <2>4 DEF Ingest!EndOfList, Ingest!Return, CallsLeft, ListLeft
    <2>5. CASE Ingest!ThresholdPublish
      BY <1>2, <2>5 DEF Ingest!ThresholdPublish, CallsLeft, ListLeft
    <2>6. CASE Ingest!FinalPublish
      BY <1>2, <2>6 DEF Ingest!FinalPublish, Ingest!Return, CallsLeft, ListLeft
    <2>7. ASSUME NEW how \in Failures, Ingest!PublishFails(how)
          PROVE  CallsLeft' = CallsLeft /\ ListLeft' < ListLeft
      BY <1>2, <2>7 DEF Ingest!PublishFails, Ingest!Return, CallsLeft, ListLeft
    <2> QED BY <1>1, <2>1, <2>2, <2>3, <2>4, <2>5, <2>6, <2>7 DEF Ingest!Next
  <1> QED BY <1>1, <1>3 DEF ComesCloser

\* main.go:31-98, ingestion-helpers.go:15-56: every step of a run leaves less to
\* do, by numbers that cannot fall below zero (LeftIsNat), so that no run goes
\* on for ever: not the loop over a list, whose models may be nil, nor the calls.
THEOREM EveryStepComesCloser == Spec => [][ComesCloser]_vars
  <1>1. ASSUME TypeInv, Next PROVE ComesCloser
    <2> USE DEF GoOn, After, Exit
    <2>1. CASE Start
      BY <2>1 DEF Start, ComesCloser, PartsLeft
    <2>2. CASE BuildCollectionList
      BY <2>2 DEF BuildCollectionList, ComesCloser, PartsLeft
    <2>3. CASE PopulateMetrics \/ PopulateCustomMetricsFromFile
      <3>1. PartsLeft' = PartsLeft
        BY <2>3 DEF PopulateMetrics, PopulateCustomMetricsFromFile, PartsLeft
      <3>2. SetsLeft' < SetsLeft
        BY <1>1, <2>3, MainAssumption
           DEF PopulateMetrics, PopulateCustomMetricsFromFile, Collect, SetsLeft,
               TypeInv, TypeOK
      <3> QED BY <3>1, <3>2 DEF ComesCloser
    <2>4. CASE PartEnds \/ NoInventory \/ InventoryConnectionFails \/ PopulateInventory
      BY <2>4 DEF PartEnds, NoInventory, InventoryConnectionFails,
                  PopulateInventory, ComesCloser, PartsLeft
    <2>5. CASE Publish
      BY <2>5 DEF Publish, ComesCloser, PartsLeft
    <2>6. CASE StartMonitoring
      BY <2>6 DEF StartMonitoring, ComesCloser, PartsLeft
    <2>7. CASE Monitor
      BY <1>1, <2>7, CallComesCloser
    <2>8. CASE EndMonitoring \/ Return \/ Crash
      BY <2>8 DEF EndMonitoring, Return, Crash, ComesCloser, PartsLeft
    <2> QED BY <1>1, <2>1, <2>2, <2>3, <2>4, <2>5, <2>6, <2>7, <2>8 DEF Next, Progress
  <1>2. TypeInv /\ [Next]_vars => [ComesCloser]_vars
    BY <1>1
  <1> QED BY <1>2, InitTypes, StepTypes, PTL DEF Spec
=============================================================================
