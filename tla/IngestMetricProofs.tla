------------------------- MODULE IngestMetricProofs -------------------------
(***************************************************************************)
(* Proofs about the batching ingester for every threshold, set of lists    *)
(* and number of calls.  Three inductive layers: types, what the counter   *)
(* says of the entity, and where the sets of the current call are.         *)
(***************************************************************************)
EXTENDS IngestMetric, SequenceTheorems, TLAPS

-----------------------------------------------------------------------------
(* Types *)

\* A call in progress has a number, so its sets are items.
TypeInv == TypeOK /\ (pc # "idle" => call >= 1)

LEMMA InitTypes == Init => TypeInv
  <1> SUFFICES ASSUME Init PROVE TypeInv
    OBVIOUS
  <1>1. metricList \in Seq(Kind) /\ Len(metricList) = 0
    BY DEF Init
  <1>2. pending \in Seq(Item) /\ published \in Seq(Item)
    BY DEF Init
  <1>3. /\ pc = "idle" /\ call = 0 /\ pos = 1 /\ metricCount = 0
        /\ attached = FALSE /\ outcome = "nil" /\ carried = 0
    BY DEF Init
  <1>4. MaxLen \in Nat /\ MaxCalls \in Nat
    BY IngestAssumption
  <1>5. Len(metricList) <= MaxLen /\ pos \in 1 .. Len(metricList) + 1
    BY <1>1, <1>3, <1>4
  <1>6. call \in 0 .. MaxCalls /\ metricCount \in Nat /\ carried \in Nat
    BY <1>3, <1>4
  <1> QED BY <1>1, <1>2, <1>3, <1>5, <1>6 DEF TypeInv, TypeOK

LEMMA StepTypes == TypeInv /\ [Next]_vars => TypeInv'
  <1> SUFFICES ASSUME TypeInv, [Next]_vars PROVE TypeInv'
    OBVIOUS
  <1> USE IngestAssumption DEF TypeInv, TypeOK
  <1>1. CASE Begin
    <2>1. /\ metricList' \in Seq(Kind) /\ Len(metricList') <= MaxLen
          /\ Len(metricList') \in Nat
      BY <1>1 DEF Begin
    <2> QED BY <1>1, <2>1 DEF Begin, CreateEntity
  <1>2. CASE SkipNil
    BY <1>2 DEF SkipNil
  <1>3. CASE AddModel
    <2>1. pos \in 1 .. MaxLen /\ call \in 1 .. MaxCalls
      BY <1>3 DEF AddModel
    <2>2. <<call, pos>> \in Item
      BY <2>1 DEF Item
    <2>3. pending' \in Seq(Item)
      BY <1>3, <2>2 DEF AddModel, NewMetricSet
    <2>4. pos' \in 1 .. Len(metricList') + 1
      BY <1>3 DEF AddModel
    <2> QED BY <1>3, <2>3, <2>4 DEF AddModel, ReachesThreshold
  <1>4. CASE EndOfList
    BY <1>4 DEF EndOfList, Return
  <1>5. CASE ThresholdPublish
    BY <1>5 DEF ThresholdPublish, PublishMetrics, CreateEntity
  <1>6. CASE FinalPublish
    BY <1>6 DEF FinalPublish, PublishMetrics, CreateEntity, Return
  <1>7. ASSUME NEW how \in Failures, PublishFails(how) PROVE TypeInv'
    BY <1>7 DEF PublishFails, Return
  <1>8. CASE UNCHANGED vars
    BY <1>8 DEF vars
  <1> QED
    BY <1>1, <1>2, <1>3, <1>4, <1>5, <1>6, <1>7, <1>8 DEF Next

\* Every variable keeps its type: positions stay within the list and every
\* metric set names a call that was made and a position it can have.
THEOREM Typing == Spec => []TypeOK
  <1>1. TypeInv => TypeOK
    BY DEF TypeInv
  <1> QED BY <1>1, InitTypes, StepTypes, PTL DEF Spec

-----------------------------------------------------------------------------
(* The counter and the entity *)

AllValid == \A p \in DOMAIN metricList : metricList[p] # "invalid"

\* While a call runs its handle is the registered entity, and metricCount is
\* exactly what this call has added to it since the last publish.
CountInv ==
  /\ pc # "idle" => attached /\ Len(pending) = carried + metricCount
  /\ pc = "threshold" => metricCount = PublishThreshold
  /\ pc = "flush" => metricCount > 0
  /\ AllValid =>
       /\ pc = "loop" => metricCount < PublishThreshold
       /\ pc = "flush" => metricCount <= PublishThreshold

LEMMA InitCount == Init => CountInv
  BY DEF Init, CountInv

LEMMA StepCount == TypeInv /\ CountInv /\ [Next]_vars => CountInv'
  <1> SUFFICES ASSUME TypeInv, CountInv, [Next]_vars PROVE CountInv'
    OBVIOUS
  <1> USE IngestAssumption DEF TypeInv, TypeOK, CountInv
  <1>1. CASE Begin
    <2>1. pending \in Seq(Item) /\ Len(pending) \in Nat
      OBVIOUS
    <2> QED BY <1>1, <2>1 DEF Begin, CreateEntity
  <1>2. CASE SkipNil
    BY <1>2 DEF SkipNil, AllValid
  <1>3. CASE AddModel
    <2>1. attached /\ Len(pending) = carried + metricCount
      BY <1>3 DEF AddModel
    <2>2. Len(pending') = Len(pending) + 1
      <3>1. pending' = Append(pending, <<call, pos>>)
        BY <1>3, <2>1 DEF AddModel, NewMetricSet
      <3>2. <<call, pos>> \in Item
        BY <1>3 DEF AddModel, Item
      <3> QED BY <3>1, <3>2, AppendProperties
    <2>3. AllValid => metricList[pos] = "struct"
      <3>1. pos \in DOMAIN metricList /\ metricList[pos] \in Kind
        BY <1>3 DEF AddModel
      <3> QED BY <1>3, <3>1 DEF AddModel, AllValid, Kind
    <2>4. AllValid' = AllValid
      BY <1>3 DEF AddModel, AllValid
    <2>5. AllValid /\ pc' = "loop" => metricCount' < PublishThreshold
      BY <1>3, <2>3 DEF AddModel, ReachesThreshold
    <2> QED
      BY <1>3, <2>1, <2>2, <2>4, <2>5 DEF AddModel, ReachesThreshold
  <1>4. CASE EndOfList
    BY <1>4 DEF EndOfList, Return, AllValid
  <1>5. CASE ThresholdPublish
    BY <1>5 DEF ThresholdPublish, PublishMetrics, CreateEntity, AllValid
  <1>6. CASE FinalPublish
    BY <1>6 DEF FinalPublish, Return
  <1>7. ASSUME NEW how \in Failures, PublishFails(how) PROVE CountInv'
    BY <1>7 DEF PublishFails, Return
  <1>8. CASE UNCHANGED vars
    BY <1>8 DEF vars, AllValid
  <1> QED
    BY <1>1, <1>2, <1>3, <1>4, <1>5, <1>6, <1>7, <1>8 DEF Next

\* No publish is empty and, with the models the callers pass, none exceeds
\* PublishThreshold by more than an earlier failed publish had left behind.
THEOREM BatchSize == Spec => []BatchWithinThreshold
  <1>1. TypeInv /\ CountInv => BatchWithinThreshold
    <2> SUFFICES ASSUME TypeInv, CountInv, pc \in {"threshold", "flush"}
                 PROVE  /\ pending # <<>>
                        /\ AllValid => Len(pending) <= carried + PublishThreshold
      BY DEF BatchWithinThreshold, AllValid
    <2>1. Len(pending) = carried + metricCount /\ metricCount > 0
      BY IngestAssumption DEF CountInv, TypeInv, TypeOK
    <2>2. pending # <<>>
      <3>1. Len(pending) > 0
        BY <2>1 DEF TypeInv, TypeOK
      <3> QED BY <3>1
    <2> QED BY <2>1, <2>2, IngestAssumption DEF CountInv, TypeInv, TypeOK
  <1> QED
    BY <1>1, InitTypes, InitCount, StepTypes, StepCount, PTL DEF Spec

-----------------------------------------------------------------------------
(* Where the sets of the current call are *)

InPublished(p) == \E k \in DOMAIN published : published[k] = <<call, p>>

InPending(p) == \E k \in carried + 1 .. Len(pending) : pending[k] = <<call, p>>

\* Every model met so far is written out or among the metricCount newest
\* sets of the entity; the last publish comes after the end of the list.
PlaceInv ==
  /\ pc # "idle" => \A p \in 1 .. pos - 1 :
                       metricList[p] # "nil" => InPublished(p) \/ InPending(p)
  /\ pc = "flush" => pos > Len(metricList)
  /\ NilMeansPublished

LEMMA InitPlace == Init => PlaceInv
  BY DEF Init, PlaceInv, NilMeansPublished

\* Publishing keeps what was published and adds all that was pending.
LEMMA PublishMoves ==
  ASSUME TypeInv, PublishMetrics, call' = call, NEW p,
         InPublished(p) \/ InPending(p)
  PROVE  InPublished(p)'
  <1> USE DEF TypeInv, TypeOK
  <1>1. CASE InPublished(p)
    <2>1. PICK k \in DOMAIN published : published[k] = <<call, p>>
      BY <1>1 DEF InPublished
    <2>2. k \in DOMAIN published' /\ published'[k] = published[k]
      BY <2>1 DEF PublishMetrics
    <2> QED BY <2>1, <2>2 DEF InPublished
  <1>2. CASE InPending(p)
    <2>1. PICK k \in carried + 1 .. Len(pending) : pending[k] = <<call, p>>
      BY <1>2 DEF InPending
    <2>2. k \in 1 .. Len(pending)
      BY <2>1
    <2>3. /\ Len(published) + k \in DOMAIN published'
          /\ published'[Len(published) + k] = pending[k]
      BY <2>2, ConcatProperties DEF PublishMetrics
    <2> QED BY <2>1, <2>3 DEF InPublished
  <1> QED BY <1>1, <1>2

LEMMA StepPlace ==
  TypeInv /\ CountInv /\ PlaceInv /\ [Next]_vars => PlaceInv'
  <1> SUFFICES ASSUME TypeInv, CountInv, PlaceInv, [Next]_vars
               PROVE  PlaceInv'
    OBVIOUS
  <1> USE DEF TypeInv, TypeOK
  <1>1. CASE Begin
    BY <1>1 DEF Begin, PlaceInv, NilMeansPublished
  <1>2. CASE SkipNil
    <2>1. ASSUME NEW p \in 1 .. pos' - 1, metricList'[p] # "nil"
          PROVE  InPublished(p)' \/ InPending(p)'
      <3>1. p \in 1 .. pos - 1 /\ metricList[p] # "nil"
        BY <1>2, <2>1 DEF SkipNil
      <3> QED BY <1>2, <3>1 DEF SkipNil, PlaceInv, InPublished, InPending
    <2> QED BY <1>2, <2>1 DEF SkipNil, PlaceInv, NilMeansPublished
  <1>3. CASE AddModel
    <2>1. attached /\ Len(pending) = carried + metricCount
      BY <1>3 DEF AddModel, CountInv
    <2>2. pending' = Append(pending, <<call, pos>>)
      BY <1>3, <2>1 DEF AddModel, NewMetricSet
    <2>3. /\ Len(pending') = Len(pending) + 1
          /\ pending'[Len(pending) + 1] = <<call, pos>>
          /\ \A k \in 1 .. Len(pending) : pending'[k] = pending[k]
      <3>1. <<call, pos>> \in Item
        BY <1>3, IngestAssumption DEF AddModel, Item
      <3> QED BY <2>2, <3>1, AppendProperties
    <2>4. ASSUME NEW p \in 1 .. pos' - 1, metricList'[p] # "nil"
          PROVE  InPublished(p)' \/ InPending(p)'
      <3>1. CASE p = pos
        <4>1. Len(pending) + 1 \in carried' + 1 .. Len(pending')
          BY <1>3, <2>1, <2>3 DEF AddModel
        <4> QED BY <1>3, <2>3, <3>1, <4>1 DEF AddModel, InPending
      <3>2. CASE p # pos
        <4>1. InPublished(p) \/ InPending(p)
          BY <1>3, <2>4, <3>2 DEF AddModel, PlaceInv
        <4>2. CASE InPublished(p)
          BY <1>3, <4>2 DEF AddModel, InPublished
        <4>3. CASE InPending(p)
          <5>1. PICK k \in carried + 1 .. Len(pending) :
                       pending[k] = <<call, p>>
            BY <4>3 DEF InPending
          <5>2. k \in carried' + 1 .. Len(pending') /\ pending'[k] = pending[k]
            BY <1>3, <2>3, <5>1 DEF AddModel
          <5> QED BY <1>3, <5>1, <5>2 DEF AddModel, InPending
        <4> QED BY <4>1, <4>2, <4>3
      <3> QED BY <3>1, <3>2
    <2> QED BY <1>3, <2>4 DEF AddModel, PlaceInv, NilMeansPublished
  <1>4. CASE EndOfList
    <2>1. \A p \in DOMAIN metricList :
            metricList[p] # "nil" => InPublished(p) \/ InPending(p)
      BY <1>4 DEF EndOfList, PlaceInv
    <2>2. CASE metricCount > 0
      BY <1>4, <2>1, <2>2
      DEF EndOfList, PlaceInv, NilMeansPublished, InPublished, InPending
    <2>3. CASE ~(metricCount > 0)
      <3>1. Len(pending) = carried
        BY <1>4, <2>3 DEF EndOfList, CountInv
      <3>2. \A p : ~InPending(p)
        BY <3>1 DEF InPending
      <3> QED
        BY <1>4, <2>1, <2>3, <3>2
        DEF EndOfList, Return, PlaceInv, NilMeansPublished, InPublished
    <2> QED BY <2>2, <2>3
  <1>5. CASE ThresholdPublish
    <2>1. PublishMetrics /\ call' = call /\ metricList' = metricList
          /\ pos' = pos /\ pc' = "loop" /\ pc = "threshold"
      BY <1>5 DEF ThresholdPublish
    <2>2. \A p \in 1 .. pos - 1 : metricList[p] # "nil" => InPublished(p)'
      BY <2>1, PublishMoves DEF PlaceInv
    <2> QED BY <2>1, <2>2 DEF PlaceInv, NilMeansPublished
  <1>6. CASE FinalPublish
    <2>1. PublishMetrics /\ call' = call /\ metricList' = metricList
          /\ pc' = "idle" /\ pc = "flush"
      BY <1>6 DEF FinalPublish, Return
    <2>2. \A p \in DOMAIN metricList :
            metricList[p] # "nil" => InPublished(p)'
      BY <2>1, PublishMoves DEF PlaceInv
    <2> QED BY <2>1, <2>2 DEF PlaceInv, NilMeansPublished, InPublished
  <1>7. ASSUME NEW how \in Failures, PublishFails(how) PROVE PlaceInv'
    BY <1>7 DEF PublishFails, Return, PlaceInv, NilMeansPublished
  <1>8. CASE UNCHANGED vars
    BY <1>8 DEF vars, PlaceInv, NilMeansPublished, InPublished, InPending
  <1> QED
    BY <1>1, <1>2, <1>3, <1>4, <1>5, <1>6, <1>7, <1>8 DEF Next

\* When IngestMetric returns nil every model of the list has been written:
\* recreating the entity after each publish leaves no set on a stale one.
THEOREM NothingLeftBehind == Spec => []NilMeansPublished
  <1>1. PlaceInv => NilMeansPublished
    BY DEF PlaceInv
  <1> QED
    BY <1>1, InitTypes, InitCount, InitPlace, StepTypes, StepCount, StepPlace,
       PTL DEF Spec

-----------------------------------------------------------------------------
(* Order *)

LEMMA BeforeIsStrict ==
  ASSUME NEW a \in Item, NEW b \in Item, NEW c \in Item
  PROVE  /\ ~Before(a, a)
         /\ Before(a, b) /\ Before(b, c) => Before(a, c)
  <1>1. \A x \in Item : x[1] \in Nat /\ x[2] \in Nat
    BY IngestAssumption DEF Item
  <1>2. /\ a[1] \in Nat /\ a[2] \in Nat /\ b[1] \in Nat /\ b[2] \in Nat
        /\ c[1] \in Nat /\ c[2] \in Nat
    BY <1>1
  <1> QED BY <1>2 DEF Before

LEMMA AppendIncreasing ==
  ASSUME NEW s \in Seq(Item), NEW x \in Item, Increasing(s),
         \A k \in DOMAIN s : Before(s[k], x)
  PROVE  Increasing(Append(s, x))
  <1>1. /\ Len(Append(s, x)) = Len(s) + 1 /\ Append(s, x) \in Seq(Item)
        /\ Append(s, x)[Len(s) + 1] = x
        /\ \A k \in 1 .. Len(s) : Append(s, x)[k] = s[k]
    BY AppendProperties
  <1> SUFFICES ASSUME NEW i \in DOMAIN Append(s, x),
                      NEW j \in DOMAIN Append(s, x), i < j
               PROVE  Before(Append(s, x)[i], Append(s, x)[j])
    BY DEF Increasing
  <1>2. i \in 1 .. Len(s) /\ j \in 1 .. Len(s) + 1
    BY <1>1
  <1>3. CASE j = Len(s) + 1
    BY <1>1, <1>2, <1>3
  <1>4. CASE j # Len(s) + 1
    BY <1>1, <1>2, <1>4 DEF Increasing
  <1> QED BY <1>3, <1>4

LEMMA AppendToConcat ==
  ASSUME NEW s \in Seq(Item), NEW t \in Seq(Item), NEW x \in Item
  PROVE  s \o Append(t, x) = Append(s \o t, x)
  <1>1. s \o t \in Seq(Item) /\ Append(t, x) \in Seq(Item)
    BY ConcatProperties, AppendProperties
  <1>2. /\ s \o Append(t, x) \in Seq(Item)
        /\ Append(s \o t, x) \in Seq(Item)
    BY <1>1, ConcatProperties, AppendProperties
  <1>3. /\ Len(s \o Append(t, x)) = Len(s) + Len(t) + 1
        /\ Len(Append(s \o t, x)) = Len(s) + Len(t) + 1
    BY <1>1, ConcatProperties, AppendProperties
  <1>4. ASSUME NEW i \in 1 .. Len(s) + Len(t) + 1
        PROVE  (s \o Append(t, x))[i] = Append(s \o t, x)[i]
    <2>1. CASE i <= Len(s)
      BY <1>1, <2>1, ConcatProperties, AppendProperties
    <2>2. CASE i > Len(s) /\ i <= Len(s) + Len(t)
      BY <1>1, <2>2, ConcatProperties, AppendProperties
    <2>3. CASE i = Len(s) + Len(t) + 1
      BY <1>1, <2>3, ConcatProperties, AppendProperties
    <2> QED BY <2>1, <2>2, <2>3
  <1> QED BY <1>2, <1>3, <1>4, SeqEqual

\* All sets in the order they were met; the next one comes after them.
All == published \o pending

OrderInv ==
  /\ Increasing(All)
  /\ \A k \in DOMAIN All :
       /\ All[k][1] <= call
       /\ pc # "idle" => Before(All[k], <<call, pos>>)

\* What a publish or a kept failure leaves is the same sequence of sets.
LEMMA AllKept ==
  ASSUME TypeInv, PublishMetrics
  PROVE  All' = All
  <1>1. published \o pending \in Seq(Item)
    BY ConcatProperties DEF TypeInv, TypeOK
  <1> QED BY <1>1, ConcatEmptySeq DEF PublishMetrics, All

LEMMA LossKeepsOrder ==
  ASSUME TypeInv, OrderInv
  PROVE  /\ Increasing(published)
         /\ \A k \in DOMAIN published : published[k] = All[k] /\ k \in DOMAIN All
  <1>1. \A k \in DOMAIN published : published[k] = All[k] /\ k \in DOMAIN All
    BY ConcatProperties DEF All, TypeInv, TypeOK
  <1> QED BY <1>1 DEF OrderInv, Increasing

LEMMA StepOrder ==
  TypeInv /\ CountInv /\ OrderInv /\ [Next]_vars => OrderInv'
  <1> SUFFICES ASSUME TypeInv, CountInv, OrderInv, [Next]_vars
               PROVE  OrderInv'
    OBVIOUS
  <1> USE DEF TypeInv, TypeOK
  <1>a. All \in Seq(Item)
    BY ConcatProperties DEF All
  <1>b. \A k \in DOMAIN All : /\ All[k] \in Item
                             /\ All[k][1] \in Nat /\ All[k][2] \in Nat
    BY <1>a, ElementOfSeq, IngestAssumption DEF Item
  <1>1. CASE Begin
    <2>1. All' = All /\ call' = call + 1
      BY <1>1 DEF Begin, All
    <2>2. \A k \in DOMAIN All : All[k][1] < call' 
      BY <2>1, <1>b DEF OrderInv
    <2> QED BY <2>1, <2>2, <1>b DEF OrderInv, Before
  <1>2. CASE SkipNil
    <2>1. All' = All /\ call' = call /\ pos' = pos + 1 /\ pc' = pc
      BY <1>2 DEF SkipNil, All
    <2> QED BY <2>1, <1>b DEF OrderInv, Before
  <1>3. CASE AddModel
    <2>1. pending' = Append(pending, <<call, pos>>) /\ pc # "idle"
      BY <1>3 DEF AddModel, NewMetricSet, CountInv
    <2>2. <<call, pos>> \in Item
      BY <1>3, IngestAssumption DEF AddModel, Item
    <2>3. All' = Append(All, <<call, pos>>)
      <3>1. All' = published \o Append(pending, <<call, pos>>)
        BY <1>3, <2>1 DEF AddModel, All
      <3>2. published \o Append(pending, <<call, pos>>)
              = Append(published \o pending, <<call, pos>>)
        BY <2>2, AppendToConcat
      <3> QED BY <3>1, <3>2 DEF All
    <2>4. \A k \in DOMAIN All : Before(All[k], <<call, pos>>)
      BY <2>1 DEF OrderInv
    <2>5. Increasing(All')
      BY <1>a, <2>2, <2>3, <2>4, AppendIncreasing DEF OrderInv
    <2>6. ASSUME NEW k \in DOMAIN All'
          PROVE  All'[k][1] <= call /\ Before(All'[k], <<call, pos + 1>>)
      <3>1. /\ DOMAIN All' = 1 .. Len(All) + 1 /\ All'[Len(All) + 1] = <<call, pos>>
            /\ \A n \in 1 .. Len(All) : All'[n] = All[n]
        BY <2>2, <2>3, <1>a, AppendProperties
      <3>2. CASE k = Len(All) + 1
        BY <3>1, <3>2 DEF Before
      <3>3. CASE k # Len(All) + 1
        <4>1. DOMAIN All = 1 .. Len(All) /\ Len(All) \in Nat
          BY <1>a, LenProperties
        <4>2. k \in 1 .. Len(All) + 1
          BY <2>6, <3>1
        <4>3. k \in 1 .. Len(All)
          BY <3>3, <4>1, <4>2
        <4>4. k \in DOMAIN All /\ All'[k] = All[k]
          BY <3>1, <4>1, <4>3
        <4> QED BY <4>4, <2>4, <1>b DEF Before, OrderInv
      <3> QED BY <3>2, <3>3
    <2>7. call' = call /\ pos' = pos + 1
      BY <1>3 DEF AddModel
    <2> QED BY <2>5, <2>6, <2>7 DEF OrderInv
  <1>4. CASE EndOfList
    BY <1>4 DEF EndOfList, Return, OrderInv, All
  <1>5. CASE ThresholdPublish
    <2>1. All' = All
      BY <1>5, AllKept DEF ThresholdPublish
    <2> QED BY <1>5, <2>1 DEF ThresholdPublish, OrderInv
  <1>6. CASE FinalPublish
    <2>1. All' = All
      BY <1>6, AllKept DEF FinalPublish
    <2> QED BY <1>6, <2>1 DEF FinalPublish, Return, OrderInv
  <1>7. ASSUME NEW how \in Failures, PublishFails(how) PROVE OrderInv'
    <2>1. CASE how = "kept"
      <3>1. All' = All
        BY <1>7, <2>1 DEF PublishFails, All
      <3> QED BY <1>7, <3>1 DEF PublishFails, Return, OrderInv
    <2>2. CASE how # "kept"
      <3>1. All' = published /\ call' = call /\ pc' = "idle"
        BY <1>7, <2>2, ConcatEmptySeq DEF PublishFails, Return, All
      <3> QED BY <3>1, LossKeepsOrder DEF OrderInv
    <2> QED BY <2>1, <2>2
  <1>8. CASE UNCHANGED vars
    BY <1>8 DEF vars, OrderInv, All
  <1> QED
    BY <1>1, <1>2, <1>3, <1>4, <1>5, <1>6, <1>7, <1>8 DEF Next

LEMMA InitOrder == Init => OrderInv
  <1> SUFFICES ASSUME Init PROVE OrderInv
    OBVIOUS
  <1>1. All = <<>> 
    BY DEF Init, All
  <1>2. DOMAIN All = {}
    BY <1>1
  <1> QED BY <1>2 DEF OrderInv, Increasing

\* Across calls, batches and failed publishes no metric set is written twice
\* and none overtakes another.
THEOREM Ordered == Spec => []InOrderAtMostOnce
  <1>1. OrderInv => InOrderAtMostOnce
    BY DEF OrderInv, InOrderAtMostOnce, All
  <1> QED
    BY <1>1, InitTypes, InitCount, InitOrder, StepTypes, StepCount, StepOrder,
       PTL DEF Spec

-----------------------------------------------------------------------------
(* The ingester implements BatchDelivery *)

LEMMA StepDelivers ==
  TypeInv /\ CountInv /\ OrderInv /\ [Next]_vars
    => [Delivery!Next]_(Delivery!bdVars)
  <1> SUFFICES ASSUME TypeInv, CountInv, OrderInv, [Next]_vars
               PROVE  Delivery!Next \/ UNCHANGED Delivery!bdVars
    OBVIOUS
  <1> USE DEF TypeInv, TypeOK
  <1>1. CASE AddModel
    <2>1. pending' = Append(pending, <<call, pos>>) /\ pc # "idle"
      BY <1>1 DEF AddModel, NewMetricSet, CountInv
    <2>2. <<call, pos>> \in Item
      BY <1>1, IngestAssumption DEF AddModel, Item
    <2>3. \A k \in DOMAIN All : All[k] # <<call, pos>>
      <3>1. \A k \in DOMAIN All : Before(All[k], <<call, pos>>)
        BY <2>1 DEF OrderInv
      <3> QED BY <3>1, <2>2, BeforeIsStrict
    <2>4. \A k \in DOMAIN published : published[k] # <<call, pos>>
      BY <2>3, LossKeepsOrder
    <2>5. \A k \in DOMAIN pending : pending[k] # <<call, pos>>
      <3>1. ASSUME NEW k \in DOMAIN pending PROVE pending[k] # <<call, pos>>
        <4>1. /\ Len(published) + k \in DOMAIN All
              /\ All[Len(published) + k] = pending[k]
          BY ConcatProperties DEF All
        <4> QED BY <4>1, <2>3
      <3> QED BY <3>1
    <2>6. Delivery!Fresh(<<call, pos>>)
      BY <2>4, <2>5 DEF Delivery!Fresh
    <2>7. Delivery!Accept(<<call, pos>>)
      BY <1>1, <2>1, <2>6 DEF AddModel, Delivery!Accept
    <2> QED BY <2>2, <2>7 DEF Delivery!Next
  <1>2. CASE ThresholdPublish \/ FinalPublish
    <2>1. pending # <<>>
      <3>1. Len(pending) = carried + metricCount /\ metricCount > 0
        BY <1>2, IngestAssumption DEF ThresholdPublish, FinalPublish, CountInv
      <3>2. Len(pending) > 0
        BY <3>1
      <3> QED BY <3>2
    <2>2. Delivery!Deliver
      BY <1>2, <2>1
      DEF ThresholdPublish, FinalPublish, PublishMetrics, Delivery!Deliver
    <2> QED BY <2>2 DEF Delivery!Next
  <1>3. ASSUME NEW how \in Failures, PublishFails(how)
        PROVE  Delivery!Next \/ UNCHANGED Delivery!bdVars
    <2>1. CASE pending' = pending
      BY <1>3, <2>1 DEF PublishFails, Delivery!bdVars
    <2>2. CASE pending' # pending
      <3>1. Delivery!Discard
        BY <1>3, <2>2 DEF PublishFails, Delivery!Discard
      <3> QED BY <3>1 DEF Delivery!Next
    <2> QED BY <2>1, <2>2
  <1>4. CASE Begin \/ SkipNil \/ EndOfList \/ UNCHANGED vars
    BY <1>4 DEF Begin, SkipNil, EndOfList, vars, Delivery!bdVars
  <1> QED BY <1>1, <1>2, <1>3, <1>4 DEF Next

\* Every behaviour of IngestMetric is one the delivery contract allows: the
\* backlog leaves whole, in order, once, and is only lost to a failed write.
THEOREM Implementation == Spec => ImplementsDelivery
  <1>1. Init => Delivery!Init
    BY DEF Init, Delivery!Init
  <1> QED
    BY <1>1, InitTypes, InitCount, InitOrder, StepTypes, StepCount, StepOrder,
       StepDelivers, PTL DEF Spec, ImplementsDelivery, Delivery!Spec
=============================================================================
