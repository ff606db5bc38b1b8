------------------------ MODULE ExecutionPlansProofs ------------------------
(***************************************************************************)
(* Proofs about the execution plans, for any number of queries, databases, *)
(* connections and plans.                                                  *)
(***************************************************************************)
EXTENDS ExecutionPlans, SequenceTheorems, FiniteSetTheorems,
        WellFoundedInduction, TLAPS

-----------------------------------------------------------------------------
(* Induction over the queries *)

\* The library's induction takes an operator; over a set of numbers it is a
\* consequence of the order on Nat being well founded.
LEMMA LeastElement ==
  ASSUME NEW T \in SUBSET Nat, T # {}
  PROVE  \E x \in T : \A y \in T : x <= y
  <1> DEFINE R == {ss \in Nat \X Nat : ss[1] < ss[2]}
  <1>1. IsWellFoundedOn(R, Nat)
    BY NatLessThanWellFounded DEF OpToRel
  <1>2. \E x \in T : \A y \in T : ~(<<y, x>> \in R)
    <2> HIDE DEF R
    <2> QED BY <1>1, WFMin
  <1>3. ASSUME NEW x \in T, NEW y \in T, ~(<<y, x>> \in R) PROVE x <= y
    BY <1>3
  <1> QED BY <1>2, <1>3

LEMMA SetInduction ==
  ASSUME NEW T, 0 \in T, \A n \in Nat : n \in T => n + 1 \in T
  PROVE  Nat \subseteq T
  <1> SUFFICES ASSUME Nat \ T # {} PROVE FALSE
    OBVIOUS
  <1>1. PICK x \in Nat \ T : \A y \in Nat \ T : x <= y
    BY LeastElement
  <1>2. x - 1 \in Nat /\ x - 1 \in T
    BY <1>1
  <1> QED BY <1>1, <1>2


\* The recursive function Groups exists: its values can be written down query
\* by query.
LEMMA GroupsDef ==
  Groups = [k \in 0 .. NumQueries |->
              IF k = 0 THEN [d \in Db |-> <<>>] ELSE AddToGroup(Groups[k - 1], k)]
  <1> DEFINE IsUpTo(f, n) == f = [k \in 0 .. n |->
                                    IF k = 0 THEN [d \in Db |-> <<>>]
                                    ELSE AddToGroup(f[k - 1], k)]
             T == {n \in Nat : \E f : IsUpTo(f, n)}
  <1>1. 0 \in T
    <2>1. IsUpTo([k \in 0 .. 0 |-> [d \in Db |-> <<>>]], 0)
      OBVIOUS
    <2> QED BY <2>1
  <1>2. ASSUME NEW n \in Nat, n \in T PROVE n + 1 \in T
    <2>1. PICK f : IsUpTo(f, n)
      BY <1>2
    <2> DEFINE g == [k \in 0 .. n + 1 |->
                       IF k = n + 1 THEN AddToGroup(f[n], n + 1) ELSE f[k]]
    <2>2. /\ g[n + 1] = AddToGroup(g[n], n + 1)
          /\ \A k \in 0 .. n : g[k] = f[k]
      OBVIOUS
    <2>3. ASSUME NEW k \in 0 .. n + 1
          PROVE  g[k] = IF k = 0 THEN [d \in Db |-> <<>>]
                        ELSE AddToGroup(g[k - 1], k)
      <3>1. CASE k = n + 1
        BY <2>2, <3>1
      <3>2. CASE k = 0
        BY <2>1, <2>2, <3>2
      <3>3. CASE k # n + 1 /\ k # 0
        <4>1. k \in 0 .. n /\ k - 1 \in 0 .. n
          BY <3>3
        <4>2. f[k] = AddToGroup(f[k - 1], k)
          BY <2>1, <3>3, <4>1
        <4> QED BY <2>2, <3>3, <4>1, <4>2
      <3> QED BY <3>1, <3>2, <3>3
    <2>4. IsUpTo(g, n + 1)
      <3>1. g = [k \in 0 .. n + 1 |-> g[k]]
        OBVIOUS
      <3> HIDE DEF g
      <3> QED BY <2>3, <3>1
    <2>5. \E h : IsUpTo(h, n + 1)
      <3> HIDE DEF g, IsUpTo
      <3> QED BY <2>4
    <2> HIDE DEF g, IsUpTo
    <2> QED BY <2>5
  <1>3. Nat \subseteq T
    <2> HIDE DEF T
    <2> QED BY <1>1, <1>2, SetInduction
  <1>4. \E f : IsUpTo(f, NumQueries)
    BY <1>3, PlanAssumption
  <1> QED BY <1>4, Zenon DEF Groups

-----------------------------------------------------------------------------
(* The groups *)

\* The queries of database d among the first n.
UpTo(d, n) == {q \in 1 .. n : dbOf[q] = d}

\* They are in the group in their order.
IsGroup(group, d, n) ==
  /\ Len(group) = Cardinality(UpTo(d, n))
  /\ \A i \in 1 .. Len(group) : group[i] \in UpTo(d, n)
  /\ \A q \in UpTo(d, n) : \E i \in 1 .. Len(group) : group[i] = q
  /\ \A i, j \in 1 .. Len(group) : i < j => group[i] < group[j]

GroupsMatch(groups, n) ==
  /\ groups \in [Db -> Seq(Query)]
  /\ \A d \in Db : IsGroup(groups[d], d, n)

LEMMA UpToFinite ==
  ASSUME NEW d, NEW n \in Nat
  PROVE  IsFiniteSet(UpTo(d, n)) /\ Cardinality(UpTo(d, n)) \in Nat
  <1>1. IsFiniteSet(1 .. n)
    BY FS_Interval
  <1>2. UpTo(d, n) \in SUBSET (1 .. n)
    BY DEF UpTo
  <1> QED BY <1>1, <1>2, FS_Subset, FS_CardinalityType

LEMMA GroupsGrow ==
  ASSUME NEW groups, NEW n \in Nat, n + 1 <= NumQueries,
         dbOf \in [Query -> Db \cup {NoDb}], GroupsMatch(groups, n)
  PROVE  GroupsMatch(AddToGroup(groups, n + 1), n + 1)
  <1> DEFINE q == n + 1
  <1>1. q \in Query /\ q \notin 1 .. n /\ 1 .. q = (1 .. n) \cup {q}
    BY PlanAssumption DEF Query
  <1>2. dbOf[q] \in Db \cup {NoDb}
    BY <1>1
  <1>3. ASSUME NEW d, d # dbOf[q] PROVE UpTo(d, q) = UpTo(d, n)
    BY <1>1, <1>3 DEF UpTo
  <1>4. CASE dbOf[q] = NoDb
    <2>1. AddToGroup(groups, q) = groups
      BY <1>4 DEF AddToGroup
    <2>2. \A d \in Db : UpTo(d, q) = UpTo(d, n)
      BY <1>3, <1>4, PlanAssumption
    <2>3. ASSUME NEW d \in Db PROVE IsGroup(groups[d], d, q)
      BY <2>2 DEF GroupsMatch, IsGroup
    <2> HIDE DEF q
    <2> QED BY <2>1, <2>3 DEF GroupsMatch, q
  <1>5. CASE dbOf[q] \in Db
    <2> DEFINE d == dbOf[q]
               old == groups[d]
               new == [groups EXCEPT ![d] = Append(old, q)]
    <2>1. AddToGroup(groups, q) = new
      BY <1>5, PlanAssumption DEF AddToGroup
    <2>2. /\ old \in Seq(Query) /\ Len(old) \in Nat
          /\ IsGroup(old, d, n)
      BY <1>5, LenProperties DEF GroupsMatch
    <2>3. UpTo(d, q) = UpTo(d, n) \cup {q} /\ q \notin UpTo(d, n)
      BY <1>1 DEF UpTo
    <2>4. Cardinality(UpTo(d, q)) = Cardinality(UpTo(d, n)) + 1
      BY <2>3, UpToFinite, FS_AddElement
    <2> HIDE DEF q
    <2>5. /\ Append(old, q) \in Seq(Query) /\ Len(Append(old, q)) = Len(old) + 1
          /\ \A i \in 1 .. Len(old) : Append(old, q)[i] = old[i]
          /\ Append(old, q)[Len(old) + 1] = q
      BY <1>1, <2>2, AppendProperties
    <2> HIDE DEF old
    <2>9. IsGroup(Append(old, q), d, q)
      <3> DEFINE next == Append(old, q)
      <3>1. /\ Len(next) = Len(old) + 1 /\ next[Len(old) + 1] = q
            /\ \A i \in 1 .. Len(old) : next[i] = old[i] /\ old[i] \in UpTo(d, n)
            /\ \A p \in UpTo(d, n) : \E i \in 1 .. Len(old) : old[i] = p
            /\ \A i, j \in 1 .. Len(old) : i < j => old[i] < old[j]
            /\ Len(next) = Cardinality(UpTo(d, q))
        BY <2>2, <2>4, <2>5 DEF IsGroup
      <3>2. UpTo(d, q) = UpTo(d, n) \cup {q} /\ \A p \in UpTo(d, n) : p < q
        BY <2>3 DEF UpTo, q
      <3>3. Len(old) \in Nat
        BY <2>2
      <3> HIDE DEF next, d
      <3>4. \A i \in 1 .. Len(next) : i \in 1 .. Len(old) \/ i = Len(old) + 1
        BY <3>1, <3>3
      <3>5. \A i \in 1 .. Len(next) : next[i] \in UpTo(d, q)
        BY <3>1, <3>2, <3>4
      <3>6. \A p \in UpTo(d, q) : \E i \in 1 .. Len(next) : next[i] = p
        BY <3>1, <3>2, <3>3
      <3>7. ASSUME NEW i \in 1 .. Len(next), NEW j \in 1 .. Len(next), i < j
            PROVE  next[i] < next[j]
        <4>1. i \in 1 .. Len(old)
          BY <3>1, <3>3, <3>7
        <4> QED BY <3>1, <3>2, <3>4, <3>7, <4>1
      <3> QED BY <3>1, <3>5, <3>6, <3>7 DEF IsGroup, next
    <2> HIDE DEF d
    <2>6. d \in Db
      BY <1>5 DEF d
    <2>7. new \in [Db -> Seq(Query)] /\ new[d] = Append(old, q)
      BY <2>5, <2>6 DEF GroupsMatch
    <2>8. ASSUME NEW c \in Db
          PROVE  IsGroup(new[c], c, q)
      <3>1. CASE c = d
        BY <2>7, <2>9, <3>1
      <3>2. CASE c # d
        <4>1. new[c] = groups[c]
          BY <3>2 DEF GroupsMatch
        <4>2. UpTo(c, q) = UpTo(c, n)
          BY <1>3, <3>2 DEF d
        <4>3. IsGroup(groups[c], c, n)
          BY DEF GroupsMatch
        <4>4. \A p \in UpTo(c, q) : p \in UpTo(c, n)
          BY <4>2
        <4> QED BY <4>1, <4>2, <4>3 DEF IsGroup
      <3> QED BY <3>1, <3>2
    <2> HIDE DEF new
    <2> QED BY <2>1, <2>7, <2>8 DEF GroupsMatch, q
  <1> QED BY <1>2, <1>4, <1>5

\* A group is as long as its database has queries, all of that database.
LEMMA GroupSound ==
  ASSUME dbOf \in [Query -> Db \cup {NoDb}]
  PROVE  GroupsMatch(groupQueriesByDatabase, NumQueries)
  <1> DEFINE T == {n \in Nat : n <= NumQueries => GroupsMatch(Groups[n], n)}
  <1>1. 0 \in T
    <2>1. Groups[0] = [d \in Db |-> <<>>]
      BY GroupsDef, PlanAssumption
    <2>2. \A d : UpTo(d, 0) = {}
      BY DEF UpTo
    <2>3. <<>> \in Seq(Query) /\ Len(<<>>) = 0 /\ Cardinality({}) = 0
      BY EmptySeq, FS_EmptySet
    <2>4. GroupsMatch(Groups[0], 0)
      <3>1. Groups[0] \in [Db -> Seq(Query)]
        BY <2>1, <2>3
      <3>2. \A d \in Db : Groups[0][d] = <<>>
        BY <2>1
      <3>3. ASSUME NEW d \in Db
            PROVE  IsGroup(Groups[0][d], d, 0)
        <4>1. Len(Groups[0][d]) = 0 /\ 1 .. 0 = {}
          BY <2>3, <3>2
        <4> QED BY <2>2, <2>3, <4>1 DEF IsGroup
      <3> QED BY <3>1, <3>3 DEF GroupsMatch
    <2> QED BY <2>4
  <1>2. ASSUME NEW n \in Nat, n \in T PROVE n + 1 \in T
    <2> SUFFICES ASSUME n + 1 <= NumQueries PROVE GroupsMatch(Groups[n + 1], n + 1)
      OBVIOUS
    <2>1. GroupsMatch(Groups[n], n)
      BY <1>2, PlanAssumption
    <2>2. Groups[n + 1] = AddToGroup(Groups[n], n + 1)
      <3>1. n + 1 \in 0 .. NumQueries /\ n + 1 # 0 /\ (n + 1) - 1 = n
        BY PlanAssumption
      <3> QED BY <3>1, GroupsDef
    <2> QED BY <2>1, <2>2, GroupsGrow
  <1>3. Nat \subseteq T
    <2> HIDE DEF T
    <2> QED BY <1>1, <1>2, SetInduction
  <1> QED BY <1>3, PlanAssumption DEF groupQueriesByDatabase

-----------------------------------------------------------------------------
(* The loops over the groups and their queries *)

\* The queries of a database.
QueriesOf(d) == {q \in Query : dbOf[q] = d}

\* What is left of the group of d, with the connections of the pool, is no
\* more than the group: each query took one connection at most.
InGroup(d) ==
  /\ \A i \in 1 .. Len(rest) : dbOf[rest[i]] = d
  /\ held + idle + Len(rest) <= Cardinality(QueriesOf(d))

PoolInv ==
  /\ dbOf \in [Query -> Db \cup {NoDb}]
  /\ pc \in {"range", "done"} => held = 0 /\ idle = 0 /\ rest = <<>>
  /\ pc \in {"explain", "walk"} => \E d \in Db : InGroup(d)
  /\ held + idle <= Slots

IInv == TypeOK /\ PoolInv /\ StarvedOnlyInLargeGroups

LEMMA SizeOfGroup ==
  ASSUME NEW d
  PROVE  Cardinality(QueriesOf(d)) \in Nat /\ QueriesOf(d) = UpTo(d, NumQueries)
  <1>1. QueriesOf(d) = UpTo(d, NumQueries)
    BY DEF QueriesOf, UpTo, Query
  <1> QED BY <1>1, UpToFinite, PlanAssumption

LEMMA InitPool == Init => IInv
  <1> SUFFICES ASSUME Init PROVE IInv
    OBVIOUS
  <1> USE PlanAssumption DEF Init
  <1>1. todo \subseteq Db
    BY DEF Query
  <1>2. rest \in Seq(Query)
    BY EmptySeq
  <1>3. TypeOK
    BY <1>1, <1>2 DEF TypeOK
  <1> QED BY <1>3 DEF IInv, PoolInv, StarvedOnlyInLargeGroups

\* What the head of the queries left says.
LEMMA HeadOfRest ==
  ASSUME IInv, Explaining
  PROVE  /\ pc = "explain" /\ Head(rest) \in Query
         /\ Tail(rest) \in Seq(Query) /\ Len(Tail(rest)) = Len(rest) - 1
         /\ Len(rest) \in Nat /\ Len(rest) >= 1
         /\ held \in Nat /\ idle \in Nat /\ Slots \in Nat /\ MaxIdle \in Nat
         /\ InGroup(dbOf[Head(rest)]) /\ dbOf[Head(rest)] \in Db
         /\ \A i \in 1 .. Len(rest) - 1 : dbOf[Tail(rest)[i]] = dbOf[Head(rest)]
  <1>1. rest \in Seq(Query) /\ rest # <<>> /\ pc = "explain"
    BY DEF IInv, TypeOK, Explaining
  <1>2. Len(rest) \in Nat /\ Len(rest) >= 1
    BY <1>1, EmptySeq, LenProperties
  <1>3. /\ Head(rest) \in Query /\ Head(rest) = rest[1]
        /\ Tail(rest) \in Seq(Query) /\ Len(Tail(rest)) = Len(rest) - 1
        /\ \A i \in 1 .. Len(rest) - 1 : Tail(rest)[i] = rest[i + 1]
    BY <1>1, <1>2, HeadTailProperties
  <1>4. PICK d \in Db : InGroup(d)
    BY <1>1 DEF IInv, PoolInv
  <1>5. dbOf[Head(rest)] = d
    BY <1>2, <1>3, <1>4 DEF InGroup
  <1>6. \A i \in 1 .. Len(rest) - 1 : dbOf[Tail(rest)[i]] = d
    BY <1>2, <1>3, <1>4 DEF InGroup
  <1>7. held \in Nat /\ idle \in Nat /\ Slots \in Nat /\ MaxIdle \in Nat
    BY PlanAssumption DEF IInv, TypeOK
  <1> QED BY <1>1, <1>2, <1>3, <1>4, <1>5, <1>6, <1>7

\* The pool after a query: at most one connection more, as the server allows.
TakesOne ==
  \E h \in Nat, i \in 0 .. MaxIdle :
    /\ held' = h /\ idle' = i
    /\ h + i <= held + idle + 1 /\ h + i <= Slots

\* One query of the group is done with, and took one connection at most.
LEMMA OneQueryLess ==
  ASSUME IInv, Explaining, Skip, UNCHANGED <<argVars, todo>>,
         pc' \in {"explain", "walk"}, TakesOne,
         cur' \in Complete \cup {0}, level' \in Nat,
         failed' \subseteq Query, starved' \subseteq Query,
         StarvedOnlyInLargeGroups'
  PROVE  IInv'
  <1> DEFINE d == dbOf[Head(rest)]
  <1>0. PICK h \in Nat, i \in 0 .. MaxIdle :
          /\ held' = h /\ idle' = i
          /\ h + i <= held + idle + 1 /\ h + i <= Slots
    BY DEF TakesOne
  <1>1. /\ Tail(rest) \in Seq(Query) /\ Len(Tail(rest)) = Len(rest) - 1
        /\ Len(rest) \in Nat /\ Len(rest) >= 1
        /\ held \in Nat /\ idle \in Nat /\ Slots \in Nat /\ MaxIdle \in Nat
        /\ InGroup(d) /\ d \in Db
        /\ \A k \in 1 .. Len(rest) - 1 : dbOf[Tail(rest)[k]] = d
    BY HeadOfRest
  <1>2. TypeOK'
    <2>1. rest' \in Seq(Query)
      BY <1>1 DEF Skip
    <2>2. h \in 0 .. Slots
      BY <1>0, <1>1
    <2>3. todo' \subseteq Db
      BY DEF IInv, TypeOK
    <2>4. Complete' = Complete
      BY DEF Complete, argVars
    <2> QED BY <1>0, <2>1, <2>2, <2>3, <2>4 DEF TypeOK
  <1>3. PoolInv'
    <2>1. rest' = Tail(rest) /\ dbOf' = dbOf
      BY DEF Skip, argVars
    <2>2. Cardinality(QueriesOf(d)) \in Nat
      BY SizeOfGroup
    <2> HIDE DEF d
    <2>3. h + i + Len(rest') <= Cardinality(QueriesOf(d))
      <3>1. held + idle + Len(rest) <= Cardinality(QueriesOf(d))
        BY <1>1 DEF InGroup
      <3>2. Len(rest') = Len(rest) - 1
        BY <1>1, <2>1
      <3> QED BY <1>0, <1>1, <2>2, <3>1, <3>2
    <2>4. \A k \in 1 .. Len(rest') : dbOf'[rest'[k]] = d
      BY <1>1, <2>1
    <2>5. \E c \in Db : InGroup(c)'
      <3>1. \A c : c = d => InGroup(c)'
        BY <1>0, <2>1, <2>3, <2>4 DEF InGroup, QueriesOf
      <3> QED BY <1>1, <3>1
    <2>6. dbOf' \in [Query -> Db \cup {NoDb}]
      BY <2>1 DEF IInv, PoolInv
    <2> QED BY <1>0, <2>5, <2>6 DEF PoolInv
  <1> QED BY <1>2, <1>3 DEF IInv

LEMMA StepPool == IInv /\ [Next]_vars => IInv'
  <1> SUFFICES ASSUME IInv, [Next]_vars PROVE IInv'
    OBVIOUS
  <1>0. /\ TypeOK /\ PoolInv /\ StarvedOnlyInLargeGroups
        /\ held \in Nat /\ idle \in Nat /\ Slots \in Nat /\ MaxIdle \in Nat
        /\ dbOf \in [Query -> Db \cup {NoDb}]
    BY PlanAssumption DEF IInv, TypeOK, PoolInv
  <1>s. ASSUME dbOf' = dbOf, starved' = starved PROVE StarvedOnlyInLargeGroups'
    BY <1>0, <1>s DEF StarvedOnlyInLargeGroups
  <1>c. ASSUME dbOf' = dbOf, hasText' = hasText PROVE Complete' = Complete
    BY <1>c DEF Complete
  <1>1. CASE OpenGroup
    <2>1. PICK d \in todo : todo' = todo \ {d} /\ rest' = groupQueriesByDatabase[d]
      BY <1>1 DEF OpenGroup
    <2>2. /\ pc = "range" /\ pc' = "explain"
          /\ UNCHANGED <<dbOf, hasText, held, idle, cur, level, failed, starved>>
      BY <1>1 DEF OpenGroup, argVars, poolVars, walkVars
    <2>3. d \in Db /\ held = 0 /\ idle = 0
      BY <1>0, <2>2 DEF TypeOK, PoolInv
    <2>4. GroupsMatch(groupQueriesByDatabase, NumQueries)
      BY <1>0, GroupSound
    <2>5. /\ rest' \in Seq(Query) /\ Len(rest') = Cardinality(QueriesOf(d))
          /\ \A i \in 1 .. Len(rest') : dbOf[rest'[i]] = d
      <3>1. rest' \in Seq(Query) /\ IsGroup(rest', d, NumQueries)
        BY <2>1, <2>3, <2>4 DEF GroupsMatch
      <3>2. QueriesOf(d) = UpTo(d, NumQueries)
        BY SizeOfGroup
      <3> QED BY <3>1, <3>2 DEF IsGroup, UpTo
    <2>6. TypeOK'
      BY <1>0, <1>c, <2>1, <2>2, <2>5 DEF TypeOK
    <2>7. InGroup(d)'
      <3>1. Cardinality(QueriesOf(d)) \in Nat
        BY SizeOfGroup
      <3> QED BY <2>2, <2>3, <2>5, <3>1 DEF InGroup, QueriesOf
    <2>8. PoolInv'
      BY <1>0, <2>2, <2>3, <2>7 DEF PoolInv
    <2> QED BY <1>s, <2>2, <2>6, <2>8 DEF IInv
  <1>2. CASE GroupFails
    <2>1. /\ todo' \subseteq todo /\ failed' \subseteq Query
          /\ UNCHANGED <<dbOf, hasText, pc, rest, held, idle, cur, level, starved>>
      BY <1>0, <1>2 DEF GroupFails, TypeOK, argVars, poolVars, walkVars
    <2>2. TypeOK'
      BY <1>0, <1>c, <2>1 DEF TypeOK
    <2>3. PoolInv'
      BY <1>0, <2>1 DEF PoolInv, InGroup, QueriesOf
    <2> QED BY <1>s, <2>1, <2>2, <2>3 DEF IInv
  <1>3. CASE CloseGroup
    <2>1. /\ rest' = <<>> /\ held' = 0 /\ idle' = 0 /\ pc' = "range"
          /\ UNCHANGED <<dbOf, hasText, todo, rest, cur, level, failed, starved>>
      BY <1>3 DEF CloseGroup, argVars, walkVars
    <2>2. TypeOK'
      BY <1>0, <1>c, <2>1 DEF TypeOK
    <2>3. PoolInv'
      BY <1>0, <2>1 DEF PoolInv
    <2> QED BY <1>s, <2>1, <2>2, <2>3 DEF IInv
  <1>4. CASE Finish \/ WalkEnds \/ UNCHANGED vars
    <2>1. /\ UNCHANGED <<dbOf, hasText, todo, rest, held, idle, cur, level, failed, starved>>
          /\ \/ pc = "range" /\ pc' = "done"
             \/ pc = "walk" /\ pc' = "explain"
             \/ pc' = pc
      BY <1>4 DEF Finish, WalkEnds, vars, argVars, poolVars, walkVars
    <2>2. TypeOK'
      BY <1>0, <1>c, <2>1 DEF TypeOK
    <2>3. PoolInv'
      BY <1>0, <2>1 DEF PoolInv, InGroup, QueriesOf, TypeOK
    <2> QED BY <1>s, <2>1, <2>2, <2>3 DEF IInv
  <1>5. CASE SkipIncomplete
    <2>1. /\ Explaining /\ Skip /\ pc' = pc
          /\ UNCHANGED <<argVars, todo, held, idle, cur, level, failed, starved>>
      BY <1>5 DEF SkipIncomplete, poolVars, walkVars
    <2>2. pc' = "explain" /\ dbOf' = dbOf
      BY <2>1 DEF Explaining, argVars
    <2>3. TakesOne
      BY <1>0, <2>1 DEF TakesOne, TypeOK, PoolInv
    <2> QED BY <1>0, <1>s, <2>1, <2>2, <2>3, OneQueryLess DEF TypeOK
  <1>6. CASE NoConnectionLeft
    <2>1. /\ Explaining /\ Skip /\ pc' = pc /\ idle = 0 /\ held >= Slots
          /\ starved' = starved \cup {Head(rest)}
          /\ UNCHANGED <<argVars, todo, held, idle, cur, level, failed>>
      BY <1>6 DEF NoConnectionLeft, Saturated, poolVars, walkVars
    <2>2. pc' = "explain" /\ dbOf' = dbOf
      BY <2>1 DEF Explaining, argVars
    <2>3. /\ Head(rest) \in Query /\ InGroup(dbOf[Head(rest)])
          /\ Len(rest) \in Nat /\ Len(rest) >= 1
      BY <2>1, HeadOfRest
    <2>4. Cardinality(QueriesOf(dbOf[Head(rest)])) > Slots
      BY <1>0, <2>1, <2>3, SizeOfGroup DEF InGroup
    <2>5. StarvedOnlyInLargeGroups'
      BY <1>0, <2>1, <2>2, <2>4 DEF StarvedOnlyInLargeGroups, QueriesOf
    <2>6. starved' \subseteq Query
      BY <1>0, <2>1, <2>3 DEF TypeOK
    <2>7. TakesOne
      BY <1>0, <2>1 DEF TakesOne, TypeOK, PoolInv
    <2> QED BY <1>0, <2>1, <2>2, <2>5, <2>6, <2>7, OneQueryLess DEF TypeOK
  <1>7. ASSUME Explaining, ~Saturated, held' = held + 1,
               idle' = IF idle > 0 THEN idle - 1 ELSE 0
        PROVE  TakesOne
    <2> DEFINE i == IF idle > 0 THEN idle - 1 ELSE 0
    <2>1. idle \in 0 .. MaxIdle /\ held + idle <= Slots
      BY <1>0 DEF TypeOK, PoolInv
    <2>2. /\ held + 1 \in Nat /\ i \in 0 .. MaxIdle
          /\ (held + 1) + i <= held + idle + 1 /\ (held + 1) + i <= Slots
      BY <1>0, <1>7, <2>1 DEF Saturated
    <2> QED BY <1>7, <2>2 DEF TakesOne
  <1>8. CASE ExplainFails
    <2>1. /\ Explaining /\ ~Saturated /\ Skip /\ pc' = pc
          /\ failed' = failed \cup {Head(rest)}
          /\ UNCHANGED <<argVars, todo, cur, level, starved>>
      BY <1>8 DEF ExplainFails, walkVars
    <2>2. pc' = "explain" /\ dbOf' = dbOf
      BY <2>1 DEF Explaining, argVars
    <2>3. failed' \subseteq Query
      BY <1>0, <2>1, HeadOfRest DEF TypeOK
    <2>4. TakesOne
      <3>1. CASE /\ idle' \in {idle, IF idle = 0 /\ MaxIdle > 0 THEN 1 ELSE idle}
                 /\ UNCHANGED held
        <4>1. PICK i \in {idle, IF idle = 0 /\ MaxIdle > 0 THEN 1 ELSE idle} :
                idle' = i /\ held' = held
          BY <3>1
        <4>2. idle \in 0 .. MaxIdle /\ held + idle <= Slots
          BY <1>0 DEF TypeOK, PoolInv
        <4>3. /\ i \in 0 .. MaxIdle
              /\ held + i <= held + idle + 1 /\ held + i <= Slots
          BY <1>0, <2>1, <4>2 DEF Saturated
        <4> QED BY <1>0, <4>1, <4>3 DEF TakesOne
      <3>2. CASE /\ held' = held + 1
                 /\ idle' = IF idle > 0 THEN idle - 1 ELSE 0
        BY <1>7, <2>1, <3>2
      <3> QED BY <1>8, <3>1, <3>2 DEF ExplainFails
    <2> QED BY <1>0, <1>s, <2>1, <2>2, <2>3, <2>4, OneQueryLess DEF TypeOK
  <1>9. CASE ExplainAnswers
    <2>1. /\ Explaining /\ ~Saturated /\ Skip /\ pc' = "walk"
          /\ held' = held + 1 /\ idle' = IF idle > 0 THEN idle - 1 ELSE 0
          /\ cur' = Head(rest) /\ level' = 0
          /\ UNCHANGED <<argVars, todo, failed, starved>>
      BY <1>9 DEF ExplainAnswers
    <2>2. dbOf' = dbOf
      BY <2>1 DEF argVars
    <2>3. cur' \in Complete
      <3>1. Head(rest) \in hasText
        BY <1>9 DEF ExplainAnswers
      <3>2. Head(rest) \in Query /\ dbOf[Head(rest)] \in Db
        BY <2>1, HeadOfRest
      <3> QED BY <2>1, <3>1, <3>2, PlanAssumption DEF Complete
    <2>4. TakesOne
      BY <1>7, <2>1
    <2> QED BY <1>0, <1>s, <2>1, <2>2, <2>3, <2>4, OneQueryLess DEF TypeOK
  <1>10. CASE Visit \/ VisitFails
    <2>1. /\ pc = "walk" /\ pc' = "walk" /\ level' \in {level, level + 1}
          /\ UNCHANGED <<dbOf, hasText, todo, rest, held, idle, cur, failed, starved>>
      BY <1>10 DEF Visit, VisitFails, argVars, poolVars
    <2>2. TypeOK'
      BY <1>0, <1>c, <2>1 DEF TypeOK
    <2>3. PoolInv'
      BY <1>0, <2>1 DEF PoolInv, InGroup, QueriesOf
    <2> QED BY <1>s, <2>1, <2>2, <2>3 DEF IInv
  <1> QED
    BY <1>1, <1>2, <1>3, <1>4, <1>5, <1>6, <1>8, <1>9, <1>10 DEF Next

-----------------------------------------------------------------------------
(* The theorems *)

\* The pool holds no more than its group needs, and starves nobody else; both
\* follow from what is left of the group.
THEOREM Inductive == Spec => []IInv
  BY InitPool, StepPool, PTL DEF Spec

\* The loops, the pool's two counters and the walk keep their types.
THEOREM Typing == Spec => []TypeOK
  <1>1. IInv => TypeOK
    BY DEF IInv
  <1> QED BY <1>1, Inductive, PTL

\* Rows that are closed only when the function returns never ask the server
\* for more connections than the group has queries, and none survives it.
THEOREM Pool == Spec => []PoolBounded
  <1>1. IInv => PoolBounded
    <2> SUFFICES ASSUME IInv PROVE PoolBounded
      OBVIOUS
    <2>1. ASSUME NEW d \in Db, rest # <<>>, dbOf[Head(rest)] = d
          PROVE  held + idle + Len(rest) <= Cardinality({q \in Query : dbOf[q] = d})
      <3>1. pc \in {"explain", "walk"}
        BY <2>1 DEF IInv, TypeOK, PoolInv
      <3>2. PICK c \in Db : InGroup(c)
        BY <3>1 DEF IInv, PoolInv
      <3>3. rest \in Seq(Query)
        BY DEF IInv, TypeOK
      <3>4. Len(rest) \in Nat /\ Len(rest) >= 1 /\ Head(rest) = rest[1]
        BY <2>1, <3>3, EmptySeq, LenProperties
      <3>5. c = d
        BY <2>1, <3>2, <3>4 DEF InGroup
      <3> QED BY <3>2, <3>5 DEF InGroup, QueriesOf
    <2>2. pc \in {"range", "done"} => held + idle = 0
      BY DEF IInv, PoolInv
    <2> QED BY <2>1, <2>2 DEF PoolBounded, IInv, PoolInv
  <1> QED BY <1>1, Inductive, PTL

\* A query is left without a connection only if the queries of its own
\* database are more than the server has connections left.
THEOREM Starved == Spec => []StarvedOnlyInLargeGroups
  <1>1. IInv => StarvedOnlyInLargeGroups
    BY DEF IInv
  <1> QED BY <1>1, Inductive, PTL

-----------------------------------------------------------------------------
(* Nodes in depth-first order *)

Node == Seq(Nat)

\* The second way a node can precede another: an ancestor of the one, or the
\* node itself, is a sibling listed earlier than that of the other.
Before(a, b) ==
  \E k \in 1 .. Len(a) :
    k <= Len(b) /\ a[k] < b[k] /\ \A i \in 1 .. k - 1 : a[i] = b[i]

LEMMA SameStart ==
  ASSUME NEW a \in Node, NEW b \in Node, NEW k \in Nat, k <= Len(a), k <= Len(b)
  PROVE  SubSeq(a, 1, k) = SubSeq(b, 1, k) <=> \A i \in 1 .. k : a[i] = b[i]
  <1>1. /\ \A i \in 1 .. k : a[i] \in Nat /\ b[i] \in Nat
        /\ 1 \in Int /\ k \in Int
    BY ElementOfSeq DEF Node
  <1>2. /\ SubSeq(a, 1, k) \in Node /\ SubSeq(b, 1, k) \in Node
        /\ Len(SubSeq(a, 1, k)) = k /\ Len(SubSeq(b, 1, k)) = k
        /\ \A i \in 1 .. k : SubSeq(a, 1, k)[i] = a[i]
        /\ \A i \in 1 .. k : SubSeq(b, 1, k)[i] = b[i]
    <2>1. ASSUME NEW c \in Node, \A i \in 1 .. k : c[i] \in Nat
          PROVE  /\ SubSeq(c, 1, k) \in Node /\ Len(SubSeq(c, 1, k)) = k
                 /\ \A i \in 1 .. k : SubSeq(c, 1, k)[i] = c[i]
      <3>1. /\ SubSeq(c, 1, k) \in Seq(Nat)
            /\ Len(SubSeq(c, 1, k)) = IF 1 <= k THEN k - 1 + 1 ELSE 0
            /\ \A i \in 1 .. k - 1 + 1 : SubSeq(c, 1, k)[i] = c[1 + i - 1]
        BY <1>1, <2>1, SubSeqProperties
      <3> QED BY <3>1 DEF Node
    <2> QED BY <1>1, <2>1
  <1> DEFINE s == SubSeq(a, 1, k)
             t == SubSeq(b, 1, k)
  <1> HIDE DEF s, t
  <1>3. (\A i \in 1 .. k : s[i] = t[i]) => s = t
    BY <1>2, SeqEqual DEF s, t, Node
  <1> QED BY <1>2, <1>3 DEF s, t

LEMMA PrefixIs ==
  ASSUME NEW a \in Node, NEW b \in Node
  PROVE  IsPrefix(a, b)
           <=> Len(a) <= Len(b) /\ \A i \in 1 .. Len(a) : a[i] = b[i]
  <1>1. Len(a) \in Nat /\ Len(b) \in Nat
    BY LenProperties DEF Node
  <1> QED BY <1>1, SameStart DEF IsPrefix

LEMMA PrecedesIs ==
  ASSUME NEW a \in Node, NEW b \in Node
  PROVE  Precedes(a, b) <=> IsStrictPrefix(a, b) \/ Before(a, b)
  <1>1. /\ Len(a) \in Nat /\ DOMAIN a = 1 .. Len(a)
        /\ Len(b) \in Nat /\ DOMAIN b = 1 .. Len(b)
    BY LenProperties DEF Node
  <1>2. ASSUME NEW k \in DOMAIN a \cap DOMAIN b
        PROVE  SubSeq(a, 1, k - 1) = SubSeq(b, 1, k - 1)
                 <=> \A i \in 1 .. k - 1 : a[i] = b[i]
    <2>1. k - 1 \in Nat /\ k - 1 <= Len(a) /\ k - 1 <= Len(b)
      BY <1>1
    <2> DEFINE j == k - 1
    <2> HIDE DEF j
    <2> QED BY <2>1, SameStart DEF j
  <1>3. \A k : k \in DOMAIN a \cap DOMAIN b <=> k \in 1 .. Len(a) /\ k <= Len(b)
    BY <1>1
  <1> QED BY <1>2, <1>3 DEF Precedes, Before

\* A node under n, and what it keeps of the order of n.
LEMMA UnderNode ==
  ASSUME NEW n \in Node, NEW k \in Nat
  PROVE  LET below == Append(n, k)
         IN  /\ below \in Node /\ Len(below) = Len(n) + 1 /\ Len(n) \in Nat
             /\ \A i \in 1 .. Len(n) : below[i] = n[i]
             /\ below[Len(n) + 1] = k
             /\ IsStrictPrefix(n, below)
  <1> DEFINE below == Append(n, k)
  <1>1. /\ below \in Node /\ Len(below) = Len(n) + 1 /\ Len(n) \in Nat
        /\ \A i \in 1 .. Len(n) : below[i] = n[i]
        /\ below[Len(n) + 1] = k
    BY AppendProperties, LenProperties DEF Node
  <1> HIDE DEF below
  <1>2. IsPrefix(n, below) /\ n # below
    BY <1>1, PrefixIs
  <1> QED BY <1>1, <1>2 DEF IsStrictPrefix, below

LEMMA PrecedesUnder ==
  ASSUME NEW r \in Node, NEW n \in Node, NEW k \in Nat, Precedes(r, n)
  PROVE  Precedes(r, Append(n, k))
  <1> DEFINE below == Append(n, k)
  <1>1. /\ below \in Node /\ Len(below) = Len(n) + 1 /\ Len(n) \in Nat
        /\ \A i \in 1 .. Len(n) : below[i] = n[i]
    BY UnderNode
  <1>2. Len(r) \in Nat
    BY LenProperties DEF Node
  <1> HIDE DEF below
  <1>3. CASE IsStrictPrefix(r, n)
    <2>1. Len(r) <= Len(n) /\ \A i \in 1 .. Len(r) : r[i] = n[i]
      BY <1>3, PrefixIs DEF IsStrictPrefix
    <2>2. Len(r) <= Len(below) /\ \A i \in 1 .. Len(r) : r[i] = below[i]
      BY <1>1, <1>2, <2>1
    <2>3. IsPrefix(r, below) /\ r # below
      BY <1>1, <1>2, <2>1, <2>2, PrefixIs
    <2> QED BY <1>1, <2>3, PrecedesIs DEF IsStrictPrefix, below
  <1>4. CASE Before(r, n)
    <2>1. Before(r, below)
      BY <1>1, <1>2, <1>4 DEF Before
    <2> QED BY <1>1, <2>1, PrecedesIs DEF below
  <1> QED BY <1>3, <1>4, PrecedesIs

LEMMA UnderBefore ==
  ASSUME NEW n \in Node, NEW t \in Node, NEW k \in Nat, Before(n, t)
  PROVE  Before(Append(n, k), t)
  <1> DEFINE below == Append(n, k)
  <1>1. /\ below \in Node /\ Len(below) = Len(n) + 1 /\ Len(n) \in Nat
        /\ \A i \in 1 .. Len(n) : below[i] = n[i]
    BY UnderNode
  <1>2. Len(t) \in Nat
    BY LenProperties DEF Node
  <1> HIDE DEF below
  <1>3. Before(below, t)
    BY <1>1, <1>2 DEF Before
  <1> QED BY <1>3 DEF below

LEMMA SiblingsBefore ==
  ASSUME NEW n \in Node, NEW j \in Nat, NEW k \in Nat, j < k
  PROVE  Before(Append(n, j), Append(n, k))
  <1> DEFINE a == Append(n, j)
             b == Append(n, k)
  <1>1. /\ Len(a) = Len(n) + 1 /\ Len(b) = Len(n) + 1 /\ Len(n) \in Nat
        /\ \A i \in 1 .. Len(n) : a[i] = b[i]
        /\ a[Len(n) + 1] = j /\ b[Len(n) + 1] = k
    BY UnderNode
  <1> HIDE DEF a, b
  <1>2. Before(a, b)
    BY <1>1 DEF Before
  <1> QED BY <1>2 DEF a, b

\* What is under n is under one of the nodes directly under n, which is one of
\* its own prefixes.
LEMMA UnderOne ==
  ASSUME NEW n \in Node, NEW m \in Node, IsStrictPrefix(n, m)
  PROVE  \E k \in Nat : /\ IsPrefix(Append(n, k), m)
                        /\ Append(n, k) \in Prefixes(m)
  <1>1. /\ Len(n) \in Nat /\ Len(m) \in Nat /\ Len(n) <= Len(m)
        /\ \A i \in 1 .. Len(n) : n[i] = m[i]
    BY PrefixIs, LenProperties DEF IsStrictPrefix, Node
  <1>2. Len(n) < Len(m)
    <2>1. Len(n) # Len(m)
      BY <1>1, SeqEqual DEF IsStrictPrefix, Node
    <2> QED BY <1>1, <2>1
  <1> DEFINE l == Len(n) + 1
             k == m[l]
             below == Append(n, k)
  <1>3. l \in 1 .. Len(m)
    BY <1>1, <1>2
  <1>4. k \in Nat
    BY <1>3, ElementOfSeq DEF Node
  <1>5. /\ below \in Node /\ Len(below) = l
        /\ \A i \in 1 .. l : below[i] = m[i]
    <2>1. /\ below \in Node /\ Len(below) = l
          /\ \A i \in 1 .. Len(n) : below[i] = n[i]
          /\ below[l] = k
      BY <1>4, UnderNode
    <2>2. ASSUME NEW i \in 1 .. l PROVE below[i] = m[i]
      <3>1. i = l \/ i \in 1 .. Len(n)
        BY <1>1
      <3> HIDE DEF below
      <3> QED BY <1>1, <2>1, <3>1
    <2> QED BY <2>1, <2>2
  <1> HIDE DEF below
  <1>6. IsPrefix(below, m)
    BY <1>3, <1>5, PrefixIs
  <1>7. below \in Prefixes(m)
    <2>1. SubSeq(below, 1, l) = SubSeq(m, 1, l)
      BY <1>1, <1>3, <1>5, SameStart
    <2>2. SubSeq(below, 1, l) = below
      BY <1>5, SubSeqFull DEF Node
    <2>3. l \in 0 .. Len(m)
      BY <1>3
    <2> HIDE DEF l
    <2> QED BY <2>1, <2>2, <2>3 DEF Prefixes
  <1> QED BY <1>4, <1>6, <1>7 DEF below

-----------------------------------------------------------------------------
(* The plan tree *)

\* The nested plans of a node are the nodes directly under it, as listed.
LEMMA NestedIs ==
  ASSUME IsTree(Plan.nodes), NEW n \in Plan.nodes
  PROVE  /\ n \in Node
         /\ \E c \in Nat :
              /\ Nested(n) = [k \in 1 .. c |-> Append(n, k)]
              /\ Nested(n) \in Seq(Plan.nodes) /\ Len(Nested(n)) = c
              /\ \A k \in 1 .. c : Append(n, k) \in Plan.nodes
              /\ \A k \in Nat : Append(n, k) \in Plan.nodes => k \in 1 .. c
  <1> DEFINE kids == Children(Plan.nodes, n)
  <1>1. PICK c \in 0 .. Cardinality(Plan.nodes) :
          kids = {Append(n, k) : k \in 1 .. c}
    BY DEF IsTree
  <1>2. /\ n \in Node /\ c \in Nat /\ Plan.nodes \subseteq Node
        /\ \A k \in Nat : Append(n, k) \in Node
    <2>1. Cardinality(Plan.nodes) \in Nat
      BY FS_CardinalityType DEF IsTree
    <2>2. n \in Node
      BY DEF IsTree, Node
    <2> QED BY <2>1, <2>2, UnderNode DEF IsTree, Node
  <1>3. Cardinality(kids) = c
    <2> DEFINE f == [k \in 1 .. c |-> Append(n, k)]
    <2>1. f \in Surjection(1 .. c, kids)
      BY <1>1 DEF Surjection
    <2>2. \A j, k \in 1 .. c : Append(n, j) = Append(n, k) => j = k
      BY <1>2, AppendInjective DEF Node
    <2>3. f \in Injection(1 .. c, kids)
      BY <1>1, <2>2 DEF Injection, IsInjective
    <2>4. IsFiniteSet(1 .. c) /\ Cardinality(1 .. c) = c
      BY <1>2, FS_Interval
    <2> DEFINE dom == 1 .. c
    <2>5. /\ f \in Surjection(dom, kids) /\ f \in Injection(dom, kids)
          /\ IsFiniteSet(dom) /\ Cardinality(dom) = c
      BY <2>1, <2>3, <2>4
    <2> HIDE DEF f, kids, dom
    <2> QED BY <2>5, FS_Surjection
  <1>4. Nested(n) = [k \in 1 .. c |-> Append(n, k)]
    BY <1>3 DEF Nested
  <1>5. \A k \in 1 .. c : Append(n, k) \in kids
    BY <1>1
  <1>6. \A k \in 1 .. c : Append(n, k) \in Plan.nodes
    BY <1>5 DEF Children
  <1>7. ASSUME NEW k \in Nat, Append(n, k) \in Plan.nodes PROVE k \in 1 .. c
    <2>1. Append(n, k) \in kids
      BY <1>2, <1>7, UnderNode DEF Children, IsStrictPrefix
    <2>2. PICK j \in 1 .. c : Append(n, k) = Append(n, j)
      BY <1>1, <2>1
    <2>3. j = k
      BY <1>2, <2>2, AppendInjective DEF Node
    <2> QED BY <2>3
  <1>8. Nested(n) \in Seq(Plan.nodes) /\ Len(Nested(n)) = c
    <2> DEFINE kid == [k \in 1 .. c |-> Append(n, k)]
    <2>1. kid \in [1 .. c -> Plan.nodes]
      BY <1>6
    <2> HIDE DEF kid
    <2>2. kid \in Seq(Plan.nodes) /\ Len(kid) = c
      BY <1>2, <2>1
    <2> QED BY <1>4, <2>2 DEF kid
  <1> QED BY <1>2, <1>4, <1>6, <1>7, <1>8

\* The nodes of the plan under n: n and what is under one of its nested plans.
LEMMA UnderNested ==
  ASSUME IsTree(Plan.nodes), NEW n \in Plan.nodes, NEW m \in Plan.nodes,
         IsPrefix(n, m), n # m
  PROVE  \E i \in 1 .. Len(Nested(n)) : IsPrefix(Nested(n)[i], m)
  <1>1. n \in Node /\ m \in Node
    BY DEF IsTree, Node
  <1>2. PICK k \in Nat : /\ IsPrefix(Append(n, k), m)
                         /\ Append(n, k) \in Prefixes(m)
    BY <1>1, UnderOne DEF IsStrictPrefix
  <1>3. Append(n, k) \in Plan.nodes
    BY <1>2 DEF IsTree
  <1>4. PICK c \in Nat : /\ Nested(n) = [j \in 1 .. c |-> Append(n, j)]
                         /\ Len(Nested(n)) = c
                         /\ \A j \in Nat : Append(n, j) \in Plan.nodes => j \in 1 .. c
    BY NestedIs
  <1> QED BY <1>2, <1>3, <1>4

\* Nothing above a node of the plan but what is not to be decoded.
Sound(n) == \A m \in Plan.bad : ~IsStrictPrefix(m, n)

LEMMA SoundNested ==
  ASSUME IsTree(Plan.nodes), Plan.bad \subseteq Plan.nodes,
         NEW n \in Plan.nodes, n \notin Plan.bad, Sound(n), NEW k \in Nat
  PROVE  Sound(Append(n, k)) /\ n \in Good(Plan)
  <1>1. n \in Node /\ Plan.bad \subseteq Node
    BY DEF IsTree, Node
  <1> DEFINE below == Append(n, k)
  <1>2. /\ below \in Node /\ Len(below) = Len(n) + 1 /\ Len(n) \in Nat
        /\ \A i \in 1 .. Len(n) : below[i] = n[i]
    BY <1>1, UnderNode
  <1> HIDE DEF below
  <1>3. ASSUME NEW m \in Plan.bad, IsStrictPrefix(m, below) PROVE FALSE
    <2>1. /\ m \in Node /\ Len(m) \in Nat
          /\ Len(m) <= Len(below) /\ \A i \in 1 .. Len(m) : m[i] = below[i]
      BY <1>1, <1>2, <1>3, PrefixIs, LenProperties DEF IsStrictPrefix, Node
    <2>2. Len(m) # Len(below)
      BY <1>2, <1>3, <2>1, SeqEqual DEF IsStrictPrefix, Node
    <2>3. Len(m) <= Len(n) /\ \A i \in 1 .. Len(m) : m[i] = n[i]
      BY <1>2, <2>1, <2>2
    <2>4. IsPrefix(m, n)
      BY <1>1, <2>1, <2>3, PrefixIs
    <2> QED BY <2>4 DEF Sound, IsStrictPrefix
  <1>4. Sound(below)
    BY <1>3 DEF Sound
  <1>5. n \in Good(Plan)
    BY DEF Good, Sound, IsStrictPrefix
  <1> QED BY <1>4, <1>5 DEF below

-----------------------------------------------------------------------------
(* The walks over the plans *)

Row == [query : Query, node : Node, level : Nat]

\* Queries still to explain.
Pending(q) == dbOf[q] \in todo \/ \E i \in 1 .. Len(rest) : rest[i] = q

Walking(q) == pc = "walk" /\ q = cur

Settled(q) == q \notin hasText \/ q \in failed \cup starved \/ Reported(q)

\* The rows of a query number its nodes, which come depth first.
Numbered(q) ==
  /\ \A i \in RowsOf(q) :
       metrics[i].level = Cardinality({j \in RowsOf(q) : j < i})
  /\ \A i, j \in RowsOf(q) :
       i < j => Precedes(metrics[i].node, metrics[j].node)

\* The stack holds, in depth-first order, the roots of what is left of the
\* plan; all rows precede it.
StackInv ==
  /\ stack \in Seq(Plan.nodes)
  /\ \A i \in 1 .. Len(stack) : Sound(stack[i])
  /\ \A i, j \in 1 .. Len(stack) : i < j => Before(stack[i], stack[j])
  /\ \A r \in RowsOf(cur) : \A i \in 1 .. Len(stack) :
       Precedes(metrics[r].node, stack[i])
  /\ \A r \in RowsOf(cur) : metrics[r].node \in Good(Plan)
  /\ \A n \in Good(Plan) : \/ \E r \in RowsOf(cur) : metrics[r].node = n
                           \/ \E i \in 1 .. Len(stack) : IsPrefix(stack[i], n)
  /\ Numbered(cur) /\ level = Cardinality(RowsOf(cur))

\* The queries left come in order, each once; what is pending has no rows yet,
\* what is not pending has been settled or is being walked.
OrderInv ==
  /\ \A i, j \in 1 .. Len(rest) : i < j => rest[i] < rest[j]
  /\ \A i \in 1 .. Len(rest) : dbOf[rest[i]] \notin todo
  /\ pc = "done" => todo = {}
  /\ pc = "walk" => cur \in Query /\ ~Pending(cur)

RowsInv ==
  /\ metrics \in Seq(Row)
  /\ DOMAIN planOf = Query
  /\ \A q \in Query : IsTree(planOf[q].nodes) /\ planOf[q].bad \subseteq planOf[q].nodes
  /\ \A q \in Query : Pending(q) => RowsOf(q) = {}

SettledInv ==
  \A q \in Query : dbOf[q] # NoDb => Pending(q) \/ Settled(q) \/ Walking(q)

WalkInv ==
  /\ OrderInv /\ RowsInv /\ SettledInv
  /\ pc = "walk" => StackInv

\* The queries left stay left, are settled, or are walked.
LEMMA RestOrder ==
  ASSUME IInv, WalkInv, Explaining
  PROVE  /\ Head(rest) \in Query /\ pc = "explain" /\ dbOf[Head(rest)] \notin todo
         /\ RowsOf(Head(rest)) = {}
         /\ Len(Tail(rest)) \in Nat
         /\ \A i, j \in 1 .. Len(Tail(rest)) : i < j => Tail(rest)[i] < Tail(rest)[j]
         /\ \A i \in 1 .. Len(Tail(rest)) :
              /\ Tail(rest)[i] # Head(rest) /\ dbOf[Tail(rest)[i]] \notin todo
              /\ Tail(rest)[i] \in Query
         /\ \A q : (\E i \in 1 .. Len(rest) : rest[i] = q)
              <=> q = Head(rest) \/ \E i \in 1 .. Len(Tail(rest)) : Tail(rest)[i] = q
  <1>1. rest \in Seq(Query) /\ rest # <<>> /\ pc = "explain"
    BY DEF IInv, TypeOK, Explaining
  <1>2. Len(rest) \in Nat /\ Len(rest) >= 1 /\ Head(rest) \in Query
        /\ \A i \in 1 .. Len(rest) : rest[i] \in Query /\ rest[i] \in Int
    <2>1. \A i \in 1 .. Len(rest) : rest[i] \in Query
      BY <1>1, ElementOfSeq
    <2> QED BY <1>1, <2>1, EmptySeq, LenProperties, HeadTailProperties DEF Query
  <1>3. /\ Head(rest) = rest[1] /\ Len(Tail(rest)) = Len(rest) - 1
        /\ \A i \in 1 .. Len(rest) - 1 : Tail(rest)[i] = rest[i + 1]
    BY <1>1, <1>2, HeadTailProperties
  <1> DEFINE tail == Tail(rest)
  <1> HIDE DEF tail
  <1>4. \A i, j \in 1 .. Len(tail) : i < j => tail[i] < tail[j]
    BY <1>2, <1>3 DEF WalkInv, OrderInv, tail
  <1>5. \A i \in 1 .. Len(tail) : /\ tail[i] # Head(rest) /\ dbOf[tail[i]] \notin todo
                                  /\ tail[i] \in Query
    <2> SUFFICES ASSUME NEW i \in 1 .. Len(tail)
                 PROVE  /\ tail[i] # Head(rest) /\ dbOf[tail[i]] \notin todo
                        /\ tail[i] \in Query
      OBVIOUS
    <2>1. i + 1 \in 1 .. Len(rest) /\ 1 \in 1 .. Len(rest) /\ 1 < i + 1
          /\ tail[i] = rest[i + 1]
      BY <1>2, <1>3 DEF tail
    <2>2. rest[1] < rest[i + 1] /\ dbOf[rest[i + 1]] \notin todo
      BY <2>1 DEF WalkInv, OrderInv
    <2> QED BY <1>2, <1>3, <2>1, <2>2
  <1>6. \A q : (\E i \in 1 .. Len(rest) : rest[i] = q)
               <=> q = Head(rest) \/ \E i \in 1 .. Len(tail) : tail[i] = q
    <2>1. ASSUME NEW i \in 1 .. Len(rest)
          PROVE  rest[i] = Head(rest) \/ \E j \in 1 .. Len(tail) : tail[j] = rest[i]
      <3>1. i = 1 \/ (i - 1 \in 1 .. Len(tail) /\ tail[i - 1] = rest[i])
        BY <1>2, <1>3 DEF tail
      <3> QED BY <1>3, <3>1
    <2>2. ASSUME NEW j \in 1 .. Len(tail)
          PROVE  \E i \in 1 .. Len(rest) : rest[i] = tail[j]
      <3>1. j + 1 \in 1 .. Len(rest) /\ tail[j] = rest[j + 1]
        BY <1>2, <1>3 DEF tail
      <3> QED BY <3>1
    <2>3. \E i \in 1 .. Len(rest) : rest[i] = Head(rest)
      BY <1>2, <1>3
    <2> QED BY <2>1, <2>2, <2>3
  <1>7. dbOf[Head(rest)] \notin todo
    BY <1>2, <1>3 DEF WalkInv, OrderInv
  <1>8. RowsOf(Head(rest)) = {}
    BY <1>2, <1>6 DEF WalkInv, RowsInv, Pending
  <1> QED BY <1>1, <1>2, <1>3, <1>4, <1>5, <1>6, <1>7, <1>8 DEF tail

\* A query done with is pending no longer, all others as before.
LEMMA RestPending ==
  ASSUME IInv, WalkInv, Explaining, Skip, dbOf' = dbOf, todo' = todo, NEW q
  PROVE  Pending(q) <=> Pending(q)' \/ q = Head(rest)
  BY RestOrder DEF Pending, Skip

LEMMA HeadNotPending ==
  ASSUME IInv, WalkInv, Explaining, Skip, dbOf' = dbOf, todo' = todo,
         NEW q, q = Head(rest)
  PROVE  ~Pending(q)'
  BY RestOrder DEF Pending, Skip

\* What an action that adds no row and walks no plan leaves of the invariant.
LEMMA NoWalk ==
  ASSUME IInv, WalkInv, UNCHANGED <<argVars, metrics, planOf>>,
         failed \subseteq failed', starved \subseteq starved', pc' # "walk", OrderInv',
         \A q \in Query : Pending(q)' => Pending(q),
         \A q \in Query : Pending(q) => Pending(q)' \/ Settled(q)',
         \A q \in Query : Walking(q) => Settled(q)'
  PROVE  WalkInv'
  <1>1. RowsInv'
    BY DEF WalkInv, RowsInv, RowsOf
  <1>2. ASSUME NEW q \in Query, Settled(q) PROVE Settled(q)'
    BY <1>2 DEF Settled, Reported, RowsOf, argVars
  <1>3. SettledInv'
    <2>1. dbOf' = dbOf
      BY DEF argVars
    <2> QED BY <1>2, <2>1 DEF SettledInv, WalkInv
  <1> QED BY <1>1, <1>3 DEF WalkInv

LEMMA SkipWalk ==
  ASSUME IInv, WalkInv, Explaining, Skip,
         UNCHANGED <<argVars, pc, todo, metrics, planOf>>,
         failed \subseteq failed', starved \subseteq starved', NEW h, h = Head(rest), Settled(h)'
  PROVE  WalkInv'
  <1>1. pc' = "explain" /\ pc = "explain" /\ dbOf' = dbOf
    BY DEF Explaining, argVars
  <1>2. OrderInv'
    BY <1>1, RestOrder DEF OrderInv, Skip
  <1>3. \A q \in Query : ~Walking(q)
    BY <1>1 DEF Walking
  <1>4. \A q : Pending(q) <=> Pending(q)' \/ q = Head(rest)
    BY <1>1, RestPending
  <1> QED BY <1>1, <1>2, <1>3, <1>4, NoWalk

\* The rows of the other queries stay what they are when one is appended.
LEMMA RowsGrow ==
  ASSUME metrics \in Seq(Row), NEW row \in Row, metrics' = Append(metrics, row)
  PROVE  /\ metrics' \in Seq(Row) /\ Len(metrics) \in Nat
         /\ \A q : RowsOf(q)' = IF q = row.query THEN RowsOf(q) \cup {Len(metrics) + 1}
                                ELSE RowsOf(q)
         /\ \A q : RowsOf(q) \subseteq 1 .. Len(metrics)
         /\ \A i \in 1 .. Len(metrics) : metrics'[i] = metrics[i]
         /\ metrics'[Len(metrics) + 1] = row
  <1>1. /\ metrics' \in Seq(Row) /\ Len(metrics) \in Nat
        /\ Len(metrics') = Len(metrics) + 1
        /\ \A i \in 1 .. Len(metrics) : metrics'[i] = metrics[i]
        /\ metrics'[Len(metrics) + 1] = row
    BY AppendProperties, LenProperties
  <1>2. /\ DOMAIN metrics = 1 .. Len(metrics)
        /\ DOMAIN metrics' = (1 .. Len(metrics)) \cup {Len(metrics) + 1}
    <2>1. DOMAIN metrics = 1 .. Len(metrics) /\ DOMAIN metrics' = 1 .. Len(metrics) + 1
      BY <1>1, LenProperties
    <2> QED BY <1>1, <2>1
  <1>3. ASSUME NEW q
        PROVE  RowsOf(q)' = RowsOf(q) \cup
                 {i \in {Len(metrics) + 1} : row.query = q}
    BY <1>1, <1>2 DEF RowsOf
  <1>4. \A q : RowsOf(q) \subseteq 1 .. Len(metrics)
    BY <1>2 DEF RowsOf
  <1> QED BY <1>1, <1>3, <1>4

\* The root of a plan that has nodes.
LEMMA Root ==
  ASSUME NEW nodes, IsTree(nodes), NEW n \in nodes
  PROVE  <<>> \in nodes /\ IsPrefix(<<>>, n)
  <1>1. n \in Node /\ <<>> \in Node /\ Len(<<>>) = 0
    BY EmptySeq DEF IsTree, Node
  <1>2. SubSeq(n, 1, 0) = <<>>
    BY <1>1, SubSeqEmpty
  <1>3. 0 \in 0 .. Len(n)
    BY <1>1, LenProperties DEF Node
  <1>4. <<>> \in Prefixes(n)
    BY <1>2, <1>3 DEF Prefixes
  <1>5. IsPrefix(<<>>, n)
    BY <1>1, <1>3, PrefixIs
  <1> QED BY <1>4, <1>5 DEF IsTree

LEMMA OneNode ==
  ASSUME NEW S, NEW x \in S
  PROVE  <<x>> \in Seq(S) /\ Len(<<x>>) = 1 /\ <<x>>[1] = x
  OBVIOUS

\* An answer starts a walk at the root.
LEMMA WalkStarts ==
  ASSUME IInv, WalkInv, ExplainAnswers PROVE WalkInv'
  <1> DEFINE h == Head(rest)
  <1>1. /\ Explaining /\ Skip /\ pc' = "walk" /\ cur' = h /\ level' = 0
        /\ UNCHANGED <<dbOf, hasText, todo, metrics, failed, starved>>
    BY DEF ExplainAnswers, argVars
  <1>2. PICK plan \in Plans :
          /\ planOf' = [planOf EXCEPT ![h] = plan]
          /\ stack' = IF plan.nodes = {} THEN <<>> ELSE << <<>> >>
    BY DEF ExplainAnswers
  <1>3. IsTree(plan.nodes) /\ plan.bad \subseteq plan.nodes
    BY PlanAssumption
  <1>4. /\ h \in Query /\ pc = "explain" /\ dbOf[h] \notin todo
        /\ RowsOf(h) = {}
    BY <1>1, RestOrder
  <1>5. \A q : Pending(q) <=> Pending(q)' \/ q = h
    BY <1>1, RestPending
  <1> DEFINE Left(q) == Pending(q)'
  <1>7. \A q : q = h => ~Left(q)
    BY <1>1, HeadNotPending
  <1>8. OrderInv'
    <2>1. rest' = Tail(rest)
      BY <1>1 DEF Skip
    <2>2. \A q : q = cur' => ~Left(q)
      BY <1>1, <1>7
    <2>3. \A q : q = cur' => (Left(q) <=> Pending(cur)')
      BY DEF Pending
    <2>4. ~Pending(cur)'
      <3> HIDE DEF Left
      <3> QED BY <2>2, <2>3
    <2> HIDE DEF h
    <2>5. cur' \in Query
      BY <1>1, <1>4
    <2> QED BY <1>1, <2>1, <2>4, <2>5, RestOrder DEF OrderInv
  <1> HIDE DEF h
  <1>9. /\ DOMAIN planOf' = Query /\ planOf'[h] = plan
        /\ \A q \in Query : q # h => planOf'[q] = planOf[q]
    BY <1>2, <1>4 DEF WalkInv, RowsInv
  <1>10. \A q : RowsOf(q)' = RowsOf(q)
    BY <1>1 DEF RowsOf
  <1>11. RowsInv'
    <2>1. \A q \in Query : IsTree(planOf'[q].nodes) /\ planOf'[q].bad \subseteq planOf'[q].nodes
      BY <1>3, <1>9 DEF WalkInv, RowsInv
    <2>2. \A q \in Query : Left(q) => RowsOf(q)' = {}
      BY <1>5, <1>10 DEF WalkInv, RowsInv
    <2>3. metrics' \in Seq(Row) /\ DOMAIN planOf' = Query
      BY <1>1, <1>9 DEF WalkInv, RowsInv
    <2> QED BY <2>1, <2>2, <2>3 DEF RowsInv
  <1>12. SettledInv'
    <2> SUFFICES ASSUME NEW q \in Query, dbOf[q] # NoDb
                 PROVE  Pending(q)' \/ Settled(q)' \/ Walking(q)'
      BY <1>1 DEF SettledInv
    <2>1. CASE q = h
      BY <1>1, <2>1 DEF Walking
    <2>2. CASE q # h
      <3>1. ~Walking(q)
        BY <1>4 DEF Walking
      <3>2. Settled(q) => Settled(q)'
        BY <1>1, <1>9, <1>10, <2>2 DEF Settled, Reported
      <3>3. Pending(q) \/ Settled(q)
        BY <3>1 DEF WalkInv, SettledInv
      <3> QED BY <1>5, <2>2, <3>2, <3>3
    <2> QED BY <2>1, <2>2
  <1>13. StackInv'
    <2>1. Plan' = plan
      BY <1>1, <1>9 DEF Plan
    <2>2. RowsOf(cur)' = {}
      BY <1>1, <1>4, <1>10 DEF RowsOf
    <2>3. /\ Numbered(cur)' /\ level' = Cardinality(RowsOf(cur)')
          /\ \A r \in RowsOf(cur)' : metrics'[r].node \in Good(Plan')
      BY <1>1, <2>2, FS_EmptySet DEF Numbered
    <2>4. CASE plan.nodes = {}
      <3>1. stack' = <<>> /\ Good(Plan') = {}
        BY <1>2, <2>1, <2>4 DEF Good
      <3>2. stack' \in Seq(plan.nodes) /\ Len(stack') = 0
        BY <3>1, EmptySeq
      <3> QED BY <2>1, <2>2, <2>3, <3>1, <3>2 DEF StackInv, Good
    <2>5. CASE plan.nodes # {}
      <3>1. <<>> \in plan.nodes /\ \A n \in plan.nodes : IsPrefix(<<>>, n)
        BY <1>3, <2>5, Root
      <3>2. /\ stack' \in Seq(plan.nodes) /\ Len(stack') = 1 /\ stack'[1] = <<>>
        <4>1. stack' = << <<>> >>
          BY <1>2, <2>5
        <4> DEFINE root == <<>>
        <4>2. stack' = <<root>> /\ root \in plan.nodes
          BY <3>1, <4>1
        <4> HIDE DEF root
        <4>3. stack' \in Seq(plan.nodes) /\ Len(stack') = 1 /\ stack'[1] = root
          BY <4>2, OneNode
        <4> QED BY <4>3 DEF root
      <3>3. ASSUME NEW m \in plan.bad, IsStrictPrefix(m, <<>>) PROVE FALSE
        <4>1. m \in Node /\ <<>> \in Node /\ Len(<<>>) = 0 /\ Len(m) \in Nat
          BY <1>3, EmptySeq, LenProperties DEF IsTree, Node
        <4>2. Len(m) <= Len(<<>>) /\ m # <<>>
          BY <3>3 DEF IsStrictPrefix, IsPrefix
        <4> QED BY <4>1, <4>2, EmptySeq DEF Node
      <3>4. Sound(stack[1])'
        BY <2>1, <3>2, <3>3 DEF Sound
      <3>5. \A n \in Good(Plan)' : IsPrefix(stack'[1], n)
        BY <2>1, <3>1, <3>2 DEF Good
      <3>6. 1 .. Len(stack') = {1}
        BY <3>2
      <3>7. \A i \in 1 .. Len(stack') : Sound(stack[i])'
        BY <3>4, <3>6
      <3> QED BY <2>1, <2>2, <2>3, <3>2, <3>5, <3>6, <3>7 DEF StackInv
    <2> QED BY <2>4, <2>5
  <1> QED BY <1>8, <1>11, <1>12, <1>13 DEF WalkInv

\* What is at the head of the stack, and what is left without it.
LEMMA HeadOfStack ==
  ASSUME RowsInv, cur \in Query, StackInv, stack # <<>>
  PROVE  LET n == Head(stack)
             tail == Tail(stack)
         IN  /\ IsTree(Plan.nodes) /\ Plan.bad \subseteq Plan.nodes
             /\ Plan.nodes \subseteq Node
             /\ n \in Plan.nodes /\ Sound(n)
             /\ \A r \in RowsOf(cur) : Precedes(metrics[r].node, n)
             /\ tail \in Seq(Plan.nodes)
             /\ Len(tail) \in Nat
             /\ \A i \in 1 .. Len(tail) :
                  /\ tail[i] \in Plan.nodes /\ Sound(tail[i]) /\ Before(n, tail[i])
                  /\ \A r \in RowsOf(cur) : Precedes(metrics[r].node, tail[i])
             /\ \A i, j \in 1 .. Len(tail) : i < j => Before(tail[i], tail[j])
             /\ \A m : (\E i \in 1 .. Len(stack) : IsPrefix(stack[i], m)) =>
                  IsPrefix(n, m) \/ \E i \in 1 .. Len(tail) : IsPrefix(tail[i], m)
  <1> DEFINE n == Head(stack)
             tail == Tail(stack)
  <1>1. IsTree(Plan.nodes) /\ Plan.bad \subseteq Plan.nodes /\ Plan.nodes \subseteq Node
    BY DEF RowsInv, Plan, IsTree, Node
  <1>2. stack \in Seq(Plan.nodes)
    BY DEF StackInv
  <1>3. Len(stack) \in Nat /\ Len(stack) >= 1
    BY <1>2, EmptySeq, LenProperties
  <1>4. /\ n \in Plan.nodes /\ n = stack[1]
        /\ tail \in Seq(Plan.nodes) /\ Len(tail) = Len(stack) - 1
        /\ \A i \in 1 .. Len(tail) : tail[i] = stack[i + 1]
    BY <1>2, <1>3, HeadTailProperties
  <1> HIDE DEF n, tail
  <1>5. Sound(n) /\ \A r \in RowsOf(cur) : Precedes(metrics[r].node, n)
    BY <1>3, <1>4 DEF StackInv
  <1>6. Len(tail) \in Nat /\ \A i \in 1 .. Len(tail) : i + 1 \in 1 .. Len(stack) /\ 1 < i + 1
    BY <1>3, <1>4
  <1>7. ASSUME NEW i \in 1 .. Len(tail)
        PROVE  /\ tail[i] \in Plan.nodes /\ Sound(tail[i]) /\ Before(n, tail[i])
               /\ \A r \in RowsOf(cur) : Precedes(metrics[r].node, tail[i])
    <2>1. tail[i] \in Plan.nodes
      BY <1>4, ElementOfSeq
    <2>2. 1 \in 1 .. Len(stack) /\ i + 1 \in 1 .. Len(stack) /\ 1 < i + 1
      BY <1>3, <1>6
    <2> QED BY <1>4, <2>1, <2>2 DEF StackInv
  <1>8. ASSUME NEW i \in 1 .. Len(tail), NEW j \in 1 .. Len(tail), i < j
        PROVE  Before(tail[i], tail[j])
    <2>1. i + 1 < j + 1
      BY <1>8
    <2> QED BY <1>4, <1>6, <2>1 DEF StackInv
  <1>9. ASSUME NEW m, NEW i \in 1 .. Len(stack), IsPrefix(stack[i], m)
        PROVE  IsPrefix(n, m) \/ \E j \in 1 .. Len(tail) : IsPrefix(tail[j], m)
    <2>1. i = 1 \/ (i - 1 \in 1 .. Len(tail) /\ tail[i - 1] = stack[i])
      BY <1>3, <1>4
    <2> QED BY <1>4, <1>9, <2>1
  <1> QED BY <1>1, <1>4, <1>5, <1>6, <1>7, <1>8, <1>9 DEF n, tail

\* A step of a walk disturbs only what concerns the query walked.
LEMMA WalkGoesOn ==
  ASSUME IInv, WalkInv, pc = "walk", pc' = "walk",
         UNCHANGED <<argVars, todo, rest, cur, planOf, failed, starved>>,
         metrics' \in Seq(Row),
         \A q \in Query : q # cur =>
           /\ RowsOf(q)' = RowsOf(q)
           /\ \A i \in RowsOf(q) : metrics'[i] = metrics[i],
         StackInv'
  PROVE  WalkInv'
  <1>1. dbOf' = dbOf /\ hasText' = hasText
    BY DEF argVars
  <1>2. \A q : Pending(q)' <=> Pending(q)
    BY <1>1 DEF Pending
  <1>3. cur \in Query /\ ~Pending(cur)
    BY DEF WalkInv, OrderInv
  <1>4. OrderInv'
    <2>1. ~Pending(cur)'
      BY <1>1, <1>3 DEF Pending
    <2> QED BY <1>1, <1>3, <2>1 DEF WalkInv, OrderInv
  <1>5. RowsInv'
    <2>1. \A q \in Query : Pending(q)' => RowsOf(q)' = {}
      BY <1>2, <1>3 DEF WalkInv, RowsInv
    <2> QED BY <2>1 DEF WalkInv, RowsInv
  <1>6. SettledInv'
    <2>1. ASSUME NEW q \in Query, q # cur, Settled(q) PROVE Settled(q)'
      <3>1. CASE Reported(q)
        <4>1. /\ RowsOf(q)' = RowsOf(q)
              /\ \A i \in RowsOf(q) : metrics'[i] = metrics[i]
          BY <2>1
        <4>2. {metrics'[i].node : i \in RowsOf(q)} = {metrics[i].node : i \in RowsOf(q)}
          BY <4>1
        <4>3. Reported(q)'
          BY <3>1, <4>1, <4>2 DEF Reported
        <4> QED BY <4>3 DEF Settled
      <3>2. CASE q \notin hasText \/ q \in failed \cup starved
        BY <1>1, <3>2 DEF Settled
      <3> QED BY <2>1, <3>1, <3>2 DEF Settled
    <2>2. Walking(cur)'
      BY DEF Walking
    <2>3. \A q \in Query : q = cur => Walking(q)'
      BY DEF Walking
    <2>4. \A q \in Query : dbOf[q] # NoDb => Pending(q) \/ Settled(q) \/ q = cur
      BY DEF WalkInv, SettledInv, Walking
    <2> QED BY <1>1, <1>2, <2>1, <2>3, <2>4 DEF SettledInv
  <1> QED BY <1>4, <1>5, <1>6 DEF WalkInv

\* A node that cannot be decoded takes no good node with it.
LEMMA WalkLeavesOut ==
  ASSUME IInv, WalkInv, VisitFails PROVE WalkInv'
  <1> DEFINE n == Head(stack)
             tail == Tail(stack)
  <1>1. /\ pc = "walk" /\ pc' = "walk" /\ stack # <<>> /\ n \in Plan.bad
        /\ stack' = tail
        /\ UNCHANGED <<argVars, todo, rest, cur, planOf, failed, starved, metrics, level>>
    BY DEF VisitFails
  <1>2. RowsInv /\ StackInv /\ cur \in Query
    BY <1>1 DEF WalkInv, OrderInv
  <1>3. /\ tail \in Seq(Plan.nodes)
        /\ \A i \in 1 .. Len(tail) :
             /\ Sound(tail[i])
             /\ \A r \in RowsOf(cur) : Precedes(metrics[r].node, tail[i])
        /\ \A i, j \in 1 .. Len(tail) : i < j => Before(tail[i], tail[j])
        /\ \A m : (\E i \in 1 .. Len(stack) : IsPrefix(stack[i], m)) =>
             IsPrefix(n, m) \/ \E i \in 1 .. Len(tail) : IsPrefix(tail[i], m)
    BY <1>1, <1>2, HeadOfStack
  <1> HIDE DEF n, tail
  <1>4. \A m \in Good(Plan) : ~IsPrefix(n, m)
    BY <1>1 DEF Good
  <1>5. Plan' = Plan /\ \A q : RowsOf(q)' = RowsOf(q)
    BY <1>1 DEF Plan, RowsOf
  <1>6. StackInv'
    <2>1. \A m \in Good(Plan) : \/ \E r \in RowsOf(cur) : metrics[r].node = m
                                \/ \E i \in 1 .. Len(tail) : IsPrefix(tail[i], m)
      BY <1>2, <1>3, <1>4 DEF StackInv
    <2>2. \A m : Sound(m)' <=> Sound(m)
      BY <1>5 DEF Sound
    <2>3. /\ Numbered(cur)' /\ level' = Cardinality(RowsOf(cur)')
          /\ \A r \in RowsOf(cur)' : metrics'[r].node \in Good(Plan')
      BY <1>1, <1>2, <1>5 DEF StackInv, Numbered
    <2>4. \A i \in 1 .. Len(stack') : Sound(stack[i])'
      BY <1>1, <1>3, <1>5 DEF Sound
    <2> QED BY <1>1, <1>3, <1>5, <2>1, <2>3, <2>4 DEF StackInv
  <1>7. metrics' \in Seq(Row)
    BY <1>1, <1>2 DEF RowsInv
  <1> QED BY <1>1, <1>5, <1>6, <1>7, WalkGoesOn

\* A node put ahead of what is left of the stack: its nested plans.
LEMMA NewStack ==
  ASSUME RowsInv, cur \in Query, StackInv, stack # <<>>, Head(stack) \notin Plan.bad
  PROVE  LET n == Head(stack)
             new == Nested(n) \o Tail(stack)
         IN  /\ n \in Node /\ n \in Good(Plan)
             /\ new \in Seq(Plan.nodes)
             /\ \A i \in 1 .. Len(new) :
                  /\ Sound(new[i]) /\ Precedes(n, new[i])
                  /\ \A r \in RowsOf(cur) : Precedes(metrics[r].node, new[i])
             /\ \A i, j \in 1 .. Len(new) : i < j => Before(new[i], new[j])
             /\ \A m \in Plan.nodes :
                  (\E i \in 1 .. Len(stack) : IsPrefix(stack[i], m)) =>
                    m = n \/ \E i \in 1 .. Len(new) : IsPrefix(new[i], m)
  <1> DEFINE n == Head(stack)
             tail == Tail(stack)
             kids == Nested(n)
             new == kids \o tail
  <1>1. /\ IsTree(Plan.nodes) /\ Plan.bad \subseteq Plan.nodes
        /\ Plan.nodes \subseteq Node
        /\ n \in Plan.nodes /\ Sound(n)
        /\ \A r \in RowsOf(cur) : Precedes(metrics[r].node, n)
        /\ tail \in Seq(Plan.nodes) /\ Len(tail) \in Nat
        /\ \A i \in 1 .. Len(tail) :
             /\ tail[i] \in Plan.nodes /\ Sound(tail[i]) /\ Before(n, tail[i])
             /\ \A r \in RowsOf(cur) : Precedes(metrics[r].node, tail[i])
        /\ \A i, j \in 1 .. Len(tail) : i < j => Before(tail[i], tail[j])
        /\ \A m : (\E i \in 1 .. Len(stack) : IsPrefix(stack[i], m)) =>
             IsPrefix(n, m) \/ \E i \in 1 .. Len(tail) : IsPrefix(tail[i], m)
    BY HeadOfStack
  <1> HIDE DEF n, tail
  <1>2. PICK c \in Nat :
          /\ kids = [k \in 1 .. c |-> Append(n, k)]
          /\ kids \in Seq(Plan.nodes) /\ Len(kids) = c
          /\ \A k \in 1 .. c : Append(n, k) \in Plan.nodes
    BY <1>1, NestedIs
  <1> HIDE DEF kids
  <1>3. /\ kids \in Seq(Plan.nodes)
        /\ \A k \in 1 .. c : k \in Nat /\ kids[k] = Append(n, k)
    BY <1>2
  <1>4. n \in Node /\ n \notin Plan.bad
    BY <1>1 DEF n
  <1>5. /\ n \in Good(Plan)
        /\ \A k \in 1 .. c : /\ Sound(kids[k]) /\ Precedes(n, kids[k])
                             /\ \A i \in 1 .. Len(tail) : Before(kids[k], tail[i])
                             /\ \A j \in 1 .. c : k < j => Before(kids[k], kids[j])
    <2>1. \A k \in Nat : Sound(Append(n, k)) /\ n \in Good(Plan)
      BY <1>1, <1>4, SoundNested
    <2>2. ASSUME NEW k \in Nat
          PROVE  /\ Precedes(n, Append(n, k))
                 /\ \A i \in 1 .. Len(tail) : Before(Append(n, k), tail[i])
                 /\ \A j \in Nat : k < j => Before(Append(n, k), Append(n, j))
      <3>1. Precedes(n, Append(n, k))
        BY <1>4, UnderNode, PrecedesIs
      <3>2. \A i \in 1 .. Len(tail) : Before(Append(n, k), tail[i])
        BY <1>1, <1>4, UnderBefore
      <3> QED BY <1>4, <3>1, <3>2, SiblingsBefore
    <2>3. n \in Good(Plan)
      BY <2>1
    <2> QED BY <1>3, <2>1, <2>2, <2>3
  <1>6. \A k \in 1 .. c : \A r \in RowsOf(cur) : Precedes(metrics[r].node, kids[k])
    <2>1. \A r \in RowsOf(cur) : metrics[r].node \in Node
      <3> SUFFICES ASSUME NEW r \in RowsOf(cur) PROVE metrics[r].node \in Node
        OBVIOUS
      <3>1. metrics \in Seq(Row) /\ r \in 1 .. Len(metrics)
        BY LenProperties DEF RowsOf, RowsInv
      <3>2. metrics[r] \in Row
        BY <3>1, ElementOfSeq
      <3> QED BY <3>2 DEF Row
    <2> QED BY <1>1, <1>3, <1>4, <2>1, PrecedesUnder
  <1>7. \A m \in Plan.nodes : IsPrefix(n, m) =>
          m = n \/ \E k \in 1 .. c : IsPrefix(kids[k], m)
    BY <1>1, <1>2, UnderNested DEF kids
  <1>8. /\ new \in Seq(Plan.nodes) /\ Len(new) = c + Len(tail)
        /\ \A i \in 1 .. c : new[i] = kids[i]
        /\ \A i \in 1 .. Len(tail) : new[c + i] = tail[i] /\ c + i \in 1 .. Len(new)
    BY <1>1, <1>2, <1>3, ConcatProperties
  <1>9. ASSUME NEW i \in 1 .. Len(new)
        PROVE  i \in 1 .. c \/ (i > c /\ i - c \in 1 .. Len(tail) /\ new[i] = tail[i - c])
    <2>1. i \in 1 .. c \/ (i > c /\ i - c \in 1 .. Len(tail))
      BY <1>1, <1>2, <1>8
    <2>2. c + (i - c) = i
      OBVIOUS
    <2> HIDE DEF new
    <2> QED BY <1>8, <2>1, <2>2
  <1> HIDE DEF new
  <1>10. ASSUME NEW i \in 1 .. Len(new)
         PROVE  /\ Sound(new[i]) /\ Precedes(n, new[i])
                /\ \A r \in RowsOf(cur) : Precedes(metrics[r].node, new[i])
    <2>1. CASE i \in 1 .. c
      BY <1>5, <1>6, <1>8, <2>1
    <2>2. CASE i - c \in 1 .. Len(tail) /\ new[i] = tail[i - c]
      <3>1. PICK j \in 1 .. Len(tail) : new[i] = tail[j]
        BY <2>2
      <3>2. tail[j] \in Node /\ Precedes(n, tail[j])
        BY <1>1, <1>4, PrecedesIs
      <3> QED BY <1>1, <3>1, <3>2
    <2> QED BY <1>9, <2>1, <2>2
  <1>11. ASSUME NEW i \in 1 .. Len(new), NEW j \in 1 .. Len(new), i < j
         PROVE  Before(new[i], new[j])
    <2>1. CASE i \in 1 .. c /\ j \in 1 .. c
      BY <1>5, <1>8, <1>11, <2>1
    <2>2. CASE i \in 1 .. c /\ j - c \in 1 .. Len(tail) /\ new[j] = tail[j - c]
      BY <1>5, <1>8, <2>2
    <2>3. CASE /\ i > c /\ i - c \in 1 .. Len(tail) /\ new[i] = tail[i - c]
               /\ j - c \in 1 .. Len(tail) /\ new[j] = tail[j - c]
      <3>1. i - c < j - c
        BY <1>11
      <3> QED BY <1>1, <2>3, <3>1
    <2>4. i > c => j > c
      BY <1>11
    <2> QED BY <1>9, <2>1, <2>2, <2>3, <2>4
  <1>12. ASSUME NEW m \in Plan.nodes,
                \E i \in 1 .. Len(stack) : IsPrefix(stack[i], m)
         PROVE  m = n \/ \E i \in 1 .. Len(new) : IsPrefix(new[i], m)
    <2>1. CASE IsPrefix(n, m)
      <3>1. \A k \in 1 .. c : k \in 1 .. Len(new)
        BY <1>1, <1>8
      <3> QED BY <1>7, <1>8, <2>1, <3>1
    <2>2. CASE \E i \in 1 .. Len(tail) : IsPrefix(tail[i], m)
      BY <1>8, <2>2
    <2> QED BY <1>1, <1>12, <2>1, <2>2
  <1> QED BY <1>4, <1>5, <1>8, <1>10, <1>11, <1>12 DEF n, new, kids, tail

\* A node that is reported comes after all rows and before what is left.
LEMMA WalkVisits ==
  ASSUME IInv, WalkInv, Visit PROVE WalkInv'
  <1> DEFINE n == Head(stack)
             new == Nested(n) \o Tail(stack)
             row == [query |-> cur, node |-> n, level |-> level]
             next == Len(metrics) + 1
             rows == RowsOf(cur)
  <1>1. /\ pc = "walk" /\ pc' = "walk" /\ stack # <<>> /\ n \notin Plan.bad
        /\ stack' = new /\ metrics' = Append(metrics, row) /\ level' = level + 1
        /\ UNCHANGED <<argVars, todo, rest, cur, planOf, failed, starved>>
    BY DEF Visit
  <1>2. /\ RowsInv /\ StackInv /\ cur \in Query /\ level \in Nat
        /\ metrics \in Seq(Row)
    BY <1>1 DEF WalkInv, OrderInv, RowsInv, IInv, TypeOK
  <1>3. /\ n \in Node /\ n \in Good(Plan)
        /\ new \in Seq(Plan.nodes)
        /\ \A i \in 1 .. Len(new) :
             /\ Sound(new[i]) /\ Precedes(n, new[i])
             /\ \A r \in rows : Precedes(metrics[r].node, new[i])
        /\ \A i, j \in 1 .. Len(new) : i < j => Before(new[i], new[j])
        /\ \A m \in Plan.nodes :
             (\E i \in 1 .. Len(stack) : IsPrefix(stack[i], m)) =>
               m = n \/ \E i \in 1 .. Len(new) : IsPrefix(new[i], m)
    BY <1>1, <1>2, NewStack
  <1>4. \A r \in rows : Precedes(metrics[r].node, n)
    BY <1>1, <1>2, HeadOfStack
  <1> HIDE DEF n, new
  <1>5. row \in Row /\ row.query = cur /\ row.node = n /\ row.level = level
    BY <1>2, <1>3 DEF Row
  <1> HIDE DEF row
  <1>6. /\ metrics' \in Seq(Row) /\ Len(metrics) \in Nat
        /\ RowsOf(cur)' = rows \cup {next}
        /\ \A q : q # cur => RowsOf(q)' = RowsOf(q)
        /\ \A q : RowsOf(q) \subseteq 1 .. Len(metrics)
        /\ \A i \in 1 .. Len(metrics) : metrics'[i] = metrics[i]
        /\ metrics'[next] = row
    <2>1. /\ metrics' \in Seq(Row) /\ Len(metrics) \in Nat
          /\ \A q : RowsOf(q)' = IF q = row.query THEN RowsOf(q) \cup {Len(metrics) + 1}
                                 ELSE RowsOf(q)
          /\ \A q : RowsOf(q) \subseteq 1 .. Len(metrics)
          /\ \A i \in 1 .. Len(metrics) : metrics'[i] = metrics[i]
          /\ metrics'[Len(metrics) + 1] = row
      BY <1>1, <1>2, <1>5, RowsGrow
    <2>2. \A q : q = cur => RowsOf(cur)' = RowsOf(q)'
      BY <1>1 DEF RowsOf
    <2>3. RowsOf(cur)' = rows \cup {next}
      BY <1>5, <2>1, <2>2
    <2>4. \A q : q # cur => RowsOf(q)' = RowsOf(q)
      BY <1>5, <2>1
    <2> QED BY <2>1, <2>3, <2>4
  <1>7. /\ rows \subseteq 1 .. Len(metrics) /\ next \notin rows /\ next \in Nat
        /\ IsFiniteSet(rows) /\ Cardinality(rows) \in Nat
        /\ Cardinality(rows \cup {next}) = Cardinality(rows) + 1
        /\ \A r \in rows : r \in Nat /\ r < next /\ metrics'[r] = metrics[r]
    <2>1. rows \in SUBSET (1 .. Len(metrics)) /\ next \notin rows
      BY <1>6
    <2>2. IsFiniteSet(rows) /\ Cardinality(rows) \in Nat
      <3>1. IsFiniteSet(1 .. Len(metrics))
        BY <1>6, FS_Interval
      <3> HIDE DEF rows
      <3> QED BY <2>1, <3>1, FS_Subset, FS_CardinalityType
    <2>3. Cardinality(rows \cup {next}) = Cardinality(rows) + 1
      BY <2>1, <2>2, FS_AddElement
    <2> QED BY <1>6, <2>1, <2>2, <2>3
  <1> HIDE DEF rows, next
  <1>8. Plan' = Plan /\ cur' = cur
    BY <1>1 DEF Plan
  <1>9. Numbered(cur)'
    <2>1. /\ \A i \in rows : metrics[i].level = Cardinality({j \in rows : j < i})
          /\ \A i, j \in rows : i < j => Precedes(metrics[i].node, metrics[j].node)
      BY <1>2 DEF StackInv, Numbered, rows
    <2>2. ASSUME NEW i \in rows \cup {next}
          PROVE  metrics'[i].level = Cardinality({j \in rows \cup {next} : j < i})
      <3>1. CASE i \in rows
        <4>1. {j \in rows \cup {next} : j < i} = {j \in rows : j < i}
          BY <1>7, <3>1
        <4> QED BY <1>7, <2>1, <3>1, <4>1
      <3>2. CASE i = next
        <4> DEFINE all == rows \cup {next}
        <4>1. \A j \in all : j < next <=> j \in rows
          BY <1>7
        <4>2. rows \subseteq all
          OBVIOUS
        <4> HIDE DEF all
        <4>3. {j \in all : j < next} = rows
          BY <4>1, <4>2
        <4>4. {j \in rows \cup {next} : j < i} = rows
          BY <3>2, <4>3 DEF all
        <4>5. metrics'[i].level = Cardinality(rows)
          BY <1>2, <1>5, <1>6, <3>2 DEF StackInv, rows
        <4> QED BY <4>4, <4>5
      <3> QED BY <3>1, <3>2
    <2>3. ASSUME NEW i \in rows \cup {next}, NEW j \in rows \cup {next}, i < j
          PROVE  Precedes(metrics'[i].node, metrics'[j].node)
      <3>1. i \in rows
        BY <1>7, <2>3
      <3>2. CASE j \in rows
        BY <1>7, <2>1, <2>3, <3>1, <3>2
      <3>3. CASE j = next
        BY <1>4, <1>5, <1>6, <1>7, <3>1, <3>3
      <3> QED BY <3>2, <3>3
    <2> QED BY <1>6, <1>8, <2>2, <2>3 DEF Numbered
  <1>10. StackInv'
    <2>1. stack' \in Seq(Plan'.nodes)
      BY <1>1, <1>3, <1>8
    <2>2. \A i \in 1 .. Len(stack') : Sound(stack[i])'
      BY <1>1, <1>3, <1>8 DEF Sound
    <2>3. \A i \in 1 .. Len(stack') : \A r \in RowsOf(cur)' :
            Precedes(metrics'[r].node, stack'[i])
      <3>1. \A i \in 1 .. Len(new) : Precedes(metrics'[next].node, new[i])
        BY <1>3, <1>5, <1>6
      <3>2. \A i \in 1 .. Len(new) : \A r \in rows : Precedes(metrics'[r].node, new[i])
        BY <1>3, <1>7
      <3> QED BY <1>1, <1>6, <3>1, <3>2
    <2>4. \A r \in RowsOf(cur)' : metrics'[r].node \in Good(Plan)
      <3>1. \A r \in rows : metrics[r].node \in Good(Plan)
        BY <1>2 DEF StackInv, rows
      <3> QED BY <1>3, <1>5, <1>6, <1>7, <3>1
    <2>5. ASSUME NEW m \in Good(Plan)
          PROVE  \/ \E r \in RowsOf(cur)' : metrics'[r].node = m
                 \/ \E i \in 1 .. Len(new) : IsPrefix(new[i], m)
      <3>1. m \in Plan.nodes
        BY DEF Good
      <3>2. \/ \E r \in rows : metrics[r].node = m
            \/ \E i \in 1 .. Len(stack) : IsPrefix(stack[i], m)
        BY <1>2 DEF StackInv, rows
      <3>3. CASE \E r \in rows : metrics[r].node = m
        BY <1>6, <1>7, <3>3
      <3>4. CASE \E i \in 1 .. Len(stack) : IsPrefix(stack[i], m)
        BY <1>3, <1>5, <1>6, <3>1, <3>4
      <3> QED BY <3>2, <3>3, <3>4
    <2>6. level' = Cardinality(RowsOf(cur)')
      BY <1>1, <1>2, <1>6, <1>7 DEF StackInv, rows
    <2>7. \A i, j \in 1 .. Len(stack') : i < j => Before(stack'[i], stack'[j])
      BY <1>1, <1>3
    <2> QED BY <1>1, <1>8, <1>9, <2>1, <2>2, <2>3, <2>4, <2>5, <2>6, <2>7 DEF StackInv
  <1>11. \A q \in Query : q # cur =>
           /\ RowsOf(q)' = RowsOf(q)
           /\ \A i \in RowsOf(q) : metrics'[i] = metrics[i]
    BY <1>6
  <1> QED BY <1>1, <1>6, <1>10, <1>11, WalkGoesOn

LEMMA InitWalk == Init => WalkInv
  <1> SUFFICES ASSUME Init PROVE WalkInv
    OBVIOUS
  <1>1. /\ pc = "range" /\ rest = <<>> /\ metrics = <<>> /\ planOf = [q \in Query |-> NoPlan]
        /\ todo = {dbOf[q] : q \in Query} \ {NoDb}
    BY DEF Init
  <1>2. Len(rest) = 0 /\ metrics \in Seq(Row) /\ DOMAIN metrics = {}
    BY <1>1, EmptySeq
  <1>3. OrderInv
    BY <1>1, <1>2 DEF OrderInv
  <1>4. IsTree({})
    BY FS_EmptySet DEF IsTree
  <1>5. RowsInv
    <2>1. \A q \in Query : planOf[q] = NoPlan
      BY <1>1
    <2>2. NoPlan.nodes = {} /\ NoPlan.bad = {}
      BY DEF NoPlan
    <2> QED BY <1>1, <1>2, <1>4, <2>1, <2>2 DEF RowsInv, RowsOf
  <1>6. SettledInv
    BY <1>1 DEF SettledInv, Pending
  <1> QED BY <1>1, <1>3, <1>5, <1>6 DEF WalkInv

\* A walk is over when nothing is left on the stack.
LEMMA WalkOver ==
  ASSUME RowsInv, StackInv, stack = <<>> PROVE Reported(cur)
  <1>1. Len(stack) = 0
    BY EmptySeq
  <1>2. {metrics[i].node : i \in RowsOf(cur)} = Good(Plan)
    BY <1>1 DEF StackInv
  <1> QED BY <1>2 DEF StackInv, Numbered, Reported, Plan

LEMMA StepWalk == IInv /\ WalkInv /\ [Next]_vars => WalkInv'
  <1> SUFFICES ASSUME IInv, WalkInv, [Next]_vars PROVE WalkInv'
    OBVIOUS
  <1>0. dbOf \in [Query -> Db \cup {NoDb}]
    BY DEF IInv, PoolInv
  <1>1. CASE OpenGroup
    <2>1. PICK d \in todo : todo' = todo \ {d} /\ rest' = groupQueriesByDatabase[d]
      BY <1>1 DEF OpenGroup
    <2>2. /\ pc = "range" /\ pc' = "explain" /\ d \in Db /\ dbOf' = dbOf
          /\ UNCHANGED <<argVars, metrics, planOf, failed, starved>>
      BY <1>1 DEF OpenGroup, argVars, walkVars, IInv, TypeOK
    <2>3. IsGroup(rest', d, NumQueries) /\ rest = <<>> /\ Len(rest) = 0
      BY <1>0, <2>1, <2>2, GroupSound, EmptySeq DEF GroupsMatch, IInv, PoolInv
    <2>4. /\ \A i \in 1 .. Len(rest') : dbOf[rest'[i]] = d
          /\ \A q \in Query : dbOf[q] = d <=> \E i \in 1 .. Len(rest') : rest'[i] = q
          /\ \A i, j \in 1 .. Len(rest') : i < j => rest'[i] < rest'[j]
      BY <2>3 DEF IsGroup, UpTo, Query
    <2>5. OrderInv'
      BY <2>1, <2>2, <2>4 DEF OrderInv
    <2>6. \A q \in Query : Pending(q)' <=> Pending(q)
      BY <2>1, <2>2, <2>3, <2>4 DEF Pending
    <2>7. \A q \in Query : ~Walking(q)
      BY <2>2 DEF Walking
    <2> QED BY <2>2, <2>5, <2>6, <2>7, NoWalk
  <1>2. CASE GroupFails
    <2>1. PICK d \in todo : /\ todo' = todo \ {d}
                            /\ failed' = failed \cup {q \in Query : dbOf[q] = d}
      BY <1>2 DEF GroupFails
    <2>2. /\ pc = "range" /\ pc' = "range" /\ dbOf' = dbOf /\ rest' = rest
          /\ UNCHANGED <<argVars, metrics, planOf, starved>>
      BY <1>2 DEF GroupFails, argVars, walkVars
    <2>3. OrderInv'
      BY <2>1, <2>2 DEF WalkInv, OrderInv
    <2>4. ASSUME NEW q \in Query
          PROVE  /\ Pending(q)' => Pending(q)
                 /\ Pending(q) => Pending(q)' \/ Settled(q)'
                 /\ ~Walking(q)
      BY <2>1, <2>2 DEF Pending, Settled, Walking
    <2> QED BY <2>1, <2>2, <2>3, <2>4, NoWalk
  <1>3. CASE CloseGroup \/ Finish
    <2>1. /\ pc \in {"range", "explain"} /\ rest' = rest /\ todo' = todo
          /\ pc' \in {"range", "done"} /\ (pc' = "done" => todo = {})
          /\ UNCHANGED <<argVars, metrics, planOf, failed, starved>> /\ dbOf' = dbOf
      BY <1>3 DEF CloseGroup, Finish, argVars, walkVars
    <2>2. OrderInv'
      BY <2>1 DEF WalkInv, OrderInv
    <2>3. \A q \in Query : (Pending(q)' <=> Pending(q)) /\ ~Walking(q)
      BY <2>1 DEF Pending, Walking
    <2> QED BY <2>1, <2>2, <2>3, NoWalk
  <1>4. CASE WalkEnds
    <2>1. /\ pc = "walk" /\ pc' = "explain" /\ stack = <<>> /\ rest' = rest /\ todo' = todo
          /\ UNCHANGED <<argVars, metrics, planOf, failed, starved>> /\ dbOf' = dbOf
      BY <1>4 DEF WalkEnds, argVars, walkVars
    <2>2. OrderInv'
      BY <2>1 DEF WalkInv, OrderInv
    <2>3. \A q \in Query : Pending(q)' <=> Pending(q)
      BY <2>1 DEF Pending
    <2>4. Reported(cur)
      BY <2>1, WalkOver DEF WalkInv
    <2>5. ASSUME NEW q \in Query, Walking(q) PROVE Settled(q)'
      <3>1. Reported(q)
        BY <2>4, <2>5 DEF Walking
      <3> QED BY <2>1, <3>1 DEF Settled, Reported, RowsOf
    <2> QED BY <2>1, <2>2, <2>3, <2>5, NoWalk
  <1>5. CASE SkipIncomplete \/ NoConnectionLeft \/ ExplainFails
    <2>1. /\ Explaining /\ Skip
          /\ UNCHANGED <<argVars, pc, todo, metrics, planOf>>
          /\ failed \subseteq failed' /\ starved \subseteq starved' /\ hasText' = hasText
          /\ \/ Head(rest) \notin hasText
             \/ Head(rest) \in failed' \cup starved'
      BY <1>5 DEF SkipIncomplete, NoConnectionLeft, ExplainFails, argVars, walkVars
    <2>2. \A h : h = Head(rest) => Settled(h)'
      BY <2>1 DEF Settled
    <2> QED BY <2>1, <2>2, SkipWalk
  <1>6. CASE UNCHANGED vars
    <2>1. UNCHANGED <<argVars, pc, todo, rest, cur, stack, level, metrics, planOf,
                      failed, starved>> /\ dbOf' = dbOf /\ hasText' = hasText
      BY <1>6 DEF vars, argVars, walkVars
    <2>2. (\A q : Pending(q)' <=> Pending(q)) /\ Pending(cur)' = Pending(cur)
      BY <2>1 DEF Pending
    <2>3. OrderInv'
      BY <2>1, <2>2 DEF WalkInv, OrderInv
    <2>4. (\A q : RowsOf(q)' = RowsOf(q)) /\ RowsOf(cur)' = RowsOf(cur) /\ Plan' = Plan
      BY <2>1 DEF RowsOf, Plan
    <2>5. RowsInv'
      BY <2>1, <2>2, <2>4 DEF WalkInv, RowsInv
    <2>6. ASSUME NEW q \in Query, Settled(q) PROVE Settled(q)'
      BY <2>1, <2>4, <2>6 DEF Settled, Reported
    <2>7. SettledInv'
      BY <2>1, <2>2, <2>6 DEF WalkInv, SettledInv, Walking
    <2>8. StackInv => StackInv'
      BY <2>1, <2>4 DEF StackInv, Numbered, Sound
    <2> QED BY <2>1, <2>3, <2>5, <2>7, <2>8 DEF WalkInv
  <1> QED
    BY <1>1, <1>2, <1>3, <1>4, <1>5, <1>6, WalkStarts, WalkVisits, WalkLeavesOut
    DEF Next

\* For any plan trees: a query that was neither starved nor failed reports
\* exactly the nodes that can be decoded with their ancestors, each once, depth
\* first, with levels that number them.
THEOREM WholeAndNumbered == Spec => []PlansAreWholeAndNumbered
  <1>1. Init => IInv /\ WalkInv /\ hasText \subseteq Query
    BY InitPool, InitWalk DEF Init
  <1>2. IInv /\ WalkInv /\ hasText \subseteq Query /\ [Next]_vars
          => (IInv /\ WalkInv /\ hasText \subseteq Query)'
    <2>1. [Next]_vars => hasText' = hasText
      BY DEF Next, vars, argVars, OpenGroup, GroupFails, CloseGroup, Finish,
             SkipIncomplete, NoConnectionLeft, ExplainFails, ExplainAnswers,
             Visit, VisitFails, WalkEnds
    <2> QED BY <2>1, StepPool, StepWalk
  <1>3. IInv /\ WalkInv /\ hasText \subseteq Query => PlansAreWholeAndNumbered
    <2> SUFFICES ASSUME IInv, WalkInv, hasText \subseteq Query, pc = "done",
                        NEW q \in hasText \ (failed \cup starved), dbOf[q] # NoDb
                 PROVE  Reported(q)
      BY DEF PlansAreWholeAndNumbered
    <2>1. todo = {} /\ Len(rest) = 0
      BY EmptySeq DEF WalkInv, OrderInv, IInv, PoolInv
    <2>2. ~Pending(q) /\ ~Walking(q)
      BY <2>1 DEF Pending, Walking
    <2> QED BY <2>2 DEF WalkInv, SettledInv, Settled
  <1> QED BY <1>1, <1>2, <1>3, PTL DEF Spec
=============================================================================
