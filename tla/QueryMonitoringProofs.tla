------------------------ MODULE QueryMonitoringProofs ------------------------
(***************************************************************************)
(* Proofs about the query monitoring pipeline, for any servers, databases, *)
(* versions and plan ids.                                                  *)
(***************************************************************************)
EXTENDS QueryMonitoring, SequenceTheorems, WellFoundedInduction, TLAPS

-----------------------------------------------------------------------------
(* Induction over the elements of a list *)

\* The library's induction takes an operator; over a set of numbers it is a
\* consequence of the order on Nat being well founded.
LEMMA LeastElement ==
  ASSUME NEW T \in SUBSET Nat, T # {}
  PROVE  \E x \in T : \A y \in T : x <= y
  <1> DEFINE R == {ss \in Nat \X Nat : ss[1] < ss[2]}
  <1>1. IsWellFoundedOn(R, Nat)
    BY NatLessThanWellFounded DEF OpToRel
  <1>2. \E x \in T : \A y \in T : ~(<<y, x>> \in R)
    <2> HIDE DEF R
    <2> QED BY <1>1, WFMin
  <1>3. ASSUME NEW x \in T, NEW y \in T, ~(<<y, x>> \in R) PROVE x <= y
    BY <1>3
  <1> QED BY <1>2, <1>3

LEMMA SetInduction ==
  ASSUME NEW T, 0 \in T, \A n \in Nat : n \in T => n + 1 \in T
  PROVE  Nat \subseteq T
  <1> SUFFICES ASSUME Nat \ T # {} PROVE FALSE
    OBVIOUS
  <1>1. PICK x \in Nat \ T : \A y \in Nat \ T : x <= y
    BY LeastElement
  <1>2. x - 1 \in Nat /\ x - 1 \in T
    BY <1>1
  <1> QED BY <1>1, <1>2

-----------------------------------------------------------------------------
(* Lists *)

\* The elements of a list are its range.
LEMMA RangeType ==
  ASSUME NEW S, NEW s \in Seq(S)
  PROVE  /\ DOMAIN s = 1 .. Len(s) /\ Len(s) \in Nat
         /\ Range(s) \subseteq S
         /\ s \in Seq(Range(s))
         /\ \A i \in DOMAIN s : s[i] \in Range(s)
  <1>1. /\ DOMAIN s = 1 .. Len(s) /\ Len(s) \in Nat
        /\ \A i \in DOMAIN s : s[i] \in S
    BY LenProperties
  <1>2. \A i \in DOMAIN s : s[i] \in Range(s)
    BY Zenon DEF Range
  <1>3. Range(s) \subseteq S
    BY <1>1 DEF Range
  <1>4. s \in Seq(Range(s))
    BY <1>1, <1>2, IsASeq
  <1> QED BY <1>1, <1>2, <1>3, <1>4

LEMMA RangeAppend ==
  ASSUME NEW S, NEW s \in Seq(S), NEW e \in S
  PROVE  Append(s, e) \in Seq(S) /\ Range(Append(s, e)) = Range(s) \cup {e}
  <1> DEFINE t == Append(s, e)
  <1>1. /\ t \in Seq(S) /\ Len(t) = Len(s) + 1
        /\ DOMAIN t = 1 .. Len(s) + 1 /\ DOMAIN s = 1 .. Len(s) /\ Len(s) \in Nat
        /\ \A i \in 1 .. Len(s) : t[i] = s[i]
        /\ t[Len(s) + 1] = e
    BY AppendProperties, LenProperties
  <1> HIDE DEF t
  <1>2. Range(t) \subseteq Range(s) \cup {e}
    BY <1>1 DEF Range
  <1>3. Range(s) \subseteq Range(t)
    BY <1>1 DEF Range
  <1>4. e \in Range(t)
    <2>1. Len(s) + 1 \in DOMAIN t
      BY <1>1
    <2> QED BY <1>1, <2>1, Zenon DEF Range
  <1> QED BY <1>1, <1>2, <1>3, <1>4 DEF t

LEMMA RangeConcat ==
  ASSUME NEW S, NEW s \in Seq(S), NEW t \in Seq(S)
  PROVE  /\ s \o t \in Seq(S) /\ Len(s \o t) = Len(s) + Len(t)
         /\ Range(s \o t) = Range(s) \cup Range(t)
         /\ \A i \in 1 .. Len(s) : (s \o t)[i] = s[i]
         /\ \A i \in DOMAIN (s \o t) : i \notin 1 .. Len(s) => (s \o t)[i] \in Range(t)
  <1> DEFINE u == s \o t
  <1>1. /\ u \in Seq(S) /\ Len(u) = Len(s) + Len(t)
        /\ \A i \in 1 .. Len(s) + Len(t) :
             u[i] = IF i <= Len(s) THEN s[i] ELSE t[i - Len(s)]
    BY ConcatProperties
  <1>2. /\ DOMAIN u = 1 .. Len(s) + Len(t)
        /\ DOMAIN s = 1 .. Len(s) /\ Len(s) \in Nat
        /\ DOMAIN t = 1 .. Len(t) /\ Len(t) \in Nat
    BY <1>1, RangeType
  <1> HIDE DEF u
  <1>3. ASSUME NEW i \in DOMAIN u, i \notin 1 .. Len(s) PROVE u[i] \in Range(t)
    <2>1. i - Len(s) \in DOMAIN t /\ u[i] = t[i - Len(s)]
      BY <1>1, <1>2, <1>3
    <2> QED BY <2>1, Zenon DEF Range
  <1>4. ASSUME NEW i \in DOMAIN s PROVE i \in DOMAIN u /\ u[i] = s[i]
    BY <1>1, <1>2
  <1>5. ASSUME NEW i \in DOMAIN t PROVE \E j \in DOMAIN u : u[j] = t[i]
    <2>1. /\ Len(s) + i \in DOMAIN u /\ u[Len(s) + i] = t[i]
      BY <1>1, <1>2
    <2> QED BY <2>1, Zenon
  <1>6. Range(u) \subseteq Range(s) \cup Range(t)
    BY <1>2, <1>3, <1>4 DEF Range
  <1>7. Range(s) \subseteq Range(u) /\ Range(t) \subseteq Range(u)
    BY <1>4, <1>5 DEF Range
  <1> QED BY <1>1, <1>2, <1>3, <1>6, <1>7 DEF u

\* The recursive function of Only exists: its values can be written down
\* element by element.
Kept(f, list, places, n) ==
  f = [k \in 0 .. n |->
         IF k = 0 THEN <<>>
         ELSE IF k \in places THEN Append(f[k - 1], list[k]) ELSE f[k - 1]]

LEMMA KeptExists ==
  ASSUME NEW list, NEW places, NEW m \in Nat
  PROVE  \E f : Kept(f, list, places, m)
  <1> DEFINE Next1(s, k) == IF k \in places THEN Append(s, list[k]) ELSE s
             T == {n \in Nat : \E f : Kept(f, list, places, n)}
  <1>1. 0 \in T
    <2>1. Kept([k \in 0 .. 0 |-> <<>>], list, places, 0)
      BY DEF Kept
    <2> QED BY <2>1
  <1>2. ASSUME NEW n \in Nat, n \in T PROVE n + 1 \in T
    <2>1. PICK f : Kept(f, list, places, n)
      BY <1>2
    <2> DEFINE g == [k \in 0 .. n + 1 |-> IF k = n + 1 THEN Next1(f[n], k) ELSE f[k]]
    <2>2. /\ g[n + 1] = Next1(g[n], n + 1)
          /\ \A k \in 0 .. n : g[k] = f[k]
      OBVIOUS
    <2>3. ASSUME NEW k \in 0 .. n + 1
          PROVE  g[k] = IF k = 0 THEN <<>> ELSE Next1(g[k - 1], k)
      <3>1. CASE k = n + 1
        BY <2>2, <3>1
      <3>2. CASE k = 0
        BY <2>1, <2>2, <3>2 DEF Kept
      <3>3. CASE k # n + 1 /\ k # 0
        <4>1. k \in 0 .. n /\ k - 1 \in 0 .. n
          BY <3>3
        <4>2. f[k] = Next1(f[k - 1], k)
          BY <2>1, <3>3, <4>1 DEF Kept
        <4> QED BY <2>2, <3>3, <4>1, <4>2
      <3> QED BY <3>1, <3>2, <3>3
    <2>4. Kept(g, list, places, n + 1)
      <3>1. g = [k \in 0 .. n + 1 |-> g[k]]
        OBVIOUS
      <3> HIDE DEF g
      <3> QED BY <2>3, <3>1 DEF Kept
    <2>5. \E h : Kept(h, list, places, n + 1)
      <3> HIDE DEF g
      <3> QED BY <2>4
    <2> HIDE DEF g
    <2> QED BY <2>5
  <1>3. Nat \subseteq T
    <2> HIDE DEF T
    <2> QED BY <1>1, <1>2, SetInduction
  <1> QED BY <1>3

LEMMA OnlyDef ==
  ASSUME NEW list, Len(list) \in Nat, NEW places
  PROVE  \E f : /\ Kept(f, list, places, Len(list))
                /\ Only(list, places) = f[Len(list)]
  <1> DEFINE f == CHOOSE h : Kept(h, list, places, Len(list))
  <1>1. Kept(f, list, places, Len(list))
    BY KeptExists
  <1>2. Only(list, places) = f[Len(list)]
    BY Zenon DEF Only, Kept
  <1> HIDE DEF f
  <1> QED BY <1>1, <1>2

\* Only keeps the elements at the places, and nothing else.
LEMMA OnlyRange ==
  ASSUME NEW S, NEW list \in Seq(S), NEW places
  PROVE  /\ Only(list, places) \in Seq(S)
         /\ Range(Only(list, places)) = {list[i] : i \in places \cap DOMAIN list}
  <1> DEFINE l == Len(list)
  <1>1. l \in Nat /\ DOMAIN list = 1 .. l /\ \A i \in 1 .. l : list[i] \in S
    BY RangeType, LenProperties
  <1>2. PICK f : Kept(f, list, places, l) /\ Only(list, places) = f[l]
    BY <1>1, OnlyDef
  <1> DEFINE Right(n) == /\ f[n] \in Seq(S)
                         /\ Range(f[n]) = {list[i] : i \in places \cap (1 .. n)}
             T == {n \in Nat : n <= l => Right(n)}
  <1> HIDE DEF l
  <1>3. 0 \in T
    <2>1. f[0] = <<>>
      BY <1>1, <1>2 DEF Kept
    <2>2. Range(<<>>) = {} /\ 1 .. 0 = {}
      BY DEF Range
    <2>3. Right(0)
      BY <2>1, <2>2
    <2> HIDE DEF Right
    <2> QED BY <2>3
  <1>4. ASSUME NEW n \in Nat, n \in T, n + 1 <= l PROVE Right(n + 1)
    <2>1. Right(n)
      BY <1>1, <1>4
    <2>2. f[n + 1] = IF n + 1 \in places THEN Append(f[n], list[n + 1]) ELSE f[n]
      <3>1. n + 1 \in 0 .. l /\ n + 1 # 0 /\ (n + 1) - 1 = n
        BY <1>1, <1>4
      <3> QED BY <1>2, <3>1 DEF Kept
    <2>3. 1 .. n + 1 = (1 .. n) \cup {n + 1} /\ list[n + 1] \in S
      BY <1>1, <1>4
    <2>4. CASE n + 1 \in places
      <3>1. /\ f[n + 1] \in Seq(S)
            /\ Range(f[n + 1]) = Range(f[n]) \cup {list[n + 1]}
        BY <2>1, <2>2, <2>3, <2>4, RangeAppend
      <3> QED BY <2>1, <2>3, <2>4, <3>1
    <2>5. CASE n + 1 \notin places
      <3>1. places \cap (1 .. n + 1) = places \cap (1 .. n)
        BY <2>3, <2>5
      <3> QED BY <2>1, <2>2, <2>5, <3>1
    <2> QED BY <2>4, <2>5
  <1>5. Nat \subseteq T
    <2>1. \A n \in Nat : n \in T => n + 1 \in T
      <3> HIDE DEF Right
      <3> QED BY <1>4, <1>1
    <2> HIDE DEF T
    <2> QED BY <1>3, <2>1, SetInduction
  <1>6. Right(l)
    <2> HIDE DEF Right
    <2> QED BY <1>1, <1>5
  <1> QED BY <1>1, <1>2, <1>6

\* The same for FlattenSeq.
Joined(f, seqs, n) ==
  f = [k \in 1 .. n |-> IF k = 1 THEN seqs[k] ELSE f[k - 1] \o seqs[k]]

LEMMA JoinedExists ==
  ASSUME NEW seqs, NEW m \in Nat
  PROVE  \E f : Joined(f, seqs, m)
  <1> DEFINE T == {n \in Nat : \E f : Joined(f, seqs, n)}
  <1>1. 0 \in T
    <2>1. Joined([k \in 1 .. 0 |-> <<>>], seqs, 0)
      BY DEF Joined
    <2> QED BY <2>1
  <1>2. ASSUME NEW n \in Nat, n \in T PROVE n + 1 \in T
    <2>1. PICK f : Joined(f, seqs, n)
      BY <1>2
    <2> DEFINE new == IF n + 1 = 1 THEN seqs[n + 1] ELSE f[n] \o seqs[n + 1]
               g == [k \in 1 .. n + 1 |-> IF k = n + 1 THEN new ELSE f[k]]
    <2>2. /\ g[n + 1] = IF n + 1 = 1 THEN seqs[n + 1] ELSE g[n] \o seqs[n + 1]
          /\ \A k \in 1 .. n : g[k] = f[k]
      <3>1. g[n + 1] = new /\ \A k \in 1 .. n : g[k] = f[k]
        <4> HIDE DEF new
        <4> QED OBVIOUS
      <3>2. n + 1 # 1 => g[n] = f[n]
        <4>1. n + 1 # 1 => n \in 1 .. n
          OBVIOUS
        <4> HIDE DEF g
        <4> QED BY <3>1, <4>1
      <3> HIDE DEF g
      <3> QED BY <3>1, <3>2
    <2>3. ASSUME NEW k \in 1 .. n + 1
          PROVE  g[k] = IF k = 1 THEN seqs[k] ELSE g[k - 1] \o seqs[k]
      <3>1. CASE k = n + 1
        BY <2>2, <3>1
      <3>2. CASE k = 1 /\ k # n + 1
        BY <2>1, <2>2, <3>2 DEF Joined
      <3>3. CASE k # n + 1 /\ k # 1
        <4>1. k \in 1 .. n /\ k - 1 \in 1 .. n
          BY <3>3
        <4>2. f[k] = f[k - 1] \o seqs[k]
          BY <2>1, <3>3, <4>1 DEF Joined
        <4> QED BY <2>2, <3>3, <4>1, <4>2
      <3> QED BY <3>1, <3>2, <3>3
    <2>4. Joined(g, seqs, n + 1)
      <3>1. g = [k \in 1 .. n + 1 |-> g[k]]
        OBVIOUS
      <3> HIDE DEF g
      <3> QED BY <2>3, <3>1 DEF Joined
    <2>5. \E h : Joined(h, seqs, n + 1)
      <3> HIDE DEF g
      <3> QED BY <2>4
    <2> HIDE DEF g
    <2> QED BY <2>5
  <1>3. Nat \subseteq T
    <2> HIDE DEF T
    <2> QED BY <1>1, <1>2, SetInduction
  <1> QED BY <1>3

\* A list of lists, flattened, has the elements of the lists.
LEMMA FlattenRange ==
  ASSUME NEW S, NEW seqs \in Seq(Seq(S))
  PROVE  /\ FlattenSeq(seqs) \in Seq(S)
         /\ Range(FlattenSeq(seqs)) = UNION {Range(seqs[i]) : i \in DOMAIN seqs}
  <1> DEFINE l == Len(seqs)
  <1>1. l \in Nat /\ DOMAIN seqs = 1 .. l /\ \A i \in 1 .. l : seqs[i] \in Seq(S)
    BY RangeType, LenProperties
  <1>2. CASE l = 0
    <2>1. FlattenSeq(seqs) = seqs /\ seqs = <<>> /\ DOMAIN seqs = {}
      BY <1>1, <1>2, EmptySeq DEF FlattenSeq
    <2> QED BY <2>1 DEF Range
  <1>3. CASE l # 0
    <2> DEFINE f == CHOOSE h : Joined(h, seqs, l)
    <2>1. Joined(f, seqs, l)
      BY <1>1, JoinedExists
    <2>2. FlattenSeq(seqs) = f[l]
      BY <1>3, Zenon DEF FlattenSeq, Joined
    <2> DEFINE Right(n) ==
                 /\ f[n] \in Seq(S)
                 /\ Range(f[n]) = UNION {Range(seqs[i]) : i \in 1 .. n}
               T == {n \in Nat : n \in 1 .. l => Right(n)}
    <2> HIDE DEF l, f
    <2>3. 0 \in T
      <3> HIDE DEF Right
      <3> QED OBVIOUS
    <2>4. ASSUME NEW n \in Nat, n \in T, n + 1 \in 1 .. l PROVE Right(n + 1)
      <3>1. CASE n = 0
        <4>1. f[1] = seqs[1]
          BY <1>1, <1>3, <2>1 DEF Joined
        <4>2. 1 .. 1 = {1} /\ seqs[1] \in Seq(S)
          BY <1>1, <1>3
        <4>3. UNION {Range(seqs[i]) : i \in 1 .. 1} = Range(seqs[1])
          BY <4>2
        <4> QED BY <3>1, <4>1, <4>2, <4>3
      <3>2. CASE n # 0
        <4>1. Right(n)
          BY <1>1, <2>4, <3>2
        <4>2. f[n + 1] = f[n] \o seqs[n + 1]
          <5>1. n + 1 \in 1 .. l /\ n + 1 # 1 /\ (n + 1) - 1 = n
            BY <1>1, <2>4, <3>2
          <5> QED BY <2>1, <5>1 DEF Joined
        <4>3. 1 .. n + 1 = (1 .. n) \cup {n + 1} /\ seqs[n + 1] \in Seq(S)
          BY <1>1, <2>4
        <4>4. /\ f[n + 1] \in Seq(S)
              /\ Range(f[n + 1]) = Range(f[n]) \cup Range(seqs[n + 1])
          BY <4>1, <4>2, <4>3, RangeConcat
        <4>5. UNION {Range(seqs[i]) : i \in 1 .. n + 1}
                = (UNION {Range(seqs[i]) : i \in 1 .. n}) \cup Range(seqs[n + 1])
          BY <4>3
        <4> QED BY <4>1, <4>4, <4>5
      <3> QED BY <3>1, <3>2
    <2>5. Nat \subseteq T
      <3>1. \A n \in Nat : n \in T => n + 1 \in T
        <4> HIDE DEF Right
        <4> QED BY <2>4
      <3> HIDE DEF T
      <3> QED BY <2>3, <3>1, SetInduction
    <2>6. Right(l)
      <3> HIDE DEF Right
      <3> QED BY <1>1, <1>3, <2>5
    <2> QED BY <1>1, <2>2, <2>6
  <1> QED BY <1>2, <1>3

\* What is left of an answer that breaks off is part of it.
LEMMA FetchPart ==
  ASSUME NEW S, NEW answer \in Seq(S), NEW list \in Fetch(answer)
  PROVE  list \in Seq(S) /\ Range(list) \subseteq Range(answer)
  <1>1. PICK n \in 0 .. Len(answer) : list = SubSeq(answer, 1, n)
    BY DEF Fetch
  <1>2. Len(answer) \in Nat /\ DOMAIN answer = 1 .. Len(answer)
    BY RangeType
  <1>3. CASE n = 0
    <2>1. list = <<>>
      BY <1>1, <1>2, <1>3, SubSeqEmpty
    <2> QED BY <2>1 DEF Range
  <1>4. CASE n # 0
    <2>1. /\ list \in Seq(S) /\ Len(list) = n
          /\ \A i \in 1 .. n : list[i] = answer[i]
      BY <1>1, <1>2, <1>4, SubSeqProperties
    <2>2. DOMAIN list = 1 .. n
      BY <2>1, RangeType
    <2> QED BY <1>2, <2>1, <2>2 DEF Range
  <1> QED BY <1>3, <1>4

-----------------------------------------------------------------------------
(* The inductive invariant *)

RowType ==
  [event : Stage, of : Seq(Statement), from : Seq(Statement),
   plan : PlanIds \cup {NoPlan}]

Rows == {row \in RowType : row.event = "plan" => row.from[1].id # NoId}

TypeInv ==
  /\ server \in ServerType /\ version \in Nat /\ isRds \in BOOLEAN
  /\ pc \in {"start", "run", "done"} /\ failed \subseteq Stage
  /\ slowQueries \in Seq(Statement)
  /\ reported \in Seq(Rows) /\ kept \in Seq(Rows)
  /\ individualQueries \in Seq(Rows)

\* What is still to do is the rest of the stages.
RestFrom(k) == SubSeq(Stages, k, 5)
TodoInv ==
  IF pc = "run" THEN \E k \in 1 .. 6 : todo = RestFrom(k) ELSE todo = <<>>

\* Nobody is asked before the version is known to be supported.
AskInv ==
  /\ pc = "start" => asked = {}
  /\ pc = "run" => version >= 12
  /\ QueriesFitServer

\* What a row refers to is among the first n of a list.
SlowRow(st) == Row("slow", <<st>>, <<st>>, NoPlan)

Correlated(row, rds) ==
  \/ row.event = "individual"
  \/ rds /\ row.event \in {"wait", "blocking"}

Grounded(row, list, n, rds) ==
  /\ row.event = "plan" =>
       \E j \in 1 .. n : /\ list[j].event = "individual"
                         /\ [list[j] EXCEPT !.event = "plan"] = row
  /\ Correlated(row, rds) =>
       \A st \in Range(row.from) : \E j \in 1 .. n : list[j] = SlowRow(st)

\* The rows a failed publish kept are as well founded as those reported, and a
\* list is handed on only after its rows have been reported.
TraceInv ==
  /\ \A i \in DOMAIN reported : Grounded(reported[i], reported, i - 1, isRds)
  /\ \A row \in Range(kept) : Grounded(row, reported, Len(reported), isRds)
  /\ \A st \in Range(slowQueries) : SlowRow(st) \in Range(reported)
  /\ \A row \in Range(individualQueries) :
       row.event = "individual" /\ row \in Range(reported)

\* A stage that is over and sound has reported all there was.
Over(stage) == stage \notin Range(todo) /\ Sound(stage)

LocalInv ==
  pc = "run" \/ asked # {} =>
    /\ Over("slow") => Range(slowQueries) = SlowOnes /\ SlowComplete
    /\ Over("slow") /\ Over("individual") => IndividualComplete
    /\ Over("wait") /\ (isRds => Over("slow")) => WaitComplete
    /\ Over("blocking") /\ (isRds => Over("slow")) => BlockingComplete

IInv == TypeInv /\ TodoInv /\ AskInv /\ TraceInv /\ LocalInv

-----------------------------------------------------------------------------
(* Publishing *)

\* Whether a publish succeeds or fails, what is reported is as well founded as
\* the rows that are published, and nothing reported goes away.
LEMMA Published ==
  ASSUME TypeInv, TraceInv, NEW rows \in Seq(Rows),
         \A row \in Range(rows) : Grounded(row, reported, Len(reported), isRds),
         IngestMetric(rows) \/ IngestFails(rows)
  PROVE  /\ reported' \in Seq(Rows) /\ kept' \in Seq(Rows)
         /\ \A i \in DOMAIN reported' :
              Grounded(reported'[i], reported', i - 1, isRds)
         /\ \A row \in Range(kept') :
              Grounded(row, reported', Len(reported'), isRds)
         /\ Range(reported) \subseteq Range(reported')
         /\ IngestMetric(rows) => Range(rows) \subseteq Range(reported')
  <1>1. /\ reported \in Seq(Rows) /\ kept \in Seq(Rows)
        /\ DOMAIN reported = 1 .. Len(reported) /\ Len(reported) \in Nat
    BY RangeType DEF TypeInv
  <1>2. /\ \A i \in DOMAIN reported : Grounded(reported[i], reported, i - 1, isRds)
        /\ \A row \in Range(kept) : Grounded(row, reported, Len(reported), isRds)
    BY DEF TraceInv
  <1>e. Range(<<>>) = {}
    BY DEF Range
  <1>3. CASE IngestFails(rows)
    <2>1. reported' = reported /\ kept' \in {kept \o rows, <<>>} /\ rows # <<>>
      BY <1>3 DEF IngestFails
    <2>2. kept \o rows \in Seq(Rows) /\ Range(kept \o rows) = Range(kept) \cup Range(rows)
      BY <1>1, RangeConcat
    <2>3. kept' \in Seq(Rows) /\ Range(kept') \subseteq Range(kept) \cup Range(rows)
      <3>1. <<>> \in Seq(Rows)
        BY EmptySeq
      <3> QED BY <2>1, <2>2, <1>e, <3>1
    <2>4. IngestMetric(rows) => Range(rows) \subseteq Range(reported')
      <3>1. IngestMetric(rows) => reported' = reported \o kept \o rows
        BY <2>1 DEF IngestMetric
      <3> DEFINE before == reported \o kept
      <3>2. before \in Seq(Rows)
        BY <1>1, RangeConcat
      <3>3. Range(before \o rows) = Range(before) \cup Range(rows)
        <4> HIDE DEF before
        <4> QED BY <3>2, RangeConcat
      <3> QED BY <3>1, <3>3
    <2> QED BY <1>1, <1>2, <2>1, <2>3, <2>4
  <1>4. CASE IngestMetric(rows) /\ rows = <<>>
    <2>1. reported' = reported /\ kept' = kept
      BY <1>4 DEF IngestMetric
    <2> QED BY <1>1, <1>2, <1>4, <1>e, <2>1
  <1>5. CASE IngestMetric(rows) /\ rows # <<>>
    <2>1. reported' = reported \o kept \o rows /\ kept' = <<>>
      BY <1>5 DEF IngestMetric
    <2> DEFINE more == kept \o rows
    <2>2. more \in Seq(Rows) /\ Range(more) = Range(kept) \cup Range(rows)
      BY <1>1, RangeConcat
    <2>3. reported' = reported \o more
      BY <1>1, <2>1, ConcatAssociative
    <2> HIDE DEF more
    <2>4. /\ reported' \in Seq(Rows) /\ Len(reported') = Len(reported) + Len(more)
          /\ Range(reported') = Range(reported) \cup Range(more)
          /\ \A i \in 1 .. Len(reported) : reported'[i] = reported[i]
          /\ \A i \in DOMAIN reported' :
               i \notin 1 .. Len(reported) => reported'[i] \in Range(more)
      BY <1>1, <2>2, <2>3, RangeConcat
    <2>5. DOMAIN reported' = 1 .. Len(reported')
      BY <2>4, RangeType
    <2>6. \A row \in Range(more) : Grounded(row, reported, Len(reported), isRds)
      BY <1>2, <2>2
    <2>7. ASSUME NEW row, NEW n \in Nat, NEW m \in Nat, n <= m, n <= Len(reported),
                 Grounded(row, reported, n, isRds)
          PROVE  Grounded(row, reported', m, isRds)
      <3>1. \A j \in 1 .. n : j \in 1 .. m /\ reported'[j] = reported[j]
        BY <1>1, <2>4, <2>7
      <3> QED BY <2>7, <3>1 DEF Grounded
    <2>8. ASSUME NEW i \in DOMAIN reported'
          PROVE  Grounded(reported'[i], reported', i - 1, isRds)
      <3>1. i \in Nat /\ i >= 1 /\ i - 1 \in Nat
        BY <1>1, <2>5
      <3>2. CASE i \in 1 .. Len(reported)
        <4>1. reported'[i] = reported[i] /\ i \in DOMAIN reported /\ i - 1 <= Len(reported)
          BY <1>1, <2>4, <3>2
        <4>2. Grounded(reported[i], reported, i - 1, isRds)
          BY <1>2, <4>1
        <4> QED BY <2>7, <3>1, <4>1, <4>2
      <3>3. CASE i \notin 1 .. Len(reported)
        <4>1. reported'[i] \in Range(more) /\ Len(reported) <= i - 1
          BY <1>1, <2>4, <3>1, <3>3
        <4>2. Grounded(reported'[i], reported, Len(reported), isRds)
          BY <2>6, <4>1
        <4> QED BY <1>1, <2>7, <3>1, <4>1, <4>2
      <3> QED BY <3>2, <3>3
    <2>9. <<>> \in Seq(Rows)
      BY EmptySeq
    <2> QED BY <1>e, <2>1, <2>2, <2>4, <2>8, <2>9
  <1> QED BY <1>3, <1>4, <1>5

-----------------------------------------------------------------------------
(* The rows of the stages *)

\* Everything a server answers is a list of statements.
LEMMA Answers ==
  ASSUME TypeInv
  PROVE  /\ Listed(server.slow) \in Seq(Statement)
         /\ Listed(server.samples) \in Seq(Statement)
         /\ server.active \in Seq(Statement)
         /\ Waits \in Seq(Statement)
         /\ Blocks \in Seq(Statement \X Statement)
  <1>1. /\ server.slow \in Seq(Statement) /\ server.samples \in Seq(Statement)
        /\ server.active \in Seq(Statement) /\ server.waits \in Seq(Statement)
        /\ server.blocks \in Seq(Statement \X Statement)
    BY DEF TypeInv, ServerType
  <1> QED BY <1>1, OnlyRange DEF Listed, Waits, Blocks

\* A row of each kind.
LEMMA RowIsRow ==
  ASSUME NEW event \in Stage, event # "plan",
         NEW of \in Seq(Statement), NEW from \in Seq(Statement),
         NEW plan \in PlanIds \cup {NoPlan}
  PROVE  Row(event, of, from, plan) \in Rows
  BY DEF Row, Rows, RowType

LEMMA OneStatement ==
  ASSUME NEW st \in Statement
  PROVE  <<st>> \in Seq(Statement) /\ Range(<<st>>) = {st}
  <1>1. DOMAIN <<st>> = {1} /\ <<st>>[1] = st
    OBVIOUS
  <1>2. Range(<<st>>) = {st}
    BY <1>1 DEF Range
  <1> QED BY <1>2

LEMMA TwoStatements ==
  ASSUME NEW b \in Statement \X Statement
  PROVE  /\ b \in Seq(Statement) /\ Range(b) = {b[1], b[2]}
         /\ <<b[1], b[2]>> = b
  <1>1. b = <<b[1], b[2]>> /\ b[1] \in Statement /\ b[2] \in Statement
    OBVIOUS
  <1>2. PICK x \in Statement, y \in Statement : b = <<x, y>>
    BY <1>1
  <1>3. <<x, y>> \in Seq(Statement) /\ DOMAIN <<x, y>> = {1, 2}
    OBVIOUS
  <1>4. Range(b) = {b[1], b[2]}
    BY <1>2, <1>3 DEF Range
  <1> QED BY <1>1, <1>2, <1>3, <1>4

LEMMA SlowRowsMade ==
  ASSUME NEW list \in Seq(Statement)
  PROVE  /\ SlowRows(list) \in Seq(Rows)
         /\ Range(SlowRows(list)) = {SlowRow(st) : st \in Range(list)}
  <1>1. DOMAIN list = 1 .. Len(list) /\ Len(list) \in Nat
    BY RangeType
  <1>2. \A st \in Statement : SlowRow(st) \in Rows
    BY OneStatement, RowIsRow DEF SlowRow, Stage, NoPlan
  <1>3. SlowRows(list) = [i \in 1 .. Len(list) |-> SlowRow(list[i])]
    BY <1>1 DEF SlowRows, SlowRow
  <1>4. \A i \in 1 .. Len(list) : list[i] \in Statement
    BY LenProperties
  <1> QED BY <1>1, <1>2, <1>3, <1>4, IsASeq DEF Range

\* The slow query of a known text is one of the slow queries.
LEMMA TextMap ==
  ASSUME TypeInv, NEW text, Known(text)
  PROVE  slowQueryTextMap(text) \in Range(slowQueries)
  <1> DEFINE places == {i \in DOMAIN slowQueries : slowQueries[i].text = text}
             same == Only(slowQueries, places)
  <1>1. slowQueries \in Seq(Statement)
    BY DEF TypeInv
  <1>2. /\ same \in Seq(Statement)
        /\ Range(same) = {slowQueries[i] : i \in places \cap DOMAIN slowQueries}
    BY <1>1, OnlyRange
  <1>3. PICK i \in DOMAIN slowQueries : slowQueries[i].text = text
    BY DEF Known, Range
  <1>4. slowQueries[i] \in Range(same)
    BY <1>2, <1>3
  <1>5. Range(same) \subseteq Range(slowQueries)
    BY <1>2 DEF Range
  <1>6. slowQueryTextMap(text) = same[Len(same)]
    BY DEF slowQueryTextMap, Last
  <1> HIDE DEF same
  <1>7. Len(same) \in DOMAIN same
    <2>1. DOMAIN same = 1 .. Len(same) /\ Len(same) \in Nat /\ DOMAIN same # {}
      BY <1>2, <1>4, RangeType DEF Range
    <2> QED BY <2>1
  <1>8. same[Len(same)] \in Range(same)
    BY <1>7, Zenon DEF Range
  <1> QED BY <1>5, <1>6, <1>8

LEMMA SlowAhead ==
  ASSUME TypeInv, TraceInv, NEW st \in Range(slowQueries)
  PROVE  \E j \in 1 .. Len(reported) : reported[j] = SlowRow(st)
  <1>1. SlowRow(st) \in Range(reported)
    BY DEF TraceInv
  <1>2. DOMAIN reported = 1 .. Len(reported)
    BY RangeType DEF TypeInv
  <1> QED BY <1>1, <1>2 DEF Range

LEMMA WaitRowsMade ==
  ASSUME TypeInv, TraceInv, NEW waits \in Seq(Statement)
  PROVE  /\ WaitRows(waits) \in Seq(Rows)
         /\ \A row \in Range(WaitRows(waits)) :
              Grounded(row, reported, Len(reported), isRds)
         /\ \A st \in Range(waits) :
              (isRds => Known(st.text)) =>
                \E row \in Range(WaitRows(waits)) : row.event = "wait" /\ row.of = <<st>>
  <1> DEFINE WaitRow(st, slow) == Row("wait", <<st>>, <<slow>>, NoPlan)
  <1>1. \A st, slow \in Statement : WaitRow(st, slow) \in Rows
    BY OneStatement, RowIsRow DEF Stage, NoPlan
  <1>2. \A st, slow : /\ WaitRow(st, slow).event = "wait"
                      /\ WaitRow(st, slow).of = <<st>>
                      /\ WaitRow(st, slow).from = <<slow>>
    BY DEF Row
  <1>3. ASSUME ~isRds
        PROVE  /\ WaitRows(waits) \in Seq(Rows)
               /\ \A row \in Range(WaitRows(waits)) :
                    Grounded(row, reported, Len(reported), isRds)
               /\ \A st \in Range(waits) :
                    \E row \in Range(WaitRows(waits)) : row.event = "wait" /\ row.of = <<st>>
    <2>1. /\ DOMAIN waits = 1 .. Len(waits) /\ Len(waits) \in Nat
          /\ \A i \in 1 .. Len(waits) : waits[i] \in Statement
      BY RangeType, LenProperties
    <2> DEFINE rows == WaitRows(waits)
    <2>2. rows = [i \in 1 .. Len(waits) |-> WaitRow(waits[i], waits[i])]
      BY <1>3, <2>1 DEF WaitRows
    <2> HIDE DEF WaitRow, rows
    <2>3. /\ rows \in Seq(Rows)
          /\ DOMAIN rows = 1 .. Len(waits)
          /\ \A i \in 1 .. Len(waits) : rows[i] = WaitRow(waits[i], waits[i])
      BY <1>1, <2>1, <2>2, IsASeq
    <2>4. \A row \in Range(rows) : row.event = "wait"
      BY <1>2, <2>3 DEF Range
    <2>5. \A row \in Range(rows) : Grounded(row, reported, Len(reported), isRds)
      BY <1>3, <2>4 DEF Grounded, Correlated
    <2>6. ASSUME NEW st \in Range(waits)
          PROVE  \E row \in Range(rows) : row.event = "wait" /\ row.of = <<st>>
      <3>1. PICK i \in 1 .. Len(waits) : waits[i] = st
        BY <2>1 DEF Range
      <3>2. rows[i] \in Range(rows)
        BY <2>3 DEF Range
      <3> QED BY <1>2, <2>3, <3>1, <3>2
    <2> QED BY <2>3, <2>5, <2>6 DEF rows
  <1>4. ASSUME isRds
        PROVE  /\ WaitRows(waits) \in Seq(Rows)
               /\ \A row \in Range(WaitRows(waits)) :
                    Grounded(row, reported, Len(reported), isRds)
               /\ \A st \in Range(waits) :
                    Known(st.text) =>
                      \E row \in Range(WaitRows(waits)) :
                        row.event = "wait" /\ row.of = <<st>>
    <2> DEFINE places == {i \in DOMAIN waits : Known(waits[i].text)}
               known == Only(waits, places)
               rows == WaitRows(waits)
               slow(st) == slowQueryTextMap(st.text)
    <2>1. /\ known \in Seq(Statement)
          /\ Range(known) = {waits[i] : i \in places \cap DOMAIN waits}
      BY OnlyRange
    <2>2. rows = [i \in DOMAIN known |-> WaitRow(known[i], slow(known[i]))]
      BY <1>4 DEF WaitRows, getFilteredWaitEvents
    <2>3. \A st \in Range(known) : Known(st.text)
      BY <2>1
    <2>4. \A st \in Range(waits) : Known(st.text) => st \in Range(known)
      BY <2>1 DEF Range
    <2> HIDE DEF known, rows
    <2>5. /\ DOMAIN known = 1 .. Len(known) /\ Len(known) \in Nat
          /\ \A i \in 1 .. Len(known) : known[i] \in Statement /\ known[i] \in Range(known)
      BY <2>1, RangeType, LenProperties
    <2>6. \A st \in Range(known) : slow(st) \in Range(slowQueries)
      BY <2>3, TextMap
    <2>7. Range(slowQueries) \subseteq Statement
      BY RangeType DEF TypeInv
    <2> HIDE DEF WaitRow, slow
    <2>8. /\ rows \in Seq(Rows)
          /\ DOMAIN rows = 1 .. Len(known)
          /\ \A i \in 1 .. Len(known) : rows[i] = WaitRow(known[i], slow(known[i]))
      <3>1. \A i \in 1 .. Len(known) : WaitRow(known[i], slow(known[i])) \in Rows
        BY <1>1, <2>5, <2>6, <2>7
      <3> QED BY <2>2, <2>5, <3>1, IsASeq
    <2>9. ASSUME NEW row \in Range(rows)
          PROVE  Grounded(row, reported, Len(reported), isRds)
      <3>1. PICK i \in 1 .. Len(known) : row = WaitRow(known[i], slow(known[i]))
        BY <2>8 DEF Range
      <3>2. row.event = "wait" /\ row.from = <<slow(known[i])>>
        BY <1>2, <3>1
      <3>3. slow(known[i]) \in Range(slowQueries)
        BY <2>5, <2>6
      <3>4. Range(row.from) = {slow(known[i])}
        BY <2>7, <3>2, <3>3, OneStatement
      <3> QED BY <3>2, <3>3, <3>4, SlowAhead DEF Grounded
    <2>10. ASSUME NEW st \in Range(waits), Known(st.text)
           PROVE  \E row \in Range(rows) : row.event = "wait" /\ row.of = <<st>>
      <3>1. PICK i \in 1 .. Len(known) : known[i] = st
        BY <2>4, <2>5, <2>10 DEF Range
      <3>2. rows[i] \in Range(rows)
        BY <2>8 DEF Range
      <3> QED BY <1>2, <2>8, <3>1, <3>2
    <2> QED BY <2>8, <2>9, <2>10 DEF rows
  <1> HIDE DEF WaitRow
  <1> QED BY <1>3, <1>4

LEMMA BlockingRowsMade ==
  ASSUME TypeInv, TraceInv, NEW blocks \in Seq(Statement \X Statement)
  PROVE  /\ BlockingRows(blocks) \in Seq(Rows)
         /\ \A row \in Range(BlockingRows(blocks)) :
              Grounded(row, reported, Len(reported), isRds)
         /\ \A b \in Range(blocks) :
              (isRds => \A k \in {1, 2} : Known(b[k].text)) =>
                \E row \in Range(BlockingRows(blocks)) :
                  row.event = "blocking" /\ row.of = b
  <1> DEFINE Pair == Statement \X Statement
             BlockRow(b, slow) == Row("blocking", b, slow, NoPlan)
  <1>1. \A b, slow \in Pair : BlockRow(b, slow) \in Rows
    BY TwoStatements, RowIsRow DEF Stage, NoPlan
  <1>2. \A b, slow : /\ BlockRow(b, slow).event = "blocking"
                     /\ BlockRow(b, slow).of = b
                     /\ BlockRow(b, slow).from = slow
    BY DEF Row
  <1>3. ASSUME ~isRds
        PROVE  /\ BlockingRows(blocks) \in Seq(Rows)
               /\ \A row \in Range(BlockingRows(blocks)) :
                    Grounded(row, reported, Len(reported), isRds)
               /\ \A b \in Range(blocks) :
                    \E row \in Range(BlockingRows(blocks)) :
                      row.event = "blocking" /\ row.of = b
    <2>1. /\ DOMAIN blocks = 1 .. Len(blocks) /\ Len(blocks) \in Nat
          /\ \A i \in 1 .. Len(blocks) : blocks[i] \in Pair
      BY RangeType, LenProperties
    <2> DEFINE rows == BlockingRows(blocks)
    <2>2. rows = [i \in 1 .. Len(blocks) |-> BlockRow(blocks[i], blocks[i])]
      BY <1>3, <2>1 DEF BlockingRows
    <2> HIDE DEF BlockRow, rows, Pair
    <2>3. /\ rows \in Seq(Rows)
          /\ DOMAIN rows = 1 .. Len(blocks)
          /\ \A i \in 1 .. Len(blocks) : rows[i] = BlockRow(blocks[i], blocks[i])
      BY <1>1, <2>1, <2>2, IsASeq
    <2>4. \A row \in Range(rows) : row.event = "blocking"
      BY <1>2, <2>3 DEF Range
    <2>5. \A row \in Range(rows) : Grounded(row, reported, Len(reported), isRds)
      BY <1>3, <2>4 DEF Grounded, Correlated
    <2>6. ASSUME NEW b \in Range(blocks)
          PROVE  \E row \in Range(rows) : row.event = "blocking" /\ row.of = b
      <3>1. PICK i \in 1 .. Len(blocks) : blocks[i] = b
        BY <2>1 DEF Range
      <3>2. rows[i] \in Range(rows)
        BY <2>3 DEF Range
      <3> QED BY <1>2, <2>3, <3>1, <3>2
    <2> QED BY <2>3, <2>5, <2>6 DEF rows
  <1>4. ASSUME isRds
        PROVE  /\ BlockingRows(blocks) \in Seq(Rows)
               /\ \A row \in Range(BlockingRows(blocks)) :
                    Grounded(row, reported, Len(reported), isRds)
               /\ \A b \in Range(blocks) :
                    (\A k \in {1, 2} : Known(b[k].text)) =>
                      \E row \in Range(BlockingRows(blocks)) :
                        row.event = "blocking" /\ row.of = b
    <2> DEFINE places == {i \in DOMAIN blocks :
                            Known(blocks[i][1].text) /\ Known(blocks[i][2].text)}
               known == Only(blocks, places)
               rows == BlockingRows(blocks)
               slow(b) == <<slowQueryTextMap(b[1].text), slowQueryTextMap(b[2].text)>>
    <2>1. /\ known \in Seq(Pair)
          /\ Range(known) = {blocks[i] : i \in places \cap DOMAIN blocks}
      BY OnlyRange
    <2>2. rows = [i \in DOMAIN known |-> BlockRow(known[i], slow(known[i]))]
      BY <1>4 DEF BlockingRows, getFilteredBlockingSessions
    <2>3. \A b \in Range(known) : Known(b[1].text) /\ Known(b[2].text)
      BY <2>1
    <2>4. \A b \in Range(blocks) :
            Known(b[1].text) /\ Known(b[2].text) => b \in Range(known)
      BY <2>1 DEF Range
    <2> HIDE DEF known, rows
    <2>5. /\ DOMAIN known = 1 .. Len(known) /\ Len(known) \in Nat
          /\ \A i \in 1 .. Len(known) : known[i] \in Pair /\ known[i] \in Range(known)
      BY <2>1, RangeType, LenProperties
    <2>6. \A b \in Range(known) : /\ slow(b)[1] \in Range(slowQueries)
                                  /\ slow(b)[2] \in Range(slowQueries)
      BY <2>3, TextMap
    <2>7. Range(slowQueries) \subseteq Statement
      BY RangeType DEF TypeInv
    <2>s. \A b \in Range(known) : slow(b) \in Pair
      BY <2>6, <2>7
    <2> HIDE DEF BlockRow, slow, Pair
    <2>8. /\ rows \in Seq(Rows)
          /\ DOMAIN rows = 1 .. Len(known)
          /\ \A i \in 1 .. Len(known) : rows[i] = BlockRow(known[i], slow(known[i]))
      <3>1. \A i \in 1 .. Len(known) : BlockRow(known[i], slow(known[i])) \in Rows
        BY <1>1, <2>5, <2>s
      <3> QED BY <2>2, <2>5, <3>1, IsASeq
    <2>9. ASSUME NEW row \in Range(rows)
          PROVE  Grounded(row, reported, Len(reported), isRds)
      <3>1. PICK i \in 1 .. Len(known) : row = BlockRow(known[i], slow(known[i]))
        BY <2>8 DEF Range
      <3>2. row.event = "blocking" /\ row.from = slow(known[i])
        BY <1>2, <3>1
      <3>3. Range(row.from) = {slow(known[i])[1], slow(known[i])[2]}
        BY <2>5, <2>s, <3>2, TwoStatements DEF Pair
      <3>4. Range(row.from) \subseteq Range(slowQueries)
        BY <2>5, <2>6, <3>3
      <3> QED BY <3>2, <3>4, SlowAhead DEF Grounded
    <2>10. ASSUME NEW b \in Range(blocks), \A k \in {1, 2} : Known(b[k].text)
           PROVE  \E row \in Range(rows) : row.event = "blocking" /\ row.of = b
      <3>1. PICK i \in 1 .. Len(known) : known[i] = b
        BY <2>4, <2>5, <2>10 DEF Range
      <3>2. rows[i] \in Range(rows)
        BY <2>8 DEF Range
      <3> QED BY <1>2, <2>8, <3>1, <3>2
    <2> QED BY <2>8, <2>9, <2>10 DEF rows
  <1> HIDE DEF BlockRow
  <1> QED BY <1>3, <1>4

\* The pairs of a sample and its slow query.
LEMMA IndividualPairs ==
  ASSUME TypeInv
  PROVE  /\ getIndividualQueryMetrics \in Seq(Statement \X Statement)
         /\ \A p \in Range(getIndividualQueryMetrics) : p[2] \in Range(slowQueries)
         /\ isRds => \A st \in Range(slowQueries) :
                       <<st, st>> \in Range(getIndividualQueryMetrics)
         /\ ~isRds => \A st \in Range(Listed(server.samples)), slow \in Range(slowQueries) :
                        st.id # NoId /\ slow.id = st.id =>
                          <<st, slow>> \in Range(getIndividualQueryMetrics)
  <1> DEFINE Pair == Statement \X Statement
  <1>1. /\ slowQueries \in Seq(Statement)
        /\ DOMAIN slowQueries = 1 .. Len(slowQueries) /\ Len(slowQueries) \in Nat
        /\ \A i \in 1 .. Len(slowQueries) :
             slowQueries[i] \in Statement /\ slowQueries[i] \in Range(slowQueries)
    BY RangeType, LenProperties DEF TypeInv
  <1>2. CASE isRds
    <2> DEFINE pairs == getIndividualQueryMetrics
    <2>1. pairs = [i \in 1 .. Len(slowQueries) |-> <<slowQueries[i], slowQueries[i]>>]
      BY <1>1, <1>2 DEF getIndividualQueryMetrics
    <2> HIDE DEF pairs
    <2>2. /\ pairs \in Seq(Pair) /\ DOMAIN pairs = 1 .. Len(slowQueries)
          /\ \A i \in 1 .. Len(slowQueries) : pairs[i] = <<slowQueries[i], slowQueries[i]>>
      BY <1>1, <2>1, IsASeq
    <2>3. \A p \in Range(pairs) : p[2] \in Range(slowQueries)
      BY <1>1, <2>2 DEF Range
    <2>4. \A st \in Range(slowQueries) : <<st, st>> \in Range(pairs)
      BY <1>1, <2>2 DEF Range
    <2> QED BY <1>2, <2>2, <2>3, <2>4 DEF pairs
  <1>3. CASE ~isRds
    <2> DEFINE samples == Listed(server.samples)
               lists == [i \in 1 .. Len(slowQueries) |-> Pairs(slowQueries[i])]
    <2>1. getIndividualQueryMetrics = FlattenSeq(lists)
      BY <1>1, <1>3 DEF getIndividualQueryMetrics
    <2>2. samples \in Seq(Statement)
      BY Answers
    <2> HIDE DEF samples
    <2>3. ASSUME NEW slow \in Statement
          PROVE  /\ SamplesOf(slow) \in Seq(Statement)
                 /\ \A st \in Range(samples) :
                      st.id # NoId /\ slow.id = st.id => st \in Range(SamplesOf(slow))
      <3>1. CASE slow.id = NoId
        <4>1. SamplesOf(slow) = <<>>
          BY <3>1 DEF SamplesOf
        <4> QED BY <3>1, <4>1, EmptySeq
      <3>2. CASE slow.id # NoId
        <4> DEFINE places == {i \in DOMAIN samples : samples[i].id = slow.id}
        <4>1. SamplesOf(slow) = Only(samples, places)
          BY <3>2 DEF SamplesOf, samples
        <4>2. /\ Only(samples, places) \in Seq(Statement)
              /\ Range(Only(samples, places)) = {samples[i] : i \in places \cap DOMAIN samples}
          BY <2>2, OnlyRange
        <4> QED BY <4>1, <4>2 DEF Range
      <3> QED BY <3>1, <3>2
    <2>4. ASSUME NEW slow \in Statement
          PROVE  /\ Pairs(slow) \in Seq(Pair)
                 /\ Range(Pairs(slow)) = {<<st, slow>> : st \in Range(SamplesOf(slow))}
      <3> DEFINE list == SamplesOf(slow)
      <3>1. list \in Seq(Statement)
        BY <2>3
      <3>2. Pairs(slow) = [i \in DOMAIN list |-> <<list[i], slow>>]
        BY DEF Pairs
      <3> HIDE DEF list
      <3>3. DOMAIN list = 1 .. Len(list) /\ Len(list) \in Nat
            /\ \A i \in 1 .. Len(list) : list[i] \in Statement
        BY <3>1, RangeType, LenProperties
      <3>4. /\ Pairs(slow) \in Seq(Pair) /\ DOMAIN Pairs(slow) = 1 .. Len(list)
            /\ \A i \in 1 .. Len(list) : Pairs(slow)[i] = <<list[i], slow>>
        BY <3>2, <3>3, IsASeq
      <3>5. Range(Pairs(slow)) = {<<st, slow>> : st \in Range(list)}
        BY <3>3, <3>4 DEF Range
      <3> QED BY <3>4, <3>5 DEF list
    <2>5. /\ lists \in Seq(Seq(Pair)) /\ DOMAIN lists = 1 .. Len(slowQueries)
          /\ \A i \in 1 .. Len(slowQueries) : lists[i] = Pairs(slowQueries[i])
      BY <1>1, <2>4, IsASeq
    <2> HIDE DEF lists
    <2>6. /\ FlattenSeq(lists) \in Seq(Pair)
          /\ Range(FlattenSeq(lists)) = UNION {Range(lists[i]) : i \in DOMAIN lists}
      BY <2>5, FlattenRange
    <2>7. ASSUME NEW p \in Range(FlattenSeq(lists)) PROVE p[2] \in Range(slowQueries)
      <3>1. PICK i \in 1 .. Len(slowQueries) : p \in Range(Pairs(slowQueries[i]))
        BY <2>5, <2>6
      <3>2. \E st : p = <<st, slowQueries[i]>>
        BY <1>1, <2>4, <3>1
      <3> QED BY <1>1, <3>2
    <2>8. ASSUME NEW st \in Range(samples), NEW slow \in Range(slowQueries),
                 st.id # NoId, slow.id = st.id
          PROVE  <<st, slow>> \in Range(FlattenSeq(lists))
      <3>1. PICK i \in 1 .. Len(slowQueries) : slowQueries[i] = slow
        BY <1>1 DEF Range
      <3>2. st \in Range(SamplesOf(slow)) /\ slow \in Statement
        BY <1>1, <2>3, <2>8, <3>1
      <3>3. <<st, slow>> \in Range(lists[i])
        BY <2>4, <2>5, <3>1, <3>2
      <3> QED BY <2>5, <2>6, <3>3
    <2> QED BY <1>3, <2>1, <2>6, <2>7, <2>8 DEF samples
  <1> QED BY <1>2, <1>3

LEMMA IndividualRowsMade ==
  ASSUME TypeInv, TraceInv, NEW pairs \in Seq(Statement \X Statement),
         \A p \in Range(pairs) : p[2] \in Range(slowQueries),
         NEW ids \in [DOMAIN pairs -> PlanIds]
  PROVE  /\ IndividualRows(pairs, ids) \in Seq(Rows)
         /\ \A row \in Range(IndividualRows(pairs, ids)) :
              /\ row.event = "individual"
              /\ Grounded(row, reported, Len(reported), isRds)
         /\ \A p \in Range(pairs) :
              \E row \in Range(IndividualRows(pairs, ids)) :
                row.event = "individual" /\ row.of = <<p[1]>>
  <1> DEFINE Pair == Statement \X Statement
             rows == IndividualRows(pairs, ids)
             Made(p, id) == Row("individual", <<p[1]>>, <<p[2]>>, id)
  <1>4. /\ DOMAIN pairs = 1 .. Len(pairs) /\ Len(pairs) \in Nat
        /\ \A i \in 1 .. Len(pairs) : pairs[i] \in Pair /\ pairs[i] \in Range(pairs)
    BY RangeType, LenProperties
  <1>5. rows = [i \in 1 .. Len(pairs) |-> Made(pairs[i], ids[i])]
    BY <1>4 DEF IndividualRows
  <1>6. \A i \in 1 .. Len(pairs) : ids[i] \in PlanIds
    BY <1>4
  <1>7. \A p \in Pair, id \in PlanIds : Made(p, id) \in Rows
    BY OneStatement, RowIsRow DEF Stage
  <1>8. \A p, id : /\ Made(p, id).event = "individual"
                   /\ Made(p, id).of = <<p[1]>> /\ Made(p, id).from = <<p[2]>>
    BY DEF Row
  <1>9. \A p \in Pair : p[2] \in Statement
    OBVIOUS
  <1> HIDE DEF rows, Made, Pair
  <1>10. /\ rows \in Seq(Rows) /\ DOMAIN rows = 1 .. Len(pairs)
         /\ \A i \in 1 .. Len(pairs) : rows[i] = Made(pairs[i], ids[i])
    <2>1. \A i \in 1 .. Len(pairs) : Made(pairs[i], ids[i]) \in Rows
      BY <1>4, <1>6, <1>7
    <2> QED BY <1>4, <1>5, <2>1, IsASeq
  <1>11. ASSUME NEW row \in Range(rows)
         PROVE  row.event = "individual" /\ Grounded(row, reported, Len(reported), isRds)
    <2>1. PICK i \in 1 .. Len(pairs) : row = Made(pairs[i], ids[i])
      BY <1>10 DEF Range
    <2>2. row.event = "individual" /\ row.from = <<pairs[i][2]>>
      BY <1>8, <2>1
    <2>3. pairs[i][2] \in Range(slowQueries) /\ pairs[i][2] \in Statement
      BY <1>4, <1>9
    <2>4. Range(row.from) = {pairs[i][2]}
      BY <2>2, <2>3, OneStatement
    <2> QED BY <2>2, <2>3, <2>4, SlowAhead DEF Grounded
  <1>12. ASSUME NEW p \in Range(pairs)
         PROVE  \E row \in Range(rows) : row.event = "individual" /\ row.of = <<p[1]>>
    <2>1. PICK i \in 1 .. Len(pairs) : pairs[i] = p
      BY <1>4 DEF Range
    <2>2. rows[i] \in Range(rows)
      BY <1>10 DEF Range
    <2> QED BY <1>8, <1>10, <2>1, <2>2
  <1> QED BY <1>10, <1>11, <1>12 DEF rows

LEMMA PlanRowsMade ==
  ASSUME TypeInv, TraceInv, NEW list \in Seq(Rows),
         \A row \in Range(list) : Explicable(row) /\ row \in Range(individualQueries)
  PROVE  /\ PlanRows(list) \in Seq(Rows)
         /\ \A row \in Range(PlanRows(list)) :
              Grounded(row, reported, Len(reported), isRds)
         /\ \A row \in Range(list) :
              [row EXCEPT !.event = "plan"] \in Range(PlanRows(list))
  <1> DEFINE Made(row) == Row("plan", row.of, row.from, row.plan)
             rows == PlanRows(list)
  <1>4. /\ DOMAIN list = 1 .. Len(list) /\ Len(list) \in Nat
        /\ \A i \in 1 .. Len(list) : list[i] \in Range(list) /\ list[i] \in Rows
    BY RangeType, LenProperties
  <1>5. rows = [i \in 1 .. Len(list) |-> Made(list[i])]
    BY <1>4 DEF PlanRows
  <1>6. ASSUME NEW row \in Rows, Explicable(row)
        PROVE  Made(row) \in Rows
    BY <1>6 DEF Explicable, Rows, RowType, Row, Stage
  <1>7. \A row \in Rows : [row EXCEPT !.event = "plan"] = Made(row)
    <2> SUFFICES ASSUME NEW row \in Rows
                 PROVE  [row EXCEPT !.event = "plan"] = Made(row)
      OBVIOUS
    <2>1. row = [event |-> row.event, of |-> row.of, from |-> row.from,
                 plan |-> row.plan]
      BY DEF Rows, RowType
    <2>2. PICK e, o, fr, p : row = [event |-> e, of |-> o, from |-> fr, plan |-> p]
      BY <2>1
    <2>3. [row EXCEPT !.event = "plan"]
            = [event |-> "plan", of |-> o, from |-> fr, plan |-> p]
      BY <2>2
    <2>4. row.of = o /\ row.from = fr /\ row.plan = p
      BY <2>2
    <2> QED BY <2>3, <2>4 DEF Row
  <1>8. \A row : Made(row).event = "plan"
    BY DEF Row
  <1> HIDE DEF Made, rows
  <1>9. /\ rows \in Seq(Rows) /\ DOMAIN rows = 1 .. Len(list)
        /\ \A i \in 1 .. Len(list) : rows[i] = Made(list[i])
    <2>1. \A i \in 1 .. Len(list) : Made(list[i]) \in Rows
      BY <1>4, <1>6
    <2> QED BY <1>4, <1>5, <2>1, IsASeq
  <1>10. ASSUME NEW row \in Range(rows)
         PROVE  Grounded(row, reported, Len(reported), isRds)
    <2>1. PICK i \in 1 .. Len(list) : row = Made(list[i])
      BY <1>9 DEF Range
    <2>2. /\ list[i] \in Range(individualQueries) /\ list[i] \in Rows
      BY <1>4
    <2>3. list[i].event = "individual" /\ list[i] \in Range(reported)
      BY <2>2 DEF TraceInv
    <2>4. PICK j \in 1 .. Len(reported) : reported[j] = list[i]
      <3>1. DOMAIN reported = 1 .. Len(reported)
        BY RangeType DEF TypeInv
      <3> QED BY <2>3, <3>1 DEF Range
    <2>5. [reported[j] EXCEPT !.event = "plan"] = row
      BY <1>7, <2>1, <2>2, <2>4
    <2>6. row.event = "plan"
      BY <1>8, <2>1
    <2> QED BY <2>3, <2>4, <2>5, <2>6 DEF Grounded, Correlated
  <1>11. ASSUME NEW row \in Range(list)
         PROVE  [row EXCEPT !.event = "plan"] \in Range(rows)
    <2>1. PICK i \in 1 .. Len(list) : row = list[i]
      BY <1>4 DEF Range
    <2>2. rows[i] = [row EXCEPT !.event = "plan"]
      BY <1>4, <1>7, <1>9, <2>1
    <2> QED BY <1>9, <2>2 DEF Range
  <1> QED BY <1>9, <1>10, <1>11 DEF rows

-----------------------------------------------------------------------------
(* The stages *)

\* Names of the stages in the order of each pipeline.
LEMMA StagesOrder ==
  ASSUME isRds \in BOOLEAN
  PROVE  /\ Stages \in Seq(Stage) /\ Len(Stages) = 5
         /\ isRds => /\ Stages[1] = "slow" /\ Stages[2] = "individual"
                     /\ Stages[3] = "plan" /\ Stages[4] = "wait"
                     /\ Stages[5] = "blocking"
         /\ ~isRds => /\ Stages[1] = "wait" /\ Stages[2] = "blocking"
                      /\ Stages[3] = "slow" /\ Stages[4] = "individual"
                      /\ Stages[5] = "plan"
  <1>1. CASE isRds
    <2>1. Stages = <<"slow", "individual", "plan", "wait", "blocking">>
      BY <1>1 DEF Stages
    <2> QED BY <1>1, <2>1 DEF Stage
  <1>2. CASE ~isRds
    <2>1. Stages = <<"wait", "blocking", "slow", "individual", "plan">>
      BY <1>2 DEF Stages
    <2> QED BY <1>2, <2>1 DEF Stage
  <1> QED BY <1>1, <1>2

LEMMA RestRange ==
  ASSUME isRds \in BOOLEAN, NEW k \in 1 .. 6
  PROVE  /\ RestFrom(k) \in Seq(Stage)
         /\ Range(RestFrom(k)) = {Stages[j] : j \in k .. 5}
         /\ k = 6 => RestFrom(k) = <<>>
         /\ k # 6 => /\ RestFrom(k) # <<>> /\ Head(RestFrom(k)) = Stages[k]
                     /\ k + 1 \in 1 .. 6
                     /\ Tail(RestFrom(k)) = RestFrom(k + 1)
  <1>1. /\ Stages \in Seq(Stage) /\ Len(Stages) = 5
        /\ \A j \in 1 .. 5 : Stages[j] \in Stage
    BY StagesOrder, LenProperties
  <1>2. CASE k = 6
    <2>1. RestFrom(k) = <<>> /\ k .. 5 = {}
      BY <1>2, SubSeqEmpty DEF RestFrom
    <2>2. Range(<<>>) = {} /\ {Stages[j] : j \in {}} = {} /\ <<>> \in Seq(Stage)
      BY EmptySeq DEF Range
    <2> QED BY <1>2, <2>1, <2>2
  <1>3. CASE k # 6
    <2> DEFINE rest == RestFrom(k)
    <2>1. /\ rest \in Seq(Stage) /\ Len(rest) = 6 - k
          /\ \A i \in 1 .. 6 - k : rest[i] = Stages[k + i - 1]
      <3>1. \A i \in k .. 5 : Stages[i] \in Stage
        BY <1>1
      <3> QED BY <1>3, <3>1, SubSeqProperties DEF RestFrom
    <2>2. /\ Head(rest) = Stages[k] /\ Tail(rest) = RestFrom(k + 1)
      BY <1>1, <1>3, HeadTailOfSubSeq DEF RestFrom
    <2> HIDE DEF rest
    <2>3. DOMAIN rest = 1 .. 6 - k
      BY <2>1, RangeType
    <2>4. Range(rest) \subseteq {Stages[j] : j \in k .. 5}
      <3>1. \A i \in 1 .. 6 - k : k + i - 1 \in k .. 5
        OBVIOUS
      <3> QED BY <2>1, <2>3, <3>1 DEF Range
    <2>5. {Stages[j] : j \in k .. 5} \subseteq Range(rest)
      <3>1. \A j \in k .. 5 : (j - k) + 1 \in 1 .. 6 - k /\ k + ((j - k) + 1) - 1 = j
        OBVIOUS
      <3>2. \A j \in k .. 5 : rest[(j - k) + 1] = Stages[j]
        BY <2>1, <3>1
      <3> QED BY <2>3, <3>1, <3>2 DEF Range
    <2>6. rest # <<>> /\ k + 1 \in 1 .. 6
      BY <1>3, <2>1
    <2> QED BY <1>3, <2>1, <2>2, <2>4, <2>5, <2>6 DEF rest
  <1> QED BY <1>2, <1>3

\* What is over and what is to come when a stage runs.
LEMMA StageRuns ==
  ASSUME isRds \in BOOLEAN, TodoInv, NEW stage, At(stage), NextStage
  PROVE  /\ \E k \in 1 .. 6 : todo' = RestFrom(k)
         /\ stage \notin Range(todo') /\ Range(todo) = Range(todo') \cup {stage}
         /\ stage = "slow" => /\ "individual" \in Range(todo')
                              /\ isRds => {"wait", "blocking"} \subseteq Range(todo')
         /\ stage = "individual" => "slow" \notin Range(todo)
         /\ isRds /\ stage \in {"wait", "blocking"} => "slow" \notin Range(todo)
  <1>1. PICK k \in 1 .. 6 : todo = RestFrom(k)
    BY DEF TodoInv, At
  <1>2. /\ todo # <<>> /\ Head(todo) = stage /\ todo' = Tail(todo)
    BY DEF At, NextStage
  <1>3. k # 6
    BY <1>1, <1>2, RestRange
  <1>4. /\ k + 1 \in 1 .. 6 /\ todo' = RestFrom(k + 1) /\ stage = Stages[k]
        /\ Range(todo) = {Stages[j] : j \in k .. 5}
    BY <1>1, <1>2, <1>3, RestRange
  <1>5. Range(todo') = {Stages[j] : j \in k + 1 .. 5}
    BY <1>4, RestRange
  <1>6. k .. 5 = {k} \cup (k + 1 .. 5)
    BY <1>3
  <1>7. Range(todo) = Range(todo') \cup {stage}
    BY <1>4, <1>5, <1>6
  <1>8. CASE isRds
    <2>1. \A i, j \in 1 .. 5 : Stages[i] = Stages[j] => i = j
      BY <1>8, StagesOrder
    <2>2. stage \notin Range(todo')
      <3>1. \A j \in k + 1 .. 5 : j \in 1 .. 5 /\ j # k
        OBVIOUS
      <3>2. k \in 1 .. 5
        BY <1>3
      <3> QED BY <1>4, <1>5, <2>1, <3>1, <3>2
    <2>3. /\ Stages[1] = "slow" /\ Stages[2] = "individual" /\ Stages[3] = "plan"
          /\ Stages[4] = "wait" /\ Stages[5] = "blocking"
      BY <1>8, StagesOrder
    <2>4. stage = "slow" => k = 1
      <3>1. k \in 1 .. 5 /\ 1 \in 1 .. 5
        BY <1>3
      <3>2. Stages[k] = Stages[1] => k = 1
        BY <2>1, <3>1
      <3> QED BY <1>4, <2>3, <3>2
    <2>5. k = 1 => {2, 4, 5} \subseteq k + 1 .. 5
      OBVIOUS
    <2>6. stage # "slow" => k # 1
      BY <1>4, <2>3
    <2>7. k # 1 => "slow" \notin Range(todo)
      <3>1. ASSUME k # 1, NEW j \in k .. 5 PROVE Stages[j] # "slow"
        <4>1. j \in {2, 3, 4, 5}
          BY <3>1
        <4> QED BY <2>3, <4>1
      <3> QED BY <1>4, <3>1
    <2>8. stage = "slow" => {"individual", "wait", "blocking"} \subseteq Range(todo')
      BY <1>5, <2>3, <2>4, <2>5
    <2> QED BY <1>4, <1>7, <2>2, <2>6, <2>7, <2>8
  <1>9. CASE ~isRds
    <2>1. \A i, j \in 1 .. 5 : Stages[i] = Stages[j] => i = j
      BY <1>9, StagesOrder
    <2>2. stage \notin Range(todo')
      <3>1. \A j \in k + 1 .. 5 : j \in 1 .. 5 /\ j # k
        OBVIOUS
      <3>2. k \in 1 .. 5
        BY <1>3
      <3> QED BY <1>4, <1>5, <2>1, <3>1, <3>2
    <2>3. /\ Stages[1] = "wait" /\ Stages[2] = "blocking" /\ Stages[3] = "slow"
          /\ Stages[4] = "individual" /\ Stages[5] = "plan"
      BY <1>9, StagesOrder
    <2>4. stage = "slow" => k = 3
      <3>1. k \in 1 .. 5 /\ 3 \in 1 .. 5
        BY <1>3
      <3>2. Stages[k] = Stages[3] => k = 3
        BY <2>1, <3>1
      <3> QED BY <1>4, <2>3, <3>2
    <2>5. stage = "slow" => "individual" \in Range(todo')
      <3>1. k = 3 => 4 \in k + 1 .. 5
        OBVIOUS
      <3> QED BY <1>5, <2>3, <2>4, <3>1
    <2>6. stage = "individual" => k = 4
      <3>1. k \in 1 .. 5 /\ 4 \in 1 .. 5
        BY <1>3
      <3>2. Stages[k] = Stages[4] => k = 4
        BY <2>1, <3>1
      <3> QED BY <1>4, <2>3, <3>2
    <2>7. k = 4 => "slow" \notin Range(todo)
      <3>1. ASSUME k = 4, NEW j \in k .. 5 PROVE Stages[j] # "slow"
        <4>1. j \in {4, 5}
          BY <3>1
        <4> QED BY <2>3, <4>1
      <3> QED BY <1>4, <3>1
    <2> QED BY <1>4, <1>7, <1>9, <2>2, <2>5, <2>6, <2>7
  <1> QED BY <1>8, <1>9

\* What depends on the arguments and the server alone stays as it is.
LEMMA Unchanged ==
  ASSUME UNCHANGED argVars
  PROVE  /\ SlowOnes' = SlowOnes /\ Waits' = Waits /\ Blocks' = Blocks
         /\ Listed(server.samples)' = Listed(server.samples)
         /\ \A stage : Eligible(stage)' = Eligible(stage)
         /\ Stages' = Stages
  <1>1. /\ server' = server /\ databaseMap' = databaseMap /\ version' = version
        /\ enabledExtensions' = enabledExtensions /\ isRds' = isRds
    BY DEF argVars
  <1>2. SlowOnes' = SlowOnes
    BY <1>1 DEF SlowOnes, Listed, Running
  <1>3. Waits' = Waits /\ Blocks' = Blocks
    BY <1>1 DEF Waits, Blocks
  <1>4. Listed(server.samples)' = Listed(server.samples)
    BY <1>1 DEF Listed
  <1>5. \A stage : Eligible(stage)' = Eligible(stage)
    BY <1>1, Zenon
    DEF Eligible, WaitEligible, CheckSlowQueryMetricsFetchEligibility,
        CheckWaitEventMetricsFetchEligibility,
        CheckBlockingSessionMetricsFetchEligibility,
        CheckIndividualQueryMetricsFetchEligibility
  <1>6. Stages' = Stages
    BY <1>1 DEF Stages
  <1> QED BY <1>2, <1>3, <1>4, <1>5, <1>6

\* A list of complete reports stays complete: nothing reported goes away.
LEMMA StaysComplete ==
  ASSUME UNCHANGED argVars, Range(reported) \subseteq Range(reported')
  PROVE  /\ SlowComplete => SlowComplete'
         /\ IndividualComplete => IndividualComplete'
         /\ WaitComplete => WaitComplete'
         /\ BlockingComplete => BlockingComplete'
  <1>1. \A event, of : Reports(event, of) \subseteq Reports(event, of)'
    BY DEF Reports, Reported
  <1>2. isRds' = isRds
    BY DEF argVars
  <1>3. /\ SlowOnes' = SlowOnes /\ Waits' = Waits /\ Blocks' = Blocks
        /\ Listed(server.samples)' = Listed(server.samples)
    BY Unchanged
  <1>4. SlowComplete => SlowComplete'
    BY <1>1, <1>3 DEF SlowComplete
  <1>5. IndividualComplete => IndividualComplete'
    BY <1>1, <1>2, <1>3 DEF IndividualComplete
  <1>6. WaitComplete => WaitComplete'
    BY <1>1, <1>2, <1>3 DEF WaitComplete
  <1>7. BlockingComplete => BlockingComplete'
    BY <1>1, <1>2, <1>3 DEF BlockingComplete
  <1> QED BY <1>4, <1>5, <1>6, <1>7

\* A stage keeps the promises of those before it, and has to keep its own.
LEMMA LocalStep ==
  ASSUME TypeInv, TodoInv, LocalInv, UNCHANGED argVars,
         NEW stage, At(stage), NextStage,
         failed \subseteq failed', Range(reported) \subseteq Range(reported'),
         stage # "slow" => slowQueries' = slowQueries,
         stage = "slow" /\ "slow" \notin failed' /\ Eligible("slow") =>
           Range(slowQueries') = SlowOnes /\ SlowComplete',
         stage = "individual" /\ "individual" \notin failed' /\ Eligible("individual")
           /\ Range(slowQueries) = SlowOnes => IndividualComplete',
         stage = "wait" /\ "wait" \notin failed' /\ Eligible("wait")
           /\ (isRds => Range(slowQueries) = SlowOnes) => WaitComplete',
         stage = "blocking" /\ "blocking" \notin failed' /\ Eligible("blocking")
           /\ (isRds => Range(slowQueries) = SlowOnes) => BlockingComplete'
  PROVE  LocalInv'
  <1>1. /\ isRds \in BOOLEAN /\ isRds' = isRds /\ pc = "run"
    BY DEF TypeInv, At, argVars
  <1>2. /\ Over("slow") => Range(slowQueries) = SlowOnes /\ SlowComplete
        /\ Over("slow") /\ Over("individual") => IndividualComplete
        /\ Over("wait") /\ (isRds => Over("slow")) => WaitComplete
        /\ Over("blocking") /\ (isRds => Over("slow")) => BlockingComplete
    BY <1>1 DEF LocalInv
  <1>3. /\ stage \notin Range(todo') /\ Range(todo) = Range(todo') \cup {stage}
        /\ stage = "slow" => /\ "individual" \in Range(todo')
                             /\ isRds => {"wait", "blocking"} \subseteq Range(todo')
    BY <1>1, StageRuns
  <1>4. /\ SlowOnes' = SlowOnes
        /\ \A s : Eligible(s)' = Eligible(s)
    BY Unchanged
  <1>5. /\ SlowComplete => SlowComplete'
        /\ IndividualComplete => IndividualComplete'
        /\ WaitComplete => WaitComplete'
        /\ BlockingComplete => BlockingComplete'
    BY StaysComplete
  <1>6. \A s : Sound(s)' => s \notin failed' /\ s \notin failed /\ Eligible(s)
    BY <1>4 DEF Sound
  <1>7. \A s : Over(s)' => s \notin Range(todo') /\ s \notin failed' /\ Eligible(s)
    BY <1>6 DEF Over
  <1>8. \A s : s # stage /\ Over(s)' => Over(s)
    <2>1. \A s : s # stage /\ s \notin Range(todo') => s \notin Range(todo)
      BY <1>3
    <2> QED BY <1>6, <2>1 DEF Over, Sound
  <1>9. Over("slow")' => /\ Range(slowQueries') = SlowOnes /\ SlowComplete'
                         /\ stage # "slow" => Range(slowQueries) = SlowOnes
    BY <1>2, <1>5, <1>7, <1>8
  <1>10. Over("slow")' /\ Over("individual")' => IndividualComplete'
    BY <1>2, <1>3, <1>5, <1>7, <1>8, <1>9
  <1>11. Over("wait")' /\ (isRds => Over("slow")') => WaitComplete'
    BY <1>2, <1>3, <1>5, <1>7, <1>8, <1>9
  <1>12. Over("blocking")' /\ (isRds => Over("slow")') => BlockingComplete'
    BY <1>2, <1>3, <1>5, <1>7, <1>8, <1>9
  <1> QED BY <1>1, <1>4, <1>9, <1>10, <1>11, <1>12 DEF LocalInv

\* What a stage has to show for the invariant to hold after it.
LEMMA StageStep ==
  ASSUME IInv, UNCHANGED argVars, pc' = pc, NEW stage \in Stage, At(stage), NextStage,
         failed' \in {failed, failed \cup {stage}},
         NEW rows \in Seq(Rows),
         \A row \in Range(rows) : Grounded(row, reported, Len(reported), isRds),
         IngestMetric(rows) \/ IngestFails(rows),
         \/ slowQueries' = slowQueries
         \/ /\ slowQueries' \in Seq(Statement)
            /\ \A st \in Range(slowQueries') : SlowRow(st) \in Range(reported'),
         \/ individualQueries' = individualQueries
         \/ /\ individualQueries' \in Seq(Rows)
            /\ \A row \in Range(individualQueries') :
                 row.event = "individual" /\ row \in Range(reported'),
         NEW queries, asked' = asked \cup queries, \A query \in queries : Answerable(query),
         stage # "slow" => slowQueries' = slowQueries,
         stage = "slow" /\ "slow" \notin failed' /\ Eligible("slow") =>
           Range(slowQueries') = SlowOnes /\ SlowComplete',
         stage = "individual" /\ "individual" \notin failed' /\ Eligible("individual")
           /\ Range(slowQueries) = SlowOnes => IndividualComplete',
         stage = "wait" /\ "wait" \notin failed' /\ Eligible("wait")
           /\ (isRds => Range(slowQueries) = SlowOnes) => WaitComplete',
         stage = "blocking" /\ "blocking" \notin failed' /\ Eligible("blocking")
           /\ (isRds => Range(slowQueries) = SlowOnes) => BlockingComplete'
  PROVE  IInv'
  <1>1. /\ TypeInv /\ TodoInv /\ AskInv /\ TraceInv /\ LocalInv
    BY DEF IInv
  <1>2. /\ server' = server /\ version' = version /\ isRds' = isRds
        /\ enabledExtensions' = enabledExtensions /\ databaseMap' = databaseMap
        /\ pc = "run" /\ pc' = "run" /\ isRds \in BOOLEAN
    BY <1>1 DEF argVars, At, TypeInv
  <1>3. /\ reported' \in Seq(Rows) /\ kept' \in Seq(Rows)
        /\ \A i \in DOMAIN reported' :
             Grounded(reported'[i], reported', i - 1, isRds)
        /\ \A row \in Range(kept') :
             Grounded(row, reported', Len(reported'), isRds)
        /\ Range(reported) \subseteq Range(reported')
    BY <1>1, Published
  <1>4. TypeInv'
    BY <1>1, <1>2, <1>3 DEF TypeInv
  <1>5. TodoInv'
    <2>1. PICK k \in 1 .. 6 : todo' = RestFrom(k)
      BY <1>1, <1>2, StageRuns
    <2>2. Stages' = Stages
      BY Unchanged
    <2>3. \E n \in 1 .. 6 : todo' = SubSeq(Stages', n, 5)
      BY <2>1, <2>2 DEF RestFrom
    <2> QED BY <1>2, <2>3 DEF TodoInv, RestFrom
  <1>6. AskInv'
    <2>1. version >= 12
      BY <1>1, <1>2 DEF AskInv
    <2>2. \A query : Answerable(query)' = Answerable(query)
      BY <1>2, Zenon DEF Answerable
    <2>3. \A query \in asked' : Answerable(query)
      BY <1>1 DEF AskInv, QueriesFitServer
    <2> QED BY <1>2, <2>1, <2>2, <2>3 DEF AskInv, QueriesFitServer
  <1>7. TraceInv'
    <2>1. \A st \in Range(slowQueries') : SlowRow(st) \in Range(reported')
      BY <1>1, <1>3 DEF TraceInv
    <2>2. \A row \in Range(individualQueries') :
            row.event = "individual" /\ row \in Range(reported')
      BY <1>1, <1>3 DEF TraceInv
    <2> QED BY <1>2, <1>3, <2>1, <2>2 DEF TraceInv
  <1>8. LocalInv'
    BY <1>1, <1>3, LocalStep
  <1> QED BY <1>4, <1>5, <1>6, <1>7, <1>8 DEF IInv

-----------------------------------------------------------------------------
(* The steps *)

\* A stage that does nothing, or only fails, publishes an empty list.
LEMMA NoRows ==
  /\ <<>> \in Seq(Rows) /\ Range(<<>>) = {}
  /\ UNCHANGED <<reported, kept>> => IngestMetric(<<>>)
  <1>1. Range(<<>>) = {}
    BY DEF Range
  <1> QED BY <1>1, EmptySeq DEF IngestMetric

LEMMA StepIneligible ==
  ASSUME IInv,
         SlowIneligible \/ IndividualIneligible \/ WaitIneligible \/ BlockingIneligible
  PROVE  IInv'
  <1> DEFINE Skipped(stage) ==
               /\ At(stage) /\ ~Eligible(stage) /\ NextStage
               /\ UNCHANGED <<argVars, pc, slowQueries, individualQueries, reported,
                              kept, asked, failed>>
  <1>1. \E stage \in Stage : Skipped(stage)
    <2>1. SlowIneligible => Skipped("slow")
      BY DEF SlowIneligible, Eligible
    <2>2. IndividualIneligible => Skipped("individual")
      BY DEF IndividualIneligible, Eligible
    <2>3. WaitIneligible => Skipped("wait")
      BY DEF WaitIneligible, Eligible
    <2>4. BlockingIneligible => Skipped("blocking")
      BY DEF BlockingIneligible, Eligible
    <2> HIDE DEF Skipped
    <2> QED BY <2>1, <2>2, <2>3, <2>4 DEF Stage
  <1>2. PICK stage \in Stage : Skipped(stage)
    BY <1>1
  <1>3. /\ At(stage) /\ ~Eligible(stage) /\ NextStage /\ UNCHANGED argVars /\ pc' = pc
        /\ slowQueries' = slowQueries /\ individualQueries' = individualQueries
        /\ UNCHANGED <<reported, kept>> /\ asked' = asked \cup {} /\ failed' = failed
    BY <1>2
  <1> HIDE DEF Skipped
  <1> QED BY <1>3, NoRows, StageStep

\* What a row among those reported shows.
LEMMA ReportsSome ==
  ASSUME NEW event, NEW of,
         \E row \in Range(reported') : row.event = event /\ row.of = of
  PROVE  Reports(event, of)' # {}
  BY DEF Reports, Reported

\* The queries chosen by version and extension can be answered.
LEMMA Asked ==
  ASSUME version \in Nat, version >= 12
  PROVE  /\ CheckSlowQueryMetricsFetchEligibility =>
              Answerable(FetchVersionSpecificSlowQuery)
         /\ CheckWaitEventMetricsFetchEligibility => Answerable("WaitEvents")
         /\ CheckBlockingSessionMetricsFetchEligibility =>
              Answerable(FetchVersionSpecificBlockingQuery)
         /\ CheckIndividualQueryMetricsFetchEligibility =>
              Answerable(FetchVersionSpecificIndividualQueries)
         /\ Answerable("IndividualQueryFromPgStat")
         /\ Answerable("WaitEventsFromPgStatActivity")
         /\ Answerable("RDSPostgresBlockingQuery")
  <1>1. CheckSlowQueryMetricsFetchEligibility => Answerable(FetchVersionSpecificSlowQuery)
    BY DEF CheckSlowQueryMetricsFetchEligibility, FetchVersionSpecificSlowQuery, Answerable
  <1>2. CheckWaitEventMetricsFetchEligibility => Answerable("WaitEvents")
    BY DEF CheckWaitEventMetricsFetchEligibility, Answerable
  <1>3. CheckBlockingSessionMetricsFetchEligibility =>
          Answerable(FetchVersionSpecificBlockingQuery)
    BY DEF CheckBlockingSessionMetricsFetchEligibility,
           FetchVersionSpecificBlockingQuery, Answerable
  <1>4. CheckIndividualQueryMetricsFetchEligibility =>
          Answerable(FetchVersionSpecificIndividualQueries)
    BY DEF CheckIndividualQueryMetricsFetchEligibility,
           FetchVersionSpecificIndividualQueries, Answerable
  <1>5. /\ Answerable("IndividualQueryFromPgStat")
        /\ Answerable("WaitEventsFromPgStatActivity")
        /\ Answerable("RDSPostgresBlockingQuery")
    BY DEF Answerable
  <1> QED BY <1>1, <1>2, <1>3, <1>4, <1>5

LEMMA VersionKnown ==
  ASSUME IInv, NEW stage, At(stage)
  PROVE  version \in Nat /\ version >= 12 /\ isRds \in BOOLEAN
         /\ TypeInv /\ TodoInv /\ TraceInv
  BY DEF IInv, TypeInv, AskInv, At

LEMMA StepIngestSlow ==
  ASSUME IInv, At("slow"), NextStage, UNCHANGED argVars, pc' = pc,
         individualQueries' = individualQueries,
         NEW list \in Seq(Statement), NEW complete \in BOOLEAN,
         IngestSlow(list, complete), complete => Range(list) = SlowOnes,
         NEW queries, Ask(queries), \A query \in queries : Answerable(query)
  PROVE  IInv'
  <1>1. TypeInv /\ TraceInv
    BY DEF IInv
  <1> DEFINE rows == SlowRows(list)
  <1>2. rows \in Seq(Rows) /\ Range(rows) = {SlowRow(st) : st \in Range(list)}
    BY SlowRowsMade
  <1>3. \A st : SlowRow(st).event = "slow" /\ SlowRow(st).of = <<st>>
    BY DEF SlowRow, Row
  <1>4. \A row \in Range(rows) : Grounded(row, reported, Len(reported), isRds)
    BY <1>2, <1>3 DEF Grounded, Correlated
  <1>5. asked' = asked \cup queries /\ "slow" \in Stage
    BY DEF Ask, Stage
  <1> HIDE DEF rows
  <1>6. CASE IngestMetric(rows) /\ slowQueries' = list /\ FailUnless(complete, "slow")
    <2>1. \A st \in Range(list) : SlowRow(st) \in Range(reported')
      BY <1>1, <1>2, <1>4, <1>6, Published
    <2>2. failed' \in {failed, failed \cup {"slow"}} /\ ("slow" \notin failed' => complete)
      BY <1>6 DEF FailUnless
    <2>3. SlowOnes' = SlowOnes
      BY Unchanged
    <2>4. "slow" \notin failed' => Range(slowQueries') = SlowOnes /\ SlowComplete'
      <3>1. ASSUME Range(list) = SlowOnes PROVE SlowComplete'
        <4>1. \A st \in SlowOnes : Reports("slow", <<st>>)' # {}
          BY <1>3, <2>1, <3>1, ReportsSome
        <4> QED BY <2>3, <4>1 DEF SlowComplete
      <3> QED BY <1>6, <2>2, <3>1
    <2> QED BY <1>2, <1>4, <1>5, <1>6, <2>1, <2>2, <2>4, StageStep
  <1>7. CASE IngestFails(rows) /\ slowQueries' = <<>> /\ Fail("slow")
    <2>1. failed' = failed \cup {"slow"}
      BY <1>7 DEF Fail
    <2>2. slowQueries' \in Seq(Statement)
          /\ \A st \in Range(slowQueries') : SlowRow(st) \in Range(reported')
      BY <1>7, EmptySeq DEF Range
    <2> QED BY <1>2, <1>4, <1>5, <1>7, <2>1, <2>2, StageStep
  <1> QED BY <1>6, <1>7 DEF IngestSlow, rows

LEMMA StepSlow ==
  ASSUME IInv, PopulateSlowRunningMetrics \/ PopulateSlowRunningMetricsPgStat
  PROVE  IInv'
  <1>1. /\ At("slow") /\ NextStage /\ UNCHANGED argVars /\ pc' = pc
        /\ individualQueries' = individualQueries
        /\ CheckSlowQueryMetricsFetchEligibility
    BY DEF PopulateSlowRunningMetrics, PopulateSlowRunningMetricsPgStat
  <1>2. /\ Answerable(FetchVersionSpecificSlowQuery)
        /\ Answerable("IndividualQueryFromPgStat") /\ TypeInv
    BY <1>1, VersionKnown, Asked
  <1>3. /\ Listed(server.slow) \in Seq(Statement)
        /\ server.active \in Seq(Statement)
    BY <1>2, Answers
  <1>4. CASE PopulateSlowRunningMetrics
    <2>1. /\ ~isRds /\ Ask({FetchVersionSpecificSlowQuery})
          /\ \E list \in Fetch(Listed(server.slow)) :
               IngestSlow(list, list = Listed(server.slow))
      BY <1>4 DEF PopulateSlowRunningMetrics
    <2>2. PICK list \in Fetch(Listed(server.slow)) :
            IngestSlow(list, list = Listed(server.slow))
      BY <2>1
    <2>3. list \in Seq(Statement)
      BY <1>3, FetchPart
    <2>4. list = Listed(server.slow) => Range(list) = SlowOnes
      BY <2>1 DEF SlowOnes
    <2>5. \A query \in {FetchVersionSpecificSlowQuery} : Answerable(query)
      BY <1>2
    <2> DEFINE complete == list = Listed(server.slow)
    <2>6. /\ complete \in BOOLEAN /\ IngestSlow(list, complete)
          /\ complete => Range(list) = SlowOnes
      BY <2>2, <2>4
    <2> HIDE DEF complete
    <2> QED BY <1>1, <2>1, <2>3, <2>5, <2>6, StepIngestSlow
  <1>5. CASE PopulateSlowRunningMetricsPgStat
    <2> DEFINE queries == {FetchVersionSpecificSlowQuery, "IndividualQueryFromPgStat"}
    <2>1. /\ isRds /\ Ask(queries)
          /\ \E active \in Fetch(server.active), list \in Fetch(Listed(server.slow)) :
               IngestSlow(getFilteredSlowMetrics(active, list),
                          active = server.active /\ list = Listed(server.slow))
      BY <1>5 DEF PopulateSlowRunningMetricsPgStat
    <2>2. PICK active \in Fetch(server.active), list \in Fetch(Listed(server.slow)) :
            IngestSlow(getFilteredSlowMetrics(active, list),
                       active = server.active /\ list = Listed(server.slow))
      BY <2>1
    <2> DEFINE complete == active = server.active /\ list = Listed(server.slow)
               left == getFilteredSlowMetrics(active, list)
               places == {i \in DOMAIN list :
                            \E q \in Range(active) : q.text = list[i].text}
    <2>3. list \in Seq(Statement)
      BY <1>3, FetchPart
    <2>4. left \in Seq(Statement) /\ Range(left) = {list[i] : i \in places \cap DOMAIN list}
      BY <2>3, OnlyRange DEF getFilteredSlowMetrics
    <2>5. complete => Range(left) = SlowOnes
      <3>1. Range(left) = {st \in Range(list) : \E q \in Range(active) : q.text = st.text}
        BY <2>4 DEF Range
      <3> QED BY <2>1, <3>1 DEF SlowOnes, Running
    <2>6. \A query \in queries : Answerable(query)
      BY <1>2
    <2>7. complete \in BOOLEAN /\ IngestSlow(left, complete)
      BY <2>2
    <2> HIDE DEF complete, left, queries
    <2> QED BY <1>1, <2>1, <2>4, <2>5, <2>6, <2>7, StepIngestSlow
  <1> QED BY <1>4, <1>5

LEMMA IndividualAsked ==
  ASSUME IInv, At("individual"), AskIndividual,
         isRds \/ CheckIndividualQueryMetricsFetchEligibility
  PROVE  \E queries : /\ asked' = asked \cup queries
                      /\ \A query \in queries : Answerable(query)
  <1>1. CASE asked' = asked
    <2> DEFINE queries == {}
    <2>1. asked' = asked \cup queries /\ \A query \in queries : Answerable(query)
      BY <1>1
    <2> HIDE DEF queries
    <2> QED BY <2>1
  <1>2. CASE asked' # asked
    <2> DEFINE queries == {FetchVersionSpecificIndividualQueries}
    <2>1. ~isRds /\ asked' = asked \cup queries
      BY <1>2 DEF AskIndividual, Ask
    <2>2. Answerable(FetchVersionSpecificIndividualQueries)
      BY <2>1, VersionKnown, Asked
    <2>3. \A query \in queries : Answerable(query)
      BY <2>2
    <2> HIDE DEF queries
    <2> QED BY <2>1, <2>3
  <1> QED BY <1>1, <1>2

LEMMA StepIndividual ==
  ASSUME IInv, PopulateIndividualQueryMetrics
  PROVE  IInv'
  <1> DEFINE all == getIndividualQueryMetrics
  <1>1. /\ At("individual") /\ NextStage /\ UNCHANGED argVars /\ pc' = pc
        /\ slowQueries' = slowQueries /\ AskIndividual
        /\ isRds \/ CheckIndividualQueryMetricsFetchEligibility
        /\ \E lost \in SUBSET DOMAIN all :
             \E ids \in [DOMAIN Only(all, DOMAIN all \ lost) -> PlanIds] :
               IngestIndividual(IndividualRows(Only(all, DOMAIN all \ lost), ids),
                                lost = {})
    BY DEF PopulateIndividualQueryMetrics
  <1>2. TypeInv /\ TraceInv /\ isRds \in BOOLEAN
    BY <1>1, VersionKnown
  <1>3. PICK lost \in SUBSET DOMAIN all :
          \E ids \in [DOMAIN Only(all, DOMAIN all \ lost) -> PlanIds] :
            IngestIndividual(IndividualRows(Only(all, DOMAIN all \ lost), ids),
                             lost = {})
    BY <1>1
  <1>4. /\ all \in Seq(Statement \X Statement)
        /\ \A p \in Range(all) : p[2] \in Range(slowQueries)
        /\ isRds => \A st \in Range(slowQueries) : <<st, st>> \in Range(all)
        /\ ~isRds => \A st \in Range(Listed(server.samples)), slow \in Range(slowQueries) :
                       st.id # NoId /\ slow.id = st.id => <<st, slow>> \in Range(all)
    BY <1>2, IndividualPairs
  <1> HIDE DEF all
  <1> DEFINE pairs == Only(all, DOMAIN all \ lost)
  <1>5. /\ pairs \in Seq(Statement \X Statement)
        /\ Range(pairs) = {all[i] : i \in (DOMAIN all \ lost) \cap DOMAIN all}
    BY <1>4, OnlyRange
  <1>6. /\ \A p \in Range(pairs) : p[2] \in Range(slowQueries)
        /\ lost = {} => Range(pairs) = Range(all)
    BY <1>4, <1>5 DEF Range
  <1>7. PICK ids \in [DOMAIN pairs -> PlanIds] :
          IngestIndividual(IndividualRows(pairs, ids), lost = {})
    BY <1>3
  <1> HIDE DEF pairs
  <1> DEFINE rows == IndividualRows(pairs, ids)
  <1>8. /\ rows \in Seq(Rows)
        /\ \A row \in Range(rows) : /\ row.event = "individual"
                                    /\ Grounded(row, reported, Len(reported), isRds)
        /\ \A p \in Range(pairs) :
             \E row \in Range(rows) : row.event = "individual" /\ row.of = <<p[1]>>
    BY <1>2, <1>5, <1>6, <1>7, IndividualRowsMade
  <1>9. PICK queries : /\ asked' = asked \cup queries
                       /\ \A query \in queries : Answerable(query)
    BY <1>1, IndividualAsked
  <1>s. "individual" \in Stage
    BY DEF Stage
  <1>10. IngestIndividual(rows, lost = {})
    BY <1>7
  <1> HIDE DEF rows
  <1>11. CASE /\ IngestMetric(rows) /\ individualQueries' = rows
              /\ FailUnless(lost = {}, "individual")
    <2>1. Range(rows) \subseteq Range(reported')
      BY <1>2, <1>8, <1>11, Published
    <2>2. /\ failed' \in {failed, failed \cup {"individual"}}
          /\ "individual" \notin failed' => lost = {}
      BY <1>11 DEF FailUnless
    <2>3. /\ SlowOnes' = SlowOnes /\ Listed(server.samples)' = Listed(server.samples)
          /\ isRds' = isRds
      BY <1>1, Unchanged DEF argVars
    <2>4. ASSUME lost = {}, NEW st, NEW slow, <<st, slow>> \in Range(all)
          PROVE  Reports("individual", <<st>>)' # {}
      <3>1. <<st, slow>> \in Range(pairs) /\ <<st, slow>>[1] = st
        BY <1>6, <2>4
      <3>2. \E row \in Range(rows) : row.event = "individual" /\ row.of = <<st>>
        BY <1>8, <3>1
      <3> QED BY <2>1, <3>2, ReportsSome
    <2>5. ASSUME lost = {}, Range(slowQueries) = SlowOnes PROVE IndividualComplete'
      <3>1. CASE isRds
        <4>1. \A st \in SlowOnes : Reports("individual", <<st>>)' # {}
          BY <1>4, <2>4, <2>5, <3>1
        <4> QED BY <2>3, <3>1, <4>1 DEF IndividualComplete
      <3>2. CASE ~isRds
        <4>1. \A st \in Range(Listed(server.samples)) :
                st.id # NoId /\ (\E slow \in SlowOnes : slow.id = st.id)
                  => Reports("individual", <<st>>)' # {}
          BY <1>4, <2>4, <2>5, <3>2
        <4> QED BY <2>3, <3>2, <4>1 DEF IndividualComplete
      <3> QED BY <3>1, <3>2
    <2> QED BY <1>1, <1>8, <1>9, <1>s, <1>11, <2>1, <2>2, <2>5, StageStep
  <1>12. CASE IngestFails(rows) /\ individualQueries' = <<>> /\ Fail("individual")
    <2>1. failed' = failed \cup {"individual"}
      BY <1>12 DEF Fail
    <2>2. /\ individualQueries' \in Seq(Rows)
          /\ \A row \in Range(individualQueries') :
               row.event = "individual" /\ row \in Range(reported')
      BY <1>12, NoRows
    <2> QED BY <1>1, <1>8, <1>9, <1>s, <1>12, <2>1, <2>2, StageStep
  <1> QED BY <1>10, <1>11, <1>12 DEF IngestIndividual

LEMMA StepIndividualFetchFails ==
  ASSUME IInv, IndividualFetchFails
  PROVE  IInv'
  <1>1. /\ At("individual") /\ NextStage /\ UNCHANGED argVars /\ pc' = pc
        /\ slowQueries' = slowQueries /\ individualQueries' = individualQueries
        /\ UNCHANGED <<reported, kept>> /\ AskIndividual
        /\ CheckIndividualQueryMetricsFetchEligibility
        /\ failed' = failed \cup {"individual"}
    BY DEF IndividualFetchFails, Fail
  <1>2. PICK queries : /\ asked' = asked \cup queries
                       /\ \A query \in queries : Answerable(query)
    BY <1>1, IndividualAsked
  <1>3. "individual" \in Stage
    BY DEF Stage
  <1> QED BY <1>1, <1>2, <1>3, NoRows, StageStep

LEMMA StepPlan ==
  ASSUME IInv, PopulateExecutionPlanMetrics
  PROVE  IInv'
  <1> DEFINE places(lost) == {i \in DOMAIN individualQueries \ lost :
                                Explicable(individualQueries[i])}
             list(lost) == Only(individualQueries, places(lost))
  <1>1. /\ At("plan") /\ NextStage /\ UNCHANGED argVars /\ pc' = pc
        /\ slowQueries' = slowQueries /\ individualQueries' = individualQueries
        /\ asked' = asked
        /\ \E lost \in SUBSET DOMAIN individualQueries :
             \/ IngestMetric(PlanRows(list(lost))) /\ FailUnless(lost = {}, "plan")
             \/ IngestFails(PlanRows(list(lost))) /\ Fail("plan")
    BY DEF PopulateExecutionPlanMetrics
  <1>2. PICK lost \in SUBSET DOMAIN individualQueries :
          \/ IngestMetric(PlanRows(list(lost))) /\ FailUnless(lost = {}, "plan")
          \/ IngestFails(PlanRows(list(lost))) /\ Fail("plan")
    BY <1>1
  <1>3. TypeInv /\ TraceInv
    BY DEF IInv
  <1>4. /\ list(lost) \in Seq(Rows)
        /\ Range(list(lost)) = {individualQueries[i] :
                                  i \in places(lost) \cap DOMAIN individualQueries}
    BY <1>3, OnlyRange DEF TypeInv
  <1>5. \A row \in Range(list(lost)) : Explicable(row) /\ row \in Range(individualQueries)
    BY <1>4 DEF Range
  <1> HIDE DEF list
  <1> DEFINE rows == PlanRows(list(lost))
  <1>6. /\ rows \in Seq(Rows)
        /\ \A row \in Range(rows) : Grounded(row, reported, Len(reported), isRds)
    BY <1>3, <1>4, <1>5, PlanRowsMade
  <1>7. IngestMetric(rows) \/ IngestFails(rows)
    BY <1>2
  <1>8. failed' \in {failed, failed \cup {"plan"}}
    BY <1>2 DEF FailUnless, Fail
  <1> DEFINE none == {}
  <1>9. /\ asked' = asked \cup none /\ \A query \in none : Answerable(query)
        /\ "plan" \in Stage
    BY <1>1 DEF Stage
  <1>10. /\ At("plan") /\ NextStage /\ UNCHANGED argVars /\ pc' = pc
         /\ slowQueries' = slowQueries /\ individualQueries' = individualQueries
    BY <1>1
  <1> HIDE DEF rows, none
  <1> QED BY <1>6, <1>7, <1>8, <1>9, <1>10, StageStep


LEMMA StepWait ==
  ASSUME IInv, PopulateWaitEventMetrics
  PROVE  IInv'
  <1> DEFINE queries == {IF isRds THEN "WaitEventsFromPgStatActivity" ELSE "WaitEvents"}
  <1>1. /\ At("wait") /\ NextStage /\ UNCHANGED argVars /\ pc' = pc
        /\ slowQueries' = slowQueries /\ individualQueries' = individualQueries
        /\ WaitEligible /\ asked' = asked \cup queries
        /\ \E waits \in Fetch(Waits) :
             \/ IngestMetric(WaitRows(waits)) /\ FailUnless(waits = Waits, "wait")
             \/ IngestFails(WaitRows(waits)) /\ Fail("wait")
    BY DEF PopulateWaitEventMetrics, Ask
  <1>2. /\ version \in Nat /\ version >= 12 /\ isRds \in BOOLEAN
        /\ TypeInv /\ TodoInv /\ TraceInv
    BY <1>1, VersionKnown
  <1>3. PICK waits \in Fetch(Waits) :
          \/ IngestMetric(WaitRows(waits)) /\ FailUnless(waits = Waits, "wait")
          \/ IngestFails(WaitRows(waits)) /\ Fail("wait")
    BY <1>1
  <1>4. waits \in Seq(Statement)
    BY <1>2, <1>3, Answers, FetchPart
  <1> DEFINE rows == WaitRows(waits)
  <1>5. /\ rows \in Seq(Rows)
        /\ \A row \in Range(rows) : Grounded(row, reported, Len(reported), isRds)
        /\ \A st \in Range(waits) :
             (isRds => Known(st.text)) =>
               \E row \in Range(rows) : row.event = "wait" /\ row.of = <<st>>
    BY <1>2, <1>4, WaitRowsMade
  <1>6. \A query \in queries : Answerable(query)
    BY <1>1, <1>2, Asked DEF WaitEligible
  <1> HIDE DEF rows, queries
  <1>7. IngestMetric(rows) \/ IngestFails(rows)
    BY <1>3 DEF rows
  <1>8. failed' \in {failed, failed \cup {"wait"}} /\ "wait" \in Stage
    BY <1>3 DEF FailUnless, Fail, Stage
  <1>9. ASSUME "wait" \notin failed', isRds => Range(slowQueries) = SlowOnes
        PROVE  WaitComplete'
    <2>1. IngestMetric(rows) /\ waits = Waits
      BY <1>3, <1>9 DEF rows, FailUnless, Fail
    <2>2. Range(rows) \subseteq Range(reported')
      BY <1>2, <1>5, <2>1, Published
    <2>3. Waits' = Waits /\ SlowOnes' = SlowOnes /\ isRds' = isRds
      BY <1>1, Unchanged DEF argVars
    <2>4. ASSUME NEW st \in Range(Waits),
                 isRds => \E slow \in SlowOnes : slow.text = st.text
          PROVE  Reports("wait", <<st>>)' # {}
      <3>1. isRds => Known(st.text)
        BY <1>9, <2>4 DEF Known
      <3>2. \E row \in Range(rows) : row.event = "wait" /\ row.of = <<st>>
        BY <1>5, <2>1, <2>4, <3>1
      <3> QED BY <2>2, <3>2, ReportsSome
    <2> QED BY <2>3, <2>4 DEF WaitComplete
  <1>10. /\ At("wait") /\ NextStage /\ UNCHANGED argVars /\ pc' = pc
         /\ slowQueries' = slowQueries /\ individualQueries' = individualQueries
         /\ asked' = asked \cup queries
    BY <1>1
  <1>11. /\ rows \in Seq(Rows)
         /\ \A row \in Range(rows) : Grounded(row, reported, Len(reported), isRds)
    BY <1>5
  <1> QED BY <1>6, <1>7, <1>8, <1>9, <1>10, <1>11, StageStep

LEMMA StepBlocking ==
  ASSUME IInv, PopulateBlockingMetrics
  PROVE  IInv'
  <1> DEFINE queries == {IF isRds THEN "RDSPostgresBlockingQuery"
                                  ELSE FetchVersionSpecificBlockingQuery}
  <1>1. /\ At("blocking") /\ NextStage /\ UNCHANGED argVars /\ pc' = pc
        /\ slowQueries' = slowQueries /\ individualQueries' = individualQueries
        /\ CheckBlockingSessionMetricsFetchEligibility /\ asked' = asked \cup queries
        /\ \E blocks \in Fetch(Blocks) :
             \/ /\ IngestMetric(BlockingRows(blocks))
                /\ FailUnless(blocks = Blocks, "blocking")
             \/ IngestFails(BlockingRows(blocks)) /\ Fail("blocking")
    BY DEF PopulateBlockingMetrics, Ask
  <1>2. /\ version \in Nat /\ version >= 12 /\ isRds \in BOOLEAN
        /\ TypeInv /\ TodoInv /\ TraceInv
    BY <1>1, VersionKnown
  <1>3. PICK blocks \in Fetch(Blocks) :
          \/ /\ IngestMetric(BlockingRows(blocks))
             /\ FailUnless(blocks = Blocks, "blocking")
          \/ IngestFails(BlockingRows(blocks)) /\ Fail("blocking")
    BY <1>1
  <1>4. blocks \in Seq(Statement \X Statement)
    BY <1>2, <1>3, Answers, FetchPart
  <1> DEFINE rows == BlockingRows(blocks)
  <1>5. /\ rows \in Seq(Rows)
        /\ \A row \in Range(rows) : Grounded(row, reported, Len(reported), isRds)
        /\ \A b \in Range(blocks) :
             (isRds => \A k \in {1, 2} : Known(b[k].text)) =>
               \E row \in Range(rows) : row.event = "blocking" /\ row.of = b
    BY <1>2, <1>4, BlockingRowsMade
  <1>6. \A query \in queries : Answerable(query)
    BY <1>1, <1>2, Asked
  <1> HIDE DEF rows, queries
  <1>7. IngestMetric(rows) \/ IngestFails(rows)
    BY <1>3 DEF rows
  <1>8. failed' \in {failed, failed \cup {"blocking"}} /\ "blocking" \in Stage
    BY <1>3 DEF FailUnless, Fail, Stage
  <1>9. ASSUME "blocking" \notin failed', isRds => Range(slowQueries) = SlowOnes
        PROVE  BlockingComplete'
    <2>1. IngestMetric(rows) /\ blocks = Blocks
      BY <1>3, <1>9 DEF rows, FailUnless, Fail
    <2>2. Range(rows) \subseteq Range(reported')
      BY <1>2, <1>5, <2>1, Published
    <2>3. Blocks' = Blocks /\ SlowOnes' = SlowOnes /\ isRds' = isRds
      BY <1>1, Unchanged DEF argVars
    <2>4. ASSUME NEW b \in Range(Blocks),
                 isRds => \A k \in {1, 2} : \E slow \in SlowOnes : slow.text = b[k].text
          PROVE  Reports("blocking", b)' # {}
      <3>1. isRds => \A k \in {1, 2} : Known(b[k].text)
        BY <1>9, <2>4 DEF Known
      <3>2. \E row \in Range(rows) : row.event = "blocking" /\ row.of = b
        BY <1>5, <2>1, <2>4, <3>1
      <3> QED BY <2>2, <3>2, ReportsSome
    <2> QED BY <2>3, <2>4 DEF BlockingComplete
  <1>10. /\ At("blocking") /\ NextStage /\ UNCHANGED argVars /\ pc' = pc
         /\ slowQueries' = slowQueries /\ individualQueries' = individualQueries
         /\ asked' = asked \cup queries
    BY <1>1
  <1>11. /\ rows \in Seq(Rows)
         /\ \A row \in Range(rows) : Grounded(row, reported, Len(reported), isRds)
    BY <1>5
  <1> QED BY <1>6, <1>7, <1>8, <1>9, <1>10, <1>11, StageStep

\* Before the first stage and after the last one.
LEMMA StepMain ==
  ASSUME IInv, QueryPerformanceMain \/ GiveUp \/ Finish
  PROVE  IInv'
  <1>1. /\ UNCHANGED argVars /\ slowQueries' = slowQueries
        /\ individualQueries' = individualQueries /\ reported' = reported
        /\ kept' = kept /\ asked' = asked /\ failed' = failed
    BY DEF QueryPerformanceMain, GiveUp, Finish
  <1>2. /\ TypeInv /\ TodoInv /\ AskInv /\ TraceInv /\ LocalInv
        /\ isRds \in BOOLEAN /\ isRds' = isRds /\ version' = version
        /\ server' = server /\ enabledExtensions' = enabledExtensions
        /\ databaseMap' = databaseMap
    BY <1>1 DEF IInv, TypeInv, argVars
  <1>3. TypeInv' /\ TraceInv'
    <2>1. pc' \in {"start", "run", "done"}
      BY DEF QueryPerformanceMain, GiveUp, Finish
    <2> QED BY <1>1, <1>2, <2>1 DEF TypeInv, TraceInv
  <1>4. TodoInv'
    <2>1. CASE QueryPerformanceMain
      <3>1. Stages' = Stages
        BY <1>1, Unchanged
      <3>2. SubSeq(Stages, 1, 5) = Stages
        <4>1. Stages \in Seq(Stage) /\ Len(Stages) = 5
          BY <1>2, StagesOrder
        <4> QED BY <4>1, SubSeqFull
      <3>3. pc' = "run" /\ todo' = SubSeq(Stages', 1, 5)
        BY <2>1, <3>1, <3>2 DEF QueryPerformanceMain
      <3>4. \E k \in 1 .. 6 : todo' = SubSeq(Stages', k, 5)
        BY <3>3
      <3> QED BY <3>3, <3>4 DEF TodoInv, RestFrom
    <2>2. CASE GiveUp \/ Finish
      <3>1. pc' = "done" /\ todo' = <<>>
        BY <1>2, <2>2 DEF GiveUp, Finish, TodoInv
      <3> QED BY <3>1 DEF TodoInv
    <2> QED BY <2>1, <2>2
  <1>5. AskInv'
    <2>1. \A query : Answerable(query)' = Answerable(query)
      BY <1>2, Zenon DEF Answerable
    <2>2. pc' # "start" /\ (pc' = "run" => version >= 12)
      BY DEF QueryPerformanceMain, GiveUp, Finish,
             CheckPostgresVersionSupportForQueryMonitoring
    <2> QED BY <1>1, <1>2, <2>1, <2>2 DEF AskInv, QueriesFitServer
  <1>6. LocalInv'
    <2>1. CASE QueryPerformanceMain
      <3>1. /\ Stages \in Seq(Stage) /\ Range(Stages) = Stage
        <4>1. /\ Stages \in Seq(Stage) /\ Len(Stages) = 5
              /\ {Stages[1], Stages[2], Stages[3], Stages[4], Stages[5]} = Stage
          BY <1>2, StagesOrder DEF Stage
        <4>2. DOMAIN Stages = 1 .. 5
          BY <4>1, RangeType
        <4>3. {1, 2, 3, 4, 5} = 1 .. 5
          OBVIOUS
        <4> QED BY <4>1, <4>2, <4>3 DEF Range
      <3>2. Range(todo') = Stage
        BY <2>1, <3>1 DEF QueryPerformanceMain
      <3>3. \A stage \in Stage : ~Over(stage)'
        BY <3>2 DEF Over
      <3>4. ~Over("slow")' /\ ~Over("wait")' /\ ~Over("blocking")'
        BY <3>3 DEF Stage
      <3> QED BY <3>4 DEF LocalInv
    <2>2. CASE GiveUp
      <3>1. asked' = {} /\ pc' = "done"
        BY <1>1, <1>2, <2>2 DEF GiveUp, AskInv
      <3> QED BY <3>1 DEF LocalInv
    <2>3. CASE Finish
      <3>1. pc = "run" /\ todo' = todo
        BY <2>3 DEF Finish
      <3>2. /\ SlowOnes' = SlowOnes /\ (\A s : Eligible(s)' = Eligible(s))
        BY <1>1, Unchanged
      <3>3. \A s : Over(s)' = Over(s)
        BY <1>1, <3>1, <3>2 DEF Over, Sound
      <3>4. /\ SlowComplete => SlowComplete'
            /\ IndividualComplete => IndividualComplete'
            /\ WaitComplete => WaitComplete'
            /\ BlockingComplete => BlockingComplete'
        BY <1>1, StaysComplete
      <3> QED BY <1>1, <1>2, <3>1, <3>2, <3>3, <3>4 DEF LocalInv
    <2> QED BY <2>1, <2>2, <2>3
  <1> QED BY <1>2, <1>3, <1>4, <1>5, <1>6 DEF IInv

-----------------------------------------------------------------------------
(* The theorems *)

\* For every server, any set of statements, databases and versions: what the
\* stages of a run hand to each other and publish is well formed, well founded
\* and, as long as no stage failed, complete.
THEOREM Inductive == Spec => []IInv
  <1>1. Init => IInv
    <2> SUFFICES ASSUME Init PROVE IInv
      OBVIOUS
    <2>1. /\ server \in ServerType /\ version \in Nat /\ isRds \in BOOLEAN
          /\ pc = "start" /\ todo = <<>> /\ slowQueries = <<>>
          /\ individualQueries = <<>> /\ reported = <<>> /\ kept = <<>>
          /\ asked = {} /\ failed = {}
      BY MonitoringAssumption DEF Init
    <2>2. Range(<<>>) = {} /\ DOMAIN <<>> = {}
      BY DEF Range
    <2>3. TypeInv
      BY <2>1, EmptySeq DEF TypeInv
    <2>4. TodoInv /\ AskInv
      BY <2>1 DEF TodoInv, AskInv, QueriesFitServer
    <2>5. TraceInv
      BY <2>1, <2>2 DEF TraceInv
    <2>6. LocalInv
      BY <2>1 DEF LocalInv
    <2> QED BY <2>3, <2>4, <2>5, <2>6 DEF IInv
  <1>2. IInv /\ [Next]_vars => IInv'
    <2> SUFFICES ASSUME IInv, [Next]_vars PROVE IInv'
      OBVIOUS
    <2>1. CASE QueryPerformanceMain \/ GiveUp \/ Finish
      BY <2>1, StepMain
    <2>2. CASE SlowIneligible \/ IndividualIneligible \/ WaitIneligible
               \/ BlockingIneligible
      BY <2>2, StepIneligible
    <2>3. CASE PopulateSlowRunningMetrics \/ PopulateSlowRunningMetricsPgStat
      BY <2>3, StepSlow
    <2>4. CASE PopulateIndividualQueryMetrics
      BY <2>4, StepIndividual
    <2>5. CASE IndividualFetchFails
      BY <2>5, StepIndividualFetchFails
    <2>6. CASE PopulateExecutionPlanMetrics
      BY <2>6, StepPlan
    <2>7. CASE PopulateWaitEventMetrics
      BY <2>7, StepWait
    <2>8. CASE PopulateBlockingMetrics
      BY <2>8, StepBlocking
    <2>9. CASE UNCHANGED vars
      <3>1. UNCHANGED argVars /\ asked' = asked /\ failed' = failed /\ pc' = pc
            /\ todo' = todo /\ slowQueries' = slowQueries
            /\ individualQueries' = individualQueries
            /\ reported' = reported /\ kept' = kept
        BY <2>9 DEF vars
      <3>2. /\ server' = server /\ databaseMap' = databaseMap /\ version' = version
            /\ enabledExtensions' = enabledExtensions /\ isRds' = isRds
        BY <3>1 DEF argVars
      <3>3. TypeInv' /\ TraceInv'
        BY <3>1, <3>2 DEF IInv, TypeInv, TraceInv
      <3>4. TodoInv'
        <4>1. Stages' = Stages
          BY <3>1, Unchanged
        <4>2. \A k : RestFrom(k)' = RestFrom(k)
          BY <4>1 DEF RestFrom
        <4> QED BY <3>1, <4>2 DEF IInv, TodoInv
      <3>5. AskInv'
        <4>1. \A query : Answerable(query)' = Answerable(query)
          BY <3>2, Zenon DEF Answerable
        <4> QED BY <3>1, <3>2, <4>1 DEF IInv, AskInv, QueriesFitServer
      <3>6. LocalInv'
        <4>1. SlowOnes' = SlowOnes /\ \A s : Eligible(s)' = Eligible(s)
          BY <3>1, Unchanged
        <4>2. \A s : Over(s)' = Over(s)
          BY <3>1, <4>1 DEF Over, Sound
        <4>3. /\ SlowComplete => SlowComplete'
              /\ IndividualComplete => IndividualComplete'
              /\ WaitComplete => WaitComplete'
              /\ BlockingComplete => BlockingComplete'
          BY <3>1, StaysComplete
        <4> QED BY <3>1, <3>2, <4>1, <4>2, <4>3 DEF IInv, LocalInv
      <3> QED BY <3>3, <3>4, <3>5, <3>6 DEF IInv
    <2> QED BY <2>1, <2>2, <2>3, <2>4, <2>5, <2>6, <2>7, <2>8, <2>9 DEF Next
  <1> QED BY <1>1, <1>2, PTL DEF Spec

\* What an order of the stages leaves is part of it; a list of rows is a list
\* of well-formed rows wherever it comes from.
THEOREM Typing == Spec => []TypeOK
  <1>1. IInv => TypeOK
    <2> SUFFICES ASSUME IInv PROVE TypeOK
      OBVIOUS
    <2>1. TypeInv /\ TodoInv
      BY DEF IInv
    <2>2. pc \in {"start", "run", "done"} /\ failed \subseteq Stage
      BY <2>1 DEF TypeInv
    <2>3. Range(todo) \subseteq Stage
      <3>1. CASE pc = "run"
        <4>1. PICK k \in 1 .. 6 : todo = RestFrom(k)
          BY <2>1, <3>1 DEF TodoInv
        <4>2. todo \in Seq(Stage)
          BY <2>1, <4>1, RestRange DEF TypeInv
        <4> QED BY <4>2, RangeType
      <3>2. CASE pc # "run"
        BY <2>1, <3>2 DEF TodoInv, Range
      <3> QED BY <3>1, <3>2
    <2>4. Range(slowQueries) \subseteq Statement
      BY <2>1, RangeType DEF TypeInv
    <2>5. Range(reported \o kept \o individualQueries) \subseteq Rows
      <3>1. /\ reported \in Seq(Rows) /\ kept \in Seq(Rows)
            /\ individualQueries \in Seq(Rows)
        BY <2>1 DEF TypeInv
      <3>2. reported \o kept \o individualQueries \in Seq(Rows)
        BY <3>1
      <3> QED BY <3>2, RangeType
    <2>6. ASSUME NEW row \in Rows
          PROVE  /\ row.event \in Stage
                 /\ Range(row.of) \cup Range(row.from) \subseteq Statement
                 /\ row.plan \in PlanIds \cup {NoPlan}
                 /\ row.event = "plan" => row.from[1].id # NoId
      <3>1. /\ row.event \in Stage /\ row.plan \in PlanIds \cup {NoPlan}
            /\ row.of \in Seq(Statement) /\ row.from \in Seq(Statement)
            /\ row.event = "plan" => row.from[1].id # NoId
        BY <2>6 DEF Rows, RowType
      <3> QED BY <3>1, RangeType
    <2> QED BY <2>2, <2>3, <2>4, <2>5, <2>6 DEF TypeOK
  <1> QED BY <1>1, Inductive, PTL

\* A plan follows its individual query, and that query, like the sessions
\* correlated on RDS, its slow query, whatever failed in between and however
\* many rows a failed publish left for the next one.
THEOREM RowsTrace == Spec => []EveryRowTracesToASlowQuery
  <1>1. IInv => EveryRowTracesToASlowQuery
    <2> SUFFICES ASSUME IInv PROVE EveryRowTracesToASlowQuery
      OBVIOUS
    <2>1. \A i \in DOMAIN reported : Grounded(reported[i], reported, i - 1, isRds)
      BY DEF IInv, TraceInv
    <2> QED BY <2>1 DEF EveryRowTracesToASlowQuery, Grounded, Correlated, SlowRow
  <1> QED BY <1>1, Inductive, PTL

\* Whatever the version and the extensions are, no query reads a relation or a
\* column the server does not have.
THEOREM QueriesFit == Spec => []QueriesFitServer
  <1>1. IInv => QueriesFitServer
    BY DEF IInv, AskInv
  <1> QED BY <1>1, Inductive, PTL

-----------------------------------------------------------------------------
(* Nothing is reported twice *)

\* What one list has twice the other has twice.
NoneMore(short, list) == \A x \in Range(short) : Twice(short, x) => Twice(list, x)

\* Two rows that are no repetition of each other, as ReportedOnce has it.
Apart(a, b, answer, rds) ==
  a.event = b.event /\ a.of = b.of =>
    \/ ListedTwice(answer, a)
    \/ /\ ~rds /\ a.event \in {"individual", "plan"}
       /\ a.from # b.from /\ a.from[1].id = b.from[1].id

AllApart(list, answer, rds) ==
  \A i, j \in DOMAIN list : i # j => Apart(list[i], list[j], answer, rds)

\* The rows a failed publish kept repeat nothing either; and no stage has
\* rows out before it runs.
OnceInv ==
  /\ pc = "start" => reported = <<>> /\ kept = <<>>
  /\ AllApart(reported \o kept, server, isRds)
  /\ \A row \in Range(reported \o kept) : row.event \notin Range(todo)
  /\ NoneMore(slowQueries, server.slow)
  /\ AllApart(individualQueries, server, isRds)

\* One list is taken from places of another, each place at most once.
Spread(short, list, places) ==
  /\ \A i \in DOMAIN short : \E k \in places : short[i] = list[k]
  /\ \A i, j \in DOMAIN short : i # j =>
       \E k, m \in places : k # m /\ short[i] = list[k] /\ short[j] = list[m]
-----------------------------------------------------------------------------
LEMMA SpreadNoneMore ==
  ASSUME NEW short, NEW list, Spread(short, list, DOMAIN list)
  PROVE  NoneMore(short, list)
  BY DEF Spread, NoneMore, Twice

LEMMA NoneMoreTrans ==
  ASSUME NEW few, NEW some, NEW many, NoneMore(few, some), NoneMore(some, many)
  PROVE  NoneMore(few, many)
  <1>1. ASSUME NEW x \in Range(few), Twice(few, x) PROVE Twice(many, x)
    <2>1. Twice(some, x)
      BY <1>1 DEF NoneMore
    <2>2. x \in Range(some)
      BY <2>1 DEF Twice, Range
    <2> QED BY <2>1, <2>2 DEF NoneMore
  <1> QED BY <1>1 DEF NoneMore

LEMMA SpreadApart ==
  ASSUME NEW short, NEW list, Spread(short, list, DOMAIN list),
         NEW answer, NEW rds, AllApart(list, answer, rds)
  PROVE  AllApart(short, answer, rds)
  <1>1. ASSUME NEW i \in DOMAIN short, NEW j \in DOMAIN short, i # j
        PROVE  Apart(short[i], short[j], answer, rds)
    <2>1. PICK k, m \in DOMAIN list : k # m /\ short[i] = list[k] /\ short[j] = list[m]
      BY <1>1 DEF Spread
    <2>2. Apart(list[k], list[m], answer, rds)
      BY <2>1 DEF AllApart
    <2> QED BY <2>1, <2>2
  <1> QED BY <1>1 DEF AllApart

LEMMA SpreadAppend ==
  ASSUME NEW S, NEW s \in Seq(S), NEW list, NEW places, NEW p, p \notin places,
         list[p] \in S, Spread(s, list, places)
  PROVE  Spread(Append(s, list[p]), list, places \cup {p})
  <1> DEFINE h == Append(s, list[p])
             c == Len(s)
  <1>1. /\ c \in Nat /\ DOMAIN s = 1 .. c
        /\ h \in Seq(S) /\ Len(h) = c + 1 /\ h[c + 1] = list[p]
        /\ \A i \in 1 .. c : h[i] = s[i]
    BY AppendProperties, RangeType
  <1>2. DOMAIN h = 1 .. c + 1
    BY <1>1, RangeType
  <1>3. \A i \in 1 .. c + 1 : i \in DOMAIN s \/ i = c + 1
    BY <1>1
  <1>4. \A i \in DOMAIN h :
          (i \in DOMAIN s /\ h[i] = s[i]) \/ (i = c + 1 /\ h[i] = list[p])
    <2> HIDE DEF h, c
    <2> QED BY <1>1, <1>2, <1>3
  <1> HIDE DEF h, c
  <1>5. \A i \in DOMAIN h : \E k \in places \cup {p} : h[i] = list[k]
    BY <1>4 DEF Spread
  <1>6. ASSUME NEW i \in DOMAIN h, NEW j \in DOMAIN h, i # j
        PROVE  \E k, m \in places \cup {p} :
                 k # m /\ h[i] = list[k] /\ h[j] = list[m]
    <2>1. CASE i \in DOMAIN s /\ h[i] = s[i] /\ j \in DOMAIN s /\ h[j] = s[j]
      BY <1>6, <2>1 DEF Spread
    <2>2. CASE i \in DOMAIN s /\ h[i] = s[i] /\ h[j] = list[p]
      <3>1. PICK k \in places : s[i] = list[k]
        BY <2>2 DEF Spread
      <3> QED BY <2>2, <3>1
    <2>3. CASE h[i] = list[p] /\ j \in DOMAIN s /\ h[j] = s[j]
      <3>1. PICK m \in places : s[j] = list[m]
        BY <2>3 DEF Spread
      <3> QED BY <2>3, <3>1
    <2> QED BY <1>4, <1>6, <2>1, <2>2, <2>3
  <1>7. Spread(h, list, places \cup {p})
    BY <1>5, <1>6, Zenon DEF Spread
  <1> QED BY <1>7 DEF h

LEMMA SpreadMore ==
  ASSUME NEW s, NEW list, NEW few, NEW many, few \subseteq many, Spread(s, list, few)
  PROVE  Spread(s, list, many)
  <1>1. \A i \in DOMAIN s : \E k \in many : s[i] = list[k]
    BY DEF Spread
  <1>2. ASSUME NEW i \in DOMAIN s, NEW j \in DOMAIN s, i # j
        PROVE  \E k, m \in many : k # m /\ s[i] = list[k] /\ s[j] = list[m]
    BY <1>2 DEF Spread
  <1> QED BY <1>1, <1>2, Zenon DEF Spread

\* What Only keeps, it takes from different places.
LEMMA OnlySpread ==
  ASSUME NEW S, NEW list \in Seq(S), NEW places
  PROVE  Spread(Only(list, places), list, DOMAIN list)
  <1> DEFINE l == Len(list)
  <1>1. l \in Nat /\ DOMAIN list = 1 .. l /\ \A i \in 1 .. l : list[i] \in S
    BY RangeType, LenProperties
  <1>2. PICK f : Kept(f, list, places, l) /\ Only(list, places) = f[l]
    BY <1>1, OnlyDef
  <1> DEFINE Right(n) == f[n] \in Seq(S) /\ Spread(f[n], list, 1 .. n)
             T == {n \in Nat : n <= l => Right(n)}
  <1> HIDE DEF l
  <1>3. 0 \in T
    <2>1. f[0] = <<>>
      BY <1>1, <1>2 DEF Kept
    <2>2. Right(0)
      BY <2>1 DEF Spread
    <2> HIDE DEF Right
    <2> QED BY <2>2
  <1>4. ASSUME NEW n \in Nat, n \in T, n + 1 <= l PROVE Right(n + 1)
    <2>1. Right(n)
      BY <1>1, <1>4
    <2>2. f[n + 1] = IF n + 1 \in places THEN Append(f[n], list[n + 1]) ELSE f[n]
      <3>1. n + 1 \in 0 .. l /\ n + 1 # 0 /\ (n + 1) - 1 = n
        BY <1>1, <1>4
      <3> QED BY <1>2, <3>1 DEF Kept
    <2>3. /\ 1 .. n + 1 = (1 .. n) \cup {n + 1} /\ list[n + 1] \in S
          /\ n + 1 \notin 1 .. n
      BY <1>1, <1>4
    <2>4. CASE n + 1 \in places
      <3>1. f[n + 1] \in Seq(S)
        BY <2>1, <2>2, <2>3, <2>4
      <3>2. Spread(Append(f[n], list[n + 1]), list, (1 .. n) \cup {n + 1})
        <4>1. f[n] \in Seq(S) /\ Spread(f[n], list, 1 .. n)
          BY <2>1
        <4> QED BY <2>3, <4>1, SpreadAppend
      <3>3. Spread(f[n + 1], list, 1 .. n + 1)
        BY <2>2, <2>3, <2>4, <3>2
      <3> QED BY <3>1, <3>3
    <2>5. CASE n + 1 \notin places
      <3>1. f[n + 1] = f[n] /\ 1 .. n \subseteq 1 .. n + 1
        BY <2>2, <2>3, <2>5
      <3>2. Spread(f[n + 1], list, 1 .. n)
        BY <2>1, <3>1
      <3> QED BY <2>1, <3>1, <3>2, SpreadMore
    <2> QED BY <2>4, <2>5
  <1>5. Nat \subseteq T
    <2>1. \A n \in Nat : n \in T => n + 1 \in T
      <3> HIDE DEF Right
      <3> QED BY <1>4, <1>1
    <2> HIDE DEF T
    <2> QED BY <1>3, <2>1, SetInduction
  <1>6. Right(l)
    <2> HIDE DEF Right
    <2> QED BY <1>1, <1>5
  <1> QED BY <1>1, <1>2, <1>6

LEMMA FetchSpread ==
  ASSUME NEW S, NEW answer \in Seq(S), NEW list \in Fetch(answer)
  PROVE  Spread(list, answer, DOMAIN answer)
  <1>1. PICK n \in 0 .. Len(answer) : list = SubSeq(answer, 1, n)
    BY DEF Fetch
  <1>2. Len(answer) \in Nat /\ DOMAIN answer = 1 .. Len(answer)
    BY RangeType
  <1>3. CASE n = 0
    <2>1. list = <<>>
      BY <1>1, <1>2, <1>3, SubSeqEmpty
    <2> QED BY <2>1 DEF Spread
  <1>4. CASE n # 0
    <2>1. /\ list \in Seq(S) /\ Len(list) = n
          /\ \A i \in 1 .. n : list[i] = answer[i]
      BY <1>1, <1>2, <1>4, SubSeqProperties
    <2>2. DOMAIN list = 1 .. n /\ \A i \in 1 .. n : i \in DOMAIN answer
      BY <1>2, <2>1, RangeType
    <2> QED BY <2>1, <2>2 DEF Spread
  <1> QED BY <1>3, <1>4

\* Two lists one after the other, rows of another event in the second.
LEMMA ApartConcat ==
  ASSUME NEW s \in Seq(Rows), NEW t \in Seq(Rows), NEW answer, NEW rds, NEW stage,
         AllApart(s, answer, rds), AllApart(t, answer, rds),
         \A row \in Range(s) : row.event # stage,
         \A row \in Range(t) : row.event = stage
  PROVE  s \o t \in Seq(Rows) /\ AllApart(s \o t, answer, rds)
  <1> DEFINE u == s \o t
  <1>1. /\ u \in Seq(Rows) /\ Len(u) = Len(s) + Len(t)
        /\ \A i \in 1 .. Len(s) + Len(t) :
             u[i] = IF i <= Len(s) THEN s[i] ELSE t[i - Len(s)]
    BY ConcatProperties
  <1>2. /\ DOMAIN u = 1 .. Len(s) + Len(t)
        /\ DOMAIN s = 1 .. Len(s) /\ Len(s) \in Nat
        /\ DOMAIN t = 1 .. Len(t) /\ Len(t) \in Nat
        /\ \A i \in DOMAIN s : s[i] \in Range(s)
        /\ \A i \in DOMAIN t : t[i] \in Range(t)
    BY <1>1, RangeType
  <1> HIDE DEF u
  <1>3. ASSUME NEW i \in DOMAIN u, NEW j \in DOMAIN u, i # j
        PROVE  Apart(u[i], u[j], answer, rds)
    <2>1. CASE i <= Len(s) /\ j <= Len(s)
      <3>1. /\ i \in DOMAIN s /\ j \in DOMAIN s /\ u[i] = s[i] /\ u[j] = s[j]
        BY <1>1, <1>2, <2>1
      <3> QED BY <1>3, <3>1 DEF AllApart
    <2>2. CASE ~(i <= Len(s)) /\ ~(j <= Len(s))
      <3>1. /\ i - Len(s) \in DOMAIN t /\ j - Len(s) \in DOMAIN t
            /\ i - Len(s) # j - Len(s)
            /\ u[i] = t[i - Len(s)] /\ u[j] = t[j - Len(s)]
        BY <1>1, <1>2, <1>3, <2>2
      <3> QED BY <3>1 DEF AllApart
    <2>3. CASE i <= Len(s) /\ ~(j <= Len(s))
      <3>1. /\ i \in DOMAIN s /\ j - Len(s) \in DOMAIN t
            /\ u[i] = s[i] /\ u[j] = t[j - Len(s)]
        BY <1>1, <1>2, <2>3
      <3>2. u[i].event # stage /\ u[j].event = stage
        BY <1>2, <3>1
      <3> QED BY <3>2 DEF Apart
    <2>4. CASE ~(i <= Len(s)) /\ j <= Len(s)
      <3>1. /\ j \in DOMAIN s /\ i - Len(s) \in DOMAIN t
            /\ u[j] = s[j] /\ u[i] = t[i - Len(s)]
        BY <1>1, <1>2, <2>4
      <3>2. u[j].event # stage /\ u[i].event = stage
        BY <1>2, <3>1
      <3> QED BY <3>2 DEF Apart
    <2> QED BY <2>1, <2>2, <2>3, <2>4
  <1>4. AllApart(u, answer, rds)
    BY <1>3 DEF AllApart
  <1> QED BY <1>1, <1>4 DEF u

LEMMA ApartFirst ==
  ASSUME NEW s \in Seq(Rows), NEW t \in Seq(Rows), NEW answer, NEW rds, AllApart(s \o t, answer, rds)
  PROVE  AllApart(s, answer, rds) /\ Range(s) \subseteq Range(s \o t)
  <1> DEFINE u == s \o t
  <1>1. /\ u \in Seq(Rows) /\ Len(u) = Len(s) + Len(t)
        /\ \A i \in 1 .. Len(s) : u[i] = s[i]
        /\ Range(u) = Range(s) \cup Range(t)
    BY RangeConcat
  <1>2. /\ DOMAIN u = 1 .. Len(s) + Len(t)
        /\ DOMAIN s = 1 .. Len(s) /\ Len(s) \in Nat /\ Len(t) \in Nat
    BY <1>1, RangeType
  <1>3. AllApart(u, answer, rds)
    OBVIOUS
  <1> HIDE DEF u
  <1>4. \A i \in DOMAIN s : i \in DOMAIN u /\ u[i] = s[i]
    BY <1>1, <1>2
  <1>5. AllApart(s, answer, rds)
    BY <1>3, <1>4 DEF AllApart
  <1> QED BY <1>1, <1>5 DEF u

LEMMA ConcatTwice ==
  ASSUME NEW S, NEW s \in Seq(S), NEW t \in Seq(S), NEW x, Twice(s \o t, x)
  PROVE  Twice(s, x) \/ Twice(t, x) \/ (x \in Range(s) /\ x \in Range(t))
  <1> DEFINE u == s \o t
  <1>1. /\ u \in Seq(S) /\ Len(u) = Len(s) + Len(t)
        /\ \A i \in 1 .. Len(s) + Len(t) :
             u[i] = IF i <= Len(s) THEN s[i] ELSE t[i - Len(s)]
    BY ConcatProperties
  <1>2. /\ DOMAIN u = 1 .. Len(s) + Len(t)
        /\ DOMAIN s = 1 .. Len(s) /\ Len(s) \in Nat
        /\ DOMAIN t = 1 .. Len(t) /\ Len(t) \in Nat
        /\ \A i \in DOMAIN s : s[i] \in Range(s)
        /\ \A i \in DOMAIN t : t[i] \in Range(t)
    BY <1>1, RangeType
  <1>3. PICK i, j \in DOMAIN u : i # j /\ u[i] = x /\ u[j] = x
    BY DEF Twice
  <1> HIDE DEF u
  <1>4. ASSUME NEW k \in DOMAIN u
        PROVE  \/ k \in DOMAIN s /\ u[k] = s[k] /\ u[k] \in Range(s)
               \/ /\ k - Len(s) \in DOMAIN t /\ u[k] = t[k - Len(s)]
                  /\ u[k] \in Range(t)
    <2>1. CASE k <= Len(s)
      <3>1. k \in DOMAIN s /\ u[k] = s[k]
        BY <1>1, <1>2, <2>1
      <3> QED BY <1>2, <3>1
    <2>2. CASE ~(k <= Len(s))
      <3>1. k - Len(s) \in DOMAIN t /\ u[k] = t[k - Len(s)]
        BY <1>1, <1>2, <2>2
      <3> QED BY <1>2, <3>1
    <2> QED BY <2>1, <2>2
  <1>5. CASE i \in DOMAIN s /\ u[i] = s[i] /\ j \in DOMAIN s /\ u[j] = s[j]
    BY <1>3, <1>5 DEF Twice
  <1>6. CASE /\ i - Len(s) \in DOMAIN t /\ u[i] = t[i - Len(s)]
             /\ j - Len(s) \in DOMAIN t /\ u[j] = t[j - Len(s)]
    <2>1. i - Len(s) # j - Len(s)
      BY <1>2, <1>3
    <2> QED BY <1>3, <1>6, <2>1 DEF Twice
  <1> QED BY <1>3, <1>4, <1>5, <1>6

\* What several searches bring together twice, one of them has twice or two of
\* them have.
LEMMA FlattenTwice ==
  ASSUME NEW S, NEW seqs \in Seq(Seq(S)), NEW x, Twice(FlattenSeq(seqs), x)
  PROVE  \/ \E i \in DOMAIN seqs : Twice(seqs[i], x)
         \/ \E i, j \in DOMAIN seqs :
              i # j /\ x \in Range(seqs[i]) /\ x \in Range(seqs[j])
  <1> DEFINE l == Len(seqs)
             Shared(n) == \/ \E i \in 1 .. n : Twice(seqs[i], x)
                          \/ \E i, j \in 1 .. n :
                               i # j /\ x \in Range(seqs[i]) /\ x \in Range(seqs[j])
  <1>1. l \in Nat /\ DOMAIN seqs = 1 .. l /\ \A i \in 1 .. l : seqs[i] \in Seq(S)
    BY RangeType, LenProperties
  <1>2. CASE l = 0
    <2>1. FlattenSeq(seqs) = seqs /\ DOMAIN seqs = {}
      BY <1>1, <1>2, EmptySeq DEF FlattenSeq
    <2> QED BY <2>1 DEF Twice
  <1>3. CASE l # 0
    <2> DEFINE f == CHOOSE h : Joined(h, seqs, l)
    <2>1. Joined(f, seqs, l)
      BY <1>1, JoinedExists
    <2>2. FlattenSeq(seqs) = f[l]
      BY <1>3, Zenon DEF FlattenSeq, Joined
    <2> DEFINE Right(n) ==
                 /\ f[n] \in Seq(S) /\ (Twice(f[n], x) => Shared(n))
                 /\ Range(f[n]) = UNION {Range(seqs[i]) : i \in 1 .. n}
               T == {n \in Nat : n \in 1 .. l => Right(n)}
    <2> HIDE DEF l, f
    <2>3. 0 \in T
      <3> HIDE DEF Right
      <3> QED OBVIOUS
    <2>4. ASSUME NEW n \in Nat, n \in T, n + 1 \in 1 .. l PROVE Right(n + 1)
      <3>n. n + 1 \in 1 .. l
        BY <2>4
      <3>1. CASE n = 0
        <4>1. f[1] = seqs[1]
          BY <1>1, <1>3, <2>1 DEF Joined
        <4>2. 1 .. 1 = {1} /\ 1 \in 1 .. 1 /\ seqs[1] \in Seq(S)
          BY <1>1, <1>3
        <4>3. UNION {Range(seqs[i]) : i \in 1 .. 1} = Range(seqs[1])
          BY <4>2
        <4> QED BY <3>1, <4>1, <4>2, <4>3
      <3>2. CASE n # 0
        <4>1. Right(n)
          BY <1>1, <2>4, <3>2
        <4>2. f[n + 1] = f[n] \o seqs[n + 1]
          <5>1. n + 1 \in 1 .. l /\ n + 1 # 1 /\ (n + 1) - 1 = n
            BY <1>1, <3>n, <3>2
          <5>2. \A k \in 1 .. l : f[k] = IF k = 1 THEN seqs[k] ELSE f[k - 1] \o seqs[k]
            BY <2>1 DEF Joined
          <5> HIDE DEF Right, T, Shared
          <5> QED BY <5>1, <5>2
        <4>3. /\ 1 .. n + 1 = (1 .. n) \cup {n + 1} /\ seqs[n + 1] \in Seq(S)
              /\ n + 1 \in 1 .. n + 1
              /\ \A i \in 1 .. n : i \in 1 .. n + 1 /\ i # n + 1
          BY <1>1, <2>4
        <4>4. /\ f[n + 1] \in Seq(S)
              /\ Range(f[n + 1]) = Range(f[n]) \cup Range(seqs[n + 1])
          BY <4>1, <4>2, <4>3, RangeConcat
        <4>5. UNION {Range(seqs[i]) : i \in 1 .. n + 1}
                = (UNION {Range(seqs[i]) : i \in 1 .. n}) \cup Range(seqs[n + 1])
          BY <4>3
        <4>6. ASSUME Twice(f[n + 1], x) PROVE Shared(n + 1)
          <5>1. \/ Twice(f[n], x) \/ Twice(seqs[n + 1], x)
                \/ (x \in Range(f[n]) /\ x \in Range(seqs[n + 1]))
            BY <4>1, <4>2, <4>3, <4>6, ConcatTwice
          <5>2. CASE Twice(f[n], x)
            <6>1. Shared(n)
              BY <4>1, <5>2
            <6> QED BY <4>3, <6>1
          <5>3. CASE Twice(seqs[n + 1], x)
            BY <4>3, <5>3
          <5>4. CASE x \in Range(f[n]) /\ x \in Range(seqs[n + 1])
            <6>1. PICK i \in 1 .. n : x \in Range(seqs[i])
              BY <4>1, <5>4
            <6> QED BY <4>3, <5>4, <6>1
          <5> QED BY <5>1, <5>2, <5>3, <5>4
        <4> HIDE DEF Shared
        <4> QED BY <4>1, <4>4, <4>5, <4>6
      <3> QED BY <3>1, <3>2
    <2>5. Nat \subseteq T
      <3>1. \A n \in Nat : n \in T => n + 1 \in T
        <4> HIDE DEF Right
        <4> QED BY <2>4
      <3> HIDE DEF T
      <3> QED BY <2>3, <3>1, SetInduction
    <2>6. Right(l)
      <3> HIDE DEF Right
      <3> QED BY <1>1, <1>3, <2>5
    <2> QED BY <1>1, <2>2, <2>6
  <1> QED BY <1>2, <1>3

-----------------------------------------------------------------------------
(* The rows of a stage *)

\* One row for each statement of a list.
LEMMA RowsApart ==
  ASSUME NEW list, NEW rows, NEW answer, NEW rds,
         DOMAIN rows = DOMAIN list,
         \A i, j \in DOMAIN list : rows[i].of = rows[j].of => list[i] = list[j],
         \A i \in DOMAIN list : Twice(list, list[i]) => ListedTwice(answer, rows[i])
  PROVE  AllApart(rows, answer, rds)
  BY DEF Twice, AllApart, Apart

LEMMA SlowRowsOnce ==
  ASSUME NEW list, NoneMore(list, server.slow)
  PROVE  /\ AllApart(SlowRows(list), server, isRds)
         /\ \A row \in Range(SlowRows(list)) : row.event = "slow"
  <1> DEFINE rows == SlowRows(list)
  <1>1. /\ DOMAIN rows = DOMAIN list
        /\ \A i \in DOMAIN list : /\ rows[i].event = "slow" /\ rows[i].of = <<list[i]>>
                                  /\ rows[i].of[1] = list[i]
    BY DEF SlowRows, Row
  <1> HIDE DEF rows
  <1>2. \A i, j \in DOMAIN list : rows[i].of = rows[j].of => list[i] = list[j]
    BY <1>1
  <1>3. \A i \in DOMAIN list : Twice(list, list[i]) => ListedTwice(server, rows[i])
    BY <1>1 DEF NoneMore, ListedTwice, Range
  <1>4. AllApart(rows, server, isRds)
    BY <1>1, <1>2, <1>3, RowsApart
  <1>5. \A row \in Range(rows) : row.event = "slow"
    BY <1>1 DEF Range
  <1> QED BY <1>4, <1>5 DEF rows

LEMMA WaitRowsOnce ==
  ASSUME NEW waits \in Seq(Statement), NoneMore(waits, server.waits)
  PROVE  /\ AllApart(WaitRows(waits), server, isRds)
         /\ \A row \in Range(WaitRows(waits)) : row.event = "wait"
  <1> DEFINE known == Only(waits, {i \in DOMAIN waits : Known(waits[i].text)})
             list == IF isRds THEN known ELSE waits
             rows == WaitRows(waits)
  <1>1. NoneMore(known, server.waits)
    BY OnlySpread, SpreadNoneMore, NoneMoreTrans
  <1>2. NoneMore(list, server.waits)
    BY <1>1
  <1>3. /\ DOMAIN rows = DOMAIN list
        /\ \A i \in DOMAIN list : rows[i].event = "wait" /\ rows[i].of = <<list[i]>>
                                  /\ rows[i].of[1] = list[i]
    <2>1. CASE isRds
      <3>1. /\ list = known
            /\ rows = [i \in DOMAIN known |-> Row("wait", <<known[i]>>,
                         <<slowQueryTextMap(known[i].text)>>, NoPlan)]
        BY <2>1 DEF WaitRows, getFilteredWaitEvents
      <3> HIDE DEF list, rows, known
      <3> QED BY <3>1 DEF Row
    <2>2. CASE ~isRds
      <3>1. /\ list = waits
            /\ rows = [i \in DOMAIN waits |->
                         Row("wait", <<waits[i]>>, <<waits[i]>>, NoPlan)]
        BY <2>2 DEF WaitRows
      <3> HIDE DEF list, rows, known
      <3> QED BY <3>1 DEF Row
    <2> QED BY <2>1, <2>2
  <1> HIDE DEF rows, list
  <1>4. \A i, j \in DOMAIN list : rows[i].of = rows[j].of => list[i] = list[j]
    BY <1>3
  <1>5. \A i \in DOMAIN list : Twice(list, list[i]) => ListedTwice(server, rows[i])
    BY <1>2, <1>3 DEF NoneMore, ListedTwice, Range
  <1>s. AllApart(rows, server, isRds)
    BY <1>3, <1>4, <1>5, RowsApart
  <1>6. \A row \in Range(rows) : row.event = "wait"
    BY <1>3 DEF Range
  <1> QED BY <1>s, <1>6 DEF rows

LEMMA BlockingRowsOnce ==
  ASSUME NEW blocks \in Seq(Statement \X Statement), NoneMore(blocks, server.blocks)
  PROVE  /\ AllApart(BlockingRows(blocks), server, isRds)
         /\ \A row \in Range(BlockingRows(blocks)) : row.event = "blocking"
  <1> DEFINE known == Only(blocks, {i \in DOMAIN blocks :
                        Known(blocks[i][1].text) /\ Known(blocks[i][2].text)})
             list == IF isRds THEN known ELSE blocks
             rows == BlockingRows(blocks)
  <1>1. NoneMore(known, server.blocks)
    BY OnlySpread, SpreadNoneMore, NoneMoreTrans
  <1>2. NoneMore(list, server.blocks)
    BY <1>1
  <1>3. /\ DOMAIN rows = DOMAIN list
        /\ \A i \in DOMAIN list : rows[i].event = "blocking" /\ rows[i].of = list[i]
    <2>1. CASE isRds
      <3>1. /\ list = known
            /\ rows = [i \in DOMAIN known |-> Row("blocking", known[i],
                         <<slowQueryTextMap(known[i][1].text),
                           slowQueryTextMap(known[i][2].text)>>, NoPlan)]
        BY <2>1 DEF BlockingRows, getFilteredBlockingSessions
      <3> HIDE DEF list, rows, known
      <3> QED BY <3>1 DEF Row
    <2>2. CASE ~isRds
      <3>1. /\ list = blocks
            /\ rows = [i \in DOMAIN blocks |->
                         Row("blocking", blocks[i], blocks[i], NoPlan)]
        BY <2>2 DEF BlockingRows
      <3> HIDE DEF list, rows, known
      <3> QED BY <3>1 DEF Row
    <2> QED BY <2>1, <2>2
  <1> HIDE DEF rows, list
  <1>4. \A i, j \in DOMAIN list : rows[i].of = rows[j].of => list[i] = list[j]
    BY <1>3
  <1>5. \A i \in DOMAIN list : Twice(list, list[i]) => ListedTwice(server, rows[i])
    BY <1>2, <1>3 DEF NoneMore, ListedTwice, Range
  <1>s. AllApart(rows, server, isRds)
    BY <1>3, <1>4, <1>5, RowsApart
  <1>6. \A row \in Range(rows) : row.event = "blocking"
    BY <1>3 DEF Range
  <1> QED BY <1>s, <1>6 DEF rows

\* Two pairs with one sample have different slow queries with one id, or the
\* server listed the sample or the slow query twice.
Found(pairs) ==
  \A p \in Range(pairs) :
    /\ Twice(pairs, p) => Twice(server.samples, p[1]) \/ Twice(server.slow, p[2])
    /\ IF isRds THEN p[1] = p[2] ELSE p[1].id = p[2].id

LEMMA IndividualRowsOnce ==
  ASSUME NEW pairs \in Seq(Statement \X Statement), Found(pairs), NEW ids,
         isRds \in BOOLEAN
  PROVE  /\ AllApart(IndividualRows(pairs, ids), server, isRds)
         /\ \A row \in Range(IndividualRows(pairs, ids)) : row.event = "individual"
  <1> DEFINE rows == IndividualRows(pairs, ids)
  <1>1. /\ DOMAIN rows = DOMAIN pairs
        /\ \A i \in DOMAIN pairs :
             /\ rows[i].event = "individual"
             /\ rows[i].of = <<pairs[i][1]>> /\ rows[i].from = <<pairs[i][2]>>
    BY DEF IndividualRows, Row
  <1> HIDE DEF rows
  <1>2. ASSUME NEW i \in DOMAIN rows, NEW j \in DOMAIN rows, i # j,
               rows[i].of = rows[j].of
        PROVE  \/ ListedTwice(server, rows[i])
               \/ /\ ~isRds /\ rows[i].from # rows[j].from
                  /\ rows[i].from[1].id = rows[j].from[1].id
    <2> DEFINE p == pairs[i]
               q == pairs[j]
    <2>1. /\ p \in Range(pairs) /\ q \in Range(pairs)
          /\ p \in Statement \X Statement /\ q \in Statement \X Statement
          /\ i \in DOMAIN pairs /\ j \in DOMAIN pairs
      <3>1. i \in DOMAIN pairs /\ j \in DOMAIN pairs
        BY <1>1
      <3>2. /\ p \in Range(pairs) /\ q \in Range(pairs)
            /\ Range(pairs) \subseteq Statement \X Statement
        BY <3>1, RangeType
      <3> QED BY <3>1, <3>2
    <2>2. /\ rows[i].of = <<p[1]>> /\ rows[i].from = <<p[2]>>
          /\ rows[j].of = <<q[1]>> /\ rows[j].from = <<q[2]>>
          /\ rows[i].event = "individual"
      BY <1>1
    <2>3. p = q => Twice(pairs, p)
      BY <1>2, <2>1 DEF Twice
    <2> HIDE DEF p, q
    <2>4. p[1] = q[1]
      <3>1. <<p[1]>> = <<q[1]>>
        BY <1>2, <2>2, Zenon
      <3> QED BY <3>1
    <2>5. CASE p = q
      <3>1. Twice(server.samples, p[1]) \/ Twice(server.slow, p[2])
        BY <2>1, <2>3, <2>5 DEF Found
      <3>2. rows[i].of[1] = p[1] /\ rows[i].from[1] = p[2]
        BY <2>2
      <3> QED BY <2>2, <3>1, <3>2 DEF ListedTwice
    <2>6. CASE p # q
      <3>1. p[2] # q[2]
        BY <2>1, <2>4, <2>6
      <3>2. ~isRds
        BY <2>1, <2>4, <3>1 DEF Found
      <3>3. p[1].id = p[2].id /\ q[1].id = q[2].id
        BY <2>1, <3>2 DEF Found
      <3> QED BY <2>2, <2>4, <3>1, <3>2, <3>3
    <2> QED BY <2>5, <2>6
  <1>3. AllApart(rows, server, isRds)
    BY <1>1, <1>2 DEF AllApart, Apart
  <1>4. \A row \in Range(rows) : row.event = "individual"
    BY <1>1 DEF Range
  <1> QED BY <1>3, <1>4 DEF rows

LEMMA PlanRowsOnce ==
  ASSUME NEW list, AllApart(list, server, isRds),
         \A i \in DOMAIN list : list[i].event = "individual"
  PROVE  /\ AllApart(PlanRows(list), server, isRds)
         /\ \A row \in Range(PlanRows(list)) : row.event = "plan"
  <1> DEFINE rows == PlanRows(list)
  <1>1. /\ DOMAIN rows = DOMAIN list
        /\ \A i \in DOMAIN list :
             /\ rows[i].event = "plan"
             /\ rows[i].of = list[i].of /\ rows[i].from = list[i].from
    BY DEF PlanRows, Row
  <1> HIDE DEF rows
  <1>2. ASSUME NEW i \in DOMAIN rows, NEW j \in DOMAIN rows, i # j
        PROVE  Apart(rows[i], rows[j], server, isRds)
    <2>1. Apart(list[i], list[j], server, isRds)
      BY <1>1, <1>2 DEF AllApart
    <2>2. ListedTwice(server, list[i]) => ListedTwice(server, rows[i])
      BY <1>1 DEF ListedTwice
    <2> QED BY <1>1, <2>1, <2>2 DEF Apart
  <1>3. AllApart(rows, server, isRds)
    BY <1>2 DEF AllApart
  <1>4. \A row \in Range(rows) : row.event = "plan"
    BY <1>1 DEF Range
  <1> QED BY <1>3, <1>4 DEF rows

-----------------------------------------------------------------------------
\* The answers of the server, as the IN lists leave them.
LEMMA AnswersNoneMore ==
  ASSUME TypeInv
  PROVE  /\ NoneMore(Listed(server.slow), server.slow)
         /\ NoneMore(Listed(server.samples), server.samples)
         /\ NoneMore(Waits, server.waits) /\ NoneMore(Blocks, server.blocks)
  <1>1. /\ server.slow \in Seq(Statement) /\ server.samples \in Seq(Statement)
        /\ server.waits \in Seq(Statement)
        /\ server.blocks \in Seq(Statement \X Statement)
    BY DEF TypeInv, ServerType
  <1>2. ASSUME NEW S, NEW list \in Seq(S), NEW places
        PROVE  NoneMore(Only(list, places), list)
    BY OnlySpread, SpreadNoneMore
  <1>3. /\ NoneMore(Listed(server.slow), server.slow)
        /\ NoneMore(Listed(server.samples), server.samples)
    BY <1>1, <1>2 DEF Listed
  <1>4. NoneMore(Waits, server.waits)
    BY <1>1, <1>2 DEF Waits
  <1>5. NoneMore(Blocks, server.blocks)
    BY <1>1, <1>2 DEF Blocks
  <1> QED BY <1>3, <1>4, <1>5

LEMMA PairsFound ==
  ASSUME TypeInv, NoneMore(slowQueries, server.slow)
  PROVE  Found(getIndividualQueryMetrics)
  <1> DEFINE Pair == Statement \X Statement
  <1>1. /\ slowQueries \in Seq(Statement)
        /\ DOMAIN slowQueries = 1 .. Len(slowQueries) /\ Len(slowQueries) \in Nat
        /\ \A i \in 1 .. Len(slowQueries) :
             slowQueries[i] \in Statement /\ slowQueries[i] \in Range(slowQueries)
    BY RangeType, LenProperties DEF TypeInv
  <1>2. ASSUME NEW i \in DOMAIN slowQueries, NEW j \in DOMAIN slowQueries, i # j,
               slowQueries[i] = slowQueries[j]
        PROVE  Twice(server.slow, slowQueries[i])
    <2>1. Twice(slowQueries, slowQueries[i])
      BY <1>2 DEF Twice
    <2> QED BY <1>1, <2>1 DEF NoneMore
  <1>3. CASE isRds
    <2> DEFINE pairs == getIndividualQueryMetrics
    <2>1. pairs = [i \in DOMAIN slowQueries |-> <<slowQueries[i], slowQueries[i]>>]
      BY <1>3 DEF getIndividualQueryMetrics
    <2> HIDE DEF pairs
    <2>2. /\ DOMAIN pairs = DOMAIN slowQueries
          /\ \A i \in DOMAIN slowQueries : /\ pairs[i][1] = slowQueries[i]
                                           /\ pairs[i][2] = slowQueries[i]
      BY <2>1
    <2>3. ASSUME NEW p \in Range(pairs)
          PROVE  /\ p[1] = p[2]
                 /\ Twice(pairs, p) => Twice(server.slow, p[2])
      <3>1. p[1] = p[2]
        BY <2>2 DEF Range
      <3>2. ASSUME Twice(pairs, p) PROVE Twice(server.slow, p[2])
        <4>1. PICK i, j \in DOMAIN slowQueries : i # j /\ pairs[i] = p /\ pairs[j] = p
          BY <2>2, <3>2 DEF Twice
        <4>2. slowQueries[i] = p[2] /\ slowQueries[j] = p[2]
          BY <2>2, <4>1
        <4> QED BY <1>2, <4>1, <4>2
      <3> QED BY <3>1, <3>2
    <2> QED BY <1>3, <2>3 DEF Found, pairs
  <1>4. CASE ~isRds
    <2> DEFINE samples == Listed(server.samples)
               lists == [i \in 1 .. Len(slowQueries) |-> Pairs(slowQueries[i])]
    <2>1. getIndividualQueryMetrics = FlattenSeq(lists)
      BY <1>1, <1>4 DEF getIndividualQueryMetrics
    <2>2. samples \in Seq(Statement) /\ NoneMore(samples, server.samples)
      BY Answers, AnswersNoneMore
    <2> HIDE DEF samples
    <2>3. ASSUME NEW slow \in Statement
          PROVE  /\ SamplesOf(slow) \in Seq(Statement)
                 /\ NoneMore(SamplesOf(slow), server.samples)
                 /\ \A st \in Range(SamplesOf(slow)) : st.id = slow.id
      <3>1. CASE slow.id = NoId
        <4>1. SamplesOf(slow) = <<>>
          BY <3>1 DEF SamplesOf
        <4> QED BY <4>1, EmptySeq DEF NoneMore, Range
      <3>2. CASE slow.id # NoId
        <4> DEFINE places == {i \in DOMAIN samples : samples[i].id = slow.id}
        <4>1. SamplesOf(slow) = Only(samples, places)
          BY <3>2 DEF SamplesOf, samples
        <4>2. /\ Only(samples, places) \in Seq(Statement)
              /\ Range(Only(samples, places)) = {samples[i] : i \in places \cap DOMAIN samples}
          BY <2>2, OnlyRange
        <4>3. NoneMore(Only(samples, places), server.samples)
          BY <2>2, OnlySpread, SpreadNoneMore, NoneMoreTrans
        <4> QED BY <4>1, <4>2, <4>3
      <3> QED BY <3>1, <3>2
    <2>4. ASSUME NEW slow \in Statement
          PROVE  /\ Pairs(slow) \in Seq(Pair)
                 /\ \A p \in Range(Pairs(slow)) :
                      /\ p[1].id = p[2].id /\ p[2] = slow
                      /\ Twice(Pairs(slow), p) => Twice(server.samples, p[1])
      <3> DEFINE list == SamplesOf(slow)
                 pairs == Pairs(slow)
      <3>1. /\ list \in Seq(Statement) /\ NoneMore(list, server.samples)
            /\ \A st \in Range(list) : st.id = slow.id
        BY <2>3
      <3>2. pairs = [i \in DOMAIN list |-> <<list[i], slow>>]
        BY DEF Pairs
      <3> HIDE DEF list, pairs
      <3>3. /\ DOMAIN list = 1 .. Len(list) /\ Len(list) \in Nat
            /\ \A i \in 1 .. Len(list) : list[i] \in Statement /\ list[i] \in Range(list)
        BY <3>1, RangeType, LenProperties
      <3>4. /\ pairs \in Seq(Pair) /\ DOMAIN pairs = 1 .. Len(list)
            /\ \A i \in 1 .. Len(list) : pairs[i] = <<list[i], slow>>
        BY <3>2, <3>3, IsASeq
      <3>5. ASSUME NEW p \in Range(pairs) PROVE p[1].id = p[2].id /\ p[2] = slow
        <4>1. PICK i \in 1 .. Len(list) : p = <<list[i], slow>>
          BY <3>4 DEF Range
        <4> QED BY <3>1, <3>3, <4>1
      <3>6. ASSUME NEW p \in Range(pairs), Twice(pairs, p)
            PROVE  Twice(server.samples, p[1])
        <4>1. PICK i, j \in 1 .. Len(list) : i # j /\ pairs[i] = p /\ pairs[j] = p
          BY <3>4, <3>6 DEF Twice
        <4>2. list[i] = p[1] /\ list[j] = p[1]
          BY <3>4, <4>1
        <4>3. Twice(list, p[1]) /\ p[1] \in Range(list)
          BY <3>3, <4>1, <4>2 DEF Twice
        <4> QED BY <3>1, <4>3 DEF NoneMore
      <3> QED BY <3>4, <3>5, <3>6 DEF pairs
    <2>5. /\ lists \in Seq(Seq(Pair)) /\ DOMAIN lists = 1 .. Len(slowQueries)
          /\ \A i \in 1 .. Len(slowQueries) : lists[i] = Pairs(slowQueries[i])
      BY <1>1, <2>4, IsASeq
    <2> HIDE DEF lists
    <2>6. Range(FlattenSeq(lists)) = UNION {Range(lists[i]) : i \in DOMAIN lists}
      BY <2>5, FlattenRange
    <2>7. \A i \in DOMAIN lists : \A p \in Range(lists[i]) :
            /\ p[1].id = p[2].id /\ p[2] = slowQueries[i]
            /\ Twice(lists[i], p) => Twice(server.samples, p[1])
      BY <1>1, <2>4, <2>5
    <2>8. ASSUME NEW p \in Range(FlattenSeq(lists)), Twice(FlattenSeq(lists), p)
          PROVE  Twice(server.samples, p[1]) \/ Twice(server.slow, p[2])
      <3>1. \/ \E i \in DOMAIN lists : Twice(lists[i], p)
            \/ \E i, j \in DOMAIN lists :
                 i # j /\ p \in Range(lists[i]) /\ p \in Range(lists[j])
        BY <2>5, <2>8, FlattenTwice
      <3>2. ASSUME NEW i \in DOMAIN lists, Twice(lists[i], p)
            PROVE  Twice(server.samples, p[1])
        <4>1. p \in Range(lists[i])
          BY <3>2 DEF Twice, Range
        <4> QED BY <2>7, <3>2, <4>1
      <3>3. ASSUME NEW i \in DOMAIN lists, NEW j \in DOMAIN lists, i # j,
                   p \in Range(lists[i]), p \in Range(lists[j])
            PROVE  Twice(server.slow, p[2])
        <4>1. p[2] = slowQueries[i] /\ p[2] = slowQueries[j]
          BY <2>7, <3>3
        <4> QED BY <1>1, <1>2, <2>5, <3>3, <4>1
      <3> QED BY <3>1, <3>2, <3>3
    <2>9. \A p \in Range(FlattenSeq(lists)) : p[1].id = p[2].id
      BY <2>6, <2>7
    <2> QED BY <1>4, <2>1, <2>8, <2>9 DEF Found
  <1> QED BY <1>3, <1>4

-----------------------------------------------------------------------------
(* The steps *)

\* What is out after a publish: all there was and the rows, all there was, or
\* what had been reported before.
LEMMA Out ==
  ASSUME NEW rows \in Seq(Rows), IngestMetric(rows) \/ IngestFails(rows),
         reported \in Seq(Rows), kept \in Seq(Rows)
  PROVE  reported' \o kept' \in
           {reported \o kept, (reported \o kept) \o rows, reported}
  <1> DEFINE before == reported \o kept
             after == before \o rows
             out == reported' \o kept'
  <1>4. after \in Seq(Rows)
    OBVIOUS
  <1>8. out \in {before, after, reported}
    <2>1. CASE rows = <<>> /\ reported' = reported /\ kept' = kept
      BY <2>1
    <2>2. CASE reported' = reported \o kept \o rows /\ kept' = <<>>
      <3>1. after \o <<>> = after
        <4> HIDE DEF after
        <4> QED BY <1>4, ConcatEmptySeq
      <3> QED BY <2>2, <3>1
    <2>3. CASE reported' = reported /\ kept' = kept \o rows
      <3>1. reported \in Seq(Rows) /\ kept \in Seq(Rows)
        OBVIOUS
      <3>2. reported \o (kept \o rows) = (reported \o kept) \o rows
        BY <3>1, ConcatAssociative
      <3> QED BY <2>3, <3>2
    <2>4. CASE reported' = reported /\ kept' = <<>>
      <3>1. reported \o <<>> = reported
        BY ConcatEmptySeq
      <3> QED BY <2>4, <3>1
    <2>5. CASE IngestMetric(rows)
      <3>1. \/ rows = <<>> /\ reported' = reported /\ kept' = kept
            \/ reported' = reported \o kept \o rows /\ kept' = <<>>
        BY <2>5 DEF IngestMetric
      <3> QED BY <2>1, <2>2, <3>1
    <2>6. CASE IngestFails(rows)
      <3>1. /\ reported' = reported
            /\ kept' = kept \o rows \/ kept' = <<>>
        BY <2>6 DEF IngestFails
      <3> QED BY <2>3, <2>4, <3>1
    <2> QED BY <2>5, <2>6
  <1> QED BY <1>8

LEMMA OnceStep ==
  ASSUME IInv, OnceInv, UNCHANGED argVars, pc' = pc,
         NEW stage \in Stage, At(stage), NextStage,
         NEW rows \in Seq(Rows), AllApart(rows, server, isRds),
         \A row \in Range(rows) : row.event = stage,
         IngestMetric(rows) \/ IngestFails(rows),
         NoneMore(slowQueries', server.slow), AllApart(individualQueries', server, isRds)
  PROVE  OnceInv'
  <1> DEFINE before == reported \o kept
             after == before \o rows
             out == reported' \o kept'
  <1>1. /\ TypeInv /\ TodoInv /\ isRds \in BOOLEAN
        /\ reported \in Seq(Rows) /\ kept \in Seq(Rows)
    BY DEF IInv, TypeInv
  <1>2. /\ stage \notin Range(todo') /\ Range(todo) = Range(todo') \cup {stage}
    BY <1>1, StageRuns
  <1>3. /\ before \in Seq(Rows) /\ AllApart(before, server, isRds)
        /\ \A row \in Range(before) : row.event \notin Range(todo)
    BY <1>1 DEF OnceInv
  <1>4. after \in Seq(Rows) /\ AllApart(after, server, isRds)
    <2>1. \A row \in Range(before) : row.event # stage
      BY <1>2, <1>3
    <2> HIDE DEF before
    <2> QED BY <1>3, <2>1, ApartConcat
  <1>5. Range(after) = Range(before) \cup Range(rows)
    <2> HIDE DEF before
    <2> QED BY <1>3, RangeConcat
  <1>6. \A row \in Range(after) : row.event \notin Range(todo')
    BY <1>2, <1>3, <1>5
  <1>7. Range(before) \subseteq Range(after)
    BY <1>5
  <1>8. out \in {before, after, reported}
    BY <1>1, Out
  <1>9. /\ AllApart(reported, server, isRds) /\ Range(reported) \subseteq Range(before)
    BY <1>1, <1>3, ApartFirst
  <1>10. /\ AllApart(out, server, isRds)
         /\ \A row \in Range(out) : row.event \notin Range(todo')
    <2> HIDE DEF out, after, before
    <2> QED BY <1>3, <1>4, <1>6, <1>7, <1>8, <1>9
  <1>11. pc' = "run" /\ server' = server /\ isRds' = isRds
    BY DEF At, argVars
  <1> QED BY <1>10, <1>11 DEF OnceInv

LEMMA OnceIneligible ==
  ASSUME IInv, OnceInv,
         \/ SlowIneligible \/ IndividualIneligible \/ WaitIneligible
         \/ BlockingIneligible \/ IndividualFetchFails
  PROVE  OnceInv'
  <1>1. PICK stage \in Stage :
          /\ At(stage) /\ NextStage /\ UNCHANGED argVars /\ pc' = pc
          /\ slowQueries' = slowQueries /\ individualQueries' = individualQueries
          /\ UNCHANGED <<reported, kept>>
    BY DEF SlowIneligible, IndividualIneligible, WaitIneligible, BlockingIneligible,
           IndividualFetchFails, Stage
  <1>2. AllApart(<<>>, server, isRds)
    BY DEF AllApart
  <1>3. NoneMore(slowQueries', server.slow) /\ AllApart(individualQueries', server, isRds)
    BY <1>1 DEF OnceInv
  <1> DEFINE rows == <<>>
  <1>4. /\ rows \in Seq(Rows) /\ \A row \in Range(rows) : row.event = stage
        /\ IngestMetric(rows) /\ AllApart(rows, server, isRds)
    BY <1>1, <1>2, NoRows
  <1> HIDE DEF rows
  <1> QED BY <1>1, <1>3, <1>4, OnceStep

LEMMA OnceIngestSlow ==
  ASSUME IInv, OnceInv, At("slow"), NextStage, UNCHANGED argVars, pc' = pc,
         individualQueries' = individualQueries,
         NEW list \in Seq(Statement), NoneMore(list, server.slow), NEW complete,
         IngestSlow(list, complete)
  PROVE  OnceInv'
  <1> DEFINE rows == SlowRows(list)
  <1>1. /\ rows \in Seq(Rows) /\ AllApart(rows, server, isRds)
        /\ \A row \in Range(rows) : row.event = "slow"
    BY SlowRowsMade, SlowRowsOnce
  <1>2. /\ IngestMetric(rows) \/ IngestFails(rows)
        /\ slowQueries' = list \/ slowQueries' = <<>>
    BY DEF IngestSlow
  <1>3. NoneMore(slowQueries', server.slow)
    BY <1>2 DEF NoneMore, Range
  <1>4. AllApart(individualQueries', server, isRds) /\ "slow" \in Stage
    BY DEF OnceInv, Stage
  <1> HIDE DEF rows
  <1> QED BY <1>1, <1>2, <1>3, <1>4, OnceStep

LEMMA OnceSlow ==
  ASSUME IInv, OnceInv, PopulateSlowRunningMetrics \/ PopulateSlowRunningMetricsPgStat
  PROVE  OnceInv'
  <1>1. /\ At("slow") /\ NextStage /\ UNCHANGED argVars /\ pc' = pc
        /\ individualQueries' = individualQueries
    BY DEF PopulateSlowRunningMetrics, PopulateSlowRunningMetricsPgStat
  <1>2. TypeInv
    BY DEF IInv, OnceInv
  <1> DEFINE slow == Listed(server.slow)
  <1>3. slow \in Seq(Statement) /\ NoneMore(slow, server.slow)
    BY <1>2, Answers, AnswersNoneMore
  <1> HIDE DEF slow
  <1>4. ASSUME NEW list \in Fetch(slow)
        PROVE  list \in Seq(Statement) /\ NoneMore(list, server.slow)
    BY <1>3, FetchPart, FetchSpread, SpreadNoneMore, NoneMoreTrans
  <1>5. CASE PopulateSlowRunningMetrics
    <2>1. PICK list \in Fetch(slow) : IngestSlow(list, list = slow)
      BY <1>5 DEF PopulateSlowRunningMetrics, slow
    <2> DEFINE complete == list = slow
    <2>2. IngestSlow(list, complete)
      BY <2>1
    <2> HIDE DEF complete
    <2> QED BY <1>1, <1>4, <2>2, OnceIngestSlow
  <1>6. CASE PopulateSlowRunningMetricsPgStat
    <2>1. PICK active \in Fetch(server.active), list \in Fetch(slow) :
            IngestSlow(getFilteredSlowMetrics(active, list),
                       active = server.active /\ list = slow)
      BY <1>6 DEF PopulateSlowRunningMetricsPgStat, slow
    <2> DEFINE complete == active = server.active /\ list = slow
               left == getFilteredSlowMetrics(active, list)
    <2>2. IngestSlow(left, complete)
      BY <2>1
    <2>3. left \in Seq(Statement) /\ NoneMore(left, server.slow)
      <3>1. list \in Seq(Statement) /\ NoneMore(list, server.slow)
        BY <1>4
      <3> QED BY <3>1, OnlyRange, OnlySpread, SpreadNoneMore, NoneMoreTrans
                 DEF getFilteredSlowMetrics
    <2> HIDE DEF complete, left
    <2> QED BY <1>1, <2>2, <2>3, OnceIngestSlow
  <1> QED BY <1>5, <1>6

LEMMA OnceIndividual ==
  ASSUME IInv, OnceInv, PopulateIndividualQueryMetrics
  PROVE  OnceInv'
  <1> DEFINE all == getIndividualQueryMetrics
  <1>1. /\ At("individual") /\ NextStage /\ UNCHANGED argVars /\ pc' = pc
        /\ slowQueries' = slowQueries
        /\ \E lost \in SUBSET DOMAIN all :
             \E ids \in [DOMAIN Only(all, DOMAIN all \ lost) -> PlanIds] :
               IngestIndividual(IndividualRows(Only(all, DOMAIN all \ lost), ids),
                                lost = {})
    BY DEF PopulateIndividualQueryMetrics
  <1>2. TypeInv /\ TraceInv /\ isRds \in BOOLEAN
        /\ NoneMore(slowQueries, server.slow)
    BY <1>1, VersionKnown DEF OnceInv
  <1>3. /\ all \in Seq(Statement \X Statement) /\ Found(all)
        /\ \A p \in Range(all) : p[2] \in Range(slowQueries)
    BY <1>2, IndividualPairs, PairsFound
  <1> HIDE DEF all
  <1>4. PICK lost \in SUBSET DOMAIN all :
          \E ids \in [DOMAIN Only(all, DOMAIN all \ lost) -> PlanIds] :
            IngestIndividual(IndividualRows(Only(all, DOMAIN all \ lost), ids),
                             lost = {})
    BY <1>1
  <1> DEFINE pairs == Only(all, DOMAIN all \ lost)
  <1>5. /\ pairs \in Seq(Statement \X Statement)
        /\ Range(pairs) = {all[i] : i \in (DOMAIN all \ lost) \cap DOMAIN all}
        /\ NoneMore(pairs, all)
    BY <1>3, OnlyRange, OnlySpread, SpreadNoneMore
  <1>6. Range(pairs) \subseteq Range(all)
    BY <1>5 DEF Range
  <1>7. PICK ids \in [DOMAIN pairs -> PlanIds] :
          IngestIndividual(IndividualRows(pairs, ids), lost = {})
    BY <1>4
  <1> HIDE DEF pairs
  <1>8. Found(pairs) /\ \A p \in Range(pairs) : p[2] \in Range(slowQueries)
    BY <1>3, <1>5, <1>6 DEF Found, NoneMore
  <1> DEFINE rows == IndividualRows(pairs, ids)
  <1>9. /\ rows \in Seq(Rows) /\ AllApart(rows, server, isRds)
        /\ \A row \in Range(rows) : row.event = "individual"
    BY <1>2, <1>5, <1>7, <1>8, IndividualRowsMade, IndividualRowsOnce
  <1>10. IngestIndividual(rows, lost = {})
    BY <1>7
  <1> HIDE DEF rows
  <1>11. /\ IngestMetric(rows) \/ IngestFails(rows)
         /\ individualQueries' = rows \/ individualQueries' = <<>>
    BY <1>10 DEF IngestIndividual
  <1>12. AllApart(individualQueries', server, isRds)
    BY <1>9, <1>11 DEF AllApart
  <1>13. NoneMore(slowQueries', server.slow) /\ "individual" \in Stage
    BY <1>1, <1>2 DEF Stage
  <1> QED BY <1>1, <1>9, <1>11, <1>12, <1>13, OnceStep

LEMMA OncePlan ==
  ASSUME IInv, OnceInv, PopulateExecutionPlanMetrics
  PROVE  OnceInv'
  <1> DEFINE places(lost) == {i \in DOMAIN individualQueries \ lost :
                                Explicable(individualQueries[i])}
             list(lost) == Only(individualQueries, places(lost))
  <1>1. /\ At("plan") /\ NextStage /\ UNCHANGED argVars /\ pc' = pc
        /\ slowQueries' = slowQueries /\ individualQueries' = individualQueries
        /\ \E lost \in SUBSET DOMAIN individualQueries :
             IngestMetric(PlanRows(list(lost))) \/ IngestFails(PlanRows(list(lost)))
    BY DEF PopulateExecutionPlanMetrics
  <1>2. PICK lost \in SUBSET DOMAIN individualQueries :
          IngestMetric(PlanRows(list(lost))) \/ IngestFails(PlanRows(list(lost)))
    BY <1>1
  <1>3. TypeInv /\ TraceInv /\ individualQueries \in Seq(Rows)
        /\ AllApart(individualQueries, server, isRds)
    BY DEF IInv, TypeInv, OnceInv
  <1>4. /\ list(lost) \in Seq(Rows)
        /\ Range(list(lost)) = {individualQueries[i] :
                                  i \in places(lost) \cap DOMAIN individualQueries}
        /\ AllApart(list(lost), server, isRds)
    BY <1>3, OnlyRange, OnlySpread, SpreadApart
  <1>5. \A row \in Range(list(lost)) : Explicable(row) /\ row \in Range(individualQueries)
    BY <1>4 DEF Range
  <1> HIDE DEF list
  <1>6. \A i \in DOMAIN list(lost) : list(lost)[i].event = "individual"
    <2>1. \A i \in DOMAIN list(lost) : list(lost)[i] \in Range(list(lost))
      BY <1>4, RangeType
    <2> QED BY <1>3, <1>5, <2>1 DEF TraceInv
  <1> DEFINE rows == PlanRows(list(lost))
  <1>7. /\ rows \in Seq(Rows) /\ AllApart(rows, server, isRds)
        /\ \A row \in Range(rows) : row.event = "plan"
    BY <1>3, <1>4, <1>5, <1>6, PlanRowsMade, PlanRowsOnce
  <1>8. IngestMetric(rows) \/ IngestFails(rows)
    BY <1>2
  <1>9. NoneMore(slowQueries', server.slow) /\ AllApart(individualQueries', server, isRds) /\ "plan" \in Stage
    BY <1>1 DEF OnceInv, Stage
  <1>10. At("plan") /\ NextStage /\ UNCHANGED argVars /\ pc' = pc
    BY <1>1
  <1> HIDE DEF rows
  <1> QED BY <1>7, <1>8, <1>9, <1>10, OnceStep

LEMMA OnceSessions ==
  ASSUME IInv, OnceInv, PopulateWaitEventMetrics \/ PopulateBlockingMetrics
  PROVE  OnceInv'
  <1>1. /\ NextStage /\ UNCHANGED argVars /\ pc' = pc
        /\ slowQueries' = slowQueries /\ individualQueries' = individualQueries
    BY DEF PopulateWaitEventMetrics, PopulateBlockingMetrics
  <1>2. TypeInv /\ TraceInv
    BY DEF IInv, OnceInv
  <1>3. /\ NoneMore(slowQueries', server.slow) /\ AllApart(individualQueries', server, isRds)
        /\ "wait" \in Stage /\ "blocking" \in Stage
    BY <1>1 DEF OnceInv, Stage
  <1>4. CASE PopulateWaitEventMetrics
    <2>1. PICK waits \in Fetch(Waits) :
            IngestMetric(WaitRows(waits)) \/ IngestFails(WaitRows(waits))
      BY <1>4 DEF PopulateWaitEventMetrics
    <2>2. waits \in Seq(Statement) /\ NoneMore(waits, server.waits)
      <3>1. Waits \in Seq(Statement) /\ NoneMore(Waits, server.waits)
        BY <1>2, Answers, AnswersNoneMore
      <3> QED BY <2>1, <3>1, FetchPart, FetchSpread, SpreadNoneMore, NoneMoreTrans
    <2> DEFINE rows == WaitRows(waits)
    <2>3. /\ rows \in Seq(Rows) /\ AllApart(rows, server, isRds)
          /\ \A row \in Range(rows) : row.event = "wait"
          /\ IngestMetric(rows) \/ IngestFails(rows)
      BY <1>2, <2>1, <2>2, WaitRowsMade, WaitRowsOnce
    <2>4. At("wait")
      BY <1>4 DEF PopulateWaitEventMetrics
    <2> HIDE DEF rows
    <2> QED BY <1>1, <1>3, <2>3, <2>4, OnceStep
  <1>5. CASE PopulateBlockingMetrics
    <2>1. PICK blocks \in Fetch(Blocks) :
            IngestMetric(BlockingRows(blocks)) \/ IngestFails(BlockingRows(blocks))
      BY <1>5 DEF PopulateBlockingMetrics
    <2>2. blocks \in Seq(Statement \X Statement) /\ NoneMore(blocks, server.blocks)
      <3>1. Blocks \in Seq(Statement \X Statement) /\ NoneMore(Blocks, server.blocks)
        BY <1>2, Answers, AnswersNoneMore
      <3> QED BY <2>1, <3>1, FetchPart, FetchSpread, SpreadNoneMore, NoneMoreTrans
    <2> DEFINE rows == BlockingRows(blocks)
    <2>3. /\ rows \in Seq(Rows) /\ AllApart(rows, server, isRds)
          /\ \A row \in Range(rows) : row.event = "blocking"
          /\ IngestMetric(rows) \/ IngestFails(rows)
      BY <1>2, <2>1, <2>2, BlockingRowsMade, BlockingRowsOnce
    <2>4. At("blocking")
      BY <1>5 DEF PopulateBlockingMetrics
    <2> HIDE DEF rows
    <2> QED BY <1>1, <1>3, <2>3, <2>4, OnceStep
  <1> QED BY <1>4, <1>5

LEMMA OnceMain ==
  ASSUME IInv, OnceInv, QueryPerformanceMain \/ GiveUp \/ Finish
  PROVE  OnceInv'
  <1>1. /\ UNCHANGED argVars /\ slowQueries' = slowQueries
        /\ individualQueries' = individualQueries /\ reported' = reported
        /\ kept' = kept /\ pc' # "start"
    BY DEF QueryPerformanceMain, GiveUp, Finish
  <1>2. server' = server /\ isRds' = isRds
    BY <1>1 DEF argVars
  <1>3. \A row \in Range(reported \o kept) : row.event \notin Range(todo')
    <2>1. CASE pc = "start"
      <3>1. reported = <<>> /\ kept = <<>> /\ <<>> \o <<>> = <<>>
        BY <2>1 DEF OnceInv
      <3>2. Range(reported \o kept) = {}
        BY <3>1 DEF Range
      <3> QED BY <3>2
    <2>2. CASE pc # "start"
      <3>1. todo' = todo
        BY <2>2 DEF QueryPerformanceMain, GiveUp, Finish
      <3> QED BY <3>1 DEF OnceInv
    <2> QED BY <2>1, <2>2
  <1> QED BY <1>1, <1>2, <1>3 DEF OnceInv

LEMMA OnceHolds == Spec => []OnceInv
  <1>1. Init => OnceInv
    <2> SUFFICES ASSUME Init PROVE OnceInv
      OBVIOUS
    <2>1. /\ todo = <<>> /\ slowQueries = <<>>
          /\ individualQueries = <<>> /\ reported = <<>> /\ kept = <<>>
      BY DEF Init
    <2>2. reported \o kept = <<>>
      BY <2>1
    <2>3. Range(<<>>) = {} /\ DOMAIN <<>> = {}
      BY DEF Range
    <2> QED BY <2>1, <2>2, <2>3 DEF OnceInv, AllApart, NoneMore
  <1>2. IInv /\ OnceInv /\ [Next]_vars => OnceInv'
    <2> SUFFICES ASSUME IInv, OnceInv, [Next]_vars PROVE OnceInv'
      OBVIOUS
    <2>1. CASE QueryPerformanceMain \/ GiveUp \/ Finish
      BY <2>1, OnceMain
    <2>2. CASE SlowIneligible \/ IndividualIneligible \/ WaitIneligible
               \/ BlockingIneligible \/ IndividualFetchFails
      BY <2>2, OnceIneligible
    <2>3. CASE PopulateSlowRunningMetrics \/ PopulateSlowRunningMetricsPgStat
      BY <2>3, OnceSlow
    <2>4. CASE PopulateIndividualQueryMetrics
      BY <2>4, OnceIndividual
    <2>5. CASE PopulateExecutionPlanMetrics
      BY <2>5, OncePlan
    <2>6. CASE PopulateWaitEventMetrics \/ PopulateBlockingMetrics
      BY <2>6, OnceSessions
    <2>7. CASE UNCHANGED vars
      BY <2>7 DEF vars, argVars, OnceInv
    <2> QED BY <2>1, <2>2, <2>3, <2>4, <2>5, <2>6, <2>7 DEF Next
  <1> QED BY <1>1, <1>2, Inductive, PTL DEF Spec

\* Nothing is reported twice that the server lists once, whatever fails: a failed
\* publish may keep its rows, but the stage they are from never runs again.
THEOREM OnceReported == Spec => []ReportedOnce
  <1>1. IInv /\ OnceInv => ReportedOnce
    <2> SUFFICES ASSUME IInv, OnceInv PROVE ReportedOnce
      OBVIOUS
    <2>1. reported \in Seq(Rows) /\ kept \in Seq(Rows)
      BY DEF IInv, TypeInv
    <2>2. AllApart(reported, server, isRds)
      BY <2>1, ApartFirst DEF OnceInv
    <2>3. \A i \in DOMAIN reported : i \in Nat
      BY <2>1, RangeType
    <2>4. \A i, j \in DOMAIN reported : i < j => i # j
      BY <2>3
    <2> QED BY <2>2, <2>4 DEF ReportedOnce, AllApart, Apart
  <1> QED BY <1>1, Inductive, OnceHolds, PTL

-----------------------------------------------------------------------------
(* Plans and failures *)

PlanOf(row) == [row EXCEPT !.event = "plan"]

Planned ==
  \A row \in Range(individualQueries) : Explicable(row) => PlanOf(row) \in Range(reported)

\* Unless the individual queries failed, those out are those handed on; and the
\* plan stage, when it is over, has explained them.
PlanInv ==
  /\ \A row \in Range(reported \o kept) :
       row.event = "individual" =>
         "individual" \in failed \/ row \in Range(individualQueries)
  /\ "plan" \in Range(todo) \/ "plan" \in failed \/ Planned

LEMMA PlanAhead ==
  ASSUME isRds \in BOOLEAN, TodoInv, At("individual"), NextStage
  PROVE  "plan" \in Range(todo')
  <1>1. PICK k \in 1 .. 6 : todo = RestFrom(k)
    BY DEF TodoInv, At
  <1>2. k # 6
    BY <1>1, RestRange DEF At
  <1>3. k + 1 \in 1 .. 6 /\ todo' = RestFrom(k + 1) /\ Stages[k] = "individual"
    BY <1>1, <1>2, RestRange DEF At, NextStage
  <1>4. Range(todo') = {Stages[j] : j \in k + 1 .. 5}
    BY <1>3, RestRange
  <1>5. k \in {1, 2, 3, 4, 5}
    BY <1>2
  <1>6. CASE isRds
    <2>1. /\ Stages[1] = "slow" /\ Stages[3] = "plan" /\ Stages[4] = "wait"
          /\ Stages[5] = "blocking"
      BY <1>6, StagesOrder
    <2>2. k = 2
      BY <1>3, <1>5, <2>1
    <2>3. 3 \in k + 1 .. 5
      BY <2>2
    <2> QED BY <1>4, <2>1, <2>3
  <1>7. CASE ~isRds
    <2>1. /\ Stages[1] = "wait" /\ Stages[2] = "blocking" /\ Stages[3] = "slow"
          /\ Stages[5] = "plan"
      BY <1>7, StagesOrder
    <2>2. k = 4
      BY <1>3, <1>5, <2>1
    <2>3. 5 \in k + 1 .. 5
      BY <2>2
    <2> QED BY <1>4, <2>1, <2>3
  <1> QED BY <1>6, <1>7

\* What a stage has to show for the invariant to hold after it.
LEMMA PlanStep ==
  ASSUME IInv, OnceInv, PlanInv, NEW stage \in Stage, At(stage), NextStage,
         failed \subseteq failed',
         NEW rows \in Seq(Rows), \A row \in Range(rows) : row.event = stage,
         IngestMetric(rows) \/ IngestFails(rows),
         stage # "individual" => individualQueries' = individualQueries,
         stage = "individual" =>
           "individual" \in failed' \/ Range(rows) \subseteq Range(individualQueries'),
         stage = "plan" => "plan" \in failed' \/ Planned'
  PROVE  PlanInv'
  <1>1. /\ TypeInv /\ TodoInv /\ isRds \in BOOLEAN
        /\ reported \in Seq(Rows) /\ kept \in Seq(Rows)
    BY DEF IInv, TypeInv
  <1>2. stage \notin Range(todo') /\ Range(todo) = Range(todo') \cup {stage}
    BY <1>1, StageRuns
  <1> DEFINE before == reported \o kept
  <1>3. Range(reported' \o kept') \subseteq Range(before) \cup Range(rows)
    <2>1. before \in Seq(Rows) /\ Range(before) = Range(reported) \cup Range(kept)
      BY <1>1, RangeConcat
    <2>2. reported' \o kept' \in {before, before \o rows, reported}
      BY <1>1, Out
    <2> HIDE DEF before
    <2>3. Range(before \o rows) = Range(before) \cup Range(rows)
      BY <2>1, RangeConcat
    <2> QED BY <2>1, <2>2, <2>3
  <1>4. Range(reported) \subseteq Range(reported')
    <2>1. reported' = reported \/ reported' = reported \o kept \o rows
      BY DEF IngestMetric, IngestFails
    <2>2. CASE reported' = reported \o kept \o rows
      <3>1. before \in Seq(Rows) /\ Range(before) = Range(reported) \cup Range(kept)
        BY <1>1, RangeConcat
      <3>2. reported' = before \o rows
        BY <2>2
      <3> HIDE DEF before
      <3> QED BY <3>1, <3>2, RangeConcat
    <2> QED BY <2>1, <2>2
  <1>5. ASSUME NEW row \in Range(reported' \o kept'), row.event = "individual"
        PROVE  "individual" \in failed' \/ row \in Range(individualQueries')
    <2>1. CASE stage = "individual"
      <3>1. "individual" \in Range(todo)
        BY <1>2, <2>1
      <3>2. row \notin Range(before)
        BY <1>5, <3>1 DEF OnceInv
      <3> QED BY <1>3, <2>1, <3>2
    <2>2. CASE stage # "individual"
      <3>1. row \in Range(before)
        BY <1>3, <1>5, <2>2
      <3> QED BY <1>5, <2>2, <3>1 DEF PlanInv
    <2> QED BY <2>1, <2>2
  <1>6. "plan" \in Range(todo') \/ "plan" \in failed' \/ Planned'
    <2>1. CASE stage = "individual"
      BY <1>1, <2>1, PlanAhead
    <2>2. CASE stage \notin {"individual", "plan"}
      <3>1. Planned => Planned'
        BY <1>4, <2>2 DEF Planned
      <3> QED BY <1>2, <2>2, <3>1 DEF PlanInv
    <2> QED BY <2>1, <2>2
  <1> QED BY <1>5, <1>6 DEF PlanInv

LEMMA PlanOthers ==
  ASSUME IInv, OnceInv, PlanInv,
         \/ SlowIneligible \/ IndividualIneligible \/ WaitIneligible
         \/ BlockingIneligible \/ IndividualFetchFails
  PROVE  PlanInv'
  <1>1. PICK stage \in Stage :
          /\ At(stage) /\ NextStage /\ individualQueries' = individualQueries
          /\ UNCHANGED <<reported, kept>>
          /\ stage \in {"slow", "individual", "wait", "blocking"}
    BY DEF SlowIneligible, IndividualIneligible, WaitIneligible, BlockingIneligible,
           IndividualFetchFails, Stage
  <1>2. failed \subseteq failed'
    BY DEF SlowIneligible, IndividualIneligible, WaitIneligible, BlockingIneligible,
           IndividualFetchFails, Fail
  <1> DEFINE rows == <<>>
  <1>3. /\ rows \in Seq(Rows) /\ Range(rows) = {} /\ IngestMetric(rows)
    BY <1>1, NoRows
  <1> HIDE DEF rows
  <1> QED BY <1>1, <1>2, <1>3, PlanStep

LEMMA PlanIngestSlow ==
  ASSUME IInv, OnceInv, PlanInv, At("slow"), NextStage,
         individualQueries' = individualQueries,
         NEW list \in Seq(Statement), NEW complete, IngestSlow(list, complete)
  PROVE  PlanInv'
  <1> DEFINE rows == SlowRows(list)
  <1>1. rows \in Seq(Rows) /\ \A row \in Range(rows) : row.event = "slow"
    <2>1. \A st : SlowRow(st).event = "slow"
      BY DEF SlowRow, Row
    <2> QED BY <2>1, SlowRowsMade
  <1>2. IngestMetric(rows) \/ IngestFails(rows)
    BY DEF IngestSlow
  <1>3. failed \subseteq failed' /\ "slow" \in Stage
    BY DEF IngestSlow, FailUnless, Fail, Stage
  <1> HIDE DEF rows
  <1> QED BY <1>1, <1>2, <1>3, PlanStep

LEMMA PlanSlow ==
  ASSUME IInv, OnceInv, PlanInv,
         PopulateSlowRunningMetrics \/ PopulateSlowRunningMetricsPgStat
  PROVE  PlanInv'
  <1>1. At("slow") /\ NextStage /\ individualQueries' = individualQueries
    BY DEF PopulateSlowRunningMetrics, PopulateSlowRunningMetricsPgStat
  <1> DEFINE slow == Listed(server.slow)
  <1>2. slow \in Seq(Statement)
    BY Answers DEF IInv
  <1> HIDE DEF slow
  <1>3. CASE PopulateSlowRunningMetrics
    <2>1. PICK list \in Fetch(slow) : IngestSlow(list, list = slow)
      BY <1>3 DEF PopulateSlowRunningMetrics, slow
    <2> DEFINE complete == list = slow
    <2>2. IngestSlow(list, complete) /\ list \in Seq(Statement)
      BY <1>2, <2>1, FetchPart
    <2> HIDE DEF complete
    <2> QED BY <1>1, <2>2, PlanIngestSlow
  <1>4. CASE PopulateSlowRunningMetricsPgStat
    <2>1. PICK active \in Fetch(server.active), list \in Fetch(slow) :
            IngestSlow(getFilteredSlowMetrics(active, list),
                       active = server.active /\ list = slow)
      BY <1>4 DEF PopulateSlowRunningMetricsPgStat, slow
    <2> DEFINE complete == active = server.active /\ list = slow
               left == getFilteredSlowMetrics(active, list)
    <2>2. IngestSlow(left, complete)
      BY <2>1
    <2>3. left \in Seq(Statement)
      <3>1. list \in Seq(Statement)
        BY <1>2, FetchPart
      <3> QED BY <3>1, OnlyRange DEF getFilteredSlowMetrics
    <2> HIDE DEF complete, left
    <2> QED BY <1>1, <2>2, <2>3, PlanIngestSlow
  <1> QED BY <1>3, <1>4

LEMMA PlanIndividual ==
  ASSUME IInv, OnceInv, PlanInv, PopulateIndividualQueryMetrics
  PROVE  PlanInv'
  <1> DEFINE all == getIndividualQueryMetrics
  <1>1. /\ At("individual") /\ NextStage
        /\ \E lost \in SUBSET DOMAIN all :
             \E ids \in [DOMAIN Only(all, DOMAIN all \ lost) -> PlanIds] :
               IngestIndividual(IndividualRows(Only(all, DOMAIN all \ lost), ids),
                                lost = {})
    BY DEF PopulateIndividualQueryMetrics
  <1>2. TypeInv /\ TraceInv
    BY DEF IInv
  <1>3. /\ all \in Seq(Statement \X Statement)
        /\ \A p \in Range(all) : p[2] \in Range(slowQueries)
    BY <1>2, IndividualPairs
  <1> HIDE DEF all
  <1>4. PICK lost \in SUBSET DOMAIN all :
          \E ids \in [DOMAIN Only(all, DOMAIN all \ lost) -> PlanIds] :
            IngestIndividual(IndividualRows(Only(all, DOMAIN all \ lost), ids),
                             lost = {})
    BY <1>1
  <1> DEFINE pairs == Only(all, DOMAIN all \ lost)
  <1>5. /\ pairs \in Seq(Statement \X Statement)
        /\ \A p \in Range(pairs) : p[2] \in Range(slowQueries)
    <2>1. /\ pairs \in Seq(Statement \X Statement)
          /\ Range(pairs) = {all[i] : i \in (DOMAIN all \ lost) \cap DOMAIN all}
      BY <1>3, OnlyRange
    <2> HIDE DEF pairs
    <2>2. Range(pairs) \subseteq Range(all)
      BY <2>1 DEF Range
    <2> QED BY <1>3, <2>1, <2>2
  <1>6. PICK ids \in [DOMAIN pairs -> PlanIds] :
          IngestIndividual(IndividualRows(pairs, ids), lost = {})
    BY <1>4
  <1> HIDE DEF pairs
  <1> DEFINE rows == IndividualRows(pairs, ids)
  <1>7. rows \in Seq(Rows) /\ \A row \in Range(rows) : row.event = "individual"
    BY <1>2, <1>5, <1>6, IndividualRowsMade
  <1>8. IngestIndividual(rows, lost = {})
    BY <1>6
  <1> HIDE DEF rows
  <1>9. /\ IngestMetric(rows) \/ IngestFails(rows)
        /\ "individual" \in failed' \/ individualQueries' = rows
        /\ failed \subseteq failed' /\ "individual" \in Stage
    BY <1>8 DEF IngestIndividual, FailUnless, Fail, Stage
  <1> QED BY <1>1, <1>7, <1>9, PlanStep

LEMMA PlanPlan ==
  ASSUME IInv, OnceInv, PlanInv, PopulateExecutionPlanMetrics
  PROVE  PlanInv'
  <1> DEFINE places(lost) == {i \in DOMAIN individualQueries \ lost :
                                Explicable(individualQueries[i])}
             list(lost) == Only(individualQueries, places(lost))
  <1>1. /\ At("plan") /\ NextStage /\ individualQueries' = individualQueries
        /\ \E lost \in SUBSET DOMAIN individualQueries :
             \/ IngestMetric(PlanRows(list(lost))) /\ FailUnless(lost = {}, "plan")
             \/ IngestFails(PlanRows(list(lost))) /\ Fail("plan")
    BY DEF PopulateExecutionPlanMetrics
  <1>2. PICK lost \in SUBSET DOMAIN individualQueries :
          \/ IngestMetric(PlanRows(list(lost))) /\ FailUnless(lost = {}, "plan")
          \/ IngestFails(PlanRows(list(lost))) /\ Fail("plan")
    BY <1>1
  <1>3. TypeInv /\ TraceInv /\ individualQueries \in Seq(Rows)
        /\ reported \in Seq(Rows) /\ kept \in Seq(Rows)
    BY DEF IInv, TypeInv
  <1>4. /\ list(lost) \in Seq(Rows)
        /\ Range(list(lost)) = {individualQueries[i] :
                                  i \in places(lost) \cap DOMAIN individualQueries}
    BY <1>3, OnlyRange
  <1>5. \A row \in Range(list(lost)) : Explicable(row) /\ row \in Range(individualQueries)
    BY <1>4 DEF Range
  <1>6. lost = {} => \A row \in Range(individualQueries) :
                       Explicable(row) => row \in Range(list(lost))
    BY <1>4 DEF Range
  <1> HIDE DEF list
  <1> DEFINE rows == PlanRows(list(lost))
  <1>7. /\ rows \in Seq(Rows)
        /\ \A row \in Range(list(lost)) : PlanOf(row) \in Range(rows)
    BY <1>3, <1>4, <1>5, PlanRowsMade DEF PlanOf
  <1>8. \A row \in Range(rows) : row.event = "plan"
    <2>1. \A of, from, plan : Row("plan", of, from, plan).event = "plan"
      BY DEF Row
    <2> QED BY <2>1 DEF PlanRows, Range
  <1>9. /\ IngestMetric(rows) \/ IngestFails(rows)
        /\ "plan" \in failed' \/ (IngestMetric(rows) /\ lost = {})
        /\ failed \subseteq failed' /\ "plan" \in Stage
    BY <1>2 DEF FailUnless, Fail, Stage
  <1> HIDE DEF rows
  <1>10. ASSUME IngestMetric(rows), lost = {} PROVE Planned'
    <2>1. Range(rows) \subseteq Range(reported')
      <3>1. CASE rows = <<>>
        BY <3>1, NoRows
      <3>2. CASE rows # <<>>
        <4> DEFINE before == reported \o kept
        <4>1. before \in Seq(Rows) /\ reported' = before \o rows
          BY <1>3, <1>10, <3>2 DEF IngestMetric
        <4> HIDE DEF before
        <4> QED BY <1>7, <4>1, RangeConcat
      <3> QED BY <3>1, <3>2
    <2>2. \A row : Explicable(row)' = Explicable(row) /\ PlanOf(row)' = PlanOf(row)
      BY DEF Explicable, PlanOf
    <2>3. \A row \in Range(individualQueries) :
            Explicable(row) => PlanOf(row) \in Range(reported')
      BY <1>6, <1>7, <1>10, <2>1
    <2> QED BY <1>1, <2>2, <2>3 DEF Planned
  <1>11. "plan" \in failed' \/ Planned'
    BY <1>9, <1>10
  <1>12. At("plan") /\ NextStage /\ individualQueries' = individualQueries
    BY <1>1
  <1> QED BY <1>7, <1>8, <1>9, <1>11, <1>12, PlanStep

LEMMA PlanSessions ==
  ASSUME IInv, OnceInv, PlanInv, PopulateWaitEventMetrics \/ PopulateBlockingMetrics
  PROVE  PlanInv'
  <1>1. NextStage /\ individualQueries' = individualQueries
    BY DEF PopulateWaitEventMetrics, PopulateBlockingMetrics
  <1>2. TypeInv /\ TraceInv
    BY DEF IInv
  <1>3. CASE PopulateWaitEventMetrics
    <2>1. PICK waits \in Fetch(Waits) :
            \/ IngestMetric(WaitRows(waits)) /\ FailUnless(waits = Waits, "wait")
            \/ IngestFails(WaitRows(waits)) /\ Fail("wait")
      BY <1>3 DEF PopulateWaitEventMetrics
    <2>2. waits \in Seq(Statement)
      BY <1>2, <2>1, Answers, FetchPart
    <2> DEFINE rows == WaitRows(waits)
    <2>3. rows \in Seq(Rows)
      BY <1>2, <2>2, WaitRowsMade
    <2>4. \A row \in Range(rows) : row.event = "wait"
      <3>1. \A of, from : Row("wait", of, from, NoPlan).event = "wait"
        BY DEF Row
      <3>2. CASE isRds
        <4>1. rows = getFilteredWaitEvents(waits)
          BY <3>2 DEF WaitRows
        <4> HIDE DEF rows
        <4> QED BY <3>1, <4>1 DEF getFilteredWaitEvents, Range
      <3>3. CASE ~isRds
        <4>1. rows = [i \in DOMAIN waits |-> Row("wait", <<waits[i]>>, <<waits[i]>>, NoPlan)]
          BY <3>3 DEF WaitRows
        <4> HIDE DEF rows
        <4> QED BY <3>1, <4>1 DEF Range
      <3> QED BY <3>2, <3>3
    <2>5. /\ IngestMetric(rows) \/ IngestFails(rows)
          /\ failed \subseteq failed' /\ "wait" \in Stage /\ At("wait")
      BY <1>3, <2>1 DEF FailUnless, Fail, Stage, PopulateWaitEventMetrics
    <2> HIDE DEF rows
    <2> QED BY <1>1, <2>3, <2>4, <2>5, PlanStep
  <1>4. CASE PopulateBlockingMetrics
    <2>1. PICK blocks \in Fetch(Blocks) :
            \/ IngestMetric(BlockingRows(blocks)) /\ FailUnless(blocks = Blocks, "blocking")
            \/ IngestFails(BlockingRows(blocks)) /\ Fail("blocking")
      BY <1>4 DEF PopulateBlockingMetrics
    <2>2. blocks \in Seq(Statement \X Statement)
      BY <1>2, <2>1, Answers, FetchPart
    <2> DEFINE rows == BlockingRows(blocks)
    <2>3. rows \in Seq(Rows)
      BY <1>2, <2>2, BlockingRowsMade
    <2>4. \A row \in Range(rows) : row.event = "blocking"
      <3>1. \A of, from : Row("blocking", of, from, NoPlan).event = "blocking"
        BY DEF Row
      <3>2. CASE isRds
        <4>1. rows = getFilteredBlockingSessions(blocks)
          BY <3>2 DEF BlockingRows
        <4> HIDE DEF rows
        <4>2. \A i \in DOMAIN rows : \E of, from : rows[i] = Row("blocking", of, from, NoPlan)
          BY <4>1 DEF getFilteredBlockingSessions
        <4> QED BY <3>1, <4>2 DEF Range
      <3>3. CASE ~isRds
        <4>1. rows = [i \in DOMAIN blocks |-> Row("blocking", blocks[i], blocks[i], NoPlan)]
          BY <3>3 DEF BlockingRows
        <4> HIDE DEF rows
        <4> QED BY <3>1, <4>1 DEF Range
      <3> QED BY <3>2, <3>3
    <2>5. /\ IngestMetric(rows) \/ IngestFails(rows)
          /\ failed \subseteq failed' /\ "blocking" \in Stage /\ At("blocking")
      BY <1>4, <2>1 DEF FailUnless, Fail, Stage, PopulateBlockingMetrics
    <2> HIDE DEF rows
    <2> QED BY <1>1, <2>3, <2>4, <2>5, PlanStep
  <1> QED BY <1>3, <1>4

LEMMA PlanMain ==
  ASSUME IInv, PlanInv, QueryPerformanceMain \/ GiveUp \/ Finish
  PROVE  PlanInv'
  <1>1. /\ individualQueries' = individualQueries /\ reported' = reported
        /\ kept' = kept /\ failed' = failed
    BY DEF QueryPerformanceMain, GiveUp, Finish
  <1>2. "plan" \notin Range(todo) \/ todo' = todo
    <2>1. pc = "start" => todo = <<>>
      BY DEF IInv, TodoInv
    <2>2. pc # "start" => todo' = todo
      BY DEF QueryPerformanceMain, Finish, GiveUp
    <2> QED BY <2>1, <2>2, NoRows
  <1> QED BY <1>1, <1>2 DEF PlanInv, Planned

\* A stage that neither failed nor lacked an extension reports all that the
\* server had for it, if the same holds of the stage whose list it takes; the
\* plan stage reports a plan for every individual query it can explain.
THEOREM FailuresLocal == Spec => []FailuresStayLocal
  <1>1. Init => PlanInv
    <2> SUFFICES ASSUME Init PROVE PlanInv
      OBVIOUS
    <2>1. individualQueries = <<>> /\ reported = <<>> /\ kept = <<>>
      BY DEF Init
    <2>2. reported \o kept = <<>> /\ Range(<<>>) = {}
      BY <2>1 DEF Range
    <2> QED BY <2>1, <2>2 DEF PlanInv, Planned
  <1>2. IInv /\ OnceInv /\ PlanInv /\ [Next]_vars => PlanInv'
    <2> SUFFICES ASSUME IInv, OnceInv, PlanInv, [Next]_vars PROVE PlanInv'
      OBVIOUS
    <2>1. CASE QueryPerformanceMain \/ GiveUp \/ Finish
      BY <2>1, PlanMain
    <2>2. CASE SlowIneligible \/ IndividualIneligible \/ WaitIneligible
               \/ BlockingIneligible \/ IndividualFetchFails
      BY <2>2, PlanOthers
    <2>3. CASE PopulateSlowRunningMetrics \/ PopulateSlowRunningMetricsPgStat
      BY <2>3, PlanSlow
    <2>4. CASE PopulateIndividualQueryMetrics
      BY <2>4, PlanIndividual
    <2>5. CASE PopulateExecutionPlanMetrics
      BY <2>5, PlanPlan
    <2>6. CASE PopulateWaitEventMetrics \/ PopulateBlockingMetrics
      BY <2>6, PlanSessions
    <2>7. CASE UNCHANGED vars
      BY <2>7 DEF vars, PlanInv, Planned
    <2> QED BY <2>1, <2>2, <2>3, <2>4, <2>5, <2>6, <2>7 DEF Next
  <1>3. IInv /\ PlanInv => FailuresStayLocal
    <2> SUFFICES ASSUME IInv, PlanInv, pc = "done", asked # {}
                 PROVE  /\ Sound("slow") => SlowComplete
                        /\ Sound("slow") /\ Sound("individual") => IndividualComplete
                        /\ Sound("plan") => PlanComplete
                        /\ Sound("wait") /\ (isRds => Sound("slow")) => WaitComplete
                        /\ Sound("blocking") /\ (isRds => Sound("slow"))
                             => BlockingComplete
      BY DEF FailuresStayLocal
    <2>1. todo = <<>>
      BY DEF IInv, TodoInv
    <2>2. Range(todo) = {}
      BY <2>1 DEF Range
    <2>3. \A stage : Sound(stage) => Over(stage)
      BY <2>2 DEF Over
    <2>4. ASSUME Sound("plan"), NEW row \in Reported("individual"), Explicable(row),
                 "individual" \notin failed \/ row \in Range(individualQueries)
          PROVE  [row EXCEPT !.event = "plan"] \in Reported("plan")
      <3>1. reported \in Seq(Rows) /\ kept \in Seq(Rows)
        BY DEF IInv, TypeInv
      <3>2. row \in Range(reported) /\ row.event = "individual"
        BY <2>4 DEF Reported
      <3>3. row \in Range(reported \o kept) /\ row \in Rows
        BY <3>1, <3>2, RangeConcat, RangeType
      <3>4. row \in Range(individualQueries)
        BY <2>4, <3>2, <3>3 DEF PlanInv
      <3>5. PlanOf(row) \in Range(reported)
        BY <2>2, <2>4, <3>4 DEF PlanInv, Planned, Sound
      <3>6. PlanOf(row).event = "plan"
        BY <3>3 DEF PlanOf, Rows, RowType
      <3> QED BY <3>5, <3>6 DEF PlanOf, Reported
    <2> QED BY <2>3, <2>4 DEF IInv, LocalInv, PlanComplete
  <1> QED BY <1>1, <1>2, <1>3, Inductive, OnceHolds, PTL DEF Spec
=============================================================================
