----------------------------- MODULE PartsProofs -----------------------------
(***************************************************************************)
(* Proofs about the parts, for all values of their constants.  They share  *)
(* no state: what holds of one holds of every behaviour in which it acts.  *)
(***************************************************************************)
EXTENDS Parts, SequenceTheorems, FiniteSetTheorems, WellFoundedInduction, TLAPS

-----------------------------------------------------------------------------
(* Induction over the elements of a list *)

\* The library's induction takes an operator; over a set of numbers it is a
\* consequence of the order on Nat being well founded.
LEMMA LeastElement ==
  ASSUME NEW T \in SUBSET Nat, T # {}
  PROVE  \E x \in T : \A y \in T : x <= y
  <1> DEFINE R == {ss \in Nat \X Nat : ss[1] < ss[2]}
  <1>1. IsWellFoundedOn(R, Nat)
    BY NatLessThanWellFounded DEF OpToRel
  <1>2. \E x \in T : \A y \in T : ~(<<y, x>> \in R)
    <2> HIDE DEF R
    <2> QED BY <1>1, WFMin
  <1>3. ASSUME NEW x \in T, NEW y \in T, ~(<<y, x>> \in R) PROVE x <= y
    BY <1>3
  <1> QED BY <1>2, <1>3

LEMMA SetInduction ==
  ASSUME NEW T, 0 \in T, \A n \in Nat : n \in T => n + 1 \in T
  PROVE  Nat \subseteq T
  <1> SUFFICES ASSUME Nat \ T # {} PROVE FALSE
    OBVIOUS
  <1>1. PICK x \in Nat \ T : \A y \in Nat \ T : x <= y
    BY LeastElement
  <1>2. x - 1 \in Nat /\ x - 1 \in T
    BY <1>1
  <1> QED BY <1>1, <1>2

-----------------------------------------------------------------------------
(* Lists *)

LEMMA RangeType ==
  ASSUME NEW S, NEW s \in Seq(S)
  PROVE  /\ DOMAIN s = 1 .. Len(s) /\ Len(s) \in Nat
         /\ Range(s) \subseteq S
         /\ s \in Seq(Range(s))
         /\ \A i \in DOMAIN s : s[i] \in Range(s)
  <1>1. /\ DOMAIN s = 1 .. Len(s) /\ Len(s) \in Nat
        /\ \A i \in DOMAIN s : s[i] \in S
    BY LenProperties
  <1>2. \A i \in DOMAIN s : s[i] \in Range(s)
    BY Zenon DEF Range
  <1>3. Range(s) \subseteq S
    BY <1>1 DEF Range
  <1>4. s \in Seq(Range(s))
    BY <1>1, <1>2, IsASeq
  <1> QED BY <1>1, <1>2, <1>3, <1>4

LEMMA RangeConcat ==
  ASSUME NEW S, NEW s \in Seq(S), NEW t \in Seq(S)
  PROVE  /\ s \o t \in Seq(S) /\ Len(s \o t) = Len(s) + Len(t)
         /\ Range(s \o t) = Range(s) \cup Range(t)
         /\ \A i \in 1 .. Len(s) : (s \o t)[i] = s[i]
         /\ \A i \in DOMAIN (s \o t) : i \notin 1 .. Len(s) => (s \o t)[i] \in Range(t)
  <1> DEFINE u == s \o t
  <1>1. /\ u \in Seq(S) /\ Len(u) = Len(s) + Len(t)
        /\ \A i \in 1 .. Len(s) + Len(t) :
             u[i] = IF i <= Len(s) THEN s[i] ELSE t[i - Len(s)]
    BY ConcatProperties
  <1>2. /\ DOMAIN u = 1 .. Len(s) + Len(t)
        /\ DOMAIN s = 1 .. Len(s) /\ Len(s) \in Nat
        /\ DOMAIN t = 1 .. Len(t) /\ Len(t) \in Nat
    BY <1>1, RangeType
  <1> HIDE DEF u
  <1>3. ASSUME NEW i \in DOMAIN u, i \notin 1 .. Len(s) PROVE u[i] \in Range(t)
    <2>1. i - Len(s) \in DOMAIN t /\ u[i] = t[i - Len(s)]
      BY <1>1, <1>2, <1>3
    <2> QED BY <2>1, Zenon DEF Range
  <1>4. ASSUME NEW i \in DOMAIN s PROVE i \in DOMAIN u /\ u[i] = s[i]
    BY <1>1, <1>2
  <1>5. ASSUME NEW i \in DOMAIN t PROVE \E j \in DOMAIN u : u[j] = t[i]
    <2>1. /\ Len(s) + i \in DOMAIN u /\ u[Len(s) + i] = t[i]
      BY <1>1, <1>2
    <2> QED BY <2>1, Zenon
  <1>6. Range(u) \subseteq Range(s) \cup Range(t)
    BY <1>2, <1>3, <1>4 DEF Range
  <1>7. Range(s) \subseteq Range(u) /\ Range(t) \subseteq Range(u)
    BY <1>4, <1>5 DEF Range
  <1> QED BY <1>1, <1>2, <1>3, <1>6, <1>7 DEF u

\* What FlattenSeq makes of the first n lists.
Joined(f, seqs, n) ==
  f = [k \in 1 .. n |-> IF k = 1 THEN seqs[k] ELSE f[k - 1] \o seqs[k]]

LEMMA JoinedExists ==
  ASSUME NEW seqs, NEW m \in Nat
  PROVE  \E f : Joined(f, seqs, m)
  <1> DEFINE T == {n \in Nat : \E f : Joined(f, seqs, n)}
  <1>1. 0 \in T
    <2>1. Joined([k \in 1 .. 0 |-> <<>>], seqs, 0)
      BY DEF Joined
    <2> QED BY <2>1
  <1>2. ASSUME NEW n \in Nat, n \in T PROVE n + 1 \in T
    <2>1. PICK f : Joined(f, seqs, n)
      BY <1>2
    <2> DEFINE new == IF n + 1 = 1 THEN seqs[n + 1] ELSE f[n] \o seqs[n + 1]
               g == [k \in 1 .. n + 1 |-> IF k = n + 1 THEN new ELSE f[k]]
    <2>2. /\ g[n + 1] = IF n + 1 = 1 THEN seqs[n + 1] ELSE g[n] \o seqs[n + 1]
          /\ \A k \in 1 .. n : g[k] = f[k]
      <3>1. g[n + 1] = new /\ \A k \in 1 .. n : g[k] = f[k]
        <4> HIDE DEF new
        <4> QED OBVIOUS
      <3>2. n + 1 # 1 => g[n] = f[n]
        <4>1. n + 1 # 1 => n \in 1 .. n
          OBVIOUS
        <4> HIDE DEF g
        <4> QED BY <3>1, <4>1
      <3> HIDE DEF g
      <3> QED BY <3>1, <3>2
    <2>3. ASSUME NEW k \in 1 .. n + 1
          PROVE  g[k] = IF k = 1 THEN seqs[k] ELSE g[k - 1] \o seqs[k]
      <3>1. CASE k = n + 1
        BY <2>2, <3>1
      <3>2. CASE k = 1 /\ k # n + 1
        BY <2>1, <2>2, <3>2 DEF Joined
      <3>3. CASE k # n + 1 /\ k # 1
        <4>1. k \in 1 .. n /\ k - 1 \in 1 .. n
          BY <3>3
        <4>2. f[k] = f[k - 1] \o seqs[k]
          BY <2>1, <3>3, <4>1 DEF Joined
        <4> QED BY <2>2, <3>3, <4>1, <4>2
      <3> QED BY <3>1, <3>2, <3>3
    <2>4. Joined(g, seqs, n + 1)
      <3>1. g = [k \in 1 .. n + 1 |-> g[k]]
        OBVIOUS
      <3> HIDE DEF g
      <3> QED BY <2>3, <3>1 DEF Joined
    <2>5. \E h : Joined(h, seqs, n + 1)
      <3> HIDE DEF g
      <3> QED BY <2>4
    <2> HIDE DEF g
    <2> QED BY <2>5
  <1>3. Nat \subseteq T
    <2> HIDE DEF T
    <2> QED BY <1>1, <1>2, SetInduction
  <1> QED BY <1>3

\* A list of lists, flattened, has the elements of the lists.
LEMMA FlattenRange ==
  ASSUME NEW S, NEW seqs \in Seq(Seq(S))
  PROVE  /\ FlattenSeq(seqs) \in Seq(S)
         /\ Range(FlattenSeq(seqs)) = UNION {Range(seqs[i]) : i \in DOMAIN seqs}
  <1> DEFINE l == Len(seqs)
  <1>1. l \in Nat /\ DOMAIN seqs = 1 .. l /\ \A i \in 1 .. l : seqs[i] \in Seq(S)
    BY RangeType, LenProperties
  <1>2. CASE l = 0
    <2>1. FlattenSeq(seqs) = seqs /\ seqs = <<>> /\ DOMAIN seqs = {}
      BY <1>1, <1>2, EmptySeq DEF FlattenSeq
    <2> QED BY <2>1 DEF Range
  <1>3. CASE l # 0
    <2> DEFINE f == CHOOSE h : Joined(h, seqs, l)
    <2>1. Joined(f, seqs, l)
      BY <1>1, JoinedExists
    <2>2. FlattenSeq(seqs) = f[l]
      BY <1>3, Zenon DEF FlattenSeq, Joined
    <2> DEFINE Right(n) ==
                 /\ f[n] \in Seq(S)
                 /\ Range(f[n]) = UNION {Range(seqs[i]) : i \in 1 .. n}
               T == {n \in Nat : n \in 1 .. l => Right(n)}
    <2> HIDE DEF l, f
    <2>3. 0 \in T
      <3> HIDE DEF Right
      <3> QED OBVIOUS
    <2>4. ASSUME NEW n \in Nat, n \in T, n + 1 \in 1 .. l PROVE Right(n + 1)
      <3>1. CASE n = 0
        <4>1. f[1] = seqs[1]
          BY <1>1, <1>3, <2>1 DEF Joined
        <4>2. 1 .. 1 = {1} /\ seqs[1] \in Seq(S)
          BY <1>1, <1>3
        <4>3. UNION {Range(seqs[i]) : i \in 1 .. 1} = Range(seqs[1])
          BY <4>2
        <4> QED BY <3>1, <4>1, <4>2, <4>3
      <3>2. CASE n # 0
        <4>1. Right(n)
          BY <1>1, <2>4, <3>2
        <4>2. f[n + 1] = f[n] \o seqs[n + 1]
          <5>1. n + 1 \in 1 .. l /\ n + 1 # 1 /\ (n + 1) - 1 = n
            BY <1>1, <2>4, <3>2
          <5> QED BY <2>1, <5>1 DEF Joined
        <4>3. 1 .. n + 1 = (1 .. n) \cup {n + 1} /\ seqs[n + 1] \in Seq(S)
          BY <1>1, <2>4
        <4>4. /\ f[n + 1] \in Seq(S)
              /\ Range(f[n + 1]) = Range(f[n]) \cup Range(seqs[n + 1])
          BY <4>1, <4>2, <4>3, RangeConcat
        <4>5. UNION {Range(seqs[i]) : i \in 1 .. n + 1}
                = (UNION {Range(seqs[i]) : i \in 1 .. n}) \cup Range(seqs[n + 1])
          BY <4>3
        <4> QED BY <4>1, <4>4, <4>5
      <3> QED BY <3>1, <3>2
    <2>5. Nat \subseteq T
      <3>1. \A n \in Nat : n \in T => n + 1 \in T
        <4> HIDE DEF Right
        <4> QED BY <2>4
      <3> HIDE DEF T
      <3> QED BY <2>3, <3>1, SetInduction
    <2>6. Right(l)
      <3> HIDE DEF Right
      <3> QED BY <1>1, <1>3, <2>5
    <2> QED BY <1>1, <2>2, <2>6
  <1> QED BY <1>2, <1>3

\* What a recursion over the first m numbers defines exists, step by step.
LEMMA Recursion ==
  ASSUME NEW V, NEW base \in V, NEW m \in Nat, NEW step \in [1 .. m -> [V -> V]]
  PROVE  \E f \in [0 .. m -> V] :
           f[0] = base /\ \A k \in 1 .. m : f[k] = step[k][f[k - 1]]
  <1> DEFINE Right(f, n) == /\ f \in [0 .. n -> V] /\ f[0] = base
                            /\ \A k \in 1 .. n : f[k] = step[k][f[k - 1]]
             T == {n \in Nat : n <= m => \E f : Right(f, n)}
  <1>1. 0 \in T
    <2>1. Right([k \in 0 .. 0 |-> base], 0)
      OBVIOUS
    <2> HIDE DEF Right
    <2> QED BY <2>1
  <1>2. ASSUME NEW n \in Nat, n \in T, n + 1 <= m PROVE \E f : Right(f, n + 1)
    <2>1. PICK f : Right(f, n)
      <3> HIDE DEF Right
      <3>1. n <= m
        BY <1>2
      <3> QED BY <1>2, <3>1
    <2> DEFINE new == step[n + 1][f[n]]
               g == [k \in 0 .. n + 1 |-> IF k = n + 1 THEN new ELSE f[k]]
    <2>2. n + 1 \in 1 .. m /\ f[n] \in V
      BY <1>2, <2>1
    <2>3. new \in V
      BY <2>2
    <2> HIDE DEF new
    <2>4. /\ g \in [0 .. n + 1 -> V] /\ g[n + 1] = new
          /\ \A k \in 0 .. n : g[k] = f[k]
      BY <2>1, <2>3
    <2> HIDE DEF g
    <2>5. ASSUME NEW k \in 1 .. n + 1 PROVE g[k] = step[k][g[k - 1]]
      <3>1. CASE k = n + 1
        <4>1. k - 1 = n /\ g[n] = f[n]
          BY <2>4, <3>1
        <4> QED BY <2>4, <3>1, <4>1 DEF new
      <3>2. CASE k # n + 1
        <4>1. k \in 1 .. n /\ k - 1 \in 0 .. n /\ k \in 0 .. n
          BY <3>2
        <4> QED BY <2>1, <2>4, <4>1
      <3> QED BY <3>1, <3>2
    <2>6. Right(g, n + 1)
      BY <2>1, <2>4, <2>5
    <2> HIDE DEF Right
    <2> QED BY <2>6
  <1>3. Nat \subseteq T
    <2>1. \A n \in Nat : n \in T => n + 1 \in T
      <3> HIDE DEF Right
      <3> QED BY <1>2
    <2> HIDE DEF T
    <2> QED BY <1>1, <2>1, SetInduction
  <1>4. \E f : Right(f, m)
    <2> HIDE DEF Right
    <2> QED BY <1>3
  <1> QED BY <1>4

LEMMA ListRecursion ==
  ASSUME NEW V, <<>> \in V, NEW m \in Nat, NEW step \in [1 .. m -> [V -> V]]
  PROVE  \E f \in [0 .. m -> V] :
           f[0] = <<>> /\ \A k \in 1 .. m : f[k] = step[k][f[k - 1]]
  <1> DEFINE empty == <<>>
  <1>1. empty \in V
    OBVIOUS
  <1> HIDE DEF empty
  <1>2. \E f \in [0 .. m -> V] :
          f[0] = empty /\ \A k \in 1 .. m : f[k] = step[k][f[k - 1]]
    BY <1>1, Recursion
  <1> QED BY <1>2 DEF empty

\* f holds the first n lists joined, for every n.
Flattened(f, seqs, S) ==
  /\ f \in [0 .. Len(seqs) -> Seq(S)]
  /\ f[0] = <<>> /\ FlattenSeq(seqs) = f[Len(seqs)]
  /\ \A n \in 1 .. Len(seqs) : f[n] = f[n - 1] \o seqs[n]

\* A flattened list of lists, as the lists are appended one by one.
LEMMA FlattenSteps ==
  ASSUME NEW S, NEW seqs \in Seq(Seq(S))
  PROVE  \E f : Flattened(f, seqs, S)
  <1> DEFINE l == Len(seqs)
             g == CHOOSE h : Joined(h, seqs, l)
  <1>1. l \in Nat /\ DOMAIN seqs = 1 .. l /\ \A i \in 1 .. l : seqs[i] \in Seq(S)
    BY RangeType, LenProperties
  <1>2. Joined(g, seqs, l)
    BY <1>1, JoinedExists
  <1>3. FlattenSeq(seqs) = IF l = 0 THEN seqs ELSE g[l]
    <2>1. l = 0 => seqs = <<>>
      BY <1>1, EmptySeq
    <2> QED BY <2>1, Zenon DEF FlattenSeq, Joined
  <1> HIDE DEF l, g
  <1> DEFINE step == [k \in 1 .. l |-> [s \in Seq(S) |-> s \o seqs[k]]]
  <1>4. \A s, t \in Seq(S) : s \o t \in Seq(S)
    OBVIOUS
  <1>5. step \in [1 .. l -> [Seq(S) -> Seq(S)]]
    BY <1>1, <1>4
  <1>6. \A s \in Seq(S), k \in 1 .. l : step[k][s] = s \o seqs[k]
    OBVIOUS
  <1> HIDE DEF step
  <1>7. PICK f \in [0 .. l -> Seq(S)] :
          f[0] = <<>> /\ \A k \in 1 .. l : f[k] = step[k][f[k - 1]]
    <2> DEFINE V == Seq(S)
    <2>1. <<>> \in V /\ step \in [1 .. l -> [V -> V]]
      BY <1>5
    <2> HIDE DEF V
    <2>2. \E f \in [0 .. l -> V] :
            f[0] = <<>> /\ \A k \in 1 .. l : f[k] = step[k][f[k - 1]]
      BY <1>1, <2>1, ListRecursion
    <2> QED BY <2>2, Zenon DEF V
  <1>8. ASSUME NEW k \in 1 .. l PROVE f[k] = f[k - 1] \o seqs[k]
    <2>1. k - 1 \in 0 .. l
      BY <1>1
    <2> QED BY <1>6, <1>7, <2>1
  <1> DEFINE T == {n \in Nat : n \in 1 .. l => g[n] = f[n]}
  <1>9. ASSUME NEW n \in Nat, n \in T PROVE n + 1 \in T
    <2>1. CASE n + 1 \in 1 .. l /\ n = 0
      <3>1. 1 \in 1 .. l /\ 1 - 1 = 0
        BY <2>1
      <3>2. g[1] = seqs[1] /\ f[1] = f[0] \o seqs[1] /\ seqs[1] \in Seq(S)
        BY <1>1, <1>2, <1>8, <3>1 DEF Joined
      <3>3. \A s \in Seq(S) : <<>> \o s = s
        OBVIOUS
      <3>4. g[1] = f[1]
        BY <1>7, <3>2, <3>3
      <3> QED BY <2>1, <3>4
    <2>2. CASE n + 1 \in 1 .. l /\ n # 0
      <3>1. n \in 1 .. l /\ (n + 1) - 1 = n /\ n + 1 # 1
        BY <1>1, <2>2
      <3>2. g[n + 1] = g[n] \o seqs[n + 1]
        BY <1>2, <2>2, <3>1 DEF Joined
      <3>3. f[n + 1] = f[n] \o seqs[n + 1] /\ g[n] = f[n]
        BY <1>8, <1>9, <2>2, <3>1
      <3>4. g[n + 1] = f[n + 1]
        BY <3>2, <3>3, Zenon
      <3> QED BY <3>4
    <2>3. CASE n + 1 \notin 1 .. l
      BY <2>3
    <2> QED BY <2>1, <2>2, <2>3
  <1>10. Nat \subseteq T
    <2>1. 0 \in T
      OBVIOUS
    <2> HIDE DEF T
    <2> QED BY <1>9, <2>1, SetInduction
  <1>11. FlattenSeq(seqs) = f[l]
    <2>1. CASE l = 0
      <3>1. seqs = <<>>
        BY <1>1, <2>1, EmptySeq DEF l
      <3> QED BY <1>3, <1>7, <2>1, <3>1
    <2>2. CASE l # 0
      <3>1. l \in T /\ l \in 1 .. l
        BY <1>1, <1>10, <2>2
      <3> QED BY <1>3, <2>2, <3>1
    <2> QED BY <2>1, <2>2
  <1>12. Flattened(f, seqs, S)
    BY <1>7, <1>8, <1>11 DEF l, Flattened
  <1> QED BY <1>12

-----------------------------------------------------------------------------
(* ServerVersion *)

\* What Value makes of the first n digits.
Summed(f, digits, n) ==
  f = [k \in 0 .. n |-> IF k = 0 THEN 0 ELSE 10 * f[k - 1] + digits[k]]

LEMMA SummedExists ==
  ASSUME NEW digits, NEW m \in Nat
  PROVE  \E f : Summed(f, digits, m)
  <1> DEFINE T == {n \in Nat : \E f : Summed(f, digits, n)}
             Add(v, d) == 10 * v + d
  <1>0. \A f, n : Summed(f, digits, n)
                  <=> f = [k \in 0 .. n |-> IF k = 0 THEN 0 ELSE Add(f[k - 1], digits[k])]
    BY DEF Summed
  <1> HIDE DEF Add
  <1>1. 0 \in T
    <2>1. Summed([k \in 0 .. 0 |-> 0], digits, 0)
      BY DEF Summed
    <2> QED BY <2>1
  <1>2. ASSUME NEW n \in Nat, n \in T PROVE n + 1 \in T
    <2>1. PICK f : Summed(f, digits, n)
      BY <1>2
    <2> DEFINE g == [k \in 0 .. n + 1 |-> IF k = n + 1 THEN Add(f[n], digits[k]) ELSE f[k]]
    <2>2. /\ g[n + 1] = Add(g[n], digits[n + 1])
          /\ \A k \in 0 .. n : g[k] = f[k]
      OBVIOUS
    <2>3. ASSUME NEW k \in 0 .. n + 1
          PROVE  g[k] = IF k = 0 THEN 0 ELSE Add(g[k - 1], digits[k])
      <3>1. CASE k = n + 1
        BY <2>2, <3>1
      <3>2. CASE k = 0
        BY <1>0, <2>1, <2>2, <3>2
      <3>3. CASE k # n + 1 /\ k # 0
        <4>1. k \in 0 .. n /\ k - 1 \in 0 .. n
          BY <3>3
        <4>2. f[k] = Add(f[k - 1], digits[k])
          BY <1>0, <2>1, <3>3, <4>1
        <4> QED BY <2>2, <3>3, <4>1, <4>2
      <3> QED BY <3>1, <3>2, <3>3
    <2>4. Summed(g, digits, n + 1)
      <3>1. g = [k \in 0 .. n + 1 |-> g[k]]
        OBVIOUS
      <3> HIDE DEF g
      <3>2. Summed(g, digits, n + 1)
              <=> g = [k \in 0 .. n + 1 |-> IF k = 0 THEN 0 ELSE Add(g[k - 1], digits[k])]
        BY <1>0
      <3> QED BY <2>3, <3>1, <3>2
    <2>5. \E h : Summed(h, digits, n + 1)
      <3> HIDE DEF g
      <3> QED BY <2>4
    <2> HIDE DEF g
    <2> QED BY <2>5
  <1>3. Nat \subseteq T
    <2> HIDE DEF T
    <2> QED BY <1>1, <1>2, SetInduction
  <1> QED BY <1>3

\* A number, and for one or two digits the number they are.
LEMMA ValueOf ==
  ASSUME NEW digits \in Seq(0 .. 9)
  PROVE  /\ Version!Value(digits) \in Nat
         /\ Len(digits) = 1 => Version!Value(digits) = digits[1]
         /\ Len(digits) = 2 => Version!Value(digits) = 10 * digits[1] + digits[2]
  <1> DEFINE l == Len(digits)
             f == CHOOSE h : Summed(h, digits, l)
  <1>1. l \in Nat /\ \A k \in 1 .. l : digits[k] \in 0 .. 9
    BY LenProperties
  <1>2. Summed(f, digits, l)
    BY <1>1, SummedExists
  <1>3. Version!Value(digits) = f[l]
    BY Zenon DEF Version!Value, Summed
  <1> HIDE DEF f
  <1>4. f[0] = 0 /\ \A k \in 1 .. l : f[k] = 10 * f[k - 1] + digits[k]
    <2>1. \A k \in 0 .. l : f[k] = IF k = 0 THEN 0 ELSE 10 * f[k - 1] + digits[k]
      BY <1>2 DEF Summed
    <2> HIDE DEF l
    <2> QED BY <1>1, <2>1
  <1> DEFINE T == {n \in Nat : n <= l => f[n] \in Nat}
  <1>5. 0 \in T
    BY <1>4
  <1> HIDE DEF l
  <1>6. ASSUME NEW n \in Nat, n \in T PROVE n + 1 \in T
    <2>1. CASE n + 1 <= l
      <3>1. n + 1 \in 1 .. l /\ n <= l /\ (n + 1) - 1 = n
        BY <1>1, <2>1
      <3>2. f[n] \in Nat /\ f[n + 1] = 10 * f[n] + digits[n + 1]
        BY <1>4, <1>6, <3>1
      <3>3. \A a \in Nat, b \in 0 .. 9 : 10 * a + b \in Nat
        OBVIOUS
      <3>4. f[n + 1] \in Nat
        BY <1>1, <3>1, <3>2, <3>3
      <3> QED BY <3>4
    <2>2. CASE ~(n + 1 <= l)
      BY <2>2
    <2> QED BY <2>1, <2>2
  <1>7. f[l] \in Nat
    <2>1. Nat \subseteq T
      <3> HIDE DEF T
      <3> QED BY <1>5, <1>6, SetInduction
    <2> QED BY <1>1, <2>1
  <1>8. ASSUME l = 1 PROVE f[l] = digits[1]
    BY <1>1, <1>4, <1>8
  <1>9. ASSUME l = 2 PROVE f[l] = 10 * digits[1] + digits[2]
    <2>1. f[1] = digits[1] /\ f[2] = 10 * f[1] + digits[2]
      BY <1>1, <1>4, <1>9
    <2> QED BY <1>9, <2>1
  <1> QED BY <1>3, <1>7, <1>8, <1>9 DEF l

\* What a text is made of.
VersionToken == [kind : {"number"}, digits : Seq(0 .. 9) \ {<<>>}]
                \cup {Version!Dot, Version!Other}

LEMMA PrintedIs ==
  ASSUME NEW n \in 0 .. 99
  PROVE  /\ Version!Printed(n) \in VersionToken
         /\ Version!Printed(n).kind = "number"
         /\ Version!Value(Version!Printed(n).digits) = n
  <1>1. CASE n < 10
    <2>1. Version!Printed(n) = [kind |-> "number", digits |-> <<n>>]
      BY <1>1 DEF Version!Printed, Version!Number
    <2>2. <<n>> \in Seq(0 .. 9) /\ Len(<<n>>) = 1 /\ <<n>>[1] = n /\ <<n>> # <<>>
      BY <1>1
    <2>3. Version!Value(<<n>>) = n
      BY <2>2, ValueOf
    <2> QED BY <2>1, <2>2, <2>3 DEF VersionToken
  <1>2. CASE ~(n < 10)
    <2> DEFINE s == <<n \div 10, n % 10>>
    <2>1. Version!Printed(n) = [kind |-> "number", digits |-> s]
      BY <1>2 DEF Version!Printed, Version!Number
    <2>2. s \in Seq(0 .. 9) /\ Len(s) = 2 /\ s[1] = n \div 10 /\ s[2] = n % 10 /\ s # <<>>
      <3>1. n \div 10 \in 0 .. 9 /\ n % 10 \in 0 .. 9
        BY <1>2
      <3> QED BY <3>1
    <2> HIDE DEF s
    <2>3. Version!Value(s) = 10 * (n \div 10) + (n % 10)
      BY <2>2, ValueOf
    <2>4. 10 * (n \div 10) + (n % 10) = n
      OBVIOUS
    <2> QED BY <2>1, <2>2, <2>3, <2>4 DEF VersionToken
  <1> QED BY <1>1, <1>2

LEMMA TokenKinds ==
  /\ Version!Dot \in VersionToken /\ Version!Other \in VersionToken
  /\ Version!Dot.kind = "dot" /\ Version!Other.kind = "other"
  /\ \A t \in VersionToken :
       t.kind = "number" => t.digits \in Seq(0 .. 9) /\ t.digits # <<>>
  BY DEF VersionToken, Version!Dot, Version!Other

\* The leftmost match, if there is one.
LEMMA FindStringIs ==
  ASSUME NEW t \in Seq(VersionToken)
  PROVE  LET hits == {k \in 1 .. Len(t) : Version!Matches(t, k)}
         IN  /\ hits = {} => Version!FindString(t) = 0
             /\ hits # {} => /\ Version!FindString(t) \in hits
                             /\ \A k \in hits : Version!FindString(t) <= k
  <1> DEFINE hits == {k \in 1 .. Len(t) : Version!Matches(t, k)}
             places == [k \in DOMAIN t |-> k]
  <1>1. /\ Len(t) \in Nat /\ DOMAIN t = 1 .. Len(t) /\ Len(places) = Len(t)
        /\ \A k \in 1 .. Len(t) : places[k] = k
    BY LenProperties
  <1>2. {i \in 1 .. Len(places) : Version!Matches(t, places[i])} = hits
    <2> HIDE DEF places
    <2> QED BY <1>1
  <1>3. Version!FindString(t) = IF hits # {} THEN Version!Min(hits) ELSE 0
    <2>1. Version!FindString(t)
            = LET found == {i \in 1 .. Len(places) : Version!Matches(t, places[i])}
              IN  IF found # {} THEN Version!Min(found) ELSE 0
      BY Zenon DEF Version!FindString, Version!SelectInSeq
    <2> HIDE DEF hits, places
    <2> QED BY <1>2, <2>1
  <1>4. ASSUME hits # {}
        PROVE  Version!Min(hits) \in hits /\ \A k \in hits : Version!Min(hits) <= k
    <2>1. hits \in SUBSET Nat
      BY <1>1
    <2> HIDE DEF hits
    <2>2. \E x \in hits : \A y \in hits : x <= y
      BY <1>4, <2>1, LeastElement
    <2> QED BY <2>2 DEF Version!Min
  <1> HIDE DEF hits
  <1>5. /\ hits = {} => Version!FindString(t) = 0
        /\ hits # {} => /\ Version!FindString(t) \in hits
                        /\ \A k \in hits : Version!FindString(t) <= k
    BY <1>3, <1>4
  <1> QED BY <1>5 DEF hits

\* A packaged text begins with the plain one; what follows begins with a blank.
LEMMA PackagedBegins ==
  ASSUME NEW plain \in Seq(VersionToken), NEW text \in Version!Packaged(plain)
  PROVE  /\ text \in Seq(VersionToken) /\ Len(plain) <= Len(text)
         /\ \A k \in 1 .. Len(plain) : text[k] = plain[k]
         /\ Len(plain) < Len(text) => text[Len(plain) + 1] = Version!Other
  <1>1. CASE text = plain
    BY <1>1, LenProperties
  <1>2. ASSUME NEW package \in Version!Package(plain), text = plain \o package
        PROVE  /\ text \in Seq(VersionToken) /\ Len(plain) <= Len(text)
               /\ \A k \in 1 .. Len(plain) : text[k] = plain[k]
               /\ Len(plain) < Len(text) => text[Len(plain) + 1] = Version!Other
    <2> DEFINE other == Version!Other
               ends == <<other, Version!Number(<<2>>), Version!Dot, other>>
               upTo == <<other>> \o plain \o ends
               tail1 == <<Version!Number(<<1, 2, 0>>), other>>
               tail2 == <<Version!Number(<<1, 6>>), Version!Dot,
                          Version!Number(<<0, 4>>), other>>
    <2>1. package = upTo \o tail1 \/ package = upTo \o tail2
      BY DEF Version!Package
    <2>2. \A d \in Seq(0 .. 9) \ {<<>>} : Version!Number(d) \in VersionToken
      BY DEF Version!Number, VersionToken
    <2>3. /\ <<2>> \in Seq(0 .. 9) \ {<<>>} /\ <<1, 2, 0>> \in Seq(0 .. 9) \ {<<>>}
          /\ <<1, 6>> \in Seq(0 .. 9) \ {<<>>} /\ <<0, 4>> \in Seq(0 .. 9) \ {<<>>}
      OBVIOUS
    <2>4. \A a, b, c, d \in VersionToken :
            /\ <<a, b, c, d>> \in Seq(VersionToken) /\ <<a, b>> \in Seq(VersionToken)
            /\ <<a>> \in Seq(VersionToken) /\ Len(<<a>>) > 0 /\ <<a>>[1] = a
      OBVIOUS
    <2>5. /\ ends \in Seq(VersionToken) /\ tail1 \in Seq(VersionToken)
          /\ tail2 \in Seq(VersionToken) /\ <<other>> \in Seq(VersionToken)
          /\ Len(<<other>>) > 0 /\ <<other>>[1] = other
      BY <2>2, <2>3, <2>4, TokenKinds, Zenon
    <2>6. \A a, b \in Seq(VersionToken) :
            Len(a) > 0 => /\ a \o b \in Seq(VersionToken)
                          /\ Len(a \o b) > 0 /\ (a \o b)[1] = a[1]
      OBVIOUS
    <2> HIDE DEF ends, tail1, tail2, other
    <2>7. package \in Seq(VersionToken) /\ Len(package) > 0 /\ package[1] = other
      <3>1. /\ upTo \in Seq(VersionToken) /\ Len(upTo) > 0 /\ upTo[1] = other
        BY <2>5, <2>6
      <3> HIDE DEF upTo
      <3>2. ASSUME NEW t \in {tail1, tail2}
            PROVE  /\ upTo \o t \in Seq(VersionToken)
                   /\ Len(upTo \o t) > 0 /\ (upTo \o t)[1] = other
        BY <2>5, <2>6, <3>1
      <3>3. package \in {upTo \o t : t \in {tail1, tail2}}
        BY <2>1
      <3> QED BY <3>2, <3>3
    <2>8. /\ text \in Seq(VersionToken) /\ Len(text) = Len(plain) + Len(package)
          /\ \A k \in 1 .. Len(plain) : text[k] = plain[k]
          /\ text[Len(plain) + 1] = package[1]
      BY <1>2, <2>7
    <2> QED BY <2>7, <2>8, LenProperties DEF other
  <1> QED BY <1>1, <1>2 DEF Version!Packaged

\* The plain text of a release is its numbers with dots in between.
LEMMA DottedIs ==
  ASSUME PartsAssumption, NEW r \in Releases
  PROVE  /\ Version!Dotted(r) \in Seq(VersionToken)
         /\ Len(r) \in Nat /\ Len(r) > 1 /\ Len(Version!Dotted(r)) = 2 * Len(r) - 1
         /\ r[1] \in 0 .. 99 /\ r[2] \in 0 .. 99
         /\ Version!Dotted(r)[1] = Version!Printed(r[1])
         /\ Version!Dotted(r)[2] = Version!Dot
         /\ Version!Dotted(r)[3] = Version!Printed(r[2])
         /\ Len(r) > 2 => /\ r[3] \in 0 .. 99
                          /\ Version!Dotted(r)[4] = Version!Dot
                          /\ Version!Dotted(r)[5] = Version!Printed(r[3])
  <1> DEFINE l == Len(r)
             At(k) == IF k % 2 = 0 THEN Version!Dot
                      ELSE Version!Printed(r[(k + 1) \div 2])
             s == [k \in 1 .. 2 * l - 1 |-> At(k)]
  <1>1. l \in Nat /\ l > 1 /\ \A k \in 1 .. l : r[k] \in 0 .. 99
    BY PartsAssumption, LenProperties DEF Version!VersionAssumption
  <1>2. Version!Dotted(r) = s
    BY DEF Version!Dotted
  <1> HIDE DEF l
  <1>3. ASSUME NEW k \in 1 .. 2 * l - 1 PROVE At(k) \in VersionToken
    <2>1. CASE k % 2 = 0
      BY <2>1, TokenKinds
    <2>2. CASE k % 2 # 0
      <3>1. (k + 1) \div 2 \in 1 .. l
        BY <1>1, <2>2
      <3>2. At(k) = Version!Printed(r[(k + 1) \div 2])
        BY <2>2
      <3> HIDE DEF At
      <3> QED BY <1>1, <3>1, <3>2, PrintedIs
    <2> QED BY <2>1, <2>2
  <1>4. /\ At(1) = Version!Printed(r[1]) /\ At(2) = Version!Dot
        /\ At(3) = Version!Printed(r[2]) /\ At(4) = Version!Dot
        /\ At(5) = Version!Printed(r[3])
    <2>1. /\ 1 % 2 = 1 /\ 2 % 2 = 0 /\ 3 % 2 = 1 /\ 4 % 2 = 0 /\ 5 % 2 = 1
          /\ (1 + 1) \div 2 = 1 /\ (3 + 1) \div 2 = 2 /\ (5 + 1) \div 2 = 3
      OBVIOUS
    <2> QED BY <2>1
  <1> HIDE DEF At
  <1>5. s \in Seq(VersionToken) /\ Len(s) = 2 * l - 1
    <2>1. 2 * l - 1 \in Nat
      BY <1>1
    <2> QED BY <1>3, <2>1, IsASeq
  <1>6. /\ s[1] = At(1) /\ s[2] = At(2) /\ s[3] = At(3)
        /\ l > 2 => s[4] = At(4) /\ s[5] = At(5)
    BY <1>1
  <1> HIDE DEF s
  <1>7. /\ 1 \in 1 .. l /\ 2 \in 1 .. l /\ (l > 2 => 3 \in 1 .. l)
    BY <1>1
  <1> QED BY <1>1, <1>2, <1>4, <1>5, <1>6, <1>7 DEF l

\* A match parses as a version with a patch level of one digit.
LEMMA ParseType ==
  ASSUME NEW t \in Seq(VersionToken), NEW k \in 1 .. Len(t), Version!Matches(t, k)
  PROVE  /\ Version!Parse(t, k)
              = <<Version!Value(t[k].digits), Version!Value(t[k + 2].digits),
                  Version!Patch(t, k)>>
         /\ Version!Value(t[k].digits) \in Nat
         /\ Version!Value(t[k + 2].digits) \in Nat
         /\ Version!Patch(t, k) \in 0 .. 9
  <1>1. DOMAIN t = 1 .. Len(t) /\ \A j \in DOMAIN t : t[j] \in VersionToken
    BY LenProperties
  <1>2. /\ k \in DOMAIN t /\ t[k].kind = "number"
        /\ k + 2 \in DOMAIN t /\ t[k + 2].kind = "number"
    BY DEF Version!Matches, Version!IsAt
  <1>3. t[k].digits \in Seq(0 .. 9) /\ t[k + 2].digits \in Seq(0 .. 9)
    BY <1>1, <1>2, TokenKinds
  <1>4. Version!Patch(t, k) \in 0 .. 9
    <2>1. CASE Version!IsAt(t, k + 3, "dot") /\ Version!IsAt(t, k + 4, "number")
      <3>1. k + 4 \in DOMAIN t /\ t[k + 4].kind = "number"
        BY <2>1 DEF Version!IsAt
      <3>2. t[k + 4].digits \in Seq(0 .. 9) /\ t[k + 4].digits # <<>>
        BY <1>1, <3>1, TokenKinds
      <3>3. Head(t[k + 4].digits) \in 0 .. 9
        BY <3>2, HeadTailProperties
      <3>4. Version!Patch(t, k) = Head(t[k + 4].digits)
        BY <2>1 DEF Version!Patch
      <3> QED BY <3>3, <3>4
    <2>2. CASE ~(Version!IsAt(t, k + 3, "dot") /\ Version!IsAt(t, k + 4, "number"))
      BY <2>2 DEF Version!Patch
    <2> QED BY <2>1, <2>2
  <1> QED BY <1>3, <1>4, ValueOf DEF Version!Parse

\* However it is packaged, a release is found at the head of the text.
LEMMA ReleasedText ==
  ASSUME PartsAssumption, NEW r \in Releases,
         NEW text \in Version!Packaged(Version!Dotted(r))
  PROVE  /\ text \in Seq(VersionToken) /\ Version!FindString(text) = 1
         /\ 1 \in 1 .. Len(text) /\ Version!Matches(text, 1)
         /\ Version!Parse(text, 1) = <<r[1], r[2], Version!Patch(text, 1)>>
  <1> DEFINE plain == Version!Dotted(r)
  <1>1. /\ plain \in Seq(VersionToken) /\ Len(plain) \in Nat /\ Len(plain) > 2
        /\ plain[1] = Version!Printed(r[1]) /\ plain[2] = Version!Dot
        /\ plain[3] = Version!Printed(r[2])
        /\ r[1] \in 0 .. 99 /\ r[2] \in 0 .. 99
    BY DottedIs
  <1> HIDE DEF plain
  <1>2. /\ text \in Seq(VersionToken) /\ Len(plain) <= Len(text)
        /\ \A k \in 1 .. Len(plain) : text[k] = plain[k]
    BY <1>1, PackagedBegins DEF plain
  <1>3. /\ Len(text) \in Nat /\ DOMAIN text = 1 .. Len(text)
    BY <1>2, LenProperties
  <1>4. /\ 1 \in DOMAIN text /\ 1 + 1 \in DOMAIN text /\ 1 + 2 \in DOMAIN text
        /\ text[1] = Version!Printed(r[1]) /\ text[1 + 1] = Version!Dot
        /\ text[1 + 2] = Version!Printed(r[2])
    BY <1>1, <1>2, <1>3
  <1>5. Version!Matches(text, 1)
    BY <1>1, <1>4, PrintedIs, TokenKinds DEF Version!Matches, Version!IsAt
  <1>6. Version!FindString(text) = 1
    <2> DEFINE hits == {k \in 1 .. Len(text) : Version!Matches(text, k)}
    <2>1. 1 \in hits
      BY <1>3, <1>4, <1>5
    <2>2. /\ Version!FindString(text) \in hits
          /\ \A k \in hits : Version!FindString(text) <= k
      <3> HIDE DEF hits
      <3>1. hits # {}
        BY <2>1
      <3> QED BY <1>2, <3>1, FindStringIs DEF hits
    <2>3. \A k \in hits : k \in 1 .. Len(text)
      OBVIOUS
    <2> HIDE DEF hits
    <2> QED BY <1>3, <2>1, <2>2, <2>3
  <1>7. Version!Parse(text, 1) = <<r[1], r[2], Version!Patch(text, 1)>>
    BY <1>1, <1>4, PrintedIs DEF Version!Parse
  <1> QED BY <1>2, <1>3, <1>4, <1>5, <1>6, <1>7

\* A version that is not released has no match but in the package's version.
LEMMA UnreleasedText ==
  ASSUME PartsAssumption, NEW n \in Majors, NEW plain \in Version!Unreleased(n),
         NEW text \in Version!Packaged(plain)
  PROVE  /\ text \in Seq(VersionToken)
         /\ \A k \in 1 .. Len(text) : Version!Matches(text, k) => k > Len(plain)
  <1>1. n \in 0 .. 99
    BY PartsAssumption DEF Version!VersionAssumption
  <1>2. /\ plain \in Seq(VersionToken) /\ Len(plain) \in {2, 3}
        /\ plain[2] = Version!Other
    <2>1. Version!Printed(n) \in VersionToken /\ Version!Other \in VersionToken
      BY <1>1, PrintedIs, TokenKinds
    <2>2. Version!Number(<<1>>) \in VersionToken
      BY DEF Version!Number, VersionToken
    <2>3. \A a, b, c \in VersionToken :
            /\ <<a, b>> \in Seq(VersionToken) /\ Len(<<a, b>>) = 2 /\ <<a, b>>[2] = b
            /\ <<a, b, c>> \in Seq(VersionToken) /\ Len(<<a, b, c>>) = 3
            /\ <<a, b, c>>[2] = b
      OBVIOUS
    <2>4. \/ plain = <<Version!Printed(n), Version!Other>>
          \/ plain = <<Version!Printed(n), Version!Other, Version!Number(<<1>>)>>
      BY DEF Version!Unreleased
    <2>5. CASE plain = <<Version!Printed(n), Version!Other>>
      <3>1. /\ plain \in Seq(VersionToken) /\ Len(plain) = 2
            /\ plain[2] = Version!Other
        BY <2>1, <2>3, <2>5, Zenon
      <3> QED BY <3>1
    <2>6. CASE plain = <<Version!Printed(n), Version!Other, Version!Number(<<1>>)>>
      <3>1. /\ plain \in Seq(VersionToken) /\ Len(plain) = 3
            /\ plain[2] = Version!Other
        BY <2>1, <2>2, <2>3, <2>6, Zenon
      <3> QED BY <3>1
    <2> QED BY <2>4, <2>5, <2>6
  <1>3. /\ text \in Seq(VersionToken) /\ Len(plain) <= Len(text)
        /\ \A k \in 1 .. Len(plain) : text[k] = plain[k]
        /\ Len(plain) < Len(text) => text[Len(plain) + 1] = Version!Other
    BY <1>2, PackagedBegins
  <1>4. Len(text) \in Nat /\ DOMAIN text = 1 .. Len(text)
    BY <1>3, LenProperties
  <1>5. ASSUME NEW k \in 1 .. Len(text), Version!Matches(text, k), ~(k > Len(plain))
        PROVE  FALSE
    <2>1. /\ text[k].kind = "number"
          /\ k + 1 \in 1 .. Len(text) /\ text[k + 1].kind = "dot"
      BY <1>4, <1>5 DEF Version!Matches, Version!IsAt
    <2>2. text[2] = Version!Other
      BY <1>2, <1>3
    <2>3. k # 1 /\ k # 2
      BY <2>1, <2>2, TokenKinds
    <2>4. k = 3 /\ Len(plain) = 3
      <3>1. k \in Nat \ {0} /\ Len(plain) \in {2, 3} /\ ~(k > Len(plain))
        BY <1>2, <1>4, <1>5
      <3>2. \A a \in Nat \ {0}, b \in {2, 3} :
              ~(a > b) /\ a # 1 /\ a # 2 => a = 3 /\ b = 3
        OBVIOUS
      <3> QED BY <2>3, <3>1, <3>2, Zenon
    <2>5. text[k + 1] = Version!Other
      BY <1>3, <1>4, <2>1, <2>4
    <2> QED BY <2>1, <2>5, TokenKinds
  <1>6. Len(plain) \in Nat
    BY <1>2
  <1> QED BY <1>3, <1>5

\* What is asked and what was answered; once it is read, the leftmost match.
VersionInv ==
  /\ v_state \in {"asked", "version", "error"}
  /\ v_text \in Version!Packaged(v_plain)
  /\ \/ v_server \in Releases /\ v_plain = Version!Dotted(v_server)
     \/ \E n \in Majors : v_server = <<n>> /\ v_plain \in Version!Unreleased(n)
  /\ v_state # "version" => v_version = Version!NoVersion
  /\ v_state = "error" => Version!FindString(v_text) = 0
  /\ v_state = "version" =>
       /\ Version!FindString(v_text) # 0
       /\ v_version = Version!Parse(v_text, Version!FindString(v_text))

LEMMA VersionInit ==
  ASSUME Version!Init PROVE VersionInv
  BY DEF Version!Init, VersionInv

LEMMA VersionNext ==
  ASSUME VersionInv, [Version!Next]_(Version!vars)
  PROVE  VersionInv'
  <1>1. CASE Version!CollectVersion
    <2>1. /\ UNCHANGED <<v_server, v_plain, v_text>> /\ v_state = "asked"
          /\ \/ /\ Version!FindString(v_text) = 0
                /\ v_state' = "error" /\ v_version' = v_version
             \/ /\ Version!FindString(v_text) # 0 /\ v_state' = "version"
                /\ v_version' = Version!Parse(v_text, Version!FindString(v_text))
      BY <1>1 DEF Version!CollectVersion
    <2> QED BY <2>1 DEF VersionInv
  <1>2. CASE UNCHANGED Version!vars
    BY <1>2 DEF VersionInv, Version!vars
  <1> QED BY <1>1, <1>2 DEF Version!Next

\* The patch level decides nothing: no boundary has one.
LEMMA SameChoices ==
  ASSUME NEW v, NEW w, v[1] = w[1], v[2] = w[2], v[1] \in Nat, v[2] \in Nat,
         v[3] \in Nat, w[3] \in Nat
  PROVE  Version!QueryChoices(v) = Version!QueryChoices(w)
  <1>1. ASSUME NEW b \in Version!Boundaries
        PROVE  Version!GE(v, b) <=> Version!GE(w, b)
    <2>1. b[1] \in Nat /\ b[2] \in Nat /\ b[3] = 0
      BY DEF Version!Boundaries
    <2>2. v[3] >= b[3] /\ w[3] >= b[3]
      BY <2>1
    <2> QED BY <2>2, Zenon DEF Version!GE
  <1>2. {b \in Version!Boundaries : Version!GE(v, b)}
          = {b \in Version!Boundaries : Version!GE(w, b)}
    BY <1>1
  <1> QED BY <1>2, Zenon DEF Version!QueryChoices

LEMMA VersionMeans ==
  ASSUME PartsAssumption, VersionInv
  PROVE  Version!VersionIsUnderstood /\ Version!TypeOK
  <1>1. CASE v_server \in Releases /\ v_plain = Version!Dotted(v_server)
    <2> DEFINE patch == Version!Patch(v_text, 1)
    <2>1. /\ v_text \in Seq(VersionToken) /\ Version!FindString(v_text) = 1
          /\ Version!Parse(v_text, 1) = <<v_server[1], v_server[2], patch>>
          /\ patch \in 0 .. 9
      BY <1>1, ReleasedText, ParseType DEF VersionInv
    <2>2. /\ Len(v_server) \in Nat /\ Len(v_server) > 1
          /\ v_server[1] \in Nat /\ v_server[2] \in Nat
          /\ \A k \in 1 .. Len(v_server) : v_server[k] \in Nat
      <3>1. v_server \in Seq(0 .. 99) /\ Len(v_server) > 1
        BY <1>1, PartsAssumption DEF Version!VersionAssumption
      <3>2. /\ Len(v_server) \in Nat
            /\ \A k \in 1 .. Len(v_server) : v_server[k] \in 0 .. 99
        BY <3>1, LenProperties
      <3>3. \A x \in 0 .. 99 : x \in Nat
        OBVIOUS
      <3>4. \A k \in 1 .. Len(v_server) : v_server[k] \in Nat
        BY <3>2, <3>3, Zenon
      <3>5. 1 \in 1 .. Len(v_server) /\ 2 \in 1 .. Len(v_server)
        BY <3>1, <3>2
      <3> QED BY <3>1, <3>2, <3>4, <3>5, Zenon
    <2>3. v_state # "asked" =>
            v_state = "version" /\ v_version = <<v_server[1], v_server[2], patch>>
      BY <2>1 DEF VersionInv
    <2> HIDE DEF patch
    <2>4. Version!ReleaseIsRecognised
      BY <2>3 DEF Version!ReleaseIsRecognised
    <2>5. Version!ChoicesFitServer
      <3> DEFINE full == Version!Full(v_server)
      <3>1. full[1] = v_server[1] /\ full[2] = v_server[2] /\ full[3] \in Nat
        <4>1. \A k \in 1 .. 3 :
                full[k] = IF k <= Len(v_server) THEN v_server[k] ELSE 0
          BY DEF Version!Full
        <4> HIDE DEF full
        <4>2. full[1] = v_server[1] /\ full[2] = v_server[2]
          BY <2>2, <4>1
        <4>3. full[3] = IF 3 <= Len(v_server) THEN v_server[3] ELSE 0
          BY <4>1
        <4>4. 3 <= Len(v_server) => v_server[3] \in Nat
          <5>1. 3 <= Len(v_server) => 3 \in 1 .. Len(v_server)
            BY <2>2
          <5> QED BY <2>2, <5>1, Zenon
        <4> QED BY <4>2, <4>3, <4>4
      <3> HIDE DEF full
      <3>2. ASSUME v_state = "version"
            PROVE  Version!QueryChoices(v_version) = Version!QueryChoices(full)
        <4>1. /\ v_version[1] = v_server[1] /\ v_version[2] = v_server[2]
              /\ v_version[3] = patch
          BY <2>3, <3>2
        <4>2. /\ v_server[1] \in Nat /\ v_server[2] \in Nat /\ patch \in Nat
          <5>1. \A x \in 0 .. 9 : x \in Nat
            OBVIOUS
          <5> QED BY <2>1, <2>2, <5>1, Zenon
        <4> QED BY <3>1, <4>1, <4>2, SameChoices
      <3> QED BY <3>2 DEF full, Version!ChoicesFitServer
    <2>6. Version!UnreleasedIsRefused
      BY <2>2 DEF Version!UnreleasedIsRefused, Version!Released
    <2>7. Version!TypeOK
      <3>1. v_version \in Nat \X Nat \X (0 .. 9)
        <4>1. CASE v_state = "asked"
          BY <4>1 DEF VersionInv, Version!NoVersion
        <4>2. CASE v_state # "asked"
          BY <2>1, <2>2, <2>3, <4>2
        <4> QED BY <4>1, <4>2
      <3> QED BY <1>1, <3>1 DEF VersionInv, Version!TypeOK
    <2> QED BY <2>4, <2>5, <2>6, <2>7 DEF Version!VersionIsUnderstood
  <1>2. ASSUME NEW n \in Majors, v_server = <<n>>, v_plain \in Version!Unreleased(n)
        PROVE  Version!VersionIsUnderstood /\ Version!TypeOK
    <2> DEFINE k == Version!FindString(v_text)
    <2>1. ~Version!Released
      BY <1>2 DEF Version!Released
    <2>2. /\ v_text \in Seq(VersionToken)
          /\ \A j \in 1 .. Len(v_text) : Version!Matches(v_text, j) => j > Len(v_plain)
      BY <1>2, UnreleasedText DEF VersionInv
    <2>3. ASSUME v_state = "version"
          PROVE  /\ k \in 1 .. Len(v_text) /\ Version!Matches(v_text, k)
                 /\ k \in DOMAIN v_text /\ v_version = Version!Parse(v_text, k)
      <3> DEFINE hits == {j \in 1 .. Len(v_text) : Version!Matches(v_text, j)}
      <3>1. k # 0 /\ v_version = Version!Parse(v_text, k)
        BY <2>3 DEF VersionInv
      <3>2. k \in hits
        <4> HIDE DEF hits, k
        <4>1. /\ hits = {} => k = 0
              /\ hits # {} => k \in hits
          BY <2>2, FindStringIs DEF hits, k
        <4> QED BY <3>1, <4>1
      <3> QED BY <2>2, <3>1, <3>2, LenProperties
    <2> HIDE DEF k
    <2>4. Version!UnreleasedIsRefused
      BY <2>2, <2>3 DEF Version!UnreleasedIsRefused
    <2>5. Version!TypeOK
      <3>1. v_version \in Nat \X Nat \X (0 .. 9)
        <4>1. CASE v_state = "version"
          BY <2>2, <2>3, <4>1, ParseType
        <4>2. CASE v_state # "version"
          BY <4>2 DEF VersionInv, Version!NoVersion
        <4> QED BY <4>1, <4>2
      <3> QED BY <1>2, <3>1 DEF VersionInv, Version!TypeOK
    <2> QED BY <2>1, <2>4, <2>5
          DEF Version!VersionIsUnderstood, Version!ReleaseIsRecognised,
              Version!ChoicesFitServer
  <1> QED BY <1>1, <1>2 DEF VersionInv

-----------------------------------------------------------------------------
(* QueryParameters *)

LEMMA MinOfTwo ==
  ASSUME NEW a \in Int, NEW b \in Int
  PROVE  Parameters!Min({a, b}) = IF a <= b THEN a ELSE b
  <1>1. CASE a <= b
    <2>1. /\ a \in {a, b} /\ \A y \in {a, b} : a <= y
          /\ \A x \in {a, b} : (\A y \in {a, b} : x <= y) => x = a
      BY <1>1
    <2> QED BY <1>1, <2>1 DEF Parameters!Min
  <1>2. CASE ~(a <= b)
    <2>1. /\ b \in {a, b} /\ \A y \in {a, b} : b <= y
          /\ \A x \in {a, b} : (\A y \in {a, b} : x <= y) => x = b
      BY <1>2
    <2> QED BY <1>2, <2>1 DEF Parameters!Min
  <1> QED BY <1>1, <1>2

LEMMA LimitIs ==
  ASSUME NEW S, NEW rows \in Seq(S), NEW n \in Nat
  PROVE  /\ Parameters!Limit(rows, n) \in Seq(S)
         /\ Len(Parameters!Limit(rows, n)) = IF Len(rows) <= n THEN Len(rows) ELSE n
         /\ \A i \in 1 .. Len(Parameters!Limit(rows, n)) :
              i \in 1 .. Len(rows) /\ Parameters!Limit(rows, n)[i] = rows[i]
  <1> DEFINE m == IF Len(rows) <= n THEN Len(rows) ELSE n
  <1>1. Len(rows) \in Nat /\ m \in 0 .. Len(rows)
    BY LenProperties
  <1>2. Parameters!Limit(rows, n) = SubSeq(rows, 1, m)
    BY <1>1, MinOfTwo DEF Parameters!Limit
  <1> HIDE DEF m
  <1>3. /\ SubSeq(rows, 1, m) \in Seq(S) /\ Len(SubSeq(rows, 1, m)) = m
        /\ \A i \in 1 .. m : SubSeq(rows, 1, m)[i] = rows[i]
    BY <1>1
  <1>4. \A i \in 1 .. m : i \in 1 .. Len(rows)
    BY <1>1
  <1> QED BY <1>2, <1>3, <1>4 DEF m

Slowest(f, times) ==
  f = [n \in 0 .. Len(times) |->
         IF n = 0 THEN <<>>
         ELSE IF times[n] > q_cp.time THEN Append(f[n - 1], times[n]) ELSE f[n - 1]]

\* Of times that do not grow, those over the threshold are the first ones.
LEMMA OverThresholdIs ==
  ASSUME PartsAssumption, NEW times \in Parameters!Descending,
         q_cp.time \in Nat, Parameters!Quota \in Nat
  PROVE  LET over == Parameters!OverThreshold(times)
         IN  /\ over \in Seq(Times) /\ Len(over) <= Parameters!Quota
             /\ Len(over) <= Len(times)
             /\ \A j \in 1 .. Len(over) : over[j] = times[j] /\ times[j] > q_cp.time
             /\ \A j \in 1 .. Len(times) :
                  j > Len(over) => times[j] <= q_cp.time \/ Len(over) = Parameters!Quota
  <1> DEFINE l == Len(times)
             limit == q_cp.time
             f == CHOOSE h : Slowest(h, times)
  <1>1. /\ times \in Seq(Times) /\ l \in Nat /\ DOMAIN times = 1 .. l
        /\ \A j \in 1 .. l : times[j] \in Times /\ times[j] \in Nat
        /\ \A j, k \in 1 .. l : j <= k => times[j] >= times[k]
    <2>1. times \in Seq(Times) /\ Times \subseteq Nat
          /\ \A j, k \in DOMAIN times : j <= k => times[j] >= times[k]
      BY PartsAssumption DEF Parameters!Descending, Parameters!ParametersAssumption
    <2> QED BY <2>1, LenProperties
  <1>2. Parameters!OverThreshold(times) = Parameters!Limit(f[l], Parameters!Quota)
    BY Zenon DEF Parameters!OverThreshold, Slowest
  <1> DEFINE V == Seq(Times)
             Next1(u, k) == IF times[k] > limit THEN Append(u, times[k]) ELSE u
             step == [k \in 1 .. l |-> [u \in V |-> Next1(u, k)]]
  <1>3. \A u \in V, k \in 1 .. l : Next1(u, k) \in V
    BY <1>1
  <1>4. PICK g \in [0 .. l -> V] :
          g[0] = <<>> /\ \A k \in 1 .. l : g[k] = step[k][g[k - 1]]
    <2>1. step \in [1 .. l -> [V -> V]]
      <3> HIDE DEF Next1, V
      <3> QED BY <1>3
    <2>2. l \in Nat /\ <<>> \in V
      BY <1>1
    <2> HIDE DEF step, l, V
    <2> QED BY <2>1, <2>2, ListRecursion
  <1>5. \A k \in 1 .. l : g[k] = Next1(g[k - 1], k)
    <2>1. ASSUME NEW k \in 1 .. l PROVE g[k] = Next1(g[k - 1], k)
      <3>1. k - 1 \in 0 .. l
        BY <1>1
      <3>2. g[k - 1] \in V
        BY <1>4, <3>1
      <3> HIDE DEF Next1, V
      <3> QED BY <1>4, <3>2
    <2> QED BY <2>1
  <1>6. Slowest(g, times)
    <2>1. g = [k \in 0 .. l |-> g[k]]
      BY <1>4
    <2>2. \A k \in 0 .. l : g[k] = IF k = 0 THEN <<>> ELSE Next1(g[k - 1], k)
      <3> HIDE DEF Next1, V, l
      <3> QED BY <1>1, <1>4, <1>5
    <2> QED BY <2>1, <2>2 DEF Slowest
  <1>7. Slowest(f, times)
    BY <1>6
  <1> HIDE DEF f
  <1>8. f[0] = <<>> /\ \A k \in 1 .. l : f[k] = Next1(f[k - 1], k)
    <2>1. \A k \in 0 .. l : f[k] = IF k = 0 THEN <<>> ELSE Next1(f[k - 1], k)
      BY <1>7 DEF Slowest
    <2> HIDE DEF l, Next1
    <2> QED BY <1>1, <2>1
  <1> DEFINE Right(n) ==
               /\ f[n] \in Seq(Times) /\ Len(f[n]) <= n
               /\ \A j \in 1 .. Len(f[n]) : f[n][j] = times[j] /\ times[j] > limit
               /\ \A j \in 1 .. n : j > Len(f[n]) => times[j] <= limit
             T == {n \in Nat : n <= l => Right(n)}
  <1>9. 0 \in T
    <2>1. f[0] \in Seq(Times) /\ Len(f[0]) = 0
      BY <1>8
    <2>2. Right(0)
      BY <2>1
    <2> HIDE DEF Right
    <2> QED BY <2>2
  <1> HIDE DEF l, limit
  <1>10. ASSUME NEW n \in Nat, n \in T, n + 1 <= l PROVE Right(n + 1)
    <2> DEFINE u == f[n]
    <2>1. Right(n) /\ n + 1 \in 1 .. l /\ (n + 1) - 1 = n
      <3> HIDE DEF Right
      <3> QED BY <1>1, <1>10
    <2>2. /\ u \in Seq(Times) /\ Len(u) \in Nat /\ Len(u) <= n
          /\ \A j \in 1 .. Len(u) : u[j] = times[j] /\ times[j] > limit
          /\ \A j \in 1 .. n : j > Len(u) => times[j] <= limit
      BY <2>1, LenProperties
    <2>3. f[n + 1] = Next1(u, n + 1)
      BY <1>8, <2>1
    <2> HIDE DEF u, Right
    <2>4. CASE times[n + 1] > limit
      <3>1. f[n + 1] = Append(u, times[n + 1])
        BY <2>3, <2>4
      <3>2. Len(u) = n
        <4>1. SUFFICES ASSUME Len(u) < n PROVE FALSE
          BY <2>2
        <4> DEFINE j == Len(u) + 1
        <4>2. j \in 1 .. n /\ j > Len(u) /\ j \in 1 .. l /\ j <= n + 1
          BY <1>1, <1>10, <2>2, <4>1
        <4> HIDE DEF j
        <4>3. times[j] <= limit /\ times[j] >= times[n + 1]
          BY <1>1, <2>1, <2>2, <4>2
        <4>4. times[j] \in Nat /\ times[n + 1] \in Nat /\ limit \in Nat
          BY <1>1, <2>1, <4>2 DEF limit
        <4> QED BY <2>4, <4>3, <4>4
      <3>3. /\ Append(u, times[n + 1]) \in Seq(Times)
            /\ Len(Append(u, times[n + 1])) = n + 1
            /\ \A i \in 1 .. n : Append(u, times[n + 1])[i] = u[i]
            /\ Append(u, times[n + 1])[n + 1] = times[n + 1]
        <4>1. \A s \in Seq(Times), t \in Times :
                /\ Append(s, t) \in Seq(Times) /\ Len(Append(s, t)) = Len(s) + 1
                /\ \A i \in 1 .. Len(s) : Append(s, t)[i] = s[i]
                /\ Append(s, t)[Len(s) + 1] = t
          BY AppendProperties
        <4> QED BY <1>1, <2>1, <2>2, <3>2, <4>1
      <3>4. ASSUME NEW i \in 1 .. n + 1
            PROVE  f[n + 1][i] = times[i] /\ times[i] > limit
        <4>1. CASE i = n + 1
          BY <2>4, <3>1, <3>3, <4>1
        <4>2. CASE i # n + 1
          <5>1. i \in 1 .. n
            BY <4>2
          <5> QED BY <2>2, <3>1, <3>2, <3>3, <5>1
        <4> QED BY <4>1, <4>2
      <3>5. f[n + 1] \in Seq(Times) /\ Len(f[n + 1]) = n + 1
        BY <3>1, <3>3
      <3> QED BY <3>4, <3>5 DEF Right
    <2>5. CASE ~(times[n + 1] > limit)
      <3>1. f[n + 1] = u
        BY <2>3, <2>5
      <3>2. times[n + 1] <= limit
        <4>1. times[n + 1] \in Nat /\ limit \in Nat
          BY <1>1, <2>1 DEF limit
        <4> QED BY <2>5, <4>1
      <3>3. ASSUME NEW i \in 1 .. n + 1, i > Len(u) PROVE times[i] <= limit
        <4>1. i = n + 1 \/ i \in 1 .. n
          OBVIOUS
        <4> QED BY <2>2, <3>2, <3>3, <4>1
      <3>4. Len(u) <= n + 1
        BY <2>2
      <3> QED BY <2>2, <3>1, <3>3, <3>4 DEF Right
    <2> QED BY <2>4, <2>5
  <1>11. Right(l)
    <2>1. \A n \in Nat : n \in T => n + 1 \in T
      <3> HIDE DEF Right
      <3> QED BY <1>10
    <2>2. Nat \subseteq T
      <3> HIDE DEF T
      <3> QED BY <1>9, <2>1, SetInduction
    <2> HIDE DEF Right
    <2> QED BY <1>1, <2>2
  <1> DEFINE over == Parameters!Limit(f[l], Parameters!Quota)
             q == Parameters!Quota
  <1>12. /\ over \in Seq(Times) /\ Len(over) = IF Len(f[l]) <= q THEN Len(f[l]) ELSE q
         /\ \A i \in 1 .. Len(over) : i \in 1 .. Len(f[l]) /\ over[i] = f[l][i]
    BY <1>11, LimitIs
  <1>13. /\ Len(f[l]) \in Nat /\ Len(f[l]) <= l
         /\ \A j \in 1 .. Len(f[l]) : f[l][j] = times[j] /\ times[j] > limit
         /\ \A j \in 1 .. l : j > Len(f[l]) => times[j] <= limit
    BY <1>11, LenProperties
  <1> HIDE DEF Right, over, q
  <1>14. /\ Len(over) <= q /\ Len(over) <= l
         /\ Len(over) = q \/ Len(over) = Len(f[l])
    <2>1. q \in Nat
      BY DEF q
    <2> QED BY <1>1, <1>12, <1>13, <2>1
  <1>15. \A j \in 1 .. Len(over) : over[j] = times[j] /\ times[j] > limit
    BY <1>12, <1>13
  <1>16. \A j \in 1 .. l : j > Len(over) => times[j] <= limit \/ Len(over) = q
    BY <1>13, <1>14
  <1> QED BY <1>2, <1>12, <1>14, <1>15, <1>16 DEF over, l, limit, q

\* Rows of individual queries.
Individual == [slow : Nat, time : Times]

Chosen(f, rows, k) ==
  f = [n \in 0 .. Len(rows) |->
         IF n = 0 THEN <<>>
         ELSE IF rows[n].slow = k THEN Append(f[n - 1], rows[n]) ELSE f[n - 1]]

\* f holds the rows of a slow query among the first n, for every n.
Gathered(f, rows, k) ==
  /\ f \in [0 .. Len(rows) -> Seq(Individual)]
  /\ f[0] = <<>> /\ Parameters!Of(rows, k) = f[Len(rows)]
  /\ \A n \in 1 .. Len(rows) :
       f[n] = IF rows[n].slow = k THEN Append(f[n - 1], rows[n]) ELSE f[n - 1]

\* The rows of a slow query, row by row.
LEMMA OfSteps ==
  ASSUME NEW rows \in Seq(Individual), NEW k
  PROVE  \E f : Gathered(f, rows, k)
  <1> DEFINE l == Len(rows)
             f == CHOOSE h : Chosen(h, rows, k)
             V == Seq(Individual)
             Add(u, n) == IF rows[n].slow = k THEN Append(u, rows[n]) ELSE u
             step == [n \in 1 .. l |-> [u \in V |-> Add(u, n)]]
  <1>1. l \in Nat /\ \A n \in 1 .. l : rows[n] \in Individual
    BY LenProperties
  <1>2. Parameters!Of(rows, k) = f[l]
    BY Zenon DEF Parameters!Of, Chosen
  <1>3. \A u \in V, n \in 1 .. l : Add(u, n) \in V
    BY <1>1
  <1>4. PICK g \in [0 .. l -> V] :
          g[0] = <<>> /\ \A n \in 1 .. l : g[n] = step[n][g[n - 1]]
    <2>1. step \in [1 .. l -> [V -> V]]
      <3> HIDE DEF Add, V
      <3> QED BY <1>3
    <2>2. l \in Nat /\ <<>> \in V
      BY <1>1
    <2> HIDE DEF step, l, V
    <2> QED BY <2>1, <2>2, ListRecursion
  <1>5. \A n \in 1 .. l : g[n] = Add(g[n - 1], n)
    <2>1. ASSUME NEW n \in 1 .. l PROVE g[n] = Add(g[n - 1], n)
      <3>1. n - 1 \in 0 .. l
        BY <1>1
      <3>2. g[n - 1] \in V
        BY <1>4, <3>1
      <3> HIDE DEF Add, V
      <3> QED BY <1>4, <3>2
    <2> QED BY <2>1
  <1>6. Chosen(g, rows, k)
    <2>1. g = [n \in 0 .. l |-> g[n]]
      BY <1>4
    <2>2. \A n \in 0 .. l : g[n] = IF n = 0 THEN <<>> ELSE Add(g[n - 1], n)
      <3> HIDE DEF Add, V, l
      <3> QED BY <1>1, <1>4, <1>5
    <2> QED BY <2>1, <2>2 DEF Chosen
  <1>7. \A h : Chosen(h, rows, k) => h = g
    <2> SUFFICES ASSUME NEW h, Chosen(h, rows, k) PROVE h = g
      OBVIOUS
    <2> DEFINE T == {n \in Nat : n <= l => h[n] = g[n]}
    <2>1. h = [n \in 0 .. l |-> h[n]]
          /\ \A n \in 0 .. l : h[n] = IF n = 0 THEN <<>> ELSE Add(h[n - 1], n)
      BY DEF Chosen
    <2> HIDE DEF Add, V, l
    <2>2. 0 \in T
      <3>1. 0 \in 0 .. l
        BY <1>1
      <3>2. h[0] = <<>>
        BY <2>1, <3>1
      <3>3. h[0] = g[0]
        BY <1>4, <3>2
      <3> QED BY <3>3
    <2>3. ASSUME NEW n \in Nat, n \in T PROVE n + 1 \in T
      <3>1. CASE n + 1 <= l
        <4>1. n + 1 \in 1 .. l /\ n + 1 \in 0 .. l /\ (n + 1) - 1 = n /\ n <= l /\ n + 1 # 0
          BY <1>1, <3>1
        <4>2. h[n + 1] = Add(h[n], n + 1) /\ g[n + 1] = Add(g[n], n + 1)
          BY <1>5, <2>1, <4>1
        <4>3. h[n] = g[n]
          BY <2>3, <4>1
        <4>4. h[n + 1] = g[n + 1]
          BY <4>2, <4>3
        <4> QED BY <4>4
      <3>2. CASE ~(n + 1 <= l)
        BY <3>2
      <3> QED BY <3>1, <3>2
    <2>4. Nat \subseteq T
      <3> HIDE DEF T
      <3> QED BY <2>2, <2>3, SetInduction
    <2>5. \A n \in 0 .. l : h[n] = g[n]
      BY <1>1, <2>4
    <2> QED BY <1>4, <2>1, <2>5
  <1>8. f = g
    <2>1. Chosen(f, rows, k)
      BY <1>6
    <2> QED BY <1>7, <2>1
  <1> HIDE DEF f
  <1>9. Gathered(g, rows, k)
    BY <1>2, <1>4, <1>5, <1>8 DEF Gathered
  <1> QED BY <1>9

LEMMA OfType ==
  ASSUME NEW rows \in Seq(Individual), NEW k
  PROVE  /\ Parameters!Of(rows, k) \in Seq(Individual)
         /\ rows = <<>> => Parameters!Of(rows, k) = <<>>
  <1>1. PICK f \in [0 .. Len(rows) -> Seq(Individual)] :
          f[0] = <<>> /\ Parameters!Of(rows, k) = f[Len(rows)]
    BY OfSteps DEF Gathered
  <1>2. Len(rows) \in 0 .. Len(rows) /\ (rows = <<>> => Len(rows) = 0)
    BY LenProperties
  <1> QED BY <1>1, <1>2

\* The rows of a slow query in two lists together.
LEMMA OfConcat ==
  \A k : \A s, t \in Seq(Individual) :
    Parameters!Of(s \o t, k) = Parameters!Of(s, k) \o Parameters!Of(t, k)
  <1> SUFFICES ASSUME NEW k, NEW s \in Seq(Individual), NEW t \in Seq(Individual)
               PROVE  Parameters!Of(s \o t, k)
                        = Parameters!Of(s, k) \o Parameters!Of(t, k)
    BY Zenon
  <1> DEFINE u == s \o t
             m == Len(s)
             l == Len(t)
             Add(v, row) == IF row.slow = k THEN Append(v, row) ELSE v
  <1>1. /\ m \in Nat /\ l \in Nat /\ u \in Seq(Individual) /\ Len(u) = m + l
        /\ \A i \in 1 .. m : u[i] = s[i]
        /\ \A i \in 1 .. l : u[m + i] = t[i] /\ t[i] \in Individual
    <2>1. \A i \in 1 .. l : (s \o t)[m + i] = t[i]
      <3>1. m \in Nat /\ l \in Nat
        BY LenProperties
      <3>2. \A i \in 1 .. m + l : (s \o t)[i] = IF i <= m THEN s[i] ELSE t[i - m]
        BY ConcatProperties
      <3> HIDE DEF m, l
      <3>3. \A i \in 1 .. l : m + i \in 1 .. m + l /\ ~(m + i <= m) /\ (m + i) - m = i
        BY <3>1
      <3> QED BY <3>2, <3>3
    <2> QED BY <2>1, LenProperties, ConcatProperties
  <1>2. PICK f \in [0 .. Len(u) -> Seq(Individual)] :
          /\ f[0] = <<>> /\ Parameters!Of(u, k) = f[Len(u)]
          /\ \A n \in 1 .. Len(u) : f[n] = Add(f[n - 1], u[n])
    <2>1. PICK f : Gathered(f, u, k)
      <3> HIDE DEF u
      <3> QED BY <1>1, OfSteps
    <2>2. \A n \in 1 .. Len(u) : f[n] = Add(f[n - 1], u[n])
      <3> HIDE DEF u
      <3> QED BY <2>1 DEF Gathered
    <2>3. f \in [0 .. Len(u) -> Seq(Individual)] /\ f[0] = <<>> /\ Parameters!Of(u, k) = f[Len(u)]
      <3> HIDE DEF u
      <3> QED BY <2>1 DEF Gathered
    <2> HIDE DEF u, Add
    <2> QED BY <2>2, <2>3
  <1>3. PICK g \in [0 .. m -> Seq(Individual)] :
          /\ g[0] = <<>> /\ Parameters!Of(s, k) = g[m]
          /\ \A n \in 1 .. m : g[n] = Add(g[n - 1], s[n])
    BY OfSteps DEF Gathered
  <1>4. PICK h \in [0 .. l -> Seq(Individual)] :
          /\ h[0] = <<>> /\ Parameters!Of(t, k) = h[l]
          /\ \A n \in 1 .. l : h[n] = Add(h[n - 1], t[n])
    BY OfSteps DEF Gathered
  <1>5. \A v, w \in Seq(Individual), row \in Individual : Add(v \o w, row) = v \o Add(w, row)
    <2>1. \A v, w \in Seq(Individual), row \in Individual :
            Append(v \o w, row) = v \o Append(w, row)
      <3> SUFFICES ASSUME NEW v \in Seq(Individual), NEW w \in Seq(Individual),
                          NEW row \in Individual
                   PROVE  Append(v \o w, row) = v \o Append(w, row)
        OBVIOUS
      <3> DEFINE a == Append(v \o w, row)
                 b == v \o Append(w, row)
      <3>1. /\ a \in Seq(Individual) /\ b \in Seq(Individual)
            /\ Len(a) = Len(v) + Len(w) + 1 /\ Len(b) = Len(a)
        OBVIOUS
      <3>2. ASSUME NEW i \in 1 .. Len(a) PROVE a[i] = b[i]
        BY <3>1, <3>2
      <3> HIDE DEF a, b
      <3>3. a = b
        BY <3>1, <3>2, SeqEqual
      <3> QED BY <3>3 DEF a, b
    <2> QED BY <2>1
  <1>6. \A v \in Seq(Individual) : v \o <<>> = v
    OBVIOUS
  <1> HIDE DEF Add, m, l, u
  <1> DEFINE T == {n \in Nat : n <= m => f[n] = g[n]}
             U == {n \in Nat : n <= l => f[m + n] = g[m] \o h[n]}
  <1>7. 0 \in T
    BY <1>2, <1>3
  <1>8. ASSUME NEW n \in Nat, n \in T, n + 1 <= m PROVE f[n + 1] = g[n + 1]
    <2>1. n + 1 \in 1 .. m /\ n + 1 \in 1 .. Len(u) /\ (n + 1) - 1 = n /\ n <= m
      BY <1>1, <1>8
    <2>2. f[n + 1] = Add(f[n], u[n + 1]) /\ g[n + 1] = Add(g[n], s[n + 1])
      BY <1>2, <1>3, <2>1
    <2>3. f[n] = g[n] /\ u[n + 1] = s[n + 1]
      BY <1>1, <1>8, <2>1
    <2> QED BY <2>2, <2>3
  <1>9. f[m] = g[m]
    <2>1. Nat \subseteq T
      <3>1. \A n \in Nat : n \in T => n + 1 \in T
        BY <1>8
      <3> HIDE DEF T
      <3> QED BY <1>7, <3>1, SetInduction
    <2> QED BY <1>1, <2>1
  <1>10. 0 \in U
    <2>1. g[m] \in Seq(Individual) /\ m + 0 = m
      BY <1>1, <1>3
    <2>2. f[m + 0] = g[m] \o h[0]
      BY <1>4, <1>6, <1>9, <2>1
    <2> QED BY <2>2
  <1>11. ASSUME NEW n \in Nat, n \in U, n + 1 <= l
         PROVE  f[m + (n + 1)] = g[m] \o h[n + 1]
    <2>1. /\ n + 1 \in 1 .. l /\ m + (n + 1) \in 1 .. Len(u) /\ n <= l
          /\ (n + 1) - 1 = n /\ (m + (n + 1)) - 1 = m + n /\ n \in 0 .. l
      BY <1>1, <1>11
    <2>2. /\ f[m + (n + 1)] = Add(f[m + n], u[m + (n + 1)])
          /\ h[n + 1] = Add(h[n], t[n + 1])
      BY <1>2, <1>4, <2>1
    <2>3. f[m + n] = g[m] \o h[n] /\ u[m + (n + 1)] = t[n + 1] /\ t[n + 1] \in Individual
      BY <1>1, <1>11, <2>1
    <2>4. g[m] \in Seq(Individual) /\ h[n] \in Seq(Individual)
      BY <1>1, <1>3, <1>4, <2>1
    <2>5. Add(g[m] \o h[n], t[n + 1]) = g[m] \o Add(h[n], t[n + 1])
      BY <1>5, <2>3, <2>4
    <2> QED BY <2>2, <2>3, <2>5
  <1>12. f[m + l] = g[m] \o h[l]
    <2>1. Nat \subseteq U
      <3>1. ASSUME NEW n \in Nat, n \in U PROVE n + 1 \in U
        <4>1. n + 1 <= l => f[m + (n + 1)] = g[m] \o h[n + 1]
          <5> HIDE DEF U
          <5> QED BY <1>11, <3>1
        <4>2. n + 1 \in Nat
          OBVIOUS
        <4> QED BY <4>1, <4>2, Zenon
      <3> HIDE DEF U
      <3> QED BY <1>10, <3>1, SetInduction
    <2>2. l \in Nat /\ l <= l
      BY <1>1
    <2>3. l \in U
      <3> HIDE DEF U
      <3> QED BY <2>1, <2>2
    <2> QED BY <2>2, <2>3
  <1>13. Parameters!Of(u, k) = g[m] \o h[l]
    BY <1>1, <1>2, <1>12, Zenon
  <1> QED BY <1>3, <1>4, <1>13, Zenon DEF u

\* Of the rows of one slow query all or none are chosen.
LEMMA OfUniform ==
  ASSUME NEW rows \in Seq(Individual), NEW j, NEW k,
         \A i \in 1 .. Len(rows) : rows[i].slow = j
  PROVE  Parameters!Of(rows, k) = IF j = k THEN rows ELSE <<>>
  <1> DEFINE l == Len(rows)
  <1>1. l \in Nat /\ \A i \in 1 .. l : rows[i] \in Individual
    BY LenProperties
  <1>2. PICK f \in [0 .. l -> Seq(Individual)] :
          /\ f[0] = <<>> /\ Parameters!Of(rows, k) = f[l]
          /\ \A n \in 1 .. l : f[n] = IF j = k THEN Append(f[n - 1], rows[n]) ELSE f[n - 1]
    <2>1. PICK f : Gathered(f, rows, k)
      BY OfSteps
    <2>2. \A n \in 1 .. Len(rows) :
            f[n] = IF j = k THEN Append(f[n - 1], rows[n]) ELSE f[n - 1]
      BY <2>1 DEF Gathered
    <2>3. /\ f \in [0 .. Len(rows) -> Seq(Individual)]
          /\ f[0] = <<>> /\ Parameters!Of(rows, k) = f[Len(rows)]
      BY <2>1 DEF Gathered
    <2> QED BY <2>2, <2>3
  <1> DEFINE Right(n) == IF j = k
                         THEN /\ f[n] \in Seq(Individual) /\ Len(f[n]) = n
                              /\ \A i \in 1 .. n : f[n][i] = rows[i]
                         ELSE f[n] = <<>>
             T == {n \in Nat : n <= l => Right(n)}
  <1>3. 0 \in T
    <2>1. f[0] = <<>> /\ f[0] \in Seq(Individual) /\ Len(f[0]) = 0
      BY <1>2
    <2>2. Right(0)
      BY <2>1
    <2> HIDE DEF Right
    <2> QED BY <2>2
  <1> HIDE DEF l
  <1>4. ASSUME NEW n \in Nat, n \in T, n + 1 <= l PROVE Right(n + 1)
    <2>1. Right(n) /\ n + 1 \in 1 .. l /\ (n + 1) - 1 = n
      <3>1. n <= l /\ n + 1 \in 1 .. l /\ (n + 1) - 1 = n
        BY <1>1, <1>4
      <3> HIDE DEF Right
      <3> QED BY <1>4, <3>1
    <2>2. CASE j = k
      <3>1. /\ f[n] \in Seq(Individual) /\ Len(f[n]) = n
            /\ \A i \in 1 .. n : f[n][i] = rows[i]
        BY <2>1, <2>2
      <3>2. f[n + 1] = Append(f[n], rows[n + 1]) /\ rows[n + 1] \in Individual
        BY <1>1, <1>2, <2>1, <2>2
      <3>3. \A u \in Seq(Individual), row \in Individual :
              /\ Append(u, row) \in Seq(Individual) /\ Len(Append(u, row)) = Len(u) + 1
              /\ \A i \in 1 .. Len(u) : Append(u, row)[i] = u[i]
              /\ Append(u, row)[Len(u) + 1] = row
        BY AppendProperties
      <3>4. /\ f[n + 1] \in Seq(Individual) /\ Len(f[n + 1]) = n + 1
            /\ \A i \in 1 .. n : f[n + 1][i] = f[n][i]
            /\ f[n + 1][n + 1] = rows[n + 1]
        BY <3>1, <3>2, <3>3
      <3>5. ASSUME NEW i \in 1 .. n + 1 PROVE f[n + 1][i] = rows[i]
        <4>1. i \in 1 .. n \/ i = n + 1
          OBVIOUS
        <4> QED BY <3>1, <3>4, <4>1
      <3> QED BY <2>2, <3>4, <3>5
    <2>3. CASE j # k
      BY <1>2, <2>1, <2>3
    <2> QED BY <2>2, <2>3
  <1>5. Right(l)
    <2>1. \A n \in Nat : n \in T => n + 1 \in T
      <3> HIDE DEF Right
      <3> QED BY <1>4
    <2>2. Nat \subseteq T
      <3> HIDE DEF T
      <3> QED BY <1>3, <2>1, SetInduction
    <2> HIDE DEF Right
    <2> QED BY <1>1, <2>2
  <1>6. CASE j = k
    <2>1. f[l] \in Seq(Individual) /\ Len(f[l]) = l /\ \A i \in 1 .. l : f[l][i] = rows[i]
      BY <1>5, <1>6
    <2>2. f[l] = rows
      BY <2>1, SeqEqual DEF l
    <2> QED BY <1>2, <1>6, <2>2
  <1>7. CASE j # k
    BY <1>2, <1>5, <1>7
  <1> QED BY <1>6, <1>7

\* In a list of lists, one per slow query, the rows of each are its own list.
LEMMA OfFlatten ==
  ASSUME NEW seqs \in Seq(Seq(Individual)), NEW k \in 1 .. Len(seqs),
         \A i \in 1 .. Len(seqs) : \A j \in 1 .. Len(seqs[i]) : seqs[i][j].slow = i
  PROVE  Parameters!Of(FlattenSeq(seqs), k) = seqs[k]
  <1> DEFINE l == Len(seqs)
  <1>1. l \in Nat /\ \A i \in 1 .. l : seqs[i] \in Seq(Individual)
    BY LenProperties
  <1>2. PICK f \in [0 .. l -> Seq(Individual)] :
          /\ f[0] = <<>> /\ FlattenSeq(seqs) = f[l]
          /\ \A n \in 1 .. l : f[n] = f[n - 1] \o seqs[n]
    <2>1. PICK f : Flattened(f, seqs, Individual)
      BY FlattenSteps
    <2> QED BY <2>1 DEF Flattened
  <1> HIDE DEF l
  <1> DEFINE Right(n) == Parameters!Of(f[n], k) = IF k <= n THEN seqs[k] ELSE <<>>
             T == {n \in Nat : n <= l => Right(n)}
  <1>3. 0 \in T
    <2>1. ~(k <= 0) /\ 0 \in 0 .. l
      BY <1>1
    <2>2. Parameters!Of(f[0], k) = <<>>
      BY <1>2, <2>1, OfType
    <2>3. Right(0)
      BY <2>1, <2>2
    <2> HIDE DEF Right
    <2> QED BY <2>3
  <1>4. ASSUME NEW n \in Nat, n \in T, n + 1 <= l PROVE Right(n + 1)
    <2>1. Right(n) /\ n + 1 \in 1 .. l /\ (n + 1) - 1 = n /\ n \in 0 .. l
      <3>1. n <= l /\ n + 1 \in 1 .. l /\ (n + 1) - 1 = n /\ n \in 0 .. l
        BY <1>1, <1>4
      <3> HIDE DEF Right
      <3> QED BY <1>4, <3>1
    <2>2. f[n + 1] = f[n] \o seqs[n + 1]
      BY <1>2, <2>1
    <2>3. f[n] \in Seq(Individual) /\ seqs[n + 1] \in Seq(Individual)
      BY <1>1, <1>2, <2>1
    <2>4. Parameters!Of(f[n + 1], k)
            = Parameters!Of(f[n], k) \o Parameters!Of(seqs[n + 1], k)
      <3>1. Parameters!Of(f[n] \o seqs[n + 1], k)
              = Parameters!Of(f[n], k) \o Parameters!Of(seqs[n + 1], k)
        BY <2>3, OfConcat, Zenon
      <3> QED BY <2>2, <3>1, Zenon
    <2>5. Parameters!Of(seqs[n + 1], k) = IF n + 1 = k THEN seqs[n + 1] ELSE <<>>
      <3>1. \A j \in 1 .. Len(seqs[n + 1]) : seqs[n + 1][j].slow = n + 1
        BY <2>1 DEF l
      <3>2. \A j : \A rows \in Seq(Individual) :
              (\A i \in 1 .. Len(rows) : rows[i].slow = j)
                => Parameters!Of(rows, k) = IF j = k THEN rows ELSE <<>>
        BY OfUniform
      <3> QED BY <2>3, <3>1, <3>2, Zenon
    <2>6. k \in Nat /\ seqs[k] \in Seq(Individual)
      BY <1>1 DEF l
    <2>7. \A s \in Seq(Individual) : <<>> \o s = s /\ s \o <<>> = s
      OBVIOUS
    <2>8. <<>> \in Seq(Individual)
      OBVIOUS
    <2>9. CASE n + 1 = k
      <3>1. ~(k <= n) /\ k <= n + 1
        BY <2>6, <2>9
      <3> QED BY <2>1, <2>4, <2>5, <2>6, <2>7, <2>9, <3>1
    <2>10. CASE k <= n
      <3>1. n + 1 # k /\ k <= n + 1
        BY <2>6, <2>10
      <3> QED BY <2>1, <2>4, <2>5, <2>6, <2>7, <2>10, <3>1
    <2>11. CASE n + 1 < k
      <3>1. n + 1 # k /\ ~(k <= n + 1) /\ ~(k <= n)
        BY <2>6, <2>11
      <3> QED BY <2>1, <2>4, <2>5, <2>7, <2>8, <3>1
    <2>12. n + 1 = k \/ k <= n \/ n + 1 < k
      BY <2>6
    <2> QED BY <2>9, <2>10, <2>11, <2>12
  <1>5. Right(l)
    <2>1. ASSUME NEW n \in Nat, n \in T PROVE n + 1 \in T
      <3>1. n + 1 <= l => Right(n + 1)
        <4> HIDE DEF T, Right
        <4> QED BY <1>4, <2>1
      <3>2. n + 1 \in Nat
        OBVIOUS
      <3> HIDE DEF Right
      <3> QED BY <3>1, <3>2, Zenon
    <2>2. Nat \subseteq T
      <3> HIDE DEF T
      <3> QED BY <1>3, <2>1, SetInduction
    <2> HIDE DEF Right
    <2> QED BY <1>1, <2>2
  <1>6. k <= l
    BY DEF l
  <1> QED BY <1>2, <1>5, <1>6

\* Lists of q elements or fewer are not longer together than q times their number.
LEMMA FlattenLength ==
  ASSUME NEW S, NEW seqs \in Seq(Seq(S)), NEW q \in Nat,
         \A i \in 1 .. Len(seqs) : Len(seqs[i]) <= q
  PROVE  Len(FlattenSeq(seqs)) <= Len(seqs) * q
  <1> DEFINE l == Len(seqs)
  <1>1. l \in Nat /\ \A i \in 1 .. l : seqs[i] \in Seq(S) /\ Len(seqs[i]) \in Nat
    BY LenProperties
  <1>2. PICK f \in [0 .. l -> Seq(S)] :
          /\ f[0] = <<>> /\ FlattenSeq(seqs) = f[l]
          /\ \A n \in 1 .. l : f[n] = f[n - 1] \o seqs[n]
    <2>1. PICK f : Flattened(f, seqs, S)
      BY FlattenSteps
    <2> QED BY <2>1 DEF Flattened
  <1>3. \A i \in 1 .. l : Len(seqs[i]) <= q
    OBVIOUS
  <1> HIDE DEF l
  <1> DEFINE T == {n \in Nat : n <= l => Len(f[n]) <= n * q}
  <1>4. 0 \in T
    <2>1. Len(f[0]) = 0 /\ 0 * q = 0
      BY <1>2
    <2> QED BY <2>1
  <1>5. ASSUME NEW n \in Nat, n \in T, n + 1 <= l
        PROVE  Len(f[n + 1]) <= (n + 1) * q
    <2>1. n + 1 \in 1 .. l /\ (n + 1) - 1 = n /\ n \in 0 .. l /\ n <= l
      BY <1>1, <1>5
    <2>2. f[n + 1] = f[n] \o seqs[n + 1] /\ f[n] \in Seq(S) /\ seqs[n + 1] \in Seq(S)
      BY <1>1, <1>2, <2>1
    <2>3. Len(f[n + 1]) = Len(f[n]) + Len(seqs[n + 1])
      BY <2>2, ConcatProperties
    <2>4. Len(f[n]) \in Nat /\ Len(seqs[n + 1]) \in Nat /\ Len(seqs[n + 1]) <= q
      BY <1>1, <1>3, <2>1, <2>2, LenProperties
    <2>5. Len(f[n]) <= n * q
      BY <1>5, <2>1
    <2>6. \A a, b, x, y \in Nat : a <= x * y /\ b <= y => a + b <= (x + 1) * y
      OBVIOUS
    <2>7. Len(f[n]) + Len(seqs[n + 1]) <= (n + 1) * q
      BY <2>4, <2>5, <2>6, Zenon
    <2> QED BY <2>3, <2>7, Zenon
  <1>6. Nat \subseteq T
    <2>1. ASSUME NEW n \in Nat, n \in T PROVE n + 1 \in T
      <3>1. n + 1 <= l => Len(f[n + 1]) <= (n + 1) * q
        <4> HIDE DEF T
        <4> QED BY <1>5, <2>1
      <3>2. n + 1 \in Nat
        OBVIOUS
      <3> QED BY <3>1, <3>2, Zenon
    <2> HIDE DEF T
    <2> QED BY <1>4, <2>1, SetInduction
  <1>7. l \in T
    <2> HIDE DEF T
    <2> QED BY <1>1, <1>6
  <1>8. Len(f[l]) <= l * q
    BY <1>1, <1>7
  <1> QED BY <1>2, <1>8 DEF l

\* What every state of the queries has.
ParamTypes ==
  /\ q_countArg \in Int /\ q_timeArg \in Int /\ q_isRds \in BOOLEAN
  /\ q_server \in Seq(Parameters!Descending)
  /\ q_cp \in [count : 0 .. MaxQueryCountThreshold, time : Nat]
  /\ q_pc \in {"start", "other", "slow", "individual", "done"}
  /\ q_slow \in Seq(Parameters!Descending)
  /\ Len(q_slow) <= q_cp.count /\ Len(q_slow) <= Len(q_server)
  /\ q_calls \in Seq(0 .. PublishThreshold - 1)

\* The individual queries are the first rows of every slow query's list.
ParamInv ==
  /\ ParamTypes
  /\ q_pc \in {"start", "other", "slow"} => q_slow = <<>>
  /\ \A k \in DOMAIN q_individual : q_individual[k].slow \in DOMAIN q_slow
  /\ q_pc # "done" => q_individual = <<>>
  /\ q_pc = "done" /\ ~q_isRds =>
       q_individual = FlattenSeq([k \in DOMAIN q_slow |-> Parameters!IndividualQueries(k)])

LEMMA QuotaIs ==
  ASSUME PartsAssumption, ParamTypes
  PROVE  /\ Parameters!Quota \in Nat
         /\ Parameters!Quota <= MaxIndividualQueryCountThreshold
  <1>1. q_cp.count \in Nat /\ MaxIndividualQueryCountThreshold \in Nat
    BY DEF PartsAssumption, Parameters!ParametersAssumption, ParamTypes
  <1>2. Parameters!Quota = IF q_cp.count <= MaxIndividualQueryCountThreshold
                           THEN q_cp.count ELSE MaxIndividualQueryCountThreshold
    BY <1>1, MinOfTwo DEF Parameters!Quota
  <1> QED BY <1>1, <1>2

\* The individual queries of a slow query.
LEMMA IndividualQueriesAre ==
  ASSUME PartsAssumption, ParamTypes, NEW k \in DOMAIN q_slow
  PROVE  LET rows == Parameters!IndividualQueries(k)
         IN  /\ rows \in Seq(Individual) /\ Len(rows) <= Parameters!Quota
             /\ \A j \in 1 .. Len(rows) :
                  rows[j].slow = k /\ rows[j].time = q_slow[k][j] /\ q_slow[k][j] > q_cp.time
             /\ \A j \in DOMAIN q_slow[k] :
                  j > Len(rows) => q_slow[k][j] <= q_cp.time \/ Len(rows) = Parameters!Quota
  <1> DEFINE times == q_slow[k]
             over == Parameters!OverThreshold(times)
             rows == Parameters!IndividualQueries(k)
  <1>1. times \in Parameters!Descending /\ k \in Nat /\ q_cp.time \in Nat
    BY DEF ParamTypes
  <1>2. times \in Seq(Times) /\ DOMAIN times = 1 .. Len(times)
    BY <1>1 DEF Parameters!Descending
  <1>3. Parameters!Quota \in Nat
    BY QuotaIs
  <1>4. /\ over \in Seq(Times) /\ Len(over) <= Parameters!Quota
        /\ Len(over) <= Len(times)
        /\ \A j \in 1 .. Len(over) : over[j] = times[j] /\ times[j] > q_cp.time
        /\ \A j \in 1 .. Len(times) :
             j > Len(over) => times[j] <= q_cp.time \/ Len(over) = Parameters!Quota
    <2> HIDE DEF times
    <2> QED BY <1>1, <1>3, OverThresholdIs
  <1>5. rows = [j \in DOMAIN over |-> [slow |-> k, time |-> over[j]]]
    BY DEF Parameters!IndividualQueries
  <1> HIDE DEF over, rows
  <1>6. DOMAIN over = 1 .. Len(over) /\ Len(over) \in Nat /\ \A j \in 1 .. Len(over) : over[j] \in Times
    BY <1>4
  <1>7. rows \in Seq(Individual) /\ Len(rows) = Len(over)
    BY <1>1, <1>5, <1>6 DEF Individual
  <1>8. \A j \in 1 .. Len(over) : rows[j].slow = k /\ rows[j].time = over[j]
    BY <1>5, <1>6
  <1> QED BY <1>2, <1>4, <1>7, <1>8 DEF rows, times

LEMMA FlattenSame == \A seqs : Parameters!FlattenSeq(seqs) = FlattenSeq(seqs)
  BY DEF Parameters!FlattenSeq, FlattenSeq

\* All the individual queries, and how many there are.
LEMMA IndividualQueriesJoined ==
  ASSUME PartsAssumption, ParamTypes
  PROVE  LET seqs == [k \in DOMAIN q_slow |-> Parameters!IndividualQueries(k)]
         IN  /\ seqs \in Seq(Seq(Individual)) /\ Len(seqs) = Len(q_slow)
             /\ FlattenSeq(seqs) \in Seq(Individual)
             /\ Len(FlattenSeq(seqs)) < PublishThreshold
             /\ \A i \in DOMAIN FlattenSeq(seqs) : FlattenSeq(seqs)[i].slow \in DOMAIN q_slow
             /\ \A k \in DOMAIN q_slow :
                  Parameters!Of(FlattenSeq(seqs), k) = Parameters!IndividualQueries(k)
  <1> DEFINE seqs == [k \in DOMAIN q_slow |-> Parameters!IndividualQueries(k)]
             l == Len(q_slow)
             q == Parameters!Quota
             p == MaxQueryCountThreshold
             i == MaxIndividualQueryCountThreshold
  <1>1. l \in Nat /\ DOMAIN q_slow = 1 .. l
    BY DEF ParamTypes
  <1>2. \A k \in 1 .. l :
          /\ Parameters!IndividualQueries(k) \in Seq(Individual)
          /\ Len(Parameters!IndividualQueries(k)) <= q
          /\ \A j \in 1 .. Len(Parameters!IndividualQueries(k)) :
               Parameters!IndividualQueries(k)[j].slow = k
    BY <1>1, IndividualQueriesAre
  <1>3. /\ seqs \in Seq(Seq(Individual)) /\ Len(seqs) = l
        /\ \A k \in 1 .. l : seqs[k] = Parameters!IndividualQueries(k)
    BY <1>1, <1>2
  <1> HIDE DEF seqs
  <1>4. q \in Nat /\ q <= i /\ l <= p /\ p \in Nat /\ i \in Nat /\ PublishThreshold \in Nat
        /\ p * i < PublishThreshold
    BY QuotaIs DEF PartsAssumption, Parameters!ParametersAssumption, ParamTypes
  <1>5. /\ FlattenSeq(seqs) \in Seq(Individual)
        /\ Range(FlattenSeq(seqs)) = UNION {Range(seqs[k]) : k \in DOMAIN seqs}
    BY <1>3, FlattenRange
  <1>6. Len(FlattenSeq(seqs)) <= l * q
    BY <1>2, <1>3, <1>4, FlattenLength
  <1>7. Len(FlattenSeq(seqs)) < PublishThreshold
    <2> HIDE DEF l, q, p, i
    <2>1. \A a, b, c, d \in Nat : a <= c /\ b <= d => a * b <= c * d
      <3>1. \A a, c, b \in Nat : a <= c => a * b <= c * b
        <4> SUFFICES ASSUME NEW a \in Nat, NEW c \in Nat, NEW b \in Nat, a <= c
                     PROVE  a * b <= c * b
          OBVIOUS
        <4>1. PICK e \in Nat : c = a + e
          <5>1. c - a \in Nat /\ c = a + (c - a)
            OBVIOUS
          <5> QED BY <5>1
        <4>2. c * b = a * b + e * b /\ e * b \in Nat /\ a * b \in Nat
          BY <4>1
        <4> QED BY <4>2
      <3>2. \A a, b \in Nat : a * b \in Nat /\ a * b = b * a
        OBVIOUS
      <3> SUFFICES ASSUME NEW a \in Nat, NEW b \in Nat, NEW c \in Nat, NEW d \in Nat,
                          a <= c, b <= d
                   PROVE  a * b <= c * d
        OBVIOUS
      <3>3. a * b <= c * b /\ b * c <= d * c
        BY <3>1
      <3> QED BY <3>2, <3>3
    <2>2. l * q <= p * i
      BY <1>1, <1>4, <2>1
    <2>3. \A a, b, c, d \in Nat : a <= b /\ b <= c /\ c < d => a < d
      OBVIOUS
    <2>4. \A a, b \in Nat : a * b \in Nat
      OBVIOUS
    <2>5. Len(FlattenSeq(seqs)) \in Nat
      BY <1>5, LenProperties
    <2> QED BY <1>1, <1>4, <1>6, <2>2, <2>3, <2>4, <2>5, Zenon
  <1>8. ASSUME NEW n \in DOMAIN FlattenSeq(seqs)
        PROVE  FlattenSeq(seqs)[n].slow \in DOMAIN q_slow
    <2>1. FlattenSeq(seqs)[n] \in Range(FlattenSeq(seqs))
      BY DEF Range
    <2>2. PICK k \in DOMAIN seqs : FlattenSeq(seqs)[n] \in Range(seqs[k])
      BY <1>5, <2>1
    <2>3. k \in 1 .. l /\ seqs[k] \in Seq(Individual)
      BY <1>3
    <2>4. \A row \in Range(seqs[k]) : row.slow = k
      BY <1>2, <1>3, <2>3 DEF Range
    <2> QED BY <1>1, <2>2, <2>3, <2>4
  <1>9. ASSUME NEW k \in DOMAIN q_slow
        PROVE  Parameters!Of(FlattenSeq(seqs), k) = Parameters!IndividualQueries(k)
    <2>1. \A n \in 1 .. Len(seqs) : \A j \in 1 .. Len(seqs[n]) : seqs[n][j].slow = n
      BY <1>2, <1>3
    <2>2. k \in 1 .. Len(seqs)
      BY <1>1, <1>3
    <2>3. Parameters!Of(FlattenSeq(seqs), k) = seqs[k]
      BY <1>3, <2>1, <2>2, OfFlatten
    <2> QED BY <1>1, <1>3, <2>3
  <1> QED BY <1>3, <1>5, <1>7, <1>8, <1>9 DEF seqs, l

LEMMA ParamInit ==
  ASSUME PartsAssumption, Parameters!Init PROVE ParamInv
  <1>1. /\ q_countArg \in CountArgs /\ q_timeArg \in TimeArgs /\ q_isRds \in BOOLEAN
        /\ q_server \in Statements /\ q_cp = [count |-> 0, time |-> 0]
        /\ q_pc = "start" /\ q_slow = <<>> /\ q_individual = <<>> /\ q_calls = <<>>
    BY DEF Parameters!Init
  <1>2. /\ CountArgs \subseteq Int /\ TimeArgs \subseteq Int
        /\ \A list \in Statements : list \in Seq(Parameters!Descending)
        /\ MaxQueryCountThreshold \in Nat
    BY DEF PartsAssumption, Parameters!ParametersAssumption
  <1>3. q_server \in Seq(Parameters!Descending) /\ Len(q_server) \in Nat
    BY <1>1, <1>2, LenProperties
  <1>4. q_slow \in Seq(Parameters!Descending) /\ Len(q_slow) = 0 /\ DOMAIN q_individual = {}
        /\ q_calls \in Seq(0 .. PublishThreshold - 1)
    BY <1>1
  <1>5. q_cp \in [count : 0 .. MaxQueryCountThreshold, time : Nat] /\ q_cp.count = 0
    BY <1>1, <1>2
  <1>6. ParamTypes
    BY <1>1, <1>2, <1>3, <1>4, <1>5 DEF ParamTypes
  <1> QED BY <1>1, <1>4, <1>6 DEF ParamInv

LEMMA Calls ==
  ASSUME PartsAssumption, ParamTypes, NEW n \in Nat, n < PublishThreshold
  PROVE  Append(q_calls, n) \in Seq(0 .. PublishThreshold - 1)
  <1>1. n \in 0 .. PublishThreshold - 1
    BY DEF PartsAssumption, Parameters!ParametersAssumption
  <1> QED BY <1>1 DEF ParamTypes

\* A list of as many rows as the count threshold allows fits a batch.
LEMMA CountFits ==
  ASSUME PartsAssumption
  PROVE  MaxQueryCountThreshold < PublishThreshold
  <1>1. \A a, b, c \in Nat : b # 0 /\ a * b < c => a < c
    <2> SUFFICES ASSUME NEW a \in Nat, NEW b \in Nat, NEW c \in Nat, b # 0, a * b < c
                 PROVE  a < c
      OBVIOUS
    <2>1. PICK d \in Nat : b = d + 1
      <3>1. b - 1 \in Nat /\ b = (b - 1) + 1
        OBVIOUS
      <3> QED BY <3>1
    <2>2. a * b = a * d + a /\ a * d \in Nat
      BY <2>1
    <2> QED BY <2>2
  <1> QED BY <1>1 DEF PartsAssumption, Parameters!ParametersAssumption

LEMMA ParamStep ==
  ASSUME PartsAssumption, ParamInv, [Parameters!Next]_(Parameters!vars)
  PROVE  ParamInv'
  <1>1. CASE Parameters!SetCommonParameters
    <2>1. /\ q_pc = "start" /\ q_pc' = "other"
          /\ q_cp' = [count |-> Parameters!validateAndGetQueryMonitoringCountThreshold,
                      time |-> Parameters!validateAndGetQueryMonitoringResponseTimeThreshold]
          /\ UNCHANGED <<q_countArg, q_timeArg, q_isRds, q_server, q_slow, q_individual, q_calls>>
      BY <1>1 DEF Parameters!SetCommonParameters
    <2>2. Parameters!validateAndGetQueryMonitoringCountThreshold \in 0 .. MaxQueryCountThreshold
      <3>1. /\ MaxQueryCountThreshold \in Nat /\ q_countArg \in Int
            /\ DefaultQueryMonitoringCountThreshold \in 0 .. MaxQueryCountThreshold
        BY DEF PartsAssumption, Parameters!ParametersAssumption, ParamInv, ParamTypes
      <3>2. Parameters!Min({q_countArg, MaxQueryCountThreshold})
              = IF q_countArg <= MaxQueryCountThreshold THEN q_countArg
                ELSE MaxQueryCountThreshold
        BY <3>1, MinOfTwo
      <3> QED BY <3>1, <3>2 DEF Parameters!validateAndGetQueryMonitoringCountThreshold
    <2>3. Parameters!validateAndGetQueryMonitoringResponseTimeThreshold \in Nat
      BY DEF PartsAssumption, Parameters!ParametersAssumption, ParamInv, ParamTypes,
             Parameters!validateAndGetQueryMonitoringResponseTimeThreshold
    <2>4. q_slow = <<>> /\ Len(q_slow) = 0
      BY <2>1 DEF ParamInv
    <2>5. q_cp' \in [count : 0 .. MaxQueryCountThreshold, time : Nat] /\ Len(q_slow) <= q_cp'.count
      BY <2>1, <2>2, <2>3, <2>4
    <2>6. ParamTypes'
      BY <2>1, <2>5 DEF ParamInv, ParamTypes
    <2> QED BY <2>1, <2>6 DEF ParamInv
  <1>2. CASE Parameters!PopulateOtherMetrics
    <2>1. /\ q_pc = "other" /\ q_pc' = "slow"
          /\ UNCHANGED <<q_countArg, q_timeArg, q_isRds, q_server, q_cp, q_slow, q_individual>>
      BY <1>2 DEF Parameters!PopulateOtherMetrics
    <2>2. PICK waits \in OtherRows, blocks \in OtherRows :
            q_calls' = <<Parameters!Min({waits, q_cp.count}), Parameters!Min({blocks, q_cp.count})>>
      BY <1>2 DEF Parameters!PopulateOtherMetrics
    <2>3. /\ OtherRows \subseteq Nat /\ q_cp.count \in 0 .. MaxQueryCountThreshold
          /\ PublishThreshold \in Nat /\ MaxQueryCountThreshold \in Nat
      BY DEF PartsAssumption, Parameters!ParametersAssumption, ParamInv, ParamTypes
    <2>4. ASSUME NEW n \in OtherRows
          PROVE  Parameters!Min({n, q_cp.count}) \in 0 .. PublishThreshold - 1
      <3>1. Parameters!Min({n, q_cp.count}) = IF n <= q_cp.count THEN n ELSE q_cp.count
        BY <2>3, MinOfTwo
      <3> QED BY <2>3, <3>1, CountFits
    <2>5. q_calls' \in Seq(0 .. PublishThreshold - 1)
      BY <2>2, <2>4
    <2>6. ParamTypes'
      BY <2>1, <2>5 DEF ParamInv, ParamTypes
    <2> QED BY <2>1, <2>6 DEF ParamInv
  <1>3. CASE Parameters!PopulateSlowRunningMetrics
    <2> DEFINE rows == Parameters!Limit(q_server, q_cp.count)
    <2>1. /\ q_pc = "slow" /\ q_pc' = "individual" /\ q_calls' = Append(q_calls, Len(q_slow'))
          /\ UNCHANGED <<q_countArg, q_timeArg, q_isRds, q_server, q_cp, q_individual>>
      BY <1>3 DEF Parameters!PopulateSlowRunningMetrics
    <2>2. PICK n \in 0 .. Len(rows) : \E running \in [1 .. n -> DOMAIN rows] :
            q_slow' = [k \in 1 .. n |-> rows[running[k]]]
      BY <1>3 DEF Parameters!PopulateSlowRunningMetrics
    <2>3. /\ q_cp.count \in Nat /\ q_cp.count <= MaxQueryCountThreshold
          /\ q_server \in Seq(Parameters!Descending) /\ Len(q_server) \in Nat
          /\ MaxQueryCountThreshold \in Nat /\ PublishThreshold \in Nat
      BY LenProperties DEF PartsAssumption, Parameters!ParametersAssumption, ParamInv, ParamTypes
    <2>4. /\ rows \in Seq(Parameters!Descending) /\ Len(rows) \in Nat
          /\ Len(rows) <= q_cp.count /\ Len(rows) <= Len(q_server)
      <3>1. /\ rows \in Seq(Parameters!Descending)
            /\ Len(rows) = IF Len(q_server) <= q_cp.count THEN Len(q_server) ELSE q_cp.count
        BY <2>3, LimitIs
      <3> HIDE DEF rows
      <3> QED BY <2>3, <3>1
    <2> HIDE DEF rows
    <2>5. \A k \in DOMAIN rows : rows[k] \in Parameters!Descending
      BY <2>4
    <2>6. /\ q_slow' \in Seq(Parameters!Descending) /\ Len(q_slow') = n /\ n \in Nat
          /\ n <= q_cp.count /\ n <= Len(q_server)
      BY <2>2, <2>3, <2>4, <2>5
    <2>7. q_calls' \in Seq(0 .. PublishThreshold - 1)
      <3>1. n < PublishThreshold
        BY <2>3, <2>6, CountFits
      <3> QED BY <2>1, <2>6, <3>1, Calls DEF ParamInv
    <2>8. ParamTypes'
      BY <2>1, <2>6, <2>7 DEF ParamInv, ParamTypes
    <2>9. q_individual' = <<>>
      BY <2>1 DEF ParamInv
    <2> QED BY <2>1, <2>8, <2>9 DEF ParamInv
  <1>4. CASE Parameters!PopulateIndividualQueryMetrics
    <2> DEFINE all == FlattenSeq([k \in DOMAIN q_slow |-> Parameters!IndividualQueries(k)])
    <2>1. /\ q_pc = "individual" /\ q_pc' = "done"
          /\ q_calls' = Append(q_calls, Len(q_individual'))
          /\ UNCHANGED <<q_countArg, q_timeArg, q_isRds, q_server, q_cp, q_slow>>
      BY <1>4 DEF Parameters!PopulateIndividualQueryMetrics
    <2>2. q_individual' = all
      BY <1>4, FlattenSame DEF Parameters!PopulateIndividualQueryMetrics
    <2>3. /\ all \in Seq(Individual) /\ Len(all) < PublishThreshold
          /\ \A i \in DOMAIN all : all[i].slow \in DOMAIN q_slow
      BY IndividualQueriesJoined DEF ParamInv
    <2>4. all = FlattenSeq([k \in DOMAIN q_slow' |-> Parameters!IndividualQueries(k)'])
      BY <2>1 DEF Parameters!IndividualQueries, Parameters!OverThreshold, Parameters!Quota
    <2> HIDE DEF all
    <2>5. q_calls' \in Seq(0 .. PublishThreshold - 1)
      <3>1. Len(all) \in Nat
        BY <2>3, LenProperties
      <3> QED BY <2>1, <2>2, <2>3, <3>1, Calls DEF ParamInv
    <2>6. ParamTypes'
      BY <2>1, <2>5 DEF ParamInv, ParamTypes
    <2> QED BY <2>1, <2>2, <2>3, <2>4, <2>6 DEF ParamInv
  <1>5. CASE Parameters!PopulateIndividualQueryMetricsPgStat
    <2>1. /\ q_pc = "individual" /\ q_pc' = "done" /\ q_isRds
          /\ q_calls' = Append(q_calls, Len(q_individual'))
          /\ UNCHANGED <<q_countArg, q_timeArg, q_isRds, q_server, q_cp, q_slow>>
      BY <1>5 DEF Parameters!PopulateIndividualQueryMetricsPgStat
    <2>2. PICK now \in [DOMAIN q_slow -> Times] :
            q_individual' = [k \in DOMAIN q_slow |-> [slow |-> k, time |-> now[k]]]
      BY <1>5 DEF Parameters!PopulateIndividualQueryMetricsPgStat
    <2>3. /\ DOMAIN q_slow = 1 .. Len(q_slow) /\ Len(q_slow) \in Nat
          /\ Len(q_slow) <= q_cp.count /\ q_cp.count \in Nat
          /\ q_cp.count <= MaxQueryCountThreshold
          /\ MaxQueryCountThreshold \in Nat /\ PublishThreshold \in Nat
      BY DEF PartsAssumption, Parameters!ParametersAssumption, ParamInv, ParamTypes
    <2>4. /\ Len(q_individual') = Len(q_slow) /\ DOMAIN q_individual' = DOMAIN q_slow
          /\ \A k \in DOMAIN q_slow : q_individual'[k].slow = k
      BY <2>2, <2>3
    <2>5. q_calls' \in Seq(0 .. PublishThreshold - 1)
      <3>1. Len(q_slow) < PublishThreshold
        BY <2>3, CountFits
      <3> QED BY <2>1, <2>3, <2>4, <3>1, Calls DEF ParamInv
    <2>6. ParamTypes'
      BY <2>1, <2>5 DEF ParamInv, ParamTypes
    <2> QED BY <2>1, <2>4, <2>6 DEF ParamInv
  <1>6. CASE UNCHANGED Parameters!vars
    <2>1. UNCHANGED <<q_countArg, q_timeArg, q_isRds, q_server, q_cp, q_pc, q_slow,
                      q_individual, q_calls>>
      BY <1>6 DEF Parameters!vars
    <2>2. ParamTypes'
      BY <2>1 DEF ParamInv, ParamTypes
    <2>3. FlattenSeq([k \in DOMAIN q_slow |-> Parameters!IndividualQueries(k)])
            = FlattenSeq([k \in DOMAIN q_slow' |-> Parameters!IndividualQueries(k)'])
      BY <2>1 DEF Parameters!IndividualQueries, Parameters!OverThreshold, Parameters!Quota
    <2> QED BY <2>1, <2>2, <2>3 DEF ParamInv
  <1> QED BY <1>1, <1>2, <1>3, <1>4, <1>5, <1>6 DEF Parameters!Next

LEMMA ParamMeans ==
  ASSUME PartsAssumption, ParamInv
  PROVE  Parameters!ThresholdsAreKept /\ Parameters!TypeOK
  <1>1. Parameters!CallsFitOneBatch
    <2>1. \A k \in DOMAIN q_calls : q_calls[k] \in 0 .. PublishThreshold - 1
      <3> DEFINE C == 0 .. PublishThreshold - 1
      <3>1. q_calls \in Seq(C)
        BY DEF ParamInv, ParamTypes
      <3> HIDE DEF C
      <3>2. \A k \in DOMAIN q_calls : q_calls[k] \in C
        BY <3>1
      <3> QED BY <3>2 DEF C
    <2>2. PublishThreshold \in Nat
      BY DEF PartsAssumption, Parameters!ParametersAssumption
    <2>3. \A k \in DOMAIN q_calls : q_calls[k] < PublishThreshold
      BY <2>1, <2>2
    <2> QED BY <2>3 DEF Parameters!CallsFitOneBatch
  <1>2. Parameters!SlowestOverThreshold
    <2> SUFFICES ASSUME q_pc = "done", ~q_isRds, NEW k \in DOMAIN q_slow
                 PROVE  LET reported == Parameters!Of(q_individual, k)
                        IN  /\ Len(reported) <= Parameters!Quota
                            /\ \A j \in DOMAIN q_slow[k] :
                                 IF j <= Len(reported)
                                 THEN reported[j].time = q_slow[k][j] /\ q_slow[k][j] > q_cp.time
                                 ELSE q_slow[k][j] <= q_cp.time
                                      \/ Len(reported) = Parameters!Quota
      BY DEF Parameters!SlowestOverThreshold
    <2> DEFINE reported == Parameters!Of(q_individual, k)
               rows == Parameters!IndividualQueries(k)
    <2>1. reported = rows
      BY IndividualQueriesJoined DEF ParamInv
    <2>2. /\ rows \in Seq(Individual) /\ Len(rows) <= Parameters!Quota
          /\ \A j \in 1 .. Len(rows) :
               rows[j].slow = k /\ rows[j].time = q_slow[k][j] /\ q_slow[k][j] > q_cp.time
          /\ \A j \in DOMAIN q_slow[k] :
               j > Len(rows) => q_slow[k][j] <= q_cp.time \/ Len(rows) = Parameters!Quota
      BY IndividualQueriesAre DEF ParamInv
    <2>3. \A j \in DOMAIN q_slow[k] : j \in Nat /\ j >= 1
      BY DEF ParamInv, ParamTypes, Parameters!Descending
    <2> HIDE DEF rows, reported
    <2>4. Len(rows) \in Nat
      BY <2>2, LenProperties
    <2>5. ASSUME NEW j \in DOMAIN q_slow[k]
          PROVE  IF j <= Len(reported)
                 THEN reported[j].time = q_slow[k][j] /\ q_slow[k][j] > q_cp.time
                 ELSE q_slow[k][j] <= q_cp.time \/ Len(reported) = Parameters!Quota
      <3>1. j \in 1 .. Len(rows) <=> j <= Len(rows)
        BY <2>3, <2>4
      <3>2. j > Len(rows) <=> ~(j <= Len(rows))
        BY <2>3, <2>4
      <3> QED BY <2>1, <2>2, <3>1, <3>2
    <2> QED BY <2>1, <2>2, <2>5 DEF reported
  <1>3. Parameters!TypeOK
    BY DEF ParamInv, ParamTypes, Parameters!TypeOK
  <1> QED BY <1>1, <1>2, <1>3 DEF Parameters!ThresholdsAreKept

-----------------------------------------------------------------------------
(* Normalization: lists, and texts read from the front *)

\* A list that is not empty, taken apart.
LEMMA TakenApart ==
  \A S : \A s \in Seq(S) : s # <<>> =>
    s[1] \in S /\ Tail(s) \in Seq(S) /\ s = <<s[1]>> \o Tail(s)
  <1> SUFFICES ASSUME NEW S, NEW s \in Seq(S), s # <<>>
               PROVE  s[1] \in S /\ Tail(s) \in Seq(S) /\ s = <<s[1]>> \o Tail(s)
    BY Zenon
  <1>1. Len(s) \in Nat /\ Len(s) # 0
    BY EmptySeq
  <1>2. s[1] \in S /\ Head(s) = s[1]
    BY <1>1
  <1>3. /\ Tail(s) \in Seq(S) /\ Len(Tail(s)) = Len(s) - 1
        /\ \A i \in 1 .. Len(Tail(s)) : Tail(s)[i] = s[i + 1]
    BY HeadTailProperties
  <1> DEFINE t == <<s[1]>> \o Tail(s)
  <1>4. /\ t \in Seq(S) /\ Len(t) = Len(s)
        /\ \A i \in 1 .. Len(s) : t[i] = IF i <= 1 THEN <<s[1]>>[i] ELSE Tail(s)[i - 1]
    <2>1. <<s[1]>> \in Seq(S) /\ Len(<<s[1]>>) = 1
      BY <1>2
    <2>2. 1 + Len(Tail(s)) = Len(s)
      BY <1>1, <1>3
    <2> QED BY <1>3, <2>1, <2>2, ConcatProperties
  <1>5. \A i \in 1 .. Len(s) : t[i] = s[i]
    <2> SUFFICES ASSUME NEW i \in 1 .. Len(s) PROVE t[i] = s[i]
      OBVIOUS
    <2>1. CASE i = 1
      BY <1>1, <1>4, <2>1
    <2>2. CASE i # 1
      <3>1. i - 1 \in 1 .. Len(Tail(s)) /\ (i - 1) + 1 = i /\ ~(i <= 1)
        BY <1>1, <1>3, <2>2
      <3> QED BY <1>3, <1>4, <3>1
    <2> QED BY <2>1, <2>2
  <1> HIDE DEF t
  <1>6. t = s
    BY <1>1, <1>4, <1>5, SeqEqual
  <1> QED BY <1>2, <1>3, <1>6 DEF t

\* What holds of the empty list, and of a list with one more element in front,
\* holds of every list.
LEMMA ListInduction ==
  ASSUME NEW S, NEW T, <<>> \in T,
         \A c \in S : \A s \in Seq(S) : s \in T => <<c>> \o s \in T
  PROVE  Seq(S) \subseteq T
  <1> DEFINE N == {n \in Nat : \A s \in Seq(S) : Len(s) = n => s \in T}
  <1>1. 0 \in N
    <2>1. \A s \in Seq(S) : Len(s) = 0 => s = <<>>
      BY EmptySeq
    <2> QED BY <2>1
  <1>2. ASSUME NEW n \in Nat, n \in N PROVE n + 1 \in N
    <2>1. ASSUME NEW s \in Seq(S), Len(s) = n + 1 PROVE s \in T
      <3>1. s # <<>>
        BY <2>1, EmptySeq
      <3>2. s[1] \in S /\ Tail(s) \in Seq(S) /\ s = <<s[1]>> \o Tail(s)
        BY <3>1, TakenApart, Zenon
      <3>3. Len(Tail(s)) = n
        BY <2>1, <3>1, HeadTailProperties
      <3>4. Tail(s) \in T
        BY <1>2, <3>2, <3>3
      <3> QED BY <3>2, <3>4, Zenon
    <2> QED BY <2>1
  <1>3. Nat \subseteq N
    <2> HIDE DEF N
    <2> QED BY <1>1, <1>2, SetInduction
  <1>4. ASSUME NEW s \in Seq(S) PROVE s \in T
    BY <1>3, LenProperties
  <1> QED BY <1>4

\* Lists put together.
LEMMA Concat ==
  \A S : \A s, t \in Seq(S) :
    s \o t \in Seq(S) /\ s \o <<>> = s /\ <<>> \o s = s
  BY ConcatProperties, ConcatEmptySeq

Associates(S) == \A p, q, r \in Seq(S) : (p \o q) \o r = p \o (q \o r)

\* Lists of any elements can be regrouped.
LEMMA Assoc == \A S : Associates(S)
  BY ConcatAssociative DEF Associates

Regroup(p, q, r) == (p \o q) \o r = p \o (q \o r)

\* A list in three parts, grouped either way.
LEMMA Regrouping == \A S : \A p, q, r \in Seq(S) : Regroup(p, q, r)
  BY Assoc DEF Associates, Regroup

\* A list of one element.
LEMMA Single == \A S : \A c \in S : <<c>> \in Seq(S) /\ Len(<<c>>) = 1 /\ <<c>>[1] = c
  OBVIOUS

\* The first element of two lists put together.
LEMMA FirstOf ==
  \A S : \A s, t \in Seq(S) :
    /\ s # <<>> => s \o t # <<>> /\ (s \o t)[1] = s[1]
    /\ s = <<>> => s \o t = t
  <1> SUFFICES ASSUME NEW S, NEW s \in Seq(S), NEW t \in Seq(S)
               PROVE  /\ s # <<>> => s \o t # <<>> /\ (s \o t)[1] = s[1]
                      /\ s = <<>> => s \o t = t
    BY Zenon
  <1>1. s = <<>> => s \o t = t
    BY ConcatEmptySeq
  <1>2. ASSUME s # <<>> PROVE s \o t # <<>> /\ (s \o t)[1] = s[1]
    <2>1. Len(s) \in Nat \ {0} /\ Len(t) \in Nat
      BY <1>2, EmptySeq, LenProperties
    <2>2. Len(s \o t) = Len(s) + Len(t)
          /\ \A i \in 1 .. Len(s) + Len(t) : (s \o t)[i] = IF i <= Len(s) THEN s[i] ELSE t[i - Len(s)]
      BY ConcatProperties
    <2>3. 1 \in 1 .. Len(s) + Len(t) /\ 1 <= Len(s)
      BY <2>1
    <2>4. (s \o t)[1] = s[1]
      BY <2>2, <2>3
    <2>5. s \o t # <<>>
      BY <2>1, <2>2, EmptySeq
    <2> QED BY <2>4, <2>5
  <1> QED BY <1>1, <1>2

\* The list of two put together, from either side.
LEMMA PartsOfConcat ==
  \A S : \A a, s \in Seq(S) :
    /\ SubSeq(a \o s, Len(a) + 1, Len(a \o s)) = s
    /\ SubSeq(a \o s, 1, Len(a)) = a
  <1> SUFFICES ASSUME NEW S, NEW a \in Seq(S), NEW s \in Seq(S)
               PROVE  /\ SubSeq(a \o s, Len(a) + 1, Len(a \o s)) = s
                      /\ SubSeq(a \o s, 1, Len(a)) = a
    BY Zenon
  <1> DEFINE u == a \o s
             l == Len(a)
             m == Len(s)
  <1>1. l \in Nat /\ m \in Nat
    BY LenProperties
  <1>2. /\ u \in Seq(S) /\ Len(u) = l + m
        /\ \A i \in 1 .. l + m : u[i] = IF i <= l THEN a[i] ELSE s[i - l]
    BY ConcatProperties
  <1>3. /\ \A i \in 1 .. l : u[i] = a[i] /\ a[i] \in S
        /\ \A i \in 1 .. m : u[l + i] = s[i] /\ s[i] \in S
    <2>1. \A i \in 1 .. l : a[i] \in S
      BY ElementOfSeq
    <2>2. \A i \in 1 .. m : s[i] \in S
      BY ElementOfSeq
    <2> HIDE DEF u, l, m
    <2>3. \A i \in 1 .. l : i \in 1 .. l + m /\ i <= l
      BY <1>1
    <2>4. \A i \in 1 .. m : l + i \in 1 .. l + m /\ ~(l + i <= l) /\ (l + i) - l = i
      BY <1>1
    <2> QED BY <1>2, <2>1, <2>2, <2>3, <2>4
  <1>4. u \in Seq(S) /\ \A i \in 1 .. l + m : u[i] \in S
    <2>1. \A i \in 1 .. Len(u) : u[i] \in S
      <3> HIDE DEF u
      <3> QED BY <1>2, ElementOfSeq
    <2> HIDE DEF u, l, m
    <2> QED BY <1>2, <2>1
  <1> HIDE DEF u
  <1>5. SubSeq(u, l + 1, l + m) = s
    <2> DEFINE v == SubSeq(u, l + 1, l + m)
    <2>1. \A i \in l + 1 .. l + m : u[i] \in S
      BY <1>1, <1>4
    <2>2. /\ v \in Seq(S) /\ Len(v) = (IF l + 1 <= l + m THEN (l + m) - (l + 1) + 1 ELSE 0)
          /\ \A i \in 1 .. (l + m) - (l + 1) + 1 : v[i] = u[(l + 1) + i - 1]
      <3> HIDE DEF l, m
      <3> QED BY <1>1, <2>1, SubSeqProperties
    <2> HIDE DEF v, l
    <2>3. Len(v) = m
      BY <1>1, <2>2
    <2>4. \A i \in 1 .. m : v[i] = s[i]
      <3>1. \A i \in 1 .. m : i \in 1 .. (l + m) - (l + 1) + 1 /\ (l + 1) + i - 1 = l + i
        BY <1>1
      <3> QED BY <1>3, <2>2, <3>1
    <2>5. v = s
      BY <2>2, <2>3, <2>4, SeqEqual
    <2> QED BY <2>5 DEF v
  <1>6. SubSeq(u, 1, l) = a
    <2> DEFINE v == SubSeq(u, 1, l)
    <2>1. \A i \in 1 .. l : u[i] \in S
      BY <1>3
    <2>2. /\ v \in Seq(S) /\ Len(v) = (IF 1 <= l THEN l - 1 + 1 ELSE 0)
          /\ \A i \in 1 .. l - 1 + 1 : v[i] = u[1 + i - 1]
      <3> HIDE DEF l
      <3> QED BY <1>1, <2>1, SubSeqProperties
    <2> HIDE DEF v, m
    <2>3. Len(v) = l
      BY <1>1, <2>2
    <2>4. \A i \in 1 .. l : v[i] = a[i]
      <3>1. \A i \in 1 .. l : i \in 1 .. l - 1 + 1 /\ 1 + i - 1 = i
        BY <1>1
      <3> QED BY <1>3, <2>2, <3>1
    <2>5. v = a
      BY <2>2, <2>3, <2>4, SeqEqual
    <2> QED BY <2>5 DEF v
  <1> QED BY <1>2, <1>5, <1>6 DEF u, l, m

\* A list begins with a longest part whose elements are all in Q.
LEMMA LongestPart ==
  ASSUME NEW S, NEW Q
  PROVE  \A s \in Seq(S) : \E a \in Seq(S \cap Q), r \in Seq(S) :
           s = a \o r /\ (r # <<>> => r[1] \notin Q)
  <1> DEFINE Split(s) == \E a \in Seq(S \cap Q), r \in Seq(S) :
                           s = a \o r /\ (r # <<>> => r[1] \notin Q)
             T == {s \in Seq(S) : Split(s)}
  <1>1. <<>> \in T
    <2>1. <<>> \in Seq(S) /\ <<>> \in Seq(S \cap Q) /\ <<>> \o <<>> = <<>>
      BY Concat, EmptySeq
    <2> QED BY <2>1
  <1>2. ASSUME NEW c \in S, NEW s \in Seq(S), s \in T PROVE <<c>> \o s \in T
    <2>1. <<c>> \in Seq(S) /\ <<c>> \o s \in Seq(S)
      BY Single, Concat
    <2>2. CASE c \in Q
      <3>1. PICK a \in Seq(S \cap Q), r \in Seq(S) :
              s = a \o r /\ (r # <<>> => r[1] \notin Q)
        BY <1>2
      <3>2. <<c>> \in Seq(S \cap Q) /\ <<c>> \o a \in Seq(S \cap Q) /\ a \in Seq(S)
        <4>1. c \in S \cap Q
          BY <2>2
        <4>2. a \in Seq(S)
          BY SeqMonotonic
        <4> QED BY <4>1, <4>2, Single, Concat
      <3>3. <<c>> \o s = (<<c>> \o a) \o r
        <4>1. Associates(S)
          BY Assoc
        <4> QED BY <2>1, <3>1, <3>2, <4>1 DEF Associates
      <3>4. Split(<<c>> \o s)
        BY <3>1, <3>2, <3>3, Zenon
      <3> HIDE DEF Split
      <3> QED BY <2>1, <3>4
    <2>3. CASE c \notin Q
      <3>1. <<>> \in Seq(S \cap Q) /\ <<>> \o (<<c>> \o s) = <<c>> \o s
        BY <2>1, Concat, EmptySeq
      <3>2. (<<c>> \o s)[1] = c
        BY <2>1, FirstOf, Single
      <3>3. Split(<<c>> \o s)
        BY <2>1, <2>3, <3>1, <3>2
      <3> HIDE DEF Split
      <3> QED BY <2>1, <3>3
    <2> QED BY <2>2, <2>3
  <1>3. Seq(S) \subseteq T
    <2> HIDE DEF T
    <2> QED BY <1>1, <1>2, ListInduction
  <1> QED BY <1>3

\* Joining lists of lists from the front.
LEMMA FlattenFront ==
  \A S : /\ FlattenSeq(<<>>) = <<>>
         /\ \A x \in Seq(S) : \A seqs \in Seq(Seq(S)) :
              FlattenSeq(seqs) \in Seq(S) /\ FlattenSeq(<<x>> \o seqs) = x \o FlattenSeq(seqs)
  <1> SUFFICES ASSUME NEW S
               PROVE /\ FlattenSeq(<<>>) = <<>>
                     /\ \A x \in Seq(S) : \A seqs \in Seq(Seq(S)) :
                          /\ FlattenSeq(seqs) \in Seq(S)
                          /\ FlattenSeq(<<x>> \o seqs) = x \o FlattenSeq(seqs)
    BY Zenon
  <1>1. FlattenSeq(<<>>) = <<>>
    BY DEF FlattenSeq
  <1>2. ASSUME NEW x \in Seq(S), NEW seqs \in Seq(Seq(S))
        PROVE  /\ FlattenSeq(seqs) \in Seq(S)
               /\ FlattenSeq(<<x>> \o seqs) = x \o FlattenSeq(seqs)
    <2> DEFINE u == <<x>> \o seqs
               l == Len(seqs)
    <2>1. /\ <<x>> \in Seq(Seq(S)) /\ Len(<<x>>) = 1 /\ l \in Nat
          /\ \A i \in 1 .. l : seqs[i] \in Seq(S)
      BY LenProperties, ElementOfSeq
    <2>2. /\ u \in Seq(Seq(S)) /\ Len(u) = 1 + l
          /\ \A i \in 1 .. 1 + l : u[i] = IF i <= 1 THEN <<x>>[i] ELSE seqs[i - 1]
      BY <2>1, ConcatProperties
    <2>3. /\ u[1] = x /\ 1 \in 1 .. Len(u) /\ Len(u) \in Nat
          /\ \A i \in 1 .. l : u[i + 1] = seqs[i] /\ i + 1 \in 1 .. Len(u)
      <3> HIDE DEF u, l
      <3>1. \A i \in 1 .. l : i + 1 \in 1 .. 1 + l /\ ~(i + 1 <= 1) /\ (i + 1) - 1 = i
        BY <2>1
      <3>2. 1 \in 1 .. 1 + l /\ <<x>>[1] = x
        BY <2>1
      <3>3. u[1] = x
        <4>1. 1 <= 1
          OBVIOUS
        <4> QED BY <2>2, <3>2, <4>1, Zenon
      <3>4. \A i \in 1 .. l : u[i + 1] = seqs[i]
        BY <2>2, <3>1
      <3> QED BY <2>1, <2>2, <3>1, <3>2, <3>3, <3>4
    <2> HIDE DEF u
    <2>4. PICK f \in [0 .. l -> Seq(S)] :
            /\ f[0] = <<>> /\ FlattenSeq(seqs) = f[l]
            /\ \A n \in 1 .. l : f[n] = f[n - 1] \o seqs[n]
      BY FlattenSteps DEF Flattened
    <2>5. PICK g \in [0 .. Len(u) -> Seq(S)] :
            /\ g[0] = <<>> /\ FlattenSeq(u) = g[Len(u)]
            /\ \A n \in 1 .. Len(u) : g[n] = g[n - 1] \o u[n]
      BY <2>2, FlattenSteps DEF Flattened
    <2> HIDE DEF l
    <2> DEFINE T == {n \in Nat : n <= l => g[n + 1] = x \o f[n]}
    <2>6. 0 \in T
      <3>1. g[1] = g[0] \o x
        <4>1. g[1] = g[1 - 1] \o u[1]
          BY <2>3, <2>5, Zenon
        <4>2. 1 - 1 = 0
          OBVIOUS
        <4> QED BY <2>3, <4>1, <4>2, Zenon
      <3>2. g[1] = x /\ x \o <<>> = x
        BY <2>5, <3>1, Concat
      <3> QED BY <2>4, <3>2
    <2>7. ASSUME NEW n \in Nat, n \in T, n + 1 <= l PROVE g[(n + 1) + 1] = x \o f[n + 1]
      <3>1. /\ n + 1 \in 1 .. l /\ (n + 1) - 1 = n /\ n \in 0 .. l /\ n <= l
            /\ ((n + 1) + 1) - 1 = n + 1
        BY <2>1, <2>7
      <3>2. g[(n + 1) + 1] = g[n + 1] \o seqs[n + 1] /\ f[n + 1] = f[n] \o seqs[n + 1]
        BY <2>3, <2>4, <2>5, <3>1
      <3>3. g[n + 1] = x \o f[n] /\ f[n] \in Seq(S) /\ seqs[n + 1] \in Seq(S)
        BY <2>1, <2>4, <2>7, <3>1
      <3>4. Associates(S)
        BY Assoc
      <3>5. g[(n + 1) + 1] = (x \o f[n]) \o seqs[n + 1]
        BY <3>2, <3>3
      <3>6. (x \o f[n]) \o seqs[n + 1] = x \o (f[n] \o seqs[n + 1])
        BY <3>3, <3>4 DEF Associates
      <3> QED BY <3>2, <3>5, <3>6, Zenon
    <2>8. Nat \subseteq T
      <3>1. ASSUME NEW n \in Nat, n \in T PROVE n + 1 \in T
        <4>1. n + 1 <= l => g[(n + 1) + 1] = x \o f[n + 1]
          <5> HIDE DEF T
          <5> QED BY <2>7, <3>1
        <4>2. n + 1 \in Nat
          OBVIOUS
        <4> QED BY <4>1, <4>2, Zenon
      <3> HIDE DEF T
      <3> QED BY <2>6, <3>1, SetInduction
    <2>9. g[l + 1] = x \o f[l] /\ l + 1 = Len(u) /\ l \in 0 .. l
      BY <2>1, <2>2, <2>8
    <2> QED BY <2>4, <2>5, <2>9 DEF u
  <1> QED BY <1>1, <1>2

\* The library of the texts joins lists as the library of the proofs does.
LEMMA FlattenText == \A seqs : Text!FlattenSeq(seqs) = FlattenSeq(seqs)
  BY DEF Text!FlattenSeq, FlattenSeq

\* What becomes of a list, element by element.
EachLaw(S, W, f) ==
  /\ Text!Each(<<>>, f) = <<>>
  /\ \A s \in Seq(S) : Text!Each(s, f) \in Seq(W)
  /\ \A c \in S : \A s \in Seq(S) :
       Text!Each(<<c>> \o s, f) = f[c] \o Text!Each(s, f)

\* A text whose elements are replaced one by one, from the front.
LEMMA EachFront ==
  ASSUME NEW S, NEW W, NEW f \in [S -> Seq(W)] PROVE EachLaw(S, W, f)
  <1> DEFINE Of(s) == [i \in DOMAIN s |-> f[s[i]]]
  <1>1. \A s \in Seq(S) : Of(s) \in Seq(Seq(W)) /\ Len(Of(s)) = Len(s)
    <2> SUFFICES ASSUME NEW s \in Seq(S) PROVE Of(s) \in Seq(Seq(W)) /\ Len(Of(s)) = Len(s)
      OBVIOUS
    <2>1. DOMAIN s = 1 .. Len(s) /\ Len(s) \in Nat /\ \A i \in 1 .. Len(s) : f[s[i]] \in Seq(W)
      BY LenProperties, ElementOfSeq
    <2> QED BY <2>1
  <1>2. \A s : Text!Each(s, f) = FlattenSeq(Of(s))
    BY FlattenText DEF Text!Each
  <1>3. ASSUME NEW c \in S, NEW s \in Seq(S) PROVE Of(<<c>> \o s) = <<f[c]>> \o Of(s)
    <2> DEFINE u == <<c>> \o s
               v == <<f[c]>> \o Of(s)
    <2>1. /\ <<c>> \in Seq(S) /\ Len(<<c>>) = 1 /\ Len(s) \in Nat
          /\ <<f[c]>> \in Seq(Seq(W)) /\ Len(<<f[c]>>) = 1
      BY LenProperties
    <2>2. /\ u \in Seq(S) /\ Len(u) = 1 + Len(s)
          /\ \A i \in 1 .. 1 + Len(s) : u[i] = IF i <= 1 THEN <<c>>[i] ELSE s[i - 1]
      BY <2>1, ConcatProperties
    <2>3. /\ v \in Seq(Seq(W)) /\ Len(v) = 1 + Len(s)
          /\ \A i \in 1 .. 1 + Len(s) : v[i] = IF i <= 1 THEN <<f[c]>>[i] ELSE Of(s)[i - 1]
      <3>1. Of(s) \in Seq(Seq(W)) /\ Len(Of(s)) = Len(s)
        BY <1>1
      <3> HIDE DEF Of
      <3> QED BY <2>1, <3>1, ConcatProperties
    <2> HIDE DEF u, v
    <2>4. Of(u) \in Seq(Seq(W)) /\ Len(Of(u)) = 1 + Len(s)
      BY <1>1, <2>2
    <2>5. ASSUME NEW i \in 1 .. 1 + Len(s) PROVE Of(u)[i] = v[i]
      <3>1. DOMAIN u = 1 .. 1 + Len(s) /\ DOMAIN s = 1 .. Len(s)
        BY <2>2, LenProperties
      <3>2. Of(u)[i] = f[u[i]]
        BY <3>1
      <3>3. CASE i = 1
        <4>1. u[i] = c /\ v[i] = f[c]
          <5> HIDE DEF Of
          <5>1. <<c>>[1] = c /\ <<f[c]>>[1] = f[c] /\ i <= 1
            BY <3>3
          <5> QED BY <2>2, <2>3, <3>3, <5>1
        <4> QED BY <3>2, <4>1
      <3>4. CASE i # 1
        <4>1. i - 1 \in DOMAIN s /\ ~(i <= 1)
          BY <2>1, <3>1, <3>4
        <4>2. u[i] = s[i - 1] /\ v[i] = Of(s)[i - 1]
          <5> HIDE DEF Of
          <5> QED BY <2>2, <2>3, <4>1
        <4>3. Of(s)[i - 1] = f[s[i - 1]]
          BY <4>1
        <4> HIDE DEF Of
        <4> QED BY <3>2, <4>2, <4>3
      <3> QED BY <3>3, <3>4
    <2>6. Of(u) = v
      <3> HIDE DEF Of
      <3> QED BY <2>3, <2>4, <2>5, SeqEqual
    <2> QED BY <2>6 DEF u, v
  <1>4. Of(<<>>) = <<>>
    OBVIOUS
  <1> HIDE DEF Of
  <1>5. Text!Each(<<>>, f) = <<>>
    BY <1>2, <1>4, FlattenFront
  <1>6. \A s \in Seq(S) : FlattenSeq(Of(s)) \in Seq(W)
    BY <1>1, FlattenFront, Single
  <1>7. \A c \in S : \A s \in Seq(S) :
          FlattenSeq(Of(<<c>> \o s)) = f[c] \o FlattenSeq(Of(s))
    BY <1>1, <1>3, FlattenFront
  <1> QED BY <1>2, <1>5, <1>6, <1>7 DEF EachLaw

ReadsEach(K, S, P, f, g) == \A k \in K : \A s \in Seq(S) : P[f[k] \o s] = g[k] \o P[s]

ReadsAll(K, S, P, f, g) ==
  \A z \in Seq(K) : \A s \in Seq(S) :
    P[Text!Each(z, f) \o s] = Text!Each(z, g) \o P[s]

\* If P reads f[k] as g[k] whatever follows, it reads a list of them so.
LEMMA Piecewise ==
  ASSUME NEW K, NEW S, NEW W, NEW f \in [K -> Seq(S)], NEW g \in [K -> Seq(W)],
         NEW P \in [Seq(S) -> Seq(W)], ReadsEach(K, S, P, f, g)
  PROVE  ReadsAll(K, S, P, f, g)
  <1>0. EachLaw(K, S, f) /\ EachLaw(K, W, g)
    BY EachFront
  <1> DEFINE T == {z \in Seq(K) : \A s \in Seq(S) :
                     P[Text!Each(z, f) \o s] = Text!Each(z, g) \o P[s]}
  <1>1. <<>> \in T
    <2>1. \A s \in Seq(S) : <<>> \o s = s /\ <<>> \o P[s] = P[s]
      BY Concat
    <2>2. Text!Each(<<>>, f) = <<>> /\ Text!Each(<<>>, g) = <<>>
      BY <1>0 DEF EachLaw
    <2>3. <<>> \in Seq(K)
      BY EmptySeq
    <2> QED BY <2>1, <2>2, <2>3
  <1>2. ASSUME NEW k \in K, NEW z \in Seq(K), z \in T PROVE <<k>> \o z \in T
    <2>1. <<k>> \o z \in Seq(K)
      BY Single, Concat
    <2>2. /\ Text!Each(<<k>> \o z, f) = f[k] \o Text!Each(z, f)
          /\ Text!Each(<<k>> \o z, g) = g[k] \o Text!Each(z, g)
          /\ Text!Each(z, f) \in Seq(S) /\ Text!Each(z, g) \in Seq(W)
      <3>1. /\ \A v \in Seq(K) : Text!Each(v, f) \in Seq(S)
            /\ \A c \in K : \A v \in Seq(K) :
                 Text!Each(<<c>> \o v, f) = f[c] \o Text!Each(v, f)
        BY <1>0 DEF EachLaw
      <3>2. /\ \A v \in Seq(K) : Text!Each(v, g) \in Seq(W)
            /\ \A c \in K : \A v \in Seq(K) :
                 Text!Each(<<c>> \o v, g) = g[c] \o Text!Each(v, g)
        BY <1>0 DEF EachLaw
      <3> QED BY <3>1, <3>2
    <2>3. ASSUME NEW s \in Seq(S)
          PROVE  P[Text!Each(<<k>> \o z, f) \o s] = Text!Each(<<k>> \o z, g) \o P[s]
      <3> DEFINE x == Text!Each(z, f)
                 y == Text!Each(z, g)
      <3>1. x \in Seq(S) /\ y \in Seq(W) /\ x \o s \in Seq(S) /\ P[s] \in Seq(W)
            /\ f[k] \in Seq(S) /\ g[k] \in Seq(W)
        BY <2>2, Concat
      <3>2. P[x \o s] = y \o P[s]
        BY <1>2
      <3>6. \A v \in Seq(S) : P[f[k] \o v] = g[k] \o P[v]
        BY DEF ReadsEach
      <3> HIDE DEF x, y
      <3>0. Associates(S) /\ Associates(W)
        BY Assoc
      <3>3. (f[k] \o x) \o s = f[k] \o (x \o s)
        BY <3>0, <3>1 DEF Associates
      <3>4. P[f[k] \o (x \o s)] = g[k] \o (y \o P[s])
        BY <3>1, <3>2, <3>6
      <3>5. g[k] \o (y \o P[s]) = (g[k] \o y) \o P[s]
        BY <3>0, <3>1 DEF Associates
      <3> QED BY <2>2, <3>3, <3>4, <3>5 DEF x, y
    <2> QED BY <2>1, <2>3
  <1>3. Seq(K) \subseteq T
    <2> HIDE DEF T
    <2> QED BY <1>1, <1>2, ListInduction
  <1> QED BY <1>3 DEF ReadsAll

\* What a recursion over the numbers defines exists.
Iterates(f, V, base, step) ==
  /\ f \in [Nat -> V] /\ f[0] = base
  /\ \A n \in Nat : f[n + 1] = step[f[n]]

\* ... and so does the function it iterates.
LEMMA NatRecursion ==
  ASSUME NEW V, NEW base \in V, NEW step \in [V -> V]
  PROVE  \E f : Iterates(f, V, base, step)
  <1> DEFINE Right(f, m) == /\ f \in [0 .. m -> V] /\ f[0] = base
                            /\ \A k \in 1 .. m : f[k] = step[f[k - 1]]
             up == [m \in Nat |-> CHOOSE f : Right(f, m)]
             f == [n \in Nat |-> up[n][n]]
  <1>1. ASSUME NEW m \in Nat PROVE Right(up[m], m)
    <2> DEFINE steps == [k \in 1 .. m |-> step]
    <2>1. steps \in [1 .. m -> [V -> V]] /\ \A k \in 1 .. m : steps[k] = step
      OBVIOUS
    <2> HIDE DEF steps
    <2>2. PICK g \in [0 .. m -> V] :
            g[0] = base /\ \A k \in 1 .. m : g[k] = steps[k][g[k - 1]]
      <3> HIDE DEF Right, up
      <3>1. \E g \in [0 .. m -> V] :
              g[0] = base /\ \A k \in 1 .. m : g[k] = steps[k][g[k - 1]]
        <4>1. \A each \in [1 .. m -> [V -> V]] : \E g \in [0 .. m -> V] :
                g[0] = base /\ \A k \in 1 .. m : g[k] = each[k][g[k - 1]]
          BY Recursion
        <4> QED BY <2>1, <4>1, Zenon
      <3> QED BY <3>1
    <2>3. Right(g, m)
      BY <2>1, <2>2
    <2>4. up[m] = CHOOSE h : Right(h, m)
      OBVIOUS
    <2> HIDE DEF Right, up
    <2> QED BY <2>3, <2>4
  <1> HIDE DEF up
  <1>2. ASSUME NEW l \in Nat, NEW m \in Nat, NEW n \in Nat, n <= l, n <= m
        PROVE  up[l][n] = up[m][n]
    <2> DEFINE T == {k \in Nat : k <= n => up[l][k] = up[m][k]}
    <2>0. /\ up[l][0] = base /\ \A k \in 1 .. l : up[l][k] = step[up[l][k - 1]]
          /\ up[m][0] = base /\ \A k \in 1 .. m : up[m][k] = step[up[m][k - 1]]
      BY <1>1
    <2>1. 0 \in T
      BY <2>0
    <2>2. ASSUME NEW k \in Nat, k \in T, k + 1 <= n PROVE up[l][k + 1] = up[m][k + 1]
      <3>1. k + 1 \in 1 .. l /\ k + 1 \in 1 .. m /\ (k + 1) - 1 = k /\ k <= n
        BY <1>2, <2>2
      <3>2. up[l][k + 1] = step[up[l][k]] /\ up[m][k + 1] = step[up[m][k]]
        BY <2>0, <3>1
      <3>3. up[l][k] = up[m][k]
        BY <2>2, <3>1
      <3> QED BY <3>2, <3>3
    <2>3. \A k \in Nat : k \in T => k + 1 \in T
      BY <2>2
    <2> HIDE DEF T
    <2>4. Nat \subseteq T
      BY <2>1, <2>3, SetInduction
    <2> QED BY <2>4 DEF T
  <1>3. ASSUME NEW n \in Nat PROVE f[n] \in V /\ f[n + 1] = step[f[n]]
    <2>1. n \in 0 .. n /\ n + 1 \in 1 .. n + 1 /\ (n + 1) - 1 = n /\ n + 1 \in Nat
          /\ n <= n /\ n <= n + 1
      OBVIOUS
    <2>2. f[n] = up[n][n] /\ f[n + 1] = up[n + 1][n + 1]
      BY <2>1
    <2>3. up[n][n] \in V
      BY <1>1, <2>1
    <2>4. up[n + 1][n + 1] = step[up[n + 1][n]]
      <3>1. Right(up[n + 1], n + 1)
        BY <1>1, <2>1
      <3> QED BY <2>1, <3>1
    <2>5. up[n + 1][n] = up[n][n]
      BY <1>2, <2>1
    <2> QED BY <2>2, <2>3, <2>4, <2>5
  <1>4. f[0] = base
    BY <1>1
  <1>5. f \in [Nat -> V]
    <2>1. f = [n \in Nat |-> f[n]]
      OBVIOUS
    <2> HIDE DEF f
    <2> QED BY <1>3, <2>1
  <1>6. Iterates(f, V, base, step)
    <2> HIDE DEF f
    <2> QED BY <1>3, <1>4, <1>5 DEF Iterates
  <1> HIDE DEF f
  <1> QED BY <1>6

\* A text that is read from the front.
Readable(size, out, W) ==
  \A s \in Text!Texts : s # <<>> => size[s] \in 1 .. Len(s) /\ out[s] \in Seq(W)

ReadsBy(h, size, out) ==
  h = [s \in Text!Texts |->
         IF s = <<>> THEN <<>> ELSE out[s] \o h[SubSeq(s, size[s] + 1, Len(s))]]

ReadLaw(size, out, W) ==
  /\ Text!Read(size, out, <<>>) = <<>>
  /\ \A s \in Text!Texts :
       /\ Text!Read(size, out, s) \in Seq(W)
       /\ s # <<>> => Text!Read(size, out, s) =
                        out[s] \o Text!Read(size, out, SubSeq(s, size[s] + 1, Len(s)))

\* What is left of a text after a first part.
LEMMA RestOf ==
  ASSUME NEW Q, NEW s \in Seq(Q), NEW n \in 1 .. Len(s)
  PROVE  /\ SubSeq(s, n + 1, Len(s)) \in Seq(Q)
         /\ Len(SubSeq(s, n + 1, Len(s))) = Len(s) - n
  <1>1. Len(s) \in Nat /\ \A i \in 1 .. Len(s) : s[i] \in Q
    BY LenProperties, ElementOfSeq
  <1>2. \A i \in n + 1 .. Len(s) : s[i] \in Q
    BY <1>1
  <1>3. /\ SubSeq(s, n + 1, Len(s)) \in Seq(Q)
        /\ Len(SubSeq(s, n + 1, Len(s))) = IF n + 1 <= Len(s) THEN Len(s) - (n + 1) + 1 ELSE 0
    BY <1>1, <1>2, SubSeqProperties
  <1> QED BY <1>1, <1>3

\* A text can be read whatever the sizes of its parts are.
LEMMA ReadExists ==
  ASSUME NEW size, NEW out, NEW W, Readable(size, out, W)
  PROVE  \E h : ReadsBy(h, size, out)
  <1> DEFINE After(s) == SubSeq(s, size[s] + 1, Len(s))
             Then(g, s) == IF s = <<>> THEN <<>> ELSE out[s] \o g[After(s)]
             V == [Text!Texts -> Seq(W)]
             base == [s \in Text!Texts |-> <<>>]
             step == [g \in V |-> [s \in Text!Texts |-> Then(g, s)]]
  <1>1. ASSUME NEW s \in Text!Texts
        PROVE  /\ Len(s) \in Nat
               /\ s # <<>> => After(s) \in Text!Texts /\ Len(After(s)) \in Nat /\ Len(After(s)) < Len(s)
    <2>1. Len(s) \in Nat
      BY LenProperties DEF Text!Texts
    <2>2. ASSUME s # <<>>
          PROVE  After(s) \in Text!Texts /\ Len(After(s)) \in Nat /\ Len(After(s)) < Len(s)
      <3>1. size[s] \in 1 .. Len(s)
        BY <2>2 DEF Readable
      <3>2. After(s) \in Text!Texts /\ Len(After(s)) = Len(s) - size[s]
        BY <3>1, RestOf DEF Text!Texts
      <3> HIDE DEF After
      <3> QED BY <2>1, <3>1, <3>2
    <2> QED BY <2>1, <2>2
  <1> HIDE DEF After
  <1>2. ASSUME NEW g \in V, NEW s \in Text!Texts PROVE Then(g, s) \in Seq(W)
    <2>1. CASE s = <<>>
      BY <2>1, EmptySeq
    <2>2. CASE s # <<>>
      <3>1. out[s] \in Seq(W) /\ g[After(s)] \in Seq(W)
        BY <1>1, <2>2 DEF Readable
      <3> QED BY <2>2, <3>1, Concat
    <2> QED BY <2>1, <2>2
  <1>3. base \in V
    BY EmptySeq
  <1>4. step \in [V -> V]
    <2>1. \A g \in V : [s \in Text!Texts |-> Then(g, s)] \in V
      <3> HIDE DEF Then
      <3> QED BY <1>2
    <2> HIDE DEF V, Then
    <2> QED BY <2>1
  <1>5. PICK f : Iterates(f, V, base, step)
    <2> HIDE DEF V, base, step
    <2> QED BY <1>3, <1>4, NatRecursion
  <1>6. \A n \in Nat : \A s \in Text!Texts : f[n + 1][s] = Then(f[n], s)
    <2> SUFFICES ASSUME NEW n \in Nat PROVE \A s \in Text!Texts : f[n + 1][s] = Then(f[n], s)
      OBVIOUS
    <2>1. f[n] \in V /\ f[n + 1] = step[f[n]]
      <3> HIDE DEF V, step, base
      <3> QED BY <1>5 DEF Iterates
    <2>2. step[f[n]] = [s \in Text!Texts |-> Then(f[n], s)]
      <3> HIDE DEF V, Then
      <3> QED BY <2>1
    <2> HIDE DEF Then, step, V
    <2> QED BY <2>1, <2>2
  <1> HIDE DEF V, base, step
  <1> DEFINE T == {n \in Nat : \A s \in Text!Texts : \A k \in Nat :
                     Len(s) < n /\ n <= k => f[k][s] = f[n][s]}
  <1>7. 0 \in T
    <2>1. \A s \in Text!Texts : ~(Len(s) < 0)
      BY <1>1
    <2> QED BY <2>1
  <1>8. ASSUME NEW n \in Nat, n \in T, NEW s \in Text!Texts, NEW k \in Nat,
               Len(s) < n + 1, n + 1 <= k
        PROVE  f[k][s] = f[n + 1][s]
    <2>1. k - 1 \in Nat /\ (k - 1) + 1 = k /\ n <= k - 1
      BY <1>8
    <2>2. f[k][s] = Then(f[k - 1], s) /\ f[n + 1][s] = Then(f[n], s)
      <3> HIDE DEF Then
      <3>1. f[(k - 1) + 1][s] = Then(f[k - 1], s)
        BY <1>6, <2>1
      <3> QED BY <1>6, <2>1, <3>1
    <2>3. CASE s = <<>>
      BY <2>2, <2>3
    <2>4. CASE s # <<>>
      <3>1. After(s) \in Text!Texts /\ Len(After(s)) < n
        BY <1>1, <1>8, <2>4
      <3>2. f[k - 1][After(s)] = f[n][After(s)]
        BY <1>8, <2>1, <3>1
      <3> QED BY <2>2, <2>4, <3>2
    <2> QED BY <2>3, <2>4
  <1>9. Nat \subseteq T
    <2>1. \A n \in Nat : n \in T => n + 1 \in T
      <3> HIDE DEF Then
      <3> QED BY <1>8
    <2> HIDE DEF T
    <2> QED BY <1>7, <2>1, SetInduction
  <1> DEFINE R == [s \in Text!Texts |-> f[Len(s) + 1][s]]
  <1>10. ASSUME NEW s \in Text!Texts PROVE R[s] = Then(R, s)
    <2>1. R[s] = f[Len(s) + 1][s]
      OBVIOUS
    <2>2. R[s] = Then(f[Len(s)], s)
      <3> HIDE DEF Then, R
      <3> QED BY <1>1, <1>6, <2>1
    <2>3. CASE s = <<>>
      <3> HIDE DEF R
      <3> QED BY <2>2, <2>3
    <2>4. CASE s # <<>>
      <3>1. After(s) \in Text!Texts /\ Len(After(s)) \in Nat /\ Len(After(s)) < Len(s)
        BY <1>1, <2>4
      <3>2. R[After(s)] = f[Len(After(s)) + 1][After(s)]
        BY <3>1
      <3>3. f[Len(s)][After(s)] = f[Len(After(s)) + 1][After(s)]
        <4>1. Len(After(s)) + 1 \in T /\ Len(After(s)) < Len(After(s)) + 1
              /\ Len(After(s)) + 1 <= Len(s) /\ Len(s) \in Nat
          BY <1>1, <1>9, <3>1
        <4> QED BY <3>1, <4>1
      <3> HIDE DEF R
      <3> QED BY <2>2, <2>4, <3>2, <3>3
    <2> QED BY <2>3, <2>4
  <1>11. ReadsBy(R, size, out)
    <2>1. R = [s \in Text!Texts |-> R[s]]
      OBVIOUS
    <2> HIDE DEF R
    <2> QED BY <1>10, <2>1 DEF ReadsBy, After
  <1> HIDE DEF R
  <1> QED BY <1>11

\* Reading is a recursion: a part, then the rest.
LEMMA ReadSteps ==
  ASSUME NEW size, NEW out, NEW W, Readable(size, out, W)
  PROVE  ReadLaw(size, out, W)
  <1> DEFINE h == CHOOSE g : ReadsBy(g, size, out)
             After(s) == SubSeq(s, size[s] + 1, Len(s))
  <1>1. ReadsBy(h, size, out)
    BY ReadExists
  <1>2. \A s : Text!Read(size, out, s) = h[s]
    BY Zenon DEF Text!Read, ReadsBy
  <1> HIDE DEF h
  <1>3. \A s \in Text!Texts : h[s] = IF s = <<>> THEN <<>> ELSE out[s] \o h[After(s)]
    BY <1>1 DEF ReadsBy
  <1> DEFINE T == {n \in Nat : \A s \in Text!Texts : Len(s) <= n => h[s] \in Seq(W)}
  <1>4. ASSUME NEW s \in Text!Texts, s # <<>>
        PROVE  /\ After(s) \in Text!Texts /\ Len(After(s)) \in Nat /\ Len(After(s)) < Len(s)
               /\ out[s] \in Seq(W)
    <2>1. size[s] \in 1 .. Len(s) /\ out[s] \in Seq(W) /\ Len(s) \in Nat
      BY <1>4, LenProperties DEF Readable, Text!Texts
    <2>2. After(s) \in Text!Texts /\ Len(After(s)) = Len(s) - size[s]
      BY <2>1, RestOf DEF Text!Texts
    <2> HIDE DEF After
    <2> QED BY <2>1, <2>2
  <1> HIDE DEF After
  <1>5. 0 \in T
    <2>1. \A s \in Text!Texts : Len(s) <= 0 => s = <<>>
      <3>1. \A s \in Text!Texts : s # <<>> => Len(s) \in Nat \ {0}
        BY EmptySeq DEF Text!Texts
      <3> QED BY <3>1
    <2>2. <<>> \in Seq(W)
      BY EmptySeq
    <2> QED BY <1>3, <2>1, <2>2
  <1>6. ASSUME NEW n \in Nat, n \in T, NEW s \in Text!Texts, Len(s) <= n + 1
        PROVE  h[s] \in Seq(W)
    <2>1. CASE s = <<>>
      BY <1>3, <2>1, EmptySeq
    <2>2. CASE s # <<>>
      <3>1. /\ After(s) \in Text!Texts /\ Len(After(s)) <= n /\ out[s] \in Seq(W)
        <4>1. Len(s) \in Nat
          BY LenProperties DEF Text!Texts
        <4> QED BY <1>4, <1>6, <2>2, <4>1
      <3>2. h[After(s)] \in Seq(W)
        BY <1>6, <3>1
      <3> QED BY <1>3, <2>2, <3>1, <3>2, Concat
    <2> QED BY <2>1, <2>2
  <1>7. Nat \subseteq T
    <2>1. \A n \in Nat : n \in T => n + 1 \in T
      BY <1>6
    <2> HIDE DEF T
    <2> QED BY <1>5, <2>1, SetInduction
  <1>8. ASSUME NEW s \in Text!Texts PROVE h[s] \in Seq(W)
    <2>1. Len(s) \in T /\ Len(s) <= Len(s)
      <3>1. Len(s) \in Nat
        BY LenProperties DEF Text!Texts
      <3> HIDE DEF T
      <3> QED BY <1>7, <3>1
    <2> QED BY <2>1
  <1>9. <<>> \in Text!Texts
    BY EmptySeq DEF Text!Texts
  <1>10. h[<<>>] = <<>>
    BY <1>3, <1>9
  <1> QED BY <1>2, <1>3, <1>8, <1>10 DEF ReadLaw, After

\* What is read of a text whose characters are all in Q.
LEMMA ReadRange ==
  ASSUME NEW size, NEW out, NEW W, Readable(size, out, W),
         NEW Q \in SUBSET Text!Character, NEW V,
         \A s \in Seq(Q) : s # <<>> => out[s] \in Seq(V)
  PROVE  \A s \in Seq(Q) : Text!Read(size, out, s) \in Seq(V)
  <1> DEFINE R(s) == Text!Read(size, out, s)
             After(s) == SubSeq(s, size[s] + 1, Len(s))
             T == {n \in Nat : \A s \in Seq(Q) : Len(s) <= n => R(s) \in Seq(V)}
  <1>1. \A s \in Seq(Q) : s \in Text!Texts /\ Len(s) \in Nat /\ (s # <<>> => Len(s) # 0)
    BY SeqMonotonic, LenProperties, EmptySeq DEF Text!Texts
  <1>2. R(<<>>) = <<>> /\ \A s \in Text!Texts : s # <<>> => R(s) = out[s] \o R(After(s))
    BY ReadSteps DEF ReadLaw
  <1>3. ASSUME NEW s \in Seq(Q), s # <<>>
        PROVE  After(s) \in Seq(Q) /\ Len(After(s)) \in Nat /\ Len(After(s)) < Len(s)
    <2>1. size[s] \in 1 .. Len(s)
      BY <1>1, <1>3 DEF Readable
    <2>2. After(s) \in Seq(Q) /\ Len(After(s)) = Len(s) - size[s]
      BY <2>1, RestOf
    <2> HIDE DEF After
    <2> QED BY <1>1, <2>1, <2>2
  <1> HIDE DEF R, After
  <1>4. 0 \in T
    <2>1. \A s \in Seq(Q) : Len(s) <= 0 => s = <<>>
      BY <1>1
    <2>2. <<>> \in Seq(V)
      BY EmptySeq
    <2> QED BY <1>2, <2>1, <2>2
  <1>5. ASSUME NEW n \in Nat, n \in T, NEW s \in Seq(Q), Len(s) <= n + 1
        PROVE  R(s) \in Seq(V)
    <2>1. CASE s = <<>>
      BY <1>2, <2>1, EmptySeq
    <2>2. CASE s # <<>>
      <3>1. After(s) \in Seq(Q) /\ Len(After(s)) <= n
        BY <1>1, <1>3, <1>5, <2>2
      <3>2. R(After(s)) \in Seq(V) /\ out[s] \in Seq(V)
        BY <1>5, <2>2, <3>1
      <3> QED BY <1>1, <1>2, <2>2, <3>2, Concat
    <2> QED BY <2>1, <2>2
  <1>6. Nat \subseteq T
    <2>1. \A n \in Nat : n \in T => n + 1 \in T
      <3> SUFFICES ASSUME NEW n \in Nat, n \in T
                   PROVE  \A s \in Seq(Q) : Len(s) <= n + 1 => R(s) \in Seq(V)
        OBVIOUS
      <3> HIDE DEF T
      <3> QED BY <1>5
    <2> HIDE DEF T
    <2> QED BY <1>4, <2>1, SetInduction
  <1>7. ASSUME NEW s \in Seq(Q) PROVE R(s) \in Seq(V)
    <2>1. Len(s) \in T /\ Len(s) <= Len(s)
      BY <1>1, <1>6
    <2> QED BY <2>1
  <1> QED BY <1>7 DEF R

\* The greatest number of a set is the one no other exceeds.
LEMMA MaxIs ==
  \A X : \A m \in X : X \subseteq Int /\ (\A n \in X : n <= m) => Text!Max(X) = m
  <1> SUFFICES ASSUME NEW X, NEW m \in X, X \subseteq Int, \A n \in X : n <= m
               PROVE  Text!Max(X) = m
    BY Zenon
  <1>1. \A n \in X : m >= n
    OBVIOUS
  <1>2. \A x \in X : (\A n \in X : x >= n) => x = m
    OBVIOUS
  <1> QED BY <1>1, <1>2 DEF Text!Max

\* The least number of a set is the one that exceeds no other.
LEMMA MinIs ==
  \A X : \A m \in X : X \subseteq Int /\ (\A n \in X : m <= n) => Text!Min(X) = m
  <1> SUFFICES ASSUME NEW X, NEW m \in X, X \subseteq Int, \A n \in X : m <= n
               PROVE  Text!Min(X) = m
    BY Zenon
  <1>1. \A x \in X : (\A n \in X : x <= n) => x = m
    OBVIOUS
  <1> QED BY <1>1 DEF Text!Min

\* The elements of two lists put together.
Elements(S, a, r) ==
  /\ a \o r \in Seq(S)
  /\ Len(a) \in Nat /\ Len(r) \in Nat /\ Len(a \o r) = Len(a) + Len(r)
  /\ \A i \in 1 .. Len(a) : (a \o r)[i] = a[i] /\ a[i] \in S
  /\ \A i \in 1 .. Len(r) : (a \o r)[Len(a) + i] = r[i] /\ r[i] \in S

\* The elements of a text in two parts.
LEMMA ElementsOf == \A S : \A a, r \in Seq(S) : Elements(S, a, r)
  <1> SUFFICES ASSUME NEW S, NEW a \in Seq(S), NEW r \in Seq(S) PROVE Elements(S, a, r)
    BY Zenon
  <1>1. Len(a) \in Nat /\ Len(r) \in Nat
    BY LenProperties
  <1>2. /\ \A i \in 1 .. Len(a) : a[i] \in S
        /\ \A i \in 1 .. Len(r) : r[i] \in S
    BY ElementOfSeq
  <1>3. /\ a \o r \in Seq(S) /\ Len(a \o r) = Len(a) + Len(r)
        /\ \A i \in 1 .. Len(a) + Len(r) :
             (a \o r)[i] = IF i <= Len(a) THEN a[i] ELSE r[i - Len(a)]
    BY ConcatProperties
  <1> DEFINE u == a \o r
             l == Len(a)
             m == Len(r)
  <1> HIDE DEF u, l, m
  <1>4. \A i \in 1 .. l : i \in 1 .. l + m /\ i <= l
    BY <1>1 DEF l, m
  <1>5. \A i \in 1 .. m : l + i \in 1 .. l + m /\ ~(l + i <= l) /\ (l + i) - l = i
    BY <1>1 DEF l, m
  <1>6. \A i \in 1 .. l + m : u[i] = IF i <= l THEN a[i] ELSE r[i - l]
    BY <1>3 DEF u, l, m
  <1>7. \A i \in 1 .. l : u[i] = a[i]
    BY <1>4, <1>6
  <1>8. \A i \in 1 .. m : u[l + i] = r[i]
    BY <1>5, <1>6
  <1> QED BY <1>1, <1>2, <1>3, <1>7, <1>8 DEF u, l, m, Elements

\* The longest part in front whose elements are in Q is as long as this says.
Longest(Q, u) == Text!Max({n \in 0 .. Len(u) : \A k \in 1 .. n : u[k] \in Q})

\* The longest run from the front ends where another class begins.
LEMMA LongestIs ==
  \A S, Q : \A a \in Seq(S \cap Q) : \A r \in Seq(S) :
    (r # <<>> => r[1] \notin Q) => Longest(Q, a \o r) = Len(a)
  <1> SUFFICES ASSUME NEW S, NEW Q, NEW a \in Seq(S \cap Q), NEW r \in Seq(S),
                      r # <<>> => r[1] \notin Q
               PROVE  Longest(Q, a \o r) = Len(a)
    BY Zenon
  <1> DEFINE u == a \o r
             X == {n \in 0 .. Len(u) : \A k \in 1 .. n : u[k] \in Q}
  <1>1. a \in Seq(S) /\ \A i \in 1 .. Len(a) : a[i] \in Q
    BY SeqMonotonic, ElementOfSeq
  <1>2. /\ Len(a) \in Nat /\ Len(r) \in Nat /\ Len(u) = Len(a) + Len(r)
        /\ \A i \in 1 .. Len(a) : u[i] = a[i]
        /\ \A i \in 1 .. Len(r) : u[Len(a) + i] = r[i]
    <2>1. Elements(S, a, r)
      BY <1>1, ElementsOf, Zenon
    <2> QED BY <2>1 DEF Elements
  <1> HIDE DEF u
  <1>3. Len(a) \in X
    BY <1>1, <1>2
  <1>4. ASSUME NEW n \in X, ~(n <= Len(a)) PROVE FALSE
    <2>1. n \in 0 .. Len(a) + Len(r) /\ \A k \in 1 .. n : u[k] \in Q
      BY <1>2
    <2>2. 1 \in 1 .. Len(r) /\ Len(a) + 1 \in 1 .. n
      BY <1>2, <1>4, <2>1
    <2>3. u[Len(a) + 1] = r[1] /\ u[Len(a) + 1] \in Q
      BY <1>2, <2>1, <2>2
    <2>4. r # <<>>
      BY <1>2, <2>2, EmptySeq
    <2> QED BY <2>3, <2>4
  <1>5. X \subseteq Int
    BY <1>2
  <1> HIDE DEF X
  <1>6. Text!Max(X) = Len(a)
    BY <1>3, <1>4, <1>5, MaxIs
  <1> QED BY <1>6 DEF X, u, Longest

-----------------------------------------------------------------------------
(* Normalization: regular expressions *)

\* Texts are lists of characters, and so are these.
LEMMA TextLists ==
  /\ Text!Texts = Seq(Text!Character) /\ <<>> \in Text!Texts
  /\ \A c \in Text!Character : <<c>> \in Text!Texts /\ Len(<<c>>) = 1
  /\ \A s, t \in Text!Texts : s \o t \in Text!Texts
  /\ \A s \in Text!Texts : s \o <<>> = s /\ <<>> \o s = s /\ Len(s) \in Nat
  /\ \A s \in Text!Texts : s # <<>> => Len(s) # 0 /\ s[1] \in Text!Character
                             /\ Tail(s) \in Text!Texts /\ s = <<s[1]>> \o Tail(s)
  <1> DEFINE S == Text!Character
  <1> HIDE DEF S
  <1>1. \A s, t \in Seq(S) : s \o t \in Seq(S) /\ s \o <<>> = s /\ <<>> \o s = s
    BY Concat, Zenon
  <1>2. \A s \in Seq(S) : s # <<>> =>
          s[1] \in S /\ Tail(s) \in Seq(S) /\ s = <<s[1]>> \o Tail(s)
    BY TakenApart, Zenon
  <1>3. \A c \in S : <<c>> \in Seq(S) /\ Len(<<c>>) = 1
    BY Single, Zenon
  <1>4. <<>> \in Seq(S) /\ \A s \in Seq(S) : Len(s) \in Nat /\ (s # <<>> => Len(s) # 0)
    BY EmptySeq, LenProperties
  <1> QED BY <1>1, <1>2, <1>3, <1>4 DEF Text!Texts, S

\* A list of characters of one class is a text.
LEMMA ClassText ==
  \A Q : \A s \in Seq(Text!Character \cap Q) : s \in Text!Texts
  BY SeqMonotonic DEF Text!Texts

\* The classes of characters are classes of characters.
LEMMA Classes ==
  /\ Text!Digit \subseteq Text!Character /\ Text!White \subseteq Text!Character
  /\ Text!Letter \subseteq Text!Character
  /\ {"'", "\"", ";", "$", "?", "=", ".", " "} \subseteq Text!Character
  /\ Text!Character \cap Text!Digit = Text!Digit
  BY DEF Text!Character, Text!Digit, Text!White, Text!Letter, Text!Lower

\* How long the run of digits is that a text begins with.
LEMMA DigitsAre ==
  /\ \A a \in Seq(Text!Digit) : \A r \in Text!Texts :
       (r # <<>> => r[1] \notin Text!Digit) => Text!Digits[a \o r] = Len(a)
  /\ \A s \in Text!Texts :
       /\ Text!Digits[s] \in 0 .. Len(s)
       /\ s # <<>> /\ s[1] \notin Text!Digit => Text!Digits[s] = 0
  <1> DEFINE S == Text!Character
             Q == Text!Digit
  <1>1. S \cap Q = Q /\ Text!Texts = Seq(S)
    BY Classes, TextLists
  <1>2. \A s \in Seq(S) :
          Text!Digits[s] = Longest(Q, s)
    BY DEF Text!Digits, Text!Texts, Longest
  <1> HIDE DEF S, Q
  <1>3. ASSUME NEW a \in Seq(S \cap Q), NEW r \in Seq(S), r # <<>> => r[1] \notin Q
        PROVE  a \o r \in Seq(S) /\ Text!Digits[a \o r] = Len(a) /\ Len(a) \in 0 .. Len(a \o r)
    <2>1. a \in Seq(S)
      <3>1. S \cap Q \subseteq S
        OBVIOUS
      <3> QED BY <3>1, SeqMonotonic, Zenon
    <2>2. a \o r \in Seq(S) /\ Len(a \o r) = Len(a) + Len(r) /\ Len(a) \in Nat /\ Len(r) \in Nat
      <3>1. Elements(S, a, r)
        BY <2>1, ElementsOf, Zenon
      <3> QED BY <3>1 DEF Elements
    <2>3. Longest(Q, a \o r) = Len(a)
      BY <1>3, LongestIs, Zenon
    <2>4. Text!Digits[a \o r] = Longest(Q, a \o r)
      BY <1>2, <2>2
    <2>5. Len(a) \in 0 .. Len(a \o r)
      BY <2>2
    <2> QED BY <2>2, <2>3, <2>4, <2>5, Zenon
  <1>4. \A s \in Seq(S) : Text!Digits[s] \in 0 .. Len(s)
    <2> SUFFICES ASSUME NEW s \in Seq(S) PROVE Text!Digits[s] \in 0 .. Len(s)
      OBVIOUS
    <2>1. PICK a \in Seq(S \cap Q), r \in Seq(S) : s = a \o r /\ (r # <<>> => r[1] \notin Q)
      BY LongestPart
    <2>2. Text!Digits[a \o r] = Len(a) /\ Len(a) \in 0 .. Len(a \o r)
      BY <1>3, <2>1
    <2> QED BY <2>1, <2>2
  <1>5. ASSUME NEW s \in Seq(S), s # <<>>, s[1] \notin Q PROVE Text!Digits[s] = 0
    <2>1. <<>> \in Seq(S \cap Q) /\ Len(<<>>) = 0
      BY EmptySeq
    <2>2. <<>> \o s = s
      BY Concat
    <2> QED BY <1>3, <1>5, <2>1, <2>2
  <1> QED BY <1>1, <1>3, <1>4, <1>5 DEF S, Q

Enclosed(q, w) == <<q>> \o w \o <<q>>

\* How long the quoted text is that a text begins with.
LEMMA QuotedIs ==
  ASSUME NEW q \in Text!Character
  PROVE  /\ \A w \in Seq(Text!Character \ {q}) : \A r \in Text!Texts :
              /\ Enclosed(q, w) \in Text!Texts /\ Len(Enclosed(q, w)) = Len(w) + 2
              /\ Text!Quoted(q)[Enclosed(q, w) \o r] = Len(w) + 2
         /\ \A s \in Text!Texts :
              /\ Text!Quoted(q)[s] \in 0 .. Len(s)
              /\ s # <<>> /\ s[1] # q => Text!Quoted(q)[s] = 0
  <1> DEFINE S == Text!Character
             Closing(s) == {n \in 2 .. Len(s) : s[1] = q /\ s[n] = q}
  <1>1. Text!Texts = Seq(S) /\ q \in S
    BY TextLists
  <1>2. \A s \in Seq(S) : Text!Quoted(q)[s] = IF Closing(s) = {} THEN 0 ELSE Text!Min(Closing(s))
    BY DEF Text!Quoted, Text!Texts
  <1> HIDE DEF S
  <1>3. ASSUME NEW w \in Seq(S \ {q}), NEW r \in Seq(S)
        PROVE  /\ Enclosed(q, w) \in Seq(S) /\ Len(Enclosed(q, w)) = Len(w) + 2
               /\ Text!Quoted(q)[Enclosed(q, w) \o r] = Len(w) + 2
    <2> DEFINE a == <<q>> \o w
               b == a \o <<q>>
               u == b \o r
               m == Len(w)
    <2>1. /\ w \in Seq(S) /\ m \in Nat /\ \A i \in 1 .. m : w[i] # q
          /\ <<q>> \in Seq(S) /\ Len(<<q>>) = 1 /\ <<q>>[1] = q
      BY <1>1, SeqMonotonic, ElementOfSeq, LenProperties
    <2>2. /\ a \in Seq(S) /\ Len(a) = m + 1
          /\ \A i \in 1 .. m : a[1 + i] = w[i]
          /\ \A i \in 1 .. 1 : a[i] = <<q>>[i]
      <3>1. Elements(S, <<q>>, w)
        BY <2>1, ElementsOf
      <3> HIDE DEF m
      <3> QED BY <2>1, <3>1 DEF Elements, m
    <2> HIDE DEF a
    <2>3. /\ b \in Seq(S) /\ Len(b) = m + 2
          /\ \A i \in 1 .. m + 1 : b[i] = a[i]
          /\ \A i \in 1 .. 1 : b[m + 1 + i] = <<q>>[i]
      <3>1. /\ b \in Seq(S) /\ Len(b) = Len(a) + Len(<<q>>)
            /\ \A i \in 1 .. Len(a) : b[i] = a[i]
            /\ \A i \in 1 .. Len(<<q>>) : b[Len(a) + i] = <<q>>[i]
        <4>1. Elements(S, a, <<q>>)
          BY <2>1, <2>2, ElementsOf
        <4> QED BY <4>1 DEF Elements
      <3> HIDE DEF b, m
      <3> QED BY <2>1, <2>2, <3>1
    <2> HIDE DEF b
    <2>4. /\ u \in Seq(S) /\ Len(u) = m + 2 + Len(r) /\ Len(r) \in Nat
          /\ \A i \in 1 .. m + 2 : u[i] = b[i]
      <3>1. /\ u \in Seq(S) /\ Len(u) = Len(b) + Len(r) /\ Len(r) \in Nat
            /\ \A i \in 1 .. Len(b) : u[i] = b[i]
        <4>1. Elements(S, b, r)
          BY <2>3, ElementsOf, Zenon
        <4> QED BY <4>1 DEF Elements
      <3> HIDE DEF u, m
      <3> QED BY <2>1, <2>3, <3>1
    <2> HIDE DEF u, m
    <2>5. u[1] = q /\ u[m + 2] = q
      <3>1. 1 \in 1 .. 1 /\ 1 \in 1 .. m + 1 /\ 1 \in 1 .. m + 2 /\ m + 2 \in 1 .. m + 2
            /\ m + 1 + 1 = m + 2
        BY <2>1
      <3>2. b[m + 2] = q
        BY <2>1, <2>3, <3>1
      <3> QED BY <2>1, <2>2, <2>3, <2>4, <3>1, <3>2
    <2>6. \A n \in 2 .. m + 1 : u[n] # q
      <3> SUFFICES ASSUME NEW n \in 2 .. m + 1 PROVE u[n] # q
        OBVIOUS
      <3>1. n - 1 \in 1 .. m /\ 1 + (n - 1) = n /\ n \in 1 .. m + 1 /\ n \in 1 .. m + 2
        BY <2>1
      <3>2. a[n] = w[n - 1] /\ b[n] = a[n] /\ u[n] = b[n]
        BY <2>2, <2>3, <2>4, <3>1
      <3> QED BY <2>1, <3>1, <3>2
    <2>7. m + 2 \in Closing(u)
      BY <2>1, <2>4, <2>5
    <2>8. Closing(u) \subseteq Int /\ \A n \in Closing(u) : m + 2 <= n
      <3>1. \A n \in Closing(u) : n \in Int /\ 2 <= n /\ u[n] = q
        BY <2>1, <2>4
      <3> HIDE DEF Closing
      <3> QED BY <2>1, <2>6, <3>1
    <2> HIDE DEF Closing
    <2>9. Text!Min(Closing(u)) = m + 2
      BY <2>7, <2>8, MinIs
    <2> QED BY <1>2, <2>3, <2>4, <2>7, <2>9 DEF Enclosed, a, b, u, m
  <1>4. ASSUME NEW s \in Seq(S) PROVE Text!Quoted(q)[s] \in 0 .. Len(s)
    <2>1. Len(s) \in Nat
      BY LenProperties
    <2>2. CASE Closing(s) = {}
      <3> HIDE DEF Closing
      <3>1. Text!Quoted(q)[s] = 0
        BY <1>2, <2>2
      <3> QED BY <2>1, <3>1
    <2>3. CASE Closing(s) # {}
      <3>1. Closing(s) \subseteq Nat /\ Closing(s) \subseteq 0 .. Len(s)
        BY <2>1
      <3> HIDE DEF Closing
      <3>2. PICK x \in Closing(s) : \A y \in Closing(s) : x <= y
        BY <2>3, <3>1, LeastElement
      <3>3. Text!Min(Closing(s)) = x
        BY <3>1, <3>2, MinIs
      <3> QED BY <1>2, <2>3, <3>1, <3>3
    <2> QED BY <2>2, <2>3
  <1>5. \A s \in Seq(S) : s[1] # q => Text!Quoted(q)[s] = 0
    <2>1. \A s \in Seq(S) : s[1] # q => Closing(s) = {}
      OBVIOUS
    <2> QED BY <1>2, <2>1
  <1> QED BY <1>1, <1>3, <1>4, <1>5 DEF S

\* A regular expression matches at most a whole text.
Matches(match) == \A s \in Text!Texts : match[s] \in 0 .. Len(s)

As(match) == [s \in Text!Texts |-> Text!ReplaceAllString(match, s)]

ReplaceLaw(match) ==
  /\ As(match) \in [Text!Texts -> Text!Texts] /\ As(match)[<<>>] = <<>>
  /\ \A c \in Text!Character : \A s \in Text!Texts :
       match[<<c>> \o s] = 0 => As(match)[<<c>> \o s] = <<c>> \o As(match)[s]
  /\ \A a, s \in Text!Texts :
       a # <<>> /\ match[a \o s] = Len(a) => As(match)[a \o s] = <<"?">> \o As(match)[s]

\* How much of a text ReplaceAllString takes next, and what becomes of it.
Taken(match) == [s \in Text!Texts |-> IF match[s] = 0 THEN 1 ELSE match[s]]
Given(match) == [s \in Text!Texts |-> IF match[s] = 0 THEN <<s[1]>> ELSE <<"?">>]

\* What a replacement takes from the front of a text and gives for it.
LEMMA Replacing ==
  ASSUME NEW match, Matches(match)
  PROVE  /\ \A s \in Text!Texts :
              /\ Taken(match)[s] = IF match[s] = 0 THEN 1 ELSE match[s]
              /\ Given(match)[s] = IF match[s] = 0 THEN <<s[1]>> ELSE <<"?">>
         /\ \A s : Text!ReplaceAllString(match, s) = Text!Read(Taken(match), Given(match), s)
         /\ Readable(Taken(match), Given(match), Text!Character)
  <1> DEFINE size == Taken(match)
             out == Given(match)
             W == Text!Character
             R(s) == Text!ReplaceAllString(match, s)
  <1>1. \A s \in Text!Texts :
          /\ size[s] = IF match[s] = 0 THEN 1 ELSE match[s]
          /\ out[s] = IF match[s] = 0 THEN <<s[1]>> ELSE <<"?">>
    BY DEF Taken, Given
  <1>2. \A s : R(s) = Text!Read(size, out, s)
    BY DEF Text!ReplaceAllString, Taken, Given
  <1> HIDE DEF size, out, R
  <1>3. Readable(size, out, W)
    <2> SUFFICES ASSUME NEW s \in Text!Texts, s # <<>>
                 PROVE  size[s] \in 1 .. Len(s) /\ out[s] \in Seq(W)
      BY DEF Readable
    <2>1. s[1] \in Text!Character /\ Len(s) \in Nat /\ Len(s) # 0
      BY TextLists
    <2>2. match[s] \in 0 .. Len(s)
      BY DEF Matches
    <2>3. size[s] \in 1 .. Len(s)
      <3>0. size[s] = IF match[s] = 0 THEN 1 ELSE match[s]
        BY <1>1
      <3>1. CASE match[s] = 0
        <4>1. size[s] = 1
          BY <3>0, <3>1, Zenon
        <4> QED BY <2>1, <4>1
      <3>2. CASE match[s] # 0
        <4>1. size[s] = match[s]
          BY <3>0, <3>2, Zenon
        <4>2. match[s] \in 1 .. Len(s)
          BY <2>1, <2>2, <3>2
        <4> QED BY <4>1, <4>2, Zenon
      <3> QED BY <3>1, <3>2
    <2>4. out[s] \in Seq(W)
      <3>1. "?" \in Text!Character
        BY Classes
      <3> QED BY <1>1, <2>1, <3>1, TextLists DEF Text!Texts
    <2> QED BY <2>3, <2>4
  <1> QED BY <1>1, <1>2, <1>3 DEF size, out, R

\* What ReplaceAllString does next.
LEMMA Replaces == \A match : Matches(match) => ReplaceLaw(match)
  <1> SUFFICES ASSUME NEW match, Matches(match) PROVE ReplaceLaw(match)
    BY Zenon
  <1> DEFINE size == Taken(match)
             out == Given(match)
             W == Text!Character
             R(s) == Text!ReplaceAllString(match, s)
  <1> HIDE DEF R
  <1>1. \A s \in Text!Texts :
          /\ size[s] = IF match[s] = 0 THEN 1 ELSE match[s]
          /\ out[s] = IF match[s] = 0 THEN <<s[1]>> ELSE <<"?">>
    BY Replacing
  <1>2. \A s : R(s) = Text!Read(size, out, s)
    BY Replacing DEF R
  <1> HIDE DEF size, out
  <1>3. Readable(size, out, W)
    BY Replacing DEF size, out
  <1>4. ReadLaw(size, out, W)
    BY <1>3, ReadSteps
  <1>5. /\ R(<<>>) = <<>> /\ \A s \in Text!Texts : R(s) \in Text!Texts
        /\ \A s \in Text!Texts : s # <<>> =>
             R(s) = out[s] \o R(SubSeq(s, size[s] + 1, Len(s)))
    BY <1>2, <1>4 DEF ReadLaw, Text!Texts
  <1>6. \A s \in Text!Texts : As(match)[s] = R(s)
    BY DEF As, R
  <1>7. ASSUME NEW a \in Text!Texts, NEW s \in Text!Texts, a # <<>>, size[a \o s] = Len(a)
        PROVE  R(a \o s) = out[a \o s] \o R(s)
    <2>1. SubSeq(a \o s, Len(a) + 1, Len(a \o s)) = s
      BY PartsOfConcat DEF Text!Texts
    <2>2. a \o s \in Text!Texts /\ a \o s # <<>>
      BY <1>7, FirstOf, TextLists
    <2> QED BY <1>5, <1>7, <2>1, <2>2
  <1>8. ASSUME NEW c \in Text!Character, NEW s \in Text!Texts, match[<<c>> \o s] = 0
        PROVE  R(<<c>> \o s) = <<c>> \o R(s)
    <2>1. <<c>> \in Text!Texts /\ Len(<<c>>) = 1 /\ <<c>> # <<>> /\ <<c>>[1] = c
      BY TextLists
    <2>2. <<c>> \o s \in Text!Texts /\ (<<c>> \o s)[1] = c
      BY <2>1, FirstOf, TextLists
    <2>3. size[<<c>> \o s] = 1 /\ out[<<c>> \o s] = <<c>>
      BY <1>1, <1>8, <2>2
    <2> QED BY <1>7, <2>1, <2>3
  <1>9. ASSUME NEW a \in Text!Texts, NEW s \in Text!Texts, a # <<>>, match[a \o s] = Len(a)
        PROVE  R(a \o s) = <<"?">> \o R(s)
    <2>1. a \o s \in Text!Texts /\ Len(a) # 0
      BY <1>9, TextLists
    <2>2. size[a \o s] = Len(a) /\ out[a \o s] = <<"?">>
      BY <1>1, <1>9, <2>1
    <2> QED BY <1>7, <1>9, <2>2
  <1>10. As(match) \in [Text!Texts -> Text!Texts]
    <2>1. As(match) = [s \in Text!Texts |-> R(s)]
      BY DEF As, R
    <2> QED BY <1>5, <2>1
  <1>11. \A s, t \in Text!Texts : s \o t \in Text!Texts
    BY TextLists
  <1>12. \A c \in Text!Character : <<c>> \in Text!Texts
    BY TextLists
  <1>13. <<>> \in Text!Texts
    BY TextLists
  <1>14. As(match)[<<>>] = <<>>
    BY <1>5, <1>6, <1>13, Zenon
  <1>15. \A c \in Text!Character : \A s \in Text!Texts :
           match[<<c>> \o s] = 0 => As(match)[<<c>> \o s] = <<c>> \o As(match)[s]
    BY <1>6, <1>8, <1>11, <1>12, Zenon
  <1>16. \A a, s \in Text!Texts :
           a # <<>> /\ match[a \o s] = Len(a) => As(match)[a \o s] = <<"?">> \o As(match)[s]
    BY <1>6, <1>9, <1>11, Zenon
  <1> QED BY <1>10, <1>14, <1>15, <1>16, Zenon DEF ReplaceLaw

\* A pass that replaces runs of digits, and no other character of Q.
DigitLaw(P, Q) ==
  /\ P \in [Text!Texts -> Text!Texts] /\ P[<<>>] = <<>>
  /\ \A c \in Q \ Text!Digit : \A s \in Text!Texts : P[<<c>> \o s] = <<c>> \o P[s]
  /\ \A c \in Text!Digit : \A s \in Text!Texts :
       P[<<c>> \o s] = IF s # <<>> /\ s[1] \in Text!Digit THEN P[s] ELSE <<"?">> \o P[s]

\* A pass that replaces what is enclosed in q.
QuoteLaw(P, q, Q) ==
  \A w \in Seq(Q) : \A s \in Text!Texts :
    /\ Enclosed(q, w) \in Text!Texts
    /\ P[Enclosed(q, w) \o s] = <<"?">> \o P[s]

\* A pass that leaves the characters of Q alone.
SkipLaw(P, Q) ==
  /\ P \in [Text!Texts -> Text!Texts] /\ P[<<>>] = <<>>
  /\ \A w \in Seq(Q) : \A s \in Text!Texts : P[w \o s] = w \o P[s]

\* A pass that matches runs of digits makes a question mark of each run.
LEMMA DigitRuns ==
  ASSUME NEW match, NEW Q \in SUBSET Text!Character, ReplaceLaw(match),
         \A c \in Q \ Text!Digit : \A s \in Text!Texts : match[<<c>> \o s] = 0,
         \A a \in Seq(Text!Digit) : \A r \in Text!Texts :
           a # <<>> /\ (r # <<>> => r[1] \notin Text!Digit) => match[a \o r] = Len(a)
  PROVE  DigitLaw(As(match), Q)
  <1> DEFINE P == As(match)
             D == Text!Digit
             S == Text!Character
  <1>1. P \in [Text!Texts -> Text!Texts] /\ P[<<>>] = <<>>
    BY DEF ReplaceLaw
  <1>2. \A c \in Q \ D : \A s \in Text!Texts : P[<<c>> \o s] = <<c>> \o P[s]
    BY DEF ReplaceLaw
  <1>3. ASSUME NEW a \in Seq(D), NEW r \in Text!Texts, a # <<>>, r # <<>> => r[1] \notin D
        PROVE  P[a \o r] = <<"?">> \o P[r]
    <2>1. a \in Text!Texts
      BY Classes, ClassText
    <2>2. match[a \o r] = Len(a)
      BY <1>3
    <2> QED BY <1>3, <2>1, <2>2 DEF ReplaceLaw
  <1>4. ASSUME NEW c \in D, NEW s \in Text!Texts
        PROVE  P[<<c>> \o s] = IF s # <<>> /\ s[1] \in D THEN P[s] ELSE <<"?">> \o P[s]
    <2>1. S \cap D = D /\ Text!Texts = Seq(S)
      BY Classes, TextLists
    <2>2. PICK a \in Seq(D), r \in Text!Texts : s = a \o r /\ (r # <<>> => r[1] \notin D)
      <3>1. \E a \in Seq(S \cap D), r \in Seq(S) : s = a \o r /\ (r # <<>> => r[1] \notin D)
        <4>1. s \in Seq(S)
          BY <2>1
        <4> HIDE DEF S, D
        <4> QED BY <4>1, LongestPart, Zenon
      <3> QED BY <2>1, <3>1
    <2>3. <<c>> \in Seq(D) /\ <<c>> # <<>> /\ <<c>> \in Seq(S) /\ a \in Seq(S)
      <3>1. a \in Seq(S)
        BY <2>1, ClassText
      <3>2. c \in S
        BY <2>1
      <3> HIDE DEF D, S
      <3> QED BY <3>1, <3>2, Single
    <2>4. <<c>> \o a \in Seq(D) /\ <<c>> \o a # <<>>
      BY <2>3, Concat, FirstOf
    <2>5. (<<c>> \o a) \o r = <<c>> \o s
      <3>1. Associates(S)
        BY Assoc
      <3> QED BY <2>1, <2>2, <2>3, <3>1 DEF Associates
    <2>6. P[<<c>> \o s] = <<"?">> \o P[r]
      BY <1>3, <2>2, <2>4, <2>5
    <2>7. CASE a = <<>>
      <3>1. s = r
        BY <2>2, <2>7, TextLists
      <3> QED BY <2>2, <2>6, <3>1
    <2>8. CASE a # <<>>
      <3>1. P[s] = <<"?">> \o P[r]
        BY <1>3, <2>2, <2>8
      <3>2. s # <<>> /\ s[1] = a[1]
        BY <2>1, <2>2, <2>3, <2>8, FirstOf
      <3>3. a[1] \in D
        BY <2>8, TakenApart
      <3> QED BY <2>6, <3>1, <3>2, <3>3
    <2> QED BY <2>7, <2>8
  <1> QED BY <1>1, <1>2, <1>4 DEF DigitLaw

\* A pass that matches nothing that begins with a character of Q skips them.
LEMMA Skips ==
  ASSUME NEW P, NEW Q \in SUBSET Text!Character,
         P \in [Text!Texts -> Text!Texts], P[<<>>] = <<>>,
         \A c \in Q : \A s \in Text!Texts : P[<<c>> \o s] = <<c>> \o P[s]
  PROVE  SkipLaw(P, Q)
  <1> DEFINE S == Text!Character
             T == {w \in Seq(Q) : \A s \in Text!Texts : P[w \o s] = w \o P[s]}
  <1>1. Text!Texts = Seq(S) /\ \A w \in Seq(Q) : w \in Seq(S)
    BY TextLists, SeqMonotonic
  <1>2. <<>> \in T
    BY <1>1, Concat, EmptySeq
  <1>3. ASSUME NEW c \in Q, NEW w \in Seq(Q), w \in T, NEW s \in Text!Texts
        PROVE  P[(<<c>> \o w) \o s] = (<<c>> \o w) \o P[s]
    <2>1. <<c>> \in Seq(S) /\ w \in Seq(S) /\ s \in Seq(S) /\ P[s] \in Seq(S)
      BY <1>1, Single
    <2>2. w \o s \in Text!Texts /\ P[w \o s] = w \o P[s]
      BY <1>1, <1>3, <2>1, Concat
    <2>3. (<<c>> \o w) \o s = <<c>> \o (w \o s) /\ (<<c>> \o w) \o P[s] = <<c>> \o (w \o P[s])
      <3>1. Associates(S)
        BY Assoc
      <3> HIDE DEF S
      <3> QED BY <2>1, <3>1 DEF Associates
    <2> QED BY <2>2, <2>3, Zenon
  <1>4. Seq(Q) \subseteq T
    <2>1. \A c \in Q : \A w \in Seq(Q) : w \in T => <<c>> \o w \in T
      <3>1. \A c \in Q : \A w \in Seq(Q) : <<c>> \o w \in Seq(Q)
        BY Single, Concat
      <3> QED BY <1>3, <3>1
    <2> HIDE DEF T
    <2> QED BY <1>2, <2>1, ListInduction
  <1> QED BY <1>4 DEF SkipLaw

\* A pass leaves what it does not match.
LEMMA SkipsMatches ==
  ASSUME NEW match, NEW Q \in SUBSET Text!Character, ReplaceLaw(match),
         \A c \in Q : \A s \in Text!Texts : match[<<c>> \o s] = 0
  PROVE  SkipLaw(As(match), Q)
  <1>1. /\ As(match) \in [Text!Texts -> Text!Texts] /\ As(match)[<<>>] = <<>>
        /\ \A c \in Q : \A s \in Text!Texts : As(match)[<<c>> \o s] = <<c>> \o As(match)[s]
    BY DEF ReplaceLaw
  <1> QED BY <1>1, Skips

\* A pass that matches quoted texts makes a question mark of each.
LEMMA QuoteMatches ==
  ASSUME NEW match, NEW q, NEW Q, ReplaceLaw(match),
         \A w \in Seq(Q) : \A s \in Text!Texts :
           /\ Enclosed(q, w) \in Text!Texts /\ Enclosed(q, w) # <<>>
           /\ match[Enclosed(q, w) \o s] = Len(Enclosed(q, w))
  PROVE  QuoteLaw(As(match), q, Q)
  BY DEF QuoteLaw, ReplaceLaw

\* A text in quotes is not empty and begins with its quote.
EnclosedLaw(q, w, s) ==
  /\ Enclosed(q, w) \in Text!Texts /\ Enclosed(q, w) # <<>>
  /\ Enclosed(q, w) \o s = <<q>> \o (w \o (<<q>> \o s))
  /\ Enclosed(q, w) \o s \in Text!Texts
  /\ Enclosed(q, w) \o s # <<>> /\ (Enclosed(q, w) \o s)[1] = q

\* A quoted text begins with its quote.
LEMMA EnclosedFirst ==
  \A q \in Text!Character : \A w, s \in Text!Texts : EnclosedLaw(q, w, s)
  <1> DEFINE S == Text!Character
  <1> SUFFICES ASSUME NEW q \in S, NEW w \in Text!Texts, NEW s \in Text!Texts
               PROVE  EnclosedLaw(q, w, s)
    BY Zenon
  <1>1. Text!Texts = Seq(S)
    BY TextLists
  <1> HIDE DEF S
  <1>2. Associates(S)
    BY Assoc
  <1> DEFINE k == <<q>>
  <1>3. k \in Seq(S) /\ k # <<>> /\ k[1] = q
    BY Single
  <1> HIDE DEF k
  <1>4. k \o w \in Seq(S) /\ k \o s \in Seq(S) /\ w \o (k \o s) \in Seq(S)
        /\ (k \o w) \o k \in Seq(S)
    BY <1>1, <1>3, Concat
  <1>5. /\ ((k \o w) \o k) \o s = (k \o w) \o (k \o s)
        /\ (k \o w) \o (k \o s) = k \o (w \o (k \o s))
    <2>1. \A x, y, z \in Seq(S) : (x \o y) \o z = x \o (y \o z)
      BY <1>2 DEF Associates
    <2>2. w \in Seq(S) /\ s \in Seq(S)
      BY <1>1
    <2>3. ((k \o w) \o k) \o s = (k \o w) \o (k \o s)
      BY <1>3, <1>4, <2>1, <2>2
    <2>4. (k \o w) \o (k \o s) = k \o (w \o (k \o s))
      BY <1>3, <1>4, <2>1, <2>2
    <2> QED BY <2>3, <2>4
  <1>6. k \o (w \o (k \o s)) \in Seq(S) /\ k \o (w \o (k \o s)) # <<>>
        /\ (k \o (w \o (k \o s)))[1] = q
    BY <1>3, <1>4, Concat, FirstOf
  <1>7. (k \o w) \o k # <<>>
    BY <1>3, <1>4, FirstOf
  <1> QED BY <1>1, <1>4, <1>5, <1>6, <1>7 DEF EnclosedLaw, Enclosed, k

-----------------------------------------------------------------------------
(* Normalization: the passes *)

\* Of three lengths of which two are zero the third is the greatest.
LEMMA Largest ==
  \A a, b, c \in Nat :
    /\ b = 0 /\ c = 0 => Text!Max({a, b, c}) = a
    /\ a = 0 /\ c = 0 => Text!Max({a, b, c}) = b
    /\ a = 0 /\ b = 0 => Text!Max({a, b, c}) = c
  <1> SUFFICES ASSUME NEW a \in Nat, NEW b \in Nat, NEW c \in Nat
               PROVE  /\ b = 0 /\ c = 0 => Text!Max({a, b, c}) = a
                      /\ a = 0 /\ c = 0 => Text!Max({a, b, c}) = b
                      /\ a = 0 /\ b = 0 => Text!Max({a, b, c}) = c
    BY Zenon
  <1> DEFINE X == {a, b, c}
  <1>1. X \subseteq Int /\ a \in X /\ b \in X /\ c \in X
    OBVIOUS
  <1>2. /\ b = 0 /\ c = 0 => \A n \in X : n <= a
        /\ a = 0 /\ c = 0 => \A n \in X : n <= b
        /\ a = 0 /\ b = 0 => \A n \in X : n <= c
    OBVIOUS
  <1> HIDE DEF X
  <1>3. /\ b = 0 /\ c = 0 => Text!Max(X) = a
        /\ a = 0 /\ c = 0 => Text!Max(X) = b
        /\ a = 0 /\ b = 0 => Text!Max(X) = c
    BY <1>1, <1>2, MaxIs
  <1> QED BY <1>3 DEF X

\* What the expressions match, by the first character of a text.
FirstLaw(s) ==
  /\ Text!Digits[s] \in 0 .. Len(s) /\ Text!re[s] \in 0 .. Len(s)
  /\ Text!SingleQuoted[s] \in 0 .. Len(s) /\ Text!DoubleQuoted[s] \in 0 .. Len(s)
  /\ s # <<>> =>
       /\ s[1] \notin Text!Digit => Text!Digits[s] = 0
       /\ s[1] # "'" => Text!SingleQuoted[s] = 0
       /\ s[1] # "\"" => Text!DoubleQuoted[s] = 0
       /\ s[1] \notin Text!Digit \cup {"'", "\""} => Text!re[s] = 0
       /\ s[1] \in Text!Digit => Text!re[s] = Text!Digits[s]
       /\ s[1] = "'" => Text!re[s] = Text!SingleQuoted[s]
       /\ s[1] = "\"" => Text!re[s] = Text!DoubleQuotedInLine[s]

\* At most one of the three alternatives matches: the first character decides.
LEMMA FirstDecides == \A s \in Text!Texts : FirstLaw(s)
  <1> SUFFICES ASSUME NEW s \in Text!Texts PROVE FirstLaw(s)
    BY Zenon
  <1>1. Text!Digits[s] \in 0 .. Len(s) /\ (s # <<>> /\ s[1] \notin Text!Digit => Text!Digits[s] = 0)
    BY DigitsAre
  <1>2. Text!SingleQuoted[s] \in 0 .. Len(s) /\ (s # <<>> /\ s[1] # "'" => Text!SingleQuoted[s] = 0)
    <2>1. "'" \in Text!Character
      BY Classes
    <2> QED BY <2>1, QuotedIs DEF Text!SingleQuoted
  <1>3. Text!DoubleQuoted[s] \in 0 .. Len(s) /\ (s # <<>> /\ s[1] # "\"" => Text!DoubleQuoted[s] = 0)
    <2>1. "\"" \in Text!Character
      BY Classes
    <2> QED BY <2>1, QuotedIs DEF Text!DoubleQuoted
  <1> DEFINE a == Text!SingleQuoted[s]
             b == Text!Digits[s]
             c == Text!DoubleQuotedInLine[s]
  <1>4. c \in {0, Text!DoubleQuoted[s]}
    BY DEF Text!DoubleQuotedInLine
  <1>5. Text!re[s] = Text!Max({a, b, c})
    BY DEF Text!re
  <1>6. Len(s) \in Nat
    BY TextLists
  <1> HIDE DEF a, b, c
  <1>7. a \in 0 .. Len(s) /\ b \in 0 .. Len(s) /\ c \in 0 .. Len(s)
    <2>1. a \in 0 .. Len(s) /\ b \in 0 .. Len(s)
      BY <1>1, <1>2, Zenon DEF a, b
    <2>2. 0 \in 0 .. Len(s)
      BY <1>6
    <2> QED BY <1>3, <1>4, <2>1, <2>2
  <1>8. a \in Nat /\ b \in Nat /\ c \in Nat
    BY <1>6, <1>7
  <1>9. CASE s = <<>>
    <2>1. a = 0 /\ b = 0 /\ c = 0
      BY <1>7, <1>9, EmptySeq
    <2>2. Text!re[s] = a
      BY <1>5, <1>8, <2>1, Largest
    <2> QED BY <1>1, <1>2, <1>3, <1>7, <1>9, <2>2 DEF FirstLaw
  <1>10. CASE s # <<>>
    <2>1. /\ s[1] \notin Text!Digit => b = 0
          /\ s[1] # "'" => a = 0
          /\ s[1] # "\"" => c = 0
      BY <1>1, <1>2, <1>3, <1>4, <1>10 DEF a, b
    <2>2. "'" \notin Text!Digit /\ "\"" \notin Text!Digit /\ "'" # "\""
      BY DEF Text!Digit
    <2>0. \A x, y, z \in Nat :
            /\ y = 0 /\ z = 0 => Text!Max({x, y, z}) = x
            /\ x = 0 /\ z = 0 => Text!Max({x, y, z}) = y
            /\ x = 0 /\ y = 0 => Text!Max({x, y, z}) = z
      BY Largest
    <2>3. s[1] \in Text!Digit => Text!re[s] = b
      <3>1. s[1] \in Text!Digit => a = 0 /\ c = 0
        BY <2>1, <2>2
      <3> QED BY <1>5, <1>8, <2>0, <3>1, Zenon
    <2>4. s[1] = "'" => Text!re[s] = a
      <3>1. s[1] = "'" => b = 0 /\ c = 0
        BY <2>1, <2>2
      <3> QED BY <1>5, <1>8, <2>0, <3>1, Zenon
    <2>5. s[1] = "\"" => Text!re[s] = c
      <3>1. s[1] = "\"" => a = 0 /\ b = 0
        BY <2>1, <2>2
      <3> QED BY <1>5, <1>8, <2>0, <3>1, Zenon
    <2>6. s[1] \notin Text!Digit \cup {"'", "\""} => Text!re[s] = a /\ a = 0
      <3>1. s[1] \notin Text!Digit \cup {"'", "\""} => a = 0 /\ b = 0 /\ c = 0
        <4>1. s[1] \notin Text!Digit \cup {"'", "\""}
                => s[1] \notin Text!Digit /\ s[1] # "'" /\ s[1] # "\""
          OBVIOUS
        <4> QED BY <2>1, <4>1, Zenon
      <3>2. a = 0 /\ b = 0 /\ c = 0 => Text!re[s] = a
        BY <1>5, <1>8, <2>0, Zenon
      <3> QED BY <3>1, <3>2
    <2>7. Text!re[s] \in 0 .. Len(s)
      BY <1>7, <2>3, <2>4, <2>5, <2>6
    <2> QED BY <1>1, <1>2, <1>3, <2>3, <2>4, <2>5, <2>6, <2>7 DEF FirstLaw, a, b, c
  <1> QED BY <1>9, <1>10

\* A text with a character before it.
LEMMA FrontCharacter ==
  \A c \in Text!Character : \A s \in Text!Texts :
    <<c>> \o s \in Text!Texts /\ <<c>> \o s # <<>> /\ (<<c>> \o s)[1] = c
  <1> DEFINE S == Text!Character
  <1>1. Text!Texts = Seq(S)
    BY TextLists
  <1> HIDE DEF S
  <1>2. \A c \in S : <<c>> \in Seq(S) /\ <<c>> # <<>> /\ <<c>>[1] = c
    BY Single
  <1>3. \A c \in S : \A s \in Seq(S) :
          <<c>> \o s \in Seq(S) /\ <<c>> \o s # <<>> /\ (<<c>> \o s)[1] = c
    BY <1>2, Concat, FirstOf
  <1> QED BY <1>1, <1>3 DEF S

Quotes == {"'", "\""}

\* The passes of the program.
LEMMA AllReplace ==
  /\ ReplaceLaw(Text!Digits) /\ ReplaceLaw(Text!re)
  /\ ReplaceLaw(Text!SingleQuoted) /\ ReplaceLaw(Text!DoubleQuoted)
  <1>1. \A s \in Text!Texts :
          /\ Text!Digits[s] \in 0 .. Len(s) /\ Text!re[s] \in 0 .. Len(s)
          /\ Text!SingleQuoted[s] \in 0 .. Len(s) /\ Text!DoubleQuoted[s] \in 0 .. Len(s)
    BY FirstDecides DEF FirstLaw
  <1>2. /\ Matches(Text!Digits) /\ Matches(Text!re)
        /\ Matches(Text!SingleQuoted) /\ Matches(Text!DoubleQuoted)
    BY <1>1, Zenon DEF Matches
  <1> QED BY <1>2, Replaces, Zenon

\* The pass of [0-9]+ makes a question mark of each run of digits.
LEMMA DigitsPass == DigitLaw(As(Text!Digits), Text!Character)
  <1>1. ReplaceLaw(Text!Digits)
    BY AllReplace
  <1>2. \A c \in Text!Character \ Text!Digit : \A s \in Text!Texts :
          Text!Digits[<<c>> \o s] = 0
    BY FrontCharacter, FirstDecides DEF FirstLaw
  <1>3. \A a \in Seq(Text!Digit) : \A r \in Text!Texts :
          a # <<>> /\ (r # <<>> => r[1] \notin Text!Digit) => Text!Digits[a \o r] = Len(a)
    BY DigitsAre
  <1> DEFINE match == Text!Digits
             Q == Text!Character
  <1>4. Q \in SUBSET Text!Character
    OBVIOUS
  <1> HIDE DEF match, Q
  <1>5. DigitLaw(As(match), Q)
    BY <1>1, <1>2, <1>3, <1>4, DigitRuns DEF match, Q
  <1> QED BY <1>5 DEF match, Q

\* The pass of a quote hides what is quoted by it and nothing else.
LEMMA QuotedPass ==
  ASSUME NEW q \in Text!Character, ReplaceLaw(Text!Quoted(q))
  PROVE  /\ QuoteLaw(As(Text!Quoted(q)), q, Text!Character \ {q})
         /\ SkipLaw(As(Text!Quoted(q)), Text!Character \ {q})
  <1> DEFINE match == Text!Quoted(q)
             Q == Text!Character \ {q}
  <1>1. \A w \in Seq(Q) : w \in Text!Texts
    BY SeqMonotonic, TextLists
  <1>2. \A w \in Seq(Q) : \A s \in Text!Texts :
          /\ Enclosed(q, w) \in Text!Texts /\ Enclosed(q, w) # <<>>
          /\ match[Enclosed(q, w) \o s] = Len(Enclosed(q, w))
    <2>1. ASSUME NEW w \in Seq(Q), NEW s \in Text!Texts
          PROVE  /\ Enclosed(q, w) \in Text!Texts /\ Enclosed(q, w) # <<>>
                 /\ match[Enclosed(q, w) \o s] = Len(Enclosed(q, w))
      <3>1. EnclosedLaw(q, w, s)
        BY <1>1, EnclosedFirst
      <3> QED BY <3>1, QuotedIs DEF EnclosedLaw
    <2> QED BY <2>1
  <1>3. \A c \in Q : \A s \in Text!Texts : match[<<c>> \o s] = 0
    <2>1. \A s \in Text!Texts : s # <<>> /\ s[1] # q => match[s] = 0
      BY QuotedIs
    <2>2. \A c \in Q : \A s \in Text!Texts :
            <<c>> \o s \in Text!Texts /\ <<c>> \o s # <<>> /\ (<<c>> \o s)[1] # q
      BY FrontCharacter
    <2> HIDE DEF match, Q
    <2> QED BY <2>1, <2>2
  <1>4. Q \in SUBSET Text!Character
    OBVIOUS
  <1> HIDE DEF match, Q
  <1>5. ReplaceLaw(match)
    BY DEF match
  <1>6. QuoteLaw(As(match), q, Q)
    BY <1>2, <1>5, QuoteMatches
  <1>7. SkipLaw(As(match), Q)
    BY <1>3, <1>4, <1>5, SkipsMatches
  <1> QED BY <1>6, <1>7 DEF match, Q

\* ... for single quotes and for double quotes.
LEMMA QuotedPasses ==
  /\ QuoteLaw(As(Text!SingleQuoted), "'", Text!Character \ {"'"})
  /\ SkipLaw(As(Text!SingleQuoted), Text!Character \ {"'"})
  /\ QuoteLaw(As(Text!DoubleQuoted), "\"", Text!Character \ {"\""})
  /\ SkipLaw(As(Text!DoubleQuoted), Text!Character \ {"\""})
  <1>1. "'" \in Text!Character /\ "\"" \in Text!Character
    BY Classes
  <1>2. ReplaceLaw(Text!Quoted("'")) /\ ReplaceLaw(Text!Quoted("\""))
    BY AllReplace DEF Text!SingleQuoted, Text!DoubleQuoted
  <1>3. /\ QuoteLaw(As(Text!Quoted("'")), "'", Text!Character \ {"'"})
        /\ SkipLaw(As(Text!Quoted("'")), Text!Character \ {"'"})
    BY <1>1, <1>2, QuotedPass
  <1>4. /\ QuoteLaw(As(Text!Quoted("\"")), "\"", Text!Character \ {"\""})
        /\ SkipLaw(As(Text!Quoted("\"")), Text!Character \ {"\""})
    BY <1>1, <1>2, QuotedPass
  <1> QED BY <1>3, <1>4 DEF Text!SingleQuoted, Text!DoubleQuoted

\* A name in quotes is matched where no line ends in it.
LEMMA InLine ==
  ASSUME NEW w \in Seq(Text!Character \ {"\"", "newline"}), NEW s \in Text!Texts
  PROVE  Text!DoubleQuotedInLine[Enclosed("\"", w) \o s] = Len(Enclosed("\"", w))
  <1> DEFINE q == "\""
             S == Text!Character
             u == Enclosed(q, w)
             N == S \ {"newline"}
  <1>1. q \in N /\ S \ {"\"", "newline"} \subseteq S /\ S \ {"\"", "newline"} \subseteq N
        /\ N \subseteq S /\ S \ {"\"", "newline"} \subseteq S \ {q}
    BY Classes
  <1>2. w \in Seq(S) /\ w \in Seq(N) /\ w \in Seq(S \ {q}) /\ Text!Texts = Seq(S)
    <2>1. \A A, B : A \subseteq B => \A z \in Seq(A) : z \in Seq(B)
      BY SeqMonotonic
    <2>2. w \in Seq(S) /\ w \in Seq(N) /\ w \in Seq(S \ {q})
      BY <1>1, <2>1, Zenon
    <2> QED BY <2>2, TextLists
  <1>3. Text!DoubleQuoted[u \o s] = Len(u) /\ u \in Text!Texts
    BY <1>1, <1>2, QuotedIs DEF Text!DoubleQuoted
  <1>4. u \in Seq(N)
    <2> HIDE DEF N, S
    <2> QED BY <1>1, <1>2, Single, Concat DEF Enclosed
  <1>5. u \o s \in Text!Texts /\ \A k \in 1 .. Len(u) : (u \o s)[k] = u[k] /\ u[k] \in N
    <2>1. u \o s \in Text!Texts /\ \A k \in 1 .. Len(u) : (u \o s)[k] = u[k]
      <3>1. Elements(S, u, s)
        BY <1>2, <1>3, ElementsOf
      <3> HIDE DEF S, N, u
      <3> QED BY <1>2, <3>1 DEF Elements
    <2>2. \A k \in 1 .. Len(u) : u[k] \in N
      <3> HIDE DEF u, N
      <3> QED BY <1>4, ElementOfSeq
    <2> QED BY <2>1, <2>2
  <1> HIDE DEF u
  <1>6. ~\E k \in 1 .. Text!DoubleQuoted[u \o s] : (u \o s)[k] = "newline"
    BY <1>3, <1>5
  <1>7. Text!DoubleQuotedInLine[u \o s] = Text!DoubleQuoted[u \o s]
    BY <1>5, <1>6 DEF Text!DoubleQuotedInLine
  <1> QED BY <1>3, <1>7 DEF u

\* The one pass of AnonymizeQueryText does all three.
LEMMA rePass ==
  /\ DigitLaw(As(Text!re), Text!Character \ Quotes)
  /\ QuoteLaw(As(Text!re), "'", Text!Character \ {"'"})
  /\ QuoteLaw(As(Text!re), "\"", Text!Character \ {"\"", "newline"})
  <1> DEFINE match == Text!re
             Q == Text!Character \ Quotes
  <1>0. ReplaceLaw(match) /\ "'" \in Text!Character /\ "\"" \in Text!Character
        /\ Text!Texts = Seq(Text!Character)
    BY AllReplace, Classes, TextLists
  <1>1. DigitLaw(As(match), Q)
    <2>1. \A c \in Q \ Text!Digit : \A s \in Text!Texts : match[<<c>> \o s] = 0
      BY FrontCharacter, FirstDecides DEF FirstLaw, Quotes
    <2>2. ASSUME NEW a \in Seq(Text!Digit), NEW r \in Text!Texts, a # <<>>,
                 r # <<>> => r[1] \notin Text!Digit
          PROVE  match[a \o r] = Len(a)
      <3>1. Text!Digits[a \o r] = Len(a)
        BY <2>2, DigitsAre
      <3>2. a \in Text!Texts /\ a[1] \in Text!Digit
        BY <2>2, Classes, ClassText, TakenApart
      <3>3. a \o r \in Text!Texts /\ a \o r # <<>> /\ (a \o r)[1] \in Text!Digit
        BY <1>0, <2>2, <3>2, FirstOf, Concat
      <3> QED BY <3>1, <3>3, FirstDecides DEF FirstLaw
    <2>3. Q \in SUBSET Text!Character
      OBVIOUS
    <2> HIDE DEF match, Q
    <2> QED BY <1>0, <2>1, <2>2, <2>3, DigitRuns
  <1>2. QuoteLaw(As(match), "'", Text!Character \ {"'"})
    <2>1. ASSUME NEW w \in Seq(Text!Character \ {"'"}), NEW s \in Text!Texts
          PROVE  /\ Enclosed("'", w) \in Text!Texts /\ Enclosed("'", w) # <<>>
                 /\ match[Enclosed("'", w) \o s] = Len(Enclosed("'", w))
      <3>1. w \in Text!Texts
        BY SeqMonotonic, TextLists
      <3>2. Text!SingleQuoted[Enclosed("'", w) \o s] = Len(Enclosed("'", w))
        BY <1>0, QuotedIs DEF Text!SingleQuoted
      <3> DEFINE u == Enclosed("'", w)
      <3>3. u \in Text!Texts /\ u # <<>> /\ u \o s \in Text!Texts /\ u \o s # <<>>
            /\ (u \o s)[1] = "'"
        <4>1. EnclosedLaw("'", w, s)
          BY <1>0, <3>1, EnclosedFirst, Zenon
        <4> QED BY <4>1 DEF EnclosedLaw
      <3> HIDE DEF u
      <3>4. FirstLaw(u \o s)
        BY <3>3, FirstDecides
      <3> QED BY <3>2, <3>3, <3>4 DEF FirstLaw, u
    <2> HIDE DEF match
    <2> QED BY <1>0, <2>1, QuoteMatches
  <1>3. QuoteLaw(As(match), "\"", Text!Character \ {"\"", "newline"})
    <2>1. ASSUME NEW w \in Seq(Text!Character \ {"\"", "newline"}), NEW s \in Text!Texts
          PROVE  /\ Enclosed("\"", w) \in Text!Texts /\ Enclosed("\"", w) # <<>>
                 /\ match[Enclosed("\"", w) \o s] = Len(Enclosed("\"", w))
      <3>1. w \in Text!Texts
        <4>1. Text!Character \ {"\"", "newline"} \subseteq Text!Character
          OBVIOUS
        <4> QED BY <1>0, <4>1, SeqMonotonic, Zenon
      <3>2. Text!DoubleQuotedInLine[Enclosed("\"", w) \o s] = Len(Enclosed("\"", w))
        BY InLine
      <3> DEFINE u == Enclosed("\"", w)
      <3>3. u \in Text!Texts /\ u # <<>> /\ u \o s \in Text!Texts /\ u \o s # <<>>
            /\ (u \o s)[1] = "\""
        <4>1. EnclosedLaw("\"", w, s)
          BY <1>0, <3>1, EnclosedFirst, Zenon
        <4> QED BY <4>1 DEF EnclosedLaw
      <3> HIDE DEF u
      <3>4. FirstLaw(u \o s)
        BY <3>3, FirstDecides
      <3> QED BY <3>2, <3>3, <3>4 DEF FirstLaw, u
    <2> HIDE DEF match
    <2> QED BY <1>0, <2>1, QuoteMatches
  <1> QED BY <1>1, <1>2, <1>3

\* Two texts are read one after the other, unless a run of digits goes on.
Breaks(s) == s # <<>> => s[1] \notin Text!Digit

\* Where a run of digits cannot go on, a pass treats the parts separately.
LEMMA RunsApart ==
  ASSUME NEW P, NEW Q \in SUBSET Text!Character, DigitLaw(P, Q)
  PROVE  \A w \in Seq(Q) : \A s \in Text!Texts : Breaks(s) => P[w \o s] = P[w] \o P[s]
  <1> DEFINE S == Text!Character
             D == Text!Digit
             Splits(w) == \A s \in Text!Texts : Breaks(s) => P[w \o s] = P[w] \o P[s]
             T == {w \in Seq(Q) : Splits(w)}
  <1>1. /\ P \in [Seq(S) -> Seq(S)] /\ P[<<>>] = <<>> /\ Text!Texts = Seq(S)
        /\ \A c \in Q \ D : \A s \in Seq(S) : P[<<c>> \o s] = <<c>> \o P[s]
        /\ \A c \in D : \A s \in Seq(S) :
             P[<<c>> \o s] = IF s # <<>> /\ s[1] \in D THEN P[s] ELSE <<"?">> \o P[s]
    BY TextLists DEF DigitLaw
  <1>2. Q \subseteq S /\ "?" \in S /\ D \subseteq S
    BY Classes
  <1>3. <<>> \in T
    <2>1. \A s \in Seq(S) : P[s] \in Seq(S) /\ <<>> \o s = s /\ <<>> \o P[s] = P[s]
      BY <1>1, Concat
    <2> QED BY <1>1, <2>1, EmptySeq
  <1> HIDE DEF S, D
  <1>4. ASSUME NEW c \in Q, NEW w \in Seq(Q), w \in T, NEW s \in Text!Texts, Breaks(s)
        PROVE  P[(<<c>> \o w) \o s] = P[<<c>> \o w] \o P[s]
    <2>1. P[w \o s] = P[w] \o P[s]
      BY <1>4
    <2> HIDE DEF T
    <2>2. /\ <<c>> \in Seq(S) /\ w \in Seq(S) /\ s \in Seq(S) /\ w \o s \in Seq(S)
          /\ P[w] \in Seq(S) /\ P[s] \in Seq(S) /\ <<"?">> \in Seq(S)
      <3>1. w \in Seq(S)
        BY <1>2, SeqMonotonic
      <3>2. c \in S
        BY <1>2
      <3> QED BY <1>1, <1>2, <3>1, <3>2, Single, Concat
    <2>3. /\ (<<c>> \o w) \o s = <<c>> \o (w \o s)
          /\ (<<c>> \o P[w]) \o P[s] = <<c>> \o (P[w] \o P[s])
          /\ (<<"?">> \o P[w]) \o P[s] = <<"?">> \o (P[w] \o P[s])
      <3>1. Associates(S)
        BY Assoc
      <3> DEFINE k == <<c>>
                 x == P[w]
                 y == P[s]
      <3>0. k \in Seq(S) /\ w \in Seq(S) /\ s \in Seq(S) /\ x \in Seq(S) /\ y \in Seq(S)
        BY <2>2
      <3> HIDE DEF k, x, y
      <3>2. (k \o w) \o s = k \o (w \o s)
        BY <3>0, <3>1 DEF Associates
      <3>3. (k \o x) \o y = k \o (x \o y)
        BY <3>0, <3>1 DEF Associates
      <3>4. (<<"?">> \o x) \o y = <<"?">> \o (x \o y)
        BY <2>2, <3>0, <3>1 DEF Associates
      <3> QED BY <3>2, <3>3, <3>4 DEF k, x, y
    <2>4. CASE c \notin D
      <3>1. P[<<c>> \o w] = <<c>> \o P[w] /\ P[<<c>> \o (w \o s)] = <<c>> \o P[w \o s]
        BY <1>1, <2>2, <2>4
      <3> QED BY <2>1, <2>3, <3>1, Zenon
    <2>5. CASE c \in D
      <3>1. /\ P[<<c>> \o w] = IF w # <<>> /\ w[1] \in D THEN P[w] ELSE <<"?">> \o P[w]
            /\ P[<<c>> \o (w \o s)] = IF w \o s # <<>> /\ (w \o s)[1] \in D
                                      THEN P[w \o s] ELSE <<"?">> \o P[w \o s]
        BY <1>1, <2>2, <2>5
      <3>2. CASE w = <<>>
        <4>1. w \o s = s /\ ~(s # <<>> /\ s[1] \in D)
          BY <1>4, <2>2, <3>2, Concat DEF Breaks, D
        <4>2. /\ P[<<c>> \o w] = <<"?">> \o P[w]
              /\ P[<<c>> \o (w \o s)] = <<"?">> \o P[w \o s]
          BY <3>1, <3>2, <4>1
        <4> QED BY <2>1, <2>3, <4>2, Zenon
      <3>3. CASE w # <<>>
        <4>1. w \o s # <<>> /\ (w \o s)[1] = w[1]
          BY <2>2, <3>3, FirstOf
        <4>2. CASE w[1] \in D
          <5>1. P[<<c>> \o w] = P[w] /\ P[<<c>> \o (w \o s)] = P[w \o s]
            BY <3>1, <3>3, <4>1, <4>2
          <5> QED BY <2>1, <2>3, <5>1, Zenon
        <4>3. CASE w[1] \notin D
          <5>1. P[<<c>> \o w] = <<"?">> \o P[w] /\ P[<<c>> \o (w \o s)] = <<"?">> \o P[w \o s]
            BY <3>1, <3>3, <4>1, <4>3
          <5> QED BY <2>1, <2>3, <5>1, Zenon
        <4> QED BY <4>2, <4>3
      <3> QED BY <3>2, <3>3
    <2> QED BY <2>4, <2>5
  <1>5. Seq(Q) \subseteq T
    <2>1. \A c \in Q : \A w \in Seq(Q) : <<c>> \o w \in Seq(Q)
      BY Single, Concat
    <2>2. \A c \in Q : \A w \in Seq(Q) : w \in T => <<c>> \o w \in T
      BY <1>4, <2>1
    <2> HIDE DEF T
    <2> QED BY <1>3, <2>2, ListInduction
  <1> QED BY <1>5

\* Passes that replace runs of digits agree where they replace nothing else.
LEMMA SameRuns ==
  ASSUME NEW P, NEW R, NEW Q \in SUBSET Text!Character, DigitLaw(P, Q), DigitLaw(R, Q)
  PROVE  \A w \in Seq(Q) : P[w] = R[w]
  <1> DEFINE D == Text!Digit
             T == {w \in Seq(Q) : P[w] = R[w]}
  <1>1. \A w \in Seq(Q) : w \in Text!Texts
    BY SeqMonotonic, TextLists
  <1>2. \A c \in Q : \A w \in Seq(Q) : <<c>> \o w \in Seq(Q)
    BY Single, Concat
  <1>3. <<>> \in T
    BY EmptySeq DEF DigitLaw
  <1>4. ASSUME NEW c \in Q, NEW w \in Seq(Q), P[w] = R[w] PROVE P[<<c>> \o w] = R[<<c>> \o w]
    <2>1. CASE c \notin D
      <3>1. P[<<c>> \o w] = <<c>> \o P[w] /\ R[<<c>> \o w] = <<c>> \o R[w]
        BY <1>1, <2>1 DEF DigitLaw
      <3> QED BY <1>4, <3>1
    <2>2. CASE c \in D
      <3>1. /\ P[<<c>> \o w] = IF w # <<>> /\ w[1] \in D THEN P[w] ELSE <<"?">> \o P[w]
            /\ R[<<c>> \o w] = IF w # <<>> /\ w[1] \in D THEN R[w] ELSE <<"?">> \o R[w]
        BY <1>1, <2>2 DEF DigitLaw
      <3> QED BY <1>4, <3>1, Zenon
    <2> QED BY <2>1, <2>2
  <1>5. Seq(Q) \subseteq T
    <2>1. \A c \in Q : \A w \in Seq(Q) : w \in T => <<c>> \o w \in T
      BY <1>2, <1>4
    <2> HIDE DEF T
    <2> QED BY <1>3, <2>1, ListInduction
  <1> QED BY <1>5

\* What such a pass leaves.
LEMMA RunRange ==
  ASSUME NEW P, NEW Q \in SUBSET Text!Character, DigitLaw(P, Q), NEW U \in SUBSET Q
  PROVE  \A w \in Seq(U) : P[w] \in Seq((U \ Text!Digit) \cup {"?"})
  <1> DEFINE D == Text!Digit
             V == (U \ D) \cup {"?"}
             T == {w \in Seq(U) : P[w] \in Seq(V)}
  <1>1. \A w \in Seq(U) : w \in Text!Texts
    <2>1. U \subseteq Text!Character
      OBVIOUS
    <2> QED BY <2>1, SeqMonotonic, TextLists
  <1>2. \A c \in U : \A w \in Seq(U) : <<c>> \o w \in Seq(U)
    BY Single, Concat
  <1>3. <<>> \in T
    BY EmptySeq DEF DigitLaw
  <1>4. ASSUME NEW c \in U, NEW w \in Seq(U), P[w] \in Seq(V) PROVE P[<<c>> \o w] \in Seq(V)
    <2>1. CASE c \notin D
      <3>1. P[<<c>> \o w] = <<c>> \o P[w] /\ c \in V
        BY <1>1, <2>1 DEF DigitLaw
      <3> HIDE DEF V
      <3> QED BY <1>4, <3>1, Single, Concat
    <2>2. CASE c \in D
      <3>1. P[<<c>> \o w] = IF w # <<>> /\ w[1] \in D THEN P[w] ELSE <<"?">> \o P[w]
        BY <1>1, <2>2 DEF DigitLaw
      <3>2. "?" \in V
        OBVIOUS
      <3> HIDE DEF V
      <3>3. <<"?">> \o P[w] \in Seq(V)
        BY <1>4, <3>2, Single, Concat
      <3> QED BY <1>4, <3>1, <3>3, Zenon
    <2> QED BY <2>1, <2>2
  <1>5. Seq(U) \subseteq T
    <2>1. \A c \in U : \A w \in Seq(U) : w \in T => <<c>> \o w \in T
      BY <1>2, <1>4
    <2> HIDE DEF T
    <2> QED BY <1>3, <2>1, ListInduction
  <1> QED BY <1>5

\* A pass leaves what has no digits and no quotes.
LEMMA NoRuns ==
  ASSUME NEW P, NEW Q \in SUBSET Text!Character, DigitLaw(P, Q)
  PROVE  SkipLaw(P, Q \ Text!Digit)
  <1> DEFINE V == Q \ Text!Digit
  <1>1. V \in SUBSET Text!Character
    OBVIOUS
  <1>2. /\ P \in [Text!Texts -> Text!Texts] /\ P[<<>>] = <<>>
        /\ \A c \in V : \A s \in Text!Texts : P[<<c>> \o s] = <<c>> \o P[s]
    BY DEF DigitLaw
  <1> HIDE DEF V
  <1>3. SkipLaw(P, V)
    BY <1>1, <1>2, Skips
  <1> QED BY <1>3 DEF V

RD == As(Text!Digits)

\* The passes of ReplaceLiterals, one after the other.
InTurn == [s \in Text!Texts |-> Text!ReplaceLiterals(s)]

\* What no pass replaces, and what only the digits are replaced in.
Still == Text!Character \ (Text!Digit \cup Quotes)
Plain == Text!Letter \cup Text!Digit \cup {".", "=", "$"}

\* What hides strings, names whose characters are in N, and numbers.
HidingLaw(P, N) ==
  /\ SkipLaw(P, Still)
  /\ QuoteLaw(P, "'", Text!Character \ {"'"})
  /\ QuoteLaw(P, "\"", N)
  /\ \A w \in Seq(Plain) : \A s \in Text!Texts : Breaks(s) => P[w \o s] = RD[w] \o P[s]

\* The classes of characters the passes meet.
LEMMA Kinds ==
  /\ Still \subseteq Text!Character /\ Plain \subseteq Text!Character \ Quotes
  /\ "'" \notin Text!Digit /\ "\"" \notin Text!Digit /\ "?" \notin Text!Digit
  /\ "?" \in Text!Character \ Quotes /\ Quotes \subseteq Text!Character
  /\ "?" \in Text!Character \ {"'"} /\ "?" \in Text!Character \ {"\""} /\ "?" \in Still
  /\ Still \subseteq Text!Character \ {"'"} /\ Still \subseteq Text!Character \ {"\""}
  /\ Text!Character \ Quotes \subseteq Text!Character \ {"'"}
  /\ Text!Character \ Quotes \subseteq Text!Character \ {"\""}
  /\ "\"" \in Text!Character \ {"'"}
  BY DEF Still, Plain, Quotes, Text!Character, Text!Digit, Text!White, Text!Letter, Text!Lower

\* A text of some characters is a text of more characters.
LEMMA Weaken == \A A, B : A \subseteq B => \A w \in Seq(A) : w \in Seq(B)
  BY SeqMonotonic

\* Hiding digits, in all the forms in which it is used.
LEMMA DigitsOf ==
  /\ DigitLaw(RD, Text!Character) /\ DigitLaw(RD, Text!Character \ Quotes)
  /\ SkipLaw(RD, Still)
  /\ \A w \in Text!Texts : RD[w] \in Text!Texts
  /\ \A w \in Text!Texts : \A s \in Text!Texts : Breaks(s) => RD[w \o s] = RD[w] \o RD[s]
  /\ \A U \in SUBSET Text!Character : \A w \in Seq(U) :
       RD[w] \in Seq((U \ Text!Digit) \cup {"?"})
  <1> DEFINE S == Text!Character
  <1>1. DigitLaw(RD, S)
    BY DigitsPass DEF RD
  <1>2. DigitLaw(RD, S \ Quotes)
    <2> HIDE DEF S
    <2> QED BY <1>1 DEF DigitLaw
  <1>3. S \in SUBSET S /\ S \ Quotes \in SUBSET S /\ Still = (S \ Quotes) \ Text!Digit
    BY DEF Still
  <1>4. SkipLaw(RD, Still)
    <2>1. SkipLaw(RD, (S \ Quotes) \ Text!Digit)
      BY <1>2, <1>3, NoRuns
    <2> QED BY <1>3, <2>1, Zenon
  <1>5. \A w \in Text!Texts : RD[w] \in Text!Texts
    BY <1>1 DEF DigitLaw
  <1>6. \A w \in Seq(S) : \A s \in Text!Texts : Breaks(s) => RD[w \o s] = RD[w] \o RD[s]
    <2>1. S \in SUBSET Text!Character
      OBVIOUS
    <2> HIDE DEF S
    <2> QED BY <1>1, <2>1, RunsApart
  <1>7. \A U \in SUBSET S : \A w \in Seq(U) : RD[w] \in Seq((U \ Text!Digit) \cup {"?"})
    <2> SUFFICES ASSUME NEW U \in SUBSET S
                 PROVE  \A w \in Seq(U) : RD[w] \in Seq((U \ Text!Digit) \cup {"?"})
      BY Zenon
    <2>1. S \in SUBSET Text!Character
      OBVIOUS
    <2> HIDE DEF S
    <2> QED BY <1>1, <2>1, RunRange
  <1> QED BY <1>1, <1>2, <1>4, <1>5, <1>6, <1>7, TextLists

\* Quotes stay where they are when the numbers between them are replaced.
LEMMA DigitsInQuotes ==
  ASSUME NEW q \in Quotes, NEW w \in Text!Texts, NEW s \in Text!Texts
  PROVE  RD[Enclosed(q, w) \o s] = Enclosed(q, RD[w]) \o RD[s]
  <1>1. q \in Text!Character /\ q \notin Text!Digit
    BY Kinds DEF Quotes
  <1> DEFINE k == <<q>>
             r == k \o s
  <1>2. \A v \in Text!Texts : RD[k \o v] = k \o RD[v]
    BY <1>1, DigitsOf DEF DigitLaw
  <1>3. r \in Text!Texts /\ r # <<>> /\ r[1] = q
    BY <1>1, FrontCharacter
  <1>4. Breaks(r)
    <2> HIDE DEF r
    <2> QED BY <1>1, <1>3 DEF Breaks
  <1>5. EnclosedLaw(q, w, s) /\ EnclosedLaw(q, RD[w], RD[s])
    <2>1. RD[w] \in Text!Texts /\ RD[s] \in Text!Texts
      BY DigitsOf
    <2> QED BY <1>1, <2>1, EnclosedFirst, Zenon
  <1>6. Enclosed(q, w) \o s = k \o (w \o r)
    BY <1>5 DEF EnclosedLaw
  <1>7. Enclosed(q, RD[w]) \o RD[s] = k \o (RD[w] \o (k \o RD[s]))
    BY <1>5 DEF EnclosedLaw
  <1>8. RD[w \o r] = RD[w] \o RD[r]
    <2> HIDE DEF r
    <2> QED BY <1>3, <1>4, DigitsOf
  <1>9. RD[r] = k \o RD[s]
    BY <1>2
  <1>10. w \o r \in Text!Texts
    BY <1>3, TextLists
  <1>11. RD[k \o (w \o r)] = k \o RD[w \o r]
    BY <1>2, <1>10
  <1> HIDE DEF k, r
  <1> QED BY <1>6, <1>7, <1>8, <1>9, <1>11, Zenon

\* AnonymizeQueryText hides them at once, even with single quotes in a name.
LEMMA HidesAtOnce == HidingLaw(As(Text!re), Text!Character \ {"\"", "newline"})
  <1> DEFINE P == As(Text!re)
             Q == Text!Character \ Quotes
  <1>1. DigitLaw(P, Q) /\ DigitLaw(RD, Q)
    BY rePass, DigitsOf
  <1>2. Q \in SUBSET Text!Character /\ Still = Q \ Text!Digit /\ Plain \subseteq Q
    BY Kinds DEF Still
  <1> HIDE DEF P, Q
  <1>3. SkipLaw(P, Q \ Text!Digit)
    BY <1>1, <1>2, NoRuns
  <1>4. \A w \in Seq(Q) : P[w] = RD[w]
    BY <1>1, <1>2, SameRuns
  <1>5. \A w \in Seq(Q) : \A s \in Text!Texts : Breaks(s) => P[w \o s] = P[w] \o P[s]
    BY <1>1, <1>2, RunsApart
  <1>6. \A w \in Seq(Plain) : w \in Seq(Q)
    BY <1>2, Weaken
  <1>7. \A w \in Seq(Plain) : \A s \in Text!Texts : Breaks(s) => P[w \o s] = RD[w] \o P[s]
    BY <1>4, <1>5, <1>6
  <1>8. SkipLaw(P, Still)
    BY <1>2, <1>3, Zenon
  <1> QED BY <1>7, <1>8, rePass DEF HidingLaw, P

\* ReplaceLiterals, pass by pass.
LEMMA InTurnIs ==
  \A s \in Text!Texts : InTurn[s] = As(Text!DoubleQuoted)[As(Text!SingleQuoted)[RD[s]]]
  <1> DEFINE P2 == As(Text!SingleQuoted)
             P3 == As(Text!DoubleQuoted)
  <1>1. /\ RD \in [Text!Texts -> Text!Texts]
        /\ SkipLaw(P2, Text!Character \ {"'"}) /\ SkipLaw(P3, Text!Character \ {"\""})
    BY QuotedPasses, DigitsOf DEF DigitLaw
  <1>2. \A s \in Text!Texts : InTurn[s] = P3[P2[RD[s]]]
    <2>1. \A s \in Text!Texts : RD[s] = Text!ReplaceAllString(Text!Digits, s)
      BY DEF RD, As
    <2>2. \A s \in Text!Texts : P2[s] = Text!ReplaceAllString(Text!SingleQuoted, s)
      BY DEF As
    <2>3. \A s \in Text!Texts : P3[s] = Text!ReplaceAllString(Text!DoubleQuoted, s)
      BY DEF As
    <2>4. \A s \in Text!Texts : RD[s] \in Text!Texts /\ P2[s] \in Text!Texts
      BY <1>1 DEF SkipLaw
    <2>5. \A s \in Text!Texts : InTurn[s] = Text!ReplaceLiterals(s)
      BY DEF InTurn
    <2> HIDE DEF P2, P3
    <2> QED BY <2>1, <2>2, <2>3, <2>4, <2>5 DEF Text!ReplaceLiterals
  <1> QED BY <1>2

\* AnonymizeAndNormalize hides them in turn, if no single quote is in a name.
LEMMA HidesInTurn == HidingLaw(InTurn, Text!Character \ Quotes)
  <1> DEFINE S == Text!Character
             P2 == As(Text!SingleQuoted)
             P3 == As(Text!DoubleQuoted)
  <1>1. /\ RD \in [Text!Texts -> Text!Texts] /\ RD[<<>>] = <<>>
        /\ QuoteLaw(P2, "'", S \ {"'"}) /\ SkipLaw(P2, S \ {"'"})
        /\ QuoteLaw(P3, "\"", S \ {"\""}) /\ SkipLaw(P3, S \ {"\""})
    BY QuotedPasses, DigitsOf DEF DigitLaw
  <1>2. \A s \in Text!Texts : InTurn[s] = P3[P2[RD[s]]]
    BY InTurnIs
  <1> HIDE DEF P2, P3, S
  <1>3. /\ P2 \in [Text!Texts -> Text!Texts] /\ P2[<<>>] = <<>>
        /\ P3 \in [Text!Texts -> Text!Texts] /\ P3[<<>>] = <<>>
        /\ \A w \in Seq(S \ {"'"}) : \A s \in Text!Texts : P2[w \o s] = w \o P2[s]
        /\ \A w \in Seq(S \ {"\""}) : \A s \in Text!Texts : P3[w \o s] = w \o P3[s]
    BY <1>1 DEF SkipLaw
  <1>4. /\ \A w \in Seq(S \ {"'"}) : \A s \in Text!Texts :
             Enclosed("'", w) \in Text!Texts /\ P2[Enclosed("'", w) \o s] = <<"?">> \o P2[s]
        /\ \A w \in Seq(S \ {"\""}) : \A s \in Text!Texts :
             Enclosed("\"", w) \in Text!Texts /\ P3[Enclosed("\"", w) \o s] = <<"?">> \o P3[s]
    BY <1>1 DEF QuoteLaw
  <1>5. \A s \in Text!Texts : RD[s] \in Text!Texts /\ P2[s] \in Text!Texts /\ P3[s] \in Text!Texts
    BY <1>1, <1>3
  <1>6. \A w \in Seq(S \ Quotes) : w \in Seq(S \ {"'"}) /\ w \in Seq(S \ {"\""}) /\ w \in Text!Texts
    BY Kinds, Weaken, TextLists DEF S
  <1>7. InTurn \in [Text!Texts -> Text!Texts]
    <2>1. InTurn = [s \in Text!Texts |-> InTurn[s]]
      BY DEF InTurn
    <2> QED BY <1>2, <1>5, <2>1
  <1>8. \A v \in Seq(S \ Quotes) : \A s \in Text!Texts : P3[P2[v \o s]] = v \o P3[P2[s]]
    <2> SUFFICES ASSUME NEW v \in Seq(S \ Quotes), NEW s \in Text!Texts
                 PROVE  P3[P2[v \o s]] = v \o P3[P2[s]]
      OBVIOUS
    <2>1. v \in Seq(S \ {"'"}) /\ v \in Seq(S \ {"\""}) /\ P2[s] \in Text!Texts
      BY <1>5, <1>6
    <2>2. P2[v \o s] = v \o P2[s] /\ P3[v \o P2[s]] = v \o P3[P2[s]]
      BY <1>3, <2>1, Zenon
    <2> QED BY <2>2, Zenon
  <1>9. SkipLaw(InTurn, Still)
    <2>1. InTurn[<<>>] = <<>>
      BY <1>1, <1>2, <1>3, TextLists
    <2>2. \A w \in Seq(Still) : w \in Seq(S \ Quotes)
      <3>1. Still \subseteq S \ Quotes
        BY DEF Still, S
      <3> QED BY <3>1, Weaken
    <2>3. ASSUME NEW w \in Seq(Still), NEW s \in Text!Texts
          PROVE  InTurn[w \o s] = w \o InTurn[s]
      <3>1. RD[w \o s] = w \o RD[s]
        BY DigitsOf DEF SkipLaw
      <3>2. P3[P2[w \o RD[s]]] = w \o P3[P2[RD[s]]]
        BY <1>5, <1>8, <2>2
      <3>3. w \o s \in Text!Texts
        BY <1>6, <2>2, TextLists
      <3> QED BY <1>2, <3>1, <3>2, <3>3, Zenon
    <2> QED BY <1>7, <2>1, <2>3 DEF SkipLaw
  <1>10. \A U \in SUBSET S : "?" \in U => \A w \in Seq(U) : RD[w] \in Seq(U)
    <2> SUFFICES ASSUME NEW U \in SUBSET S, "?" \in U, NEW w \in Seq(U) PROVE RD[w] \in Seq(U)
      BY Zenon
    <2>1. RD[w] \in Seq((U \ Text!Digit) \cup {"?"})
      BY DigitsOf DEF S
    <2>2. (U \ Text!Digit) \cup {"?"} \subseteq U
      OBVIOUS
    <2> QED BY <2>1, <2>2, Weaken
  <1>11. QuoteLaw(InTurn, "'", S \ {"'"})
    <2> SUFFICES ASSUME NEW w \in Seq(S \ {"'"}), NEW s \in Text!Texts
                 PROVE  /\ Enclosed("'", w) \in Text!Texts
                        /\ InTurn[Enclosed("'", w) \o s] = <<"?">> \o InTurn[s]
      BY DEF QuoteLaw
    <2>1. w \in Text!Texts /\ "'" \in Quotes
      BY Weaken, TextLists DEF S, Quotes
    <2>2. RD[Enclosed("'", w) \o s] = Enclosed("'", RD[w]) \o RD[s]
      BY <2>1, DigitsInQuotes
    <2>3. RD[w] \in Seq(S \ {"'"})
      BY <1>10, Kinds DEF S
    <2>4. P2[Enclosed("'", RD[w]) \o RD[s]] = <<"?">> \o P2[RD[s]]
      BY <1>4, <1>5, <2>3
    <2>5. P3[<<"?">> \o P2[RD[s]]] = <<"?">> \o P3[P2[RD[s]]]
      <3>1. <<"?">> \in Seq(S \ {"\""})
        BY Kinds, Single DEF S
      <3> QED BY <1>3, <1>5, <3>1
    <2>6. Enclosed("'", w) \in Text!Texts /\ Enclosed("'", w) \o s \in Text!Texts
      BY <1>4, TextLists
    <2> QED BY <1>2, <2>2, <2>4, <2>5, <2>6, Zenon
  <1>12. QuoteLaw(InTurn, "\"", S \ Quotes)
    <2> SUFFICES ASSUME NEW w \in Seq(S \ Quotes), NEW s \in Text!Texts
                 PROVE  /\ Enclosed("\"", w) \in Text!Texts
                        /\ InTurn[Enclosed("\"", w) \o s] = <<"?">> \o InTurn[s]
      BY DEF QuoteLaw
    <2>1. w \in Text!Texts /\ "\"" \in Quotes
      BY <1>6 DEF Quotes
    <2>2. RD[Enclosed("\"", w) \o s] = Enclosed("\"", RD[w]) \o RD[s]
      BY <2>1, DigitsInQuotes
    <2>3. RD[w] \in Seq(S \ Quotes)
      BY <1>10, Kinds DEF S
    <2>4. Enclosed("\"", RD[w]) \in Seq(S \ {"'"})
      <3>1. "\"" \in S \ {"'"} /\ RD[w] \in Seq(S \ {"'"})
        BY <1>6, <2>3, Kinds DEF S
      <3> QED BY <3>1, Single, Concat DEF Enclosed
    <2>5. P2[Enclosed("\"", RD[w]) \o RD[s]] = Enclosed("\"", RD[w]) \o P2[RD[s]]
      BY <1>3, <1>5, <2>4
    <2>6. P3[Enclosed("\"", RD[w]) \o P2[RD[s]]] = <<"?">> \o P3[P2[RD[s]]]
      BY <1>4, <1>5, <1>6, <2>3
    <2>7. Enclosed("\"", w) \in Text!Texts /\ Enclosed("\"", w) \o s \in Text!Texts
      BY <1>4, <1>6, TextLists
    <2> QED BY <1>2, <2>2, <2>5, <2>6, <2>7, Zenon
  <1>13. ASSUME NEW w \in Seq(Plain), NEW s \in Text!Texts, Breaks(s)
         PROVE  InTurn[w \o s] = RD[w] \o InTurn[s]
    <2>1. w \in Seq(S \ Quotes) /\ w \in Text!Texts
      BY <1>6, Kinds, Weaken DEF S
    <2>2. RD[w \o s] = RD[w] \o RD[s] /\ w \o s \in Text!Texts
      BY <1>13, <2>1, DigitsOf, TextLists
    <2>3. RD[w] \in Seq(S \ Quotes)
      BY <1>10, <2>1, Kinds DEF S
    <2>4. P3[P2[RD[w] \o RD[s]]] = RD[w] \o P3[P2[RD[s]]]
      BY <1>5, <1>8, <2>3
    <2> QED BY <1>2, <2>2, <2>4, Zenon
  <1> QED BY <1>9, <1>11, <1>12, <1>13 DEF HidingLaw, S

-----------------------------------------------------------------------------
(* Normalization: what is hidden of a statement *)

Doubling == [c \in Text!Character |-> IF c = "'" THEN <<"'", "'">> ELSE <<c>>]
Marks == [c \in Text!Character |-> IF c = "'" THEN <<"?">> ELSE <<>>]

\* A string with quotes in it reads as several strings, one after the other.
Segment == Seq(Text!Character \ {"'"})
InQuotes == [w \in Segment |-> Enclosed("'", w)]
OneMark == [w \in Segment |-> <<"?">>]

SegmentLaw(b, w, z) ==
  /\ Text!Doubled(b) \o <<"'">> = w \o (<<"'">> \o Text!Each(z, InQuotes))
  /\ Text!Each(b, Marks) = Text!Each(z, OneMark)

\* A string is spelled and hidden part by part.
LEMMA StringParts ==
  /\ EachLaw(Text!Character, Text!Character, Doubling)
  /\ EachLaw(Text!Character, {"?"}, Marks)
  /\ EachLaw(Segment, Text!Character, InQuotes) /\ EachLaw(Segment, {"?"}, OneMark)
  /\ InQuotes \in [Segment -> Seq(Text!Character)] /\ OneMark \in [Segment -> Seq({"?"})]
  /\ \A w \in Segment : w \in Text!Texts /\ Enclosed("'", w) \in Text!Texts
  <1> DEFINE S == Text!Character
  <1>1. "'" \in S /\ Text!Texts = Seq(S)
    BY Classes, TextLists
  <1>2. \A w \in Segment : w \in Seq(S)
    BY Weaken DEF Segment
  <1>3. \A w \in Segment : Enclosed("'", w) \in Seq(S)
    BY <1>1, <1>2, Single, Concat DEF Enclosed
  <1>4. Doubling \in [S -> Seq(S)]
    <2>1. <<"'", "'">> \in Seq(S) /\ \A c \in S : <<c>> \in Seq(S)
      BY <1>1
    <2> HIDE DEF S
    <2> DEFINE e(c) == IF c = "'" THEN <<"'", "'">> ELSE <<c>>
    <2>2. \A c \in S : e(c) \in Seq(S)
      BY <2>1
    <2>3. Doubling = [c \in S |-> e(c)]
      BY DEF Doubling, S
    <2> HIDE DEF e
    <2> QED BY <2>2, <2>3
  <1>5. Marks \in [S -> Seq({"?"})]
    <2>1. <<"?">> \in Seq({"?"}) /\ <<>> \in Seq({"?"})
      OBVIOUS
    <2> HIDE DEF S
    <2> DEFINE e(c) == IF c = "'" THEN <<"?">> ELSE <<>>
    <2>2. \A c \in S : e(c) \in Seq({"?"})
      BY <2>1
    <2>3. Marks = [c \in S |-> e(c)]
      BY DEF Marks, S
    <2> HIDE DEF e
    <2> QED BY <2>2, <2>3
  <1>6. InQuotes \in [Segment -> Seq(S)]
    BY <1>3 DEF InQuotes
  <1>7. OneMark \in [Segment -> Seq({"?"})]
    BY DEF OneMark
  <1> HIDE DEF S
  <1>8. EachLaw(S, S, Doubling) /\ EachLaw(S, {"?"}, Marks)
    BY <1>4, <1>5, EachFront
  <1>9. EachLaw(Segment, S, InQuotes) /\ EachLaw(Segment, {"?"}, OneMark)
    BY <1>6, <1>7, EachFront
  <1> QED BY <1>1, <1>2, <1>3, <1>6, <1>7, <1>8, <1>9 DEF S

\* A string value is parts without single quotes, with single quotes between.
LEMMA Segments ==
  \A b \in Text!Texts : \E w \in Segment : \E z \in Seq(Segment) : SegmentLaw(b, w, z)
  <1> DEFINE S == Text!Character
             q == <<"'">>
             Cut(b) == \E w \in Segment : \E z \in Seq(Segment) : SegmentLaw(b, w, z)
             T == {b \in Seq(S) : Cut(b)}
  <1>1. /\ Text!Texts = Seq(S) /\ "'" \in S /\ q \in Seq(S)
        /\ \A w \in Segment : w \in Seq(S)
    BY Classes, TextLists, StringParts
  <1>2. /\ Text!Doubled(<<>>) = <<>>
        /\ \A b \in Seq(S) : Text!Doubled(b) \in Seq(S)
        /\ \A c \in S : \A b \in Seq(S) : Text!Doubled(<<c>> \o b) = Doubling[c] \o Text!Doubled(b)
    BY StringParts DEF EachLaw, Text!Doubled, Doubling
  <1>3. /\ Text!Each(<<>>, Marks) = <<>>
        /\ \A b \in Seq(S) : Text!Each(b, Marks) \in Seq({"?"})
        /\ \A c \in S : \A b \in Seq(S) : Text!Each(<<c>> \o b, Marks) = Marks[c] \o Text!Each(b, Marks)
    BY StringParts DEF EachLaw
  <1>4. /\ Text!Each(<<>>, InQuotes) = <<>> /\ Text!Each(<<>>, OneMark) = <<>>
        /\ \A z \in Seq(Segment) : Text!Each(z, InQuotes) \in Seq(S)
        /\ \A w \in Segment : \A z \in Seq(Segment) :
             /\ Text!Each(<<w>> \o z, InQuotes) = Enclosed("'", w) \o Text!Each(z, InQuotes)
             /\ Text!Each(<<w>> \o z, OneMark) = <<"?">> \o Text!Each(z, OneMark)
    <2>1. \A w \in Segment : InQuotes[w] = Enclosed("'", w) /\ OneMark[w] = <<"?">>
      BY DEF InQuotes, OneMark
    <2> QED BY <2>1, StringParts DEF EachLaw
  <1> HIDE DEF S
  <1>5. <<>> \in T
    <2>1. <<>> \in Segment /\ <<>> \in Seq(Segment) /\ <<>> \in Seq(S)
      BY EmptySeq DEF Segment
    <2>2. <<>> \o q = q /\ q \o <<>> = q
      BY <1>1, Concat
    <2>3. SegmentLaw(<<>>, <<>>, <<>>)
      BY <1>2, <1>3, <1>4, <2>2 DEF SegmentLaw
    <2> QED BY <2>1, <2>3
  <1>6. ASSUME NEW c \in S, NEW b \in Seq(S), Cut(b) PROVE Cut(<<c>> \o b)
    <2>1. PICK w \in Segment, z \in Seq(Segment) : SegmentLaw(b, w, z)
      BY <1>6
    <2> DEFINE d == Text!Doubled(b)
               x == q \o Text!Each(z, InQuotes)
               k == <<c>>
    <2>2. /\ d \o q = w \o x /\ Text!Each(b, Marks) = Text!Each(z, OneMark)
          /\ Text!Doubled(k \o b) = Doubling[c] \o d
          /\ Text!Each(k \o b, Marks) = Marks[c] \o Text!Each(b, Marks)
      BY <1>2, <1>3, <2>1 DEF SegmentLaw
    <2>3. d \in Seq(S) /\ x \in Seq(S) /\ k \in Seq(S) /\ w \in Seq(S)
          /\ Text!Each(z, InQuotes) \in Seq(S)
      BY <1>1, <1>2, <1>4, Single, Concat
    <2>4. Associates(S)
      BY Assoc
    <2>5. CASE c # "'"
      <3>1. Doubling[c] = k /\ Marks[c] = <<>>
        BY <1>6, <2>5 DEF Doubling, Marks, S
      <3>2. k \o w \in Segment
        <4>1. c \in Text!Character \ {"'"}
          BY <2>5 DEF S
        <4> QED BY <4>1, Single, Concat DEF Segment
      <3>3. (k \o d) \o q = (k \o w) \o x
        <4> HIDE DEF k, d, x, q
        <4>0. k \in Seq(S) /\ d \in Seq(S) /\ q \in Seq(S) /\ w \in Seq(S) /\ x \in Seq(S)
          BY <1>1, <2>3
        <4>1. (k \o d) \o q = k \o (d \o q)
          <5>1. Regroup(k, d, q)
            BY <4>0, Regrouping, Zenon
          <5> QED BY <5>1 DEF Regroup
        <4>2. (k \o w) \o x = k \o (w \o x)
          <5>1. Regroup(k, w, x)
            BY <4>0, Regrouping, Zenon
          <5> QED BY <5>1 DEF Regroup
        <4> QED BY <2>2, <4>1, <4>2
      <3>4. Text!Each(k \o b, Marks) = Text!Each(z, OneMark)
        <4>1. Text!Each(b, Marks) \in Seq({"?"})
          BY <1>3
        <4> QED BY <2>2, <3>1, <4>1, Concat
      <3>5. SegmentLaw(k \o b, k \o w, z)
        <4> HIDE DEF k
        <4> QED BY <2>2, <3>1, <3>3, <3>4 DEF SegmentLaw
      <3> HIDE DEF k
      <3>6. Cut(k \o b)
        BY <3>2, <3>5
      <3> QED BY <3>6 DEF k
    <2>6. CASE c = "'"
      <3>1. Doubling[c] = q \o q /\ Marks[c] = <<"?">>
        <4>1. Doubling[c] = <<"'", "'">> /\ Marks[c] = <<"?">>
          BY <1>1, <2>6 DEF Doubling, Marks, S
        <4>2. <<"'", "'">> = q \o q
          OBVIOUS
        <4> QED BY <4>1, <4>2
      <3>2. Enclosed("'", w) \o Text!Each(z, InQuotes) = q \o (w \o x)
        <4>1. EnclosedLaw("'", w, Text!Each(z, InQuotes))
          BY <1>1, <2>3, EnclosedFirst DEF S
        <4> QED BY <4>1 DEF EnclosedLaw
      <3>3. ((q \o q) \o d) \o q = q \o (q \o (w \o x))
        <4> HIDE DEF k, d, x, q
        <4>1. /\ q \in Seq(S) /\ d \in Seq(S)
              /\ q \o q \in Seq(S) /\ d \o q \in Seq(S)
          BY <1>1, <2>3, Concat
        <4>2. ((q \o q) \o d) \o q = (q \o q) \o (d \o q)
          BY <2>4, <4>1 DEF Associates
        <4>3. (q \o q) \o (d \o q) = q \o (q \o (d \o q))
          BY <2>4, <4>1 DEF Associates
        <4> QED BY <2>2, <4>2, <4>3
      <3>4. q \o (q \o (w \o x)) = <<>> \o (q \o Text!Each(<<w>> \o z, InQuotes))
        <4>1. Text!Each(<<w>> \o z, InQuotes) = q \o (w \o x)
          BY <1>4, <3>2
        <4>2. q \o (q \o (w \o x)) \in Seq(S)
          <5> HIDE DEF x, q
          <5> QED BY <1>1, <2>3, Concat
        <4>3. \A s \in Seq(S) : <<>> \o s = s
          BY Concat
        <4> HIDE DEF x, q
        <4> QED BY <4>1, <4>2, <4>3
      <3>5. Text!Each(k \o b, Marks) = Text!Each(<<w>> \o z, OneMark)
        BY <1>4, <2>2, <3>1
      <3>6. SegmentLaw(k \o b, <<>>, <<w>> \o z)
        <4> HIDE DEF k, x, q, d
        <4>1. Text!Doubled(k \o b) \o q = <<>> \o (q \o Text!Each(<<w>> \o z, InQuotes))
          BY <2>2, <3>1, <3>3, <3>4
        <4> QED BY <3>5, <4>1 DEF SegmentLaw, q
      <3>7. <<>> \in Segment /\ <<w>> \o z \in Seq(Segment)
        BY Single, Concat, EmptySeq DEF Segment
      <3> HIDE DEF k
      <3>8. Cut(k \o b)
        BY <3>6, <3>7
      <3> QED BY <3>8 DEF k
    <2> QED BY <2>5, <2>6
  <1>7. Seq(S) \subseteq T
    <2>1. \A c \in S : \A b \in Seq(S) : b \in T => <<c>> \o b \in T
      <3>1. \A c \in S : \A b \in Seq(S) : <<c>> \o b \in Seq(S)
        BY Single, Concat
      <3> HIDE DEF Cut
      <3> QED BY <1>6, <3>1
    <2> HIDE DEF T
    <2> QED BY <1>5, <2>1, ListInduction
  <1> QED BY <1>1, <1>7

\* A string is hidden, and its marks are those Hidden leaves.
LEMMA StringHidden ==
  ASSUME NEW P \in [Text!Texts -> Text!Texts], QuoteLaw(P, "'", Text!Character \ {"'"}),
         NEW b \in Text!Texts, NEW s \in Text!Texts
  PROVE  /\ Enclosed("'", Text!Doubled(b)) \in Text!Texts
         /\ <<"?">> \o Text!Each(b, Marks) \in Seq({"?"})
         /\ P[Enclosed("'", Text!Doubled(b)) \o s] = (<<"?">> \o Text!Each(b, Marks)) \o P[s]
  <1> DEFINE S == Text!Character
             q == <<"'">>
             d == Text!Doubled(b)
             x == Enclosed("'", d)
             m == Text!Each(b, Marks)
  <1>1. /\ Text!Texts = Seq(S) /\ "'" \in S /\ q \in Seq(S) /\ "?" \in S
        /\ d \in Seq(S) /\ m \in Seq({"?"}) /\ m \in Seq(S)
    <2>1. d \in Seq(S) /\ m \in Seq({"?"})
      BY StringParts, TextLists DEF EachLaw, Text!Doubled, Doubling
    <2>2. Text!Texts = Seq(S) /\ "'" \in S /\ q \in Seq(S) /\ "?" \in S
      BY Classes, TextLists
    <2>3. {"?"} \subseteq S
      BY <2>2
    <2> HIDE DEF S, m, d, q
    <2> QED BY <2>1, <2>2, <2>3, Weaken
  <1>2. PICK w \in Segment, z \in Seq(Segment) : SegmentLaw(b, w, z)
    BY Segments, Zenon
  <1> DEFINE y == Text!Each(z, InQuotes)
             n == Text!Each(z, OneMark)
  <1>3. w \in Seq(S) /\ y \in Seq(S) /\ n \in Seq({"?"}) /\ n \in Seq(S) /\ s \in Seq(S)
    <2>1. y \in Seq(S) /\ n \in Seq({"?"}) /\ w \in Seq(S)
      BY StringParts, TextLists DEF EachLaw
    <2>2. {"?"} \subseteq S
      BY <1>1
    <2>3. n \in Seq(S)
      BY <2>1, <2>2, Weaken, Zenon
    <2> QED BY <2>1, <2>3, TextLists
  <1>4. x = Enclosed("'", w) \o y
    <2>1. d \o q = w \o (q \o y)
      BY <1>2 DEF SegmentLaw
    <2>2. EnclosedLaw("'", w, y)
      BY <1>1, <1>3, EnclosedFirst
    <2>3. Enclosed("'", w) \o y = q \o (w \o (q \o y))
      BY <2>2 DEF EnclosedLaw
    <2>4. Regroup(q, d, q)
      <3> HIDE DEF S, q, d
      <3> QED BY <1>1, Regrouping, Zenon
    <2> QED BY <2>1, <2>3, <2>4 DEF Regroup, Enclosed
  <1>5. m = n
    BY <1>2 DEF SegmentLaw
  <1>6. P[y \o s] = n \o P[s]
    <2> DEFINE K == Segment
               f == InQuotes
               g == OneMark
    <2>1. f \in [K -> Seq(S)] /\ g \in [K -> Seq(S)]
      <3>1. f \in [K -> Seq(S)] /\ g \in [K -> Seq({"?"})]
        BY StringParts
      <3>2. <<"?">> \in Seq(S)
        BY <1>1
      <3>3. \A k \in K : <<"?">> \in Seq(S)
        BY <3>2
      <3> HIDE DEF S, K
      <3> QED BY <3>1, <3>3 DEF OneMark, K
    <2>2. ReadsEach(K, S, P, f, g)
      BY TextLists DEF QuoteLaw, InQuotes, OneMark, Segment, ReadsEach
    <2>3. P \in [Seq(S) -> Seq(S)]
      BY TextLists
    <2> HIDE DEF K, f, g, S
    <2>4. ReadsAll(K, S, P, f, g)
      BY <2>1, <2>2, <2>3, Piecewise
    <2> QED BY <1>3, <2>4 DEF ReadsAll, K, f, g
  <1>7. P[Enclosed("'", w) \o (y \o s)] = <<"?">> \o P[y \o s]
    <2>1. y \o s \in Text!Texts
      BY <1>1, <1>3, Concat
    <2>2. w \in Seq(Text!Character \ {"'"})
      BY DEF Segment
    <2> HIDE DEF y
    <2> QED BY <2>1, <2>2 DEF QuoteLaw
  <1> DEFINE e == Enclosed("'", w)
  <1>8. e \in Seq(S)
    BY <1>1, StringParts
  <1>9. P[s] \in Seq(S) /\ <<"?">> \in Seq(S)
    BY <1>1
  <1> HIDE DEF e, y, n
  <1>10. Regroup(e, y, s) /\ Regroup(<<"?">>, n, P[s])
    BY <1>3, <1>8, <1>9, Regrouping, Zenon
  <1>11. P[x \o s] = (<<"?">> \o n) \o P[s]
    <2>1. x \o s = e \o (y \o s)
      BY <1>4, <1>10 DEF Regroup, e
    <2>2. P[x \o s] = <<"?">> \o (n \o P[s])
      BY <1>6, <1>7, <2>1, Zenon DEF e
    <2> QED BY <1>10, <2>2 DEF Regroup
  <1>12. x \in Text!Texts
    <2> HIDE DEF x
    <2> QED BY <1>1, <1>3, <1>4, <1>8, Concat DEF e
  <1>13. <<"?">> \o m \in Seq({"?"})
    <2> HIDE DEF m
    <2> QED BY <1>1, Single, Concat
  <1> QED BY <1>5, <1>11, <1>12, <1>13, Zenon

\* The tokens of statements, as they run and as the server remembers them.
Blank == Seq(Text!White) \ {<<>>}

Written(N) ==
  [kind : {"string"}, body : Text!Texts, gap : Blank]
    \cup [kind : {"name"}, body : Seq(N), gap : Blank]
    \cup [kind : {"word", "number", "sign"}, body : Seq(Plain), gap : Blank]

SpelledOut(t) == Text!Spelled(t) \o t.gap
LeftOf(t) == Text!Hidden(t) \o t.gap

\* Blanks are left as they are, and end a run of digits.
LEMMA GapsAre ==
  ASSUME NEW g \in Blank, NEW s \in Text!Texts
  PROVE  /\ g \in Seq(Still) /\ g \in Text!Texts /\ g # <<>>
         /\ g \o s \in Text!Texts /\ (g \o s)[1] \in Text!White /\ Breaks(g \o s)
  <1>1. Text!White \subseteq Still /\ Text!White \subseteq Text!Character
        /\ \A c \in Text!White : c \notin Text!Digit
    BY DEF Still, Quotes, Text!White, Text!Character, Text!Digit
  <1>2. g \in Seq(Text!White) /\ g # <<>>
    BY DEF Blank
  <1>3. g \in Seq(Still) /\ g \in Seq(Text!Character)
    BY <1>1, <1>2, Weaken, Zenon
  <1>4. g[1] \in Text!White
    BY <1>2, TakenApart, Zenon
  <1>5. g \in Text!Texts /\ Text!Texts = Seq(Text!Character)
    BY <1>3, TextLists
  <1>6. g \o s \in Text!Texts
    BY <1>5, Concat, Zenon
  <1>7. (g \o s)[1] = g[1]
    <2> DEFINE S == Text!Character
    <2>1. g \in Seq(S) /\ s \in Seq(S)
      BY <1>5
    <2> HIDE DEF S
    <2> QED BY <1>2, <2>1, FirstOf
  <1>8. (g \o s)[1] \notin Text!Digit
    BY <1>1, <1>4, <1>7, Zenon
  <1>9. (g \o s)[1] \in Text!White
    BY <1>4, <1>7, Zenon
  <1> QED BY <1>2, <1>3, <1>5, <1>6, <1>8, <1>9, Zenon DEF Breaks

\* What is left of a token, by its kind.
LEMMA HiddenIs ==
  ASSUME NEW N \in SUBSET Text!Character, NEW t \in Written(N)
  PROVE  /\ t.gap \in Blank
         /\ \/ /\ t.kind = "string" /\ t.body \in Text!Texts
               /\ Text!Spelled(t) = Enclosed("'", Text!Doubled(t.body))
               /\ Text!Hidden(t) = <<"?">> \o Text!Each(t.body, Marks)
            \/ /\ t.kind = "name" /\ t.body \in Seq(N)
               /\ Text!Spelled(t) = Enclosed("\"", t.body) /\ Text!Hidden(t) = <<"?">>
            \/ /\ t.kind \in {"word", "number", "sign"} /\ t.body \in Seq(Plain)
               /\ Text!Spelled(t) = t.body /\ Text!Hidden(t) = RD[t.body]
  <1>1. CASE t \in [kind : {"string"}, body : Text!Texts, gap : Blank]
    <2>1. t.kind = "string" /\ t.body \in Text!Texts /\ t.gap \in Blank
      BY <1>1
    <2>2. Text!Spelled(t) = Enclosed("'", Text!Doubled(t.body))
      BY <2>1 DEF Text!Spelled, Enclosed
    <2>3. Text!Hidden(t) = <<"?">> \o Text!Each(t.body, Marks)
      BY <2>1 DEF Text!Hidden, Marks
    <2> QED BY <2>1, <2>2, <2>3
  <1>2. CASE t \in [kind : {"name"}, body : Seq(N), gap : Blank]
    <2>1. t.kind = "name" /\ t.body \in Seq(N) /\ t.gap \in Blank
      BY <1>2
    <2>2. Text!Spelled(t) = Enclosed("\"", t.body)
      BY <2>1 DEF Text!Spelled, Enclosed
    <2>3. Text!Hidden(t) = <<"?">>
      BY <2>1 DEF Text!Hidden
    <2> QED BY <2>1, <2>2, <2>3
  <1>3. CASE t \in [kind : {"word", "number", "sign"}, body : Seq(Plain), gap : Blank]
    <2>1. t.kind \in {"word", "number", "sign"} /\ t.body \in Seq(Plain) /\ t.gap \in Blank
      BY <1>3
    <2>2. t.body \in Text!Texts
      <3>1. Plain \subseteq Text!Character
        BY Kinds
      <3> QED BY <2>1, <3>1, Weaken, TextLists, Zenon
    <2>3. Text!Spelled(t) = t.body
      BY <2>1 DEF Text!Spelled
    <2>4. Text!Hidden(t) = Text!ReplaceAllString(Text!Digits, t.body)
      BY <2>1 DEF Text!Hidden
    <2>5. RD[t.body] = Text!ReplaceAllString(Text!Digits, t.body)
      BY <2>2 DEF RD, As
    <2> QED BY <2>1, <2>3, <2>4, <2>5
  <1> QED BY <1>1, <1>2, <1>3 DEF Written

\* A pass hides a token whatever follows it, and goes on after it.
LEMMA TokenHidden ==
  ASSUME NEW P, NEW N \in SUBSET Text!Character, HidingLaw(P, N),
         NEW t \in Written(N), NEW s \in Text!Texts
  PROVE  /\ SpelledOut(t) \in Text!Texts /\ LeftOf(t) \in Seq(Still)
         /\ P[SpelledOut(t) \o s] = LeftOf(t) \o P[s]
  <1> DEFINE S == Text!Character
             x == Text!Spelled(t)
             h == Text!Hidden(t)
             g == t.gap
             r == g \o s
  <1>1. /\ g \in Blank /\ g \in Seq(Still) /\ g \in Text!Texts
        /\ r \in Text!Texts /\ Breaks(r)
    <2>1. g \in Blank
      BY HiddenIs
    <2> QED BY <2>1, GapsAre
  <1>2. /\ P \in [Text!Texts -> Text!Texts] /\ P[r] = g \o P[s]
        /\ P[r] \in Text!Texts /\ P[s] \in Text!Texts
    <2>1. P \in [Text!Texts -> Text!Texts]
          /\ \A w \in Seq(Still) : \A v \in Text!Texts : P[w \o v] = w \o P[v]
      BY DEF HidingLaw, SkipLaw
    <2> HIDE DEF g
    <2> QED BY <1>1, <2>1 DEF r
  <1> HIDE DEF r
  <1>3. x \in Text!Texts /\ h \in Seq(Still) /\ P[x \o r] = h \o P[r]
    <2>0. "?" \in Still /\ <<"?">> \in Seq(Still)
      BY Kinds, Single
    <2>1. CASE /\ t.kind = "string" /\ t.body \in Text!Texts
               /\ x = Enclosed("'", Text!Doubled(t.body))
               /\ h = <<"?">> \o Text!Each(t.body, Marks)
      <3>1. QuoteLaw(P, "'", S \ {"'"})
        BY DEF HidingLaw
      <3>2. /\ x \in Text!Texts /\ h \in Seq({"?"}) /\ P[x \o r] = h \o P[r]
        <4> DEFINE b == t.body
        <4>1. b \in Text!Texts /\ x = Enclosed("'", Text!Doubled(b))
              /\ h = <<"?">> \o Text!Each(b, Marks)
          BY <2>1
        <4> HIDE DEF b, x, h, S
        <4>2. /\ Enclosed("'", Text!Doubled(b)) \in Text!Texts
              /\ <<"?">> \o Text!Each(b, Marks) \in Seq({"?"})
              /\ P[Enclosed("'", Text!Doubled(b)) \o r] =
                   (<<"?">> \o Text!Each(b, Marks)) \o P[r]
          BY <1>1, <1>2, <3>1, <4>1, StringHidden DEF S
        <4> QED BY <4>1, <4>2
      <3>3. {"?"} \subseteq Still
        BY <2>0
      <3> HIDE DEF h, x
      <3> QED BY <3>2, <3>3, Weaken
    <2>2. CASE /\ t.kind = "name" /\ t.body \in Seq(N)
               /\ x = Enclosed("\"", t.body) /\ h = <<"?">>
      <3>1. QuoteLaw(P, "\"", N)
        BY DEF HidingLaw
      <3> HIDE DEF h, x
      <3> QED BY <1>1, <2>0, <2>2, <3>1 DEF QuoteLaw
    <2>3. CASE /\ t.kind \in {"word", "number", "sign"} /\ t.body \in Seq(Plain)
               /\ x = t.body /\ h = RD[t.body]
      <3> DEFINE b == t.body
      <3>1. b \in Seq(Plain)
        BY <2>3
      <3>2. x = b /\ h = RD[b]
        BY <2>3
      <3> HIDE DEF b, x, h
      <3>3. P[b \o r] = RD[b] \o P[r]
        BY <1>1, <3>1 DEF HidingLaw
      <3>4. Plain \subseteq S /\ (Plain \ Text!Digit) \cup {"?"} \subseteq Still
        BY Kinds DEF Still
      <3>5. b \in Text!Texts
        BY <3>1, <3>4, Weaken, TextLists
      <3>6. RD[b] \in Seq((Plain \ Text!Digit) \cup {"?"})
        BY <3>1, <3>4, DigitsOf
      <3>7. RD[b] \in Seq(Still)
        BY <3>4, <3>6, Weaken, Zenon
      <3> QED BY <3>2, <3>3, <3>5, <3>7, Zenon
    <2> QED BY <2>1, <2>2, <2>3, HiddenIs
  <1> HIDE DEF x, h, g
  <1>4. h \in Text!Texts
    <2>1. Still \subseteq S
      BY Kinds
    <2> QED BY <1>3, <2>1, Weaken, TextLists
  <1>5. Regroup(x, g, s) /\ Regroup(h, g, P[s])
    <2>1. Text!Texts = Seq(S)
      BY TextLists
    <2> QED BY <1>1, <1>2, <1>3, <1>4, <2>1, Regrouping, Zenon
  <1>6. x \o g \in Text!Texts /\ h \o g \in Seq(Still)
    BY <1>1, <1>3, TextLists, Concat
  <1>7. P[(x \o g) \o s] = (h \o g) \o P[s]
    BY <1>2, <1>3, <1>5 DEF Regroup, r
  <1> QED BY <1>6, <1>7 DEF SpelledOut, LeftOf, x, h, g

\* What is left of a statement, token by token.
HiddenText(tokens, semi) ==
  Text!FlattenSeq([i \in DOMAIN tokens |-> LeftOf(tokens[i])]) \o Text!End(semi)

\* The end of a statement is a semicolon or nothing.
LEMMA Ends ==
  \A semi \in BOOLEAN : /\ Text!End(semi) \in Seq(Still) /\ Text!End(semi) \in Text!Texts
                        /\ Text!End(semi) \in Seq({";"})
  <1>1. ";" \in Still /\ ";" \in Text!Character
    BY DEF Still, Text!Character, Text!Digit, Quotes
  <1>2. \A semi : Text!End(semi) = IF semi THEN <<";">> ELSE <<>>
    BY DEF Text!End
  <1> QED BY <1>1, <1>2, Single, EmptySeq, TextLists

\* A pass hides a statement token by token.
LEMMA StatementHidden ==
  ASSUME NEW P, NEW N \in SUBSET Text!Character, HidingLaw(P, N),
         NEW tokens \in Seq(Written(N)), NEW semi \in BOOLEAN
  PROVE  /\ Text!Text(tokens, semi) \in Text!Texts
         /\ HiddenText(tokens, semi) \in Seq(Still)
         /\ P[Text!Text(tokens, semi)] = HiddenText(tokens, semi)
  <1> DEFINE S == Text!Character
             K == Written(N)
             f == [t \in K |-> SpelledOut(t)]
             g == [t \in K |-> LeftOf(t)]
             e == Text!End(semi)
  <1>1. /\ \A t \in K : SpelledOut(t) \in Seq(S) /\ LeftOf(t) \in Seq(Still)
        /\ \A t \in K : \A s \in Seq(S) : P[SpelledOut(t) \o s] = LeftOf(t) \o P[s]
        /\ Text!Texts = Seq(S)
    <2>1. Text!Texts = Seq(S) /\ <<>> \in Text!Texts
      BY TextLists
    <2>2. \A t \in K : \A s \in Text!Texts :
            /\ SpelledOut(t) \in Text!Texts /\ LeftOf(t) \in Seq(Still)
            /\ P[SpelledOut(t) \o s] = LeftOf(t) \o P[s]
      BY TokenHidden, Zenon DEF K
    <2> HIDE DEF S, K
    <2> QED BY <2>1, <2>2
  <1>2. Still \subseteq S
    BY Kinds
  <1>3. \A s \in Seq(Still) : s \in Seq(S)
    BY <1>2, Weaken
  <1>4. P \in [Seq(S) -> Seq(S)] /\ P[<<>>] = <<>> /\ \A w \in Seq(Still) : P[w] = w
    <2>1. P \in [Seq(S) -> Seq(S)] /\ P[<<>>] = <<>>
          /\ \A w \in Seq(Still) : \A s \in Seq(S) : P[w \o s] = w \o P[s]
      BY TextLists DEF HidingLaw, SkipLaw
    <2> HIDE DEF S
    <2>2. \A w \in Seq(Still) : w \o <<>> = w /\ <<>> \in Seq(S)
      BY Concat, EmptySeq
    <2> QED BY <2>1, <2>2
  <1> HIDE DEF S, K
  <1>5. f \in [K -> Seq(S)] /\ g \in [K -> Seq(S)] /\ g \in [K -> Seq(Still)]
    BY <1>1, <1>3
  <1>6. ReadsEach(K, S, P, f, g)
    BY <1>1 DEF ReadsEach
  <1>7. /\ Text!Each(tokens, f) = Text!FlattenSeq([i \in DOMAIN tokens |-> SpelledOut(tokens[i])])
        /\ Text!Each(tokens, g) = Text!FlattenSeq([i \in DOMAIN tokens |-> LeftOf(tokens[i])])
    <2>1. \A i \in DOMAIN tokens : tokens[i] \in K
      <3>1. DOMAIN tokens = 1 .. Len(tokens) /\ tokens \in Seq(K)
        BY LenProperties DEF K
      <3> QED BY <3>1, ElementOfSeq
    <2>2. [i \in DOMAIN tokens |-> f[tokens[i]]] = [i \in DOMAIN tokens |-> SpelledOut(tokens[i])]
      BY <2>1
    <2>3. [i \in DOMAIN tokens |-> g[tokens[i]]] = [i \in DOMAIN tokens |-> LeftOf(tokens[i])]
      BY <2>1
    <2> HIDE DEF f, g
    <2> QED BY <2>2, <2>3 DEF Text!Each
  <1> HIDE DEF f, g, e
  <1>8. EachLaw(K, S, f) /\ EachLaw(K, Still, g)
    BY <1>5, EachFront
  <1>9. tokens \in Seq(K)
    BY DEF K
  <1>10. Text!Each(tokens, f) \in Seq(S) /\ Text!Each(tokens, g) \in Seq(Still)
    BY <1>8, <1>9 DEF EachLaw
  <1>11. e \in Seq(Still) /\ e \in Seq(S)
    BY <1>1, Ends DEF e
  <1>12. ReadsAll(K, S, P, f, g)
    BY <1>4, <1>5, <1>6, Piecewise
  <1>13. P[Text!Each(tokens, f) \o e] = Text!Each(tokens, g) \o e
    BY <1>4, <1>9, <1>11, <1>12 DEF ReadsAll
  <1>14. Text!Text(tokens, semi) = Text!Each(tokens, f) \o e
    BY <1>7 DEF Text!Text, SpelledOut, e
  <1>15. HiddenText(tokens, semi) = Text!Each(tokens, g) \o e
    BY <1>7 DEF HiddenText, e
  <1>16. Text!Each(tokens, f) \o e \in Seq(S) /\ Text!Each(tokens, g) \o e \in Seq(Still)
    BY <1>10, <1>11, Concat
  <1> QED BY <1>1, <1>13, <1>14, <1>15, <1>16

-----------------------------------------------------------------------------
(* Normalization: case, blanks and semicolons *)

\* Replacing the elements of a text in two parts.
LEMMA EachConcat ==
  ASSUME NEW S, NEW W, NEW f, EachLaw(S, W, f)
  PROVE  \A w, s \in Seq(S) : Text!Each(w \o s, f) = Text!Each(w, f) \o Text!Each(s, f)
  <1> DEFINE Splits(w) == \A s \in Seq(S) :
                            Text!Each(w \o s, f) = Text!Each(w, f) \o Text!Each(s, f)
             T == {w \in Seq(S) : Splits(w)}
             E(s) == Text!Each(s, f)
  <1>1. /\ E(<<>>) = <<>> /\ \A s \in Seq(S) : E(s) \in Seq(W)
        /\ \A c \in S : \A s \in Seq(S) : E(<<c>> \o s) = f[c] \o E(s)
    BY DEF EachLaw
  <1>2. <<>> \in T
    <2>1. \A s \in Seq(S) : <<>> \o s = s /\ <<>> \o E(s) = E(s)
      BY <1>1, Concat
    <2> QED BY <1>1, <2>1, EmptySeq
  <1>3. ASSUME NEW c \in S, NEW w \in Seq(S), Splits(w), f[c] \in Seq(W) PROVE Splits(<<c>> \o w)
    <2> SUFFICES ASSUME NEW s \in Seq(S) PROVE E((<<c>> \o w) \o s) = E(<<c>> \o w) \o E(s)
      OBVIOUS
    <2> HIDE DEF T
    <2>1. Regroup(<<c>>, w, s) /\ w \o s \in Seq(S)
      BY Regrouping, Single, Concat
    <2>2. Regroup(f[c], E(w), E(s))
      <3> HIDE DEF E
      <3>1. E(w) \in Seq(W) /\ E(s) \in Seq(W)
        BY <1>1
      <3> QED BY <1>3, <3>1, Regrouping, Zenon
    <2>3. E(w \o s) = E(w) \o E(s)
      BY <1>3
    <2> HIDE DEF E
    <2>4. E(<<c>> \o w) = f[c] \o E(w) /\ E(<<c>> \o (w \o s)) = f[c] \o E(w \o s)
      BY <1>1, <2>1
    <2> QED BY <2>1, <2>2, <2>3, <2>4 DEF Regroup
  <1>4. \A c \in S : f[c] \in Seq(W)
    <2> SUFFICES ASSUME NEW c \in S PROVE f[c] \in Seq(W)
      OBVIOUS
    <2>1. <<c>> \o <<>> \in Seq(S) /\ <<>> \in Seq(S)
      BY Single, Concat, EmptySeq
    <2>2. E(<<c>> \o <<>>) \in Seq(W) /\ E(<<c>> \o <<>>) = f[c] \o <<>>
      <3> HIDE DEF E
      <3> QED BY <1>1, <2>1
    <2> QED BY <2>2
  <1>5. Seq(S) \subseteq T
    <2>1. \A c \in S : \A w \in Seq(S) : w \in T => <<c>> \o w \in T
      <3>1. \A c \in S : \A w \in Seq(S) : <<c>> \o w \in Seq(S)
        BY Single, Concat
      <3> HIDE DEF Splits
      <3> QED BY <1>3, <1>4, <3>1
    <2> HIDE DEF T
    <2> QED BY <1>2, <2>1, ListInduction
  <1> QED BY <1>5

\* The characters that replacing the elements of a text can leave.
LEMMA EachRange ==
  ASSUME NEW S, NEW W, NEW f, EachLaw(S, W, f), NEW U \in SUBSET S, NEW V,
         \A c \in U : f[c] \in Seq(V)
  PROVE  \A w \in Seq(U) : Text!Each(w, f) \in Seq(V)
  <1> DEFINE T == {w \in Seq(U) : Text!Each(w, f) \in Seq(V)}
  <1>1. \A w \in Seq(U) : w \in Seq(S)
    BY Weaken
  <1>2. <<>> \in T
    BY EmptySeq DEF EachLaw
  <1>3. ASSUME NEW c \in U, NEW w \in Seq(U), Text!Each(w, f) \in Seq(V)
        PROVE  Text!Each(<<c>> \o w, f) \in Seq(V)
    <2>1. Text!Each(<<c>> \o w, f) = f[c] \o Text!Each(w, f)
      BY <1>1 DEF EachLaw
    <2>2. f[c] \o Text!Each(w, f) \in Seq(V)
      BY <1>3, Concat
    <2> QED BY <2>1, <2>2
  <1>4. Seq(U) \subseteq T
    <2>1. \A c \in U : \A w \in Seq(U) : <<c>> \o w \in Seq(U)
      BY Single, Concat
    <2>2. \A c \in U : \A w \in Seq(U) : w \in T => <<c>> \o w \in T
      BY <1>3, <2>1
    <2> HIDE DEF T
    <2> QED BY <1>2, <2>2, ListInduction
  <1> QED BY <1>4

LowerOf(c) == IF c \in DOMAIN Text!Lower THEN Text!Lower[c] ELSE c

\* Small letters for capitals, from the front of a text.
LEMMA LowerFront ==
  /\ Text!ToLower(<<>>) = <<>>
  /\ \A c \in Text!Character : LowerOf(c) \in Text!Character
  /\ \A s \in Text!Texts : Text!ToLower(s) \in Text!Texts
  /\ \A c \in Text!Character : \A s \in Text!Texts :
       Text!ToLower(<<c>> \o s) = <<LowerOf(c)>> \o Text!ToLower(s)
  <1> DEFINE S == Text!Character
             low(s) == Text!ToLower(s)
  <1>1. \A c \in S : LowerOf(c) \in S
    BY DEF LowerOf, Text!Lower, Text!Character, Text!Letter
  <1>2. \A s : low(s) = [i \in DOMAIN s |-> LowerOf(s[i])]
    BY DEF Text!ToLower, LowerOf
  <1> HIDE DEF S, low
  <1>3. low(<<>>) = <<>>
    BY <1>2
  <1>4. \A s \in Seq(S) : low(s) \in Seq(S) /\ Len(low(s)) = Len(s)
                          /\ \A i \in 1 .. Len(s) : low(s)[i] = LowerOf(s[i])
    <2> SUFFICES ASSUME NEW s \in Seq(S)
                 PROVE  low(s) \in Seq(S) /\ Len(low(s)) = Len(s)
                        /\ \A i \in 1 .. Len(s) : low(s)[i] = LowerOf(s[i])
      OBVIOUS
    <2>1. DOMAIN s = 1 .. Len(s) /\ Len(s) \in Nat /\ \A i \in 1 .. Len(s) : LowerOf(s[i]) \in S
      BY <1>1, LenProperties, ElementOfSeq
    <2> QED BY <1>2, <2>1
  <1>5. ASSUME NEW c \in S, NEW s \in Seq(S) PROVE low(<<c>> \o s) = <<LowerOf(c)>> \o low(s)
    <2> DEFINE k == <<c>>
               u == k \o s
               l == <<LowerOf(c)>>
               x == low(s)
               v == l \o x
    <2>1. /\ k \in Seq(S) /\ Len(k) = 1 /\ k[1] = c
          /\ l \in Seq(S) /\ Len(l) = 1 /\ l[1] = LowerOf(c)
      BY <1>1
    <2>2. x \in Seq(S) /\ Len(x) = Len(s) /\ \A i \in 1 .. Len(s) : x[i] = LowerOf(s[i])
      BY <1>4
    <2> HIDE DEF k, l, x
    <2>3. Elements(S, k, s) /\ Elements(S, l, x)
      BY <2>1, <2>2, ElementsOf, Zenon
    <2>4. /\ u \in Seq(S) /\ Len(u) = 1 + Len(s) /\ Len(s) \in Nat
          /\ u[1] = c /\ \A i \in 1 .. Len(s) : u[1 + i] = s[i]
      BY <2>1, <2>3 DEF Elements
    <2>5. /\ v \in Seq(S) /\ Len(v) = 1 + Len(s)
          /\ v[1] = LowerOf(c) /\ \A i \in 1 .. Len(s) : v[1 + i] = LowerOf(s[i])
      BY <2>1, <2>2, <2>3 DEF Elements
    <2> HIDE DEF u, v
    <2>6. low(u) \in Seq(S) /\ Len(low(u)) = 1 + Len(s)
          /\ \A i \in 1 .. 1 + Len(s) : low(u)[i] = LowerOf(u[i])
      BY <1>4, <2>4
    <2>7. \A i \in 1 .. 1 + Len(s) : low(u)[i] = v[i]
      <3> SUFFICES ASSUME NEW i \in 1 .. 1 + Len(s) PROVE low(u)[i] = v[i]
        OBVIOUS
      <3>1. CASE i = 1
        BY <2>4, <2>5, <2>6, <3>1
      <3>2. CASE i # 1
        <4>1. i - 1 \in 1 .. Len(s) /\ 1 + (i - 1) = i
          BY <2>4, <3>2
        <4>2. u[i] = s[i - 1] /\ v[i] = LowerOf(s[i - 1])
          BY <2>4, <2>5, <4>1
        <4> QED BY <2>6, <4>2
      <3> QED BY <3>1, <3>2
    <2>8. low(u) = v
      BY <2>5, <2>6, <2>7, SeqEqual
    <2> QED BY <2>8 DEF u, v, k, l, x
  <1> QED BY <1>1, <1>3, <1>4, <1>5, TextLists DEF S, low

\* What becomes of a character before the fields are told apart.
Kept == [c \in Text!Character |-> IF c \in {"$", ";"} THEN <<>> ELSE <<LowerOf(c)>>]

Cleaned == [s \in Text!Texts |-> Text!Each(s, Kept)]

\* The cleaning of a text, from the front.
LEMMA KeptIs ==
  /\ EachLaw(Text!Character, Text!Character, Kept)
  /\ Cleaned \in [Text!Texts -> Text!Texts] /\ Cleaned[<<>>] = <<>>
  /\ \A c \in Text!Character : \A s \in Text!Texts : Cleaned[<<c>> \o s] = Kept[c] \o Cleaned[s]
  /\ \A w, s \in Text!Texts : Cleaned[w \o s] = Cleaned[w] \o Cleaned[s]
  <1> DEFINE S == Text!Character
  <1>1. Kept \in [S -> Seq(S)]
    <2> DEFINE e(c) == IF c \in {"$", ";"} THEN <<>> ELSE <<LowerOf(c)>>
    <2>1. \A c \in S : LowerOf(c) \in S
      BY LowerFront
    <2>2. Kept = [c \in S |-> e(c)]
      BY DEF Kept
    <2> HIDE DEF S
    <2>3. \A c \in S : e(c) \in Seq(S)
      <3>1. <<>> \in Seq(S) /\ \A c \in S : <<LowerOf(c)>> \in Seq(S)
        BY <2>1, Single, EmptySeq, Zenon
      <3> QED BY <3>1, Zenon
    <2> HIDE DEF e
    <2> QED BY <2>2, <2>3
  <1> HIDE DEF S
  <1>2. EachLaw(S, S, Kept)
    BY <1>1, EachFront
  <1>3. Text!Texts = Seq(S) /\ <<>> \in Seq(S)
    BY TextLists DEF S
  <1>4. \A s \in Seq(S) : Cleaned[s] = Text!Each(s, Kept)
    BY <1>3 DEF Cleaned
  <1>5. Cleaned \in [Seq(S) -> Seq(S)] /\ Cleaned[<<>>] = <<>>
    <2>1. \A s \in Seq(S) : Text!Each(s, Kept) \in Seq(S)
      BY <1>2 DEF EachLaw
    <2>2. Cleaned[<<>>] = <<>>
      BY <1>2, <1>3, <1>4 DEF EachLaw
    <2> QED BY <1>3, <2>1, <2>2 DEF Cleaned
  <1>6. \A c \in S : \A s \in Seq(S) : Cleaned[<<c>> \o s] = Kept[c] \o Cleaned[s]
    <2>1. \A c \in S : \A s \in Seq(S) : <<c>> \o s \in Seq(S)
      BY Single, Concat
    <2> QED BY <1>2, <1>4, <2>1 DEF EachLaw
  <1>7. \A w, s \in Seq(S) : Cleaned[w \o s] = Cleaned[w] \o Cleaned[s]
    <2>1. \A w, s \in Seq(S) : w \o s \in Seq(S)
      BY Concat
    <2>2. \A w, s \in Seq(S) : Text!Each(w \o s, Kept) = Text!Each(w, Kept) \o Text!Each(s, Kept)
      BY <1>2, EachConcat
    <2> QED BY <1>4, <2>1, <2>2
  <1> QED BY <1>2, <1>3, <1>5, <1>6, <1>7 DEF S

\* Without dollars, in small letters and without semicolons: one cleaning.
LEMMA CleanedIs ==
  \A s \in Text!Texts :
    Text!Without(Text!ToLower(Text!Without(s, "$")), ";") = Cleaned[s]
  <1> DEFINE S == Text!Character
             Keep(d) == [c \in Text!Character |-> IF c = d THEN <<>> ELSE <<c>>]
             A(s) == Text!Without(s, "$")
             L(s) == Text!ToLower(s)
             B(s) == Text!Without(s, ";")
             T == {s \in Seq(S) : B(L(A(s))) = Cleaned[s]}
  <1>1. \A d : EachLaw(S, S, Keep(d)) /\ \A s : Text!Without(s, d) = Text!Each(s, Keep(d))
    <2> TAKE d
    <2> DEFINE e(c) == IF c = d THEN <<>> ELSE <<c>>
    <2>1. Keep(d) = [c \in S |-> e(c)]
      OBVIOUS
    <2>2. \A s : Text!Without(s, d) = Text!Each(s, Keep(d))
      BY DEF Text!Without
    <2> HIDE DEF S, Keep
    <2>3. \A c \in S : e(c) \in Seq(S)
      OBVIOUS
    <2> HIDE DEF e
    <2>4. Keep(d) \in [S -> Seq(S)]
      BY <2>1, <2>3
    <2>5. EachLaw(S, S, Keep(d))
      BY <2>4, EachFront
    <2> QED BY <2>2, <2>5
  <1>2. /\ A(<<>>) = <<>> /\ B(<<>>) = <<>>
        /\ \A s \in Seq(S) : A(s) \in Seq(S) /\ B(s) \in Seq(S)
        /\ \A c \in S : \A s \in Seq(S) :
             /\ A(<<c>> \o s) = Keep("$")[c] \o A(s)
             /\ B(<<c>> \o s) = Keep(";")[c] \o B(s)
    <2> HIDE DEF S, Keep
    <2> QED BY <1>1 DEF EachLaw
  <1>3. /\ \A c \in S : Keep("$")[c] = IF c = "$" THEN <<>> ELSE <<c>>
        /\ \A c \in S : Keep(";")[c] = IF c = ";" THEN <<>> ELSE <<c>>
        /\ \A c \in S : Kept[c] = IF c \in {"$", ";"} THEN <<>> ELSE <<LowerOf(c)>>
    BY DEF Kept
  <1>4. \A c \in S : LowerOf(c) \in S /\ (LowerOf(c) = ";" <=> c = ";")
    BY LowerFront DEF LowerOf, Text!Lower
  <1>5. /\ L(<<>>) = <<>> /\ \A s \in Seq(S) : L(s) \in Seq(S)
        /\ \A c \in S : \A s \in Seq(S) : L(<<c>> \o s) = <<LowerOf(c)>> \o L(s)
        /\ Text!Texts = Seq(S)
    BY LowerFront, TextLists
  <1>6. /\ Cleaned[<<>>] = <<>> /\ \A s \in Seq(S) : Cleaned[s] \in Seq(S)
        /\ \A c \in S : \A s \in Seq(S) : Cleaned[<<c>> \o s] = Kept[c] \o Cleaned[s]
    BY <1>5, KeptIs
  <1> HIDE DEF S, Keep, A, L, B
  <1>7. <<>> \in T
    BY <1>2, <1>5, <1>6, EmptySeq
  <1>8. ASSUME NEW c \in S, NEW s \in Seq(S), B(L(A(s))) = Cleaned[s]
        PROVE  B(L(A(<<c>> \o s))) = Cleaned[<<c>> \o s]
    <2>1. A(s) \in Seq(S) /\ L(A(s)) \in Seq(S) /\ B(L(A(s))) \in Seq(S) /\ Cleaned[s] \in Seq(S)
      BY <1>2, <1>5, <1>6
    <2>2. A(<<c>> \o s) = Keep("$")[c] \o A(s) /\ Cleaned[<<c>> \o s] = Kept[c] \o Cleaned[s]
      BY <1>2, <1>6
    <2>3. CASE c = "$"
      <3>1. Keep("$")[c] = <<>> /\ Kept[c] = <<>>
        BY <1>3, <2>3
      <3>2. <<>> \o A(s) = A(s) /\ <<>> \o Cleaned[s] = Cleaned[s]
        BY <2>1, Concat
      <3> QED BY <1>8, <2>2, <3>1, <3>2
    <2>4. CASE c # "$"
      <3>1. Keep("$")[c] = <<c>>
        BY <1>3, <2>4
      <3>2. L(<<c>> \o A(s)) = <<LowerOf(c)>> \o L(A(s))
        BY <1>5, <2>1
      <3>3. B(<<LowerOf(c)>> \o L(A(s))) = Keep(";")[LowerOf(c)] \o B(L(A(s)))
        BY <1>2, <1>4, <2>1
      <3>4. Keep(";")[LowerOf(c)] = Kept[c]
        BY <1>3, <1>4, <2>4
      <3> QED BY <1>8, <2>2, <3>1, <3>2, <3>3, <3>4
    <2> QED BY <2>3, <2>4
  <1>9. Seq(S) \subseteq T
    <2>1. \A c \in S : \A s \in Seq(S) : s \in T => <<c>> \o s \in T
      <3>1. \A c \in S : \A s \in Seq(S) : <<c>> \o s \in Seq(S)
        BY Single, Concat
      <3> QED BY <1>8, <3>1
    <2> HIDE DEF T
    <2> QED BY <1>7, <2>1, ListInduction
  <1> QED BY <1>5, <1>9 DEF A, L, B

-----------------------------------------------------------------------------
(* Normalization: fields *)

Solid == Text!Character \ Text!White

Split == [s \in Text!Texts |-> Text!Fields(s)]

\* How long the field is that a text begins with.
LEMMA FieldIs ==
  /\ \A a \in Seq(Solid) : \A r \in Text!Texts :
       (r # <<>> => r[1] \in Text!White) => Text!Field[a \o r] = Len(a)
  /\ \A s \in Text!Texts : Text!Field[s] \in 0 .. Len(s)
  <1> DEFINE S == Text!Character
             Q == Solid
  <1>1. S \cap Q = Q /\ Text!Texts = Seq(S) /\ \A c \in S : c \in Q <=> c \notin Text!White
    BY TextLists DEF Solid
  <1>2. \A s \in Seq(S) : Text!Field[s] = Longest(Q, s)
    <2> SUFFICES ASSUME NEW s \in Seq(S) PROVE Text!Field[s] = Longest(Q, s)
      OBVIOUS
    <2> DEFINE X == {n \in 0 .. Len(s) : \A k \in 1 .. n : s[k] \notin Text!White}
               Y == {n \in 0 .. Len(s) : \A k \in 1 .. n : s[k] \in Q}
    <2>1. Len(s) \in Nat /\ \A k \in 1 .. Len(s) : s[k] \in S
      BY LenProperties, ElementOfSeq
    <2>2. \A n \in 0 .. Len(s) : \A k \in 1 .. n : s[k] \in Q <=> s[k] \notin Text!White
      <3> HIDE DEF S, Q
      <3> QED BY <1>1, <2>1
    <2>3. X = Y
      <3> HIDE DEF S, Q
      <3> QED BY <2>2
    <2>4. Text!Field[s] = Text!Max(X)
      BY <1>1 DEF Text!Field
    <2>5. Longest(Q, s) = Text!Max(Y)
      BY DEF Longest
    <2> HIDE DEF X, Y, Q
    <2> QED BY <2>3, <2>4, <2>5
  <1> HIDE DEF S, Q
  <1>3. ASSUME NEW a \in Seq(S \cap Q), NEW r \in Seq(S), r # <<>> => r[1] \notin Q
        PROVE  Text!Field[a \o r] = Len(a) /\ Len(a) \in 0 .. Len(a \o r)
    <2>1. a \in Seq(S)
      <3>1. S \cap Q \subseteq S
        OBVIOUS
      <3> QED BY <3>1, SeqMonotonic, Zenon
    <2>2. a \o r \in Seq(S) /\ Len(a \o r) = Len(a) + Len(r) /\ Len(a) \in Nat /\ Len(r) \in Nat
      <3>1. Elements(S, a, r)
        BY <2>1, ElementsOf, Zenon
      <3> QED BY <3>1 DEF Elements
    <2>3. Longest(Q, a \o r) = Len(a)
      BY <1>3, LongestIs, Zenon
    <2>4. Text!Field[a \o r] = Longest(Q, a \o r)
      BY <1>2, <2>2
    <2>5. Len(a) \in 0 .. Len(a \o r)
      BY <2>2
    <2> QED BY <2>3, <2>4, <2>5, Zenon
  <1>4. \A s \in Seq(S) : Text!Field[s] \in 0 .. Len(s)
    <2> SUFFICES ASSUME NEW s \in Seq(S) PROVE Text!Field[s] \in 0 .. Len(s)
      OBVIOUS
    <2>1. PICK a \in Seq(S \cap Q), r \in Seq(S) : s = a \o r /\ (r # <<>> => r[1] \notin Q)
      BY LongestPart
    <2>2. Text!Field[a \o r] = Len(a) /\ Len(a) \in 0 .. Len(a \o r)
      BY <1>3, <2>1
    <2> QED BY <2>1, <2>2
  <1>5. ASSUME NEW a \in Seq(Q), NEW r \in Seq(S), r # <<>> => r[1] \in Text!White
        PROVE  Text!Field[a \o r] = Len(a)
    <2>1. r # <<>> => r[1] \notin Q
      <3>1. r # <<>> => r[1] \in S
        BY TakenApart, Zenon
      <3> QED BY <1>1, <1>5, <3>1
    <2> QED BY <1>1, <1>3, <2>1
  <1> QED BY <1>1, <1>4, <1>5 DEF Q

\* The first part of a text has the characters of the text.
LEMMA FrontPart ==
  \A U : \A s \in Seq(U) : \A n \in 0 .. Len(s) : SubSeq(s, 1, n) \in Seq(U)
  <1> SUFFICES ASSUME NEW U, NEW s \in Seq(U), NEW n \in 0 .. Len(s)
               PROVE  SubSeq(s, 1, n) \in Seq(U)
    BY Zenon
  <1>1. Len(s) \in Nat /\ \A i \in 1 .. Len(s) : s[i] \in U
    BY LenProperties, ElementOfSeq
  <1>2. \A i \in 1 .. n : s[i] \in U
    BY <1>1
  <1> QED BY <1>1, <1>2, SubSeqProperties

\* Blanks are skipped, and what stands between them is a field.
SplitLaw ==
  /\ Split \in [Text!Texts -> Seq(Text!Texts)] /\ Split[<<>>] = <<>>
  /\ \A g \in Seq(Text!White) : \A s \in Text!Texts : Split[g \o s] = Split[s]
  /\ \A a \in Seq(Solid) : \A s \in Text!Texts :
       a # <<>> /\ (s # <<>> => s[1] \in Text!White) => Split[a \o s] = <<a>> \o Split[s]
  /\ \A U \in SUBSET Text!Character : \A s \in Seq(U) : Split[s] \in Seq(Seq(U))

\* Fields splits a text at its blanks.
LEMMA Splits == SplitLaw
  <1> DEFINE S == Text!Character
             F == Text!Field
             size == [s \in Text!Texts |-> IF F[s] = 0 THEN 1 ELSE F[s]]
             out == [s \in Text!Texts |-> IF F[s] = 0 THEN <<>> ELSE <<SubSeq(s, 1, F[s])>>]
             R(s) == Text!Read(size, out, s)
  <1>0. Text!Texts = Seq(S)
    BY TextLists
  <1>1. \A s \in Text!Texts :
          /\ F[s] = 0 => size[s] = 1 /\ out[s] = <<>>
          /\ F[s] # 0 => size[s] = F[s] /\ out[s] = <<SubSeq(s, 1, F[s])>>
    OBVIOUS
  <1>2. \A s \in Text!Texts : Split[s] = R(s)
    BY DEF Split, Text!Fields
  <1>3. Split = [s \in Text!Texts |-> R(s)]
    BY DEF Split, Text!Fields
  <1>4. \A s \in Text!Texts : F[s] \in 0 .. Len(s)
    BY FieldIs
  <1> HIDE DEF S, F, size, out
  <1>5. ASSUME NEW s \in Text!Texts, s # <<>> PROVE size[s] \in 1 .. Len(s)
    <2>1. Len(s) \in Nat /\ Len(s) # 0
      BY <1>5, TextLists
    <2>2. CASE F[s] = 0
      BY <1>1, <2>1, <2>2
    <2>3. CASE F[s] # 0
      BY <1>1, <1>4, <2>1, <2>3
    <2> QED BY <2>2, <2>3
  <1>6. ASSUME NEW U, NEW s \in Seq(U), s \in Text!Texts PROVE out[s] \in Seq(Seq(U))
    <2>1. SubSeq(s, 1, F[s]) \in Seq(U)
      BY <1>4, <1>6, FrontPart
    <2>2. <<SubSeq(s, 1, F[s])>> \in Seq(Seq(U)) /\ <<>> \in Seq(Seq(U))
      BY <2>1, EmptySeq
    <2> QED BY <1>1, <1>6, <2>2
  <1>7. Readable(size, out, Text!Texts)
    BY <1>0, <1>5, <1>6 DEF Readable
  <1>8. /\ R(<<>>) = <<>> /\ \A s \in Text!Texts : R(s) \in Seq(Text!Texts)
        /\ \A s \in Text!Texts : s # <<>> =>
             R(s) = out[s] \o R(SubSeq(s, size[s] + 1, Len(s)))
    BY <1>7, ReadSteps DEF ReadLaw
  <1>9. Split \in [Text!Texts -> Seq(Text!Texts)] /\ Split[<<>>] = <<>>
    BY <1>2, <1>3, <1>8, TextLists
  <1>10. \A U \in SUBSET S : \A s \in Seq(U) : Split[s] \in Seq(Seq(U))
    <2> SUFFICES ASSUME NEW U \in SUBSET S PROVE \A s \in Seq(U) : Split[s] \in Seq(Seq(U))
      BY Zenon
    <2>1. \A s \in Seq(U) : s \in Text!Texts
      BY <1>0, Weaken
    <2> DEFINE V == Seq(U)
    <2>2. \A s \in Seq(U) : s # <<>> => out[s] \in Seq(V)
      BY <1>6, <2>1
    <2> HIDE DEF V
    <2>3. \A s \in Seq(U) : R(s) \in Seq(V)
      BY <1>7, <2>2, ReadRange DEF S
    <2> QED BY <1>2, <2>1, <2>3 DEF V
  <1> HIDE DEF R
  <1>11. ASSUME NEW a \in Text!Texts, NEW s \in Text!Texts, a # <<>>, size[a \o s] = Len(a)
         PROVE  R(a \o s) = out[a \o s] \o R(s)
    <2>1. SubSeq(a \o s, Len(a) + 1, Len(a \o s)) = s
      BY <1>0, PartsOfConcat
    <2>2. a \o s \in Text!Texts /\ a \o s # <<>>
      BY <1>0, <1>11, FirstOf, TextLists
    <2> QED BY <1>8, <1>11, <2>1, <2>2
  <1>12. ASSUME NEW c \in Text!White, NEW s \in Text!Texts PROVE Split[<<c>> \o s] = Split[s]
    <2>1. c \in Text!Character
      BY Classes
    <2>2. <<c>> \in Text!Texts /\ Len(<<c>>) = 1 /\ <<c>> # <<>>
      BY <2>1, TextLists
    <2>3. <<c>> \o s \in Text!Texts /\ <<c>> \o s # <<>> /\ (<<c>> \o s)[1] = c
      BY <2>1, FrontCharacter, Zenon
    <2>4. F[<<c>> \o s] = 0
      <3> DEFINE u == <<c>> \o s
      <3>1. u \in Text!Texts /\ u[1] \in Text!White
        BY <2>3
      <3> HIDE DEF u
      <3>2. <<>> \in Seq(Solid) /\ Len(<<>>) = 0 /\ <<>> \o u = u
        BY <3>1, TextLists, EmptySeq
      <3>3. F[<<>> \o u] = Len(<<>>)
        BY <3>1, <3>2, FieldIs DEF F
      <3> QED BY <3>2, <3>3 DEF u
    <2>5. size[<<c>> \o s] = 1 /\ out[<<c>> \o s] = <<>>
      BY <1>1, <2>3, <2>4
    <2>6. R(<<c>> \o s) = <<>> \o R(s)
      BY <1>11, <2>2, <2>5
    <2>7. <<>> \o R(s) = R(s)
      BY <1>8, Concat
    <2> QED BY <1>2, <2>3, <2>6, <2>7
  <1>13. ASSUME NEW a \in Seq(Solid), NEW s \in Text!Texts, a # <<>>,
                s # <<>> => s[1] \in Text!White
         PROVE  Split[a \o s] = <<a>> \o Split[s]
    <2>1. a \in Text!Texts
      <3>1. Solid \subseteq S
        BY DEF Solid, S
      <3> QED BY <1>0, <3>1, Weaken
    <2>2. a \o s \in Text!Texts /\ Len(a) # 0
      BY <1>13, <2>1, TextLists
    <2>3. F[a \o s] = Len(a)
      BY <1>13, FieldIs DEF F
    <2>4. SubSeq(a \o s, 1, Len(a)) = a
      BY <1>0, <2>1, PartsOfConcat
    <2>5. size[a \o s] = Len(a) /\ out[a \o s] = <<a>>
      BY <1>1, <2>2, <2>3, <2>4
    <2> QED BY <1>2, <1>11, <1>13, <2>1, <2>2, <2>5
  <1> DEFINE G == Text!White
             T == {g \in Seq(G) : \A s \in Text!Texts : Split[g \o s] = Split[s]}
  <1>14. Seq(G) \subseteq T
    <2>1. \A g \in Seq(G) : g \in Text!Texts
      <3>1. G \subseteq S
        BY Classes DEF S
      <3> QED BY <1>0, <3>1, Weaken
    <2> HIDE DEF G
    <2>2. <<>> \in T
      BY TextLists, EmptySeq
    <2>3. ASSUME NEW c \in G, NEW g \in Seq(G), g \in T PROVE <<c>> \o g \in T
      <3>1. <<c>> \o g \in Seq(G)
        BY Single, Concat
      <3>2. ASSUME NEW s \in Text!Texts PROVE Split[(<<c>> \o g) \o s] = Split[s]
        <4>1. Split[g \o s] = Split[s]
          BY <2>3
        <4>2. g \in Text!Texts /\ g \o s \in Text!Texts
          BY <2>1, TextLists
        <4>3. Split[<<c>> \o (g \o s)] = Split[g \o s]
          BY <1>12, <4>2 DEF G
        <4>4. Regroup(<<c>>, g, s)
          <5>1. <<c>> \in Seq(S)
            <6>1. c \in S
              BY Classes DEF G, S
            <6> QED BY <6>1, Single, Zenon
          <5> QED BY <1>0, <4>2, <5>1, Regrouping, Zenon
        <4> QED BY <4>1, <4>3, <4>4 DEF Regroup
      <3> QED BY <3>1, <3>2
    <2> HIDE DEF T
    <2> QED BY <2>2, <2>3, ListInduction
  <1> QED BY <1>9, <1>10, <1>13, <1>14 DEF SplitLaw, S

-----------------------------------------------------------------------------
(* Normalization: normal forms *)

Normal == [s \in Text!Texts |-> Split[Cleaned[s]]]

\* What a token leaves in the normal form.
Core(t) == Cleaned[Text!Hidden(t)]
Cores(tokens) == [i \in DOMAIN tokens |-> Core(tokens[i])]

Proper(N) == {t \in Written(N) : Core(t) # <<>>}

\* The fields of a cleaned text.
LEMMA NormalIs ==
  /\ Normal \in [Text!Texts -> Seq(Text!Texts)]
  /\ Split \in [Text!Texts -> Seq(Text!Texts)] /\ Cleaned \in [Text!Texts -> Text!Texts]
  /\ \A s \in Text!Texts : Normal[s] = Split[Cleaned[s]]
  <1>1. /\ Split \in [Text!Texts -> Seq(Text!Texts)]
        /\ Cleaned \in [Text!Texts -> Text!Texts]
    BY Splits, KeptIs DEF SplitLaw
  <1>2. \A s \in Text!Texts : Normal[s] = Split[Cleaned[s]]
    BY DEF Normal
  <1>3. Normal \in [Text!Texts -> Seq(Text!Texts)]
    BY <1>1 DEF Normal
  <1> QED BY <1>1, <1>2, <1>3

\* A normal form is the fields of the cleaned text, joined.
LEMMA FormIs ==
  ASSUME NEW s \in Text!Texts, InTurn[s] \in Text!Texts
  PROVE  Text!AnonymizeAndNormalize(s) = Text!Join(Normal[InTurn[s]])
  <1> DEFINE r == InTurn[s]
  <1>1. r = Text!ReplaceLiterals(s)
    BY DEF InTurn
  <1>2. r \in Text!Texts
    OBVIOUS
  <1> HIDE DEF r
  <1>3. Text!Without(Text!ToLower(Text!Without(r, "$")), ";") = Cleaned[r]
    BY <1>2, CleanedIs
  <1>4. Cleaned[r] \in Text!Texts
    BY <1>2, KeptIs
  <1>5. Text!Fields(Cleaned[r]) = Normal[r]
    BY <1>2, <1>4, NormalIs DEF Split
  <1>6. Text!AnonymizeAndNormalize(s) = Text!Join(Normal[r])
    BY <1>1, <1>3, <1>5 DEF Text!AnonymizeAndNormalize
  <1> QED BY <1>6 DEF r

Marked == Text!Letter \cup {".", "=", "$", "?"}

\* Cleaning leaves no blank of a token, and leaves the blanks between tokens.
LEMMA KeptSolid ==
  /\ Marked \subseteq Text!Character /\ (Plain \ Text!Digit) \cup {"?"} \subseteq Marked
  /\ \A c \in Marked : Kept[c] \in Seq(Solid)
  /\ \A c \in Text!White : Kept[c] = <<c>>
  <1>1. Marked \subseteq Text!Character /\ (Plain \ Text!Digit) \cup {"?"} \subseteq Marked
    BY DEF Marked, Plain, Text!Character, Text!Letter
  <1>2. \A c \in Marked : LowerOf(c) \in Solid
    BY DEF Marked, Solid, LowerOf, Text!Lower, Text!Letter, Text!Character, Text!White, Text!Digit
  <1>3. \A c \in Text!Character : Kept[c] = IF c \in {"$", ";"} THEN <<>> ELSE <<LowerOf(c)>>
    BY DEF Kept
  <1>4. \A c \in Marked : Kept[c] \in Seq(Solid)
    <2> SUFFICES ASSUME NEW c \in Marked PROVE Kept[c] \in Seq(Solid)
      OBVIOUS
    <2>1. <<LowerOf(c)>> \in Seq(Solid) /\ <<>> \in Seq(Solid)
      BY <1>2, Single, EmptySeq
    <2>2. Kept[c] \in {<<>>, <<LowerOf(c)>>}
      BY <1>1, <1>3
    <2> QED BY <2>1, <2>2
  <1>5. \A c \in Text!White : Kept[c] = <<c>>
    <2>1. \A c \in Text!White : c \in Text!Character /\ LowerOf(c) = c /\ c \notin {"$", ";"}
      BY DEF LowerOf, Text!Lower, Text!White, Text!Character
    <2> QED BY <1>3, <2>1
  <1> QED BY <1>1, <1>4, <1>5

\* The cleaning of a token, of blanks and of a semicolon.
LEMMA CleanedParts ==
  /\ \A w \in Seq(Marked) : w \in Text!Texts /\ Cleaned[w] \in Seq(Solid)
  /\ SkipLaw(Cleaned, Text!White)
  /\ Cleaned[<<";">>] = <<>>
  <1> DEFINE S == Text!Character
  <1>1. \A w \in Seq(Marked) : w \in Text!Texts
    BY KeptSolid, Weaken, TextLists
  <1>2. \A w \in Seq(Marked) : Text!Each(w, Kept) \in Seq(Solid)
    <2> DEFINE U == Marked
               V == Solid
               W == S
    <2>1. EachLaw(S, W, Kept) /\ U \in SUBSET S /\ \A c \in U : Kept[c] \in Seq(V)
      BY KeptIs, KeptSolid
    <2> HIDE DEF S, U, V, W
    <2>2. \A w \in Seq(U) : Text!Each(w, Kept) \in Seq(V)
      BY <2>1, EachRange
    <2> QED BY <2>2 DEF U, V
  <1>3. SkipLaw(Cleaned, Text!White)
    <2>1. ASSUME NEW c \in Text!White, NEW s \in Text!Texts
          PROVE  Cleaned[<<c>> \o s] = <<c>> \o Cleaned[s]
      <3>1. c \in Text!Character
        BY Classes
      <3>2. Cleaned[<<c>> \o s] = Kept[c] \o Cleaned[s]
        BY <3>1, KeptIs
      <3>3. Kept[c] = <<c>>
        BY KeptSolid
      <3> QED BY <3>2, <3>3
    <2>2. Text!White \in SUBSET Text!Character
      BY Classes
    <2> DEFINE Q == Text!White
    <2> HIDE DEF Q
    <2>3. SkipLaw(Cleaned, Q)
      BY <2>1, <2>2, KeptIs, Skips DEF Q
    <2> QED BY <2>3 DEF Q
  <1>4. Cleaned[<<";">>] = <<>>
    <2>1. ";" \in S /\ Kept[";"] = <<>> /\ <<>> \in Text!Texts
      BY Classes, TextLists DEF Kept
    <2>2. <<";">> \in Text!Texts /\ <<";">> \o <<>> = <<";">>
      BY <2>1, TextLists
    <2>3. Cleaned[<<";">> \o <<>>] = Kept[";"] \o Cleaned[<<>>]
      BY <2>1, KeptIs
    <2>4. Cleaned[<<>>] = <<>> /\ <<>> \o <<>> = <<>>
      BY <2>1, KeptIs, TextLists
    <2> QED BY <2>1, <2>2, <2>3, <2>4
  <1> QED BY <1>1, <1>2, <1>3, <1>4 DEF Cleaned

\* What is left of a token holds no blank.
LEMMA HiddenMarked ==
  ASSUME NEW N \in SUBSET Text!Character, NEW t \in Written(N)
  PROVE  /\ Text!Hidden(t) \in Seq(Marked) /\ Text!Hidden(t) \in Text!Texts
         /\ Core(t) \in Seq(Solid) /\ Core(t) \in Text!Texts
  <1>0. "?" \in Marked /\ <<"?">> \in Seq(Marked) /\ {"?"} \subseteq Marked
    BY DEF Marked
  <1> DEFINE h == Text!Hidden(t)
             b == t.body
  <1>1. h \in Seq(Marked)
    <2>1. CASE b \in Text!Texts /\ h = <<"?">> \o Text!Each(b, Marks)
      <3>1. Text!Each(b, Marks) \in Seq({"?"})
        BY <2>1, StringParts, TextLists DEF EachLaw
      <3>2. Text!Each(b, Marks) \in Seq(Marked)
        BY <1>0, <3>1, Weaken, Zenon
      <3> QED BY <1>0, <2>1, <3>2, Concat
    <2>2. CASE h = <<"?">>
      BY <1>0, <2>2
    <2>3. CASE b \in Seq(Plain) /\ h = RD[b]
      <3>1. Plain \subseteq Text!Character
        BY Kinds
      <3> HIDE DEF b, h
      <3>2. RD[b] \in Seq((Plain \ Text!Digit) \cup {"?"})
        BY <2>3, <3>1, DigitsOf
      <3> QED BY <2>3, <3>2, KeptSolid, Weaken, Zenon
    <2> QED BY <2>1, <2>2, <2>3, HiddenIs
  <1> HIDE DEF h
  <1>2. h \in Text!Texts /\ Cleaned[h] \in Seq(Solid)
    BY <1>1, CleanedParts
  <1>3. Cleaned[h] \in Text!Texts
    BY <1>2, KeptIs
  <1> QED BY <1>1, <1>2, <1>3 DEF Core, h

\* Normal forms are made token by token.
LEMMA TokenNormal ==
  ASSUME NEW N \in SUBSET Text!Character, NEW t \in Proper(N), NEW s \in Text!Texts
  PROVE  Normal[LeftOf(t) \o s] = <<Core(t)>> \o Normal[s]
  <1> DEFINE h == Text!Hidden(t)
             g == t.gap
             k == Core(t)
             x == Cleaned[s]
             S == Text!Character
  <1>1. /\ h \in Text!Texts /\ k \in Seq(Solid) /\ k \in Text!Texts /\ k # <<>> /\ g \in Blank
        /\ k = Cleaned[h]
    BY HiddenMarked, HiddenIs DEF Proper, Core
  <1>2. x \in Text!Texts
    BY KeptIs
  <1> HIDE DEF h, k, g, x
  <1>3. /\ g \in Text!Texts /\ g \o s \in Text!Texts /\ g \in Seq(Text!White)
        /\ g \o x \in Text!Texts /\ (g \o x)[1] \in Text!White
    BY <1>1, <1>2, GapsAre DEF Blank
  <1>4. Cleaned[g \o s] = g \o x
    BY <1>3, CleanedParts DEF SkipLaw, x
  <1>5. Cleaned[h \o (g \o s)] = k \o (g \o x)
    <2>1. Cleaned[h \o (g \o s)] = Cleaned[h] \o Cleaned[g \o s]
      BY <1>1, <1>3, KeptIs
    <2> QED BY <1>1, <1>4, <2>1
  <1>6. Split[k \o (g \o x)] = <<k>> \o Split[g \o x]
    BY <1>1, <1>3, Splits DEF SplitLaw
  <1>7. Split[g \o x] = Split[x]
    BY <1>2, <1>3, Splits DEF SplitLaw
  <1>8. Regroup(h, g, s)
    <2>1. Text!Texts = Seq(S)
      BY TextLists
    <2> HIDE DEF S
    <2> QED BY <1>1, <1>3, <2>1, Regrouping, Zenon
  <1>9. h \o (g \o s) \in Text!Texts
    BY <1>1, <1>3, TextLists
  <1>10. Normal[h \o (g \o s)] = <<k>> \o Normal[s]
    BY <1>5, <1>6, <1>7, <1>9, NormalIs DEF x
  <1> QED BY <1>8, <1>10 DEF Regroup, LeftOf, h, g, k

\* A list, each element by itself.
LEMMA Singles ==
  ASSUME NEW S
  PROVE  \A z \in Seq(S) : FlattenSeq([i \in DOMAIN z |-> <<z[i]>>]) = z
  <1> DEFINE f == [x \in S |-> <<x>>]
             T == {z \in Seq(S) : Text!Each(z, f) = z}
  <1>1. f \in [S -> Seq(S)] /\ \A x \in S : f[x] = <<x>>
    OBVIOUS
  <1>2. \A z \in Seq(S) : [i \in DOMAIN z |-> f[z[i]]] = [i \in DOMAIN z |-> <<z[i]>>]
    <2> SUFFICES ASSUME NEW z \in Seq(S)
                 PROVE  [i \in DOMAIN z |-> f[z[i]]] = [i \in DOMAIN z |-> <<z[i]>>]
      OBVIOUS
    <2>1. \A i \in DOMAIN z : z[i] \in S
      <3>1. DOMAIN z = 1 .. Len(z)
        BY LenProperties
      <3> QED BY <3>1, ElementOfSeq
    <2> HIDE DEF f
    <2> QED BY <1>1, <2>1
  <1> HIDE DEF f
  <1>3. EachLaw(S, S, f)
    BY <1>1, EachFront
  <1>4. <<>> \in T
    BY <1>3, EmptySeq DEF EachLaw
  <1>5. \A x \in S : \A z \in Seq(S) : z \in T => <<x>> \o z \in T
    <2>1. \A x \in S : \A z \in Seq(S) : <<x>> \o z \in Seq(S)
      BY Single, Concat
    <2> QED BY <1>1, <1>3, <2>1 DEF EachLaw
  <1>6. Seq(S) \subseteq T
    <2> HIDE DEF T
    <2> QED BY <1>4, <1>5, ListInduction
  <1>7. \A z \in Seq(S) : Text!Each(z, f) = FlattenSeq([i \in DOMAIN z |-> <<z[i]>>])
    BY <1>2, FlattenText DEF Text!Each
  <1> QED BY <1>6, <1>7

\* Every token has a core without blanks.
LEMMA CoresAre ==
  ASSUME NEW N \in SUBSET Text!Character, NEW tokens \in Seq(Proper(N))
  PROVE  /\ Cores(tokens) \in Seq(Seq(Solid) \ {<<>>}) /\ Len(Cores(tokens)) = Len(tokens)
         /\ DOMAIN Cores(tokens) = DOMAIN tokens
         /\ \A i \in DOMAIN tokens : Cores(tokens)[i] = Core(tokens[i])
  <1>1. /\ DOMAIN tokens = 1 .. Len(tokens) /\ Len(tokens) \in Nat
        /\ \A i \in 1 .. Len(tokens) : tokens[i] \in Proper(N)
    BY LenProperties, ElementOfSeq
  <1>2. \A t \in Proper(N) : Core(t) \in Seq(Solid) \ {<<>>}
    BY HiddenMarked DEF Proper
  <1> QED BY <1>1, <1>2 DEF Cores

\* The fields of a hidden statement are the cores of its tokens.
LEMMA StatementNormal ==
  ASSUME NEW N \in SUBSET Text!Character, NEW tokens \in Seq(Proper(N)), NEW semi \in BOOLEAN
  PROVE  Normal[HiddenText(tokens, semi)] = Cores(tokens)
  <1> DEFINE S == Text!Character
             K == Proper(N)
             f == [t \in K |-> LeftOf(t)]
             g == [t \in K |-> <<Core(t)>>]
             e == Text!End(semi)
             z == Cores(tokens)
             W == Seq(S)
  <1>1. /\ \A t \in K : LeftOf(t) \in Seq(S) /\ Core(t) \in W
        /\ \A t \in K : \A s \in Seq(S) : Normal[LeftOf(t) \o s] = <<Core(t)>> \o Normal[s]
        /\ Normal \in [Seq(S) -> Seq(W)]
    <2>1. \A t \in K : Core(t) \in Text!Texts
      BY HiddenMarked DEF Proper
    <2>2. \A t \in K : LeftOf(t) \in Text!Texts
      <3> SUFFICES ASSUME NEW t \in K PROVE LeftOf(t) \in Text!Texts
        OBVIOUS
      <3>1. Text!Hidden(t) \in Text!Texts /\ t.gap \in Blank
        BY HiddenMarked, HiddenIs DEF Proper
      <3>2. t.gap \in Text!Texts
        BY <3>1, GapsAre, TextLists
      <3> QED BY <3>1, <3>2, TextLists DEF LeftOf
    <2> QED BY <2>1, <2>2, TextLists, TokenNormal, NormalIs
  <1>2. tokens \in Seq(K) /\ Text!Texts = Seq(S)
    BY TextLists
  <1>3. z \in Seq(W) /\ DOMAIN z = DOMAIN tokens /\ \A i \in DOMAIN tokens : z[i] = Core(tokens[i])
    <2>1. /\ z \in Seq(Seq(Solid) \ {<<>>}) /\ DOMAIN z = DOMAIN tokens
          /\ \A i \in DOMAIN tokens : z[i] = Core(tokens[i])
      BY CoresAre
    <2>2. Solid \subseteq S
      BY DEF Solid
    <2>3. Seq(Solid) \ {<<>>} \subseteq W
      BY <2>2, Weaken
    <2> QED BY <2>1, <2>3, Weaken
  <1>4. \A i \in DOMAIN tokens : tokens[i] \in K
    <2>1. DOMAIN tokens = 1 .. Len(tokens)
      BY LenProperties
    <2> QED BY <1>2, <2>1, ElementOfSeq
  <1>5. e = <<>> \/ e = <<";">>
    BY DEF Text!End
  <1> HIDE DEF S, K, z, e, W
  <1>6. f \in [K -> Seq(S)] /\ g \in [K -> Seq(W)]
    <2>1. \A t \in K : <<Core(t)>> \in Seq(W)
      BY <1>1
    <2> QED BY <1>1, <2>1
  <1>7. ReadsEach(K, S, Normal, f, g)
    BY <1>1 DEF ReadsEach
  <1>8. /\ Text!Each(tokens, f) = Text!FlattenSeq([i \in DOMAIN tokens |-> LeftOf(tokens[i])])
        /\ Text!Each(tokens, g) = FlattenSeq([i \in DOMAIN z |-> <<z[i]>>])
    <2>1. [i \in DOMAIN tokens |-> f[tokens[i]]] = [i \in DOMAIN tokens |-> LeftOf(tokens[i])]
      BY <1>4
    <2>2. [i \in DOMAIN tokens |-> g[tokens[i]]] = [i \in DOMAIN z |-> <<z[i]>>]
      BY <1>3, <1>4
    <2> HIDE DEF f, g
    <2> QED BY <2>1, <2>2, FlattenText DEF Text!Each
  <1> HIDE DEF f, g
  <1>9. ReadsAll(K, S, Normal, f, g)
    BY <1>1, <1>6, <1>7, Piecewise
  <1>10. e \in Seq(S) /\ Normal[e] = <<>>
    <2>1. e \in Text!Texts
      BY Ends DEF e
    <2>2. Cleaned[e] = <<>>
      BY <1>5, CleanedParts, KeptIs
    <2>3. Normal[e] = <<>>
      BY <2>1, <2>2, NormalIs, Splits DEF SplitLaw
    <2> QED BY <1>2, <2>1, <2>3
  <1>11. Normal[Text!Each(tokens, f) \o e] = z
    <2>1. Normal[Text!Each(tokens, f) \o e] = Text!Each(tokens, g) \o Normal[e]
      BY <1>2, <1>9, <1>10 DEF ReadsAll
    <2>2. Text!Each(tokens, g) = z
      BY <1>3, <1>8, Singles
    <2>3. z \o <<>> = z
      BY <1>3, Concat
    <2> QED BY <1>10, <2>1, <2>2, <2>3
  <1> QED BY <1>8, <1>11 DEF HiddenText, e, z

-----------------------------------------------------------------------------
(* Normalization: fields joined *)

Space == " "

Glue(x) == Text!FlattenSeq([i \in DOMAIN x |-> Append(x[i], Space)])

GlueLaw(K, S) ==
  /\ Glue(<<>>) = <<>>
  /\ \A x \in Seq(K) : Glue(x) \in Seq(S)
  /\ \A w \in K : \A x \in Seq(K) : Glue(<<w>> \o x) = (w \o <<Space>>) \o Glue(x)

\* Fields with a space after each, from the front.
LEMMA GlueFront ==
  ASSUME NEW S, Space \in S, NEW K \in SUBSET Seq(S), NEW f,
         f = [w \in K |-> w \o <<Space>>]
  PROVE  /\ f \in [K -> Seq(S)] /\ EachLaw(K, S, f)
         /\ \A x \in Seq(K) : Glue(x) = Text!Each(x, f)
         /\ GlueLaw(K, S)
  <1>1. \A w \in K : w \o <<Space>> \in Seq(S) /\ Append(w, Space) = w \o <<Space>>
    <2> TAKE w \in K
    <2>1. w \in Seq(S) /\ <<Space>> \in Seq(S)
      BY Single, Zenon
    <2>2. w \o <<Space>> \in Seq(S)
      BY <2>1, Concat
    <2>3. Append(w, Space) = w \o <<Space>>
      BY <2>1, AppendIsConcat
    <2> QED BY <2>2, <2>3
  <1>2. f \in [K -> Seq(S)] /\ \A w \in K : f[w] = w \o <<Space>>
    BY <1>1
  <1>3. EachLaw(K, S, f)
    BY <1>2, EachFront
  <1>4. ASSUME NEW x \in Seq(K) PROVE Glue(x) = Text!Each(x, f)
    <2>1. \A i \in DOMAIN x : x[i] \in K
      <3>1. DOMAIN x = 1 .. Len(x)
        BY LenProperties
      <3> QED BY <3>1, ElementOfSeq
    <2>2. \A i \in DOMAIN x : Append(x[i], Space) = f[x[i]]
      BY <1>1, <1>2, <2>1
    <2>3. [i \in DOMAIN x |-> Append(x[i], Space)] = [i \in DOMAIN x |-> f[x[i]]]
      BY <2>2
    <2> QED BY <2>3 DEF Glue, Text!Each
  <1>5. \A w \in K : \A x \in Seq(K) : <<w>> \o x \in Seq(K)
    BY Single, Concat
  <1>6. <<>> \in Seq(K)
    BY EmptySeq
  <1>7. GlueLaw(K, S)
    BY <1>2, <1>3, <1>4, <1>5, <1>6 DEF GlueLaw, EachLaw
  <1> QED BY <1>2, <1>3, <1>4, <1>7

\* What is joined ends with the last field.
LEMMA JoinIs ==
  ASSUME NEW x \in Seq(Text!Texts), x # <<>>
  PROVE  Text!Join(x) \in Text!Texts /\ Glue(x) = Text!Join(x) \o <<Space>>
  <1> DEFINE S == Text!Character
             K == Text!Texts
             p == <<Space>>
             T == {z \in Seq(K) : z # <<>> => \E u \in Seq(S) : Glue(z) = u \o p}
             f == [w \in K |-> w \o <<Space>>]
  <1>1. Space \in S /\ K = Seq(S) /\ p \in Seq(S) /\ Len(p) = 1
    BY Classes, TextLists DEF Space
  <1> HIDE DEF S, K
  <1>2. GlueLaw(K, S)
    BY <1>1, GlueFront
  <1> HIDE DEF f
  <1>3. <<>> \in T
    BY EmptySeq
  <1>4. ASSUME NEW w \in K, NEW z \in Seq(K), z \in T PROVE <<w>> \o z \in T
    <2>1. <<w>> \o z \in Seq(K)
      BY Single, Concat
    <2>2. Glue(<<w>> \o z) = (w \o p) \o Glue(z)
      BY <1>2 DEF GlueLaw
    <2>3. w \o p \in Seq(S)
      BY <1>1, Concat
    <2>4. CASE z = <<>>
      <3>1. Glue(z) = <<>>
        BY <1>2, <2>4 DEF GlueLaw
      <3>2. (w \o p) \o <<>> = w \o p
        BY <2>3, Concat
      <3>3. \E u \in Seq(S) : Glue(<<w>> \o z) = u \o p
        <4> HIDE DEF p
        <4> QED BY <1>1, <2>2, <3>1, <3>2
      <3> HIDE DEF p
      <3> QED BY <2>1, <3>3
    <2>5. CASE z # <<>>
      <3> HIDE DEF p
      <3>1. PICK u \in Seq(S) : Glue(z) = u \o p
        BY <1>4, <2>5
      <3>2. Regroup(w \o p, u, p)
        BY <1>1, <2>3, <3>1, Regrouping, Zenon
      <3>3. (w \o p) \o u \in Seq(S)
        BY <2>3, Concat
      <3>4. Glue(<<w>> \o z) = ((w \o p) \o u) \o p
        BY <2>2, <3>1, <3>2 DEF Regroup
      <3> QED BY <2>1, <3>3, <3>4
    <2> QED BY <2>4, <2>5
  <1>5. Seq(K) \subseteq T
    <2> HIDE DEF T
    <2> QED BY <1>3, <1>4, ListInduction
  <1>6. x \in Seq(K)
    BY DEF K
  <1> HIDE DEF p
  <1>7. PICK u \in Seq(S) : Glue(x) = u \o p
    BY <1>5, <1>6
  <1>8. Len(Glue(x)) - 1 = Len(u) /\ SubSeq(Glue(x), 1, Len(u)) = u
    <2>1. Len(u \o p) = Len(u) + Len(p) /\ Len(u) \in Nat
      <3>1. Elements(S, u, p)
        BY <1>1, <1>7, ElementsOf, Zenon
      <3> QED BY <3>1 DEF Elements
    <2>2. SubSeq(u \o p, 1, Len(u)) = u
      BY <1>1, <1>7, PartsOfConcat, Zenon
    <2> QED BY <1>1, <1>7, <2>1, <2>2
  <1>9. Text!Join(x) = SubSeq(Glue(x), 1, Len(Glue(x)) - 1)
    BY DEF Text!Join, Text!Front, Glue, Space
  <1>10. Text!Join(x) = u
    BY <1>8, <1>9
  <1> QED BY <1>1, <1>7, <1>10 DEF p, K

\* Joined fields split into the same fields.
LEMMA JoinSplits ==
  ASSUME NEW x \in Seq(Seq(Solid) \ {<<>>}) PROVE Split[Glue(x)] = x
  <1> DEFINE S == Text!Character
             W == Text!Texts
             K == Seq(Solid) \ {<<>>}
             f == [w \in K |-> w \o <<Space>>]
             g == [w \in K |-> <<w>>]
  <1>1. Space \in S /\ W = Seq(S) /\ K \in SUBSET Seq(S) /\ K \in SUBSET Seq(Solid)
    <2>1. Solid \subseteq S
      BY DEF Solid
    <2> QED BY <2>1, Classes, TextLists, Weaken DEF Space
  <1>2. Split \in [Seq(S) -> Seq(W)] /\ Split[<<>>] = <<>>
    BY <1>1, Splits DEF SplitLaw
  <1>3. ASSUME NEW w \in K, NEW s \in W PROVE Split[(w \o <<Space>>) \o s] = <<w>> \o Split[s]
    <2> DEFINE p == <<Space>>
    <2>1. p \in Seq(Text!White) /\ p \in Seq(S) /\ p # <<>> /\ p[1] \in Text!White
      <3>1. Space \in Text!White
        BY DEF Text!White, Space
      <3> HIDE DEF S, K
      <3>2. p # <<>> /\ p[1] = Space
        OBVIOUS
      <3> QED BY <1>1, <3>1, <3>2, Single
    <2> HIDE DEF p, S, K
    <2>2. p \o s \in W /\ p \o s # <<>> /\ (p \o s)[1] \in Text!White
      <3>1. p \o s # <<>> /\ (p \o s)[1] = p[1]
        BY <1>1, <1>3, <2>1, FirstOf
      <3>2. p \o s \in W
        BY <1>1, <1>3, <2>1, Concat
      <3> QED BY <2>1, <3>1, <3>2
    <2>3. Split[p \o s] = Split[s]
      BY <1>3, <2>1, Splits DEF SplitLaw
    <2>4. Split[w \o (p \o s)] = <<w>> \o Split[p \o s]
      <3>1. w \in Seq(Solid) /\ w # <<>>
        BY <1>3 DEF K
      <3> QED BY <2>2, <3>1, Splits DEF SplitLaw
    <2>5. Regroup(w, p, s)
      BY <1>1, <1>3, <2>1, Regrouping, Zenon
    <2> QED BY <2>3, <2>4, <2>5 DEF Regroup, p
  <1>4. x \in Seq(K)
    OBVIOUS
  <1> HIDE DEF S, W, K
  <1>5. /\ f \in [K -> Seq(S)] /\ \A z \in Seq(K) : Glue(z) = Text!Each(z, f)
        /\ GlueLaw(K, S)
    BY <1>1, GlueFront
  <1>6. g \in [K -> Seq(W)] /\ ReadsEach(K, S, Split, f, g)
    <2>1. \A w \in K : <<w>> \in Seq(W)
      BY <1>1, Single
    <2>2. \A w \in K : f[w] = w \o <<Space>> /\ g[w] = <<w>>
      OBVIOUS
    <2>3. g \in [K -> Seq(W)]
      BY <2>1
    <2> HIDE DEF f, g
    <2> QED BY <1>1, <1>3, <2>2, <2>3 DEF ReadsEach
  <1>7. Text!Each(x, g) = x
    <2>1. \A i \in DOMAIN x : x[i] \in K
      <3>1. DOMAIN x = 1 .. Len(x)
        BY <1>4, LenProperties
      <3> QED BY <1>4, <3>1, ElementOfSeq
    <2>2. [i \in DOMAIN x |-> g[x[i]]] = [i \in DOMAIN x |-> <<x[i]>>]
      BY <2>1
    <2> HIDE DEF g
    <2>3. Text!Each(x, g) = FlattenSeq([i \in DOMAIN x |-> <<x[i]>>])
      BY <2>2, FlattenText DEF Text!Each
    <2> QED BY <1>4, <2>3, Singles
  <1> HIDE DEF f, g
  <1>8. ReadsAll(K, S, Split, f, g)
    BY <1>2, <1>5, <1>6, Piecewise
  <1>9. Split[Text!Each(x, f) \o <<>>] = Text!Each(x, g) \o <<>>
    BY <1>2, <1>4, <1>8, EmptySeq DEF ReadsAll
  <1>10. Glue(x) \o <<>> = Glue(x) /\ x \o <<>> = x
    BY <1>4, <1>5, Concat DEF GlueLaw
  <1> QED BY <1>4, <1>5, <1>7, <1>9, <1>10

\* Fields can be told from what Join makes of them.
LEMMA JoinsApart ==
  ASSUME NEW x \in Seq(Seq(Solid) \ {<<>>}), NEW y \in Seq(Seq(Solid) \ {<<>>}),
         x # <<>>, y # <<>>, Text!Join(x) = Text!Join(y)
  PROVE  x = y
  <1>1. Solid \subseteq Text!Character
    BY DEF Solid
  <1>2. Seq(Solid) \ {<<>>} \subseteq Text!Texts
    BY <1>1, Weaken, TextLists
  <1>3. x \in Seq(Text!Texts) /\ y \in Seq(Text!Texts)
    <2> DEFINE K == Seq(Solid) \ {<<>>}
    <2>1. x \in Seq(K) /\ y \in Seq(K) /\ K \subseteq Text!Texts
      BY <1>2
    <2> HIDE DEF K
    <2> QED BY <2>1, Weaken
  <1>4. Glue(x) = Glue(y)
    BY <1>3, JoinIs
  <1> QED BY <1>4, JoinSplits

\* Join adds no character but the space.
LEMMA JoinRange ==
  ASSUME NEW U \in SUBSET Text!Character, Space \in U, NEW x \in Seq(Seq(U))
  PROVE  Text!Join(x) \in Seq(U)
  <1> DEFINE K == Seq(U)
             f == [w \in K |-> w \o <<Space>>]
             s == Glue(x)
  <1>1. GlueLaw(K, U)
    <2>1. K \in SUBSET Seq(U)
      OBVIOUS
    <2> HIDE DEF K
    <2> QED BY <2>1, GlueFront
  <1>2. s \in Seq(U)
    BY <1>1 DEF GlueLaw
  <1>3. Text!Join(x) = SubSeq(s, 1, Len(s) - 1)
    BY DEF Text!Join, Text!Front, Glue, Space
  <1> HIDE DEF s
  <1>4. CASE s = <<>>
    <2>1. SubSeq(<<>>, 1, Len(<<>>) - 1) \in Seq(U)
      <3>1. Len(<<>>) = 0
        OBVIOUS
      <3>2. SubSeq(<<>>, 1, 0 - 1) = <<>>
        BY SubSeqEmpty
      <3>3. <<>> \in Seq(U)
        BY EmptySeq
      <3> QED BY <3>1, <3>2, <3>3
    <2> QED BY <1>3, <1>4, <2>1, Zenon
  <1>5. CASE s # <<>>
    <2>0. Len(s) \in Nat \ {0}
      BY <1>2, <1>5, EmptySeq, Zenon
    <2>1. Len(s) - 1 \in 0 .. Len(s)
      <3>1. \A n \in Nat \ {0} : n - 1 \in 0 .. n
        OBVIOUS
      <3> QED BY <2>0, <3>1, Zenon
    <2> QED BY <1>2, <1>3, <2>1, FrontPart
  <1> QED BY <1>4, <1>5

-----------------------------------------------------------------------------
(* Normalization: what no normal form has in it *)

\* A replacement adds no character but the question mark.
LEMMA KeepsRange ==
  ASSUME NEW match, Matches(match), NEW Q \in SUBSET Text!Character, "?" \in Q
  PROVE  \A s \in Seq(Q) : As(match)[s] \in Seq(Q)
  <1> DEFINE size == Taken(match)
             out == Given(match)
             W == Text!Character
  <1>1. Readable(size, out, W) /\ \A s \in Text!Texts :
          /\ out[s] = IF match[s] = 0 THEN <<s[1]>> ELSE <<"?">>
    BY Replacing
  <1>2. \A s : Text!ReplaceAllString(match, s) = Text!Read(size, out, s)
    BY Replacing
  <1>3. \A s \in Seq(Q) : s \in Text!Texts
    BY Weaken, TextLists
  <1> HIDE DEF size, out
  <1>4. ASSUME NEW s \in Seq(Q), s # <<>> PROVE out[s] \in Seq(Q)
    <2>1. <<s[1]>> \in Seq(Q) /\ <<"?">> \in Seq(Q)
      <3>1. s[1] \in Q
        BY <1>4, TakenApart, Zenon
      <3> QED BY <3>1, Single
    <2> QED BY <1>1, <1>3, <1>4, <2>1
  <1> HIDE DEF W
  <1>5. \A s \in Seq(Q) : Text!Read(size, out, s) \in Seq(Q)
    BY <1>1, <1>4, ReadRange
  <1> QED BY <1>2, <1>3, <1>5 DEF As

Low == Text!Character \ (Text!Digit \cup DOMAIN Text!Lower)

\* No digit and no capital is in a normal form.
LEMMA FormRange ==
  \A s \in Text!Texts :
    InTurn[s] \in Text!Texts /\ Text!AnonymizeAndNormalize(s) \in Seq(Low)
  <1> SUFFICES ASSUME NEW s \in Text!Texts
               PROVE  InTurn[s] \in Text!Texts /\ Text!AnonymizeAndNormalize(s) \in Seq(Low)
    BY Zenon
  <1> DEFINE S == Text!Character
             Q == S \ Text!Digit
             r == InTurn[s]
             P2 == As(Text!SingleQuoted)
             P3 == As(Text!DoubleQuoted)
  <1>1. Q \in SUBSET S /\ "?" \in Q /\ Low \in SUBSET S /\ Space \in Low
    BY Kinds, Classes DEF Low, Space, Text!Digit, Text!Lower
  <1>2. r = P3[P2[RD[s]]]
    BY InTurnIs
  <1>3. RD[s] \in Seq(Q)
    <2>1. RD[s] \in Seq((S \ Text!Digit) \cup {"?"})
      BY DigitsOf, TextLists
    <2>2. (S \ Text!Digit) \cup {"?"} = Q
      BY <1>1
    <2> QED BY <2>1, <2>2
  <1>4. Matches(Text!SingleQuoted) /\ Matches(Text!DoubleQuoted)
    BY FirstDecides DEF FirstLaw, Matches
  <1> HIDE DEF S, Q, r
  <1>5. /\ \A w \in Seq(Q) : P2[w] \in Seq(Q)
        /\ \A w \in Seq(Q) : P3[w] \in Seq(Q)
    BY <1>1, <1>4, KeepsRange DEF S
  <1>6. r \in Seq(Q) /\ r \in Text!Texts
    <2>1. r \in Seq(Q)
      BY <1>2, <1>3, <1>5
    <2> QED BY <1>1, <2>1, Weaken, TextLists DEF S
  <1>7. \A c \in Q : Kept[c] \in Seq(Low)
    <2> SUFFICES ASSUME NEW c \in Q PROVE Kept[c] \in Seq(Low)
      OBVIOUS
    <2>1. LowerOf(c) \in Low
      BY DEF LowerOf, Low, Q, S, Text!Lower, Text!Digit, Text!Character, Text!Letter
    <2>2. <<LowerOf(c)>> \in Seq(Low) /\ <<>> \in Seq(Low)
      BY <2>1, Single, EmptySeq
    <2>3. Kept[c] \in {<<>>, <<LowerOf(c)>>}
      <3>1. c \in S /\ \A d \in S : Kept[d] = IF d \in {"$", ";"} THEN <<>> ELSE <<LowerOf(d)>>
        BY DEF Q, S, Kept
      <3> QED BY <3>1
    <2> QED BY <2>2, <2>3
  <1>8. Cleaned[r] \in Seq(Low)
    <2> DEFINE W == S
    <2>1. EachLaw(S, W, Kept)
      BY KeptIs DEF S
    <2> HIDE DEF W
    <2>2. Text!Each(r, Kept) \in Seq(Low)
      BY <1>1, <1>6, <1>7, <2>1, EachRange
    <2> QED BY <1>6, <2>2 DEF Cleaned
  <1>9. Normal[r] \in Seq(Seq(Low))
    <2>1. Split[Cleaned[r]] \in Seq(Seq(Low))
      BY <1>1, <1>8, Splits DEF SplitLaw, S
    <2> QED BY <1>6, <2>1, NormalIs
  <1>10. Text!Join(Normal[r]) \in Seq(Low)
    BY <1>1, <1>9, JoinRange DEF S
  <1>11. Text!AnonymizeAndNormalize(s) = Text!Join(Normal[r])
    BY <1>6, FormIs DEF r
  <1> QED BY <1>6, <1>10, <1>11 DEF r

\* FormsAreBlind, of any text.
LEMMA FormBlind ==
  \A s \in Text!Texts : \A c \in Text!ToSet(Text!AnonymizeAndNormalize(s)) :
    c \notin Text!Digit \cup DOMAIN Text!Lower
  <1> SUFFICES ASSUME NEW s \in Text!Texts,
                      NEW c \in Text!ToSet(Text!AnonymizeAndNormalize(s))
               PROVE  c \notin Text!Digit \cup DOMAIN Text!Lower
    BY Zenon
  <1> DEFINE u == Text!AnonymizeAndNormalize(s)
  <1>1. u \in Seq(Low)
    BY FormRange
  <1>2. \E i \in DOMAIN u : c = u[i]
    BY DEF Text!ToSet
  <1> HIDE DEF u
  <1>3. c \in Low
    <2>1. DOMAIN u = 1 .. Len(u)
      BY <1>1, LenProperties
    <2> QED BY <1>1, <1>2, <2>1, ElementOfSeq
  <1> QED BY <1>3 DEF Low

-----------------------------------------------------------------------------
(* Normalization: what a token leaves in a normal form *)

InLineNames == Text!Character \ {"\"", "newline"}
PlainNames == Text!Character \ Quotes

Fits(t) ==
  /\ t.kind \in {"word", "number", "string", "name", "sign"} /\ t.gap \in Blank
  /\ t = [kind |-> t.kind, body |-> t.body, gap |-> t.gap]
  /\ t.kind = "word" => t.body \in Text!Word
  /\ t.kind = "number" => t.body \in Text!Number
  /\ t.kind = "string" => t.body \in Text!Texts
  /\ t.kind = "name" => t.body \in Seq(InLineNames)
  /\ t.kind = "sign" => t.body \in Text!Sign

\* A token of the model is what the server takes for a token.
LEMMA TokenFits == PartsAssumption => \A t \in Text!Token : Fits(t)
  <1> SUFFICES ASSUME PartsAssumption, NEW t \in Text!Token PROVE Fits(t)
    OBVIOUS
  <1>1. Gaps \subseteq Blank
    BY DEF PartsAssumption, Text!NormalizationAssumption, Blank
  <1>2. Text!Name = Seq(InLineNames)
    BY DEF Text!Name, InLineNames
  <1> HIDE DEF PartsAssumption
  <1>3. \/ t \in [kind : {"word"}, body : Text!Word, gap : Gaps]
        \/ t \in [kind : {"number"}, body : Text!Number, gap : Gaps]
        \/ t \in [kind : {"string"}, body : Text!Texts, gap : Gaps]
        \/ t \in [kind : {"name"}, body : Seq(InLineNames), gap : Gaps]
        \/ t \in [kind : {"sign"}, body : Text!Sign, gap : Gaps]
    BY <1>2, Zenon DEF Text!Token
  <1> QED BY <1>1, <1>3 DEF Fits

\* The characters of words, numbers and operators.
LEMMA Bodies ==
  /\ \A b \in Text!Word : b \in Seq(Plain) /\ b # <<>> /\ b[1] \in Text!Letter
                          /\ b \in Seq(Text!Letter \cup Text!Digit \cup {"."})
  /\ \A b \in Text!Number : b \in Seq(Plain) /\ b # <<>> /\ b[1] \in Text!Digit
                            /\ b \in Seq(Text!Digit \cup {"."})
  /\ \A b \in Text!Sign : b \in Seq(Plain) /\ b # <<>> /\ b[1] \in {"=", "."}
                          /\ b \in Seq({"=", "."})
  <1>1. /\ Text!Letter \cup Text!Digit \cup {"."} \subseteq Plain
        /\ Text!Digit \cup {"."} \subseteq Plain /\ {"=", "."} \subseteq Plain
    BY DEF Plain
  <1>2. \A b \in Text!Word : b \in Seq(Text!Letter \cup Text!Digit \cup {"."})
                             /\ b # <<>> /\ b[1] \in Text!Letter
    BY DEF Text!Word
  <1>3. \A b \in Text!Number : b \in Seq(Text!Digit \cup {"."})
                               /\ b # <<>> /\ b[1] \in Text!Digit
    BY DEF Text!Number
  <1>4. \A b \in Text!Sign : b \in Seq({"=", "."}) /\ b # <<>>
    BY DEF Text!Sign
  <1>5. \A b \in Text!Sign : b[1] \in {"=", "."}
    BY <1>4, TakenApart, Zenon
  <1>6. \A b : b \in Text!Word \/ b \in Text!Number \/ b \in Text!Sign => b \in Seq(Plain)
    BY <1>1, <1>2, <1>3, <1>4, Weaken, Zenon
  <1> QED BY <1>2, <1>3, <1>4, <1>5, <1>6

\* A token can be hidden, by one pass and by three.
LEMMA FitsWritten ==
  ASSUME NEW t, Fits(t)
  PROVE  /\ t \in Written(InLineNames)
         /\ (t.kind = "name" => t.body \in Seq(PlainNames)) => t \in Written(PlainNames)
  <1>1. ASSUME NEW N, t.kind = "name" => t.body \in Seq(N) PROVE t \in Written(N)
    <2>1. /\ t = [kind |-> t.kind, body |-> t.body, gap |-> t.gap]
          /\ t.gap \in Blank
      BY DEF Fits
    <2>2. CASE t.kind = "string"
      <3>1. t.body \in Text!Texts
        BY <2>2 DEF Fits
      <3> QED BY <2>1, <2>2, <3>1 DEF Written
    <2>3. CASE t.kind = "name"
      BY <1>1, <2>1, <2>3 DEF Written
    <2>4. CASE t.kind \in {"word", "number", "sign"}
      <3>1. t.body \in Seq(Plain)
        BY <2>4, Bodies DEF Fits
      <3> QED BY <2>1, <2>4, <3>1 DEF Written
    <2> QED BY <2>2, <2>3, <2>4 DEF Fits
  <1>2. t.kind = "name" => t.body \in Seq(InLineNames)
    BY DEF Fits
  <1> QED BY <1>1, <1>2

\* A text without a character is a text of the others.
LEMMA LacksElement ==
  ASSUME NEW A, NEW w \in Seq(A), NEW c, c \notin Text!ToSet(w) PROVE w \in Seq(A \ {c})
  <1>1. Len(w) \in Nat /\ DOMAIN w = 1 .. Len(w) /\ w = [i \in 1 .. Len(w) |-> w[i]]
    BY LenProperties
  <1>2. \A i \in 1 .. Len(w) : w[i] \in A \ {c}
    <2>1. \A i \in 1 .. Len(w) : w[i] \in A
      BY ElementOfSeq
    <2>2. \A i \in 1 .. Len(w) : w[i] \in Text!ToSet(w)
      BY <1>1 DEF Text!ToSet
    <2> QED BY <2>1, <2>2
  <1> QED BY <1>1, <1>2

\* A run of digits in front leaves a question mark in front.
LEMMA DigitsInFront ==
  /\ \A w \in Text!Texts : w # <<>> /\ w[1] \in Text!Digit => RD[w] # <<>> /\ RD[w][1] = "?"
  /\ \A w \in Text!Texts : w # <<>> /\ w[1] \notin Text!Digit =>
       RD[w] # <<>> /\ RD[w][1] = w[1]
  /\ \A w \in Seq(Text!Digit) : w # <<>> => RD[w] = <<"?">>
  <1> DEFINE S == Text!Character
             D == Text!Digit
             Begins(w) == w # <<>> /\ w[1] \in D => RD[w] # <<>> /\ RD[w][1] = "?"
             Becomes(w) == w # <<>> => RD[w] = <<"?">>
             T == {w \in Seq(S) : Begins(w)}
             V == {w \in Seq(D) : Becomes(w)}
  <1>1. /\ RD \in [Seq(S) -> Seq(S)] /\ RD[<<>>] = <<>>
        /\ \A c \in S \ D : \A s \in Seq(S) : RD[<<c>> \o s] = <<c>> \o RD[s]
        /\ \A c \in D : \A s \in Seq(S) :
             RD[<<c>> \o s] = IF s # <<>> /\ s[1] \in D THEN RD[s] ELSE <<"?">> \o RD[s]
        /\ D \subseteq S /\ "?" \in S /\ Text!Texts = Seq(S)
    BY DigitsOf, TextLists, Classes DEF DigitLaw
  <1> HIDE DEF S, D
  <1>2. \A c \in S : \A s \in Seq(S) :
          <<c>> \o s \in Seq(S) /\ <<c>> \o s # <<>> /\ (<<c>> \o s)[1] = c
    BY <1>1, FrontCharacter DEF S
  <1>3. \A s \in Seq(S) : RD[s] \in Seq(S)
    BY <1>1
  <1>4. <<>> \in T
    BY EmptySeq
  <1>5. ASSUME NEW c \in S, NEW s \in Seq(S), Begins(s) PROVE Begins(<<c>> \o s)
    <2> SUFFICES ASSUME c \in D PROVE RD[<<c>> \o s] # <<>> /\ RD[<<c>> \o s][1] = "?"
      BY <1>2
    <2>1. CASE s # <<>> /\ s[1] \in D
      BY <1>1, <1>5, <2>1
    <2>2. CASE ~(s # <<>> /\ s[1] \in D)
      <3>1. RD[<<c>> \o s] = <<"?">> \o RD[s]
        BY <1>1, <2>2
      <3> QED BY <1>1, <1>2, <1>3, <3>1
    <2> QED BY <2>1, <2>2
  <1>6. Seq(S) \subseteq T
    <2>1. \A c \in S : \A s \in Seq(S) : s \in T => <<c>> \o s \in T
      <3> HIDE DEF Begins
      <3> QED BY <1>2, <1>5
    <2> HIDE DEF T
    <2> QED BY <1>4, <2>1, ListInduction
  <1>7. <<>> \in V
    BY EmptySeq
  <1>8. ASSUME NEW c \in D, NEW s \in Seq(D), Becomes(s) PROVE RD[<<c>> \o s] = <<"?">>
    <2>0. s \in Seq(S)
      BY <1>1, Weaken
    <2>1. CASE s = <<>>
      <3>1. RD[<<c>> \o s] = <<"?">> \o <<>>
        BY <1>1, <2>0, <2>1
      <3> QED BY <3>1
    <2>2. CASE s # <<>>
      <3>1. s[1] \in D
        BY <2>2, TakenApart, Zenon
      <3>2. RD[<<c>> \o s] = RD[s]
        BY <1>1, <2>0, <2>2, <3>1
      <3> QED BY <1>8, <2>2, <3>2
    <2> QED BY <2>1, <2>2
  <1>9. Seq(D) \subseteq V
    <2>1. \A c \in D : \A s \in Seq(D) : s \in V => <<c>> \o s \in V
      <3>1. \A c \in D : \A s \in Seq(D) : <<c>> \o s \in Seq(D)
        BY Single, Concat
      <3> QED BY <1>8, <3>1
    <2> HIDE DEF V
    <2> QED BY <1>7, <2>1, ListInduction
  <1>10. ASSUME NEW w \in Seq(S), w # <<>>, w[1] \notin D
         PROVE  RD[w] # <<>> /\ RD[w][1] = w[1]
    <2> DEFINE c == w[1]
               s == Tail(w)
    <2>1. c \in S /\ s \in Seq(S) /\ w = <<c>> \o s
      BY <1>10, TakenApart, Zenon
    <2> HIDE DEF c, s
    <2>2. c \notin D
      BY <1>10 DEF c
    <2>3. RD[w] = <<c>> \o RD[s]
      BY <1>1, <2>1, <2>2
    <2> QED BY <1>2, <1>3, <2>1, <2>3 DEF c
  <1> QED BY <1>1, <1>6, <1>9, <1>10 DEF S, D

\* Cleaning leaves the first character of a token.
LEMMA CleanedFirst ==
  ASSUME NEW u \in Text!Texts, u # <<>>, u[1] \notin {"$", ";"}
  PROVE  Cleaned[u] # <<>> /\ Cleaned[u][1] = LowerOf(u[1])
  <1> DEFINE c == u[1]
             s == Tail(u)
  <1>1. c \in Text!Character /\ s \in Text!Texts /\ u = <<c>> \o s
    BY TextLists
  <1>2. Kept[c] = <<LowerOf(c)>>
    BY <1>1 DEF Kept
  <1>3. LowerOf(c) \in Text!Character /\ Cleaned[s] \in Text!Texts
    BY <1>1, LowerFront, KeptIs
  <1> HIDE DEF c, s
  <1>4. Cleaned[u] = <<LowerOf(c)>> \o Cleaned[s]
    BY <1>1, <1>2, KeptIs
  <1> DEFINE d == LowerOf(c)
             v == Cleaned[s]
  <1>5. d \in Text!Character /\ v \in Text!Texts /\ Cleaned[u] = <<d>> \o v
    BY <1>3, <1>4
  <1> HIDE DEF d, v
  <1>6. Cleaned[u] # <<>> /\ Cleaned[u][1] = d
    BY <1>5, FrontCharacter, Zenon
  <1> QED BY <1>6 DEF c, d

\* ToLower is all that Cleaned does where there is no $ and no semicolon.
LEMMA LowerIsCleaned ==
  \A w \in Seq(Text!Character \ {"$", ";"}) : Cleaned[w] = Text!ToLower(w)
  <1> DEFINE S == Text!Character
             Q == S \ {"$", ";"}
             T == {w \in Seq(Q) : Cleaned[w] = Text!ToLower(w)}
  <1>1. \A w \in Seq(Q) : w \in Text!Texts
    BY Weaken, TextLists
  <1>2. \A c \in Q : c \in Text!Character /\ Kept[c] = <<LowerOf(c)>>
    BY DEF Kept
  <1> HIDE DEF Q
  <1>3. <<>> \in T
    BY KeptIs, LowerFront, EmptySeq
  <1>4. ASSUME NEW c \in Q, NEW w \in Seq(Q), Cleaned[w] = Text!ToLower(w)
        PROVE  Cleaned[<<c>> \o w] = Text!ToLower(<<c>> \o w)
    <2>1. Cleaned[<<c>> \o w] = <<LowerOf(c)>> \o Cleaned[w]
      BY <1>1, <1>2, KeptIs
    <2>2. Text!ToLower(<<c>> \o w) = <<LowerOf(c)>> \o Text!ToLower(w)
      BY <1>1, <1>2, LowerFront
    <2> QED BY <1>4, <2>1, <2>2
  <1>5. Seq(Q) \subseteq T
    <2>1. \A c \in Q : \A w \in Seq(Q) : w \in T => <<c>> \o w \in T
      <3>1. \A c \in Q : \A w \in Seq(Q) : <<c>> \o w \in Seq(Q)
        BY Single, Concat
      <3> QED BY <1>4, <3>1
    <2> HIDE DEF T
    <2> QED BY <1>3, <2>1, ListInduction
  <1> QED BY <1>5 DEF Q

\* Small letters and question marks do not meet.
LEMMA LowerRuns == \A w \in Text!Texts : Text!ToLower(RD[w]) = RD[Text!ToLower(w)]
  <1> DEFINE S == Text!Character
             D == Text!Digit
             low(s) == Text!ToLower(s)
             T == {w \in Seq(S) : low(RD[w]) = RD[low(w)]}
  <1>1. /\ RD \in [Seq(S) -> Seq(S)] /\ RD[<<>>] = <<>>
        /\ \A c \in S \ D : \A s \in Seq(S) : RD[<<c>> \o s] = <<c>> \o RD[s]
        /\ \A c \in D : \A s \in Seq(S) :
             RD[<<c>> \o s] = IF s # <<>> /\ s[1] \in D THEN RD[s] ELSE <<"?">> \o RD[s]
        /\ D \subseteq S /\ "?" \in S /\ Text!Texts = Seq(S)
    BY DigitsOf, TextLists, Classes DEF DigitLaw
  <1>2. /\ low(<<>>) = <<>> /\ \A s \in Seq(S) : low(s) \in Seq(S)
        /\ \A c \in S : LowerOf(c) \in S
        /\ \A c \in S : \A s \in Seq(S) : low(<<c>> \o s) = <<LowerOf(c)>> \o low(s)
    BY LowerFront, TextLists
  <1>3. /\ \A c \in S : LowerOf(c) \in D <=> c \in D
        /\ \A c \in D : LowerOf(c) = c
        /\ LowerOf("?") = "?"
    BY DEF LowerOf, Text!Lower, Text!Digit
  <1>4. \A c \in S : \A s \in Seq(S) :
          <<c>> \o s \in Seq(S) /\ <<c>> \o s # <<>> /\ (<<c>> \o s)[1] = c
    BY <1>1, FrontCharacter
  <1> HIDE DEF S, D, low
  <1>5. \A s \in Seq(S) : (low(s) # <<>> /\ low(s)[1] \in D) <=> (s # <<>> /\ s[1] \in D)
    <2> SUFFICES ASSUME NEW s \in Seq(S)
                 PROVE  (low(s) # <<>> /\ low(s)[1] \in D) <=> (s # <<>> /\ s[1] \in D)
      OBVIOUS
    <2>1. CASE s = <<>>
      BY <1>2, <2>1
    <2>2. CASE s # <<>>
      <3> DEFINE c == s[1]
                 r == Tail(s)
      <3>1. c \in S /\ r \in Seq(S) /\ s = <<c>> \o r
        BY <2>2, TakenApart, Zenon
      <3> HIDE DEF c, r
      <3>2. low(s) = <<LowerOf(c)>> \o low(r)
        BY <1>2, <3>1
      <3>3. low(s) # <<>> /\ low(s)[1] = LowerOf(c)
        BY <1>2, <1>4, <3>1, <3>2
      <3> QED BY <1>3, <1>4, <3>1, <3>3
    <2> QED BY <2>1, <2>2
  <1>6. <<>> \in T
    BY <1>1, <1>2, EmptySeq
  <1>7. ASSUME NEW c \in S, NEW s \in Seq(S), low(RD[s]) = RD[low(s)]
        PROVE  low(RD[<<c>> \o s]) = RD[low(<<c>> \o s)]
    <2>1. low(<<c>> \o s) = <<LowerOf(c)>> \o low(s) /\ low(s) \in Seq(S) /\ RD[s] \in Seq(S)
      BY <1>1, <1>2
    <2>2. CASE c \notin D
      <3>1. RD[<<c>> \o s] = <<c>> \o RD[s]
        BY <1>1, <2>2
      <3>2. RD[<<LowerOf(c)>> \o low(s)] = <<LowerOf(c)>> \o RD[low(s)]
        BY <1>1, <1>2, <1>3, <2>1, <2>2
      <3>3. low(<<c>> \o RD[s]) = <<LowerOf(c)>> \o low(RD[s])
        BY <1>2, <2>1
      <3> QED BY <1>7, <2>1, <3>1, <3>2, <3>3
    <2>3. CASE c \in D /\ s # <<>> /\ s[1] \in D
      <3>1. RD[<<c>> \o s] = RD[s]
        BY <1>1, <2>3
      <3>2. RD[<<c>> \o low(s)] = RD[low(s)]
        BY <1>1, <1>5, <2>1, <2>3
      <3> QED BY <1>3, <1>7, <2>1, <2>3, <3>1, <3>2
    <2>4. CASE c \in D /\ ~(s # <<>> /\ s[1] \in D)
      <3>1. RD[<<c>> \o s] = <<"?">> \o RD[s]
        BY <1>1, <2>4
      <3>2. RD[<<c>> \o low(s)] = <<"?">> \o RD[low(s)]
        BY <1>1, <1>5, <2>1, <2>4
      <3>3. low(<<"?">> \o RD[s]) = <<"?">> \o low(RD[s])
        <4>1. low(<<"?">> \o RD[s]) = <<LowerOf("?")>> \o low(RD[s])
          BY <1>1, <1>2, <2>1, Zenon
        <4> QED BY <1>3, <4>1
      <3> QED BY <1>3, <1>7, <2>1, <2>4, <3>1, <3>2, <3>3
    <2> QED BY <2>2, <2>3, <2>4
  <1>8. Seq(S) \subseteq T
    <2>1. \A c \in S : \A s \in Seq(S) : s \in T => <<c>> \o s \in T
      BY <1>4, <1>7
    <2> HIDE DEF T
    <2> QED BY <1>6, <2>1, ListInduction
  <1> QED BY <1>1, <1>8 DEF low

\* A string, a quoted name or a number is a question mark, or begins with one;
\* a word or an operator does not, and is only written small.
CoreFact(t) ==
  /\ Core(t) # <<>>
  /\ t.kind \in {"word", "sign"} => Core(t)[1] # "?" /\ Core(t) = Text!ToLower(RD[t.body])
  /\ t.kind \notin {"word", "sign"} => Core(t)[1] = "?"
  /\ t.kind = "name" => Core(t) = <<"?">>
  /\ t.kind = "number" /\ "." \notin Text!ToSet(t.body) => Core(t) = <<"?">>
  /\ t.kind = "string" /\ "'" \notin Text!ToSet(t.body) => Core(t) = <<"?">>

\* A question mark is left as it is, a parameter becomes one.
LEMMA QuestionMark ==
  /\ <<"?">> \in Text!Texts /\ <<"?">> # <<>> /\ <<"?">>[1] = "?"
  /\ LowerOf("?") = "?" /\ Cleaned[<<"?">>] = <<"?">>
  /\ Cleaned[<<"$">> \o <<"?">>] = <<"?">>
  <1>1. <<"?">> \in Text!Texts /\ <<"?">> # <<>> /\ <<"?">>[1] = "?"
    BY Classes, TextLists
  <1>2. LowerOf("?") = "?"
    BY DEF LowerOf, Text!Lower
  <1>3. "?" \in Text!Character /\ "$" \in Text!Character
    BY Classes
  <1>4. Kept["?"] = <<"?">> /\ Kept["$"] = <<>>
    BY <1>2, <1>3 DEF Kept
  <1>5. Cleaned[<<"?">>] = <<"?">>
    <2>1. Cleaned[<<"?">> \o <<>>] = Kept["?"] \o Cleaned[<<>>]
      BY <1>3, KeptIs, TextLists
    <2>2. <<"?">> \o <<>> = <<"?">>
      BY <1>1, TextLists
    <2> QED BY <1>4, <2>1, <2>2, KeptIs
  <1>6. Cleaned[<<"$">> \o <<"?">>] = Kept["$"] \o Cleaned[<<"?">>]
    BY <1>1, <1>3, KeptIs
  <1>7. <<>> \o <<"?">> = <<"?">>
    BY <1>1, TextLists
  <1> QED BY <1>1, <1>2, <1>4, <1>5, <1>6, <1>7

\* The core of a string is a question mark if it holds no single quote.
LEMMA StringCore ==
  ASSUME NEW t, Fits(t), t.kind = "string"
  PROVE  /\ Core(t) # <<>> /\ Core(t)[1] = "?"
         /\ "'" \notin Text!ToSet(t.body) => Core(t) = <<"?">>
  <1> DEFINE S == Text!Character
             b == t.body
             h == Text!Hidden(t)
             m == Text!Each(b, Marks)
             q == <<"?">>
             W == {"?"}
  <1>1. b \in Seq(S) /\ h = q \o m
    <2>1. t \in Written(InLineNames) /\ InLineNames \in SUBSET Text!Character
      BY FitsWritten DEF InLineNames
    <2>2. h = <<"?">> \o Text!Each(b, Marks) /\ b \in Text!Texts
      BY <2>1, HiddenIs
    <2> QED BY <2>2, TextLists
  <1>2. EachLaw(S, W, Marks)
    BY StringParts
  <1>3. m \in Seq(S)
    <2>1. m \in Seq(W)
      BY <1>1, <1>2 DEF EachLaw
    <2>2. W \subseteq S
      BY Classes
    <2> QED BY <2>1, <2>2, Weaken
  <1>4. Core(t) = Cleaned[h]
    BY DEF Core
  <1>5. \A c \in S \ {"'"} : Marks[c] = <<>>
    BY DEF Marks
  <1>6. q \in Seq(S) /\ Text!Texts = Seq(S)
    BY QuestionMark, TextLists
  <1> HIDE DEF S, b, h, m, W
  <1>7. h \in Seq(S) /\ h # <<>> /\ h[1] = "?"
    <2>1. q # <<>> /\ q[1] = "?"
      OBVIOUS
    <2> HIDE DEF q
    <2>2. h \in Seq(S)
      BY <1>1, <1>3, <1>6, Concat
    <2> QED BY <1>1, <1>3, <1>6, <2>1, <2>2, FirstOf
  <1>8. Core(t) # <<>> /\ Core(t)[1] = "?"
    <2>1. "?" \notin {"$", ";"}
      OBVIOUS
    <2>2. Cleaned[h] # <<>> /\ Cleaned[h][1] = LowerOf(h[1])
      BY <1>6, <1>7, <2>1, CleanedFirst
    <2> QED BY <1>4, <1>7, <2>2, QuestionMark
  <1>9. ASSUME "'" \notin Text!ToSet(b) PROVE Core(t) = q
    <2> DEFINE U == S \ {"'"}
               V == {}
    <2>1. b \in Seq(U)
      BY <1>1, <1>9, LacksElement
    <2>2. U \in SUBSET S /\ \A c \in U : Marks[c] \in Seq(V)
      BY <1>5, EmptySeq
    <2> HIDE DEF U, V
    <2>3. m \in Seq(V)
      BY <1>2, <2>1, <2>2, EachRange DEF m
    <2>4. m = <<>>
      <3>1. V = {}
        BY DEF V
      <3>2. m # <<>> => m[1] \in V
        BY <2>3, TakenApart, Zenon
      <3> QED BY <3>1, <3>2
    <2>5. q \o <<>> = q
      BY <1>6, Concat
    <2> QED BY <1>1, <1>4, <2>4, <2>5, QuestionMark
  <1> QED BY <1>8, <1>9 DEF b

\* The core of a token says what kind of token it was.
LEMMA CoreIs == ASSUME NEW t, Fits(t) PROVE CoreFact(t)
  <1> DEFINE b == t.body
             h == Text!Hidden(t)
  <1>0. t \in Written(InLineNames) /\ InLineNames \in SUBSET Text!Character
    BY FitsWritten DEF InLineNames
  <1>1. /\ t.kind = "name" => h = <<"?">>
        /\ t.kind \in {"word", "number", "sign"} => h = RD[b] /\ b \in Seq(Plain)
        /\ Core(t) = Cleaned[h]
    BY <1>0, HiddenIs DEF Core
  <1>2. \A w \in Seq(Plain) : w \in Text!Texts /\ RD[w] \in Text!Texts
    BY DigitsOf, Kinds, Weaken, TextLists
  <1>3. CASE t.kind = "string"
    BY <1>3, StringCore DEF CoreFact
  <1>4. CASE t.kind = "name"
    <2>1. Core(t) = <<"?">>
      BY <1>1, <1>4, QuestionMark
    <2> QED BY <1>4, <2>1, QuestionMark DEF CoreFact
  <1>5. CASE t.kind = "number"
    <2> HIDE DEF h
    <2>1. /\ b \in Text!Texts /\ b # <<>> /\ b[1] \in Text!Digit
          /\ b \in Seq(Text!Digit \cup {"."}) /\ h = RD[b] /\ h \in Text!Texts
      BY <1>1, <1>2, <1>5, Bodies DEF Fits
    <2> HIDE DEF b
    <2>2. h # <<>> /\ h[1] = "?"
      BY <2>1, DigitsInFront
    <2>3. Cleaned[h] # <<>> /\ Cleaned[h][1] = LowerOf(h[1])
      <3>1. "?" \notin {"$", ";"}
        OBVIOUS
      <3> QED BY <2>1, <2>2, <3>1, CleanedFirst
    <2>4. Core(t) # <<>> /\ Core(t)[1] = "?"
      BY <1>1, <2>2, <2>3, QuestionMark
    <2>5. ASSUME "." \notin Text!ToSet(b) PROVE Core(t) = <<"?">>
      <3> DEFINE A == Text!Digit \cup {"."}
      <3>1. b \in Seq(A \ {"."})
        <4>1. b \in Seq(A)
          BY <2>1
        <4> HIDE DEF A
        <4> QED BY <2>5, <4>1, LacksElement
      <3>2. A \ {"."} \subseteq Text!Digit
        OBVIOUS
      <3>3. b \in Seq(Text!Digit)
        BY <3>1, <3>2, Weaken, Zenon
      <3>4. h = <<"?">>
        BY <2>1, <3>3, DigitsInFront
      <3> QED BY <1>1, <3>4, QuestionMark
    <2> QED BY <1>5, <2>4, <2>5 DEF CoreFact, b
  <1>6. CASE t.kind \in {"word", "sign"}
    <2> HIDE DEF h
    <2> DEFINE c == b[1]
               Q == Text!Character \ {"$", ";"}
               U == Text!Letter \cup Text!Digit \cup {".", "="}
    <2>1. /\ b \in Text!Texts /\ b # <<>> /\ h = RD[b] /\ h \in Text!Texts
          /\ c \in Text!Letter \cup {"=", "."} /\ b \in Seq(U)
      <3>1. /\ b \in Text!Texts /\ h = RD[b] /\ h \in Text!Texts
            /\ b \in Text!Word \cup Text!Sign
        BY <1>1, <1>2, <1>6 DEF Fits
      <3>2. b # <<>> /\ c \in Text!Letter \cup {"=", "."}
        BY <3>1, Bodies
      <3>3. /\ Text!Letter \cup Text!Digit \cup {"."} \subseteq U
            /\ {"=", "."} \subseteq U
        OBVIOUS
      <3> HIDE DEF U, b
      <3>4. b \in Seq(U)
        BY <3>1, <3>3, Bodies, Weaken
      <3> QED BY <3>1, <3>2, <3>4
    <2>2. /\ c \notin Text!Digit /\ c \notin {"$", ";"} /\ LowerOf(c) # "?"
          /\ U \in SUBSET Text!Character /\ (U \ Text!Digit) \cup {"?"} \subseteq Q
      <3>1. c \in {"A", "B", "a", "b", "=", "."}
        BY <2>1 DEF Text!Letter, Text!Lower
      <3>2. c \notin Text!Digit /\ c \notin {"$", ";"}
        BY <3>1 DEF Text!Digit
      <3>3. LowerOf(c) # "?"
        BY <3>1 DEF LowerOf, Text!Lower
      <3>4. U \in SUBSET Text!Character /\ (U \ Text!Digit) \cup {"?"} \subseteq Q
        BY DEF Text!Character, Text!Letter, Text!Lower
      <3> QED BY <3>2, <3>3, <3>4
    <2> HIDE DEF b, c, Q, U
    <2>3. h # <<>> /\ h[1] = c
      BY <2>1, <2>2, DigitsInFront DEF c
    <2>4. Cleaned[h] # <<>> /\ Cleaned[h][1] = LowerOf(c)
      BY <2>1, <2>2, <2>3, CleanedFirst
    <2>5. h \in Seq(Q)
      <3>1. h \in Seq((U \ Text!Digit) \cup {"?"})
        BY <2>1, <2>2, DigitsOf
      <3> QED BY <2>2, <3>1, Weaken, Zenon
    <2>6. Cleaned[h] = Text!ToLower(h)
      BY <2>5, LowerIsCleaned DEF Q
    <2> QED BY <1>1, <1>6, <2>1, <2>2, <2>4, <2>6 DEF CoreFact, b
  <1> QED BY <1>3, <1>4, <1>5, <1>6 DEF Fits

\* Operators and parameters can be hidden.
LEMMA SignWritten ==
  \A N : \A b \in Seq(Plain) : \A g \in Blank :
    [kind |-> "sign", body |-> b, gap |-> g] \in Written(N)
  <1> DEFINE A == Seq(Plain)
  <1>1. \A N : [kind : {"word", "number", "sign"}, body : A, gap : Blank] \subseteq Written(N)
    BY DEF Written
  <1> HIDE DEF A
  <1>2. \A b \in A : \A g \in Blank :
          [kind |-> "sign", body |-> b, gap |-> g]
            \in [kind : {"word", "number", "sign"}, body : A, gap : Blank]
    OBVIOUS
  <1> QED BY <1>1, <1>2 DEF A

\* The core of a parameter is a question mark.
LEMMA ParameterCore ==
  ASSUME NEW d \in Seq(Text!Digit) \ {<<>>}, NEW g \in Blank, NEW N \in SUBSET Text!Character,
         NEW t, t = [kind |-> "sign", body |-> <<"$">> \o d, gap |-> g]
  PROVE  t \in Proper(N) /\ Core(t) = <<"?">>
  <1> DEFINE b == <<"$">> \o d
  <1>1. "$" \in Plain /\ Text!Digit \subseteq Plain /\ "$" \in Text!Character \ Text!Digit
    BY Classes DEF Plain, Text!Digit
  <1>2. d \in Seq(Plain) /\ d \in Text!Texts
    <2>1. d \in Seq(Plain)
      BY <1>1, Weaken
    <2> QED BY <2>1, Kinds, Weaken, TextLists
  <1>3. b \in Seq(Plain)
    BY <1>1, <1>2, Single, Concat
  <1>4. RD[b] = <<"$">> \o <<"?">>
    <2>1. RD[d] = <<"?">>
      BY DigitsInFront
    <2>2. RD[<<"$">> \o d] = <<"$">> \o RD[d]
      BY <1>1, <1>2, DigitsOf DEF DigitLaw
    <2> QED BY <2>1, <2>2
  <1> HIDE DEF b
  <1>5. t.kind = "sign" /\ t.body = b /\ t.gap = g /\ t \in Written(N)
    <2>1. t = [kind |-> "sign", body |-> b, gap |-> g]
      BY DEF b
    <2>2. t.kind = "sign" /\ t.body = b /\ t.gap = g
      BY <2>1
    <2>3. [kind |-> "sign", body |-> b, gap |-> g] \in Written(N)
      BY <1>3, SignWritten
    <2> QED BY <2>1, <2>2, <2>3, Zenon
  <1>6. Text!Hidden(t) = RD[b]
    BY <1>5, HiddenIs
  <1>7. Core(t) = <<"?">>
    BY <1>4, <1>6, QuestionMark DEF Core
  <1> QED BY <1>5, <1>7, QuestionMark DEF Proper

-----------------------------------------------------------------------------
(* Normalization: statements and what the server remembers of them *)

LiteralsUpTo(tokens, i) == {j \in 1 .. i : tokens[j].kind \in Text!Literals}

\* The tokens of pg_stat_statements.
Remembered(tokens) ==
  [i \in DOMAIN tokens |->
     IF tokens[i].kind \in Text!Literals
     THEN [kind |-> "sign",
           body |-> <<"$">> \o Parameter[Text!Cardinality(LiteralsUpTo(tokens, i))],
           gap |-> tokens[i].gap]
     ELSE tokens[i]]

\* What pg_stat_statements remembers is the text of a statement.
LEMMA RememberedText ==
  \A tokens : Text!pg_stat_statements(tokens) = Text!Text(Remembered(tokens), FALSE)
  BY DEF Text!pg_stat_statements, Remembered, LiteralsUpTo

\* The library of the texts counts as the library of the proofs does.
LEMMA CountText == \A X : Text!Cardinality(X) = Cardinality(X)
  BY DEF Text!Cardinality, Cardinality

\* A literal is one of the parameters there are.
LEMMA ParameterCount ==
  ASSUME NEW tokens, NEW n \in Nat, NEW i \in 1 .. n, tokens[i].kind \in Text!Literals
  PROVE  Text!Cardinality(LiteralsUpTo(tokens, i)) \in 1 .. n
  <1> DEFINE X == LiteralsUpTo(tokens, i)
  <1>1. X \in SUBSET (1 .. i) /\ i \in X /\ i \in Int /\ 1 <= i
    BY DEF LiteralsUpTo
  <1> HIDE DEF X
  <1>2. IsFiniteSet(1 .. i) /\ Cardinality(1 .. i) = i
    BY <1>1, FS_Interval
  <1>3. IsFiniteSet(X) /\ Cardinality(X) <= i
    BY <1>1, <1>2, FS_Subset
  <1>4. Cardinality(X) \in Nat /\ Cardinality(X) # 0
    BY <1>1, <1>3, FS_EmptySet, FS_CardinalityType
  <1>5. Cardinality(X) \in 1 .. n
    BY <1>3, <1>4
  <1> QED BY <1>5, CountText DEF X

\* No name with a single quote, in one token.
Quoteless(t) == t.kind = "name" => "'" \notin Text!ToSet(t.body)

\* No token of a statement is a name with a single quote, or the statement has one.
LEMMA QuotelessIs ==
  \A tokens : Text!QuoteInName(tokens) \/ \A i \in DOMAIN tokens : Quoteless(tokens[i])
  BY DEF Text!QuoteInName, Quoteless

\* A token leaves something in a normal form.
LEMMA ProperIs ==
  ASSUME NEW t, Fits(t)
  PROVE  /\ t \in Proper(InLineNames)
         /\ Quoteless(t) => t \in Proper(PlainNames)
  <1>1. Core(t) # <<>> /\ t \in Written(InLineNames)
    BY CoreIs, FitsWritten DEF CoreFact
  <1>2. ASSUME Quoteless(t) PROVE t \in Written(PlainNames)
    <2>1. ASSUME t.kind = "name" PROVE t.body \in Seq(PlainNames)
      <3>1. t.body \in Seq(InLineNames) /\ "'" \notin Text!ToSet(t.body)
        BY <1>2, <2>1 DEF Fits, Quoteless
      <3>2. InLineNames \ {"'"} \subseteq PlainNames
        BY DEF InLineNames, PlainNames, Quotes
      <3> DEFINE A == InLineNames
                 c == "'"
      <3>3. t.body \in Seq(A) /\ c \notin Text!ToSet(t.body) /\ A \ {c} \subseteq PlainNames
        BY <3>1, <3>2
      <3> HIDE DEF A, c
      <3>4. t.body \in Seq(A \ {c})
        BY <3>3, LacksElement
      <3> QED BY <3>3, <3>4, Weaken, Zenon
    <2> QED BY <2>1, FitsWritten
  <1> QED BY <1>1, <1>2 DEF Proper

\* A statement of tokens of a kind.
LEMMA ElementsProper ==
  ASSUME NEW tokens, NEW n \in Nat, DOMAIN tokens = 1 .. n,
         tokens = [i \in DOMAIN tokens |-> tokens[i]],
         NEW K, \A i \in 1 .. n : tokens[i] \in K
  PROVE  tokens \in Seq(K)
  OBVIOUS

\* What pg_stat_statements remembers: question marks for the literals.
LEMMA RememberedCores ==
  ASSUME PartsAssumption, NEW tokens \in Shapes
  PROVE  /\ tokens # <<>> /\ Remembered(tokens) \in Seq(Proper(InLineNames))
         /\ (~Text!QuoteInName(tokens)) => Remembered(tokens) \in Seq(Proper(PlainNames))
         /\ DOMAIN Cores(Remembered(tokens)) = DOMAIN tokens
         /\ \A i \in DOMAIN tokens :
              /\ Fits(tokens[i])
              /\ Cores(Remembered(tokens))[i] =
                   IF tokens[i].kind \in Text!Literals THEN <<"?">> ELSE Core(tokens[i])
  <1> DEFINE r == Remembered(tokens)
             n == Len(tokens)
  <1>1. /\ tokens \in Seq(Text!Token) /\ tokens # <<>>
        /\ \A i \in DOMAIN tokens : i \in DOMAIN Parameter
                                    /\ Parameter[i] \in Seq(Text!Digit) \ {<<>>}
    BY DEF PartsAssumption, Text!NormalizationAssumption
  <1>2. n \in Nat /\ DOMAIN tokens = 1 .. n /\ \A i \in 1 .. n : Fits(tokens[i])
    BY <1>1, TokenFits, LenProperties, ElementOfSeq
  <1> HIDE DEF n
  <1>3. /\ InLineNames \in SUBSET Text!Character /\ PlainNames \in SUBSET Text!Character
    BY DEF InLineNames, PlainNames
  <1>4. ASSUME NEW i \in 1 .. n, tokens[i].kind \in Text!Literals, NEW N \in SUBSET Text!Character
        PROVE  r[i] \in Proper(N) /\ Core(r[i]) = <<"?">>
    <2> DEFINE k == Text!Cardinality(LiteralsUpTo(tokens, i))
    <2>1. k \in 1 .. n
      BY <1>2, <1>4, ParameterCount
    <2>2. r[i] = [kind |-> "sign", body |-> <<"$">> \o Parameter[k], gap |-> tokens[i].gap]
      BY <1>2, <1>4 DEF Remembered
    <2> HIDE DEF k, r
    <2>3. Parameter[k] \in Seq(Text!Digit) \ {<<>>} /\ tokens[i].gap \in Blank
      BY <1>1, <1>2, <2>1 DEF Fits
    <2> QED BY <2>2, <2>3, ParameterCore
  <1>5. ASSUME NEW i \in 1 .. n, tokens[i].kind \notin Text!Literals
        PROVE  r[i] = tokens[i] /\ r[i] \in Proper(InLineNames)
               /\ (Quoteless(tokens[i]) => r[i] \in Proper(PlainNames))
    <2>1. r[i] = tokens[i]
      BY <1>2, <1>5 DEF Remembered
    <2> HIDE DEF r
    <2> QED BY <1>2, <2>1, ProperIs
  <1>6. r = [i \in DOMAIN r |-> r[i]] /\ DOMAIN r = 1 .. n
    BY <1>2 DEF Remembered
  <1> HIDE DEF r
  <1>7. \A i \in 1 .. n : r[i] \in Proper(InLineNames)
    BY <1>3, <1>4, <1>5
  <1>8. r \in Seq(Proper(InLineNames))
    BY <1>2, <1>6, <1>7, ElementsProper
  <1>9. ASSUME ~Text!QuoteInName(tokens) PROVE r \in Seq(Proper(PlainNames))
    <2>1. \A i \in 1 .. n : Quoteless(tokens[i])
      BY <1>2, <1>9, QuotelessIs
    <2>2. \A i \in 1 .. n : r[i] \in Proper(PlainNames)
      BY <1>3, <1>4, <1>5, <2>1
    <2> QED BY <1>2, <1>6, <2>2, ElementsProper
  <1>10. DOMAIN Cores(r) = 1 .. n /\ \A i \in 1 .. n : Cores(r)[i] = Core(r[i])
    BY <1>3, <1>6, <1>8, CoresAre
  <1>11. \A i \in 1 .. n :
           Cores(r)[i] = IF tokens[i].kind \in Text!Literals THEN <<"?">> ELSE Core(tokens[i])
    BY <1>3, <1>4, <1>5, <1>10
  <1> QED BY <1>1, <1>2, <1>8, <1>9, <1>10, <1>11 DEF r

\* The normal form of a statement without single quotes in names.
LEMMA StatementForm ==
  ASSUME NEW tokens \in Seq(Proper(PlainNames)), NEW semi \in BOOLEAN
  PROVE  /\ Text!Text(tokens, semi) \in Text!Texts
         /\ Text!AnonymizeAndNormalize(Text!Text(tokens, semi)) = Text!Join(Cores(tokens))
  <1> DEFINE s == Text!Text(tokens, semi)
             u == HiddenText(tokens, semi)
             N == PlainNames
  <1>1. N \in SUBSET Text!Character /\ HidingLaw(InTurn, N)
    BY HidesInTurn DEF PlainNames
  <1>2. tokens \in Seq(Written(N)) /\ tokens \in Seq(Proper(N))
    <2>1. Proper(N) \subseteq Written(N)
      BY DEF Proper
    <2> QED BY <2>1, Weaken
  <1> HIDE DEF s, u, N
  <1>3. s \in Text!Texts /\ InTurn[s] = u
    BY <1>1, <1>2, StatementHidden DEF s, u
  <1>4. InTurn[s] \in Text!Texts
    BY <1>3, FormRange
  <1>5. Text!AnonymizeAndNormalize(s) = Text!Join(Normal[u])
    BY <1>3, <1>4, FormIs
  <1>6. Normal[u] = Cores(tokens)
    BY <1>1, <1>2, StatementNormal DEF u
  <1> QED BY <1>3, <1>5, <1>6 DEF s

\* HiddenCorrelates, of any statement.
LEMMA HiddenForm ==
  ASSUME NEW tokens \in Seq(Written(PlainNames)), tokens \in Seq(Written(InLineNames)),
         NEW semi \in BOOLEAN
  PROVE  Text!AnonymizeAndNormalize(Text!AnonymizeQueryText(Text!Text(tokens, semi))) =
           Text!AnonymizeAndNormalize(Text!Text(tokens, semi))
  <1> DEFINE s == Text!Text(tokens, semi)
             u == HiddenText(tokens, semi)
  <1>1. PlainNames \in SUBSET Text!Character /\ InLineNames \in SUBSET Text!Character
    BY DEF PlainNames, InLineNames
  <1>2. HidingLaw(InTurn, PlainNames) /\ HidingLaw(As(Text!re), InLineNames)
    BY HidesInTurn, HidesAtOnce DEF PlainNames, InLineNames
  <1> HIDE DEF s, u
  <1>3. s \in Text!Texts /\ u \in Seq(Still) /\ InTurn[s] = u
    BY <1>1, <1>2, StatementHidden DEF s, u
  <1>4. As(Text!re)[s] = u
    BY <1>1, <1>2, StatementHidden DEF s, u
  <1>5. Text!AnonymizeQueryText(s) = u
    BY <1>3, <1>4 DEF Text!AnonymizeQueryText, As
  <1>6. u \in Text!Texts
    BY <1>3, FormRange
  <1>7. InTurn[u] = u
    <2>1. InTurn[u \o <<>>] = u \o InTurn[<<>>] /\ InTurn[<<>>] = <<>>
      BY <1>2, <1>3, TextLists DEF HidingLaw, SkipLaw
    <2>2. u \o <<>> = u
      BY <1>6, TextLists
    <2> QED BY <2>1, <2>2
  <1>8. /\ Text!AnonymizeAndNormalize(s) = Text!Join(Normal[u])
        /\ Text!AnonymizeAndNormalize(u) = Text!Join(Normal[u])
    BY <1>3, <1>6, <1>7, FormIs
  <1> QED BY <1>5, <1>8 DEF s

-----------------------------------------------------------------------------
(* Normalization: how the executions of a statement differ *)

\* Only literals, blanks and the case of words vary.
Varies(t, u) ==
  /\ t.kind = u.kind
  /\ t.kind \in {"name", "sign"} => t.body = u.body
  /\ t.kind = "word" => Text!ToLower(t.body) = Text!ToLower(u.body)

TextInv ==
  /\ n_first \in Shapes /\ n_semicolon \in BOOLEAN
  /\ n_live \in Seq(Text!Token) /\ Len(n_live) = Len(n_first)
  /\ \A i \in DOMAIN n_live : Varies(n_live[i], n_first[i])

UpperOf(c) ==
  IF \E d \in DOMAIN Text!Lower : Text!Lower[d] = c
  THEN CHOOSE d \in DOMAIN Text!Lower : Text!Lower[d] = c ELSE c

InWord == Text!Letter \cup Text!Digit \cup {"."}

\* A character of a word, in the other case.
LEMMA CaseOf ==
  \A c \in InWord :
    /\ UpperOf(c) \in InWord /\ LowerOf(c) \in InWord
    /\ c \in Text!Letter => UpperOf(c) \in Text!Letter /\ LowerOf(c) \in Text!Letter
    /\ LowerOf(UpperOf(c)) = LowerOf(c) /\ LowerOf(LowerOf(c)) = LowerOf(c)
  <1> SUFFICES ASSUME NEW c \in InWord
               PROVE  /\ UpperOf(c) \in InWord /\ LowerOf(c) \in InWord
                      /\ c \in Text!Letter => UpperOf(c) \in Text!Letter /\ LowerOf(c) \in Text!Letter
                      /\ LowerOf(UpperOf(c)) = LowerOf(c) /\ LowerOf(LowerOf(c)) = LowerOf(c)
    BY Zenon
  <1>1. /\ DOMAIN Text!Lower = {"A", "B"} /\ Text!Lower["A"] = "a" /\ Text!Lower["B"] = "b"
        /\ Text!Letter = {"A", "B", "a", "b"}
    BY DEF Text!Lower, Text!Letter
  <1>2. /\ LowerOf("A") = "a" /\ LowerOf("B") = "b"
        /\ \A d : d \notin {"A", "B"} => LowerOf(d) = d
    BY <1>1 DEF LowerOf
  <1>3. CASE c \in {"a", "b"}
    <2> DEFINE up == CHOOSE d \in DOMAIN Text!Lower : Text!Lower[d] = c
    <2>1. \E d \in DOMAIN Text!Lower : Text!Lower[d] = c
      BY <1>1, <1>3
    <2>2. up \in DOMAIN Text!Lower /\ Text!Lower[up] = c
      BY <2>1
    <2>3. UpperOf(c) = up
      BY <2>1 DEF UpperOf
    <2> HIDE DEF up
    <2>4. LowerOf(up) = c /\ up \in {"A", "B"}
      BY <1>1, <1>2, <2>2
    <2> QED BY <1>1, <1>2, <1>3, <2>3, <2>4 DEF InWord
  <1>4. CASE c \notin {"a", "b"}
    <2>1. ~\E d \in DOMAIN Text!Lower : Text!Lower[d] = c
      BY <1>1, <1>4
    <2>2. UpperOf(c) = c
      BY <2>1 DEF UpperOf
    <2> QED BY <1>1, <1>2, <2>2 DEF InWord
  <1> QED BY <1>3, <1>4

\* A word in capitals or in small letters is a word with the same small letters.
LEMMA CaseWord ==
  ASSUME NEW s \in Text!Word, NEW v, v \in {Text!Upper(s), Text!ToLower(s)}
  PROVE  v \in Text!Word /\ Text!ToLower(v) = Text!ToLower(s)
  <1>1. /\ Text!Upper(s) = [i \in DOMAIN s |-> UpperOf(s[i])]
        /\ Text!ToLower(s) = [i \in DOMAIN s |-> LowerOf(s[i])]
        /\ Text!ToLower(v) = [i \in DOMAIN v |-> LowerOf(v[i])]
    BY DEF Text!Upper, Text!ToLower, UpperOf, LowerOf
  <1>2. s \in Seq(InWord) /\ s # <<>> /\ s[1] \in Text!Letter
    BY DEF Text!Word, InWord
  <1>3. /\ Len(s) \in Nat \ {0} /\ DOMAIN s = 1 .. Len(s)
        /\ \A i \in 1 .. Len(s) : s[i] \in InWord
    BY <1>2, LenProperties, ElementOfSeq, EmptySeq
  <1>4. /\ DOMAIN v = DOMAIN s /\ v = [i \in DOMAIN s |-> v[i]]
        /\ \A i \in DOMAIN s : v[i] \in {UpperOf(s[i]), LowerOf(s[i])}
    BY <1>1
  <1>5. \A i \in DOMAIN s : v[i] \in InWord /\ LowerOf(v[i]) = LowerOf(s[i])
    BY <1>3, <1>4, CaseOf
  <1>6. v[1] \in Text!Letter
    BY <1>2, <1>3, <1>4, CaseOf
  <1>7. v \in Seq(InWord) /\ v # <<>>
    <2> DEFINE n == Len(s)
    <2>1. n \in Nat /\ DOMAIN v = 1 .. n /\ v = [i \in DOMAIN v |-> v[i]]
          /\ \A i \in 1 .. n : v[i] \in InWord
      BY <1>3, <1>4, <1>5
    <2>2. 1 \in DOMAIN v /\ 1 \notin DOMAIN <<>>
      BY <1>3, <1>4
    <2> HIDE DEF n
    <2>3. v \in Seq(InWord)
      BY <2>1, ElementsProper
    <2> QED BY <2>2, <2>3
  <1>8. v \in Text!Word
    BY <1>6, <1>7 DEF Text!Word, InWord
  <1>9. Text!ToLower(v) = Text!ToLower(s)
    BY <1>1, <1>4, <1>5
  <1> QED BY <1>8, <1>9

\* The invariant holds of the first execution.
LEMMA TextInit ==
  ASSUME PartsAssumption, Text!Init PROVE TextInv
  <1>1. n_first \in Seq(Text!Token) /\ n_live = n_first /\ n_first \in Shapes /\ n_semicolon = FALSE
    BY DEF PartsAssumption, Text!NormalizationAssumption, Text!Init
  <1> QED BY <1>1 DEF TextInv, Varies

\* A token with another literal, other blanks or in another case.
LEMMA TokenVaries ==
  ASSUME PartsAssumption, NEW t \in Text!Token
  PROVE  /\ t.kind = "number" => \A b \in Numbers :
              [t EXCEPT !.body = b] \in Text!Token /\ Varies([t EXCEPT !.body = b], t)
         /\ t.kind = "string" => \A b \in Strings :
              [t EXCEPT !.body = b] \in Text!Token /\ Varies([t EXCEPT !.body = b], t)
         /\ t.kind = "word" => \A b \in {Text!Upper(t.body), Text!ToLower(t.body)} :
              [t EXCEPT !.body = b] \in Text!Token /\ Varies([t EXCEPT !.body = b], t)
         /\ \A g \in Gaps :
              [t EXCEPT !.gap = g] \in Text!Token /\ Varies([t EXCEPT !.gap = g], t)
  <1>1. Numbers \subseteq Text!Number /\ Strings \subseteq Text!Texts
    BY DEF PartsAssumption, Text!NormalizationAssumption
  <1>2. \A b : t.kind \in {"number", "string"} => Varies([t EXCEPT !.body = b], t)
    BY DEF Text!Token, Varies
  <1>3. ASSUME t.kind = "number", NEW b \in Numbers PROVE [t EXCEPT !.body = b] \in Text!Token
    BY <1>1, <1>3 DEF Text!Token
  <1>4. ASSUME t.kind = "string", NEW b \in Strings PROVE [t EXCEPT !.body = b] \in Text!Token
    BY <1>1, <1>4 DEF Text!Token
  <1>5. ASSUME t.kind = "word", NEW b \in {Text!Upper(t.body), Text!ToLower(t.body)}
        PROVE  [t EXCEPT !.body = b] \in Text!Token /\ Varies([t EXCEPT !.body = b], t)
    <2>1. t.body \in Text!Word
      BY <1>5 DEF Text!Token
    <2>2. b \in Text!Word /\ Text!ToLower(b) = Text!ToLower(t.body)
      BY <1>5, <2>1, CaseWord
    <2> HIDE DEF PartsAssumption
    <2>3. [t EXCEPT !.body = b] \in Text!Token
      BY <1>5, <2>2 DEF Text!Token
    <2>4. [t EXCEPT !.body = b].kind = t.kind /\ [t EXCEPT !.body = b].body = b
      BY DEF Text!Token
    <2> QED BY <1>5, <2>2, <2>3, <2>4 DEF Varies
  <1>6. ASSUME NEW g \in Gaps
        PROVE  [t EXCEPT !.gap = g] \in Text!Token /\ Varies([t EXCEPT !.gap = g], t)
    <2>1. [t EXCEPT !.gap = g] \in Text!Token
      BY DEF Text!Token
    <2>2. [t EXCEPT !.gap = g].kind = t.kind /\ [t EXCEPT !.gap = g].body = t.body
      BY DEF Text!Token
    <2> QED BY <2>1, <2>2 DEF Varies
  <1> QED BY <1>2, <1>3, <1>4, <1>5, <1>6

\* The invariant is kept from one execution to the next.
LEMMA TextNext ==
  ASSUME PartsAssumption, TextInv, [Text!Next]_(Text!vars)
  PROVE  TextInv'
  <1>1. ASSUME NEW i \in DOMAIN n_live, NEW token \in Text!Token, Varies(token, n_live[i]),
               Text!Becomes(i, token)
        PROVE  TextInv'
    <2>1. /\ n_live' = [n_live EXCEPT ![i] = token]
          /\ n_first' = n_first /\ n_semicolon' = n_semicolon
      BY <1>1 DEF Text!Becomes
    <2>2. n_live \in Seq(Text!Token) /\ DOMAIN n_live = 1 .. Len(n_live) /\ Len(n_live) \in Nat
      BY DEF TextInv
    <2>3. n_live' \in Seq(Text!Token) /\ Len(n_live') = Len(n_live)
          /\ DOMAIN n_live' = DOMAIN n_live
      BY <2>1, <2>2
    <2>4. \A k \in DOMAIN n_live : Varies(n_live'[k], n_first[k])
      <3> SUFFICES ASSUME NEW k \in DOMAIN n_live PROVE Varies(n_live'[k], n_first[k])
        OBVIOUS
      <3>1. CASE k = i
        <4>1. Varies(n_live[i], n_first[i])
          BY DEF TextInv
        <4>2. Varies(token, n_first[i])
          BY <1>1, <4>1 DEF Varies
        <4> QED BY <2>1, <3>1, <4>2
      <3>2. CASE k # i
        BY <2>1, <3>2 DEF TextInv
      <3> QED BY <3>1, <3>2
    <2> QED BY <2>1, <2>3, <2>4 DEF TextInv
  <1>2. \A i \in DOMAIN n_live : n_live[i] \in Text!Token
    BY DEF TextInv
  <1>3. ASSUME NEW i \in DOMAIN n_live, Text!OtherNumber(i) PROVE TextInv'
    <2>1. PICK b \in Numbers : Text!Becomes(i, [n_live[i] EXCEPT !.body = b])
      BY <1>3 DEF Text!OtherNumber
    <2>2. n_live[i].kind = "number"
      BY <1>3 DEF Text!OtherNumber
    <2> QED BY <1>1, <1>2, <2>1, <2>2, TokenVaries
  <1>4. ASSUME NEW i \in DOMAIN n_live, Text!OtherString(i) PROVE TextInv'
    <2>1. PICK b \in Strings : Text!Becomes(i, [n_live[i] EXCEPT !.body = b])
      BY <1>4 DEF Text!OtherString
    <2>2. n_live[i].kind = "string"
      BY <1>4 DEF Text!OtherString
    <2> QED BY <1>1, <1>2, <2>1, <2>2, TokenVaries
  <1>5. ASSUME NEW i \in DOMAIN n_live, Text!OtherBlanks(i) PROVE TextInv'
    <2>1. PICK g \in Gaps : Text!Becomes(i, [n_live[i] EXCEPT !.gap = g])
      BY <1>5 DEF Text!OtherBlanks
    <2> QED BY <1>1, <1>2, <2>1, TokenVaries
  <1>6. ASSUME NEW i \in DOMAIN n_live, Text!OtherCase(i) PROVE TextInv'
    <2>1. PICK b \in {Text!Upper(n_live[i].body), Text!ToLower(n_live[i].body)} :
            Text!Becomes(i, [n_live[i] EXCEPT !.body = b])
      BY <1>6 DEF Text!OtherCase
    <2>2. n_live[i].kind = "word"
      BY <1>6 DEF Text!OtherCase
    <2> QED BY <1>1, <1>2, <2>1, <2>2, TokenVaries
  <1>7. CASE Text!Semicolon
    BY <1>7 DEF Text!Semicolon, TextInv
  <1>8. CASE UNCHANGED Text!vars
    BY <1>8 DEF Text!vars, TextInv
  <1> QED BY <1>3, <1>4, <1>5, <1>6, <1>7, <1>8 DEF Text!Next

-----------------------------------------------------------------------------
(* Normalization: the texts are sound *)

\* Statements that leave the same of each token leave the same lists.
LEMMA CoresSame ==
  ASSUME NEW x, NEW y, DOMAIN x = DOMAIN y, \A i \in DOMAIN x : Core(x[i]) = Core(y[i])
  PROVE  Cores(x) = Cores(y)
  BY DEF Cores

\* The running statement.
LEMMA LiveIs ==
  ASSUME PartsAssumption, TextInv
  PROVE  /\ n_live # <<>> /\ n_live \in Seq(Written(InLineNames))
         /\ (~Text!QuoteInName(n_live)) =>
              /\ n_live \in Seq(Proper(PlainNames)) /\ n_live \in Seq(Written(PlainNames))
              /\ ~Text!QuoteInName(n_first)
         /\ DOMAIN n_live = DOMAIN n_first
         /\ \A i \in DOMAIN n_live : Fits(n_live[i]) /\ Fits(n_first[i])
                                     /\ Varies(n_live[i], n_first[i])
         /\ \A i \in DOMAIN n_live : Cores(n_live)[i] = Core(n_live[i])
  <1> DEFINE n == Len(n_live)
  <1>1. /\ n_first \in Shapes /\ n_live \in Seq(Text!Token) /\ n = Len(n_first)
        /\ \A i \in DOMAIN n_live : Varies(n_live[i], n_first[i])
    BY DEF TextInv
  <1>2. n_first \in Seq(Text!Token) /\ n_first # <<>>
    BY <1>1 DEF PartsAssumption, Text!NormalizationAssumption
  <1>3. /\ n \in Nat /\ n # 0 /\ DOMAIN n_live = 1 .. n /\ DOMAIN n_first = 1 .. n
        /\ \A i \in 1 .. n : n_live[i] \in Text!Token /\ n_first[i] \in Text!Token
    BY <1>1, <1>2, LenProperties, ElementOfSeq, EmptySeq
  <1>4. \A i \in 1 .. n : Fits(n_live[i]) /\ Fits(n_first[i])
    BY <1>3, TokenFits
  <1>5. n_live # <<>> /\ n_live = [i \in DOMAIN n_live |-> n_live[i]]
    <2>1. n_live # <<>>
      <3>1. 1 \in DOMAIN n_live /\ 1 \notin DOMAIN <<>>
        BY <1>3
      <3> QED BY <3>1
    <2> QED BY <1>1, <2>1
  <1> HIDE DEF n
  <1>6. \A N : Proper(N) \subseteq Written(N)
    BY DEF Proper
  <1>7. n_live \in Seq(Written(InLineNames))
    <2>1. \A i \in 1 .. n : n_live[i] \in Proper(InLineNames)
      BY <1>4, ProperIs
    <2>2. n_live \in Seq(Proper(InLineNames))
      BY <1>3, <1>5, <2>1, ElementsProper
    <2> QED BY <1>6, <2>2, Weaken, Zenon
  <1>8. ASSUME ~Text!QuoteInName(n_live)
        PROVE  /\ n_live \in Seq(Proper(PlainNames)) /\ n_live \in Seq(Written(PlainNames))
               /\ ~Text!QuoteInName(n_first)
    <2>1. \A i \in 1 .. n : Quoteless(n_live[i])
      BY <1>3, <1>8, QuotelessIs
    <2>2. \A i \in 1 .. n : n_live[i] \in Proper(PlainNames)
      BY <1>4, <2>1, ProperIs
    <2>3. n_live \in Seq(Proper(PlainNames))
      BY <1>3, <1>5, <2>2, ElementsProper
    <2>4. n_live \in Seq(Written(PlainNames))
      BY <1>6, <2>3, Weaken, Zenon
    <2>5. \A i \in 1 .. n : Quoteless(n_first[i])
      BY <1>1, <1>3, <2>1 DEF Quoteless, Varies
    <2>6. ~Text!QuoteInName(n_first)
      BY <1>3, <2>5 DEF Text!QuoteInName, Quoteless
    <2> QED BY <2>3, <2>4, <2>6
  <1>9. \A i \in DOMAIN n_live : Cores(n_live)[i] = Core(n_live[i])
    BY DEF Cores
  <1> QED BY <1>1, <1>3, <1>4, <1>5, <1>7, <1>8, <1>9

\* The normal forms of the running and of the remembered statement are equal.
LEMMA CorrelatesHolds ==
  ASSUME PartsAssumption, TextInv PROVE Text!Correlates
  <1> SUFFICES ASSUME Text!PlainLiterals(n_live), ~Text!QuoteInName(n_live)
               PROVE  Text!AnonymizeAndNormalize(Text!LiveText) =
                        Text!AnonymizeAndNormalize(Text!pg_stat_statements(n_first))
    BY DEF Text!Correlates
  <1> DEFINE r == Remembered(n_first)
  <1>1. /\ n_live \in Seq(Proper(PlainNames)) /\ ~Text!QuoteInName(n_first)
        /\ DOMAIN n_live = DOMAIN n_first /\ n_semicolon \in BOOLEAN /\ n_first \in Shapes
        /\ \A i \in DOMAIN n_live :
             /\ Fits(n_live[i]) /\ Fits(n_first[i]) /\ Varies(n_live[i], n_first[i])
             /\ Cores(n_live)[i] = Core(n_live[i])
    BY LiveIs DEF TextInv
  <1>2. /\ r \in Seq(Proper(PlainNames)) /\ DOMAIN Cores(r) = DOMAIN n_first
        /\ \A i \in DOMAIN n_first :
             Cores(r)[i] = IF n_first[i].kind \in Text!Literals THEN <<"?">> ELSE Core(n_first[i])
    BY <1>1, RememberedCores
  <1>3. ASSUME NEW i \in DOMAIN n_live PROVE Cores(r)[i] = Core(n_live[i])
    <2> DEFINE t == n_live[i]
               u == n_first[i]
    <2>1. /\ Fits(t) /\ Fits(u) /\ Varies(t, u) /\ CoreFact(t) /\ CoreFact(u)
          /\ Cores(r)[i] = IF u.kind \in Text!Literals THEN <<"?">> ELSE Core(u)
      BY <1>1, <1>2, CoreIs
    <2>2. /\ t.kind = "number" => "." \notin Text!ToSet(t.body)
          /\ t.kind = "string" => "'" \notin Text!ToSet(t.body)
      BY DEF Text!PlainLiterals
    <2> HIDE DEF t, u, r
    <2>3. CASE t.kind \in {"number", "string"}
      <3>1. u.kind \in Text!Literals
        BY <2>1, <2>3 DEF Varies, Text!Literals
      <3>2. Core(t) = <<"?">>
        BY <2>1, <2>2, <2>3 DEF CoreFact
      <3> QED BY <2>1, <3>1, <3>2 DEF t
    <2>4. CASE t.kind = "name"
      <3>1. u.kind = "name" /\ u.kind \notin Text!Literals
        BY <2>1, <2>4 DEF Varies, Text!Literals
      <3>2. Core(t) = <<"?">> /\ Core(u) = <<"?">>
        BY <2>1, <2>4, <3>1 DEF CoreFact
      <3> QED BY <2>1, <3>1, <3>2 DEF t
    <2>5. CASE t.kind \in {"word", "sign"}
      <3>1. u.kind = t.kind /\ u.kind \notin Text!Literals
        BY <2>1, <2>5 DEF Varies, Text!Literals
      <3>2. Core(t) = Text!ToLower(RD[t.body]) /\ Core(u) = Text!ToLower(RD[u.body])
        BY <2>1, <2>5, <3>1 DEF CoreFact
      <3>3. Text!ToLower(RD[t.body]) = Text!ToLower(RD[u.body])
        <4>1. CASE t.kind = "sign"
          BY <2>1, <4>1 DEF Varies
        <4>2. CASE t.kind = "word"
          <5>1. t.body \in Text!Word /\ u.body \in Text!Word
            BY <2>1, <3>1, <4>2 DEF Fits
          <5>2. t.body \in Text!Texts /\ u.body \in Text!Texts
            BY <5>1, Bodies, Kinds, Weaken, TextLists
          <5>3. Text!ToLower(t.body) = Text!ToLower(u.body)
            BY <2>1, <4>2 DEF Varies
          <5> QED BY <5>2, <5>3, LowerRuns
        <4> QED BY <2>5, <4>1, <4>2
      <3> QED BY <2>1, <3>1, <3>2, <3>3 DEF t
    <2> QED BY <2>1, <2>3, <2>4, <2>5 DEF Fits
  <1> HIDE DEF r
  <1>4. Cores(r) = Cores(n_live)
    <2>1. DOMAIN r = DOMAIN n_live
      BY <1>1, <1>2 DEF Cores
    <2>2. \A i \in DOMAIN r : Core(r[i]) = Core(n_live[i])
      BY <1>3, <2>1 DEF Cores
    <2> QED BY <2>1, <2>2, CoresSame
  <1>5. Text!AnonymizeAndNormalize(Text!LiveText) = Text!Join(Cores(n_live))
    BY <1>1, StatementForm DEF Text!LiveText
  <1>6. Text!AnonymizeAndNormalize(Text!pg_stat_statements(n_first)) = Text!Join(Cores(r))
    BY <1>2, StatementForm, RememberedText DEF r
  <1> QED BY <1>4, <1>5, <1>6

\* Equal normal forms are of statements with the same cores.
LEMMA BlurredHolds ==
  ASSUME PartsAssumption, TextInv PROVE Text!BlurredOnly
  <1> SUFFICES ASSUME ~Text!QuoteInName(n_live), NEW slow \in Shapes, ~Text!QuoteInName(slow),
                      Text!AnonymizeAndNormalize(Text!pg_stat_statements(slow)) =
                        Text!AnonymizeAndNormalize(Text!LiveText)
               PROVE  Text!Blurred(slow) = Text!Blurred(n_live)
    BY DEF Text!BlurredOnly
  <1> DEFINE r == Remembered(slow)
             K == Seq(Solid) \ {<<>>}
  <1>1. /\ n_live \in Seq(Proper(PlainNames)) /\ n_live # <<>> /\ n_semicolon \in BOOLEAN
        /\ \A i \in DOMAIN n_live : Fits(n_live[i]) /\ Cores(n_live)[i] = Core(n_live[i])
    BY LiveIs DEF TextInv
  <1>2. /\ r \in Seq(Proper(PlainNames)) /\ DOMAIN Cores(r) = DOMAIN slow /\ slow # <<>>
        /\ slow \in Seq(Text!Token)
        /\ \A i \in DOMAIN slow :
             /\ Fits(slow[i])
             /\ Cores(r)[i] = IF slow[i].kind \in Text!Literals THEN <<"?">> ELSE Core(slow[i])
    BY RememberedCores DEF PartsAssumption, Text!NormalizationAssumption
  <1> HIDE DEF r, PartsAssumption, TextInv
  <1>3. PlainNames \in SUBSET Text!Character
    BY DEF PlainNames
  <1>4. /\ Cores(n_live) \in Seq(K) /\ DOMAIN Cores(n_live) = DOMAIN n_live
        /\ Cores(r) \in Seq(K)
    BY <1>1, <1>2, <1>3, CoresAre
  <1>5. Cores(n_live) # <<>> /\ Cores(r) # <<>>
    <2>1. \A S : \A x \in Seq(S) : x # <<>> => 1 \in DOMAIN x
      BY EmptySeq, LenProperties
    <2>2. 1 \in DOMAIN n_live /\ 1 \in DOMAIN slow
      BY <1>1, <1>2, <2>1
    <2>3. 1 \notin DOMAIN <<>>
      OBVIOUS
    <2> QED BY <1>2, <1>4, <2>2, <2>3
  <1>6. Cores(r) = Cores(n_live)
    <2>1. Text!AnonymizeAndNormalize(Text!LiveText) = Text!Join(Cores(n_live))
      BY <1>1, StatementForm DEF Text!LiveText
    <2>2. Text!AnonymizeAndNormalize(Text!pg_stat_statements(slow)) = Text!Join(Cores(r))
      BY <1>2, StatementForm, RememberedText DEF r
    <2> QED BY <1>4, <1>5, <2>1, <2>2, JoinsApart
  <1>7. DOMAIN slow = DOMAIN n_live
    BY <1>2, <1>4, <1>6
  <1> DEFINE Blur(t) == IF t.kind \in {"word", "sign"}
                        THEN Text!ToLower(Text!ReplaceAllString(Text!Digits, t.body)) ELSE <<"?">>
  <1>8. ASSUME NEW i \in DOMAIN n_live PROVE Blur(slow[i]) = Blur(n_live[i])
    <2> DEFINE t == n_live[i]
               u == slow[i]
    <2>1. /\ Fits(t) /\ Fits(u) /\ CoreFact(t) /\ CoreFact(u)
          /\ Core(t) = IF u.kind \in Text!Literals THEN <<"?">> ELSE Core(u)
      BY <1>1, <1>2, <1>6, <1>7, CoreIs
    <2>2. ASSUME NEW v, Fits(v), CoreFact(v), v.kind \in {"word", "sign"}
          PROVE  Blur(v) = Core(v) /\ Core(v)[1] # "?"
      <3>1. v.body \in Text!Texts
        BY <2>2, Bodies, Kinds, Weaken, TextLists DEF Fits
      <3>2. RD[v.body] = Text!ReplaceAllString(Text!Digits, v.body)
        BY <3>1 DEF RD, As
      <3> QED BY <2>2, <3>2 DEF CoreFact
    <2> HIDE DEF t, u
    <2>3. <<"?">>[1] = "?"
      OBVIOUS
    <2>4. CASE u.kind \in {"word", "sign"}
      <3>1. Core(t) = Core(u) /\ Core(u)[1] # "?" /\ Blur(u) = Core(u)
        BY <2>1, <2>2, <2>4 DEF Text!Literals
      <3>2. t.kind \in {"word", "sign"}
        BY <2>1, <3>1 DEF CoreFact
      <3>3. Blur(t) = Core(t)
        BY <2>1, <2>2, <3>2
      <3> QED BY <3>1, <3>3 DEF t, u
    <2>5. CASE u.kind \notin {"word", "sign"}
      <3>1. Core(t)[1] = "?"
        BY <2>1, <2>3, <2>5 DEF CoreFact
      <3>2. t.kind \notin {"word", "sign"}
        BY <2>1, <3>1 DEF CoreFact
      <3>3. Blur(u) = <<"?">> /\ Blur(t) = <<"?">>
        BY <2>5, <3>2
      <3> HIDE DEF Blur
      <3> QED BY <3>3 DEF t, u
    <2> QED BY <2>4, <2>5
  <1>9. \A tokens : Text!Blurred(tokens) = [i \in DOMAIN tokens |-> Blur(tokens[i])]
    BY DEF Text!Blurred
  <1> HIDE DEF Blur
  <1> QED BY <1>7, <1>8, <1>9

\* What TextsAreSound asks follows from the invariant.
LEMMA TextsHold ==
  ASSUME PartsAssumption, TextInv PROVE Text!TextsAreSound
  <1>1. /\ n_live \in Seq(Written(InLineNames)) /\ n_semicolon \in BOOLEAN /\ n_first \in Shapes
        /\ ~Text!QuoteInName(n_live) => n_live \in Seq(Written(PlainNames))
    BY LiveIs DEF TextInv
  <1>2. InLineNames \in SUBSET Text!Character /\ HidingLaw(As(Text!re), InLineNames)
    BY HidesAtOnce DEF InLineNames
  <1>3. /\ Text!LiveText \in Text!Texts
        /\ As(Text!re)[Text!LiveText] = HiddenText(n_live, n_semicolon)
    BY <1>1, <1>2, StatementHidden DEF Text!LiveText
  <1>4. Text!LiteralsAreHidden
    <2>1. Text!AnonymizeQueryText(Text!LiveText) = HiddenText(n_live, n_semicolon)
      BY <1>3 DEF As, Text!AnonymizeQueryText
    <2> QED BY <2>1 DEF Text!LiteralsAreHidden, HiddenText, LeftOf
  <1>5. Text!HiddenCorrelates
    BY <1>1, HiddenForm DEF Text!HiddenCorrelates, Text!LiveText
  <1>6. Text!FormsAreBlind
    <2>1. Remembered(n_first) \in Seq(Written(InLineNames))
      <3>1. Proper(InLineNames) \subseteq Written(InLineNames)
        BY DEF Proper
      <3> QED BY <1>1, <3>1, RememberedCores, Weaken
    <2>2. Text!pg_stat_statements(n_first) \in Text!Texts
      BY <1>2, <2>1, StatementHidden, RememberedText
    <2> QED BY <1>3, <2>2, FormBlind DEF Text!FormsAreBlind
  <1> QED BY <1>4, <1>5, <1>6, CorrelatesHolds, BlurredHolds DEF Text!TextsAreSound

\* The invariant includes the types.
LEMMA TextType == ASSUME TextInv PROVE Text!TypeOK
  BY DEF TextInv, Text!TypeOK, Varies

-----------------------------------------------------------------------------
(* Connection *)

\* What getExtensions makes of the first n rows.
Extended(f, rows, n) ==
  f = [k \in 0 .. n |-> IF k = 0 THEN <<>> ELSE Conn!AddExtension(f[k - 1], rows[k])]

LEMMA ExtendedExists ==
  ASSUME NEW rows, NEW m \in Nat
  PROVE  \E f : Extended(f, rows, m)
  <1> DEFINE T == {n \in Nat : \E f : Extended(f, rows, n)}
             Add(list, row) == Conn!AddExtension(list, row)
  <1> HIDE DEF Add
  <1>0. \A f, n : Extended(f, rows, n)
                  <=> f = [k \in 0 .. n |-> IF k = 0 THEN <<>> ELSE Add(f[k - 1], rows[k])]
    BY DEF Extended, Add
  <1>1. 0 \in T
    <2>1. Extended([k \in 0 .. 0 |-> <<>>], rows, 0)
      BY DEF Extended
    <2> QED BY <2>1
  <1>2. ASSUME NEW n \in Nat, n \in T PROVE n + 1 \in T
    <2>1. PICK f : Extended(f, rows, n)
      BY <1>2
    <2> DEFINE g == [k \in 0 .. n + 1 |-> IF k = n + 1 THEN Add(f[n], rows[k]) ELSE f[k]]
    <2>2. /\ g[n + 1] = Add(g[n], rows[n + 1])
          /\ \A k \in 0 .. n : g[k] = f[k]
      OBVIOUS
    <2>3. ASSUME NEW k \in 0 .. n + 1
          PROVE  g[k] = IF k = 0 THEN <<>> ELSE Add(g[k - 1], rows[k])
      <3>1. CASE k = n + 1
        BY <2>2, <3>1
      <3>2. CASE k = 0
        BY <1>0, <2>1, <2>2, <3>2
      <3>3. CASE k # n + 1 /\ k # 0
        <4>1. k \in 0 .. n /\ k - 1 \in 0 .. n
          BY <3>3
        <4>2. f[k] = Add(f[k - 1], rows[k])
          BY <1>0, <2>1, <3>3, <4>1
        <4> QED BY <2>2, <3>3, <4>1, <4>2
      <3> QED BY <3>1, <3>2, <3>3
    <2>4. Extended(g, rows, n + 1)
      <3>1. g = [k \in 0 .. n + 1 |-> g[k]]
        OBVIOUS
      <3> HIDE DEF g
      <3> QED BY <2>3, <3>1 DEF Extended, Add
    <2>5. \E h : Extended(h, rows, n + 1)
      <3> HIDE DEF g
      <3> QED BY <2>4
    <2> HIDE DEF g
    <2> QED BY <2>5
  <1>3. Nat \subseteq T
    <2> HIDE DEF T
    <2> QED BY <1>1, <1>2, SetInduction
  <1> QED BY <1>3

\* An entry for each extension named in a row, with the schemas of its rows.
LEMMA ExtensionsFound ==
  ASSUME NEW rows \in Seq(STRING \X STRING)
  PROVE  /\ DOMAIN Conn!getExtensions(rows) = {row[1] : row \in ToSet(rows)}
         /\ \A e \in DOMAIN Conn!getExtensions(rows) :
              Conn!getExtensions(rows)[e]
                = {row[2] : row \in {r \in ToSet(rows) : r[1] = e /\ r[2] # ""}}
  <1> DEFINE l == Len(rows)
             First(n) == {rows[i] : i \in 1 .. n}
             Schemas(e, n) == {row[2] : row \in {r \in First(n) : r[1] = e /\ r[2] # ""}}
  <1>1. l \in Nat /\ DOMAIN rows = 1 .. l
    BY LenProperties
  <1>2. ToSet(rows) = First(l)
    BY <1>1 DEF ToSet
  <1> DEFINE f == CHOOSE h : Extended(h, rows, l)
  <1>3. Extended(f, rows, l)
    BY <1>1, ExtendedExists
  <1>4. Conn!getExtensions(rows) = f[l]
    BY Zenon DEF Conn!getExtensions, Extended
  <1> HIDE DEF f
  <1> DEFINE Right(n) == /\ DOMAIN f[n] = {row[1] : row \in First(n)}
                         /\ \A e \in DOMAIN f[n] : f[n][e] = Schemas(e, n)
             T == {n \in Nat : n <= l => Right(n)}
  <1> HIDE DEF l
  <1>5. 0 \in T
    <2>1. f[0] = <<>> /\ First(0) = {}
      BY <1>1, <1>3 DEF Extended
    <2>2. DOMAIN f[0] = {}
      BY <2>1
    <2>3. Right(0)
      BY <2>1, <2>2
    <2> HIDE DEF Right
    <2> QED BY <2>3
  <1>6. ASSUME NEW n \in Nat, n \in T, n + 1 <= l PROVE Right(n + 1)
    <2>0. n + 1 \in 0 .. l /\ n + 1 # 0 /\ (n + 1) - 1 = n /\ n <= l
      <3> HIDE DEF T
      <3> QED BY <1>1, <1>6
    <2>1. Right(n)
      <3> HIDE DEF Right
      <3> QED BY <1>6, <2>0
    <2>2. f[n + 1] = Conn!AddExtension(f[n], rows[n + 1])
      BY <1>3, <2>0 DEF Extended
    <2>3. First(n + 1) = First(n) \cup {rows[n + 1]}
      <3>1. 1 .. n + 1 = (1 .. n) \cup {n + 1}
        OBVIOUS
      <3> QED BY <3>1
    <2> DEFINE row == rows[n + 1]
    <2>4. /\ DOMAIN f[n + 1] = DOMAIN f[n] \cup {row[1]}
          /\ \A e \in DOMAIN f[n + 1] :
               f[n + 1][e] = (IF e \in DOMAIN f[n] THEN f[n][e] ELSE {})
                              \cup IF e = row[1] /\ row[2] # "" THEN {row[2]} ELSE {}
      BY <2>2 DEF Conn!AddExtension
    <2> HIDE DEF First, row
    <2>5. First(n + 1) = First(n) \cup {row}
      BY <2>3 DEF row
    <2>6. DOMAIN f[n + 1] = {r[1] : r \in First(n + 1)}
      <3>1. DOMAIN f[n] = {r[1] : r \in First(n)}
        BY <2>1
      <3>2. DOMAIN f[n + 1] = DOMAIN f[n] \cup {row[1]}
        BY <2>4
      <3> QED BY <2>5, <3>1, <3>2
    <2>7. ASSUME NEW e PROVE e \notin DOMAIN f[n] => Schemas(e, n) = {}
      BY <2>1
    <2>8. ASSUME NEW e
          PROVE  Schemas(e, n + 1) =
                   Schemas(e, n) \cup IF e = row[1] /\ row[2] # "" THEN {row[2]} ELSE {}
      BY <2>5
    <2>9. ASSUME NEW e \in DOMAIN f[n + 1] PROVE f[n + 1][e] = Schemas(e, n + 1)
      <3>1. (IF e \in DOMAIN f[n] THEN f[n][e] ELSE {}) = Schemas(e, n)
        BY <2>1, <2>7
      <3> HIDE DEF Schemas
      <3> QED BY <2>4, <2>8, <2>9, <3>1
    <2> HIDE DEF Schemas
    <2> QED BY <2>6, <2>9
  <1>7. Nat \subseteq T
    <2>1. \A n \in Nat : n \in T => n + 1 \in T
      <3> HIDE DEF Right
      <3> QED BY <1>6, <1>1
    <2> HIDE DEF T
    <2> QED BY <1>5, <2>1, SetInduction
  <1>8. Right(l)
    <2> HIDE DEF Right
    <2> QED BY <1>1, <1>7
  <1> QED BY <1>2, <1>4, <1>8

\* A row is a pair.
LEMMA PairIsPair ==
  ASSUME NEW S, NEW rows \in Seq(S \X S), NEW row \in ToSet(rows)
  PROVE  row = <<row[1], row[2]>>
  <1>1. DOMAIN rows = 1 .. Len(rows) /\ \A i \in 1 .. Len(rows) : rows[i] \in S \X S
    BY LenProperties
  <1>2. PICK i \in DOMAIN rows : row = rows[i]
    BY DEF ToSet
  <1>3. row \in S \X S
    BY <1>1, <1>2
  <1> QED BY <1>3

\* HaveExtensionInSchema finds a pair if and only if there is a row with it.
LEMMA ExtensionFound ==
  ASSUME NEW rows \in Seq(STRING \X STRING), NEW extension, NEW schema, schema # ""
  PROVE  Conn!HaveExtensionInSchema(rows, extension, schema)
           <=> <<extension, schema>> \in ToSet(rows)
  <1> DEFINE list == Conn!getExtensions(rows)
             all == ToSet(rows)
             Schemas(e) == {row[2] : row \in {r \in all : r[1] = e /\ r[2] # ""}}
  <1>1. /\ DOMAIN list = {row[1] : row \in all}
        /\ \A e \in DOMAIN list : list[e] = Schemas(e)
    BY ExtensionsFound
  <1>2. \A row \in all : row = <<row[1], row[2]>>
    BY PairIsPair
  <1>3. Conn!HaveExtensionInSchema(rows, extension, schema)
          <=> extension \in DOMAIN list /\ schema \in list[extension]
    BY DEF Conn!HaveExtensionInSchema
  <1> HIDE DEF list, all
  <1>4. schema \in Schemas(extension)
          <=> \E row \in all : row[1] = extension /\ row[2] = schema
    OBVIOUS
  <1>5. extension \in DOMAIN list <=> \E row \in all : row[1] = extension
    BY <1>1
  <1>6. (\E row \in all : row[1] = extension /\ row[2] = schema)
          <=> <<extension, schema>> \in all
    <2>1. ASSUME <<extension, schema>> \in all
          PROVE  \E row \in all : row[1] = extension /\ row[2] = schema
      <3>1. /\ <<extension, schema>>[1] = extension
            /\ <<extension, schema>>[2] = schema
        OBVIOUS
      <3> QED BY <2>1, <3>1
    <2> QED BY <1>2, <2>1
  <1> HIDE DEF Schemas
  <1> QED BY <1>1, <1>3, <1>4, <1>5, <1>6 DEF all

\* Arguments that Validate lets through.
Admitted == c_args.Username # "" /\ c_args.Password # "" /\ Conn!validateSSL

\* What the arguments ask of every connection that has been opened, and what
\* has become of it: the string is that of the arguments, the link one of those
\* it leads to at the server that was met.
Asked(conn) ==
  /\ c_pc = "run"
  /\ conn.pool = "open" => conn.url = Conn!createConnectionURL
  /\ conn.pool = "dialled" =>
       /\ conn.dialled \in Conn!Server
       /\ conn.link \in Conn!Links(Conn!createConnectionURL, conn.dialled)
       /\ conn.have <=> /\ conn.answered
                        /\ <<"tablefunc", "public">> \in ToSet(conn.dialled.installed)

ConnInv ==
  /\ c_args \in Conn!Arguments /\ c_server \in Conn!Server
  /\ c_pc \in {"start", "run", "exit"} /\ (c_pc = "run" => Admitted)
  /\ DOMAIN c_conns = Databases
  /\ \A d \in Databases :
       /\ c_conns[d].pool \in {"none", "open", "dialled"}
       /\ c_conns[d].pool = "dialled" =>
            c_conns[d].have \in BOOLEAN /\ c_conns[d].answered \in BOOLEAN
       /\ c_conns[d].pool # "none" => Asked(c_conns[d])

LEMMA ConnInit ==
  ASSUME Conn!Init PROVE ConnInv
  BY DEF Conn!Init, ConnInv, Conn!Closed, Admitted

\* A step of one connection: what it is afterwards is all there is to show.
LEMMA ConnOther ==
  ASSUME ConnInv, NEW d \in Databases, NEW conn,
         UNCHANGED <<c_args, c_server, c_pc>>, c_conns' = [c_conns EXCEPT ![d] = conn],
         conn.pool \in {"open", "dialled"}, Asked(conn),
         conn.pool = "dialled" => conn.have \in BOOLEAN /\ conn.answered \in BOOLEAN
  PROVE  ConnInv'
  <1>1. \A c : Asked(c)' = Asked(c)
    BY DEF Asked, Conn!createConnectionURL
  <1>0. Admitted' = Admitted
    BY DEF Admitted, Conn!validateSSL
  <1>2. c_conns'[d] = conn /\ \A e \in Databases : e # d => c_conns'[e] = c_conns[e]
    BY DEF ConnInv
  <1>3. DOMAIN c_conns' = Databases
    BY DEF ConnInv
  <1> QED BY <1>0, <1>1, <1>2, <1>3 DEF ConnInv

LEMMA ConnStep ==
  ASSUME Conn!ConnectionAssumption, ConnInv, [Conn!Next]_(Conn!vars)
  PROVE  ConnInv'
  <1>1. CASE Conn!Validate
    <2>1. /\ c_pc = "start" /\ c_args' = c_args /\ c_server' = c_server /\ c_conns' = c_conns
          /\ c_pc' \in {"start", "run", "exit"}
          /\ c_pc' = "run" => Admitted
      BY <1>1 DEF Conn!Validate, Admitted
    <2>2. \A d \in Databases : c_conns[d].pool = "none"
      BY <2>1 DEF ConnInv, Asked
    <2>3. Admitted' = Admitted
      BY <2>1 DEF Admitted, Conn!validateSSL
    <2> QED BY <2>1, <2>2, <2>3 DEF ConnInv
  <1>2. ASSUME NEW d \in Databases, Conn!NewConnection(d) PROVE ConnInv'
    <2> DEFINE conn == [pool |-> "open", url |-> Conn!createConnectionURL]
    <2>1. /\ UNCHANGED <<c_args, c_server, c_pc>> /\ c_conns' = [c_conns EXCEPT ![d] = conn]
          /\ c_pc = "run"
      BY <1>2 DEF Conn!NewConnection
    <2>2. conn.pool = "open" /\ conn.url = Conn!createConnectionURL
      OBVIOUS
    <2> HIDE DEF conn
    <2>3. Asked(conn)
      BY <2>1, <2>2 DEF Asked
    <2> QED BY <2>1, <2>2, <2>3, ConnOther
  <1>3. ASSUME NEW d \in Databases, Conn!Query(d) PROVE ConnInv'
    <2>1. /\ UNCHANGED <<c_args, c_server, c_pc>> /\ c_conns[d].pool = "open"
          /\ \E link \in Conn!Links(c_conns[d].url, c_server), answers \in BOOLEAN :
               c_conns' = [c_conns EXCEPT ![d] =
                 [pool |-> "dialled", dialled |-> c_server, link |-> link,
                  answered |-> answers /\ link # "refused",
                  have |-> /\ answers /\ link # "refused"
                           /\ Conn!HaveExtensionInSchema(c_server.installed,
                                                         "tablefunc", "public")]]
      BY <1>3 DEF Conn!Query
    <2>2. PICK link \in Conn!Links(c_conns[d].url, c_server), answers \in BOOLEAN :
            c_conns' = [c_conns EXCEPT ![d] =
              [pool |-> "dialled", dialled |-> c_server, link |-> link,
               answered |-> answers /\ link # "refused",
               have |-> /\ answers /\ link # "refused"
                        /\ Conn!HaveExtensionInSchema(c_server.installed,
                                                      "tablefunc", "public")]]
      BY <2>1
    <2> DEFINE answered == answers /\ link # "refused"
               have == /\ answers /\ link # "refused"
                       /\ Conn!HaveExtensionInSchema(c_server.installed,
                                                     "tablefunc", "public")
               conn == [pool |-> "dialled", dialled |-> c_server, link |-> link,
                        answered |-> answered, have |-> have]
    <2>3. c_server \in Conn!Server /\ c_server.installed \in Seq(STRING \X STRING)
      BY DEF ConnInv, Conn!Server, Conn!ConnectionAssumption
    <2>4. have <=> answered /\ <<"tablefunc", "public">> \in ToSet(c_server.installed)
      BY <2>3, ExtensionFound
    <2>5. have \in BOOLEAN /\ answered \in BOOLEAN
      OBVIOUS
    <2>6. c_conns' = [c_conns EXCEPT ![d] = conn]
      BY <2>2
    <2> HIDE DEF have, answered
    <2>7. /\ conn.pool = "dialled" /\ conn.dialled = c_server /\ conn.link = link
          /\ conn.answered = answered /\ conn.have = have
      OBVIOUS
    <2> HIDE DEF conn
    <2>8. c_conns[d].url = Conn!createConnectionURL /\ c_pc = "run"
      BY <2>1 DEF ConnInv, Asked
    <2>9. Asked(conn)
      <3>1. conn.have <=> conn.answered
              /\ <<"tablefunc", "public">> \in ToSet(conn.dialled.installed)
        BY <2>4, <2>5, <2>7, Zenon
      <3>2. conn.link \in Conn!Links(Conn!createConnectionURL, conn.dialled)
        BY <2>7, <2>8
      <3> QED BY <2>3, <2>7, <2>8, <3>1, <3>2 DEF Asked
    <2> QED BY <2>1, <2>5, <2>6, <2>7, <2>9, ConnOther
  <1>4. CASE Conn!Reconfigure
    <2>1. c_args' = c_args /\ c_pc' = c_pc /\ c_conns' = c_conns /\ c_server' \in Conn!Server
      BY <1>4 DEF Conn!Reconfigure
    <2>2. \A c : Asked(c)' = Asked(c)
      BY <2>1 DEF Asked, Conn!createConnectionURL
    <2>3. Admitted' = Admitted
      BY <2>1 DEF Admitted, Conn!validateSSL
    <2> QED BY <2>1, <2>2, <2>3 DEF ConnInv
  <1>5. CASE UNCHANGED Conn!vars
    <2>1. c_args' = c_args /\ c_pc' = c_pc /\ c_conns' = c_conns /\ c_server' = c_server
      BY <1>5 DEF Conn!vars
    <2>2. \A c : Asked(c)' = Asked(c)
      BY <2>1 DEF Asked, Conn!createConnectionURL
    <2>3. Admitted' = Admitted
      BY <2>1 DEF Admitted, Conn!validateSSL
    <2> QED BY <2>1, <2>2, <2>3 DEF ConnInv
  <1> QED BY <1>1, <1>2, <1>3, <1>4, <1>5 DEF Conn!Next

\* What lib/pq makes of each of the three modes a string can ask for.
LEMMA LinksOf ==
  ASSUME Conn!ConnectionAssumption, ConnInv, Admitted, NEW s \in Conn!Server,
         NEW link \in Conn!Links(Conn!createConnectionURL, s)
  PROVE  /\ link \in {"refused", "plain", "encrypted", "verified"}
         /\ c_args.EnableSSL \in BOOLEAN /\ c_args.TrustServerCertificate \in BOOLEAN
         /\ ~c_args.EnableSSL => link \in {"refused", "plain"}
         /\ c_args.EnableSSL => link # "plain"
         /\ c_args.EnableSSL /\ ~c_args.TrustServerCertificate /\ link # "refused" =>
              s.signedBy = c_args.SSLRootCertLocation /\ s.nameMatches
         /\ c_args.EnableSSL /\ c_args.TrustServerCertificate /\ link = "refused" =>
              s.tls = "off" \/ (c_args.SSLCertLocation = "") # (c_args.SSLKeyLocation = "")
  <1> DEFINE url == Conn!createConnectionURL
             tls == IF s.tls = "off" \/ ~Conn!Accepted(url, s) THEN "refused"
                    ELSE IF url.sslmode = "verify-full" THEN "verified" ELSE "encrypted"
             unpaired == IF (url.sslcert = {}) # (url.sslkey = {}) THEN {"refused"} ELSE {}
  <1>1. c_args.EnableSSL \in BOOLEAN /\ c_args.TrustServerCertificate \in BOOLEAN
    BY DEF ConnInv, Conn!Arguments
  <1>2. IF url.sslmode = "disable"
        THEN link = IF s.tls = "required" THEN "refused" ELSE "plain"
        ELSE link \in {tls} \cup unpaired
    BY DEF Conn!Links
  <1>3. CASE ~c_args.EnableSSL
    <2>1. url.sslmode = "disable"
      BY <1>3 DEF Conn!createConnectionURL
    <2> HIDE DEF url
    <2> QED BY <1>1, <1>2, <1>3, <2>1
  <1>4. CASE c_args.EnableSSL /\ ~c_args.TrustServerCertificate
    <2>1. url.sslmode = "verify-full" /\ url.sslrootcert = c_args.SSLRootCertLocation
      BY <1>4 DEF Conn!createConnectionURL
    <2>2. c_args.SSLRootCertLocation # NoFile
      BY <1>4 DEF Admitted, Conn!validateSSL
    <2>3. Conn!Accepted(url, s) =>
            s.signedBy = c_args.SSLRootCertLocation /\ s.nameMatches
      BY <2>1, <2>2 DEF Conn!Accepted, Conn!Roots
    <2> HIDE DEF url
    <2>4. link \in {tls, "refused"}
      BY <1>2, <2>1
    <2> QED BY <1>1, <1>4, <2>1, <2>3, <2>4
  <1>5. CASE c_args.EnableSSL /\ c_args.TrustServerCertificate
    <2>1. /\ url.sslmode = "require" /\ url.sslrootcert = NoFile
          /\ url.sslcert = Conn!Given(c_args.SSLCertLocation)
          /\ url.sslkey = Conn!Given(c_args.SSLKeyLocation)
      BY <1>5 DEF Conn!createConnectionURL
    <2>2. Conn!Accepted(url, s)
      BY <2>1 DEF Conn!Accepted
    <2> HIDE DEF url
    <2>3. tls = IF s.tls = "off" THEN "refused" ELSE "encrypted"
      BY <2>1, <2>2
    <2>4. /\ (url.sslcert = {}) <=> (c_args.SSLCertLocation = "")
          /\ (url.sslkey = {}) <=> (c_args.SSLKeyLocation = "")
      BY <2>1 DEF Conn!Given
    <2>5. unpaired # {} => ~((c_args.SSLCertLocation = "") <=> (c_args.SSLKeyLocation = ""))
      BY <2>4
    <2>6. unpaired \in {{}, {"refused"}}
      OBVIOUS
    <2> HIDE DEF tls, unpaired
    <2> QED BY <1>1, <1>2, <1>5, <2>1, <2>3, <2>5, <2>6
  <1> QED BY <1>1, <1>3, <1>4, <1>5

LEMMA ConnMeans ==
  ASSUME PartsAssumption, ConnInv
  PROVE  Conn!ConnectedAsAsked /\ Conn!TypeOK
  <1>1. ASSUME NEW d \in Conn!Dialled
        PROVE  /\ Admitted /\ Asked(c_conns[d]) /\ c_conns[d].pool = "dialled"
               /\ c_conns[d].dialled \in Conn!Server
               /\ c_conns[d].link \in Conn!Links(Conn!createConnectionURL, c_conns[d].dialled)
    BY <1>1 DEF ConnInv, Asked, Conn!Dialled
  <1>2. \A d \in Conn!Up : d \in Conn!Dialled /\ c_conns[d].link # "refused"
    BY DEF Conn!Up
  <1>3. Conn!EncryptedAsAsked
    <2>1. ASSUME NEW d \in Conn!Up
          PROVE  (c_conns[d].link = "plain") = ~c_args.EnableSSL
      <3>1. /\ c_args.EnableSSL \in BOOLEAN
            /\ ~c_args.EnableSSL => c_conns[d].link \in {"refused", "plain"}
            /\ c_args.EnableSSL => c_conns[d].link # "plain"
        BY <1>1, <1>2, LinksOf, PartsAssumption
      <3> QED BY <1>2, <3>1
    <2> QED BY <2>1 DEF Conn!EncryptedAsAsked
  <1>4. Conn!VerifiedAsAsked
    BY <1>1, <1>2, LinksOf, PartsAssumption DEF Conn!VerifiedAsAsked
  <1>5. Conn!TrustSuffices
    BY <1>1, LinksOf, PartsAssumption DEF Conn!TrustSuffices
  <1>6. Conn!ExtensionIsThere
    <2>1. ASSUME NEW d \in Conn!Dialled
          PROVE  c_conns[d].have =
                   /\ c_conns[d].answered
                   /\ <<"tablefunc", "public">> \in ToSet(c_conns[d].dialled.installed)
      <3>1. c_conns[d].have \in BOOLEAN /\ c_conns[d].answered \in BOOLEAN
        BY <1>1 DEF ConnInv, Conn!Dialled
      <3>2. c_conns[d].have
              <=> /\ c_conns[d].answered
                  /\ <<"tablefunc", "public">> \in ToSet(c_conns[d].dialled.installed)
        BY <1>1 DEF Asked
      <3> QED BY <3>1, <3>2, Zenon
    <2>2. \A list : Conn!Range(list) = ToSet(list)
      BY DEF Conn!Range, ToSet
    <2> QED BY <2>1, <2>2, Zenon DEF Conn!ExtensionIsThere
  <1>7. Conn!TypeOK
    <2>1. ASSUME NEW d \in Databases
          PROVE  /\ c_conns[d].pool \in {"none", "open", "dialled"}
                 /\ c_conns[d].pool # "none" =>
                      c_pc = "run" /\ c_args.Username # "" /\ c_args.Password # ""
                 /\ d \in Conn!Dialled =>
                      c_conns[d].link \in {"refused", "plain", "encrypted", "verified"}
      <3>1. /\ c_conns[d].pool \in {"none", "open", "dialled"}
            /\ c_conns[d].pool # "none" => c_pc = "run" /\ Admitted
        BY DEF ConnInv, Asked
      <3>2. Admitted => c_args.Username # "" /\ c_args.Password # ""
        BY DEF Admitted
      <3>3. d \in Conn!Dialled =>
              c_conns[d].link \in {"refused", "plain", "encrypted", "verified"}
        BY <1>1, LinksOf, PartsAssumption
      <3> QED BY <3>1, <3>2, <3>3
    <2> QED BY <2>1 DEF ConnInv, Conn!TypeOK
  <1> QED BY <1>3, <1>4, <1>5, <1>6, <1>7 DEF Conn!ConnectedAsAsked

-----------------------------------------------------------------------------
(* LockMetrics *)

\* What the query answered is a row of columns for each listed database whose
\* sessions have locks; the locks are still those it saw.
LockInv ==
  /\ l_pg_locks \subseteq Locks!Lock /\ IsFiniteSet(l_pg_locks)
  /\ Cardinality(l_pg_locks) <= MaxLocks
  /\ \/ l_pc = "before" /\ l_metrics = <<>>
     \/ /\ l_pc = "after"
        /\ DOMAIN l_metrics = {Locks!datname(l) : l \in Locks!Rows(l_pg_locks)}
        /\ \A d \in DOMAIN l_metrics : l_metrics[d] \in Locks!Columns(d, Locks!Rows(l_pg_locks))

\* LockMetrics counts with its own instance of FiniteSets.
LEMMA SameCardinality == \A S : Locks!Cardinality(S) = Cardinality(S)
  BY DEF Locks!Cardinality, Cardinality

LEMMA LockInit ==
  ASSUME Locks!LockAssumption, Locks!Init PROVE LockInv
  BY FS_EmptySet DEF Locks!Init, LockInv, Locks!LockAssumption

LEMMA LockStep ==
  ASSUME Locks!LockAssumption, LockInv, [Locks!Next]_(Locks!vars)
  PROVE  LockInv'
  <1>1. ASSUME NEW lock \in Locks!Lock, Locks!LockObject(lock) PROVE LockInv'
    <2>1. /\ l_pc = "before" /\ l_pc' = l_pc /\ l_metrics' = l_metrics
          /\ Cardinality(l_pg_locks) < MaxLocks /\ l_pg_locks' = l_pg_locks \cup {lock}
      BY <1>1, SameCardinality DEF Locks!LockObject
    <2>2. /\ IsFiniteSet(l_pg_locks') /\ Cardinality(l_pg_locks) \in Nat
          /\ Cardinality(l_pg_locks') <= Cardinality(l_pg_locks) + 1
      <3>1. IsFiniteSet(l_pg_locks) /\ Cardinality(l_pg_locks) \in Nat
        BY FS_CardinalityType DEF LockInv
      <3>2. /\ IsFiniteSet(l_pg_locks \cup {lock})
            /\ \/ Cardinality(l_pg_locks \cup {lock}) = Cardinality(l_pg_locks)
               \/ Cardinality(l_pg_locks \cup {lock}) = Cardinality(l_pg_locks) + 1
        BY <3>1, FS_AddElement
      <3> QED BY <2>1, <3>1, <3>2
    <2>3. Cardinality(l_pg_locks') <= MaxLocks
      <3>1. Cardinality(l_pg_locks') \in Nat /\ MaxLocks \in Nat
        BY <2>2, FS_CardinalityType DEF Locks!LockAssumption
      <3> QED BY <2>1, <2>2, <3>1
    <2> QED BY <2>1, <2>2, <2>3 DEF LockInv
  <1>2. ASSUME NEW lock \in Locks!Lock, Locks!Unlock(lock) PROVE LockInv'
    <2>1. /\ l_pc = "before" /\ l_pc' = l_pc /\ l_metrics' = l_metrics
          /\ l_pg_locks' \in SUBSET l_pg_locks
      BY <1>2 DEF Locks!Unlock
    <2>2. /\ IsFiniteSet(l_pg_locks') /\ Cardinality(l_pg_locks') <= Cardinality(l_pg_locks)
          /\ Cardinality(l_pg_locks) \in Nat /\ Cardinality(l_pg_locks') \in Nat
      BY <2>1, FS_Subset, FS_CardinalityType DEF LockInv
    <2>3. Cardinality(l_pg_locks') <= MaxLocks
      BY <2>2 DEF LockInv, Locks!LockAssumption
    <2> QED BY <2>1, <2>2, <2>3 DEF LockInv
  <1>3. CASE Locks!Query
    <2>1. /\ l_pc' = "after" /\ l_pg_locks' = l_pg_locks
          /\ DOMAIN l_metrics' = {Locks!datname(l) : l \in Locks!Rows(l_pg_locks)}
          /\ \A d \in DOMAIN l_metrics' :
               l_metrics'[d] \in Locks!Columns(d, Locks!Rows(l_pg_locks))
      BY <1>3 DEF Locks!Query
    <2> QED BY <2>1 DEF LockInv
  <1>4. CASE UNCHANGED Locks!vars
    BY <1>4 DEF LockInv, Locks!vars
  <1> QED BY <1>1, <1>2, <1>3, <1>4 DEF Locks!Next

\* Of the locks of one mode in a database, the group of a lock are those in
\* the same place.
LEMMA GroupOfLock ==
  ASSUME LockInv, NEW d \in ListedDatabases, NEW m, NEW l \in Locks!Held(d, m)
  PROVE  /\ Locks!Count(l, Locks!Rows(l_pg_locks))
              = Cardinality({k \in Locks!Held(d, m) : k.place = l.place})
         /\ Locks!Count(l, Locks!Rows(l_pg_locks)) \in 1 .. Cardinality(Locks!Held(d, m))
         /\ Cardinality(Locks!Held(d, m)) \in Nat
  <1> DEFINE held == Locks!Held(d, m)
             group == {k \in held : k.place = l.place}
  <1>1. {k \in Locks!Rows(l_pg_locks) : Locks!Group(k) = Locks!Group(l)} = group
    BY DEF Locks!Held, Locks!Rows, Locks!Group
  <1>2. IsFiniteSet(held) /\ Cardinality(held) \in Nat
    <2>1. held \in SUBSET l_pg_locks
      BY DEF Locks!Held
    <2> QED BY <2>1, FS_Subset, FS_CardinalityType DEF LockInv
  <1>3. group \in SUBSET held /\ l \in group
    OBVIOUS
  <1> HIDE DEF held, group
  <1>4. /\ IsFiniteSet(group) /\ Cardinality(group) <= Cardinality(held)
        /\ Cardinality(group) \in Nat /\ Cardinality(group) # 0
    BY <1>2, <1>3, FS_Subset, FS_CardinalityType, FS_EmptySet
  <1>5. Locks!Count(l, Locks!Rows(l_pg_locks)) = Cardinality(group)
    BY <1>1, SameCardinality DEF Locks!Count
  <1>6. Cardinality(group) \in 1 .. Cardinality(held)
    BY <1>2, <1>4
  <1> QED BY <1>2, <1>5, <1>6 DEF held, group

\* A mode without locks has a zero, any other the count of one of its groups.
LEMMA ColumnOfMode ==
  ASSUME Locks!LockAssumption, LockInv, NEW d \in DOMAIN l_metrics, NEW m \in Modes
  PROVE  /\ l_metrics[d] \in [Modes -> 0 .. MaxLocks] /\ d \in ListedDatabases
         /\ Locks!Held(d, m) = {} => l_metrics[d][m] = 0
         /\ Locks!Held(d, m) # {} =>
              \E l \in Locks!Held(d, m) :
                l_metrics[d][m] = Locks!Count(l, Locks!Rows(l_pg_locks))
  <1> DEFINE rows == Locks!Rows(l_pg_locks)
             counts == {Locks!Count(l, rows) :
                          l \in {k \in rows : Locks!datname(k) = d /\ k.mode = m}}
  <1>1. /\ DOMAIN l_metrics = {Locks!datname(l) : l \in rows}
        /\ l_metrics[d] \in Locks!Columns(d, rows)
    BY DEF LockInv
  <1>2. d \in ListedDatabases
    BY <1>1 DEF Locks!Rows
  <1>3. {k \in rows : Locks!datname(k) = d /\ k.mode = m} = Locks!Held(d, m)
    BY <1>2 DEF Locks!Rows, Locks!Held
  <1>4. /\ l_metrics[d] \in [Modes -> 0 .. MaxLocks]
        /\ IF counts = {} THEN l_metrics[d][m] = 0 ELSE l_metrics[d][m] \in counts
    BY <1>1 DEF Locks!Columns
  <1>5. counts = {Locks!Count(l, rows) : l \in Locks!Held(d, m)}
    BY <1>3
  <1> HIDE DEF rows, counts
  <1> QED BY <1>2, <1>4, <1>5 DEF rows

\* Locks in no more than one place are all in the place of any of them.
LEMMA OnePlace ==
  ASSUME NEW held, IsFiniteSet(held), Cardinality({l.place : l \in held}) <= 1,
         NEW l \in held
  PROVE  {k \in held : k.place = l.place} = held
  <1> DEFINE places == {k.place : k \in held}
             f == [k \in held |-> k.place]
  <1>1. f \in Surjection(held, places)
    BY DEF Surjection
  <1>2. IsFiniteSet(places)
    BY <1>1, FS_Surjection
  <1>3. ASSUME NEW k \in held, k.place # l.place PROVE FALSE
    <2>1. {k.place, l.place} \in SUBSET places
      OBVIOUS
    <2>2. {k.place, l.place} = {k.place} \cup {l.place} /\ l.place \notin {k.place}
      BY <1>3
    <2>3. Cardinality({k.place, l.place}) = 2
      <3> DEFINE one == {k.place}
                 two == {k.place, l.place}
      <3>1. IsFiniteSet(one) /\ Cardinality(one) = 1
        BY FS_Singleton
      <3>2. two = one \cup {l.place} /\ l.place \notin one
        BY <2>2
      <3> HIDE DEF one, two
      <3>3. Cardinality(one \cup {l.place}) = Cardinality(one) + 1
        BY <3>1, <3>2, FS_AddElement
      <3>4. Cardinality(two) = 2
        BY <3>1, <3>2, <3>3
      <3> QED BY <3>4 DEF two
    <2>4. Cardinality({k.place, l.place}) <= Cardinality(places)
      BY <1>2, <2>1, FS_Subset
    <2>5. Cardinality(places) \in Nat
      BY <1>2, FS_CardinalityType
    <2> HIDE DEF places
    <2> QED BY <2>3, <2>4, <2>5 DEF places
  <1> QED BY <1>3

LEMMA LockMeans ==
  ASSUME PartsAssumption, LockInv
  PROVE  Locks!CountsAreSound /\ Locks!TypeOK
  <1>1. Locks!CountsAreSound
    <2> SUFFICES ASSUME NEW d \in DOMAIN l_metrics, NEW m \in Modes
                 PROVE  /\ l_metrics[d][m] <= Cardinality(Locks!Held(d, m))
                        /\ Locks!Held(d, m) # {} => l_metrics[d][m] > 0
                        /\ Cardinality({l.place : l \in Locks!Held(d, m)}) <= 1 =>
                             l_metrics[d][m] = Cardinality(Locks!Held(d, m))
      BY SameCardinality
         DEF Locks!CountsAreSound, Locks!NeverOverstated, Locks!ExactInOnePlace
    <2> DEFINE held == Locks!Held(d, m)
    <2>1. held = {} => l_metrics[d][m] = 0 /\ Cardinality(held) = 0
      BY ColumnOfMode, PartsAssumption, FS_EmptySet
    <2>2. ASSUME held # {}
          PROVE  /\ l_metrics[d][m] \in 1 .. Cardinality(held)
                 /\ Cardinality(held) \in Nat
                 /\ Cardinality({l.place : l \in held}) <= 1 =>
                      l_metrics[d][m] = Cardinality(held)
      <3>1. PICK l \in held : l_metrics[d][m] = Locks!Count(l, Locks!Rows(l_pg_locks))
        BY <2>2, ColumnOfMode, PartsAssumption
      <3>2. /\ l_metrics[d][m] = Cardinality({k \in held : k.place = l.place})
            /\ l_metrics[d][m] \in 1 .. Cardinality(held) /\ Cardinality(held) \in Nat
        <4>1. d \in ListedDatabases
          BY ColumnOfMode, PartsAssumption
        <4> QED BY <3>1, <4>1, GroupOfLock
      <3>3. IsFiniteSet(held)
        <4>1. held \in SUBSET l_pg_locks
          BY DEF Locks!Held
        <4> QED BY <4>1, FS_Subset DEF LockInv
      <3> HIDE DEF held
      <3> QED BY <3>2, <3>3, OnePlace
    <2> HIDE DEF held
    <2>3. held = {} \/ held # {}
      OBVIOUS
    <2> QED BY <2>1, <2>2, <2>3 DEF held
  <1>2. Locks!TypeOK
    <2>1. \A d \in DOMAIN l_metrics : l_metrics[d] \in [Modes -> 0 .. MaxLocks]
      BY DEF LockInv, Locks!Columns
    <2>2. l_pc = "after" => DOMAIN l_metrics = {Locks!datname(l) : l \in l_pg_locks} \cap ListedDatabases
      BY DEF LockInv, Locks!Rows
    <2> QED BY <2>1, <2>2 DEF LockInv, Locks!TypeOK
  <1> QED BY <1>1, <1>2

-----------------------------------------------------------------------------
(* ListedObjects *)

LEMMA SameLists ==
  /\ \A seqs : Obj!FlattenSeq(seqs) = FlattenSeq(seqs)
  /\ \A S : Obj!Cardinality(S) = Cardinality(S)
  /\ \A S : Obj!IsFiniteSet(S) <=> IsFiniteSet(S)
  <1>1. ASSUME NEW seqs PROVE Obj!FlattenSeq(seqs) = FlattenSeq(seqs)
    BY Zenon DEF Obj!FlattenSeq, FlattenSeq
  <1>2. ASSUME NEW S PROVE Obj!Cardinality(S) = Cardinality(S)
    BY DEF Obj!Cardinality, Cardinality
  <1>3. ASSUME NEW S PROVE Obj!IsFiniteSet(S) <=> IsFiniteSet(S)
    BY DEF Obj!IsFiniteSet, IsFiniteSet
  <1> QED BY <1>1, <1>2, <1>3

\* An order of a finite set has all its elements.
LEMMA Orders ==
  ASSUME NEW S, IsFiniteSet(S), NEW order \in Obj!SetToSeqs(S)
  PROVE  order \in Seq(S) /\ Range(order) = S
  <1> DEFINE n == Cardinality(S)
  <1>1. n \in Nat
    BY FS_CardinalityType
  <1>2. /\ order \in [1 .. n -> S]
        /\ \A i, j \in 1 .. n : i # j => order[i] # order[j]
    BY SameLists DEF Obj!SetToSeqs
  <1>3. IsFiniteSet(1 .. n) /\ Cardinality(1 .. n) = n
    <2> HIDE DEF n
    <2>1. 1 - 1 + n = n
      BY <1>1
    <2> QED BY <1>1, FS_Interval
  <1> HIDE DEF n
  <1>4. order \in Injection(1 .. n, S)
    BY <1>2 DEF Injection, IsInjective
  <1>5. order \in Surjection(1 .. n, S)
    BY <1>3, <1>4, FS_Injection DEF n
  <1>6. order \in Seq(S)
    BY <1>1, <1>2, SeqDef
  <1> QED BY <1>2, <1>5, <1>6 DEF Range, Surjection

\* With no names empty, a key has a part for each name just when no name has a
\* dot, and then it is the names.
LEMMA KeyOf ==
  ASSUME Obj!ListedAssumption,
         NEW path \in Seq(Obj!Name), Len(path) \in {2, 3}
  PROVE  /\ Obj!Dotless(path) <=> Len(Obj!Key(path)) = Len(path)
         /\ Obj!Dotless(path) =>
              \A k \in 1 .. Len(path) : path[k] = <<Obj!Key(path)[k]>>
  <1> DEFINE l == Len(path)
  <1>1. /\ l \in {2, 3} /\ l \in Nat /\ DOMAIN path = 1 .. l
        /\ \A k \in 1 .. l : /\ path[k] \in Seq(STRING)
                             /\ Len(path[k]) \in Nat \ {0}
    <2>1. /\ DOMAIN path = 1 .. l /\ l \in Nat
          /\ \A k \in 1 .. l : path[k] \in Seq(STRING) /\ path[k] # <<>>
      BY LenProperties DEF Obj!Name, Obj!ListedAssumption
    <2> QED BY <2>1, EmptySeq
  <1>2. Obj!Dotless(path) <=> \A k \in 1 .. l : Len(path[k]) = 1
    BY <1>1 DEF Obj!Dotless
  <1> DEFINE f == CHOOSE h : Joined(h, path, l)
  <1>3. Joined(f, path, l)
    BY <1>1, JoinedExists
  <1>4. Obj!Key(path) = f[l]
    <2>1. Len(path) # 0
      BY <1>1
    <2> QED BY <2>1, SameLists, Zenon DEF Obj!Key, FlattenSeq, Joined
  <1> HIDE DEF f
  <1>5. f[1] = path[1] /\ f[2] = path[1] \o path[2]
    <2>1. 1 \in 1 .. l /\ 2 \in 1 .. l
      BY <1>1
    <2>2. f[1] = path[1]
      BY <1>3, <2>1 DEF Joined
    <2>3. f[2] = f[1] \o path[2]
      <3>1. 2 # 1 /\ 2 - 1 = 1
        OBVIOUS
      <3> HIDE DEF l
      <3> QED BY <1>3, <2>1, <3>1 DEF Joined
    <2> QED BY <2>2, <2>3
  <1>6. l = 3 => f[3] = (path[1] \o path[2]) \o path[3]
    <2>1. l = 3 => 3 \in 1 .. l
      OBVIOUS
    <2>2. l = 3 => f[3] = f[2] \o path[3]
      <3>1. 3 # 1 /\ 3 - 1 = 2
        OBVIOUS
      <3> HIDE DEF l
      <3> QED BY <1>3, <2>1, <3>1 DEF Joined
    <2> QED BY <1>5, <2>2
  <1> DEFINE a == path[1]
             b == path[2]
             c == path[3]
             ab == a \o b
             abc == ab \o c
  <1>7. /\ a \in Seq(STRING) /\ b \in Seq(STRING)
        /\ Len(a) \in Nat \ {0} /\ Len(b) \in Nat \ {0}
        /\ l = 3 => c \in Seq(STRING) /\ Len(c) \in Nat \ {0}
    BY <1>1
  <1>8. \A k \in 1 .. l : k = 1 \/ k = 2 \/ (l = 3 /\ k = 3)
    BY <1>1
  <1>9. Obj!Dotless(path)
          <=> Len(a) = 1 /\ Len(b) = 1 /\ (l = 3 => Len(c) = 1)
    BY <1>1, <1>2, <1>8
  <1> HIDE DEF a, b, c
  <1>10. /\ ab \in Seq(STRING) /\ Len(ab) = Len(a) + Len(b)
         /\ \A i \in 1 .. Len(a) + Len(b) :
              ab[i] = IF i <= Len(a) THEN a[i] ELSE b[i - Len(a)]
    BY <1>7, ConcatProperties
  <1> HIDE DEF ab
  <1>11. l = 3 => /\ Len(abc) = Len(ab) + Len(c)
                  /\ \A i \in 1 .. Len(ab) + Len(c) :
                       abc[i] = IF i <= Len(ab) THEN ab[i] ELSE c[i - Len(ab)]
    BY <1>7, <1>10, ConcatProperties
  <1> HIDE DEF abc
  <1>12. /\ l = 2 => Obj!Key(path) = ab
         /\ l = 3 => Obj!Key(path) = abc
    BY <1>4, <1>5, <1>6 DEF a, b, c, ab, abc
  <1>13. Obj!Dotless(path) <=> Len(Obj!Key(path)) = l
    <2>1. /\ Len(ab) = Len(a) + Len(b)
          /\ l = 3 => Len(abc) = Len(ab) + Len(c)
      BY <1>10, <1>11
    <2>2. /\ Len(a) \in Nat \ {0} /\ Len(b) \in Nat \ {0}
          /\ l = 3 => Len(c) \in Nat \ {0}
      BY <1>7
    <2>3. CASE l = 2
      <3>1. Len(Obj!Key(path)) = Len(a) + Len(b)
        BY <1>12, <2>1, <2>3
      <3>2. Obj!Dotless(path) <=> Len(a) = 1 /\ Len(b) = 1
        BY <1>9, <2>3
      <3>3. (Len(a) = 1 /\ Len(b) = 1) <=> Len(Obj!Key(path)) = 2
        <4>1. \A x, y \in Nat \ {0} : (x = 1 /\ y = 1) <=> x + y = 2
          OBVIOUS
        <4> QED BY <2>2, <3>1, <4>1
      <3> QED BY <2>3, <3>2, <3>3, Zenon
    <2>4. CASE l = 3
      <3>1. Len(Obj!Key(path)) = Len(a) + Len(b) + Len(c)
        BY <1>12, <2>1, <2>4
      <3>2. Obj!Dotless(path) <=> (Len(a) = 1 /\ Len(b) = 1 /\ Len(c) = 1)
        BY <1>9, <2>4
      <3>3. (Len(a) = 1 /\ Len(b) = 1 /\ Len(c) = 1) <=> Len(Obj!Key(path)) = 3
        <4>1. \A x, y, z \in Nat \ {0} :
                (x = 1 /\ y = 1 /\ z = 1) <=> x + y + z = 3
          OBVIOUS
        <4>2. /\ Len(a) \in Nat \ {0} /\ Len(b) \in Nat \ {0}
              /\ Len(c) \in Nat \ {0}
          BY <2>2, <2>4
        <4>3. (Len(a) = 1 /\ Len(b) = 1 /\ Len(c) = 1)
                <=> Len(a) + Len(b) + Len(c) = 3
          BY <4>1, <4>2, Zenon
        <4> QED BY <3>1, <4>3, Zenon
      <3> QED BY <2>4, <3>2, <3>3, Zenon
    <2> QED BY <1>1, <2>3, <2>4
  <1>14. ASSUME Obj!Dotless(path), NEW k \in 1 .. l
         PROVE  path[k] = <<Obj!Key(path)[k]>>
    <2>0. \A s \in Seq(STRING) : Len(s) = 1 => s = <<s[1]>>
      BY SeqEqual
    <2>a. Len(a) = 1 /\ Len(b) = 1 /\ (l = 3 => Len(c) = 1)
      BY <1>9, <1>14
    <2>1. ab[1] = a[1] /\ ab[2] = b[1] /\ Len(ab) = 2
      BY <1>10, <2>a
    <2>2. ASSUME l = 3 PROVE abc[1] = a[1] /\ abc[2] = b[1] /\ abc[3] = c[1]
      <3>1. \A i \in 1 .. 3 : abc[i] = IF i <= 2 THEN ab[i] ELSE c[i - 2]
        <4>1. Len(ab) = 2 /\ Len(c) = 1 /\ Len(ab) + Len(c) = 3
          <5>1. Len(ab) = 2
            BY <2>1
          <5>2. Len(c) = 1
            BY <2>a, <2>2
          <5> QED BY <5>1, <5>2
        <4>2. \A i \in 1 .. Len(ab) + Len(c) :
                abc[i] = IF i <= Len(ab) THEN ab[i] ELSE c[i - Len(ab)]
          BY <1>11, <2>2
        <4> QED BY <4>1, <4>2
      <3>2. abc[1] = ab[1] /\ abc[2] = ab[2] /\ abc[3] = c[3 - 2]
        BY <3>1
      <3> QED BY <2>1, <3>2
    <2>3. /\ a = <<a[1]>> /\ b = <<b[1]>>
          /\ l = 3 => c = <<c[1]>>
      BY <1>7, <1>9, <1>14, <2>0
    <2>4. CASE k = 1
      BY <1>1, <1>12, <2>1, <2>2, <2>3, <2>4 DEF a
    <2>5. CASE k = 2
      BY <1>1, <1>12, <2>1, <2>2, <2>3, <2>5 DEF b
    <2>6. CASE l = 3 /\ k = 3
      BY <1>12, <2>2, <2>3, <2>6 DEF c
    <2> QED BY <1>8, <1>14, <2>4, <2>5, <2>6
  <1> QED BY <1>13, <1>14

\* Two paths of one length with one key are the same, or both have a dot.
LEMMA KeysBlur ==
  ASSUME Obj!ListedAssumption,
         NEW path \in Seq(Obj!Name), Len(path) \in {2, 3},
         NEW other \in Seq(Obj!Name), Len(other) = Len(path),
         Obj!Key(other) = Obj!Key(path)
  PROVE  path = other \/ (~Obj!Dotless(path) /\ ~Obj!Dotless(other))
  <1>1. Obj!Dotless(path) <=> Obj!Dotless(other)
    BY KeyOf
  <1>2. Obj!Dotless(path) => \A k \in 1 .. Len(path) : path[k] = other[k]
    BY <1>1, KeyOf
  <1>3. Obj!Dotless(path) => path = other
    BY <1>2, SeqEqual
  <1> QED BY <1>1, <1>3

\* The jobs there can be with a list.
ListKinds == {"pg-table", "pg-index"}
JobDefs == {"databaseOver91", "databaseOver92", "lock", "tableBloatPostV12", "table",
            "index", "pgbouncerStats", "pgbouncerPools"}
JobKinds == ListKinds \cup {"pg-database", "pgbouncer"}

ObjJob(l) ==
  {j \in [kind : JobKinds, db : DOMAIN l \cup {NoName}, def : JobDefs] :
     /\ j.def \in Range(Obj!Definitions(j.kind))
     /\ j.kind \in ListKinds => j.db \in DOMAIN l}

LEMMA ShortList ==
  ASSUME NEW S
  PROVE  /\ \A x \in S : <<x>> \in Seq(S) /\ Len(<<x>>) \in 1 .. 3
         /\ \A x, y \in S : <<x, y>> \in Seq(S) /\ Len(<<x, y>>) \in 1 .. 3
         /\ \A x, y, z \in S : <<x, y, z>> \in Seq(S) /\ Len(<<x, y, z>>) \in 1 .. 3
  OBVIOUS

LEMMA DefinitionsAre ==
  ASSUME NEW kind \in JobKinds
  PROVE  /\ Obj!Definitions(kind) \in Seq(JobDefs)
         /\ DOMAIN Obj!Definitions(kind) = 1 .. Len(Obj!Definitions(kind))
         /\ Len(Obj!Definitions(kind)) \in 1 .. 3
         /\ kind = "pg-table" =>
              Obj!Definitions(kind) = <<"tableBloatPostV12", "table">>
         /\ kind = "pg-index" => Obj!Definitions(kind) = <<"index">>
         /\ \A k \in DOMAIN Obj!Definitions(kind) :
              Obj!Definitions(kind)[k] \in JobDefs \cap Range(Obj!Definitions(kind))
  <1>1. \/ kind = "pg-database"
             /\ Obj!Definitions(kind) = <<"databaseOver91", "databaseOver92", "lock">>
        \/ kind = "pg-table"
             /\ Obj!Definitions(kind) = <<"tableBloatPostV12", "table">>
        \/ kind = "pg-index" /\ Obj!Definitions(kind) = <<"index">>
        \/ kind = "pgbouncer"
             /\ Obj!Definitions(kind) = <<"pgbouncerStats", "pgbouncerPools">>
    BY DEF JobKinds, ListKinds, Obj!Definitions
  <1>2. Obj!Definitions(kind) \in Seq(JobDefs) /\ Len(Obj!Definitions(kind)) \in 1 .. 3
    BY <1>1, ShortList DEF JobDefs
  <1>3. /\ kind = "pg-table" =>
             Obj!Definitions(kind) = <<"tableBloatPostV12", "table">>
        /\ kind = "pg-index" => Obj!Definitions(kind) = <<"index">>
    BY DEF Obj!Definitions
  <1> QED BY <1>2, <1>3, RangeType

LEMMA KindOf ==
  ASSUME Obj!ListedAssumption, NEW o \in Objects
  PROVE  /\ o = [db |-> o.db, path |-> o.path]
         /\ o.db \in Obj!Name /\ o.path \in Seq(Obj!Name)
         /\ \/ Obj!Kind(o) = "pg-database" /\ o.path = <<>>
            \/ Obj!Kind(o) = "pg-table" /\ Len(o.path) = 2
            \/ Obj!Kind(o) = "pg-index" /\ Len(o.path) = 3
         /\ o.path = <<>> => Obj!Kind(o) = "pg-database"
  <1>1. /\ o = [db |-> o.db, path |-> o.path]
        /\ o.db \in Obj!Name /\ o.path \in Seq(Obj!Name)
        /\ Len(o.path) \in {0, 2, 3}
    BY DEF Obj!ListedAssumption
  <1>2. Len(o.path) = 0 <=> o.path = <<>>
    BY <1>1, EmptySeq
  <1>3. /\ o.path = <<>> => Obj!Kind(o) = "pg-database"
        /\ o.path # <<>> /\ Len(o.path) = 2 => Obj!Kind(o) = "pg-table"
        /\ o.path # <<>> /\ Len(o.path) = 3 => Obj!Kind(o) = "pg-index"
    BY DEF Obj!Kind
  <1> QED BY <1>1, <1>2, <1>3

\* What is asked in one turn of a loop over the databases.
LEMMA JobsInTurn ==
  ASSUME NEW l, NEW d \in DOMAIN l, NEW kind \in ListKinds
  PROVE  /\ Obj!JobsIn(l, d, kind) \in Seq(ObjJob(l))
         /\ Obj!Paths(l, d, kind) # {} =>
              \A k \in DOMAIN Obj!Definitions(kind) :
                [kind |-> kind, db |-> d, def |-> Obj!Definitions(kind)[k]]
                  \in Range(Obj!JobsIn(l, d, kind))
  <1> DEFINE defs == Obj!Definitions(kind)
             turn == [k \in DOMAIN defs |-> [kind |-> kind, db |-> d, def |-> defs[k]]]
  <1>1. /\ kind \in JobKinds
        /\ DOMAIN defs = 1 .. Len(defs) /\ Len(defs) \in Nat
        /\ \A k \in DOMAIN defs : defs[k] \in JobDefs /\ defs[k] \in Range(defs)
    BY DefinitionsAre DEF JobKinds
  <1>2. \A k \in DOMAIN defs : [kind |-> kind, db |-> d, def |-> defs[k]] \in ObjJob(l)
    BY <1>1 DEF ObjJob
  <1>3. turn \in Seq(ObjJob(l))
    BY <1>1, <1>2, IsASeq
  <1>4. Obj!JobsIn(l, d, kind) = IF Obj!Paths(l, d, kind) = {} THEN <<>> ELSE turn
    BY DEF Obj!JobsIn
  <1>5. \A k \in DOMAIN defs :
          [kind |-> kind, db |-> d, def |-> defs[k]] \in Range(turn)
    <2> HIDE DEF defs
    <2> QED BY DEF Range
  <1> HIDE DEF turn
  <1>6. <<>> \in Seq(ObjJob(l))
    BY EmptySeq
  <1> QED BY <1>3, <1>4, <1>5, <1>6

LEMMA JobsOfLoop ==
  ASSUME NEW l, NEW order \in Seq(DOMAIN l), NEW kind \in ListKinds
  PROVE  /\ Obj!JobsOf(l, order, kind) \in Seq(ObjJob(l))
         /\ \A d \in Range(order) : Obj!Paths(l, d, kind) # {} =>
              \A k \in DOMAIN Obj!Definitions(kind) :
                [kind |-> kind, db |-> d, def |-> Obj!Definitions(kind)[k]]
                  \in Range(Obj!JobsOf(l, order, kind))
  <1> DEFINE turns == [k \in DOMAIN order |-> Obj!JobsIn(l, order[k], kind)]
             Job(d, k) == [kind |-> kind, db |-> d, def |-> Obj!Definitions(kind)[k]]
  <1>1. /\ DOMAIN order = 1 .. Len(order) /\ Len(order) \in Nat
        /\ \A i \in DOMAIN order : order[i] \in DOMAIN l
    BY LenProperties
  <1>2. \A i \in DOMAIN order : Obj!JobsIn(l, order[i], kind) \in Seq(ObjJob(l))
    BY <1>1, JobsInTurn
  <1>3. turns \in Seq(Seq(ObjJob(l))) /\ DOMAIN turns = DOMAIN order
    BY <1>1, <1>2, IsASeq
  <1>4. Obj!JobsOf(l, order, kind) = FlattenSeq(turns)
    BY SameLists, Zenon DEF Obj!JobsOf
  <1>5. \A i \in DOMAIN order : turns[i] = Obj!JobsIn(l, order[i], kind)
    OBVIOUS
  <1> HIDE DEF turns
  <1>6. /\ FlattenSeq(turns) \in Seq(ObjJob(l))
        /\ Range(FlattenSeq(turns)) = UNION {Range(turns[i]) : i \in DOMAIN turns}
    BY <1>3, FlattenRange
  <1>7. ASSUME NEW d \in Range(order), Obj!Paths(l, d, kind) # {},
               NEW k \in DOMAIN Obj!Definitions(kind)
        PROVE  Job(d, k) \in Range(FlattenSeq(turns))
    <2>1. PICK i \in DOMAIN order : order[i] = d
      BY <1>7 DEF Range
    <2>2. Job(d, k) \in Range(Obj!JobsIn(l, d, kind))
      BY <1>1, <1>7, <2>1, JobsInTurn
    <2>3. Job(d, k) \in Range(turns[i]) /\ i \in DOMAIN turns
      BY <1>3, <1>5, <2>1, <2>2
    <2> HIDE DEF Job
    <2> QED BY <1>6, <2>3
  <1> QED BY <1>4, <1>6, <1>7

\* All databases are visited unless one has an empty list.
LEMMA BeforeEmptyIs ==
  ASSUME NEW l, NEW order \in Seq(DOMAIN l)
  PROVE  /\ Obj!BeforeEmpty(l, order) \in Seq(DOMAIN l)
         /\ (\A d \in DOMAIN l : l[d] # {}) => Obj!BeforeEmpty(l, order) = order
  <1> DEFINE I == {i \in 1 .. Len(order) : l[order[i]] = {}}
             empty == IF I # {} THEN Obj!Min(I) ELSE 0
  <1>1. /\ Len(order) \in Nat
        /\ \A i \in 1 .. Len(order) : order[i] \in DOMAIN l
    BY LenProperties
  <1>2. Obj!BeforeEmpty(l, order)
          = IF empty = 0 THEN order ELSE SubSeq(order, 1, empty - 1)
    BY DEF Obj!BeforeEmpty, Obj!SelectInSeq
  <1>3. I # {} => Obj!Min(I) \in I
    <2> SUFFICES ASSUME I # {} PROVE Obj!Min(I) \in I
      OBVIOUS
    <2>1. I \in SUBSET Nat
      BY <1>1
    <2>2. \E x \in I : \A y \in I : x <= y
      <3> HIDE DEF I
      <3> QED BY <2>1, LeastElement
    <2> HIDE DEF I
    <2> QED BY <2>2, Zenon DEF Obj!Min
  <1>4. I \subseteq 1 .. Len(order) /\ ((\A d \in DOMAIN l : l[d] # {}) => I = {})
    BY <1>1
  <1> HIDE DEF I
  <1>5. CASE I = {}
    BY <1>2, <1>5
  <1>6. CASE I # {}
    <2>1. empty \in 1 .. Len(order)
      BY <1>3, <1>4, <1>6
    <2> HIDE DEF empty
    <2>2. \A i \in 1 .. empty - 1 : order[i] \in DOMAIN l
      BY <1>1, <2>1
    <2>3. SubSeq(order, 1, empty - 1) \in Seq(DOMAIN l)
      <3>1. empty - 1 \in Int /\ 1 \in Int
        BY <1>1, <2>1
      <3> QED BY <2>2, <3>1, SubSeqProperties
    <2>4. empty # 0
      BY <2>1
    <2> QED BY <1>2, <1>4, <1>6, <2>3, <2>4
  <1> QED BY <1>5, <1>6

ObjTypes ==
  /\ o_list \in Lists /\ o_lasting \subseteq o_catalog /\ o_catalog \subseteq Objects
  /\ o_jobs \in Seq(ObjJob(o_list))

OnlyListed(o) ==
  \/ Obj!Listed(o)
  \/ /\ ~Obj!Dotless(o.path)
     /\ \E p \in o_list[o.db] : ~Obj!Dotless(p) /\ Obj!Key(p) = Obj!Key(o.path)

SampleSound(s) ==
  \/ /\ s.of \in Pools /\ s.of.database # NoName
     /\ s.entity = Obj!Entity("pgbouncer", s.of)
  \/ /\ s.of \in Objects /\ s.entity = Obj!Entity(Obj!Kind(s.of), s.of)
     /\ OnlyListed(s.of)

\* The job that reports o by definition k.
JobFor(o, k) ==
  [kind |-> Obj!Kind(o),
   db |-> IF Obj!Kind(o) = "pg-database" THEN NoName ELSE o.db,
   def |-> Obj!Definitions(Obj!Kind(o))[k]]

Due(o, k) ==
  \/ Obj!Definitions(Obj!Kind(o))[k] \in Obj!Sparse
  \/ Obj!Reported(o, Obj!Definitions(Obj!Kind(o))[k])
  \/ Obj!Lost(o, k)
  \/ Obj!Kind(o) = "pg-table" /\ ~Obj!NoEmptyDatabase
  \/ JobFor(o, k) \in Range(o_jobs)

\* An object that lasts and can be seen is reported, its query lost, or its job still to come;
\* every sample was selected by the list.
ObjInv ==
  /\ ObjTypes
  /\ \A s \in o_samples : SampleSound(s)
  /\ \A o \in o_lasting \ Unseen : Obj!Listed(o) =>
       \A k \in DOMAIN Obj!Definitions(Obj!Kind(o)) : Due(o, k)

LEMMA HeadOfConcat ==
  ASSUME NEW S, NEW s \in Seq(S), NEW t \in Seq(S), Len(s) = Len(t),
         NEW d, NEW e, <<d>> \o s = <<e>> \o t
  PROVE  d = e /\ s = t
  <1> DEFINE U == S \cup {d, e}
  <1>1. /\ <<d>> \in Seq(U) /\ <<e>> \in Seq(U) /\ s \in Seq(U) /\ t \in Seq(U)
        /\ Len(<<d>>) = 1 /\ Len(<<e>>) = 1 /\ Len(s) \in Nat
        /\ <<d>>[1] = d /\ <<e>>[1] = e
    <2>1. s \in Seq(U) /\ t \in Seq(U)
      BY SeqDef
    <2>2. \A x \in U : <<x>> \in Seq(U) /\ Len(<<x>>) = 1 /\ <<x>>[1] = x
      <3> HIDE DEF U
      <3> QED OBVIOUS
    <2> QED BY <2>1, <2>2, LenProperties
  <1> HIDE DEF U
  <1> DEFINE u == <<d>> \o s
             v == <<e>> \o t
  <1>2. /\ \A i \in 1 .. 1 + Len(s) : u[i] = IF i <= 1 THEN d ELSE s[i - 1]
        /\ \A i \in 1 .. 1 + Len(s) : v[i] = IF i <= 1 THEN e ELSE t[i - 1]
    <2>1. \A i \in 1 .. Len(<<d>>) + Len(s) :
            u[i] = IF i <= Len(<<d>>) THEN <<d>>[i] ELSE s[i - Len(<<d>>)]
      BY <1>1, ConcatProperties
    <2>2. \A i \in 1 .. Len(<<e>>) + Len(t) :
            v[i] = IF i <= Len(<<e>>) THEN <<e>>[i] ELSE t[i - Len(<<e>>)]
      BY <1>1, ConcatProperties
    <2> HIDE DEF u, v
    <2>3. /\ Len(<<d>>) = 1 /\ Len(<<e>>) = 1 /\ Len(s) = Len(t)
          /\ Len(s) \in Nat /\ <<d>>[1] = d /\ <<e>>[1] = e
      BY <1>1
    <2>4. \A i \in 1 .. 1 + Len(s) : u[i] = IF i <= 1 THEN <<d>>[i] ELSE s[i - 1]
      BY <2>1, <2>3
    <2>5. \A i \in 1 .. 1 + Len(s) : v[i] = IF i <= 1 THEN <<e>>[i] ELSE t[i - 1]
      BY <2>2, <2>3
    <2>6. \A i \in 1 .. 1 + Len(s) : i <= 1 => i = 1
      BY <2>3
    <2> QED BY <2>3, <2>4, <2>5, <2>6
  <1>3. u = v
    OBVIOUS
  <1> HIDE DEF u, v
  <1>4. d = e
    BY <1>1, <1>2, <1>3
  <1>5. ASSUME NEW i \in 1 .. Len(s) PROVE s[i] = t[i]
    <2>1. i + 1 \in 1 .. 1 + Len(s) /\ ~(i + 1 <= 1) /\ (i + 1) - 1 = i
      BY <1>1, <1>5
    <2> QED BY <1>2, <1>3, <2>1
  <1>6. s = t
    BY <1>1, <1>5, SeqEqual
  <1> QED BY <1>4, <1>6

\* Objects of one kind with one entity have the same names throughout.
LEMMA EntitiesDiffer ==
  ASSUME Obj!ListedAssumption, NEW o \in Objects, NEW p \in Objects,
         Obj!Kind(p) = Obj!Kind(o),
         Obj!Entity(Obj!Kind(o), o) = Obj!Entity(Obj!Kind(o), p)
  PROVE  o = p
  <1>1. /\ o = [db |-> o.db, path |-> o.path] /\ p = [db |-> p.db, path |-> p.path]
        /\ o.path \in Seq(Obj!Name) /\ p.path \in Seq(Obj!Name)
    BY KindOf
  <1> SUFFICES o.db = p.db /\ o.path = p.path
    BY <1>1
  <1>2. CASE Obj!Kind(o) = "pg-database"
    <2>1. o.path = <<>> /\ p.path = <<>>
      BY <1>2, KindOf
    <2>2. o.db = p.db
      BY <1>2 DEF Obj!Entity
    <2> QED BY <2>1, <2>2
  <1>3. CASE Obj!Kind(o) # "pg-database"
    <2>1. /\ Len(o.path) = Len(p.path) /\ Len(o.path) \in {2, 3}
      BY <1>3, KindOf
    <2> DEFINE a == o.path
               b == p.path
               n == Len(a) - 1
    <2>2. /\ Obj!Last(a) = Obj!Last(b)
          /\ <<o.db>> \o Obj!Front(a) = <<p.db>> \o Obj!Front(b)
      BY <1>3, KindOf DEF Obj!Entity
    <2>3. a[n + 1] = b[n + 1]
      BY <2>1, <2>2 DEF Obj!Last
    <2>4. ASSUME NEW c \in {a, b}
          PROVE  /\ Obj!Front(c) \in Seq(Obj!Name) /\ Len(Obj!Front(c)) = n
                 /\ \A i \in 1 .. n : Obj!Front(c)[i] = c[i]
      <3>1. \A i \in 1 .. n : c[i] \in Obj!Name
        BY <1>1, <2>1, <2>4, LenProperties
      <3>2. n \in Int /\ 1 \in Int /\ n >= 1 /\ Len(c) = n + 1
        <4>1. Len(c) = Len(a)
          BY <2>1, <2>4
        <4> HIDE DEF a
        <4>2. Len(a) \in {2, 3}
          BY <2>1 DEF a
        <4> QED BY <4>1, <4>2
      <3>3. Obj!Front(c) = SubSeq(c, 1, n)
        BY <3>2 DEF Obj!Front
      <3> HIDE DEF n
      <3> QED BY <3>1, <3>2, <3>3, SubSeqProperties
    <2>5. /\ Obj!Front(a) \in Seq(Obj!Name) /\ Obj!Front(b) \in Seq(Obj!Name)
          /\ Len(Obj!Front(a)) = Len(Obj!Front(b))
      BY <2>4
    <2>6. o.db = p.db /\ Obj!Front(a) = Obj!Front(b)
      <3> DEFINE s == Obj!Front(a)
                 t == Obj!Front(b)
                 d == o.db
                 e == p.db
      <3>1. <<d>> \o s = <<e>> \o t
        BY <2>2
      <3>2. s \in Seq(Obj!Name) /\ t \in Seq(Obj!Name) /\ Len(s) = Len(t)
        BY <2>5
      <3>3. d = e /\ s = t
        <4> HIDE DEF s, t, d, e
        <4> QED BY <3>1, <3>2, HeadOfConcat
      <3> QED BY <3>3
    <2>7. \A i \in 1 .. Len(a) : a[i] = b[i]
      <3>1. \A i \in 1 .. n : a[i] = b[i]
        BY <2>4, <2>6
      <3>2. \A i \in 1 .. Len(a) : i \in 1 .. n \/ i = n + 1
        BY <2>1
      <3> QED BY <2>3, <3>1, <3>2
    <2>8. a = b
      BY <1>1, <2>1, <2>7, SeqEqual
    <2> QED BY <2>6, <2>8
  <1> QED BY <1>2, <1>3

LEMMA ObjMeans ==
  ASSUME Obj!ListedAssumption, ObjInv
  PROVE  Obj!ListIsReported
  <1>1. Obj!ListedAreReported
    <2> SUFFICES ASSUME o_jobs = <<>>, NEW o \in o_lasting \ Unseen, Obj!Listed(o),
                        NEW k \in DOMAIN Obj!Definitions(Obj!Kind(o))
                 PROVE  Due(o, k) /\ JobFor(o, k) \notin Range(o_jobs)
      BY Zenon DEF Obj!ListedAreReported, Due
    <2>1. Range(o_jobs) = {}
      BY DEF Range
    <2> QED BY <2>1 DEF ObjInv
  <1>2. Obj!EntityOfItsOwn
    <2> SUFFICES ASSUME NEW s \in o_samples, NEW t \in o_samples, s.entity = t.entity
                 PROVE  \/ s.of = t.of
                        \/ /\ s.of \in Pools /\ t.of \in Pools
                           /\ s.of.database = t.of.database
      BY Zenon DEF Obj!EntityOfItsOwn
    <2>1. SampleSound(s) /\ SampleSound(t)
      BY DEF ObjInv
    <2>2. \A p : /\ Obj!Entity("pgbouncer", p).namespace = "pgbouncer"
                 /\ Obj!Entity("pgbouncer", p).name = p.database
      BY DEF Obj!Entity
    <2>3. ASSUME NEW o \in Objects
          PROVE  /\ Obj!Entity(Obj!Kind(o), o).namespace = Obj!Kind(o)
                 /\ Obj!Kind(o) # "pgbouncer"
      BY <2>3, KindOf DEF Obj!Entity
    <2>4. CASE s.of \in Pools /\ s.entity = Obj!Entity("pgbouncer", s.of)
      <3>1. t.entity.namespace = "pgbouncer"
        BY <2>2, <2>4
      <3>2. t.of \in Pools /\ t.entity = Obj!Entity("pgbouncer", t.of)
        BY <2>1, <2>3, <3>1 DEF SampleSound
      <3>3. s.entity.name = s.of.database /\ t.entity.name = t.of.database
        BY <2>2, <2>4, <3>2
      <3> QED BY <2>4, <3>2, <3>3
    <2>5. CASE s.of \in Objects /\ s.entity = Obj!Entity(Obj!Kind(s.of), s.of)
      <3> DEFINE o == s.of
                 p == t.of
      <3>1. /\ t.entity.namespace = Obj!Kind(o) /\ Obj!Kind(o) # "pgbouncer"
        BY <2>3, <2>5
      <3>2. p \in Objects /\ t.entity = Obj!Entity(Obj!Kind(p), p)
        BY <2>1, <2>2, <3>1 DEF SampleSound
      <3>3. Obj!Kind(p) = Obj!Kind(o)
        BY <2>3, <3>1, <3>2
      <3>4. o \in Objects /\ Obj!Entity(Obj!Kind(o), o) = Obj!Entity(Obj!Kind(o), p)
        BY <2>5, <3>2, <3>3
      <3> HIDE DEF o, p
      <3>5. o = p
        BY <3>2, <3>3, <3>4, EntitiesDiffer
      <3> QED BY <3>5 DEF o, p
    <2> QED BY <2>1, <2>4, <2>5 DEF SampleSound
  <1>3. Obj!DotlessOnlyListed
    <2> SUFFICES ASSUME NEW s \in o_samples, s.of \in Objects PROVE OnlyListed(s.of)
      BY Zenon DEF Obj!DotlessOnlyListed, OnlyListed
    <2>1. \A p \in Pools : p \notin Objects
      BY DEF Obj!ListedAssumption
    <2> QED BY <2>1 DEF ObjInv, SampleSound
  <1> QED BY <1>1, <1>2, <1>3 DEF Obj!ListIsReported

\* The jobs of a run have one for each definition of each listed object.
LEMMA JobsHaveAll ==
  ASSUME Obj!ListedAssumption, NEW l \in Lists,
         NEW tables \in Obj!SetToSeqs(DOMAIN l), NEW indexes \in Obj!SetToSeqs(DOMAIN l)
  PROVE  /\ Obj!Jobs(l, tables, indexes) \in Seq(ObjJob(l))
         /\ DOMAIN l # {} =>
              \A k \in DOMAIN Obj!Definitions("pg-database") :
                [kind |-> "pg-database", db |-> NoName,
                 def |-> Obj!Definitions("pg-database")[k]]
                  \in Range(Obj!Jobs(l, tables, indexes))
         /\ \A kind \in ListKinds, d \in DOMAIN l :
              Obj!Paths(l, d, kind) # {} =>
                \A k \in DOMAIN Obj!Definitions(kind) :
                  \/ kind = "pg-table" /\ \E e \in DOMAIN l : l[e] = {}
                  \/ [kind |-> kind, db |-> d, def |-> Obj!Definitions(kind)[k]]
                       \in Range(Obj!Jobs(l, tables, indexes))
  <1> DEFINE Jobs(kind) == Obj!ServerJobs(kind)
             before == Obj!BeforeEmpty(l, tables)
             first == IF DOMAIN l = {} THEN <<>> ELSE Jobs("pg-database")
             second == Obj!JobsOf(l, before, "pg-table")
             third == Obj!JobsOf(l, indexes, "pg-index")
             last == Jobs("pgbouncer")
             Job(kind, d, k) == [kind |-> kind, db |-> d, def |-> Obj!Definitions(kind)[k]]
  <1>1. IsFiniteSet(DOMAIN l)
    BY SameLists DEF Obj!ListedAssumption
  <1>2. /\ tables \in Seq(DOMAIN l) /\ Range(tables) = DOMAIN l
        /\ indexes \in Seq(DOMAIN l) /\ Range(indexes) = DOMAIN l
    BY <1>1, Orders
  <1>3. /\ before \in Seq(DOMAIN l)
        /\ (\A d \in DOMAIN l : l[d] # {}) => before = tables
    BY <1>2, BeforeEmptyIs
  <1>4. ASSUME NEW kind \in {"pg-database", "pgbouncer"}
        PROVE  /\ Jobs(kind) \in Seq(ObjJob(l))
               /\ \A k \in DOMAIN Obj!Definitions(kind) :
                    Job(kind, NoName, k) \in Range(Jobs(kind))
    <2> DEFINE defs == Obj!Definitions(kind)
    <2>1. /\ kind \in JobKinds /\ kind \notin ListKinds
          /\ DOMAIN defs = 1 .. Len(defs) /\ Len(defs) \in Nat
          /\ \A k \in DOMAIN defs : defs[k] \in JobDefs /\ defs[k] \in Range(defs)
      BY <1>4, DefinitionsAre DEF JobKinds, ListKinds
    <2>2. \A k \in DOMAIN defs :
            [kind |-> kind, db |-> NoName, def |-> defs[k]] \in ObjJob(l)
      BY <2>1 DEF ObjJob
    <2>3. Jobs(kind) = [k \in DOMAIN defs |-> [kind |-> kind, db |-> NoName, def |-> defs[k]]]
      BY DEF Obj!ServerJobs
    <2>4. Jobs(kind) \in Seq(ObjJob(l))
      BY <2>1, <2>2, <2>3, IsASeq
    <2> HIDE DEF defs
    <2>5. \A k \in DOMAIN defs :
            [kind |-> kind, db |-> NoName, def |-> defs[k]] \in Range(Jobs(kind))
      BY <2>3 DEF Range
    <2> QED BY <2>4, <2>5 DEF defs
  <1>5. "pg-table" \in ListKinds /\ "pg-index" \in ListKinds
    BY DEF ListKinds
  <1>6. /\ second \in Seq(ObjJob(l))
        /\ \A d \in Range(before) : Obj!Paths(l, d, "pg-table") # {} =>
             \A k \in DOMAIN Obj!Definitions("pg-table") :
               Job("pg-table", d, k) \in Range(second)
    BY <1>3, <1>5, JobsOfLoop
  <1>7. /\ third \in Seq(ObjJob(l))
        /\ \A d \in Range(indexes) : Obj!Paths(l, d, "pg-index") # {} =>
             \A k \in DOMAIN Obj!Definitions("pg-index") :
               Job("pg-index", d, k) \in Range(third)
    BY <1>2, <1>5, JobsOfLoop
  <1>8. first \in Seq(ObjJob(l)) /\ last \in Seq(ObjJob(l))
    <2>1. <<>> \in Seq(ObjJob(l))
      BY EmptySeq
    <2> QED BY <1>4, <2>1
  <1>9. DOMAIN l # {} => first = Jobs("pg-database")
    OBVIOUS
  <1>10. Obj!Jobs(l, tables, indexes) = first \o second \o third \o last
    BY DEF Obj!Jobs
  <1> HIDE DEF Jobs, first, second, third, last, before
  <1>11. /\ first \o second \in Seq(ObjJob(l))
         /\ Range(first \o second) = Range(first) \cup Range(second)
    BY <1>6, <1>8, RangeConcat
  <1> DEFINE two == first \o second
             three == two \o third
  <1>12. two \in Seq(ObjJob(l)) /\ Range(two) = Range(first) \cup Range(second)
    BY <1>11
  <1> HIDE DEF two
  <1>13. three \in Seq(ObjJob(l)) /\ Range(three) = Range(two) \cup Range(third)
    BY <1>7, <1>12, RangeConcat
  <1> HIDE DEF three
  <1>14. /\ three \o last \in Seq(ObjJob(l))
         /\ Range(three \o last) = Range(three) \cup Range(last)
    BY <1>8, <1>13, RangeConcat
  <1>15. Obj!Jobs(l, tables, indexes) = three \o last
    BY <1>10 DEF two, three
  <1>16. ASSUME NEW kind \in ListKinds, NEW d \in DOMAIN l,
                Obj!Paths(l, d, kind) # {}, NEW k \in DOMAIN Obj!Definitions(kind)
         PROVE  \/ kind = "pg-table" /\ \E e \in DOMAIN l : l[e] = {}
                \/ Job(kind, d, k) \in Range(second) \cup Range(third)
    <2> HIDE DEF Job
    <2>1. CASE kind = "pg-index"
      BY <1>2, <1>7, <1>16, <2>1
    <2>2. CASE kind = "pg-table" /\ \A e \in DOMAIN l : l[e] # {}
      BY <1>2, <1>3, <1>6, <1>16, <2>2
    <2>3. CASE kind = "pg-table" /\ \E e \in DOMAIN l : l[e] = {}
      BY <2>3
    <2>4. kind = "pg-index" \/ kind = "pg-table"
      BY DEF ListKinds
    <2> QED BY <2>1, <2>2, <2>3, <2>4
  <1>17. \A k \in DOMAIN Obj!Definitions("pg-database") :
           DOMAIN l # {} => Job("pg-database", NoName, k) \in Range(first)
    BY <1>4, <1>9
  <1> DEFINE all == Obj!Jobs(l, tables, indexes)
  <1>18. /\ all \in Seq(ObjJob(l))
         /\ Range(first) \subseteq Range(all) /\ Range(second) \subseteq Range(all)
         /\ Range(third) \subseteq Range(all)
    BY <1>12, <1>13, <1>14, <1>15
  <1> HIDE DEF all
  <1> QED BY <1>16, <1>17, <1>18 DEF all

LEMMA ObjInit ==
  ASSUME Obj!ListedAssumption, Obj!Init
  PROVE  ObjInv
  <1>1. /\ o_list \in Lists /\ o_catalog = Objects /\ o_lasting = Objects /\ o_samples = {}
    BY DEF Obj!Init
  <1>2. PICK tables, indexes \in Obj!SetToSeqs(DOMAIN o_list) :
          o_jobs = Obj!Jobs(o_list, tables, indexes)
    BY DEF Obj!Init
  <1>3. ASSUME NEW o \in o_lasting \ Unseen, Obj!Listed(o),
               NEW k \in DOMAIN Obj!Definitions(Obj!Kind(o))
        PROVE  Due(o, k)
    <2>1. /\ o \in Objects /\ o.db \in DOMAIN o_list
          /\ o.path = <<>> \/ o.path \in o_list[o.db]
      BY <1>1, <1>3 DEF Obj!Listed
    <2>2. CASE Obj!Kind(o) = "pg-database"
      <3>1. JobFor(o, k) = [kind |-> "pg-database", db |-> NoName,
                            def |-> Obj!Definitions("pg-database")[k]]
        BY <2>2 DEF JobFor
      <3>2. JobFor(o, k) \in Range(o_jobs)
        BY <1>1, <1>2, <1>3, <2>1, <2>2, <3>1, JobsHaveAll
      <3> QED BY <3>2 DEF Due
    <2>3. CASE Obj!Kind(o) # "pg-database"
      <3> DEFINE kind == Obj!Kind(o)
      <3>1. /\ kind \in ListKinds
            /\ Len(o.path) = IF kind = "pg-table" THEN 2 ELSE 3
        BY <2>1, <2>3, KindOf DEF ListKinds
      <3>2. o.path \in o_list[o.db]
        BY <2>1, <2>3, KindOf
      <3>3. Obj!Paths(o_list, o.db, kind) # {}
        BY <3>1, <3>2 DEF Obj!Paths
      <3>4. JobFor(o, k) = [kind |-> kind, db |-> o.db, def |-> Obj!Definitions(kind)[k]]
        BY <2>3 DEF JobFor
      <3>5. \/ kind = "pg-table" /\ \E e \in DOMAIN o_list : o_list[e] = {}
            \/ JobFor(o, k) \in Range(o_jobs)
        <4> HIDE DEF kind
        <4>1. k \in DOMAIN Obj!Definitions(kind)
          BY <1>3 DEF kind
        <4> QED BY <1>1, <1>2, <2>1, <3>1, <3>3, <3>4, <4>1, JobsHaveAll
      <3> QED BY <3>5 DEF Due, Obj!NoEmptyDatabase
    <2> QED BY <2>2, <2>3
  <1>4. o_jobs \in Seq(ObjJob(o_list))
    BY <1>1, <1>2, JobsHaveAll
  <1> QED BY <1>1, <1>3, <1>4 DEF ObjInv, ObjTypes

\* What an answer brings was selected by the list.
LEMMA AnswerSound ==
  ASSUME Obj!ListedAssumption, ObjTypes, NEW j \in ObjJob(o_list),
         NEW rows \in Obj!Answers(j), NEW o \in rows
  PROVE  SampleSound([def |-> j.def, entity |-> Obj!Entity(j.kind, o), of |-> o])
  <1> DEFINE s == [def |-> j.def, entity |-> Obj!Entity(j.kind, o), of |-> o]
  <1>0. s.of = o /\ s.entity = Obj!Entity(j.kind, o)
    OBVIOUS
  <1> HIDE DEF s
  <1>1. CASE j.kind = "pgbouncer"
    <2>1. o \in Pools /\ o.database # NoName
      BY <1>1 DEF Obj!Answers
    <2> QED BY <1>0, <1>1, <2>1 DEF SampleSound, s
  <1>2. CASE j.kind # "pgbouncer"
    <2>1. o \in o_catalog /\ Obj!Selected(j, o)
      BY <1>2 DEF Obj!Answers
    <2>2. o \in Objects /\ Obj!Kind(o) = j.kind
      BY <2>1 DEF ObjTypes, Obj!Selected
    <2>3. OnlyListed(o)
      <3>1. CASE j.kind = "pg-database"
        <4>1. o.path = <<>> /\ o.db \in DOMAIN o_list
          BY <2>1, <2>2, <3>1, KindOf DEF Obj!Selected
        <4> QED BY <4>1 DEF OnlyListed, Obj!Listed
      <3>2. CASE j.kind # "pg-database"
        <4>1. /\ o.db = j.db
              /\ Obj!Key(o.path) \in Obj!Keys(j.db, j.kind)
          BY <2>1, <3>2 DEF Obj!Selected
        <4>2. j.kind \in ListKinds /\ j.db \in DOMAIN o_list
          BY <1>2, <3>2 DEF ObjJob, JobKinds, ListKinds
        <4>3. PICK p \in Obj!Paths(o_list, j.db, j.kind) : Obj!Key(p) = Obj!Key(o.path)
          BY <4>1 DEF Obj!Keys
        <4>4. /\ p \in o_list[o.db]
              /\ Len(p) = IF j.kind = "pg-table" THEN 2 ELSE 3
          BY <4>1, <4>3 DEF Obj!Paths
        <4>5. p \in Seq(Obj!Name)
          BY <4>1, <4>2, <4>4 DEF Obj!ListedAssumption, ObjTypes
        <4>6. /\ o.path \in Seq(Obj!Name) /\ Len(o.path) \in {2, 3}
              /\ Len(o.path) = IF j.kind = "pg-table" THEN 2 ELSE 3
          BY <2>2, <4>2, KindOf DEF ListKinds
        <4>7. o.path = p \/ (~Obj!Dotless(o.path) /\ ~Obj!Dotless(p))
          BY <4>3, <4>4, <4>5, <4>6, KeysBlur
        <4> QED BY <4>1, <4>2, <4>3, <4>4, <4>7 DEF OnlyListed, Obj!Listed
      <3> QED BY <3>1, <3>2
    <2> QED BY <1>0, <2>2, <2>3 DEF SampleSound, s
  <1> QED BY <1>1, <1>2 DEF s

LEMMA HeadFirst ==
  ASSUME NEW S, NEW s \in Seq(S), s # <<>>
  PROVE  /\ Head(s) \in S /\ Head(s) \in Range(s)
         /\ Tail(s) \in Seq(S)
         /\ Range(s) = {Head(s)} \cup Range(Tail(s))
  <1>1. /\ DOMAIN s = 1 .. Len(s) /\ Len(s) \in Nat \ {0}
        /\ \A i \in DOMAIN s : s[i] \in S
    BY LenProperties, EmptySeq
  <1>2. /\ Tail(s) \in Seq(S) /\ Len(Tail(s)) = Len(s) - 1
        /\ \A i \in 1 .. Len(s) - 1 : Tail(s)[i] = s[i + 1]
        /\ Head(s) = s[1]
    BY HeadTailProperties
  <1>3. DOMAIN Tail(s) = 1 .. Len(s) - 1
    BY <1>2, LenProperties
  <1>4. 1 \in DOMAIN s /\ \A i \in DOMAIN s : i = 1 \/ i - 1 \in DOMAIN Tail(s)
    BY <1>1, <1>3
  <1>5. ASSUME NEW i \in DOMAIN s PROVE s[i] \in {Head(s)} \cup Range(Tail(s))
    <2>1. CASE i = 1
      BY <1>2, <2>1
    <2>2. CASE i # 1
      <3>1. i - 1 \in DOMAIN Tail(s) /\ Tail(s)[i - 1] = s[i]
        BY <1>1, <1>2, <1>3, <1>4, <1>5, <2>2
      <3> QED BY <3>1, Zenon DEF Range
    <2> QED BY <2>1, <2>2
  <1>6. Head(s) \in Range(s)
    BY <1>2, <1>4 DEF Range
  <1>7. ASSUME NEW i \in DOMAIN Tail(s) PROVE Tail(s)[i] \in Range(s)
    <2>1. i + 1 \in DOMAIN s /\ Tail(s)[i] = s[i + 1]
      BY <1>1, <1>2, <1>3, <1>7
    <2> QED BY <2>1, Zenon DEF Range
  <1>8. Range(s) \subseteq {Head(s)} \cup Range(Tail(s))
    BY <1>5 DEF Range
  <1>9. Range(Tail(s)) \subseteq Range(s)
    BY <1>7 DEF Range
  <1> QED BY <1>1, <1>2, <1>4, <1>6, <1>8, <1>9

LEMMA ObjAnswer ==
  ASSUME Obj!ListedAssumption, ObjInv, Obj!Answer
  PROVE  ObjInv'
  <1> DEFINE j == Head(o_jobs)
             New(rows) == {[def |-> j.def, entity |-> Obj!Entity(j.kind, o), of |-> o]
                             : o \in rows}
  <1>1. /\ o_jobs # <<>> /\ o_jobs' = Tail(o_jobs)
        /\ o_list' = o_list /\ o_catalog' = o_catalog /\ o_lasting' = o_lasting
        /\ o_failed' = o_failed
    BY DEF Obj!Answer
  <1>2. PICK rows \in Obj!Answers(j) : o_samples' = o_samples \cup New(rows)
    BY DEF Obj!Answer
  <1>3. /\ j \in ObjJob(o_list) /\ Tail(o_jobs) \in Seq(ObjJob(o_list))
        /\ Range(o_jobs) = {j} \cup Range(o_jobs')
    BY <1>1, HeadFirst DEF ObjInv, ObjTypes
  <1> HIDE DEF j
  <1>4. ObjTypes'
    BY <1>1, <1>3 DEF ObjInv, ObjTypes, ObjJob
  <1>5. \A s : SampleSound(s) => SampleSound(s)'
    BY <1>1 DEF SampleSound, OnlyListed, Obj!Listed
  <1>6. ASSUME NEW s \in o_samples' PROVE SampleSound(s)
    <2>1. CASE s \in o_samples
      BY <2>1 DEF ObjInv
    <2>2. CASE s \in New(rows)
      BY <1>3, <2>2, AnswerSound DEF ObjInv
    <2> QED BY <1>2, <1>6, <2>1, <2>2
  <1>7. ASSUME NEW o \in o_lasting \ Unseen, Obj!Listed(o),
               NEW k \in DOMAIN Obj!Definitions(Obj!Kind(o))
        PROVE  Due(o, k)'
    <2> DEFINE def == Obj!Definitions(Obj!Kind(o))[k]
    <2>1. Due(o, k)
      BY <1>7 DEF ObjInv
    <2>2. Obj!Reported(o, def) => Obj!Reported(o, def)'
      BY <1>2 DEF Obj!Reported
    <2>3. Obj!Lost(o, k) <=> Obj!Lost(o, k)'
      BY <1>1 DEF Obj!Lost
    <2>4. Obj!NoEmptyDatabase <=> Obj!NoEmptyDatabase'
      BY <1>1 DEF Obj!NoEmptyDatabase
    <2>5. CASE def \in Obj!Sparse \/ JobFor(o, k) # j
      <3>1. JobFor(o, k) \in Range(o_jobs) /\ JobFor(o, k) # j => JobFor(o, k) \in Range(o_jobs')
        BY <1>3
      <3>2. JobFor(o, k)' = JobFor(o, k)
        BY DEF JobFor
      <3> HIDE DEF def
      <3> QED BY <2>1, <2>2, <2>3, <2>4, <2>5, <3>1, <3>2 DEF Due, def
    <2>6. CASE def \notin Obj!Sparse /\ JobFor(o, k) = j
      <3>1. /\ o \in o_catalog /\ o \in Objects
            /\ o.db \in DOMAIN o_list /\ (o.path = <<>> \/ o.path \in o_list[o.db])
        BY <1>7 DEF ObjInv, ObjTypes, Obj!Listed
      <3>2. /\ j.kind = Obj!Kind(o) /\ j.def = def
            /\ j.db = IF Obj!Kind(o) = "pg-database" THEN NoName ELSE o.db
        BY <2>6 DEF JobFor
      <3>3. Obj!Selected(j, o)
        <4>1. CASE j.kind = "pg-database"
          BY <3>1, <3>2, <4>1 DEF Obj!Selected
        <4>2. CASE j.kind # "pg-database"
          <5>1. /\ o.path \in o_list[o.db]
                /\ Len(o.path) = IF j.kind = "pg-table" THEN 2 ELSE 3
            <6>1. o.path # <<>>
              BY <3>1, <3>2, <4>2, KindOf
            <6>2. Len(o.path) = IF Obj!Kind(o) = "pg-table" THEN 2 ELSE 3
              BY <3>1, <3>2, <4>2, KindOf
            <6> QED BY <3>1, <3>2, <6>1, <6>2
          <5>2. Obj!Key(o.path) \in Obj!Keys(o.db, j.kind)
            BY <5>1 DEF Obj!Keys, Obj!Paths
          <5> QED BY <3>2, <4>2, <5>2 DEF Obj!Selected
        <4> QED BY <4>1, <4>2
      <3>4. j.kind # "pgbouncer"
        BY <3>1, <3>2, KindOf
      <3>5. rows = {p \in o_catalog : Obj!Selected(j, p)}
        BY <2>6, <3>2, <3>4 DEF Obj!Answers
      <3>6. o \in rows
        BY <3>1, <3>3, <3>5
      <3>7. [def |-> j.def, entity |-> Obj!Entity(j.kind, o), of |-> o] \in o_samples'
        BY <1>2, <3>6
      <3>8. Obj!Reported(o, def)'
        <4> DEFINE s == [def |-> j.def, entity |-> Obj!Entity(j.kind, o), of |-> o]
        <4>1. s.of = o /\ s.def = def /\ s \in o_samples'
          BY <3>2, <3>7
        <4> HIDE DEF s, def
        <4> QED BY <4>1 DEF Obj!Reported
      <3> QED BY <3>8 DEF Due
    <2> QED BY <2>5, <2>6
  <1>8. \A o : Obj!Listed(o)' <=> Obj!Listed(o)
    BY <1>1 DEF Obj!Listed
  <1> HIDE DEF New
  <1> QED BY <1>1, <1>4, <1>5, <1>6, <1>7, <1>8 DEF ObjInv

LEMMA ObjFail ==
  ASSUME Obj!ListedAssumption, ObjInv, Obj!Fail
  PROVE  ObjInv'
  <1> DEFINE j == Head(o_jobs)
             l == Len(o_jobs)
  <1>1. /\ o_jobs # <<>> /\ o_failed' = o_failed \cup {j}
        /\ o_list' = o_list /\ o_catalog' = o_catalog /\ o_lasting' = o_lasting
        /\ o_samples' = o_samples
    BY DEF Obj!Fail
  <1>2. PICK n \in 1 .. l :
          /\ IF j.kind = "pg-database" THEN n = 1 ELSE Obj!TurnIs(n)
          /\ o_jobs' = SubSeq(o_jobs, n + 1, l)
    BY DEF Obj!Fail
  <1>3. /\ o_jobs \in Seq(ObjJob(o_list)) /\ l \in Nat /\ DOMAIN o_jobs = 1 .. l
        /\ \A i \in 1 .. l : o_jobs[i] \in ObjJob(o_list)
        /\ j = o_jobs[1] /\ j \in ObjJob(o_list)
    BY <1>1, LenProperties, HeadFirst DEF ObjInv, ObjTypes
  <1> HIDE DEF j, l
  <1>4. /\ o_jobs' \in Seq(ObjJob(o_list)) /\ Len(o_jobs') = l - n
        /\ \A i \in 1 .. l - n : o_jobs'[i] = o_jobs[n + i]
    <2>1. n + 1 \in Int /\ l \in Int /\ n <= l /\ \A i \in n + 1 .. l : o_jobs[i] \in ObjJob(o_list)
      BY <1>3
    <2>2. /\ SubSeq(o_jobs, n + 1, l) \in Seq(ObjJob(o_list))
          /\ Len(SubSeq(o_jobs, n + 1, l)) = IF n + 1 <= l THEN l - (n + 1) + 1 ELSE 0
          /\ \A i \in 1 .. l - (n + 1) + 1 :
               SubSeq(o_jobs, n + 1, l)[i] = o_jobs[(n + 1) + i - 1]
      BY <2>1, SubSeqProperties
    <2>3. \A i \in Int : (n + 1) + i - 1 = n + i
      OBVIOUS
    <2>4. l - (n + 1) + 1 = l - n
      BY <1>3
    <2>5. (IF n + 1 <= l THEN l - (n + 1) + 1 ELSE 0) = l - n
      BY <1>3
    <2>6. o_jobs' \in Seq(ObjJob(o_list)) /\ Len(o_jobs') = l - n
      BY <1>2, <2>2, <2>5
    <2>7. ASSUME NEW i \in 1 .. l - n PROVE o_jobs'[i] = o_jobs[n + i]
      <3>1. i \in 1 .. l - (n + 1) + 1
        BY <2>4
      <3>2. o_jobs'[i] = o_jobs[(n + 1) + i - 1]
        BY <1>2, <2>2, <3>1
      <3> QED BY <2>3, <3>2
    <2> QED BY <2>6, <2>7
  <1>5. ASSUME NEW i \in 1 .. l, i > n PROVE o_jobs[i] \in Range(o_jobs')
    <2>1. i - n \in DOMAIN o_jobs' /\ o_jobs'[i - n] = o_jobs[i]
      <3>1. DOMAIN o_jobs' = 1 .. l - n
        BY <1>4, LenProperties
      <3>2. i - n \in 1 .. l - n /\ n + (i - n) = i
        BY <1>3, <1>5
      <3> QED BY <1>4, <3>1, <3>2
    <2> QED BY <2>1, Zenon DEF Range
  <1>6. ASSUME NEW i \in 1 .. l, i <= n
        PROVE  o_jobs[i] = j \/ (j.kind # "pg-database" /\ Obj!SameLoopTurn(o_jobs[i], j))
    <2>1. CASE j.kind = "pg-database"
      <3>1. i = 1
        BY <1>2, <1>3, <1>6, <2>1
      <3> QED BY <1>3, <3>1
    <2>2. CASE j.kind # "pg-database"
      <3>1. \A m \in 1 .. n : Obj!SameLoopTurn(o_jobs[m], j)
        BY <1>2, <2>2 DEF Obj!TurnIs, j
      <3> QED BY <1>3, <1>6, <2>2, <3>1
    <2> QED BY <2>1, <2>2
  <1>7. ObjTypes'
    BY <1>1, <1>4 DEF ObjInv, ObjTypes, ObjJob
  <1>8. \A s : SampleSound(s) => SampleSound(s)'
    BY <1>1 DEF SampleSound, OnlyListed, Obj!Listed
  <1>9. ASSUME NEW o \in o_lasting \ Unseen, Obj!Listed(o),
               NEW k \in DOMAIN Obj!Definitions(Obj!Kind(o))
        PROVE  Due(o, k)'
    <2> DEFINE kind == Obj!Kind(o)
               def == Obj!Definitions(kind)[k]
    <2>1. Due(o, k)
      BY <1>9 DEF ObjInv
    <2>2. Obj!Reported(o, def) <=> Obj!Reported(o, def)'
      BY <1>1 DEF Obj!Reported
    <2>3. Obj!Lost(o, k) => Obj!Lost(o, k)'
      BY <1>1 DEF Obj!Lost
    <2>4. Obj!NoEmptyDatabase <=> Obj!NoEmptyDatabase'
      BY <1>1 DEF Obj!NoEmptyDatabase
    <2>5. CASE JobFor(o, k) \notin Range(o_jobs) \/ JobFor(o, k) \in Range(o_jobs')
      <3>1. JobFor(o, k)' = JobFor(o, k)
        BY DEF JobFor
      <3> QED BY <2>1, <2>2, <2>3, <2>4, <2>5, <3>1 DEF Due
    <2>6. CASE JobFor(o, k) \in Range(o_jobs) /\ JobFor(o, k) \notin Range(o_jobs')
      <3>1. PICK i \in 1 .. l : o_jobs[i] = JobFor(o, k)
        BY <1>3, <2>6 DEF Range
      <3>2. i <= n
        BY <1>3, <1>5, <2>6, <3>1
      <3>3. \/ JobFor(o, k) = j
            \/ j.kind # "pg-database" /\ Obj!SameLoopTurn(JobFor(o, k), j)
        BY <1>6, <3>1, <3>2
      <3>4. /\ JobFor(o, k).kind = kind /\ JobFor(o, k).def = def
            /\ kind # "pg-database" => JobFor(o, k).db = o.db
        BY DEF JobFor
      <3>5. j.kind = kind
        BY <3>3, <3>4 DEF Obj!SameLoopTurn
      <3>6. o \in Objects
        BY <1>9 DEF ObjInv, ObjTypes
      <3>7. CASE kind = "pg-database"
        <4>1. j.def = def
          BY <3>3, <3>4, <3>5, <3>7
        <4>2. Obj!Lost(o, k)'
          BY <1>1, <3>5, <3>7, <4>1 DEF Obj!Lost
        <4> QED BY <4>2 DEF Due
      <3>8. CASE kind = "pg-index" \/ kind = "pg-table"
        <4>1. j.db = o.db
          BY <3>3, <3>4, <3>8 DEF Obj!SameLoopTurn
        <4>2. j.def \in Range(Obj!Definitions(kind))
          BY <1>3, <3>5 DEF ObjJob
        <4>3. CASE kind = "pg-table" /\ k = 1
          <5>1. def \in Obj!Sparse
            BY <4>3, DefinitionsAre DEF Obj!Sparse, JobKinds, ListKinds
          <5> QED BY <5>1 DEF Due
        <4>4. CASE kind = "pg-index" \/ k # 1
          <5>1. \E m \in 1 .. k : Obj!Definitions(kind)[m] = j.def
            <6>1. kind \in JobKinds
              BY <3>8 DEF JobKinds, ListKinds
            <6>2. /\ kind = "pg-table" => Obj!Definitions(kind) = <<"tableBloatPostV12", "table">>
                  /\ kind = "pg-index" => Obj!Definitions(kind) = <<"index">>
              BY <6>1, DefinitionsAre
            <6>3. PICK m \in DOMAIN Obj!Definitions(kind) : Obj!Definitions(kind)[m] = j.def
              BY <4>2 DEF Range
            <6>4. k \in DOMAIN Obj!Definitions(kind)
              BY <1>9
            <6>5. /\ kind = "pg-table" => m \in 1 .. 2 /\ k \in 1 .. 2
                  /\ kind = "pg-index" => m \in 1 .. 1 /\ k \in 1 .. 1
              BY <6>2, <6>3, <6>4
            <6>6. m \in 1 .. k
              BY <3>8, <4>4, <6>5
            <6> QED BY <6>3, <6>6
          <5>2. /\ j \in o_failed' /\ j.kind = Obj!Kind(o) /\ j.kind # "pg-database"
            BY <1>1, <3>5, <3>8
          <5>3. Obj!Lost(o, k)'
            BY <3>5, <4>1, <5>1, <5>2 DEF Obj!Lost
          <5> QED BY <5>3 DEF Due
        <4> QED BY <3>8, <4>3, <4>4
      <3> QED BY <3>6, <3>7, <3>8, KindOf
    <2> QED BY <2>5, <2>6
  <1>10. \A o : Obj!Listed(o)' <=> Obj!Listed(o)
    BY <1>1 DEF Obj!Listed
  <1> QED BY <1>1, <1>7, <1>8, <1>9, <1>10 DEF ObjInv

\* Objects come and go: fewer have lasted, and nothing else changes.
LEMMA ObjOthers ==
  ASSUME ObjInv, o_lasting' \subseteq o_lasting, o_lasting' \subseteq o_catalog',
         o_catalog' \subseteq Objects,
         UNCHANGED <<o_list, o_jobs, o_samples, o_failed>>
  PROVE  ObjInv'
  <1>1. ObjTypes'
    BY DEF ObjInv, ObjTypes, ObjJob
  <1>2. \A s : SampleSound(s) => SampleSound(s)'
    BY DEF SampleSound, OnlyListed, Obj!Listed
  <1>3. \A o, k : Due(o, k) => Due(o, k)'
    BY DEF Due, JobFor, Obj!Reported, Obj!Lost, Obj!NoEmptyDatabase
  <1>4. \A o : Obj!Listed(o)' <=> Obj!Listed(o)
    BY DEF Obj!Listed
  <1> QED BY <1>1, <1>2, <1>3, <1>4 DEF ObjInv

LEMMA ObjStep ==
  ASSUME Obj!ListedAssumption, ObjInv, [Obj!Next]_(Obj!vars)
  PROVE  ObjInv'
  <1>1. CASE Obj!Answer
    BY <1>1, ObjAnswer
  <1>2. CASE Obj!Fail
    BY <1>2, ObjFail
  <1>3. ASSUME NEW o \in Objects, Obj!Drop(o) PROVE ObjInv'
    BY <1>3, ObjOthers DEF Obj!Drop, ObjInv, ObjTypes
  <1>4. ASSUME NEW o \in Objects, Obj!Create(o) PROVE ObjInv'
    BY <1>4, ObjOthers DEF Obj!Create, ObjInv, ObjTypes
  <1>5. CASE UNCHANGED Obj!vars
    BY <1>5, ObjOthers DEF Obj!vars, ObjInv, ObjTypes
  <1> QED BY <1>1, <1>2, <1>3, <1>4, <1>5 DEF Obj!Next

\* Names are not empty, and the changes are counted.
LEMMA ObjTyped ==
  ASSUME Obj!ListedAssumption, ObjInv, o_changes \in 0 .. MaxChanges
  PROVE  Obj!TypeOK
  <1>1. ASSUME NEW s \in o_samples
        PROVE  s.of \in Objects \cup Pools /\ s.entity.name # NoName
    <2>1. SampleSound(s)
      BY DEF ObjInv
    <2>2. CASE /\ s.of \in Pools /\ s.of.database # NoName
               /\ s.entity = Obj!Entity("pgbouncer", s.of)
      BY <2>2 DEF Obj!Entity
    <2>3. CASE s.of \in Objects /\ s.entity = Obj!Entity(Obj!Kind(s.of), s.of)
      <3> DEFINE o == s.of
      <3>1. /\ o.db \in Obj!Name /\ o.path \in Seq(Obj!Name)
            /\ Len(o.path) \in {0, 2, 3}
        BY <2>3, KindOf
      <3>2. o.db # NoName /\ \A n \in Obj!Name : n # NoName
        BY <3>1 DEF Obj!Name
      <3>3. CASE Obj!Kind(o) = "pg-database"
        <4>1. s.entity.name = o.db
          BY <2>3, <3>3 DEF Obj!Entity
        <4> QED BY <2>3, <3>2, <4>1
      <3>4. CASE Obj!Kind(o) # "pg-database"
        <4>1. /\ o.path # <<>> /\ Obj!Kind(o) # "pgbouncer"
              /\ Obj!Kind(o) \in {"pg-table", "pg-index"}
          BY <2>3, <3>1, <3>4, KindOf DEF Obj!Kind
        <4>2. s.entity.name = Obj!Last(o.path)
          BY <2>3, <3>4, <4>1 DEF Obj!Entity
        <4>3. Obj!Last(o.path) \in Obj!Name
          <5>1. Len(o.path) \in 1 .. Len(o.path)
            BY <3>1, <4>1
          <5> QED BY <3>1, <5>1 DEF Obj!Last
        <4> QED BY <2>3, <3>2, <4>2, <4>3
      <3> QED BY <3>3, <3>4
    <2> QED BY <2>1, <2>2, <2>3 DEF SampleSound
  <1> QED BY <1>1 DEF ObjInv, ObjTypes, Obj!TypeOK

LEMMA ChangesStep ==
  ASSUME Obj!ListedAssumption, o_changes \in 0 .. MaxChanges, [Obj!Next]_(Obj!vars)
  PROVE  o_changes' \in 0 .. MaxChanges
  <1>1. o_changes' = o_changes \/ (o_changes < MaxChanges /\ o_changes' = o_changes + 1)
    BY DEF Obj!Next, Obj!Answer, Obj!Fail, Obj!Drop, Obj!Create, Obj!vars
  <1>2. MaxChanges \in Nat
    BY DEF Obj!ListedAssumption
  <1> QED BY <1>1, <1>2

-----------------------------------------------------------------------------
(* The parts together *)

PartsInv ==
  /\ part = "version" => VersionInv
  /\ part = "text" => TextInv
  /\ part = "objects" => ObjInv /\ o_changes \in 0 .. MaxChanges
  /\ part = "connection" => ConnInv
  /\ part = "parameters" => ParamInv
  /\ part = "locks" => LockInv

\* Each part keeps its invariant whatever it does, and rests while another acts.
THEOREM Inductive == Spec => []PartsInv
  <1> USE PartsAssumption
  <1> USE DEF PartsAssumption
  <1>1. Init => PartsInv
    <2>1. Version!Init => VersionInv
      BY VersionInit
    <2>2. Text!Init => TextInv
      BY TextInit
    <2>3. Obj!Init => ObjInv /\ o_changes \in 0 .. MaxChanges
      BY ObjInit DEF Obj!Init, Obj!ListedAssumption
    <2>4. Conn!Init => ConnInv
      BY ConnInit
    <2>5. Parameters!Init => ParamInv
      BY ParamInit
    <2>6. Locks!Init => LockInv
      BY LockInit
    <2> QED BY <2>1, <2>2, <2>3, <2>4, <2>5, <2>6 DEF Init, PartsInv
  <1>2. PartsInv /\ [Next]_vars => PartsInv'
    <2> SUFFICES ASSUME PartsInv, [Next]_vars PROVE PartsInv'
      OBVIOUS
    <2>1. ASSUME part' = "version" PROVE VersionInv'
      <3>1. part = "version" /\ [Version!Next]_(Version!vars)
        BY <2>1 DEF Next, vars, VersionStep, TextStep, ObjectsStep, ConnectionStep,
                    ParametersStep, LocksStep, versionVars, Version!vars
      <3>2. VersionInv
        BY <3>1 DEF PartsInv
      <3> QED BY <3>1, <3>2, VersionNext
    <2>2. ASSUME part' = "text" PROVE TextInv'
      <3>1. part = "text" /\ [Text!Next]_(Text!vars)
        BY <2>2 DEF Next, vars, VersionStep, TextStep, ObjectsStep, ConnectionStep,
                    ParametersStep, LocksStep, textVars, Text!vars
      <3>2. TextInv
        BY <3>1 DEF PartsInv
      <3> QED BY <3>1, <3>2, TextNext
    <2>3. ASSUME part' = "objects" PROVE (ObjInv /\ o_changes \in 0 .. MaxChanges)'
      <3>1. part = "objects" /\ [Obj!Next]_(Obj!vars)
        BY <2>3 DEF Next, vars, VersionStep, TextStep, ObjectsStep, ConnectionStep,
                    ParametersStep, LocksStep, objectsVars, Obj!vars
      <3>2. ObjInv /\ o_changes \in 0 .. MaxChanges
        BY <3>1 DEF PartsInv
      <3> QED BY <3>1, <3>2, ObjStep, ChangesStep
    <2>4. ASSUME part' = "connection" PROVE ConnInv'
      <3>1. part = "connection" /\ [Conn!Next]_(Conn!vars)
        BY <2>4 DEF Next, vars, VersionStep, TextStep, ObjectsStep, ConnectionStep,
                    ParametersStep, LocksStep, connectionVars, Conn!vars
      <3>2. ConnInv
        BY <3>1 DEF PartsInv
      <3> QED BY <3>1, <3>2, ConnStep
    <2>5. ASSUME part' = "parameters" PROVE ParamInv'
      <3>1. part = "parameters" /\ [Parameters!Next]_(Parameters!vars)
        BY <2>5 DEF Next, vars, VersionStep, TextStep, ObjectsStep, ConnectionStep,
                    ParametersStep, LocksStep, parametersVars, Parameters!vars
      <3>2. ParamInv
        BY <3>1 DEF PartsInv
      <3> QED BY <3>1, <3>2, ParamStep
    <2>6. ASSUME part' = "locks" PROVE LockInv'
      <3>1. part = "locks" /\ [Locks!Next]_(Locks!vars)
        BY <2>6 DEF Next, vars, VersionStep, TextStep, ObjectsStep, ConnectionStep,
                    ParametersStep, LocksStep, locksVars, Locks!vars
      <3>2. LockInv
        BY <3>1 DEF PartsInv
      <3> QED BY <3>1, <3>2, LockStep
    <2> QED BY <2>1, <2>2, <2>3, <2>4, <2>5, <2>6 DEF PartsInv
  <1> QED BY <1>1, <1>2, PTL DEF Spec

\* TypeOK (one of the parts acts at a time): of whichever part it is.
THEOREM Typing == Spec => []TypeOK
  <1>1. PartsInv => TypeOK
    BY VersionMeans, TextType, ObjTyped, ConnMeans, ParamMeans, LockMeans, PartsAssumption
       DEF PartsInv, PartsAssumption, TypeOK
  <1> QED BY <1>1, Inductive, PTL

\* For any releases and majors, and however the server is packaged: a release
\* is read well enough for every choice made by its version, and a server that
\* is not released is refused unless its package has a dotted version.
THEOREM VersionsUnderstood == Spec => []VersionIsUnderstood
  <1>1. PartsInv => VersionIsUnderstood
    BY VersionMeans, PartsAssumption DEF PartsInv, PartsAssumption, VersionIsUnderstood
  <1> QED BY <1>1, Inductive, PTL

\* TextsAreSound (common_helpers.go:28-65): for any statement, literals, blanks
\* and capitals, the text AnonymizeQueryText returns has no literal left and every
\* other token where it was, and no normal form has a digit or a capital in it.
\* Unless a name holds a single quote, the normal form is the same after hiding
\* as before, it is that of the remembered statement if the literals are plain,
\* and statements that share one differ in quoted names or in digits only.
THEOREM TextsSound == Spec => []TextsAreSound
  <1>1. PartsInv => TextsAreSound
    BY TextsHold, PartsAssumption DEF PartsInv, TextsAreSound
  <1> QED BY <1>1, Inductive, PTL

\* For any objects, lists and answers of pgbouncer: every listed object that
\* lasts and is in the relations the queries read is reported unless a query of
\* its own database failed, no two objects share an entity, and what is
\* reported is listed unless dots blur the keys.
THEOREM ListedObjectsReported == Spec => []ListIsReported
  <1>1. PartsInv => ListIsReported
    BY ObjMeans, PartsAssumption DEF PartsInv, PartsAssumption, ListIsReported
  <1> QED BY <1>1, Inductive, PTL

\* For any databases, authorities and extensions: whatever the server offers
\* and however it is reconfigured in between, every connection of a run is
\* encrypted and verified as the arguments say, trust costs no connection, and
\* an extension is found exactly where it is.
THEOREM Connections == Spec => []ConnectedAsAsked
  <1>1. PartsInv => ConnectedAsAsked
    BY ConnMeans, PartsAssumption DEF PartsInv, PartsAssumption, ConnectedAsAsked
  <1> QED BY <1>1, Inductive, PTL

\* ThresholdsAreKept (common_parameters.go:40-59): whatever the arguments and the
\* statements, no list of the queries fills a batch, and off RDS the executions
\* reported of a slow query are its slowest over the threshold, up to the quota.
THEOREM ThresholdsKept == Spec => []ThresholdsAreKept
  <1>1. PartsInv => ThresholdsAreKept
    BY ParamMeans, PartsAssumption DEF PartsInv, PartsAssumption, ThresholdsAreKept
  <1> QED BY <1>1, Inductive, PTL

\* For any sessions, modes and number of locks: whichever group of a mode
\* crosstab keeps, its count is no more than the locks there are, 0 only for a
\* mode nobody holds, and exact when they are in one place.
THEOREM LockCounts == Spec => []CountsAreSound
  <1>1. PartsInv => CountsAreSound
    BY LockMeans, PartsAssumption DEF PartsInv, PartsAssumption, CountsAreSound
  <1> QED BY <1>1, Inductive, PTL
=============================================================================
