----------------------- MODULE MetricsPopulationProofs -----------------------
(***************************************************************************)
(* Proofs about PopulateMetrics, for every collection list, every server   *)
(* version, every order of the loops over the list and every query and     *)
(* connection that may fail.                                               *)
(***************************************************************************)
EXTENDS MetricsPopulation, SequenceTheorems, FiniteSetTheorems, TLAPS

-----------------------------------------------------------------------------
(* The inductive invariant *)

Queries ==
  {"instanceBase", "instance91", "instance92", "instanceBase170", "instance170",
   "instanceIO170", "databaseUnder91", "databaseOver91", "databaseOver92",
   "lock", "tableBloat", "tableBloatPostV12", "table", "index",
   "pgbouncerStats", "pgbouncerPools"}

\* All queries the Populate function p sends over the connection to d.
Sends(p, d) ==
  CASE p = "instance" -> generateInstanceDefinitions(version)
    [] p = "tables" /\ d \in DOMAIN list ->
         generateTableDefinitions(version, collectBloat, list[d])
    [] p = "indexes" /\ d \in DOMAIN list -> generateIndexDefinitions(list[d])
    [] OTHER -> Queue(p)

\* The query may be sent to a server of the version, for the objects of d.
Fits(d, query) ==
  /\ Answerable(query, version) \/ (query = "lock" /\ version < 92)
  /\ query \in {"tableBloat", "tableBloatPostV12", "table"} =>
       SchemaTables(list[d]) # {}
  /\ query = "index" => SchemaTableIndexes(list[d]) # {}

Sent(d) == Len(Sends(pc, d)) - Len(queue)

\* Outside the loops the main connection, or that to pgbouncer, is current.
PhaseInv ==
  /\ list \in Lists /\ version \in Nat
  /\ pc = "connect" => ran = {} /\ lost = {}
  /\ pc \notin PerDatabase => todo = {} /\ db = Server
  /\ db \notin todo

\* What is left of the queries is the end of what the function sends.
QueueInv ==
  /\ queue \in Seq(Queries) /\ Len(queue) <= Len(Sends(pc, db))
  /\ \A i \in 1 .. Len(queue) : queue[i] = Sends(pc, db)[Sent(db) + i]

\* Queries that were sent fit the server; those in the queue, and those of
\* databases still to visit, were not sent.
PairsInv ==
  /\ ran \cap lost = {}
  /\ \A p \in ran \cup lost :
       p = <<p[1], p[2]>> /\ p[1] \notin todo /\ Fits(p[1], p[2])
  /\ \A i \in 1 .. Len(queue) : <<db, queue[i]>> \notin ran \cup lost

\* What has become of the first n queries to d.
FirstAccounted(d, queries, n) ==
  \A k \in 1 .. n :
    \/ <<d, queries[k]>> \in ran
    \/ d \in refused
    \/ \E j \in 1 .. k : <<d, queries[j]>> \in lost

\* No query that was sent over the current connection is forgotten.
SentInv ==
  /\ pc \in {"instance", "database"} =>
       \A k \in 1 .. Sent(Server) :
         <<Server, Sends(pc, Server)[k]>> \in ran \cup lost
  /\ pc \in PerDatabase => FirstAccounted(db, Sends(pc, db), Sent(db))

\* No query to a database the loop has visited is.
LoopInv ==
  pc \in PerDatabase /\ (pc = "tables" => \A d \in DOMAIN list : DOMAIN list[d] # {})
    => \A d \in DOMAIN list \ todo :
         d # db => Accounted(d, Sends(pc, d))

\* The main connection and one for each database the loop has visited, except
\* the last one if nothing was sent over it yet.
Undialled == IF dialled THEN 0 ELSE 1

OpenInv ==
  /\ pc = "connect" => open = 0 /\ queue = <<>> /\ ~dialled
  /\ pc = "done" => open = 0 /\ queue = <<>>
  /\ pc \in {"instance", "database", "locks", "custom"} => open = 1 /\ dialled
  /\ pc = "pgbouncer" => open + Undialled <= 2
  /\ pc \in PerDatabase =>
       open + Undialled + Cardinality(todo) <= 1 + Cardinality(DOMAIN list)

\* The server has answered no query its catalogs have no columns for.
AnswerInv == \A p \in ran : Answerable(p[2], version)

IInv == /\ TypeOK /\ PhaseInv /\ QueueInv /\ PairsInv /\ SentInv /\ LoopInv
        /\ OpenInv /\ AnswerInv

-----------------------------------------------------------------------------
(* The queries of each function *)

\* No query twice, and each fits the server and the listed objects.
Sound(d, queries) ==
  /\ queries \in Seq(Queries)
  /\ \A i, j \in 1 .. Len(queries) : queries[i] = queries[j] => i = j
  /\ \A i \in 1 .. Len(queries) : Fits(d, queries[i])

\* Short sequences, element by element.
LEMMA Short ==
  ASSUME NEW S
  PROVE  /\ <<>> \in Seq(S) /\ Len(<<>>) = 0
         /\ \A a \in S :
              /\ <<a>> \in Seq(S) /\ Len(<<a>>) = 1 /\ <<a>>[1] = a
              /\ <<a>> \o <<>> = <<a>> /\ <<>> \o <<a>> = <<a>>
         /\ \A a, b \in S :
              /\ <<a, b>> \in Seq(S) /\ Len(<<a, b>>) = 2
              /\ <<a, b>>[1] = a /\ <<a, b>>[2] = b
              /\ <<a>> \o <<b>> = <<a, b>>
  <1>1. <<>> \in Seq(S) /\ Len(<<>>) = 0
    OBVIOUS
  <1>2. ASSUME NEW a \in S
        PROVE  /\ <<a>> \in Seq(S) /\ Len(<<a>>) = 1 /\ <<a>>[1] = a
               /\ <<a>> \o <<>> = <<a>> /\ <<>> \o <<a>> = <<a>>
    <2>1. <<a>> \in Seq(S) /\ Len(<<a>>) = 1 /\ <<a>>[1] = a
      OBVIOUS
    <2> QED BY <2>1, EmptySeq, ConcatEmptySeq
  <1>3. ASSUME NEW a \in S, NEW b \in S
        PROVE  /\ <<a, b>> \in Seq(S) /\ Len(<<a, b>>) = 2
               /\ <<a, b>>[1] = a /\ <<a, b>>[2] = b
               /\ <<a>> \o <<b>> = <<a, b>>
    <2>1. /\ <<a, b>> \in Seq(S) /\ Len(<<a, b>>) = 2
          /\ <<a, b>>[1] = a /\ <<a, b>>[2] = b
      OBVIOUS
    <2>2. <<a>> \in Seq(S) /\ <<b>> \in Seq(S) /\ Len(<<a>>) = 1
          /\ Len(<<b>>) = 1 /\ <<a>>[1] = a /\ <<b>>[1] = b
      OBVIOUS
    <2> DEFINE s == <<a>> t == <<b>> u == <<a, b>>
    <2> HIDE DEF s, t, u
    <2>4. /\ s \o t \in Seq(S) /\ Len(s \o t) = 2
          /\ (s \o t)[1] = a /\ (s \o t)[2] = b
      <3>1. /\ s \o t \in Seq(S)
            /\ Len(s \o t) = Len(s) + Len(t)
            /\ \A i \in 1 .. Len(s) + Len(t) :
                 (s \o t)[i] = IF i <= Len(s) THEN s[i] ELSE t[i - Len(s)]
        BY <2>2, ConcatProperties DEF s, t
      <3> QED BY <2>2, <3>1 DEF s, t
    <2>5. s \o t = u
      <3>1. u \in Seq(S) /\ Len(u) = 2 /\ u[1] = a /\ u[2] = b
        BY <2>1 DEF u
      <3>2. \A i \in 1 .. Len(u) : (s \o t)[i] = u[i]
        BY <2>4, <3>1
      <3> QED BY <2>4, <3>1, <3>2, SeqEqual
    <2> QED BY <2>1, <2>5 DEF s, t, u
  <1> QED BY <1>1, <1>2, <1>3

LEMMA NoQueries == ASSUME NEW d PROVE Sound(d, <<>>)
  BY Short DEF Sound

LEMMA OneQuery ==
  ASSUME NEW d, NEW a \in Queries, Fits(d, a) PROVE Sound(d, <<a>>)
  BY Short DEF Sound

LEMMA TwoQueries ==
  ASSUME NEW d, NEW a \in Queries, NEW b \in Queries, a # b, Fits(d, a), Fits(d, b)
  PROVE  Sound(d, <<a, b>>) /\ Sound(d, <<a>> \o <<b>>)
  <1>1. 1 .. 2 = {1, 2}
    OBVIOUS
  <1>2. Sound(d, <<a, b>>)
    BY <1>1, Short DEF Sound
  <1>3. <<a>> \o <<b>> = <<a, b>>
    BY Short
  <1> QED BY <1>2, <1>3

LEMMA ThreeQueries ==
  ASSUME NEW d, NEW a \in Queries, NEW b \in Queries, NEW c \in Queries,
         a # b, a # c, b # c, Fits(d, a), Fits(d, b), Fits(d, c)
  PROVE  Sound(d, <<a, b, c>>)
  <1> DEFINE s == <<a, b, c>>
  <1>1. /\ s \in Seq(Queries) /\ Len(s) = 3
        /\ s[1] = a /\ s[2] = b /\ s[3] = c
    OBVIOUS
  <1> HIDE DEF s
  <1>2. \A i \in 1 .. 3 : i = 1 \/ i = 2 \/ i = 3
    OBVIOUS
  <1>3. Sound(d, s)
    BY <1>1, <1>2 DEF Sound
  <1> QED BY <1>3 DEF s

\* A query the server has the columns for may be sent to it.
LEMMA AnswerableFits ==
  ASSUME NEW d, NEW query, Answerable(query, version),
         query \in {"tableBloat", "tableBloatPostV12", "table"} =>
           SchemaTables(list[d]) # {},
         query = "index" => SchemaTableIndexes(list[d]) # {}
  PROVE  Fits(d, query)
  BY DEF Fits

LEMMA InstanceSound ==
  ASSUME version \in Nat, NEW d
  PROVE  Sound(d, generateInstanceDefinitions(version))
  <1> USE DEF Queries, generateInstanceDefinitions
  <1>1. CASE version >= 170
    <2>1. generateInstanceDefinitions(version)
            = <<"instanceBase170", "instance170", "instanceIO170">>
      BY <1>1
    <2>a. /\ Answerable("instanceBase170", version)
          /\ Answerable("instance170", version)
          /\ Answerable("instanceIO170", version)
      BY <1>1 DEF Answerable
    <2>2. /\ Fits(d, "instanceBase170") /\ Fits(d, "instance170")
          /\ Fits(d, "instanceIO170")
      BY <2>a, AnswerableFits
    <2> HIDE DEF generateInstanceDefinitions
    <2>3. Sound(d, <<"instanceBase170", "instance170", "instanceIO170">>)
      BY <2>2, ThreeQueries
    <2> QED BY <2>1, <2>3
  <1>2. CASE version < 170 /\ version >= 92
    <2>1. generateInstanceDefinitions(version)
            = <<"instanceBase", "instance91", "instance92">>
      BY <1>2
    <2>a. /\ Answerable("instanceBase", version)
          /\ Answerable("instance91", version)
          /\ Answerable("instance92", version)
      BY <1>2 DEF Answerable
    <2>2. /\ Fits(d, "instanceBase") /\ Fits(d, "instance91")
          /\ Fits(d, "instance92")
      BY <2>a, AnswerableFits
    <2> HIDE DEF generateInstanceDefinitions
    <2>3. Sound(d, <<"instanceBase", "instance91", "instance92">>)
      BY <2>2, ThreeQueries
    <2> QED BY <2>1, <2>3
  <1>3. CASE version = 91
    <2>1. generateInstanceDefinitions(version) = <<"instanceBase", "instance91">>
      BY <1>3
    <2>a. Answerable("instanceBase", version) /\ Answerable("instance91", version)
      BY <1>3 DEF Answerable
    <2>2. Fits(d, "instanceBase") /\ Fits(d, "instance91")
      BY <2>a, AnswerableFits
    <2> HIDE DEF generateInstanceDefinitions
    <2> QED BY <2>1, <2>2, TwoQueries
  <1>4. CASE version < 91
    <2>1. generateInstanceDefinitions(version) = <<"instanceBase">>
      BY <1>4
    <2>a. Answerable("instanceBase", version)
      BY <1>4 DEF Answerable
    <2>2. Fits(d, "instanceBase")
      BY <2>a, AnswerableFits
    <2> HIDE DEF generateInstanceDefinitions
    <2> QED BY <2>1, <2>2, OneQuery
  <1> QED BY <1>1, <1>2, <1>3, <1>4

LEMMA DatabaseSound ==
  ASSUME version \in Nat, NEW d
  PROVE  Sound(d, generateDatabaseDefinitions(version, list))
  <1> USE DEF Queries
  <1> DEFINE queries == generateDatabaseDefinitions(version, list)
  <1>1. CASE DOMAIN list = {}
    BY <1>1, NoQueries DEF generateDatabaseDefinitions
  <1>2. CASE DOMAIN list # {} /\ version < 91
    <2>0. version < 91 /\ ~(version >= 92)
      BY <1>2
    <2>1. queries = <<"databaseUnder91">> \o <<>>
      BY <1>2, <2>0 DEF generateDatabaseDefinitions
    <2>a. Answerable("databaseUnder91", version)
      BY <1>2 DEF Answerable
    <2>2. Fits(d, "databaseUnder91")
      BY <1>2, <2>a, AnswerableFits
    <2> QED BY <2>1, <2>2, Short, OneQuery
  <1>3. CASE DOMAIN list # {} /\ version >= 91 /\ version < 92
    <2>0. ~(version < 91) /\ ~(version >= 92)
      BY <1>3
    <2>1. queries = <<"databaseOver91">> \o <<>>
      BY <1>3, <2>0 DEF generateDatabaseDefinitions
    <2>a. Answerable("databaseOver91", version)
      BY <1>3 DEF Answerable
    <2>2. Fits(d, "databaseOver91")
      BY <1>3, <2>a, AnswerableFits
    <2> QED BY <2>1, <2>2, Short, OneQuery
  <1>4. CASE DOMAIN list # {} /\ version >= 92
    <2>1. queries = <<"databaseOver91">> \o <<"databaseOver92">>
      BY <1>4 DEF generateDatabaseDefinitions
    <2>a. Answerable("databaseOver91", version) /\ Answerable("databaseOver92", version)
      BY <1>4 DEF Answerable
    <2>2. Fits(d, "databaseOver91") /\ Fits(d, "databaseOver92")
      BY <1>4, <2>a, AnswerableFits
    <2> QED BY <2>1, <2>2, TwoQueries
  <1> QED BY <1>1, <1>2, <1>3, <1>4

LEMMA TableSound ==
  ASSUME version \in Nat, NEW d
  PROVE  Sound(d, generateTableDefinitions(version, collectBloat, list[d]))
  <1> USE DEF Queries
  <1> DEFINE queries == generateTableDefinitions(version, collectBloat, list[d])
  <1>1. CASE SchemaTables(list[d]) = {}
    BY <1>1, NoQueries DEF generateTableDefinitions
  <1>2. CASE SchemaTables(list[d]) # {}
    <2>a. Answerable("table", version)
      BY <1>2 DEF Answerable
    <2>1. Fits(d, "table")
      BY <1>2, <2>a, AnswerableFits
    <2>2. CASE ~collectBloat
      <3>1. queries = <<>> \o <<"table">>
        BY <1>2, <2>2 DEF generateTableDefinitions
      <3> QED BY <2>1, <3>1, Short, OneQuery
    <2>3. CASE collectBloat /\ version >= 120
      <3>1. queries = <<"tableBloatPostV12">> \o <<"table">>
        BY <1>2, <2>3 DEF generateTableDefinitions
      <3>a. Answerable("tableBloatPostV12", version)
        BY <1>2, <2>3 DEF Answerable
      <3>2. Fits(d, "tableBloatPostV12")
        BY <1>2, <2>3, <3>a, AnswerableFits
      <3> QED BY <2>1, <3>1, <3>2, TwoQueries
    <2>4. CASE collectBloat /\ version < 120
      <3>1. queries = <<"tableBloat">> \o <<"table">>
        BY <1>2, <2>4 DEF generateTableDefinitions
      <3>a. Answerable("tableBloat", version)
        BY <1>2, <2>4 DEF Answerable
      <3>2. Fits(d, "tableBloat")
        BY <1>2, <2>4, <3>a, AnswerableFits
      <3> QED BY <2>1, <3>1, <3>2, TwoQueries
    <2> QED BY <2>2, <2>3, <2>4
  <1> QED BY <1>1, <1>2

LEMMA IndexSound ==
  ASSUME NEW d PROVE Sound(d, generateIndexDefinitions(list[d]))
  <1> USE DEF Queries
  <1>1. CASE SchemaTableIndexes(list[d]) = {}
    BY <1>1, NoQueries DEF generateIndexDefinitions
  <1>2. CASE SchemaTableIndexes(list[d]) # {}
    <2>a. Answerable("index", version)
      BY <1>2 DEF Answerable
    <2>1. Fits(d, "index")
      BY <1>2, <2>a, AnswerableFits
    <2> QED BY <1>2, <2>1, OneQuery DEF generateIndexDefinitions
  <1> QED BY <1>1, <1>2

\* What any function sends over any of its connections.
LEMMA SendsSound ==
  ASSUME version \in Nat, NEW p, NEW d PROVE Sound(d, Sends(p, d))
  <1> USE DEF Queries
  <1>1. CASE p = "instance"
    BY <1>1, InstanceSound DEF Sends
  <1>2. CASE p = "tables" /\ d \in DOMAIN list
    BY <1>2, TableSound DEF Sends
  <1>3. CASE p = "indexes" /\ d \in DOMAIN list
    BY <1>3, IndexSound DEF Sends
  <1>4. CASE /\ p # "instance" /\ ~(p = "tables" /\ d \in DOMAIN list)
             /\ ~(p = "indexes" /\ d \in DOMAIN list)
    <2>1. Sends(p, d) = Queue(p)
      BY <1>4 DEF Sends
    <2>2. CASE p = "database"
      BY <2>1, <2>2, DatabaseSound DEF Queue
    <2>3. CASE p = "locks"
      <3>a. Answerable("lock", version) \/ version < 92
        BY DEF Answerable
      <3>1. Fits(d, "lock")
        BY <3>a DEF Fits
      <3>2. Queue(p) \in {<<"lock">>, <<>>}
        BY <2>3 DEF Queue, generateLockDefinitions
      <3> QED BY <2>1, <3>1, <3>2, NoQueries, OneQuery
    <2>4. CASE p = "pgbouncer"
      <3>a. Answerable("pgbouncerStats", version) /\ Answerable("pgbouncerPools", version)
        BY DEF Answerable
      <3>1. Fits(d, "pgbouncerStats") /\ Fits(d, "pgbouncerPools")
        BY <3>a, AnswerableFits
      <3>2. Queue(p) \in {<<"pgbouncerStats", "pgbouncerPools">>, <<>>}
        BY <2>4 DEF Queue, generatePgBouncerDefinitions
      <3> QED BY <2>1, <3>1, <3>2, NoQueries, TwoQueries
    <2>5. CASE p \notin {"database", "locks", "pgbouncer"}
      <3>1. Queue(p) = <<>>
        BY <2>5 DEF Queue
      <3> QED BY <2>1, <3>1, NoQueries
    <2> QED BY <2>2, <2>3, <2>4, <2>5
  <1> QED BY <1>1, <1>2, <1>3, <1>4

-----------------------------------------------------------------------------
(* Control and connections *)

Control == TypeOK /\ PhaseInv /\ OpenInv

\* The Populate functions.
Phases == {"connect", "instance", "database", "locks", "tables", "indexes",
           "custom", "pgbouncer", "done"}

LEMMA InitControl == Init => Control
  <1> SUFFICES ASSUME Init PROVE Control
    OBVIOUS
  <1>1. /\ list \in Lists /\ version \in Nat /\ pc = "connect" /\ todo = {}
        /\ db = Server /\ queue = <<>> /\ dialled = FALSE /\ open = 0
        /\ ran = {} /\ lost = {}
    BY PopulationAssumption DEF Init
  <1>2. dialled \in BOOLEAN
    BY <1>1, Zenon
  <1> QED BY <1>1, <1>2 DEF Control, TypeOK, PhaseInv, OpenInv, PerDatabase

\* The size of the list, and of what is left of it with one database less.
LEMMA Sizes ==
  ASSUME Control
  PROVE  /\ IsFiniteSet(DOMAIN list) /\ Cardinality(DOMAIN list) \in Nat
         /\ IsFiniteSet(todo) /\ Cardinality(todo) \in Nat
         /\ \A d \in todo : /\ Cardinality(todo \ {d}) = Cardinality(todo) - 1
                            /\ Cardinality(todo \ {d}) \in Nat
         /\ Server \notin DOMAIN list
  <1>1. IsFiniteSet(DOMAIN list) /\ Server \notin DOMAIN list
    BY PopulationAssumption DEF Control, PhaseInv
  <1>2. IsFiniteSet(todo)
    BY <1>1, FS_Subset DEF Control, TypeOK
  <1>3. ASSUME NEW d \in todo
        PROVE  /\ Cardinality(todo \ {d}) = Cardinality(todo) - 1
               /\ Cardinality(todo \ {d}) \in Nat
    BY <1>2, FS_CardinalityType, FS_RemoveElement
  <1> QED BY <1>1, <1>2, <1>3, FS_CardinalityType

\* A query that is sent dials at most once.
LEMMA DialControl ==
  ASSUME Control, queue # <<>>, Dial \/ UNCHANGED <<dialled, open>>,
         UNCHANGED <<argVars, pc, todo, db>>, (ran \cap lost = {})'
  PROVE  Control'
  <1>0. /\ pc \in Phases \ {"connect", "done"} /\ open \in Nat
        /\ todo \subseteq DOMAIN list /\ db \in DOMAIN list \cup {Server}
        /\ list \in Lists /\ version \in Nat
    BY DEF Control, TypeOK, PhaseInv, OpenInv, Phases
  <1>1. dialled' \in BOOLEAN /\ open' \in Nat
    <2>1. CASE Dial
      <3>1. dialled' \in BOOLEAN
        BY <2>1, Zenon DEF Dial
      <3>2. open' \in Nat
        BY <1>0, <2>1 DEF Dial
      <3> QED BY <3>1, <3>2
    <2>2. CASE UNCHANGED <<dialled, open>>
      BY <2>2 DEF Control, TypeOK
    <2> QED BY <2>1, <2>2
  <1>2. TypeOK'
    BY <1>0, <1>1 DEF TypeOK, argVars, Phases
  <1>3. PhaseInv'
    BY <1>0 DEF Control, PhaseInv, argVars
  <1>4. open' + Undialled' = open + Undialled \/ UNCHANGED <<dialled, open>>
    BY <1>0 DEF Dial, Undialled
  <1>5. dialled => UNCHANGED open /\ dialled'
    BY DEF Dial
  <1>6. OpenInv'
    <2>1. Cardinality(DOMAIN list)' = Cardinality(DOMAIN list)
          /\ Cardinality(todo)' = Cardinality(todo)
      BY DEF argVars
    <2>2. open' + Undialled' = open + Undialled
      BY <1>0, <1>4 DEF Undialled
    <2>3. Cardinality(DOMAIN list) \in Nat /\ Cardinality(todo) \in Nat
      BY Sizes
    <2> QED BY <1>0, <1>5, <2>1, <2>2, <2>3 DEF OpenInv, Control, Phases, PerDatabase
  <1> QED BY <1>2, <1>3, <1>6 DEF Control

LEMMA StepControl ==
  ASSUME Control, Next, (ran \cap lost = {})' PROVE Control'
  <1>0. /\ pc \in Phases /\ open \in Nat /\ dialled \in BOOLEAN
        /\ todo \subseteq DOMAIN list /\ db \in DOMAIN list \cup {Server}
        /\ list \in Lists /\ version \in Nat /\ db \notin todo
    BY DEF Control, TypeOK, PhaseInv, Phases
  <1>1. CASE CollectVersion
    <2>1. /\ pc = "connect" /\ open = 0 /\ ~dialled
          /\ ran = {} /\ lost = {} /\ todo = {} /\ db = Server
          /\ UNCHANGED <<argVars, todo, db, ran, lost>>
      BY <1>1 DEF CollectVersion, Control, OpenInv, PhaseInv, PerDatabase
    <2>2. CASE pc' = "done" /\ UNCHANGED <<queue, open, dialled>>
      <3>1. queue' = <<>>
        BY <2>1, <2>2 DEF Control, OpenInv
      <3> QED
        BY <1>0, <2>1, <2>2, <3>1
        DEF Control, TypeOK, PhaseInv, OpenInv, PerDatabase, argVars
    <2>3. CASE pc' = "instance" /\ open' = 1 /\ dialled' = TRUE
      <3>1. dialled' \in BOOLEAN
        BY <2>3, Zenon
      <3> QED
        BY <1>0, <2>1, <2>3, <3>1
        DEF Control, TypeOK, PhaseInv, OpenInv, PerDatabase, argVars
    <2> QED BY <1>1, <2>2, <2>3 DEF CollectVersion
  <1>2. CASE QueryAnswers \/ QueryFails
    BY <1>2, DialControl DEF QueryAnswers, QueryFails
  <1>3. CASE EnterDatabase
    <2>1. PICK d \in todo :
            /\ db' = d /\ dialled' = FALSE
            /\ todo' = {} \/ todo' = todo \ {d}
      BY <1>3 DEF EnterDatabase
    <2>2. pc \in PerDatabase /\ UNCHANGED <<argVars, pc, open>>
      BY <1>3 DEF EnterDatabase
    <2>3. dialled' \in BOOLEAN
      BY <2>1, Zenon
    <2>4. Cardinality({}) = 0
      BY FS_EmptySet
    <2>5. Cardinality(todo') <= Cardinality(todo) - 1 /\ Cardinality(todo') \in Nat
      <3>1. Cardinality(todo) - 1 \in Nat
        BY <2>1, Sizes
      <3>2. Cardinality(todo \ {d}) = Cardinality(todo) - 1
        BY <2>1, Sizes
      <3>3. Cardinality(todo') \in {0, Cardinality(todo) - 1}
        BY <2>1, <2>4, <3>2
      <3> QED BY <3>1, <3>3
    <2>6. TypeOK'
      BY <1>0, <2>1, <2>2, <2>3 DEF TypeOK, argVars, Phases
    <2>7. PhaseInv'
      BY <1>0, <2>1, <2>2 DEF PhaseInv, argVars, PerDatabase
    <2>8. OpenInv'
      <3>1. /\ open + Undialled + Cardinality(todo) <= 1 + Cardinality(DOMAIN list)
            /\ Cardinality(DOMAIN list) \in Nat /\ Cardinality(todo) \in Nat
            /\ list' = list
        BY <2>2, Sizes DEF Control, OpenInv, argVars
      <3>2. Undialled' = 1 /\ Undialled \in {0, 1}
        BY <1>0, <2>1 DEF Undialled
      <3> QED BY <1>0, <2>2, <2>5, <3>1, <3>2 DEF OpenInv, PerDatabase
    <2> QED BY <2>6, <2>7, <2>8 DEF Control
  <1>4. CASE NoConnection
    <2>1. PICK d \in todo : todo' = todo \ {d}
      BY <1>4 DEF NoConnection
    <2>2. pc \in PerDatabase /\ UNCHANGED <<argVars, pc, db, dialled, open, ran, lost>>
      BY <1>4 DEF NoConnection
    <2>3. Cardinality(todo') = Cardinality(todo) - 1
      BY <2>1, Sizes
    <2>4. TypeOK' /\ PhaseInv'
      BY <1>0, <2>1, <2>2 DEF TypeOK, PhaseInv, argVars, Phases, PerDatabase
    <2>5. OpenInv'
      <3>1. /\ open + Undialled + Cardinality(todo) <= 1 + Cardinality(DOMAIN list)
            /\ Cardinality(DOMAIN list) \in Nat /\ Cardinality(todo) \in Nat
            /\ list' = list
        BY <2>2, Sizes DEF Control, OpenInv, argVars
      <3>2. Undialled' = Undialled /\ Undialled \in {0, 1}
        BY <2>2 DEF Undialled
      <3> QED BY <1>0, <2>2, <2>3, <3>1, <3>2 DEF OpenInv, PerDatabase
    <2> QED BY <2>4, <2>5 DEF Control
  <1>5. CASE NextPhase
    <2>1. /\ pc' \in {"database", "locks", "tables", "indexes", "custom"}
          /\ db' = Server /\ dialled' = TRUE /\ open' = 1
          /\ todo' = IF pc' \in PerDatabase THEN DOMAIN list ELSE {}
          /\ ran' = {} /\ lost' = {} /\ UNCHANGED argVars
      BY <1>0, <1>5 DEF NextPhase, After, Phases
    <2>2. dialled' \in BOOLEAN
      BY <2>1, Zenon
    <2>3. TypeOK'
      BY <2>1, <2>2 DEF TypeOK, argVars
    <2>4. PhaseInv'
      BY <1>0, <2>1, Sizes DEF PhaseInv, argVars
    <2>5. OpenInv'
      <3>1. Undialled' = 0
        BY <2>1 DEF Undialled
      <3> QED BY <2>1, <3>1, Sizes DEF OpenInv, PerDatabase, argVars
    <2> QED BY <2>3, <2>4, <2>5 DEF Control
  <1>6. CASE PopulateCustomMetrics
    <2>1. /\ pc = "custom" /\ pc' = "pgbouncer" /\ ran' = {} /\ lost' = {}
          /\ UNCHANGED <<argVars, todo, db, open>>
          /\ dialled' = FALSE \/ UNCHANGED dialled
      BY <1>6 DEF PopulateCustomMetrics
    <2>2. dialled' \in BOOLEAN
      BY <1>0, <2>1, Zenon
    <2>3. open = 1 /\ todo = {} /\ db = Server
      BY <2>1 DEF Control, OpenInv, PhaseInv, PerDatabase
    <2>4. TypeOK' /\ PhaseInv'
      BY <1>0, <2>1, <2>2, <2>3 DEF TypeOK, PhaseInv, argVars, PerDatabase
    <2>5. OpenInv'
      BY <2>1, <2>3 DEF OpenInv, Undialled, PerDatabase
    <2> QED BY <2>4, <2>5 DEF Control
  <1>7. CASE Finish
    <2>1. /\ pc = "pgbouncer" /\ pc' = "done" /\ open' = 0 /\ queue' = <<>>
          /\ UNCHANGED <<argVars, todo, db, dialled, ran, lost>>
      BY <1>7 DEF Finish
    <2> QED
      BY <1>0, <2>1 DEF Control, TypeOK, PhaseInv, OpenInv, PerDatabase, argVars
  <1> QED BY <1>1, <1>2, <1>3, <1>4, <1>5, <1>6, <1>7 DEF Next

-----------------------------------------------------------------------------
(* Queries sent, lost and still to send *)

History == QueueInv /\ PairsInv /\ SentInv /\ LoopInv

\* What is to be sent, and what may be, hang on the arguments alone.
LEMMA SameArgs ==
  ASSUME UNCHANGED argVars
  PROVE  /\ \A p, d : Sends(p, d)' = Sends(p, d)
         /\ \A d, q : Fits(d, q)' <=> Fits(d, q)
  <1> USE DEF argVars
  <1>1. \A p : Queue(p)' = Queue(p)
    BY DEF Queue
  <1> QED BY <1>1 DEF Sends, Fits

\* A function that starts has sent nothing, over the connection of the server.
LEMMA Starts ==
  ASSUME Control, UNCHANGED argVars, pc' \in Phases, db' = Server,
         queue' = Sends(pc', Server) \/ (queue' = <<>> /\ pc' = "pgbouncer"),
         ran' = {}, lost' = {},
         pc' \in PerDatabase => todo' = DOMAIN list
  PROVE  History'
  <1> DEFINE full == Sends(pc', Server)
  <1>1. version \in Nat /\ list' = list
    BY DEF Control, PhaseInv, argVars
  <1>2. Sound(Server, full)
    BY <1>1, SendsSound
  <1>3. full \in Seq(Queries) /\ Len(full) \in Nat
    BY <1>2, LenProperties DEF Sound
  <1>4. Sends(pc, db)' = full /\ Sends(pc, Server)' = full
    BY SameArgs
  <1> HIDE DEF full
  <1>5. /\ queue' \in Seq(Queries) /\ Len(queue') <= Len(full)
        /\ queue' = full \/ (Len(queue') = 0 /\ pc' = "pgbouncer")
    <2>1. queue' = full \/ (queue' = <<>> /\ pc' = "pgbouncer")
      BY DEF full
    <2>2. <<>> \in Seq(Queries) /\ Len(<<>>) = 0
      BY EmptySeq
    <2>3. CASE queue' = full
      BY <1>3, <2>3
    <2>4. CASE queue' = <<>> /\ pc' = "pgbouncer"
      <3>1. queue' \in Seq(Queries) /\ Len(queue') = 0
        BY <2>2, <2>4
      <3> QED BY <1>3, <2>4, <3>1
    <2> QED BY <2>1, <2>3, <2>4
  <1>6. Sent(db)' = Len(full) - Len(queue') /\ Sent(Server)' = Sent(db)'
    BY <1>4 DEF Sent
  <1>7. QueueInv'
    <2>1. ASSUME NEW i \in 1 .. Len(queue')
          PROVE  queue'[i] = full[Sent(db)' + i]
      BY <1>3, <1>5, <1>6, <2>1
    <2> QED BY <1>4, <1>5, <2>1 DEF QueueInv
  <1>8. PairsInv'
    BY DEF PairsInv
  <1>9. SentInv'
    <2>1. CASE pc' # "pgbouncer"
      <3>1. Sent(Server)' = 0 /\ Sent(db)' = 0
        BY <1>3, <1>5, <1>6, <2>1
      <3>2. 1 .. 0 = {}
        OBVIOUS
      <3> QED BY <3>1, <3>2 DEF SentInv, FirstAccounted
    <2>2. CASE pc' = "pgbouncer"
      BY <2>2 DEF SentInv, PerDatabase
    <2> QED BY <2>1, <2>2
  <1>10. LoopInv'
    BY <1>1 DEF LoopInv
  <1> QED BY <1>7, <1>8, <1>9, <1>10 DEF History

\* A function without loop or connection leaves nothing behind.
LEMMA QueueOfServer ==
  ASSUME Control, NEW p, p # "instance"
  PROVE  Sends(p, Server) = Queue(p)
  BY Sizes DEF Sends

LEMMA InitHistory == Init => History
  <1> SUFFICES ASSUME Init PROVE History
    OBVIOUS
  <1>1. /\ pc = "connect" /\ queue = <<>> /\ db = Server
        /\ ran = {} /\ lost = {} /\ version \in Nat
    BY PopulationAssumption DEF Init
  <1>2. Sends(pc, db) = <<>>
    BY <1>1 DEF Sends, Queue
  <1>3. queue \in Seq(Queries) /\ Len(queue) = 0
    BY <1>1, EmptySeq
  <1>4. QueueInv
    BY <1>1, <1>2, <1>3 DEF QueueInv
  <1> QED
    BY <1>1, <1>4
    DEF History, PairsInv, SentInv, LoopInv, PerDatabase

\* The queue and its head.
LEMMA HeadOfQueue ==
  ASSUME Control, History, queue # <<>>
  PROVE  /\ Sound(db, Sends(pc, db))
         /\ Sends(pc, db) \in Seq(Queries) /\ Len(Sends(pc, db)) \in Nat
         /\ Len(queue) \in Nat /\ Len(queue) >= 1
         /\ Sent(db) \in Nat /\ Sent(db) + 1 <= Len(Sends(pc, db))
         /\ Head(queue) = Sends(pc, db)[Sent(db) + 1]
         /\ Head(queue) = queue[1]
         /\ Fits(db, Head(queue))
         /\ <<db, Head(queue)>> \notin ran \cup lost
         /\ Tail(queue) \in Seq(Queries) /\ Len(Tail(queue)) = Len(queue) - 1
         /\ \A i \in 1 .. Len(queue) - 1 : Tail(queue)[i] = queue[i + 1]
  <1>1. Sound(db, Sends(pc, db))
    BY SendsSound DEF Control, PhaseInv
  <1>2. Sends(pc, db) \in Seq(Queries) /\ Len(Sends(pc, db)) \in Nat
    BY <1>1, LenProperties DEF Sound
  <1>3. /\ queue \in Seq(Queries) /\ Len(queue) <= Len(Sends(pc, db))
        /\ \A i \in 1 .. Len(queue) : queue[i] = Sends(pc, db)[Sent(db) + i]
    BY DEF History, QueueInv
  <1>4. Len(queue) \in Nat /\ Len(queue) >= 1
    BY <1>3, EmptySeq, LenProperties
  <1>5. /\ Head(queue) = queue[1]
        /\ Tail(queue) \in Seq(Queries) /\ Len(Tail(queue)) = Len(queue) - 1
        /\ \A i \in 1 .. Len(queue) - 1 : Tail(queue)[i] = queue[i + 1]
    BY <1>3, <1>4, HeadTailProperties
  <1>6. Sent(db) \in Nat /\ Sent(db) + 1 <= Len(Sends(pc, db))
    BY <1>2, <1>3, <1>4 DEF Sent
  <1>7. Head(queue) = Sends(pc, db)[Sent(db) + 1]
    BY <1>3, <1>4, <1>5
  <1>8. Fits(db, Head(queue))
    BY <1>1, <1>2, <1>6, <1>7 DEF Sound
  <1>9. <<db, Head(queue)>> \notin ran \cup lost
    BY <1>4, <1>5 DEF History, PairsInv
  <1> QED BY <1>1, <1>2, <1>3, <1>4, <1>5, <1>6, <1>7, <1>8, <1>9

\* A query is sent and answers or fails.
LEMMA SentHistory ==
  ASSUME Control, History, queue # <<>>,
         UNCHANGED <<argVars, pc, todo, db, refused>>,
         \/ /\ ran' = ran \cup {<<db, Head(queue)>>} /\ lost' = lost
            /\ queue' = Tail(queue)
         \/ /\ lost' = lost \cup {<<db, Head(queue)>>} /\ ran' = ran
            /\ queue' = Rest
  PROVE  History'
  <1> DEFINE full == Sends(pc, db)
             h == Head(queue)
             n == Sent(db)
             sent == ran \cup lost
             step == IF queue' = Tail(queue) THEN n + 1 ELSE Len(full)
  <1>1. /\ Sound(db, full) /\ full \in Seq(Queries) /\ Len(full) \in Nat
        /\ Len(queue) \in Nat /\ Len(queue) >= 1
        /\ n \in Nat /\ n + 1 <= Len(full) /\ h = full[n + 1] /\ h = queue[1]
        /\ Fits(db, h) /\ <<db, h>> \notin sent
        /\ Tail(queue) \in Seq(Queries) /\ Len(Tail(queue)) = Len(queue) - 1
        /\ \A i \in 1 .. Len(queue) - 1 : Tail(queue)[i] = queue[i + 1]
    BY HeadOfQueue
  <1>2. /\ \A i \in 1 .. Len(queue) : queue[i] = full[n + i]
        /\ n = Len(full) - Len(queue)
    BY DEF History, QueueInv, Sent
  <1>3. Sends(pc, db)' = full /\ \A p, d : Sends(p, d)' = Sends(p, d)
    BY SameArgs
  <1>4. \A d, q : Fits(d, q)' <=> Fits(d, q)
    BY SameArgs
  <1>5. sent' = sent \cup {<<db, h>>}
    OBVIOUS
  <1>6. queue' = Tail(queue) \/ (queue' = <<>> /\ pc \in PerDatabase \cup {"pgbouncer"}
                                   /\ lost' = lost \cup {<<db, h>>})
    BY DEF Rest
  <1>7. <<>> \in Seq(Queries) /\ Len(<<>>) = 0
    BY EmptySeq
  <1> HIDE DEF full, h, n
  <1>8. /\ queue' \in Seq(Queries) /\ Len(queue') <= Len(full)
        /\ Len(queue') = Len(queue) - 1 \/ Len(queue') = 0
        /\ Len(queue') \in Nat
        /\ \A i \in 1 .. Len(queue') : i + 1 \in 1 .. Len(queue)
                                         /\ queue'[i] = queue[i + 1]
    <2>1. CASE queue' = Tail(queue)
      BY <1>1, <1>2, <2>1
    <2>2. CASE queue' = <<>>
      BY <1>1, <1>7, <2>2
    <2> QED BY <1>6, <2>1, <2>2
  <1>9. Sent(db)' = Len(full) - Len(queue')
    BY <1>3 DEF Sent
  <1>10. QueueInv'
    <2>1. ASSUME NEW i \in 1 .. Len(queue')
          PROVE  queue'[i] = full[Sent(db)' + i]
      <3>1. CASE queue' = Tail(queue)
        <4>1. Sent(db)' = n + 1
          BY <1>1, <1>2, <1>9, <3>1
        <4>2. queue'[i] = full[n + (i + 1)]
          BY <1>2, <1>8
        <4>3. Sent(db)' + i = n + (i + 1)
          BY <1>1, <4>1
        <4> QED BY <4>2, <4>3
      <3>2. CASE queue' = <<>>
        BY <1>7, <3>2
      <3> QED BY <1>6, <3>1, <3>2
    <2> QED BY <1>3, <1>8, <2>1 DEF QueueInv
  <1>11. PairsInv'
    <2>1. (ran \cap lost = {})'
      BY <1>1 DEF History, PairsInv
    <2>2. ASSUME NEW p \in sent'
          PROVE  p = <<p[1], p[2]>> /\ p[1] \notin todo' /\ Fits(p[1], p[2])'
      <3>1. CASE p \in sent
        BY <1>4, <3>1 DEF History, PairsInv
      <3>2. CASE p = <<db, h>>
        <4>1. p[1] = db /\ p[2] = h
          BY <3>2
        <4> QED BY <1>1, <1>4, <3>2, <4>1 DEF Control, PhaseInv
      <3> QED BY <1>5, <3>1, <3>2, <2>2
    <2>3. ASSUME NEW i \in 1 .. Len(queue') PROVE <<db, queue'[i]>> \notin sent'
      <3>1. i + 1 \in 1 .. Len(queue) /\ queue'[i] = queue[i + 1] /\ i + 1 # 1
        BY <1>8
      <3>2. <<db, queue[i + 1]>> \notin sent
        BY <3>1 DEF History, PairsInv
      <3>3. queue[i + 1] # h
        <4>1. /\ queue[i + 1] = full[n + (i + 1)]
              /\ n + (i + 1) \in 1 .. Len(full) /\ n + 1 \in 1 .. Len(full)
              /\ n + (i + 1) # n + 1
          BY <1>1, <1>2, <3>1
        <4> QED BY <1>1, <4>1 DEF Sound
      <3> QED BY <1>5, <3>1, <3>2, <3>3
    <2> QED BY <2>1, <2>2, <2>3 DEF PairsInv
  <1>12. SentInv'
    <2>1. CASE pc \in {"instance", "database"}
      <3>1. db = Server /\ queue' = Tail(queue)
        BY <1>6, <2>1 DEF Control, PhaseInv, PerDatabase
      <3>2. Sent(Server)' = n + 1
        BY <1>1, <1>2, <1>9, <3>1
      <3>3. ASSUME NEW k \in 1 .. n + 1 PROVE <<Server, full[k]>> \in sent'
        <4>1. CASE k = n + 1
          BY <1>1, <1>5, <3>1, <4>1
        <4>2. CASE k # n + 1
          <5>1. k \in 1 .. n
            BY <1>1, <4>2
          <5> QED BY <1>5, <2>1, <3>1, <5>1 DEF History, SentInv, full, n
        <4> QED BY <4>1, <4>2
      <3> QED BY <1>3, <2>1, <3>1, <3>2, <3>3 DEF SentInv, PerDatabase
    <2>2. CASE pc \in PerDatabase
      <3>1. ASSUME NEW k \in 1 .. Sent(db)'
            PROVE  \/ <<db, full[k]>> \in ran' \/ db \in refused'
                   \/ \E j \in 1 .. k : <<db, full[j]>> \in lost'
        <4>1. CASE k <= n
          <5>1. k \in 1 .. n
            BY <1>1, <4>1
          <5> QED BY <2>2, <5>1 DEF History, SentInv, FirstAccounted, full, n
        <4>2. CASE k = n + 1
          <5>1. <<db, full[k]>> \in sent'
            BY <1>1, <1>5, <4>2
          <5> QED BY <5>1
        <4>3. CASE k > n + 1
          <5>1. <<db, h>> \in lost'
            BY <1>1, <1>2, <1>6, <1>9, <4>3
          <5>2. n + 1 \in 1 .. k
            BY <1>1, <4>3
          <5> QED BY <1>1, <5>1, <5>2
        <4> QED BY <1>1, <4>1, <4>2, <4>3
      <3>2. FirstAccounted(db, Sends(pc, db), Sent(db))'
        BY <1>3, <3>1 DEF FirstAccounted
      <3> QED BY <2>2, <3>2 DEF SentInv, PerDatabase
    <2> QED BY <2>1, <2>2 DEF SentInv
  <1>13. LoopInv'
    <2>1. \A d \in DOMAIN list : Accounted(d, Sends(pc, d)) =>
                                   Accounted(d, Sends(pc, d))'
      BY <1>3 DEF Accounted
    <2> QED BY <2>1 DEF History, LoopInv, argVars
  <1> QED BY <1>10, <1>11, <1>12, <1>13 DEF History

\* With nothing left to send, the current database is accounted for, and with
\* it those that are neither to be visited nor current.
LEMMA TurnEnds ==
  ASSUME Control, History, pc \in PerDatabase, queue = <<>>,
         pc = "tables" => \A d \in DOMAIN list : DOMAIN list[d] # {}
  PROVE  \A d \in DOMAIN list \ todo : Accounted(d, Sends(pc, d))
  <1>1. Sound(db, Sends(pc, db))
    BY SendsSound DEF Control, PhaseInv
  <1>2. /\ Sends(pc, db) \in Seq(Queries) /\ Len(Sends(pc, db)) \in Nat
        /\ DOMAIN Sends(pc, db) = 1 .. Len(Sends(pc, db))
    BY <1>1, LenProperties DEF Sound
  <1>3. Len(queue) = 0
    BY EmptySeq
  <1>4. Sent(db) = Len(Sends(pc, db))
    BY <1>2, <1>3 DEF Sent
  <1>5. Accounted(db, Sends(pc, db))
    BY <1>2, <1>4 DEF History, SentInv, FirstAccounted, Accounted
  <1>6. ASSUME NEW d \in DOMAIN list \ todo, d # db
        PROVE  Accounted(d, Sends(pc, d))
    BY <1>6 DEF History, LoopInv
  <1> QED BY <1>5, <1>6

LEMMA EnterHistory ==
  ASSUME Control, History, EnterDatabase PROVE History'
  <1> DEFINE full == Sends(pc, db')
  <1>0. /\ pc \in PerDatabase /\ queue = <<>>
        /\ UNCHANGED <<argVars, pc, ran, lost, refused>>
    BY DEF EnterDatabase
  <1>1. PICK d \in todo :
          /\ db' = d
          /\ IF pc = "tables" /\ DOMAIN list[d] = {}
             THEN todo' = {} /\ queue' = <<>>
             ELSE /\ todo' = todo \ {d}
                  /\ queue' = IF pc = "indexes"
                              THEN generateIndexDefinitions(list[d])
                              ELSE generateTableDefinitions(version, collectBloat,
                                                            list[d])
    BY DEF EnterDatabase
  <1>2. d \in DOMAIN list
    BY DEF Control, TypeOK
  <1>3. queue' = full
    <2>1. CASE pc = "indexes"
      BY <1>1, <1>2, <2>1 DEF Sends
    <2>2. CASE pc = "tables"
      <3>1. full = generateTableDefinitions(version, collectBloat, list[d])
        BY <1>1, <1>2, <2>2 DEF Sends
      <3>2. CASE DOMAIN list[d] = {}
        <4>1. SchemaTables(list[d]) = {}
          BY <3>2 DEF SchemaTables
        <4>2. full = <<>>
          BY <3>1, <4>1 DEF generateTableDefinitions
        <4> QED BY <1>1, <2>2, <3>2, <4>2
      <3>3. CASE DOMAIN list[d] # {}
        BY <1>1, <2>2, <3>1, <3>3
      <3> QED BY <3>2, <3>3
    <2> QED BY <1>0, <2>1, <2>2 DEF PerDatabase
  <1>4. Sound(d, full)
    BY <1>1, SendsSound DEF Control, PhaseInv
  <1>5. full \in Seq(Queries) /\ Len(full) \in Nat
    BY <1>4, LenProperties DEF Sound
  <1>6. Sends(pc, db)' = full /\ \A p, c : Sends(p, c)' = Sends(p, c)
    BY <1>0, SameArgs
  <1>7. \A c, q : Fits(c, q)' <=> Fits(c, q)
    BY <1>0, SameArgs
  <1> HIDE DEF full
  <1>8. Sent(db)' = 0
    BY <1>3, <1>5, <1>6 DEF Sent
  <1>9. QueueInv'
    <2>1. \A i \in 1 .. Len(full) : full[0 + i] = full[i]
      OBVIOUS
    <2> QED BY <1>3, <1>5, <1>6, <1>8, <2>1 DEF QueueInv
  <1>10. PairsInv'
    <2>1. ASSUME NEW p \in ran \cup lost
          PROVE  p = <<p[1], p[2]>> /\ p[1] \notin todo /\ Fits(p[1], p[2])'
      BY <1>7 DEF History, PairsInv
    <2>2. \A q : <<d, q>> \notin ran \cup lost
      <3>1. \A q : <<d, q>>[1] = d
        OBVIOUS
      <3> QED BY <3>1 DEF History, PairsInv
    <2>3. todo' \subseteq todo
      BY <1>1
    <2>4. ran \cap lost = {}
      BY DEF History, PairsInv
    <2>5. ran' \cup lost' = ran \cup lost /\ ran' \cap lost' = {}
      BY <1>0, <2>4
    <2> QED BY <1>1, <2>1, <2>2, <2>3, <2>5 DEF PairsInv
  <1>11. SentInv'
    <2>1. 1 .. 0 = {}
      OBVIOUS
    <2> QED BY <1>0, <1>8, <2>1 DEF SentInv, FirstAccounted, PerDatabase
  <1>12. LoopInv'
    <2> SUFFICES ASSUME pc = "tables" => \A c \in DOMAIN list : DOMAIN list[c] # {},
                        NEW c \in DOMAIN list \ todo', c # d
                 PROVE  Accounted(c, Sends(pc, c))'
      BY <1>0, <1>1 DEF LoopInv, argVars
    <2>1. todo' = todo \ {d}
      BY <1>1, <1>2
    <2>2. c \in DOMAIN list \ todo
      BY <2>1
    <2>3. Accounted(c, Sends(pc, c))
      BY <1>0, <2>2, TurnEnds
    <2> QED BY <1>0, <1>6, <2>3 DEF Accounted
  <1> QED BY <1>9, <1>10, <1>11, <1>12 DEF History

LEMMA NoConnectionHistory ==
  ASSUME Control, History, NoConnection PROVE History'
  <1>1. PICK d \in todo : todo' = todo \ {d} /\ refused' = refused \cup {d}
    BY DEF NoConnection
  <1>2. /\ pc \in PerDatabase /\ queue = <<>> /\ queue' = queue
        /\ UNCHANGED <<argVars, pc, db, ran, lost>>
    BY DEF NoConnection
  <1>3. /\ \A p, c : Sends(p, c)' = Sends(p, c)
        /\ \A c, q : Fits(c, q)' <=> Fits(c, q)
    BY <1>2, SameArgs
  <1>4. Sends(pc, db)' = Sends(pc, db) /\ Sent(db)' = Sent(db)
    BY <1>2, <1>3 DEF Sent
  <1>5. QueueInv'
    BY <1>2, <1>4 DEF History, QueueInv
  <1>6. PairsInv'
    BY <1>1, <1>2, <1>3 DEF History, PairsInv
  <1>7. SentInv'
    <2>1. FirstAccounted(db, Sends(pc, db), Sent(db))
      BY <1>2 DEF History, SentInv
    <2>2. FirstAccounted(db, Sends(pc, db), Sent(db))'
      BY <1>1, <1>2, <1>4, <2>1 DEF FirstAccounted
    <2> QED BY <1>2, <2>2 DEF SentInv, PerDatabase
  <1>8. LoopInv'
    <2> SUFFICES ASSUME pc = "tables" => \A c \in DOMAIN list : DOMAIN list[c] # {},
                        NEW c \in DOMAIN list \ todo'
                 PROVE  Accounted(c, Sends(pc, c))'
      BY <1>2 DEF LoopInv, argVars
    <2>1. CASE c = d
      BY <1>1, <2>1 DEF Accounted
    <2>2. CASE c # d
      <3>1. Accounted(c, Sends(pc, c))
        BY <1>1, <1>2, <2>2, TurnEnds
      <3> QED BY <1>1, <1>2, <1>3, <3>1 DEF Accounted
    <2> QED BY <2>1, <2>2
  <1> QED BY <1>5, <1>6, <1>7, <1>8 DEF History

\* PopulateMetrics returns.
LEMMA DoneHistory ==
  ASSUME Control, History, pc' = "done", queue' = <<>>,
         UNCHANGED <<argVars, todo, db, ran, lost>>
  PROVE  History'
  <1>1. \A c, q : Fits(c, q)' <=> Fits(c, q)
    BY SameArgs
  <1>2. queue' \in Seq(Queries) /\ Len(queue') = 0
    BY EmptySeq
  <1>3. Sends(pc, db)' = <<>>
    <2>1. Sends("done", db') = <<>> /\ Sends(pc, db)' = Sends(pc', db')
      BY SameArgs DEF Sends, Queue
    <2> QED BY <2>1
  <1>4. QueueInv'
    BY <1>2, <1>3, EmptySeq DEF QueueInv
  <1>5. PairsInv'
    BY <1>1, <1>2 DEF History, PairsInv
  <1> QED
    BY <1>4, <1>5 DEF History, SentInv, LoopInv, PerDatabase

LEMMA StepHistory ==
  ASSUME Control, History, Next PROVE History'
  <1>1. CASE CollectVersion
    <2>1. CASE pc' = "done" /\ UNCHANGED <<queue, open, dialled>>
      <3>1. queue' = <<>>
        BY <1>1, <2>1 DEF CollectVersion, Control, OpenInv
      <3> QED BY <1>1, <2>1, <3>1, DoneHistory DEF CollectVersion
    <2>2. CASE pc' = "instance" /\ queue' = generateInstanceDefinitions(version)
      <3>1. /\ pc = "connect" /\ UNCHANGED <<argVars, todo, db, ran, lost>>
        BY <1>1 DEF CollectVersion
      <3>2. ran' = {} /\ lost' = {} /\ db' = Server
        BY <3>1 DEF Control, PhaseInv, PerDatabase
      <3>3. queue' = Sends(pc', Server)
        BY <2>2 DEF Sends
      <3>4. pc' \in Phases /\ pc' \notin PerDatabase
        BY <2>2 DEF Phases, PerDatabase
      <3> QED BY <3>1, <3>2, <3>3, <3>4, Starts
    <2> QED BY <1>1, <2>1, <2>2 DEF CollectVersion
  <1>2. CASE QueryAnswers \/ QueryFails
    BY <1>2, SentHistory DEF QueryAnswers, QueryFails
  <1>3. CASE EnterDatabase
    BY <1>3, EnterHistory
  <1>4. CASE NoConnection
    BY <1>4, NoConnectionHistory
  <1>5. CASE NextPhase
    <2>1. /\ pc' \in {"database", "locks", "tables", "indexes", "custom"}
          /\ db' = Server /\ queue' = Queue(pc') /\ ran' = {} /\ lost' = {}
          /\ todo' = IF pc' \in PerDatabase THEN DOMAIN list ELSE {}
          /\ UNCHANGED argVars
      BY <1>5 DEF NextPhase, After, Control, TypeOK
    <2>2. queue' = Sends(pc', Server)
      BY <2>1, QueueOfServer
    <2>3. pc' \in Phases
      BY <2>1 DEF Phases
    <2> QED BY <2>1, <2>2, <2>3, Starts
  <1>6. CASE PopulateCustomMetrics
    <2>1. /\ pc = "custom" /\ pc' = "pgbouncer" /\ ran' = {} /\ lost' = {}
          /\ queue' = Queue(pc') \/ queue' = <<>>
          /\ UNCHANGED <<argVars, todo, db>>
      BY <1>6 DEF PopulateCustomMetrics
    <2>2. db' = Server
      BY <2>1 DEF Control, PhaseInv, PerDatabase
    <2>3. queue' = Sends(pc', Server) \/ queue' = <<>>
      BY <2>1, QueueOfServer
    <2>4. pc' \in Phases /\ pc' \notin PerDatabase
      BY <2>1 DEF Phases, PerDatabase
    <2> QED BY <2>1, <2>2, <2>3, <2>4, Starts
  <1>7. CASE Finish
    <2>1. /\ pc' = "done" /\ queue' = <<>>
          /\ UNCHANGED <<argVars, todo, db, ran, lost>>
      BY <1>7 DEF Finish
    <2> QED BY <2>1, DoneHistory
  <1> QED BY <1>1, <1>2, <1>3, <1>4, <1>5, <1>6, <1>7 DEF Next

LEMMA StutterHistory ==
  ASSUME Control, History, UNCHANGED vars PROVE Control' /\ History'
  <1> USE DEF vars
  <1>1. Control'
    BY DEF Control, TypeOK, PhaseInv, OpenInv, Undialled, argVars
  <1>2. /\ \A p, c : Sends(p, c)' = Sends(p, c)
        /\ \A c, q : Fits(c, q)' <=> Fits(c, q)
    BY SameArgs
  <1>3. \A d : Sent(d)' = Sent(d)
    BY <1>2 DEF Sent
  <1>4. QueueInv'
    BY <1>2, <1>3 DEF History, QueueInv
  <1>5. PairsInv'
    BY <1>2 DEF History, PairsInv
  <1>6. SentInv'
    BY <1>2, <1>3 DEF History, SentInv, FirstAccounted
  <1>7. LoopInv'
    BY <1>2 DEF History, LoopInv, Accounted, argVars
  <1> QED BY <1>1, <1>4, <1>5, <1>6, <1>7 DEF History

LEMMA StepAnswers ==
  ASSUME AnswerInv, [Next]_vars PROVE AnswerInv'
  <1>1. CASE QueryAnswers
    <2>1. /\ ran' = ran \cup {<<db, Head(queue)>>} /\ version' = version
          /\ Answerable(Head(queue), version)
      BY <1>1 DEF QueryAnswers, argVars
    <2> QED BY <2>1 DEF AnswerInv
  <1>2. CASE ~QueryAnswers
    <2>1. version' = version /\ ran' \in {ran, {}}
      BY <1>2 DEF Next, CollectVersion, QueryFails, EnterDatabase, NoConnection,
                  NextPhase, PopulateCustomMetrics, Finish, argVars, vars
    <2> QED BY <2>1 DEF AnswerInv
  <1> QED BY <1>1, <1>2

\* The conjunction of all is inductive: what is sent next is known from what
\* was sent, and how many connections there are from the databases visited.
THEOREM Inductive == Spec => []IInv
  <1>1. Init => Control /\ History /\ AnswerInv
    BY InitControl, InitHistory DEF Init, AnswerInv
  <1>2. /\ Control /\ History /\ AnswerInv
        /\ [Next]_vars
        => (Control /\ History /\ AnswerInv)'
    <2> SUFFICES ASSUME Control, History, AnswerInv, [Next]_vars
                 PROVE  Control' /\ History'
      BY StepAnswers
    <2>1. CASE Next
      <3>1. History'
        BY <2>1, StepHistory
      <3>2. Control'
        BY <2>1, <3>1, StepControl DEF History, PairsInv
      <3> QED BY <3>1, <3>2
    <2>2. CASE UNCHANGED vars
      BY <2>2, StutterHistory
    <2> QED BY <2>1, <2>2
  <1>3. Control /\ History /\ AnswerInv => IInv
    BY DEF Control, History, IInv
  <1> QED BY <1>1, <1>2, <1>3, PTL DEF Spec

-----------------------------------------------------------------------------
(* The theorems *)

\* Every variable keeps its type, and no query is both answered and lost.
THEOREM Typing == Spec => []TypeOK
  <1>1. IInv => TypeOK
    BY DEF IInv
  <1> QED BY <1>1, Inductive, PTL

\* No query but that for locks is sent to a server whose catalogs lack its
\* columns, whatever its version; that one only before 9.2, and in vain.  None
\* is sent for objects that are not listed (*_definitions.go).
THEOREM QueriesFit == Spec => []QueriesFitServer
  <1>1. IInv => QueriesFitServer
    BY DEF IInv, PairsInv, AnswerInv, Fits, QueriesFitServer
  <1> QED BY <1>1, Inductive, PTL

\* A refused connection or failing query costs no other database and no other
\* function anything, whatever order the databases come in.
THEOREM LossStaysLocal == Spec => []LossIsLocal
  <1>1. IInv => LossIsLocal
    <2> SUFFICES ASSUME Control, History PROVE LossIsLocal
      BY DEF IInv, Control, History
    <2> DEFINE full == Sends(pc, Server)
    <2>1. ASSUME queue = <<>>, pc \in {"instance", "database"}
          PROVE  \A k \in DOMAIN full : <<Server, full[k]>> \in ran \cup lost
      <3>1. Sound(Server, full)
        BY SendsSound DEF Control, PhaseInv
      <3>2. full \in Seq(Queries) /\ Len(full) \in Nat /\ DOMAIN full = 1 .. Len(full)
        BY <3>1, LenProperties DEF Sound
      <3>3. Len(queue) = 0
        BY <2>1, EmptySeq
      <3>4. Sent(Server) = Len(full)
        BY <3>2, <3>3 DEF Sent
      <3> QED BY <2>1, <3>2, <3>4 DEF History, SentInv
    <2>2. ASSUME Over("instance")
          PROVE  \A k \in DOMAIN generateInstanceDefinitions(version) :
                   <<Server, generateInstanceDefinitions(version)[k]>> \in ran \cup lost
      <3>1. full = generateInstanceDefinitions(version)
        BY <2>2 DEF Over, Sends
      <3> QED BY <2>1, <2>2, <3>1 DEF Over
    <2>3. ASSUME Over("database")
          PROVE  \A k \in DOMAIN Queue("database") :
                   <<Server, Queue("database")[k]>> \in ran \cup lost
      <3>1. full = Queue("database")
        BY <2>3 DEF Over, Sends
      <3> QED BY <2>1, <2>3, <3>1 DEF Over
    <2>4. ASSUME Over("tables"), \A d \in DOMAIN list : DOMAIN list[d] # {}
          PROVE  TablesAccounted
      <3>1. \A d \in DOMAIN list : Accounted(d, Sends("tables", d))
        BY <2>4, TurnEnds DEF Over, PerDatabase
      <3>2. \A d \in DOMAIN list : Sends("tables", d) =
              generateTableDefinitions(version, collectBloat, list[d])
        BY DEF Sends
      <3> QED BY <3>1, <3>2 DEF TablesAccounted
    <2>5. ASSUME Over("indexes")
          PROVE  \A d \in DOMAIN list : Accounted(d, generateIndexDefinitions(list[d]))
      <3>1. \A d \in DOMAIN list : Accounted(d, Sends("indexes", d))
        BY <2>5, TurnEnds DEF Over, PerDatabase
      <3>2. \A d \in DOMAIN list : Sends("indexes", d) =
              generateIndexDefinitions(list[d])
        BY DEF Sends
      <3> QED BY <3>1, <3>2
    <2> HIDE DEF full
    <2> QED BY <2>2, <2>3, <2>4, <2>5 DEF LossIsLocal
  <1> QED BY <1>1, Inductive, PTL

\* metrics.go:33, 353-365, 424-431: the loops never hold more than a connection
\* per listed database beside the main one, and every function gives back what
\* it took.
THEOREM Connections == Spec => []ConnectionsReturned
  <1>1. IInv => ConnectionsReturned
    <2> SUFFICES ASSUME Control PROVE ConnectionsReturned
      BY DEF IInv, Control
    <2>1. /\ Cardinality(DOMAIN list) \in Nat /\ Cardinality(todo) \in Nat
          /\ open \in Nat /\ Undialled \in Nat
      BY Sizes DEF Control, TypeOK, Undialled
    <2>2. CASE pc \in PerDatabase
      <3>1. open <= 1 + Cardinality(DOMAIN list)
        BY <2>1, <2>2 DEF Control, OpenInv
      <3> QED BY <2>2, <3>1 DEF ConnectionsReturned, PerDatabase
    <2>3. CASE pc = "pgbouncer"
      <3>1. open <= 2
        BY <2>1, <2>3 DEF Control, OpenInv
      <3> QED BY <2>3, <3>1 DEF ConnectionsReturned, PerDatabase
    <2>4. CASE pc \notin PerDatabase \cup {"pgbouncer"}
      <3>1. open = IF pc \in {"connect", "done"} THEN 0 ELSE 1
        BY <2>4 DEF Control, TypeOK, OpenInv, PerDatabase
      <3> QED BY <2>4, <3>1 DEF ConnectionsReturned
    <2> QED BY <2>2, <2>3, <2>4
  <1> QED BY <1>1, Inductive, PTL
=============================================================================
