-------------------------- MODULE MCCollectionList --------------------------
(* Two databases, answers with NULL columns, tables with no, one and two     *)
(* indexes and equal table names in two schemas, and too few connections for *)
(* the longest list of names.                                                *)
EXTENDS CollectionList

CONSTANTS d1, d2, s1, s2, t1, t2, i1, i2

Row(s, t, i) == [schema |-> s, table |-> t, index |-> i]

MCRowLists ==
  LET base == <<Row(s1, t1, i1), Row(s1, t1, i2), Row(s2, t1, Null),
                Row(s1, t2, Null), Row(Null, Null, i1)>>
      order(p) == [k \in DOMAIN p |-> base[p[k]]]
  IN  {<<>>} \cup {order(p) : p \in {<<1>>, <<3>>, <<5>>, <<1, 4>>, <<4, 5, 3>>,
         <<1, 2>>, <<2, 3, 1>>, <<3, 1, 4, 2>>, <<1, 3, 5, 2, 4>>}}

MCHashes ==
  LET schemas == {<<>>, s1 :> <<>>, s1 :> (t1 :> <<i1>>),
                  s1 :> (t1 :> <<i1, i2>> @@ t2 :> <<>>)}
  IN  {EmptyList} \cup {d1 :> a : a \in schemas}
        \cup {d1 :> a @@ d2 :> b : a, b \in schemas}

MCNameLists == {<<>>, <<d1>>, <<d2, d1>>, <<d1, d1>>, <<d1, d2, d1>>}

MCIgnoreDbs == SUBSET {d1, d2}
MCIgnoreTables == {{}, {t1}, {t1, t2}}
=============================================================================
