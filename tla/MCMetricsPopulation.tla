------------------------ MODULE MCMetricsPopulation ------------------------
(* Up to two databases whose schema lists are empty, without tables, with a  *)
(* table and with an index; the boundary versions.                           *)
EXTENDS MetricsPopulation

CONSTANTS d1, d2, s1, t1, i1

Schemas == {<<>>, s1 :> <<>>, s1 :> (t1 :> <<>>), s1 :> (t1 :> <<i1>>)}

MCLists == {<<>>} \cup {d1 :> a : a \in Schemas}
             \cup {d1 :> a @@ d2 :> b : a, b \in Schemas}
=============================================================================
