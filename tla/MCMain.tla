------------------------------- MODULE MCMain -------------------------------
(* Lists that close two batches, that leave a rest, and that ingest nothing. *)
EXTENDS Main

MCLists == {<<>>, <<"nil">>, <<"struct", "nil">>,
            <<"struct", "struct", "struct", "nil", "struct">>}
=============================================================================
