------------------------------- MODULE MCParts -------------------------------
(***************************************************************************)
(* The values with which TLC checks the parts.                             *)
(***************************************************************************)
EXTENDS Parts

-----------------------------------------------------------------------------
(* ServerVersion: versions on both sides of each boundary, patch levels of   *)
(* two digits, a version of four numbers, majors not released yet.           *)

MCReleases ==
  {<<9, 0>>, <<9, 0, 23>>, <<9, 1>>, <<9, 1, 24>>, <<9, 2, 0>>, <<9, 2, 10>>,
   <<9, 6, 7, 13>>, <<9, 6, 10>>, <<10, 0>>, <<10, 4>>, <<11, 22>>, <<12, 0>>,
   <<12, 10>>, <<13, 4>>, <<14, 0>>, <<16, 10>>, <<17, 0>>, <<17, 2>>, <<18, 1>>}
MCMajors == {12, 17, 18}

-----------------------------------------------------------------------------
(* Normalization: statements of up to three tokens, with quotes, digits,     *)
(* semicolons and blanks where they confuse a function that knows no grammar.*)

T(kind, body) == [kind |-> kind, body |-> body, gap |-> <<" ">>]
Tokens == {T("word", <<"a">>), T("word", <<"b", "1">>), T("word", <<"b", "2">>),
           T("number", <<"1">>), T("string", <<"A", "1">>),
           T("name", <<"a">>), T("name", <<"B">>), T("name", <<"'">>),
           T("sign", <<"=">>)}

Literal == {T("number", <<"1">>), T("string", <<"A", "1">>)}

MCShapes == {<<t, u>> : t, u \in Tokens} \cup
            {<<T("word", <<"a">>), t, u>> : t \in Tokens, u \in Literal}
MCNumbers == {<<"1">>, <<"2", "0">>, <<"1", ".", "2">>}
MCStrings == {<<>>, <<"A", "1">>, <<"\"">>, <<"'">>, <<";", " ">>,
              <<"newline", "$">>}
MCParameter == <<<<"1">>, <<"2">>, <<"1", "0">>>>
MCGaps == {<<" ">>, <<" ", "newline">>}

-----------------------------------------------------------------------------
(* ListedObjects: two databases with tables of one name in two schemas,      *)
(* "s"."a.t" beside "s.a"."t", an index of one name on both sides, a view, a *)
(* table with a quote in its name, a template database, and a database       *)
(* pgbouncer knows by the same name for two users.                           *)

InSchema == <<<<"s">>, <<"t">>>>
InDotted == <<<<"s", "a">>, <<"t">>>>
DottedTable == <<<<"s">>, <<"a", "t">>>>
View == <<<<"s">>, <<"v">>>>
QuotedTable == <<<<"s">>, <<"o'k">>>>
IndexOf(path) == Append(path, <<"i">>)

O(b, path) == [db |-> b, path |-> path]
WithSchemas(tables) == tables \cup {<<p[1]>> : p \in tables}
ListedPaths ==
  {{}, WithSchemas({InSchema}), WithSchemas({InSchema, InDotted}),
   WithSchemas({InDotted}), WithSchemas({InSchema}) \cup {IndexOf(InSchema)},
   WithSchemas({InSchema, InDotted}) \cup {IndexOf(InSchema), IndexOf(InDotted)},
   WithSchemas({InSchema, View}), WithSchemas({InSchema, QuotedTable})}

MCObjects ==
  {O(<<"d">>, p) : p \in {<<>>, InSchema, InDotted, DottedTable, View, QuotedTable,
                          IndexOf(InSchema), IndexOf(InDotted)}}
    \cup {O(<<"e">>, <<>>), O(<<"e">>, InSchema), O(<<"f">>, <<>>)}
MCUnseen == {O(<<"d">>, View), O(<<"f">>, <<>>)}
MCLists ==
  {<<>>} \cup {[b \in {<<"d">>} |-> p] : p \in ListedPaths}
    \cup {[b \in {<<"d">>, <<"e">>} |-> IF b = <<"d">> THEN p ELSE q] :
            p, q \in {{}, WithSchemas({InSchema})}}
    \cup {[b \in {<<"d">>, <<"f">>} |-> WithSchemas({InSchema})]}
MCPools == {[database |-> <<"d">>, user |-> "u"], [database |-> <<"d">>, user |-> "v"],
            [database |-> <<>>, user |-> "u"]}
MCNoName == <<>>

-----------------------------------------------------------------------------
(* Connection: two connections of one run, a server certificate of either    *)
(* authority, and tablefunc nowhere, in public, or in another schema.        *)

MCInstalled ==
  {<<>>, <<<<"plpgsql", "public">>>>, <<<<"tablefunc", "other">>>>,
   <<<<"plpgsql", "pg_catalog">>, <<"tablefunc", "public">>>>}

-----------------------------------------------------------------------------
(* QueryParameters: thresholds scaled down from 20, 30, 10 and 600.  A slow  *)
(* query can have more executions than its quota, the server more statements *)
(* than the limit, and without the limits a list can reach a batch.          *)

Slowest == {<<>>, <<3>>, <<1>>, <<3, 1>>, <<2, 2>>, <<3, 2, 1>>}

MCStatements == {<<>>} \cup {<<a>> : a \in Slowest} \cup {<<a, b>> : a, b \in Slowest}
                \cup {<<a, b, a>> : a, b \in Slowest}
                \cup {<<a, a, b, a, b>> : a, b \in {<<3, 3>>, <<3, 2, 2>>}}
MCCountArgs == {-1, 0, 1, 3, 9}
MCTimeArgs == -1 .. 2

-----------------------------------------------------------------------------
(* LockMetrics: two sessions of a listed database and one of a database that *)
(* is not, a mode with a column and one without.                             *)

MCSessions == {<<1, "a">>, <<2, "a">>, <<3, "b">>}
=============================================================================
