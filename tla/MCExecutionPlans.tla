-------------------------- MODULE MCExecutionPlans --------------------------
(* Three queries over two databases and two free connections, so that three  *)
(* queries of one database do not fit; plans up to depth two with siblings,  *)
(* an undecodable inner node and an undecodable root.                        *)
EXTENDS ExecutionPlans

MCPlans == {NoPlan,
            [nodes |-> {<<>>}, bad |-> {<<>>}],
            [nodes |-> {<<>>, <<1>>, <<1, 1>>, <<2>>}, bad |-> {}],
            [nodes |-> {<<>>, <<1>>, <<1, 1>>, <<2>>}, bad |-> {<<1>>}]}
=============================================================================
