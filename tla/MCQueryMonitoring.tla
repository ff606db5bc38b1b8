------------------------- MODULE MCQueryMonitoring -------------------------
(* Two databases with the same statement text under different ids (tenants  *)
(* with one schema), one id that both databases share (a statement on no    *)
(* table), a statement whose id and text the user may not see, and a server *)
(* that lists one statement twice, for two users and two events.            *)
EXTENDS QueryMonitoring

St(db, id, text) == [db |-> db, id |-> id, text |-> text]

A1 == St("a", "1", "t")
A2 == St("a", "2", "u")
B3 == St("b", "3", "t")
B2 == St("b", "2", "u")
Hidden == St("a", "nil", "hidden")

MCStatement == {A1, A2, B3, B2, Hidden}

Server(slow, samples, active, waits, blocks) ==
  [slow |-> slow, samples |-> samples, active |-> active, waits |-> waits,
   blocks |-> blocks]

MCServers ==
  {Server(<<A1, B3>>, <<A1, B3>>, <<A1>>, <<A1, A2>>, << <<A1, B3>> >>),
   Server(<<A2, B2>>, <<A2>>, <<B2>>, <<B2>>, << <<A2, A2>>, <<A2, A1>> >>),
   Server(<<Hidden, A1>>, <<A1>>, <<Hidden, A1>>, <<Hidden>>, << <<A1, A1>> >>),
   Server(<<A1, A1>>, <<A1>>, <<A1>>, <<A1, A1>>, <<>>)}
=============================================================================
