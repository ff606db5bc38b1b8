-------------------------- MODULE MCCustomQueries --------------------------
(* Three queries over a semaphore of two tokens, so that the main goroutine  *)
(* blocks on it; one named database and the empty name.                      *)
EXTENDS CustomQueries
=============================================================================
