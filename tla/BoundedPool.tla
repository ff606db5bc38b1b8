---------------------------- MODULE BoundedPool ----------------------------
(***************************************************************************)
(* What the goroutines of the custom queries promise together, without     *)
(* channel, WaitGroup or deferred calls: a job runs at most once, at most  *)
(* Limit run at a time, only a running job holds a connection and it does  *)
(* not end before it has given it back, and the results are taken when     *)
(* nothing runs and nothing will run again.                                *)
(***************************************************************************)
EXTENDS Integers

CONSTANTS Job, Limit

VARIABLES
  free,       \* slots that no job is in
  running,
  ended,
  holding,    \* jobs with a connection
  closed      \* the results have been taken

poolVars == <<free, running, ended, holding, closed>>

Init ==
  /\ free = Limit
  /\ running = {} /\ ended = {} /\ holding = {} /\ closed = FALSE

Start(j) ==
  /\ ~closed /\ j \notin running \cup ended
  /\ free > 0 /\ free' = free - 1
  /\ running' = running \cup {j}
  /\ UNCHANGED <<ended, holding, closed>>

Take(j) ==
  /\ j \in running
  /\ holding' = holding \cup {j}
  /\ UNCHANGED <<free, running, ended, closed>>

GiveBack(j) ==
  /\ j \in holding
  /\ holding' = holding \ {j}
  /\ UNCHANGED <<free, running, ended, closed>>

End(j) ==
  /\ j \in running \ holding
  /\ free' = free + 1
  /\ running' = running \ {j} /\ ended' = ended \cup {j}
  /\ UNCHANGED <<holding, closed>>

Close ==
  /\ running = {} /\ ~closed
  /\ closed' = TRUE
  /\ UNCHANGED <<free, running, ended, holding>>

Next == Close \/ \E j \in Job : Start(j) \/ Take(j) \/ GiveBack(j) \/ End(j)

Spec == Init /\ [][Next]_poolVars
=============================================================================
