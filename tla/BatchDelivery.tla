--------------------------- MODULE BatchDelivery ---------------------------
(***************************************************************************)
(* What the batching ingester promises to the query-monitoring pipeline:   *)
(* metric sets are accepted one by one, leave in the order of acceptance,  *)
(* each at most once and always as the whole backlog.  A failing write may *)
(* discard the backlog, and nothing else ever does.                        *)
(***************************************************************************)
EXTENDS Sequences

CONSTANT Item          \* the metric sets that can be handed over

VARIABLES backlog,     \* accepted and neither delivered nor discarded
          delivered    \* what New Relic has received, oldest first

bdVars == <<backlog, delivered>>

Fresh(x) == \A y \in {backlog[k] : k \in DOMAIN backlog}
                       \cup {delivered[k] : k \in DOMAIN delivered} : x # y

Init == backlog = <<>> /\ delivered = <<>>

Accept(x) ==
  /\ Fresh(x)
  /\ backlog' = Append(backlog, x)
  /\ UNCHANGED delivered

Deliver ==
  /\ backlog # <<>>
  /\ delivered' = delivered \o backlog
  /\ backlog' = <<>>

Discard ==
  /\ backlog # <<>>
  /\ backlog' = <<>>
  /\ UNCHANGED delivered

Next == (\E x \in Item : Accept(x)) \/ Deliver \/ Discard

Spec == Init /\ [][Next]_bdVars
=============================================================================
