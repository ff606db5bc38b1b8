--------------------------- MODULE MCIngestMetric ---------------------------
(* Lists of up to MaxLen models of every kind, and two or three calls.      *)
EXTENDS IngestMetric, SequencesExt

MCLists == UNION {[1 .. n -> Kind] : n \in 0 .. MaxLen}
=============================================================================
