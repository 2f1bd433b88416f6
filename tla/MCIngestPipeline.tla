-------------------------- MODULE MCIngestPipeline --------------------------
(* Small instances of IngestPipeline for TLC. *)
EXTENDS IngestPipeline, TLC

\* Every file holds the same bytes, so that FindByHash has something to find.
SameContent == [f \in Files |-> "bytes"]

Symmetry == Permutations(Workers) \cup Permutations(Requests) \cup Permutations(Files)
=============================================================================
