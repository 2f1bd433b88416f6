---------------------------- MODULE MCVectorize ----------------------------
(* Small instances of Vectorize for TLC. *)
EXTENDS Vectorize, TLC

\* Two chunks by the small size and one by the large.
TwoOrOne == [f \in Files |-> [s \in Sizes |-> IF s = "small" THEN 2 ELSE 1]]

Symmetry == Permutations(Workers) \cup Permutations(Requests)
            \cup Permutations(Files)
=============================================================================
