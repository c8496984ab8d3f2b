--------------------------- MODULE MCReadModelCache ---------------------------
(* Instances of ReadModelCache for TLC. *)
EXTENDS ReadModelCache, TLC

Symmetry == Permutations(Keys) \cup Permutations(Readers)
=============================================================================
