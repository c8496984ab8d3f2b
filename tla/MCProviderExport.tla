-------------------------- MODULE MCProviderExport --------------------------
(* Instances of ProviderExport for TLC. *)
EXTENDS ProviderExport, TLC

Symmetry == Permutations(Threads)
=============================================================================
