---------------------------- MODULE MCRelayRestart ----------------------------
(* Instances of RelayRestart for TLC. *)
EXTENDS RelayRestart, TLC

Symmetry == Permutations(Owners)
=============================================================================
