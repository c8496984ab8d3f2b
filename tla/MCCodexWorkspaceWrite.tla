------------------------ MODULE MCCodexWorkspaceWrite ------------------------
(* Instances of CodexWorkspaceWrite for TLC. *)
EXTENDS CodexWorkspaceWrite, TLC

Symmetry == Permutations(Threads) \cup Permutations(Workers)
=============================================================================
