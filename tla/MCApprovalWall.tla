--------------------------- MODULE MCApprovalWall ---------------------------
(* Instances of ApprovalWall for TLC. *)
EXTENDS ApprovalWall, TLC

Symmetry == Permutations(Threads)
=============================================================================
