---------------------------- MODULE MCGatewayAccess ----------------------------
(* Instances of GatewayAccess for TLC. *)
EXTENDS GatewayAccess, TLC

CONSTANTS a1, a2, k1, k2, k3, s1

\* The first agent can rotate its token, and has a session of the first.
HolderOf == (k1 :> a1) @@ (k2 :> a1) @@ (k3 :> a2)
ParentOf == s1 :> k1

Symmetry == Permutations(Runs) \cup Permutations(Operators)
=============================================================================
