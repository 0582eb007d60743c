----------------------------- MODULE MCLearning -----------------------------
(* Small instances of LiveLearning for TLC. *)
EXTENDS LiveLearning, TLC

CONSTANTS p, q

MCPolicies == {p, q}

Symmetry == Permutations(MCPolicies)

=============================================================================
