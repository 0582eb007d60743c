------------------------------ MODULE MCAgent ------------------------------
(* Small instances of Agent for TLC. *)
EXTENDS Agent, TLC

CONSTANTS p, q

MCPolicies == {p, q}

\* Every policy decides in its own way.
MCBehaviour == [s \in MCPolicies |-> s]

Symmetry == Permutations(MCPolicies)

=============================================================================
