--------------------------- MODULE MCCoordinator ----------------------------
(* Coordinator with two actions and two identities, one of which has its own
   evaluator. *)
EXTENDS Coordinator, TLC

CONSTANTS a1, a2, i1, i2

MCActions == {a1, a2}
MCIdentities == {i1, i2}
MCOwn == {i2}
Symmetry == Permutations(MCActions)
=============================================================================
