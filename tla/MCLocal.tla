------------------------------ MODULE MCLocal ------------------------------
(* Instances of LocalActivation for TLC. *)
EXTENDS LocalActivation

CONSTANTS r1, probe, b1, b2

OneRuntime == {r1}
OneClass == {probe}
MCBuilds == {b1, b2}
MCDispatches == {<<1, 0>>, <<1, 2>>}
=============================================================================
