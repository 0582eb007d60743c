---------------------------- MODULE MCSupervision ----------------------------
(* Supervision with two runs: one that dies and one that comes after it or
   beside it. *)
EXTENDS Supervision

CONSTANTS r1, r2

MCRuns == {r1, r2}
=============================================================================
