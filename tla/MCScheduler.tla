---------------------------- MODULE MCScheduler ----------------------------
(* Instances of ProductScheduler for TLC. *)
EXTENDS ProductScheduler, TLC

CONSTANTS a, b, c, d, e

\* b is longer than a; c as long as a: shortest-first has to reorder and to
\* break a tie.
MCLimit == [r \in Requests |-> IF r = b THEN 2 ELSE 1]

\* The requests are interchangeable where no output limit tells them apart.
SameLimit == [r \in Requests |-> 1]
Symmetry == Permutations(Requests \cap Eligible)

=============================================================================
