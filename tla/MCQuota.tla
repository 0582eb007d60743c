------------------------------- MODULE MCQuota -------------------------------
(* QuotaLedger with a command that is started twice, another one and a probe. *)
EXTENDS QuotaLedger, TLC

CONSTANTS c1, c2, p1, s1, s2

MCProcs == {c1, c2, p1}
MCCloud == {c1, c2}
MCSlugs == {s1, s2}
MCSlugOf == (c1 :> s1) @@ (c2 :> s1) @@ (p1 :> s2)
MCAmount == (c1 :> 2) @@ (c2 :> 2) @@ (p1 :> 1)
MCCapOf == [t \in 0..MaxTotal |-> IF t <= 5 THEN 1 ELSE 3]
\* The two that run one specification are interchangeable.
Symmetry == Permutations(MCCloud)
=============================================================================
