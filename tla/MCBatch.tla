------------------------------- MODULE MCBatch -------------------------------
(* Model values and small instances of BatchProtocol for TLC.              *)
EXTENDS BatchProtocol

CONSTANTS a, b, c

MCRequests == {a, b, c}
MCPrompt == [r \in MCRequests |-> IF r = b THEN 2 ELSE 1]
MCOutput == [r \in MCRequests |-> IF r = c THEN 1 ELSE 2]
MCCancelling == {a, c}
TunedEngine == [limit |-> NoLimit, slots |-> 9]
DenseEngine == [limit |-> 4, slots |-> 2]
MCEngines == {TunedEngine, DenseEngine}
=============================================================================
