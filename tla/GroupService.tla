---------------------------- MODULE GroupService ----------------------------
(***************************************************************************)
(* What ProductService relies on when it hands requests to a backend: the  *)
(* promise of complete_batch() in ironmule_product/backend.py, stated      *)
(* without the worker.  A request is out while a batch holds it; it is     *)
(* answered once, by tokens in order and one end, or it comes back with    *)
(* nothing streamed.  BatchProtocol implements this specification.         *)
(***************************************************************************)
EXTENDS Naturals

CONSTANTS
  Requests,
  Output         \* Output[r]: the most tokens r may get (its max_tokens)

VARIABLES
  out,           \* the requests the running batch holds and has not answered
  tokens,        \* tokens[r]: tokens delivered for r
  answer,        \* answer[r]: how r ended, or "none"
  cancelled      \* requests whose caller asked to stop

abstractVars == <<out, tokens, answer, cancelled>>

Answers == {"none", "stop", "cancelled", "rejected"}

Init ==
  /\ out = {}
  /\ tokens = [r \in Requests |-> 0]
  /\ answer = [r \in Requests |-> "none"]
  /\ cancelled = {}

Ask(r) ==
  /\ r \notin cancelled
  /\ cancelled' = cancelled \cup {r}
  /\ UNCHANGED <<out, tokens, answer>>

(* Requests enter the batch together, at its start or as joiners.  None of *)
(* them was answered before.                                               *)
Enter(S) ==
  /\ \A r \in S : r \notin out /\ answer[r] = "none" /\ tokens[r] = 0

Token(r) ==
  /\ r \in out
  /\ tokens[r] < Output[r]
  /\ tokens' = [tokens EXCEPT ![r] = @ + 1]

(* A request that ends was really produced to its end, or its caller asked *)
(* to stop, or it was rejected before any token.                           *)
End(r, how) ==
  /\ r \in out
  /\ \/ how = "stop" /\ tokens[r] = Output[r]
     \/ how = "cancelled" /\ r \in cancelled
     \/ how = "rejected" /\ tokens[r] = 0
  /\ answer' = [answer EXCEPT ![r] = how]

(* The batch ends: what it still holds goes back unanswered and untouched. *)
Close ==
  /\ out' = {}
  /\ \A r \in out : tokens[r] = 0
  /\ UNCHANGED <<tokens, answer, cancelled>>

(* Each frame the client reads may be preceded by joiners it announces.    *)
Next ==
  \/ \E r \in Requests : Ask(r)
  \/ Close
  \/ \E S \in SUBSET Requests :
       /\ Enter(S)
       /\ \/ S # {} /\ out' = out \cup S /\ UNCHANGED <<tokens, answer, cancelled>>
          \/ \E r \in Requests :
               Token(r) /\ out' = out \cup S /\ UNCHANGED <<answer, cancelled>>
          \/ \E r \in Requests, how \in Answers \ {"none"} :
               End(r, how) /\ out' = (out \cup S) \ {r} /\ UNCHANGED <<tokens, cancelled>>

Spec == Init /\ [][Next]_abstractVars
=============================================================================
