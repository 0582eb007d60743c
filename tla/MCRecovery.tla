----------------------------- MODULE MCRecovery -----------------------------
(* WorkerRecovery on three backend objects and two profiles. *)
EXTENDS WorkerRecovery

CONSTANTS b1, b2, b3, p1, p2

MCBackends == {b1, b2, b3}
MCProfiles == {p1, p2}

\* What an object nothing refers to looks like has no effect until it is made
\* anew.
MCObject(b) ==
  IF b \in Unused THEN <<>>
  ELSE <<proc[b], usable[b], attached[b], payload[b] = None, payload[b] = profile,
         lastExit[b], lock[b]>>

\* Profiles are only ever compared, so of two it matters which are the same as the
\* one on disk.  States with one view have the same steps up to the names of the
\* profiles, and no property names a profile.
MCView ==
  <<[b \in Backends |-> MCObject(b)], identity = profile, backend, starting, restarting,
    refused, restarts, idleBusy, waiting, schedVars, tunerDone, failures, tuneOutcome,
    late, closeVars>>
=============================================================================
