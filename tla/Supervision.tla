----------------------------- MODULE Supervision -----------------------------
(***************************************************************************)
(* Who owns a measurement process of the native optimizer                   *)
(* (native/optimizer): proc.rs and Adapter::call of adapter.rs.              *)
(*                                                                         *)
(* A run is one `imopt` process on a state directory.  Each of its adapter   *)
(* calls is a supervisor process that holds the lease of the directory       *)
(* shared, starts the adapter in a process group and ends that group when    *)
(* the adapter exits or its lifeline, a pipe to the run, closes.  A run      *)
(* takes the lease exclusively once, at its gate, before its first call.     *)
(*                                                                         *)
(* Left out: a supervisor killed with SIGKILL and processes that leave the   *)
(* adapter's group, which proc.rs does not cover either; what an adapter     *)
(* answers; when a wait is too long.                                         *)
(***************************************************************************)
CONSTANT Runs  \* the imopt processes on one state directory

VARIABLES
    run,     \* where each run is
    sup,     \* the supervisor of its last call
    line,    \* the write end of that call's lifeline is open
    gone,    \* GONE of that supervisor
    beside   \* history: the runs that were up when it passed the gate

groupVars == <<run, sup, line, gone, beside>>

-----------------------------------------------------------------------------
Up(r) == run[r] \in {"up", "call"}

\* The supervisor holds the lease.
Holds(r) == sup[r] \in {"leased", "checked", "running", "ending"}

\* A process of the adapter may live.
Lives(r) == sup[r] \in {"running", "ending"}

GroupInit ==
    /\ run = [r \in Runs |-> "new"] /\ sup = [r \in Runs |-> "none"]
    /\ line = [r \in Runs |-> FALSE] /\ gone = [r \in Runs |-> FALSE]
    /\ beside = [r \in Runs |-> {}]

-----------------------------------------------------------------------------
(* The run. *)

Go(r, from, to) == run[r] = from /\ run' = [run EXCEPT ![r] = to]

StartRun(r) == Go(r, "new", "gate") /\ UNCHANGED <<sup, line, gone, beside>>

\* The exclusive lock is free only if no supervisor holds the lease; it is
\* given back at once.
PassGate(r) ==
    /\ \A q \in Runs : ~Holds(q)
    /\ Go(r, "gate", "up")
    /\ beside' = [beside EXCEPT ![r] = {q \in Runs : Up(q)}]
    /\ UNCHANGED <<sup, line, gone>>

\* The gate wait is over and a supervisor still holds the lease.
Refuse(r) ==
    /\ \E q \in Runs : Holds(q)
    /\ Go(r, "gate", "dead")
    /\ UNCHANGED <<sup, line, gone, beside>>

\* A call spawns its supervisor with the lifeline as its standard input.
Call(r) ==
    /\ Go(r, "up", "call")
    /\ sup' = [sup EXCEPT ![r] = "spawned"]
    /\ line' = [line EXCEPT ![r] = TRUE] /\ gone' = [gone EXCEPT ![r] = FALSE]
    /\ UNCHANGED beside

\* A call that takes too long closes the lifeline and waits for the supervisor.
TimeOut(r) ==
    /\ run[r] = "call" /\ line[r]
    /\ line' = [line EXCEPT ![r] = FALSE]
    /\ UNCHANGED <<run, sup, gone, beside>>

\* The supervisor has exited: an answer, a crash or a timeout.
Answer(r) ==
    /\ sup[r] = "over"
    /\ Go(r, "call", "up")
    /\ line' = [line EXCEPT ![r] = FALSE]
    /\ UNCHANGED <<sup, gone, beside>>

\* The run ends, or is killed; the kernel closes its lifeline.
EndRun(r) ==
    /\ run[r] \notin {"new", "dead"}
    /\ run' = [run EXCEPT ![r] = "dead"]
    /\ line' = [line EXCEPT ![r] = FALSE]
    /\ UNCHANGED <<sup, gone, beside>>

-----------------------------------------------------------------------------
(* The supervisor. *)

Supervisor(r, from, to) ==
    /\ sup[r] = from
    /\ sup' = [sup EXCEPT ![r] = to]
    /\ UNCHANGED <<run, line, gone, beside>>

TakeLease(r) == Supervisor(r, "spawned", "leased")

\* The lease cannot be opened, or the adapter not started.
Fail(r) == Supervisor(r, "spawned", "over") \/ Supervisor(r, "checked", "over")

\* A mistake: a run that died before the lease was taken is not noticed yet.
CheckMutant(r) == Supervisor(r, "leased", IF ~gone[r] THEN "checked" ELSE "over")

\* The lifeline is looked at only now that the lease is held.
Check(r) ==
    Supervisor(r, "leased", IF line[r] /\ ~gone[r] THEN "checked" ELSE "over")

Launch(r) == Supervisor(r, "checked", "running")

\* A mistake: the lifeline is read only until the adapter starts.
NoticeMutant(r) ==
    /\ sup[r] = "checked" /\ ~line[r] /\ ~gone[r]
    /\ gone' = [gone EXCEPT ![r] = TRUE]
    /\ UNCHANGED <<run, sup, line, beside>>

\* A thread reads the lifeline; a signal to the supervisor sets the same flag.
Notice(r) ==
    /\ sup[r] \in {"checked", "running"} /\ ~line[r] /\ ~gone[r]
    /\ gone' = [gone EXCEPT ![r] = TRUE]
    /\ UNCHANGED <<run, sup, line, beside>>

Signal(r) ==
    /\ sup[r] \in {"spawned", "leased", "checked", "running"} /\ ~gone[r]
    /\ gone' = [gone EXCEPT ![r] = TRUE]
    /\ UNCHANGED <<run, sup, line, beside>>

\* The adapter exits and its supervisor ends what is left of the group.
Exit(r) == Supervisor(r, "running", "ending")

\* SIGTERM, the grace and SIGKILL to a group that nobody waits for.
Abandon(r) == gone[r] /\ Supervisor(r, "running", "ending")

\* No member of the group is left.
Confirm(r) == Supervisor(r, "ending", "over")

Supervised(r) ==
    \/ TakeLease(r) \/ Check(r) \/ Launch(r) \/ Notice(r) \/ Abandon(r) \/ Confirm(r)

GroupNext ==
    \E r \in Runs :
        \/ StartRun(r) \/ PassGate(r) \/ Refuse(r) \/ Call(r)
        \/ TimeOut(r) \/ Answer(r) \/ EndRun(r)
        \/ TakeLease(r) \/ Check(r) \/ Launch(r) \/ Notice(r) \/ Signal(r)
        \/ Exit(r) \/ Abandon(r) \/ Confirm(r) \/ Fail(r)

\* A supervisor is a process of its own and SIGKILL ends its adapter; runs,
\* signals and the adapter's own exit are never forced.
GroupFairness == \A r \in Runs : WF_groupVars(Supervised(r))

GroupSpec == GroupInit /\ [][GroupNext]_groupVars /\ GroupFairness

-----------------------------------------------------------------------------
(* Properties. *)

\* The shape of the state; a lifeline is open only while its run waits for the
\* call (adapter.rs call, proc.rs supervise).
GroupTypeOK ==
    /\ run \in [Runs -> {"new", "gate", "up", "call", "dead"}]
    /\ sup \in [Runs -> {"none", "spawned", "leased", "checked", "running", "ending", "over"}]
    /\ {line, gone} \subseteq [Runs -> BOOLEAN]
    /\ beside \in [Runs -> SUBSET Runs]
    /\ \A r \in Runs : line[r] => run[r] = "call"

\* Two runs were up together.
Overlap(q, r) == q \in beside[r] \/ r \in beside[q]

\* A process of an adapter lives only during the call of its own run, or beside
\* runs that were up together with it: no measurement starts beside what a dead
\* run left, and no call beside one that timed out (proc.rs await_quiescence,
\* supervise; adapter.rs call).
Alone ==
    \A q, r \in Runs :
        Lives(q) /\ Up(r) => IF q = r THEN run[r] = "call" ELSE Overlap(q, r)

\* What a dead run started ends, and its lease is free (proc.rs: every process
\* of its groups is gone within DEADLINE).
Released == \A r \in Runs : run[r] = "dead" ~> ~Holds(r)

=============================================================================
