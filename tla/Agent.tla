------------------------------- MODULE Agent -------------------------------
(***************************************************************************)
(* The agent of `ironmule serve --agent on` (agent.py): it decides the     *)
(* order and width of every group, plans candidates while the server is    *)
(* idle, qualifies them against the serving schedule in replay windows,    *)
(* and withdraws what fails.                                               *)
(*                                                                         *)
(* Four actors share it: the service's scheduler thread (groups, and the   *)
(* idle steps in which plans and replays run), the operator's control      *)
(* ("off", "on"), the planner process, and close.  The lock is released    *)
(* while a window is replayed and while the state file is written, so the  *)
(* operator gets between any two steps of a comparison.  The process may   *)
(* die at any time; the next one loads the state file.                     *)
(*                                                                         *)
(* The world model, the traffic memory and the clock are left out: whether *)
(* a plan may start, whether arrivals for a window exist, what a window    *)
(* finds and whether the 30 seconds before a save have passed are choices. *)
(* None stands for the reference schedule where a policy may stand.        *)
(***************************************************************************)
EXTENDS Naturals, Sequences, FiniteSets

CONSTANTS
    Policies,       \* schedules a planner may propose, by digest
    Behaviour,      \* what each of them decides: the digest of `behaviour`
    None,           \* no policy, candidate, audit, planner or file
    Looks,          \* LOOKS: the numbers of triplets a comparison is judged at
    MaxTriplets,    \* MAX_TRIPLETS
    MaxPreemptions, \* MAX_PREEMPTIONS
    MaxErrors,      \* MAX_ERRORS
    MonitorWindow,  \* MONITOR_WINDOW, in groups
    \* bounds of the model
    MaxPlans,       \* of one process
    MaxControls, MaxRestarts

ASSUME BoundAssumption ==
    /\ Looks \subseteq Nat
    /\ {MaxTriplets, MaxPreemptions, MaxErrors, MonitorWindow} \subseteq Nat \ {0}
    /\ {MaxPlans, MaxControls, MaxRestarts} \subseteq Nat

-----------------------------------------------------------------------------
(* What the agent holds. *)

Schedules == Policies \cup {None}
Behaviours == {Behaviour[p] : p \in Policies}

Comparisons == [policy : Policies, n : 0 .. MaxTriplets, preempted : 0 .. MaxPreemptions - 1,
                bound : {<<>>} \cup (Schedules \X BOOLEAN),
                ran : UNION {[1 .. n -> Schedules] : n \in 0 .. 3}]

Saved == [policy : Schedules, candidate : Comparisons \cup {None},
          audit : Comparisons \cup {None},
          withdrawn : SUBSET (Policies \X (Behaviours \cup {None})),
          rejected : [Schedules -> SUBSET Behaviours], stale : BOOLEAN, paused : BOOLEAN]

ASSUME PolicyAssumption == None \notin Policies \cup Comparisons

VARIABLES
    m,          \* what the state file keeps of the agent
    live,       \* what it does not keep: the counts that may withdraw a policy
    planner,    \* the planner process
    dirty,      \* _dirty_since is set
    sched,      \* the scheduler thread
    operator,   \* the request that controls the agent
    closer,     \* the thread that closes the service
    file,       \* the state file
    spent,      \* how much of each bound is used
    \* history
    standing,   \* the policies that passed since the file last named them withdrawn
    outlived    \* whether a scheduler has outlived the two seconds close waits

vars == <<m, live, planner, dirty, sched, operator, closer, file, spent, standing, outlived>>

-----------------------------------------------------------------------------
\* A comparison: how many triplets count, and the arms of the one that is not
\* finished, bound to the serving schedule and the pause they ran under.
Comparison(p) == [policy |-> p, n |-> 0, preempted |-> 0, bound |-> <<>>, ran |-> <<>>]

Fresh == [policy |-> None, candidate |-> None, audit |-> None, withdrawn |-> {},
          rejected |-> [k \in Schedules |-> {}], stale |-> FALSE, paused |-> FALSE]

NoCounts == [errors |-> 0, errBy |-> {}, monitor |-> <<>>, failed |-> {}]

Rest == [at |-> "rest", by |-> None, task |-> "none", a |-> None, b |-> None,
         bound |-> <<>>, snap |-> None]

Digests(mem) == {w[1] : w \in mem.withdrawn}
WithdrawnBehaviours(mem) == {w[2] : w \in mem.withdrawn} \ {None}

\* _incumbent_key and the pause, as a triplet is bound to them.
Bound == <<m.policy, m.paused>>

\* _withdraw: the serving policy is recorded and the reference serves.  A
\* policy too broken to describe is recorded by its digest only.
Withdraw(mem, signature) ==
    IF mem.policy = None THEN mem
    ELSE [mem EXCEPT !.withdrawn = @ \cup {<<mem.policy, signature>>},
                     !.audit = None, !.policy = None]

\* _excluded: a reopened world model clears what lost, not what was withdrawn.
Reopened(mem) ==
    IF mem.stale THEN [mem EXCEPT !.rejected = [k \in Schedules |-> {}], !.stale = FALSE]
    ELSE mem

Excluded(mem) == mem.rejected[mem.policy] \cup WithdrawnBehaviours(mem)

\* _reject
Reject(mem) ==
    LET r == Reopened(mem)
    IN [r EXCEPT !.rejected[r.policy] = @ \cup {Behaviour[r.candidate.policy]},
                 !.candidate = None]

\* A mistake: the failed windows go on counting.
PromotedMutant(counts) == [counts EXCEPT !.errors = 0]

\* _promote: the counts that may withdraw a policy start again.
Promoted(counts) == NoCounts

Promote(mem) ==
    [mem EXCEPT !.policy = mem.candidate.policy, !.candidate = None,
                !.audit = Comparison(mem.candidate.policy)]

-----------------------------------------------------------------------------
Init ==
    /\ m = Fresh /\ live = NoCounts /\ planner = None /\ dirty = FALSE
    /\ sched = Rest /\ operator = "free" /\ closer = [at |-> "open", snap |-> None]
    /\ file = None /\ standing = {} /\ outlived = FALSE
    /\ spent = [plans |-> 0, controls |-> 0, restarts |-> 0]

Closed == closer.at # "open"

-----------------------------------------------------------------------------
(* A live group: decided at its start, observed at its end. *)

\* _decide reads the policy and the pause without the lock.
GroupStart ==
    /\ sched.at = "rest" /\ ~Closed
    /\ sched' = [sched EXCEPT !.at = "group",
                              !.by = IF m.paused THEN None ELSE m.policy]
    /\ UNCHANGED <<m, live, planner, dirty, operator, closer, file, spent, standing, outlived>>

\* _decide raises; the count withdraws whatever serves by now.
DecideFails ==
    /\ sched.at = "group" /\ sched.by # None
    /\ live.errors < MaxErrors
    /\ live' = [live EXCEPT !.errors = @ + 1, !.errBy = @ \cup {sched.by}]
    /\ \E known \in BOOLEAN :
          m' = IF live'.errors < MaxErrors \/ m.policy = None THEN m
               ELSE Withdraw(m, IF known THEN Behaviour[m.policy] ELSE None)
    /\ UNCHANGED <<planner, dirty, sched, operator, closer, file, spent, standing, outlived>>

\* _watch: a full window that follows a failed one with another failure
\* withdraws; failed holds who served in the failed window before.
Watch(window) ==
    IF \A i \in DOMAIN window : window[i].ok
    THEN <<m, [live EXCEPT !.monitor = <<>>, !.failed = {}]>>
    ELSE IF live.failed = {}
    THEN <<m, [live EXCEPT !.monitor = <<>>,
                           !.failed = {window[i].by : i \in DOMAIN window}]>>
    ELSE <<IF m.policy = None THEN m ELSE Withdraw(m, Behaviour[m.policy]),
           [live EXCEPT !.monitor = <<>>, !.failed = {}]>>

\* observe_group.  The group may also reopen the world model, which matters
\* once something lost.
GroupEnd ==
    /\ sched.at = "group"
    /\ \E ok, reopens \in BOOLEAN :
         LET window == IF m.policy # None /\ ~m.paused
                       THEN Append(live.monitor, [ok |-> ok, by |-> sched.by])
                       ELSE live.monitor
             seen == IF Len(window) < MonitorWindow
                     THEN <<m, [live EXCEPT !.monitor = window]>>
                     ELSE Watch(window)
             lost == \E k \in Schedules : m.rejected[k] # {}
         IN /\ m' = [seen[1] EXCEPT !.stale = @ \/ (reopens /\ lost)]
            /\ live' = seen[2]
    /\ dirty' = TRUE
    /\ sched' = Rest
    /\ UNCHANGED <<planner, operator, closer, file, spent, standing, outlived>>

-----------------------------------------------------------------------------
(* idle: collect a plan, explore or compare, start a plan, save. *)

\* The proposals of a planner: nothing excluded when it started, and nothing
\* it does not price below the incumbent it started with.
Proposals(excluded, incumbent) ==
    {p \in Policies : /\ Behaviour[p] \notin excluded
                      /\ incumbent = None \/ Behaviour[p] # Behaviour[incumbent]}

\* A mistake: only what lost is checked.
AcceptedMutant(mem, p) == Behaviour[p] \notin mem.rejected[mem.policy]

\* _collect_plan checks the proposal again with what was withdrawn meanwhile.
Accepted(mem, p) == p \notin Digests(mem) /\ Behaviour[p] \notin Excluded(mem)

\* The planner still runs, or it has ended with no plan, or with a plan that
\* holds a candidate or none.
IdleCollect ==
    /\ sched.at = "rest" /\ ~Closed
    /\ sched' = [sched EXCEPT !.at = "look"]
    /\ \/ UNCHANGED <<m, planner, dirty>>
       \/ /\ planner # None /\ planner' = None
          /\ UNCHANGED <<m, dirty>>
       \/ /\ planner # None /\ planner' = None
          /\ \E plan \in Proposals(planner.excluded, planner.incumbent) \cup {None} :
                LET r == Reopened(m)
                IN m' = IF plan # None /\ Accepted(r, plan)
                        THEN [r EXCEPT !.candidate = Comparison(plan)] ELSE r
          /\ dirty' = TRUE
    /\ UNCHANGED <<live, operator, closer, file, spent, standing, outlived>>

\* Paused: only the save is left.  Otherwise a quiet server may explore a
\* width, which leaves nothing here, or compare.
Look ==
    /\ sched.at = "look"
    /\ \/ m.paused /\ sched' = [sched EXCEPT !.at = "save"]
       \/ ~m.paused /\ sched' = [sched EXCEPT !.at = "plan"]
       \/ /\ ~m.paused /\ ~Closed
          /\ sched' = [sched EXCEPT !.at = "choose",
                                    !.task = IF m.candidate # None THEN "qualify" ELSE "audit"]
    /\ UNCHANGED <<m, live, planner, dirty, operator, closer, file, spent, standing, outlived>>

\* The arms a comparison replays are read before the triplet is bound.
Choose ==
    /\ sched.at = "choose"
    /\ sched' = IF sched.task = "qualify"
                THEN [sched EXCEPT !.at = "bind", !.a = m.policy, !.b = m.candidate.policy]
                ELSE IF m.audit # None /\ m.audit.policy = m.policy /\ m.audit.n < MaxTriplets
                THEN [sched EXCEPT !.at = "bind", !.a = None, !.b = m.policy]
                ELSE [sched EXCEPT !.at = "plan"]
    /\ UNCHANGED <<m, live, planner, dirty, operator, closer, file, spent, standing, outlived>>

Comparing == IF sched.task = "qualify" THEN m.candidate ELSE m.audit
Compared(mem, c) ==
    IF sched.task = "qualify" THEN [mem EXCEPT !.candidate = c] ELSE [mem EXCEPT !.audit = c]

ToPlan == [Rest EXCEPT !.at = "plan"]

\* Arms kept from an earlier spell stay only under the same schedule and pause.
Rebound(c) ==
    IF c.bound \in {<<>>, Bound} THEN c ELSE [c EXCEPT !.bound = <<>>, !.ran = <<>>]

\* _triplet begins: without arrivals for a window nothing runs.  An audit that
\* was withdrawn meanwhile has nobody who reads it.
Bind ==
    /\ sched.at = "bind"
    /\ \/ /\ sched' = ToPlan
          /\ UNCHANGED m
       \/ /\ Comparing # None
          /\ LET c == Rebound(Comparing)
             IN /\ m' = Compared(m, c)
                /\ sched' = [sched EXCEPT !.bound = Bound,
                                          !.at = IF Len(c.ran) = 3 THEN "finish" ELSE "arm"]
    /\ UNCHANGED <<live, planner, dirty, operator, closer, file, spent, standing, outlived>>

Dropped(c) == [c EXCEPT !.bound = <<>>, !.ran = <<>>]

\* The arms in their order: a, b, a again.
NextArm == IF Len(Comparing.ran) = 1 THEN sched.b ELSE sched.a

\* A window has been replayed without the lock and is entered under it.
Arm ==
    /\ sched.at = "arm"
    /\ \/ /\ Bound # sched.bound        \* the serving schedule changed under it
          /\ m' = IF Comparing = None THEN m ELSE Compared(m, Dropped(Comparing))
          /\ sched' = ToPlan
          /\ UNCHANGED dirty
       \/ /\ Bound = sched.bound        \* demand came first
          /\ m' = Compared(m, IF Comparing.preempted + 1 < MaxPreemptions
                              THEN [Comparing EXCEPT !.preempted = @ + 1]
                              ELSE Dropped([Comparing EXCEPT !.preempted = 0]))
          /\ sched' = ToPlan
          /\ dirty' = TRUE
       \/ /\ Bound = sched.bound        \* it ran; a closing service preempts
          /\ ~Closed
          /\ m' = Compared(m, [Comparing EXCEPT !.bound = sched.bound, !.preempted = 0,
                                                !.ran = Append(@, NextArm)])
          /\ sched' = [sched EXCEPT !.at = IF Len(Comparing.ran) = 2 THEN "finish" ELSE "arm"]
          /\ dirty' = TRUE
    /\ UNCHANGED <<live, planner, operator, closer, file, spent, standing, outlived>>


\* The triplet is whole: its window is used up.
Finish ==
    /\ sched.at = "finish"
    /\ IF Comparing = None THEN m' = m /\ sched' = ToPlan
       ELSE /\ m' = Compared(m, Dropped(Comparing))
            /\ sched' = [sched EXCEPT !.at = sched.task]
    /\ UNCHANGED <<live, planner, dirty, operator, closer, file, spent, standing, outlived>>

\* judge: what n triplets may say; between the looks, nothing.
Verdicts(n, passes, fails) ==
    IF n \in Looks \/ n >= MaxTriplets
    THEN {passes, fails} \cup (IF n < MaxTriplets THEN {"open"} ELSE {})
    ELSE {"open"}

Counted(c) == [c EXCEPT !.n = @ + 1]

\* _qualify: an answer that differs and a failure under the candidate reject
\* it, a failure under the incumbent says nothing.
Qualify ==
    /\ sched.at = "qualify"
    /\ \/ m' = Reject(m) /\ UNCHANGED <<live, dirty, standing>>
       \/ UNCHANGED <<m, live, dirty, standing>>
       \/ LET c == Counted(m.candidate)
              mem == [m EXCEPT !.candidate = c]
          IN \E verdict \in Verdicts(c.n, "pass", "fail") :
                /\ m' = CASE verdict = "pass" -> Promote(mem)
                          [] verdict = "fail" -> Reject(mem)
                          [] OTHER -> mem
                /\ live' = IF verdict = "pass" THEN Promoted(live) ELSE live
                /\ standing' = IF verdict = "pass" THEN standing \cup {c.policy} ELSE standing
                /\ dirty' = TRUE
    /\ sched' = ToPlan
    /\ UNCHANGED <<planner, operator, closer, file, spent, outlived>>

\* _audit: the serving schedule, unless it was withdrawn meanwhile.
Audit ==
    /\ sched.at = "audit"
    /\ \/ UNCHANGED <<m, dirty>>
       \/ /\ m.audit # None /\ m.audit.policy = m.policy
          /\ LET c == Counted(m.audit)
             IN \E verdict \in Verdicts(c.n, "harm", IF c.n < MaxTriplets THEN "open" ELSE "confirmed") :
                   m' = IF verdict = "harm" THEN Withdraw(m, Behaviour[m.policy])
                        ELSE [m EXCEPT !.audit = c]
          /\ dirty' = TRUE
    /\ sched' = ToPlan
    /\ UNCHANGED <<live, planner, operator, closer, file, spent, standing, outlived>>

\* _start_plan: enough is known, or not; the payload names what is excluded.
StartPlan ==
    /\ sched.at = "plan"
    /\ \/ /\ planner = None /\ m.candidate = None /\ ~Closed
          /\ spent.plans < MaxPlans
          /\ m' = Reopened(m)
          /\ sched' = [Rest EXCEPT !.at = "popen", !.snap = <<Excluded(m'), m'.policy>>]
          /\ spent' = [spent EXCEPT !.plans = @ + 1]
       \/ /\ sched' = [Rest EXCEPT !.at = "save"]
          /\ UNCHANGED <<m, spent>>
    /\ UNCHANGED <<live, planner, dirty, operator, closer, file, standing, outlived>>

\* The planner starts after the checks, whatever happened since.
Popen ==
    /\ sched.at = "popen"
    /\ \/ planner' = [excluded |-> sched.snap[1], incumbent |-> sched.snap[2]]
       \/ planner' = planner            \* it did not start
    /\ sched' = [Rest EXCEPT !.at = "save"]
    /\ UNCHANGED <<m, live, dirty, operator, closer, file, spent, standing, outlived>>

-----------------------------------------------------------------------------
(* The state file: snapshots under the lock, one writer at a time. *)

Writing == sched.at = "write" \/ closer.at = "write"

\* save from idle: nothing new, or not yet 30 seconds old.
IdleSaveSkip ==
    /\ sched.at = "save"
    /\ sched' = Rest
    /\ UNCHANGED <<m, live, planner, dirty, operator, closer, file, spent, standing, outlived>>

IdleSave ==
    /\ sched.at = "save" /\ dirty /\ ~Writing
    /\ sched' = [sched EXCEPT !.at = "write", !.snap = m]
    /\ dirty' = FALSE
    /\ UNCHANGED <<m, live, planner, operator, closer, file, spent, standing, outlived>>

\* The candidate json.dump writes: the snapshot holds the object itself, whose
\* counts the scheduler goes on changing.
CandidateWritten(snap) ==
    {snap.candidate} \cup
    (IF snap.candidate # None /\ m.candidate # None
        /\ snap.candidate.policy = m.candidate.policy
     THEN {m.candidate} ELSE {})

\* The snapshot replaces the file, with the candidate and the list of what was
\* withdrawn as they are by then or were; or an error leaves the file it was.
Write(snap) ==
    \/ /\ \E w \in {snap.withdrawn, m.withdrawn}, c \in CandidateWritten(snap) :
             file' = [snap EXCEPT !.withdrawn = w, !.candidate = c]
       /\ standing' = standing \ Digests(file')
    \/ UNCHANGED <<file, standing>>

IdleWrite ==
    /\ sched.at = "write"
    /\ Write(sched.snap)
    /\ sched' = Rest
    /\ UNCHANGED <<m, live, planner, dirty, operator, closer, spent, outlived>>

-----------------------------------------------------------------------------
(* The operator. *)

\* control("off") under the lock; the planner is stopped after it.
Off ==
    /\ operator = "free" /\ closer.at # "done" /\ spent.controls < MaxControls
    /\ m' = [(IF m.policy = None THEN m ELSE Withdraw(m, Behaviour[m.policy]))
               EXCEPT !.paused = TRUE]
    /\ operator' = "off"
    /\ dirty' = TRUE
    /\ spent' = [spent EXCEPT !.controls = @ + 1]
    /\ UNCHANGED <<live, planner, sched, closer, file, standing, outlived>>

OffStops ==
    /\ operator = "off"
    /\ planner' = None /\ operator' = "free"
    /\ UNCHANGED <<m, live, dirty, sched, closer, file, spent, standing, outlived>>

On ==
    /\ operator = "free" /\ closer.at # "done" /\ m.paused /\ spent.controls < MaxControls
    /\ m' = [m EXCEPT !.paused = FALSE]
    /\ dirty' = TRUE
    /\ spent' = [spent EXCEPT !.controls = @ + 1]
    /\ UNCHANGED <<live, planner, sched, operator, closer, file, standing, outlived>>

-----------------------------------------------------------------------------
(* close: the service ends its scheduler, waiting at most two seconds for *)
(* it, and then closes the agent.                                         *)

CloseStep(from, to) == closer.at = from /\ closer' = [at |-> to, snap |-> None]

\* The process ends after close; a write under way may still end.
Ended(thread) == IF thread.at = "write" THEN thread ELSE Rest

\* The flag, the planner and the mark; the scheduler may still be at work.  A
\* process that no other follows within the bound is not closed.
CloseBegin ==
    /\ spent.restarts < MaxRestarts
    /\ CloseStep("open", "save")
    /\ planner' = None /\ dirty' = TRUE
    /\ outlived' = (outlived \/ sched.at # "rest")
    /\ UNCHANGED <<m, live, sched, operator, file, spent, standing>>

\* save(force): another writer may have taken the mark meanwhile.
CloseLooks ==
    /\ CloseStep("save", IF dirty THEN "wait" ELSE "done")
    /\ sched' = IF dirty THEN sched ELSE Ended(sched)
    /\ UNCHANGED <<m, live, planner, dirty, operator, file, spent, standing, outlived>>

CloseSave ==
    /\ closer.at = "wait" /\ ~Writing
    /\ closer' = [at |-> "write", snap |-> m]
    /\ dirty' = FALSE
    /\ UNCHANGED <<m, live, planner, sched, operator, file, spent, standing, outlived>>

CloseWrite ==
    /\ CloseStep("write", "done")
    /\ Write(closer.snap)
    /\ sched' = Ended(sched)
    /\ UNCHANGED <<m, live, planner, dirty, operator, spent, outlived>>

-----------------------------------------------------------------------------
\* A mistake: the evidence alone is checked.
ProvenMutant(saved) == TRUE

\* _load: a serving policy that the file also names withdrawn is not proven;
\* the whole state is set aside and learning starts fresh.
Proven(saved) == saved.policy = None \/ saved.policy \notin Digests(saved)

\* The process ends, at any point, and the next one starts.
Restart ==
    /\ spent.restarts < MaxRestarts
    /\ m' = IF file # None /\ Proven(file) THEN file ELSE Fresh
    /\ file' = IF file # None /\ Proven(file) THEN file ELSE None
    /\ live' = NoCounts /\ planner' = None /\ dirty' = FALSE /\ sched' = Rest
    /\ operator' = "free" /\ closer' = [at |-> "open", snap |-> None]
    /\ spent' = [spent EXCEPT !.restarts = @ + 1, !.plans = 0]
    /\ UNCHANGED <<standing, outlived>>

Scheduler ==
    \/ GroupStart \/ DecideFails \/ GroupEnd
    \/ IdleCollect \/ Look \/ Choose \/ Bind \/ Arm \/ Finish \/ Qualify \/ Audit
    \/ StartPlan \/ Popen \/ IdleSaveSkip \/ IdleSave \/ IdleWrite

Close == CloseBegin \/ CloseLooks \/ CloseSave \/ CloseWrite

Next == Scheduler \/ Off \/ OffStops \/ On \/ Close \/ Restart

Spec == Init /\ [][Next]_vars

-----------------------------------------------------------------------------
(* Properties. *)

\* The shape of the state (agent.py Agent._reset, Agent.__init__).
TypeOK ==
    /\ m \in Saved
    /\ file \in Saved \cup {None}
    /\ live.errors \in 0 .. MaxErrors
    /\ live.errBy \cup live.failed \subseteq Schedules
    /\ Len(live.monitor) < MonitorWindow
    /\ planner # None => planner.excluded \subseteq Behaviours /\ planner.incumbent \in Schedules
    /\ sched.task \in {"none", "qualify", "audit"}
    /\ m.candidate # None \/ ~(sched.at \in {"bind", "arm", "finish", "qualify"} /\ sched.task = "qualify")
    /\ operator \in {"free", "off"} /\ dirty \in BOOLEAN
    /\ standing \subseteq Policies

\* What was withdrawn neither serves nor is compared again, under its own
\* digest or a twin's, whichever of a plan, a comparison and the operator
\* came between (agent.py _collect_plan, _excluded).  A scheduler that outlives
\* close's wait may promote a candidate the file being written still holds.
WithdrawnStaysOff ==
    \A p \in {m.policy} \cup (IF m.candidate = None THEN {} ELSE {m.candidate.policy}) :
        p = None \/ outlived \/ (p \notin Digests(m) /\ Behaviour[p] \notin WithdrawnBehaviours(m))

\* Errors, failed windows and audits count against the policy they were seen
\* under and never against one promoted later (agent.py _promote, _audit).
BlamedForOwn ==
    /\ m.policy # None =>
          live.errBy \cup live.failed \cup {live.monitor[i].by : i \in DOMAIN live.monitor}
              \subseteq {m.policy, None}
    /\ m.audit # None =>
          /\ m.audit.policy = m.policy
          /\ sched.task = "audit" /\ sched.at \in {"arm", "finish", "audit"} => sched.b = m.policy

\* A policy serves only if it passed a comparison since the state file last
\* named it withdrawn, across crashes and a file written while the operator
\* withdraws (agent.py _load, _save).
ServesStanding == m.policy # None => outlived \/ m.policy \in standing

=============================================================================
