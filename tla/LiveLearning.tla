---------------------------- MODULE LiveLearning ----------------------------
(***************************************************************************)
(* The learner of `ironmule serve --learning active` (live_learning.py): it *)
(* decides width and gather wait of every group, learns from what happened, *)
(* replays a frozen candidate against the reference in triplets of windows, *)
(* serves what qualified and withdraws what fails.                          *)
(*                                                                         *)
(* The scheduler thread decides and completes groups and does the idle      *)
(* work; one lock is around each of those steps but is released while a     *)
(* window is replayed.  An operator's control is let in without the lock,   *)
(* takes it later and keeps it until a writer thread has written its        *)
(* snapshot, as close does before it frees the learner.  The process may    *)
(* die at any time; the next one restores the state file.                   *)
(*                                                                         *)
(* The native learner, its dreams, the clocks and the budgets are left out: *)
(* which policy is greedy, whether a candidate or a window is due, what a   *)
(* window finds and whether 30 seconds have passed since the last save are  *)
(* choices.  None stands for the reference where a policy may stand.        *)
(***************************************************************************)
EXTENDS Naturals, FiniteSets

CONSTANTS
    Policies,      \* the tables the native learner may come to
    None,          \* the reference, or nothing
    Pairs,         \* qualification pairs: the triplets a verdict needs
    MaxTrials,     \* qualification max_trials
    Windows,       \* withdrawal window_decisions
    FailedWindows, \* withdrawal failed_windows_in_a_row
    Actions,       \* the size of the catalogue
    Arms,          \* the number of arms of a comparison
    Holdout,       \* compare holdout_traces
    \* bounds of the model
    MaxSaves,      \* of one process, unless somebody waits for them
    MaxControls, MaxRestarts

ASSUME PolicyAssumption == None \notin Policies
ASSUME BoundAssumption ==
    /\ {Pairs, Windows, FailedWindows, Actions, Arms, Holdout} \subseteq Nat \ {0}
    /\ {MaxTrials, MaxSaves, MaxControls, MaxRestarts} \subseteq Nat

VARIABLES
    m,          \* what the state file keeps of the learner
    mode,       \* active or paused
    evaluating, \* an evaluated arm serves
    pending,    \* a decision whose outcome will be learned is remembered
    watch,      \* the monitoring of the active policy
    dirty,      \* _dirty
    sched,      \* the scheduler thread
    saver,      \* the snapshot that waits, the one being written, the error of
                \* the last that somebody waits for
    lock,       \* who keeps the lock while the writer writes
    handle,     \* the native learner: "open", "failed" or "freed"
    file,       \* the state file
    asked,      \* the operators whose control was let in and has not acted yet
    spent,      \* how much of each bound is used
    \* history
    since,      \* the controls while the running group runs
    cut,        \* a pause or a restart came since the last triplet was begun
    gone        \* policies whose rollback was written before it was answered

vars == <<m, mode, evaluating, pending, watch, dirty, sched, saver, lock, handle,
          file, asked, spent, since, cut, gone>>

-----------------------------------------------------------------------------
(* What the learner holds. *)

Fresh == [candidate |-> None, active |-> None, compare |-> None, trials |-> 0,
          known |-> {}, frozen |-> None]

NoWatch == [decisions |-> 0, failed |-> FALSE, runs |-> 0]

Rest == [at |-> "rest", task |-> "none"]

NoSave == [job |-> None, writing |-> None, failed |-> FALSE]

\* A frozen table; windows counts the replayed arms of the open triplet.
Candidate(p) == [policy |-> p, state |-> "qualifying", n |-> 0, windows |-> None, mixed |-> FALSE]

\* selected counts the windows of the selection, once its trace is chosen.
Comparison == [state |-> "waiting", selected |-> None, results |-> 0, arms |-> 0]

Qualifying(mem) == mem.candidate # None /\ mem.candidate.state = "qualifying"
Comparing(mem) == mem.compare # None /\ mem.compare.state \notin {"done", "failed"}

\* A mistake: a snapshot that already waits is not replaced.
QueuedMutant(s, snapshot) == [s EXCEPT !.job = IF @ = None THEN snapshot ELSE @]

\* save: a newer snapshot replaces one not yet written.
Queued(s, snapshot) == [s EXCEPT !.job = snapshot]

\* save(wait=False) after a group or while idle: nothing changed, not yet 30
\* seconds, or queued.
MaySave(mem, changed) ==
    \/ dirty' = changed /\ UNCHANGED <<saver, spent>>
    \/ /\ changed /\ spent.saves < MaxSaves
       /\ dirty' = FALSE /\ saver' = Queued(saver, mem)
       /\ spent' = [spent EXCEPT !.saves = @ + 1]

Init ==
    /\ m = Fresh /\ mode = "active" /\ evaluating = FALSE /\ pending = FALSE
    /\ watch = NoWatch /\ dirty = FALSE /\ sched = Rest /\ saver = NoSave
    /\ lock = None /\ handle = "open" /\ file = None /\ asked = 0
    /\ spent = [saves |-> 0, controls |-> 0, restarts |-> 0]
    /\ since = {} /\ cut = FALSE /\ gone = {}

\* History: a control comes while a group runs.
During(what) == IF sched.at = "group" THEN since \cup {what} ELSE since

\* A step of the scheduler takes the lock; a failed or freed learner is not
\* eligible, and the service ends its loop before it closes the learner.
Free == lock = None /\ handle = "open"

-----------------------------------------------------------------------------
(* A live group: decided at its start, completed at its end. *)

\* decide: an evaluated arm, the active policy, the reference or an
\* exploration; the decision is remembered if its outcome is to be learned.
Decide ==
    /\ sched.at = "rest" /\ Free
    /\ sched' = [Rest EXCEPT !.at = "group"]
    /\ pending' = (mode = "active" /\ ~evaluating)
    /\ UNCHANGED <<m, mode, evaluating, watch, dirty, saver, lock, handle, file, spent, asked, since,
                   cut, gone>>

\* _withdraw
Withdraw(mem) == [mem EXCEPT !.active = None]

\* _watch_active: a window holds enough decisions and enough requests.
Watched(failed, enough) ==
    LET w == [decisions |-> IF watch.decisions < Windows THEN watch.decisions + 1 ELSE Windows,
              failed |-> watch.failed \/ failed, runs |-> watch.runs]
    IN IF m.active = None THEN <<m, watch>>
       ELSE IF w.decisions < Windows \/ ~enough THEN <<m, w>>
       ELSE IF ~w.failed THEN <<m, NoWatch>>
       ELSE IF w.runs + 1 < FailedWindows
       THEN <<m, [NoWatch EXCEPT !.runs = w.runs + 1]>>
       ELSE <<Withdraw(m), NoWatch>>

\* complete: without a pending decision or while paused the group is only
\* watched; otherwise it is learned, and the state saved once it is old.
Complete ==
    /\ sched.at = "group" /\ Free
    /\ \E failed, enough, accepted \in BOOLEAN :
         LET seen == Watched(failed, enough)
             changed == dirty \/ seen[1] # m
         IN /\ m' = seen[1] /\ watch' = seen[2]
            /\ IF ~pending \/ mode # "active"
               THEN dirty' = changed /\ UNCHANGED <<saver, spent>>
               ELSE MaySave(m', changed \/ accepted)
    /\ pending' = FALSE /\ sched' = Rest /\ since' = {}
    /\ UNCHANGED <<mode, evaluating, lock, handle, file, asked, cut, gone>>

-----------------------------------------------------------------------------
(* idle: dream, freeze a candidate, replay one window, save. *)

\* _maybe_candidate: a new table that is not known and does not serve.
NewCandidates(mem) ==
    IF mem.trials >= MaxTrials \/ Qualifying(mem) THEN {}
    ELSE {[mem EXCEPT !.candidate = Candidate(p), !.known = @ \cup {p}] :
             p \in Policies \ (mem.known \cup {mem.active})}

\* A comparison that finds no traffic before its request fails.
NoTraffic(mem) ==
    IF Comparing(mem) /\ mem.compare.selected = None
    THEN {[mem EXCEPT !.compare.state = "failed"]} ELSE {}

\* A dream, the freeze and the end of idle work when nothing is replayed.
\* Demand or a pause may stop it after the dream.
Idle ==
    /\ sched.at = "rest" /\ Free /\ mode = "active" /\ ~evaluating
    /\ \E dreamed \in BOOLEAN, mem \in {m} \cup NewCandidates(m) :
         /\ m' \in {mem} \cup NoTraffic(mem)
         /\ MaySave(m', dirty \/ dreamed \/ mem # m)
    /\ UNCHANGED <<mode, evaluating, pending, watch, sched, lock, handle, file, asked, since, cut,
                   gone>>

\* _compare_step before its window: the trace is chosen, or the held-out ones.
Prepared(c) ==
    IF c.selected = None THEN [c EXCEPT !.selected = 0]
    ELSE IF c.selected = Actions THEN [c EXCEPT !.state = "running"]
    ELSE c

\* idle starts a window and releases the lock.  A comparison comes first; the
\* trace of a triplet is frozen with its first window.
StartWindow ==
    /\ sched.at = "rest" /\ Free /\ mode = "active" /\ ~evaluating
    /\ \E dreamed \in BOOLEAN, mem \in {m} \cup NewCandidates(m) :
         /\ dirty' = (dirty \/ dreamed \/ mem # m)
         /\ \/ /\ Comparing(mem)
               /\ m' = [mem EXCEPT !.compare = Prepared(@)]
               /\ sched' = [Rest EXCEPT !.at = "window", !.task = "compare"]
               /\ UNCHANGED cut
            \/ /\ ~Comparing(mem) /\ Qualifying(mem)
               /\ m' = IF mem.candidate.windows = None
                       THEN [mem EXCEPT !.candidate.windows = 0] ELSE mem
               /\ cut' = (cut /\ mem.candidate.windows # None)
               /\ sched' = [Rest EXCEPT !.at = "window", !.task = "qualify"]
    /\ UNCHANGED <<mode, evaluating, pending, watch, saver, lock, handle, file, spent, asked,
                   since, gone>>

\* A promotion and an activation start the windows in a row again, and keep
\* the window that is open.
NewWatch == [watch EXCEPT !.runs = 0]

\* judge: protocol 2 may reject early and decides after Pairs triplets.
Verdicts(n) == IF n < Pairs THEN {"qualifying", "rejected"} ELSE {"qualified", "rejected"}

\* _close_triplet
CloseTriplet(verdict) ==
    LET c == [m.candidate EXCEPT !.n = @ + 1, !.state = verdict, !.windows = None,
                                 !.mixed = @ \/ cut]
    IN /\ m' = [m EXCEPT !.candidate = c,
                         !.trials = IF verdict = "qualifying" THEN @ ELSE @ + 1,
                         !.active = IF verdict = "qualified" THEN c.policy ELSE @]
       /\ watch' = IF verdict = "qualified" THEN NewWatch ELSE watch
       /\ gone' = IF verdict = "qualified" THEN gone \ {c.policy} ELSE gone

\* A finished idle step may save unless demand or a pause came.
IdleEnds(mem, changed) ==
    /\ sched' = Rest
    /\ IF mode = "active" THEN MaySave(mem, changed)
       ELSE dirty' = changed /\ UNCHANGED <<saver, spent>>

\* A window of the candidate ran whole, or demand or a pause ended it; a pause
\* while it ran has taken its triplet away.
QualifyStep ==
    /\ sched.at = "window" /\ sched.task = "qualify" /\ Free
    /\ \/ /\ m.candidate.windows = None
          /\ UNCHANGED <<m, watch, gone>> /\ IdleEnds(m, dirty)
       \/ /\ m.candidate.windows # None          \* interrupted: discarded
          /\ m' = [m EXCEPT !.candidate.windows = None]
          /\ UNCHANGED <<watch, gone>> /\ IdleEnds(m', dirty)
       \/ /\ m.candidate.windows \in {0, 1}
          /\ m' = [m EXCEPT !.candidate.windows = @ + 1]
          /\ UNCHANGED <<watch, gone>> /\ IdleEnds(m', TRUE)
       \/ /\ m.candidate.windows = 2
          /\ \E verdict \in Verdicts(m.candidate.n + 1) : CloseTriplet(verdict)
          /\ IdleEnds(m', TRUE)
    /\ UNCHANGED <<mode, evaluating, pending, lock, handle, file, asked, since, cut>>

\* One more window of the comparison: of the selection, or of a trace.
CompareStepped(c) ==
    IF c.selected < Actions THEN [c EXCEPT !.selected = @ + 1]
    ELSE IF c.arms + 1 < Arms THEN [c EXCEPT !.arms = @ + 1]
    ELSE [c EXCEPT !.arms = 0, !.results = @ + 1,
                   !.state = IF c.results + 1 = Holdout THEN "done" ELSE @]

\* An interrupted trace is repeated from its first arm.
CompareStep ==
    /\ sched.at = "window" /\ sched.task = "compare" /\ Free
    /\ \/ /\ m' = [m EXCEPT !.compare.arms = 0]
          /\ IdleEnds(m', dirty)
       \/ /\ m' = [m EXCEPT !.compare = CompareStepped(@)]
          /\ IdleEnds(m', dirty \/ m.compare.selected = Actions)
    /\ UNCHANGED <<mode, evaluating, pending, watch, lock, handle, file, asked, since, cut, gone>>

\* _learning_fault: an error of the learner ends it until the next start.
LearnerFails ==
    /\ Free
    /\ handle' = "failed" /\ sched' = Rest /\ pending' = FALSE /\ since' = {}
    /\ UNCHANGED <<m, mode, evaluating, watch, dirty, saver, lock, file, spent, asked, cut, gone>>

-----------------------------------------------------------------------------
(* The writer thread. *)

WriterTakes ==
    /\ saver.job # None /\ saver.writing = None
    /\ saver' = [saver EXCEPT !.writing = saver.job, !.job = None]
    /\ UNCHANGED <<m, mode, evaluating, pending, watch, dirty, sched, lock, handle, file,
                   spent, asked, since, cut, gone>>

\* The snapshot replaces the file, or the file stays and the state is dirty.
WriterWrites ==
    /\ saver.writing # None
    /\ \E failed \in BOOLEAN :
          /\ saver' = [saver EXCEPT !.writing = None, !.failed = failed /\ lock # None]
          /\ file' = IF failed THEN file ELSE saver.writing
          /\ dirty' = (dirty \/ failed)
    /\ UNCHANGED <<m, mode, evaluating, pending, watch, sched, lock, handle, spent, asked,
                   since, cut, gone>>

-----------------------------------------------------------------------------
(* The operator: a control changes the state, saves and waits for the writer. *)

\* learning_control asks without the lock whether the learner is eligible.
Ask ==
    /\ handle = "open" /\ spent.controls < MaxControls
    /\ asked' = asked + 1 /\ spent' = [spent EXCEPT !.controls = @ + 1]
    /\ UNCHANGED <<m, mode, evaluating, pending, watch, dirty, sched, saver, lock, handle, file,
                   since, cut, gone>>

\* Some time later it has the lock, and does not ask again: the learner may
\* have failed, or close has freed it and the control saves nothing.  Otherwise
\* the lock is kept, for `what`, until the writer has ended.
Control(what, mem) ==
    /\ asked > 0 /\ lock = None
    /\ asked' = asked - 1 /\ m' = mem
    /\ IF handle = "freed" THEN dirty' = TRUE /\ UNCHANGED <<saver, lock>>
       ELSE dirty' = FALSE /\ saver' = Queued(saver, mem) /\ lock' = what
    /\ UNCHANGED <<sched, handle, file, spent>>

\* A mistake: the open triplet is kept for the resume.
PausedMutant(mem) == mem

\* An interrupted triplet is discarded, not resumed.
Paused(mem) == IF mem.candidate = None THEN mem ELSE [mem EXCEPT !.candidate.windows = None]

Pause ==
    /\ Control([by |-> "operator", off |-> None], Paused(m))
    /\ mode' = "paused" /\ pending' = FALSE
    /\ since' = During("pause") /\ cut' = TRUE
    /\ UNCHANGED <<evaluating, watch, gone>>

Resume ==
    /\ Control([by |-> "operator", off |-> None], m)
    /\ mode' = "active"
    /\ UNCHANGED <<evaluating, pending, watch, since, cut, gone>>

Rollback ==
    /\ Control([by |-> "operator", off |-> m.active], Withdraw(m))
    /\ watch' = IF m.active = None THEN watch ELSE NoWatch
    /\ UNCHANGED <<mode, evaluating, pending, since, cut, gone>>

Compare ==
    /\ ~Comparing(m)
    /\ Control([by |-> "operator", off |-> None], [m EXCEPT !.compare = Comparison])
    /\ UNCHANGED <<mode, evaluating, pending, watch, since, cut, gone>>

\* The greedy table of a learner, whatever it is by now; a freed one has none.
Freeze ==
    /\ handle # "freed"
    /\ \E p \in Policies : Control([by |-> "operator", off |-> None], [m EXCEPT !.frozen = p])
    /\ UNCHANGED <<mode, evaluating, pending, watch, since, cut, gone>>

\* A mistake: the decision under way is still learned.
DisownedMutant(decision) == decision

\* Under an evaluation nothing is learned, nor across its edges.
Disowned(decision) == FALSE

Evaluate ==
    /\ Control([by |-> "operator", off |-> None], m)
    /\ evaluating' \in BOOLEAN /\ pending' = Disowned(pending)
    /\ since' = During("evaluate")
    /\ UNCHANGED <<mode, watch, cut, gone>>

\* A frozen table with a qualified verdict from outside.
Activate ==
    /\ m.frozen # None
    /\ Control([by |-> "operator", off |-> None], [m EXCEPT !.active = m.frozen])
    /\ watch' = NewWatch
    /\ gone' = gone \ {m.frozen}
    /\ UNCHANGED <<mode, evaluating, pending, since, cut>>

WriterEnded == saver.job = None /\ saver.writing = None

\* The writer has ended and the operator is answered, with save_error if the
\* file could not be written.
Answered ==
    /\ lock # None /\ lock.by = "operator" /\ WriterEnded
    /\ lock' = None /\ saver' = [saver EXCEPT !.failed = FALSE]
    /\ gone' = IF lock.off = None \/ saver.failed THEN gone ELSE gone \cup {lock.off}
    /\ UNCHANGED <<m, mode, evaluating, pending, watch, dirty, sched, handle, file,
                   spent, asked, since, cut>>

-----------------------------------------------------------------------------
(* The end of a process, and the next one. *)

\* close: saves under the lock.  The scheduler may still be in a window.
Close ==
    /\ lock = None /\ handle # "freed" /\ spent.restarts < MaxRestarts
    /\ lock' = [by |-> "close", off |-> None]
    /\ dirty' = FALSE /\ saver' = Queued(saver, m)
    /\ UNCHANGED <<m, mode, evaluating, pending, watch, sched, handle, file, spent, asked, since,
                   cut, gone>>

Closed ==
    /\ lock # None /\ lock.by = "close" /\ WriterEnded
    /\ lock' = None /\ handle' = "freed"
    /\ UNCHANGED <<m, mode, evaluating, pending, watch, dirty, sched, saver, file, spent, asked,
                   since, cut, gone>>

\* _restore: an interrupted triplet and an unfinished comparison are discarded.
Restored(saved) ==
    [saved EXCEPT !.candidate = IF Qualifying(saved) THEN [saved.candidate EXCEPT !.windows = None]
                                ELSE @,
                  !.compare = IF @ # None /\ @.state = "done" THEN @ ELSE None]

\* The process ends at any point; the next one starts in either mode.
Restart ==
    /\ spent.restarts < MaxRestarts
    /\ m' = IF file = None THEN Fresh ELSE Restored(file)
    /\ mode' \in {"active", "paused"} /\ evaluating' = FALSE /\ pending' = FALSE
    /\ watch' = NoWatch /\ dirty' = FALSE /\ sched' = Rest /\ saver' = NoSave
    /\ lock' = None /\ handle' = "open"
    /\ spent' = [spent EXCEPT !.restarts = @ + 1, !.saves = 0]
    /\ asked' = 0 /\ since' = {} /\ cut' = TRUE
    /\ UNCHANGED <<file, gone>>

Scheduler == Decide \/ Complete \/ Idle \/ StartWindow \/ QualifyStep \/ CompareStep \/ LearnerFails
Writer == WriterTakes \/ WriterWrites
Operator ==
    Ask \/ Pause \/ Resume \/ Rollback \/ Compare \/ Freeze \/ Evaluate \/ Activate \/ Answered

Next == Scheduler \/ Writer \/ Operator \/ Close \/ Closed \/ Restart

Spec == Init /\ [][Next]_vars

-----------------------------------------------------------------------------
(* Properties. *)

Candidates == [policy : Policies, state : {"qualifying", "qualified", "rejected"},
               n : 0 .. Pairs, windows : 0 .. 2 \cup {None}, mixed : BOOLEAN]

Comparisons == [state : {"waiting", "running", "failed", "done"},
                selected : 0 .. Actions \cup {None}, results : 0 .. Holdout, arms : 0 .. Arms - 1]

Saved == [candidate : Candidates \cup {None}, active : Policies \cup {None},
          compare : Comparisons \cup {None}, trials : 0 .. MaxTrials, known : SUBSET Policies,
          frozen : Policies \cup {None}]

\* None is no value of the model.
ASSUME NoneAssumption == None \notin Candidates \cup Comparisons \cup Saved \cup Nat

\* The shape of the state (live_learning.py LiveLearning.__init__); a window is
\* replayed only for a candidate or a comparison that is still there, and the
\* trials never exceed their number.
TypeOK ==
    /\ m \in Saved /\ file \in Saved \cup {None}
    /\ saver \in [job : Saved \cup {None}, writing : Saved \cup {None}, failed : BOOLEAN]
    /\ watch \in [decisions : 0 .. Windows, failed : BOOLEAN, runs : 0 .. FailedWindows - 1]
    /\ mode \in {"active", "paused"} /\ handle \in {"open", "failed", "freed"}
    /\ sched \in [at : {"rest", "group", "window"}, task : {"none", "qualify", "compare"}]
    /\ sched.at = "window" /\ handle = "open" =>
          (IF sched.task = "qualify" THEN Qualifying(m) ELSE Comparing(m))
    /\ lock \in [by : {"operator", "close"}, off : Policies \cup {None}] \cup {None}
    /\ {evaluating, pending, dirty, cut} \subseteq BOOLEAN /\ asked \in Nat /\ gone \subseteq Policies

\* A triplet that counts was replayed in one piece: no pause and no restart
\* came between its first and its last window, not even a pause and its resume
\* that were both over before the running window ended, whose arrivals are then
\* not those the other arms replay (live_learning.py _qualify_step, control,
\* _restore).
TripletsWhole == m.candidate # None => ~m.candidate.mixed

\* A policy whose rollback was written before the operator was answered does
\* not serve again before it qualifies or is activated anew: no crash and no
\* snapshot that waited for the writer brings it back.  A rollback that save
\* could not write, and one that was let in and found the learner freed, are
\* answered and not in the file (live_learning.py save, _write_loop, control;
\* service.py learning_control).
RollbackKept == m.active \notin gone

\* What is learned was decided and served without a pause or an evaluation in
\* between, also when the control and its opposite both came while the group
\* ran (live_learning.py complete, control).
LearnsUndisturbed == pending => since = {}

=============================================================================
