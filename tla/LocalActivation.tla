-------------------------- MODULE LocalActivation --------------------------
(***************************************************************************)
(* The local learned dispatch of `ironmule`: what may replace the          *)
(* reference action by a locally qualified candidate, what takes the       *)
(* candidate away again, and the one command that may bring it back.       *)
(*                                                                         *)
(*   router.py           AppleRuntime: load, cohorts of a dispatch,        *)
(*                       serving, the observation afterwards, close        *)
(*   activation.py       admission, the gate, the persisted kill           *)
(*   monitoring.py       segments, drift, the requalification record       *)
(*   local_learner.py    evidence, its state, what a file restores         *)
(*   requalification.py  `ironmule requalify`                              *)
(*                                                                         *)
(* Several processes that loaded a runtime and one requalification share   *)
(* four files: the controller's state, the kill record, the                *)
(* requalification record and the monitor's state.  A process may die      *)
(* between any two steps.                                                  *)
(*                                                                         *)
(* Times are left out: whether a full window has drifted is a choice, and  *)
(* evidence is the number of its sessions, how many have a readable        *)
(* control, and where the pooled interval lies.  A record that cannot be   *)
(* read counts as present in the code, so "present" stands for both.       *)
(***************************************************************************)
EXTENDS Naturals, Sequences, FiniteSets

CONSTANTS
    Runtimes,       \* processes that may load a runtime
    Classes,        \* workload classes
    Probe,          \* WORKLOAD_CLASS, the class a requalification measures
    Unnamed,        \* the class of a cohort that fits no named class
    Builds,         \* machine, model and library builds
    Dispatches,     \* <<latency requests, throughput requests>> of a dispatch
    Profile,        \* whether a tuned profile qualifies this machine
    MinSessions,    \* MIN_SESSIONS, 3 in the code
    BaselineMin,    \* BASELINE_MIN, 15 in the code
    Window,         \* WINDOW, 8 in the code
    None,           \* no file, no controller
    \* bounds of the model
    MaxDispatches, MaxFaults, MaxRequalifications, MaxBuilds, MaxOffers

ASSUME ClassAssumption == Probe \in Classes /\ Unnamed \notin Classes
ASSUME LimitAssumption ==
    /\ {MinSessions, BaselineMin, Window} \subseteq Nat \ {0}
    /\ {MaxDispatches, MaxFaults, MaxRequalifications, MaxBuilds, MaxOffers} \subseteq Nat
    /\ Profile \in BOOLEAN
    /\ Dispatches \subseteq (Nat \X Nat) \ {<<0, 0>>}

VARIABLES
    build,          \* the build of this machine
    controller,     \* local_learning.json
    archived,       \* the archived epochs of it
    killed,         \* whether the kill record exists
    required,       \* whether the requalification record exists
    monitorFile,    \* local_learning_monitoring.json
    rt,             \* the processes with a runtime
    requal,         \* the process of `ironmule requalify`
    spent,          \* how much of each bound is used
    \* histories
    epochs,         \* every controller state that was on disk
    cleared         \* whether a requalification has removed the record

files == <<controller, archived, killed, required, monitorFile, epochs, cleared>>
vars == <<build, files, rt, requal, spent>>

-----------------------------------------------------------------------------
(* Evidence and the state that follows from it. *)

States == {"UNKNOWN", "COLLECTING", "CANDIDATE_QUALIFIED", "REFERENCE_ONLY"}

\* Where the pooled 95 per cent intervals lie; "noisy": the controls of the
\* sessions do not agree with each other.
Intervals == {"below", "touches", "above", "noisy"}

Evidence == [sessions : 0 .. MinSessions, readable : 0 .. MinSessions,
             interval : Intervals]

NoEvidence == [sessions |-> 0, readable |-> 0, interval |-> "touches"]

\* decide_state: the whole policy over the accepted evidence.
DecideState(e) ==
    CASE e.sessions = 0 -> "UNKNOWN"
      [] e.sessions > 0 /\ e.readable < MinSessions -> "COLLECTING"
      [] e.sessions > 0 /\ e.readable >= MinSessions ->
            CASE e.interval = "below"   -> "CANDIDATE_QUALIFIED"
              [] e.interval = "touches" -> "COLLECTING"
              [] OTHER                  -> "REFERENCE_ONLY"

Learner == [Classes -> Evidence]
NoLearner == [c \in Classes |-> NoEvidence]
ControllerFile == [build : Builds, learner : Learner]

ASSUME NoneAssumption == None \notin ControllerFile

\* recommendation(): a class without evidence has NO_STATE.
Recommendation(l, c) == IF c \in Classes THEN DecideState(l[c]) ELSE "UNKNOWN"
Qualified(l, c) == Recommendation(l, c) = "CANDIDATE_QUALIFIED"

\* restore(): no file, or one written for another build, leaves a learner
\* that knows nothing.
Restore(b) ==
    IF controller # None /\ controller.build = b THEN controller.learner ELSE NoLearner

-----------------------------------------------------------------------------
(* A dispatch is split by objective; every cohort gets a route. *)

Route(objective, n) ==
    CASE ~Profile -> "reference"
      [] Profile /\ (n <= 1 \/ objective = "latency") -> "interactive"
      [] OTHER -> "throughput"

Cohort == [class : Classes \cup {Unnamed}, route : {"reference", "interactive", "throughput"}]

\* plan(): one cohort per objective in play, in the order of their earliest
\* arrivals; <<l, t>> is how many requests of a dispatch want latency and how
\* many throughput.
Plans ==
    LET cohorts(objective, n) ==
            {[class |-> c, route |-> Route(objective, n)] : c \in Classes \cup {Unnamed}}
        plans(l, t) ==
            CASE t = 0 -> {<<a>> : a \in cohorts("latency", l)}
              [] l = 0 -> {<<b>> : b \in cohorts("throughput", t)}
              [] OTHER -> UNION {{<<a, b>>, <<b, a>>} :
                             a \in cohorts("latency", l), b \in cohorts("throughput", t)}
    IN  UNION {plans(d[1], d[2]) : d \in Dispatches}

-----------------------------------------------------------------------------
(* The monitor: one segment per build, class and action that was served. *)

Actions == {"reference", "candidate"}
Keys == Builds \X Classes \X Actions

Segment ==
    {g \in [state : {"WARMING_UP", "MONITORING", "REQUALIFICATION_REQUIRED"},
            warmup : 0 .. BaselineMin, window : 0 .. Window] :
        g.state = "WARMING_UP" => g.warmup < BaselineMin}

NewSegment == [state |-> "WARMING_UP", warmup |-> 0, window |-> 0]

SegmentOf(segments, k) == IF k \in DOMAIN segments THEN segments[k] ELSE NewSegment

LongerMutant(n, most) == n + 1
Longer(n, most) == IF n < most THEN n + 1 ELSE most

\* observe(): the segment after one more dispatch.  A window is read only
\* when it is full.
Observed(s) ==
    CASE s.state = "REQUALIFICATION_REQUIRED" -> {s}
      [] s.state = "WARMING_UP" ->
            {[s EXCEPT !.warmup = @ + 1,
                       !.state = IF s.warmup + 1 >= BaselineMin THEN "MONITORING" ELSE @]}
      [] s.state = "MONITORING" ->
            LET w == Longer(s.window, Window)
            IN  {[s EXCEPT !.window = w]}
                \cup {t \in {[s EXCEPT !.window = w,
                                       !.state = "REQUALIFICATION_REQUIRED"]} : w = Window}

\* The observations of an unfinished warm-up are not saved.
Saved(segments) ==
    [k \in DOMAIN segments |->
        IF segments[k].state = "WARMING_UP" THEN NewSegment ELSE segments[k]]

Segments == UNION {[K -> Segment] : K \in SUBSET Keys}
MonitorFile == [required : BOOLEAN, segments : Segments, unwritten : BOOLEAN]

-----------------------------------------------------------------------------
(* A process with a runtime. *)

Phases == {"down", "learner", "monitor", "idle", "decide", "serving", "checked", "kill",
           "observe"}

\* Off is the runtime of a process that has not loaded one.  late and unwritten are
\* histories: loaded after the kill was recorded; its doubt could not be recorded.
Off == [phase |-> "down", build |-> None, learner |-> NoLearner, stale |-> FALSE,
        required |-> FALSE, segments |-> <<>>, enabled |-> FALSE, gate |-> "none",
        cache |-> <<>>, cohorts |-> <<>>, served |-> <<>>, current |-> "reference",
        moved |-> FALSE, then |-> "idle", late |-> FALSE, unwritten |-> FALSE]

NoRequalification == [phase |-> "idle", build |-> None, outcome |-> "none"]

Init ==
    /\ build \in Builds
    /\ controller \in {None} \cup
          {[build |-> build, learner |-> [NoLearner EXCEPT ![Probe] =
                [sessions |-> MinSessions, readable |-> n, interval |-> "below"]]] :
              n \in {MinSessions - 1, MinSessions}}
    /\ archived = {}
    /\ killed = FALSE
    /\ required = FALSE
    /\ monitorFile = None
    /\ rt = [r \in Runtimes |-> Off]
    /\ requal = NoRequalification
    /\ spent = [dispatches |-> 0, faults |-> 0, requalifications |-> 0, builds |-> 0,
                offers |-> 0]
    /\ epochs = {controller} \ {None}
    /\ cleared = FALSE

Spend(what, bound) ==
    /\ spent[what] < bound
    /\ spent' = [spent EXCEPT ![what] = @ + 1]

\* load(): the model and the controller's state ...
Load(r) ==
    /\ rt[r].phase = "down"
    /\ \E enable \in BOOLEAN :
          rt' = [rt EXCEPT ![r] = [Off EXCEPT !.phase = "learner", !.build = build,
                                              !.learner = Restore(build),
                                              !.enabled = enable, !.late = killed]]
    /\ UNCHANGED <<build, files, requal, spent>>

\* ... the requalification record and the monitor's file ...
RestoreMonitor(r) ==
    /\ rt[r].phase = "learner"
    /\ rt' = [rt EXCEPT ![r].phase = "monitor",
                        ![r].required = required \/ (monitorFile # None /\ monitorFile.required),
                        ![r].unwritten = ~required /\ monitorFile # None /\ monitorFile.unwritten,
                        ![r].segments = IF monitorFile = None THEN <<>>
                                        ELSE monitorFile.segments]
    /\ UNCHANGED <<build, files, requal, spent>>

\* read_kill(): a record that cannot be read counts as a kill.
ReadKillMutant == FALSE
ReadKill == killed

\* kill() in memory: the gate is shut for good and the projections restored.
\* The record is written next.
KilledMutant(s, next) ==
    [s EXCEPT !.phase = "kill", !.then = next, !.enabled = FALSE, !.cache = <<>>]
Killed(s, next) ==
    [s EXCEPT !.phase = "kill", !.then = next, !.enabled = FALSE, !.cache = <<>>,
              !.gate = IF @ = "none" THEN "none" ELSE "killed"]

\* admit() and install_on(): only when enabled, not killed, and qualified for
\* at least one class.
Admits(s) == \E c \in Classes : Qualified(s.learner, c)

Admit(r) ==
    LET s == [rt[r] EXCEPT !.enabled = @ /\ ~ReadKill, !.phase = "idle"]
    IN  /\ rt[r].phase = "monitor"
        /\ \/ rt' = [rt EXCEPT ![r] =
                        IF s.enabled /\ Admits(s)
                        THEN [s EXCEPT !.gate = "shut"]
                        ELSE s]
           \/ /\ s.enabled /\ Admits(s)      \* the variant does not fit the model
              /\ rt' = [rt EXCEPT ![r] = Killed(s, "idle")]
        /\ UNCHANGED <<build, files, requal, spent>>

\* write_kill(): atomic.  It may fail; then load() raises, or the dispatch does.
WriteKill(r) ==
    /\ rt[r].phase = "kill"
    /\ \/ /\ killed' = TRUE
          /\ rt' = [rt EXCEPT ![r].phase = rt[r].then]
          /\ UNCHANGED spent
       \/ /\ Spend("faults", MaxFaults)
          /\ rt' = [rt EXCEPT ![r] = IF @.then = "idle" THEN Off
                                     ELSE [@ EXCEPT !.phase = "observe", !.cohorts = <<>>,
                                                    !.current = "reference"]]
          /\ UNCHANGED killed
    /\ UNCHANGED <<build, controller, archived, required, monitorFile, epochs, cleared, requal>>

-----------------------------------------------------------------------------
(* One dispatch: plan, then per cohort decide, serve and check. *)

Serve(r) ==
    /\ rt[r].phase = "idle"
    /\ Spend("dispatches", MaxDispatches)
    /\ \E p \in Plans :
          rt' = [rt EXCEPT ![r].phase = "decide", ![r].cohorts = p, ![r].served = <<>>,
                           ![r].moved = FALSE]
    /\ UNCHANGED <<build, files, requal>>

\* What _build_record decides for a cohort.
Decided(s, cohort) ==
    IF cohort.route = "interactive" /\ Qualified(s.learner, cohort.class)
    THEN "candidate" ELSE "reference"

Served(s, action) == [s EXCEPT !.phase = "serving", !.current = action]

\* for_dispatch(): the gate for the cohort about to run.  A changed digest of
\* the controller throws the records away; one that no longer qualifies the
\* class of this cohort is a kill.
ForDispatch(s) ==
    LET cohort  == Head(s.cohorts)
        fresh   == IF s.stale THEN [s EXCEPT !.cache = <<>>, !.stale = FALSE] ELSE s
        action  == IF cohort \in DOMAIN fresh.cache THEN fresh.cache[cohort]
                   ELSE Decided(fresh, cohort)
        cached  == [k \in DOMAIN fresh.cache \cup {cohort} |->
                       IF k = cohort THEN action ELSE fresh.cache[k]]
    IN  CASE ~s.enabled \/ s.gate \in {"none", "killed"} -> Served(s, "reference")
          [] s.enabled /\ s.gate \in {"shut", "open"} /\ s.required ->
                Served([s EXCEPT !.gate = "shut"], "reference")
          [] s.enabled /\ s.gate \in {"shut", "open"} /\ ~s.required ->
                IF s.stale /\ ~Qualified(s.learner, cohort.class)
                THEN Killed([s EXCEPT !.current = "reference"], "serving")
                ELSE Served([fresh EXCEPT !.cache = cached,
                                          !.gate = IF action = "candidate" THEN "open"
                                                   ELSE "shut"],
                            action)

Decide(r) ==
    /\ rt[r].phase = "decide"
    /\ rt' = [rt EXCEPT ![r] = ForDispatch(@)]
    /\ UNCHANGED <<build, files, requal, spent>>

\* after_dispatch() is through: the cohort's record is kept and the next one follows.
Answered(s) ==
    [s EXCEPT !.served = Append(@, [class |-> Head(s.cohorts).class, action |-> s.current]),
              !.cohorts = Tail(@),
              !.phase = IF Len(s.cohorts) > 1 THEN "decide" ELSE "observe",
              !.current = "reference"]

Answer(r) ==
    /\ rt[r].phase \in {"serving", "checked"}
    /\ rt' = [rt EXCEPT ![r] = Answered(@)]
    /\ UNCHANGED <<build, files, requal, spent>>

\* after_dispatch(): a fallback or a correctness error in the candidate's path
\* kills it; the answer counts all the same.
Anomaly(r) ==
    /\ rt[r].phase = "serving" /\ rt[r].current = "candidate"
    /\ Spend("faults", MaxFaults)
    /\ rt' = [rt EXCEPT ![r] = Killed(@, "checked")]
    /\ UNCHANGED <<build, files, requal>>

\* serve() raises: a candidate is killed first; cohorts already served are
\* still recorded.
Raise(r) ==
    LET s == [rt[r] EXCEPT !.cohorts = <<>>, !.phase = "observe", !.current = "reference"]
    IN  /\ rt[r].phase = "serving"
        /\ Spend("faults", MaxFaults)
        /\ rt' = [rt EXCEPT ![r] = IF rt[r].current = "candidate" THEN Killed(s, "observe")
                                   ELSE s]
        /\ UNCHANGED <<build, files, requal>>

\* require_requalification() writes the record at once.
RecordAfterMutant(drifts) == required
RecordAfter(drifts) == required \/ drifts

\* _observe(): one observation per served cohort of a named class.  A drift is
\* doubt in memory first and then a record; when that cannot be written,
\* _observe() raises and the dispatch with it.  A changed segment makes the
\* monitor save itself after the last cohort.
Observe(r) ==
    LET s == rt[r]
        k == <<s.build, Head(s.served).class, Head(s.served).action>>
    IN  /\ s.phase = "observe" /\ s.served # <<>>
        /\ IF Head(s.served).class = Unnamed
           THEN /\ rt' = [rt EXCEPT ![r].served = Tail(@)]
                /\ UNCHANGED <<required, spent>>
           ELSE \E t \in Observed(SegmentOf(s.segments, k)) :
                   LET moved  == t.state # SegmentOf(s.segments, k).state
                       drifts == moved /\ t.state = "REQUALIFICATION_REQUIRED"
                       seen   == [s EXCEPT !.segments = [j \in DOMAIN @ \cup {k} |->
                                                            IF j = k THEN t ELSE @[j]],
                                           !.required = @ \/ drifts]
                   IN  \/ /\ rt' = [rt EXCEPT ![r] =
                                [seen EXCEPT !.served = Tail(@), !.moved = @ \/ moved,
                                             !.unwritten = @ /\ ~drifts]]
                          /\ required' = RecordAfter(drifts)
                          /\ UNCHANGED spent
                       \/ /\ drifts /\ Spend("faults", MaxFaults)
                          /\ rt' = [rt EXCEPT ![r] =
                                [seen EXCEPT !.phase = "idle", !.served = <<>>,
                                             !.moved = FALSE, !.unwritten = ~required]]
                          /\ UNCHANGED required
        /\ UNCHANGED <<build, controller, archived, killed, monitorFile, epochs, cleared, requal>>

\* DriftMonitor.save().
SaveMonitor(r) ==
    monitorFile' = [required |-> rt[r].required, segments |-> Saved(rt[r].segments),
                    unwritten |-> rt[r].unwritten]

\* A save that fails raises out of the dispatch.
EndDispatch(r) ==
    /\ rt[r].phase = "observe" /\ rt[r].served = <<>>
    /\ \/ rt[r].moved /\ SaveMonitor(r) /\ UNCHANGED spent
       \/ rt[r].moved /\ Spend("faults", MaxFaults) /\ UNCHANGED monitorFile
       \/ ~rt[r].moved /\ UNCHANGED <<monitorFile, spent>>
    /\ rt' = [rt EXCEPT ![r].phase = "idle", ![r].moved = FALSE]
    /\ UNCHANGED <<build, controller, archived, killed, required, epochs, cleared, requal>>

\* close().  When its save fails it raises, and nothing has changed.
Close(r) ==
    /\ rt[r].phase = "idle"
    /\ SaveMonitor(r)
    /\ rt' = [rt EXCEPT ![r] = Off]
    /\ UNCHANGED <<build, controller, archived, killed, required, epochs, cleared, requal, spent>>

\* The process dies; the files stay.
Crash(r) ==
    /\ rt[r].phase # "down"
    /\ Spend("faults", MaxFaults)
    /\ rt' = [rt EXCEPT ![r] = Off]
    /\ UNCHANGED <<build, files, requal>>

\* observe() of the learner: a caller offers a session to the learner of its
\* own process; a row that passes the intake gates changes the evidence.
Offer(r) ==
    /\ rt[r].phase = "idle"
    /\ Spend("offers", MaxOffers)
    /\ \E c \in Classes, readable \in {0, 1}, i \in Intervals :
          LET e == rt[r].learner[c]
          IN  rt' = [rt EXCEPT ![r].stale = TRUE,
                              ![r].learner[c] =
                        [sessions |-> Longer(e.sessions, MinSessions),
                         readable |-> IF readable = 1 THEN Longer(e.readable, MinSessions)
                                      ELSE e.readable,
                         interval |-> i]]
    /\ UNCHANGED <<build, files, requal>>

\* A library, model or machine change between processes.
ChangeBuild ==
    /\ Spend("builds", MaxBuilds)
    /\ \A r \in Runtimes : rt[r].phase = "down"
    /\ requal.phase = "idle"
    /\ build' \in Builds \ {build}
    /\ UNCHANGED <<files, rt, requal>>

-----------------------------------------------------------------------------
(* `ironmule requalify`: refuse, compare, apply. *)

\* check_preconditions(): a record, no kill, and a controller that knows the
\* action.  Other model processes are recognised by their command lines, so a
\* runtime may be missed; it may also start later.
Requalify ==
    /\ requal.phase = "idle"
    /\ required /\ ~ReadKill
    /\ \E c \in Classes : Restore(build)[c].sessions > 0
    /\ Spend("requalifications", MaxRequalifications)
    /\ requal' = [phase |-> "compare", build |-> build, outcome |-> "none"]
    /\ UNCHANGED <<build, files, rt>>

\* decide(): the run's own numbers.  INVALID when a gate did not pass; WORSE is
\* applied like NO_GAIN.
Compare ==
    /\ requal.phase = "compare"
    /\ \E o \in {"PASS", "NO_GAIN", "INVALID"} :
          requal' = [requal EXCEPT !.phase = "archive", !.outcome = o]
    /\ UNCHANGED <<build, files, rt, spent>>

ReplacedMutant == IF requal.outcome = "PASS" THEN {controller} \ {None} ELSE {}
Replaced == {controller} \ {None}

\* apply_outcome(): the old epoch is copied first ...
ArchiveEpoch ==
    /\ requal.phase = "archive"
    /\ archived' = archived \cup Replaced
    /\ requal' = IF requal.outcome = "INVALID" THEN NoRequalification
                 ELSE [requal EXCEPT !.phase = "write"]
    /\ UNCHANGED <<build, controller, killed, required, monitorFile, epochs, cleared, rt, spent>>

\* ... then the new one is written: on PASS the sessions of this run, which all
\* had a readable control, otherwise no evidence at all ...
FreshLearners ==
    IF requal.outcome = "PASS"
    THEN {[NoLearner EXCEPT ![Probe] =
             [sessions |-> MinSessions, readable |-> MinSessions, interval |-> i]] :
             i \in {"below", "touches", "noisy"}}
    ELSE {NoLearner}

WriteController ==
    /\ requal.phase = "write"
    /\ \E l \in FreshLearners :
          controller' = [build |-> requal.build, learner |-> l]
    /\ epochs' = epochs \cup {controller'}
    /\ requal' = [requal EXCEPT !.phase = "clear"]
    /\ UNCHANGED <<build, archived, killed, required, monitorFile, cleared, rt, spent>>

\* ... then the record is removed ...
ClearRecord ==
    /\ requal.phase = "clear"
    /\ required' = FALSE
    /\ cleared' = (cleared \/ required)
    /\ requal' = [requal EXCEPT !.phase = "rename"]
    /\ UNCHANGED <<build, controller, archived, killed, monitorFile, epochs, rt, spent>>

\* ... and the monitor's file is moved away.
ArchiveMonitor ==
    /\ requal.phase = "rename"
    /\ monitorFile' = None
    /\ requal' = NoRequalification
    /\ UNCHANGED <<build, controller, archived, killed, required, epochs, cleared, rt, spent>>

CrashRequalify ==
    /\ requal.phase # "idle"
    /\ Spend("faults", MaxFaults)
    /\ requal' = NoRequalification
    /\ UNCHANGED <<build, files, rt>>

-----------------------------------------------------------------------------
Runtime(r) ==
    \/ Load(r) \/ RestoreMonitor(r) \/ Admit(r) \/ WriteKill(r)
    \/ Serve(r) \/ Decide(r) \/ Answer(r) \/ Anomaly(r) \/ Raise(r)
    \/ Observe(r) \/ EndDispatch(r) \/ Close(r) \/ Crash(r) \/ Offer(r)

Requalification ==
    \/ Requalify \/ Compare \/ ArchiveEpoch \/ WriteController
    \/ ClearRecord \/ ArchiveMonitor \/ CrashRequalify

Next == (\E r \in Runtimes : Runtime(r)) \/ Requalification \/ ChangeBuild

Spec == Init /\ [][Next]_vars

-----------------------------------------------------------------------------
(* Properties. *)

ServedCohort == [class : Classes \cup {Unnamed}, action : Actions]
CachedRecords == UNION {[K -> Actions] : K \in SUBSET Cohort}

RuntimeType ==
    [phase : Phases, build : Builds \cup {None}, learner : Learner,
     stale : BOOLEAN, required : BOOLEAN,
     segments : Segments, enabled : BOOLEAN,
     gate : {"none", "shut", "open", "killed"},
     cache : CachedRecords,
     cohorts : Seq(Cohort), served : Seq(ServedCohort),
     current : Actions, moved : BOOLEAN, then : {"idle", "serving", "checked", "observe"},
     late : BOOLEAN, unwritten : BOOLEAN]

RequalificationType ==
    [phase : {"idle", "compare", "archive", "write", "clear", "rename"},
     build : Builds \cup {None}, outcome : {"none", "PASS", "NO_GAIN", "INVALID"}]

SpentType ==
    [dispatches : 0 .. MaxDispatches, faults : 0 .. MaxFaults,
     requalifications : 0 .. MaxRequalifications, builds : 0 .. MaxBuilds,
     offers : 0 .. MaxOffers]

\* Every variable holds a value the program could hold.
TypeOK ==
    /\ build \in Builds
    /\ controller \in ControllerFile \cup {None}
    /\ archived \in SUBSET ControllerFile
    /\ {killed, required, cleared} \subseteq BOOLEAN
    /\ epochs \in SUBSET ControllerFile
    /\ monitorFile \in MonitorFile \cup {None}
    /\ rt \in [Runtimes -> RuntimeType]
    /\ requal \in RequalificationType
    /\ spent \in SpentType

\* While a cohort is served the gate is open exactly when the candidate was
\* chosen for it, and the candidate is chosen only where everything the code
\* asks for holds now: enabled, no requalification pending, an interactive
\* route, and a class that this process's controller still qualifies.  The
\* gate and the cached records outlive the dispatch that set them, so a
\* cohort served with yesterday's gate is what could go wrong
\* (for_dispatch, kill).
GateFollowsDecision ==
    \A r \in Runtimes : rt[r].phase = "serving" =>
        LET s == rt[r] IN
        /\ (s.gate = "open") <=> (s.current = "candidate")
        /\ s.current = "candidate" =>
              /\ s.enabled /\ ~s.required
              /\ Head(s.cohorts).route = "interactive"
              /\ Qualified(s.learner, Head(s.cohorts).class)

\* A kill survives the process, every later one, and every requalification: a
\* runtime that began to load after the record was there never serves the
\* candidate (read_kill, check_preconditions).
KilledStaysOff ==
    \A r \in Runtimes : rt[r].late => rt[r].current = "reference"

\* Doubt is written down before anything else can forget it: until a
\* requalification has removed it, the record is there whenever a process or
\* the monitor's file requires one, whatever died in between, except for doubt
\* whose record could not be written (require_requalification before save).
DoubtRecorded ==
    (\/ \E r \in Runtimes : rt[r].required /\ ~rt[r].unwritten
     \/ monitorFile # None /\ monitorFile.required /\ ~monitorFile.unwritten)
        => required \/ cleared

\* Old evidence is never deleted: every controller state that was ever on disk
\* is there or among the archived epochs, at every point where a
\* requalification may die (apply_outcome).
EpochsKept == epochs \subseteq archived \cup {controller}

=============================================================================
