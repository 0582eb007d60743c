--------------------------- MODULE WorkerRecovery ---------------------------
(***************************************************************************)
(* How ProductService keeps at most one model worker: _recover() and the   *)
(* top of _run() in ironmule_product/service.py, start(), _mark_unusable() *)
(* and close() of MLXWorkerClient in backend.py, the IdleTuner of cli.py,  *)
(* and the service's close() on another thread.                            *)
(*                                                                         *)
(* A backend is one MLXWorkerClient object and the process it owns; one    *)
(* that nothing refers to any more, and whose process has ended, is reused *)
(* for the next object, so a few stand for arbitrarily many.  Requests are *)
(* reduced to "one is waiting"; ProductScheduler models them in full.      *)
(***************************************************************************)
EXTENDS Naturals, FiniteSets

CONSTANTS
  Backends,      \* MLXWorkerClient objects
  None,          \* no backend
  Profiles,      \* identities a worker can report (the tuned profile it loads)
  MaxRestarts,   \* MAX_RESTARTS
  MaxFailures,   \* IdleTuner.MAX_FAILURES
  Tunes,         \* service.idle_task is an IdleTuner
  MaxStuck       \* bound: killed processes at a time that do not end within the waits

ASSUME BackendAssumption == None \notin Backends /\ Backends # {}
ASSUME ProfileAssumption == Profiles # {} /\ None \notin Profiles
ASSUME LimitAssumption ==
  /\ MaxRestarts \in Nat /\ MaxFailures \in Nat
  /\ MaxStuck \in Nat /\ Tunes \in BOOLEAN

VARIABLES
  (* each backend *)
  proc,          \* its process: none, loading, up, stuck (killed, not ended), exited
  usable,        \* _usable
  attached,      \* _process is not None
  payload,       \* identity in _ready_payload, or None
  lastExit,      \* last_exit: none, reaped, unreaped
  lock,          \* holder of _lock: free, scheduler, closer
  (* the service *)
  backend, starting, restarting,
  refused,       \* _recovery_refused is not None
  restarts,      \* len(_restarts) within the window
  identity,      \* _identity
  idleBusy,      \* _idle_busy
  waiting,       \* a request waits in _pending
  (* scheduler thread *)
  pc,
  fresh,         \* the local `fresh` of _recover() or of the tuner
  (* idle tuner and the stored profile *)
  profile,       \* the tuned profile on disk
  tunerDone, failures,
  tuneOutcome,   \* outcome of the last tune: interrupted, done, failed
  late,          \* history: the tuner made a backend after close() had read which to stop
  (* the thread in close() *)
  closed, cpc, cStarting, cBackend

backendVars == <<proc, usable, attached, payload, lastExit, lock>>
serviceVars == <<backend, starting, restarting, refused, restarts, identity, idleBusy, waiting>>
schedVars   == <<pc, fresh>>
tunerVars   == <<profile, tunerDone, failures, tuneOutcome, late>>
closeVars   == <<closed, cpc, cStarting, cBackend>>
vars == <<backendVars, serviceVars, schedVars, tunerVars, closeVars>>

-----------------------------------------------------------------------------
Alive(b) == proc[b] \in {"loading", "up", "stuck"}

\* MLXWorkerClient.ready; a worker that ignored a kill still looks ready.
Ready(b) == payload[b] # None /\ attached[b] /\ usable[b] /\ Alive(b)

\* ProductService._lost_worker
LostWorker == ~refused /\ ~idleBusy /\ ~Ready(backend)

\* terminate(), wait, kill(), wait: the process ends, or it does not in time.
KillOutcomes(b) ==
  IF ~Alive(b) THEN {proc[b]}
  ELSE {"exited"} \cup
       {s \in {"stuck"} : Cardinality({x \in Backends \ {b} : proc[x] = "stuck"}) < MaxStuck}

ExitRecord(state) == IF state = "stuck" THEN "unreaped" ELSE "reaped"

\* The first lines of _mark_unusable: the process is given up.
Detach(b) ==
  /\ usable' = [usable EXCEPT ![b] = FALSE]
  /\ attached' = [attached EXCEPT ![b] = FALSE]
  /\ payload' = [payload EXCEPT ![b] = None]

\* Whether close() raises: the process does not end in time.
CloseRaises(b, state) == attached[b] /\ state = "stuck"

\* close(), up to its _mark_unusable: take _lock and stop a running process.  When
\* it raises, _mark_unusable has run only if the shutdown could not be sent.
CloseBegin(thread, b, state) ==
  /\ lock[b] = "free"
  /\ state \in IF attached[b] THEN KillOutcomes(b) ELSE {proc[b]}
  /\ proc' = [proc EXCEPT ![b] = state]
  /\ lock' = [lock EXCEPT ![b] = IF CloseRaises(b, state) THEN "free" ELSE thread]
  /\ \/ UNCHANGED <<usable, attached, payload, lastExit>>
     \/ /\ CloseRaises(b, state) /\ Detach(b)
        /\ lastExit' = [lastExit EXCEPT ![b] = "unreaped"]

\* close(): its _mark_unusable, and _lock is released.
CloseEnd(thread, b) ==
  /\ lock[b] = thread
  /\ Detach(b)
  /\ lastExit' = [lastExit EXCEPT ![b] = IF attached[b] THEN ExitRecord(proc[b]) ELSE @]
  /\ lock' = [lock EXCEPT ![b] = "free"]
  /\ UNCHANGED proc

\* Objects make_backend() may return: unreferenced, their process ended.
Unused == {b \in Backends :
             b \notin {backend, starting, fresh, cBackend, cStarting} /\ ~Alive(b)}

\* Which of them does not matter.
AnUnused == CHOOSE b \in Unused : TRUE

NewBackend(b) ==
  /\ proc' = [proc EXCEPT ![b] = "none"]
  /\ usable' = [usable EXCEPT ![b] = TRUE]
  /\ attached' = [attached EXCEPT ![b] = FALSE]
  /\ payload' = [payload EXCEPT ![b] = None]
  /\ lastExit' = [lastExit EXCEPT ![b] = "none"]
  /\ UNCHANGED lock

-----------------------------------------------------------------------------
\* A server that has loaded its first worker, whichever it is.
Init ==
  LET b == CHOOSE x \in Backends : TRUE
      p == CHOOSE x \in Profiles : TRUE IN
    /\ proc = [x \in Backends |-> IF x = b THEN "up" ELSE "none"]
    /\ usable = [x \in Backends |-> TRUE]
    /\ attached = [x \in Backends |-> x = b]
    /\ payload = [x \in Backends |-> IF x = b THEN p ELSE None]
    /\ lastExit = [x \in Backends |-> "none"]
    /\ lock = [x \in Backends |-> "free"]
    /\ backend = b /\ starting = None /\ restarting = FALSE /\ refused = FALSE
    /\ restarts = 0 /\ identity = p /\ idleBusy = FALSE /\ waiting = FALSE
    /\ pc = "top" /\ fresh = None
    /\ profile = p /\ tunerDone = FALSE /\ failures = 0
    /\ tuneOutcome = "interrupted" /\ late = FALSE
    /\ closed = FALSE /\ cpc = "open" /\ cStarting = None /\ cBackend = None

-----------------------------------------------------------------------------
(* The world: processes, requests, the clock, the profile on disk *)

\* A loading worker becomes ready to report.
Load(b) ==
  /\ proc[b] = "loading"
  /\ proc' = [proc EXCEPT ![b] = "up"]
  /\ UNCHANGED <<usable, attached, payload, lastExit, lock, serviceVars,
                 schedVars, tunerVars, closeVars>>

\* A worker dies by itself, or a killed one ends late.
Die(b) ==
  /\ Alive(b)
  /\ proc' = [proc EXCEPT ![b] = "exited"]
  /\ UNCHANGED <<usable, attached, payload, lastExit, lock, serviceVars,
                 schedVars, tunerVars, closeVars>>

\* A request is admitted: _backend_ready() holds.
Arrive ==
  /\ ~closed /\ ~waiting
  /\ idleBusy \/ restarting \/ Ready(backend) \/ LostWorker
  /\ waiting' = TRUE
  /\ UNCHANGED <<backendVars, backend, starting, restarting, refused, restarts,
                 identity, idleBusy, schedVars, tunerVars, closeVars>>

\* A restart falls out of RESTART_WINDOW_S.
Expire ==
  /\ restarts > 0
  /\ restarts' = restarts - 1
  /\ UNCHANGED <<backendVars, backend, starting, restarting, refused, identity,
                 idleBusy, waiting, schedVars, tunerVars, closeVars>>

\* Somebody tunes this machine: workers loaded from now on report another profile.
Retune ==
  /\ \E p \in Profiles \ {profile} : profile' = p
  /\ UNCHANGED <<backendVars, serviceVars, schedVars, tunerDone, failures,
                 tuneOutcome, late, closeVars>>

-----------------------------------------------------------------------------
(* Scheduler thread: the loop of _run() *)

\* The loop ends once the service is closed.
Leave ==
  /\ pc = "top" /\ closed
  /\ pc' = "exit"
  /\ UNCHANGED <<backendVars, serviceVars, fresh, tunerVars, closeVars>>

\* Mutant: the loop does not look whether the service is closed.
TurnMutant ==
  /\ pc = "top" /\ ~LostWorker
  /\ pc' = "next"
  /\ UNCHANGED <<backendVars, serviceVars, fresh, tunerVars, closeVars>>

\* A ready worker (or none that may be replaced): look for work.
Turn ==
  /\ pc = "top" /\ ~closed /\ ~LostWorker
  /\ pc' = "next"
  /\ UNCHANGED <<backendVars, serviceVars, fresh, tunerVars, closeVars>>

\* A request is taken; without a ready worker it fails at once.
TakeGroup ==
  /\ pc = "next" /\ waiting
  /\ waiting' = FALSE
  /\ pc' = IF Ready(backend) THEN "group" ELSE "top"
  /\ UNCHANGED <<backendVars, backend, starting, restarting, refused, restarts,
                 identity, idleBusy, fresh, tunerVars, closeVars>>

NothingWaits ==
  /\ pc = "next" /\ ~waiting
  /\ pc' = "top"
  /\ UNCHANGED <<backendVars, serviceVars, fresh, tunerVars, closeVars>>

GroupEnds ==
  /\ pc = "group" /\ proc[backend] = "up" /\ attached[backend]
  /\ pc' = "top"
  /\ UNCHANGED <<backendVars, serviceVars, fresh, tunerVars, closeVars>>

\* The group fails (the worker died, broke the protocol or did not answer in
\* time): _mark_unusable gives the process up, without _lock.
GroupFails ==
  /\ pc = "group"
  /\ Detach(backend)
  /\ pc' = IF attached[backend] THEN "retire" ELSE "top"
  /\ UNCHANGED <<proc, lastExit, lock, serviceVars, fresh, tunerVars, closeVars>>

\* The rest of _mark_unusable: stop the process and record its exit.
RetireWorker ==
  /\ pc = "retire"
  /\ \E state \in KillOutcomes(backend) :
       /\ proc' = [proc EXCEPT ![backend] = state]
       /\ lastExit' = [lastExit EXCEPT ![backend] = ExitRecord(state)]
  /\ pc' = "top"
  /\ UNCHANGED <<usable, attached, payload, lock, serviceVars, fresh, tunerVars,
                 closeVars>>

\* A cancelled stream could not be drained: the group gives the worker up with
\* close(), whose exception is swallowed.
GroupCloses ==
  /\ \/ /\ pc = "group"
        /\ pc' = "giveup"
        /\ UNCHANGED backendVars
     \/ /\ pc = "giveup"
        /\ \E state \in KillOutcomes(backend) :
             /\ CloseBegin("scheduler", backend, state)
             /\ pc' = IF CloseRaises(backend, state) THEN "top" ELSE "giveup"
     \/ /\ pc = "giveup"
        /\ CloseEnd("scheduler", backend)
        /\ pc' = "top"
  /\ UNCHANGED <<serviceVars, fresh, tunerVars, closeVars>>

-----------------------------------------------------------------------------
(* Scheduler thread: _recover() *)

\* A worker that died while idle has not been retired yet.
NoticeLoss ==
  /\ pc = "top" /\ ~closed /\ LostWorker
  /\ pc' = IF lastExit[backend] = "none" THEN "reap" ELSE "judge"
  /\ UNCHANGED <<backendVars, serviceVars, fresh, tunerVars, closeVars>>

\* old.close("exited between groups"), whose exception is swallowed.
Reap ==
  /\ pc = "reap"
  /\ \/ /\ \E state \in KillOutcomes(backend) :
             /\ CloseBegin("scheduler", backend, state)
             /\ pc' = IF CloseRaises(backend, state) THEN "judge" ELSE "reap"
     \/ /\ CloseEnd("scheduler", backend)
        /\ pc' = "judge"
  /\ UNCHANGED <<serviceVars, fresh, tunerVars, closeVars>>

\* Mutant: a refusal is not remembered.
JudgeMutantForget ==
  /\ pc = "judge"
  /\ LET refuse == lastExit[backend] # "reaped" \/ restarts >= MaxRestarts
     IN /\ restarting' = ~refuse
        /\ pc' = IF refuse THEN "top" ELSE "backoff"
  /\ UNCHANGED <<backendVars, backend, starting, refused, restarts, identity,
                 idleBusy, waiting, fresh, tunerVars, closeVars>>

\* Recovery is refused for good, or an attempt begins.
Judge ==
  /\ pc = "judge"
  /\ LET refuse == lastExit[backend] # "reaped" \/ restarts >= MaxRestarts
     IN /\ refused' = refuse
        /\ restarting' = ~refuse
        /\ pc' = IF refuse THEN "top" ELSE "backoff"
  /\ UNCHANGED <<backendVars, backend, starting, restarts, identity, idleBusy,
                 waiting, fresh, tunerVars, closeVars>>

\* The wait before the attempt, which close() cuts short.
Backoff ==
  /\ pc = "backoff"
  /\ \/ closed /\ pc' = "finish" /\ UNCHANGED restarts
     \/ ~closed /\ pc' = "make" /\ restarts' = restarts + 1
  /\ UNCHANGED <<backendVars, backend, starting, restarting, refused, identity,
                 idleBusy, waiting, fresh, tunerVars, closeVars>>

\* Under the service lock: a closed service makes no replacement.
Make ==
  /\ pc = "make"
  /\ \/ /\ closed /\ pc' = "finish"
        /\ UNCHANGED <<backendVars, starting, fresh>>
     \/ /\ ~closed
        /\ Unused # {}
        /\ NewBackend(AnUnused) /\ starting' = AnUnused /\ fresh' = AnUnused
        /\ pc' = "start"
  /\ UNCHANGED <<backend, restarting, refused, restarts, identity, idleBusy,
                 waiting, tunerVars, closeVars>>

\* Where the scheduler goes when fresh.start() returns, and when it raises.
Started == IF idleBusy THEN "count" ELSE "publish"
Failed  == IF idleBusy THEN "settle" ELSE "discard"

\* start() up to the new process, holding _lock until the worker has reported.
\* A process that cannot be made, or an object already closed, raises.
Start ==
  /\ pc = "start" /\ lock[fresh] = "free"
  /\ \/ /\ usable[fresh]
        /\ proc' = [proc EXCEPT ![fresh] = "loading"]
        /\ attached' = [attached EXCEPT ![fresh] = TRUE]
        /\ lock' = [lock EXCEPT ![fresh] = "scheduler"]
        /\ pc' = "load"
        /\ UNCHANGED usable
     \/ /\ usable' = [usable EXCEPT ![fresh] = FALSE]
        /\ pc' = Failed
        /\ UNCHANGED <<proc, attached, lock>>
  /\ UNCHANGED <<payload, lastExit, serviceVars, fresh, tunerVars, closeVars>>

\* start() returns: the worker reported that it is ready.
StartReady ==
  /\ pc = "load" /\ proc[fresh] = "up"
  /\ payload' = [payload EXCEPT ![fresh] = profile]
  /\ lock' = [lock EXCEPT ![fresh] = "free"]
  /\ pc' = Started
  /\ UNCHANGED <<proc, usable, attached, lastExit, serviceVars, fresh, tunerVars,
                 closeVars>>

\* start() raises: the worker died, reported an error or took too long.
StartFails ==
  /\ pc = "load"
  /\ Detach(fresh)
  /\ \E state \in KillOutcomes(fresh) :
       /\ proc' = [proc EXCEPT ![fresh] = state]
       /\ lastExit' = [lastExit EXCEPT ![fresh] = ExitRecord(state)]
  /\ lock' = [lock EXCEPT ![fresh] = "free"]
  /\ pc' = Failed
  /\ UNCHANGED <<serviceVars, fresh, tunerVars, closeVars>>

\* Mutant: the replacement is not asked who it is.
PublishMutantIdentity ==
  /\ pc = "publish"
  /\ \/ closed /\ pc' = "discard" /\ UNCHANGED backend
     \/ ~closed /\ pc' = "finish" /\ backend' = fresh
  /\ UNCHANGED <<backendVars, starting, restarting, refused, restarts, identity,
                 idleBusy, waiting, fresh, tunerVars, closeVars>>

\* Mutant: a service closed meanwhile is not noticed.
PublishMutantClosed ==
  /\ pc = "publish"
  /\ \/ payload[fresh] # identity /\ pc' = "discard" /\ UNCHANGED backend
     \/ payload[fresh] = identity /\ pc' = "finish" /\ backend' = fresh
  /\ UNCHANGED <<backendVars, starting, restarting, refused, restarts, identity,
                 idleBusy, waiting, fresh, tunerVars, closeVars>>

\* Under the service lock: close() sees the replacement or this sees it closed.
Publish ==
  /\ pc = "publish"
  /\ LET fits == ~closed /\ payload[fresh] = identity
     IN \/ ~fits /\ pc' = "discard" /\ UNCHANGED backend
        \/ fits /\ pc' = "finish" /\ backend' = fresh
  /\ UNCHANGED <<backendVars, starting, restarting, refused, restarts, identity,
                 idleBusy, waiting, fresh, tunerVars, closeVars>>

\* Mutant: an unused replacement is dropped, not closed.
DiscardMutant ==
  /\ pc = "discard"
  /\ refused' = (refused \/ lastExit[fresh] = "unreaped")
  /\ pc' = "finish"
  /\ UNCHANGED <<backendVars, backend, starting, restarting, restarts, identity,
                 idleBusy, waiting, fresh, tunerVars, closeVars>>

\* fresh.close("replacement not used"), whose exception is swallowed; a recorded
\* exit that was not confirmed ends recovery.
Discard ==
  /\ pc = "discard"
  /\ \/ /\ \E state \in KillOutcomes(fresh) :
             /\ CloseBegin("scheduler", fresh, state)
             /\ pc' = IF CloseRaises(fresh, state) THEN "finish" ELSE "discard"
     \/ /\ CloseEnd("scheduler", fresh)
        /\ pc' = "finish"
  /\ refused' = (refused \/ (pc' = "finish" /\ lastExit'[fresh] = "unreaped"))
  /\ UNCHANGED <<backend, starting, restarting, restarts, identity, idleBusy,
                 waiting, fresh, tunerVars, closeVars>>

Finish ==
  /\ pc = "finish"
  /\ restarting' = FALSE /\ starting' = None /\ fresh' = None
  /\ pc' = "top"
  /\ UNCHANGED <<backendVars, backend, refused, restarts, identity, idleBusy,
                 waiting, tunerVars, closeVars>>

Recovery == NoticeLoss \/ Reap \/ Judge \/ Backoff \/ Make \/ Start \/ StartReady
            \/ StartFails \/ Publish \/ Discard \/ Finish

-----------------------------------------------------------------------------
(* Scheduler thread: the idle task (IdleTuner.__call__) *)

\* Nothing has waited for long enough and no profile is known to be confirmed;
\* if one turns out to be, tuning is over, and if that cannot be told, not yet.
StartTuning ==
  /\ pc = "next" /\ ~waiting /\ Tunes
  /\ ~tunerDone /\ failures < MaxFailures
  /\ idleBusy' = TRUE
  /\ \/ pc' = "release" /\ UNCHANGED tunerDone
     \/ pc' = "settle" /\ tunerDone' \in BOOLEAN
  /\ UNCHANGED <<backendVars, backend, starting, restarting, refused, restarts,
                 identity, waiting, fresh, profile, failures, tuneOutcome,
                 late, closeVars>>

\* backend.close() frees the device; an exception ends the idle task.
Release ==
  /\ pc = "release"
  /\ \/ /\ \E state \in KillOutcomes(backend) :
             /\ CloseBegin("scheduler", backend, state)
             /\ pc' = IF CloseRaises(backend, state) THEN "settle" ELSE "release"
     \/ /\ CloseEnd("scheduler", backend)
        /\ pc' = "tune"
  /\ UNCHANGED <<serviceVars, fresh, tunerVars, closeVars>>

\* The tune ends: stopped for a waiting request or a close (or never started),
\* failed, or done, with another profile or none.  A fresh worker takes over.
EndTune ==
  /\ pc = "tune"
  /\ tuneOutcome' \in {"interrupted", "done", "failed"}
  /\ profile' \in IF tuneOutcome' = "done" THEN Profiles ELSE {profile}
  /\ Unused # {}
  /\ NewBackend(AnUnused) /\ backend' = AnUnused /\ fresh' = AnUnused
  /\ late' = (cpc \notin {"open", "read"})
  /\ pc' = "start"
  /\ UNCHANGED <<starting, restarting, refused, restarts, identity, idleBusy,
                 waiting, tunerDone, failures, closeVars>>

\* Only once the fresh worker is ready does the tune count.
CountTune ==
  /\ pc = "count"
  /\ tunerDone' = (tunerDone \/ tuneOutcome = "done")
  /\ failures' = IF tuneOutcome = "failed" THEN failures + 1 ELSE failures
  /\ pc' = "settle"
  /\ UNCHANGED <<backendVars, serviceVars, fresh, profile, tuneOutcome,
                 late, closeVars>>

\* The idle task is over; a ready worker's identity becomes the service's.
Settle ==
  /\ pc = "settle"
  /\ idleBusy' = FALSE
  /\ identity' = IF Ready(backend) THEN payload[backend] ELSE identity
  /\ fresh' = None /\ tuneOutcome' = "interrupted"
  /\ pc' = "top"
  /\ UNCHANGED <<backendVars, backend, starting, restarting, refused, restarts,
                 waiting, profile, tunerDone, failures, late, closeVars>>

Tuning == StartTuning \/ Release \/ EndTune \/ CountTune \/ Settle

-----------------------------------------------------------------------------
(* The thread in close() *)

SetClosed ==
  /\ cpc = "open"
  /\ closed' = TRUE /\ cpc' = "read"
  /\ UNCHANGED <<backendVars, serviceVars, schedVars, tunerVars, cStarting, cBackend>>

\* Under the service lock; then a replacement still loading is terminated.  The
\* two are forgotten once they have been stopped.
ReadBackends ==
  /\ cpc = "read"
  /\ cStarting' = starting /\ cBackend' = backend
  /\ cpc' = "terminate"
  /\ UNCHANGED <<backendVars, serviceVars, schedVars, tunerVars, closed>>

TerminateStarting ==
  /\ cpc = "terminate"
  /\ IF cStarting # None /\ attached[cStarting]
     THEN \E state \in KillOutcomes(cStarting) : proc' = [proc EXCEPT ![cStarting] = state]
     ELSE UNCHANGED proc
  /\ cpc' = "close" /\ cStarting' = None
  /\ UNCHANGED <<usable, attached, payload, lastExit, lock, serviceVars,
                 schedVars, tunerVars, closed, cBackend>>

\* backend.close(); an exception leaves close() at once.
CloseBackend ==
  /\ cpc = "close"
  /\ \/ /\ \E state \in KillOutcomes(cBackend) :
             /\ CloseBegin("closer", cBackend, state)
             /\ cpc' = IF CloseRaises(cBackend, state) THEN "done" ELSE "close"
     \/ /\ CloseEnd("closer", cBackend)
        /\ cpc' = "join"
  /\ cBackend' = IF cpc' = "close" THEN cBackend ELSE None
  /\ UNCHANGED <<serviceVars, schedVars, tunerVars, closed, cStarting>>

\* thread.join(timeout): the scheduler has left, or it has not in time.
Join ==
  /\ cpc = "join"
  /\ cpc' = "done"
  /\ UNCHANGED <<backendVars, serviceVars, schedVars, tunerVars,
                 closed, cStarting, cBackend>>

Closer == SetClosed \/ ReadBackends \/ TerminateStarting \/ CloseBackend \/ Join

-----------------------------------------------------------------------------
Scheduler == Leave \/ Turn \/ TakeGroup \/ NothingWaits \/ GroupEnds \/ GroupFails
             \/ GroupCloses \/ RetireWorker \/ Recovery \/ Tuning

World == Arrive \/ Expire \/ Retune \/ \E b \in Backends : Load(b) \/ Die(b)

\* Both threads have ended.
Ended == pc = "exit" /\ cpc = "done" /\ UNCHANGED vars

Next == Scheduler \/ Closer \/ World \/ Ended

\* The scheduler and a close() under way run; a start is bounded by its timeout.
Fairness == /\ WF_vars(Scheduler)
            /\ WF_vars(ReadBackends \/ TerminateStarting \/ CloseBackend \/ Join)

Spec == Init /\ [][Next]_vars /\ Fairness

-----------------------------------------------------------------------------
(* Properties *)

TypeOK ==
  /\ proc \in [Backends -> {"none", "loading", "up", "stuck", "exited"}]
  /\ usable \in [Backends -> BOOLEAN] /\ attached \in [Backends -> BOOLEAN]
  /\ payload \in [Backends -> Profiles \cup {None}]
  /\ lastExit \in [Backends -> {"none", "reaped", "unreaped"}]
  /\ lock \in [Backends -> {"free", "scheduler", "closer"}]
  /\ backend \in Backends /\ starting \in Backends \cup {None}
  /\ {restarting, refused, idleBusy, waiting, tunerDone, late, closed} \subseteq BOOLEAN
  /\ restarts \in 0..MaxRestarts /\ failures \in 0..MaxFailures
  /\ identity \in Profiles /\ profile \in Profiles
  /\ pc \in {"top", "next", "group", "retire", "giveup", "reap", "judge", "backoff", "make",
              "start", "load", "publish", "discard", "finish", "release", "tune",
              "count", "settle", "exit"}
  /\ fresh \in Backends \cup {None}
  /\ tuneOutcome \in {"interrupted", "done", "failed"}
  /\ cpc \in {"open", "read", "terminate", "close", "join", "done"}
  /\ cStarting \in Backends \cup {None} /\ cBackend \in Backends \cup {None}

\* Two workers never load or serve at once (_recover: "two workers would share
\* one device"), whatever the scheduler, the tuner, a crash and close() do.  A
\* process that outlived a kill is on its way out and is not counted here.
OneServing == Cardinality({b \in Backends : proc[b] \in {"loading", "up"}}) <= 1

\* A group runs only on a worker with the identity the service runs under, the
\* one its qualifications were earned with.
IdentityServed == pc = "group" /\ Ready(backend) => payload[backend] = identity

\* When close() has returned and the scheduler has left, no worker of the service
\* runs, except one that outlived a kill, and one that the idle tuner made after
\* close() had read which worker to stop: nobody stops that one.
ClosedClean ==
  pc = "exit" /\ cpc = "done" =>
    \A b \in Backends : Alive(b) => (late /\ b = backend) \/ proc[b] = "stuck"

\* A lost worker is replaced, or recovery is refused, or the service closes: none
\* stays lost for ever, unless restarts leave the window for ever, so that the
\* budget never ends.
Resolved == []<><<restarts' < restarts>>_restarts \/ []<>(~LostWorker \/ closed)

\* A close() under way returns and the scheduler leaves: the two never wait for
\* each other's backend lock for ever.
CloseEnds == []<>(closed => cpc = "done" /\ pc = "exit")
=============================================================================
