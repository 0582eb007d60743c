----------------------- MODULE WorkerRecovery_proofs -----------------------
(***************************************************************************)
(* Proofs about WorkerRecovery: for any number of backends, identities,    *)
(* restarts and failures, two workers never load or serve at once, a group *)
(* runs only under the identity of the service, and close() leaves nothing *)
(* running but what the idle tuner made after close() had read which       *)
(* worker to stop.                                                         *)
(***************************************************************************)
EXTENDS WorkerRecovery, FiniteSetTheorems, TLAPS

USE LimitAssumption DEF vars, backendVars, serviceVars, schedVars, tunerVars, closeVars

-----------------------------------------------------------------------------
(* The inductive invariant *)


\* A worker that loads or serves.
Serving(b) == proc[b] \in {"loading", "up"}

\* Where the scheduler is decides which backend's worker may serve.
Placed ==
  /\ pc \in {"top", "next", "group", "retire", "giveup", "reap", "release", "finish",
             "settle", "exit"} => \A b \in Backends : Serving(b) => b = backend
  /\ pc \in {"judge", "backoff", "make", "tune", "start"} => \A b \in Backends : ~Serving(b)
  /\ pc \in {"load", "publish", "discard", "count"} =>
       \A b \in Backends : Serving(b) => b = fresh

\* The replacement under way: a new object, and the service's own only if the idle
\* tuner made it.
Replacing ==
  /\ pc \in {"start", "load", "publish", "discard", "count"} => fresh \in Backends
  /\ pc \in {"start", "load"} => payload[fresh] = None
  /\ pc = "start" => ~attached[fresh] /\ lastExit[fresh] = "none"
  /\ idleBusy => pc \in {"release", "tune", "start", "load", "count", "settle"}
  /\ pc \in {"release", "tune", "count"} => idleBusy
  /\ idleBusy /\ pc \in {"start", "load", "count"} => fresh = backend
  /\ ~idleBusy /\ pc \in {"start", "load", "publish", "discard"} => fresh # backend

\* Who holds a backend's lock, and what its holder has done to the worker.
Locked ==
  /\ \A b \in Backends : lock[b] = "scheduler" =>
       \/ pc \in {"giveup", "reap", "release"} /\ b = backend
       \/ pc \in {"load", "discard"} /\ b = fresh
  /\ \A b \in Backends : lock[b] = "closer" => cpc = "close" /\ b = cBackend
  /\ pc = "load" => lock[fresh] = "scheduler"
  /\ \A b \in Backends :
       Serving(b) /\ attached[b] /\ lock[b] # "free" => pc = "load" /\ b = fresh

\* A worker that serves is not given up yet, or is about to be stopped.
Kept ==
  \A b \in Backends : Serving(b) =>
    /\ lastExit[b] = "none"
    /\ attached[b] \/ (pc = "retire" /\ b = backend)

\* Which worker close() stops, and what it leaves.
Closing ==
  /\ cpc # "open" => closed
  /\ cpc \in {"terminate", "close"} => cBackend \in Backends /\ (cBackend = backend \/ late)
  /\ cpc \in {"join", "done"} /\ Serving(backend) => late \/ pc = "retire"
  /\ cpc \in {"join", "done"} /\ pc = "start" /\ idleBusy => late \/ ~usable[fresh]

\* A ready worker has the service's identity, except while a tune is accounted for.
Identified == Ready(backend) /\ pc \notin {"count", "settle"} => payload[backend] = identity

\* The budgets are not overdrawn.
Budgeted ==
  /\ pc = "backoff" => restarts < MaxRestarts
  /\ idleBusy /\ pc # "settle" => failures < MaxFailures

IInv == /\ TypeOK /\ Placed /\ Replacing /\ Locked /\ Kept /\ Closing /\ Identified /\ Budgeted

-----------------------------------------------------------------------------
(* What the operators of the model do *)

\* The functions about backends have their types.
BackendTypes ==
  /\ proc \in [Backends -> {"none", "loading", "up", "stuck", "exited"}]
  /\ usable \in [Backends -> BOOLEAN] /\ attached \in [Backends -> BOOLEAN]
  /\ payload \in [Backends -> Profiles \cup {None}]
  /\ lastExit \in [Backends -> {"none", "reaped", "unreaped"}]
  /\ lock \in [Backends -> {"free", "scheduler", "closer"}]

\* A step that starts no worker and gives none an identity.
Quiets ==
  \A b \in Backends :
    /\ Serving(b)' => Serving(b)
    /\ attached'[b] => attached[b]
    /\ payload'[b] \in {payload[b], None}
    /\ Ready(b)' => Ready(b)

\* What a kill leaves.
LEMMA KillOutcome ==
  ASSUME BackendTypes, NEW b \in Backends, NEW state \in KillOutcomes(b)
  PROVE  /\ state \in {"none", "stuck", "exited"}
         /\ ~Alive(b) => state = proc[b]
BY DEF BackendTypes, KillOutcomes, Alive

\* close() up to its _mark_unusable: unless another thread has given the process up
\* already, it does not serve any more.
LEMMA CloseBegins ==
  ASSUME BackendTypes, NEW thread \in {"scheduler", "closer"}, NEW b \in Backends,
         NEW state, CloseBegin(thread, b, state)
  PROVE  /\ BackendTypes' /\ Quiets
         /\ lock[b] = "free" /\ (attached[b] => ~Serving(b)')
         /\ CloseRaises(b, state) => attached[b] /\ ~Serving(b)' /\ lock' = lock
         /\ ~CloseRaises(b, state) =>
              /\ lock' = [lock EXCEPT ![b] = thread]
              /\ UNCHANGED <<usable, attached, payload, lastExit>>
         /\ \A x \in Backends \ {b} :
              /\ proc'[x] = proc[x] /\ attached'[x] = attached[x]
              /\ lastExit'[x] = lastExit[x]
         /\ ~attached[b] => UNCHANGED <<proc, attached, lastExit>>
<1> DEFINE Stopped == {"none", "loading", "up", "stuck", "exited"}
<1>1. state \in Stopped /\ (attached[b] => state \in {"none", "stuck", "exited"})
      /\ (~attached[b] => state = proc[b])
  BY KillOutcome DEF BackendTypes, CloseBegin
<1>2. BackendTypes'
  BY <1>1 DEF BackendTypes, CloseBegin, CloseRaises, Detach
<1>3. \A x \in Backends : Serving(x)' => Serving(x) /\ (x = b => ~attached[b])
  BY <1>1 DEF BackendTypes, CloseBegin, Serving
<1>4. \A x \in Backends : Alive(x)' => Alive(x)
  <2>1. Alive(b)' => Alive(b)
    BY <1>1, KillOutcome DEF BackendTypes, CloseBegin, Alive
  <2> QED
    BY <2>1 DEF BackendTypes, CloseBegin, Alive
<1>5. \A x \in Backends : /\ attached'[x] => attached[x]
                          /\ usable'[x] => usable[x]
                          /\ payload'[x] \in {payload[x], None}
  BY DEF BackendTypes, CloseBegin, Detach
<1>6. Quiets
  BY <1>3, <1>4, <1>5 DEF Quiets, Ready
<1>7. attached[b] => ~Serving(b)'
  BY <1>3 DEF Serving
<1>8. CloseRaises(b, state) => attached[b] /\ ~Serving(b)' /\ lock' = lock
  BY <1>7 DEF BackendTypes, CloseBegin, CloseRaises
<1>9. ~CloseRaises(b, state) =>
        /\ lock' = [lock EXCEPT ![b] = thread]
        /\ UNCHANGED <<usable, attached, payload, lastExit>>
  BY DEF CloseBegin
<1>12. lock[b] = "free"
  BY DEF CloseBegin
<1>10. \A x \in Backends \ {b} :
         /\ proc'[x] = proc[x] /\ attached'[x] = attached[x]
         /\ lastExit'[x] = lastExit[x]
  BY DEF BackendTypes, CloseBegin, Detach
<1>11. ~attached[b] => UNCHANGED <<proc, attached, lastExit>>
  BY <1>1 DEF BackendTypes, CloseBegin, CloseRaises
<1> QED
  BY <1>2, <1>6, <1>7, <1>8, <1>9, <1>10, <1>11, <1>12

\* The end of close(): the process is given up.
LEMMA CloseFinishes ==
  ASSUME BackendTypes, NEW thread \in {"scheduler", "closer"}, NEW b \in Backends,
         CloseEnd(thread, b)
  PROVE  /\ BackendTypes' /\ Quiets
         /\ lock[b] = thread /\ lock' = [lock EXCEPT ![b] = "free"]
         /\ proc' = proc /\ ~attached'[b] /\ ~usable'[b]
         /\ \A x \in Backends \ {b} : attached'[x] = attached[x] /\ lastExit'[x] = lastExit[x]
         /\ ~attached[b] => lastExit' = lastExit
BY DEF BackendTypes, CloseEnd, Detach, ExitRecord, Quiets, Serving, Ready, Alive

\* make_backend() returns an object nobody refers to.
LEMMA AnUnusedFits ==
  ASSUME Unused # {}
  PROVE  /\ AnUnused \in Backends /\ ~Alive(AnUnused)
         /\ AnUnused \notin {backend, starting, fresh, cBackend, cStarting}
<1>1. AnUnused \in Unused
  BY DEF AnUnused
<1> QED
  BY <1>1 DEF Unused

\* It is made anew.
LEMMA NewBackendFits ==
  ASSUME BackendTypes, NEW b \in Backends, NewBackend(b), ~Alive(b)
  PROVE  /\ BackendTypes' /\ lock' = lock
         /\ proc'[b] = "none" /\ ~attached'[b] /\ payload'[b] = None /\ lastExit'[b] = "none"
         /\ \A x \in Backends \ {b} :
              /\ proc'[x] = proc[x] /\ usable'[x] = usable[x] /\ attached'[x] = attached[x]
              /\ payload'[x] = payload[x] /\ lastExit'[x] = lastExit[x]
BY DEF BackendTypes, NewBackend, Alive

-----------------------------------------------------------------------------
(* The steps *)

\* The start: one worker is up, with the identity of the service.
LEMMA InitIInv == Init => IInv
<1> SUFFICES ASSUME Init PROVE IInv
  OBVIOUS
<1> DEFINE b == CHOOSE x \in Backends : TRUE
           p == CHOOSE x \in Profiles : TRUE
<1>1. b \in Backends /\ p \in Profiles
  BY BackendAssumption, ProfileAssumption
<1>2. /\ proc = [x \in Backends |-> IF x = b THEN "up" ELSE "none"]
      /\ attached = [x \in Backends |-> x = b]
      /\ payload = [x \in Backends |-> IF x = b THEN p ELSE None]
      /\ backend = b /\ identity = p /\ profile = p
  BY DEF Init
<1> HIDE DEF b, p
<1>3. /\ usable = [x \in Backends |-> TRUE] /\ lastExit = [x \in Backends |-> "none"]
      /\ lock = [x \in Backends |-> "free"]
      /\ starting = None /\ fresh = None /\ cStarting = None /\ cBackend = None
      /\ pc = "top" /\ cpc = "open" /\ tuneOutcome = "interrupted"
      /\ restarts = 0 /\ failures = 0
      /\ ~restarting /\ ~refused /\ ~idleBusy /\ ~waiting /\ ~tunerDone /\ ~late /\ ~closed
      /\ {restarting, refused, idleBusy, waiting, tunerDone, late, closed} \subseteq BOOLEAN
  BY DEF Init
<1>4. TypeOK
  BY <1>1, <1>2, <1>3 DEF TypeOK
<1> QED
  BY <1>1, <1>2, <1>3, <1>4 DEF IInv, Placed, Replacing, Locked, Kept, Closing, Identified, Budgeted, Serving, Ready, Alive

(* The scheduler's loop *)

\* The loop ends.
LEMMA LeaveIInv == ASSUME IInv, Leave PROVE IInv'
<1>1. TypeOK'
BY DEF IInv, Leave, TypeOK
<1>2. (Placed /\ Locked /\ Kept)'
BY DEF IInv, Leave, Placed, Locked, Kept, Serving
<1>3. (Replacing /\ Closing /\ Identified /\ Budgeted)'
BY DEF IInv, Leave, Replacing, Closing, Identified, Budgeted, Serving, Ready, Alive
<1> QED
  BY <1>1, <1>2, <1>3 DEF IInv

\* The scheduler looks for work.
LEMMA TurnIInv == ASSUME IInv, Turn PROVE IInv'
<1>1. TypeOK'
BY DEF IInv, Turn, TypeOK
<1>2. (Placed /\ Locked /\ Kept)'
BY DEF IInv, Turn, Placed, Locked, Kept, Serving
<1>3. (Replacing /\ Closing /\ Identified /\ Budgeted)'
BY DEF IInv, Turn, Replacing, Closing, Identified, Budgeted, Ready, Alive
<1> QED
  BY <1>1, <1>2, <1>3 DEF IInv

\* A request is taken.
LEMMA TakeGroupIInv == ASSUME IInv, TakeGroup PROVE IInv'
<1>1. TypeOK'
BY DEF IInv, TakeGroup, TypeOK
<1>2. (Placed /\ Locked /\ Kept)'
BY DEF IInv, TakeGroup, Placed, Locked, Kept, Serving
<1>3. (Replacing /\ Closing /\ Identified /\ Budgeted)'
BY DEF IInv, TakeGroup, Replacing, Closing, Identified, Budgeted, Serving, Ready,
    Alive
<1> QED
  BY <1>1, <1>2, <1>3 DEF IInv

\* Nothing to do.
LEMMA NothingWaitsIInv == ASSUME IInv, NothingWaits PROVE IInv'
<1>1. TypeOK'
BY DEF IInv, NothingWaits, TypeOK
<1>2. (Placed /\ Locked /\ Kept)'
BY DEF IInv, NothingWaits, Placed, Locked, Kept, Serving
<1>3. (Replacing /\ Closing /\ Identified /\ Budgeted)'
BY DEF IInv, NothingWaits, Replacing, Closing, Identified, Budgeted, Serving, Ready,
    Alive
<1> QED
  BY <1>1, <1>2, <1>3 DEF IInv

\* The group is served.
LEMMA GroupEndsIInv == ASSUME IInv, GroupEnds PROVE IInv'
<1>1. TypeOK'
BY DEF IInv, GroupEnds, TypeOK
<1>2. (Placed /\ Locked /\ Kept)'
BY DEF IInv, GroupEnds, Placed, Locked, Kept, Serving
<1>3. (Replacing /\ Closing /\ Identified /\ Budgeted)'
BY DEF IInv, GroupEnds, Replacing, Closing, Identified, Budgeted, Serving, Ready,
    Alive
<1> QED
  BY <1>1, <1>2, <1>3 DEF IInv

\* The group fails, and with it perhaps the worker.
LEMMA GroupFailsIInv == ASSUME IInv, GroupFails PROVE IInv'
<1>1. TypeOK'
BY DEF IInv, GroupFails, TypeOK, Detach
<1>2. (Placed /\ Locked /\ Kept)'
BY DEF IInv, GroupFails, Placed, Locked, Kept, Serving
<1>3. (Replacing /\ Closing /\ Identified /\ Budgeted)'
BY DEF IInv, GroupFails, TypeOK, Placed, Replacing, Locked, Kept, Closing,
    Identified, Budgeted, Serving, Ready, Alive, Detach
<1> QED
  BY <1>1, <1>2, <1>3 DEF IInv

\* The group gives the worker up.
LEMMA GroupClosesIInv == ASSUME IInv, GroupCloses PROVE IInv'
<1>0. BackendTypes /\ backend \in Backends
  BY DEF IInv, TypeOK, BackendTypes, Replacing, Closing, GroupCloses
<1>1. PICK b \in Backends : b = backend
  BY <1>0
<1>4. CASE pc = "group"
BY <1>4 DEF GroupCloses, IInv, TypeOK, Placed, Replacing, Locked, Kept, Closing,
    Identified, Budgeted, Serving, Ready, Alive, CloseBegin, CloseEnd
<1>2. ASSUME pc = "giveup", NEW state, CloseBegin("scheduler", b, state),
             pc' = IF CloseRaises(b, state) THEN "top" ELSE "giveup"
      PROVE  IInv'
  <2>1. TypeOK'
    BY <1>0, <1>1, <1>2, CloseBegins DEF GroupCloses, IInv, TypeOK, BackendTypes
  <2>2. (Placed /\ Kept)'
BY <1>0, <1>1, <1>2, CloseBegins DEF GroupCloses, IInv, TypeOK, BackendTypes,
      Quiets, Placed, Kept, Locked, Serving
  <2>3. Locked'
    <3>1. CASE CloseRaises(b, state)
BY <1>0, <1>1, <1>2, <3>1, CloseBegins DEF GroupCloses, IInv, TypeOK, BackendTypes,
        Quiets, Locked, Kept
    <3>2. CASE ~CloseRaises(b, state)
      <4>1. /\ lock[b] = "free" /\ lock' = [lock EXCEPT ![b] = "scheduler"]
            /\ UNCHANGED attached /\ (attached[b] => ~Serving(b)')
        BY <1>0, <1>1, <1>2, <3>2, CloseBegins
      <4>2. \A x \in Backends : Serving(x)' => Serving(x)
        BY <1>0, <1>1, <1>2, CloseBegins DEF Quiets
      <4> QED
        BY <1>0, <1>1, <1>2, <3>2, <4>1, <4>2 DEF GroupCloses, IInv, TypeOK, Locked
    <3> QED
      BY <3>1, <3>2
  <2>4. (Replacing /\ Budgeted)'
BY <1>0, <1>1, <1>2, CloseBegins DEF GroupCloses, IInv, TypeOK, BackendTypes,
      Quiets, Replacing, Budgeted
  <2>5. (Closing /\ Identified)'
BY <1>0, <1>1, <1>2, CloseBegins DEF GroupCloses, IInv, TypeOK, BackendTypes,
      Quiets, Placed, Kept, Closing, Identified, Replacing, Ready, Alive
  <2> QED
    BY <2>1, <2>2, <2>3, <2>4, <2>5 DEF IInv
<1>3. ASSUME pc = "giveup", CloseEnd("scheduler", b), pc' = "top"
      PROVE  IInv'
  <2>1. TypeOK'
    BY <1>0, <1>1, <1>3, CloseFinishes DEF GroupCloses, IInv, TypeOK, BackendTypes
  <2>2. (Placed /\ Kept)'
BY <1>0, <1>1, <1>3, CloseFinishes DEF GroupCloses, IInv, TypeOK, BackendTypes,
      Quiets, Placed, Kept, Locked, Serving
  <2>3. Locked'
    <3>1. /\ lock[b] = "scheduler" /\ lock' = [lock EXCEPT ![b] = "free"] /\ proc' = proc
          /\ \A x \in Backends : attached'[x] => attached[x]
      BY <1>1, <1>3, CloseFinishes, <1>0 DEF Quiets
    <3> QED
      BY <1>1, <1>3, <3>1 DEF GroupCloses, IInv, TypeOK, Locked, Serving
  <2>4. (Replacing /\ Budgeted)'
BY <1>0, <1>1, <1>3, CloseFinishes DEF GroupCloses, IInv, TypeOK, BackendTypes,
      Quiets, Replacing, Budgeted
  <2>5. (Closing /\ Identified)'
BY <1>0, <1>1, <1>3, CloseFinishes DEF GroupCloses, IInv, TypeOK, BackendTypes,
      Quiets, Placed, Kept, Locked, Closing, Identified, Replacing, Ready, Alive,
      Serving
  <2> QED
    BY <2>1, <2>2, <2>3, <2>4, <2>5 DEF IInv
<1> QED
  BY <1>0, <1>1, <1>2, <1>3, <1>4 DEF GroupCloses, Quiets

\* The worker that failed is stopped.
LEMMA RetireWorkerIInv == ASSUME IInv, RetireWorker PROVE IInv'
<1>1. TypeOK'
BY DEF IInv, RetireWorker, TypeOK, KillOutcomes, ExitRecord
<1>2. (Placed /\ Locked /\ Kept)'
BY DEF IInv, RetireWorker, TypeOK, Placed, Locked, Kept, Serving, Alive,
    KillOutcomes
<1>3. (Replacing /\ Closing /\ Identified /\ Budgeted)'
BY DEF IInv, RetireWorker, TypeOK, Replacing, Closing, Identified, Budgeted,
    Serving, Ready, Alive, KillOutcomes
<1> QED
  BY <1>1, <1>2, <1>3 DEF IInv

(* Recovery *)

\* A lost worker is noticed.
LEMMA NoticeLossIInv == ASSUME IInv, NoticeLoss PROVE IInv'
<1>1. TypeOK'
BY DEF IInv, NoticeLoss, TypeOK
<1>2. (Placed /\ Locked /\ Kept)'
BY DEF IInv, NoticeLoss, Placed, Locked, Kept, Serving
<1>3. (Replacing /\ Closing /\ Identified /\ Budgeted)'
BY DEF IInv, NoticeLoss, Replacing, Closing, Identified, Budgeted, Ready, Alive
<1> QED
  BY <1>1, <1>2, <1>3 DEF IInv

\* The lost worker is closed.
LEMMA ReapIInv == ASSUME IInv, Reap PROVE IInv'
<1>0. BackendTypes /\ backend \in Backends
  BY DEF IInv, TypeOK, BackendTypes, Replacing, Closing, Reap
<1>1. PICK b \in Backends : b = backend
  BY <1>0
<1>2. ASSUME pc = "reap", NEW state, CloseBegin("scheduler", b, state),
             pc' = IF CloseRaises(b, state) THEN "judge" ELSE "reap"
      PROVE  IInv'
  <2>1. TypeOK'
    BY <1>0, <1>1, <1>2, CloseBegins DEF Reap, IInv, TypeOK, BackendTypes
  <2>2. (Placed /\ Kept)'
BY <1>0, <1>1, <1>2, CloseBegins DEF Reap, IInv, TypeOK, BackendTypes, Quiets,
      Placed, Kept, Locked, Serving
  <2>3. Locked'
    <3>1. CASE CloseRaises(b, state)
BY <1>0, <1>1, <1>2, <3>1, CloseBegins DEF Reap, IInv, TypeOK, BackendTypes, Quiets,
        Locked, Kept
    <3>2. CASE ~CloseRaises(b, state)
      <4>1. /\ lock[b] = "free" /\ lock' = [lock EXCEPT ![b] = "scheduler"]
            /\ UNCHANGED attached /\ (attached[b] => ~Serving(b)')
        BY <1>0, <1>1, <1>2, <3>2, CloseBegins
      <4>2. \A x \in Backends : Serving(x)' => Serving(x)
        BY <1>0, <1>1, <1>2, CloseBegins DEF Quiets
      <4> QED
        BY <1>0, <1>1, <1>2, <3>2, <4>1, <4>2 DEF Reap, IInv, TypeOK, Locked
    <3> QED
      BY <3>1, <3>2
  <2>4. (Replacing /\ Budgeted)'
BY <1>0, <1>1, <1>2, CloseBegins DEF Reap, IInv, TypeOK, BackendTypes, Quiets,
      Replacing, Budgeted
  <2>5. (Closing /\ Identified)'
BY <1>0, <1>1, <1>2, CloseBegins DEF Reap, IInv, TypeOK, BackendTypes, Quiets,
      Placed, Kept, Closing, Identified, Replacing, Ready, Alive
  <2> QED
    BY <2>1, <2>2, <2>3, <2>4, <2>5 DEF IInv
<1>3. ASSUME pc = "reap", CloseEnd("scheduler", b), pc' = "judge"
      PROVE  IInv'
  <2>1. TypeOK'
    BY <1>0, <1>1, <1>3, CloseFinishes DEF Reap, IInv, TypeOK, BackendTypes
  <2>2. (Placed /\ Kept)'
BY <1>0, <1>1, <1>3, CloseFinishes DEF Reap, IInv, TypeOK, BackendTypes, Quiets,
      Placed, Kept, Locked, Serving
  <2>3. Locked'
    <3>1. /\ lock[b] = "scheduler" /\ lock' = [lock EXCEPT ![b] = "free"] /\ proc' = proc
          /\ \A x \in Backends : attached'[x] => attached[x]
      BY <1>1, <1>3, CloseFinishes, <1>0 DEF Quiets
    <3> QED
      BY <1>1, <1>3, <3>1 DEF Reap, IInv, TypeOK, Locked, Serving
  <2>4. (Replacing /\ Budgeted)'
BY <1>0, <1>1, <1>3, CloseFinishes DEF Reap, IInv, TypeOK, BackendTypes, Quiets,
      Replacing, Budgeted
  <2>5. (Closing /\ Identified)'
BY <1>0, <1>1, <1>3, CloseFinishes DEF Reap, IInv, TypeOK, BackendTypes, Quiets,
      Placed, Kept, Locked, Closing, Identified, Replacing, Ready, Alive, Serving
  <2> QED
    BY <2>1, <2>2, <2>3, <2>4, <2>5 DEF IInv
<1> QED
  BY <1>0, <1>1, <1>2, <1>3 DEF Reap, Quiets

\* Recovery is refused, or an attempt begins.
LEMMA JudgeIInv == ASSUME IInv, Judge PROVE IInv'
<1>1. TypeOK'
BY DEF IInv, Judge, TypeOK
<1>2. (Placed /\ Locked /\ Kept)'
BY DEF IInv, Judge, Placed, Locked, Kept, Serving
<1>3. (Replacing /\ Closing /\ Identified /\ Budgeted)'
BY DEF IInv, Judge, TypeOK, Replacing, Closing, Identified, Budgeted, Serving,
    Ready, Alive
<1> QED
  BY <1>1, <1>2, <1>3 DEF IInv

\* The attempt is accounted for.
LEMMA BackoffIInv == ASSUME IInv, Backoff PROVE IInv'
<1>1. TypeOK'
BY DEF IInv, Backoff, TypeOK, Budgeted
<1>2. (Placed /\ Locked /\ Kept)'
BY DEF IInv, Backoff, Placed, Locked, Kept, Serving
<1>3. (Replacing /\ Closing /\ Identified /\ Budgeted)'
BY DEF IInv, Backoff, Replacing, Closing, Identified, Budgeted, Serving, Ready,
    Alive
<1> QED
  BY <1>1, <1>2, <1>3 DEF IInv

\* A replacement is made, unless the service is closed.
LEMMA MakeIInv == ASSUME IInv, Make PROVE IInv'
<1>1. CASE closed
  <2>1. TypeOK'
    BY <1>1 DEF Make, IInv, TypeOK
  <2> QED
BY <1>1, <2>1 DEF Make, IInv, TypeOK, Placed, Replacing, Locked, Kept, Closing,
      Identified, Budgeted, Serving, Ready, Alive
<1>2. CASE ~closed
  <2>1. PICK b \in Backends : b = AnUnused /\ ~Alive(b) /\ b # backend
    BY <1>2, AnUnusedFits DEF Make
  <2>2. NewBackend(b) /\ fresh' = b /\ starting' = b /\ pc' = "start" /\ pc = "make"
    BY <1>2, <2>1 DEF Make
  <2>3. BackendTypes
    BY DEF IInv, TypeOK, BackendTypes
  <2>4. TypeOK'
    BY <1>2, <2>1, <2>2, <2>3, NewBackendFits DEF Make, IInv, TypeOK, BackendTypes
  <2>5. (Placed /\ Kept)'
BY <1>2, <2>1, <2>2, <2>3, NewBackendFits DEF Make, IInv, TypeOK, Placed, Kept,
      Serving
  <2>6. (Replacing /\ Budgeted)'
    BY <1>2, <2>1, <2>2, <2>3, NewBackendFits DEF Make, IInv, TypeOK, Replacing, Budgeted
  <2>7. Locked'
BY <1>2, <2>1, <2>2, <2>3, NewBackendFits DEF Make, IInv, TypeOK, Locked, Placed,
      Serving
  <2>8. (Closing /\ Identified)'
BY <1>2, <2>1, <2>2, <2>3, NewBackendFits DEF Make, IInv, TypeOK, Closing,
      Identified, Serving, Ready, Alive
  <2> QED
    BY <2>4, <2>5, <2>6, <2>7, <2>8 DEF IInv
<1> QED
  BY <1>1, <1>2

\* start() makes the process, or raises.
LEMMA StartIInv == ASSUME IInv, Start PROVE IInv'
<1>1. fresh \in Backends /\ pc = "start"
  BY DEF Start, IInv, Replacing
<1>2. TypeOK'
  <2>1. proc' \in [Backends -> {"none", "loading", "up", "stuck", "exited"}]
    BY <1>1 DEF Start, IInv, TypeOK
  <2>2. usable' \in [Backends -> BOOLEAN] /\ attached' \in [Backends -> BOOLEAN]
    BY <1>1 DEF Start, IInv, TypeOK
  <2>3. lock' \in [Backends -> {"free", "scheduler", "closer"}]
    BY <1>1 DEF Start, IInv, TypeOK
  <2> QED
    BY <1>1, <2>1, <2>2, <2>3 DEF Start, Failed, IInv, TypeOK
<1>3. (Placed /\ Locked /\ Kept)'
  BY <1>1 DEF Start, Failed, IInv, TypeOK, Placed, Replacing, Locked, Kept, Serving
<1>4. (Replacing /\ Closing /\ Identified /\ Budgeted)'
BY <1>1 DEF Start, Failed, IInv, TypeOK, Placed, Replacing, Closing, Identified,
    Budgeted, Serving, Ready, Alive
<1> QED
  BY <1>2, <1>3, <1>4 DEF IInv

\* The worker has reported.
LEMMA StartReadyIInv == ASSUME IInv, StartReady PROVE IInv'
<1>1. TypeOK'
BY DEF IInv, StartReady, TypeOK, Replacing, Started
<1>2. (Placed /\ Locked /\ Kept)'
BY DEF IInv, StartReady, TypeOK, Placed, Locked, Kept, Serving, Started
<1>3. (Replacing /\ Closing /\ Identified /\ Budgeted)'
BY DEF IInv, StartReady, Replacing, Closing, Identified, Budgeted, Serving, Ready,
    Alive, Started
<1> QED
  BY <1>1, <1>2, <1>3 DEF IInv

\* The worker is given up before it has reported.
LEMMA StartFailsIInv == ASSUME IInv, StartFails PROVE IInv'
<1>1. TypeOK'
BY DEF IInv, StartFails, TypeOK, Replacing, Failed, Detach, KillOutcomes, ExitRecord
<1>2. (Placed /\ Locked /\ Kept)'
BY DEF IInv, StartFails, TypeOK, Placed, Locked, Kept, Serving, Alive, Failed,
    KillOutcomes
<1>3. (Replacing /\ Closing /\ Identified /\ Budgeted)'
  <2>1. \A b \in Backends : Serving(b)' => Serving(b)
    BY DEF IInv, StartFails, TypeOK, Serving, Alive, KillOutcomes
  <2> QED
BY <2>1 DEF IInv, StartFails, TypeOK, Replacing, Closing, Identified, Budgeted, Ready,
      Alive, Failed, Detach
<1> QED
  BY <1>1, <1>2, <1>3 DEF IInv

\* The replacement becomes the service's worker, or it is not used.
LEMMA PublishIInv == ASSUME IInv, Publish PROVE IInv'
<1>1. TypeOK'
BY DEF IInv, Publish, TypeOK, Replacing
<1>2. (Placed /\ Locked /\ Kept)'
BY DEF IInv, Publish, Placed, Locked, Kept, Serving
<1>3. (Replacing /\ Closing /\ Identified /\ Budgeted)'
BY DEF IInv, Publish, TypeOK, Replacing, Closing, Identified, Budgeted, Serving,
    Ready, Alive
<1> QED
  BY <1>1, <1>2, <1>3 DEF IInv

\* The replacement is closed.
LEMMA DiscardIInv == ASSUME IInv, Discard PROVE IInv'
<1>0. BackendTypes /\ fresh \in Backends
  BY DEF IInv, TypeOK, BackendTypes, Replacing, Closing, Discard
<1>1. PICK b \in Backends : b = fresh
  BY <1>0
<1>2. ASSUME pc = "discard", NEW state, CloseBegin("scheduler", b, state),
             pc' = IF CloseRaises(b, state) THEN "finish" ELSE "discard"
      PROVE  IInv'
  <2>1. TypeOK'
    BY <1>0, <1>1, <1>2, CloseBegins DEF Discard, IInv, TypeOK, BackendTypes
  <2>2. (Placed /\ Kept)'
BY <1>0, <1>1, <1>2, CloseBegins DEF Discard, IInv, TypeOK, BackendTypes, Quiets,
      Placed, Kept, Locked, Serving
  <2>3. Locked'
    <3>1. CASE CloseRaises(b, state)
BY <1>0, <1>1, <1>2, <3>1, CloseBegins DEF Discard, IInv, TypeOK, BackendTypes,
        Quiets, Locked, Kept
    <3>2. CASE ~CloseRaises(b, state)
      <4>1. /\ lock[b] = "free" /\ lock' = [lock EXCEPT ![b] = "scheduler"]
            /\ UNCHANGED attached /\ (attached[b] => ~Serving(b)')
        BY <1>0, <1>1, <1>2, <3>2, CloseBegins
      <4>2. \A x \in Backends : Serving(x)' => Serving(x)
        BY <1>0, <1>1, <1>2, CloseBegins DEF Quiets
      <4> QED
        BY <1>0, <1>1, <1>2, <3>2, <4>1, <4>2 DEF Discard, IInv, TypeOK, Locked
    <3> QED
      BY <3>1, <3>2
  <2>4. (Replacing /\ Budgeted)'
BY <1>0, <1>1, <1>2, CloseBegins DEF Discard, IInv, TypeOK, BackendTypes, Quiets,
      Replacing, Budgeted
  <2>5. (Closing /\ Identified)'
BY <1>0, <1>1, <1>2, CloseBegins DEF Discard, IInv, TypeOK, BackendTypes, Quiets,
      Placed, Kept, Closing, Identified, Replacing, Ready, Alive
  <2> QED
    BY <2>1, <2>2, <2>3, <2>4, <2>5 DEF IInv
<1>3. ASSUME pc = "discard", CloseEnd("scheduler", b), pc' = "finish"
      PROVE  IInv'
  <2>1. TypeOK'
    BY <1>0, <1>1, <1>3, CloseFinishes DEF Discard, IInv, TypeOK, BackendTypes
  <2>2. (Placed /\ Kept)'
BY <1>0, <1>1, <1>3, CloseFinishes DEF Discard, IInv, TypeOK, BackendTypes, Quiets,
      Placed, Kept, Locked, Serving
  <2>3. Locked'
    <3>1. /\ lock[b] = "scheduler" /\ lock' = [lock EXCEPT ![b] = "free"] /\ proc' = proc
          /\ \A x \in Backends : attached'[x] => attached[x]
      BY <1>1, <1>3, CloseFinishes, <1>0 DEF Quiets
    <3> QED
      BY <1>1, <1>3, <3>1 DEF Discard, IInv, TypeOK, Locked, Serving
  <2>4. (Replacing /\ Budgeted)'
BY <1>0, <1>1, <1>3, CloseFinishes DEF Discard, IInv, TypeOK, BackendTypes, Quiets,
      Replacing, Budgeted
  <2>5. (Closing /\ Identified)'
BY <1>0, <1>1, <1>3, CloseFinishes DEF Discard, IInv, TypeOK, BackendTypes, Quiets,
      Placed, Kept, Locked, Closing, Identified, Replacing, Ready, Alive, Serving
  <2> QED
    BY <2>1, <2>2, <2>3, <2>4, <2>5 DEF IInv
<1> QED
  BY <1>0, <1>1, <1>2, <1>3 DEF Discard, Quiets

\* The attempt is over.
LEMMA FinishIInv == ASSUME IInv, Finish PROVE IInv'
<1>1. TypeOK'
BY DEF IInv, Finish, TypeOK
<1>2. (Placed /\ Locked /\ Kept)'
BY DEF IInv, Finish, Placed, Locked, Kept, Serving
<1>3. (Replacing /\ Closing /\ Identified /\ Budgeted)'
BY DEF IInv, Finish, Replacing, Closing, Identified, Budgeted, Serving, Ready, Alive
<1> QED
  BY <1>1, <1>2, <1>3 DEF IInv

(* The idle task *)

\* The idle task begins.
LEMMA StartTuningIInv == ASSUME IInv, StartTuning PROVE IInv'
<1>1. TypeOK'
BY DEF IInv, StartTuning, TypeOK
<1>2. (Placed /\ Locked /\ Kept)'
BY DEF IInv, StartTuning, Placed, Locked, Kept, Serving
<1>3. (Replacing /\ Closing /\ Identified /\ Budgeted)'
BY DEF IInv, StartTuning, Replacing, Closing, Identified, Budgeted, Serving, Ready,
    Alive
<1> QED
  BY <1>1, <1>2, <1>3 DEF IInv

\* The idle task frees the device.
LEMMA ReleaseIInv == ASSUME IInv, Release PROVE IInv'
<1>0. BackendTypes /\ backend \in Backends
  BY DEF IInv, TypeOK, BackendTypes, Replacing, Closing, Release
<1>1. PICK b \in Backends : b = backend
  BY <1>0
<1>2. ASSUME pc = "release", NEW state, CloseBegin("scheduler", b, state),
             pc' = IF CloseRaises(b, state) THEN "settle" ELSE "release"
      PROVE  IInv'
  <2>1. TypeOK'
    BY <1>0, <1>1, <1>2, CloseBegins DEF Release, IInv, TypeOK, BackendTypes
  <2>2. (Placed /\ Kept)'
BY <1>0, <1>1, <1>2, CloseBegins DEF Release, IInv, TypeOK, BackendTypes, Quiets,
      Placed, Kept, Locked, Serving
  <2>3. Locked'
    <3>1. CASE CloseRaises(b, state)
BY <1>0, <1>1, <1>2, <3>1, CloseBegins DEF Release, IInv, TypeOK, BackendTypes,
        Quiets, Locked, Kept
    <3>2. CASE ~CloseRaises(b, state)
      <4>1. /\ lock[b] = "free" /\ lock' = [lock EXCEPT ![b] = "scheduler"]
            /\ UNCHANGED attached /\ (attached[b] => ~Serving(b)')
        BY <1>0, <1>1, <1>2, <3>2, CloseBegins
      <4>2. \A x \in Backends : Serving(x)' => Serving(x)
        BY <1>0, <1>1, <1>2, CloseBegins DEF Quiets
      <4> QED
        BY <1>0, <1>1, <1>2, <3>2, <4>1, <4>2 DEF Release, IInv, TypeOK, Locked
    <3> QED
      BY <3>1, <3>2
  <2>4. (Replacing /\ Budgeted)'
BY <1>0, <1>1, <1>2, CloseBegins DEF Release, IInv, TypeOK, BackendTypes, Quiets,
      Replacing, Budgeted
  <2>5. (Closing /\ Identified)'
BY <1>0, <1>1, <1>2, CloseBegins DEF Release, IInv, TypeOK, BackendTypes, Quiets,
      Placed, Kept, Closing, Identified, Replacing, Ready, Alive
  <2> QED
    BY <2>1, <2>2, <2>3, <2>4, <2>5 DEF IInv
<1>3. ASSUME pc = "release", CloseEnd("scheduler", b), pc' = "tune"
      PROVE  IInv'
  <2>1. TypeOK'
    BY <1>0, <1>1, <1>3, CloseFinishes DEF Release, IInv, TypeOK, BackendTypes
  <2>2. (Placed /\ Kept)'
BY <1>0, <1>1, <1>3, CloseFinishes DEF Release, IInv, TypeOK, BackendTypes, Quiets,
      Placed, Kept, Locked, Serving
  <2>3. Locked'
    <3>1. /\ lock[b] = "scheduler" /\ lock' = [lock EXCEPT ![b] = "free"] /\ proc' = proc
          /\ \A x \in Backends : attached'[x] => attached[x]
      BY <1>1, <1>3, CloseFinishes, <1>0 DEF Quiets
    <3> QED
      BY <1>1, <1>3, <3>1 DEF Release, IInv, TypeOK, Locked, Serving
  <2>4. (Replacing /\ Budgeted)'
BY <1>0, <1>1, <1>3, CloseFinishes DEF Release, IInv, TypeOK, BackendTypes, Quiets,
      Replacing, Budgeted
  <2>5. (Closing /\ Identified)'
BY <1>0, <1>1, <1>3, CloseFinishes DEF Release, IInv, TypeOK, BackendTypes, Quiets,
      Placed, Kept, Locked, Closing, Identified, Replacing, Ready, Alive, Serving
  <2> QED
    BY <2>1, <2>2, <2>3, <2>4, <2>5 DEF IInv
<1> QED
  BY <1>0, <1>1, <1>2, <1>3 DEF Release, Quiets

\* The tune is over: a new worker is made and published at once.
LEMMA EndTuneIInv == ASSUME IInv, EndTune PROVE IInv'
<1>1. PICK b \in Backends : b = AnUnused /\ ~Alive(b) /\ b # cBackend
  BY AnUnusedFits DEF EndTune
<1>2. NewBackend(b) /\ backend' = b /\ fresh' = b /\ pc' = "start" /\ pc = "tune" 
  BY <1>1 DEF EndTune
<1>3. BackendTypes
  BY DEF IInv, TypeOK, BackendTypes
<1>4. TypeOK'
  <2>1. profile' \in Profiles /\ tuneOutcome' \in {"interrupted", "done", "failed"}
    BY DEF EndTune, IInv, TypeOK
  <2> QED
    BY <1>1, <1>2, <1>3, <2>1, NewBackendFits DEF EndTune, IInv, TypeOK, BackendTypes
<1>5. (Placed /\ Kept)'
  BY <1>1, <1>2, <1>3, NewBackendFits DEF EndTune, IInv, TypeOK, Placed, Kept, Serving
<1>6. (Replacing /\ Budgeted)'
  BY <1>1, <1>2, <1>3, NewBackendFits DEF EndTune, IInv, TypeOK, Replacing, Budgeted
<1>7. Locked'
  BY <1>1, <1>2, <1>3, NewBackendFits DEF EndTune, IInv, TypeOK, Locked, Placed, Serving
<1>8. (Closing /\ Identified)'
BY <1>1, <1>2, <1>3, NewBackendFits DEF EndTune, IInv, TypeOK, Closing, Identified,
    Serving, Ready, Alive
<1> QED
  BY <1>4, <1>5, <1>6, <1>7, <1>8 DEF IInv

\* The tune is accounted for.
LEMMA CountTuneIInv == ASSUME IInv, CountTune PROVE IInv'
<1>1. TypeOK'
BY DEF IInv, CountTune, TypeOK, Replacing, Budgeted
<1>2. (Placed /\ Locked /\ Kept)'
BY DEF IInv, CountTune, Placed, Replacing, Locked, Kept, Serving
<1>3. (Replacing /\ Closing /\ Identified /\ Budgeted)'
BY DEF IInv, CountTune, Replacing, Closing, Identified, Budgeted, Serving, Ready, Alive
<1> QED
  BY <1>1, <1>2, <1>3 DEF IInv

\* The idle task is over.
LEMMA SettleIInv == ASSUME IInv, Settle PROVE IInv'
<1>1. TypeOK'
BY DEF IInv, Settle, TypeOK, Ready
<1>2. (Placed /\ Locked /\ Kept)'
BY DEF IInv, Settle, Placed, Locked, Kept, Serving
<1>3. (Replacing /\ Closing /\ Identified /\ Budgeted)'
BY DEF IInv, Settle, Replacing, Closing, Identified, Budgeted, Serving, Ready, Alive
<1> QED
  BY <1>1, <1>2, <1>3 DEF IInv

(* close() *)

\* close() begins.
LEMMA SetClosedIInv == ASSUME IInv, SetClosed PROVE IInv'
<1>1. TypeOK'
BY DEF IInv, SetClosed, TypeOK
<1>2. (Placed /\ Locked /\ Kept)'
BY DEF IInv, SetClosed, Placed, Locked, Kept, Serving
<1>3. (Replacing /\ Closing /\ Identified /\ Budgeted)'
BY DEF IInv, SetClosed, Replacing, Closing, Identified, Budgeted, Ready, Alive
<1> QED
  BY <1>1, <1>2, <1>3 DEF IInv

\* close() takes the backends it will stop.
LEMMA ReadBackendsIInv == ASSUME IInv, ReadBackends PROVE IInv'
<1>1. TypeOK'
BY DEF IInv, ReadBackends, TypeOK
<1>2. (Placed /\ Locked /\ Kept)'
BY DEF IInv, ReadBackends, Placed, Locked, Kept, Serving
<1>3. (Replacing /\ Closing /\ Identified /\ Budgeted)'
BY DEF IInv, ReadBackends, TypeOK, Replacing, Closing, Identified, Budgeted, Ready,
    Alive
<1> QED
  BY <1>1, <1>2, <1>3 DEF IInv

\* close() terminates a replacement that loads.
LEMMA TerminateStartingIInv == ASSUME IInv, TerminateStarting PROVE IInv'
<1>1. CASE UNCHANGED proc
  <2>1. TypeOK'
    BY <1>1 DEF TerminateStarting, IInv, TypeOK
  <2> QED
BY <1>1, <2>1 DEF TerminateStarting, IInv, Placed, Replacing, Locked, Kept, Closing,
      Identified, Budgeted, Serving, Ready, Alive
<1>2. CASE ~UNCHANGED proc
  <2>1. PICK b \in Backends : b = cStarting
    BY <1>2 DEF TerminateStarting, IInv, TypeOK
  <2>2. PICK state \in KillOutcomes(b) : proc' = [proc EXCEPT ![b] = state]
    BY <1>2, <2>1 DEF TerminateStarting
  <2>3. state \in {"none", "stuck", "exited"} /\ (~Alive(b) => state = proc[b])
    BY <2>2, KillOutcome DEF IInv, TypeOK, BackendTypes
  <2>4. TypeOK'
    BY <2>2, <2>3 DEF TerminateStarting, IInv, TypeOK
  <2> QED
BY <2>2, <2>3, <2>4 DEF TerminateStarting, IInv, TypeOK, Placed, Replacing, Locked,
      Kept, Closing, Identified, Budgeted, Serving, Ready, Alive
<1> QED
  BY <1>1, <1>2

\* close() stops the service's worker.
LEMMA CloseBackendIInv == ASSUME IInv, CloseBackend PROVE IInv'
<1>0. BackendTypes /\ cBackend \in Backends
  BY DEF IInv, TypeOK, BackendTypes, Replacing, Closing, CloseBackend
<1>1. PICK b \in Backends : b = cBackend
  BY <1>0
<1>2. ASSUME cpc = "close", NEW state, CloseBegin("closer", b, state),
             cpc' = IF CloseRaises(b, state) THEN "done" ELSE "close"
      PROVE  IInv'
  <2>1. TypeOK'
    BY <1>0, <1>1, <1>2, CloseBegins DEF CloseBackend, IInv, TypeOK, BackendTypes
  <2>2. (Placed /\ Kept)'
BY <1>0, <1>1, <1>2, CloseBegins DEF CloseBackend, IInv, TypeOK, BackendTypes,
      Quiets, Placed, Kept, Locked, Serving
  <2>3. Locked'
    <3>1. CASE CloseRaises(b, state)
BY <1>0, <1>1, <1>2, <3>1, CloseBegins DEF CloseBackend, IInv, TypeOK, BackendTypes,
        Quiets, Locked, Kept
    <3>2. CASE ~CloseRaises(b, state)
      <4>1. /\ lock[b] = "free" /\ lock' = [lock EXCEPT ![b] = "closer"]
            /\ UNCHANGED attached /\ (attached[b] => ~Serving(b)')
        BY <1>0, <1>1, <1>2, <3>2, CloseBegins
      <4>2. \A x \in Backends : Serving(x)' => Serving(x)
        BY <1>0, <1>1, <1>2, CloseBegins DEF Quiets
      <4> QED
        BY <1>0, <1>1, <1>2, <3>2, <4>1, <4>2 DEF CloseBackend, IInv, TypeOK, Locked
    <3> QED
      BY <3>1, <3>2
  <2>4. (Replacing /\ Budgeted)'
BY <1>0, <1>1, <1>2, CloseBegins DEF CloseBackend, IInv, TypeOK, BackendTypes,
      Quiets, Replacing, Budgeted
  <2>5. Closing'
BY <1>0, <1>1, <1>2, CloseBegins DEF CloseBackend, IInv, TypeOK, BackendTypes,
      Quiets, Placed, Closing, Replacing
  <2>6. Identified'
BY <1>0, <1>1, <1>2, CloseBegins DEF CloseBackend, IInv, TypeOK, BackendTypes,
      Quiets, Identified, Ready, Alive
  <2> QED
    BY <2>1, <2>2, <2>3, <2>4, <2>5, <2>6 DEF IInv
<1>3. ASSUME cpc = "close", CloseEnd("closer", b), cpc' = "join"
      PROVE  IInv'
  <2>1. TypeOK'
    BY <1>0, <1>1, <1>3, CloseFinishes DEF CloseBackend, IInv, TypeOK, BackendTypes
  <2>2. (Placed /\ Kept)'
BY <1>0, <1>1, <1>3, CloseFinishes DEF CloseBackend, IInv, TypeOK, BackendTypes,
      Quiets, Placed, Kept, Locked, Serving
  <2>3. Locked'
    <3>1. /\ lock[b] = "closer" /\ lock' = [lock EXCEPT ![b] = "free"] /\ proc' = proc
          /\ \A x \in Backends : attached'[x] => attached[x]
      BY <1>1, <1>3, CloseFinishes, <1>0 DEF Quiets
    <3> QED
      BY <1>1, <1>3, <3>1 DEF CloseBackend, IInv, TypeOK, Locked, Serving
  <2>4. (Replacing /\ Budgeted)'
BY <1>0, <1>1, <1>3, CloseFinishes DEF CloseBackend, IInv, TypeOK, BackendTypes,
      Quiets, Replacing, Budgeted
  <2>5. Closing'
    <3>1. Serving(backend)' => late \/ pc = "retire"
BY <1>0, <1>1, <1>3, CloseFinishes DEF CloseBackend, IInv, TypeOK, Placed, Kept,
        Locked, Closing, Serving
    <3>2. pc = "start" /\ idleBusy => late \/ ~usable'[fresh]
BY <1>0, <1>1, <1>3, CloseFinishes DEF CloseBackend, IInv, Replacing, Closing
    <3> QED
BY <1>0, <1>3, <3>1, <3>2 DEF CloseBackend, IInv, Closing
  <2>6. Identified'
BY <1>0, <1>1, <1>3, CloseFinishes DEF CloseBackend, IInv, TypeOK, BackendTypes,
      Quiets, Identified, Ready, Alive
  <2> QED
    BY <2>1, <2>2, <2>3, <2>4, <2>5, <2>6 DEF IInv
<1> QED
  BY <1>0, <1>1, <1>2, <1>3 DEF CloseBackend, Quiets

\* close() waits for the scheduler.
LEMMA JoinIInv == ASSUME IInv, Join PROVE IInv'
<1>1. TypeOK'
BY DEF IInv, Join, TypeOK
<1>2. (Placed /\ Locked /\ Kept)'
BY DEF IInv, Join, Placed, Locked, Kept, Serving
<1>3. (Replacing /\ Closing /\ Identified /\ Budgeted)'
BY DEF IInv, Join, Replacing, Closing, Identified, Budgeted, Serving, Ready, Alive
<1> QED
  BY <1>1, <1>2, <1>3 DEF IInv

(* The world *)

\* A request arrives.
LEMMA ArriveIInv == ASSUME IInv, Arrive PROVE IInv'
<1>1. TypeOK'
BY DEF IInv, Arrive, TypeOK
<1>2. (Placed /\ Locked /\ Kept)'
BY DEF IInv, Arrive, Placed, Locked, Kept, Serving
<1>3. (Replacing /\ Closing /\ Identified /\ Budgeted)'
BY DEF IInv, Arrive, Replacing, Closing, Identified, Budgeted, Ready, Alive
<1> QED
  BY <1>1, <1>2, <1>3 DEF IInv

\* A restart is forgotten.
LEMMA ExpireIInv == ASSUME IInv, Expire PROVE IInv'
<1>1. TypeOK'
BY DEF IInv, Expire, TypeOK
<1>2. (Placed /\ Locked /\ Kept)'
BY DEF IInv, Expire, Placed, Locked, Kept, Serving
<1>3. (Replacing /\ Closing /\ Identified /\ Budgeted)'
BY DEF IInv, Expire, TypeOK, Replacing, Closing, Identified, Budgeted, Serving,
    Ready, Alive
<1> QED
  BY <1>1, <1>2, <1>3 DEF IInv

\* The stored profile changes.
LEMMA RetuneIInv == ASSUME IInv, Retune PROVE IInv'
<1>1. TypeOK'
BY DEF IInv, Retune, TypeOK
<1>2. (Placed /\ Locked /\ Kept)'
BY DEF IInv, Retune, Placed, Locked, Kept, Serving
<1>3. (Replacing /\ Closing /\ Identified /\ Budgeted)'
BY DEF IInv, Retune, Replacing, Closing, Identified, Budgeted, Serving, Ready, Alive
<1> QED
  BY <1>1, <1>2, <1>3 DEF IInv

\* A worker dies by itself.
LEMMA DieIInv == ASSUME IInv, NEW b \in Backends, Die(b) PROVE IInv'
<1>1. TypeOK'
BY DEF IInv, Die, TypeOK
<1>2. (Placed /\ Locked /\ Kept)'
BY DEF IInv, Die, Placed, Locked, Kept, Serving
<1>3. (Replacing /\ Closing /\ Identified /\ Budgeted)'
BY DEF IInv, Die, Replacing, Closing, Identified, Budgeted, Serving, Ready, Alive
<1> QED
  BY <1>1, <1>2, <1>3 DEF IInv

\* A worker has loaded.
LEMMA LoadIInv == ASSUME IInv, NEW b \in Backends, Load(b) PROVE IInv'
<1>1. TypeOK'
BY DEF IInv, Load, TypeOK
<1>2. (Placed /\ Locked /\ Kept)'
BY DEF IInv, Load, Placed, Locked, Kept, Serving
<1>3. (Replacing /\ Closing /\ Identified /\ Budgeted)'
BY DEF IInv, Load, Replacing, Closing, Identified, Budgeted, Serving, Ready, Alive
<1> QED
  BY <1>1, <1>2, <1>3 DEF IInv

-----------------------------------------------------------------------------
(* The theorems *)

\* Every step keeps the invariant.
LEMMA NextIInv == ASSUME IInv, [Next]_vars PROVE IInv'
<1>1. ASSUME Scheduler /\ ~Recovery /\ ~Tuning PROVE IInv'
  BY <1>1, LeaveIInv, TurnIInv, TakeGroupIInv, NothingWaitsIInv, GroupEndsIInv,
     GroupFailsIInv, GroupClosesIInv, RetireWorkerIInv DEF Scheduler
<1>2. ASSUME Recovery PROVE IInv'
  BY <1>2, NoticeLossIInv, ReapIInv, JudgeIInv, BackoffIInv, MakeIInv, StartIInv,
     StartReadyIInv, StartFailsIInv, PublishIInv, DiscardIInv, FinishIInv DEF Recovery
<1>3. ASSUME Tuning PROVE IInv'
  BY <1>3, StartTuningIInv, ReleaseIInv, EndTuneIInv, CountTuneIInv, SettleIInv DEF Tuning
<1>4. ASSUME Closer PROVE IInv'
  BY <1>4, SetClosedIInv, ReadBackendsIInv, TerminateStartingIInv, CloseBackendIInv,
     JoinIInv DEF Closer
<1>5. ASSUME World PROVE IInv'
  BY <1>5, ArriveIInv, ExpireIInv, RetuneIInv, DieIInv, LoadIInv DEF World
<1>6. ASSUME UNCHANGED vars PROVE IInv'
  <2>1. TypeOK'
    BY <1>6 DEF IInv, TypeOK
  <2> QED
    BY <1>6, <2>1 DEF IInv, Placed, Replacing, Locked, Kept, Closing, Identified,
       Budgeted, Serving, Ready, Alive
<1>7. CASE Scheduler
  BY <1>1, <1>2, <1>3, <1>7
<1> QED
  BY <1>4, <1>5, <1>6, <1>7 DEF Next, Ended

\* The invariant holds of every behaviour.
THEOREM Invariance == Spec => []IInv
BY InitIInv, NextIInv, PTL DEF Spec

\* Every variable keeps its type; restarts and failed tunes stay within their limits.
THEOREM RecoveryTyped == Spec => []TypeOK
<1>1. IInv => TypeOK
  BY DEF IInv
<1> QED
  BY Invariance, <1>1, PTL

\* Two workers never load or serve at once (_recover: "two workers would share one
\* device"): the scheduler's place says which backend alone may serve.
THEOREM OneServingAlways == Spec => []OneServing
<1>1. IInv => OneServing
  <2> SUFFICES ASSUME IInv PROVE OneServing
    OBVIOUS
  <2>1. PICK s : \A b \in Backends : Serving(b) => b = s
    <3>1. pc \in {"top", "next", "group", "retire", "giveup", "reap", "judge", "backoff", "make",
                  "start", "load", "publish", "discard", "finish", "release", "tune",
                  "count", "settle", "exit"}
      BY DEF IInv, TypeOK
    <3> QED
      BY <3>1 DEF IInv, Placed
  <2> DEFINE S == {b \in Backends : proc[b] \in {"loading", "up"}}
  <2>2. S = {} \/ S = {s}
    BY <2>1 DEF Serving
  <2>3. Cardinality(S) = 0 \/ Cardinality(S) = 1
    BY <2>2, FS_EmptySet, FS_Singleton
  <2> QED
    BY <2>3 DEF OneServing
<1> QED
  BY Invariance, <1>1, PTL

\* A group runs only on a worker with the identity the service runs under: _recover
\* refuses a replacement that reports another, and only an idle tune changes both.
THEOREM IdentityServedAlways == Spec => []IdentityServed
<1>1. IInv => IdentityServed
  BY DEF IInv, Identified, IdentityServed
<1> QED
  BY Invariance, <1>1, PTL

\* When close() has returned and the scheduler has left, no worker of the service
\* runs, except one that outlived a kill, and one that the idle tuner made after
\* close() had read which worker to stop.
THEOREM ClosedCleanAlways == Spec => []ClosedClean
<1>1. IInv => ClosedClean
  <2> SUFFICES ASSUME IInv, pc = "exit", cpc = "done", NEW b \in Backends,
                      Alive(b), proc[b] # "stuck"
               PROVE  late /\ b = backend
    BY DEF ClosedClean
  <2>1. Serving(b)
    BY DEF Alive, Serving
  <2>2. b = backend
    BY <2>1 DEF IInv, Placed
  <2> QED
    BY <2>1, <2>2 DEF IInv, Closing
<1> QED
  BY Invariance, <1>1, PTL
=============================================================================
