------------------------- MODULE LiveLearning_proofs -------------------------
(***************************************************************************)
(* LiveLearning.tla is right for any number of policies, pairs, trials,      *)
(* windows, controls, saves and restarts.                                    *)
(*                                                                         *)
(* The properties are not inductive by themselves.  A rollback survives a    *)
(* crash because of everything that can still reach the file, so the         *)
(* invariant says of the state, of the file and of both snapshots of the     *)
(* writer that they are sound and without a policy that was rolled back      *)
(* (SoundAll, Gone), and what must hold while an operator still waits        *)
(* (Locked).  A triplet is in one piece because whatever could cut it takes    *)
(* it away: once a pause or a restart has come, none is open until another   *)
(* is begun (Whole).                                                        *)
(***************************************************************************)
EXTENDS LiveLearning, TLAPS

USE PolicyAssumption, BoundAssumption, NoneAssumption

-----------------------------------------------------------------------------
(* The inductive invariant. *)

SaverType == [job : Saved \cup {None}, writing : Saved \cup {None}, failed : BOOLEAN]
WatchType == [decisions : 0 .. Windows, failed : BOOLEAN, runs : 0 .. FailedWindows - 1]
SchedType == [at : {"rest", "group", "window"}, task : {"none", "qualify", "compare"}]
LockType == [by : {"operator", "close"}, off : Policies \cup {None}] \cup {None}

\* Of a state, a file and a snapshot: the verdicts agree with the counters.
Sound(mem) ==
  /\ mem \in Saved
  /\ mem.candidate # None =>
        /\ ~mem.candidate.mixed
        /\ mem.candidate.state = "qualifying" => mem.candidate.n < Pairs /\ mem.trials < MaxTrials
        /\ mem.candidate.state # "qualifying" => mem.candidate.windows = None
  /\ Comparing(mem) => mem.compare.results < Holdout

\* So of everything a restart may find.
SoundAll ==
  /\ Sound(m)
  /\ file # None => Sound(file)
  /\ saver.job # None => Sound(saver.job)
  /\ saver.writing # None => Sound(saver.writing)

\* A window that runs has its candidate or its comparison.
Windowed ==
  sched.at = "window" /\ handle = "open" =>
     /\ sched.task = "qualify" => Qualifying(m)
     /\ sched.task # "qualify" => Comparing(m) /\ m.compare.selected # None

\* since is the history of a running group.
Learned ==
  /\ sched.at # "group" => since = {}
  /\ pending => since = {}

\* A policy that was rolled back is nowhere a restart could find it.
Gone ==
  /\ m.active \notin gone
  /\ file # None => file.active \notin gone
  /\ saver.job # None => saver.job.active \notin gone
  /\ saver.writing # None => saver.writing.active \notin gone

\* Nothing is open that a pause or a restart came into.
Whole == cut /\ m.candidate # None => m.candidate.windows = None

\* While a rollback waits for the writer, what is written last is without it.
Locked ==
  lock # None /\ lock.off # None =>
     /\ m.active = None
     /\ saver.job # None => saver.job.active = None
     /\ saver.job = None /\ saver.writing # None => saver.writing.active = None
     /\ saver.job = None /\ saver.writing = None /\ ~saver.failed =>
           file # None /\ file.active = None

Flags ==
  /\ watch \in WatchType /\ mode \in {"active", "paused"}
  /\ handle \in {"open", "failed", "freed"} /\ sched \in SchedType /\ lock \in LockType
  /\ evaluating \in BOOLEAN /\ pending \in BOOLEAN /\ dirty \in BOOLEAN /\ cut \in BOOLEAN
  /\ asked \in Nat /\ gone \subseteq Policies

IInv ==
  /\ Flags /\ saver \in SaverType
  /\ SoundAll /\ Windowed /\ Learned /\ Gone /\ Whole /\ Locked

-----------------------------------------------------------------------------
(* Small facts. *)

\* The state of a first start (live_learning.py LiveLearning.__init__) is sound.
LEMMA FreshSound == Sound(Fresh) /\ Fresh.active = None
BY DEF Fresh, Sound, Saved, Comparing

\* The scheduler at rest is a state of the scheduler.
LEMMA RestType == Rest \in SchedType /\ Rest.at = "rest" /\ Rest.task = "none"
BY DEF Rest, SchedType

\* The writer with nothing to write is a state of the writer.
LEMMA NoSaveType ==
  NoSave \in SaverType /\ NoSave.job = None /\ NoSave.writing = None
BY DEF NoSave, SaverType

\* An empty window is a state of the watch.
LEMMA NoWatchType == NoWatch \in WatchType
BY DEF NoWatch, WatchType

\* A first start satisfies the invariant.
LEMMA InitIInv == Init => IInv
<1> SUFFICES ASSUME Init PROVE IInv
  OBVIOUS
<1>1. Flags /\ Whole
  BY RestType, NoWatchType DEF Init, Flags, Whole, LockType
<1>2. saver \in SaverType /\ SoundAll /\ Gone /\ Locked
  BY FreshSound, NoSaveType DEF Init, SoundAll, Gone, Locked
<1>3. Windowed /\ Learned
  BY RestType DEF Init, Windowed, Learned
<1> QED
  BY <1>1, <1>2, <1>3 DEF IInv

\* A step of the scheduler, which takes the lock: what has to be shown of it.
LEMMA FreeStep ==
  ASSUME IInv, lock = None, lock' = None, file' = file, asked' = asked, cut' \in BOOLEAN, Whole',
         Sound(m'), m'.active \notin gone', gone' \subseteq gone,
         saver' \in SaverType, saver'.writing = saver.writing,
         saver'.job = saver.job \/ saver'.job = m',
         watch' \in WatchType, mode' = mode, evaluating' = evaluating,
         handle' \in {"open", "failed"}, sched' \in SchedType, pending' \in BOOLEAN,
         dirty' \in BOOLEAN, Windowed', Learned'
  PROVE  IInv'
<1>1. Flags'
  BY DEF IInv, Flags, LockType
<1>2. SoundAll'
  BY DEF IInv, SoundAll
<1>3. Gone'
  BY DEF IInv, Gone
<1>4. Locked'
  BY DEF Locked
<1> QED
  BY <1>1, <1>2, <1>3, <1>4 DEF IInv

\* A save that nobody waits for may replace the snapshot that waits; the one
\* being written stays (live_learning.py save).
LEMMA SaveKeeps ==
  ASSUME NEW mem \in Saved, NEW changed \in BOOLEAN, saver \in SaverType,
         MaySave(mem, changed)
  PROVE  /\ dirty' \in BOOLEAN /\ saver' \in SaverType
         /\ saver'.writing = saver.writing
         /\ saver'.job = saver.job \/ saver'.job = mem
BY DEF MaySave, Queued, SaverType

-----------------------------------------------------------------------------
(* The scheduler. *)

\* A decision is remembered before any control can come while its group runs.
LEMMA DecideIInv ==
  ASSUME IInv, Decide
  PROVE  IInv'
<1>1. /\ lock = None /\ lock' = None /\ file' = file /\ asked' = asked /\ cut' = cut /\ m' = m
      /\ gone' = gone /\ saver' = saver /\ watch' = watch /\ mode' = mode
      /\ evaluating' = evaluating /\ handle' = "open" /\ dirty' = dirty
      /\ sched' = [Rest EXCEPT !.at = "group"] /\ since' = since /\ pending' \in BOOLEAN
      /\ since = {}
  BY DEF Decide, Free, IInv, Flags, Learned
<1>4. Whole' /\ cut' \in BOOLEAN
  BY <1>1 DEF IInv, Flags, Whole
<1>2. sched' \in SchedType /\ sched'.at = "group"
  BY <1>1, RestType DEF SchedType
<1>3. Windowed' /\ Learned'
  BY <1>1, <1>2 DEF Windowed, Learned
<1> QED
  BY <1>1, <1>2, <1>3, <1>4, FreeStep DEF IInv, Flags, SoundAll, Gone

\* What _watch_active leaves: the state as it was, or without its active policy.
LEMMA WatchedType ==
  ASSUME Sound(m), watch \in WatchType, NEW failed \in BOOLEAN, NEW enough \in BOOLEAN
  PROVE  /\ Watched(failed, enough)[1] \in {m, Withdraw(m)}
         /\ Watched(failed, enough)[2] \in WatchType
<1> DEFINE d == IF watch.decisions < Windows THEN watch.decisions + 1 ELSE Windows
           w == [decisions |-> d, failed |-> watch.failed \/ failed, runs |-> watch.runs]
<1>1. d \in 0 .. Windows
  BY DEF WatchType
<1>2. w \in WatchType
  BY <1>1 DEF WatchType
<1>3. w.runs + 1 < FailedWindows => [NoWatch EXCEPT !.runs = w.runs + 1] \in WatchType
  <2>1. w.runs \in Nat /\ FailedWindows \in Nat
    BY <1>2 DEF WatchType
  <2>2. w.runs + 1 < FailedWindows => w.runs + 1 \in 0 .. FailedWindows - 1
    BY <2>1
  <2> DEFINE n == w.runs + 1
  <2>3. n \in 0 .. FailedWindows - 1 => [NoWatch EXCEPT !.runs = n] \in WatchType
    <3> HIDE DEF n
    <3> QED
      BY NoWatchType DEF WatchType
  <2> QED
    BY <2>2, <2>3
<1>4. Watched(failed, enough) =
        IF m.active = None THEN <<m, watch>>
        ELSE IF w.decisions < Windows \/ ~enough THEN <<m, w>>
        ELSE IF ~w.failed THEN <<m, NoWatch>>
        ELSE IF w.runs + 1 < FailedWindows
        THEN <<m, [NoWatch EXCEPT !.runs = w.runs + 1]>>
        ELSE <<Withdraw(m), NoWatch>>
  BY DEF Watched
<1> HIDE DEF w
<1> QED
  BY <1>2, <1>3, <1>4, NoWatchType

\* A withdrawal leaves a sound state that serves the reference.
LEMMA WithdrawSound ==
  ASSUME NEW mem, Sound(mem)
  PROVE  /\ Sound(Withdraw(mem)) /\ Withdraw(mem).active = None
         /\ Withdraw(mem).candidate = mem.candidate
<1> DEFINE t == Withdraw(mem)
<1>1. mem \in Saved
  BY DEF Sound
<1>2. /\ t \in Saved /\ t.candidate = mem.candidate /\ t.compare = mem.compare
      /\ t.trials = mem.trials /\ t.active = None
  BY <1>1 DEF Withdraw, Saved
<1> HIDE DEF t
<1>3. Sound(t)
  BY <1>2 DEF Sound, Comparing
<1> QED
  BY <1>2, <1>3 DEF t

\* The end of a group at most withdraws the active policy.
LEMMA CompleteIInv ==
  ASSUME IInv, Complete
  PROVE  IInv'
<1>1. PICK failed \in BOOLEAN, enough \in BOOLEAN, accepted \in BOOLEAN :
         LET seen == Watched(failed, enough)
             changed == dirty \/ seen[1] # m
         IN /\ m' = seen[1] /\ watch' = seen[2]
            /\ IF ~pending \/ mode # "active"
               THEN dirty' = changed /\ UNCHANGED <<saver, spent>>
               ELSE MaySave(m', changed \/ accepted)
  BY DEF Complete
<1>2. /\ Sound(m) /\ watch \in WatchType /\ saver \in SaverType /\ dirty \in BOOLEAN
      /\ m.active \notin gone /\ None \notin gone
  BY DEF IInv, Flags, SoundAll, Gone
<1>3. m' \in {m, Withdraw(m)} /\ watch' \in WatchType
  BY <1>1, <1>2, WatchedType
<1>4. Sound(m') /\ m'.active \notin gone
  BY <1>2, <1>3, WithdrawSound
<1>5. /\ dirty' \in BOOLEAN /\ saver' \in SaverType /\ saver'.writing = saver.writing
      /\ saver'.job = saver.job \/ saver'.job = m'
  <2>1. CASE ~pending \/ mode # "active"
    BY <1>1, <1>2, <2>1
  <2>2. CASE ~(~pending \/ mode # "active")
    <3>1. PICK changed \in BOOLEAN : MaySave(m', changed)
      BY <1>1, <1>2, <2>2
    <3> QED
      BY <1>2, <1>4, <3>1, SaveKeeps DEF Sound
  <2> QED
    BY <2>1, <2>2
<1>6. /\ lock = None /\ lock' = None /\ file' = file /\ asked' = asked /\ cut' = cut
      /\ gone' = gone /\ mode' = mode /\ evaluating' = evaluating /\ handle' = "open"
      /\ sched' = Rest /\ since' = {} /\ pending' = FALSE
  BY DEF Complete, Free, IInv, Flags
<1>7. Windowed' /\ Learned'
  BY <1>6, RestType DEF Windowed, Learned
<1>8. Whole' /\ cut' \in BOOLEAN
  BY <1>2, <1>3, <1>6, WithdrawSound DEF IInv, Flags, Whole
<1> QED
  BY <1>3, <1>4, <1>5, <1>6, <1>7, <1>8, RestType, FreeStep

\* A new candidate has no triplet yet, and a trial is left for it.
LEMMA NewCandidatesSound ==
  ASSUME NEW mem, Sound(mem), NEW new \in NewCandidates(mem)
  PROVE  /\ Sound(new) /\ new.active = mem.active /\ new.compare = mem.compare
         /\ new.candidate # None => new.candidate.windows = None
<1>1. PICK p \in Policies \ (mem.known \cup {mem.active}) :
         new = [mem EXCEPT !.candidate = Candidate(p), !.known = @ \cup {p}]
  BY DEF NewCandidates
<1>2. mem.trials < MaxTrials
  <2>1. mem.trials \in 0 .. MaxTrials
    BY DEF Sound, Saved
  <2>2. ~(mem.trials >= MaxTrials \/ Qualifying(mem))
    BY DEF NewCandidates
  <2> QED
    BY <2>1, <2>2
<1>3. /\ Candidate(p) \in Candidates /\ ~Candidate(p).mixed
      /\ Candidate(p).state = "qualifying" /\ Candidate(p).n < Pairs
      /\ Candidate(p).windows = None
  BY DEF Candidate, Candidates
<1>4. /\ new \in Saved /\ new.candidate = Candidate(p) /\ new.compare = mem.compare
      /\ new.trials = mem.trials /\ new.active = mem.active
  BY <1>1, <1>3 DEF Sound, Saved
<1> QED
  BY <1>2, <1>3, <1>4 DEF Sound, Comparing

\* A comparison without traffic ends.
LEMMA NoTrafficSound ==
  ASSUME NEW mem, Sound(mem), NEW new \in NoTraffic(mem)
  PROVE  Sound(new) /\ new.active = mem.active /\ new.candidate = mem.candidate
<1> DEFINE c == [mem.compare EXCEPT !.state = "failed"]
<1>1. /\ Comparing(mem) /\ new = [mem EXCEPT !.compare = c]
  BY DEF NoTraffic, Sound, Saved
<1>2. mem.compare \in Comparisons
  BY <1>1 DEF Comparing, Sound, Saved
<1>3. c \in Comparisons /\ c.state = "failed"
  BY <1>2 DEF Comparisons
<1> HIDE DEF c
<1>4. /\ new \in Saved /\ new.candidate = mem.candidate /\ new.compare = c
      /\ new.trials = mem.trials /\ new.active = mem.active
  BY <1>1, <1>3 DEF Sound, Saved
<1> QED
  BY <1>3, <1>4 DEF Sound, Comparing

\* Idle work without a window freezes a candidate or ends a comparison.
LEMMA IdleIInv ==
  ASSUME IInv, Idle
  PROVE  IInv'
<1>1. PICK dreamed \in BOOLEAN, mem \in {m} \cup NewCandidates(m) :
         /\ m' \in {mem} \cup NoTraffic(mem)
         /\ MaySave(m', dirty \/ dreamed \/ mem # m)
  BY DEF Idle
<1>2. /\ Sound(m) /\ watch \in WatchType /\ saver \in SaverType /\ dirty \in BOOLEAN
      /\ m.active \notin gone /\ handle = "open" /\ lock = None /\ sched.at = "rest"
      /\ sched \in SchedType /\ pending \in BOOLEAN /\ Learned /\ Whole /\ cut \in BOOLEAN
  BY DEF IInv, Flags, SoundAll, Gone, Idle, Free
<1>3. Sound(mem) /\ mem.active = m.active
  BY <1>1, <1>2, NewCandidatesSound
<1>4. Sound(m') /\ m'.active = m.active
  BY <1>1, <1>3, NoTrafficSound
<1>5. /\ dirty' \in BOOLEAN /\ saver' \in SaverType /\ saver'.writing = saver.writing
      /\ saver'.job = saver.job \/ saver'.job = m'
  <2>1. (dirty \/ dreamed \/ mem # m) \in BOOLEAN /\ m' \in Saved
    BY <1>4 DEF Sound
  <2> QED
    BY <1>1, <1>2, <2>1, SaveKeeps
<1>6. /\ lock' = lock /\ file' = file /\ asked' = asked /\ cut' = cut /\ gone' = gone /\ mode' = mode
      /\ evaluating' = evaluating /\ handle' = handle /\ sched' = sched
      /\ since' = since /\ pending' = pending /\ watch' = watch
  BY DEF Idle
<1>7. Windowed' /\ Learned'
  BY <1>2, <1>6 DEF Windowed, Learned
<1>8. Whole'
  BY <1>1, <1>2, <1>3, <1>6, NewCandidatesSound, NoTrafficSound DEF Whole
<1> QED
  BY <1>2, <1>4, <1>5, <1>6, <1>7, <1>8, FreeStep

\* A window that a comparison prepared is of a chosen trace.
LEMMA PreparedType ==
  ASSUME NEW mem, Sound(mem), Comparing(mem)
  PROVE  LET c == Prepared(mem.compare)
         IN  /\ c \in Comparisons /\ c.selected # None /\ c.results < Holdout
             /\ c.state \notin {"done", "failed"}
<1>1. /\ mem.compare \in Comparisons /\ mem.compare.results < Holdout
      /\ mem.compare.state \notin {"done", "failed"}
  BY DEF Sound, Saved, Comparing
<1>2. Actions \in Nat /\ None \notin 0 .. Actions
  OBVIOUS
<1>3. CASE mem.compare.selected = None
  BY <1>1, <1>2, <1>3 DEF Prepared, Comparisons
<1>4. CASE mem.compare.selected # None
  BY <1>1, <1>2, <1>4 DEF Prepared, Comparisons
<1> QED
  BY <1>3, <1>4

\* A window starts only for a candidate or a comparison that is there, and the
\* first window of a triplet has no pause behind it.
LEMMA StartWindowIInv ==
  ASSUME IInv, StartWindow
  PROVE  IInv'
<1>1. PICK dreamed \in BOOLEAN, mem \in {m} \cup NewCandidates(m) :
         /\ dirty' = (dirty \/ dreamed \/ mem # m)
         /\ \/ /\ Comparing(mem)
               /\ m' = [mem EXCEPT !.compare = Prepared(@)]
               /\ sched' = [Rest EXCEPT !.at = "window", !.task = "compare"]
               /\ UNCHANGED cut
            \/ /\ ~Comparing(mem) /\ Qualifying(mem)
               /\ m' = IF mem.candidate.windows = None
                       THEN [mem EXCEPT !.candidate.windows = 0] ELSE mem
               /\ cut' = (cut /\ mem.candidate.windows # None)
               /\ sched' = [Rest EXCEPT !.at = "window", !.task = "qualify"]
  BY DEF StartWindow
<1>2. /\ Sound(m) /\ watch \in WatchType /\ saver \in SaverType /\ dirty \in BOOLEAN
      /\ m.active \notin gone /\ handle = "open" /\ lock = None /\ sched.at = "rest"
      /\ pending \in BOOLEAN /\ Learned /\ Whole /\ cut \in BOOLEAN
  BY DEF IInv, Flags, SoundAll, Gone, StartWindow, Free
<1>3. /\ Sound(mem) /\ mem.active = m.active
      /\ cut /\ mem.candidate # None => mem.candidate.windows = None
  BY <1>1, <1>2, NewCandidatesSound DEF Whole
<1>4. /\ lock' = lock /\ file' = file /\ asked' = asked /\ gone' = gone /\ mode' = mode
      /\ evaluating' = evaluating /\ handle' = handle /\ saver' = saver
      /\ since' = since /\ pending' = pending /\ watch' = watch
  BY DEF StartWindow
<1>5. CASE /\ Comparing(mem)
           /\ m' = [mem EXCEPT !.compare = Prepared(@)]
           /\ sched' = [Rest EXCEPT !.at = "window", !.task = "compare"]
           /\ UNCHANGED cut
  <2> DEFINE c == Prepared(mem.compare)
  <2>1. /\ c \in Comparisons /\ c.selected # None /\ c.results < Holdout
        /\ c.state \notin {"done", "failed"}
    BY <1>3, <1>5, PreparedType
  <2>2. m' = [mem EXCEPT !.compare = c]
    BY <1>5
  <2> HIDE DEF c
  <2>3. /\ m' \in Saved /\ m'.candidate = mem.candidate /\ m'.compare = c
        /\ m'.trials = mem.trials /\ m'.active = mem.active
    BY <1>3, <2>1, <2>2 DEF Sound, Saved
  <2>4. Sound(m') /\ Comparing(m') /\ m'.compare.selected # None
    BY <1>3, <2>1, <2>3 DEF Sound, Comparing
  <2>5. sched' \in SchedType /\ sched'.at = "window" /\ sched'.task = "compare"
    BY <1>5 DEF Rest, SchedType
  <2>6. Windowed' /\ Learned'
    BY <1>2, <1>4, <2>4, <2>5 DEF Windowed, Learned
  <2>7. Whole' /\ cut' \in BOOLEAN
    BY <1>2, <1>3, <1>5, <2>3 DEF Whole
  <2> QED
    <3>1. /\ dirty' \in BOOLEAN /\ saver' \in SaverType
          /\ saver'.writing = saver.writing /\ saver'.job = saver.job
          /\ m'.active \notin gone' /\ gone' \subseteq gone /\ watch' \in WatchType
          /\ handle' \in {"open", "failed"} /\ pending' \in BOOLEAN /\ lock' = None
      BY <1>1, <1>2, <1>3, <1>4, <1>5, <2>3
    <3> QED
      BY <1>2, <1>4, <2>4, <2>5, <2>6, <2>7, <3>1, FreeStep
<1>6. CASE /\ ~Comparing(mem) /\ Qualifying(mem)
           /\ m' = IF mem.candidate.windows = None
                   THEN [mem EXCEPT !.candidate.windows = 0] ELSE mem
           /\ cut' = (cut /\ mem.candidate.windows # None)
           /\ sched' = [Rest EXCEPT !.at = "window", !.task = "qualify"]
  <2> DEFINE c == [mem.candidate EXCEPT !.windows = 0]
  <2>1. Sound(m') /\ Qualifying(m') /\ m'.active = mem.active
    <3>1. CASE mem.candidate.windows # None
      BY <1>3, <1>6, <3>1
    <3>2. CASE mem.candidate.windows = None
      <4>1. mem.candidate \in Candidates
        BY <1>3, <1>6 DEF Sound, Saved, Qualifying
      <4>2. /\ c \in Candidates /\ c.state = mem.candidate.state
            /\ c.n = mem.candidate.n /\ c.mixed = mem.candidate.mixed
        BY <4>1 DEF Candidates
      <4>3. m' = [mem EXCEPT !.candidate = c]
        BY <1>3, <1>6, <3>2
      <4> HIDE DEF c
      <4>4. /\ m' \in Saved /\ m'.candidate = c /\ m'.compare = mem.compare
            /\ m'.trials = mem.trials /\ m'.active = mem.active
        BY <1>3, <4>2, <4>3 DEF Sound, Saved
      <4> QED
        BY <1>3, <1>6, <4>2, <4>4 DEF Sound, Comparing, Qualifying
    <3> QED
      BY <3>1, <3>2
  <2>2. sched' \in SchedType /\ sched'.at = "window" /\ sched'.task = "qualify"
    BY <1>6 DEF Rest, SchedType
  <2>3. Windowed' /\ Learned'
    BY <1>2, <1>4, <2>1, <2>2 DEF Windowed, Learned
  <2> QED
    <3>0. dirty' \in BOOLEAN
      BY <1>1
    <3>2. Whole' /\ cut' \in BOOLEAN
      BY <1>2, <1>3, <1>6 DEF Whole
    <3>1. /\ saver' \in SaverType
          /\ saver'.writing = saver.writing /\ saver'.job = saver.job
          /\ m'.active \notin gone' /\ gone' \subseteq gone /\ watch' \in WatchType
          /\ handle' \in {"open", "failed"} /\ pending' \in BOOLEAN /\ lock' = None
      BY <1>1, <1>2, <1>3, <1>4, <1>6, <2>1
    <3> QED
      BY <1>2, <1>4, <2>1, <2>2, <2>3, <3>0, <3>1, <3>2, FreeStep
<1> QED
  BY <1>1, <1>5, <1>6

\* The end of an idle step may save.
LEMMA IdleEndsKeeps ==
  ASSUME NEW mem \in Saved, NEW changed \in BOOLEAN, saver \in SaverType,
         IdleEnds(mem, changed)
  PROVE  /\ dirty' \in BOOLEAN /\ saver' \in SaverType
         /\ saver'.writing = saver.writing
         /\ saver'.job = saver.job \/ saver'.job = mem
         /\ sched' = Rest
BY SaveKeeps DEF IdleEnds

\* A window of the candidate: a verdict ends its trial, and a promotion ends the
\* rollback of its policy.
LEMMA QualifyStepIInv ==
  ASSUME IInv, QualifyStep
  PROVE  IInv'
<1>1. /\ Sound(m) /\ watch \in WatchType /\ saver \in SaverType /\ dirty \in BOOLEAN
      /\ m.active \notin gone /\ gone \subseteq Policies /\ handle = "open" /\ lock = None
      /\ pending \in BOOLEAN /\ Learned /\ Whole /\ cut \in BOOLEAN /\ Qualifying(m)
      /\ sched.at = "window"
  BY DEF IInv, Flags, SoundAll, Gone, Windowed, QualifyStep, Free
<1>2. /\ lock' = lock /\ file' = file /\ asked' = asked /\ cut' = cut /\ mode' = mode
      /\ evaluating' = evaluating /\ handle' = handle
      /\ since' = since /\ pending' = pending
  BY DEF QualifyStep
<1> DEFINE c == m.candidate
<1>3. /\ c \in Candidates /\ c.state = "qualifying" /\ c.n < Pairs /\ ~c.mixed
      /\ m.trials \in 0 .. MaxTrials /\ m.trials < MaxTrials
      /\ m.active \in Policies \cup {None} /\ m \in Saved
  BY <1>1 DEF Sound, Saved, Qualifying
\* What has to be shown of each outcome.
<1>4. ASSUME Sound(m'), watch' \in WatchType, gone' \subseteq gone, m'.active \notin gone',
             Whole',
             NEW changed \in BOOLEAN, IdleEnds(m', changed)
      PROVE  IInv'
  <2>1. m' \in Saved
    BY <1>4 DEF Sound
  <2>2. /\ dirty' \in BOOLEAN /\ saver' \in SaverType /\ saver'.writing = saver.writing
        /\ saver'.job = saver.job \/ saver'.job = m'
        /\ sched' = Rest
    BY <1>1, <1>4, <2>1, IdleEndsKeeps
  <2>3. Windowed' /\ Learned'
    BY <1>1, <1>2, <2>2, RestType DEF Windowed, Learned
  <2> QED
    BY <1>1, <1>2, <1>4, <2>2, <2>3, RestType, FreeStep
<1>5. CASE m' = m /\ watch' = watch /\ gone' = gone /\ IdleEnds(m, dirty)
  <2>1. Whole'
    BY <1>1, <1>2, <1>5 DEF Whole
  <2> QED
    BY <1>1, <1>4, <1>5, <2>1
<1>6. CASE /\ m' = [m EXCEPT !.candidate.windows = None]
           /\ watch' = watch /\ gone' = gone /\ IdleEnds(m', dirty)
  <2> DEFINE d == [c EXCEPT !.windows = None]
  <2>1. /\ d \in Candidates /\ d.state = "qualifying" /\ d.n < Pairs /\ ~d.mixed
        /\ d.windows = None
    BY <1>3 DEF Candidates
  <2>2. m' = [m EXCEPT !.candidate = d, !.trials = m.trials, !.active = m.active]
    BY <1>3, <1>6 DEF Saved
  <2> HIDE DEF d
  <2>3. /\ m' \in Saved /\ m'.candidate = d /\ m'.compare = m.compare
        /\ m'.trials = m.trials /\ m'.active = m.active
    BY <1>3, <2>1, <2>2 DEF Saved
  <2>4. Sound(m') /\ m'.active = m.active
    BY <1>1, <1>3, <2>1, <2>3 DEF Sound, Comparing
  <2>5. Whole'
    BY <2>1, <2>3 DEF Whole
  <2> QED
    BY <1>1, <1>4, <1>6, <2>4, <2>5
<1>7. CASE /\ m.candidate.windows \in {0, 1}
           /\ m' = [m EXCEPT !.candidate.windows = @ + 1]
           /\ watch' = watch /\ gone' = gone /\ IdleEnds(m', TRUE)
  <2> DEFINE w == c.windows + 1
             d == [c EXCEPT !.windows = w]
  <2>0. w \in 0 .. 2
    BY <1>7
  <2>2. m' = [m EXCEPT !.candidate = d, !.trials = m.trials, !.active = m.active]
    BY <1>3, <1>7 DEF Saved
  <2> HIDE DEF w
  <2>1. /\ d \in Candidates /\ d.state = "qualifying" /\ d.n < Pairs /\ ~d.mixed
    BY <1>3, <2>0 DEF Candidates
  <2> HIDE DEF d
  <2>3. /\ m' \in Saved /\ m'.candidate = d /\ m'.compare = m.compare
        /\ m'.trials = m.trials /\ m'.active = m.active
    BY <1>3, <2>1, <2>2 DEF Saved
  <2>4. Sound(m') /\ m'.active = m.active
    BY <1>1, <1>3, <2>1, <2>3 DEF Sound, Comparing
  <2> QED
    <3>1. IdleEnds(m', TRUE)
      BY <1>7
    <3>2. watch' \in WatchType /\ gone' = gone
      BY <1>1, <1>7
    <3>3. gone' \subseteq gone /\ m'.active \notin gone'
      BY <1>1, <2>4, <3>2
    <3>4. ~cut
      BY <1>1, <1>3, <1>7 DEF Whole
    <3>5. Whole'
      BY <1>2, <3>4 DEF Whole
    <3> QED
      BY <1>4, <2>4, <3>1, <3>2, <3>3, <3>5
<1>8. CASE /\ m.candidate.windows = 2
           /\ \E verdict \in Verdicts(m.candidate.n + 1) : CloseTriplet(verdict)
           /\ IdleEnds(m', TRUE)
  <2>1. PICK v \in Verdicts(c.n + 1) : CloseTriplet(v)
    BY <1>8
  <2>2. /\ v \in {"qualifying", "qualified", "rejected"}
        /\ v = "qualifying" => c.n + 1 < Pairs
        /\ c.n + 1 \in 0 .. Pairs
    BY <1>3 DEF Verdicts, Candidates
  <2> DEFINE n == c.n + 1
             d == [c EXCEPT !.n = n, !.state = v, !.windows = None, !.mixed = c.mixed \/ cut]
             t == IF v = "qualifying" THEN m.trials ELSE m.trials + 1
             a == IF v = "qualified" THEN d.policy ELSE m.active
  <2>3. /\ m' = [m EXCEPT !.candidate = d, !.trials = t, !.active = a]
        /\ watch' = IF v = "qualified" THEN NewWatch ELSE watch
        /\ gone' = IF v = "qualified" THEN gone \ {d.policy} ELSE gone
    BY <2>1 DEF CloseTriplet
  <2> HIDE DEF n
  <2>0. ~cut
    BY <1>1, <1>3, <1>8 DEF Whole
  <2>4. /\ d \in Candidates /\ ~d.mixed /\ d.state = v /\ d.n = n /\ d.windows = None
        /\ d.policy \in Policies
    BY <1>1, <1>3, <2>0, <2>2 DEF Candidates, n
  <2> HIDE DEF d
  <2>5. t \in 0 .. MaxTrials /\ a \in Policies \cup {None}
    BY <1>3, <2>4
  <2>6. d.state = "qualifying" => d.n < Pairs /\ t < MaxTrials
    BY <1>3, <2>2, <2>4 DEF n
  <2>7. Sound(m') /\ m'.active = a
    <3> HIDE DEF t, a
    <3>1. /\ m' \in Saved /\ m'.candidate = d /\ m'.compare = m.compare
          /\ m'.trials = t /\ m'.active = a
      BY <1>3, <2>3, <2>4, <2>5 DEF Saved
    <3> QED
      BY <1>1, <2>4, <2>6, <3>1 DEF Sound, Comparing
  <2>8. gone' \subseteq gone /\ m'.active \notin gone'
    BY <1>1, <2>3, <2>7
  <2>9. watch' \in WatchType
    BY <1>1, <2>3 DEF NewWatch, WatchType
  <2>10. Whole'
    BY <1>2, <2>0 DEF Whole
  <2> QED
    BY <1>4, <1>8, <2>7, <2>8, <2>9, <2>10
<1> QED
  BY <1>5, <1>6, <1>7, <1>8 DEF QualifyStep

\* The windows of a comparison stay within its traces, and a trace after the
\* last ends it.
LEMMA CompareSteppedType ==
  ASSUME NEW c \in Comparisons, c.selected # None, c.results < Holdout,
         c.state \notin {"done", "failed"}
  PROVE  /\ CompareStepped(c) \in Comparisons
         /\ CompareStepped(c).state # "done" => CompareStepped(c).results < Holdout
<1>1. /\ c.selected \in 0 .. Actions /\ c.results \in 0 .. Holdout /\ c.arms \in 0 .. Arms - 1
      /\ c.state \in {"waiting", "running", "failed", "done"}
      /\ Actions \in Nat /\ Arms \in Nat /\ Holdout \in Nat
  BY DEF Comparisons
<1> DEFINE s == c.selected + 1
           a == c.arms + 1
           r == c.results + 1
           st == IF r = Holdout THEN "done" ELSE c.state
<1>2. /\ c.selected < Actions => s \in 0 .. Actions
      /\ a < Arms => a \in 0 .. Arms - 1
      /\ r \in 0 .. Holdout /\ (r # Holdout => r < Holdout) /\ 0 \in 0 .. Arms - 1
  BY <1>1
<1>3. st \in {"waiting", "running", "failed", "done"} /\ (st # "done" => r < Holdout)
  BY <1>1, <1>2
<1>4. CompareStepped(c) =
        IF c.selected < Actions THEN [c EXCEPT !.selected = s]
        ELSE IF a < Arms THEN [c EXCEPT !.arms = a]
        ELSE [c EXCEPT !.arms = 0, !.results = r, !.state = st]
  BY DEF CompareStepped, Comparisons
<1> HIDE DEF s, a, r, st
<1>5. c.selected < Actions => [c EXCEPT !.selected = s] \in Comparisons
  BY <1>2 DEF Comparisons
<1>6. a < Arms => [c EXCEPT !.arms = a] \in Comparisons
  BY <1>2 DEF Comparisons
<1>7. /\ [c EXCEPT !.arms = 0, !.results = r, !.state = st] \in Comparisons
      /\ [c EXCEPT !.arms = 0, !.results = r, !.state = st].state = st
      /\ [c EXCEPT !.arms = 0, !.results = r, !.state = st].results = r
  BY <1>2, <1>3 DEF Comparisons
<1>8. [c EXCEPT !.selected = s].results = c.results /\ [c EXCEPT !.arms = a].results = c.results
  BY DEF Comparisons
<1> QED
  BY <1>3, <1>4, <1>5, <1>6, <1>7, <1>8

\* A window of a comparison.
LEMMA CompareStepIInv ==
  ASSUME IInv, CompareStep
  PROVE  IInv'
<1>1. /\ Sound(m) /\ watch \in WatchType /\ saver \in SaverType /\ dirty \in BOOLEAN
      /\ m.active \notin gone /\ handle = "open" /\ lock = None
      /\ pending \in BOOLEAN /\ Learned /\ Whole /\ cut \in BOOLEAN /\ Comparing(m)
      /\ m.compare.selected # None /\ sched.at = "window"
  BY DEF IInv, Flags, SoundAll, Gone, Windowed, CompareStep, Free
<1>2. /\ lock' = lock /\ file' = file /\ asked' = asked /\ cut' = cut /\ mode' = mode
      /\ evaluating' = evaluating /\ handle' = handle /\ watch' = watch
      /\ since' = since /\ pending' = pending /\ gone' = gone
  BY DEF CompareStep
<1> DEFINE c == m.compare
<1>3. /\ c \in Comparisons /\ c.results < Holdout /\ c.state \notin {"done", "failed"}
      /\ m \in Saved
  BY <1>1 DEF Sound, Saved, Comparing
<1>4. ASSUME NEW d \in Comparisons, d.state # "done" => d.results < Holdout,
             m' = [m EXCEPT !.compare = d],
             NEW changed \in BOOLEAN, IdleEnds(m', changed)
      PROVE  IInv'
  <2>1. /\ m' \in Saved /\ m'.candidate = m.candidate /\ m'.compare = d
        /\ m'.trials = m.trials /\ m'.active = m.active
    BY <1>3, <1>4 DEF Saved
  <2>2. Sound(m')
    BY <1>1, <1>4, <2>1 DEF Sound, Comparing
  <2>3. /\ dirty' \in BOOLEAN /\ saver' \in SaverType /\ saver'.writing = saver.writing
        /\ saver'.job = saver.job \/ saver'.job = m'
        /\ sched' = Rest
    BY <1>1, <1>4, <2>1, IdleEndsKeeps
  <2>4. Windowed' /\ Learned'
    BY <1>1, <1>2, <2>3, RestType DEF Windowed, Learned
  <2>5. Whole'
    BY <1>1, <1>2, <2>1 DEF Whole
  <2> QED
    BY <1>1, <1>2, <2>1, <2>2, <2>3, <2>4, <2>5, RestType, FreeStep
<1>5. CASE m' = [m EXCEPT !.compare.arms = 0] /\ IdleEnds(m', dirty)
  <2> DEFINE d == [c EXCEPT !.arms = 0]
  <2>1. d \in Comparisons /\ d.results = c.results
    BY <1>3 DEF Comparisons
  <2>2. m' = [m EXCEPT !.compare = d]
    BY <1>3, <1>5 DEF Saved
  <2> HIDE DEF d
  <2>3. IdleEnds(m', dirty)
    BY <1>5
  <2> QED
    BY <1>1, <1>3, <1>4, <2>1, <2>2, <2>3
<1>6. CASE /\ m' = [m EXCEPT !.compare = CompareStepped(@)]
           /\ IdleEnds(m', dirty \/ m.compare.selected = Actions)
  <2> DEFINE d == CompareStepped(c)
             ch == dirty \/ m.compare.selected = Actions
  <2>1. d \in Comparisons /\ (d.state # "done" => d.results < Holdout)
    BY <1>1, <1>3, CompareSteppedType
  <2>2. m' = [m EXCEPT !.compare = d]
    BY <1>6
  <2>3. IdleEnds(m', ch) /\ ch \in BOOLEAN
    BY <1>6
  <2> HIDE DEF d, ch
  <2> QED
    BY <1>4, <2>1, <2>2, <2>3
<1> QED
  BY <1>5, <1>6 DEF CompareStep

\* An error of the learner leaves what it held.
LEMMA LearnerFailsIInv ==
  ASSUME IInv, LearnerFails
  PROVE  IInv'
<1>1. /\ Sound(m) /\ watch \in WatchType /\ saver \in SaverType /\ dirty \in BOOLEAN
      /\ m.active \notin gone /\ lock = None /\ Whole /\ cut \in BOOLEAN
  BY DEF IInv, Flags, SoundAll, Gone, LearnerFails, Free
<1>2. /\ m' = m /\ lock' = lock /\ file' = file /\ asked' = asked /\ cut' = cut /\ mode' = mode
      /\ evaluating' = evaluating /\ handle' = "failed" /\ watch' = watch /\ saver' = saver
      /\ since' = {} /\ pending' = FALSE /\ gone' = gone /\ dirty' = dirty /\ sched' = Rest
  BY DEF LearnerFails
<1>3. Windowed' /\ Learned'
  BY <1>2, RestType DEF Windowed, Learned
<1>4. Sound(m') /\ m'.active \notin gone' /\ Whole'
  BY <1>1, <1>2 DEF Whole
<1> QED
  BY <1>1, <1>2, <1>3, <1>4, RestType, FreeStep

-----------------------------------------------------------------------------
(* The writer. *)

\* The writer takes the newest snapshot.
LEMMA WriterTakesIInv ==
  ASSUME IInv, WriterTakes
  PROVE  IInv'
<1>1. /\ saver \in SaverType /\ saver.job # None /\ saver.writing = None
      /\ saver' = [saver EXCEPT !.writing = saver.job, !.job = None]
      /\ UNCHANGED <<m, mode, evaluating, pending, watch, dirty, sched, lock, handle, file,
                      asked, since, cut, gone>>
  BY DEF IInv, WriterTakes
<1>2. /\ saver' \in SaverType /\ saver'.writing = saver.job /\ saver'.job = None
  BY <1>1 DEF SaverType
<1>3. Flags'
  BY <1>1 DEF IInv, Flags, LockType
<1>4. SoundAll' /\ Gone'
  BY <1>1, <1>2 DEF IInv, SoundAll, Gone
<1>5. Windowed' /\ Learned' /\ Whole'
  BY <1>1 DEF IInv, Windowed, Learned, Whole
<1>6. Locked'
  BY <1>1, <1>2 DEF IInv, Locked
<1> QED
  BY <1>2, <1>3, <1>4, <1>5, <1>6 DEF IInv

\* The writer replaces the file, or tells whoever waits that it could not: while
\* a rollback waits, what it writes last is without the policy.
LEMMA WriterWritesIInv ==
  ASSUME IInv, WriterWrites
  PROVE  IInv'
<1>1. PICK failed \in BOOLEAN :
          /\ saver' = [saver EXCEPT !.writing = None, !.failed = failed /\ lock # None]
          /\ file' = IF failed THEN file ELSE saver.writing
          /\ dirty' = (dirty \/ failed)
  BY DEF WriterWrites
<1>2. /\ saver \in SaverType /\ saver.writing # None
      /\ UNCHANGED <<m, mode, evaluating, pending, watch, sched, lock, handle, asked, since, cut,
                      gone>>
  BY DEF IInv, WriterWrites
<1> DEFINE f == failed /\ lock # None
<1>3. saver' = [saver EXCEPT !.writing = None, !.failed = f] /\ f \in BOOLEAN
      /\ (lock # None => f = failed)
  BY <1>1
<1> HIDE DEF f
<1>4. /\ saver' \in SaverType /\ saver'.job = saver.job /\ saver'.writing = None
      /\ saver'.failed = f
  BY <1>2, <1>3 DEF SaverType
<1>5. dirty' \in BOOLEAN
  BY <1>1 DEF IInv, Flags
<1>6. Flags'
  BY <1>2, <1>5 DEF IInv, Flags, LockType
<1>7. SoundAll' /\ Gone'
  BY <1>1, <1>2, <1>4 DEF IInv, SoundAll, Gone
<1>8. Windowed' /\ Learned' /\ Whole'
  BY <1>2 DEF IInv, Windowed, Learned, Whole
<1>9. Locked'
  <2>1. CASE failed
    BY <1>1, <1>2, <1>3, <1>4, <2>1 DEF IInv, Locked
  <2>2. CASE ~failed
    BY <1>1, <1>2, <1>3, <1>4, <2>2 DEF IInv, Locked
  <2> QED
    BY <2>1, <2>2
<1> QED
  BY <1>4, <1>6, <1>7, <1>8, <1>9 DEF IInv

-----------------------------------------------------------------------------
(* The operator. *)

\* What a control saves, and what it does not when the learner was freed.
Kept(what) ==
  \/ lock' = what /\ saver' = Queued(saver, m')
  \/ lock' = lock /\ saver' = saver

\* A control, let in when the learner was eligible (service.py learning_control;
\* live_learning.py control).
LEMMA ControlStep ==
  ASSUME asked \in Nat, NEW what, NEW mem, Control(what, mem)
  PROVE  /\ m' = mem /\ lock = None /\ dirty' \in BOOLEAN /\ asked' \in Nat /\ Kept(what)
         /\ sched' = sched /\ handle' = handle /\ file' = file
<1>1. asked' \in Nat
  BY DEF Control
<1>2. dirty' \in BOOLEAN /\ Kept(what)
  BY DEF Control, Kept
<1> QED
  BY <1>1, <1>2 DEF Control

\* A step that takes the lock and saves, or only changes what is in memory: what
\* has to be shown of it.
LEMMA LockedStep ==
  ASSUME IInv, lock = None, NEW off \in Policies \cup {None}, NEW by \in {"operator", "close"},
         Kept([by |-> by, off |-> off]), Sound(m'), m'.active \notin gone',
         off # None => m'.active = None, gone' \subseteq gone,
         dirty' \in BOOLEAN, watch' \in WatchType, mode' \in {"active", "paused"},
         evaluating' \in BOOLEAN, handle' = handle, sched' = sched, pending' \in BOOLEAN,
         asked' \in Nat, Windowed', Learned', cut' \in BOOLEAN, Whole', file' = file
  PROVE  IInv'
<1>1. CASE lock' = [by |-> by, off |-> off] /\ saver' = Queued(saver, m')
  <2>1. /\ saver' \in SaverType /\ saver'.job = m' /\ saver'.writing = saver.writing
        /\ m' # None
    BY <1>1 DEF IInv, Queued, SaverType, Sound
  <2>2. lock' \in LockType /\ lock'.off = off
    BY <1>1 DEF LockType
  <2>3. Flags'
    BY <2>2 DEF IInv, Flags
  <2>4. SoundAll' /\ Gone'
    BY <2>1 DEF IInv, SoundAll, Gone
  <2>5. Locked'
    BY <2>1, <2>2 DEF Locked
  <2> QED
    BY <2>1, <2>3, <2>4, <2>5 DEF IInv
<1>2. CASE lock' = lock /\ saver' = saver
  <2>1. Flags'
    BY <1>2 DEF IInv, Flags, LockType
  <2>2. saver' \in SaverType /\ SoundAll' /\ Gone'
    BY <1>2 DEF IInv, SoundAll, Gone
  <2>3. Locked'
    BY <1>2 DEF Locked
  <2> QED
    BY <2>1, <2>2, <2>3 DEF IInv
<1> QED
  BY <1>1, <1>2 DEF Kept

\* To be let in changes nothing that is kept.
LEMMA AskIInv ==
  ASSUME IInv, Ask
  PROVE  IInv'
<1>1. /\ asked \in Nat /\ asked' = asked + 1
      /\ UNCHANGED <<m, mode, evaluating, pending, watch, dirty, sched, saver, lock, handle, file,
                      since, cut, gone>>
  BY DEF IInv, Flags, Ask
<1>2. Flags'
  BY <1>1 DEF IInv, Flags, LockType
<1>3. saver' \in SaverType /\ SoundAll' /\ Gone' /\ Locked'
  BY <1>1 DEF IInv, SoundAll, Gone, Locked
<1>4. Windowed' /\ Learned' /\ Whole'
  BY <1>1 DEF IInv, Windowed, Learned, Whole
<1> QED
  BY <1>2, <1>3, <1>4 DEF IInv

\* What a pause leaves is sound, and no triplet is open in it.
LEMMA PausedSound ==
  ASSUME Sound(m)
  PROVE  /\ Sound(Paused(m)) /\ Paused(m).active = m.active /\ Paused(m).compare = m.compare
         /\ Paused(m).candidate # None => Paused(m).candidate.windows = None
         /\ Qualifying(m) => Qualifying(Paused(m))
<1>1. CASE m.candidate = None
  BY <1>1 DEF Paused
<1>2. CASE m.candidate # None
  <2> DEFINE d == [m.candidate EXCEPT !.windows = None]
             t == Paused(m)
  <2>1. m.candidate \in Candidates /\ m \in Saved
    BY <1>2 DEF Sound, Saved
  <2>2. /\ d \in Candidates /\ d.state = m.candidate.state /\ d.n = m.candidate.n
        /\ d.mixed = m.candidate.mixed /\ d.windows = None
    BY <2>1 DEF Candidates
  <2>3. t = [m EXCEPT !.candidate = d]
    BY <1>2, <2>1 DEF Paused, Saved
  <2> HIDE DEF d, t
  <2>4. /\ t \in Saved /\ t.candidate = d /\ t.compare = m.compare
        /\ t.trials = m.trials /\ t.active = m.active
    BY <2>1, <2>2, <2>3 DEF Saved
  <2>5. Sound(t)
    BY <1>2, <2>2, <2>4 DEF Sound, Comparing
  <2>6. Qualifying(m) => Qualifying(t)
    BY <2>2, <2>4 DEF Qualifying
  <2> QED
    BY <2>2, <2>4, <2>5, <2>6 DEF t
<1> QED
  BY <1>1, <1>2

\* A pause takes the open triplet away.
LEMMA PauseIInv ==
  ASSUME IInv, Pause
  PROVE  IInv'
<1>1. /\ Sound(m) /\ watch \in WatchType /\ saver \in SaverType /\ evaluating \in BOOLEAN
      /\ m.active \notin gone /\ Windowed /\ Learned
  BY DEF IInv, Flags, SoundAll, Gone
<1>2. /\ m' = Paused(m) /\ lock = None /\ Kept([by |-> "operator", off |-> None])
      /\ dirty' \in BOOLEAN /\ asked' \in Nat
      /\ sched' = sched /\ handle' = handle /\ file' = file /\ gone' = gone
      /\ mode' = "paused" /\ pending' = FALSE /\ since' = During("pause") /\ cut' = TRUE
      /\ evaluating' = evaluating /\ watch' = watch
  BY ControlStep DEF IInv, Flags, Pause
<1>3. /\ Sound(m') /\ m'.active = m.active /\ m'.compare = m.compare
      /\ m'.candidate # None => m'.candidate.windows = None
      /\ Qualifying(m) => Qualifying(m')
  BY <1>1, <1>2, PausedSound
<1>4. Windowed' /\ Learned' /\ Whole'
  BY <1>1, <1>2, <1>3 DEF Windowed, Learned, Whole, During, Comparing
<1>5. m'.active \notin gone'
  BY <1>1, <1>2, <1>3
<1> QED
  BY <1>1, <1>2, <1>3, <1>4, <1>5, LockedStep

\* A resume changes the mode alone.
LEMMA ResumeIInv ==
  ASSUME IInv, Resume
  PROVE  IInv'
<1>1. /\ Sound(m) /\ watch \in WatchType /\ evaluating \in BOOLEAN /\ pending \in BOOLEAN
      /\ m.active \notin gone /\ Windowed /\ Learned /\ Whole /\ cut \in BOOLEAN
  BY DEF IInv, Flags, SoundAll, Gone
<1>2. /\ m' = m /\ lock = None /\ Kept([by |-> "operator", off |-> None])
      /\ dirty' \in BOOLEAN /\ asked' \in Nat
      /\ sched' = sched /\ handle' = handle /\ file' = file /\ gone' = gone
      /\ mode' = "active" /\ pending' = pending /\ since' = since /\ cut' = cut
      /\ evaluating' = evaluating /\ watch' = watch
  BY ControlStep DEF IInv, Flags, Resume
<1>3. Windowed' /\ Learned' /\ Whole' /\ Sound(m') /\ m'.active \notin gone'
  BY <1>1, <1>2 DEF Windowed, Learned, Whole
<1> QED
  BY <1>1, <1>2, <1>3, LockedStep

\* A rollback withdraws the policy and waits for the writer.
LEMMA RollbackIInv ==
  ASSUME IInv, Rollback
  PROVE  IInv'
<1>1. /\ Sound(m) /\ watch \in WatchType /\ evaluating \in BOOLEAN /\ pending \in BOOLEAN
      /\ m.active \notin gone /\ Windowed /\ Learned /\ Whole /\ cut \in BOOLEAN
      /\ gone \subseteq Policies /\ mode \in {"active", "paused"}
  BY DEF IInv, Flags, SoundAll, Gone
<1>2. /\ m' = Withdraw(m) /\ lock = None /\ Kept([by |-> "operator", off |-> m.active])
      /\ dirty' \in BOOLEAN /\ asked' \in Nat
      /\ sched' = sched /\ handle' = handle /\ file' = file /\ gone' = gone
      /\ mode' = mode /\ pending' = pending /\ since' = since /\ cut' = cut
      /\ evaluating' = evaluating
      /\ watch' = IF m.active = None THEN watch ELSE NoWatch
  BY ControlStep DEF IInv, Flags, Rollback
<1>3. /\ Sound(m') /\ m'.active = None /\ m'.compare = m.compare /\ m'.candidate = m.candidate
      /\ m.active \in Policies \cup {None}
  BY <1>1, <1>2, WithdrawSound DEF Withdraw, Sound, Saved
<1>4. Windowed' /\ Learned' /\ Whole'
  BY <1>1, <1>2, <1>3 DEF Windowed, Learned, Whole, Comparing, Qualifying
<1>5. m'.active \notin gone' /\ watch' \in WatchType
  BY <1>1, <1>2, <1>3, NoWatchType
<1> QED
  BY <1>1, <1>2, <1>3, <1>4, <1>5, LockedStep

\* A comparison is started only when none runs.
LEMMA CompareIInv ==
  ASSUME IInv, Compare
  PROVE  IInv'
<1>1. /\ Sound(m) /\ watch \in WatchType /\ evaluating \in BOOLEAN /\ pending \in BOOLEAN
      /\ m.active \notin gone /\ Windowed /\ Learned /\ Whole /\ cut \in BOOLEAN
      /\ mode \in {"active", "paused"} /\ ~Comparing(m)
  BY DEF IInv, Flags, SoundAll, Gone, Compare
<1>2. /\ m' = [m EXCEPT !.compare = Comparison] /\ lock = None /\ Kept([by |-> "operator", off |-> None])
      /\ dirty' \in BOOLEAN /\ asked' \in Nat
      /\ sched' = sched /\ handle' = handle /\ file' = file /\ gone' = gone
      /\ mode' = mode /\ pending' = pending /\ since' = since /\ cut' = cut
      /\ evaluating' = evaluating /\ watch' = watch
  BY ControlStep DEF IInv, Flags, Compare
<1>3. Comparison \in Comparisons /\ Comparison.results = 0
  BY DEF Comparison, Comparisons
<1>4. /\ m' \in Saved /\ m'.compare = Comparison /\ m'.candidate = m.candidate
      /\ m'.trials = m.trials /\ m'.active = m.active
  BY <1>1, <1>2, <1>3 DEF Sound, Saved
<1>5. Sound(m')
  BY <1>1, <1>3, <1>4 DEF Sound
<1>6. Windowed' /\ Learned' /\ Whole' /\ m'.active \notin gone'
  BY <1>1, <1>2, <1>4 DEF Windowed, Learned, Whole, Qualifying
<1> QED
  BY <1>1, <1>2, <1>5, <1>6, LockedStep

\* A freeze keeps a table beside what is learned.
LEMMA FreezeIInv ==
  ASSUME IInv, Freeze
  PROVE  IInv'
<1>1. /\ Sound(m) /\ watch \in WatchType /\ evaluating \in BOOLEAN /\ pending \in BOOLEAN
      /\ m.active \notin gone /\ Windowed /\ Learned /\ Whole /\ cut \in BOOLEAN
      /\ mode \in {"active", "paused"}
  BY DEF IInv, Flags, SoundAll, Gone
<1>2. PICK p \in Policies :
         Control([by |-> "operator", off |-> None], [m EXCEPT !.frozen = p])
  BY DEF Freeze
<1>3. /\ lock = None /\ Kept([by |-> "operator", off |-> None])
      /\ dirty' \in BOOLEAN /\ asked' \in Nat
      /\ sched' = sched /\ handle' = handle /\ file' = file /\ gone' = gone
      /\ mode' = mode /\ pending' = pending /\ since' = since /\ cut' = cut
      /\ evaluating' = evaluating /\ watch' = watch
  BY <1>2, ControlStep DEF IInv, Flags, Freeze
<1>4. /\ m' \in Saved /\ m'.compare = m.compare /\ m'.candidate = m.candidate
      /\ m'.trials = m.trials /\ m'.active = m.active
  BY <1>1, <1>2 DEF Control, Sound, Saved
<1>5. Sound(m')
  BY <1>1, <1>4 DEF Sound, Comparing
<1>6. Windowed' /\ Learned' /\ Whole' /\ m'.active \notin gone'
  BY <1>1, <1>3, <1>4 DEF Windowed, Learned, Whole, Qualifying, Comparing
<1> QED
  BY <1>1, <1>3, <1>5, <1>6, LockedStep

\* An evaluation disowns the decision under way.
LEMMA EvaluateIInv ==
  ASSUME IInv, Evaluate
  PROVE  IInv'
<1>1. /\ Sound(m) /\ watch \in WatchType
      /\ m.active \notin gone /\ Windowed /\ Learned /\ Whole /\ cut \in BOOLEAN
      /\ mode \in {"active", "paused"}
  BY DEF IInv, Flags, SoundAll, Gone
<1>2. /\ m' = m /\ lock = None /\ Kept([by |-> "operator", off |-> None])
      /\ dirty' \in BOOLEAN /\ asked' \in Nat
      /\ sched' = sched /\ handle' = handle /\ file' = file /\ gone' = gone
      /\ mode' = mode /\ pending' = FALSE /\ since' = During("evaluate") /\ cut' = cut
      /\ evaluating' \in BOOLEAN /\ watch' = watch
  BY ControlStep DEF IInv, Flags, Evaluate, Disowned
<1>3. Windowed' /\ Learned' /\ Whole' /\ Sound(m') /\ m'.active \notin gone'
  BY <1>1, <1>2 DEF Windowed, Learned, Whole, During
<1> QED
  BY <1>1, <1>2, <1>3, LockedStep

\* An activation serves the frozen table, and ends its rollback.
LEMMA ActivateIInv ==
  ASSUME IInv, Activate
  PROVE  IInv'
<1>1. /\ Sound(m) /\ watch \in WatchType /\ evaluating \in BOOLEAN /\ pending \in BOOLEAN
      /\ Windowed /\ Learned /\ Whole /\ cut \in BOOLEAN /\ mode \in {"active", "paused"}
  BY DEF IInv, Flags, SoundAll
<1>2. /\ m' = [m EXCEPT !.active = m.frozen] /\ m.frozen # None
      /\ lock = None /\ Kept([by |-> "operator", off |-> None]) /\ gone' = gone \ {m.frozen}
      /\ dirty' \in BOOLEAN /\ asked' \in Nat
      /\ sched' = sched /\ handle' = handle /\ file' = file
      /\ mode' = mode /\ pending' = pending /\ since' = since /\ cut' = cut
      /\ evaluating' = evaluating /\ watch' = NewWatch
  BY ControlStep DEF IInv, Flags, Activate
<1>3. /\ m' \in Saved /\ m'.compare = m.compare /\ m'.candidate = m.candidate
      /\ m'.trials = m.trials /\ m'.active = m.frozen
  BY <1>1, <1>2 DEF Sound, Saved
<1>4. Sound(m')
  BY <1>1, <1>3 DEF Sound, Comparing
<1>5. watch' \in WatchType
  BY <1>1, <1>2 DEF NewWatch, WatchType
<1>6. Windowed' /\ Learned' /\ Whole' /\ m'.active \notin gone'
  BY <1>1, <1>2, <1>3 DEF Windowed, Learned, Whole, Qualifying, Comparing
<1>7. gone' \subseteq gone
  BY <1>2
<1> QED
  BY <1>1, <1>2, <1>4, <1>5, <1>6, <1>7, LockedStep

\* The operator is answered when the writer has ended: without an error the file
\* is without the policy that was rolled back.
LEMMA AnsweredIInv ==
  ASSUME IInv, Answered
  PROVE  IInv'
<1>1. /\ lock # None /\ saver.job = None /\ saver.writing = None /\ lock' = None
      /\ saver' = [saver EXCEPT !.failed = FALSE]
      /\ gone' = IF lock.off = None \/ saver.failed THEN gone ELSE gone \cup {lock.off}
      /\ UNCHANGED <<m, mode, evaluating, pending, watch, dirty, sched, handle, file, asked,
                      since, cut>>
  BY DEF Answered, WriterEnded
<1>2. /\ saver' \in SaverType /\ saver'.job = None /\ saver'.writing = None
  BY <1>1 DEF IInv, SaverType
<1>3. gone' \subseteq Policies
  BY <1>1 DEF IInv, Flags, LockType
<1>4. Flags'
  BY <1>1, <1>3 DEF IInv, Flags, LockType
<1>5. SoundAll'
  BY <1>1, <1>2 DEF IInv, SoundAll
<1>6. Gone'
  BY <1>1, <1>2, <1>3 DEF IInv, Gone, Locked
<1>7. Windowed' /\ Learned' /\ Whole' /\ Locked'
  BY <1>1 DEF IInv, Windowed, Learned, Whole, Locked
<1> QED
  BY <1>2, <1>4, <1>5, <1>6, <1>7 DEF IInv

-----------------------------------------------------------------------------
(* The end of a process, and the next one. *)

\* close takes the lock and saves; what is open stays as it is.
LEMMA CloseIInv ==
  ASSUME IInv, Close
  PROVE  IInv'
<1>1. /\ Sound(m) /\ watch \in WatchType /\ evaluating \in BOOLEAN /\ pending \in BOOLEAN
      /\ m.active \notin gone /\ Windowed /\ Learned /\ Whole /\ cut \in BOOLEAN
      /\ mode \in {"active", "paused"}
  BY DEF IInv, Flags, SoundAll, Gone
<1>2. /\ m' = m /\ lock = None /\ Kept([by |-> "close", off |-> None]) /\ dirty' = FALSE
      /\ asked' = asked /\ asked \in Nat
      /\ sched' = sched /\ handle' = handle /\ file' = file /\ gone' = gone
      /\ mode' = mode /\ pending' = pending /\ since' = since /\ cut' = cut
      /\ evaluating' = evaluating /\ watch' = watch
  BY DEF IInv, Flags, Close, Kept
<1>3. Windowed' /\ Learned' /\ Whole' /\ Sound(m') /\ m'.active \notin gone'
  BY <1>1, <1>2 DEF Windowed, Learned, Whole
<1> QED
  BY <1>1, <1>2, <1>3, LockedStep

\* After close the learner is freed and no step takes it up again.
LEMMA ClosedIInv ==
  ASSUME IInv, Closed
  PROVE  IInv'
<1>1. /\ lock' = None /\ handle' = "freed"
      /\ UNCHANGED <<m, mode, evaluating, pending, watch, dirty, sched, saver, file, asked,
                      since, cut, gone>>
  BY DEF Closed
<1>2. Flags'
  BY <1>1 DEF IInv, Flags, LockType
<1>3. saver' \in SaverType /\ SoundAll' /\ Gone'
  BY <1>1 DEF IInv, SoundAll, Gone
<1>4. Windowed' /\ Learned' /\ Whole' /\ Locked'
  BY <1>1 DEF IInv, Windowed, Learned, Whole, Locked
<1> QED
  BY <1>2, <1>3, <1>4 DEF IInv

\* What a start takes from the file is sound, and nothing in it is half done.
LEMMA RestoredSound ==
  ASSUME NEW saved, Sound(saved)
  PROVE  /\ Sound(Restored(saved)) /\ Restored(saved).active = saved.active
         /\ Restored(saved).candidate # None => Restored(saved).candidate.windows = None
<1> DEFINE c == IF Qualifying(saved) THEN [saved.candidate EXCEPT !.windows = None]
                ELSE saved.candidate
           k == IF saved.compare # None /\ saved.compare.state = "done" THEN saved.compare ELSE None
           t == Restored(saved)
<1>1. saved \in Saved
  BY DEF Sound
<1>2. /\ c \in Candidates \cup {None}
      /\ c # None => /\ c.windows = None /\ ~c.mixed
                     /\ c.state = "qualifying" => c.n < Pairs /\ saved.trials < MaxTrials
  <2>1. CASE Qualifying(saved)
    <3>1. saved.candidate \in Candidates /\ saved.candidate.state = "qualifying"
      BY <1>1, <2>1 DEF Qualifying, Saved
    <3>2. /\ c \in Candidates /\ c.windows = None /\ c.mixed = saved.candidate.mixed
          /\ c.n = saved.candidate.n
      BY <2>1, <3>1 DEF Candidates
    <3> QED
      BY <2>1, <3>1, <3>2 DEF Sound, Qualifying
  <2>2. CASE ~Qualifying(saved)
    BY <1>1, <2>2 DEF Sound, Saved, Qualifying
  <2> QED
    BY <2>1, <2>2
<1>3. k \in Comparisons \cup {None} /\ (k # None => k.state = "done")
  BY <1>1 DEF Saved
<1>4. t = [saved EXCEPT !.candidate = c, !.compare = k]
  BY <1>1 DEF Restored, Saved
<1> HIDE DEF c, k, t
<1>5. /\ t \in Saved /\ t.candidate = c /\ t.compare = k /\ t.trials = saved.trials
      /\ t.active = saved.active
  BY <1>1, <1>2, <1>3, <1>4 DEF Saved
<1>6. Sound(t)
  BY <1>2, <1>3, <1>5 DEF Sound, Comparing
<1> QED
  BY <1>2, <1>5, <1>6 DEF t

\* The next process restores the file, which is without a policy that the
\* operator was told is gone.
LEMMA RestartIInv ==
  ASSUME IInv, Restart
  PROVE  IInv'
<1>1. /\ m' = IF file = None THEN Fresh ELSE Restored(file)
      /\ mode' \in {"active", "paused"} /\ evaluating' = FALSE /\ pending' = FALSE
      /\ watch' = NoWatch /\ dirty' = FALSE /\ sched' = Rest /\ saver' = NoSave
      /\ lock' = None /\ handle' = "open" /\ asked' = 0 /\ since' = {} /\ cut' = TRUE
      /\ file' = file /\ gone' = gone
  BY DEF Restart
<1>2. /\ file # None => Sound(file) /\ file.active \notin gone
      /\ gone \subseteq Policies
  BY DEF IInv, SoundAll, Gone, Flags
<1>3. /\ Sound(m') /\ m'.active \notin gone
      /\ m'.candidate # None => m'.candidate.windows = None
  <2>1. CASE file = None
    BY <1>1, <1>2, <2>1, FreshSound DEF Fresh
  <2>2. CASE file # None
    BY <1>1, <1>2, <2>2, RestoredSound
  <2> QED
    BY <2>1, <2>2
<1>4. Whole'
  BY <1>3 DEF Whole
<1>5. Flags'
  BY <1>1, <1>2, RestType, NoWatchType DEF Flags, LockType
<1>6. saver' \in SaverType /\ SoundAll' /\ Gone'
  BY <1>1, <1>2, <1>3, NoSaveType DEF SoundAll, Gone
<1>7. Windowed' /\ Learned' /\ Locked'
  BY <1>1, RestType DEF Windowed, Learned, Locked
<1> QED
  BY <1>4, <1>5, <1>6, <1>7 DEF IInv

-----------------------------------------------------------------------------
(* The invariant and what follows from it. *)

\* Every step keeps the invariant.
LEMMA NextIInv ==
  ASSUME IInv, [Next]_vars
  PROVE  IInv'
<1>1. CASE Scheduler
  BY <1>1, DecideIInv, CompleteIInv, IdleIInv, StartWindowIInv, QualifyStepIInv,
     CompareStepIInv, LearnerFailsIInv DEF Scheduler
<1>2. CASE Writer
  BY <1>2, WriterTakesIInv, WriterWritesIInv DEF Writer
<1>3. CASE Operator
  BY <1>3, AskIInv, PauseIInv, ResumeIInv, RollbackIInv, CompareIInv, FreezeIInv, EvaluateIInv,
     ActivateIInv, AnsweredIInv DEF Operator
<1>4. CASE Close \/ Closed \/ Restart
  BY <1>4, CloseIInv, ClosedIInv, RestartIInv
<1>5. CASE UNCHANGED vars
  BY <1>5 DEF vars, IInv, Flags, SoundAll, Windowed, Learned, Gone, Whole, Locked, LockType,
     Comparing, Qualifying
<1> QED
  BY <1>1, <1>2, <1>3, <1>4, <1>5 DEF Next

\* Every reachable state satisfies the invariant.
LEMMA Invariance == Spec => []IInv
<1>1. Init => IInv
  BY InitIInv
<1>2. IInv /\ [Next]_vars => IInv'
  BY NextIInv
<1> QED
  BY <1>1, <1>2, PTL DEF Spec

\* The learner is well typed, its trials never exceed max_trials, and a window is
\* replayed only for a candidate or a comparison that is still there
\* (live_learning.py idle, _qualify_step, _compare_step).
THEOREM LearningTyped == Spec => []TypeOK
<1>1. IInv => TypeOK
  <2>1. ASSUME IInv PROVE TypeOK
    <3>1. m \in Saved /\ file \in Saved \cup {None}
      BY <2>1 DEF IInv, SoundAll, Sound
    <3>2. sched.at = "window" /\ handle = "open" =>
             (IF sched.task = "qualify" THEN Qualifying(m) ELSE Comparing(m))
      BY <2>1 DEF IInv, Windowed
    <3>3. {evaluating, pending, dirty, cut} \subseteq BOOLEAN
      BY <2>1 DEF IInv, Flags
    <3> QED
      BY <2>1, <3>1, <3>2, <3>3 DEF IInv, Flags, TypeOK, SaverType, WatchType, SchedType, LockType
  <2> QED
    BY <2>1
<1> QED
  BY <1>1, Invariance, PTL

\* No triplet that counts has a pause or a restart inside it, nor a pause and its
\* resume that came while one of its windows ran (live_learning.py _qualify_step,
\* control, _restore).
THEOREM TripletsOfOnePiece == Spec => []TripletsWhole
<1>1. IInv => TripletsWhole
  BY DEF IInv, SoundAll, Sound, TripletsWhole
<1> QED
  BY <1>1, Invariance, PTL

\* A rollback that was written before the operator was answered holds whatever
\* the writer, a failing write, a crash and the next start do after it
\* (live_learning.py save, _write_loop, control).
THEOREM RollbackIsKept == Spec => []RollbackKept
<1>1. IInv => RollbackKept
  BY DEF IInv, Gone, RollbackKept
<1> QED
  BY <1>1, Invariance, PTL

\* No group is learned from that was decided or served across a pause or an
\* evaluation (live_learning.py complete, control).
THEOREM LearningIsUndisturbed == Spec => []LearnsUndisturbed
<1>1. IInv => LearnsUndisturbed
  BY DEF IInv, Learned, LearnsUndisturbed
<1> QED
  BY <1>1, Invariance, PTL
=============================================================================
