---------------------------- MODULE Agent_proofs ----------------------------
(***************************************************************************)
(* Agent.tla is right for any policies, behaviours, looks, windows, plans,  *)
(* controls and restarts.                                                  *)
(*                                                                         *)
(* Nothing withdrawn serves again because of four things together.  The    *)
(* scheduler's comparison is the one it began with, or an audit of what was *)
(* withdrawn meanwhile (Working).  A planner runs only without a candidate, *)
(* and what served when it began was at most withdrawn since (Planned), so  *)
(* a plan never joins a schedule it decides like.  The counts name only     *)
(* who serves (Blamed).  And what serves, what the file would restore and   *)
(* the snapshots under way stand: a file half written while the operator    *)
(* withdraws is one that a restart sets aside (Settled).                    *)
(***************************************************************************)
EXTENDS Agent, SequenceTheorems, TLAPS

USE PolicyAssumption, BoundAssumption

-----------------------------------------------------------------------------
(* The inductive invariant. *)

Places == {"rest", "group", "look", "choose", "bind", "arm", "finish", "qualify", "audit",
           "plan", "popen", "save", "write"}
Tasks == {"none", "qualify", "audit"}
Bounds == {<<>>} \cup (Schedules \X BOOLEAN)
Exclusions == (SUBSET Behaviours) \X Schedules
Threads == [at : Places, by : Schedules, task : Tasks, a : Schedules, b : Schedules,
            bound : Bounds, snap : {None} \cup Exclusions \cup Saved]
Planners == [excluded : SUBSET Behaviours, incumbent : Schedules]
Groups == [ok : BOOLEAN, by : Schedules]
Counts == [errors : 0 .. MaxErrors, errBy : SUBSET Schedules, monitor : Seq(Groups),
           failed : SUBSET Schedules]
Closers == [at : {"open", "save", "wait", "write", "done"}, snap : Saved \cup {None}]

\* Of whatever is or may become the agent's memory: a candidate is not yet at its
\* last triplet, and an audit is of the schedule that serves.
Own(mem) ==
  /\ mem.candidate # None => mem.candidate.n < MaxTriplets
  /\ mem.audit # None => mem.audit.policy = mem.policy

Typed ==
  /\ m \in Saved /\ Own(m)
  /\ file \in Saved \cup {None} /\ (file # None => Own(file))
  /\ live \in Counts /\ Len(live.monitor) < MonitorWindow
  /\ planner \in Planners \cup {None}
  /\ sched \in Threads /\ closer \in Closers
  /\ operator \in {"free", "off"} /\ dirty \in BOOLEAN /\ outlived \in BOOLEAN
  /\ standing \subseteq Policies

\* What a thread carries while it writes or starts a planner.
Snapped ==
  /\ sched.at = "write" => sched.snap \in Saved /\ Own(sched.snap)
  /\ closer.at = "write" => closer.snap \in Saved /\ Own(closer.snap)
  /\ sched.at = "popen" => sched.snap \in Exclusions

\* The comparison a scheduler works on is still there, or it was an audit and the
\* schedule it audits was withdrawn.
Working ==
  /\ sched.at \in {"choose", "bind", "arm", "finish"} => sched.task # "none"
  /\ sched.at \in {"qualify", "audit"} => sched.task = sched.at
  /\ sched.task = "qualify" /\ sched.at \in {"choose", "bind", "arm", "finish", "qualify"} =>
        m.candidate # None
  /\ sched.task = "audit" /\ sched.at \in {"bind", "arm", "finish", "audit"} =>
        \/ m.audit = None /\ m.policy = None
        \/ m.audit # None /\ m.audit.n < MaxTriplets /\ sched.b = m.policy
  /\ sched.at = "arm" =>
        /\ sched.bound \in Schedules \X BOOLEAN
        /\ sched.task = "audit" => sched.bound[1] # None
        /\ Comparing # None => Len(Comparing.ran) < 3

Shaped == Typed /\ Snapped /\ Working

\* A planner runs, or is about to, only without a candidate, and since it was told
\* the serving schedule that was at most withdrawn.
Planned ==
  /\ planner # None => m.candidate = None /\ m.policy \in {planner.incumbent, None}
  /\ sched.at = "popen" =>
        planner = None /\ m.candidate = None /\ m.policy \in {sched.snap[2], None}

Suspects(counts) ==
  counts.errBy \cup counts.failed \cup {counts.monitor[i].by : i \in DOMAIN counts.monitor}

\* Who is counted against a serving schedule, or will be when the group ends.
Blamed ==
  m.policy # None =>
     /\ Suspects(live) \subseteq {m.policy, None}
     /\ sched.at = "group" => sched.by \in {m.policy, None}

Free(mem, p) == p \notin Digests(mem) /\ Behaviour[p] \notin WithdrawnBehaviours(mem)

\* Nothing withdrawn serves or is compared, and what is compared decides in
\* another way than what serves.
Clean(mem) ==
  /\ mem.policy # None => Free(mem, mem.policy)
  /\ mem.candidate # None => Free(mem, mem.candidate.policy)
  /\ mem.policy # None /\ mem.candidate # None =>
        Behaviour[mem.candidate.policy] # Behaviour[mem.policy]

Stands(mem) == Clean(mem) /\ (mem.policy # None => mem.policy \in standing)

\* The steps of a memory: it keeps its parts, or its serving schedule is withdrawn.
Stays(s, t) ==
  /\ t.policy = s.policy /\ t.candidate = s.candidate
  /\ t.audit = s.audit /\ t.withdrawn = s.withdrawn

Falls(s, t) ==
  /\ s.policy # None /\ t.policy = None
  /\ t.candidate = s.candidate /\ t.audit = None
  /\ \E signature \in {Behaviour[s.policy], None} :
        t.withdrawn = s.withdrawn \cup {<<s.policy, signature>>}

\* While a snapshot is written only the operator gets between.
Pending(snap) == Stands(snap) /\ (Stays(snap, m) \/ Falls(snap, m))

\* Unless a scheduler outlived close: what serves, what the file would restore and
\* what is being written stands.
Settled ==
  ~outlived =>
     /\ closer.at # "open" => sched.at = "rest"
     /\ Stands(m)
     /\ file # None /\ Proven(file) => Stands(file)
     /\ sched.at = "write" => Pending(sched.snap)
     /\ closer.at = "write" => Pending(closer.snap)

IInv == Shaped /\ Planned /\ Blamed /\ Settled

-----------------------------------------------------------------------------
(* What the operations do to a memory. *)

\* A comparison keeps its schedule, whatever happens to its triplets.
Keeps(c, d) == (d = None <=> c = None) /\ (c # None => d.policy = c.policy)

Compares(s, t) ==
  /\ t.policy = s.policy /\ t.withdrawn = s.withdrawn
  /\ Keeps(s.candidate, t.candidate) /\ Keeps(s.audit, t.audit)

Drops(s, t) ==
  /\ t.policy = s.policy /\ t.withdrawn = s.withdrawn
  /\ t.candidate = None /\ t.audit = s.audit

Promotes(s, t) ==
  /\ s.candidate # None /\ t.policy = s.candidate.policy
  /\ t.withdrawn = s.withdrawn /\ t.candidate = None

\* Up to three windows of a triplet are kept.
LEMMA RunsGrow ==
  ASSUME NEW c \in Comparisons, NEW s \in Schedules
  PROVE  /\ Len(c.ran) \in 0 .. 3
         /\ Len(c.ran) < 3 =>
               /\ Append(c.ran, s) \in UNION {[1 .. n -> Schedules] : n \in 0 .. 3}
               /\ Len(Append(c.ran, s)) = Len(c.ran) + 1
<1>1. PICK n \in 0 .. 3 : c.ran \in [1 .. n -> Schedules]
  BY DEF Comparisons
<1>2. c.ran \in Seq(Schedules) /\ Len(c.ran) = n
  BY <1>1
<1>3. /\ Append(c.ran, s) \in Seq(Schedules)
      /\ Len(Append(c.ran, s)) = n + 1
  BY <1>2
<1>4. Append(c.ran, s) \in [1 .. n + 1 -> Schedules]
  BY <1>3, LenProperties
<1>5. n < 3 => Append(c.ran, s) \in UNION {[1 .. k -> Schedules] : k \in 0 .. 3}
  <2> DEFINE r == Append(c.ran, s)
             k == n + 1
  <2>1. n < 3 => k \in 0 .. 3
    OBVIOUS
  <2>2. r \in [1 .. k -> Schedules]
    BY <1>4
  <2> HIDE DEF r, k
  <2> QED
    BY <2>1, <2>2 DEF r
<1> QED
  BY <1>2, <1>3, <1>5

LEMMA NewComparison ==
  ASSUME NEW p \in Policies
  PROVE  /\ Comparison(p) \in Comparisons /\ Comparison(p) # None
         /\ Comparison(p).policy = p /\ Comparison(p).n = 0 /\ Comparison(p).ran = <<>>
<1>1. <<>> \in [1 .. 0 -> Schedules]
  OBVIOUS
<1>2. <<>> \in UNION {[1 .. n -> Schedules] : n \in 0 .. 3}
  BY <1>1
<1>3. 0 \in 0 .. MaxTriplets /\ 0 \in 0 .. MaxPreemptions - 1
  OBVIOUS
<1>4. Comparison(p) \in Comparisons
  BY <1>2, <1>3 DEF Comparison, Comparisons
<1> QED
  BY <1>4 DEF Comparison

LEMMA DropTriplet ==
  ASSUME NEW c \in Comparisons
  PROVE  /\ Dropped(c) \in Comparisons /\ Keeps(c, Dropped(c))
         /\ Dropped(c).n = c.n /\ Len(Dropped(c).ran) = 0
<1>1. <<>> \in [1 .. 0 -> Schedules]
  OBVIOUS
<1>2. <<>> \in UNION {[1 .. n -> Schedules] : n \in 0 .. 3}
  BY <1>1
<1>3. Dropped(c) \in Comparisons /\ Dropped(c).ran = <<>> /\ Dropped(c).policy = c.policy
  BY <1>2 DEF Dropped, Comparisons
<1> QED
  BY <1>3 DEF Dropped, Comparisons, Keeps

LEMMA CountTriplet ==
  ASSUME NEW c \in Comparisons, c.n < MaxTriplets
  PROVE  /\ Counted(c) \in Comparisons /\ Keeps(c, Counted(c))
         /\ Counted(c).n = c.n + 1
<1>1. c.n + 1 \in 0 .. MaxTriplets
  BY DEF Comparisons
<1>2. Counted(c) \in Comparisons /\ Counted(c).policy = c.policy /\ Counted(c).n = c.n + 1
  BY <1>1 DEF Counted, Comparisons
<1> QED
  BY <1>2 DEF Keeps

LEMMA WithdrawMemory ==
  ASSUME NEW s \in Saved, Own(s), s.policy # None, NEW sig \in {Behaviour[s.policy], None}
  PROVE  /\ Withdraw(s, sig) \in Saved /\ Own(Withdraw(s, sig))
         /\ Falls(s, Withdraw(s, sig))
<1> DEFINE t == Withdraw(s, sig)
<1>1. <<s.policy, sig>> \in Policies \X (Behaviours \cup {None})
  BY DEF Saved, Schedules, Behaviours
<1>2. s.withdrawn \cup {<<s.policy, sig>>} \in SUBSET (Policies \X (Behaviours \cup {None}))
  BY <1>1 DEF Saved
<1>3. /\ t \in Saved /\ t.policy = None /\ t.audit = None /\ t.candidate = s.candidate
      /\ t.withdrawn = s.withdrawn \cup {<<s.policy, sig>>}
  BY <1>2 DEF Withdraw, Saved, Schedules
<1> QED
  BY <1>3 DEF Own, Falls

LEMMA ReopenedMemory ==
  ASSUME NEW s \in Saved, Own(s)
  PROVE  /\ Reopened(s) \in Saved /\ Own(Reopened(s)) /\ Stays(s, Reopened(s))
<1>1. [k \in Schedules |-> {}] \in [Schedules -> SUBSET Behaviours]
  OBVIOUS
<1>2. Reopened(s) \in Saved /\ Stays(s, Reopened(s))
  BY <1>1 DEF Reopened, Saved, Stays
<1> QED
  BY <1>2 DEF Own, Stays

LEMMA RejectMemory ==
  ASSUME NEW s \in Saved, s.candidate # None, s.audit # None => s.audit.policy = s.policy
  PROVE  /\ Reject(s) \in Saved /\ Own(Reject(s)) /\ Drops(s, Reject(s))
<1> DEFINE r == Reopened(s)
           b == Behaviour[r.candidate.policy]
<1>1. [k \in Schedules |-> {}] \in [Schedules -> SUBSET Behaviours]
  OBVIOUS
<1>2. r \in Saved /\ Stays(s, r)
  BY <1>1 DEF Reopened, Saved, Stays
<1>3. b \in Behaviours
  BY <1>2 DEF Saved, Stays, Comparisons, Behaviours
<1>4. r.rejected \in [Schedules -> SUBSET Behaviours] /\ r.policy \in Schedules
  BY <1>2 DEF Saved
<1> HIDE DEF b, r
<1>5. [r.rejected EXCEPT ![r.policy] = @ \cup {b}] \in [Schedules -> SUBSET Behaviours]
  BY <1>3, <1>4
<1>6. Reject(s) = [r EXCEPT !.rejected = [r.rejected EXCEPT ![r.policy] = @ \cup {b}],
                            !.candidate = None]
  <2>1. r \in Saved
    BY <1>2
  <2> QED
    BY <2>1 DEF Reject, Saved, r, b
<1>7. Reject(s) \in Saved /\ Drops(s, Reject(s))
  BY <1>2, <1>5, <1>6 DEF Saved, Stays, Drops
<1> QED
  BY <1>7 DEF Own, Drops

LEMMA PromoteMemory ==
  ASSUME NEW s \in Saved, s.candidate # None
  PROVE  /\ Promote(s) \in Saved /\ Own(Promote(s)) /\ Promotes(s, Promote(s))
<1> DEFINE p == s.candidate.policy
           c == Comparison(p)
<1>1. p \in Policies
  BY DEF Saved, Comparisons
<1>2. c \in Comparisons /\ c.policy = p
  BY <1>1, NewComparison
<1> HIDE DEF c
<1>3. Promote(s) = [s EXCEPT !.policy = p, !.candidate = None, !.audit = c]
  BY DEF Promote, c
<1>4. Promote(s) \in Saved
  BY <1>1, <1>2, <1>3 DEF Saved, Schedules
<1>5. /\ Promote(s).policy = p /\ Promote(s).candidate = None /\ Promote(s).audit = c
      /\ Promote(s).withdrawn = s.withdrawn
  BY <1>3 DEF Saved
<1> QED
  BY <1>2, <1>4, <1>5 DEF Own, Promotes

-----------------------------------------------------------------------------
(* The shape of the state. *)

LEMMA InitShaped == Init => Shaped
<1> SUFFICES ASSUME Init PROVE Shaped
  OBVIOUS
<1>1. /\ Fresh \in Saved /\ Fresh.candidate = None /\ Fresh.audit = None
  BY DEF Fresh, Saved, Schedules
<1>2. /\ <<>> \in Seq(Groups) /\ Len(<<>>) = 0
  BY EmptySeq
<1>3. NoCounts \in Counts /\ Len(NoCounts.monitor) < MonitorWindow
  BY <1>2 DEF NoCounts, Counts
<1>4. Rest \in Threads /\ Rest.at = "rest"
  BY DEF Rest, Threads, Places, Tasks, Bounds, Schedules
<1>5. [at |-> "open", snap |-> None] \in Closers
  BY DEF Closers
<1> QED
  BY <1>1, <1>3, <1>4, <1>5 DEF Init, Shaped, Typed, Snapped, Working, Own

\* What rests is well formed wherever it is put.
LEMMA ResetThread ==
  /\ Rest \in Threads /\ Rest.at = "rest"
  /\ ToPlan \in Threads /\ ToPlan.at = "plan"
  /\ NoCounts \in Counts /\ Len(NoCounts.monitor) = 0
<1>1. /\ <<>> \in Seq(Groups) /\ Len(<<>>) = 0
  BY EmptySeq
<1> QED
  BY <1>1 DEF Rest, ToPlan, Threads, Places, Tasks, Bounds, Schedules, NoCounts, Counts

LEMMA GroupStartShaped == Shaped /\ GroupStart => Shaped'
<1> SUFFICES ASSUME Shaped, GroupStart PROVE Shaped'
  OBVIOUS
<1> DEFINE by == IF m.paused THEN None ELSE m.policy
<1>1. by \in Schedules
  BY DEF Shaped, Typed, Saved, Schedules
<1>2. sched \in Threads /\ sched' = [sched EXCEPT !.at = "group", !.by = by]
  BY DEF GroupStart, Shaped, Typed
<1> HIDE DEF by
<1>3. sched' \in Threads /\ sched'.at = "group"
  BY <1>1, <1>2 DEF Threads, Places
<1> QED
  BY <1>3 DEF GroupStart, Shaped, Typed, Snapped, Working

LEMMA LookShaped == Shaped /\ Look => Shaped'
<1> SUFFICES ASSUME Shaped, Look PROVE Shaped'
  OBVIOUS
<1>1. /\ sched' \in Threads /\ sched'.at \in {"save", "plan", "choose"}
      /\ sched'.at = "choose" => sched'.task = IF m.candidate # None THEN "qualify" ELSE "audit"
  BY DEF Look, Shaped, Typed, Threads, Places, Tasks
<1> QED
  BY <1>1 DEF Look, Shaped, Typed, Snapped, Working

LEMMA ChooseShaped == Shaped /\ Choose => Shaped'
<1> SUFFICES ASSUME Shaped, Choose PROVE Shaped'
  OBVIOUS
<1>1. m \in Saved /\ sched \in Threads /\ sched.task \in {"qualify", "audit"}
  BY DEF Choose, Shaped, Typed, Working, Threads, Tasks
<1>2. CASE sched.task = "qualify"
  <2>1. m.candidate # None
    BY <1>2 DEF Choose, Shaped, Working
  <2>2. m.candidate.policy \in Schedules /\ m.policy \in Schedules
    BY <1>1, <2>1 DEF Saved, Comparisons, Schedules
  <2>3. sched' = [sched EXCEPT !.at = "bind", !.a = m.policy, !.b = m.candidate.policy]
    BY <1>2 DEF Choose
  <2>4. sched' \in Threads /\ sched'.at = "bind" /\ sched'.task = "qualify"
    BY <1>1, <1>2, <2>2, <2>3 DEF Threads, Places
  <2> QED
    BY <2>1, <2>4 DEF Choose, Shaped, Typed, Snapped, Working
<1>3. CASE sched.task = "audit"
  <2>1. CASE m.audit # None /\ m.audit.policy = m.policy /\ m.audit.n < MaxTriplets
    <3>1. sched' = [sched EXCEPT !.at = "bind", !.a = None, !.b = m.policy]
      BY <1>3, <2>1 DEF Choose
    <3>2. /\ sched' \in Threads /\ sched'.at = "bind" /\ sched'.task = "audit"
          /\ sched'.b = m.policy
      BY <1>1, <1>3, <3>1 DEF Threads, Places, Saved, Schedules
    <3> QED
      BY <2>1, <3>2 DEF Choose, Shaped, Typed, Snapped, Working
  <2>2. CASE ~(m.audit # None /\ m.audit.policy = m.policy /\ m.audit.n < MaxTriplets)
    <3>1. sched' = [sched EXCEPT !.at = "plan"]
      BY <1>3, <2>2 DEF Choose
    <3>2. sched' \in Threads /\ sched'.at = "plan"
      BY <1>1, <3>1 DEF Threads, Places
    <3> QED
      BY <3>2 DEF Choose, Shaped, Typed, Snapped, Working
  <2> QED
    BY <2>1, <2>2
<1> QED
  BY <1>1, <1>2, <1>3

LEMMA IdleSaveSkipShaped == Shaped /\ IdleSaveSkip => Shaped'
<1> SUFFICES ASSUME Shaped, IdleSaveSkip PROVE Shaped'
  OBVIOUS
<1> QED
  BY ResetThread DEF IdleSaveSkip, Shaped, Typed, Snapped, Working

LEMMA IdleSaveShaped == Shaped /\ IdleSave => Shaped'
<1> SUFFICES ASSUME Shaped, IdleSave PROVE Shaped'
  OBVIOUS
<1>1. sched' \in Threads /\ sched'.at = "write" /\ sched'.snap = m
  BY DEF IdleSave, Shaped, Typed, Threads, Places
<1> QED
  BY <1>1 DEF IdleSave, Shaped, Typed, Snapped, Working

LEMMA PopenShaped == Shaped /\ Popen => Shaped'
<1> SUFFICES ASSUME Shaped, Popen PROVE Shaped'
  OBVIOUS
<1>1. sched.snap[1] \in SUBSET Behaviours /\ sched.snap[2] \in Schedules
  BY DEF Popen, Shaped, Snapped, Exclusions
<1>2. planner' \in Planners \cup {None}
  BY <1>1 DEF Popen, Shaped, Typed, Planners
<1>3. sched' \in Threads /\ sched'.at = "save"
  BY ResetThread DEF Popen, Rest, Threads, Places
<1> QED
  BY <1>2, <1>3 DEF Popen, Shaped, Typed, Snapped, Working

LEMMA OffStopsShaped == Shaped /\ OffStops => Shaped'
<1> SUFFICES ASSUME Shaped, OffStops PROVE Shaped'
  OBVIOUS
<1> QED
  BY DEF OffStops, Shaped, Typed, Snapped, Working, Comparing

LEMMA CloseBeginShaped == Shaped /\ CloseBegin => Shaped'
<1> SUFFICES ASSUME Shaped, CloseBegin PROVE Shaped'
  OBVIOUS
<1>1. closer' \in Closers /\ closer'.at = "save"
  BY DEF CloseBegin, CloseStep, Closers
<1>2. outlived' \in BOOLEAN /\ dirty' \in BOOLEAN
  BY DEF CloseBegin, Shaped, Typed
<1> QED
  BY <1>1, <1>2 DEF CloseBegin, Shaped, Typed, Snapped, Working, Comparing

\* A thread that is ended rests, or goes on writing.
LEMMA EndedThread ==
  ASSUME NEW s \in Threads
  PROVE  /\ Ended(s) \in Threads
         /\ Ended(s) = s \/ Ended(s).at = "rest"
         /\ Ended(s).at \in {"rest", "write"}
BY ResetThread DEF Ended

LEMMA CloseLooksShaped == Shaped /\ CloseLooks => Shaped'
<1> SUFFICES ASSUME Shaped, CloseLooks PROVE Shaped'
  OBVIOUS
<1>1. closer' \in Closers /\ closer'.at # "write"
  BY DEF CloseLooks, CloseStep, Closers
<1>2. sched' = sched \/ sched' = Ended(sched)
  BY DEF CloseLooks
<1>3. /\ sched' \in Threads
      /\ sched' = sched \/ sched'.at = "rest"
  BY <1>2, EndedThread DEF Shaped, Typed
<1> QED
  BY <1>1, <1>3 DEF CloseLooks, Shaped, Typed, Snapped, Working, Comparing

LEMMA CloseSaveShaped == Shaped /\ CloseSave => Shaped'
<1> SUFFICES ASSUME Shaped, CloseSave PROVE Shaped'
  OBVIOUS
<1>1. closer' \in Closers /\ closer'.at = "write" /\ closer'.snap = m
  BY DEF CloseSave, Shaped, Typed, Closers
<1>2. m \in Saved /\ Own(m) /\ m' = m /\ sched' = sched
  BY DEF CloseSave, Shaped, Typed
<1>3. Typed'
  BY <1>1 DEF CloseSave, Shaped, Typed
<1>4. Snapped' /\ Working'
  BY <1>1, <1>2 DEF Shaped, Snapped, Working, Comparing
<1> QED
  BY <1>3, <1>4 DEF Shaped

\* What is written is the snapshot, but for the candidate and what was withdrawn.
LEMMA WriteMemory ==
  ASSUME NEW s \in Saved, Own(s), m \in Saved, Own(m), Write(s)
  PROVE  \/ UNCHANGED <<file, standing>>
         \/ /\ file' \in Saved /\ Own(file') /\ file'.policy = s.policy
            /\ standing' = standing \ Digests(file')
            /\ file'.withdrawn \in {s.withdrawn, m.withdrawn}
            /\ file'.candidate \in {s.candidate, m.candidate}
<1> SUFFICES ASSUME ~UNCHANGED <<file, standing>>
             PROVE  /\ file' \in Saved /\ Own(file') /\ file'.policy = s.policy
                    /\ standing' = standing \ Digests(file')
                    /\ file'.withdrawn \in {s.withdrawn, m.withdrawn}
                    /\ file'.candidate \in {s.candidate, m.candidate}
  OBVIOUS
<1>1. PICK w \in {s.withdrawn, m.withdrawn}, c \in CandidateWritten(s) :
         /\ file' = [s EXCEPT !.withdrawn = w, !.candidate = c]
         /\ standing' = standing \ Digests(file')
  BY DEF Write
<1>2. c \in {s.candidate, m.candidate}
  BY DEF CandidateWritten
<1>3. /\ file' \in Saved /\ file'.policy = s.policy /\ file'.audit = s.audit
      /\ file'.candidate = c /\ file'.withdrawn = w
  BY <1>1, <1>2 DEF Saved
<1> QED
  BY <1>1, <1>2, <1>3 DEF Own

LEMMA WriteShaped ==
  ASSUME NEW s \in Saved, Own(s), Shaped, Write(s)
  PROVE  /\ file' \in Saved \cup {None} /\ (file' # None => Own(file'))
         /\ standing' \subseteq Policies
<1>1. m \in Saved /\ Own(m)
  BY DEF Shaped, Typed
<1> QED
  BY <1>1, WriteMemory DEF Shaped, Typed

LEMMA IdleWriteShaped == Shaped /\ IdleWrite => Shaped'
<1> SUFFICES ASSUME Shaped, IdleWrite PROVE Shaped'
  OBVIOUS
<1>1. sched.snap \in Saved /\ Own(sched.snap)
  BY DEF IdleWrite, Shaped, Snapped
<1>2. Write(sched.snap)
  BY DEF IdleWrite
<1>3. /\ file' \in Saved \cup {None} /\ (file' # None => Own(file'))
      /\ standing' \subseteq Policies
  BY <1>1, <1>2, WriteShaped
<1> QED
  BY <1>3, ResetThread DEF IdleWrite, Shaped, Typed, Snapped, Working

LEMMA CloseWriteShaped == Shaped /\ CloseWrite => Shaped'
<1> SUFFICES ASSUME Shaped, CloseWrite PROVE Shaped'
  OBVIOUS
<1>1. closer.snap \in Saved /\ Own(closer.snap)
  BY DEF CloseWrite, CloseStep, Shaped, Snapped
<1>2. Write(closer.snap)
  BY DEF CloseWrite
<1>3. /\ file' \in Saved \cup {None} /\ (file' # None => Own(file'))
      /\ standing' \subseteq Policies
  BY <1>1, <1>2, WriteShaped
<1>4. closer' \in Closers /\ closer'.at = "done"
  BY DEF CloseWrite, CloseStep, Closers
<1>5. /\ sched' \in Threads
      /\ sched' = sched \/ sched'.at = "rest"
  BY EndedThread DEF CloseWrite, Shaped, Typed
<1> QED
  BY <1>3, <1>4, <1>5 DEF CloseWrite, Shaped, Typed, Snapped, Working, Comparing

\* A group that fails, or ends, withdraws at most what serves and counts only
\* against whom it was decided by.
LEMMA DecideFailsShaped ==
  Shaped /\ DecideFails =>
     /\ Shaped' /\ (Stays(m, m') \/ Falls(m, m'))
     /\ Suspects(live') \subseteq Suspects(live) \cup {sched.by}
<1> SUFFICES ASSUME Shaped, DecideFails
             PROVE  /\ Shaped' /\ (Stays(m, m') \/ Falls(m, m'))
                    /\ Suspects(live') \subseteq Suspects(live) \cup {sched.by}
  OBVIOUS
<1>1. /\ live \in Counts /\ live.errors < MaxErrors /\ sched.by \in Schedules
      /\ live' = [live EXCEPT !.errors = @ + 1, !.errBy = @ \cup {sched.by}]
  BY DEF DecideFails, Shaped, Typed, Threads
<1>2. /\ live' \in Counts /\ live'.monitor = live.monitor
      /\ live'.errBy = live.errBy \cup {sched.by} /\ live'.failed = live.failed
  <2> DEFINE e == live.errors + 1
             who == live.errBy \cup {sched.by}
  <2>1. e \in 0 .. MaxErrors /\ who \in SUBSET Schedules
    BY <1>1 DEF Counts
  <2>2. live' = [live EXCEPT !.errors = e, !.errBy = who]
    BY <1>1
  <2> HIDE DEF e
  <2>3. who = live.errBy \cup {sched.by}
    OBVIOUS
  <2> HIDE DEF who
  <2> QED
    BY <1>1, <2>1, <2>2, <2>3 DEF Counts
<1>3. PICK known \in BOOLEAN :
         m' = IF live'.errors < MaxErrors \/ m.policy = None THEN m
              ELSE Withdraw(m, IF known THEN Behaviour[m.policy] ELSE None)
  BY DEF DecideFails
<1>4. m \in Saved /\ Own(m)
  BY DEF Shaped, Typed
<1>5. m' \in Saved /\ Own(m') /\ (Stays(m, m') \/ Falls(m, m'))
  <2>1. CASE m' = m
    BY <1>4, <2>1 DEF Stays
  <2>2. CASE /\ m.policy # None
             /\ m' = Withdraw(m, IF known THEN Behaviour[m.policy] ELSE None)
    <3> DEFINE sig == IF known THEN Behaviour[m.policy] ELSE None
    <3>1. sig \in {Behaviour[m.policy], None}
      OBVIOUS
    <3>2. m' = Withdraw(m, sig)
      BY <2>2
    <3> HIDE DEF sig
    <3> QED
      BY <1>4, <2>2, <3>1, <3>2, WithdrawMemory
  <2> QED
    BY <1>3, <2>1, <2>2
<1>6. Suspects(live') \subseteq Suspects(live) \cup {sched.by}
  BY <1>2 DEF Suspects
<1>7. Len(live'.monitor) < MonitorWindow
  BY <1>2 DEF Shaped, Typed
<1>8. Typed'
  BY <1>2, <1>5, <1>7 DEF DecideFails, Shaped, Typed
<1>9. Snapped' /\ Working'
  BY DEF DecideFails, Shaped, Snapped, Working
<1> QED
  BY <1>5, <1>6, <1>8, <1>9 DEF Shaped

LEMMA WatchWindow ==
  ASSUME Shaped, NEW w \in Seq(Groups)
  PROVE  /\ Watch(w)[1] \in Saved /\ Own(Watch(w)[1])
         /\ Stays(m, Watch(w)[1]) \/ Falls(m, Watch(w)[1])
         /\ Watch(w)[2] \in Counts /\ Watch(w)[2].monitor = <<>>
         /\ Watch(w)[2].errBy = live.errBy
         /\ Watch(w)[2].failed \subseteq {w[i].by : i \in DOMAIN w}
<1> DEFINE who == {w[i].by : i \in DOMAIN w}
<1>1. who \in SUBSET Schedules
  <2>1. \A i \in DOMAIN w : w[i] \in Groups
    BY ElementOfSeq, LenProperties
  <2> QED
    BY <2>1 DEF Groups
<1>2. <<>> \in Seq(Groups) /\ Len(<<>>) = 0
  BY EmptySeq
<1>3. live \in Counts /\ m \in Saved /\ Own(m)
  BY DEF Shaped, Typed
<1> HIDE DEF who
<1> DEFINE cleared(f) == [live EXCEPT !.monitor = <<>>, !.failed = f]
<1>4. \A f \in SUBSET who :
         /\ cleared(f) \in Counts /\ cleared(f).monitor = <<>>
         /\ cleared(f).errBy = live.errBy /\ cleared(f).failed \subseteq who
  BY <1>1, <1>2, <1>3 DEF Counts
<1>5. m.policy # None => /\ Withdraw(m, Behaviour[m.policy]) \in Saved
                         /\ Own(Withdraw(m, Behaviour[m.policy]))
                         /\ Falls(m, Withdraw(m, Behaviour[m.policy]))
  <2> QED
    BY <1>3, WithdrawMemory
<1>6. Stays(m, m)
  BY DEF Stays
<1>7. {} \in SUBSET who /\ who \in SUBSET who
  OBVIOUS
<1>8. CASE \A i \in DOMAIN w : w[i].ok
  <2>1. Watch(w)[1] = m /\ Watch(w)[2] = cleared({})
    BY <1>8 DEF Watch
  <2> HIDE DEF cleared
  <2>2. Watch(w)[2].failed \subseteq who
    BY <1>4, <1>7, <2>1
  <2> QED
    BY <1>3, <1>4, <1>6, <1>7, <2>1, <2>2 DEF who
<1>9. CASE ~(\A i \in DOMAIN w : w[i].ok) /\ live.failed = {}
  <2>1. Watch(w)[1] = m /\ Watch(w)[2] = cleared(who)
    BY <1>9 DEF Watch, who
  <2> HIDE DEF cleared
  <2>2. Watch(w)[2].failed \subseteq who
    BY <1>4, <1>7, <2>1
  <2> QED
    BY <1>3, <1>4, <1>6, <1>7, <2>1, <2>2 DEF who
<1>10. CASE ~(\A i \in DOMAIN w : w[i].ok) /\ live.failed # {}
  <2> DEFINE t == IF m.policy = None THEN m ELSE Withdraw(m, Behaviour[m.policy])
  <2>1. Watch(w)[1] = t /\ Watch(w)[2] = cleared({})
    BY <1>10 DEF Watch
  <2>2. t \in Saved /\ Own(t) /\ (Stays(m, t) \/ Falls(m, t))
    BY <1>3, <1>5, <1>6
  <2> HIDE DEF t, cleared
  <2>3. Watch(w)[2].failed \subseteq who
    BY <1>4, <1>7, <2>1
  <2> QED
    BY <1>4, <1>7, <2>1, <2>2, <2>3 DEF who
<1> QED
  BY <1>8, <1>9, <1>10

LEMMA GroupEndShaped ==
  Shaped /\ GroupEnd =>
     /\ Shaped' /\ (Stays(m, m') \/ Falls(m, m'))
     /\ Suspects(live') \subseteq Suspects(live) \cup {sched.by}
<1> SUFFICES ASSUME Shaped, GroupEnd
             PROVE  /\ Shaped' /\ (Stays(m, m') \/ Falls(m, m'))
                    /\ Suspects(live') \subseteq Suspects(live) \cup {sched.by}
  OBVIOUS
<1> DEFINE after(ok) == IF m.policy # None /\ ~m.paused
                        THEN Append(live.monitor, [ok |-> ok, by |-> sched.by])
                        ELSE live.monitor
           seen(ok) == IF Len(after(ok)) < MonitorWindow
                       THEN <<m, [live EXCEPT !.monitor = after(ok)]>>
                       ELSE Watch(after(ok))
           lost == \E k \in Schedules : m.rejected[k] # {}
<1>1. PICK ok \in BOOLEAN, reopens \in BOOLEAN :
         /\ m' = [seen(ok)[1] EXCEPT !.stale = @ \/ (reopens /\ lost)]
         /\ live' = seen(ok)[2]
  BY DEF GroupEnd
<1> DEFINE w == after(ok)
           s == seen(ok)[1]
           l == seen(ok)[2]
<1>2. /\ live \in Counts /\ live.monitor \in Seq(Groups) /\ m \in Saved /\ Own(m)
      /\ [ok |-> ok, by |-> sched.by] \in Groups
  BY DEF Shaped, Typed, Counts, Groups, Threads
<1>3. /\ w \in Seq(Groups)
      /\ {w[i].by : i \in DOMAIN w}
            \subseteq {live.monitor[i].by : i \in DOMAIN live.monitor} \cup {sched.by}
  <2>1. CASE w = live.monitor
    BY <1>2, <2>1
  <2>2. CASE w = Append(live.monitor, [ok |-> ok, by |-> sched.by])
    <3> DEFINE g == [ok |-> ok, by |-> sched.by]
               q == live.monitor
    <3>1. g \in Groups /\ g.by = sched.by /\ q \in Seq(Groups) /\ w = Append(q, g)
      BY <1>2, <2>2
    <3> HIDE DEF g, q, w
    <3>2. /\ w \in Seq(Groups) /\ Len(w) = Len(q) + 1
          /\ DOMAIN w = 1 .. Len(q) + 1 /\ DOMAIN q = 1 .. Len(q)
      BY <3>1, LenProperties
    <3>3. \A i \in DOMAIN w : w[i] = IF i = Len(q) + 1 THEN g ELSE q[i]
      BY <3>1, <3>2
    <3>4. \A i \in DOMAIN w : i = Len(q) + 1 \/ i \in DOMAIN q
      BY <3>2, LenProperties, <3>1
    <3>5. {w[i].by : i \in DOMAIN w} \subseteq {q[i].by : i \in DOMAIN q} \cup {sched.by}
      BY <3>1, <3>3, <3>4
    <3> QED
      BY <3>2, <3>5 DEF q
  <2> QED
    BY <2>1, <2>2
<1>4. /\ s \in Saved /\ Own(s) /\ (Stays(m, s) \/ Falls(m, s))
      /\ l \in Counts /\ Len(l.monitor) < MonitorWindow
      /\ Suspects(l) \subseteq Suspects(live) \cup {sched.by}
  <2> HIDE DEF w
  <2>1. CASE Len(w) < MonitorWindow
    <3>1. s = m /\ l = [live EXCEPT !.monitor = w]
      BY <2>1 DEF w
    <3>2. /\ l \in Counts /\ l.monitor = w /\ l.errBy = live.errBy
          /\ l.failed = live.failed
      BY <1>2, <1>3, <3>1 DEF Counts
    <3> HIDE DEF s, l
    <3> QED
      BY <1>2, <1>3, <2>1, <3>1, <3>2 DEF Stays, Suspects
  <2>2. CASE ~(Len(w) < MonitorWindow)
    <3>1. s = Watch(w)[1] /\ l = Watch(w)[2]
      BY <2>2 DEF w
    <3> HIDE DEF s, l
    <3>2. /\ s \in Saved /\ Own(s) /\ (Stays(m, s) \/ Falls(m, s))
          /\ l \in Counts /\ l.monitor = <<>> /\ l.errBy = live.errBy
          /\ l.failed \subseteq {w[i].by : i \in DOMAIN w}
      BY <1>3, <3>1, WatchWindow
    <3>3. Len(l.monitor) = 0 /\ DOMAIN l.monitor = {}
      BY <3>2, EmptySeq
    <3> QED
      BY <1>3, <3>2, <3>3 DEF Suspects
  <2> QED
    BY <2>1, <2>2
<1>5. m' = [s EXCEPT !.stale = @ \/ (reopens /\ lost)] /\ live' = l
  BY <1>1
<1> HIDE DEF s, l, lost, w, after, seen
<1>6. (s.stale \/ (reopens /\ lost)) \in BOOLEAN
  OBVIOUS
<1>7. m' \in Saved /\ Stays(s, m')
  BY <1>4, <1>5, <1>6 DEF Saved, Stays
<1>8. Own(m') /\ (Stays(m, m') \/ Falls(m, m'))
  BY <1>4, <1>7 DEF Own, Stays, Falls
<1>9. sched' = Rest /\ dirty' = TRUE
  BY DEF GroupEnd
<1>10. Typed'
  BY <1>4, <1>5, <1>7, <1>8, <1>9, ResetThread DEF GroupEnd, Shaped, Typed
<1>11. Snapped' /\ Working'
  BY <1>9, ResetThread DEF GroupEnd, Shaped, Snapped, Working
<1> QED
  BY <1>4, <1>5, <1>8, <1>10, <1>11 DEF Shaped

\* What a plan may bring: nothing withdrawn, and nothing that decides like the
\* schedule the planner started with.
Proposed(s, t) ==
  /\ planner # None /\ t.policy = s.policy /\ t.withdrawn = s.withdrawn
  /\ t.candidate # None /\ Free(s, t.candidate.policy)
  /\ \/ planner.incumbent = None
     \/ Behaviour[t.candidate.policy] # Behaviour[planner.incumbent]

LEMMA IdleCollectShaped ==
  Shaped /\ IdleCollect =>
     /\ Shaped'
     /\ Stays(m, m') \/ (planner' = None /\ Proposed(m, m'))
<1> SUFFICES ASSUME Shaped, IdleCollect
             PROVE  /\ Shaped'
                    /\ Stays(m, m') \/ (planner' = None /\ Proposed(m, m'))
  OBVIOUS
<1>1. m \in Saved /\ Own(m) /\ Stays(m, m)
  BY DEF Shaped, Typed, Stays
<1>2. /\ m' \in Saved /\ Own(m')
      /\ Stays(m, m') \/ (planner' = None /\ Proposed(m, m'))
  <2>1. CASE m' = m
    BY <1>1, <2>1
  <2>2. CASE /\ planner # None /\ planner' = None
             /\ \E plan \in Proposals(planner.excluded, planner.incumbent) \cup {None} :
                   LET r == Reopened(m)
                   IN m' = IF plan # None /\ Accepted(r, plan)
                           THEN [r EXCEPT !.candidate = Comparison(plan)] ELSE r
    <3> DEFINE r == Reopened(m)
    <3>1. PICK plan \in Proposals(planner.excluded, planner.incumbent) \cup {None} :
             m' = IF plan # None /\ Accepted(r, plan)
                  THEN [r EXCEPT !.candidate = Comparison(plan)] ELSE r
      BY <2>2
    <3>2. r \in Saved /\ Own(r) /\ Stays(m, r)
      BY <1>1, ReopenedMemory
    <3> HIDE DEF r
    <3>3. CASE m' = r
      BY <3>2, <3>3
    <3>4. CASE plan # None /\ Accepted(r, plan)
      <4> DEFINE c == Comparison(plan)
      <4>1. /\ plan \in Policies
            /\ planner.incumbent = None \/ Behaviour[plan] # Behaviour[planner.incumbent]
        BY <3>4 DEF Proposals
      <4>2. c \in Comparisons /\ c # None /\ c.policy = plan /\ c.n = 0
        BY <4>1, NewComparison
      <4>3. m' = [r EXCEPT !.candidate = c]
        BY <3>1, <3>4
      <4> HIDE DEF c
      <4>4. /\ m' \in Saved /\ m'.candidate = c /\ m'.policy = r.policy
            /\ m'.withdrawn = r.withdrawn /\ m'.audit = r.audit
        BY <3>2, <4>2, <4>3 DEF Saved
      <4>5. Own(m')
        BY <3>2, <4>2, <4>4 DEF Own
      <4>6. Free(r, plan)
        BY <3>4 DEF Accepted, Excluded, Free
      <4>7. Free(m, plan)
        BY <3>2, <4>6 DEF Free, Digests, WithdrawnBehaviours, Stays
      <4> QED
        BY <2>2, <3>2, <4>1, <4>2, <4>4, <4>5, <4>7 DEF Proposed, Stays
    <3> QED
      BY <3>1, <3>3, <3>4
  <2> QED
    BY <2>1, <2>2 DEF IdleCollect
<1>3. sched' \in Threads /\ sched'.at = "look"
  BY DEF IdleCollect, Shaped, Typed, Threads, Places
<1>4. planner' \in Planners \cup {None} /\ dirty' \in BOOLEAN
  BY DEF IdleCollect, Shaped, Typed
<1>5. Typed'
  BY <1>2, <1>3, <1>4 DEF IdleCollect, Shaped, Typed
<1>6. Snapped' /\ Working'
  BY <1>3 DEF IdleCollect, Shaped, Snapped, Working
<1> QED
  BY <1>2, <1>5, <1>6 DEF Shaped

\* A comparison is put back with other triplets.
LEMMA ComparedMemory ==
  ASSUME Shaped, sched.at \in {"bind", "arm", "finish"}, Comparing # None,
         NEW c \in Comparisons, Keeps(Comparing, c), c.n = Comparing.n
  PROVE  /\ Comparing \in Comparisons /\ c # None
         /\ Compared(m, c) \in Saved /\ Own(Compared(m, c)) /\ Compares(m, Compared(m, c))
         /\ sched.task = "qualify" => Compared(m, c).candidate = c
         /\ sched.task = "audit" => /\ Compared(m, c).audit = c /\ c.n < MaxTriplets
                                    /\ sched.b = m.policy
<1>1. m \in Saved /\ Own(m) /\ c # None
  BY DEF Shaped, Typed
<1>2. sched.task \in {"qualify", "audit"}
  BY DEF Shaped, Typed, Working, Threads, Tasks
<1>3. CASE sched.task = "qualify"
  <2>1. Comparing = m.candidate /\ Compared(m, c) = [m EXCEPT !.candidate = c]
    BY <1>3 DEF Comparing, Compared
  <2> DEFINE t == Compared(m, c)
  <2>2. /\ t \in Saved /\ t.candidate = c /\ t.policy = m.policy
        /\ t.withdrawn = m.withdrawn /\ t.audit = m.audit
    BY <1>1, <2>1 DEF Saved
  <2> HIDE DEF t
  <2> QED
    BY <1>1, <1>3, <2>1, <2>2 DEF Own, Compares, Keeps, Saved, t
<1>4. CASE sched.task = "audit"
  <2>1. Comparing = m.audit /\ Compared(m, c) = [m EXCEPT !.audit = c]
    BY <1>4 DEF Comparing, Compared
  <2> DEFINE t == Compared(m, c)
  <2>2. /\ t \in Saved /\ t.candidate = m.candidate /\ t.policy = m.policy
        /\ t.withdrawn = m.withdrawn /\ t.audit = c
    BY <1>1, <2>1 DEF Saved
  <2>3. m.audit.n < MaxTriplets /\ sched.b = m.policy
    BY <1>4, <2>1 DEF Shaped, Working
  <2> HIDE DEF t
  <2> QED
    BY <1>1, <1>4, <2>1, <2>2, <2>3 DEF Own, Compares, Keeps, Saved, t
<1> QED
  BY <1>2, <1>3, <1>4

LEMMA BindShaped == Shaped /\ Bind => Shaped' /\ Compares(m, m')
<1> SUFFICES ASSUME Shaped, Bind PROVE Shaped' /\ Compares(m, m')
  OBVIOUS
<1>1. m \in Saved /\ Own(m) /\ sched \in Threads /\ sched.at = "bind" /\ sched.task # "none"
  BY DEF Bind, Shaped, Typed, Working
<1>2. CASE sched' = ToPlan /\ UNCHANGED m
  <2>1. Typed'
    BY <1>2, ResetThread DEF Bind, Shaped, Typed
  <2>2. Snapped' /\ Working'
    BY <1>2, ResetThread DEF Bind, Shaped, Snapped, Working
  <2> QED
    BY <1>2, <2>1, <2>2 DEF Shaped, Compares, Keeps
<1>3. CASE /\ Comparing # None
           /\ LET c == Rebound(Comparing)
              IN /\ m' = Compared(m, c)
                 /\ sched' = [sched EXCEPT !.bound = Bound,
                                           !.at = IF Len(c.ran) = 3 THEN "finish" ELSE "arm"]
  <2> DEFINE c == Rebound(Comparing)
             at == IF Len(c.ran) = 3 THEN "finish" ELSE "arm"
  <2>1. Comparing \in Comparisons
    BY <1>1, <1>3 DEF Comparing, Saved
  <2>2. c \in Comparisons /\ Keeps(Comparing, c) /\ c.n = Comparing.n
    <3>1. c = Comparing \/ c = Dropped(Comparing)
      BY DEF Rebound, Dropped
    <3>2. Dropped(Comparing) \in Comparisons /\ Keeps(Comparing, Dropped(Comparing))
          /\ Dropped(Comparing).n = Comparing.n
      BY <2>1, DropTriplet
    <3> HIDE DEF c
    <3> QED
      BY <2>1, <3>1, <3>2 DEF Keeps
  <2>3. Len(c.ran) \in 0 .. 3
    <3> HIDE DEF c
    <3> QED
      BY <2>2, RunsGrow DEF Schedules
  <2>4. m' = Compared(m, c) /\ sched' = [sched EXCEPT !.bound = Bound, !.at = at]
    BY <1>3
  <2> HIDE DEF c
  <2>5. /\ c # None /\ m' \in Saved /\ Own(m') /\ Compares(m, m')
        /\ sched.task = "qualify" => m'.candidate = c
        /\ sched.task = "audit" => m'.audit = c /\ c.n < MaxTriplets /\ sched.b = m.policy
    BY <1>1, <1>3, <2>2, <2>4, ComparedMemory
  <2>6. at \in {"finish", "arm"} /\ (at = "arm" => Len(c.ran) < 3)
    <3> DEFINE k == Len(c.ran)
    <3>1. k \in 0 .. 3
      BY <2>3
    <3>2. at = IF k = 3 THEN "finish" ELSE "arm"
      OBVIOUS
    <3> HIDE DEF k, at
    <3>3. at \in {"finish", "arm"} /\ (at = "arm" => k < 3)
      BY <3>1, <3>2
    <3> QED
      BY <3>3 DEF k
  <2>7. Bound \in Schedules \X BOOLEAN /\ Bound[1] = m.policy
    BY <1>1 DEF Bound, Saved
  <2> HIDE DEF at
  <2>8. /\ sched' \in Threads /\ sched'.at = at /\ sched'.task = sched.task
        /\ sched'.bound = Bound /\ sched'.b = sched.b
    BY <1>1, <2>4, <2>6, <2>7 DEF Threads, Places, Bounds
  <2>9. Typed'
    BY <2>5, <2>8 DEF Bind, Shaped, Typed
  <2>10. Comparing' = c
    BY <1>1, <2>5, <2>8 DEF Comparing, Threads, Tasks
  <2>11. sched.task = "audit" => m.policy # None
    <3>1. sched.task = "audit" => Comparing = m.audit
      BY DEF Comparing
    <3> QED
      BY <1>1, <1>3, <2>1, <3>1 DEF Own, Comparisons
  <2>12. m'.policy = m.policy
    BY <2>5 DEF Compares
  <2>13. Working'
    BY <1>1, <2>5, <2>6, <2>7, <2>8, <2>10, <2>11, <2>12 DEF Working
  <2>14. Snapped'
    BY <2>6, <2>8 DEF Bind, Shaped, Snapped
  <2> QED
    BY <2>5, <2>9, <2>13, <2>14 DEF Shaped
<1> QED
  BY <1>2, <1>3 DEF Bind

LEMMA ArmShaped == Shaped /\ Arm => Shaped' /\ Compares(m, m')
<1> SUFFICES ASSUME Shaped, Arm PROVE Shaped' /\ Compares(m, m')
  OBVIOUS
<1>1. /\ m \in Saved /\ Own(m) /\ sched \in Threads /\ sched.at = "arm"
      /\ sched.task \in {"qualify", "audit"}
  BY DEF Arm, Shaped, Typed, Working, Threads, Tasks
<1>2. Comparing # None => Comparing \in Comparisons
  BY <1>1 DEF Comparing, Saved
<1>3. Bound = sched.bound => Comparing # None
  <2>1. Bound = sched.bound => m.policy = sched.bound[1]
    BY DEF Bound
  <2>2. sched.task = "qualify" => m.candidate # None
    BY <1>1 DEF Shaped, Working
  <2>3. sched.task = "audit" => /\ sched.bound[1] # None
                                /\ m.policy = None \/ m.audit # None
    BY <1>1 DEF Shaped, Working
  <2> QED
    BY <1>1, <2>1, <2>2, <2>3 DEF Comparing
<1>4. ASSUME sched' = ToPlan, m' \in Saved, Own(m'), dirty' \in BOOLEAN
      PROVE  Shaped'
  <2>1. Typed'
    BY <1>4, ResetThread DEF Arm, Shaped, Typed
  <2>2. Snapped' /\ Working'
    BY <1>4, ResetThread DEF Arm, Shaped, Snapped, Working
  <2> QED
    BY <2>1, <2>2 DEF Shaped
<1>5. Compares(m, m)
  BY DEF Compares, Keeps
<1>6. CASE /\ Bound # sched.bound
           /\ m' = IF Comparing = None THEN m ELSE Compared(m, Dropped(Comparing))
           /\ sched' = ToPlan /\ UNCHANGED dirty
  <2>1. m' \in Saved /\ Own(m') /\ Compares(m, m')
    <3>1. CASE Comparing = None
      BY <1>1, <1>5, <1>6, <3>1
    <3>2. CASE Comparing # None
      BY <1>1, <1>2, <1>6, <3>2, DropTriplet, ComparedMemory
    <3> QED
      BY <3>1, <3>2
  <2>2. dirty' \in BOOLEAN
    BY <1>6 DEF Shaped, Typed
  <2> QED
    BY <1>4, <1>6, <2>1, <2>2
<1>7. CASE /\ Bound = sched.bound
           /\ m' = Compared(m, IF Comparing.preempted + 1 < MaxPreemptions
                               THEN [Comparing EXCEPT !.preempted = @ + 1]
                               ELSE Dropped([Comparing EXCEPT !.preempted = 0]))
           /\ sched' = ToPlan /\ dirty' = TRUE
  <2> DEFINE c == Comparing
             more == [c EXCEPT !.preempted = @ + 1]
             zero == [c EXCEPT !.preempted = 0]
             d == IF c.preempted + 1 < MaxPreemptions THEN more ELSE Dropped(zero)
  <2>1. c \in Comparisons /\ c # None
    BY <1>2, <1>3, <1>7
  <2> HIDE DEF c
  <2>2. /\ zero \in Comparisons /\ zero.policy = c.policy /\ zero.n = c.n
    BY <2>1 DEF Comparisons
  <2>3. c.preempted + 1 < MaxPreemptions =>
           more \in Comparisons /\ more.policy = c.policy /\ more.n = c.n
    <3> DEFINE e == c.preempted + 1
    <3>1. e < MaxPreemptions => e \in 0 .. MaxPreemptions - 1
      BY <2>1 DEF Comparisons
    <3>2. more = [c EXCEPT !.preempted = e]
      BY <2>1 DEF Comparisons
    <3> HIDE DEF e, more
    <3>3. e < MaxPreemptions => more \in Comparisons /\ more.policy = c.policy /\ more.n = c.n
      BY <2>1, <3>1, <3>2 DEF Comparisons
    <3> QED
      BY <3>3 DEF e
  <2> HIDE DEF more, zero
  <2>4. /\ Dropped(zero) \in Comparisons /\ Dropped(zero).policy = c.policy
        /\ Dropped(zero).n = c.n
    BY <2>2, DropTriplet DEF Keeps
  <2>5. d \in Comparisons /\ Keeps(c, d) /\ d.n = c.n
    BY <2>1, <2>3, <2>4 DEF Keeps
  <2>6. m' = Compared(m, d)
    BY <1>7 DEF c, more, zero
  <2> HIDE DEF d
  <2>7. m' \in Saved /\ Own(m') /\ Compares(m, m')
    BY <1>1, <2>1, <2>5, <2>6, ComparedMemory DEF c
  <2> QED
    BY <1>4, <1>7, <2>7
<1>8. CASE /\ Bound = sched.bound /\ ~Closed
           /\ m' = Compared(m, [Comparing EXCEPT !.bound = sched.bound, !.preempted = 0,
                                                 !.ran = Append(@, NextArm)])
           /\ sched' = [sched EXCEPT !.at = IF Len(Comparing.ran) = 2 THEN "finish" ELSE "arm"]
           /\ dirty' = TRUE
  <2> DEFINE c == Comparing
             ran == Append(c.ran, NextArm)
             d == [c EXCEPT !.bound = sched.bound, !.preempted = 0, !.ran = ran]
             at == IF Len(c.ran) = 2 THEN "finish" ELSE "arm"
  <2>1. c \in Comparisons /\ c # None
    BY <1>2, <1>3, <1>8
  <2>2. Len(c.ran) < 3
    BY <1>1, <2>1 DEF Shaped, Working
  <2>3. NextArm \in Schedules
    BY <1>1 DEF NextArm, Threads
  <2>4. sched.bound \in Bounds
    BY <1>1 DEF Threads
  <2>5. m' = Compared(m, d) /\ sched' = [sched EXCEPT !.at = at]
    <3>1. [Comparing EXCEPT !.bound = sched.bound, !.preempted = 0,
                            !.ran = Append(@, NextArm)] = d
      BY <2>1 DEF Comparisons
    <3> QED
      BY <1>8, <3>1
  <2> HIDE DEF c
  <2>6. /\ Len(c.ran) \in 0 .. 3
        /\ ran \in UNION {[1 .. n -> Schedules] : n \in 0 .. 3}
        /\ Len(ran) = Len(c.ran) + 1
    BY <2>1, <2>2, <2>3, RunsGrow
  <2> HIDE DEF ran
  <2>7. d \in Comparisons /\ d.policy = c.policy /\ d.n = c.n /\ d.ran = ran
    <3> DEFINE b == sched.bound
    <3>1. 0 \in 0 .. MaxPreemptions - 1
      OBVIOUS
    <3>2. b \in {<<>>} \cup (Schedules \X BOOLEAN)
      BY <2>4 DEF Bounds
    <3>3. d = [c EXCEPT !.bound = b, !.preempted = 0, !.ran = ran]
      OBVIOUS
    <3> HIDE DEF b, d
    <3> DEFINE z == 0
    <3>4. d = [c EXCEPT !.bound = b, !.preempted = z, !.ran = ran] /\ z \in 0 .. MaxPreemptions - 1
      BY <3>1, <3>3
    <3> HIDE DEF z
    <3>5. d.policy = c.policy /\ d.n = c.n /\ d.ran = ran
      BY <2>1, <3>4 DEF Comparisons
    <3> QED
      BY <2>1, <2>6, <3>2, <3>4, <3>5 DEF Comparisons
  <2> HIDE DEF d
  <2>8. Keeps(c, d)
    BY <2>1, <2>7 DEF Keeps
  <2>9. /\ d # None /\ m' \in Saved /\ Own(m') /\ Compares(m, m')
        /\ sched.task = "qualify" => m'.candidate = d
        /\ sched.task = "audit" => m'.audit = d /\ d.n < MaxTriplets /\ sched.b = m.policy
    BY <1>1, <2>1, <2>5, <2>7, <2>8, ComparedMemory DEF c
  <2>10. at \in {"finish", "arm"} /\ (at = "arm" => Len(d.ran) < 3)
    <3> DEFINE k == Len(c.ran)
    <3>4. Len(d.ran) = k + 1
      BY <2>6, <2>7
    <3>5. k \in 0 .. 3 /\ k < 3
      BY <2>2, <2>6
    <3>2. at = IF k = 2 THEN "finish" ELSE "arm"
      OBVIOUS
    <3> HIDE DEF k, at
    <3>1. k \in 0 .. 2
      BY <3>5
    <3> QED
      BY <3>1, <3>2, <3>4
  <2> HIDE DEF at
  <2>11. /\ sched' \in Threads /\ sched'.at = at /\ sched'.task = sched.task
         /\ sched'.bound = sched.bound /\ sched'.b = sched.b
    BY <1>1, <2>5, <2>10 DEF Threads, Places
  <2>12. Typed'
    BY <1>8, <2>9, <2>11 DEF Arm, Shaped, Typed
  <2>13. Comparing' = d
    BY <1>1, <2>9, <2>11 DEF Comparing
  <2>14. m'.policy = m.policy
    BY <2>9 DEF Compares
  <2>15. /\ sched.bound \in Schedules \X BOOLEAN
         /\ sched.task = "audit" => sched.bound[1] # None
    BY <1>1 DEF Shaped, Working
  <2>16. Working'
    BY <1>1, <2>9, <2>10, <2>11, <2>13, <2>14, <2>15 DEF Working
  <2>17. Snapped'
    BY <2>10, <2>11 DEF Arm, Shaped, Snapped
  <2> QED
    BY <2>9, <2>12, <2>16, <2>17 DEF Shaped
<1> QED
  BY <1>6, <1>7, <1>8 DEF Arm

LEMMA FinishShaped == Shaped /\ Finish => Shaped' /\ Compares(m, m')
<1> SUFFICES ASSUME Shaped, Finish PROVE Shaped' /\ Compares(m, m')
  OBVIOUS
<1>1. /\ m \in Saved /\ Own(m) /\ sched \in Threads /\ sched.at = "finish"
      /\ sched.task \in {"qualify", "audit"}
  BY DEF Finish, Shaped, Typed, Working, Threads, Tasks
<1>2. CASE Comparing = None
  <2>1. m' = m /\ sched' = ToPlan
    BY <1>2 DEF Finish
  <2>2. Typed'
    BY <2>1, ResetThread DEF Finish, Shaped, Typed
  <2>3. Snapped' /\ Working'
    BY <2>1, ResetThread DEF Finish, Shaped, Snapped, Working
  <2> QED
    BY <2>1, <2>2, <2>3 DEF Shaped, Compares, Keeps
<1>3. CASE Comparing # None
  <2> DEFINE c == Dropped(Comparing)
  <2>1. Comparing \in Comparisons
    BY <1>1, <1>3 DEF Comparing, Saved
  <2>2. c \in Comparisons /\ Keeps(Comparing, c) /\ c.n = Comparing.n
    BY <2>1, DropTriplet
  <2>3. m' = Compared(m, c) /\ sched' = [sched EXCEPT !.at = sched.task]
    BY <1>3 DEF Finish
  <2> HIDE DEF c
  <2>4. /\ c # None /\ m' \in Saved /\ Own(m') /\ Compares(m, m')
        /\ sched.task = "qualify" => m'.candidate = c
        /\ sched.task = "audit" => m'.audit = c /\ c.n < MaxTriplets /\ sched.b = m.policy
    BY <1>1, <1>3, <2>2, <2>3, ComparedMemory
  <2>5. /\ sched' \in Threads /\ sched'.at = sched.task /\ sched'.task = sched.task
        /\ sched'.b = sched.b
    BY <1>1, <2>3 DEF Threads, Places
  <2>6. m'.policy = m.policy
    BY <2>4 DEF Compares
  <2>7. Typed'
    BY <2>4, <2>5 DEF Finish, Shaped, Typed
  <2>8. Working'
    BY <1>1, <2>4, <2>5, <2>6 DEF Working
  <2>9. Snapped'
    BY <1>1, <2>5 DEF Finish, Shaped, Snapped
  <2> QED
    BY <2>4, <2>7, <2>8, <2>9 DEF Shaped
<1> QED
  BY <1>2, <1>3

\* A comparison of a candidate goes on, is lost, or promotes it.
LEMMA QualifyShaped ==
  Shaped /\ Qualify =>
     /\ Shaped'
     /\ \/ Compares(m, m') /\ UNCHANGED <<live, standing>>
        \/ Drops(m, m') /\ UNCHANGED <<live, standing>>
        \/ /\ Promotes(m, m') /\ live' = NoCounts
           /\ standing' = standing \cup {m.candidate.policy}
<1> SUFFICES ASSUME Shaped, Qualify
             PROVE  /\ Shaped'
                    /\ \/ Compares(m, m') /\ UNCHANGED <<live, standing>>
                       \/ Drops(m, m') /\ UNCHANGED <<live, standing>>
                       \/ /\ Promotes(m, m') /\ live' = NoCounts
                          /\ standing' = standing \cup {m.candidate.policy}
  OBVIOUS
<1> DEFINE Continues == Compares(m, m') /\ UNCHANGED <<live, standing>>
           Loses == Drops(m, m') /\ UNCHANGED <<live, standing>>
           Wins == /\ Promotes(m, m') /\ live' = NoCounts
                   /\ standing' = standing \cup {m.candidate.policy}
<1>1. /\ m \in Saved /\ Own(m) /\ m.candidate # None /\ m.candidate \in Comparisons
      /\ m.candidate.n < MaxTriplets /\ m.candidate.policy \in Policies
  <2>1. m \in Saved /\ Own(m) /\ m.candidate # None
    BY DEF Qualify, Shaped, Typed, Working
  <2>2. m.candidate \in Comparisons
    BY <2>1 DEF Saved
  <2> QED
    BY <2>1, <2>2 DEF Own, Comparisons
<1>2. /\ m' \in Saved /\ Own(m') /\ dirty' \in BOOLEAN
      /\ Continues \/ Loses \/ Wins
  <2>1. CASE m' = Reject(m) /\ UNCHANGED <<live, dirty, standing>>
    BY <1>1, <2>1, RejectMemory DEF Own, Shaped, Typed
  <2>2. CASE UNCHANGED <<m, live, dirty, standing>>
    BY <1>1, <2>2 DEF Compares, Keeps, Shaped, Typed
  <2>3. CASE LET c == Counted(m.candidate)
                 mem == [m EXCEPT !.candidate = c]
             IN \E verdict \in Verdicts(c.n, "pass", "fail") :
                   /\ m' = CASE verdict = "pass" -> Promote(mem)
                             [] verdict = "fail" -> Reject(mem)
                             [] OTHER -> mem
                   /\ live' = IF verdict = "pass" THEN Promoted(live) ELSE live
                   /\ standing' = IF verdict = "pass" THEN standing \cup {c.policy} ELSE standing
                   /\ dirty' = TRUE
    <3> DEFINE c == Counted(m.candidate)
               mem == [m EXCEPT !.candidate = c]
    <3>1. PICK verdict \in Verdicts(c.n, "pass", "fail") :
             /\ m' = CASE verdict = "pass" -> Promote(mem)
                       [] verdict = "fail" -> Reject(mem)
                       [] OTHER -> mem
             /\ live' = IF verdict = "pass" THEN Promoted(live) ELSE live
             /\ standing' = IF verdict = "pass" THEN standing \cup {c.policy} ELSE standing
             /\ dirty' = TRUE
      BY <2>3
    <3>2. /\ c \in Comparisons /\ Keeps(m.candidate, c) /\ c.n = m.candidate.n + 1
      BY <1>1, CountTriplet
    <3> HIDE DEF c
    <3>3. /\ mem \in Saved /\ mem.candidate = c /\ mem.policy = m.policy
          /\ mem.audit = m.audit /\ mem.withdrawn = m.withdrawn
      BY <1>1, <3>2 DEF Saved
    <3>4. c # None /\ c.policy = m.candidate.policy
      BY <1>1, <3>2 DEF Keeps
    <3> HIDE DEF mem
    <3>5. CASE verdict = "pass"
      <4>1. /\ m' = Promote(mem) /\ live' = Promoted(live)
            /\ standing' = standing \cup {c.policy} /\ dirty' = TRUE
        BY <3>1, <3>5
      <4>2. m' \in Saved /\ Own(m') /\ Promotes(mem, m')
        BY <3>3, <3>4, <4>1, PromoteMemory
      <4> QED
        BY <1>1, <3>3, <3>4, <4>1, <4>2 DEF Promotes, Promoted
    <3>6. CASE verdict = "fail"
      <4>1. /\ m' = Reject(mem) /\ live' = live /\ standing' = standing /\ dirty' = TRUE
        BY <3>1, <3>6
      <4>2. m' \in Saved /\ Own(m') /\ Drops(mem, m')
        BY <1>1, <3>3, <3>4, <4>1, RejectMemory DEF Own
      <4> QED
        BY <3>3, <4>1, <4>2 DEF Drops
    <3>7. CASE verdict \notin {"pass", "fail"}
      <4>1. /\ m' = mem /\ live' = live /\ standing' = standing /\ dirty' = TRUE
        BY <3>1, <3>7
      <4>2. c.n < MaxTriplets
        <5>1. c.n \in Nat
          BY <3>2 DEF Comparisons
        <5> QED
          BY <3>1, <3>7, <5>1 DEF Verdicts
      <4>3. Own(m')
        BY <1>1, <3>3, <4>1, <4>2 DEF Own
      <4> QED
        BY <1>1, <3>2, <3>3, <3>4, <4>1, <4>3 DEF Compares, Keeps
    <3> QED
      BY <3>5, <3>6, <3>7
  <2> QED
    BY <2>1, <2>2, <2>3 DEF Qualify
<1>3. sched' = ToPlan
  BY DEF Qualify
<1>4. live' \in Counts /\ Len(live'.monitor) < MonitorWindow /\ standing' \subseteq Policies
  <2>1. CASE Continues \/ Loses
    BY <2>1 DEF Shaped, Typed
  <2>2. CASE Wins
    BY <1>1, <2>2, ResetThread DEF Shaped, Typed
  <2> QED
    BY <1>2, <2>1, <2>2
<1>5. Typed'
  BY <1>2, <1>3, <1>4, ResetThread DEF Qualify, Shaped, Typed
<1>6. Snapped' /\ Working'
  BY <1>3, ResetThread DEF Qualify, Shaped, Snapped, Working
<1> QED
  BY <1>2, <1>5, <1>6 DEF Shaped

LEMMA AuditShaped ==
  Shaped /\ Audit => Shaped' /\ (Compares(m, m') \/ Falls(m, m'))
<1> SUFFICES ASSUME Shaped, Audit PROVE Shaped' /\ (Compares(m, m') \/ Falls(m, m'))
  OBVIOUS
<1>1. m \in Saved /\ Own(m)
  BY DEF Shaped, Typed
<1>2. /\ m' \in Saved /\ Own(m') /\ dirty' \in BOOLEAN
      /\ Compares(m, m') \/ Falls(m, m')
  <2>1. CASE UNCHANGED <<m, dirty>>
    BY <1>1, <2>1 DEF Compares, Keeps, Shaped, Typed
  <2>2. CASE /\ m.audit # None /\ m.audit.policy = m.policy
             /\ LET c == Counted(m.audit)
                IN \E verdict \in Verdicts(c.n, "harm",
                                           IF c.n < MaxTriplets THEN "open" ELSE "confirmed") :
                      m' = IF verdict = "harm" THEN Withdraw(m, Behaviour[m.policy])
                           ELSE [m EXCEPT !.audit = c]
             /\ dirty' = TRUE
    <3> DEFINE c == Counted(m.audit)
    <3>1. /\ m.audit \in Comparisons /\ m.audit.n < MaxTriplets /\ m.policy \in Policies
      <4>1. m.audit \in Comparisons
        BY <1>1, <2>2 DEF Saved
      <4>2. m.audit.n < MaxTriplets
        BY <2>2 DEF Audit, Shaped, Working
      <4> QED
        BY <2>2, <4>1, <4>2 DEF Comparisons
    <3>2. c \in Comparisons /\ Keeps(m.audit, c)
      BY <3>1, CountTriplet
    <3>3. \/ m' = Withdraw(m, Behaviour[m.policy])
          \/ m' = [m EXCEPT !.audit = c]
      BY <2>2
    <3> HIDE DEF c
    <3>4. CASE m' = Withdraw(m, Behaviour[m.policy])
      <4>1. m.policy # None
        BY <3>1
      <4> QED
        BY <1>1, <2>2, <3>4, <4>1, WithdrawMemory
    <3>5. CASE m' = [m EXCEPT !.audit = c]
      <4>1. /\ m' \in Saved /\ m'.audit = c /\ m'.candidate = m.candidate
            /\ m'.policy = m.policy /\ m'.withdrawn = m.withdrawn
        BY <1>1, <3>2, <3>5 DEF Saved
      <4> QED
        BY <1>1, <2>2, <3>2, <4>1 DEF Own, Compares, Keeps
    <3> QED
      BY <3>3, <3>4, <3>5
  <2> QED
    BY <2>1, <2>2 DEF Audit
<1>3. sched' = ToPlan
  BY DEF Audit
<1>4. Typed'
  BY <1>2, <1>3, ResetThread DEF Audit, Shaped, Typed
<1>5. Snapped' /\ Working'
  BY <1>3, ResetThread DEF Audit, Shaped, Snapped, Working
<1> QED
  BY <1>2, <1>4, <1>5 DEF Shaped

\* What a planner is told.
LEMMA StartPlanShaped ==
  Shaped /\ StartPlan =>
     /\ Shaped' /\ Stays(m, m')
     /\ sched'.at = "popen" =>
           planner = None /\ m.candidate = None /\ sched'.snap[2] = m.policy
     /\ sched'.at \in {"popen", "save"} /\ (sched'.at = "popen" => ~Closed)
<1> SUFFICES ASSUME Shaped, StartPlan
             PROVE  /\ Shaped' /\ Stays(m, m')
                    /\ sched'.at = "popen" =>
                          planner = None /\ m.candidate = None /\ sched'.snap[2] = m.policy
                    /\ sched'.at \in {"popen", "save"} /\ (sched'.at = "popen" => ~Closed)
  OBVIOUS
<1>1. m \in Saved /\ Own(m)
  BY DEF Shaped, Typed
<1>2. CASE /\ planner = None /\ m.candidate = None /\ ~Closed
           /\ m' = Reopened(m)
           /\ sched' = [Rest EXCEPT !.at = "popen", !.snap = <<Excluded(m'), m'.policy>>]
  <2>1. m' \in Saved /\ Own(m') /\ Stays(m, m')
    BY <1>1, <1>2, ReopenedMemory
  <2> DEFINE snap == <<Excluded(m'), m'.policy>>
  <2>2. Excluded(m') \in SUBSET Behaviours
    <3>1. m'.rejected[m'.policy] \in SUBSET Behaviours
      BY <2>1 DEF Saved
    <3>2. WithdrawnBehaviours(m') \in SUBSET Behaviours
      BY <2>1 DEF WithdrawnBehaviours, Saved
    <3> QED
      BY <3>1, <3>2 DEF Excluded
  <2>3. snap \in Exclusions /\ snap[2] = m.policy
    BY <2>1, <2>2 DEF Exclusions, Saved, Stays
  <2>4. sched' = [Rest EXCEPT !.at = "popen", !.snap = snap]
    BY <1>2
  <2> HIDE DEF snap
  <2>5. sched' \in Threads /\ sched'.at = "popen" /\ sched'.snap = snap
    BY <2>3, <2>4, ResetThread DEF Threads, Places
  <2>6. Typed'
    BY <2>1, <2>5 DEF StartPlan, Shaped, Typed
  <2>7. Snapped' /\ Working'
    BY <2>3, <2>5 DEF StartPlan, Shaped, Snapped, Working
  <2> QED
    BY <1>2, <2>1, <2>3, <2>5, <2>6, <2>7 DEF Shaped
<1>3. CASE sched' = [Rest EXCEPT !.at = "save"] /\ UNCHANGED m
  <2>1. sched' \in Threads /\ sched'.at = "save"
    BY <1>3, ResetThread DEF Threads, Places
  <2>2. Typed'
    BY <1>3, <2>1 DEF StartPlan, Shaped, Typed
  <2>3. Snapped' /\ Working'
    BY <2>1 DEF StartPlan, Shaped, Snapped, Working
  <2> QED
    BY <1>3, <2>1, <2>2, <2>3 DEF Shaped, Stays
<1> QED
  BY <1>2, <1>3 DEF StartPlan

\* The operator changes nothing a comparison works with, but for the withdrawal.
LEMMA OperatorWorking ==
  ASSUME Working, m \in Saved, Stays(m, m') \/ Falls(m, m'), sched' = sched
  PROVE  Working'
<1>1. /\ m'.candidate = m.candidate
      /\ \/ m'.audit = m.audit /\ m'.policy = m.policy
         \/ m'.audit = None /\ m'.policy = None
  BY DEF Stays, Falls
<1> QED
  BY <1>1 DEF Working, Comparing

LEMMA OffShaped == Shaped /\ Off => Shaped' /\ (Stays(m, m') \/ Falls(m, m'))
<1> SUFFICES ASSUME Shaped, Off PROVE Shaped' /\ (Stays(m, m') \/ Falls(m, m'))
  OBVIOUS
<1> DEFINE t == IF m.policy = None THEN m ELSE Withdraw(m, Behaviour[m.policy])
<1>1. m \in Saved /\ Own(m)
  BY DEF Shaped, Typed
<1>2. t \in Saved /\ Own(t) /\ (Stays(m, t) \/ Falls(m, t))
  <2>1. CASE m.policy = None
    BY <1>1, <2>1 DEF Stays
  <2>2. CASE m.policy # None
    <3> QED
      BY <1>1, <2>2, WithdrawMemory
  <2> QED
    BY <2>1, <2>2
<1>3. m' = [t EXCEPT !.paused = TRUE]
  BY DEF Off
<1> HIDE DEF t
<1>4. m' \in Saved /\ Stays(t, m')
  BY <1>2, <1>3 DEF Saved, Stays
<1>5. Own(m') /\ (Stays(m, m') \/ Falls(m, m'))
  BY <1>2, <1>4 DEF Own, Stays, Falls
<1>6. Typed'
  BY <1>4, <1>5 DEF Off, Shaped, Typed
<1>7. Working'
  BY <1>1, <1>5, OperatorWorking DEF Off, Shaped
<1>8. Snapped'
  BY DEF Off, Shaped, Snapped
<1> QED
  BY <1>5, <1>6, <1>7, <1>8 DEF Shaped

LEMMA OnShaped == Shaped /\ On => Shaped' /\ Stays(m, m')
<1> SUFFICES ASSUME Shaped, On PROVE Shaped' /\ Stays(m, m')
  OBVIOUS
<1>1. m \in Saved /\ Own(m) /\ m' = [m EXCEPT !.paused = FALSE]
  BY DEF On, Shaped, Typed
<1>2. m' \in Saved /\ Stays(m, m')
  BY <1>1 DEF Saved, Stays
<1>3. Own(m')
  BY <1>1, <1>2 DEF Own, Stays
<1>4. Typed'
  BY <1>2, <1>3 DEF On, Shaped, Typed
<1>5. Working'
  BY <1>1, <1>2, OperatorWorking DEF On, Shaped
<1>6. Snapped'
  BY DEF On, Shaped, Snapped
<1> QED
  BY <1>2, <1>4, <1>5, <1>6 DEF Shaped

LEMMA RestartShaped == Shaped /\ Restart => Shaped'
<1> SUFFICES ASSUME Shaped, Restart PROVE Shaped'
  OBVIOUS
<1>1. Fresh \in Saved /\ Own(Fresh)
  BY DEF Fresh, Saved, Schedules, Own
<1>2. /\ m' \in Saved /\ Own(m')
      /\ file' \in Saved \cup {None} /\ (file' # None => Own(file'))
  BY <1>1 DEF Restart, Shaped, Typed
<1>3. closer' \in Closers /\ closer'.at = "open"
  BY DEF Restart, Closers
<1>6. /\ live' = NoCounts /\ planner' = None /\ dirty' = FALSE /\ sched' = Rest
      /\ operator' = "free" /\ UNCHANGED <<standing, outlived>>
  BY DEF Restart
<1>7. live' \in Counts /\ Len(live'.monitor) < MonitorWindow /\ sched' \in Threads
  BY <1>6, ResetThread
<1>8. dirty' \in BOOLEAN /\ outlived' \in BOOLEAN /\ standing' \subseteq Policies
  BY <1>6 DEF Shaped, Typed
<1>9. planner' \in Planners \cup {None} /\ operator' \in {"free", "off"}
  BY <1>6
<1>4. Typed'
  BY <1>2, <1>3, <1>7, <1>8, <1>9 DEF Typed
<1>5. Snapped' /\ Working'
  BY <1>3, <1>6, ResetThread DEF Snapped, Working
<1> QED
  BY <1>4, <1>5 DEF Shaped

-----------------------------------------------------------------------------
(* Every step keeps the shape. *)

LEMMA NextShaped == Shaped /\ [Next]_vars => Shaped'
<1> SUFFICES ASSUME Shaped, [Next]_vars PROVE Shaped'
  OBVIOUS
<1>1. CASE Scheduler
  BY <1>1, GroupStartShaped, DecideFailsShaped, GroupEndShaped, IdleCollectShaped,
     LookShaped, ChooseShaped, BindShaped, ArmShaped, FinishShaped, QualifyShaped,
     AuditShaped, StartPlanShaped, PopenShaped, IdleSaveSkipShaped, IdleSaveShaped,
     IdleWriteShaped DEF Scheduler
<1>2. CASE Off \/ OffStops \/ On
  BY <1>2, OffShaped, OffStopsShaped, OnShaped
<1>3. CASE Close
  BY <1>3, CloseBeginShaped, CloseLooksShaped, CloseSaveShaped, CloseWriteShaped DEF Close
<1>4. CASE Restart
  BY <1>4, RestartShaped
<1>5. CASE UNCHANGED vars
  BY <1>5 DEF vars, Shaped, Typed, Snapped, Working, Comparing
<1> QED
  BY <1>1, <1>2, <1>3, <1>4, <1>5 DEF Next

-----------------------------------------------------------------------------
(* The planner. *)

\* A step after which the planner is the same, or none, and whose memory kept its
\* schedules or lost one.
LEMMA PlannerKept ==
  ASSUME Planned, sched.at # "popen", sched'.at # "popen",
         planner' \in {planner, None},
         m'.policy \in {m.policy, None},
         m'.candidate = None <=> m.candidate = None
  PROVE  Planned'
BY DEF Planned

LEMMA NextPlanned == Shaped /\ Shaped' /\ Planned /\ [Next]_vars => Planned'
<1> SUFFICES ASSUME Shaped, Shaped', Planned, [Next]_vars PROVE Planned'
  OBVIOUS
<1>1. ASSUME Stays(m, m') \/ Falls(m, m') \/ Compares(m, m')
      PROVE  /\ m'.policy \in {m.policy, None}
             /\ m'.candidate = None <=> m.candidate = None
  BY <1>1 DEF Stays, Falls, Compares, Keeps
<1>2. Stays(m, m)
  BY DEF Stays
<1>3. CASE GroupStart \/ Look \/ Choose \/ IdleSaveSkip \/ IdleSave \/ IdleWrite
  <2>1. /\ m' = m /\ planner' = planner /\ sched.at # "popen" /\ sched'.at # "popen"
    BY <1>3, ResetThread
       DEF GroupStart, Look, Choose, IdleSaveSkip, IdleSave, IdleWrite, Shaped, Typed, Threads
  <2> QED
    BY <2>1, PlannerKept
<1>4. CASE DecideFails
  <2>1. /\ planner' = planner /\ sched' = sched /\ sched.at = "group"
    BY <1>4 DEF DecideFails
  <2> QED
    BY <1>1, <1>4, <2>1, DecideFailsShaped, PlannerKept
<1>5. CASE GroupEnd
  <2>1. planner' = planner /\ sched'.at = "rest" /\ sched.at = "group"
    BY <1>5, ResetThread DEF GroupEnd
  <2> QED
    BY <1>1, <1>5, <2>1, GroupEndShaped, PlannerKept
<1>6. CASE IdleCollect
  <2>1. sched.at = "rest" /\ sched'.at = "look" /\ planner' \in {planner, None}
    BY <1>6 DEF IdleCollect, Shaped, Typed, Threads
  <2>2. CASE Stays(m, m')
    BY <1>1, <2>1, <2>2, PlannerKept
  <2>3. CASE planner' = None /\ Proposed(m, m')
    BY <2>1, <2>3 DEF Planned
  <2> QED
    BY <1>6, <2>2, <2>3, IdleCollectShaped
<1>7. CASE Bind \/ Arm \/ Finish \/ Audit
  <2>1. Compares(m, m') \/ Falls(m, m')
    BY <1>7, BindShaped, ArmShaped, FinishShaped, AuditShaped
  <2>2. planner' = planner /\ sched.at # "popen" /\ sched'.at # "popen"
    <3>1. CASE Bind
      BY <3>1, ResetThread DEF Bind, Shaped, Typed, Threads
    <3>2. CASE Arm
      BY <3>2, ResetThread DEF Arm, Shaped, Typed, Threads
    <3>3. CASE Finish
      BY <3>3, ResetThread DEF Finish, Shaped, Typed, Threads, Tasks
    <3>4. CASE Audit
      BY <3>4, ResetThread DEF Audit
    <3> QED
      BY <1>7, <3>1, <3>2, <3>3, <3>4
  <2> QED
    BY <1>1, <2>1, <2>2, PlannerKept
<1>8. CASE Qualify
  <2>1. /\ planner' = planner /\ sched.at = "qualify" /\ sched'.at = "plan"
    BY <1>8, ResetThread DEF Qualify
  <2>2. m.candidate # None
    BY <2>1 DEF Shaped, Working
  <2>3. planner = None
    BY <2>2 DEF Planned
  <2> QED
    BY <2>1, <2>3 DEF Planned
<1>9. CASE StartPlan
  <2>1. /\ planner' = planner /\ sched.at = "plan" /\ Stays(m, m')
        /\ sched'.at = "popen" =>
              planner = None /\ m.candidate = None /\ sched'.snap[2] = m.policy
    BY <1>9, StartPlanShaped DEF StartPlan
  <2> QED
    BY <2>1 DEF Planned, Stays
<1>10. CASE Popen
  <2>1. /\ sched.at = "popen" /\ sched'.at = "save" /\ m' = m
        /\ \/ planner' = [excluded |-> sched.snap[1], incumbent |-> sched.snap[2]]
           \/ planner' = planner
    BY <1>10 DEF Popen, Rest
  <2> QED
    BY <2>1 DEF Planned
<1>11. CASE Off \/ On
  <2>1. Stays(m, m') \/ Falls(m, m')
    BY <1>11, OffShaped, OnShaped
  <2>2. planner' = planner /\ sched' = sched
    BY <1>11 DEF Off, On
  <2> QED
    BY <1>1, <2>1, <2>2 DEF Planned
<1>12. CASE OffStops
  BY <1>12 DEF OffStops, Planned
<1>13. CASE CloseBegin
  BY <1>13 DEF CloseBegin, Planned
<1>14. CASE CloseLooks \/ CloseSave \/ CloseWrite
  <2>1. /\ m' = m /\ planner' = planner
        /\ sched' = sched \/ sched'.at \in {"rest", "write"}
    BY <1>14, EndedThread DEF CloseLooks, CloseSave, CloseWrite, Shaped, Typed
  <2> QED
    BY <2>1 DEF Planned
<1>15. CASE Restart
  BY <1>15, ResetThread DEF Restart, Planned
<1>16. CASE UNCHANGED vars
  BY <1>16 DEF vars, Planned
<1> QED
  BY <1>3, <1>4, <1>5, <1>6, <1>7, <1>8, <1>9, <1>10, <1>11, <1>12, <1>13, <1>14,
     <1>15, <1>16 DEF Next, Scheduler, Close

-----------------------------------------------------------------------------
(* Who is blamed. *)

LEMMA BlameKept ==
  ASSUME Blamed, m'.policy \in {m.policy, None},
         Suspects(live') \subseteq Suspects(live),
         sched'.at = "group" => sched.at = "group" /\ sched'.by = sched.by
  PROVE  Blamed'
BY DEF Blamed

LEMMA NextBlamed == Shaped /\ Shaped' /\ Blamed /\ [Next]_vars => Blamed'
<1> SUFFICES ASSUME Shaped, Shaped', Blamed, [Next]_vars PROVE Blamed'
  OBVIOUS
<1>1. ASSUME Stays(m, m') \/ Falls(m, m') \/ Compares(m, m') \/ Drops(m, m')
      PROVE  m'.policy \in {m.policy, None}
  BY <1>1 DEF Stays, Falls, Compares, Drops
<1>2. CASE GroupStart
  <2>1. /\ m' = m /\ live' = live
        /\ sched'.by = IF m.paused THEN None ELSE m.policy
    BY <1>2 DEF GroupStart, Shaped, Typed, Threads
  <2>2. sched'.by \in {m.policy, None}
    BY <2>1
  <2> QED
    BY <2>1, <2>2 DEF Blamed
<1>3. CASE DecideFails
  <2>1. sched.at = "group" /\ sched' = sched
    BY <1>3 DEF DecideFails
  <2>2. /\ Suspects(live') \subseteq Suspects(live) \cup {sched.by}
        /\ m'.policy \in {m.policy, None}
    BY <1>1, <1>3, DecideFailsShaped
  <2> QED
    BY <2>1, <2>2 DEF Blamed
<1>4. CASE GroupEnd
  <2>1. sched.at = "group" /\ sched'.at = "rest"
    BY <1>4, ResetThread DEF GroupEnd
  <2>2. /\ Suspects(live') \subseteq Suspects(live) \cup {sched.by}
        /\ m'.policy \in {m.policy, None}
    BY <1>1, <1>4, GroupEndShaped
  <2> QED
    BY <2>1, <2>2 DEF Blamed
<1>5. CASE Look \/ Choose \/ IdleSaveSkip \/ IdleSave \/ IdleWrite \/ Popen
  <2>1. /\ m' = m /\ live' = live /\ sched'.at # "group"
    BY <1>5, ResetThread
       DEF Look, Choose, IdleSaveSkip, IdleSave, IdleWrite, Popen, Rest, Shaped, Typed, Threads
  <2> QED
    BY <2>1, BlameKept
<1>6. CASE IdleCollect
  <2>1. sched'.at = "look" /\ live' = live
    BY <1>6 DEF IdleCollect, Shaped, Typed, Threads
  <2>2. m'.policy = m.policy
    BY <1>6, IdleCollectShaped DEF Stays, Proposed
  <2> QED
    BY <2>1, <2>2, BlameKept
<1>7. CASE Bind \/ Arm \/ Finish \/ Audit
  <2>1. Compares(m, m') \/ Falls(m, m')
    BY <1>7, BindShaped, ArmShaped, FinishShaped, AuditShaped
  <2>2. live' = live /\ sched'.at # "group"
    <3>1. CASE Bind
      BY <3>1, ResetThread DEF Bind, Shaped, Typed, Threads
    <3>2. CASE Arm
      BY <3>2, ResetThread DEF Arm, Shaped, Typed, Threads
    <3>3. CASE Finish
      BY <3>3, ResetThread DEF Finish, Shaped, Typed, Threads, Tasks
    <3>4. CASE Audit
      BY <3>4, ResetThread DEF Audit
    <3> QED
      BY <1>7, <3>1, <3>2, <3>3, <3>4
  <2> QED
    BY <1>1, <2>1, <2>2, BlameKept
<1>8. CASE Qualify
  <2>1. sched'.at = "plan"
    BY <1>8, ResetThread DEF Qualify
  <2>2. CASE live' = live /\ (Compares(m, m') \/ Drops(m, m'))
    BY <1>1, <2>1, <2>2, BlameKept
  <2>3. CASE live' = NoCounts
    <3>1. Suspects(live') = {}
      BY <2>3 DEF Suspects, NoCounts
    <3> QED
      BY <2>1, <3>1 DEF Blamed
  <2> QED
    BY <1>8, <2>2, <2>3, QualifyShaped
<1>9. CASE StartPlan
  BY <1>1, <1>9, StartPlanShaped, BlameKept DEF StartPlan
<1>10. CASE Off \/ On
  <2>1. Stays(m, m') \/ Falls(m, m')
    BY <1>10, OffShaped, OnShaped
  <2>2. live' = live /\ sched' = sched
    BY <1>10 DEF Off, On
  <2> QED
    BY <1>1, <2>1, <2>2, BlameKept
<1>11. CASE OffStops \/ CloseBegin \/ CloseLooks \/ CloseSave \/ CloseWrite
  <2>1. /\ m' = m /\ live' = live
        /\ sched' = sched \/ sched'.at \in {"rest", "write"}
    BY <1>11, EndedThread
       DEF OffStops, CloseBegin, CloseLooks, CloseSave, CloseWrite, Shaped, Typed
  <2> QED
    BY <2>1, BlameKept
<1>12. CASE Restart
  <2>1. live' = NoCounts /\ sched'.at = "rest"
    BY <1>12, ResetThread DEF Restart
  <2>2. Suspects(live') = {}
    BY <2>1 DEF Suspects, NoCounts
  <2> QED
    BY <2>1, <2>2 DEF Blamed
<1>13. CASE UNCHANGED vars
  BY <1>13, BlameKept DEF vars
<1> QED
  BY <1>2, <1>3, <1>4, <1>5, <1>6, <1>7, <1>8, <1>9, <1>10, <1>11, <1>12, <1>13
     DEF Next, Scheduler, Close

-----------------------------------------------------------------------------
(* What was withdrawn. *)

LEMMA CleanStays ==
  ASSUME NEW s, NEW t, Stays(s, t), Clean(s)
  PROVE  Clean(t)
BY DEF Stays, Clean, Free, Digests, WithdrawnBehaviours

LEMMA CleanCompares ==
  ASSUME NEW s, NEW t, Compares(s, t), Clean(s)
  PROVE  Clean(t)
<1>1. Digests(t) = Digests(s) /\ WithdrawnBehaviours(t) = WithdrawnBehaviours(s)
  BY DEF Compares, Digests, WithdrawnBehaviours
<1> QED
  BY <1>1 DEF Compares, Keeps, Clean, Free

LEMMA CleanDrops ==
  ASSUME NEW s, NEW t, Drops(s, t), Clean(s)
  PROVE  Clean(t)
<1>1. Digests(t) = Digests(s) /\ WithdrawnBehaviours(t) = WithdrawnBehaviours(s)
  BY DEF Drops, Digests, WithdrawnBehaviours
<1> QED
  BY <1>1 DEF Drops, Clean, Free

LEMMA CleanPromotes ==
  ASSUME NEW s, NEW t, Promotes(s, t), Clean(s)
  PROVE  Clean(t)
<1>1. Digests(t) = Digests(s) /\ WithdrawnBehaviours(t) = WithdrawnBehaviours(s)
  BY DEF Promotes, Digests, WithdrawnBehaviours
<1> QED
  BY <1>1 DEF Promotes, Clean, Free

\* The schedule that is withdrawn takes no candidate with it.
LEMMA CleanFalls ==
  ASSUME NEW s, NEW t, Falls(s, t), Clean(s)
  PROVE  Clean(t) /\ s.policy \in Digests(t)
<1>1. PICK sig \in {Behaviour[s.policy], None} :
         t.withdrawn = s.withdrawn \cup {<<s.policy, sig>>}
  BY DEF Falls
<1> DEFINE pair == <<s.policy, sig>>
<1>2. pair[1] = s.policy /\ pair[2] = sig /\ t.withdrawn = s.withdrawn \cup {pair}
  BY <1>1
<1> HIDE DEF pair
<1>3. Digests(t) = Digests(s) \cup {s.policy}
  BY <1>2 DEF Digests
<1>4. WithdrawnBehaviours(t) \subseteq WithdrawnBehaviours(s) \cup {Behaviour[s.policy]}
  BY <1>2 DEF WithdrawnBehaviours
<1>5. t.policy = None /\ t.candidate = s.candidate /\ s.policy # None
  BY DEF Falls
<1>6. s.candidate # None =>
         /\ Free(s, s.candidate.policy)
         /\ Behaviour[s.candidate.policy] # Behaviour[s.policy]
         /\ s.candidate.policy # s.policy
  BY <1>5 DEF Clean
<1> QED
  BY <1>3, <1>4, <1>5, <1>6 DEF Clean, Free

\* A plan that nobody withdrew joins a serving schedule it differs from.
LEMMA CleanProposed ==
  ASSUME Planned, Clean(m), Proposed(m, m')
  PROVE  Clean(m')
<1>1. Digests(m') = Digests(m) /\ WithdrawnBehaviours(m') = WithdrawnBehaviours(m)
  BY DEF Proposed, Digests, WithdrawnBehaviours
<1>2. m.policy \in {planner.incumbent, None}
  BY DEF Planned, Proposed
<1>3. m'.policy # None =>
         Behaviour[m'.candidate.policy] # Behaviour[m'.policy]
  BY <1>2 DEF Proposed
<1>4. Free(m', m'.candidate.policy) /\ (m'.policy # None => Free(m', m'.policy))
  BY <1>1 DEF Clean, Free, Proposed
<1> QED
  BY <1>3, <1>4 DEF Clean

\* A write of a snapshot leaves a file that may be restored, and what serves.
LEMMA WriteStands ==
  ASSUME NEW s \in Saved, Own(s), m \in Saved, Own(m), Stands(m), Pending(s), Write(s),
         file # None /\ Proven(file) => Stands(file), m' = m
  PROVE  /\ Stands(m)'
         /\ file' # None /\ Proven(file') => Stands(file)'
<1>1. CASE UNCHANGED <<file, standing>>
  BY <1>1 DEF Stands, Proven
<1>2. CASE /\ file' \in Saved /\ file'.policy = s.policy
           /\ standing' = standing \ Digests(file')
           /\ file'.withdrawn \in {s.withdrawn, m.withdrawn}
           /\ file'.candidate \in {s.candidate, m.candidate}
  <2>1. m.candidate = s.candidate /\ Clean(m) /\ Clean(s)
    BY DEF Pending, Stands, Stays, Falls
  <2>2. Digests(s) \subseteq Digests(m)
    BY DEF Pending, Stays, Falls, Digests
  <2>3. Digests(file') \subseteq Digests(m)
    <3>1. file'.withdrawn = s.withdrawn => Digests(file') = Digests(s)
      BY DEF Digests
    <3>2. file'.withdrawn = m.withdrawn => Digests(file') = Digests(m)
      BY DEF Digests
    <3> QED
      BY <1>2, <2>2, <3>1, <3>2
  <2>4. m.policy # None => m.policy \in standing' 
    BY <1>2, <2>1, <2>3 DEF Stands, Clean, Free
  <2>5. ASSUME Proven(file') PROVE Stands(file)'
    <3>1. file'.policy # None => file'.policy \notin Digests(file')
      BY <2>5 DEF Proven
    <3>2. file'.policy # None => file'.policy \in standing'
      BY <1>2, <3>1 DEF Pending, Stands
    <3>3. CASE file'.withdrawn = s.withdrawn
      <4>1. file'.candidate = s.candidate
        BY <1>2, <2>1
      <4>2. Digests(file') = Digests(s) /\ WithdrawnBehaviours(file') = WithdrawnBehaviours(s)
        BY <3>3 DEF Digests, WithdrawnBehaviours
      <4>3. Clean(file')
        BY <1>2, <2>1, <4>1, <4>2 DEF Clean, Free
      <4> QED
        BY <3>2, <4>3 DEF Stands
    <3>4. CASE file'.withdrawn = m.withdrawn
      <4>1. Digests(file') = Digests(m) /\ WithdrawnBehaviours(file') = WithdrawnBehaviours(m)
        BY <3>4 DEF Digests, WithdrawnBehaviours
      <4>2. CASE Stays(s, m)
        <5>1. m.policy = file'.policy /\ m.candidate = file'.candidate
          BY <1>2, <2>1, <4>2 DEF Stays
        <5>2. Clean(file')
          BY <2>1, <4>1, <5>1 DEF Clean, Free
        <5> QED
          BY <3>2, <5>2 DEF Stands
      <4>3. CASE Falls(s, m)
        <5>1. s.policy \in Digests(m) /\ s.policy # None
          BY <2>1, <4>3, CleanFalls DEF Falls
        <5> QED
          BY <1>2, <3>1, <4>1, <5>1
      <4> QED
        BY <4>2, <4>3 DEF Pending
    <3> QED
      BY <1>2, <3>3, <3>4
  <2>6. Stands(m)'
    BY <2>1, <2>4 DEF Stands
  <2> QED
    BY <2>5, <2>6
<1> QED
  BY <1>1, <1>2, WriteMemory

\* What is pending while only the operator moves.
LEMMA PendingKept ==
  ASSUME NEW s, Pending(s), Stays(m, m') \/ Falls(m, m'), standing' = standing
  PROVE  Pending(s)'
<1>1. Stays(s, m') \/ Falls(s, m')
  <2>1. CASE Stays(s, m)
    BY <2>1 DEF Stays, Falls
  <2>2. CASE Falls(s, m)
    BY <2>2 DEF Stays, Falls
  <2> QED
    BY <2>1, <2>2 DEF Pending
<1> QED
  BY <1>1 DEF Pending, Stands

\* A step of the scheduler outside its writing, while nothing closes.
LEMMA SchedulerSettled ==
  ASSUME Settled, outlived \in BOOLEAN, UNCHANGED <<closer, file, outlived>>,
         sched.at # "rest" \/ closer.at = "open", sched'.at # "write",
         standing \subseteq standing', Stands(m) => Stands(m)'
  PROVE  Settled'
<1> SUFFICES ASSUME ~outlived
             PROVE  /\ closer'.at # "open" => sched'.at = "rest"
                    /\ Stands(m)'
                    /\ file' # None /\ Proven(file)' => Stands(file)'
                    /\ sched'.at # "write" /\ closer'.at # "write"
  BY DEF Settled
<1>1. closer.at = "open" /\ Stands(m)
  BY DEF Settled
<1>2. file # None /\ Proven(file) => Stands(file)
  BY DEF Settled
<1>3. file' # None /\ Proven(file)' => Stands(file)'
  BY <1>2 DEF Stands, Proven
<1> QED
  BY <1>1, <1>3

LEMMA StandsKept ==
  ASSUME Stands(m), Stays(m, m') \/ Compares(m, m') \/ Drops(m, m') \/ Falls(m, m'),
         standing \subseteq standing'
  PROVE  Stands(m)'
<1>1. Clean(m')
  BY CleanStays, CleanCompares, CleanDrops, CleanFalls DEF Stands
<1>2. m'.policy \in {m.policy, None}
  BY DEF Stays, Compares, Drops, Falls
<1> QED
  BY <1>1, <1>2 DEF Stands

LEMMA NextSettled ==
  Shaped /\ Shaped' /\ Planned /\ Settled /\ [Next]_vars => Settled'
<1> SUFFICES ASSUME Shaped, Shaped', Planned, Settled, [Next]_vars PROVE Settled'
  OBVIOUS
<1>1. /\ outlived \in BOOLEAN /\ sched \in Threads /\ m \in Saved /\ Own(m)
      /\ sched'.at \in Places
  BY DEF Shaped, Typed, Threads
<1>2. CASE GroupStart
  <2>1. /\ closer.at = "open" /\ sched'.at = "group" /\ m' = m /\ standing' = standing
        /\ UNCHANGED <<closer, file, outlived>>
    BY <1>1, <1>2 DEF GroupStart, Closed, Threads
  <2>2. Stands(m) => Stands(m)'
    BY <2>1 DEF Stands
  <2> QED
    BY <1>1, <2>1, <2>2, SchedulerSettled
<1>3. CASE DecideFails \/ GroupEnd
  <2>1. /\ sched.at = "group" /\ sched'.at # "write" /\ standing' = standing
        /\ UNCHANGED <<closer, file, outlived>>
    BY <1>3, ResetThread DEF DecideFails, GroupEnd
  <2>2. Stands(m) => Stands(m)'
    BY <1>3, <2>1, DecideFailsShaped, GroupEndShaped, StandsKept
  <2> QED
    BY <1>1, <2>1, <2>2, SchedulerSettled
<1>4. CASE IdleCollect
  <2>1. /\ closer.at = "open" /\ sched'.at = "look" /\ standing' = standing
        /\ UNCHANGED <<closer, file, outlived>>
    BY <1>1, <1>4 DEF IdleCollect, Closed, Threads
  <2>2. ASSUME Stands(m) PROVE Stands(m)'
    <3>1. CASE Stays(m, m')
      BY <2>1, <2>2, <3>1, StandsKept
    <3>2. CASE Proposed(m, m')
      <4>1. Clean(m') /\ m'.policy = m.policy
        BY <2>2, <3>2, CleanProposed DEF Stands, Proposed
      <4> QED
        BY <2>1, <2>2, <4>1 DEF Stands
    <3> QED
      BY <1>4, <3>1, <3>2, IdleCollectShaped
  <2> QED
    BY <1>1, <2>1, <2>2, SchedulerSettled
<1>5. CASE Look \/ Choose \/ Popen \/ IdleSaveSkip
  <2>1. /\ sched.at # "rest" /\ sched'.at # "write" /\ m' = m /\ standing' = standing
        /\ UNCHANGED <<closer, file, outlived>>
    BY <1>1, <1>5, ResetThread DEF Look, Choose, Popen, IdleSaveSkip, Rest, Threads
  <2>2. Stands(m) => Stands(m)'
    BY <2>1 DEF Stands
  <2> QED
    BY <1>1, <2>1, <2>2, SchedulerSettled
<1>6. CASE Bind \/ Arm \/ Finish \/ Audit
  <2>1. Compares(m, m') \/ Falls(m, m')
    BY <1>6, BindShaped, ArmShaped, FinishShaped, AuditShaped
  <2>2. /\ sched.at # "rest" /\ standing' = standing
        /\ UNCHANGED <<closer, file, outlived>>
    BY <1>6 DEF Bind, Arm, Finish, Audit
  <2>3. sched'.at # "write"
    <3>1. CASE Bind
      BY <1>1, <3>1, ResetThread DEF Bind, Threads
    <3>2. CASE Arm
      BY <1>1, <3>2, ResetThread DEF Arm, Threads
    <3>3. CASE Finish
      BY <1>1, <3>3, ResetThread DEF Finish, Threads, Tasks
    <3>4. CASE Audit
      BY <3>4, ResetThread DEF Audit
    <3> QED
      BY <1>6, <3>1, <3>2, <3>3, <3>4
  <2>4. Stands(m) => Stands(m)'
    BY <2>1, <2>2, StandsKept
  <2> QED
    BY <1>1, <2>2, <2>3, <2>4, SchedulerSettled
<1>7. CASE Qualify
  <2>1. /\ sched.at # "rest" /\ sched'.at = "plan"
        /\ UNCHANGED <<closer, file, outlived>>
    BY <1>7, ResetThread DEF Qualify
  <2>2. standing \subseteq standing'
    BY <1>7, QualifyShaped
  <2>3. ASSUME Stands(m) PROVE Stands(m)'
    <3>1. CASE Compares(m, m') \/ Drops(m, m')
      BY <2>2, <2>3, <3>1, StandsKept
    <3>2. CASE Promotes(m, m') /\ standing' = standing \cup {m.candidate.policy}
      <4>1. Clean(m') /\ m'.policy = m.candidate.policy
        BY <2>3, <3>2, CleanPromotes DEF Stands, Promotes
      <4> QED
        BY <3>2, <4>1 DEF Stands
    <3> QED
      BY <1>7, <3>1, <3>2, QualifyShaped
  <2> QED
    BY <1>1, <2>1, <2>2, <2>3, SchedulerSettled
<1>8. CASE StartPlan
  <2>1. /\ sched.at = "plan" /\ sched'.at \in {"popen", "save"} /\ standing' = standing
        /\ Stays(m, m') /\ UNCHANGED <<closer, file, outlived>>
    BY <1>8, StartPlanShaped DEF StartPlan
  <2>2. Stands(m) => Stands(m)'
    BY <2>1, StandsKept
  <2> QED
    BY <1>1, <2>1, <2>2, SchedulerSettled
<1>9. CASE IdleSave
  <2> SUFFICES ASSUME ~outlived
               PROVE  /\ closer'.at = "open" /\ Stands(m)'
                      /\ file' # None /\ Proven(file)' => Stands(file)'
                      /\ Pending(sched.snap)'
    BY <1>9 DEF IdleSave, Settled
  <2>1. /\ sched.at = "save" /\ sched'.snap = m /\ m' = m /\ standing' = standing
        /\ closer' = closer /\ file' = file
    BY <1>1, <1>9 DEF IdleSave, Threads
  <2>2. closer.at = "open" /\ Stands(m)
    BY <2>1 DEF Settled
  <2>3. file # None /\ Proven(file) => Stands(file)
    BY DEF Settled
  <2>4. Pending(sched.snap)'
    BY <2>1, <2>2 DEF Pending, Stands, Stays
  <2>5. file' # None /\ Proven(file)' => Stands(file)'
    BY <2>1, <2>3 DEF Stands, Proven
  <2>6. Stands(m)'
    BY <2>1, <2>2 DEF Stands
  <2> QED
    BY <2>1, <2>2, <2>4, <2>5, <2>6
<1>10. CASE IdleWrite
  <2>1. /\ sched.at = "write" /\ sched'.at = "rest" /\ m' = m /\ Write(sched.snap)
        /\ UNCHANGED <<closer, outlived>>
    BY <1>10, ResetThread DEF IdleWrite
  <2>2. sched.snap \in Saved /\ Own(sched.snap)
    BY <2>1 DEF Shaped, Snapped
  <2> SUFFICES ASSUME ~outlived
               PROVE  /\ closer'.at = "open" /\ Stands(m)'
                      /\ file' # None /\ Proven(file)' => Stands(file)'
    BY <2>1 DEF Settled
  <2>3. /\ closer.at = "open" /\ Stands(m) /\ Pending(sched.snap)
    BY <2>1 DEF Settled
  <2>4. file # None /\ Proven(file) => Stands(file)
    BY DEF Settled
  <2>5. /\ Stands(m)' /\ (file' # None /\ Proven(file') => Stands(file)')
    BY <1>1, <2>1, <2>2, <2>3, <2>4, WriteStands
  <2> QED
    BY <2>1, <2>3, <2>5
<1>11. CASE Off \/ On
  <2>1. Stays(m, m') \/ Falls(m, m')
    BY <1>11, OffShaped, OnShaped
  <2>2. UNCHANGED <<sched, closer, file, outlived, standing>>
    BY <1>11 DEF Off, On
  <2> SUFFICES ASSUME ~outlived
               PROVE  /\ closer'.at # "open" => sched'.at = "rest"
                      /\ Stands(m)'
                      /\ file' # None /\ Proven(file)' => Stands(file)'
                      /\ sched'.at = "write" => Pending(sched.snap)'
                      /\ closer'.at = "write" => Pending(closer.snap)'
    BY <2>2 DEF Settled
  <2>3. /\ closer.at # "open" => sched.at = "rest"
        /\ Stands(m)
        /\ file # None /\ Proven(file) => Stands(file)
        /\ sched.at = "write" => Pending(sched.snap)
        /\ closer.at = "write" => Pending(closer.snap)
    BY DEF Settled
  <2>4. Stands(m)'
    BY <2>1, <2>2, <2>3, StandsKept
  <2>5. file' # None /\ Proven(file)' => Stands(file)'
    BY <2>2, <2>3 DEF Stands, Proven
  <2>6. ASSUME NEW s, Pending(s) PROVE Pending(s)'
    BY <2>1, <2>2, <2>6, PendingKept
  <2>7. sched'.at = "write" => Pending(sched.snap)'
    <3> SUFFICES ASSUME sched.at = "write" PROVE Pending(sched.snap)'
      BY <2>2
    <3>1. PICK s : s = sched.snap
      OBVIOUS
    <3>2. Pending(s)
      BY <2>3, <3>1
    <3>3. Pending(s)'
      BY <2>6, <3>2
    <3> QED
      BY <2>2, <3>1, <3>3
  <2>8. closer'.at = "write" => Pending(closer.snap)'
    <3> SUFFICES ASSUME closer.at = "write" PROVE Pending(closer.snap)'
      BY <2>2
    <3>1. PICK s : s = closer.snap
      OBVIOUS
    <3>2. Pending(s)
      BY <2>3, <3>1
    <3>3. Pending(s)'
      BY <2>6, <3>2
    <3> QED
      BY <2>2, <3>1, <3>3
  <2> QED
    BY <2>2, <2>3, <2>4, <2>5, <2>7, <2>8
<1>12. CASE OffStops
  BY <1>12 DEF OffStops, Settled, Stands, Pending, Proven
<1>13. CASE CloseBegin
  <2> SUFFICES ASSUME ~outlived'
               PROVE  /\ sched'.at = "rest" /\ closer'.at # "write"
                      /\ Stands(m)'
                      /\ file' # None /\ Proven(file)' => Stands(file)'
    BY DEF Settled
  <2>1. /\ ~outlived /\ sched.at = "rest" /\ closer'.at = "save"
        /\ UNCHANGED <<m, sched, file, standing>>
    BY <1>13 DEF CloseBegin, CloseStep
  <2> QED
    BY <2>1 DEF Settled, Stands, Proven
<1>14. CASE CloseLooks \/ CloseSave \/ CloseWrite
  <2> SUFFICES ASSUME ~outlived
               PROVE  /\ sched'.at = "rest"
                      /\ Stands(m)'
                      /\ file' # None /\ Proven(file)' => Stands(file)'
                      /\ closer'.at = "write" => Pending(closer.snap)'
    BY <1>14 DEF Settled, CloseLooks, CloseSave, CloseWrite
  <2>1. /\ closer.at # "open" /\ m' = m
        /\ sched' = sched \/ sched' = Ended(sched)
    BY <1>14 DEF CloseLooks, CloseSave, CloseWrite, CloseStep
  <2>2. /\ sched.at = "rest" /\ Stands(m)
        /\ file # None /\ Proven(file) => Stands(file)
        /\ closer.at = "write" => Pending(closer.snap)
    BY <2>1 DEF Settled
  <2>3. sched'.at = "rest"
    BY <2>1, <2>2, ResetThread DEF Ended
  <2>4. CASE CloseLooks
    <3>1. closer'.at # "write" /\ UNCHANGED <<file, standing>>
      BY <2>4 DEF CloseLooks, CloseStep
    <3> QED
      BY <2>1, <2>2, <2>3, <3>1 DEF Stands, Proven
  <2>5. CASE CloseSave
    <3>1. closer'.snap = m /\ UNCHANGED <<file, standing>>
      BY <2>5 DEF CloseSave
    <3>2. Pending(closer.snap)'
      BY <2>1, <2>2, <3>1 DEF Pending, Stands, Stays
    <3> QED
      BY <2>1, <2>2, <2>3, <3>1, <3>2 DEF Stands, Proven
  <2>6. CASE CloseWrite
    <3>1. closer.at = "write" /\ closer'.at = "done" /\ Write(closer.snap)
      BY <2>6 DEF CloseWrite, CloseStep
    <3>2. closer.snap \in Saved /\ Own(closer.snap)
      BY <3>1 DEF Shaped, Snapped
    <3>3. Stands(m)' /\ (file' # None /\ Proven(file') => Stands(file)')
      BY <1>1, <2>1, <2>2, <3>1, <3>2, WriteStands
    <3> QED
      BY <2>3, <3>1, <3>3
  <2> QED
    BY <1>14, <2>4, <2>5, <2>6
<1>15. CASE Restart
  <2> SUFFICES ASSUME ~outlived
               PROVE  /\ closer'.at = "open" /\ sched'.at = "rest"
                      /\ Stands(m)'
                      /\ file' # None /\ Proven(file)' => Stands(file)'
    BY <1>15 DEF Settled, Restart
  <2>1. /\ closer'.at = "open" /\ sched'.at = "rest" /\ standing' = standing
        /\ \/ m' = Fresh /\ file' = None
           \/ file # None /\ Proven(file) /\ m' = file /\ file' = file
    BY <1>15, ResetThread DEF Restart
  <2>2. file # None /\ Proven(file) => Stands(file)
    BY DEF Settled
  <2>3. CASE m' = Fresh /\ file' = None
    BY <2>1, <2>3 DEF Stands, Clean, Fresh
  <2>4. CASE file # None /\ Proven(file) /\ m' = file /\ file' = file
    BY <2>1, <2>2, <2>4 DEF Stands
  <2> QED
    BY <2>1, <2>3, <2>4
<1>16. CASE UNCHANGED vars
  BY <1>16 DEF vars, Settled, Stands, Pending, Proven
<1> QED
  BY <1>2, <1>3, <1>4, <1>5, <1>6, <1>7, <1>8, <1>9, <1>10, <1>11, <1>12, <1>13, <1>14,
     <1>15, <1>16 DEF Next, Scheduler, Close

LEMMA InitIInv == Init => IInv
<1> SUFFICES ASSUME Init PROVE IInv
  OBVIOUS
<1>1. Shaped
  BY InitShaped
<1>2. Planned /\ Blamed
  BY DEF Init, Planned, Blamed, Fresh, Rest
<1>3. Settled
  BY DEF Init, Settled, Stands, Clean, Fresh, Rest
<1> QED
  BY <1>1, <1>2, <1>3 DEF IInv

\* Every reachable state satisfies the invariant.
THEOREM Invariance == Spec => []IInv
<1>1. Init => IInv
  BY InitIInv
<1>2. IInv /\ [Next]_vars => IInv'
  BY NextShaped, NextPlanned, NextBlamed, NextSettled DEF IInv
<1> QED
  BY <1>1, <1>2, PTL DEF Spec

\* The agent is well typed, and a candidate is compared only while it is there
\* (agent.py Agent._reset, Agent._qualify).
THEOREM AgentTyped == Spec => []TypeOK
<1>1. IInv => TypeOK
  <2> SUFFICES ASSUME IInv PROVE TypeOK
    OBVIOUS
  <2>1. /\ m \in Saved /\ file \in Saved \cup {None}
        /\ operator \in {"free", "off"} /\ dirty \in BOOLEAN /\ standing \subseteq Policies
    BY DEF IInv, Shaped, Typed
  <2>2. /\ live.errors \in 0 .. MaxErrors /\ live.errBy \cup live.failed \subseteq Schedules
        /\ Len(live.monitor) < MonitorWindow
    BY DEF IInv, Shaped, Typed, Counts
  <2>3. planner # None => planner.excluded \subseteq Behaviours /\ planner.incumbent \in Schedules
    BY DEF IInv, Shaped, Typed, Planners
  <2>4. sched.task \in {"none", "qualify", "audit"}
    BY DEF IInv, Shaped, Typed, Threads, Tasks
  <2>5. m.candidate # None \/ ~(sched.at \in {"bind", "arm", "finish", "qualify"}
                                /\ sched.task = "qualify")
    BY DEF IInv, Shaped, Working
  <2> QED
    BY <2>1, <2>2, <2>3, <2>4, <2>5 DEF TypeOK
<1> QED
  BY <1>1, Invariance, PTL

\* What was withdrawn neither serves nor is compared again, under its own digest
\* or a twin's, across plans, comparisons, the operator, saves and restarts, for
\* any schedules and behaviours (agent.py _collect_plan, _excluded, _load).
THEOREM WithdrawnOff == Spec => []WithdrawnStaysOff
<1>1. IInv => WithdrawnStaysOff
  <2> SUFFICES ASSUME IInv,
                      NEW p \in {m.policy} \cup
                                (IF m.candidate = None THEN {} ELSE {m.candidate.policy}),
                      p # None, ~outlived
               PROVE  p \notin Digests(m) /\ Behaviour[p] \notin WithdrawnBehaviours(m)
    BY DEF WithdrawnStaysOff
  <2>1. Clean(m)
    BY DEF IInv, Settled, Stands
  <2>2. p = m.policy \/ (m.candidate # None /\ p = m.candidate.policy)
    OBVIOUS
  <2> QED
    BY <2>1, <2>2 DEF Clean, Free
<1> QED
  BY <1>1, Invariance, PTL

\* Errors, failed windows and audits count against whom they were seen under
\* (agent.py _promote, _watch, _audit).
THEOREM BlamedForTheirOwn == Spec => []BlamedForOwn
<1>1. IInv => BlamedForOwn
  <2> SUFFICES ASSUME IInv PROVE BlamedForOwn
    OBVIOUS
  <2>1. m.policy # None => Suspects(live) \subseteq {m.policy, None}
    BY DEF IInv, Blamed
  <2>2. m.audit # None => m.audit.policy = m.policy
    BY DEF IInv, Shaped, Typed, Own
  <2>3. m.audit # None /\ sched.task = "audit" /\ sched.at \in {"arm", "finish", "audit"} =>
           sched.b = m.policy
    BY DEF IInv, Shaped, Working
  <2> QED
    BY <2>1, <2>2, <2>3 DEF BlamedForOwn, Suspects
<1> QED
  BY <1>1, Invariance, PTL

\* A policy serves only if it passed since the file last named it withdrawn
\* (agent.py _save, _load).
THEOREM StandingServes == Spec => []ServesStanding
<1>1. IInv => ServesStanding
  BY DEF IInv, Settled, Stands, ServesStanding
<1> QED
  BY <1>1, Invariance, PTL
=============================================================================
