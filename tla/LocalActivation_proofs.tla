----------------------- MODULE LocalActivation_proofs -----------------------
(***************************************************************************)
(* Theorems about LocalActivation, for every set of processes, classes and *)
(* builds and every bound: types, the gate, the kill, the recorded doubt   *)
(* and the kept epochs.                                                    *)
(*                                                                         *)
(* What one runtime holds (Good) does not mention the files, but for the   *)
(* kill record; so a step of one runtime keeps the others' part            *)
(* (RuntimeStep), and each action is proved about one record.              *)
(***************************************************************************)
EXTENDS LocalActivation, SequenceTheorems, TLAPS

-----------------------------------------------------------------------------
(* What holds of one runtime.  The gate's property is about a cohort that is   *)
(* being served; what makes it hold is the state the last dispatch, the load   *)
(* or a kill left behind.                                                      *)

Loading == {"down", "learner", "monitor"}

Busy(s) ==
  \/ s.phase \in {"decide", "serving", "checked"}
  \/ s.phase = "kill" /\ s.then \in {"serving", "checked"}

Shape(s) ==
  /\ s.phase # "down" => s.build \in Builds
  /\ Busy(s) => s.cohorts # <<>>

Gated(s) ==
  /\ s.phase \in Loading => s.gate = "none" /\ s.cache = <<>>
  /\ s.phase \notin Loading /\ ~s.enabled => s.gate \in {"none", "killed"}
  /\ ~s.stale => \A k \in DOMAIN s.cache : s.cache[k] = Decided(s, k)
  /\ s.phase = "kill" /\ s.then = "serving" =>
        s.current = "reference" /\ s.gate \in {"none", "killed"}

Chosen(s) ==
  s.phase = "serving" =>
        /\ (s.gate = "open") <=> (s.current = "candidate")
        /\ s.current = "candidate" =>
              /\ s.enabled /\ ~s.required
              /\ Head(s.cohorts).route = "interactive"
              /\ Qualified(s.learner, Head(s.cohorts).class)

Dead(s) ==
  s.late => /\ s.current = "reference"
            /\ s.phase \in {"learner", "monitor"} \/ ~s.enabled

Good(s) == s \in RuntimeType /\ Shape(s) /\ Gated(s) /\ Chosen(s) /\ Dead(s)

USE ClassAssumption, LimitAssumption

\* A partial function from cohorts to actions is a set of cached records.
LEMMA CachedType ==
  ASSUME NEW K \in SUBSET Cohort, NEW f \in [K -> Actions]
  PROVE  f \in CachedRecords
<1>1. [K -> Actions] \in {[J -> Actions] : J \in SUBSET Cohort}
  OBVIOUS
<1> QED
  BY <1>1 DEF CachedRecords

\* A partial function from keys to segments is a monitor's content.
LEMMA SegmentsType ==
  ASSUME NEW K \in SUBSET Keys, NEW f \in [K -> Segment]
  PROVE  f \in Segments
<1>1. [K -> Segment] \in {[J -> Segment] : J \in SUBSET Keys}
  OBVIOUS
<1> QED
  BY <1>1 DEF Segments

\* The empty one is both.
LEMMA NothingType ==
  <<>> \in CachedRecords /\ <<>> \in Segments /\ DOMAIN <<>> = {}
<1>1. <<>> \in [{} -> Actions] /\ <<>> \in [{} -> Segment]
  OBVIOUS
<1> QED
  BY <1>1, CachedType, SegmentsType

\* The gate decision of a cohort keeps what holds of a runtime: a record found
\* in the cache was decided on the learner's present evidence, or the cache
\* was thrown away (for_dispatch).
LEMMA ForDispatchKeeps ==
  ASSUME NEW s, Good(s), s.phase = "decide"
  PROVE  Good(ForDispatch(s)) /\ ForDispatch(s).required = s.required /\ ForDispatch(s).unwritten = s.unwritten
         /\ ForDispatch(s).late = s.late
<1> DEFINE cohort == Head(s.cohorts)
           fresh  == IF s.stale THEN [s EXCEPT !.cache = <<>>, !.stale = FALSE] ELSE s
           action == IF cohort \in DOMAIN fresh.cache THEN fresh.cache[cohort]
                     ELSE Decided(fresh, cohort)
           cached == [k \in DOMAIN fresh.cache \cup {cohort} |->
                        IF k = cohort THEN action ELSE fresh.cache[k]]
<1>1. s \in RuntimeType /\ s.cohorts # <<>> /\ s.cohorts \in Seq(Cohort)
  BY DEF Good, Shape, Busy, RuntimeType
<1>2. cohort \in Cohort
  BY <1>1
<1>3. CASE ~s.enabled \/ s.gate \in {"none", "killed"}
  <2>1. ForDispatch(s) = Served(s, "reference")
    BY <1>3 DEF ForDispatch
  <2>2. s.gate \in {"none", "killed"}
    BY <1>3 DEF Good, Gated, Loading
  <2>3. Served(s, "reference") \in RuntimeType
    BY <1>1 DEF Served, RuntimeType, Phases, Actions
  <2> QED
    BY <2>1, <2>2, <2>3, <1>1 DEF Served, Good, Shape, Busy, Gated, Chosen, Dead, Loading, RuntimeType, Decided
<1>4. CASE s.enabled /\ s.gate \in {"shut", "open"} /\ s.required
  <2> DEFINE t == Served([s EXCEPT !.gate = "shut"], "reference")
  <2>1. ForDispatch(s) = t
    BY <1>4 DEF ForDispatch
  <2>2. t \in RuntimeType
    BY <1>1 DEF Served, RuntimeType, Phases, Actions
  <2>3. /\ t.phase = "serving" /\ t.current = "reference" /\ t.gate = "shut"
        /\ t.cache = s.cache /\ t.learner = s.learner /\ t.late = s.late
        /\ t.build = s.build /\ t.cohorts = s.cohorts /\ t.required = s.required /\ t.unwritten = s.unwritten
        /\ t.enabled = s.enabled /\ t.stale = s.stale
    BY <1>1 DEF Served, RuntimeType
  <2> HIDE DEF t
  <2> QED
    BY <2>1, <2>2, <2>3, <1>1, <1>4 DEF Good, Shape, Busy, Gated, Chosen, Dead, Loading, RuntimeType, Decided
<1>5. CASE /\ s.enabled /\ s.gate \in {"shut", "open"} /\ ~s.required
           /\ s.stale /\ ~Qualified(s.learner, cohort.class)
  <2> DEFINE t == Killed([s EXCEPT !.current = "reference"], "serving")
  <2>1. ForDispatch(s) = t
    BY <1>5 DEF ForDispatch
  <2>2. t \in RuntimeType
    <3>1. <<>> \in CachedRecords
      BY NothingType
    <3> QED
      BY <3>1, <1>1 DEF Killed, RuntimeType, Phases, Actions
  <2> QED
    BY <2>1, <2>2, <1>1, <1>5 DEF Killed, Good, Shape, Busy, Gated, Chosen, Dead, Loading, RuntimeType, Decided
<1>6. CASE /\ s.enabled /\ s.gate \in {"shut", "open"} /\ ~s.required
           /\ ~(s.stale /\ ~Qualified(s.learner, cohort.class))
  <2> DEFINE g == IF action = "candidate" THEN "open" ELSE "shut"
             t == Served([fresh EXCEPT !.cache = cached, !.gate = g], action)
  <2>1. ForDispatch(s) = t
    BY <1>6 DEF ForDispatch
  <2>2. fresh \in RuntimeType
    <3>1. <<>> \in CachedRecords
      BY NothingType
    <3> QED
      BY <3>1, <1>1 DEF RuntimeType
  <2>3. /\ fresh.learner = s.learner /\ fresh.late = s.late /\ fresh.build = s.build
        /\ fresh.cohorts = s.cohorts /\ fresh.required = s.required /\ fresh.unwritten = s.unwritten
        /\ fresh.enabled = s.enabled
    BY <1>1 DEF RuntimeType
  <2>4. \A k \in DOMAIN fresh.cache : fresh.cache[k] = Decided(s, k)
    BY <1>1 DEF Good, Gated, RuntimeType
  <2>5. Decided(fresh, cohort) = Decided(s, cohort)
    BY <2>3 DEF Decided
  <2>6. action = Decided(s, cohort)
    BY <2>4, <2>5
  <2>7. action \in Actions
    BY <2>6 DEF Decided, Actions
  <2>8. cached \in CachedRecords
    <3>1. PICK K \in SUBSET Cohort : fresh.cache \in [K -> Actions]
      BY <2>2 DEF RuntimeType, CachedRecords
    <3>2. cached \in [K \cup {cohort} -> Actions]
      BY <3>1, <2>7
    <3> QED
      BY <3>2, <1>2, CachedType
  <2>9. \A k \in DOMAIN cached : cached[k] = Decided(s, k)
    BY <2>4, <2>6
  <2>10. t \in RuntimeType
    <3> HIDE DEF fresh, action, cached
    <3> QED
      BY <2>2, <2>7, <2>8 DEF Served, RuntimeType, Phases
  <2>11. /\ t.phase = "serving" /\ t.current = action /\ t.gate = g /\ t.cache = cached
         /\ t.learner = s.learner /\ t.late = s.late /\ t.build = s.build
         /\ t.cohorts = s.cohorts /\ t.required = s.required /\ t.unwritten = s.unwritten /\ t.enabled = s.enabled
    <3> HIDE DEF fresh, action, cached, g
    <3> QED
      BY <2>2, <2>3 DEF Served, RuntimeType
  <2>12. \A k \in DOMAIN t.cache : t.cache[k] = Decided(t, k)
    <3> HIDE DEF cached, t
    <3> QED
      BY <2>9, <2>11 DEF Decided
  <2>13. action = "candidate" => cohort.route = "interactive" /\ Qualified(s.learner, cohort.class)
    BY <2>6 DEF Decided
  <2>14. ~s.late
    BY <1>6, <1>1 DEF Good, Dead
  <2> HIDE DEF t, action, cached, fresh
  <2> QED
    BY <2>1, <2>10, <2>11, <2>12, <2>13, <2>14, <1>1, <1>6
    DEF Good, Shape, Busy, Gated, Chosen, Dead, Loading
<1> QED
  BY <1>1, <1>3, <1>4, <1>5, <1>6 DEF RuntimeType

-----------------------------------------------------------------------------
(* The inductive invariant. *)

\* Between the archive and the write, what will be replaced is archived.
EpochsInv ==
  /\ EpochsKept
  /\ requal.phase = "write" => controller \in archived \cup {None}

\* A late runtime remembers a kill, and the kill record is never removed.
RuntimesInv == \A r \in Runtimes : Good(rt[r]) /\ (rt[r].late => killed)

IInv ==
  /\ TypeOK
  /\ RuntimesInv
  /\ requal.phase # "idle" => requal.build \in Builds
  /\ EpochsInv
  /\ DoubtRecorded

\* A learner that knows nothing.
LEMMA NoLearnerType ==
  NoLearner \in Learner /\ \A c \in Classes : NoLearner[c].sessions = 0
<1>1. NoEvidence \in Evidence
  BY DEF NoEvidence, Evidence, Intervals
<1> QED
  BY <1>1 DEF NoLearner, Learner, NoEvidence

\* A process without a runtime.
LEMMA OffGood == Good(Off)
<1>1. Off \in RuntimeType
  BY NothingType, NoLearnerType DEF Off, RuntimeType, Phases, Actions
<1> QED
  BY <1>1, NothingType DEF Off, Good, Shape, Busy, Gated, Chosen, Dead, Loading

\* The initial states satisfy the invariant.
LEMMA InitIInv == Init => IInv
<1> SUFFICES ASSUME Init PROVE IInv
  OBVIOUS
<1>1. controller \in ControllerFile \cup {None}
  <2>1. \A n \in 0 .. MinSessions : [NoLearner EXCEPT ![Probe] =
                [sessions |-> MinSessions, readable |-> n, interval |-> "below"]] \in Learner
    BY NoLearnerType DEF Learner, Evidence, Intervals
  <2>2. CASE controller = None
    BY <2>2
  <2>3. CASE controller # None
    <3>1. PICK n \in {MinSessions - 1, MinSessions} :
             controller = [build |-> build, learner |-> [NoLearner EXCEPT ![Probe] =
                [sessions |-> MinSessions, readable |-> n, interval |-> "below"]]]
      BY <2>3 DEF Init
    <3>2. n \in 0 .. MinSessions
      OBVIOUS
    <3> QED
      BY <2>1, <3>1, <3>2 DEF Init, ControllerFile
  <2> QED
    BY <2>2, <2>3
<1>2. rt \in [Runtimes -> RuntimeType] /\ RuntimesInv
  BY OffGood DEF Init, RuntimesInv, Good, Off
<1>3. TypeOK
  <2>1. spent \in SpentType
    BY DEF Init, SpentType
  <2>2. requal \in RequalificationType
    BY DEF Init, RequalificationType, NoRequalification
  <2>3. epochs \in SUBSET ControllerFile
    BY <1>1 DEF Init
  <2>4. /\ build \in Builds /\ archived = {} /\ killed = FALSE /\ required = FALSE
        /\ cleared = FALSE /\ monitorFile = None
    BY DEF Init
  <2> QED
    BY <1>1, <1>2, <2>1, <2>2, <2>3, <2>4 DEF TypeOK
<1> QED
  BY <1>2, <1>3 DEF Init, IInv, EpochsInv, EpochsKept, DoubtRecorded, NoRequalification, Off

\* A step of one runtime: what has to be shown of its new record and of the
\* files it writes.
LEMMA RuntimeStep ==
  ASSUME IInv, NEW r \in Runtimes, NEW t, rt' = [rt EXCEPT ![r] = t],
         Good(t), t.late => killed',
         t.required /\ ~t.unwritten => required' \/ cleared,
         build' = build, controller' = controller, archived' = archived,
         epochs' = epochs, cleared' = cleared, requal' = requal,
         spent' \in SpentType, killed' \in BOOLEAN, killed => killed',
         required' \in BOOLEAN, required => required',
         monitorFile' \in MonitorFile \cup {None},
         monitorFile' # None /\ monitorFile'.required /\ ~monitorFile'.unwritten
           => required' \/ cleared
  PROVE  IInv'
<1>1. rt'[r] = t /\ \A q \in Runtimes \ {r} : rt'[q] = rt[q]
  BY DEF IInv, TypeOK
<1>2. TypeOK'
  BY DEF IInv, TypeOK, Good
<1>3. RuntimesInv'
  BY <1>1 DEF IInv, RuntimesInv, Good, Shape, Busy, Gated, Chosen, Dead
<1>4. EpochsInv' /\ (requal'.phase # "idle" => requal'.build \in Builds)
  BY DEF IInv, EpochsInv, EpochsKept
<1>5. DoubtRecorded'
  BY <1>1 DEF IInv, DoubtRecorded
<1> QED
  BY <1>2, <1>3, <1>4, <1>5 DEF IInv

\* The bounds are kept.
LEMMA SpendType ==
  ASSUME spent \in SpentType
  PROVE  /\ Spend("dispatches", MaxDispatches) => spent' \in SpentType
         /\ Spend("faults", MaxFaults) => spent' \in SpentType
         /\ Spend("requalifications", MaxRequalifications) => spent' \in SpentType
         /\ Spend("builds", MaxBuilds) => spent' \in SpentType
         /\ Spend("offers", MaxOffers) => spent' \in SpentType
BY DEF Spend, SpentType

\* What restore() of the learner returns.
LEMMA RestoreType ==
  ASSUME controller \in ControllerFile \cup {None}
  PROVE  Restore(build) \in Learner
BY NoLearnerType DEF Restore, ControllerFile

\* What kill() in memory changes and leaves.
LEMMA KilledKeeps ==
  ASSUME NEW s \in RuntimeType, NEW n \in {"idle", "serving", "checked", "observe"}
  PROVE  /\ Killed(s, n) \in RuntimeType
         /\ Killed(s, n).phase = "kill" /\ Killed(s, n).then = n
         /\ ~Killed(s, n).enabled /\ Killed(s, n).cache = <<>>
         /\ Killed(s, n).gate \in {"none", "killed"}
         /\ Killed(s, n).build = s.build /\ Killed(s, n).learner = s.learner
         /\ Killed(s, n).required = s.required /\ Killed(s, n).unwritten = s.unwritten /\ Killed(s, n).late = s.late
         /\ Killed(s, n).cohorts = s.cohorts /\ Killed(s, n).current = s.current
<1> DEFINE g == IF s.gate = "none" THEN "none" ELSE "killed"
<1>1. Killed(s, n) \in RuntimeType
  <2>1. Killed(s, n) = [s EXCEPT !.phase = "kill", !.then = n, !.enabled = FALSE,
                                 !.cache = <<>>, !.gate = g]
    BY DEF Killed
  <2>2. g \in {"none", "shut", "open", "killed"}
    OBVIOUS
  <2> HIDE DEF g
  <2> QED
    BY <2>1, <2>2, NothingType DEF RuntimeType, Phases
<1>2. /\ Killed(s, n).phase = "kill" /\ Killed(s, n).then = n
      /\ ~Killed(s, n).enabled /\ Killed(s, n).cache = <<>>
  BY DEF Killed, RuntimeType
<1>4. Killed(s, n).gate = g
  BY DEF Killed, RuntimeType
<1>3. /\ Killed(s, n).build = s.build /\ Killed(s, n).learner = s.learner
      /\ Killed(s, n).required = s.required /\ Killed(s, n).unwritten = s.unwritten /\ Killed(s, n).late = s.late
      /\ Killed(s, n).cohorts = s.cohorts /\ Killed(s, n).current = s.current
  BY DEF Killed, RuntimeType
<1> QED
  BY <1>1, <1>2, <1>3, <1>4

\* A runtime that kills its candidate is in order.
LEMMA KilledGood ==
  ASSUME NEW s \in RuntimeType, NEW n \in {"idle", "serving", "checked", "observe"},
         s.build \in Builds,
         n \in {"serving", "checked"} => s.cohorts # <<>>,
         n = "serving" => s.current = "reference",
         s.late => s.current = "reference"
  PROVE  Good(Killed(s, n))
BY KilledKeeps, NothingType DEF Good, Shape, Busy, Gated, Chosen, Dead, Loading

\* load(): a runtime that starts while the kill record exists is late.
LEMMA LoadIInv ==
  ASSUME IInv, NEW r \in Runtimes, Load(r)
  PROVE  IInv'
<1>1. PICK enable \in BOOLEAN :
         rt' = [rt EXCEPT ![r] = [Off EXCEPT !.phase = "learner", !.build = build,
                                             !.learner = Restore(build),
                                             !.enabled = enable, !.late = killed]]
  BY DEF Load
<1> DEFINE t == [Off EXCEPT !.phase = "learner", !.build = build,
                            !.learner = Restore(build), !.enabled = enable,
                            !.late = killed]
<1>2. t \in RuntimeType
  BY OffGood, RestoreType DEF Good, RuntimeType, Phases, IInv, TypeOK
<1>3. /\ t.phase = "learner" /\ t.build = build /\ t.late = killed /\ t.required = FALSE
      /\ t.gate = "none" /\ t.cache = <<>> /\ t.current = "reference"
  BY DEF Off
<1>4. Good(t)
  BY <1>2, <1>3, NothingType DEF Good, Shape, Busy, Gated, Chosen, Dead, Loading, IInv, TypeOK
<1>0. rt' = [rt EXCEPT ![r] = t]
  BY <1>1
<1> HIDE DEF t
<1>5. /\ build' = build /\ controller' = controller /\ archived' = archived
      /\ epochs' = epochs /\ cleared' = cleared /\ requal' = requal
      /\ spent' = spent /\ killed' = killed /\ required' = required
      /\ monitorFile' = monitorFile
  BY DEF Load, files
<1>6. /\ killed \in BOOLEAN /\ required \in BOOLEAN /\ spent \in SpentType
      /\ monitorFile \in MonitorFile \cup {None}
  BY DEF IInv, TypeOK
<1>7. monitorFile # None /\ monitorFile.required /\ ~monitorFile.unwritten
           => required \/ cleared
  BY DEF IInv, DoubtRecorded
<1> QED
  BY <1>0, <1>3, <1>4, <1>5, <1>6, <1>7, RuntimeStep

\* A step of one runtime that leaves the files alone.
LEMMA QuietStep ==
  ASSUME IInv, NEW r \in Runtimes, NEW t, rt' = [rt EXCEPT ![r] = t],
         Good(t), t.late => rt[r].late, t.required /\ ~t.unwritten => rt[r].required /\ ~rt[r].unwritten,
         build' = build, files' = files, requal' = requal, spent' \in SpentType
  PROVE  IInv'
<1>1. /\ controller' = controller /\ archived' = archived /\ epochs' = epochs
      /\ cleared' = cleared /\ killed' = killed /\ required' = required
      /\ monitorFile' = monitorFile
  BY DEF files
<1>2. /\ killed \in BOOLEAN /\ required \in BOOLEAN
      /\ monitorFile \in MonitorFile \cup {None}
  BY DEF IInv, TypeOK
<1>3. /\ rt[r].late => killed
      /\ rt[r].required /\ ~rt[r].unwritten => required \/ cleared
      /\ monitorFile # None /\ monitorFile.required /\ ~monitorFile.unwritten
           => required \/ cleared
  BY DEF IInv, DoubtRecorded, RuntimesInv
<1> QED
  BY <1>1, <1>2, <1>3, RuntimeStep

\* load(): the monitor takes up recorded doubt.
LEMMA RestoreMonitorIInv ==
  ASSUME IInv, NEW r \in Runtimes, RestoreMonitor(r)
  PROVE  IInv'
<1> DEFINE s == rt[r]
           q == required \/ (monitorFile # None /\ monitorFile.required)
           g == IF monitorFile = None THEN <<>> ELSE monitorFile.segments
           u == ~required /\ monitorFile # None /\ monitorFile.unwritten
           t == [s EXCEPT !.phase = "monitor", !.required = q, !.unwritten = u, !.segments = g]
<1>1. s \in RuntimeType /\ Good(s) /\ s.phase = "learner" /\ (s.late => killed)
  BY DEF IInv, TypeOK, RuntimesInv, RestoreMonitor
<1>2. q \in BOOLEAN /\ u \in BOOLEAN /\ g \in Segments
  BY NothingType DEF IInv, TypeOK, MonitorFile
<1>3. rt' = [rt EXCEPT ![r] = t]
  BY DEF IInv, TypeOK, RestoreMonitor
<1>4. q /\ ~u => required \/ cleared
  BY DEF IInv, DoubtRecorded
<1> HIDE DEF q, u, g
<1>5. t \in RuntimeType
  BY <1>1, <1>2 DEF RuntimeType, Phases
<1>6. /\ t.phase = "monitor" /\ t.build = s.build /\ t.late = s.late /\ t.required = q
      /\ t.unwritten = u
      /\ t.gate = s.gate /\ t.cache = s.cache /\ t.current = s.current
      /\ t.stale = s.stale /\ t.learner = s.learner
  BY <1>1 DEF RuntimeType
<1> HIDE DEF t
<1>7. Good(t)
  BY <1>1, <1>5, <1>6, NothingType DEF Good, Shape, Busy, Gated, Chosen, Dead, Loading, Decided
<1>8. /\ build' = build /\ controller' = controller /\ archived' = archived
      /\ epochs' = epochs /\ cleared' = cleared /\ requal' = requal
      /\ spent' = spent /\ killed' = killed /\ required' = required
      /\ monitorFile' = monitorFile
  BY DEF RestoreMonitor, files
<1>9. /\ killed \in BOOLEAN /\ required \in BOOLEAN /\ spent \in SpentType
      /\ monitorFile \in MonitorFile \cup {None}
      /\ monitorFile # None /\ monitorFile.required /\ ~monitorFile.unwritten
           => required \/ cleared
  BY DEF IInv, TypeOK, DoubtRecorded
<1> QED
  BY <1>1, <1>3, <1>4, <1>6, <1>7, <1>8, <1>9, RuntimeStep

\* admit(): late runtimes are not enabled.
LEMMA AdmitIInv ==
  ASSUME IInv, NEW r \in Runtimes, Admit(r)
  PROVE  IInv'
<1> DEFINE e == rt[r].enabled /\ ~ReadKill
           s == [rt[r] EXCEPT !.enabled = e, !.phase = "idle"]
           t == [s EXCEPT !.gate = "shut"]
           k == Killed(s, "idle")
<1>1. /\ rt[r] \in RuntimeType /\ Good(rt[r]) /\ rt[r].phase = "monitor"
      /\ rt[r].late => killed
  BY DEF IInv, TypeOK, RuntimesInv, Admit
<1>2. e \in BOOLEAN /\ (rt[r].late => ~e) /\ (killed => ~e)
  BY <1>1 DEF ReadKill, IInv, TypeOK, RuntimeType
<1>3. \/ rt' = [rt EXCEPT ![r] = s]
      \/ s.enabled /\ rt' = [rt EXCEPT ![r] = t]
      \/ rt' = [rt EXCEPT ![r] = k]
  BY DEF Admit
<1> HIDE DEF e
<1>4. s \in RuntimeType
  BY <1>1, <1>2 DEF RuntimeType, Phases
<1>5. /\ s.phase = "idle" /\ s.build = rt[r].build /\ s.late = rt[r].late
      /\ s.required = rt[r].required /\ s.unwritten = rt[r].unwritten /\ s.gate = rt[r].gate /\ s.cache = rt[r].cache
      /\ s.current = rt[r].current /\ s.enabled = e
  BY <1>1 DEF RuntimeType
<1> HIDE DEF s
<1>6. /\ s.cache = <<>> /\ s.gate = "none" /\ s.build \in Builds
      /\ s.late => s.current = "reference" /\ ~e
  BY <1>1, <1>2, <1>5 DEF Good, Shape, Gated, Dead, Loading
<1>7. Good(s)
  BY <1>4, <1>5, <1>6, NothingType DEF Good, Shape, Busy, Gated, Chosen, Dead, Loading
<1>8. CASE s.enabled /\ rt' = [rt EXCEPT ![r] = t]
  <2>1. t \in RuntimeType
    BY <1>4 DEF RuntimeType
  <2>2. /\ t.phase = "idle" /\ t.build = s.build /\ t.late = s.late
        /\ t.required = s.required /\ t.unwritten = s.unwritten /\ t.gate = "shut" /\ t.cache = s.cache
        /\ t.current = s.current /\ t.enabled = s.enabled
    BY <1>4, <1>5 DEF RuntimeType
  <2> HIDE DEF t
  <2>3. Good(t)
    BY <1>5, <1>6, <1>8, <2>1, <2>2, NothingType
    DEF Good, Shape, Busy, Gated, Chosen, Dead, Loading
  <2> QED
    BY <1>5, <1>8, <2>2, <2>3, QuietStep DEF Admit, IInv, TypeOK
<1>9. CASE rt' = [rt EXCEPT ![r] = s]
  BY <1>5, <1>7, <1>9, QuietStep DEF Admit, IInv, TypeOK
<1>10. CASE rt' = [rt EXCEPT ![r] = k]
  <2>1. Good(k) /\ k.late = s.late /\ k.required = s.required /\ k.unwritten = s.unwritten
    BY <1>4, <1>5, <1>6, KilledGood, KilledKeeps
  <2> QED
    BY <1>5, <1>10, <2>1, QuietStep DEF Admit, IInv, TypeOK
<1> QED
  BY <1>3, <1>8, <1>9, <1>10

\* A dispatch that ends early: what was served is still observed.
LEMMA EndedGood ==
  ASSUME NEW s, Good(s), s.phase \notin Loading
  PROVE  LET t == [s EXCEPT !.cohorts = <<>>, !.phase = "observe", !.current = "reference"]
         IN  Good(t) /\ t.late = s.late /\ t.required = s.required /\ t.unwritten = s.unwritten
             /\ t.build \in Builds /\ t.current = "reference"
<1> DEFINE t == [s EXCEPT !.cohorts = <<>>, !.phase = "observe", !.current = "reference"]
<1>1. s \in RuntimeType
  BY DEF Good
<1>0. <<>> \in Seq(Cohort) /\ "reference" \in Actions
  BY DEF Actions
<1>2. t \in RuntimeType
  BY <1>0, <1>1 DEF RuntimeType, Phases
<1>3. /\ t.phase = "observe" /\ t.build = s.build /\ t.late = s.late
      /\ t.required = s.required /\ t.unwritten = s.unwritten /\ t.gate = s.gate /\ t.cache = s.cache
      /\ t.current = "reference" /\ t.enabled = s.enabled /\ t.stale = s.stale
      /\ t.learner = s.learner
  BY <1>1 DEF RuntimeType
<1> HIDE DEF t
<1>4. Good(t)
  BY <1>2, <1>3 DEF Good, Shape, Busy, Gated, Chosen, Dead, Loading, Decided
<1>5. t.build \in Builds
  BY <1>3 DEF Good, Shape, Loading
<1> QED
  BY <1>3, <1>4, <1>5 DEF t

\* write_kill(), which may fail.
LEMMA WriteKillIInv ==
  ASSUME IInv, NEW r \in Runtimes, WriteKill(r)
  PROVE  IInv'
<1> DEFINE s == rt[r]
           t == [s EXCEPT !.phase = s.then]
           u == [s EXCEPT !.cohorts = <<>>, !.phase = "observe", !.current = "reference"]
<1>1. /\ s \in RuntimeType /\ Good(s) /\ s.phase = "kill" /\ s.phase \notin Loading
      /\ s.late => killed
  BY DEF IInv, TypeOK, RuntimesInv, WriteKill, Loading
<1>2. /\ build' = build /\ controller' = controller /\ archived' = archived
      /\ epochs' = epochs /\ cleared' = cleared /\ requal' = requal
      /\ required' = required /\ monitorFile' = monitorFile
  BY DEF WriteKill
<1>3. CASE killed' = TRUE /\ rt' = [rt EXCEPT ![r] = t] /\ spent' = spent
  <2>1. t \in RuntimeType
    BY <1>1 DEF RuntimeType, Phases
  <2>2. /\ t.phase = s.then /\ t.build = s.build /\ t.late = s.late
        /\ t.required = s.required /\ t.unwritten = s.unwritten /\ t.gate = s.gate /\ t.cache = s.cache
        /\ t.current = s.current /\ t.enabled = s.enabled /\ t.stale = s.stale
        /\ t.learner = s.learner /\ t.cohorts = s.cohorts /\ t.then = s.then
        /\ s.then \in {"idle", "serving", "checked", "observe"}
    BY <1>1 DEF RuntimeType
  <2> HIDE DEF t
  <2>3. Good(t)
    BY <1>1, <2>1, <2>2 DEF Good, Shape, Busy, Gated, Chosen, Dead, Loading, Decided
  <2>4. /\ killed \in BOOLEAN /\ required \in BOOLEAN /\ spent \in SpentType
        /\ monitorFile \in MonitorFile \cup {None}
        /\ monitorFile # None /\ monitorFile.required /\ ~monitorFile.unwritten
           => required \/ cleared
        /\ s.required /\ ~s.unwritten => required \/ cleared
    BY DEF IInv, TypeOK, DoubtRecorded
  <2> QED
    BY <1>1, <1>2, <1>3, <2>2, <2>3, <2>4, RuntimeStep
<1>4. CASE /\ Spend("faults", MaxFaults) /\ killed' = killed
           /\ rt' = [rt EXCEPT ![r] = IF s.then = "idle" THEN Off ELSE u]
  <2>1. spent' \in SpentType /\ files' = files
    BY <1>2, <1>4, SpendType DEF IInv, TypeOK, files
  <2>2. Good(u) /\ u.late = s.late /\ u.required = s.required /\ u.unwritten = s.unwritten
    BY <1>1, EndedGood
  <2>3. Off.late = FALSE /\ Off.required = FALSE
    BY DEF Off
  <2> HIDE DEF u
  <2>4. CASE s.then = "idle"
    BY <1>2, <1>4, <2>1, <2>3, <2>4, OffGood, QuietStep
  <2>5. CASE s.then # "idle"
    BY <1>2, <1>4, <2>1, <2>2, <2>5, QuietStep
  <2> QED
    BY <2>4, <2>5
<1>5. \/ killed' = TRUE /\ rt' = [rt EXCEPT ![r] = t] /\ spent' = spent
      \/ /\ Spend("faults", MaxFaults) /\ killed' = killed
         /\ rt' = [rt EXCEPT ![r] = IF s.then = "idle" THEN Off ELSE u]
  BY DEF WriteKill, IInv, TypeOK
<1> QED
  BY <1>3, <1>4, <1>5

\* plan() returns at least one cohort.
LEMMA PlansType ==
  ASSUME NEW p \in Plans
  PROVE  p \in Seq(Cohort) /\ p # <<>>
<1>1. \A o, n, c : c \in Classes \cup {Unnamed} =>
         [class |-> c, route |-> Route(o, n)] \in Cohort
  BY DEF Route, Cohort
<1> DEFINE cohorts(o, n) ==
              {[class |-> c, route |-> Route(o, n)] : c \in Classes \cup {Unnamed}}
           plans(l, t) ==
              CASE t = 0 -> {<<a>> : a \in cohorts("latency", l)}
                [] l = 0 -> {<<b>> : b \in cohorts("throughput", t)}
                [] OTHER -> UNION {{<<a, b>>, <<b, a>>} :
                               a \in cohorts("latency", l), b \in cohorts("throughput", t)}
<1>2. \A o, n : cohorts(o, n) \subseteq Cohort
  BY <1>1
<1> HIDE DEF cohorts
<1>3. PICK l \in Nat, t \in Nat : p \in plans(l, t) /\ (l # 0 \/ t # 0)
  BY DEF Plans, cohorts
<1>4. CASE t = 0
  <2>0. p \in {<<a>> : a \in cohorts("latency", l)}
    BY <1>3, <1>4
  <2>1. PICK a \in cohorts("latency", l) : p = <<a>>
    BY <2>0
  <2> QED
    BY <1>2, <2>1
<1>5. CASE t # 0 /\ l = 0
  <2>1. PICK b \in cohorts("throughput", t) : p = <<b>>
    BY <1>3, <1>5
  <2> QED
    BY <1>2, <2>1
<1>6. CASE t # 0 /\ l # 0
  <2>1. PICK a \in cohorts("latency", l), b \in cohorts("throughput", t) :
           p = <<a, b>> \/ p = <<b, a>>
    BY <1>3, <1>6
  <2>2. a \in Cohort /\ b \in Cohort
    BY <1>2
  <2>3. <<a, b>> \in Seq(Cohort) /\ <<b, a>> \in Seq(Cohort)
    BY <2>2
  <2>4. <<a, b>> # <<>> /\ <<b, a>> # <<>>
    OBVIOUS
  <2> QED
    BY <2>1, <2>3, <2>4
<1> QED
  BY <1>4, <1>5, <1>6

\* serve(): the plan of a dispatch.
LEMMA ServeIInv ==
  ASSUME IInv, NEW r \in Runtimes, Serve(r)
  PROVE  IInv'
<1> DEFINE s == rt[r]
<1>1. /\ s \in RuntimeType /\ Good(s) /\ s.phase = "idle"
  BY DEF IInv, TypeOK, RuntimesInv, Serve
<1>2. PICK p \in Plans :
         rt' = [rt EXCEPT ![r].phase = "decide", ![r].cohorts = p, ![r].served = <<>>,
                          ![r].moved = FALSE]
  BY DEF Serve
<1> DEFINE t == [s EXCEPT !.phase = "decide", !.cohorts = p, !.served = <<>>,
                          !.moved = FALSE]
<1>3. rt' = [rt EXCEPT ![r] = t]
  BY <1>2 DEF IInv, TypeOK
<1>0. <<>> \in Seq(ServedCohort) /\ p \in Seq(Cohort)
  BY PlansType
<1>4. t \in RuntimeType
  BY <1>0, <1>1 DEF RuntimeType, Phases
<1>5. /\ t.phase = "decide" /\ t.build = s.build /\ t.late = s.late
      /\ t.required = s.required /\ t.unwritten = s.unwritten /\ t.gate = s.gate /\ t.cache = s.cache
      /\ t.current = s.current /\ t.enabled = s.enabled /\ t.stale = s.stale
      /\ t.learner = s.learner /\ t.cohorts = p
  BY <1>1 DEF RuntimeType
<1> HIDE DEF t
<1>6. Good(t)
  BY <1>1, <1>4, <1>5, PlansType DEF Good, Shape, Busy, Gated, Chosen, Dead, Loading, Decided
<1> QED
  BY <1>3, <1>5, <1>6, QuietStep, SpendType DEF Serve, IInv, TypeOK

\* The gate decision of the next cohort.
LEMMA DecideIInv ==
  ASSUME IInv, NEW r \in Runtimes, Decide(r)
  PROVE  IInv'
<1>1. Good(rt[r]) /\ rt[r].phase = "decide"
  BY DEF IInv, RuntimesInv, Decide
<1> QED
  BY <1>1, ForDispatchKeeps, QuietStep DEF Decide, IInv, TypeOK

\* A cohort is answered.
LEMMA AnswerIInv ==
  ASSUME IInv, NEW r \in Runtimes, Answer(r)
  PROVE  IInv'
<1> DEFINE s == rt[r]
           n == IF Len(s.cohorts) > 1 THEN "decide" ELSE "observe"
           h == Append(s.served, [class |-> Head(s.cohorts).class, action |-> s.current])
           t == Answered(s)
<1>1. /\ s \in RuntimeType /\ Good(s) /\ s.phase \in {"serving", "checked"}
  BY DEF IInv, TypeOK, RuntimesInv, Answer
<1>2. s.cohorts \in Seq(Cohort) /\ s.cohorts # <<>>
  BY <1>1 DEF Good, Shape, Busy, RuntimeType
<1>3. /\ Tail(s.cohorts) \in Seq(Cohort)
      /\ n = "decide" => Tail(s.cohorts) # <<>>
  <2>1. Tail(s.cohorts) \in Seq(Cohort) /\ Len(Tail(s.cohorts)) = Len(s.cohorts) - 1
    BY <1>2
  <2>2. n = "decide" => Len(Tail(s.cohorts)) > 0
    BY <1>2, <2>1
  <2>3. \A z \in Seq(Cohort) : Len(z) > 0 => z # <<>>
    OBVIOUS
  <2> HIDE DEF n
  <2> QED
    BY <2>1, <2>2, <2>3
<1>4. h \in Seq(ServedCohort)
  <2>1. Head(s.cohorts) \in Cohort
    BY <1>2
  <2>2. [class |-> Head(s.cohorts).class, action |-> s.current] \in ServedCohort
    BY <1>1, <2>1 DEF Cohort, ServedCohort, RuntimeType
  <2> QED
    BY <1>1, <2>2 DEF RuntimeType
<1>5. t = [s EXCEPT !.served = h, !.cohorts = Tail(s.cohorts), !.phase = n,
                    !.current = "reference"]
  BY DEF Answered
<1>6. n \in {"decide", "observe"} /\ "reference" \in Actions
  BY DEF Actions
<1> HIDE DEF n, h, t
<1>7. t \in RuntimeType
  BY <1>1, <1>3, <1>4, <1>5, <1>6 DEF RuntimeType, Phases
<1>8. /\ t.phase = n /\ t.build = s.build /\ t.late = s.late
      /\ t.required = s.required /\ t.unwritten = s.unwritten /\ t.gate = s.gate /\ t.cache = s.cache
      /\ t.current = "reference" /\ t.enabled = s.enabled /\ t.stale = s.stale
      /\ t.learner = s.learner /\ t.cohorts = Tail(s.cohorts)
  BY <1>1, <1>5 DEF RuntimeType
<1>9. Good(t)
  BY <1>1, <1>3, <1>6, <1>7, <1>8
  DEF Good, Shape, Busy, Gated, Chosen, Dead, Loading, Decided
<1> QED
  BY <1>8, <1>9, QuietStep DEF Answer, IInv, TypeOK, t

\* A fallback in the candidate's path.
LEMMA AnomalyIInv ==
  ASSUME IInv, NEW r \in Runtimes, Anomaly(r)
  PROVE  IInv'
<1>1. /\ rt[r] \in RuntimeType /\ Good(rt[r]) /\ rt[r].phase = "serving"
      /\ rt[r].current = "candidate"
  BY DEF IInv, TypeOK, RuntimesInv, Anomaly
<1>2. /\ Good(Killed(rt[r], "checked"))
      /\ Killed(rt[r], "checked").late = rt[r].late
      /\ Killed(rt[r], "checked").required = rt[r].required /\ Killed(rt[r], "checked").unwritten = rt[r].unwritten
  BY <1>1, KilledGood, KilledKeeps DEF Good, Shape, Busy, Dead
<1> QED
  BY <1>2, QuietStep, SpendType DEF Anomaly, IInv, TypeOK

\* The served cohort raises.
LEMMA RaiseIInv ==
  ASSUME IInv, NEW r \in Runtimes, Raise(r)
  PROVE  IInv'
<1> DEFINE u == [rt[r] EXCEPT !.cohorts = <<>>, !.phase = "observe", !.current = "reference"]
           k == Killed(u, "observe")
<1>1. Good(rt[r]) /\ rt[r].phase \notin Loading
  BY DEF IInv, RuntimesInv, Raise, Loading
<1>2. /\ Good(u) /\ u.late = rt[r].late /\ u.required = rt[r].required /\ u.unwritten = rt[r].unwritten
      /\ u.build \in Builds /\ u.current = "reference"
  BY <1>1, EndedGood
<1>3. rt' = [rt EXCEPT ![r] = u] \/ rt' = [rt EXCEPT ![r] = k]
  BY DEF Raise
<1> HIDE DEF u
<1>4. Good(k) /\ k.late = u.late /\ k.required = u.required /\ k.unwritten = u.unwritten
  BY <1>2, KilledGood, KilledKeeps DEF Good
<1>5. build' = build /\ files' = files /\ requal' = requal /\ spent' \in SpentType
  BY SpendType DEF Raise, IInv, TypeOK
<1> QED
  BY <1>2, <1>3, <1>4, <1>5, QuietStep

\* The process dies.
LEMMA CrashIInv ==
  ASSUME IInv, NEW r \in Runtimes, Crash(r)
  PROVE  IInv'
<1>1. Off.late = FALSE /\ Off.required = FALSE
  BY DEF Off
<1> QED
  BY <1>1, OffGood, QuietStep, SpendType DEF Crash, IInv, TypeOK

\* A session is offered to the learner: the records are stale from here on.
LEMMA OfferIInv ==
  ASSUME IInv, NEW r \in Runtimes, Offer(r)
  PROVE  IInv'
<1> DEFINE s == rt[r]
<1>1. s \in RuntimeType /\ Good(s) /\ s.phase = "idle"
  BY DEF IInv, TypeOK, RuntimesInv, Offer
<1>2. PICK c \in Classes, readable \in {0, 1}, i \in Intervals :
         rt' = [rt EXCEPT ![r].stale = TRUE,
                          ![r].learner[c] =
                    [sessions |-> Longer(s.learner[c].sessions, MinSessions),
                     readable |-> IF readable = 1
                                  THEN Longer(s.learner[c].readable, MinSessions)
                                  ELSE s.learner[c].readable,
                     interval |-> i]]
  BY DEF Offer
<1> DEFINE e == [sessions |-> Longer(s.learner[c].sessions, MinSessions),
                 readable |-> IF readable = 1
                              THEN Longer(s.learner[c].readable, MinSessions)
                              ELSE s.learner[c].readable,
                 interval |-> i]
           l == [s.learner EXCEPT ![c] = e]
           t == [s EXCEPT !.stale = TRUE, !.learner = l]
<1>3. e \in Evidence
  <2>1. s.learner[c] \in Evidence
    BY <1>1 DEF RuntimeType, Learner
  <2>2. \A m \in 0 .. MinSessions : Longer(m, MinSessions) \in 0 .. MinSessions
    BY DEF Longer
  <2> QED
    BY <2>1, <2>2 DEF Evidence
<1> HIDE DEF e
<1>4. l \in Learner
  BY <1>1, <1>3 DEF RuntimeType, Learner
<1>5. rt' = [rt EXCEPT ![r] = t]
  BY <1>1, <1>2 DEF IInv, TypeOK, RuntimeType, e
<1> HIDE DEF l
<1>6. t \in RuntimeType
  BY <1>1, <1>4 DEF RuntimeType
<1>7. /\ t.phase = "idle" /\ t.build = s.build /\ t.late = s.late
      /\ t.required = s.required /\ t.unwritten = s.unwritten /\ t.gate = s.gate /\ t.cache = s.cache
      /\ t.current = s.current /\ t.enabled = s.enabled /\ t.stale
  BY <1>1 DEF RuntimeType
<1> HIDE DEF t
<1>8. Good(t)
  BY <1>1, <1>6, <1>7 DEF Good, Shape, Busy, Gated, Chosen, Dead, Loading
<1> QED
  BY <1>5, <1>7, <1>8, QuietStep, SpendType DEF Offer, IInv, TypeOK

\* A segment after one more dispatch.
LEMMA ObservedType ==
  ASSUME NEW g \in Segment, NEW h \in Observed(g)
  PROVE  h \in Segment
<1>1. CASE g.state = "REQUALIFICATION_REQUIRED"
  BY <1>1 DEF Observed
<1>2. CASE g.state = "WARMING_UP"
  <2> DEFINE a == g.warmup + 1
             b == IF a >= BaselineMin THEN "MONITORING" ELSE g.state
  <2>1. h = [g EXCEPT !.warmup = a, !.state = b]
    BY <1>2 DEF Observed
  <2>2. /\ a \in 0 .. BaselineMin
        /\ b \in {"WARMING_UP", "MONITORING"}
        /\ b = "WARMING_UP" => a < BaselineMin
    BY <1>2 DEF Segment
  <2> HIDE DEF a, b
  <2> QED
    BY <2>1, <2>2 DEF Segment
<1>3. CASE g.state = "MONITORING"
  <2>1. Longer(g.window, Window) \in 0 .. Window
    BY DEF Longer, Segment
  <2>2. \/ h = [g EXCEPT !.window = Longer(g.window, Window)]
        \/ h = [g EXCEPT !.window = Longer(g.window, Window),
                         !.state = "REQUALIFICATION_REQUIRED"]
    BY <1>3 DEF Observed
  <2> QED
    BY <1>3, <2>1, <2>2 DEF Segment
<1> QED
  BY <1>1, <1>2, <1>3 DEF Segment

\* A new segment.
LEMMA NewSegmentType == NewSegment \in Segment
BY DEF NewSegment, Segment

\* What the monitor saves.
LEMMA SavedType ==
  ASSUME NEW g \in Segments
  PROVE  Saved(g) \in Segments
<1>1. PICK K \in SUBSET Keys : g \in [K -> Segment]
  BY DEF Segments
<1>2. Saved(g) \in [K -> Segment]
  BY <1>1, NewSegmentType DEF Saved
<1> QED
  BY <1>2, SegmentsType

\* _observe(): a drift is recorded before the runtime goes on.
LEMMA ObserveIInv ==
  ASSUME IInv, NEW r \in Runtimes, Observe(r)
  PROVE  IInv'
<1> DEFINE s == rt[r]
           v == Tail(s.served)
           c == Head(s.served).class
           k == <<s.build, c, Head(s.served).action>>
<1>1. /\ s \in RuntimeType /\ Good(s) /\ s.phase = "observe" /\ s.served # <<>>
      /\ s.late => killed
  BY DEF IInv, TypeOK, RuntimesInv, Observe
<1>2. s.served \in Seq(ServedCohort) /\ Head(s.served) \in ServedCohort /\ v \in Seq(ServedCohort)
  BY <1>1 DEF RuntimeType
<1>3. /\ build' = build /\ controller' = controller /\ archived' = archived
      /\ epochs' = epochs /\ cleared' = cleared /\ requal' = requal
      /\ killed' = killed /\ monitorFile' = monitorFile
  BY DEF Observe
<1>4. /\ killed \in BOOLEAN /\ required \in BOOLEAN /\ spent \in SpentType
      /\ monitorFile \in MonitorFile \cup {None}
      /\ monitorFile # None /\ monitorFile.required /\ ~monitorFile.unwritten
           => required \/ cleared
      /\ s.required /\ ~s.unwritten => required \/ cleared
  BY DEF IInv, TypeOK, DoubtRecorded
<1>5. CASE c = Unnamed
  <2> DEFINE t == [s EXCEPT !.served = v]
  <2>1. rt' = [rt EXCEPT ![r] = t] /\ required' = required /\ spent' = spent
    BY <1>5 DEF Observe, IInv, TypeOK
  <2> HIDE DEF v
  <2>2. t \in RuntimeType
    BY <1>1, <1>2 DEF RuntimeType
  <2>3. /\ t.phase = s.phase /\ t.build = s.build /\ t.late = s.late
        /\ t.required = s.required /\ t.unwritten = s.unwritten /\ t.gate = s.gate /\ t.cache = s.cache
        /\ t.current = s.current /\ t.enabled = s.enabled /\ t.stale = s.stale
        /\ t.learner = s.learner
    BY <1>1 DEF RuntimeType
  <2> HIDE DEF t
  <2>4. Good(t)
    BY <1>1, <2>2, <2>3 DEF Good, Shape, Busy, Gated, Chosen, Dead, Loading, Decided
  <2> QED
    BY <1>1, <1>3, <1>4, <2>1, <2>3, <2>4, RuntimeStep
<1>6. CASE c # Unnamed
  <2>1. PICK w \in Observed(SegmentOf(s.segments, k)) :
           LET moved  == w.state # SegmentOf(s.segments, k).state
               drifts == moved /\ w.state = "REQUALIFICATION_REQUIRED"
               seen   == [s EXCEPT !.segments = [j \in DOMAIN @ \cup {k} |->
                                                    IF j = k THEN w ELSE @[j]],
                                   !.required = @ \/ drifts]
           IN  \/ /\ rt' = [rt EXCEPT ![r] =
                        [seen EXCEPT !.served = Tail(@), !.moved = @ \/ moved,
                                     !.unwritten = @ /\ ~drifts]]
                  /\ required' = RecordAfter(drifts)
                  /\ UNCHANGED spent
               \/ /\ drifts /\ Spend("faults", MaxFaults)
                  /\ rt' = [rt EXCEPT ![r] =
                        [seen EXCEPT !.phase = "idle", !.served = <<>>,
                                     !.moved = FALSE, !.unwritten = ~required]]
                  /\ UNCHANGED required
    BY <1>6 DEF Observe
  <2> DEFINE m == s.moved \/ w.state # SegmentOf(s.segments, k).state
             d == w.state # SegmentOf(s.segments, k).state /\ w.state = "REQUALIFICATION_REQUIRED"
             q == s.required \/ d
             g == [j \in DOMAIN s.segments \cup {k} |-> IF j = k THEN w ELSE s.segments[j]]
             n == s.unwritten /\ ~d
             t == [s EXCEPT !.served = v, !.segments = g, !.moved = m, !.required = q,
                            !.unwritten = n]
             z == [s EXCEPT !.phase = "idle", !.served = <<>>, !.segments = g,
                            !.moved = FALSE, !.required = q, !.unwritten = ~required]
  <2>2. g \in Segments
    <3>1. PICK K \in SUBSET Keys : s.segments \in [K -> Segment]
      BY <1>1 DEF RuntimeType, Segments
    <3>2. SegmentOf(s.segments, k) \in Segment
      BY <3>1, NewSegmentType DEF SegmentOf
    <3>3. w \in Segment
      BY <3>2, ObservedType
    <3>4. k \in Keys
      BY <1>1, <1>2, <1>6 DEF Good, Shape, ServedCohort, Keys
    <3> HIDE DEF k
    <3>5. g \in [K \cup {k} -> Segment]
      BY <3>1, <3>3
    <3> QED
      BY <3>4, <3>5, SegmentsType
  <2>3. \/ rt' = [rt EXCEPT ![r] = t] /\ required' = (required \/ d) /\ spent' = spent
        \/ /\ rt' = [rt EXCEPT ![r] = z] /\ required' = required
           /\ Spend("faults", MaxFaults)
    <3> DEFINE x == [s EXCEPT !.segments = g, !.required = q]
               e == w.state # SegmentOf(s.segments, k).state
    <3>1. /\ x.moved = s.moved /\ x.unwritten = s.unwritten /\ x.served = s.served
      BY <1>1 DEF RuntimeType
    <3>2. \/ /\ rt' = [rt EXCEPT ![r] = [x EXCEPT !.served = Tail(x.served),
                                   !.moved = x.moved \/ e, !.unwritten = x.unwritten /\ ~d]]
             /\ required' = (required \/ d) /\ spent' = spent
          \/ /\ rt' = [rt EXCEPT ![r] = [x EXCEPT !.phase = "idle", !.served = <<>>,
                                   !.moved = FALSE, !.unwritten = ~required]]
             /\ required' = required /\ Spend("faults", MaxFaults)
      BY <2>1 DEF RecordAfter
    <3>3. m = (s.moved \/ e) /\ n = (s.unwritten /\ ~d) /\ v = Tail(s.served)
      OBVIOUS
    <3> HIDE DEF d, q, g, v, m, n, e
    <3>4. t = [x EXCEPT !.served = v, !.moved = m, !.unwritten = n]
      BY <1>1 DEF RuntimeType
    <3>5. z = [x EXCEPT !.phase = "idle", !.served = <<>>, !.moved = FALSE,
                        !.unwritten = ~required]
      BY <1>1 DEF RuntimeType
    <3> HIDE DEF x, t, z
    <3> QED
      BY <3>1, <3>2, <3>3, <3>4, <3>5
  <2>4. m \in BOOLEAN /\ q \in BOOLEAN /\ n \in BOOLEAN /\ (~required) \in BOOLEAN
    BY <1>1 DEF RuntimeType
  <2>5. q /\ ~n => (required \/ d) \/ cleared
    BY <1>4
  <2> HIDE DEF m, d, q, g, v, n
  <2>6. CASE rt' = [rt EXCEPT ![r] = t] /\ required' = (required \/ d) /\ spent' = spent
    <3>1. t \in RuntimeType
      BY <1>1, <1>2, <2>2, <2>4 DEF RuntimeType
    <3>2. /\ t.phase = s.phase /\ t.build = s.build /\ t.late = s.late
          /\ t.required = q /\ t.gate = s.gate /\ t.cache = s.cache
          /\ t.current = s.current /\ t.enabled = s.enabled /\ t.stale = s.stale
          /\ t.learner = s.learner /\ t.unwritten = n
      BY <1>1 DEF RuntimeType
    <3> HIDE DEF t
    <3>3. Good(t)
      BY <1>1, <3>1, <3>2 DEF Good, Shape, Busy, Gated, Chosen, Dead, Loading, Decided
    <3>4. /\ required' \in BOOLEAN /\ (required => required')
          /\ t.required /\ ~t.unwritten => required' \/ cleared
      BY <1>4, <2>5, <2>6, <3>2
    <3> QED
      BY <1>1, <1>3, <1>4, <2>6, <3>2, <3>3, <3>4, RuntimeStep
  <2>7. CASE /\ rt' = [rt EXCEPT ![r] = z] /\ required' = required
             /\ Spend("faults", MaxFaults)
    <3>0. <<>> \in Seq(ServedCohort)
      OBVIOUS
    <3>1. z \in RuntimeType
      BY <1>1, <2>2, <2>4, <3>0 DEF RuntimeType, Phases
    <3>2. /\ z.phase = "idle" /\ z.build = s.build /\ z.late = s.late
          /\ z.required = q /\ z.gate = s.gate /\ z.cache = s.cache
          /\ z.current = s.current /\ z.enabled = s.enabled /\ z.stale = s.stale
          /\ z.learner = s.learner /\ z.unwritten = ~required
      BY <1>1 DEF RuntimeType
    <3> HIDE DEF z
    <3>3. Good(z)
      BY <1>1, <3>1, <3>2 DEF Good, Shape, Busy, Gated, Chosen, Dead, Loading, Decided
    <3>4. spent' \in SpentType
      BY <1>4, <2>7, SpendType
    <3> QED
      BY <1>1, <1>3, <1>4, <2>7, <3>2, <3>3, <3>4, RuntimeStep
  <2> QED
    BY <2>3, <2>6, <2>7
<1> QED
  BY <1>5, <1>6

\* The monitor saves after a dispatch that moved a segment.
LEMMA EndDispatchIInv ==
  ASSUME IInv, NEW r \in Runtimes, EndDispatch(r)
  PROVE  IInv'
<1> DEFINE s == rt[r]
           t == [s EXCEPT !.phase = "idle", !.moved = FALSE]
           f == [required |-> s.required, segments |-> Saved(s.segments),
                 unwritten |-> s.unwritten]
<1>1. s \in RuntimeType /\ Good(s) /\ s.phase = "observe" /\ (s.late => killed)
  BY DEF IInv, TypeOK, RuntimesInv, EndDispatch
<1>2. rt' = [rt EXCEPT ![r] = t]
  BY DEF EndDispatch, IInv, TypeOK
<1>3. t \in RuntimeType
  BY <1>1 DEF RuntimeType, Phases
<1>4. /\ t.phase = "idle" /\ t.build = s.build /\ t.late = s.late
      /\ t.required = s.required /\ t.unwritten = s.unwritten /\ t.gate = s.gate /\ t.cache = s.cache
      /\ t.current = s.current /\ t.enabled = s.enabled /\ t.stale = s.stale
      /\ t.learner = s.learner
  BY <1>1 DEF RuntimeType
<1> HIDE DEF t
<1>5. Good(t)
  BY <1>1, <1>3, <1>4 DEF Good, Shape, Busy, Gated, Chosen, Dead, Loading, Decided
<1>6. f \in MonitorFile /\ f.required = s.required /\ f.unwritten = s.unwritten
  BY <1>1, SavedType DEF RuntimeType, MonitorFile
<1>7. monitorFile' = f \/ monitorFile' = monitorFile
  BY DEF EndDispatch, SaveMonitor
<1>8. /\ build' = build /\ controller' = controller /\ archived' = archived
      /\ epochs' = epochs /\ cleared' = cleared /\ requal' = requal
      /\ spent' \in SpentType /\ killed' = killed /\ required' = required
  BY SpendType DEF EndDispatch, IInv, TypeOK
<1>9. /\ killed \in BOOLEAN /\ required \in BOOLEAN /\ spent \in SpentType
      /\ monitorFile \in MonitorFile \cup {None}
      /\ monitorFile # None /\ monitorFile.required /\ ~monitorFile.unwritten
           => required \/ cleared
      /\ s.required /\ ~s.unwritten => required \/ cleared
  BY DEF IInv, TypeOK, DoubtRecorded
<1> HIDE DEF f
<1> QED
  BY <1>1, <1>2, <1>4, <1>5, <1>6, <1>7, <1>8, <1>9, RuntimeStep

\* The monitor saves at close().
LEMMA CloseIInv ==
  ASSUME IInv, NEW r \in Runtimes, Close(r)
  PROVE  IInv'
<1> DEFINE s == rt[r]
           f == [required |-> s.required, segments |-> Saved(s.segments),
                 unwritten |-> s.unwritten]
<1>1. s \in RuntimeType
  BY DEF IInv, TypeOK
<1>2. f \in MonitorFile /\ f.required = s.required /\ f.unwritten = s.unwritten
  BY <1>1, SavedType DEF RuntimeType, MonitorFile
<1>3. monitorFile' = f /\ rt' = [rt EXCEPT ![r] = Off]
  BY DEF Close, SaveMonitor
<1>4. /\ build' = build /\ controller' = controller /\ archived' = archived
      /\ epochs' = epochs /\ cleared' = cleared /\ requal' = requal
      /\ spent' = spent /\ killed' = killed /\ required' = required
  BY DEF Close
<1>5. /\ killed \in BOOLEAN /\ required \in BOOLEAN /\ spent \in SpentType
      /\ s.required /\ ~s.unwritten => required \/ cleared
  BY DEF IInv, TypeOK, DoubtRecorded
<1>6. Off.late = FALSE /\ Off.required = FALSE
  BY DEF Off
<1> HIDE DEF f
<1> QED
  BY <1>2, <1>3, <1>4, <1>5, <1>6, OffGood, RuntimeStep

\* Every step of a runtime.
LEMMA RuntimeIInv ==
  ASSUME IInv, NEW r \in Runtimes, Runtime(r)
  PROVE  IInv'
BY LoadIInv, RestoreMonitorIInv, AdmitIInv, WriteKillIInv, ServeIInv, DecideIInv,
   AnswerIInv, AnomalyIInv, RaiseIInv, ObserveIInv, EndDispatchIInv, CloseIInv,
   CrashIInv, OfferIInv DEF Runtime

\* A step of the requalification leaves the runtimes and the kill alone.
LEMMA FileStep ==
  ASSUME IInv, rt' = rt, killed' = killed, TypeOK', EpochsInv', DoubtRecorded',
         requal'.phase # "idle" => requal'.build \in Builds
  PROVE  IInv'
<1>1. RuntimesInv'
  BY DEF IInv, RuntimesInv, Good, Shape, Busy, Gated, Chosen, Dead
<1> QED
  BY <1>1 DEF IInv

\* Every step of `ironmule requalify`: the controller's state is replaced only
\* after it was archived, and the record is removed before cleared is set.
LEMMA RequalificationIInv ==
  ASSUME IInv, Requalification
  PROVE  IInv'
<1> USE DEF IInv
<1>1. CASE Requalify
  <2>1. TypeOK'
    BY <1>1, SpendType DEF Requalify, TypeOK, RequalificationType, files
  <2> QED
    BY <1>1, <2>1, FileStep DEF Requalify, TypeOK, EpochsInv, EpochsKept, DoubtRecorded, files
<1>2. CASE Compare
  <2>1. TypeOK'
    BY <1>2 DEF Compare, TypeOK, RequalificationType, files
  <2> QED
    BY <1>2, <2>1, FileStep DEF Compare, TypeOK, RequalificationType, EpochsInv, EpochsKept, DoubtRecorded, files
<1>3. CASE ArchiveEpoch
  <2>1. TypeOK'
    BY <1>3 DEF ArchiveEpoch, Replaced, TypeOK, RequalificationType, NoRequalification
  <2> QED
    BY <1>3, <2>1, FileStep DEF ArchiveEpoch, Replaced, TypeOK, RequalificationType,
       NoRequalification, EpochsInv, EpochsKept, DoubtRecorded
<1>4. CASE WriteController
  <2>1. PICK l \in FreshLearners : controller' = [build |-> requal.build, learner |-> l]
    BY <1>4 DEF WriteController
  <2>2. l \in Learner
    <3>1. \A i \in Intervals : [NoLearner EXCEPT ![Probe] =
             [sessions |-> MinSessions, readable |-> MinSessions, interval |-> i]] \in Learner
      BY NoLearnerType DEF Learner, Evidence
    <3> QED
      BY <3>1, NoLearnerType DEF FreshLearners, Intervals
  <2>3. controller' \in ControllerFile
    BY <1>4, <2>1, <2>2 DEF WriteController, ControllerFile
  <2>4. TypeOK'
    BY <1>4, <2>3 DEF WriteController, TypeOK, RequalificationType
  <2>5. EpochsInv'
    BY <1>4, NoneAssumption DEF WriteController, EpochsInv, EpochsKept, TypeOK, RequalificationType
  <2> QED
    BY <1>4, <2>4, <2>5, FileStep DEF WriteController, TypeOK, RequalificationType, DoubtRecorded
<1>5. CASE ClearRecord
  <2>1. TypeOK'
    BY <1>5 DEF ClearRecord, TypeOK, RequalificationType
  <2> QED
    BY <1>5, <2>1, FileStep DEF ClearRecord, TypeOK, RequalificationType, EpochsInv, EpochsKept, DoubtRecorded
<1>6. CASE ArchiveMonitor
  <2>1. TypeOK'
    BY <1>6 DEF ArchiveMonitor, TypeOK, RequalificationType, NoRequalification
  <2> QED
    BY <1>6, <2>1, FileStep DEF ArchiveMonitor, NoRequalification, EpochsInv, EpochsKept, DoubtRecorded
<1>7. CASE CrashRequalify
  <2>1. TypeOK'
    BY <1>7, SpendType DEF CrashRequalify, TypeOK, RequalificationType, NoRequalification, files
  <2> QED
    BY <1>7, <2>1, FileStep DEF CrashRequalify, NoRequalification, EpochsInv, EpochsKept, DoubtRecorded, files
<1> QED
  BY <1>1, <1>2, <1>3, <1>4, <1>5, <1>6, <1>7 DEF Requalification

\* Every step keeps the invariant.
LEMMA NextIInv == IInv /\ [Next]_vars => IInv'
<1> SUFFICES ASSUME IInv, [Next]_vars PROVE IInv'
  OBVIOUS
<1>1. CASE \E r \in Runtimes : Runtime(r)
  BY <1>1, RuntimeIInv
<1>2. CASE Requalification
  BY <1>2, RequalificationIInv
<1>3. CASE ChangeBuild
  <2>1. TypeOK'
    BY <1>3, SpendType DEF ChangeBuild, IInv, TypeOK, files
  <2> QED
    BY <1>3, <2>1, FileStep DEF ChangeBuild, IInv, TypeOK, EpochsInv, EpochsKept, DoubtRecorded, files
<1>4. CASE UNCHANGED vars
  <2>1. TypeOK'
    BY <1>4 DEF IInv, TypeOK, vars, files
  <2> QED
    BY <1>4, <2>1, FileStep DEF IInv, TypeOK, EpochsInv, EpochsKept, DoubtRecorded, vars, files
<1> QED
  BY <1>1, <1>2, <1>3, <1>4 DEF Next

\* The invariant holds in every reachable state.
LEMMA Invariance == Spec => []IInv
BY InitIInv, NextIInv, PTL DEF Spec

\* Every variable holds a value the program could hold.
THEOREM ActivationTyped == Spec => []TypeOK
<1>1. IInv => TypeOK
  BY DEF IInv
<1> QED
  BY <1>1, Invariance, PTL

\* While a cohort is served, the gate is open exactly when the candidate was
\* chosen for it, and the candidate is chosen only where every condition of the
\* code holds at that moment (for_dispatch, kill).
THEOREM GateDecided == Spec => []GateFollowsDecision
<1>1. IInv => GateFollowsDecision
  BY DEF IInv, RuntimesInv, Good, Chosen, GateFollowsDecision
<1> QED
  BY <1>1, Invariance, PTL

\* A runtime that began to load after the kill record was there never serves the
\* candidate, whatever was requalified since (read_kill, admit).
THEOREM KillIsFinal == Spec => []KilledStaysOff
<1>1. IInv => KilledStaysOff
  BY DEF IInv, RuntimesInv, Good, Dead, KilledStaysOff
<1> QED
  BY <1>1, Invariance, PTL

\* Until a requalification removes it, the requalification record exists
\* whenever a process or the monitor's file requires one, with any number of
\* processes writing the same files, except for doubt whose record could not be
\* written (require_requalification before save).
THEOREM DoubtSurvives == Spec => []DoubtRecorded
<1>1. IInv => DoubtRecorded
  BY DEF IInv
<1> QED
  BY <1>1, Invariance, PTL

\* Every controller state that was ever on disk is there or archived, wherever a
\* requalification died (apply_outcome).
THEOREM EpochsSurvive == Spec => []EpochsKept
<1>1. IInv => EpochsKept
  BY DEF IInv, EpochsInv
<1> QED
  BY <1>1, Invariance, PTL
=============================================================================
