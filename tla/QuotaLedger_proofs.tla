------------------------- MODULE QuotaLedger_proofs -------------------------
(***************************************************************************)
(* For any processes, slugs, amounts and quotas: the state is well typed, a   *)
(* running job is the one the ledger still counts, no job is submitted twice, *)
(* and between jobs no more is spent than the project may reserve.            *)
(*                                                                           *)
(* The last is a fact about a sum, so the lemmas before it say what the       *)
(* library's sum over a finite set is.  Its invariant, Bounded, rests on IInv *)
(* and follows the seconds: what is reserved in a window is within the cap    *)
(* (Capped); before a job no more is used than is reserved without it, and a  *)
(* settled job has used no more than its own share (Backed, with Metered and  *)
(* Observed for the quotas a command has seen); and where an overshoot waits  *)
(* for its record the lock is held (Locked).                                  *)
(***************************************************************************)
EXTENDS QuotaLedger, FiniteSetTheorems, WellFoundedInduction, TLAPS

\* From its reservation to its end a command finds its own record in the ledger.
Held ==
  \A p \in Procs :
    proc[p].at \in {"reserved", "staged", "pushed", "ended", "requoted", "checked"} => Owns(p)

\* Before the submission the job is unknown to the provider and still counted.
Unsubmitted ==
  \A p \in Procs :
    proc[p].at \in {"reserved", "staged"} =>
      /\ ~reserved[SlugOf[p]].done
      /\ pushes[SlugOf[p]] = 0 /\ job[SlugOf[p]] = "none"

\* What was never reserved was never submitted.
Untouched == \A s \in Slugs : reserved[s] = None => pushes[s] = 0 /\ job[s] = "none"

\* A command settles a job only after its end.
EndSeen ==
  \A p \in Procs :
    proc[p].at \in {"ended", "requoted", "checked"} => job[SlugOf[p]] = "ended"

IInv ==
  /\ TypeOK
  /\ Held
  /\ Unsubmitted
  /\ Untouched
  /\ EndSeen
  /\ OneJob
  /\ SubmittedOnce

-----------------------------------------------------------------------------
\* The initial state.
LEMMA InitIInv == Init => IInv
<1> SUFFICES ASSUME Init PROVE IInv
  OBVIOUS
<1> USE ProcAssumption, QuotaAssumption, NoneAssumption
<1>1. TypeOK
  <2>1. MaxUsed \in Nat /\ MaxWindows \in Nat /\ MaxWindows > 0
    OBVIOUS
  <2>2. window \in 1..MaxWindows /\ used \in 0..MaxUsed /\ {total, most} \subseteq Totals
    BY <2>1 DEF Init
  <2>3. {frozen, excused} \subseteq BOOLEAN /\ lock \in Procs \cup {None}
    BY DEF Init
  <2>4. /\ reserved \in [Slugs -> Reservation \cup {None}]
        /\ proc \in [Procs -> [at : Steps, quota : Seen \cup {None}]]
        /\ job \in [Slugs -> {"none", "running", "ended"}]
        /\ pushes \in [Slugs -> Nat]
    BY DEF Init, Steps, Looking
  <2>5. \A p \in Procs : proc[p].at \notin Looking
    BY DEF Init, Looking
  <2> QED
    BY <2>2, <2>3, <2>4, <2>5 DEF TypeOK
<1>2. Held /\ Unsubmitted /\ Untouched /\ EndSeen /\ OneJob /\ SubmittedOnce
  BY DEF Init, Held, Unsubmitted, Untouched, EndSeen, OneJob, SubmittedOnce, Active
<1> QED
  BY <1>1, <1>2 DEF IInv

\* The figures of the constants, of the meter and of a quota that was seen are numbers.
LEMMA ConstantsType ==
  /\ Spare \in Nat /\ Half \in Nat /\ Second \in Nat
  /\ MaxUsed \in Nat /\ MaxTotal \in Nat /\ MaxWindows \in Nat
  /\ Totals \subseteq 0..MaxTotal
BY QuotaAssumption

LEMMA MeterType ==
  TypeOK => /\ window \in Nat /\ used \in Nat
            /\ total \in 0..MaxTotal /\ most \in 0..MaxTotal
            /\ total \in Nat /\ most \in Nat
<1> SUFFICES ASSUME TypeOK
             PROVE  /\ window \in Nat /\ used \in Nat
                    /\ total \in 0..MaxTotal /\ most \in 0..MaxTotal
                    /\ total \in Nat /\ most \in Nat
  OBVIOUS
<1>1. window \in 1..MaxWindows /\ used \in 0..MaxUsed
  BY DEF TypeOK
<1>2. total \in 0..MaxTotal /\ most \in 0..MaxTotal
  BY ConstantsType DEF TypeOK
<1> QED
  BY <1>1, <1>2, ConstantsType

LEMMA SeenType ==
  ASSUME NEW seen \in Seen
  PROVE  /\ seen.window \in Nat /\ seen.used \in Nat /\ seen.left \in Nat
         /\ seen.total \in 0..MaxTotal /\ seen.total \in Nat
BY ConstantsType DEF Seen

\* What a display says of an amount.
LEMMA DisplayedNear ==
  ASSUME NEW amount \in Nat, NEW shown \in Displayed(amount)
  PROVE  /\ shown \in Nat /\ Less(shown, Half) \in Nat
         /\ shown <= amount + Half /\ amount <= shown + Half
         /\ Less(shown, Half) <= amount
BY QuotaAssumption DEF Displayed, Less

\* The quota that is displayed fits its type and is near to the true one.
LEMMA SnapshotNear ==
  ASSUME TypeOK, used <= total, NEW seen \in Snapshots
  PROVE  /\ seen \in Seen
         /\ seen.window = window /\ seen.total <= total
         /\ seen.used <= used + Half /\ used <= seen.used + Half
<1> USE QuotaAssumption
<1>1. /\ window \in 1..MaxWindows /\ used \in 0..MaxUsed /\ total \in 0..MaxTotal
      /\ {Half, MaxUsed, MaxTotal} \subseteq Nat
  BY DEF TypeOK
<1>2. used \in Nat /\ total \in Nat /\ total - used \in Nat /\ total - used <= total
  BY <1>1
<1>3. PICK shown \in Displayed(total) : seen.total = Less(shown, Half)
  BY DEF Snapshots
<1>4. /\ seen = [window |-> window, total |-> seen.total, used |-> seen.used, left |-> seen.left]
      /\ seen.used \in Displayed(used) /\ seen.left \in Displayed(total - used)
      /\ seen.window = window
  BY DEF Snapshots
<1>5. seen.total \in 0..MaxTotal /\ seen.total <= total
  BY <1>1, <1>2, <1>3, DisplayedNear
<1>6. /\ seen.used \in 0..MaxUsed + Half
      /\ seen.used <= used + Half /\ used <= seen.used + Half
  <2>1. seen.used \in Nat /\ seen.used <= used + Half /\ used <= seen.used + Half
    BY <1>2, <1>4, DisplayedNear
  <2>2. used <= MaxUsed /\ used \in Nat /\ Half \in Nat /\ MaxUsed \in Nat
    BY <1>1
  <2> QED
    BY <2>1, <2>2
<1>7. seen.left \in 0..MaxTotal + Half
  <2>1. seen.left \in Nat /\ seen.left <= (total - used) + Half
    BY <1>2, <1>4, DisplayedNear
  <2> QED
    BY <1>1, <1>2, <2>1
<1>8. seen \in Seen
  BY <1>1, <1>4, <1>5, <1>6, <1>7 DEF Seen
<1> QED
  BY <1>4, <1>5, <1>6, <1>8

\* A step of a command's own that leaves ledger and provider alone, neither begins
\* nor passes a phase the other conjuncts speak of.
LEMMA QuietIInv ==
  ASSUME IInv, NEW p \in Procs, NEW from, NEW to \in Steps, NEW seen \in Seen \cup {None},
         Goes(p, from, to, seen),
         to \in Looking => seen \in Seen,
         UNCHANGED <<reserved, job, window, total, used, most, pushes>>,
         {frozen', excused'} \subseteq BOOLEAN, lock' \in Procs \cup {None},
         \/ to \in {"quoted", "overshot", "settled", "unknown", "over"}
         \/ from = "reserved" /\ to = "staged"
         \/ from = "pushed" /\ to = "ended" /\ job[SlugOf[p]] = "ended"
         \/ from = "ended" /\ to = "requoted"
         \/ from = "requoted" /\ to = "checked"
  PROVE  IInv'
<1> USE ProcAssumption DEF IInv
<1>1. /\ proc' = [proc EXCEPT ![p] = [at |-> to, quota |-> seen]]
      /\ proc[p].at = from
  BY DEF Goes, At
<1>2. TypeOK'
  BY <1>1 DEF TypeOK
<1>3. \A q \in Procs : Owns(q)' = Owns(q)
  BY DEF Owns
<1>4. \A q \in Procs : q # p => proc'[q] = proc[q]
  BY <1>1 DEF TypeOK
<1>5. proc'[p].at = to
  BY <1>1 DEF TypeOK
<1>6. Held'
  BY <1>1, <1>3, <1>4, <1>5 DEF Held
<1>7. Unsubmitted'
  BY <1>1, <1>4, <1>5 DEF Unsubmitted
<1>8. EndSeen'
  BY <1>1, <1>4, <1>5 DEF EndSeen
<1>9. Untouched' /\ OneJob' /\ SubmittedOnce'
  BY DEF Untouched, OneJob, SubmittedOnce, Active
<1> QED
  BY <1>2, <1>6, <1>7, <1>8, <1>9

\* A new reservation: the slug is new to the ledger and nothing else is active.
LEMMA ReserveIInv ==
  ASSUME IInv, NEW p \in Procs, Reserve(p)
  PROVE  IInv'
<1> USE ProcAssumption, NoneAssumption DEF IInv
<1> DEFINE s == SlugOf[p]
<1>1. /\ proc' = [proc EXCEPT ![p] = [at |-> "reserved", quota |-> None]]
      /\ proc[p].at = "quoted" /\ reserved[s] = None /\ Active = {}
      /\ reserved' = [reserved EXCEPT ![s] = Record(p)]
      /\ UNCHANGED <<frozen, lock, job, window, total, used, most, pushes, excused>>
  BY DEF Reserve, Go, Goes, At, meterVars
<1>2. s \in Slugs
  OBVIOUS
<1>3. Record(p) \in Reservation /\ Record(p).by = p /\ ~Record(p).done
  BY <1>1 DEF Record, Reservation, TypeOK, Looking
<1>4. Record(p) # None
  BY <1>3
<1>5. reserved'[s] = Record(p) /\ \A t \in Slugs : t # s => reserved'[t] = reserved[t]
  BY <1>1, <1>2 DEF TypeOK
<1>6. proc'[p].at = "reserved" /\ \A q \in Procs : q # p => proc'[q] = proc[q]
  BY <1>1 DEF TypeOK
<1>7. TypeOK'
  BY <1>1, <1>3, <1>6 DEF TypeOK, Looking, Steps, Looking
<1>8. \A q \in Procs : q # p /\ Owns(q) => SlugOf[q] # s /\ Owns(q)'
  BY <1>1, <1>5 DEF Owns
<1>9. Owns(p)'
  BY <1>3, <1>4, <1>5 DEF Owns
<1>10. Held'
  BY <1>6, <1>8, <1>9 DEF Held
<1>11. Unsubmitted'
  <2> SUFFICES ASSUME NEW q \in Procs, proc'[q].at \in {"reserved", "staged"}
               PROVE  /\ ~reserved'[SlugOf[q]].done
                      /\ pushes'[SlugOf[q]] = 0 /\ job'[SlugOf[q]] = "none"
    BY DEF Unsubmitted
  <2>1. CASE q = p
    BY <2>1, <1>1, <1>2, <1>3, <1>5 DEF Untouched
  <2>2. CASE q # p
    <3>1. Owns(q) /\ proc[q].at \in {"reserved", "staged"}
      BY <2>2, <1>6 DEF Held
    <3>2. SlugOf[q] # s /\ SlugOf[q] \in Slugs
      BY <3>1, <2>2, <1>8
    <3> QED
      BY <3>1, <3>2, <1>1, <1>5 DEF Unsubmitted
  <2> QED
    BY <2>1, <2>2
<1>12. Untouched'
  BY <1>1, <1>4, <1>5 DEF Untouched
<1>13. EndSeen'
  BY <1>1, <1>6 DEF EndSeen
<1>14. Active' = {s}
  <2>1. s \in Active'
    BY <1>2, <1>3, <1>4, <1>5 DEF Active
  <2>2. ASSUME NEW t \in Slugs, t # s PROVE t \notin Active'
    BY <2>2, <1>1, <1>5 DEF Active
  <2> QED
    BY <2>1, <2>2 DEF Active
<1>15. OneJob' /\ SubmittedOnce'
  BY <1>1, <1>14 DEF OneJob, SubmittedOnce
<1> QED
  BY <1>7, <1>10, <1>11, <1>12, <1>13, <1>15

\* The submission: the first of its slug, and of a reservation that is counted.
LEMMA PushIInv ==
  ASSUME IInv, NEW p \in Procs, Push(p)
  PROVE  IInv'
<1> USE ProcAssumption DEF IInv
<1> DEFINE s == SlugOf[p]
<1>1. PICK to \in {"pushed", "unknown"} :
         proc' = [proc EXCEPT ![p] = [at |-> to, quota |-> None]]
  BY DEF Push, Go, Goes
<1>2. /\ proc[p].at = "staged"
      /\ pushes' = [pushes EXCEPT ![s] = @ + 1]
      /\ job' = [job EXCEPT ![s] = "running"] \/ job' = job
      /\ UNCHANGED <<reserved, frozen, lock, window, total, used, most, excused>>
  BY DEF Push, Go, Goes, At, ledgerVars, meterVars
<1>3. s \in Slugs
  OBVIOUS
<1>4. proc'[p].at = to /\ \A q \in Procs : q # p => proc'[q] = proc[q]
  BY <1>1 DEF TypeOK
<1>5. /\ pushes[s] = 0 /\ job[s] = "none" /\ Owns(p) /\ ~reserved[s].done
  BY <1>2 DEF Unsubmitted, Held
<1>6. s \in Active
  BY <1>3, <1>5 DEF Active, Owns
<1>7. TypeOK'
  <2>1. proc' \in [Procs -> [at : Steps, quota : Seen \cup {None}]]
    BY <1>1 DEF TypeOK, Steps, Looking
  <2>2. \A q \in Procs : proc'[q].at \in Looking => proc'[q].quota \in Seen
    BY <1>4 DEF TypeOK, Looking
  <2>3. job' \in [Slugs -> {"none", "running", "ended"}] /\ pushes' \in [Slugs -> Nat]
    BY <1>2, <1>3, <1>5 DEF TypeOK
  <2> QED
    BY <2>1, <2>2, <2>3, <1>2 DEF TypeOK
<1>8. \A q \in Procs : Owns(q)' = Owns(q)
  BY <1>2 DEF Owns
<1>9. Held'
  BY <1>2, <1>4, <1>5, <1>8 DEF Held
<1>10. \A q \in Procs : q # p /\ Owns(q) => SlugOf[q] # s
  BY <1>5 DEF Owns
<1>11. \A t \in Slugs : t # s => pushes'[t] = pushes[t] /\ job'[t] = job[t]
  BY <1>2 DEF TypeOK
<1>12. Unsubmitted'
  BY <1>2, <1>4, <1>10, <1>11 DEF Unsubmitted, Held
<1>13. Untouched'
  BY <1>2, <1>5, <1>11 DEF Untouched, Owns
<1>14. EndSeen'
  <2> SUFFICES ASSUME NEW q \in Procs, proc'[q].at \in {"ended", "requoted", "checked"}
               PROVE  job'[SlugOf[q]] = "ended"
    BY DEF EndSeen
  <2>1. q # p /\ proc[q].at \in {"ended", "requoted", "checked"}
    BY <1>4
  <2>2. Owns(q)
    BY <2>1 DEF Held
  <2>3. SlugOf[q] # s /\ SlugOf[q] \in Slugs
    BY <2>1, <2>2, <1>10
  <2> QED
    BY <2>1, <2>3, <1>11 DEF EndSeen
<1>15. Active' = Active
  BY <1>2 DEF Active
<1>16. OneJob'
  BY <1>2, <1>6, <1>11, <1>15 DEF OneJob
<1>17. SubmittedOnce'
  BY <1>2, <1>3, <1>5, <1>11 DEF SubmittedOnce, TypeOK
<1> QED
  BY <1>7, <1>9, <1>12, <1>13, <1>14, <1>16, <1>17

\* A reservation that ends: its job has ended, and no command is before its push.
LEMMA DoneIInv ==
  ASSUME IInv, NEW s \in Slugs, reserved[s] # None, job[s] = "ended",
         reserved' = [reserved EXCEPT ![s].done = TRUE],
         UNCHANGED <<job, window, total, used, most, pushes>>,
         {frozen', excused'} \subseteq BOOLEAN, lock' \in Procs \cup {None},
         \/ UNCHANGED proc
         \/ \E p \in Procs : \E to \in {"overshot", "settled"} : Go(p, "checked", to)
  PROVE  IInv'
<1> USE ProcAssumption, NoneAssumption DEF IInv
<1>1. /\ reserved[s] \in Reservation
      /\ reserved'[s] = [reserved[s] EXCEPT !.done = TRUE]
      /\ \A t \in Slugs : t # s => reserved'[t] = reserved[t]
  BY DEF TypeOK
<1>2. /\ reserved'[s] \in Reservation /\ reserved'[s] # None
      /\ reserved'[s].by = reserved[s].by /\ reserved'[s].done
  <2>1. PICK r \in Reservation : r = reserved[s]
    BY <1>1
  <2>2. [r EXCEPT !.done = TRUE] \in Reservation
    BY DEF Reservation
  <2>3. [r EXCEPT !.done = TRUE].by = r.by /\ [r EXCEPT !.done = TRUE].done = TRUE
    BY DEF Reservation
  <2> QED
    BY <1>1, <2>1, <2>2, <2>3
<1>3. proc' \in [Procs -> [at : Steps, quota : Seen \cup {None}]]
  <2>1. ASSUME NEW p \in Procs, NEW to \in {"overshot", "settled"}, Go(p, "checked", to)
        PROVE  proc' \in [Procs -> [at : Steps, quota : Seen \cup {None}]]
    <3>1. proc' = [proc EXCEPT ![p] = [at |-> to, quota |-> None]]
      BY <2>1 DEF Go, Goes
    <3>2. [at |-> to, quota |-> None] \in [at : Steps, quota : Seen \cup {None}]
      BY DEF Steps
    <3> QED
      BY <3>1, <3>2 DEF TypeOK
  <2>2. ASSUME UNCHANGED proc
        PROVE  proc' \in [Procs -> [at : Steps, quota : Seen \cup {None}]]
    BY <2>2 DEF TypeOK
  <2> QED
    BY <2>1, <2>2
<1>4. \A q \in Procs : proc'[q] = proc[q] \/ proc'[q].at \in {"overshot", "settled"}
  BY DEF TypeOK, Go, Goes
<1>5. TypeOK'
  <2>1. reserved' \in [Slugs -> Reservation \cup {None}]
    BY <1>2 DEF TypeOK
  <2>2. \A q \in Procs : proc'[q].at \in Looking => proc'[q].quota \in Seen
    BY <1>4 DEF TypeOK, Looking
  <2> QED
    BY <2>1, <2>2, <1>3 DEF TypeOK
<1>6. \A q \in Procs : Owns(q) => Owns(q)'
  BY <1>1, <1>2 DEF Owns
<1>7. Held'
  BY <1>4, <1>6 DEF Held
<1>8. Unsubmitted'
  <2> SUFFICES ASSUME NEW q \in Procs, proc'[q].at \in {"reserved", "staged"}
               PROVE  /\ ~reserved'[SlugOf[q]].done
                      /\ pushes'[SlugOf[q]] = 0 /\ job'[SlugOf[q]] = "none"
    BY DEF Unsubmitted
  <2>1. /\ ~reserved[SlugOf[q]].done
        /\ pushes[SlugOf[q]] = 0 /\ job[SlugOf[q]] = "none"
    BY <1>4 DEF Unsubmitted
  <2>2. SlugOf[q] # s /\ SlugOf[q] \in Slugs
    BY <2>1
  <2> QED
    BY <2>1, <2>2, <1>1
<1>9. Untouched'
  BY <1>1, <1>2 DEF Untouched
<1>10. EndSeen'
  BY <1>4 DEF EndSeen
<1>11. Active' \subseteq Active /\ \A t \in Active : t # s => t \in Active'
  BY <1>1, <1>2 DEF Active
<1>12. OneJob' /\ SubmittedOnce'
  BY <1>11 DEF OneJob, SubmittedOnce
<1> QED
  BY <1>5, <1>7, <1>8, <1>9, <1>10, <1>12

\* Every step of a command.
LEMMA CommandIInv ==
  ASSUME IInv, NEW p \in Procs, Command(p)
  PROVE  IInv'
<1> USE DEF Go, ledgerVars, meterVars
<1>0. /\ frozen \in BOOLEAN /\ lock \in Procs \cup {None} /\ excused \in BOOLEAN
      /\ Raised(p) \in {"unknown", "over"}
  BY DEF IInv, TypeOK, Raised
<1>1. CASE Quote(p)
  <2>1. PICK seen \in Snapshots : Goes(p, "new", "quoted", seen)
    BY <1>1 DEF Quote
  <2>2. seen \in Seen
    BY <1>1, SnapshotNear DEF Quote, IInv
  <2> QED
    BY <1>0, <1>1, <2>1, <2>2, QuietIInv DEF Quote, Steps, Looking
<1>2. CASE Reserve(p)
  BY <1>2, ReserveIInv
<1>3. CASE Shrunk(p)
  BY <1>0, <1>3, QuietIInv DEF Shrunk, Steps, Looking
<1>4. CASE Refuse(p)
  BY <1>0, <1>4, QuietIInv DEF Refuse, Steps, Looking
<1>5. CASE Stage(p) \/ StageFails(p)
  BY <1>0, <1>5, QuietIInv DEF Stage, StageFails, Steps, Looking
<1>6. CASE Push(p)
  BY <1>6, PushIInv
<1>7. CASE Poll(p)
  BY <1>0, <1>7, QuietIInv DEF Poll, Steps, Looking
<1>8. CASE PollTimesOut(p) \/ PollFails(p)
  BY <1>0, <1>8, QuietIInv DEF PollTimesOut, PollFails, Steps, Looking
<1>9. CASE Requote(p)
  <2>1. PICK seen \in Snapshots : Goes(p, "ended", "requoted", seen)
    BY <1>9 DEF Requote
  <2>2. seen \in Seen
    BY <1>9, SnapshotNear DEF Requote, IInv
  <2> QED
    BY <1>0, <1>9, <2>1, <2>2, QuietIInv DEF Requote, Steps, Looking
<1>10. CASE RequoteFails(p) \/ Unresolved(p)
  BY <1>0, <1>10, QuietIInv DEF RequoteFails, Unresolved, Steps, Looking
<1>11. CASE Reconcile(p)
  <2>1. CASE ~Settleable(p) \/ ~Matches(p)
    <3>1. frozen' \in BOOLEAN
      BY <1>0, <1>11, <2>1 DEF Reconcile
    <3> QED
      BY <1>0, <1>11, <2>1, <3>1, QuietIInv DEF Reconcile, Steps, Looking
  <2>2. CASE Settleable(p) /\ Matches(p)
    <3>1. SlugOf[p] \in Slugs /\ reserved[SlugOf[p]] # None /\ job[SlugOf[p]] = "ended"
      BY <1>11, <2>2, ProcAssumption DEF Reconcile, Settleable, IInv, EndSeen, Owns, At
    <3>2. PICK to \in {"overshot", "settled"} : Go(p, "checked", to)
      BY <1>11, <2>2 DEF Reconcile
    <3>3. /\ reserved' = [reserved EXCEPT ![SlugOf[p]].done = TRUE]
          /\ lock' \in Procs \cup {None}
          /\ UNCHANGED <<frozen, job, window, total, used, most, pushes, excused>>
      BY <1>11, <2>2 DEF Reconcile
    <3> HIDE DEF Go
    <3> QED
      BY <1>0, <3>1, <3>2, <3>3, DoneIInv
  <2> QED
    BY <2>1, <2>2
<1>12. CASE RecordOvershoot(p)
  BY <1>0, <1>12, QuietIInv DEF RecordOvershoot, Steps, Looking
<1>13. CASE Collect(p)
  BY <1>0, <1>13, QuietIInv DEF Collect, Steps, Looking
<1>14. CASE MarkFrozen(p)
  BY <1>0, <1>14, QuietIInv DEF MarkFrozen, Steps, Looking
<1>15. CASE Check(p)
  <2>1. proc[p].at = "requoted" /\ proc[p].quota \in Seen
    BY <1>15 DEF Check, Goes, At, IInv, TypeOK, Looking
  <2> QED
    BY <1>0, <1>15, <2>1, QuietIInv DEF Check, Steps, Looking
<1> QED
  BY <1>1, <1>2, <1>3, <1>4, <1>5, <1>6, <1>7, <1>8, <1>9, <1>10, <1>11, <1>12, <1>13, <1>14,
     <1>15 DEF Command

\* Everything else that happens: a death, a review, the provider.
LEMMA WorldIInv ==
  ASSUME IInv,
         \/ \E p \in Procs : Die(p)
         \/ \E s \in Slugs : Review(s) \/ Meter(s) \/ JobEnds(s)
         \/ Revise \/ Reset
  PROVE  IInv'
<1>1. ASSUME NEW p \in Procs, Die(p) PROVE IInv'
  <2>1. lock' \in Procs \cup {None} /\ excused' \in BOOLEAN /\ frozen \in BOOLEAN
    <3>1. At(p, "overshot") \in BOOLEAN
      BY DEF At
    <3> QED
      BY <1>1, <3>1 DEF Die, IInv, TypeOK
  <2> QED
    BY <1>1, <2>1, QuietIInv DEF Die, Go, Steps, Looking, meterVars
<1>2. ASSUME NEW s \in Slugs, Review(s) PROVE IInv'
  <2>1. reserved[s] # None /\ job[s] = "ended"
    BY <1>2 DEF Review, Active
  <2> QED
    BY <1>2, <2>1, DoneIInv DEF Review, meterVars, IInv, TypeOK
<1>3. ASSUME NEW s \in Slugs, Meter(s) PROVE IInv'
  <2>1. used' \in 0..MaxUsed
    BY <1>3, QuotaAssumption DEF Meter, IInv, TypeOK
  <2> QED
    BY <1>3, <2>1 DEF Meter, ledgerVars, IInv, TypeOK, At, Held, Owns, Unsubmitted,
       Untouched, EndSeen, OneJob, Active, SubmittedOnce
<1>4. ASSUME NEW s \in Slugs, JobEnds(s) PROVE IInv'
  <2> USE DEF IInv
  <2>1. /\ job[s] = "running" /\ job' = [job EXCEPT ![s] = "ended"]
        /\ UNCHANGED <<reserved, frozen, lock, proc, window, total, used, most, pushes, excused>>
    BY <1>4 DEF JobEnds, ledgerVars, meterVars
  <2>2. job'[s] = "ended" /\ \A t \in Slugs : t # s => job'[t] = job[t]
    BY <2>1 DEF TypeOK
  <2>3. TypeOK'
    BY <2>1 DEF TypeOK, At
  <2>4. Held' /\ Unsubmitted' /\ EndSeen'
    BY <2>1, <2>2, ProcAssumption DEF Held, Owns, Unsubmitted, EndSeen
  <2>5. Untouched' /\ OneJob' /\ SubmittedOnce'
    BY <2>1, <2>2 DEF Untouched, OneJob, Active, SubmittedOnce
  <2> QED
    BY <2>3, <2>4, <2>5
<1>5. ASSUME Revise \/ Reset PROVE IInv'
  <2>1. /\ window' \in 1..MaxWindows /\ used' \in 0..MaxUsed /\ excused' \in BOOLEAN
        /\ {total', most'} \subseteq Totals
    <3>1. CASE Revise
      BY <3>1 DEF Revise, IInv, TypeOK
    <3>2. CASE Reset
      <4>1. MaxWindows \in Nat /\ MaxUsed \in Nat /\ window \in 1..MaxWindows
        BY QuotaAssumption DEF IInv, TypeOK
      <4>2. window' \in 1..MaxWindows /\ used' \in 0..MaxUsed
        BY <3>2, <4>1 DEF Reset
      <4> QED
        BY <3>2, <4>2 DEF Reset
    <3> QED
      BY <1>5, <3>1, <3>2
  <2> QED
    BY <1>5, <2>1 DEF Revise, Reset, ledgerVars, IInv, TypeOK, At, Held, Owns, Unsubmitted,
       Untouched, EndSeen, OneJob, Active, SubmittedOnce
<1> QED
  BY <1>1, <1>2, <1>3, <1>4, <1>5

\* The invariant is inductive.
LEMMA NextIInv == IInv /\ [Next]_vars => IInv'
<1> SUFFICES ASSUME IInv, [Next]_vars PROVE IInv'
  OBVIOUS
<1>1. CASE Next
  BY <1>1, CommandIInv, WorldIInv DEF Next
<1>2. CASE UNCHANGED vars
  BY <1>2 DEF vars, ledgerVars, meterVars, IInv, TypeOK, At, Held, Owns, Unsubmitted,
     Untouched, EndSeen, OneJob, Active, SubmittedOnce
<1> QED
  BY <1>1, <1>2

\* Every reachable state satisfies the inductive invariant.
LEMMA Invariance == Spec => []IInv
BY InitIInv, NextIInv, PTL DEF Spec

\* The ledger, the commands and the provider are well typed in every reachable
\* state (quota.py, cli.py _run_cloud, kaggle_probe.py run_provider_smoke).
THEOREM LedgerTyped == Spec => []TypeOK
<1>1. IInv => TypeOK
  BY DEF IInv
<1> QED
  BY <1>1, Invariance, PTL

\* Whatever dies, fails or is started again, at most one job of the project is at
\* the provider, and the ledger counts it (quota.py reserve, reconcile_terminal).
THEOREM OneJobOnly == Spec => []OneJob
<1>1. IInv => OneJob
  BY DEF IInv
<1> QED
  BY <1>1, Invariance, PTL

\* No job is submitted twice (quota.py reserve: retries are forbidden).
THEOREM NeverResubmitted == Spec => []SubmittedOnce
<1>1. IInv => SubmittedOnce
  BY DEF IInv
<1> QED
  BY <1>1, Invariance, PTL

-----------------------------------------------------------------------------
(* What a sum over a finite set is.  The library defines it by recursion over    *)
(* the set; a set of numbers that holds 0 and with n also n + 1 is all of them,  *)
(* and that is the induction these lemmas need.                                  *)

LEMMA AllNumbers ==
  ASSUME NEW C \in SUBSET Nat, 0 \in C, \A n \in C : n + 1 \in C
  PROVE  C = Nat
<1> DEFINE R == {q \in Nat \X Nat : q[1] < q[2]}
<1>1. SUFFICES ASSUME C # Nat PROVE FALSE
  OBVIOUS
<1>2. IsWellFoundedOn(R, Nat)
  <2>1. IsWellFoundedOn(OpToRel(<, Nat), Nat)
    BY NatLessThanWellFounded
  <2>2. OpToRel(<, Nat) = R
    BY DEF OpToRel
  <2> QED
    BY <2>1, <2>2
<1>3. Nat \ C # {} /\ Nat \ C \subseteq Nat
  BY <1>1
<1>4. PICK n \in Nat \ C : \A m \in Nat \ C : ~ (<<m, n>> \in R)
  <2> HIDE DEF R
  <2> QED
    BY <1>2, <1>3, WFMin
<1>5. n # 0 /\ n - 1 \in Nat /\ (n - 1) + 1 = n
  OBVIOUS
<1>6. n - 1 \notin C
  BY <1>5
<1>7. <<n - 1, n>> \in R
  BY <1>5
<1> QED
  BY <1>4, <1>5, <1>6, <1>7

\* The seconds reserved under some slugs.
Amounts(f, S) == MapThenSumSet(LAMBDA s : f[s].amount, S)

Any(T) == CHOOSE x \in T : TRUE

\* h satisfies the recursion of the library's sum over the subsets of S.
Solves(f, S, h) ==
  h = [T \in SUBSET S |-> IF T = {} THEN 0 ELSE f[Any(T)].amount + h[T \ {Any(T)}]]

\* Its values are the sums of the subsets of S, whichever slug is left out.
IsSum(f, S, h) ==
  /\ h \in [SUBSET S -> Nat] /\ h[{}] = 0
  /\ \A T \in SUBSET S : \A x \in T : h[T] = f[x].amount + h[T \ {x}]

\* Subsets of a finite set, and what is left of one.
LEMMA SubsetLine ==
  ASSUME NEW S, IsFiniteSet(S), NEW T \in SUBSET S
  PROVE  /\ IsFiniteSet(T) /\ Cardinality(T) \in Nat /\ (Cardinality(T) = 0 <=> T = {})
         /\ Cardinality(T) <= Cardinality(S)
         /\ \A x \in T : T \ {x} \in SUBSET S /\ Cardinality(T \ {x}) = Cardinality(T) - 1
         /\ T # {} => Any(T) \in T
<1>1. IsFiniteSet(T) /\ Cardinality(T) <= Cardinality(S)
  BY FS_Subset
<1>2. Cardinality(T) \in Nat /\ (Cardinality(T) = 0 <=> T = {})
  BY <1>1, FS_CardinalityType, FS_EmptySet
<1>3. \A x \in T : T \ {x} \in SUBSET S /\ Cardinality(T \ {x}) = Cardinality(T) - 1
  BY <1>1, FS_RemoveElement
<1>4. T # {} => Any(T) \in T
  BY DEF Any
<1> QED
  BY <1>1, <1>2, <1>3, <1>4

\* The recursion has a solution.
LEMMA FoldExists ==
  ASSUME NEW S, IsFiniteSet(S), NEW f, \A s \in S : f[s].amount \in Nat
  PROVE  \E h : Solves(f, S, h)
<1> DEFINE Small(n) == {T \in SUBSET S : Cardinality(T) <= n}
           Turn(h, T) == IF T = {} THEN 0 ELSE f[Any(T)].amount + h[T \ {Any(T)}]
           Has(n) == \E h \in [Small(n) -> Nat] : \A T \in Small(n) : h[T] = Turn(h, T)
           C == {n \in Nat : Has(n)}
<1>1. \A T \in SUBSET S : /\ IsFiniteSet(T) /\ Cardinality(T) \in Nat
                          /\ Cardinality(T) = 0 <=> T = {}
  BY SubsetLine
<1>2. \A T \in SUBSET S : T # {} => /\ Any(T) \in T /\ f[Any(T)].amount \in Nat
                                    /\ T \ {Any(T)} \in SUBSET S
                                    /\ Cardinality(T \ {Any(T)}) = Cardinality(T) - 1
  BY SubsetLine
<1>3. 0 \in C
  <2>1. \A T \in Small(0) : T = {}
    BY <1>1
  <2> DEFINE h == [T \in Small(0) |-> 0]
  <2>2. h \in [Small(0) -> Nat] /\ \A T \in Small(0) : h[T] = Turn(h, T)
    BY <2>1
  <2> QED
    BY <2>2
<1>4. ASSUME NEW n \in C PROVE n + 1 \in C
  <2>1. PICK h \in [Small(n) -> Nat] : \A T \in Small(n) : h[T] = Turn(h, T)
    OBVIOUS
  <2> DEFINE g == [T \in Small(n + 1) |-> Turn(h, T)]
  <2>2. \A T \in Small(n + 1) : T # {} => T \ {Any(T)} \in Small(n)
    BY <1>1, <1>2
  <2>3. \A T \in Small(n + 1) : Turn(h, T) \in Nat
    BY <1>2, <2>2
  <2>4. g \in [Small(n + 1) -> Nat]
    BY <2>3
  <2>5. \A T \in Small(n) : T \in Small(n + 1) /\ g[T] = h[T]
    BY <1>1, <2>1
  <2>6. ASSUME NEW T \in Small(n + 1) PROVE g[T] = Turn(g, T)
    <3>1. CASE T = {}
      BY <3>1
    <3>2. CASE T # {}
      BY <2>2, <2>5, <3>2
    <3> QED
      BY <3>1, <3>2
  <2>7. Has(n + 1)
    <3> HIDE DEF g
    <3> QED
      BY <2>4, <2>6
  <2> QED
    BY <2>7, n + 1 \in Nat
<1>5. C = Nat
  <2> HIDE DEF C
  <2>1. C \in SUBSET Nat
    BY DEF C
  <2> QED
    BY <1>3, <1>4, <2>1, AllNumbers
<1>6. Has(Cardinality(S))
  <2>1. Cardinality(S) \in C
    BY <1>1, <1>5
  <2> QED
    BY <2>1
<1>7. Small(Cardinality(S)) = SUBSET S
  BY FS_Subset
<1>8. PICK h \in [SUBSET S -> Nat] : \A T \in SUBSET S : h[T] = Turn(h, T)
  BY <1>6, <1>7
<1>9. h = [T \in SUBSET S |-> Turn(h, T)]
  BY <1>8
<1> QED
  BY <1>9 DEF Solves

\* Any solution gives natural numbers, and they do not depend on the order.
LEMMA FoldSum ==
  ASSUME NEW S, IsFiniteSet(S), NEW f, \A s \in S : f[s].amount \in Nat, NEW h, Solves(f, S, h)
  PROVE  IsSum(f, S, h)
<1> DEFINE Good(T) == /\ h[T] \in Nat
                      /\ \A x \in T : h[T] = f[x].amount + h[T \ {x}]
           C == {n \in Nat : \A T \in SUBSET S : Cardinality(T) <= n => Good(T)}
<1>1. /\ h[{}] = 0 /\ h = [T \in SUBSET S |-> h[T]]
      /\ \A T \in SUBSET S : T # {} => h[T] = f[Any(T)].amount + h[T \ {Any(T)}]
  BY DEF Solves
<1>2. 0 \in C
  <2>1. \A T \in SUBSET S : Cardinality(T) <= 0 => T = {}
    BY SubsetLine
  <2>2. Good({})
    BY <1>1
  <2> HIDE DEF Good
  <2> QED
    BY <2>1, <2>2
<1>3. ASSUME NEW n \in C PROVE n + 1 \in C
  <2> SUFFICES ASSUME NEW T \in SUBSET S, Cardinality(T) <= n + 1 PROVE Good(T)
    BY n + 1 \in Nat
  <2>1. CASE T = {}
    BY <1>1, <2>1
  <2>2. CASE T # {}
    <3>1. n \in Nat /\ \A U \in SUBSET S : Cardinality(U) <= n => Good(U)
      OBVIOUS
    <3> DEFINE y == Any(T)
    <3>2. y \in T /\ f[y].amount \in Nat /\ h[T] = f[y].amount + h[T \ {y}]
      BY <1>1, <2>2, SubsetLine
    <3>3. \A x \in T : T \ {x} \in SUBSET S /\ Good(T \ {x}) /\ f[x].amount \in Nat
      <4>1. Cardinality(T) \in Nat
        BY SubsetLine
      <4>2. \A x \in T : T \ {x} \in SUBSET S /\ Cardinality(T \ {x}) = Cardinality(T) - 1
        BY SubsetLine
      <4> HIDE DEF Good
      <4> QED
        BY <3>1, <4>1, <4>2
    <3>4. h[T] \in Nat
      BY <3>2, <3>3
    <3>5. ASSUME NEW x \in T, x # y PROVE h[T] = f[x].amount + h[T \ {x}]
      <4>1. x \in T \ {y} /\ y \in T \ {x}
        BY <3>2, <3>5
      <4>2. h[T \ {y}] = f[x].amount + h[(T \ {y}) \ {x}]
        BY <3>2, <3>3, <4>1
      <4>3. h[T \ {x}] = f[y].amount + h[(T \ {x}) \ {y}]
        BY <3>3, <4>1
      <4>4. (T \ {y}) \ {x} = (T \ {x}) \ {y}
        OBVIOUS
      <4>5. h[T \ {y}] = f[x].amount + h[(T \ {x}) \ {y}]
        BY <4>2, <4>4
      <4>6. h[(T \ {x}) \ {y}] \in Nat
        <5>1. T \ {x} \in SUBSET S /\ Cardinality(T \ {x}) = Cardinality(T) - 1 /\ Cardinality(T) \in Nat
          BY SubsetLine
        <5>2. /\ (T \ {x}) \ {y} \in SUBSET S
              /\ Cardinality((T \ {x}) \ {y}) = Cardinality(T \ {x}) - 1
          <6> DEFINE U == T \ {x}
          <6>1. U \in SUBSET S /\ y \in U
            BY <4>1, <5>1
          <6> HIDE DEF U, y
          <6>2. U \ {y} \in SUBSET S /\ Cardinality(U \ {y}) = Cardinality(U) - 1
            BY <6>1, SubsetLine
          <6> QED
            BY <6>2 DEF U
        <5> HIDE DEF Good, y
        <5>3. Good((T \ {x}) \ {y})
          BY <3>1, <5>1, <5>2
        <5> QED
          BY <5>3 DEF Good
      <4>7. f[x].amount \in Nat /\ f[y].amount \in Nat
        BY <3>2, <3>3
      <4>8. h[T] = f[y].amount + h[T \ {y}]
        BY <3>2
      <4> HIDE DEF y
      <4> QED
        BY <4>3, <4>5, <4>6, <4>7, <4>8
    <3> QED
      BY <3>2, <3>4, <3>5
  <2> QED
    BY <2>1, <2>2
<1>4. C = Nat
  <2> HIDE DEF C
  <2>1. C \in SUBSET Nat
    BY DEF C
  <2> QED
    BY <1>2, <1>3, <2>1, AllNumbers
<1>5. \A T \in SUBSET S : Good(T)
  <2> SUFFICES ASSUME NEW T \in SUBSET S PROVE Good(T)
    OBVIOUS
  <2>1. Cardinality(T) \in Nat
    BY SubsetLine
  <2> HIDE DEF C
  <2>2. Cardinality(T) \in C
    BY <1>4, <2>1
  <2> USE DEF C
  <2> HIDE DEF Good
  <2> QED
    BY <2>1, <2>2
<1> QED
  BY <1>1, <1>5 DEF IsSum

\* The library's sum is the value of such a function.
LEMMA AmountsSum ==
  ASSUME NEW S, IsFiniteSet(S), NEW f, \A s \in S : f[s].amount \in Nat
  PROVE  \E h : IsSum(f, S, h) /\ Amounts(f, S) = h[S]
<1> DEFINE h == CHOOSE g : Solves(f, S, g)
<1>1. Solves(f, S, h)
  BY FoldExists
<1>2. Amounts(f, S) = h[S]
  BY DEF Amounts, MapThenSumSet, MapThenFoldSet, Any, Solves
<1>3. IsSum(f, S, h)
  <2> HIDE DEF h
  <2> QED
    BY <1>1, FoldSum
<1> QED
  BY <1>2, <1>3

\* Functions that agree have the same sums.
LEMMA SumsAgree ==
  ASSUME NEW S, IsFiniteSet(S), NEW T \in SUBSET S, NEW f, NEW g, NEW h, NEW k,
         IsSum(f, S, h), IsSum(g, T, k),
         \A x \in T : f[x].amount \in Nat /\ f[x].amount = g[x].amount
  PROVE  h[T] = k[T]
<1> DEFINE C == {n \in Nat : \A U \in SUBSET T : Cardinality(U) <= n => h[U] = k[U]}
<1>1. IsFiniteSet(T) /\ \A U \in SUBSET T : U \in SUBSET S
  BY FS_Subset
<1>2. 0 \in C
  <2>1. \A U \in SUBSET T : Cardinality(U) <= 0 => U = {}
    BY <1>1, SubsetLine
  <2> QED
    BY <2>1 DEF IsSum
<1>3. ASSUME NEW n \in C PROVE n + 1 \in C
  <2> SUFFICES ASSUME NEW U \in SUBSET T, Cardinality(U) <= n + 1 PROVE h[U] = k[U]
    BY n + 1 \in Nat
  <2>1. CASE U = {}
    BY <2>1 DEF IsSum
  <2>2. CASE U # {}
    <3>1. PICK x \in U : TRUE
      BY <2>2
    <3>2. Cardinality(U) \in Nat /\ U \ {x} \in SUBSET T /\ Cardinality(U \ {x}) = Cardinality(U) - 1
      BY <1>1, SubsetLine
    <3>3. h[U \ {x}] = k[U \ {x}]
      BY <3>2
    <3>4. h[U] = f[x].amount + h[U \ {x}] /\ k[U] = g[x].amount + k[U \ {x}]
      BY <1>1 DEF IsSum
    <3> QED
      BY <3>3, <3>4
  <2> QED
    BY <2>1, <2>2
<1>4. C = Nat
  <2> HIDE DEF C
  <2>1. C \in SUBSET Nat
    BY DEF C
  <2> QED
    BY <1>2, <1>3, <2>1, AllNumbers
<1>5. Cardinality(T) \in C
  BY <1>1, <1>4, FS_CardinalityType
<1> QED
  BY <1>1, <1>5, FS_CardinalityType

\* What the ledger's sums do: they are numbers, they depend on the amounts alone, and
\* one more slug adds its amount.
LEMMA AmountsType ==
  ASSUME NEW S, IsFiniteSet(S), NEW f, \A s \in S : f[s].amount \in Nat
  PROVE  Amounts(f, S) \in Nat
<1>1. PICK h : IsSum(f, S, h) /\ Amounts(f, S) = h[S]
  BY AmountsSum
<1>2. h \in [SUBSET S -> Nat] /\ S \in SUBSET S
  BY <1>1 DEF IsSum
<1> QED
  BY <1>1, <1>2

LEMMA AmountsNone == ASSUME NEW f PROVE Amounts(f, {}) = 0
<1>1. IsFiniteSet({}) /\ \A s \in {} : f[s].amount \in Nat
  BY FS_EmptySet
<1> QED
  BY <1>1, AmountsSum DEF IsSum

LEMMA AmountsSame ==
  ASSUME NEW S, IsFiniteSet(S), NEW f, NEW g,
         \A s \in S : f[s].amount \in Nat /\ f[s].amount = g[s].amount
  PROVE  Amounts(f, S) = Amounts(g, S)
<1>1. \A s \in S : f[s].amount \in Nat /\ g[s].amount \in Nat
  OBVIOUS
<1>2. PICK h : IsSum(f, S, h) /\ Amounts(f, S) = h[S]
  BY <1>1, AmountsSum
<1>3. PICK k : IsSum(g, S, k) /\ Amounts(g, S) = k[S]
  BY <1>1, AmountsSum
<1> QED
  BY <1>2, <1>3, SumsAgree

LEMMA AmountsAdd ==
  ASSUME NEW S, IsFiniteSet(S), NEW x, x \notin S, NEW f, NEW g,
         \A s \in S : f[s].amount \in Nat /\ f[s].amount = g[s].amount, f[x].amount \in Nat
  PROVE  Amounts(f, S \cup {x}) = Amounts(g, S) + f[x].amount
<1> DEFINE T == S \cup {x}
<1>1. IsFiniteSet(T) /\ S \in SUBSET T /\ T \ {x} = S
  BY FS_AddElement
<1>2. /\ \A s \in T : f[s].amount \in Nat
      /\ \A s \in S : g[s].amount \in Nat
  OBVIOUS
<1>3. PICK h : IsSum(f, T, h) /\ Amounts(f, T) = h[T]
  BY <1>1, <1>2, AmountsSum
<1>4. PICK k : IsSum(g, S, k) /\ Amounts(g, S) = k[S]
  BY <1>2, AmountsSum
<1>5. h[S] = k[S]
  BY <1>1, <1>3, <1>4, SumsAgree
<1>6. h[T] = f[x].amount + h[S] /\ h[S] \in Nat
  BY <1>1, <1>3 DEF IsSum
<1> QED
  BY <1>3, <1>4, <1>5, <1>6

-----------------------------------------------------------------------------
(* The cap *)

\* What is reserved in this window, and what the rounding of its jobs may add.
Spendable == Amounts(reserved, Charged(window))
Leeway == Cardinality(Charged(window)) * Rounding

\* A quota seen in this window showed no more than has been granted and used by now,
\* but for its rounding.
Past(seen) ==
  /\ seen.window <= window
  /\ seen.window = window => seen.total <= most /\ seen.used <= used + Half

Metered ==
  /\ total <= most
  /\ \A p \in Procs : proc[p].at \in Looking => Past(proc[p].quota)
  /\ \A s \in Slugs : reserved[s] # None => Past(reserved[s].seen)
  /\ IsFiniteSet({s \in Slugs : reserved[s] # None})

\* A command that asked again after its job found what is used until it settles, but
\* for the rounding; in a window that began since, nothing has been used.
Found(q) == IF q.quota.window = window THEN used <= q.quota.used + Half ELSE used = 0

Observed ==
  \A p \in Procs :
    /\ proc[p].at \in {"requoted", "checked"}
    /\ Owns(p) /\ ~reserved[SlugOf[p]].done
    => Found(proc[p])

\* The lock is only kept for the record of an overshoot.
Locked == lock # None => At(lock, "overshot")

\* Before a job no more was used than is reserved without it; nor is between jobs; the
\* rounding of the jobs so far comes on top.
Backed ==
  /\ \A s \in Active : ~excused /\ reserved[s].seen.window = window =>
       reserved[s].seen.used + reserved[s].amount + Allowance + Half <= Spendable + Leeway
  /\ ~frozen /\ lock = None /\ Active = {} /\ ~excused => used <= Spendable + Leeway

Capped == Spendable <= CapOf[most]

Bounded == Metered /\ Observed /\ Locked /\ Backed /\ Capped

LEMMA RoundingType ==
  Allowance \in Nat /\ Half \in Nat /\ Rounding \in Nat /\ Rounding = Allowance + 2 * Half
BY QuotaAssumption DEF Allowance, Rounding

\* One more job adds its rounding.
LEMMA LeewayGrows ==
  ASSUME NEW n \in Nat
  PROVE  /\ n * Rounding \in Nat /\ 0 * Rounding = 0
         /\ (n + 1) * Rounding = n * Rounding + Rounding
BY RoundingType

\* The seconds reserved in a window are a number.
LEMMA SpendableType ==
  ASSUME IInv, Metered
  PROVE  /\ Spendable \in Nat /\ Leeway \in Nat
         /\ IsFiniteSet(Charged(window))
         /\ \A s \in Charged(window) : reserved[s].amount \in Nat
<1>1. \A s \in Charged(window) : s \in Slugs /\ reserved[s] \in Reservation
  BY DEF IInv, TypeOK, Charged
<1>2. \A s \in Charged(window) : reserved[s].amount \in Nat
  BY <1>1 DEF Reservation
<1>3. IsFiniteSet(Charged(window))
  <2>1. Charged(window) \in SUBSET {s \in Slugs : reserved[s] # None}
    BY DEF Charged
  <2> QED
    BY <2>1, FS_Subset DEF Metered
<1>4. Spendable \in Nat
  BY <1>2, <1>3, AmountsType DEF Spendable
<1>5. Leeway \in Nat
  BY <1>3, FS_CardinalityType, LeewayGrows DEF Leeway
<1> QED
  BY <1>2, <1>3, <1>4, <1>5

\* It is the same while no reservation is made and the window lasts.
LEMMA SpendableSame ==
  ASSUME IInv, Metered, window' = window,
         \A s \in Slugs : /\ reserved'[s] # None <=> reserved[s] # None
                          /\ reserved[s] # None => /\ reserved'[s].seen = reserved[s].seen
                                                   /\ reserved'[s].amount = reserved[s].amount
  PROVE  /\ Spendable' = Spendable /\ Leeway' = Leeway
         /\ IsFiniteSet({s \in Slugs : reserved'[s] # None})
<1>1. Charged(window)' = Charged(window)
  BY DEF Charged
<1>2. \A s \in Charged(window) : reserved'[s].amount = reserved[s].amount
  BY DEF Charged
<1>3. Amounts(reserved, Charged(window)) = Amounts(reserved', Charged(window))
  BY <1>2, SpendableType, AmountsSame
<1>4. Spendable' = Spendable
  BY <1>1, <1>3 DEF Spendable
<1>5. {s \in Slugs : reserved'[s] # None} = {s \in Slugs : reserved[s] # None}
  OBVIOUS
<1>6. Leeway' = Leeway
  BY <1>1 DEF Leeway
<1> QED
  BY <1>4, <1>5, <1>6 DEF Metered

\* A step of a command that leaves the ledger's reservations and the meter alone, and
\* neither opens the ledger nor forgets an excuse.
LEMMA QuietBounded ==
  ASSUME IInv, Bounded, NEW p \in Procs, NEW from, NEW to, NEW seen,
         Goes(p, from, to, seen), to \in {"quoted", "requoted"} => used <= total /\ seen \in Snapshots,
         to = "checked" => from = "requoted" /\ seen = proc[p].quota,
         UNCHANGED <<reserved, window, total, used, most>>,
         lock' # None => lock' = lock /\ lock # p,
         ~excused' => ~excused,
         ~frozen' /\ lock' = None /\ ~excused' => ~frozen /\ lock = None
  PROVE  Bounded'
<1> USE ProcAssumption DEF Bounded
<1>1. /\ proc' = [proc EXCEPT ![p] = [at |-> to, quota |-> seen]]
      /\ proc'[p].at = to /\ proc'[p].quota = seen
      /\ \A q \in Procs : q # p => proc'[q] = proc[q]
  BY DEF Goes, IInv, TypeOK
<1>2. Spendable' = Spendable /\ Leeway' = Leeway /\ Spendable \in Nat /\ Leeway \in Nat
  BY SpendableSame, SpendableType
<1>3. to \in Looking => Past(seen)
  <2>1. ASSUME used <= total, seen \in Snapshots PROVE Past(seen)
    <3>1. /\ seen.window = window /\ seen.total <= total /\ seen.used <= used + Half
          /\ seen \in Seen
      BY <2>1, SnapshotNear DEF IInv
    <3>2. seen.total \in Nat /\ total \in Nat /\ most \in Nat /\ window \in Nat
      BY <3>1, SeenType, MeterType DEF IInv
    <3> QED
      BY <3>1, <3>2 DEF Past, Metered
  <2>2. ASSUME from = "requoted", seen = proc[p].quota PROVE Past(seen)
    BY <2>2 DEF Metered, Looking, Goes, At
  <2> QED
    BY <2>1, <2>2 DEF Looking
<1>4. Metered'
  <2>1. \A q \in Procs : proc'[q].at \in Looking => Past(proc'[q].quota)
    BY <1>1, <1>3 DEF Metered
  <2> QED
    BY <2>1 DEF Metered, Past
<1>5. Observed'
  <2> SUFFICES ASSUME NEW q \in Procs, proc'[q].at \in {"requoted", "checked"}, Owns(q)',
                      ~reserved'[SlugOf[q]].done
               PROVE  Found(proc'[q])
    BY DEF Observed, Found
  <2>3. /\ Owns(q) /\ ~reserved[SlugOf[q]].done
        /\ UNCHANGED <<window, used>>
    BY DEF Owns
  <2>1. CASE q # p \/ (q = p /\ to = "checked")
    <3>1. /\ proc[q].at \in {"requoted", "checked"}
          /\ proc'[q].quota = proc[q].quota
      BY <1>1, <2>1 DEF Goes, At
    <3> QED
      BY <2>3, <3>1 DEF Observed, Found
  <2>2. CASE q = p /\ to = "requoted"
    BY <1>1, <2>2, SnapshotNear DEF IInv, Found
  <2> QED
    BY <1>1, <2>1, <2>2
<1>6. Locked'
  <2> SUFFICES ASSUME lock' # None PROVE At(lock, "overshot")'
    BY DEF Locked
  <2>1. lock' = lock /\ lock \in Procs /\ lock # p /\ proc[lock].at = "overshot"
    BY DEF Locked, IInv, TypeOK, At
  <2> QED
    BY <1>1, <2>1 DEF At
<1>7. Backed' /\ Capped'
  BY <1>2 DEF Backed, Capped, Active
<1> QED
  BY <1>4, <1>5, <1>6, <1>7

\* A reservation: its seconds are within the cap, together with the earlier ones.
LEMMA ReserveBounded ==
  ASSUME IInv, Bounded, NEW p \in Procs, Reserve(p)
  PROVE  Bounded'
<1> USE ProcAssumption, NoneAssumption DEF Bounded
<1> DEFINE s == SlugOf[p]
           seen == proc[p].quota
<1>1. /\ proc' = [proc EXCEPT ![p] = [at |-> "reserved", quota |-> None]]
      /\ proc[p].at = "quoted" /\ reserved[s] = None /\ Active = {}
      /\ seen.window = window /\ ~frozen /\ lock = None
      /\ Already(seen.window) + Amount[p] <= CapOf[seen.total]
      /\ reserved' = [reserved EXCEPT ![s] = Record(p)]
      /\ UNCHANGED <<frozen, lock, window, total, used, most, excused>>
  BY DEF Reserve, Go, Goes, At, Fresh, meterVars
<1>2. s \in Slugs /\ Amount[p] \in Nat
  OBVIOUS
<1>3. /\ seen \in Seen /\ Past(seen) /\ seen.total <= most /\ seen.used <= used + Half
      /\ seen.total \in 0..MaxTotal /\ seen.used \in Nat /\ used \in Nat /\ most \in 0..MaxTotal
  <2>1. seen \in Seen /\ Past(seen)
    BY <1>1 DEF IInv, TypeOK, Looking, Metered
  <2>2. seen.total \in 0..MaxTotal /\ seen.used \in Nat
    BY <2>1, SeenType
  <2> QED
    BY <2>1, <2>2, <1>1, MeterType DEF Past, IInv
<1>4. /\ Record(p) # None /\ Record(p).seen = seen /\ Record(p).amount = Amount[p]
      /\ Record(p).by = p /\ ~Record(p).done
  <2>1. Record(p) \in Reservation
    BY <1>3 DEF Record, Reservation
  <2> QED
    BY <2>1 DEF Record
<1>5. reserved'[s] = Record(p) /\ \A t \in Slugs : t # s => reserved'[t] = reserved[t]
  BY <1>1, <1>2 DEF IInv, TypeOK
<1>6. proc'[p].at = "reserved" /\ \A q \in Procs : q # p => proc'[q] = proc[q]
  BY <1>1 DEF IInv, TypeOK
<1>7. Charged(window)' = Charged(window) \cup {s} /\ s \notin Charged(window)
  BY <1>1, <1>2, <1>4, <1>5 DEF Charged
<1>8. Spendable' = Spendable + Amount[p] /\ Spendable \in Nat
  <2>1. /\ IsFiniteSet(Charged(window)) /\ Spendable \in Nat
        /\ \A t \in Charged(window) : reserved[t].amount \in Nat
    BY SpendableType
  <2>2. \A t \in Charged(window) : reserved'[t] = reserved[t]
    BY <1>5, <1>7 DEF Charged
  <2>3. reserved'[s].amount = Amount[p]
    BY <1>4, <1>5
  <2> DEFINE ours == Charged(window)
             later == reserved'
  <2>4. /\ IsFiniteSet(ours) /\ s \notin ours /\ later[s].amount \in Nat
        /\ \A t \in ours : later[t].amount \in Nat /\ later[t].amount = reserved[t].amount
    BY <1>2, <1>7, <2>1, <2>2, <2>3
  <2>5. Amounts(later, ours \cup {s}) = Amounts(reserved, ours) + later[s].amount
    <3> HIDE DEF ours, later, s
    <3> QED
      BY <2>4, AmountsAdd
  <2> QED
    BY <1>7, <2>1, <2>3, <2>5 DEF Spendable
<1>9. Already(seen.window) = Spendable
  BY <1>1 DEF Already, Spendable, Amounts
<1>16. Leeway' = Leeway + Rounding /\ Leeway \in Nat
  <2>1. IsFiniteSet(Charged(window)) /\ Leeway \in Nat
    BY SpendableType
  <2>2. /\ Cardinality(Charged(window)) \in Nat
        /\ Cardinality(Charged(window)') = Cardinality(Charged(window)) + 1
    BY <1>7, <2>1, FS_CardinalityType, FS_AddElement
  <2> QED
    BY <2>1, <2>2, LeewayGrows DEF Leeway
<1>10. Capped'
  <2>1. CapOf[seen.total] <= CapOf[most] /\ CapOf[seen.total] \in Nat /\ CapOf[most] \in Nat
    BY <1>3, QuotaAssumption
  <2>2. Spendable + Amount[p] <= CapOf[seen.total]
    BY <1>1, <1>9
  <2> QED
    BY <1>1, <1>2, <1>8, <2>1, <2>2 DEF Capped
<1>11. Metered'
  <2>1. {t \in Slugs : reserved'[t] # None} = {t \in Slugs : reserved[t] # None} \cup {s}
    BY <1>2, <1>4, <1>5
  <2>2. IsFiniteSet({t \in Slugs : reserved'[t] # None})
    BY <2>1, FS_AddElement DEF Metered
  <2>3. \A t \in Slugs : reserved'[t] # None => Past(reserved'[t].seen)
    BY <1>3, <1>4, <1>5 DEF Metered
  <2>4. \A q \in Procs : proc'[q].at \in Looking => Past(proc'[q].quota)
    BY <1>6 DEF Metered, Looking
  <2> QED
    BY <1>1, <2>2, <2>3, <2>4 DEF Metered, Past
<1>12. Observed'
  <2> SUFFICES ASSUME NEW q \in Procs, proc'[q].at \in {"requoted", "checked"}, Owns(q)',
                      ~reserved'[SlugOf[q]].done
               PROVE  Found(proc'[q])
    BY <1>1 DEF Observed, Found
  <2>1. q # p /\ proc'[q] = proc[q]
    BY <1>6
  <2>2. SlugOf[q] # s /\ SlugOf[q] \in Slugs
    BY <1>4, <1>5, <2>1 DEF Owns
  <2> QED
    BY <1>1, <1>5, <2>1, <2>2 DEF Observed, Owns
<1>13. Locked'
  BY <1>1 DEF Locked
<1>14. Active' = {s}
  <2>1. s \in Active'
    BY <1>2, <1>4, <1>5 DEF Active
  <2>2. ASSUME NEW t \in Slugs, t # s PROVE t \notin Active'
    BY <2>2, <1>1, <1>5 DEF Active
  <2> QED
    BY <2>1, <2>2 DEF Active
<1>15. Backed'
  <2>1. ~excused => used <= Spendable + Leeway
    BY <1>1 DEF Backed
  <2>2. ~excused' => reserved'[s].seen.used + reserved'[s].amount + Allowance + Half
                       <= Spendable' + Leeway'
    <3>1. reserved'[s].seen.used = seen.used /\ reserved'[s].amount = Amount[p]
      BY <1>4, <1>5
    <3> QED
      BY <1>1, <1>2, <1>3, <1>8, <1>16, <2>1, <3>1, RoundingType
  <2> QED
    BY <1>14, <2>2 DEF Backed
<1> QED
  BY <1>10, <1>11, <1>12, <1>13, <1>15

\* A reservation that ends: what was used is within what was reserved, it is an
\* overshoot whose record the lock is kept for, or somebody excused it.
LEMMA DoneBounded ==
  ASSUME IInv, Bounded, NEW s \in Slugs, s \in Active,
         reserved' = [reserved EXCEPT ![s].done = TRUE],
         UNCHANGED <<window, total, used, most>>,
         \/ UNCHANGED proc
         \/ \E p \in Procs : \E to \in {"overshot", "settled"} : Go(p, "checked", to),
         lock' # None => At(lock, "overshot")',
         ~excused' => ~excused,
         ~frozen' /\ lock' = None /\ ~excused' => used <= Spendable + Leeway
  PROVE  Bounded'
<1> USE ProcAssumption, NoneAssumption DEF Bounded
<1>1. /\ reserved[s] \in Reservation /\ reserved[s] # None
      /\ reserved'[s] = [reserved[s] EXCEPT !.done = TRUE]
      /\ \A t \in Slugs : t # s => reserved'[t] = reserved[t]
  BY DEF IInv, TypeOK, Active
<1>2. /\ reserved'[s] # None /\ reserved'[s].done /\ reserved'[s].by = reserved[s].by
      /\ reserved'[s].seen = reserved[s].seen /\ reserved'[s].amount = reserved[s].amount
  <2>1. PICK r \in Reservation : r = reserved[s]
    BY <1>1
  <2>2. [r EXCEPT !.done = TRUE] \in Reservation
    BY DEF Reservation
  <2>3. /\ [r EXCEPT !.done = TRUE].by = r.by /\ [r EXCEPT !.done = TRUE].done = TRUE
        /\ [r EXCEPT !.done = TRUE].seen = r.seen /\ [r EXCEPT !.done = TRUE].amount = r.amount
    BY DEF Reservation
  <2> QED
    BY <1>1, <2>1, <2>2, <2>3
<1>3. \A t \in Slugs : /\ reserved'[t] # None <=> reserved[t] # None
                       /\ reserved[t] # None => /\ reserved'[t].seen = reserved[t].seen
                                                /\ reserved'[t].amount = reserved[t].amount
  BY <1>1, <1>2
<1>4. Spendable' = Spendable /\ Leeway' = Leeway /\ IsFiniteSet({t \in Slugs : reserved'[t] # None})
  BY <1>3, SpendableSame
<1>5. \A q \in Procs : proc'[q] = proc[q] \/ proc'[q].at \in {"overshot", "settled"}
  BY DEF IInv, TypeOK, Go, Goes
<1>6. Metered'
  <2>1. \A q \in Procs : proc'[q].at \in Looking => Past(proc'[q].quota)
    BY <1>5 DEF Metered, Looking
  <2>2. \A t \in Slugs : reserved'[t] # None => Past(reserved'[t].seen)
    BY <1>3 DEF Metered
  <2> QED
    BY <1>4, <2>1, <2>2 DEF Metered, Past
<1>7. Observed'
  <2> SUFFICES ASSUME NEW q \in Procs, proc'[q].at \in {"requoted", "checked"}, Owns(q)',
                      ~reserved'[SlugOf[q]].done
               PROVE  Found(proc'[q])
    BY DEF Observed, Found
  <2>1. proc'[q] = proc[q] /\ SlugOf[q] \in Slugs /\ SlugOf[q] # s
    BY <1>2, <1>5
  <2> QED
    BY <1>1, <2>1 DEF Observed, Owns
<1>8. Locked'
  BY DEF Locked, At
<1>9. Active' = {}
  <2>1. \A t \in Active : t = s
    BY DEF IInv, OneJob
  <2> QED
    BY <1>1, <1>2, <2>1 DEF Active
<1>10. Backed' /\ Capped'
  BY <1>4, <1>9 DEF Backed, Capped
<1> QED
  BY <1>6, <1>7, <1>8, <1>10

\* A job that settles used no more than the quota it was reserved for, but for the
\* rounding.
LEMMA ReconcileBounded ==
  ASSUME IInv, Bounded, NEW p \in Procs, Reconcile(p)
  PROVE  Bounded'
<1> USE ProcAssumption DEF Bounded
<1> DEFINE s == SlugOf[p]
           before == reserved[s].seen
           after == proc[p].quota
<1>1. /\ lock = None /\ proc[p].at = "checked"
      /\ UNCHANGED <<window, total, used, most, excused>>
  BY DEF Reconcile, Go, Goes, At, meterVars
<1>2. CASE ~Settleable(p) \/ ~Matches(p)
  BY <1>1, <1>2, QuietBounded DEF Reconcile, Go, Raised, ledgerVars
<1>3. CASE Settleable(p) /\ Matches(p)
  <2>1. s \in Slugs /\ reserved[s] # None /\ ~reserved[s].done /\ Owns(p)
    BY <1>3 DEF Settleable, Owns
  <2>2. s \in Active
    BY <2>1 DEF Active
  <2>3. /\ reserved' = [reserved EXCEPT ![s].done = TRUE]
        /\ Go(p, "checked", IF Overshot(p) THEN "overshot" ELSE "settled")
        /\ lock' = IF Overshot(p) THEN p ELSE None
        /\ UNCHANGED frozen
    BY <1>3 DEF Reconcile
  <2>4. PICK to \in {"overshot", "settled"} : Go(p, "checked", to) /\ (Overshot(p) => to = "overshot")
    BY <2>3
  <2>5. lock' # None => At(lock, "overshot")'
    <3>1. proc'[p].at = to
      BY <2>4 DEF Go, Goes, IInv, TypeOK
    <3> QED
      BY <2>3, <2>4, <3>1 DEF At
  <2>6. lock' = None /\ ~frozen' /\ ~excused' => used <= Spendable + Leeway
    <3> SUFFICES ASSUME lock' = None, ~excused PROVE used <= Spendable + Leeway
      BY <1>1
    <3>1. ~Overshot(p)
      BY <2>3, NoneAssumption
    <3>2. /\ reserved[s] \in Reservation /\ before \in Seen /\ after \in Seen
          /\ Past(before)
      BY <1>1, <2>1 DEF IInv, TypeOK, Reservation, Looking, Metered
    <3>3. /\ before.used \in Nat /\ after.used \in Nat /\ reserved[s].amount \in Nat
          /\ used \in Nat /\ before.window \in Nat /\ window \in Nat
      BY <3>2, SeenType, MeterType DEF Reservation, IInv
    <3>4. after.used <= before.used + reserved[s].amount + Allowance
      BY <3>1, <3>3, RoundingType DEF Overshot
    <3>5. CASE before.window = window
      <4>1. used <= after.used + Half
        BY <1>1, <1>3, <2>1, <3>5 DEF Observed, Found, Matches
      <4>2. before.used + reserved[s].amount + Allowance + Half <= Spendable + Leeway
        BY <2>2, <3>5 DEF Backed
      <4> QED
        BY <3>3, <3>4, <4>1, <4>2, RoundingType, SpendableType
    <3>6. CASE before.window # window
      <4>1. used = 0
        BY <1>1, <1>3, <2>1, <3>6 DEF Observed, Found, Matches
      <4> QED
        BY <4>1, SpendableType
    <3> QED
      BY <3>5, <3>6
  <2> HIDE DEF s
  <2> QED
    BY <1>1, <1>3, <2>1, <2>2, <2>3, <2>4, <2>5, <2>6, DoneBounded
<1> QED
  BY <1>2, <1>3

\* Every step of a command.
LEMMA CommandBounded ==
  ASSUME IInv, Bounded, NEW p \in Procs, Command(p)
  PROVE  Bounded'
<1> USE DEF Go, ledgerVars, meterVars
<1>0. lock = p => proc[p].at = "overshot"
  BY NoneAssumption DEF Bounded, Locked, At
<1>1. CASE Quote(p)
  <2>1. PICK seen \in Snapshots : Goes(p, "new", "quoted", seen)
    BY <1>1 DEF Quote
  <2>2. proc[p].at # "overshot"
    BY <2>1 DEF Goes, At
  <2> QED
    BY <1>0, <1>1, <2>1, <2>2, QuietBounded DEF Quote
<1>2. CASE Reserve(p)
  BY <1>2, ReserveBounded
<1>3. CASE Shrunk(p) \/ Refuse(p)
  BY <1>0, <1>3, QuietBounded DEF Shrunk, Refuse, Goes, At
<1>4. CASE Stage(p) \/ StageFails(p)
  BY <1>0, <1>4, QuietBounded DEF Stage, StageFails, Goes, At
<1>5. CASE Push(p)
  <2>1. PICK to \in {"pushed", "unknown"} : Go(p, "staged", to)
    BY <1>5 DEF Push
  <2> QED
    BY <1>0, <1>5, <2>1, QuietBounded DEF Push, Goes, At
<1>6. CASE Poll(p) \/ PollTimesOut(p) \/ PollFails(p)
  BY <1>0, <1>6, QuietBounded DEF Poll, PollTimesOut, PollFails, Raised, Goes, At
<1>7. CASE Requote(p)
  <2>1. PICK seen \in Snapshots : Goes(p, "ended", "requoted", seen)
    BY <1>7 DEF Requote
  <2>2. proc[p].at # "overshot"
    BY <2>1 DEF Goes, At
  <2> QED
    BY <1>0, <1>7, <2>1, <2>2, QuietBounded DEF Requote
<1>8. CASE RequoteFails(p) \/ Unresolved(p)
  BY <1>0, <1>8, QuietBounded DEF RequoteFails, Unresolved, Goes, At
<1>9. CASE Reconcile(p)
  BY <1>9, ReconcileBounded
<1>10. CASE RecordOvershoot(p)
  BY <1>10, QuietBounded DEF RecordOvershoot, Raised
<1>11. CASE Collect(p)
  BY <1>0, <1>11, QuietBounded DEF Collect, Goes, At
<1>12. CASE MarkFrozen(p)
  BY <1>12, QuietBounded DEF MarkFrozen
<1>13. CASE Check(p)
  BY <1>0, <1>13, QuietBounded DEF Check, Goes, At
<1> QED
  BY <1>1, <1>2, <1>3, <1>4, <1>5, <1>6, <1>7, <1>8, <1>9, <1>10, <1>11, <1>12, <1>13
     DEF Command

\* Everything else that happens.
LEMMA WorldBounded ==
  ASSUME IInv, Bounded,
         \/ \E p \in Procs : Die(p)
         \/ \E s \in Slugs : Review(s) \/ Meter(s) \/ JobEnds(s)
         \/ Revise \/ Reset
  PROVE  Bounded'
<1>1. ASSUME NEW p \in Procs, Die(p) PROVE Bounded'
  <2>1. lock = p => At(p, "overshot")
    BY NoneAssumption DEF Bounded, Locked
  <2> QED
    BY <1>1, <2>1, QuietBounded DEF Die, Go, meterVars
<1>2. ASSUME NEW s \in Slugs, Review(s) PROVE Bounded'
  BY <1>2, DoneBounded DEF Review, meterVars
<1>3. ASSUME NEW s \in Slugs, Meter(s) PROVE Bounded'
  <2> USE DEF Bounded
  <2>1. /\ job[s] = "running" /\ used' = used + 1 /\ used \in Nat
        /\ UNCHANGED <<reserved, frozen, lock, proc, window, total, most, excused>>
    BY <1>3, QuotaAssumption DEF Meter, ledgerVars, IInv, TypeOK
  <2>2. s \in Active /\ \A t \in Active : t = s
    BY <2>1 DEF IInv, OneJob
  <2>3. Spendable' = Spendable /\ Leeway' = Leeway
    BY <2>1, SpendableSame
  <2>4. Metered'
    <3>1. \A seen : Past(seen) /\ seen \in Seen => Past(seen)'
      BY <2>1, QuotaAssumption DEF Past, Seen
    <3>2. \A q \in Procs : proc[q].at \in Looking => proc[q].quota \in Seen
      BY DEF IInv, TypeOK
    <3>3. \A t \in Slugs : reserved[t] # None => reserved[t].seen \in Seen
      BY DEF IInv, TypeOK, Reservation
    <3> QED
      BY <2>1, <3>1, <3>2, <3>3 DEF Metered, Looking
  <2>5. Observed'
    <3> SUFFICES ASSUME NEW q \in Procs, proc[q].at \in {"requoted", "checked"}, Owns(q),
                        ~reserved[SlugOf[q]].done
                 PROVE  FALSE
      BY <2>1 DEF Observed, Owns
    <3>1. SlugOf[q] \in Active
      BY ProcAssumption DEF Active, Owns
    <3>2. job[SlugOf[q]] = "ended"
      BY DEF IInv, EndSeen
    <3> QED
      BY <2>1, <2>2, <3>1, <3>2
  <2>6. Locked' /\ Backed' /\ Capped'
    BY <2>1, <2>2, <2>3 DEF Locked, Backed, Capped, Active, At
  <2> QED
    BY <2>4, <2>5, <2>6
<1>4. ASSUME NEW s \in Slugs, JobEnds(s) PROVE Bounded'
  <2>1. UNCHANGED <<ledgerVars, proc, meterVars, excused>>
    BY <1>4 DEF JobEnds
  <2>2. Spendable' = Spendable /\ Leeway' = Leeway
    BY <2>1, SpendableSame DEF ledgerVars, meterVars, Bounded
  <2> QED
    BY <2>1, <2>2 DEF ledgerVars, meterVars, Bounded, Metered, Past, Observed, Found, Owns, Locked,
       Backed, Capped, Active, At
<1>5. CASE Revise
  <2> USE DEF Bounded
  <2>1. /\ UNCHANGED <<reserved, frozen, lock, proc, window, used, excused>>
        /\ {total, most, total', most'} \subseteq Totals
        /\ total' <= most' /\ most <= most'
    <3>1. {total, most, total'} \subseteq Totals
      BY <1>5 DEF Revise, IInv, TypeOK
    <3> QED
      BY <1>5, <3>1, ConstantsType, MeterType DEF IInv, Revise, ledgerVars
  <2>2. Spendable' = Spendable /\ Leeway' = Leeway /\ Spendable \in Nat
    BY <2>1, SpendableSame, SpendableType
  <2>3. Capped'
    <3>1. CapOf[most] <= CapOf[most'] /\ CapOf[most] \in Nat /\ CapOf[most'] \in Nat
      BY <2>1, QuotaAssumption
    <3> QED
      BY <2>2, <3>1 DEF Capped
  <2>4. Metered'
    <3>1. ASSUME NEW seen \in Seen, Past(seen) PROVE Past(seen)'
      <4>1. seen.total \in Nat /\ most \in Nat /\ most' \in Nat
        BY <2>1, QuotaAssumption DEF Seen
      <4> QED
        BY <2>1, <3>1, <4>1 DEF Past
    <3>2. \A q \in Procs : proc[q].at \in Looking => proc[q].quota \in Seen
      BY DEF IInv, TypeOK
    <3>3. \A t \in Slugs : reserved[t] # None => reserved[t].seen \in Seen
      BY DEF IInv, TypeOK, Reservation
    <3> QED
      BY <2>1, <3>1, <3>2, <3>3 DEF Metered, Looking
  <2>5. Observed' /\ Locked' /\ Backed'
    BY <2>1, <2>2 DEF Observed, Found, Owns, Locked, Backed, Active, At
  <2> QED
    BY <2>3, <2>4, <2>5
<1>6. CASE Reset
  <2> USE DEF Bounded
  <2>1. /\ UNCHANGED <<reserved, frozen, lock, proc>>
        /\ window' = window + 1 /\ used' = 0 /\ most' = total' /\ total' \in Totals
        /\ window \in Nat /\ MaxWindows \in Nat
    BY <1>6, QuotaAssumption DEF Reset, ledgerVars, IInv, TypeOK
  <2>2. /\ \A q \in Procs : proc[q].at \in Looking =>
             proc[q].quota.window <= window /\ proc[q].quota.window \in Nat
        /\ \A t \in Slugs : reserved[t] # None =>
             reserved[t].seen.window <= window /\ reserved[t].seen.window \in Nat
    <3>1. \A q \in Procs : proc[q].at \in Looking =>
             proc[q].quota \in Seen /\ Past(proc[q].quota)
      BY DEF IInv, TypeOK, Metered
    <3>2. \A t \in Slugs : reserved[t] # None => reserved[t].seen \in Seen /\ Past(reserved[t].seen)
      BY DEF IInv, TypeOK, Reservation, Metered
    <3> QED
      BY <2>1, <3>1, <3>2 DEF Seen, Past
  <2>3. Charged(window)' = {}
    BY <2>1, <2>2 DEF Charged
  <2>4. Spendable' = 0 /\ Leeway' \in Nat
    BY <2>3, AmountsNone, FS_EmptySet, LeewayGrows DEF Spendable, Leeway
  <2>5. Metered'
    <3>1. total' <= most'
      BY <2>1, ConstantsType
    <3> QED
      BY <2>1, <2>2, <3>1 DEF Metered, Past
  <2>6. Observed'
    BY <2>1, <2>2, RoundingType DEF Observed, Found, Looking
  <2>7. Locked'
    BY <2>1 DEF Locked, At
  <2>8. Backed'
    <3>1. ASSUME NEW t \in Active' PROVE reserved'[t].seen.window # window'
      BY <2>1, <2>2, <3>1 DEF Active
    <3>2. used' <= Spendable' + Leeway'
      <4>1. \A n \in Nat : 0 <= 0 + n
        OBVIOUS
      <4>2. used' = 0 /\ Spendable' = 0 /\ 0 <= 0 + Leeway'
        BY <2>1, <2>4, <4>1
      <4> QED
        BY <4>2, Zenon
    <3> QED
      BY <3>1, <3>2 DEF Backed
  <2>9. Capped'
    <3>1. CapOf[most'] \in Nat
      BY <2>1, QuotaAssumption
    <3> QED
      BY <2>4, <3>1 DEF Capped
  <2> QED
    BY <2>5, <2>6, <2>7, <2>8, <2>9
<1> QED
  BY <1>1, <1>2, <1>3, <1>4, <1>5, <1>6

LEMMA NextBounded == IInv /\ Bounded /\ [Next]_vars => Bounded'
<1> SUFFICES ASSUME IInv, Bounded, [Next]_vars PROVE Bounded'
  OBVIOUS
<1>1. CASE UNCHANGED vars
  <2>1. UNCHANGED <<ledgerVars, proc, meterVars, excused>>
    BY <1>1 DEF vars
  <2>2. Spendable' = Spendable /\ Leeway' = Leeway
    BY <2>1, SpendableSame DEF ledgerVars, meterVars, Bounded
  <2> QED
    BY <2>1, <2>2 DEF ledgerVars, meterVars, Bounded, Metered, Past, Observed, Found, Owns, Locked,
       Backed, Capped, Active, At
<1> QED
  BY <1>1, CommandBounded, WorldBounded DEF Next

LEMMA InitBounded == Init => Bounded
<1> SUFFICES ASSUME Init PROVE Bounded
  OBVIOUS
<1>1. /\ \A s \in Slugs : reserved[s] = None
      /\ used = 0 /\ most = total /\ total \in Totals /\ lock = None
      /\ \A p \in Procs : proc[p].at \notin Looking
  BY DEF Init, Looking
<1>2. Charged(window) = {} /\ {s \in Slugs : reserved[s] # None} = {} /\ Active = {}
  BY <1>1 DEF Charged, Active
<1>3. Spendable = 0 /\ Leeway \in Nat
  BY <1>2, AmountsNone, FS_EmptySet, LeewayGrows DEF Spendable, Leeway
<1>4. total <= most /\ CapOf[most] \in Nat
  BY <1>1, QuotaAssumption
<1>5. Metered
  BY <1>1, <1>2, <1>4, FS_EmptySet DEF Metered
<1> QED
  BY <1>1, <1>2, <1>3, <1>4, <1>5 DEF Bounded, Observed, Looking, Locked, Backed, Capped

\* Between two jobs, while the ledger is open, no more of a window's quota has been spent
\* than may be reserved in it and, for each job of the window, the rounding that
\* reconcile_terminal() cannot tell from an overshoot: for any number of processes, jobs,
\* windows and revisions of the total and any display, unless an operator excused a job or
\* the record of an overshoot was lost.
THEOREM CapIsKept == Spec => []CapKept
<1>1. Init => IInv /\ Bounded
  BY InitIInv, InitBounded
<1>2. IInv /\ Bounded /\ [Next]_vars => (IInv /\ Bounded)'
  BY NextIInv, NextBounded
<1>3. IInv /\ Bounded => CapKept
  <2> SUFFICES ASSUME IInv, Bounded, ~frozen, lock = None, Active = {}, ~excused
               PROVE  used <= CapOf[most] + Leeway
    BY DEF CapKept, Leeway
  <2>1. used <= Spendable + Leeway /\ Spendable <= CapOf[most]
    BY DEF Bounded, Backed, Capped
  <2>2. used \in Nat /\ most \in 0..MaxTotal
    BY MeterType DEF IInv
  <2>3. Spendable \in Nat /\ Leeway \in Nat /\ CapOf[most] \in Nat
    BY <2>2, SpendableType, QuotaAssumption DEF Bounded
  <2> QED
    BY <2>1, <2>2, <2>3
<1> QED
  BY <1>1, <1>2, <1>3, PTL DEF Spec

=============================================================================
