-------------------------- MODULE Coordinator_proofs --------------------------
(***************************************************************************)
(* Coordinator keeps its attempts apart, activates on evidence and tells the *)
(* truth about the setting, for any adapters, identities, goals and numbers  *)
(* of runs and deaths.                                                       *)
(*                                                                         *)
(* None of the three is inductive: what a run may do depends on what the     *)
(* records of earlier runs say, and which stage its process is at.  The      *)
(* inductive invariant has five layers, each proved from those before it.    *)
(*   Typed     every record and the process name what they must.             *)
(*   Numbered  an attempt's number is below the count of attempts, and what  *)
(*             is being measured was not recorded as interrupted: so a new   *)
(*             number is new, and no result follows an interruption.         *)
(*   Owned     whose envelope and which open activations there are at each   *)
(*             stage: an action is tried only while none of its identity is  *)
(*             open, and an outcome after an activation in force is its own. *)
(*   Tried     EvidenceFirst, the tally of the trial that is open, and the   *)
(*             evidence of the action in hand from the verdict to the        *)
(*             record of its activation.                                     *)
(*   Covered   where the setting comes from: while every setting applied was *)
(*             recorded, it is the reference's, the envelope's or that of an *)
(*             activation in force, and at each stage the code knows which.  *)
(*                                                                         *)
(* The last part is about the processes of the same optimizer                *)
(* (Supervision.tla), which keeps adapters alone for any number of runs.     *)
(* Alone speaks of adapters that live; a supervisor that has seen its        *)
(* lifeline open but not yet started its adapter is as dangerous, so the     *)
(* invariant speaks of those too (Bound).  They hold the lease, so a run     *)
(* that passes the gate finds none; and a supervisor that becomes one has an *)
(* open lifeline, so its run is up, and any two runs that are up together    *)
(* overlap (Paired).                                                        *)
(***************************************************************************)
EXTENDS Coordinator, Supervision, FiniteSetTheorems, WellFoundedInduction, TLAPS

-----------------------------------------------------------------------------
(* The last of a set of places *)

\* Less than is well founded on the natural numbers.
LEMMA LessWellFounded == IsWellFoundedOn({q \in Nat \X Nat : q[1] < q[2]}, Nat)
<1>1. IsWellFoundedOn(OpToRel(<, Nat), Nat)
  BY NatLessThanWellFounded
<1>2. OpToRel(<, Nat) = {q \in Nat \X Nat : q[1] < q[2]}
  BY DEF OpToRel
<1> QED
  BY <1>1, <1>2

\* A set of numbers up to n that is not empty has a greatest element.
LEMMA MaxLine ==
  ASSUME NEW n \in Nat, NEW S \in SUBSET (0..n), S # {}
  PROVE  Max(S) \in S /\ \A y \in S : y <= Max(S)
<1> DEFINE T == {x \in 0..n : n - x \in S}
           R == {q \in Nat \X Nat : q[1] < q[2]}
<1>1. T # {} /\ T \subseteq Nat
  <2>1. PICK x \in S : TRUE
    OBVIOUS
  <2>2. x \in 0..n
    BY <2>1
  <2>3. n - x \in 0..n /\ n - (n - x) = x
    BY <2>2
  <2>4. n - x \in T
    BY <2>3, <2>1
  <2>5. \A y \in T : y \in Nat
    OBVIOUS
  <2> HIDE DEF T
  <2> QED
    BY <2>4, <2>5
<1>2. PICK x \in T : \A y \in T : ~ (<<y, x>> \in R)
  <2> HIDE DEF T
  <2> QED
    BY <1>1, LessWellFounded, WFMin
<1>3. n - x \in S /\ \A y \in S : n - x >= y
  <2>1. ASSUME NEW y \in S PROVE n - x >= y
    <3>1. n - y \in 0..n /\ n - (n - y) = y
      OBVIOUS
    <3>2. n - y \in T
      BY <3>1
    <3>3. ~ (<<n - y, x>> \in R)
      BY <1>2, <3>2
    <3> QED
      BY <3>2, <3>3
  <2> QED
    BY <2>1
<1> QED
  BY <1>3 DEF Max

\* LastOf is the greatest place, or 0 where there is none.
LEMMA LastLine ==
  ASSUME NEW n \in Nat, NEW S \in SUBSET (1..n)
  PROVE  /\ LastOf(S) \in 0..n
         /\ LastOf(S) \in S \cup {0}
         /\ \A y \in S : y <= LastOf(S)
         /\ LastOf(S) = 0 <=> S = {}
<1>1. S \cup {0} \in SUBSET (0..n) /\ S \cup {0} # {}
  OBVIOUS
<1>2. LastOf(S) \in S \cup {0} /\ \A y \in S \cup {0} : y <= LastOf(S)
  BY <1>1, MaxLine DEF LastOf
<1>3. \A y \in S : y \in 1..n
  OBVIOUS
<1>4. LastOf(S) = 0 => S = {}
  BY <1>2, <1>3
<1>5. S = {} => LastOf(S) = 0
  BY <1>2
<1>6. LastOf(S) \in 0..n
  BY <1>1, <1>2
<1>7. \A y \in S : y <= LastOf(S)
  BY <1>2
<1> QED
  BY <1>2, <1>4, <1>5, <1>6, <1>7

\* A place after all others is the last.
LEMMA LastIs ==
  ASSUME NEW n \in Nat, NEW S \in SUBSET (1..n), NEW m \in S, \A y \in S : y <= m
  PROVE  LastOf(S) = m
<1>1. LastOf(S) \in 0..n /\ LastOf(S) \in S \cup {0} /\ m <= LastOf(S)
  BY LastLine
<1> QED
  BY <1>1

\* The last of a smaller set is not later.
LEMMA LastMonotone ==
  ASSUME NEW n \in Nat, NEW T \in SUBSET (1..n), NEW S \in SUBSET T
  PROVE  LastOf(S) <= LastOf(T)
<1>1. S \in SUBSET (1..n)
  OBVIOUS
<1>2. LastOf(S) \in S \cup {0} /\ LastOf(S) \in 0..n
  BY <1>1, LastLine
<1>3. LastOf(T) \in 0..n /\ \A y \in T : y <= LastOf(T)
  BY LastLine
<1> QED
  BY <1>2, <1>3

-----------------------------------------------------------------------------
(* The inductive invariants *)

\* A record of the journal.
Record ==
    [kind : Kinds, id : Identities, action : Settings \cup {None}, previous : Settings \cup {None},
     n : Nat \cup {None}, ok : BOOLEAN]

\* Where a measurement is under way.
Begun == {"refrun", "test", "answer", "runs", "triplet", "rerun"}

\* From the reference kept to the action about to be recorded.
Trying == {"explore", "test", "champion", "qualify", "own", "answer", "judge", "runs",
           "triplet", "apply", "applied"}

\* Where a process is.
Stages == {"off", "open", "recovered", "close", "undo", "enforce", "revert", "setaside",
           "undone", "reference", "refrun", "standing", "envelope", "recheck", "rerun",
           "finish", "tell"} \cup Trying

\* A record names what it must.
Good(e) ==
    /\ e \in Record
    /\ e.kind \in {"activate", "test"} => e.action \in Actions
    /\ e.kind = "activate" => e.previous \in Settings
    /\ e.kind = "attempt" => e.n \in Nat

\* A process.
Process ==
    [at : Stages, cmd : {"cycle", "rollback", None}, action : Settings \cup {None},
     previous : Settings \cup {None}, n : Nat \cup {None}, ok : BOOLEAN]

\* So does the running process.
Handy(q) ==
    /\ q \in Process
    /\ q.at \in {"test", "qualify", "own", "answer", "judge", "runs", "triplet", "apply",
                 "applied", "envelope", "recheck", "rerun"} => q.action \in Actions
    /\ q.at \in {"revert", "applied", "envelope"} => q.previous \in Settings
    /\ q.at \in Begun => q.n \in Nat

\* Every record and the running process are well formed.
Typed ==
    /\ journal \in Seq(Record) /\ \A k \in DOMAIN journal : Good(journal[k])
    /\ torn \in BOOLEAN /\ setting \in Settings /\ id \in Identities /\ uncovered \in BOOLEAN
    /\ active \in [id : Identities, action : Actions, previous : Settings] \cup {None}
    /\ Handy(p)
    /\ told \in Settings \cup {None}
    /\ starts \in 0 .. MaxStarts /\ faults \in 0 .. MaxFaults

\* The numbers of an identity's attempts are below their number, those recorded as
\* interrupted as well, and what is being measured was not recorded as interrupted.
Numbered ==
    /\ MeasuredOnce
    /\ \A i \in Identities : \A j \in Places(i, {"attempt", "attempt_interrupted"}) :
        journal[j].n \in 0 .. Cardinality(Places(i, {"attempt"})) - 1
    /\ p.at \in Begun =>
        \A j \in Mine({"attempt_interrupted"}) : journal[j].n # p.n
    /\ p.at \notin Begun => p.n = None
    /\ p.at = "test" => p.action \notin Tested(FALSE)

\* An identity's last activation, last undoing and last outcome, or 0.
LastAct(i) == LastOf(Places(i, {"activate"}))
LastUndo(i) == LastOf(Places(i, Undone))
LastOut(i) == LastOf(Places(i, {"outcome"}))

\* The identity's last activation is a, and nothing undid it.
InForce(i, a) == LastAct(i) > LastUndo(i) /\ journal[LastAct(i)].action = a

\* An outcome after an activation in force is that activation's.
Answered ==
    \A i \in Identities :
        LastAct(i) > LastUndo(i) /\ LastOut(i) > LastAct(i) =>
            journal[LastOut(i)].action = journal[LastAct(i)].action

\* Whose setting is applied, and which activations are open, where q is.
OwnedAt(q) ==
    /\ q.at \in {"reference", "refrun", "standing", "envelope"} \cup Trying =>
        active = None \/ active.id = id
    /\ q.at \in {"recheck", "rerun"} \/ (q.at = "undo" /\ q.cmd = "cycle") =>
        active # None /\ active.id = id
    /\ q.at = "undone" => active = None
    /\ q.at \in {"envelope", "recheck", "rerun"} => InForce(id, q.action)
    /\ q.at \in Trying => LastAct(id) <= LastUndo(id)
    /\ q.at = "standing" => LastAct(id) <= LastUndo(id) \/ LastAct(id) < LastOut(id)
    /\ q.at = "finish" => LastAct(id) <= LastUndo(id) \/ journal[LastAct(id)].action = q.action

\* The third layer.
Owned == Answered /\ OwnedAt(p)

\* Its last trial and the triplets since.
LastTrial(i) == LastOf(Places(i, {"qualify_start"}))
Seen(i) == {j \in Places(i, {"triplet"}) : j > LastTrial(i)}

\* The last of these records before the m-th.
Before(i, kinds, m) == LastOf({j \in Places(i, kinds) : j < m})

\* The triplets between the last trial before record m and that record.
SeenBefore(i, m) ==
    {j \in Places(i, {"triplet"}) : Before(i, {"qualify_start"}, m) < j /\ j < m}

\* What EvidenceFirst asks of an activation of a recorded as the k-th record:
\* v is the verdict and t the trial.
BackedBy(i, k, a, v, t) ==
    /\ v = Before(i, {"qualify_end"}, k) /\ t = Before(i, {"qualify_start"}, v)
    /\ t # 0 /\ journal[v].ok
    /\ journal[v].action = a /\ journal[t].action = a
    /\ i \notin OwnEvaluator =>
        /\ Cardinality(SeenBefore(i, v)) = Pairs
        /\ \A j \in SeenBefore(i, v) : journal[j].ok /\ journal[j].action = a
    /\ Before(i, {"activate"}, k) <= Before(i, Undone \cup {"outcome"}, k)

\* Some verdict and trial back it.
Backed(i, k, a) == \E v, t \in DOMAIN journal : BackedBy(i, k, a, v, t)

\* The triplets since the last trial began are its own and no more than it needs.
Tallied ==
    \A i \in Identities :
        /\ Cardinality(Seen(i)) <= Pairs
        /\ \A j \in Seen(i) : LastTrial(i) # 0 /\ journal[j].action = journal[LastTrial(i)].action

\* The trial and the evidence of the action in hand, where q is.
TriedAt(q) ==
    /\ q.at \in {"own", "answer", "judge", "runs", "triplet"} =>
        LastTrial(id) # 0 /\ journal[LastTrial(id)].action = q.action
    /\ q.at \in {"own", "answer"} => id \in OwnEvaluator
    /\ q.at \in {"runs", "triplet"} => Cardinality(Seen(id)) < Pairs
    /\ q.at \in {"apply", "applied"} => Backed(id, Len(journal) + 1, q.action)

\* The fourth layer.
Tried == EvidenceFirst /\ Tallied /\ TriedAt(p)

\* Where the setting was found or recorded, where it was made certain, and where
\* nothing is applied.
Opening == {"open", "recovered", "close", "enforce", "undo"}
Referring == {"reference", "refrun", "standing", "recheck", "rerun"}
Clean == {"setaside", "undone"} \cup (Trying \ {"applied"})

\* An action whose effect is under way is the adapter's setting.
Held(q) ==
    /\ q.at \in {"applied", "envelope"} => setting = q.action
    /\ q.at = "rerun" /\ q.ok => setting = q.action

\* What the adapter runs with is told by the journal or the envelope, where q is.
Known(q) ==
    /\ q.at \in {"revert", "applied", "envelope"} => q.previous = Default
    /\ active # None /\ q.at # "applied" /\ active.action = setting => InForce(active.id, setting)
    /\ q.at \in Opening =>
        setting = Default \/ (active # None /\ active.action = setting) \/ InForce(id, setting)
    /\ q.at \in Referring => setting = Default \/ InForce(id, setting)
    /\ q.at \in Clean => setting = Default
    /\ q.at \in {"finish", "tell"} => setting = q.action

\* Every activation was made with nothing applied.
Plain ==
    /\ \A k \in DOMAIN journal : journal[k].kind = "activate" => journal[k].previous = Default
    /\ active # None => active.previous = Default

\* As far as every setting applied was recorded, this is so.
Clear == (told # None => setting = told) /\ Plain /\ Known(p)

\* The fifth layer.
Covered ==
    /\ p.at # "off" => told = None
    /\ Held(p)
    /\ ~uncovered => Clear

\* An identity's places are places of the journal, and countable.
LEMMA PlacesType ==
  ASSUME Typed, NEW i, NEW kinds
  PROVE  /\ Len(journal) \in Nat /\ DOMAIN journal = 1..Len(journal)
         /\ Places(i, kinds) \in SUBSET (1..Len(journal))
         /\ IsFiniteSet(Places(i, kinds)) /\ Cardinality(Places(i, kinds)) \in Nat
         /\ \A k \in Places(i, kinds) : journal[k] \in Record
<1>1. Len(journal) \in Nat /\ DOMAIN journal = 1..Len(journal)
  BY DEF Typed
<1>2. Places(i, kinds) \in SUBSET (1..Len(journal))
  BY <1>1 DEF Places
<1>3. IsFiniteSet(1..Len(journal))
  BY <1>1, FS_Interval
<1>4. IsFiniteSet(Places(i, kinds))
  BY <1>2, <1>3, FS_Subset
<1>5. \A k \in Places(i, kinds) : journal[k] \in Record
  BY <1>2 DEF Typed
<1> QED
  BY <1>1, <1>2, <1>4, <1>5, FS_CardinalityType

\* What a record adds.
LEMMA PlacesAppend ==
  ASSUME Typed, NEW e, journal' = Append(journal, e)
  PROVE  /\ Len(journal') = Len(journal) + 1 /\ DOMAIN journal' = 1..(Len(journal) + 1)
         /\ \A k \in DOMAIN journal : journal'[k] = journal[k]
         /\ journal'[Len(journal) + 1] = e
         /\ \A i, kinds :
              Places(i, kinds)' = IF e.id = i /\ e.kind \in kinds
                                  THEN Places(i, kinds) \cup {Len(journal) + 1}
                                  ELSE Places(i, kinds)
<1>1. Len(journal) \in Nat /\ DOMAIN journal = 1..Len(journal) /\ journal \in Seq(Record)
  BY DEF Typed
<1>2. Len(journal') = Len(journal) + 1 /\ DOMAIN journal' = 1..(Len(journal) + 1)
  BY <1>1
<1>3. \A k \in DOMAIN journal : journal'[k] = journal[k]
  BY <1>1
<1>4. journal'[Len(journal) + 1] = e
  BY <1>1
<1>5. ASSUME NEW i, NEW kinds
      PROVE  Places(i, kinds)' = IF e.id = i /\ e.kind \in kinds
                                 THEN Places(i, kinds) \cup {Len(journal) + 1}
                                 ELSE Places(i, kinds)
  <2>1. DOMAIN journal' = DOMAIN journal \cup {Len(journal) + 1}
    BY <1>1, <1>2
  <2>2. Len(journal) + 1 \notin DOMAIN journal
    BY <1>1
  <2> QED
    BY <2>1, <2>2, <1>3, <1>4, Zenon DEF Places
<1> QED
  BY <1>2, <1>3, <1>4, <1>5

\* And what is then last.
LEMMA LastAppend ==
  ASSUME Typed, NEW e, journal' = Append(journal, e)
  PROVE  \A i, kinds :
           LastOf(Places(i, kinds)') = IF e.id = i /\ e.kind \in kinds
                                       THEN Len(journal) + 1 ELSE LastOf(Places(i, kinds))
<1> SUFFICES ASSUME NEW i, NEW kinds, e.id = i /\ e.kind \in kinds
             PROVE  LastOf(Places(i, kinds)') = Len(journal) + 1
  BY PlacesAppend
<1>1. Len(journal) \in Nat /\ Places(i, kinds) \in SUBSET (1..Len(journal))
  BY PlacesType
<1>2. Places(i, kinds)' = Places(i, kinds) \cup {Len(journal) + 1}
  BY PlacesAppend
<1> DEFINE S == Places(i, kinds) \cup {Len(journal) + 1}
<1>3. LastOf(S) = Len(journal) + 1
  <2>1. Len(journal) + 1 \in Nat /\ S \in SUBSET (1..(Len(journal) + 1))
    BY <1>1
  <2>2. Len(journal) + 1 \in S /\ \A y \in S : y <= Len(journal) + 1
    BY <1>1
  <2> HIDE DEF S
  <2> QED
    BY <2>1, <2>2, LastIs
<1> QED
  BY <1>2, <1>3

\* How many there are then.
LEMMA CountAppend ==
  ASSUME Typed, NEW e, journal' = Append(journal, e)
  PROVE  \A i, kinds :
           Cardinality(Places(i, kinds)') = IF e.id = i /\ e.kind \in kinds
                                            THEN Cardinality(Places(i, kinds)) + 1
                                            ELSE Cardinality(Places(i, kinds))
<1> SUFFICES ASSUME NEW i, NEW kinds, e.id = i /\ e.kind \in kinds
             PROVE  Cardinality(Places(i, kinds)') = Cardinality(Places(i, kinds)) + 1
  BY PlacesAppend
<1>1. Len(journal) + 1 \notin Places(i, kinds) /\ IsFiniteSet(Places(i, kinds))
  BY PlacesType
<1>2. Places(i, kinds)' = Places(i, kinds) \cup {Len(journal) + 1}
  BY PlacesAppend
<1> QED
  BY <1>1, <1>2, FS_AddElement

-----------------------------------------------------------------------------
(* Types *)

\* A process that does not run names nothing.
LEMMA OffHandy == Handy(Off)
  BY DEF Handy, Process, Off, Stages, Trying, Begun

\* A record written now.
LEMMA EntryType ==
  ASSUME Typed, NEW kind \in Kinds
  PROVE  /\ Entry(kind) \in Record
         /\ Entry(kind).kind = kind /\ Entry(kind).id = id /\ Entry(kind).action = p.action
         /\ Entry(kind).previous = None /\ Entry(kind).n = None /\ Entry(kind).ok = FALSE
  BY DEF Typed, Entry, Record, Handy, Process

\* Writing a well formed record keeps the types.
LEMMA RecordedTyped ==
  ASSUME Typed, NEW e, NEW q, Good(e), Handy(q), Recorded(e, q),
         UNCHANGED <<setting, active, id, told, starts>>, uncovered' \in BOOLEAN
  PROVE  Typed'
<1>1. Handy(p)'
  BY OffHandy DEF Recorded
<1>2. torn' \in BOOLEAN /\ faults' \in 0 .. MaxFaults
  <2>1. MaxFaults \in Nat /\ faults \in 0 .. MaxFaults /\ torn \in BOOLEAN
    BY GoalAssumption DEF Typed
  <2>2. UNCHANGED <<torn, faults>> \/ (faults < MaxFaults /\ faults' = faults + 1 /\ torn' = TRUE)
    BY DEF Recorded
  <2>3. faults' \in 0 .. MaxFaults
    BY <2>1, <2>2
  <2>4. torn' \in BOOLEAN
    BY <2>1, <2>2, Zenon
  <2> QED
    BY <2>3, <2>4
<1>3. journal' \in Seq(Record) /\ \A k \in DOMAIN journal' : Good(journal'[k])
  <2>1. CASE journal' = journal
    BY <2>1 DEF Typed
  <2>2. CASE journal' = Append(journal, e)
    <3>1. e \in Record /\ journal \in Seq(Record)
      BY DEF Good, Typed
    <3>2. journal' \in Seq(Record)
      BY <2>2, <3>1
    <3>3. DOMAIN journal' = DOMAIN journal \cup {Len(journal) + 1}
      BY <2>2, PlacesAppend, PlacesType
    <3> QED
      BY <2>2, <3>2, <3>3, PlacesAppend DEF Typed
  <2> QED
    BY <2>1, <2>2 DEF Recorded
<1> QED
  BY <1>1, <1>2, <1>3 DEF Typed

\* A step that writes nothing.
LEMMA UnrecordedTyped ==
  ASSUME Typed, journal' = journal, torn' \in BOOLEAN, setting' \in Settings,
         active' \in [id : Identities, action : Actions, previous : Settings] \cup {None},
         id' \in Identities, uncovered' \in BOOLEAN, Handy(p'), told' \in Settings \cup {None},
         starts' \in 0 .. MaxStarts, faults' \in 0 .. MaxFaults
  PROVE  Typed'
  BY DEF Typed

\* The process goes on to another stage with an action in hand or none.
LEMMA Handed ==
  ASSUME Handy(p)
  PROVE  /\ \A s \in {"recovered", "close", "undo", "enforce", "setaside", "undone", "reference",
                      "standing", "explore", "champion", "finish", "tell"} : Handy(At(s))
         /\ \A s \in {"reference", "explore", "judge", "finish", "undo"} :
              p.action \in Actions \/ s # "judge" =>
                /\ Handy([At(s) EXCEPT !.n = None])
                /\ Handy([At(s) EXCEPT !.n = None, !.ok = FALSE])
         /\ \A s \in {"reference", "finish", "tell"} :
              /\ Handy([At(s) EXCEPT !.previous = None])
              /\ Handy([At(s) EXCEPT !.action = Default])
              /\ Handy([At(s) EXCEPT !.action = Default, !.n = None])
              /\ Handy([At(s) EXCEPT !.action = Default, !.previous = None])
              /\ Handy([At(s) EXCEPT !.action = None, !.n = None])
<1>1. p \in Process /\ Default \in Settings
  BY DEF Handy, Settings
<1>2. {"recovered", "close", "undo", "enforce", "setaside", "undone", "reference", "judge",
       "standing", "explore", "champion", "finish", "tell"} \subseteq Stages
  BY DEF Stages, Trying
<1>3. \A s \in Stages :
        /\ At(s) \in Process
        /\ [At(s) EXCEPT !.n = None] \in Process
        /\ [At(s) EXCEPT !.n = None, !.ok = FALSE] \in Process
        /\ [At(s) EXCEPT !.previous = None] \in Process
        /\ [At(s) EXCEPT !.action = Default] \in Process
        /\ [At(s) EXCEPT !.action = Default, !.n = None] \in Process
        /\ [At(s) EXCEPT !.action = Default, !.previous = None] \in Process
        /\ [At(s) EXCEPT !.action = None, !.n = None] \in Process
  BY <1>1 DEF Process, At
<1>4. \A s : /\ At(s).at = s /\ At(s).action = p.action
             /\ [At(s) EXCEPT !.n = None].at = s
             /\ [At(s) EXCEPT !.n = None].action = p.action
             /\ [At(s) EXCEPT !.n = None, !.ok = FALSE].at = s
             /\ [At(s) EXCEPT !.n = None, !.ok = FALSE].action = p.action
             /\ [At(s) EXCEPT !.previous = None].at = s
             /\ [At(s) EXCEPT !.action = Default].at = s
             /\ [At(s) EXCEPT !.action = Default, !.n = None].at = s
             /\ [At(s) EXCEPT !.action = Default, !.previous = None].at = s
             /\ [At(s) EXCEPT !.action = None, !.n = None].at = s
  BY <1>1 DEF Process, At
<1> QED
  BY <1>2, <1>3, <1>4 DEF Handy, Begun

\* A measurement is begun.
LEMMA BeginsTyped ==
  ASSUME Typed, NEW q \in Process, q.at \in Begun, q.at # "refrun" => q.action \in Actions,
         Begins(q), UNCHANGED <<setting, active, id, told, uncovered, starts>>
  PROVE  Typed'
<1> DEFINE n == Cardinality(Mine({"attempt"}))
           e == [Entry("attempt") EXCEPT !.action = q.action, !.n = n]
<1>1. n \in Nat
  BY PlacesType DEF Mine
<1>2. Good(e)
  <2>1. Entry("attempt") \in Record /\ Entry("attempt").kind = "attempt"
    BY EntryType DEF Kinds
  <2> HIDE DEF n
  <2> QED
    BY <1>1, <2>1 DEF Good, Record, Process
<1>3. Handy([q EXCEPT !.n = n])
  <2> HIDE DEF n
  <2>1. /\ [q EXCEPT !.n = n] \in Process /\ [q EXCEPT !.n = n].at = q.at
        /\ [q EXCEPT !.n = n].action = q.action /\ [q EXCEPT !.n = n].n \in Nat
    BY <1>1 DEF Process
  <2> QED
    BY <2>1 DEF Handy, Begun
<1>4. Recorded(e, [q EXCEPT !.n = n])
  BY DEF Begins
<1> QED
  BY <1>2, <1>3, <1>4, RecordedTyped DEF Typed

\* What a measurement leaves.
LEMMA ResultType ==
  ASSUME Typed, NEW kind \in Kinds \ {"activate", "attempt"}, NEW ok \in BOOLEAN,
         kind = "test" => p.action \in Actions
  PROVE  /\ Good(Result(kind, ok))
         /\ Result(kind, ok).kind = kind /\ Result(kind, ok).id = id
         /\ Result(kind, ok).action = p.action /\ Result(kind, ok).n = p.n
         /\ Result(kind, ok).ok = ok
<1>1. Entry(kind) \in Record /\ p.n \in Nat \cup {None}
  BY EntryType DEF Typed, Handy, Process
<1>2. Entry(kind).kind = kind /\ Entry(kind).id = id /\ Entry(kind).action = p.action
  BY EntryType
<1> QED
  BY <1>1, <1>2 DEF Result, Record, Good

\* Other records that carry no more than the action.
LEMMA EntryGood ==
  ASSUME Typed, NEW kind \in Kinds \ {"activate", "attempt", "test"}
  PROVE  Good(Entry(kind))
  BY EntryType DEF Good

\* The stages of a trial and of an activation, where an action is in hand.
LEMMA HandedAction ==
  ASSUME Handy(p), p.action \in Actions
  PROVE  /\ \A s \in {"own", "judge", "apply", "recheck"} :
              /\ Handy(At(s)) /\ Handy([At(s) EXCEPT !.n = None])
              /\ Handy([At(s) EXCEPT !.previous = None])
         /\ Handy([At("applied") EXCEPT !.previous = setting]) \/ setting \notin Settings
         /\ p.previous \in Settings => Handy(At("envelope"))
         /\ \A s \in {"test", "answer", "runs", "rerun", "triplet"} :
              At(s) \in Process /\ At(s).at = s /\ At(s).action = p.action
         /\ p.n \in Nat => Handy(At("triplet"))
         /\ \A ok \in BOOLEAN :
              /\ [At("rerun") EXCEPT !.ok = ok] \in Process
              /\ [At("rerun") EXCEPT !.ok = ok].at = "rerun"
              /\ [At("rerun") EXCEPT !.ok = ok].action = p.action
<1>1. p \in Process
  BY DEF Handy
<1>2. {"own", "judge", "apply", "recheck", "applied", "envelope", "test", "answer", "runs",
       "rerun", "triplet"} \subseteq Stages
  BY DEF Stages, Trying
<1>3. \A s \in Stages :
        /\ At(s) \in Process /\ At(s).at = s
        /\ At(s).action = p.action /\ At(s).previous = p.previous /\ At(s).n = p.n
        /\ [At(s) EXCEPT !.n = None] \in Process /\ [At(s) EXCEPT !.n = None].at = s
        /\ [At(s) EXCEPT !.n = None].action = p.action
        /\ [At(s) EXCEPT !.previous = None] \in Process
        /\ [At(s) EXCEPT !.previous = None].at = s
        /\ [At(s) EXCEPT !.previous = None].action = p.action
        /\ setting \in Settings =>
             /\ [At(s) EXCEPT !.previous = setting] \in Process
             /\ [At(s) EXCEPT !.previous = setting].at = s
             /\ [At(s) EXCEPT !.previous = setting].action = p.action
             /\ [At(s) EXCEPT !.previous = setting].previous = setting
        /\ \A ok \in BOOLEAN :
             /\ [At(s) EXCEPT !.ok = ok] \in Process
             /\ [At(s) EXCEPT !.ok = ok].at = s
             /\ [At(s) EXCEPT !.ok = ok].action = p.action
  BY <1>1 DEF Process, At
<1>4. \A q \in Process : q.at = "applied" /\ q.action \in Actions /\ q.previous \in Settings => Handy(q)
  BY DEF Handy, Begun
<1>5. p.previous \in Settings => Handy(At("envelope"))
  BY <1>2, <1>3 DEF Handy, Begun
<1>6. p.n \in Nat => Handy(At("triplet"))
  BY <1>2, <1>3 DEF Handy, Begun
<1>7. \A q \in Process : q.at \in {"own", "judge", "apply", "recheck"} /\ q.action \in Actions => Handy(q)
  BY DEF Handy, Begun
<1>8. \A s \in {"own", "judge", "apply", "recheck"} :
        /\ Handy(At(s)) /\ Handy([At(s) EXCEPT !.n = None])
        /\ Handy([At(s) EXCEPT !.previous = None])
  <2> SUFFICES ASSUME NEW s \in {"own", "judge", "apply", "recheck"}
               PROVE  /\ Handy(At(s)) /\ Handy([At(s) EXCEPT !.n = None])
                      /\ Handy([At(s) EXCEPT !.previous = None])
    OBVIOUS
  <2>1. s \in Stages
    BY <1>2
  <2>2. Handy(At(s))
    BY <1>3, <1>7, <2>1
  <2>3. Handy([At(s) EXCEPT !.n = None])
    BY <1>3, <1>7, <2>1
  <2>4. Handy([At(s) EXCEPT !.previous = None])
    BY <1>3, <1>7, <2>1
  <2> QED
    BY <2>2, <2>3, <2>4
<1>9. setting \in Settings => Handy([At("applied") EXCEPT !.previous = setting])
  <2>1. "applied" \in Stages
    BY <1>2
  <2> QED
    BY <2>1, <1>3, <1>4
<1>10. \A s \in {"test", "answer", "runs", "rerun", "triplet"} :
         At(s) \in Process /\ At(s).at = s /\ At(s).action = p.action
  <2>1. \A s \in {"test", "answer", "runs", "rerun", "triplet"} : s \in Stages
    BY <1>2
  <2> QED
    BY <2>1, <1>3
<1>11. \A ok \in BOOLEAN :
         /\ [At("rerun") EXCEPT !.ok = ok] \in Process
         /\ [At("rerun") EXCEPT !.ok = ok].at = "rerun"
         /\ [At("rerun") EXCEPT !.ok = ok].action = p.action
  BY <1>2, <1>3
<1> QED
  BY <1>5, <1>6, <1>8, <1>9, <1>10, <1>11

\* Every step keeps the types.
LEMMA NextTyped ==
  ASSUME Typed, [Next]_vars
  PROVE  Typed'
<1>0. Handy(p) /\ p \in Process /\ setting \in Settings
  BY DEF Typed, Handy
<1>1. CASE Start
  <2>1. starts' \in 0 .. MaxStarts
    BY <1>1, GoalAssumption DEF Start, Typed
  <2>2. Handy(p')
    BY <1>1 DEF Start, Handy, Process, Off, Stages, Trying, Begun
  <2>3. uncovered' \in BOOLEAN
    BY <1>1, Zenon DEF Start, Typed
  <2> QED
    BY <1>1, <2>1, <2>2, <2>3, UnrecordedTyped DEF Start, Typed
<1>2. CASE Open
  BY <1>2, <1>0, Handed, UnrecordedTyped DEF Open, Typed
<1>3. CASE Recovered
  BY <1>3, <1>0, Handed, EntryGood, RecordedTyped DEF Recovered, Typed, Kinds
<1>4. CASE CloseInterrupted
  <2>1. PICK k \in OpenAttempts : Recorded([journal[k] EXCEPT !.kind = "attempt_interrupted"], p)
    BY <1>4 DEF CloseInterrupted
  <2>2. Good([journal[k] EXCEPT !.kind = "attempt_interrupted"])
    BY PlacesType DEF OpenAttempts, Mine, Good, Record, Kinds
  <2> QED
    BY <1>4, <2>1, <2>2, <1>0, RecordedTyped DEF CloseInterrupted, Typed
<1>5. CASE Opened
  BY <1>5, <1>0, Handed, UnrecordedTyped DEF Opened, Typed
<1>6. CASE EnforceIdentity
  <2>1. active # None => Handy([At("revert") EXCEPT !.previous = active.previous])
    BY <1>0 DEF Typed, Handy, Process, At, Stages, Begun
  <2>2. Handy(p')
    BY <1>0, <1>6, <2>1, Handed DEF EnforceIdentity
  <2> QED
    BY <1>6, <2>2, UnrecordedTyped DEF EnforceIdentity, Typed
<1>7. CASE NothingActive
  BY <1>7, <1>0, Handed, OffHandy, EntryGood, RecordedTyped DEF NothingActive, Typed, Kinds
<1>8. CASE Revert
  <2>1. p.previous \in Settings
    BY <1>0, <1>8 DEF Revert, Handy
  <2> QED
    BY <1>0, <1>8, <2>1, Handed, UnrecordedTyped DEF Revert, Typed
<1>9. CASE Quarantine
  BY <1>9, <1>0, Handed, UnrecordedTyped DEF Quarantine, Typed
<1>10. CASE Reverted
  <2>1. Good(Entry("identity_rollback")) /\ Good([Entry("rollback") EXCEPT !.previous = p.previous])
    BY <1>0, EntryType DEF Good, Kinds, Record, Process
  <2> QED
    BY <1>10, <1>0, <2>1, Handed, RecordedTyped DEF Reverted, Typed
<1>11. CASE Rollback
  <2>1. OpenActivation(Undone) # 0 => journal[OpenActivation(Undone)].previous \in Settings
    <3>1. LastSeq({"activate"}) \in Places(id, {"activate"}) \cup {0}
      BY PlacesType, LastLine DEF LastSeq, Mine
    <3> QED
      BY <3>1, PlacesType DEF OpenActivation, Typed, Good, Places
  <2>2. \A x \in Settings : Handy([At("revert") EXCEPT !.previous = x])
    BY <1>0 DEF Typed, Handy, Process, At, Stages, Begun
  <2>3. Handy(p')
    BY <1>11, <2>1, <2>2 DEF Rollback, Owns, Typed
  <2> QED
    BY <1>11, <2>3, UnrecordedTyped DEF Rollback, Typed
<1>12. CASE Reference
  <2>1. At("refrun") \in Process /\ At("refrun").at = "refrun"
    BY <1>0 DEF Process, At, Stages
  <2> QED
    BY <1>12, <2>1, BeginsTyped DEF Reference, Begun
<1>13. CASE ReferenceRun
  <2>1. Handy([At("reference") EXCEPT !.n = None])
    BY <1>0, Handed
  <2>2. Good(Result("reference", TRUE)) /\ Good(Result("reference_failed", FALSE))
    BY ResultType DEF Kinds
  <2> QED
    BY <1>13, <2>1, <2>2, OffHandy, RecordedTyped DEF ReferenceRun, Typed
<1>14. CASE Resume
  <2>1. DEFINE k == OpenActivation(Undone \cup {"outcome"})
  <2>2. k # 0 => journal[k].action \in Actions /\ journal[k].previous \in Settings
    <3>1. LastSeq({"activate"}) \in Places(id, {"activate"}) \cup {0}
      BY PlacesType, LastLine DEF LastSeq, Mine
    <3> QED
      BY <3>1, PlacesType DEF OpenActivation, Typed, Good, Places
  <2>3. \A a \in Actions : Handy([At("recheck") EXCEPT !.action = a])
    BY <1>0 DEF Handy, Process, At, Stages, Begun, Settings
  <2> HIDE DEF k
  <2>4. Handy(p')
    BY <1>0, <1>14, <2>2, <2>3, Handed DEF Resume, k
  <2>5. active' \in [id : Identities, action : Actions, previous : Settings] \cup {None}
    BY <1>14, <2>2 DEF Resume, k, Typed, Envelope
  <2> QED
    BY <1>14, <2>4, <2>5, UnrecordedTyped DEF Resume, Typed
<1>15. CASE Standing
  <2>1. DEFINE k == StandingOutcome
  <2>2. k # 0 => journal[k].action \in Settings \cup {None}
    <3>1. LastSeq({"outcome"}) \in Places(id, {"outcome"}) \cup {0}
      BY PlacesType, LastLine DEF LastSeq, Mine
    <3> QED
      BY <3>1, PlacesType DEF StandingOutcome, Record
  <2>3. \A a \in Settings \cup {None} :
          /\ Handy([At("tell") EXCEPT !.action = a])
          /\ Good([Entry("outcome_invalidated") EXCEPT !.action = a])
    <3>1. Entry("outcome_invalidated") \in Record /\ Entry("outcome_invalidated").kind = "outcome_invalidated"
      BY EntryType DEF Kinds
    <3> QED
      BY <1>0, <3>1 DEF Handy, Process, At, Stages, Begun, Good, Record
  <2> HIDE DEF k
  <2>4. CASE UNCHANGED <<journal, torn, faults>>
    <3>1. Handy(p')
      BY <1>0, <1>15, <2>2, <2>3, Handed, OffHandy DEF Standing, k, Recorded
    <3> QED
      BY <1>15, <2>4, <3>1, UnrecordedTyped DEF Standing, Typed
  <2>5. CASE Recorded([Entry("outcome_invalidated") EXCEPT !.action = journal[k].action], At("explore"))
             /\ k # 0
    BY <1>0, <1>15, <2>2, <2>3, <2>5, Handed, RecordedTyped DEF Standing, Typed
  <2> QED
    BY <1>15, <2>4, <2>5 DEF Standing, k
<1>16. CASE BeginTest
  <2>1. PICK a \in Actions : Begins([At("test") EXCEPT !.action = a])
    BY <1>16 DEF BeginTest
  <2>2. [At("test") EXCEPT !.action = a] \in Process
    BY <1>0 DEF Process, At, Stages, Trying, Settings
  <2>3. [At("test") EXCEPT !.action = a].at = "test" /\ [At("test") EXCEPT !.action = a].action = a
    BY <1>0 DEF Process, At
  <2> QED
    BY <1>16, <2>1, <2>2, <2>3, BeginsTyped DEF BeginTest, Begun
<1>17. CASE Test
  <2>1. p.action \in Actions
    BY <1>0, <1>17 DEF Test, Handy
  <2>2. PICK ok \in BOOLEAN :
          Recorded(Result("test", ok), [At("explore") EXCEPT !.action = None, !.n = None])
    BY <1>17 DEF Test
  <2>3. Handy([At("explore") EXCEPT !.action = None, !.n = None])
    BY <1>0 DEF Handy, Process, At, Stages, Trying, Begun
  <2> QED
    BY <1>17, <2>1, <2>2, <2>3, ResultType, RecordedTyped DEF Test, Typed, Kinds
<1>18. CASE ExploreEnd
  BY <1>18, <1>0, Handed, EntryGood, RecordedTyped DEF ExploreEnd, Typed, Kinds
<1>19. CASE Explored
  BY <1>19, <1>0, Handed, UnrecordedTyped DEF Explored, Typed
<1>20. CASE Champion
  <2>1. \A a \in Tested(TRUE) : a \in Actions
    BY PlacesType DEF Tested, Mine, Places, Typed, Good
  <2>2. \A a \in Actions : Handy([At("qualify") EXCEPT !.action = a])
    BY <1>0 DEF Handy, Process, At, Stages, Trying, Begun, Settings
  <2>3. Handy(p')
    BY <1>0, <1>20, <2>1, <2>2, Handed DEF Champion
  <2> QED
    BY <1>20, <2>3, UnrecordedTyped DEF Champion, Typed
<1>21. CASE Qualify
  <2>1. p.action \in Actions
    BY <1>0, <1>21 DEF Qualify, Handy
  <2>2. Handy(Judging) /\ Handy(Kept)
    BY <1>0, <2>1, Handed, HandedAction DEF Judging, Kept
  <2>3. CASE Recorded(Entry("qualify_start"), Judging)
    BY <1>21, <2>2, <2>3, EntryGood, RecordedTyped DEF Qualify, Typed, Kinds
  <2>4. CASE UNCHANGED <<journal, torn, faults>> /\ p' \in {Judging, Kept}
    BY <1>21, <2>2, <2>4, UnrecordedTyped DEF Qualify, Typed
  <2> QED
    BY <1>21, <2>3, <2>4 DEF Qualify
<1>22. ASSUME NEW ok \in BOOLEAN, Verdict(ok), p.action \in Actions,
              UNCHANGED <<setting, active, id, told, uncovered, starts>>
       PROVE  Typed'
  <2>1. Handy([At("apply") EXCEPT !.n = None]) /\ Handy(Kept)
    BY <1>0, <1>22, Handed, HandedAction DEF Kept
  <2> QED
    BY <1>22, <2>1, ResultType, RecordedTyped DEF Verdict, Typed, Kinds
<1>23. CASE AskAdapter
  <2>1. p.action \in Actions
    BY <1>0, <1>23 DEF AskAdapter, Handy
  <2> QED
    BY <1>0, <1>23, <2>1, HandedAction, BeginsTyped DEF AskAdapter, Begun
<1>24. CASE AdapterAnswers
  <2>1. p.action \in Actions
    BY <1>0, <1>24 DEF AdapterAnswers, Handy
  <2> QED
    BY <1>24, <1>22, <2>1 DEF AdapterAnswers
<1>25. CASE Judge
  <2>1. p.action \in Actions
    BY <1>0, <1>25 DEF Judge, Handy
  <2>2. CASE Begins(At("runs"))
    BY <1>0, <1>25, <2>1, <2>2, HandedAction, BeginsTyped DEF Judge, Begun
  <2>3. CASE \E ok \in BOOLEAN : Verdict(ok)
    BY <1>25, <1>22, <2>1, <2>3 DEF Judge
  <2> QED
    BY <1>25, <2>2, <2>3 DEF Judge
<1>26. CASE TripletRuns
  <2>1. p.action \in Actions /\ p.n \in Nat
    BY <1>0, <1>26 DEF TripletRuns, Handy, Begun
  <2> QED
    BY <1>0, <1>26, <2>1, HandedAction, ResultType, RecordedTyped DEF TripletRuns, Typed, Kinds
<1>27. CASE TripletDone
  <2>1. p.action \in Actions
    BY <1>0, <1>27 DEF TripletDone, Handy
  <2>2. PICK ok \in BOOLEAN : Recorded(Result("triplet", ok), [At("judge") EXCEPT !.n = None])
    BY <1>27 DEF TripletDone
  <2> QED
    BY <1>0, <1>27, <2>1, <2>2, HandedAction, ResultType, RecordedTyped DEF TripletDone, Typed,
    Kinds
<1>28. CASE Refused
  BY <1>28, <1>0, Handed, EntryGood, RecordedTyped DEF Refused, Kept, Typed, Kinds
<1>29. CASE Apply
  <2>1. p.action \in Actions
    BY <1>0, <1>29 DEF Apply, Handy
  <2>2. setting' \in Settings
    BY <1>29, <2>1 DEF Apply, Settings
  <2> QED
    BY <1>0, <1>29, <2>1, <2>2, HandedAction, UnrecordedTyped DEF Apply, Typed
<1>30. CASE RecordActivation
  <2>1. p.action \in Actions /\ p.previous \in Settings
    BY <1>0, <1>30 DEF RecordActivation, Handy
  <2>2. Good([Entry("activate") EXCEPT !.previous = p.previous])
    <3>1. Entry("activate") \in Record /\ Entry("activate").kind = "activate"
          /\ Entry("activate").action = p.action
      BY EntryType DEF Kinds
    <3> QED
      BY <2>1, <3>1 DEF Good, Record
  <2>3. torn' \in BOOLEAN
    BY <1>30 DEF RecordActivation, Recorded, Typed
  <2>4. uncovered' \in BOOLEAN
    BY <1>30, <2>3, Zenon DEF RecordActivation, Typed
  <2> QED
    BY <1>0, <1>30, <2>1, <2>2, <2>4, HandedAction, RecordedTyped DEF RecordActivation, Typed
<1>31. CASE WriteEnvelope
  <2>1. p.action \in Actions /\ p.previous \in Settings
    BY <1>0, <1>31 DEF WriteEnvelope, Handy
  <2> QED
    BY <1>0, <1>31, <2>1, HandedAction, UnrecordedTyped DEF WriteEnvelope, Typed
<1>32. CASE Recheck
  <2>1. p.action \in Actions
    BY <1>0, <1>32 DEF Recheck, Handy
  <2>2. (setting = p.action) \in BOOLEAN
    OBVIOUS
  <2> QED
    BY <1>0, <1>32, <2>1, <2>2, HandedAction, BeginsTyped DEF Recheck, Begun
<1>33. CASE Rechecked
  <2>1. p.ok \in BOOLEAN
    BY <1>0 DEF Process
  <2>2. PICK ok \in BOOLEAN :
          Recorded(Result("recheck", ok),
                   [At(IF ok THEN "finish" ELSE "undo") EXCEPT !.n = None, !.ok = FALSE])
    BY <1>33, <2>1 DEF Rechecked
  <2>3. Handy([At(IF ok THEN "finish" ELSE "undo") EXCEPT !.n = None, !.ok = FALSE])
    <3>1. /\ Handy([At("finish") EXCEPT !.n = None, !.ok = FALSE])
          /\ Handy([At("undo") EXCEPT !.n = None, !.ok = FALSE])
      BY <1>0, Handed
    <3> QED
      BY <3>1
  <2>4. Good(Result("recheck", ok))
    BY ResultType DEF Kinds
  <2> QED
    BY <1>33, <2>2, <2>3, <2>4, RecordedTyped DEF Rechecked, Typed
<1>34. CASE Finish
  BY <1>34, <1>0, Handed, EntryGood, RecordedTyped DEF Finish, Typed, Kinds
<1>35. CASE Tell
  <2>1. told' \in Settings \cup {None}
    BY <1>0, <1>35 DEF Tell, Process
  <2> QED
    BY <1>35, <2>1, OffHandy, UnrecordedTyped DEF Tell, Typed
<1>36. ASSUME Fault PROVE faults' \in 0 .. MaxFaults
  BY <1>36, GoalAssumption DEF Fault, Typed
<1>37. CASE Die
  <2>1. uncovered' \in BOOLEAN
    BY <1>37, Zenon DEF Die, Typed
  <2> QED
    BY <1>36, <1>37, <2>1, OffHandy, UnrecordedTyped DEF Die, Typed
<1>38. CASE Reset
  BY <1>0, <1>36, <1>38, UnrecordedTyped DEF Reset, Typed, Settings
<1>39. CASE LoseEnvelope
  BY <1>0, <1>36, <1>39, UnrecordedTyped DEF LoseEnvelope, Typed
<1>40. CASE UNCHANGED vars
  BY <1>0, <1>40, UnrecordedTyped DEF vars, Typed
<1> QED
  BY <1>1, <1>2, <1>3, <1>4, <1>5, <1>6, <1>7, <1>8, <1>9, <1>10, <1>11, <1>12, <1>13, <1>14,
     <1>15, <1>16, <1>17, <1>18, <1>19, <1>20, <1>21, <1>23, <1>24, <1>25, <1>26, <1>27, <1>28,
     <1>29, <1>30, <1>31, <1>32, <1>33, <1>34, <1>35, <1>37, <1>38, <1>39, <1>40 DEF Next

-----------------------------------------------------------------------------
(* The numbers of attempts *)

\* A step that writes nothing, or whose record is lost with the process.
LEMMA NumberedSame ==
  ASSUME Typed, Numbered, journal' = journal, p'.at \notin Begun, p'.n = None
  PROVE  Numbered'
<1>1. \A i, kinds : Places(i, kinds)' = Places(i, kinds)
  BY DEF Places
<1>2. MeasuredOnce'
  BY <1>1, Zenon DEF Numbered, MeasuredOnce
<1>3. \A i \in Identities : \A j \in Places(i, {"attempt", "attempt_interrupted"})' :
        journal'[j].n \in 0 .. Cardinality(Places(i, {"attempt"})') - 1
  BY <1>1 DEF Numbered
<1>4. p'.at # "test"
  BY DEF Begun
<1> QED
  BY <1>2, <1>3, <1>4 DEF Numbered

\* A record that neither begins, interrupts nor screens anything.
LEMMA NumberedRecord ==
  ASSUME Typed, Numbered, NEW e, journal' = Append(journal, e), id' = id, e.id = id,
         e.kind \notin {"attempt", "attempt_interrupted", "test"},
         e.n = None \/ (p.at \in Begun /\ e.n = p.n),
         IF p'.at \in Begun THEN p'.at # "test" /\ p.at \in Begun /\ p'.n = p.n
                          ELSE p'.n = None
  PROVE  Numbered'
<1> DEFINE new == Len(journal) + 1
<1>1. /\ DOMAIN journal' = 1..new /\ DOMAIN journal = 1..(new - 1) /\ new \in Nat
      /\ \A k \in DOMAIN journal : journal'[k] = journal[k]
      /\ journal'[new] = e
  BY PlacesAppend, PlacesType
<1>2. \A i : /\ Places(i, {"attempt"})' = Places(i, {"attempt"})
             /\ Places(i, {"attempt_interrupted"})' = Places(i, {"attempt_interrupted"})
             /\ Places(i, {"test"})' = Places(i, {"test"})
             /\ Places(i, {"attempt", "attempt_interrupted"})' = Places(i, {"attempt", "attempt_interrupted"})
  BY PlacesAppend
<1>3. \A i, kinds : \A j \in Places(i, kinds) : j \in DOMAIN journal /\ journal'[j] = journal[j]
  BY <1>1 DEF Places
<1> HIDE DEF new
<1>4. ASSUME NEW i \in Identities
      PROVE  /\ \A j, k \in Places(i, {"attempt"})' : journal'[j].n = journal'[k].n => j = k
             /\ \A j, k \in Places(i, {"test"})' : journal'[j].action = journal'[k].action => j = k
             /\ \A j \in Places(i, {"attempt", "attempt_interrupted"})' :
                  journal'[j].n \in 0 .. Cardinality(Places(i, {"attempt"})') - 1
  BY <1>2, <1>3 DEF Numbered, MeasuredOnce
<1>5. ASSUME NEW i \in Identities, NEW j \in Places(i, {"attempt_interrupted"})',
             NEW k \in DOMAIN journal', journal'[k].id = i, journal'[k].n = journal'[j].n
      PROVE  k = j \/ journal'[k].kind = "attempt"
  <2>1. j \in Places(i, {"attempt_interrupted"}) /\ journal'[j] = journal[j]
    BY <1>2, <1>3, <1>5
  <2>2. CASE k \in DOMAIN journal
    <3>1. journal'[k] = journal[k]
      BY <1>1, <2>2
    <3> QED
      BY <1>5, <2>1, <2>2, <3>1 DEF Numbered, MeasuredOnce
  <2>3. CASE k = new
    <3>1. journal'[k] = e /\ i = id
      BY <1>1, <1>5, <2>3
    <3>2. journal[j].n \in Nat
      <4>1. j \in Places(i, {"attempt", "attempt_interrupted"})
        BY <2>1 DEF Places
      <4> QED
        BY <4>1, PlacesType DEF Numbered
    <3>3. e.n = journal[j].n
      BY <1>5, <2>1, <3>1
    <3>4. e.n # None
      BY <3>2, <3>3, NoneAssumption
    <3> QED
      BY <2>1, <3>1, <3>3, <3>4 DEF Numbered, Mine
  <2> QED
    BY <1>1, <2>2, <2>3
<1>6. MeasuredOnce'
  BY <1>4, <1>5, <1>2 DEF MeasuredOnce
<1>7. p'.at \in Begun => \A j \in Mine({"attempt_interrupted"})' : journal'[j].n # p'.n
  BY <1>2, <1>3 DEF Numbered, Mine
<1>8. p'.at # "test"
  BY DEF Begun
<1> QED
  BY <1>4, <1>6, <1>7, <1>8 DEF Numbered

\* A measurement is begun under the next number.
LEMMA NumberedBegins ==
  ASSUME Typed, Numbered, NEW q \in Process, q.at \in Begun, Begins(q), id' = id,
         q.at = "test" => q.action \notin Tested(FALSE)
  PROVE  Numbered'
<1> DEFINE n == Cardinality(Mine({"attempt"}))
           e == [Entry("attempt") EXCEPT !.action = q.action, !.n = n]
           new == Len(journal) + 1
<1>1. CASE journal' = journal /\ p' = Off
  BY <1>1, NumberedSame DEF Off, Begun
<1>2. CASE journal' = Append(journal, e) /\ p' = [q EXCEPT !.n = n]
  <2>0. n \in Nat /\ n = Cardinality(Places(id, {"attempt"}))
    BY PlacesType DEF Mine
  <2>1. e.id = id /\ e.kind = "attempt" /\ e.n = n
    BY EntryType DEF Kinds, Record
  <2>2. p'.n = n /\ p'.at = q.at /\ p'.action = q.action
    BY <1>2 DEF Process
  <2>3. /\ DOMAIN journal' = 1..new /\ DOMAIN journal = 1..(new - 1) /\ new \in Nat
        /\ \A k \in DOMAIN journal : journal'[k] = journal[k]
        /\ journal'[new] = e
    BY <1>2, PlacesAppend, PlacesType
  <2> HIDE DEF e
  <2>4. \A i : /\ Places(i, {"attempt"})' = IF i = id THEN Places(i, {"attempt"}) \cup {new} ELSE Places(i, {"attempt"})
               /\ Places(i, {"attempt_interrupted"})' = Places(i, {"attempt_interrupted"})
               /\ Places(i, {"test"})' = Places(i, {"test"})
               /\ Places(i, {"attempt", "attempt_interrupted"})'
                    = IF i = id THEN Places(i, {"attempt", "attempt_interrupted"}) \cup {new}
                      ELSE Places(i, {"attempt", "attempt_interrupted"})
    <3>1. \A i, kinds : Places(i, kinds)' = IF i = id /\ "attempt" \in kinds
                                          THEN Places(i, kinds) \cup {new} ELSE Places(i, kinds)
      <4>1. \A i, kinds : Places(i, kinds)' = IF e.id = i /\ e.kind \in kinds
                                            THEN Places(i, kinds) \cup {new} ELSE Places(i, kinds)
        BY <1>2, PlacesAppend
      <4> HIDE DEF new
      <4> QED
        BY <2>1, <4>1
    <3> HIDE DEF new
    <3> QED
      BY <3>1
  <2>5. \A i : Cardinality(Places(i, {"attempt"})')
                 = IF i = id THEN Cardinality(Places(i, {"attempt"})) + 1
                   ELSE Cardinality(Places(i, {"attempt"}))
    BY <1>2, <2>1, CountAppend
  <2>6. \A i, kinds : \A j \in Places(i, kinds) :
          j \in DOMAIN journal /\ j # new /\ journal'[j] = journal[j]
    BY <2>3 DEF Places
  <2> HIDE DEF n, new
  <2>7. ASSUME NEW i \in Identities, NEW j \in Places(i, {"attempt", "attempt_interrupted"})
        PROVE  /\ journal[j].n \in 0 .. Cardinality(Places(i, {"attempt"})) - 1
               /\ journal[j].n \in Nat
               /\ i = id => journal[j].n < n
    <3>1. Cardinality(Places(i, {"attempt"})) \in Nat
      BY PlacesType
    <3>2. journal[j].n \in 0 .. Cardinality(Places(i, {"attempt"})) - 1
      BY DEF Numbered
    <3> QED
      BY <3>1, <3>2, <2>0
  <2>8. ASSUME NEW i \in Identities, NEW j \in Places(i, {"attempt", "attempt_interrupted"})'
        PROVE  journal'[j].n \in 0 .. Cardinality(Places(i, {"attempt"})') - 1
    <3>1. Cardinality(Places(i, {"attempt"})) \in Nat
      BY PlacesType
    <3>2. CASE j \in Places(i, {"attempt", "attempt_interrupted"})
      BY <2>5, <2>6, <2>7, <3>1, <3>2
    <3>3. CASE j = new /\ i = id
      BY <2>0, <2>1, <2>3, <2>5, <3>3
    <3> QED
      BY <2>4, <3>2, <3>3
  <2>9. ASSUME NEW i \in Identities
        PROVE  \A j, k \in Places(i, {"attempt"})' : journal'[j].n = journal'[k].n => j = k
    <3>1. ASSUME NEW j \in Places(i, {"attempt"})
          PROVE  j \in Places(i, {"attempt", "attempt_interrupted"})
      BY DEF Places
    <3>2. ASSUME NEW j \in Places(i, {"attempt"}), i = id
          PROVE  journal'[j].n # n
      <4>1. journal[j].n \in Nat /\ journal[j].n < n
        BY <2>7, <3>1, <3>2
      <4> QED
        BY <2>0, <2>6, <4>1
    <3>3. \A j, k \in Places(i, {"attempt"}) : journal'[j].n = journal'[k].n => j = k
      BY <2>6 DEF Numbered, MeasuredOnce
    <3>4. journal'[new].n = n
      BY <2>1, <2>3
    <3>5. CASE i # id
      BY <2>4, <3>3, <3>5
    <3>6. CASE i = id
      <4>1. Places(i, {"attempt"})' = Places(i, {"attempt"}) \cup {new}
        BY <2>4, <3>6
      <4>2. \A j \in Places(i, {"attempt"}) : journal'[j].n # journal'[new].n
        BY <3>2, <3>4, <3>6
      <4> QED
        BY <4>1, <4>2, <3>3
    <3> QED
      BY <3>5, <3>6
  <2>10. ASSUME NEW i \in Identities
         PROVE  \A j, k \in Places(i, {"test"})' : journal'[j].action = journal'[k].action => j = k
    BY <2>4, <2>6 DEF Numbered, MeasuredOnce
  <2>11. ASSUME NEW i \in Identities, NEW j \in Places(i, {"attempt_interrupted"})',
               NEW k \in DOMAIN journal', journal'[k].id = i, journal'[k].n = journal'[j].n
         PROVE  k = j \/ journal'[k].kind = "attempt"
    <3>1. j \in Places(i, {"attempt_interrupted"}) /\ journal'[j] = journal[j]
      BY <2>4, <2>6
    <3>2. CASE k \in DOMAIN journal
      <4>1. journal'[k] = journal[k]
        BY <2>3, <3>2
      <4> QED
        BY <2>11, <3>1, <3>2, <4>1 DEF Numbered, MeasuredOnce
    <3>3. CASE k = new
      BY <2>1, <2>3, <3>3
    <3>4. k \in DOMAIN journal \/ k = new
      BY <2>3
    <3> QED
      BY <3>2, <3>3, <3>4
  <2>12. MeasuredOnce'
    BY <2>9, <2>10, <2>11 DEF MeasuredOnce
  <2>13. \A j \in Mine({"attempt_interrupted"})' : journal'[j].n # p'.n
    <3> SUFFICES ASSUME NEW j \in Places(id, {"attempt_interrupted"}) PROVE journal'[j].n # n
      BY <2>2, <2>4 DEF Mine
    <3>1. j \in Places(id, {"attempt", "attempt_interrupted"}) /\ id \in Identities
      BY DEF Places, Typed
    <3>2. journal[j].n \in Nat /\ journal[j].n < n
      BY <2>7, <3>1
    <3> QED
      BY <2>0, <2>6, <3>2
  <2>14. p'.at = "test" => p'.action \notin Tested(FALSE)'
    <3>1. Mine({"test"})' = Mine({"test"})
      BY <2>4 DEF Mine
    <3>2. Tested(FALSE)' = Tested(FALSE)
      BY <3>1, <2>6 DEF Tested, Mine
    <3> QED
      BY <2>2, <3>2
  <2> QED
    BY <2>2, <2>8, <2>12, <2>13, <2>14 DEF Numbered
<1> QED
  BY <1>1, <1>2 DEF Begins, Recorded

\* An attempt without an answer is recorded as interrupted.
LEMMA NumberedInterrupted ==
  ASSUME Typed, Numbered, CloseInterrupted
  PROVE  Numbered'
<1> DEFINE new == Len(journal) + 1
<1>1. PICK m \in OpenAttempts : Recorded([journal[m] EXCEPT !.kind = "attempt_interrupted"], p)
  BY DEF CloseInterrupted
<1> DEFINE e == [journal[m] EXCEPT !.kind = "attempt_interrupted"]
<1>2. p.at = "close" /\ id' = id
  BY DEF CloseInterrupted
<1>3. CASE journal' = journal /\ p' = Off
  BY <1>3, NumberedSame DEF Off, Begun
<1>4. CASE journal' = Append(journal, e) /\ p' = p
  <2>0. /\ m \in Places(id, {"attempt"}) /\ journal[m] \in Record /\ id \in Identities
        /\ journal[m].id = id /\ m \in Places(id, {"attempt", "attempt_interrupted"})
    BY PlacesType DEF OpenAttempts, Mine, Places, Typed
  <2>1. e.id = id /\ e.kind = "attempt_interrupted" /\ e.n = journal[m].n
    BY <2>0 DEF Record
  <2>3. /\ DOMAIN journal' = 1..new /\ DOMAIN journal = 1..(new - 1) /\ new \in Nat
        /\ \A k \in DOMAIN journal : journal'[k] = journal[k]
        /\ journal'[new] = e
    BY <1>4, PlacesAppend, PlacesType
  <2>4. \A i, kinds : Places(i, kinds)' = IF e.id = i /\ e.kind \in kinds
                                          THEN Places(i, kinds) \cup {new} ELSE Places(i, kinds)
    BY <1>4, PlacesAppend
  <2> HIDE DEF e, new
  <2>5. \A i : /\ Places(i, {"attempt"})' = Places(i, {"attempt"})
               /\ Places(i, {"test"})' = Places(i, {"test"})
               /\ Places(i, {"attempt_interrupted"})'
                    = IF i = id THEN Places(i, {"attempt_interrupted"}) \cup {new}
                      ELSE Places(i, {"attempt_interrupted"})
               /\ Places(i, {"attempt", "attempt_interrupted"})'
                    = IF i = id THEN Places(i, {"attempt", "attempt_interrupted"}) \cup {new}
                      ELSE Places(i, {"attempt", "attempt_interrupted"})
    BY <2>1, <2>4
  <2>6. \A i, kinds : \A j \in Places(i, kinds) :
          j \in DOMAIN journal /\ j # new /\ journal'[j] = journal[j] /\ journal[j].id = i
    BY <2>3 DEF Places
  <2>7. ASSUME NEW i \in Identities, NEW j \in Places(i, {"attempt", "attempt_interrupted"})'
        PROVE  journal'[j].n \in 0 .. Cardinality(Places(i, {"attempt"})') - 1
    <3>1. CASE j \in Places(i, {"attempt", "attempt_interrupted"})
      BY <2>5, <2>6, <3>1 DEF Numbered
    <3>2. CASE j = new /\ i = id
      BY <2>0, <2>1, <2>3, <2>5, <3>2 DEF Numbered
    <3> QED
      BY <2>5, <3>1, <3>2
  <2>8. ASSUME NEW k \in DOMAIN journal, journal[k].id = id, journal[k].n = e.n
        PROVE  journal[k].kind = "attempt"
    BY <2>1, <2>8 DEF OpenAttempts
  <2>9. ASSUME NEW i \in Identities, NEW j \in Places(i, {"attempt_interrupted"})',
               NEW k \in DOMAIN journal', journal'[k].id = i, journal'[k].n = journal'[j].n
         PROVE  k = j \/ journal'[k].kind = "attempt"
    <3>0. (k \in DOMAIN journal /\ journal'[k] = journal[k]) \/ k = new
      BY <2>3
    <3>1. CASE j = new /\ i = id
      BY <2>1, <2>3, <2>8, <2>9, <3>0, <3>1
    <3>2. CASE j \in Places(i, {"attempt_interrupted"}) /\ k # new
      BY <2>3, <2>6, <2>9, <3>0, <3>2 DEF Numbered, MeasuredOnce
    <3>3. CASE j \in Places(i, {"attempt_interrupted"}) /\ k = new
      <4>1. j \in DOMAIN journal /\ journal[j].id = id /\ journal[j].n = e.n
        BY <2>1, <2>3, <2>6, <2>9, <3>3
      <4>2. journal[j].kind = "attempt_interrupted"
        BY <3>3 DEF Places
      <4> QED
        BY <2>8, <4>1, <4>2
    <3>4. (j = new /\ i = id) \/ j \in Places(i, {"attempt_interrupted"})
      BY <2>5
    <3> QED
      BY <3>1, <3>2, <3>3, <3>4
  <2>10. ASSUME NEW i \in Identities
         PROVE  /\ \A j, k \in Places(i, {"attempt"})' : journal'[j].n = journal'[k].n => j = k
                /\ \A j, k \in Places(i, {"test"})' : journal'[j].action = journal'[k].action => j = k
    BY <2>5, <2>6 DEF Numbered, MeasuredOnce
  <2>11. MeasuredOnce'
    BY <2>9, <2>10 DEF MeasuredOnce
  <2> QED
    BY <1>2, <1>4, <2>7, <2>11 DEF Numbered, Begun
<1> QED
  BY <1>1, <1>2, <1>3, <1>4 DEF Recorded

\* An action is screened that was not before.
LEMMA NumberedTest ==
  ASSUME Typed, Numbered, Test
  PROVE  Numbered'
<1> DEFINE new == Len(journal) + 1
<1>1. PICK ok \in BOOLEAN :
        Recorded(Result("test", ok), [At("explore") EXCEPT !.action = None, !.n = None])
  BY DEF Test
<1> DEFINE e == Result("test", ok)
<1>2. p.at = "test" /\ id' = id /\ p \in Process /\ p.n \in Nat
  BY DEF Test, Typed, Handy, Begun
<1>3. CASE journal' = journal /\ p' = Off
  BY <1>3, NumberedSame DEF Off, Begun
<1>4. CASE journal' = Append(journal, e) /\ p' = [At("explore") EXCEPT !.action = None, !.n = None]
  <2>0. p'.at = "explore" /\ p'.n = None
    BY <1>2, <1>4 DEF At, Process
  <2>1. e.id = id /\ e.kind = "test" /\ e.n = p.n /\ e.action = p.action
    BY <1>2, ResultType DEF Typed, Handy, Kinds
  <2>3. /\ DOMAIN journal' = 1..new /\ DOMAIN journal = 1..(new - 1) /\ new \in Nat
        /\ \A k \in DOMAIN journal : journal'[k] = journal[k]
        /\ journal'[new] = e
    BY <1>4, PlacesAppend, PlacesType
  <2>4. \A i, kinds : Places(i, kinds)' = IF e.id = i /\ e.kind \in kinds
                                          THEN Places(i, kinds) \cup {new} ELSE Places(i, kinds)
    BY <1>4, PlacesAppend
  <2> HIDE DEF e, new
  <2>5. \A i : /\ Places(i, {"attempt"})' = Places(i, {"attempt"})
               /\ Places(i, {"attempt_interrupted"})' = Places(i, {"attempt_interrupted"})
               /\ Places(i, {"attempt", "attempt_interrupted"})' = Places(i, {"attempt", "attempt_interrupted"})
               /\ Places(i, {"test"})' = IF i = id THEN Places(i, {"test"}) \cup {new}
                                         ELSE Places(i, {"test"})
    BY <2>1, <2>4
  <2>6. \A i, kinds : \A j \in Places(i, kinds) :
          j \in DOMAIN journal /\ j # new /\ journal'[j] = journal[j]
    BY <2>3 DEF Places
  <2>7. ASSUME NEW i \in Identities
        PROVE  /\ \A j, k \in Places(i, {"attempt"})' : journal'[j].n = journal'[k].n => j = k
               /\ \A j \in Places(i, {"attempt", "attempt_interrupted"})' :
                    journal'[j].n \in 0 .. Cardinality(Places(i, {"attempt"})') - 1
    BY <2>5, <2>6 DEF Numbered, MeasuredOnce
  <2>8. ASSUME NEW i \in Identities
        PROVE  \A j, k \in Places(i, {"test"})' : journal'[j].action = journal'[k].action => j = k
    <3>1. \A j, k \in Places(i, {"test"}) : journal'[j].action = journal'[k].action => j = k
      BY <2>6 DEF Numbered, MeasuredOnce
    <3>2. ASSUME i = id, NEW j \in Places(i, {"test"}) PROVE journal'[j].action # journal'[new].action
      <4>1. journal[j].action \in Tested(FALSE)
        BY <3>2 DEF Tested, Mine
      <4> QED
        BY <1>2, <2>1, <2>3, <2>6, <3>2, <4>1 DEF Numbered
    <3>3. CASE i = id
      <4>1. Places(i, {"test"})' = Places(i, {"test"}) \cup {new}
        BY <2>5, <3>3
      <4> QED
        BY <3>1, <3>2, <3>3, <4>1
    <3>4. CASE i # id
      BY <2>5, <3>1, <3>4
    <3> QED
      BY <3>3, <3>4
  <2>9. ASSUME NEW i \in Identities, NEW j \in Places(i, {"attempt_interrupted"})',
               NEW k \in DOMAIN journal', journal'[k].id = i, journal'[k].n = journal'[j].n
         PROVE  k = j \/ journal'[k].kind = "attempt"
    <3>0. (k \in DOMAIN journal /\ journal'[k] = journal[k]) \/ k = new
      BY <2>3
    <3>1. j \in Places(i, {"attempt_interrupted"}) /\ journal'[j] = journal[j]
      BY <2>5, <2>6
    <3>2. CASE k # new
      BY <2>9, <3>0, <3>1, <3>2 DEF Numbered, MeasuredOnce
    <3>3. CASE k = new
      BY <1>2, <2>1, <2>3, <2>9, <3>1, <3>3 DEF Numbered, Mine, Begun
    <3> QED
      BY <3>2, <3>3
  <2>10. MeasuredOnce'
    BY <2>5, <2>7, <2>8, <2>9 DEF MeasuredOnce
  <2> QED
    BY <2>0, <2>7, <2>10 DEF Numbered, Begun
<1> QED
  BY <1>1, <1>3, <1>4 DEF Recorded

\* A record that is lost with the process, or that begins, interrupts and screens nothing.
LEMMA NumberedRecorded ==
  ASSUME Typed, Numbered, NEW e, NEW q \in Process, Recorded(e, q), id' = id, e.id = id,
         e.kind \notin {"attempt", "attempt_interrupted", "test"},
         e.n = None \/ (p.at \in Begun /\ e.n = p.n),
         IF q.at \in Begun THEN q.at # "test" /\ p.at \in Begun /\ q.n = p.n ELSE q.n = None
  PROVE  Numbered'
<1>1. CASE journal' = journal /\ p' = Off
  BY <1>1, NumberedSame DEF Off, Begun
<1>2. CASE journal' = Append(journal, e) /\ p' = q
  BY <1>2, NumberedRecord
<1> QED
  BY <1>1, <1>2 DEF Recorded

\* A move changes the stage and nothing else.
LEMMA Moved ==
  ASSUME p \in Process, NEW s \in Stages
  PROVE  /\ At(s) \in Process /\ At(s).at = s /\ At(s).n = p.n
         /\ At(s).action = p.action /\ At(s).previous = p.previous
         /\ At(s).cmd = p.cmd /\ At(s).ok = p.ok
  BY DEF Process, At

\* A move with another action in hand.
LEMMA MovedAction ==
  ASSUME p \in Process, NEW s \in Stages, NEW a \in Settings \cup {None}
  PROVE  /\ [At(s) EXCEPT !.action = a] \in Process
         /\ [At(s) EXCEPT !.action = a].at = s /\ [At(s) EXCEPT !.action = a].action = a
         /\ [At(s) EXCEPT !.action = a].n = p.n
         /\ [At(s) EXCEPT !.action = a, !.n = None] \in Process
         /\ [At(s) EXCEPT !.action = a, !.n = None].at = s
         /\ [At(s) EXCEPT !.action = a, !.n = None].action = a
         /\ [At(s) EXCEPT !.action = a, !.previous = None] \in Process
         /\ [At(s) EXCEPT !.action = a, !.previous = None].at = s
         /\ [At(s) EXCEPT !.action = a, !.previous = None].action = a
  BY DEF Process, At

\* A move with another setting to go back to.
LEMMA MovedPrevious ==
  ASSUME p \in Process, NEW s \in Stages, NEW a \in Settings \cup {None}
  PROVE  /\ [At(s) EXCEPT !.previous = a] \in Process
         /\ [At(s) EXCEPT !.previous = a].at = s
         /\ [At(s) EXCEPT !.previous = a].previous = a
         /\ [At(s) EXCEPT !.previous = a].action = p.action
         /\ [At(s) EXCEPT !.previous = a].cmd = p.cmd
  BY DEF Process, At

\* A move that ends a measurement.
LEMMA MovedDone ==
  ASSUME p \in Process, NEW s \in Stages
  PROVE  /\ [At(s) EXCEPT !.n = None] \in Process
         /\ [At(s) EXCEPT !.n = None].at = s /\ [At(s) EXCEPT !.n = None].action = p.action
         /\ [At(s) EXCEPT !.n = None, !.ok = FALSE] \in Process
         /\ [At(s) EXCEPT !.n = None, !.ok = FALSE].at = s
         /\ [At(s) EXCEPT !.n = None, !.ok = FALSE].action = p.action
         /\ [At(s) EXCEPT !.n = None, !.ok = FALSE].cmd = p.cmd
  BY DEF Process, At

\* The stages a record leads to begin nothing.
LEMMA Settle ==
  ASSUME p \in Process
  PROVE  /\ Judging \in Process /\ Judging.at \in {"own", "judge"} /\ Judging.action = p.action
         /\ Judging.n = p.n /\ (Judging.at = "own" => id \in OwnEvaluator)
         /\ Kept \in Process /\ Kept.at = "finish" /\ Kept.action = Default /\ Kept.n = None
         /\ Off \in Process /\ Off.at = "off" /\ Off.n = None
<1>1. {"own", "judge", "finish"} \subseteq Stages /\ Default \in Settings
  BY DEF Stages, Trying, Settings
<1>2. \A s \in Stages : At(s) \in Process /\ At(s).at = s /\ At(s).action = p.action /\ At(s).n = p.n
  BY DEF Process, At
<1>3. (Judging = At("own") /\ id \in OwnEvaluator) \/ Judging = At("judge")
  BY DEF Judging
<1>4. Kept \in Process /\ Kept.at = "finish" /\ Kept.action = Default /\ Kept.n = None
  BY <1>1 DEF Kept, Process, At
<1>5. Off \in Process /\ Off.at = "off" /\ Off.n = None
  BY OffHandy DEF Handy, Off
<1>6. "own" \in Stages /\ "judge" \in Stages
  BY <1>1
<1> QED
  BY <1>2, <1>3, <1>4, <1>5, <1>6

\* A verdict keeps attempts apart.
LEMMA NumberedVerdict ==
  ASSUME Typed, Numbered, NEW ok \in BOOLEAN, Verdict(ok), p.at \in {"answer", "judge"}, id' = id
  PROVE  Numbered'
<1>1. p \in Process
  BY DEF Typed, Handy
<1>2. /\ Result("qualify_end", ok).kind = "qualify_end" /\ Result("qualify_end", ok).id = id
      /\ Result("qualify_end", ok).n = p.n
  BY ResultType DEF Kinds
<1>3. "apply" \in Stages
  BY DEF Stages, Trying
<1>4. /\ [At("apply") EXCEPT !.n = None] \in Process
      /\ [At("apply") EXCEPT !.n = None].at = "apply" /\ [At("apply") EXCEPT !.n = None].n = None
  BY <1>1, <1>3 DEF At, Process
<1> DEFINE q == IF ok THEN [At("apply") EXCEPT !.n = None] ELSE Kept
<1>5. q \in Process /\ q.at \in {"apply", "finish"} /\ q.n = None
  BY <1>1, <1>4, Settle
<1>6. p.n = None \/ p.at \in Begun
  BY DEF Numbered, Begun
<1>7. q.at \notin Begun
  BY <1>5 DEF Begun
<1>8. Recorded(Result("qualify_end", ok), q)
  BY DEF Verdict
<1> HIDE DEF q
<1> QED
  BY <1>2, <1>5, <1>6, <1>7, <1>8, NumberedRecorded

\* Every step keeps attempts apart.
LEMMA NextNumbered ==
  ASSUME Typed, Numbered, [Next]_vars
  PROVE  Numbered'
<1>0. /\ p \in Process /\ Default \in Settings \cup {None} /\ None \in Settings \cup {None}
      /\ p.at \notin Begun => p.n = None
      /\ \A kind \in Kinds : /\ Entry(kind) \in Record /\ Entry(kind).kind = kind
                             /\ Entry(kind).id = id /\ Entry(kind).n = None
  BY EntryType DEF Typed, Handy, Settings, Numbered
<1>1. CASE Start
  <2>1. p'.at \notin Begun /\ p'.n = None
    BY <1>0, <1>1 DEF Start, At, Process, Begun, Off
  <2> QED
    BY <1>1, <2>1, NumberedSame DEF Start
<1>2. CASE Open
  <2>1. p'.at \notin Begun /\ p'.n = None
    BY <1>0, <1>2 DEF Open, At, Process, Begun
  <2> QED
    BY <1>2, <2>1, NumberedSame DEF Open
<1>3. CASE Recovered
  <2>1. At("close") \in Process /\ At("close").at = "close" /\ At("close").n = None
    BY <1>0, <1>3 DEF Recovered, At, Process, Stages, Begun
  <2> QED
    BY <1>3, <1>0, <2>1, NumberedRecorded DEF Recovered, Kinds, Begun
<1>4. CASE CloseInterrupted
  BY <1>4, NumberedInterrupted
<1>5. CASE Opened
  <2>1. p'.at \notin Begun /\ p'.n = None
    BY <1>0, <1>5 DEF Opened, At, Process, Begun
  <2> QED
    BY <1>5, <2>1, NumberedSame DEF Opened
<1>6. CASE EnforceIdentity
  <2>1. p'.at \notin Begun /\ p'.n = None
    BY <1>0, <1>6 DEF EnforceIdentity, At, Process, Begun
  <2> QED
    BY <1>6, <2>1, NumberedSame DEF EnforceIdentity
<1>7. CASE NothingActive
  <2>1. /\ [At("finish") EXCEPT !.action = Default] \in Process
        /\ [At("finish") EXCEPT !.action = Default].at = "finish"
        /\ [At("finish") EXCEPT !.action = Default].n = None
    BY <1>0, <1>7 DEF NothingActive, At, Process, Stages, Begun
  <2> QED
    BY <1>7, <1>0, <2>1, Settle, NumberedRecorded DEF NothingActive, Kinds, Begun
<1>8. CASE Revert
  <2>1. p'.at \notin Begun /\ p'.n = None
    BY <1>0, <1>8 DEF Revert, At, Process, Begun
  <2> QED
    BY <1>8, <2>1, NumberedSame DEF Revert
<1>9. CASE Quarantine
  <2>1. p'.at \notin Begun /\ p'.n = None
    BY <1>0, <1>9 DEF Quarantine, At, Process, Begun
  <2> QED
    BY <1>9, <2>1, NumberedSame DEF Quarantine
<1>10. CASE Reverted
  <2>1. \A s \in {"reference", "finish", "tell"} :
          /\ [At(s) EXCEPT !.previous = None] \in Process
          /\ [At(s) EXCEPT !.previous = None].at = s
          /\ [At(s) EXCEPT !.previous = None].n = None
          /\ [At(s) EXCEPT !.action = Default, !.previous = None] \in Process
          /\ [At(s) EXCEPT !.action = Default, !.previous = None].at = s
          /\ [At(s) EXCEPT !.action = Default, !.previous = None].n = None
    BY <1>0, <1>10 DEF Reverted, At, Process, Stages, Begun
  <2>2. /\ [Entry("rollback") EXCEPT !.previous = p.previous].kind = "rollback"
        /\ [Entry("rollback") EXCEPT !.previous = p.previous].id = id
        /\ [Entry("rollback") EXCEPT !.previous = p.previous].n = None
    BY <1>0 DEF Kinds, Record
  <2>3. CASE Recorded(Entry("identity_rollback"), [At("reference") EXCEPT !.previous = None])
    BY <1>0, <1>10, <2>1, <2>3, NumberedRecorded DEF Reverted, Kinds, Begun
  <2>4. CASE Recorded([Entry("rollback") EXCEPT !.previous = p.previous],
                      [At(IF p.cmd = "cycle" THEN "finish" ELSE "tell")
                          EXCEPT !.action = Default, !.previous = None])
    <3> DEFINE s == IF p.cmd = "cycle" THEN "finish" ELSE "tell"
    <3>1. s \in {"finish", "tell"}
      OBVIOUS
    <3>2. Recorded([Entry("rollback") EXCEPT !.previous = p.previous],
                   [At(s) EXCEPT !.action = Default, !.previous = None])
      BY <2>4
    <3> HIDE DEF s
    <3> QED
      BY <1>10, <2>1, <2>2, <3>1, <3>2, NumberedRecorded DEF Reverted, Begun
  <2> QED
    BY <1>10, <2>3, <2>4 DEF Reverted
<1>11. CASE Rollback
  <2>1. p'.at \notin Begun /\ p'.n = None
    BY <1>0, <1>11 DEF Rollback, At, Process, Begun
  <2> QED
    BY <1>11, <2>1, NumberedSame DEF Rollback
<1>12. CASE Reference
  <2>1. At("refrun") \in Process /\ At("refrun").at = "refrun"
    BY <1>0 DEF At, Process, Stages
  <2> QED
    BY <1>12, <2>1, NumberedBegins DEF Reference, Begun
<1>13. CASE ReferenceRun
  <2>1. /\ [At("reference") EXCEPT !.n = None] \in Process
        /\ [At("reference") EXCEPT !.n = None].at = "reference"
        /\ [At("reference") EXCEPT !.n = None].n = None
    BY <1>0 DEF At, Process, Stages
  <2>2. \A kind \in {"reference", "reference_failed"}, ok \in BOOLEAN :
          Result(kind, ok).kind = kind /\ Result(kind, ok).id = id /\ Result(kind, ok).n = p.n
    BY ResultType DEF Kinds
  <2> QED
    BY <1>13, <2>1, <2>2, Settle, <1>0, NumberedRecorded DEF ReferenceRun, Begun
<1>14. CASE Resume
  <2>1. p'.at \notin Begun /\ p'.n = None
    BY <1>0, <1>14 DEF Resume, At, Process, Begun
  <2> QED
    BY <1>14, <2>1, NumberedSame DEF Resume
<1>15. CASE Standing
  <2>1. /\ At("explore") \in Process /\ At("explore").at = "explore" /\ At("explore").n = None
        /\ \A a : /\ [At("tell") EXCEPT !.action = a].at = "tell"
                  /\ [At("tell") EXCEPT !.action = a].n = None
    BY <1>0, <1>15 DEF Standing, At, Process, Stages, Trying, Begun
  <2>2. CASE Recorded([Entry("outcome_invalidated") EXCEPT !.action = journal[StandingOutcome].action],
                      At("explore"))
    <3>1. \A a : LET e == [Entry("outcome_invalidated") EXCEPT !.action = a]
                 IN  e.kind = "outcome_invalidated" /\ e.id = id /\ e.n = None
      BY <1>0 DEF Kinds, Record
    <3> QED
      BY <1>15, <2>1, <2>2, <3>1, NumberedRecorded DEF Standing, Begun
  <2>3. CASE journal' = journal /\ p'.at \in {"explore", "tell"} /\ p'.n = None
    BY <2>3, NumberedSame DEF Begun
  <2> QED
    BY <1>15, <2>1, <2>2, <2>3 DEF Standing
<1>16. CASE BeginTest
  <2>1. PICK a \in Actions \ Tested(FALSE) : Begins([At("test") EXCEPT !.action = a])
    BY <1>16 DEF BeginTest
  <2>2. /\ [At("test") EXCEPT !.action = a] \in Process
        /\ [At("test") EXCEPT !.action = a].at = "test"
        /\ [At("test") EXCEPT !.action = a].action = a
    BY <1>0 DEF At, Process, Stages, Trying, Settings
  <2> QED
    BY <1>16, <2>1, <2>2, NumberedBegins DEF BeginTest, Begun
<1>17. CASE Test
  BY <1>17, NumberedTest
<1>18. CASE ExploreEnd
  <2>1. At("champion") \in Process /\ At("champion").at = "champion" /\ At("champion").n = None
    BY <1>0, <1>18 DEF ExploreEnd, At, Process, Stages, Trying, Begun
  <2> QED
    BY <1>18, <1>0, <2>1, NumberedRecorded DEF ExploreEnd, Kinds, Begun
<1>19. CASE Explored
  <2>1. p'.at \notin Begun /\ p'.n = None
    BY <1>0, <1>19 DEF Explored, At, Process, Begun
  <2> QED
    BY <1>19, <2>1, NumberedSame DEF Explored
<1>20. CASE Champion
  <2>1. p'.at \notin Begun /\ p'.n = None
    BY <1>0, <1>20 DEF Champion, At, Process, Begun
  <2> QED
    BY <1>20, <2>1, NumberedSame DEF Champion
<1>21. CASE Qualify
  <2>0. p.n = None /\ id' = id
    BY <1>0, <1>21 DEF Qualify, Begun
  <2>1. CASE Recorded(Entry("qualify_start"), Judging)
    BY <1>0, <2>0, <2>1, Settle, NumberedRecorded DEF Kinds, Begun
  <2>2. CASE journal' = journal /\ p' \in {Judging, Kept}
    BY <1>0, <2>0, <2>2, Settle, NumberedSame DEF Begun
  <2> QED
    BY <1>21, <2>1, <2>2 DEF Qualify
<1>22. CASE AskAdapter
  <2>1. At("answer") \in Process /\ At("answer").at = "answer"
    BY <1>0 DEF At, Process, Stages, Trying
  <2> QED
    BY <1>22, <2>1, NumberedBegins DEF AskAdapter, Begun
<1>23. CASE AdapterAnswers
  BY <1>23, NumberedVerdict DEF AdapterAnswers
<1>24. CASE Judge
  <2>1. At("runs") \in Process /\ At("runs").at = "runs"
    BY <1>0 DEF At, Process, Stages, Trying
  <2>2. CASE Begins(At("runs"))
    BY <1>24, <2>1, <2>2, NumberedBegins DEF Judge, Begun
  <2>3. CASE \E ok \in BOOLEAN : Verdict(ok)
    BY <1>24, <2>3, NumberedVerdict DEF Judge
  <2> QED
    BY <1>24, <2>2, <2>3 DEF Judge
<1>25. CASE TripletRuns
  <2>1. At("triplet") \in Process /\ At("triplet").at = "triplet" /\ At("triplet").n = p.n
    BY <1>0 DEF At, Process, Stages, Trying
  <2>2. LET e == Result("triplet_run", FALSE) IN e.kind = "triplet_run" /\ e.id = id /\ e.n = p.n
    BY ResultType DEF Kinds
  <2> QED
    BY <1>25, <2>1, <2>2, NumberedRecorded DEF TripletRuns, Begun
<1>26. CASE TripletDone
  <2>1. /\ [At("judge") EXCEPT !.n = None] \in Process
        /\ [At("judge") EXCEPT !.n = None].at = "judge" /\ [At("judge") EXCEPT !.n = None].n = None
    BY <1>0 DEF At, Process, Stages, Trying
  <2>2. \A ok \in BOOLEAN :
          LET e == Result("triplet", ok) IN e.kind = "triplet" /\ e.id = id /\ e.n = p.n
    BY ResultType DEF Kinds
  <2> QED
    BY <1>26, <2>1, <2>2, NumberedRecorded DEF TripletDone, Begun
<1>27. CASE Refused
  BY <1>27, <1>0, Settle, NumberedRecorded DEF Refused, Kinds, Begun
<1>28. CASE Apply
  <2>1. p'.at \notin Begun /\ p'.n = None
    BY <1>0, <1>28 DEF Apply, At, Process, Begun
  <2> QED
    BY <1>28, <2>1, NumberedSame DEF Apply
<1>29. CASE RecordActivation
  <2>1. At("envelope") \in Process /\ At("envelope").at = "envelope" /\ At("envelope").n = None
    BY <1>0, <1>29 DEF RecordActivation, At, Process, Stages, Begun
  <2>2. LET e == [Entry("activate") EXCEPT !.previous = p.previous]
        IN  e.kind = "activate" /\ e.id = id /\ e.n = None
    BY <1>0 DEF Kinds, Record
  <2> QED
    BY <1>29, <2>1, <2>2, NumberedRecorded DEF RecordActivation, Begun
<1>30. CASE WriteEnvelope
  <2>1. p'.at \notin Begun /\ p'.n = None
    BY <1>0, <1>30 DEF WriteEnvelope, At, Process, Begun
  <2> QED
    BY <1>30, <2>1, NumberedSame DEF WriteEnvelope
<1>31. CASE Recheck
  <2>1. /\ [At("rerun") EXCEPT !.ok = (setting = p.action)] \in Process
        /\ [At("rerun") EXCEPT !.ok = (setting = p.action)].at = "rerun"
    <3> DEFINE ok == setting = p.action
    <3>1. ok \in BOOLEAN
      OBVIOUS
    <3> HIDE DEF ok
    <3>2. /\ [At("rerun") EXCEPT !.ok = ok] \in Process
          /\ [At("rerun") EXCEPT !.ok = ok].at = "rerun"
      BY <1>0, <3>1 DEF At, Process, Stages
    <3> QED
      BY <3>2 DEF ok
  <2> QED
    BY <1>31, <2>1, NumberedBegins DEF Recheck, Begun
<1>32. CASE Rechecked
  <2>1. PICK ok \in BOOLEAN :
          Recorded(Result("recheck", ok),
                   [At(IF ok THEN "finish" ELSE "undo") EXCEPT !.n = None, !.ok = FALSE])
    BY <1>0, <1>32 DEF Rechecked, Process
  <2> DEFINE s == IF ok THEN "finish" ELSE "undo"
             q == [At(s) EXCEPT !.n = None, !.ok = FALSE]
  <2>2. s \in {"finish", "undo"}
    OBVIOUS
  <2> HIDE DEF s
  <2>3. q \in Process /\ q.at = s /\ q.n = None
    BY <1>0, <2>2 DEF At, Process, Stages
  <2>4. LET e == Result("recheck", ok) IN e.kind = "recheck" /\ e.id = id /\ e.n = p.n
    BY ResultType DEF Kinds
  <2>5. Recorded(Result("recheck", ok), q)
    BY <2>1 DEF s
  <2> HIDE DEF q
  <2> QED
    BY <1>32, <2>2, <2>3, <2>4, <2>5, NumberedRecorded DEF Rechecked, Begun
<1>33. CASE Finish
  <2>1. At("tell") \in Process /\ At("tell").at = "tell" /\ At("tell").n = None
    BY <1>0, <1>33 DEF Finish, At, Process, Stages, Begun
  <2> QED
    BY <1>33, <1>0, <2>1, NumberedRecorded DEF Finish, Kinds, Begun
<1>34. CASE Tell
  <2>1. p'.at \notin Begun /\ p'.n = None
    BY <1>0, <1>34 DEF Tell, At, Process, Begun, Off
  <2> QED
    BY <1>34, <2>1, NumberedSame DEF Tell
<1>35. CASE Die
  <2>1. p'.at \notin Begun /\ p'.n = None
    BY <1>0, <1>35 DEF Die, At, Process, Begun, Off
  <2> QED
    BY <1>35, <2>1, NumberedSame DEF Die
<1>36. CASE Reset
  <2>1. p'.at \notin Begun /\ p'.n = None
    BY <1>0, <1>36 DEF Reset, At, Process, Begun
  <2> QED
    BY <1>36, <2>1, NumberedSame DEF Reset
<1>37. CASE LoseEnvelope
  <2>1. p'.at \notin Begun /\ p'.n = None
    BY <1>0, <1>37 DEF LoseEnvelope, At, Process, Begun
  <2> QED
    BY <1>37, <2>1, NumberedSame DEF LoseEnvelope
<1>38. CASE UNCHANGED vars
  <2>1. \A i, kinds : Places(i, kinds)' = Places(i, kinds)
    BY <1>38 DEF vars, Places
  <2>2. UNCHANGED <<journal, p, id>>
    BY <1>38 DEF vars
  <2>3. Mine({"attempt_interrupted"})' = Mine({"attempt_interrupted"}) /\ Tested(FALSE)' = Tested(FALSE)
    BY <2>1, <2>2 DEF Mine, Tested
  <2>4. MeasuredOnce' = MeasuredOnce
    BY <2>1, <2>2 DEF MeasuredOnce
  <2> QED
    BY <2>1, <2>2, <2>3, <2>4 DEF Numbered
<1> QED
  BY <1>1, <1>2, <1>3, <1>4, <1>5, <1>6, <1>7, <1>8, <1>9, <1>10, <1>11, <1>12, <1>13, <1>14, <1>15,
     <1>16, <1>17, <1>18, <1>19, <1>20, <1>21, <1>22, <1>23, <1>24, <1>25, <1>26, <1>27, <1>28,
     <1>29, <1>30, <1>31, <1>32, <1>33, <1>34, <1>35, <1>36, <1>37, <1>38 DEF Next

-----------------------------------------------------------------------------
(* Whose setting is applied *)

\* The records that activate, end or undo.
Special == {"activate", "outcome"} \cup Undone

\* The last records of an identity are records.
LEMMA LastsType ==
  ASSUME Typed, NEW i
  PROVE  /\ Len(journal) \in Nat
         /\ LastAct(i) \in 0..Len(journal) /\ LastUndo(i) \in 0..Len(journal)
         /\ LastOut(i) \in 0..Len(journal)
         /\ LastAct(i) # 0 => LastAct(i) \in Places(i, {"activate"})
         /\ LastOut(i) # 0 => LastOut(i) \in Places(i, {"outcome"})
  BY PlacesType, LastLine DEF LastAct, LastUndo, LastOut

\* What a record changes of them.
LEMMA LastsAppend ==
  ASSUME Typed, NEW e, journal' = Append(journal, e), NEW i
  PROVE  /\ LastAct(i)' = IF e.id = i /\ e.kind = "activate" THEN Len(journal) + 1 ELSE LastAct(i)
         /\ LastUndo(i)' = IF e.id = i /\ e.kind \in Undone THEN Len(journal) + 1 ELSE LastUndo(i)
         /\ LastOut(i)' = IF e.id = i /\ e.kind = "outcome" THEN Len(journal) + 1 ELSE LastOut(i)
         /\ journal'[Len(journal) + 1] = e
         /\ LastAct(i) # 0 => journal'[LastAct(i)] = journal[LastAct(i)]
         /\ LastOut(i) # 0 => journal'[LastOut(i)] = journal[LastOut(i)]
<1>1. /\ LastAct(i)' = IF e.id = i /\ e.kind \in {"activate"} THEN Len(journal) + 1 ELSE LastAct(i)
      /\ LastUndo(i)' = IF e.id = i /\ e.kind \in Undone THEN Len(journal) + 1 ELSE LastUndo(i)
      /\ LastOut(i)' = IF e.id = i /\ e.kind \in {"outcome"} THEN Len(journal) + 1 ELSE LastOut(i)
  BY LastAppend DEF LastAct, LastUndo, LastOut
<1>2. /\ LastAct(i) # 0 => LastAct(i) \in DOMAIN journal
      /\ LastOut(i) # 0 => LastOut(i) \in DOMAIN journal
  BY LastsType DEF Places
<1>3. \A k \in DOMAIN journal : journal'[k] = journal[k]
  BY PlacesAppend
<1>4. journal'[Len(journal) + 1] = e
  BY PlacesAppend
<1> QED
  BY <1>1, <1>2, <1>3, <1>4

\* A step that writes nothing, or a record that neither activates, ends nor undoes.
LEMMA LastsKept ==
  ASSUME Typed, Answered,
         journal' = journal \/ \E e : journal' = Append(journal, e) /\ e.kind \notin Special
  PROVE  /\ \A i : /\ LastAct(i)' = LastAct(i) /\ LastUndo(i)' = LastUndo(i)
                   /\ LastOut(i)' = LastOut(i)
                   /\ LastAct(i) # 0 => journal'[LastAct(i)] = journal[LastAct(i)]
                   /\ LastOut(i) # 0 => journal'[LastOut(i)] = journal[LastOut(i)]
         /\ \A i, a : InForce(i, a)' <=> InForce(i, a)
         /\ Answered'
<1>1. ASSUME NEW i
      PROVE  /\ LastAct(i)' = LastAct(i) /\ LastUndo(i)' = LastUndo(i)
             /\ LastOut(i)' = LastOut(i)
             /\ LastAct(i) # 0 => journal'[LastAct(i)] = journal[LastAct(i)]
             /\ LastOut(i) # 0 => journal'[LastOut(i)] = journal[LastOut(i)]
  <2>1. CASE journal' = journal
    BY <2>1 DEF LastAct, LastUndo, LastOut, Places
  <2>2. ASSUME NEW e, journal' = Append(journal, e), e.kind \notin Special
        PROVE  /\ LastAct(i)' = LastAct(i) /\ LastUndo(i)' = LastUndo(i)
               /\ LastOut(i)' = LastOut(i)
               /\ LastAct(i) # 0 => journal'[LastAct(i)] = journal[LastAct(i)]
               /\ LastOut(i) # 0 => journal'[LastOut(i)] = journal[LastOut(i)]
    BY <2>2, LastsAppend DEF Special
  <2> QED
    BY <2>1, <2>2
<1>2. \A i : /\ Len(journal) \in Nat /\ LastAct(i) \in 0..Len(journal)
             /\ LastUndo(i) \in 0..Len(journal) /\ LastOut(i) \in 0..Len(journal)
  BY LastsType
<1>3. \A i, a : InForce(i, a)' <=> InForce(i, a)
  BY <1>1, <1>2 DEF InForce
<1>4. Answered'
  BY <1>1, <1>2 DEF Answered
<1> QED
  BY <1>1, <1>3, <1>4

\* The process moves on, writing nothing.
LEMMA OwnedMove ==
  ASSUME Typed, Owned, journal' = journal, id' = id, active' = active, NEW q, p' = q, OwnedAt(q)
  PROVE  Owned'
<1>1. /\ \A i : /\ LastAct(i)' = LastAct(i) /\ LastUndo(i)' = LastUndo(i)
                /\ LastOut(i)' = LastOut(i)
      /\ \A i, a : InForce(i, a)' <=> InForce(i, a)
      /\ Answered'
  BY LastsKept DEF Owned
<1>2. OwnedAt(p)'
  BY <1>1 DEF OwnedAt
<1> QED
  BY <1>1, <1>2 DEF Owned

\* A process that does not run owns nothing.
LEMMA OffOwned == OwnedAt(Off)
  BY DEF OwnedAt, Off, Trying

\* It writes a record that neither activates, ends nor undoes.
LEMMA OwnedRecorded ==
  ASSUME Typed, Owned, NEW e, e.kind \notin Special, NEW q, Recorded(e, q), OwnedAt(q),
         id' = id, active' = active
  PROVE  Owned'
<1>1. CASE journal' = journal /\ p' = Off
  BY <1>1, OwnedMove, OffOwned
<1>2. CASE journal' = Append(journal, e) /\ p' = q
  <2>1. /\ \A i : /\ LastAct(i)' = LastAct(i) /\ LastUndo(i)' = LastUndo(i)
                  /\ LastOut(i)' = LastOut(i)
                  /\ LastAct(i) # 0 => journal'[LastAct(i)] = journal[LastAct(i)]
        /\ \A i, a : InForce(i, a)' <=> InForce(i, a)
        /\ Answered'
    BY <1>2, LastsKept DEF Owned
  <2>2. LastUndo(id) >= 0
    BY LastsType
  <2>3. OwnedAt(p)'
    BY <1>2, <2>1, <2>2 DEF OwnedAt
  <2> QED
    BY <2>1, <2>3 DEF Owned
<1> QED
  BY <1>1, <1>2 DEF Recorded

\* An undone activation is in force no more.
LEMMA OwnedUndone ==
  ASSUME Typed, Owned, NEW e, e.kind \in Undone, e.id = id, journal' = Append(journal, e), id' = id
  PROVE  Answered' /\ LastAct(id)' <= LastUndo(id)'
<1>1. e.kind # "activate" /\ e.kind # "outcome"
  BY DEF Undone
<1>2. \A i : /\ LastAct(i)' = LastAct(i) /\ LastOut(i)' = LastOut(i)
             /\ LastUndo(i)' = IF i = id THEN Len(journal) + 1 ELSE LastUndo(i)
             /\ LastAct(i) # 0 => journal'[LastAct(i)] = journal[LastAct(i)]
             /\ LastOut(i) # 0 => journal'[LastOut(i)] = journal[LastOut(i)]
  <2> SUFFICES ASSUME NEW i
               PROVE  /\ LastAct(i)' = LastAct(i) /\ LastOut(i)' = LastOut(i)
                      /\ LastUndo(i)' = IF i = id THEN Len(journal) + 1 ELSE LastUndo(i)
                      /\ LastAct(i) # 0 => journal'[LastAct(i)] = journal[LastAct(i)]
                      /\ LastOut(i) # 0 => journal'[LastOut(i)] = journal[LastOut(i)]
    OBVIOUS
  <2>1. LastUndo(i)' = IF e.id = i /\ e.kind \in Undone THEN Len(journal) + 1 ELSE LastUndo(i)
    BY LastsAppend
  <2>2. LastUndo(i)' = IF i = id THEN Len(journal) + 1 ELSE LastUndo(i)
    BY <2>1
  <2>3. /\ LastAct(i)' = LastAct(i) /\ LastOut(i)' = LastOut(i)
        /\ LastAct(i) # 0 => journal'[LastAct(i)] = journal[LastAct(i)]
        /\ LastOut(i) # 0 => journal'[LastOut(i)] = journal[LastOut(i)]
    BY <1>1, LastsAppend
  <2> QED
    BY <2>2, <2>3
<1>3. \A i : /\ Len(journal) \in Nat /\ LastAct(i) \in 0..Len(journal)
             /\ LastUndo(i) \in 0..Len(journal) /\ LastOut(i) \in 0..Len(journal)
  BY LastsType
<1>4. LastAct(id)' <= LastUndo(id)'
  BY <1>2, <1>3
<1>5. Answered'
  BY <1>2, <1>3 DEF Answered, Owned
<1> QED
  BY <1>4, <1>5

\* A trial and what precedes it leave activations alone.
LEMMA OwnedTrying ==
  ASSUME Owned, NEW q, p.at \in Trying, q.at \in Trying \/ (q.at = "finish" /\ q.action = Default)
  PROVE  OwnedAt(q)
  BY DEF Owned, OwnedAt, Trying

\* So does its verdict.
LEMMA OwnedVerdict ==
  ASSUME Typed, Owned, NEW ok \in BOOLEAN, Verdict(ok), p.at \in Trying, id' = id, active' = active
  PROVE  Owned'
<1>1. p \in Process
  BY DEF Typed, Handy
<1>2. [At("apply") EXCEPT !.n = None].at = "apply" /\ "apply" \in Trying
  BY <1>1 DEF At, Process, Trying
<1>3. Result("qualify_end", ok).kind = "qualify_end"
  BY ResultType DEF Kinds
<1>4. OwnedAt([At("apply") EXCEPT !.n = None]) /\ OwnedAt(Kept)
  BY <1>1, <1>2, Settle, OwnedTrying
<1> QED
  BY <1>3, <1>4, OwnedRecorded DEF Verdict, Special, Undone

\* Every step keeps activations owned.
LEMMA NextOwned ==
  ASSUME Typed, Owned, [Next]_vars
  PROVE  Owned'
<1>0. /\ p \in Process /\ OwnedAt(p) /\ Answered /\ id \in Identities
      /\ \A kind \in Kinds : /\ Entry(kind) \in Record /\ Entry(kind).kind = kind
                             /\ Entry(kind).id = id /\ Entry(kind).action = p.action
  BY EntryType DEF Typed, Handy, Owned
<1>00. /\ Len(journal) \in Nat /\ LastAct(id) \in 0..Len(journal)
       /\ LastUndo(id) \in 0..Len(journal) /\ LastOut(id) \in 0..Len(journal)
  BY LastsType
<1>1. CASE Start
  <2>1. p'.at = "open"
    BY <1>1 DEF Start, Off
  <2>2. OwnedAt(p)'
    BY <2>1 DEF OwnedAt, Trying
  <2> QED
    BY <1>0, <1>1, <2>2, LastsKept DEF Start, Owned
<1>2. CASE Open
  <2>1. OwnedAt(p')
    BY <1>0, <1>2 DEF Open, OwnedAt, At, Process, Trying
  <2> QED
    BY <1>2, <2>1, OwnedMove DEF Open
<1>3. CASE Recovered
  <2>1. OwnedAt(At("close"))
    BY <1>0, <1>3 DEF Recovered, OwnedAt, At, Process, Trying
  <2> QED
    BY <1>3, <1>0, <2>1, OwnedRecorded DEF Recovered, Special, Undone, Kinds
<1>4. CASE CloseInterrupted
  <2>1. PICK k \in OpenAttempts : Recorded([journal[k] EXCEPT !.kind = "attempt_interrupted"], p)
    BY <1>4 DEF CloseInterrupted
  <2>2. journal[k] \in Record
    BY PlacesType DEF OpenAttempts, Mine
  <2>3. [journal[k] EXCEPT !.kind = "attempt_interrupted"].kind = "attempt_interrupted"
    BY <2>2 DEF Record
  <2> QED
    BY <1>0, <1>4, <2>1, <2>3, OwnedRecorded DEF CloseInterrupted, Special, Undone
<1>5. CASE Opened
  <2>1. p'.at \in {"undo", "enforce"} /\ p'.cmd = p.cmd /\ (p'.at = "undo" => p.cmd = "rollback")
    BY <1>0, <1>5 DEF Opened, At, Process
  <2>2. OwnedAt(p')
    BY <2>1 DEF OwnedAt, Trying
  <2> QED
    BY <1>5, <2>2, OwnedMove DEF Opened
<1>6. CASE EnforceIdentity
  <2>1. p'.at = "revert" \/ (p'.at = "reference" /\ (active = None \/ active.id = id))
    BY <1>0, <1>6 DEF EnforceIdentity, Owns, At, Process
  <2>2. OwnedAt(p')
    BY <2>1 DEF OwnedAt, Trying
  <2> QED
    BY <1>6, <2>2, OwnedMove DEF EnforceIdentity
<1>7. CASE NothingActive
  <2>1. p.cmd # "cycle"
    BY <1>0, <1>7 DEF NothingActive, Owns, OwnedAt
  <2>2. p' = Off /\ UNCHANGED <<id, active>>
    BY <1>7, <2>1 DEF NothingActive, Recorded
  <2>3. CASE journal' = journal
    BY <2>2, <2>3, OffOwned, OwnedMove
  <2>4. CASE journal' = Append(journal, Entry("rollback"))
    <3>1. Answered'
      BY <1>0, <2>2, <2>4, OwnedUndone DEF Kinds, Undone
    <3> QED
      BY <2>2, <3>1 DEF Owned, OwnedAt, Off, Trying
  <2> QED
    BY <1>7, <2>3, <2>4 DEF NothingActive, Recorded
<1>8. CASE Revert
  <2>1. OwnedAt(p')
    BY <1>0, <1>8 DEF Revert, OwnedAt, At, Process, Trying
  <2> QED
    BY <1>8, <2>1, OwnedMove DEF Revert
<1>9. CASE Quarantine
  <2>1. p'.at = "undone" /\ active' = None /\ id' = id /\ journal' = journal
    BY <1>0, <1>9 DEF Quarantine, At, Process
  <2>2. OwnedAt(p)'
    BY <2>1 DEF OwnedAt, Trying
  <2> QED
    BY <1>0, <2>1, <2>2, LastsKept DEF Owned
<1>10. CASE Reverted
  <2>0. active = None /\ UNCHANGED <<id, active>>
    BY <1>0, <1>10 DEF Reverted, OwnedAt
  <2>1. PICK e, q :
          /\ Recorded(e, q) /\ e.kind \in Undone /\ e.id = id
          /\ q.at \in {"reference", "finish", "tell"}
    <3>1. \A s \in {"reference", "finish", "tell"} :
            /\ [At(s) EXCEPT !.previous = None].at = s
            /\ [At(s) EXCEPT !.action = Default, !.previous = None].at = s
      BY <1>0 DEF At, Process
    <3>2. /\ [Entry("rollback") EXCEPT !.previous = p.previous].kind = "rollback"
          /\ [Entry("rollback") EXCEPT !.previous = p.previous].id = id
          /\ Entry("identity_rollback").kind = "identity_rollback"
          /\ Entry("identity_rollback").id = id
      BY <1>0 DEF Kinds, Record
    <3>3. CASE Recorded(Entry("identity_rollback"), [At("reference") EXCEPT !.previous = None])
      BY <3>1, <3>2, <3>3 DEF Undone
    <3>4. CASE Recorded([Entry("rollback") EXCEPT !.previous = p.previous],
                        [At(IF p.cmd = "cycle" THEN "finish" ELSE "tell")
                            EXCEPT !.action = Default, !.previous = None])
      BY <3>1, <3>2, <3>4 DEF Undone
    <3> QED
      BY <1>10, <3>3, <3>4 DEF Reverted
  <2>2. CASE journal' = journal /\ p' = Off
    BY <2>0, <2>2, OffOwned, OwnedMove
  <2>3. CASE journal' = Append(journal, e) /\ p' = q
    <3>1. Answered' /\ LastAct(id)' <= LastUndo(id)'
      BY <2>0, <2>1, <2>3, OwnedUndone
    <3>2. OwnedAt(p)'
      BY <2>0, <2>1, <2>3, <3>1 DEF OwnedAt, Trying
    <3> QED
      BY <3>1, <3>2 DEF Owned
  <2> QED
    BY <2>1, <2>2, <2>3 DEF Recorded
<1>11. CASE Rollback
  <2>1. p'.at = "revert"
    BY <1>0, <1>11 DEF Rollback, At, Process
  <2>2. OwnedAt(p')
    BY <2>1 DEF OwnedAt, Trying
  <2> QED
    BY <1>11, <2>2, OwnedMove DEF Rollback
<1>12. ASSUME NEW q \in Process, Begins(q), OwnedAt([q EXCEPT !.n = Cardinality(Mine({"attempt"}))]),
              UNCHANGED <<id, active>>
       PROVE  Owned'
  <2>1. [Entry("attempt") EXCEPT !.action = q.action, !.n = Cardinality(Mine({"attempt"}))].kind = "attempt"
    BY <1>0 DEF Kinds, Record
  <2> QED
    BY <1>12, <2>1, OwnedRecorded DEF Begins, Special, Undone
<1>13. CASE Reference
  <2>1. At("refrun") \in Process
    BY <1>0 DEF At, Process, Stages
  <2>2. \A n : OwnedAt([At("refrun") EXCEPT !.n = n])
    BY <1>0, <1>13 DEF Reference, OwnedAt, At, Process, Trying
  <2> QED
    BY <1>12, <1>13, <2>1, <2>2 DEF Reference
<1>14. CASE ReferenceRun
  <2>1. OwnedAt([At("reference") EXCEPT !.n = None])
    BY <1>0, <1>14 DEF ReferenceRun, OwnedAt, At, Process, Trying
  <2>2. \A kind \in {"reference", "reference_failed"}, ok \in BOOLEAN : Result(kind, ok).kind = kind
    BY ResultType DEF Kinds
  <2> QED
    BY <1>14, <2>1, <2>2, OffOwned, OwnedRecorded DEF ReferenceRun, Special, Undone
<1>15. CASE Resume
  <2> DEFINE k == OpenActivation(Undone \cup {"outcome"})
  <2>0. /\ LastSeq({"activate"}) = LastAct(id)
        /\ LastSeq(Undone \cup {"outcome"}) \in 0..Len(journal)
        /\ LastUndo(id) <= LastSeq(Undone \cup {"outcome"})
        /\ LastOut(id) <= LastSeq(Undone \cup {"outcome"})
        /\ LastSeq(Undone \cup {"outcome"}) \in {0, LastUndo(id), LastOut(id)}
    <3>1. LastSeq({"activate"}) = LastAct(id)
      BY DEF LastSeq, LastAct, Mine
    <3>2. LastSeq(Undone \cup {"outcome"}) = LastOf(Places(id, Undone \cup {"outcome"}))
      BY DEF LastSeq, Mine
    <3> DEFINE S == Places(id, Undone \cup {"outcome"})
    <3>3. S \in SUBSET (1..Len(journal)) /\ Places(id, Undone) \in SUBSET S
          /\ Places(id, {"outcome"}) \in SUBSET S
          /\ S = Places(id, Undone) \cup Places(id, {"outcome"})
      BY PlacesType DEF Places
    <3> HIDE DEF S
    <3>4. LastOf(S) \in 0..Len(journal) /\ LastOf(S) \in S \cup {0} /\ \A y \in S : y <= LastOf(S)
      BY <1>00, <3>3, LastLine
    <3>5. LastUndo(id) <= LastOf(S) /\ LastOut(id) <= LastOf(S)
      BY <1>00, <3>3, LastMonotone DEF LastUndo, LastOut
    <3>6. /\ \A y \in Places(id, Undone) : y <= LastUndo(id)
          /\ \A y \in Places(id, {"outcome"}) : y <= LastOut(id)
      BY <1>00, PlacesType, LastLine DEF LastUndo, LastOut
    <3>7. LastOf(S) \in {0, LastUndo(id), LastOut(id)}
      BY <1>00, <3>3, <3>4, <3>5, <3>6
    <3> QED
      BY <3>1, <3>2, <3>4, <3>5, <3>7 DEF S
  <2>1. CASE k = 0
    <3>1. p'.at = "standing" /\ UNCHANGED <<journal, id, active>>
      BY <1>0, <1>15, <2>1 DEF Resume, At, Process
    <3>2. LastAct(id) <= LastSeq(Undone \cup {"outcome"})
      BY <1>00, <2>0, <2>1 DEF OpenActivation
    <3>3. LastAct(id) <= LastUndo(id) \/ LastAct(id) < LastOut(id)
      <4>1. LastAct(id) # LastOut(id) \/ LastAct(id) = 0
        BY LastsType DEF Places
      <4> QED
        BY <1>00, <2>0, <3>2, <4>1
    <3>4. active = None \/ active.id = id
      BY <1>0, <1>15 DEF Resume, OwnedAt
    <3>5. OwnedAt(p')
      BY <3>1, <3>3, <3>4 DEF OwnedAt, Trying
    <3> QED
      BY <3>1, <3>5, OwnedMove
  <2>2. CASE k # 0
    <3>1. k = LastAct(id) /\ LastAct(id) > LastUndo(id)
      BY <1>00, <2>0, <2>2 DEF OpenActivation
    <3>2. p'.at = "recheck" /\ p'.action = journal[LastAct(id)].action /\ UNCHANGED <<journal, id>>
      <4>1. /\ p' = [At("recheck") EXCEPT !.action = journal[LastAct(id)].action]
            /\ UNCHANGED <<journal, id>>
        BY <1>15, <2>2, <3>1 DEF Resume
      <4> QED
        BY <1>0, <4>1 DEF At, Process
    <3>3. active' # None /\ active'.id = id
      <4>1. CASE Owns
        BY <1>15, <2>2, <4>1 DEF Resume, Owns
      <4>2. CASE ~Owns
        <5>1. active' = Envelope(k)
          BY <1>15, <2>2, <4>2 DEF Resume
        <5>2. active' # None
          <6>1. k \in Places(id, {"activate"})
            BY <2>2, <3>1, LastsType
          <6>2. journal[k].action \in Actions /\ journal[k].previous \in Settings
            BY <6>1 DEF Places, Typed, Good
          <6> QED
            BY <1>0, <5>1, <6>2, NoneAssumption DEF Envelope, Settings
        <5> QED
          BY <5>1, <5>2 DEF Envelope
      <4> QED
        BY <4>1, <4>2
    <3>4. Answered' /\ LastAct(id)' = LastAct(id) /\ LastUndo(id)' = LastUndo(id)
      BY <1>0, <3>2, LastsKept
    <3>5. InForce(id, p.action)'
      BY <3>1, <3>2, <3>4 DEF InForce
    <3>6. OwnedAt(p)'
      BY <3>2, <3>3, <3>5 DEF OwnedAt, Trying
    <3> QED
      BY <3>4, <3>6 DEF Owned
  <2> QED
    BY <2>1, <2>2
<1>16. CASE Standing
  <2> DEFINE k == StandingOutcome
  <2>0. k = IF LastOut(id) > LastUndo(id) THEN LastOut(id) ELSE 0
    BY DEF StandingOutcome, LastSeq, LastOut, LastUndo, Mine
  <2>1. active = None \/ active.id = id
    BY <1>0, <1>16 DEF Standing, OwnedAt
  <2>2. /\ At("explore").at = "explore"
        /\ \A a : [At("tell") EXCEPT !.action = a].at = "tell"
    BY <1>0 DEF At, Process
  <2> HIDE DEF k
  <2>3. CASE k = 0 /\ p' = At("explore") /\ journal' = journal
    <3>1. LastAct(id) <= LastUndo(id)
      BY <1>0, <1>00, <1>16, <2>0, <2>3 DEF Standing, OwnedAt
    <3>2. OwnedAt(At("explore"))
      BY <2>1, <2>2, <3>1 DEF OwnedAt, Trying
    <3> QED
      BY <1>16, <2>3, <3>2, OwnedMove DEF Standing
  <2>4. CASE p' = [At("tell") EXCEPT !.action = journal[k].action] /\ journal' = journal
    <3>1. OwnedAt(p')
      BY <2>2, <2>4 DEF OwnedAt, Trying
    <3> QED
      BY <1>16, <2>4, <3>1, OwnedMove DEF Standing
  <2>5. CASE Recorded([Entry("outcome_invalidated") EXCEPT !.action = journal[k].action], At("explore"))
    <3> DEFINE e == [Entry("outcome_invalidated") EXCEPT !.action = journal[k].action]
    <3>1. e.kind = "outcome_invalidated" /\ e.id = id /\ e.kind \in Undone
      BY <1>0 DEF Kinds, Record, Undone
    <3> HIDE DEF e
    <3>2. CASE journal' = journal /\ p' = Off
      BY <1>16, <3>2, OffOwned, OwnedMove DEF Standing
    <3>3. CASE journal' = Append(journal, e) /\ p' = At("explore")
      <4>1. Answered' /\ LastAct(id)' <= LastUndo(id)'
        BY <1>16, <3>1, <3>3, OwnedUndone DEF Standing
      <4>2. OwnedAt(p)'
        BY <1>16, <2>1, <2>2, <3>3, <4>1 DEF Standing, OwnedAt, Trying
      <4> QED
        BY <4>1, <4>2 DEF Owned
    <3> QED
      BY <2>5, <3>2, <3>3 DEF Recorded, e
  <2> QED
    BY <1>16, <2>3, <2>4, <2>5 DEF Standing, k
<1>17. CASE BeginTest
  <2>1. PICK a \in Actions : Begins([At("test") EXCEPT !.action = a])
    BY <1>17 DEF BeginTest
  <2>2. [At("test") EXCEPT !.action = a] \in Process
    BY <1>0 DEF At, Process, Stages, Trying, Settings
  <2>3. \A n : [[At("test") EXCEPT !.action = a] EXCEPT !.n = n].at = "test"
    BY <1>0 DEF At, Process
  <2>4. \A n : OwnedAt([[At("test") EXCEPT !.action = a] EXCEPT !.n = n])
    <3> SUFFICES ASSUME NEW n PROVE OwnedAt([[At("test") EXCEPT !.action = a] EXCEPT !.n = n])
      OBVIOUS
    <3> DEFINE q == [[At("test") EXCEPT !.action = a] EXCEPT !.n = n]
    <3>1. q.at \in Trying /\ p.at \in Trying
      BY <1>17, <2>3 DEF BeginTest, Trying
    <3> HIDE DEF q
    <3>2. OwnedAt(q)
      BY <1>0, <3>1, OwnedTrying DEF Owned
    <3> QED
      BY <3>2 DEF q
  <2> QED
    BY <1>12, <1>17, <2>1, <2>2, <2>4 DEF BeginTest
<1>18. CASE Test
  <2>1. p.at \in Trying /\ [At("explore") EXCEPT !.action = None, !.n = None].at \in Trying
    BY <1>0, <1>18 DEF Test, At, Process, Trying
  <2>2. \A ok \in BOOLEAN : Result("test", ok).kind = "test"
    BY <1>18, ResultType DEF Test, Kinds, Typed, Handy
  <2>3. OwnedAt([At("explore") EXCEPT !.action = None, !.n = None])
    BY <2>1, OwnedTrying
  <2> QED
    BY <1>18, <2>2, <2>3, OwnedRecorded DEF Test, Special, Undone
<1>19. CASE ExploreEnd
  <2>1. p.at \in Trying /\ At("champion").at \in Trying
    BY <1>0, <1>19 DEF ExploreEnd, At, Process, Trying
  <2>2. OwnedAt(At("champion"))
    BY <2>1, OwnedTrying
  <2> QED
    BY <1>0, <1>19, <2>2, OwnedRecorded DEF ExploreEnd, Special, Undone, Kinds
<1>20. CASE Explored
  <2>1. p.at \in Trying /\ p'.at \in Trying
    BY <1>0, <1>20 DEF Explored, At, Process, Trying
  <2> QED
    BY <1>20, <2>1, OwnedTrying, OwnedMove DEF Explored
<1>21. CASE Champion
  <2>1. p.at \in Trying /\ (p'.at \in Trying \/ (p'.at = "finish" /\ p'.action = Default))
    BY <1>0, <1>21 DEF Champion, At, Process, Trying
  <2> QED
    BY <1>21, <2>1, OwnedTrying, OwnedMove DEF Champion
<1>22. CASE Qualify
  <2>1. p.at \in Trying /\ Judging.at \in Trying
    BY <1>0, <1>22, Settle DEF Qualify, Trying
  <2>2. OwnedAt(Judging) /\ OwnedAt(Kept)
    BY <1>0, <2>1, Settle, OwnedTrying
  <2>3. CASE Recorded(Entry("qualify_start"), Judging)
    BY <1>0, <1>22, <2>2, <2>3, OwnedRecorded DEF Qualify, Special, Undone, Kinds
  <2>4. CASE journal' = journal /\ p' \in {Judging, Kept}
    BY <1>22, <2>2, <2>4, OwnedMove DEF Qualify
  <2> QED
    BY <1>22, <2>3, <2>4 DEF Qualify
<1>23. \A s \in {"answer", "runs"} :
         /\ At(s) \in Process
         /\ p.at \in Trying => OwnedAt([At(s) EXCEPT !.n = Cardinality(Mine({"attempt"}))])
  <2> SUFFICES ASSUME NEW s \in {"answer", "runs"}
               PROVE  /\ At(s) \in Process
                      /\ p.at \in Trying => OwnedAt([At(s) EXCEPT !.n = Cardinality(Mine({"attempt"}))])
    OBVIOUS
  <2>1. At(s) \in Process /\ [At(s) EXCEPT !.n = Cardinality(Mine({"attempt"}))].at \in Trying
    BY <1>0 DEF At, Process, Stages, Trying
  <2> QED
    BY <2>1, OwnedTrying
<1>24. CASE AskAdapter
  BY <1>12, <1>23, <1>24 DEF AskAdapter, Trying
<1>25. CASE AdapterAnswers
  BY <1>25, OwnedVerdict DEF AdapterAnswers, Trying
<1>26. CASE Judge
  <2>1. CASE Begins(At("runs"))
    BY <1>12, <1>23, <1>26, <2>1 DEF Judge, Trying
  <2>2. CASE \E ok \in BOOLEAN : Verdict(ok)
    BY <1>26, <2>2, OwnedVerdict DEF Judge, Trying
  <2> QED
    BY <1>26, <2>1, <2>2 DEF Judge
<1>27. CASE TripletRuns
  <2>1. p.at \in Trying /\ At("triplet").at \in Trying
    BY <1>0, <1>27 DEF TripletRuns, At, Process, Trying
  <2>2. Result("triplet_run", FALSE).kind = "triplet_run"
    BY ResultType DEF Kinds
  <2> QED
    BY <1>27, <2>1, <2>2, OwnedTrying, OwnedRecorded DEF TripletRuns, Special, Undone
<1>28. CASE TripletDone
  <2>1. p.at \in Trying /\ [At("judge") EXCEPT !.n = None].at \in Trying
    BY <1>0, <1>28 DEF TripletDone, At, Process, Trying
  <2>2. \A ok \in BOOLEAN : Result("triplet", ok).kind = "triplet"
    BY ResultType DEF Kinds
  <2>3. OwnedAt([At("judge") EXCEPT !.n = None])
    BY <2>1, OwnedTrying
  <2> QED
    BY <1>28, <2>2, <2>3, OwnedRecorded DEF TripletDone, Special, Undone
<1>29. CASE Refused
  <2>1. OwnedAt(Kept)
    BY <1>0, <1>29, Settle, OwnedTrying DEF Refused, Trying
  <2> QED
    BY <1>0, <1>29, <2>1, OwnedRecorded DEF Refused, Special, Undone, Kinds
<1>30. CASE Apply
  <2>1. p.at \in Trying /\ p'.at \in Trying
    BY <1>0, <1>30 DEF Apply, At, Process, Trying
  <2> QED
    BY <1>30, <2>1, OwnedTrying, OwnedMove DEF Apply
<1>31. CASE RecordActivation
  <2> DEFINE e == [Entry("activate") EXCEPT !.previous = p.previous]
  <2>0. /\ p.at = "applied" /\ UNCHANGED <<id, active>> /\ Recorded(e, At("envelope"))
        /\ active = None \/ active.id = id
    BY <1>0, <1>31 DEF RecordActivation, OwnedAt, Trying
  <2>1. e.kind = "activate" /\ e.id = id /\ e.action = p.action
    BY <1>0 DEF Kinds, Record
  <2> HIDE DEF e
  <2>2. CASE journal' = journal /\ p' = Off
    BY <2>0, <2>2, OffOwned, OwnedMove
  <2>3. CASE journal' = Append(journal, e) /\ p' = At("envelope")
    <3>1. \A i : /\ LastAct(i)' = IF i = id THEN Len(journal) + 1 ELSE LastAct(i)
                 /\ LastUndo(i)' = LastUndo(i) /\ LastOut(i)' = LastOut(i)
                 /\ LastAct(i) # 0 => journal'[LastAct(i)] = journal[LastAct(i)]
                 /\ LastOut(i) # 0 => journal'[LastOut(i)] = journal[LastOut(i)]
      <4> SUFFICES ASSUME NEW i
                   PROVE  /\ LastAct(i)' = IF i = id THEN Len(journal) + 1 ELSE LastAct(i)
                          /\ LastUndo(i)' = LastUndo(i) /\ LastOut(i)' = LastOut(i)
                          /\ LastAct(i) # 0 => journal'[LastAct(i)] = journal[LastAct(i)]
                          /\ LastOut(i) # 0 => journal'[LastOut(i)] = journal[LastOut(i)]
        OBVIOUS
      <4>1. LastAct(i)' = IF e.id = i /\ e.kind = "activate" THEN Len(journal) + 1 ELSE LastAct(i)
        BY <2>3, LastsAppend
      <4>2. LastAct(i)' = IF i = id THEN Len(journal) + 1 ELSE LastAct(i)
        BY <2>1, <4>1
      <4> QED
        BY <2>1, <2>3, <4>2, LastsAppend DEF Undone
    <3>2. journal'[Len(journal) + 1] = e
      BY <2>3, PlacesAppend
    <3>3. \A i : /\ Len(journal) \in Nat /\ LastAct(i) \in 0..Len(journal)
                 /\ LastUndo(i) \in 0..Len(journal) /\ LastOut(i) \in 0..Len(journal)
      BY LastsType
    <3>4. Answered'
      BY <1>0, <3>1, <3>3 DEF Answered
    <3>5. p'.at = "envelope" /\ p'.action = p.action
      BY <1>0, <2>3 DEF At, Process
    <3>6. InForce(id, p.action)'
      BY <2>0, <2>1, <3>1, <3>2, <3>3, <3>5 DEF InForce
    <3>7. OwnedAt(p)'
      BY <2>0, <3>5, <3>6 DEF OwnedAt, Trying
    <3> QED
      BY <3>4, <3>7 DEF Owned
  <2> QED
    BY <2>0, <2>2, <2>3 DEF Recorded
<1>32. CASE WriteEnvelope
  <2>1. /\ p.at = "envelope" /\ p'.at = "recheck" /\ p'.action = p.action
        /\ UNCHANGED <<journal, id>> /\ active' = [id |-> id, action |-> p.action, previous |-> p.previous]
    BY <1>0, <1>32 DEF WriteEnvelope, At, Process
  <2>2. active' # None /\ active'.id = id
    <3>1. p.action \in Actions /\ p.previous \in Settings
      BY <2>1 DEF Typed, Handy
    <3> QED
      BY <1>0, <2>1, <3>1, NoneAssumption DEF Settings
  <2>3. InForce(id, p.action)
    BY <1>0, <2>1 DEF OwnedAt
  <2>4. Answered' /\ \A a : InForce(id, a)' <=> InForce(id, a)
    BY <1>0, <2>1, LastsKept
  <2>5. InForce(id, p.action)'
    <3>1. LastAct(id)' = LastAct(id) /\ LastUndo(id)' = LastUndo(id)
      BY <1>0, <2>1, LastsKept
    <3> QED
      BY <2>1, <2>3, <3>1 DEF InForce
  <2>6. OwnedAt(p)'
    BY <2>1, <2>2, <2>5 DEF OwnedAt, Trying
  <2> QED
    BY <2>4, <2>6 DEF Owned
<1>33. CASE Recheck
  <2> DEFINE q == [At("rerun") EXCEPT !.ok = (setting = p.action)]
  <2>1. q \in Process /\ \A n : [q EXCEPT !.n = n].at = "rerun" /\ [q EXCEPT !.n = n].action = p.action
    <3> DEFINE ok == setting = p.action
    <3>1. ok \in BOOLEAN
      OBVIOUS
    <3> HIDE DEF ok
    <3>2. LET x == [At("rerun") EXCEPT !.ok = ok]
          IN  x \in Process /\ \A n : [x EXCEPT !.n = n].at = "rerun" /\ [x EXCEPT !.n = n].action = p.action
      BY <1>0, <3>1 DEF At, Process, Stages
    <3> QED
      BY <3>2 DEF ok
  <2> HIDE DEF q
  <2>2. \A n : OwnedAt([q EXCEPT !.n = n])
    BY <1>0, <1>33, <2>1 DEF Recheck, OwnedAt, Trying
  <2>3. Begins(q)
    BY <1>33 DEF Recheck, q
  <2> QED
    BY <1>12, <1>33, <2>1, <2>2, <2>3 DEF Recheck
<1>34. CASE Rechecked
  <2>1. PICK ok \in BOOLEAN :
          Recorded(Result("recheck", ok),
                   [At(IF ok THEN "finish" ELSE "undo") EXCEPT !.n = None, !.ok = FALSE])
    BY <1>0, <1>34 DEF Rechecked, Process
  <2> DEFINE s == IF ok THEN "finish" ELSE "undo"
             q == [At(s) EXCEPT !.n = None, !.ok = FALSE]
  <2>2. s \in {"finish", "undo"}
    OBVIOUS
  <2> HIDE DEF s
  <2>3. q.at = s /\ q.action = p.action
    BY <1>0, <2>2 DEF At, Process
  <2>4. Result("recheck", ok).kind = "recheck"
    BY ResultType DEF Kinds
  <2>5. Recorded(Result("recheck", ok), q)
    BY <2>1 DEF s
  <2> HIDE DEF q
  <2>6. /\ active # None /\ active.id = id /\ journal[LastAct(id)].action = p.action
        /\ UNCHANGED <<id, active>>
    BY <1>0, <1>34 DEF Rechecked, OwnedAt, InForce
  <2>7. OwnedAt(q)
    BY <2>2, <2>3, <2>6 DEF OwnedAt, Trying
  <2> QED
    BY <2>4, <2>5, <2>6, <2>7, OwnedRecorded DEF Special, Undone
<1>35. CASE Finish
  <2>0. /\ p.at = "finish" /\ UNCHANGED <<id, active>> /\ Recorded(Entry("outcome"), At("tell"))
        /\ LastAct(id) <= LastUndo(id) \/ journal[LastAct(id)].action = p.action
    BY <1>0, <1>35 DEF Finish, OwnedAt
  <2> DEFINE e == Entry("outcome")
  <2>1. e.kind = "outcome" /\ e.id = id /\ e.action = p.action
    BY <1>0 DEF Kinds
  <2> HIDE DEF e
  <2>2. CASE journal' = journal /\ p' = Off
    BY <2>0, <2>2, OffOwned, OwnedMove
  <2>3. CASE journal' = Append(journal, e) /\ p' = At("tell")
    <3>1. \A i : /\ LastOut(i)' = IF i = id THEN Len(journal) + 1 ELSE LastOut(i)
                 /\ LastUndo(i)' = LastUndo(i) /\ LastAct(i)' = LastAct(i)
                 /\ LastAct(i) # 0 => journal'[LastAct(i)] = journal[LastAct(i)]
                 /\ LastOut(i) # 0 => journal'[LastOut(i)] = journal[LastOut(i)]
      <4> SUFFICES ASSUME NEW i
                   PROVE  /\ LastOut(i)' = IF i = id THEN Len(journal) + 1 ELSE LastOut(i)
                          /\ LastUndo(i)' = LastUndo(i) /\ LastAct(i)' = LastAct(i)
                          /\ LastAct(i) # 0 => journal'[LastAct(i)] = journal[LastAct(i)]
                          /\ LastOut(i) # 0 => journal'[LastOut(i)] = journal[LastOut(i)]
        OBVIOUS
      <4>1. LastOut(i)' = IF e.id = i /\ e.kind = "outcome" THEN Len(journal) + 1 ELSE LastOut(i)
        BY <2>3, LastsAppend
      <4>2. LastOut(i)' = IF i = id THEN Len(journal) + 1 ELSE LastOut(i)
        BY <2>1, <4>1
      <4> QED
        BY <2>1, <2>3, <4>2, LastsAppend DEF Undone
    <3>2. journal'[Len(journal) + 1] = e
      BY <2>3, PlacesAppend
    <3>3. \A i : /\ Len(journal) \in Nat /\ LastAct(i) \in 0..Len(journal)
                 /\ LastUndo(i) \in 0..Len(journal) /\ LastOut(i) \in 0..Len(journal)
      BY LastsType
    <3>4. ASSUME NEW i \in Identities, LastAct(i)' > LastUndo(i)' /\ LastOut(i)' > LastAct(i)'
          PROVE  journal'[LastOut(i)'].action = journal'[LastAct(i)'].action
      <4>1. CASE i = id
        BY <2>0, <2>1, <3>1, <3>2, <3>3, <3>4, <4>1
      <4>2. CASE i # id
        BY <1>0, <3>1, <3>3, <3>4, <4>2 DEF Answered
      <4> QED
        BY <4>1, <4>2
    <3>5. Answered'
      BY <3>4 DEF Answered
    <3>6. p'.at = "tell"
      BY <1>0, <2>3 DEF At, Process
    <3> QED
      BY <3>5, <3>6 DEF Owned, OwnedAt, Trying
  <2> QED
    BY <2>0, <2>2, <2>3 DEF Recorded, e
<1>36. CASE Tell
  BY <1>36, OffOwned, OwnedMove DEF Tell
<1>37. CASE Die
  BY <1>37, OffOwned, OwnedMove DEF Die
<1>38. CASE Reset
  BY <1>0, <1>38, OwnedMove DEF Reset
<1>39. CASE LoseEnvelope
  <2>1. p'.at = "off" /\ UNCHANGED <<journal, id>>
    BY <1>39 DEF LoseEnvelope
  <2> QED
    BY <1>0, <2>1, LastsKept DEF Owned, OwnedAt, Trying
<1>40. CASE UNCHANGED vars
  BY <1>0, <1>40, OwnedMove DEF vars
<1> QED
  BY <1>1, <1>2, <1>3, <1>4, <1>5, <1>6, <1>7, <1>8, <1>9, <1>10, <1>11, <1>13, <1>14, <1>15, <1>16,
     <1>17, <1>18, <1>19, <1>20, <1>21, <1>22, <1>24, <1>25, <1>26, <1>27, <1>28, <1>29, <1>30,
     <1>31, <1>32, <1>33, <1>34, <1>35, <1>36, <1>37, <1>38, <1>39, <1>40 DEF Next

-----------------------------------------------------------------------------
(* The evidence of a trial *)

\* The last record before another is one, or there is none.
LEMMA BeforeType ==
  ASSUME Typed, NEW i, NEW kinds, NEW m \in Nat
  PROVE  /\ Before(i, kinds, m) \in 0..Len(journal)
         /\ Before(i, kinds, m) # 0 => Before(i, kinds, m) < m
<1>1. Len(journal) \in Nat /\ {j \in Places(i, kinds) : j < m} \in SUBSET (1..Len(journal))
  BY PlacesType
<1> QED
  BY <1>1, LastLine DEF Before

\* A record changes nothing of what precedes it.
LEMMA BeforeAppend ==
  ASSUME Typed, NEW e, journal' = Append(journal, e), NEW m \in 0..(Len(journal) + 1)
  PROVE  /\ \A i, kinds : Before(i, kinds, m)' = Before(i, kinds, m)
         /\ \A i : SeenBefore(i, m)' = SeenBefore(i, m)
<1>1. \A i, kinds : {j \in Places(i, kinds)' : j < m} = {j \in Places(i, kinds) : j < m}
  <2> SUFFICES ASSUME NEW i, NEW kinds
               PROVE  {j \in Places(i, kinds)' : j < m} = {j \in Places(i, kinds) : j < m}
    OBVIOUS
  <2>1. Len(journal) \in Nat
    BY PlacesType
  <2>2. \/ Places(i, kinds)' = Places(i, kinds)
        \/ Places(i, kinds)' = Places(i, kinds) \cup {Len(journal) + 1}
    BY PlacesAppend
  <2>3. ~(Len(journal) + 1 < m)
    BY <2>1
  <2> QED
    BY <2>2, <2>3
<1>2. \A i, kinds : Before(i, kinds, m)' = Before(i, kinds, m)
  BY <1>1 DEF Before
<1>3. ASSUME NEW i PROVE SeenBefore(i, m)' = SeenBefore(i, m)
  <2>1. SeenBefore(i, m) = {j \in {k \in Places(i, {"triplet"}) : k < m} : Before(i, {"qualify_start"}, m) < j}
    BY DEF SeenBefore
  <2>2. SeenBefore(i, m)' = {j \in {k \in Places(i, {"triplet"})' : k < m} : Before(i, {"qualify_start"}, m)' < j}
    BY DEF SeenBefore
  <2> QED
    BY <1>1, <1>2, <2>1, <2>2
<1> QED
  BY <1>2, <1>3

\* Where all records precede, the last before is the last.
LEMMA BeforeLast ==
  ASSUME Typed, NEW m \in Nat, m > Len(journal)
  PROVE  /\ \A i, kinds : Before(i, kinds, m) = LastOf(Places(i, kinds))
         /\ \A i : SeenBefore(i, m) = Seen(i)
<1>1. \A i, kinds : {j \in Places(i, kinds) : j < m} = Places(i, kinds)
  <2> SUFFICES ASSUME NEW i, NEW kinds PROVE \A j \in Places(i, kinds) : j < m
    OBVIOUS
  <2>1. Len(journal) \in Nat /\ Places(i, kinds) \in SUBSET (1..Len(journal))
    BY PlacesType
  <2> QED
    BY <2>1
<1>2. \A i, kinds : Before(i, kinds, m) = LastOf(Places(i, kinds))
  BY <1>1 DEF Before
<1>3. ASSUME NEW i PROVE SeenBefore(i, m) = Seen(i)
  <2>1. LastTrial(i) \in Nat /\ \A j \in Places(i, {"triplet"}) : j \in Nat
    BY PlacesType, LastLine DEF LastTrial
  <2>2. \A j \in Places(i, {"triplet"}) : j < m
    BY <1>1
  <2>3. Before(i, {"qualify_start"}, m) = LastTrial(i)
    BY <1>2 DEF LastTrial
  <2> QED
    BY <2>1, <2>2, <2>3 DEF SeenBefore, Seen
<1> QED
  BY <1>2, <1>3

\* So an activation stays backed.
LEMMA BackedAppend ==
  ASSUME Typed, NEW e, journal' = Append(journal, e), NEW i, NEW k \in 1..(Len(journal) + 1), NEW a,
         Backed(i, k, a)
  PROVE  Backed(i, k, a)'
<1>1. PICK v \in DOMAIN journal, t \in DOMAIN journal : BackedBy(i, k, a, v, t)
  BY DEF Backed
<1>2. Len(journal) \in Nat /\ DOMAIN journal = 1..Len(journal)
  BY PlacesType
<1>3. /\ k \in 0..(Len(journal) + 1) /\ v \in 0..(Len(journal) + 1) /\ v \in DOMAIN journal'
      /\ t \in DOMAIN journal'
  BY <1>1, <1>2, PlacesAppend
<1>4. /\ \A kinds : Before(i, kinds, k)' = Before(i, kinds, k)
      /\ \A kinds : Before(i, kinds, v)' = Before(i, kinds, v)
      /\ SeenBefore(i, v)' = SeenBefore(i, v)
  BY <1>3, BeforeAppend
<1>5. journal'[v] = journal[v] /\ journal'[t] = journal[t]
  BY PlacesAppend
<1>6. \A j \in SeenBefore(i, v) : journal'[j] = journal[j]
  <2>1. SeenBefore(i, v) \subseteq DOMAIN journal
    BY DEF SeenBefore, Places
  <2> QED
    BY <2>1, PlacesAppend
<1>7. BackedBy(i, k, a, v, t)'
  <2>1. v = Before(i, {"qualify_end"}, k)' /\ t = Before(i, {"qualify_start"}, v)'
    BY <1>1, <1>4 DEF BackedBy
  <2>2. Before(i, {"activate"}, k)' <= Before(i, Undone \cup {"outcome"}, k)'
    BY <1>1, <1>4 DEF BackedBy
  <2>3. t # 0 /\ journal'[v].ok /\ journal'[v].action = a /\ journal'[t].action = a
    BY <1>1, <1>5 DEF BackedBy
  <2>4. i \notin OwnEvaluator =>
          /\ Cardinality(SeenBefore(i, v)') = Pairs
          /\ \A j \in SeenBefore(i, v)' : journal'[j].ok /\ journal'[j].action = a
    BY <1>1, <1>4, <1>6 DEF BackedBy
  <2>5. (Undone \cup {"outcome"})' = Undone \cup {"outcome"}
    BY DEF Undone
  <2> QED
    BY <2>1, <2>2, <2>3, <2>4, <2>5 DEF BackedBy
<1> QED
  BY <1>3, <1>7 DEF Backed

\* EvidenceFirst says that every activation is backed.
LEMMA EvidenceBacked ==
  ASSUME Typed, EvidenceFirst, NEW i \in Identities, NEW k \in Places(i, {"activate"})
  PROVE  Backed(i, k, journal[k].action)
<1> DEFINE v == Before(i, {"qualify_end"}, k)
           t == Before(i, {"qualify_start"}, v)
<1>1. BackedBy(i, k, journal[k].action, v, t)
  BY DEF EvidenceFirst, BackedBy, Before, SeenBefore
<1>2. Len(journal) \in Nat /\ DOMAIN journal = 1..Len(journal) /\ k \in Nat
  BY PlacesType
<1>3. t # 0
  BY <1>1 DEF BackedBy
<1>4. v \in 0..Len(journal)
  BY <1>2, BeforeType
<1> HIDE DEF v
<1>5. t \in 0..Len(journal) /\ t < v
  BY <1>2, <1>3, <1>4, BeforeType
<1> HIDE DEF t
<1>6. v \in DOMAIN journal /\ t \in DOMAIN journal
  BY <1>2, <1>3, <1>4, <1>5
<1> QED
  BY <1>1, <1>6 DEF Backed

\* Every activation is backed.
AllBacked == \A i \in Identities : \A k \in Places(i, {"activate"}) : Backed(i, k, journal[k].action)

\* Backed activations are what EvidenceFirst asks for.
LEMMA BackedEvidence == AllBacked => EvidenceFirst
<1> SUFFICES ASSUME AllBacked, NEW i \in Identities, NEW k \in Places(i, {"activate"}),
                    NEW v, NEW t, BackedBy(i, k, journal[k].action, v, t)
             PROVE
        LET before(kinds, m) == LastOf({j \in Places(i, kinds) : j < m})
            verdict == before({"qualify_end"}, k)
            trial == before({"qualify_start"}, verdict)
            seen == {j \in Places(i, {"triplet"}) : trial < j /\ j < verdict}
        IN /\ trial # 0 /\ journal[verdict].ok
           /\ journal[verdict].action = journal[k].action
           /\ journal[trial].action = journal[k].action
           /\ i \notin OwnEvaluator =>
                /\ Cardinality(seen) = Pairs
                /\ \A j \in seen : journal[j].ok /\ journal[j].action = journal[k].action
           /\ before({"activate"}, k) <= before(Undone \cup {"outcome"}, k)
  BY DEF AllBacked, Backed, EvidenceFirst
<1> QED
  BY DEF BackedBy, Before, SeenBefore

\* A record keeps the activations backed, if it is not one that nothing backs.
LEMMA EvidenceAppend ==
  ASSUME Typed, EvidenceFirst, NEW e, journal' = Append(journal, e),
         e.kind = "activate" => Backed(e.id, Len(journal) + 1, e.action)
  PROVE  EvidenceFirst'
<1>1. ASSUME NEW i \in Identities, NEW k \in Places(i, {"activate"})', NEW a, journal'[k].action = a
      PROVE  Backed(i, k, a)'
  <2>1. Len(journal) \in Nat /\ DOMAIN journal = 1..Len(journal)
    BY PlacesType
  <2>2. CASE k \in Places(i, {"activate"})
    <3>1. k \in DOMAIN journal
      BY <2>2 DEF Places
    <3>2. Backed(i, k, journal[k].action) /\ journal[k].action = a
      BY <1>1, <2>2, <3>1, EvidenceBacked, PlacesAppend
    <3>3. Backed(i, k, a) /\ k \in 1..(Len(journal) + 1)
      BY <2>1, <3>1, <3>2
    <3> QED
      BY <3>3, BackedAppend
  <2>3. CASE k = Len(journal) + 1 /\ e.id = i /\ e.kind = "activate"
    <3>1. journal'[k] = e
      BY <2>3, PlacesAppend
    <3>2. Backed(i, k, a) /\ k \in 1..(Len(journal) + 1)
      BY <1>1, <2>1, <2>3, <3>1
    <3> QED
      BY <3>2, BackedAppend
  <2> QED
    BY <1>1, <2>2, <2>3, PlacesAppend
<1>2. AllBacked'
  BY <1>1 DEF AllBacked
<1>3. (AllBacked => EvidenceFirst)'
  BY BackedEvidence, PTL
<1> QED
  BY <1>2, <1>3

\* The records that change a trial or need one.
Tries == {"activate", "qualify_start", "triplet"}

\* The last trial and its triplets stay as they are, but for a new trial or triplet.
LEMMA SeenAppend ==
  ASSUME Typed, NEW e, journal' = Append(journal, e), NEW i,
         e.kind \in {"qualify_start", "triplet"} => e.id # i
  PROVE  /\ LastTrial(i)' = LastTrial(i) /\ Seen(i)' = Seen(i)
         /\ LastTrial(i) # 0 => journal'[LastTrial(i)] = journal[LastTrial(i)]
         /\ \A j \in Seen(i) : journal'[j] = journal[j]
<1>1. LastTrial(i)' = LastTrial(i)
  BY LastAppend DEF LastTrial
<1>2. Places(i, {"triplet"})' = Places(i, {"triplet"})
  BY PlacesAppend
<1>3. Seen(i)' = Seen(i)
  BY <1>1, <1>2 DEF Seen
<1>4. LastTrial(i) # 0 => LastTrial(i) \in DOMAIN journal
  BY PlacesType, LastLine DEF LastTrial
<1>5. Seen(i) \subseteq DOMAIN journal
  BY DEF Seen, Places
<1> QED
  BY <1>1, <1>3, <1>4, <1>5, PlacesAppend

\* The stages without a trial.
Untried == Stages \ {"own", "answer", "judge", "runs", "triplet", "apply", "applied"}

\* A process without a trial needs no evidence.
LEMMA UntriedAt == ASSUME NEW q, q.at \in Untried PROVE TriedAt(q)
  BY DEF Untried, TriedAt

\* The process moves on, writing nothing.
LEMMA TriedMove ==
  ASSUME Typed, Tried, journal' = journal, NEW q, p' = q, TriedAt(q),
         id' = id \/ q.at \in {"open", "off"}
  PROVE  Tried'
<1>1. \A i, kinds : Places(i, kinds)' = Places(i, kinds)
  BY DEF Places
<1>2. \A i : LastTrial(i)' = LastTrial(i)
  BY <1>1 DEF LastTrial
<1>3. \A i : Seen(i)' = Seen(i)
  BY <1>1, <1>2 DEF Seen
<1>4. Tallied'
  BY <1>2, <1>3 DEF Tried, Tallied
<1>5. \A i, kinds, m : Before(i, kinds, m)' = Before(i, kinds, m)
  BY <1>1 DEF Before
<1>6. \A i, m : SeenBefore(i, m)' = SeenBefore(i, m)
  BY <1>1, <1>5 DEF SeenBefore
<1>7. \A i, k, a, v, t : BackedBy(i, k, a, v, t)' <=> BackedBy(i, k, a, v, t)
  <2>1. (Undone \cup {"outcome"})' = Undone \cup {"outcome"}
    BY DEF Undone
  <2> QED
    BY <1>5, <1>6, <2>1 DEF BackedBy
<1>8. \A i, k, a : Backed(i, k, a)' <=> Backed(i, k, a)
  BY <1>7 DEF Backed
<1>9. EvidenceFirst'
  <2>1. AllBacked'
    BY <1>1, <1>8, EvidenceBacked DEF Tried, AllBacked
  <2>2. (AllBacked => EvidenceFirst)'
    BY BackedEvidence, PTL
  <2> QED
    BY <2>1, <2>2
<1>10. TriedAt(p)'
  <2>1. CASE q.at \in {"open", "off"}
    BY <2>1 DEF TriedAt
  <2>2. CASE id' = id
    <3>1. p.at' \in {"apply", "applied"} => Backed(id, Len(journal) + 1, q.action)
      BY DEF TriedAt
    <3>2. Len(journal') + 1 = Len(journal) + 1
      OBVIOUS
    <3> QED
      BY <1>2, <1>3, <1>8, <2>2, <3>1, <3>2 DEF TriedAt
  <2> QED
    BY <2>1, <2>2
<1> QED
  BY <1>4, <1>9, <1>10 DEF Tried

\* A record of another kind leaves the tally and the process's evidence alone.
LEMMA TriedRecorded ==
  ASSUME Typed, Tried, NEW e, e.kind \notin Tries, NEW q, Recorded(e, q), TriedAt(q),
         q.at \notin {"apply", "applied"}, id' = id
  PROVE  Tried'
<1>1. CASE journal' = journal /\ p' = Off
  <2>1. Off.at \in Untried
    BY DEF Off, Untried, Stages
  <2> QED
    BY <1>1, <2>1, UntriedAt, TriedMove
<1>2. CASE journal' = Append(journal, e) /\ p' = q
  <2>1. EvidenceFirst'
    BY <1>2, EvidenceAppend DEF Tried, Tries
  <2>2. \A i : /\ LastTrial(i)' = LastTrial(i) /\ Seen(i)' = Seen(i)
               /\ LastTrial(i) # 0 => journal'[LastTrial(i)] = journal[LastTrial(i)]
               /\ \A j \in Seen(i) : journal'[j] = journal[j]
    BY <1>2, SeenAppend DEF Tries
  <2>3. Tallied'
    BY <2>2 DEF Tried, Tallied
  <2>4. TriedAt(p)'
    BY <1>2, <2>2 DEF TriedAt
  <2> QED
    BY <2>1, <2>3, <2>4 DEF Tried
<1> QED
  BY <1>1, <1>2 DEF Recorded

\* The verdict just recorded backs an activation that would come next.
LEMMA VerdictBacks ==
  ASSUME Typed, Owned, Tried, NEW e, journal' = Append(journal, e),
         NEW i, i = id, NEW a, a = p.action, NEW k, k = Len(journal) + 2,
         e.kind = "qualify_end", e.id = i, e.ok, e.action = a,
         p.at \in {"answer", "judge"},
         p.at = "judge" =>
            Cardinality(Seen(i)) >= Pairs /\ \A j \in Seen(i) : journal[j].ok
  PROVE  Backed(i, k, a)'
<1>0. /\ Len(journal) \in Nat /\ DOMAIN journal = 1..Len(journal)
      /\ DOMAIN journal' = 1..(Len(journal) + 1) /\ journal'[Len(journal) + 1] = e
      /\ \A m \in DOMAIN journal : journal'[m] = journal[m]
  BY PlacesType, PlacesAppend
<1>1. PICK v : v = Len(journal) + 1
  OBVIOUS
<1>2. PICK t : t = LastTrial(i)
  OBVIOUS
<1>3. i \in Identities /\ p.at \in Trying
  BY DEF Typed, Trying
<1>4. t \in DOMAIN journal /\ t # 0 /\ journal[t].action = a
  BY <1>0, <1>2, PlacesType, LastLine DEF LastTrial, Tried, TriedAt
<1>5. \A kinds : {j \in Places(i, kinds)' : j < k} = Places(i, kinds)'
  <2> SUFFICES ASSUME NEW kinds, NEW j \in Places(i, kinds)' PROVE j < k
    OBVIOUS
  <2>1. j \in 1..(Len(journal) + 1)
    BY <1>0 DEF Places
  <2> QED
    BY <1>0, <2>1
<1>6. \A kinds : Before(i, kinds, k)' = LastOf(Places(i, kinds)')
  BY <1>5 DEF Before
<1>7. Before(i, {"qualify_end"}, k)' = v
  BY <1>1, <1>6, LastAppend
<1>8. v \in 0..(Len(journal) + 1) /\ v \in Nat /\ v > Len(journal)
  BY <1>0, <1>1
<1>9. Before(i, {"qualify_start"}, v)' = t
  BY <1>2, <1>8, BeforeAppend, BeforeLast DEF LastTrial
<1>10. SeenBefore(i, v)' = Seen(i)
  BY <1>8, BeforeAppend, BeforeLast
<1>11. i \notin OwnEvaluator =>
         /\ Cardinality(Seen(i)) = Pairs
         /\ \A j \in Seen(i) : journal'[j].ok /\ journal'[j].action = a
  <2> SUFFICES ASSUME i \notin OwnEvaluator
               PROVE  /\ Cardinality(Seen(i)) = Pairs
                      /\ \A j \in Seen(i) : journal'[j].ok /\ journal'[j].action = a
    OBVIOUS
  <2>1. p.at = "judge"
    BY DEF Tried, TriedAt
  <2>2. Cardinality(Seen(i)) <= Pairs /\ \A j \in Seen(i) : journal[j].action = a
    BY <1>2, <1>3, <1>4 DEF Tried, Tallied
  <2>3. Cardinality(Seen(i)) \in Nat /\ Pairs \in Nat
    <3>1. IsFiniteSet(Places(i, {"triplet"})) /\ Seen(i) \subseteq Places(i, {"triplet"})
      BY PlacesType DEF Seen
    <3>2. IsFiniteSet(Seen(i))
      BY <3>1, FS_Subset
    <3> QED
      BY <3>2, FS_CardinalityType, GoalAssumption
  <2>4. Seen(i) \subseteq DOMAIN journal
    BY DEF Seen, Places
  <2>5. Cardinality(Seen(i)) = Pairs
    BY <2>1, <2>2, <2>3
  <2> QED
    BY <1>0, <2>1, <2>2, <2>4, <2>5
<1>12. Before(i, {"activate"}, k)' <= Before(i, Undone \cup {"outcome"}, k)'
  <2>1. Before(i, {"activate"}, k)' = LastAct(i)
    BY <1>6, LastAppend DEF LastAct
  <2>2. Before(i, Undone \cup {"outcome"}, k)' = LastOf(Places(i, Undone \cup {"outcome"}))
    BY <1>6, LastAppend DEF Undone
  <2>3. LastAct(i) <= LastUndo(i)
    BY <1>3 DEF Owned, OwnedAt
  <2>4. LastUndo(i) <= LastOf(Places(i, Undone \cup {"outcome"}))
    <3> DEFINE S == Places(i, Undone \cup {"outcome"})
    <3>1. Len(journal) \in Nat /\ S \in SUBSET (1..Len(journal)) /\ Places(i, Undone) \in SUBSET S
      BY PlacesType DEF Places
    <3> HIDE DEF S
    <3>2. LastOf(Places(i, Undone)) <= LastOf(S)
      BY <3>1, LastMonotone
    <3> QED
      BY <3>2 DEF S, LastUndo
  <2>5. LastAct(i) \in Nat /\ LastUndo(i) \in Nat /\ LastOf(Places(i, Undone \cup {"outcome"})) \in Nat
    <3>1. \A kinds : LastOf(Places(i, kinds)) \in Nat
      BY PlacesType, LastLine
    <3> QED
      BY <3>1 DEF LastAct, LastUndo
  <2> QED
    BY <2>1, <2>2, <2>3, <2>4, <2>5
<1>13. BackedBy(i, k, a, v, t)'
  <2>1. journal'[v].ok /\ journal'[v].action = a /\ journal'[t].action = a
    BY <1>0, <1>1, <1>4
  <2>2. (Undone \cup {"outcome"})' = Undone \cup {"outcome"}
    BY DEF Undone
  <2> QED
    BY <1>4, <1>7, <1>9, <1>10, <1>11, <1>12, <2>1, <2>2 DEF BackedBy
<1>14. v \in DOMAIN journal' /\ t \in DOMAIN journal'
  BY <1>0, <1>1, <1>4
<1> QED
  BY <1>13, <1>14 DEF Backed

\* A verdict keeps the evidence.
LEMMA TriedVerdict ==
  ASSUME Typed, Owned, Tried, NEW ok \in BOOLEAN, Verdict(ok), p.at \in {"answer", "judge"}, id' = id,
         ok /\ p.at = "judge" =>
            Cardinality(Seen(id)) >= Pairs /\ \A j \in Seen(id) : journal[j].ok
  PROVE  Tried'
<1> DEFINE e == Result("qualify_end", ok)
<1>1. e.kind = "qualify_end" /\ e.id = id /\ e.ok = ok /\ e.action = p.action
  BY ResultType DEF Kinds
<1>2. p \in Process
  BY DEF Typed, Handy
<1> HIDE DEF e
<1>3. CASE ~ok
  <2>1. Recorded(e, Kept)
    BY <1>3 DEF Verdict, e
  <2>2. Kept.at = "finish" /\ "finish" \in Untried
    BY <1>2, Settle DEF Untried, Stages, Trying
  <2> QED
    BY <1>1, <2>1, <2>2, UntriedAt, TriedRecorded DEF Tries
<1>4. CASE ok
  <2> DEFINE q == [At("apply") EXCEPT !.n = None]
  <2>1. q.at = "apply" /\ q.action = p.action
    BY <1>2 DEF At, Process
  <2>2. Recorded(e, q)
    BY <1>4 DEF Verdict, e
  <2> HIDE DEF q
  <2>3. CASE journal' = journal /\ p' = Off
    <3>1. Off.at \in Untried
      BY DEF Off, Untried, Stages
    <3> QED
      BY <2>3, <3>1, UntriedAt, TriedMove
  <2>4. CASE journal' = Append(journal, e) /\ p' = q
    <3>1. EvidenceFirst'
      BY <1>1, <2>4, EvidenceAppend DEF Tried
    <3>2. \A i : /\ LastTrial(i)' = LastTrial(i) /\ Seen(i)' = Seen(i)
                 /\ LastTrial(i) # 0 => journal'[LastTrial(i)] = journal[LastTrial(i)]
                 /\ \A j \in Seen(i) : journal'[j] = journal[j]
      BY <1>1, <2>4, SeenAppend
    <3>3. Tallied'
      BY <3>2 DEF Tried, Tallied
    <3>4. PICK i, a, k : i = id /\ a = p.action /\ k = Len(journal) + 2
      OBVIOUS
    <3>5. Backed(i, k, a)'
      BY <1>1, <1>4, <2>4, <3>4, VerdictBacks
    <3>6. i = id' /\ a = p'.action /\ k = Len(journal') + 1
      BY <2>1, <2>4, <3>4, PlacesAppend, PlacesType
    <3>7. Backed(id, Len(journal) + 1, p.action)'
      BY <3>5, <3>6 DEF Backed, BackedBy
    <3>8. TriedAt(p)'
      BY <2>1, <2>4, <3>7 DEF TriedAt
    <3> QED
      BY <3>1, <3>3, <3>8 DEF Tried
  <2> QED
    BY <2>2, <2>3, <2>4 DEF Recorded
<1> QED
  BY <1>3, <1>4

\* A process without a trial moves on, writing nothing.
LEMMA UntriedMove ==
  ASSUME Typed, Tried, journal' = journal, p'.at \in Untried, id' = id
  PROVE  Tried'
  BY UntriedAt, TriedMove

\* Or records something first.
LEMMA UntriedRecorded ==
  ASSUME Typed, Tried, NEW e, e.kind \notin Tries, NEW q, Recorded(e, q), q.at \in Untried, id' = id
  PROVE  Tried'
  BY UntriedAt, TriedRecorded DEF Untried

\* A measurement begins.
LEMMA TriedBegins ==
  ASSUME Typed, Tried, NEW q \in Process, Begins(q), id' = id,
         TriedAt([q EXCEPT !.n = Cardinality(Mine({"attempt"}))]),
         q.at \notin {"apply", "applied"}
  PROVE  Tried'
<1>1. Entry("attempt") \in Record /\ Entry("attempt").kind = "attempt"
  BY EntryType DEF Kinds
<1> DEFINE n == Cardinality(Mine({"attempt"}))
           e == [Entry("attempt") EXCEPT !.action = q.action, !.n = n]
<1> HIDE DEF n
<1>2. e.kind = "attempt" /\ [q EXCEPT !.n = n].at = q.at
  BY <1>1 DEF Record, Process
<1>3. Recorded(e, [q EXCEPT !.n = n]) /\ TriedAt([q EXCEPT !.n = n])
  BY DEF Begins, n
<1> HIDE DEF e
<1> QED
  BY <1>2, <1>3, TriedRecorded DEF Tries

\* A trial starts with no triplets.
LEMMA TriedStart ==
  ASSUME Typed, Tried, Recorded(Entry("qualify_start"), Judging), p.at = "qualify", id' = id
  PROVE  Tried'
<1> DEFINE e == Entry("qualify_start")
<1>1. e.kind = "qualify_start" /\ e.id = id /\ e.action = p.action
  BY EntryType DEF Kinds
<1>2. /\ p \in Process /\ Judging.at \in {"own", "judge"} /\ Judging.action = p.action
      /\ (Judging.at = "own" => id \in OwnEvaluator)
  BY Settle DEF Typed, Handy
<1> HIDE DEF e
<1>3. CASE journal' = journal /\ p' = Off
  <2>1. Off.at \in Untried
    BY DEF Off, Untried, Stages
  <2> QED
    BY <1>3, <2>1, UntriedMove
<1>4. CASE journal' = Append(journal, e) /\ p' = Judging
  <2>1. EvidenceFirst'
    BY <1>1, <1>4, EvidenceAppend DEF Tried
  <2>2. Len(journal) \in Nat /\ journal'[Len(journal) + 1] = e
    BY <1>4, PlacesType, PlacesAppend
  <2>3. LastTrial(id)' = Len(journal) + 1
    <3>1. \A i : i = e.id => LastOf(Places(i, {"qualify_start"})') = Len(journal) + 1
      BY <1>1, <1>4, LastAppend
    <3>2. LastOf(Places(id, {"qualify_start"})') = Len(journal) + 1
      BY <1>1, <3>1
    <3> QED
      BY <3>2 DEF LastTrial, Places
  <2>4. Seen(id)' = {}
    <3>1. Places(id, {"triplet"})' = Places(id, {"triplet"})
      <4>1. \A i : Places(i, {"triplet"})' = Places(i, {"triplet"})
        BY <1>1, <1>4, PlacesAppend
      <4> QED
        BY <4>1 DEF Places
    <3>2. \A j \in Places(id, {"triplet"}) : j \in 1..Len(journal)
      BY PlacesType
    <3> QED
      BY <2>2, <2>3, <3>1, <3>2 DEF Seen
  <2>5. Tallied'
    <3> SUFFICES ASSUME NEW i \in Identities
                 PROVE  /\ Cardinality(Seen(i)') <= Pairs
                        /\ \A j \in Seen(i)' :
                             LastTrial(i)' # 0 /\ journal'[j].action = journal'[LastTrial(i)'].action
      BY DEF Tallied
    <3>1. CASE i = id
      <4>1. Cardinality({}) = 0 /\ Pairs \in Nat
        BY FS_EmptySet, GoalAssumption
      <4>2. Seen(i)' = {}
        BY <2>4, <3>1 DEF Seen, LastTrial, Places
      <4> QED
        BY <4>1, <4>2
    <3>2. CASE i # id
      <4>1. /\ LastTrial(i)' = LastTrial(i) /\ Seen(i)' = Seen(i)
            /\ LastTrial(i) # 0 => journal'[LastTrial(i)] = journal[LastTrial(i)]
            /\ \A j \in Seen(i) : journal'[j] = journal[j]
        BY <1>1, <1>4, <3>2, SeenAppend
      <4> QED
        BY <4>1 DEF Tried, Tallied
    <3> QED
      BY <3>1, <3>2
  <2>6. TriedAt(p)'
    BY <1>1, <1>2, <1>4, <2>2, <2>3 DEF TriedAt
  <2> QED
    BY <2>1, <2>5, <2>6 DEF Tried
<1> QED
  BY <1>3, <1>4 DEF Recorded, e

\* A triplet is one more of its trial.
LEMMA TriedTriplet ==
  ASSUME Typed, Tried, TripletDone
  PROVE  Tried'
<1>1. PICK ok \in BOOLEAN : Recorded(Result("triplet", ok), [At("judge") EXCEPT !.n = None])
  BY DEF TripletDone
<1> DEFINE e == Result("triplet", ok)
           q == [At("judge") EXCEPT !.n = None]
<1>2. e.kind = "triplet" /\ e.id = id /\ e.action = p.action
  BY ResultType DEF Kinds
<1>3. p.at = "triplet" /\ id' = id /\ p \in Process /\ q.at = "judge" /\ q.action = p.action
  BY DEF TripletDone, Typed, Handy, At, Process
<1> HIDE DEF e, q
<1>4. CASE journal' = journal /\ p' = Off
  <2>1. Off.at \in Untried
    BY DEF Off, Untried, Stages
  <2> QED
    BY <1>3, <1>4, <2>1, UntriedMove
<1>5. CASE journal' = Append(journal, e) /\ p' = q
  <2>1. EvidenceFirst'
    BY <1>2, <1>5, EvidenceAppend DEF Tried
  <2>2. /\ Len(journal) \in Nat /\ journal'[Len(journal) + 1] = e
        /\ \A m \in DOMAIN journal : journal'[m] = journal[m]
    BY <1>5, PlacesType, PlacesAppend
  <2>3. \A i : LastTrial(i)' = LastTrial(i)
    BY <1>2, <1>5, LastAppend DEF LastTrial
  <2>4. PICK i : i = id
    OBVIOUS
  <2>5. Places(i, {"triplet"})' = Places(i, {"triplet"}) \cup {Len(journal) + 1}
    BY <1>2, <1>5, <2>4, PlacesAppend
  <2>6. LastTrial(i) \in 0..Len(journal) /\ (LastTrial(i) # 0 => LastTrial(i) \in DOMAIN journal)
    BY PlacesType, LastLine DEF LastTrial
  <2>7. Seen(i)' = Seen(i) \cup {Len(journal) + 1}
    BY <2>2, <2>3, <2>5, <2>6 DEF Seen
  <2>8. /\ IsFiniteSet(Seen(i)) /\ Len(journal) + 1 \notin Seen(i) /\ Seen(i) \subseteq DOMAIN journal
    <3>1. /\ IsFiniteSet(Places(i, {"triplet"})) /\ Seen(i) \subseteq Places(i, {"triplet"})
          /\ Places(i, {"triplet"}) \subseteq 1..Len(journal) /\ DOMAIN journal = 1..Len(journal)
      BY PlacesType DEF Seen
    <3> QED
      BY <2>2, <3>1, FS_Subset
  <2>9. Cardinality(Seen(i)') <= Pairs
    <3>1. Cardinality(Seen(i)') = Cardinality(Seen(i)) + 1
      BY <2>7, <2>8, FS_AddElement
    <3>2. Cardinality(Seen(i)) < Pairs
      BY <1>3, <2>4 DEF Tried, TriedAt
    <3>3. Cardinality(Seen(i)) \in Nat /\ Pairs \in Nat
      BY <2>8, FS_CardinalityType, GoalAssumption
    <3> QED
      BY <3>1, <3>2, <3>3
  <2>10. LastTrial(i) # 0 /\ journal[LastTrial(i)].action = p.action
    BY <1>3, <2>4 DEF Tried, TriedAt
  <2>11. \A j \in Seen(i)' : journal'[j].action = p.action
    <3>1. i \in Identities
      BY <2>4 DEF Typed
    <3>2. \A j \in Seen(i) : journal[j].action = p.action
      BY <2>10, <3>1 DEF Tried, Tallied
    <3> QED
      BY <1>2, <2>2, <2>7, <2>8, <3>2
  <2>12. LastTrial(i)' # 0 /\ journal'[LastTrial(i)'].action = p.action
    BY <2>2, <2>3, <2>6, <2>10
  <2>13. Tallied'
    <3> SUFFICES ASSUME NEW m \in Identities
                 PROVE  /\ Cardinality(Seen(m)') <= Pairs
                        /\ \A j \in Seen(m)' :
                             LastTrial(m)' # 0 /\ journal'[j].action = journal'[LastTrial(m)'].action
      BY DEF Tallied
    <3>1. CASE m = i
      BY <2>9, <2>11, <2>12, <3>1
    <3>2. CASE m # i
      <4>1. /\ LastTrial(m)' = LastTrial(m) /\ Seen(m)' = Seen(m)
            /\ LastTrial(m) # 0 => journal'[LastTrial(m)] = journal[LastTrial(m)]
            /\ \A j \in Seen(m) : journal'[j] = journal[j]
        BY <1>2, <1>5, <2>4, <3>2, SeenAppend
      <4> QED
        BY <4>1 DEF Tried, Tallied
    <3> QED
      BY <3>1, <3>2
  <2>14. TriedAt(p)'
    <3>1. LastTrial(id)' # 0 /\ journal'[LastTrial(id)'].action = p.action
      BY <1>3, <2>4, <2>12 DEF LastTrial, Places
    <3> QED
      BY <1>3, <1>5, <3>1 DEF TriedAt
  <2> QED
    BY <2>1, <2>13, <2>14 DEF Tried
<1> QED
  BY <1>1, <1>4, <1>5 DEF Recorded, e, q

\* Every step keeps the evidence.
LEMMA NextTried ==
  ASSUME Typed, Owned, Tried, [Next]_vars
  PROVE  Tried'
<1>0. /\ p \in Process /\ TriedAt(p) /\ id \in Identities
      /\ \A kind \in Kinds : Entry(kind) \in Record /\ Entry(kind).kind = kind
  BY EntryType DEF Typed, Handy, Tried
<1>00. {"off", "open", "recovered", "close", "undo", "enforce", "revert", "setaside", "undone",
        "reference", "refrun", "standing", "envelope", "recheck", "rerun", "finish", "tell",
        "explore", "test", "champion", "qualify"} \subseteq Untried
  BY DEF Untried, Stages, Trying
<1>000. Off.at \in Untried
  BY <1>00 DEF Off
<1>1. CASE Start
  <2>1. p'.at = "open"
    BY <1>1 DEF Start, Off
  <2> QED
    BY <1>1, <1>00, <2>1, UntriedAt, TriedMove DEF Start
<1>2. CASE Open
  <2>1. p'.at \in {"recovered", "close"}
    BY <1>0, <1>2 DEF Open, At, Process
  <2> QED
    BY <1>2, <1>00, <2>1, UntriedMove DEF Open
<1>3. CASE Recovered
  <2>1. At("close").at = "close"
    BY <1>0 DEF At, Process
  <2> QED
    BY <1>0, <1>00, <1>3, <2>1, UntriedRecorded DEF Recovered, Kinds, Tries
<1>4. CASE CloseInterrupted
  <2>1. PICK k \in OpenAttempts : Recorded([journal[k] EXCEPT !.kind = "attempt_interrupted"], p)
    BY <1>4 DEF CloseInterrupted
  <2>2. journal[k] \in Record
    BY PlacesType DEF OpenAttempts, Mine
  <2>3. [journal[k] EXCEPT !.kind = "attempt_interrupted"].kind = "attempt_interrupted"
    BY <2>2 DEF Record
  <2> QED
    BY <1>00, <1>4, <2>1, <2>3, UntriedRecorded DEF CloseInterrupted, Tries
<1>5. CASE Opened
  <2>1. p'.at \in {"undo", "enforce"}
    BY <1>0, <1>5 DEF Opened, At, Process
  <2> QED
    BY <1>5, <1>00, <2>1, UntriedMove DEF Opened
<1>6. CASE EnforceIdentity
  <2>1. p'.at \in {"reference", "revert"}
    BY <1>0, <1>6 DEF EnforceIdentity, At, Process
  <2> QED
    BY <1>6, <1>00, <2>1, UntriedMove DEF EnforceIdentity
<1>7. CASE NothingActive
  <2>1. [At("finish") EXCEPT !.action = Default].at = "finish"
    BY <1>0 DEF At, Process
  <2>2. "rollback" \in Kinds \ Tries
    BY DEF Kinds, Tries
  <2>3. \A q : Recorded(Entry("rollback"), q) /\ q.at \in Untried => Tried'
    BY <1>0, <1>7, <2>2, UntriedRecorded DEF NothingActive
  <2> QED
    BY <1>7, <1>00, <1>000, <2>1, <2>3 DEF NothingActive
<1>8. CASE Revert
  <2>1. p'.at = "setaside"
    BY <1>0, <1>8 DEF Revert, At, Process
  <2> QED
    BY <1>8, <1>00, <2>1, UntriedMove DEF Revert
<1>9. CASE Quarantine
  <2>1. p'.at = "undone"
    BY <1>0, <1>9 DEF Quarantine, At, Process
  <2> QED
    BY <1>9, <1>00, <2>1, UntriedMove DEF Quarantine
<1>10. CASE Reverted
  <2>1. PICK e, q : Recorded(e, q) /\ e.kind \in {"rollback", "identity_rollback"}
                    /\ q.at \in {"reference", "finish", "tell"}
    <3>1. \A s \in {"reference", "finish", "tell"} :
            /\ [At(s) EXCEPT !.previous = None].at = s
            /\ [At(s) EXCEPT !.action = Default, !.previous = None].at = s
      BY <1>0 DEF At, Process
    <3>2. /\ [Entry("rollback") EXCEPT !.previous = p.previous].kind = "rollback"
          /\ Entry("identity_rollback").kind = "identity_rollback"
      BY <1>0 DEF Kinds, Record
    <3>3. CASE Recorded(Entry("identity_rollback"), [At("reference") EXCEPT !.previous = None])
      BY <3>1, <3>2, <3>3
    <3>4. CASE Recorded([Entry("rollback") EXCEPT !.previous = p.previous],
                        [At(IF p.cmd = "cycle" THEN "finish" ELSE "tell")
                            EXCEPT !.action = Default, !.previous = None])
      BY <3>1, <3>2, <3>4
    <3> QED
      BY <1>10, <3>3, <3>4 DEF Reverted
  <2> QED
    BY <1>00, <1>10, <2>1, UntriedRecorded DEF Reverted, Tries
<1>11. CASE Rollback
  <2>1. p'.at = "revert"
    BY <1>0, <1>11 DEF Rollback, At, Process
  <2> QED
    BY <1>11, <1>00, <2>1, UntriedMove DEF Rollback
<1>12. ASSUME NEW q \in Process, Begins(q), q.at \in Untried, id' = id
       PROVE  Tried'
  <2> DEFINE n == Cardinality(Mine({"attempt"}))
  <2>1. [q EXCEPT !.n = n].at = q.at
    BY <1>12 DEF Process
  <2>2. TriedAt([q EXCEPT !.n = n])
    BY <1>12, <2>1, UntriedAt
  <2>3. q.at \notin {"apply", "applied"}
    BY <1>12 DEF Untried
  <2> QED
    BY <1>12, <2>2, <2>3, TriedBegins
<1>13. CASE Reference
  <2>1. At("refrun") \in Process /\ At("refrun").at = "refrun"
    BY <1>0 DEF At, Process, Stages
  <2> QED
    BY <1>00, <1>12, <1>13, <2>1 DEF Reference
<1>14. CASE ReferenceRun
  <2>1. [At("reference") EXCEPT !.n = None].at = "reference"
    BY <1>0 DEF At, Process
  <2>2. \A kind \in {"reference", "reference_failed"}, ok \in BOOLEAN : Result(kind, ok).kind = kind
    BY ResultType DEF Kinds
  <2> QED
    BY <1>00, <1>000, <1>14, <2>1, <2>2, UntriedRecorded DEF ReferenceRun, Tries
<1>15. CASE Resume
  <2>1. p'.at \in {"standing", "recheck"}
    BY <1>0, <1>15 DEF Resume, At, Process
  <2> QED
    BY <1>15, <1>00, <2>1, UntriedMove DEF Resume
<1>16. CASE Standing
  <2> DEFINE k == StandingOutcome
             e == [Entry("outcome_invalidated") EXCEPT !.action = journal[k].action]
  <2>1. At("explore").at = "explore" /\ \A a : [At("tell") EXCEPT !.action = a].at = "tell"
    BY <1>0 DEF At, Process
  <2>2. e.kind = "outcome_invalidated"
    BY <1>0 DEF Kinds, Record
  <2>3. CASE Recorded(e, At("explore"))
    <3> HIDE DEF e
    <3> QED
      BY <1>00, <1>16, <2>1, <2>2, <2>3, UntriedRecorded DEF Standing, Tries
  <2>4. CASE journal' = journal /\ p'.at \in {"explore", "tell"}
    BY <1>00, <1>16, <2>4, UntriedMove DEF Standing
  <2> QED
    BY <1>16, <2>1, <2>3, <2>4 DEF Standing
<1>17. CASE BeginTest
  <2>1. PICK a \in Actions : Begins([At("test") EXCEPT !.action = a])
    BY <1>17 DEF BeginTest
  <2>2. [At("test") EXCEPT !.action = a] \in Process /\ [At("test") EXCEPT !.action = a].at = "test"
    BY <1>0 DEF At, Process, Stages, Trying, Settings
  <2> QED
    BY <1>00, <1>12, <1>17, <2>1, <2>2 DEF BeginTest
<1>18. CASE Test
  <2>1. [At("explore") EXCEPT !.action = None, !.n = None].at = "explore"
    BY <1>0 DEF At, Process
  <2>2. \A ok \in BOOLEAN : Result("test", ok).kind = "test"
    BY <1>18, ResultType DEF Test, Kinds, Typed, Handy
  <2> QED
    BY <1>00, <1>18, <2>1, <2>2, UntriedRecorded DEF Test, Tries
<1>19. CASE ExploreEnd
  <2>1. At("champion").at = "champion"
    BY <1>0 DEF At, Process
  <2> QED
    BY <1>0, <1>00, <1>19, <2>1, UntriedRecorded DEF ExploreEnd, Kinds, Tries
<1>20. CASE Explored
  <2>1. p'.at = "champion"
    BY <1>0, <1>20 DEF Explored, At, Process
  <2> QED
    BY <1>20, <1>00, <2>1, UntriedMove DEF Explored
<1>21. CASE Champion
  <2>1. p'.at \in {"qualify", "finish"}
    BY <1>0, <1>21 DEF Champion, At, Process
  <2> QED
    BY <1>21, <1>00, <2>1, UntriedMove DEF Champion
<1>22. CASE Qualify
  <2>0. /\ Judging.at \in {"own", "judge"} /\ Judging.action = p.action /\ Kept.at = "finish"
        /\ (Judging.at = "own" => id \in OwnEvaluator)
    BY <1>0, Settle
  <2>1. CASE TrialOpen /\ p' = Judging /\ journal' = journal
    <3>1. LastTrial(id) # 0 /\ journal[LastTrial(id)].action = p.action
      BY <2>1 DEF TrialOpen, LastSeq, LastTrial, Mine
    <3>2. TriedAt(Judging)
      BY <2>0, <3>1 DEF TriedAt
    <3> QED
      BY <1>22, <2>1, <3>2, TriedMove DEF Qualify
  <2>2. CASE p' = Kept /\ journal' = journal
    BY <1>00, <1>22, <2>0, <2>2, UntriedMove DEF Qualify
  <2>3. CASE Recorded(Entry("qualify_start"), Judging)
    BY <1>22, <2>3, TriedStart DEF Qualify
  <2> QED
    BY <1>22, <2>1, <2>2, <2>3 DEF Qualify
<1>23. ASSUME NEW s \in {"answer", "runs"}, Begins(At(s)), id' = id, NEW r \in {"own", "judge"},
              p.at = r, s = "answer" => r = "own", s = "runs" => Cardinality(Seen(id)) < Pairs
       PROVE  Tried'
  <2> DEFINE n == Cardinality(Mine({"attempt"}))
             q == [At(s) EXCEPT !.n = n]
  <2>1. At(s) \in Process /\ At(s).at = s /\ q.at = s /\ q.action = p.action
    BY <1>0 DEF At, Process, Stages, Trying
  <2> HIDE DEF q
  <2>2. TriedAt(q)
    BY <1>0, <1>23, <2>1 DEF TriedAt
  <2>3. TriedAt([At(s) EXCEPT !.n = n])
    BY <2>2 DEF q
  <2> QED
    BY <1>23, <2>1, <2>3, TriedBegins
<1>24. CASE AskAdapter
  BY <1>23, <1>24 DEF AskAdapter
<1>25. CASE AdapterAnswers
  <2>1. PICK ok \in BOOLEAN : Verdict(ok)
    BY <1>25 DEF AdapterAnswers
  <2> QED
    BY <1>25, <2>1, TriedVerdict DEF AdapterAnswers
<1>26. CASE Judge
  <2>0. Triplets = Seen(id)
    BY DEF Triplets, Seen, Mine, LastSeq, LastTrial
  <2>1. CASE Verdict(FALSE)
    BY <1>26, <2>1, TriedVerdict DEF Judge
  <2>2. ASSUME NEW ok \in BOOLEAN, Verdict(ok), \A k \in Triplets : journal[k].ok,
               Cardinality(Triplets) >= Pairs
        PROVE  Tried'
    BY <1>26, <2>0, <2>2, TriedVerdict DEF Judge
  <2>3. CASE Begins(At("runs")) /\ Cardinality(Triplets) < Pairs
    BY <1>23, <1>26, <2>0, <2>3 DEF Judge
  <2> QED
    BY <1>26, <2>1, <2>2, <2>3 DEF Judge
<1>27. CASE TripletRuns
  <2>1. At("triplet").at = "triplet" /\ At("triplet").action = p.action
    BY <1>0 DEF At, Process
  <2>2. Result("triplet_run", FALSE).kind = "triplet_run"
    BY ResultType DEF Kinds
  <2>3. TriedAt(At("triplet"))
    BY <1>0, <1>27, <2>1 DEF TripletRuns, TriedAt
  <2> QED
    BY <1>27, <2>1, <2>2, <2>3, TriedRecorded DEF TripletRuns, Tries
<1>28. CASE TripletDone
  BY <1>28, TriedTriplet
<1>29. CASE Refused
  <2>1. Kept.at = "finish"
    BY <1>0, Settle
  <2> QED
    BY <1>0, <1>00, <1>29, <2>1, UntriedRecorded DEF Refused, Kinds, Tries
<1>30. CASE Apply
  <2>1. p'.at = "applied" /\ p'.action = p.action
    BY <1>0, <1>30 DEF Apply, At, Process
  <2>2. TriedAt(p')
    BY <1>0, <1>30, <2>1 DEF Apply, TriedAt
  <2> QED
    BY <1>30, <2>2, TriedMove DEF Apply
<1>31. CASE RecordActivation
  <2> DEFINE e == [Entry("activate") EXCEPT !.previous = p.previous]
  <2>1. /\ e.kind = "activate" /\ e.id = id /\ e.action = p.action
        /\ Entry("activate").id = id /\ Entry("activate").action = p.action
    BY <1>0, EntryType DEF Kinds, Record
  <2>2. Recorded(e, At("envelope")) /\ id' = id /\ p.at = "applied"
    BY <1>31 DEF RecordActivation
  <2>3. At("envelope").at = "envelope"
    BY <1>0 DEF At, Process
  <2> HIDE DEF e
  <2>4. CASE journal' = journal /\ p' = Off
    BY <1>000, <2>2, <2>4, UntriedMove
  <2>5. CASE journal' = Append(journal, e) /\ p' = At("envelope")
    <3>1. Backed(e.id, Len(journal) + 1, e.action)
      BY <1>0, <2>1, <2>2 DEF TriedAt
    <3>2. EvidenceFirst'
      BY <2>5, <3>1, EvidenceAppend DEF Tried
    <3>3. \A i : /\ LastTrial(i)' = LastTrial(i) /\ Seen(i)' = Seen(i)
                 /\ LastTrial(i) # 0 => journal'[LastTrial(i)] = journal[LastTrial(i)]
                 /\ \A j \in Seen(i) : journal'[j] = journal[j]
      BY <2>1, <2>5, SeenAppend
    <3>4. Tallied'
      BY <3>3 DEF Tried, Tallied
    <3>5. TriedAt(p)'
      BY <2>3, <2>5 DEF TriedAt
    <3> QED
      BY <3>2, <3>4, <3>5 DEF Tried
  <2> QED
    BY <2>2, <2>4, <2>5 DEF Recorded
<1>32. CASE WriteEnvelope
  <2>1. p'.at = "recheck"
    BY <1>0, <1>32 DEF WriteEnvelope, At, Process
  <2> QED
    BY <1>32, <1>00, <2>1, UntriedMove DEF WriteEnvelope
<1>33. CASE Recheck
  <2> DEFINE ok == setting = p.action
             q == [At("rerun") EXCEPT !.ok = ok]
  <2>1. ok \in BOOLEAN
    OBVIOUS
  <2>2. Begins(q) /\ id' = id
    BY <1>33 DEF Recheck
  <2> HIDE DEF ok
  <2>3. q \in Process /\ q.at = "rerun"
    BY <1>0, <2>1 DEF At, Process, Stages
  <2> HIDE DEF q
  <2> QED
    BY <1>00, <1>12, <2>2, <2>3
<1>34. CASE Rechecked
  <2>1. PICK ok \in BOOLEAN :
          Recorded(Result("recheck", ok),
                   [At(IF ok THEN "finish" ELSE "undo") EXCEPT !.n = None, !.ok = FALSE])
    BY <1>0, <1>34 DEF Rechecked, Process
  <2> DEFINE s == IF ok THEN "finish" ELSE "undo"
             q == [At(s) EXCEPT !.n = None, !.ok = FALSE]
  <2>2. s \in {"finish", "undo"}
    OBVIOUS
  <2> HIDE DEF s
  <2>3. q.at = s
    BY <1>0, <2>2 DEF At, Process
  <2>4. Result("recheck", ok).kind = "recheck"
    BY ResultType DEF Kinds
  <2>5. Recorded(Result("recheck", ok), q)
    BY <2>1 DEF s
  <2> HIDE DEF q
  <2> QED
    BY <1>00, <1>34, <2>2, <2>3, <2>4, <2>5, UntriedRecorded DEF Rechecked, Tries
<1>35. CASE Finish
  <2>1. At("tell").at = "tell"
    BY <1>0 DEF At, Process
  <2> QED
    BY <1>0, <1>00, <1>35, <2>1, UntriedRecorded DEF Finish, Kinds, Tries
<1>36. CASE Tell
  BY <1>36, <1>000, UntriedMove DEF Tell
<1>37. CASE Die
  BY <1>37, <1>000, UntriedMove DEF Die
<1>38. CASE Reset
  BY <1>0, <1>38, TriedMove DEF Reset
<1>39. CASE LoseEnvelope
  BY <1>0, <1>39, TriedMove DEF LoseEnvelope
<1>40. CASE UNCHANGED vars
  BY <1>0, <1>40, TriedMove DEF vars
<1> QED
  BY <1>1, <1>2, <1>3, <1>4, <1>5, <1>6, <1>7, <1>8, <1>9, <1>10, <1>11, <1>13, <1>14, <1>15, <1>16,
     <1>17, <1>18, <1>19, <1>20, <1>21, <1>22, <1>24, <1>25, <1>26, <1>27, <1>28, <1>29, <1>30,
     <1>31, <1>32, <1>33, <1>34, <1>35, <1>36, <1>37, <1>38, <1>39, <1>40 DEF Next

-----------------------------------------------------------------------------
(* What the adapter runs with *)

\* A process that does not run has nothing under way.
LEMMA OffKnown ==
  ASSUME Known(p), p.at # "applied"
  PROVE  Known(Off) /\ Held(Off)
  BY DEF Known, Held, Off, Opening, Referring, Clean, Trying

\* The process goes on among the stages that know as much.
LEMMA KnownKept ==
  ASSUME Known(p), p.at # "applied", NEW q,
         \/ p.at \in Opening /\ q.at \in Opening
         \/ p.at \in Referring /\ q.at \in Referring
         \/ p.at \in Clean /\ q.at \in Clean
  PROVE  Known(q)
  BY DEF Known, Opening, Referring, Clean, Trying

\* Or it ends with nothing applied.
LEMMA KnownEnd ==
  ASSUME Known(p), p.at \in Clean, NEW q, q.at \in {"finish", "tell"}, q.action = Default
  PROVE  Known(q)
  BY DEF Known, Opening, Referring, Clean, Trying

\* It writes nothing.
LEMMA ClearMove ==
  ASSUME Typed, Owned, Clear, journal' = journal, NEW q, p' = q, Known(q),
         UNCHANGED <<setting, active, id, told>>
  PROVE  Clear'
<1>1. Known(p)'
  <2>1. InForce(active.id, setting)' <=> InForce(active.id, setting)
    <3>1. LastAct(active.id)' = LastAct(active.id) /\ LastUndo(active.id)' = LastUndo(active.id)
      BY DEF LastAct, LastUndo, Places
    <3> QED
      BY <3>1 DEF InForce
  <2>2. InForce(id, setting)' <=> InForce(id, setting)
    <3>1. LastAct(id)' = LastAct(id) /\ LastUndo(id)' = LastUndo(id)
      BY DEF LastAct, LastUndo, Places
    <3> QED
      BY <3>1 DEF InForce
  <2> QED
    BY <2>1, <2>2 DEF Known
<1>2. Plain' /\ (told' # None => setting' = told')
  BY DEF Clear, Plain
<1> QED
  BY <1>1, <1>2 DEF Clear

\* It writes a record that neither activates, ends nor undoes.
LEMMA ClearRecorded ==
  ASSUME Typed, Owned, Clear, p.at # "applied", NEW e, e.kind \notin Special, NEW q,
         Recorded(e, q), Known(q), UNCHANGED <<setting, active, id, told>>
  PROVE  Clear'
<1>1. CASE journal' = journal /\ p' = Off
  BY <1>1, OffKnown, ClearMove DEF Clear
<1>2. CASE journal' = Append(journal, e) /\ p' = q
  <2>1. \A i, a : InForce(i, a)' <=> InForce(i, a)
    BY <1>2, LastsKept DEF Owned
  <2>2. PICK i, a : i = active.id /\ a = setting
    OBVIOUS
  <2>3. InForce(active.id, setting)' <=> InForce(active.id, setting)
    <3>1. InForce(i, a)' <=> InForce(i, a)
      BY <2>1
    <3> QED
      BY <2>2, <3>1 DEF InForce, LastAct, LastUndo, Places
  <2>4. InForce(id, setting)' <=> InForce(id, setting)
    <3>1. \A j : InForce(j, a)' <=> InForce(j, a)
      BY <2>1
    <3> QED
      BY <2>2, <3>1 DEF InForce, LastAct, LastUndo, Places
  <2>5. Known(p)'
    BY <1>2, <2>3, <2>4 DEF Known
  <2>6. e.kind # "activate"
    BY DEF Special
  <2>7. Plain'
    BY <1>2, <2>6, PlacesAppend, PlacesType DEF Plain, Clear
  <2>8. told' # None => setting' = told'
    BY DEF Clear
  <2> QED
    BY <2>5, <2>7, <2>8 DEF Clear
<1> QED
  BY <1>1, <1>2 DEF Recorded

\* Where the setting is to be the action in hand.
Under == {"applied", "envelope", "rerun"}

\* The process moves on to where nothing is under way.
LEMMA CoveredMove ==
  ASSUME Typed, Owned, Covered, journal' = journal, UNCHANGED <<setting, active, id, told, uncovered>>,
         NEW q, p' = q, q.at \notin Under, p.at # "off", Clear => Known(q)
  PROVE  Covered'
<1>1. Held(p)' /\ told' = None
  BY DEF Held, Under, Covered
<1>2. ~uncovered' => Clear'
  BY ClearMove DEF Covered
<1> QED
  BY <1>1, <1>2 DEF Covered

\* It records something first.
LEMMA CoveredRecorded ==
  ASSUME Typed, Owned, Covered, NEW e, e.kind \notin Special, NEW q, Recorded(e, q),
         UNCHANGED <<setting, active, id, told, uncovered>>,
         q.at \notin Under, p.at \notin {"off", "applied"}, Clear => Known(q)
  PROVE  Covered'
<1>1. p'.at \notin Under
  BY DEF Recorded, Off, Under
<1>2. Held(p)' /\ told' = None
  BY <1>1 DEF Held, Under, Covered
<1>3. ~uncovered' => Clear'
  BY ClearRecorded DEF Covered
<1> QED
  BY <1>2, <1>3 DEF Covered

\* A measurement begins.
LEMMA CoveredBegins ==
  ASSUME Typed, Owned, Covered, NEW q \in Process, Begins(q),
         UNCHANGED <<setting, active, id, told, uncovered>>,
         q.at \notin Under, p.at \notin {"off", "applied"},
         \/ p.at \in Referring /\ q.at \in Referring
         \/ p.at \in Clean /\ q.at \in Clean
  PROVE  Covered'
<1>1. Entry("attempt") \in Record /\ Entry("attempt").kind = "attempt"
  BY EntryType DEF Kinds
<1> DEFINE n == Cardinality(Mine({"attempt"}))
           e == [Entry("attempt") EXCEPT !.action = q.action, !.n = n]
           r == [q EXCEPT !.n = n]
<1> HIDE DEF n
<1>2. e.kind = "attempt" /\ r.at = q.at
  BY <1>1 DEF Record, Process
<1>3. Recorded(e, r)
  BY DEF Begins, n
<1> HIDE DEF e, r
<1>4. Clear => Known(r)
  BY <1>2, KnownKept DEF Clear
<1> QED
  BY <1>2, <1>3, <1>4, CoveredRecorded DEF Special, Undone

\* A verdict is recorded where nothing is applied.
LEMMA CoveredVerdict ==
  ASSUME Typed, Owned, Covered, NEW ok \in BOOLEAN, Verdict(ok), p.at \in {"answer", "judge"},
         UNCHANGED <<setting, active, id, told, uncovered>>
  PROVE  Covered'
<1> DEFINE q == IF ok THEN [At("apply") EXCEPT !.n = None] ELSE Kept
<1>1. p \in Process
  BY DEF Typed, Handy
<1>2. [At("apply") EXCEPT !.n = None].at = "apply" /\ Kept.at = "finish" /\ Kept.action = Default
  BY <1>1, Settle DEF At, Process
<1>3. q.at = "apply" \/ (q.at = "finish" /\ q.action = Default)
  BY <1>2
<1>4. Result("qualify_end", ok).kind = "qualify_end"
  BY ResultType DEF Kinds
<1>5. Recorded(Result("qualify_end", ok), q)
  BY DEF Verdict
<1> HIDE DEF q
<1>6. p.at \in Clean /\ "apply" \in Clean /\ q.at \notin Under
  BY <1>3 DEF Clean, Trying, Under
<1>7. Clear => Known(q)
  BY <1>3, <1>6, KnownKept, KnownEnd DEF Clear, Clean, Trying
<1> QED
  BY <1>4, <1>5, <1>6, <1>7, CoveredRecorded DEF Special, Undone

\* A run starts: where nothing tells of the setting, it is uncovered.
LEMMA CoveredStart ==
  ASSUME Typed, Owned, Covered, Start
  PROVE  Covered'
<1>1. /\ p'.at = "open" /\ told' = None /\ p.at = "off"
      /\ UNCHANGED <<journal, setting, active>>
  BY DEF Start, Off
<1>2. Held(p)'
  BY <1>1 DEF Held
<1>3. ASSUME ~uncovered' PROVE Clear'
  <2>0. uncovered \in BOOLEAN /\ uncovered' = (uncovered \/ Unknown(id'))
    BY DEF Typed, Start
  <2>1. ~uncovered /\ ~Unknown(id')
    BY <1>3, <2>0
  <2>2. Clear
    BY <2>1 DEF Covered
  <2>3. PICK i, a : i = id' /\ a = setting
    OBVIOUS
  <2>4. setting = Default \/ (active # None /\ active.action = setting) \/ InForce(i, a)
    <3>1. LastAct(i) \in Nat /\ LastUndo(i) \in Nat
      BY LastsType
    <3> QED
      BY <2>1, <2>3, <3>1 DEF Unknown, InForce, LastAct, LastUndo
  <2>5. \A j, b : InForce(j, b)' <=> InForce(j, b)
    BY <1>1, LastsKept DEF Owned
  <2>6. InForce(i, a)' => InForce(id, setting)'
    BY <1>1, <2>3 DEF InForce, LastAct, LastUndo, Places
  <2>7. InForce(active.id, setting) => InForce(active.id, setting)'
    BY <1>1 DEF InForce, LastAct, LastUndo, Places
  <2>8. Known(p)'
    BY <1>1, <2>2, <2>4, <2>5, <2>6, <2>7 DEF Known, Clear, Opening, Referring, Clean, Trying
  <2>9. Plain'
    BY <1>1, <2>2 DEF Plain, Clear
  <2> QED
    BY <1>1, <2>8, <2>9 DEF Clear
<1> QED
  BY <1>1, <1>2, <1>3 DEF Covered

\* The adapter goes back to the setting before.
LEMMA CoveredRevert ==
  ASSUME Typed, Owned, Covered, Revert
  PROVE  Covered'
<1>0. p \in Process
  BY DEF Typed, Handy
<1>1. /\ p'.at = "setaside" /\ p.at = "revert" /\ setting' = p.previous
      /\ UNCHANGED <<journal, active, id, told, uncovered>>
  BY <1>0 DEF Revert, At, Process
<1>2. Held(p)' /\ told' = None
  BY <1>1 DEF Held, Covered
<1>3. ASSUME ~uncovered' PROVE Clear'
  <2>1. Clear
    BY <1>1, <1>3 DEF Covered
  <2>2. setting' = Default
    BY <1>1, <2>1 DEF Clear, Known
  <2>3. active # None => active.action # Default
    <3>1. active # None => active.action \in Actions
      BY DEF Typed
    <3> QED
      BY <3>1, NoneAssumption
  <2>4. Known(p)'
    BY <1>1, <2>2, <2>3 DEF Known, Opening, Referring, Clean, Trying
  <2>5. Plain'
    BY <1>1, <2>1 DEF Plain, Clear
  <2> QED
    BY <1>2, <2>4, <2>5 DEF Clear
<1> QED
  BY <1>2, <1>3 DEF Covered

\* The envelope is set aside, or lost.
LEMMA CoveredWithout ==
  ASSUME Typed, Owned, Covered, active' = None, UNCHANGED <<journal, setting, id, told, uncovered>>,
         \/ p.at = "setaside" /\ p'.at = "undone"
         \/ p.at = "off" /\ p' = p
  PROVE  Covered'
<1>1. Held(p)' /\ (p'.at # "off" => told' = None)
  BY DEF Held, Covered
<1>2. ASSUME ~uncovered' PROVE Clear'
  <2>1. Clear
    BY <1>2 DEF Covered
  <2>2. Known(p)'
    BY <2>1 DEF Known, Clear, Opening, Referring, Clean, Trying
  <2>3. Plain' /\ (told' # None => setting' = told')
    BY <2>1 DEF Plain, Clear
  <2> QED
    BY <2>2, <2>3 DEF Clear
<1> QED
  BY <1>1, <1>2 DEF Covered

\* A process ends: what it had under way nothing tells of.
LEMMA CoveredDie ==
  ASSUME Typed, Owned, Covered, Die
  PROVE  Covered'
<1>1. /\ p' = Off /\ p.at # "off" /\ UNCHANGED <<journal, setting, active, id, told>>
      /\ uncovered' = (uncovered \/ p.at = "applied")
  BY DEF Die
<1>2. Held(p)' /\ told' = None
  BY <1>1 DEF Held, Off, Covered
<1>3. ASSUME ~uncovered' PROVE Clear'
  <2>0. uncovered \in BOOLEAN
    BY DEF Typed
  <2>1. ~uncovered /\ p.at # "applied"
    BY <1>1, <1>3, <2>0
  <2>2. Clear
    BY <2>1 DEF Covered
  <2> QED
    BY <1>1, <2>1, <2>2, OffKnown, ClearMove DEF Clear
<1> QED
  BY <1>2, <1>3 DEF Covered

\* The setting is taken back by someone else.
LEMMA CoveredReset ==
  ASSUME Typed, Owned, Covered, Reset
  PROVE  Covered'
<1>1. /\ p.at = "off" /\ setting' = Default /\ told' = None
      /\ UNCHANGED <<journal, active, id, p, uncovered>>
  BY DEF Reset
<1>2. Held(p)'
  BY <1>1 DEF Held
<1>3. ASSUME ~uncovered' PROVE Clear'
  <2>1. Clear
    BY <1>1, <1>3 DEF Covered
  <2>2. active # None => active.action # Default
    <3>1. active # None => active.action \in Actions
      BY DEF Typed
    <3> QED
      BY <3>1, NoneAssumption
  <2>3. Known(p)'
    BY <1>1, <2>2 DEF Known, Opening, Referring, Clean, Trying
  <2>4. Plain'
    BY <1>1, <2>1 DEF Plain, Clear
  <2> QED
    BY <1>1, <2>3, <2>4 DEF Clear
<1> QED
  BY <1>1, <1>2, <1>3 DEF Covered

\* What was applied is undone and recorded so.
LEMMA CoveredUndone ==
  ASSUME Typed, Owned, Covered, NEW e, e.kind \in Undone, e.id = id, NEW q, Recorded(e, q),
         UNCHANGED <<setting, active, id, told, uncovered>>, q.at \notin Under,
         p.at \notin {"off", "applied"},
         active # None => active.id # id,
         Clear => \/ setting = Default /\ q.at \in {"reference", "explore"}
                  \/ setting = Default /\ q.at \in {"finish", "tell"} /\ q.action = Default
                  \/ q = Off
  PROVE  Covered'
<1>1. p'.at \notin Under
  BY DEF Recorded, Off, Under
<1>2. Held(p)' /\ told' = None
  BY <1>1 DEF Held, Under, Covered
<1>3. ASSUME ~uncovered' PROVE Clear'
  <2>1. Clear
    BY <1>3 DEF Covered
  <2>2. CASE journal' = journal /\ p' = Off
    BY <2>1, <2>2, OffKnown, ClearMove DEF Clear
  <2>3. CASE journal' = Append(journal, e) /\ p' = q
    <3>1. e.kind # "activate"
      BY DEF Undone
    <3>2. Plain'
      BY <2>1, <2>3, <3>1, PlacesAppend, PlacesType DEF Plain, Clear
    <3>3. PICK i, a : i = active.id /\ a = setting
      OBVIOUS
    <3>4. active # None /\ InForce(i, a) => InForce(i, a)'
      <4> SUFFICES ASSUME active # None, InForce(i, a) PROVE InForce(i, a)'
        OBVIOUS
      <4>1. i # e.id
        BY <3>3
      <4>2. LastAct(i)' = LastAct(i) /\ LastUndo(i)' = LastUndo(i)
        BY <2>3, <3>1, <4>1, LastsAppend
      <4>3. LastAct(i) # 0 => journal'[LastAct(i)] = journal[LastAct(i)]
        BY <2>3, LastsAppend
      <4>4. LastAct(i) # 0
        BY LastsType DEF InForce
      <4> QED
        BY <4>2, <4>3, <4>4 DEF InForce
    <3>5. active # None /\ InForce(active.id, setting) => InForce(active.id, setting)'
      BY <3>3, <3>4 DEF InForce, LastAct, LastUndo, Places
    <3>6. Known(p)'
      BY <2>1, <2>3, <3>5 DEF Known, Clear, Opening, Referring, Clean, Trying, Off
    <3> QED
      BY <1>2, <3>2, <3>6 DEF Clear
  <2> QED
    BY <2>2, <2>3 DEF Recorded
<1> QED
  BY <1>2, <1>3 DEF Covered

\* The process undid what another identity, or its own, applied.
LEMMA CoveredReverted ==
  ASSUME Typed, Owned, Covered, Reverted
  PROVE  Covered'
<1>0. /\ p \in Process /\ p.at = "undone" /\ active = None
      /\ UNCHANGED <<setting, active, id, told, uncovered>>
      /\ \A kind \in Kinds : Entry(kind) \in Record /\ Entry(kind).kind = kind /\ Entry(kind).id = id
  BY EntryType DEF Reverted, Typed, Handy, Owned, OwnedAt
<1>1. PICK e, q :
        /\ Recorded(e, q) /\ e.kind \in Undone /\ e.id = id
        /\ q.at = "reference" \/ (q.at \in {"finish", "tell"} /\ q.action = Default)
  <2>1. /\ [At("reference") EXCEPT !.previous = None].at = "reference"
        /\ \A s \in {"finish", "tell"} :
             /\ [At(s) EXCEPT !.action = Default, !.previous = None].at = s
             /\ [At(s) EXCEPT !.action = Default, !.previous = None].action = Default
    BY <1>0 DEF At, Process
  <2>2. /\ [Entry("rollback") EXCEPT !.previous = p.previous].kind = "rollback"
        /\ [Entry("rollback") EXCEPT !.previous = p.previous].id = id
        /\ Entry("identity_rollback").kind = "identity_rollback"
        /\ Entry("identity_rollback").id = id
    BY <1>0 DEF Kinds, Record
  <2>3. CASE Recorded(Entry("identity_rollback"), [At("reference") EXCEPT !.previous = None])
    BY <2>1, <2>2, <2>3 DEF Undone
  <2>4. CASE Recorded([Entry("rollback") EXCEPT !.previous = p.previous],
                      [At(IF p.cmd = "cycle" THEN "finish" ELSE "tell")
                          EXCEPT !.action = Default, !.previous = None])
    BY <2>1, <2>2, <2>4 DEF Undone
  <2> QED
    BY <2>3, <2>4 DEF Reverted
<1>2. Clear => setting = Default
  BY <1>0 DEF Clear, Known, Clean
<1> QED
  BY <1>0, <1>1, <1>2, CoveredUndone DEF Under

\* Nothing of this identity was active.
LEMMA CoveredNothing ==
  ASSUME Typed, Owned, Covered, NothingActive
  PROVE  Covered'
<1>0. /\ p.at = "undo" /\ (active # None => active.id # id) /\ p.cmd # "cycle"
      /\ UNCHANGED <<setting, active, id, told, uncovered>>
  BY DEF NothingActive, Owns, Owned, OwnedAt
<1>1. Recorded(Entry("rollback"), Off)
  BY <1>0 DEF NothingActive
<1>2. Entry("rollback").kind = "rollback" /\ Entry("rollback").id = id
  BY EntryType DEF Kinds
<1>3. Entry("rollback").kind \in Undone /\ Off.at \notin Under
  BY <1>2 DEF Undone, Off, Under
<1> QED
  BY <1>0, <1>1, <1>2, <1>3, CoveredUndone

\* An activation without its outcome is gone on with, or there is none.
LEMMA CoveredResume ==
  ASSUME Typed, Owned, Covered, Resume
  PROVE  Covered'
<1> DEFINE k == OpenActivation(Undone \cup {"outcome"})
<1>0. /\ p \in Process /\ p.at = "reference"
      /\ UNCHANGED <<journal, setting, id, told, uncovered>>
  BY DEF Resume, Typed, Handy
<1>1. CASE k = 0
  <2>1. p'.at = "standing" /\ active' = active
    BY <1>0, <1>1 DEF Resume, At, Process
  <2>2. Clear => Known(p')
    BY <1>0, <2>1, KnownKept DEF Clear, Referring
  <2> QED
    BY <1>0, <2>1, <2>2, CoveredMove DEF Under
<1>2. CASE k # 0
  <2>1. /\ p'.at = "recheck"
        /\ active' = IF Owns THEN active ELSE Envelope(k)
    BY <1>0, <1>2 DEF Resume, At, Process
  <2>2. CASE Owns
    <3>1. active' = active
      BY <2>1, <2>2
    <3>2. Clear => Known(p')
      BY <1>0, <2>1, KnownKept DEF Clear, Referring
    <3> QED
      BY <1>0, <2>1, <3>1, <3>2, CoveredMove DEF Under
  <2>3. CASE ~Owns
    <3>1. active' = [id |-> id, action |-> journal[k].action, previous |-> journal[k].previous]
      BY <2>1, <2>3 DEF Envelope
    <3>2. k = LastAct(id) /\ LastAct(id) > LastSeq(Undone \cup {"outcome"})
      BY <1>2 DEF OpenActivation, LastSeq, LastAct, Mine
    <3>3. LastAct(id) > LastUndo(id)
      <4> DEFINE S == Places(id, Undone \cup {"outcome"})
      <4>1. Len(journal) \in Nat /\ S \in SUBSET (1..Len(journal)) /\ Places(id, Undone) \in SUBSET S
        BY PlacesType DEF Places
      <4> HIDE DEF S
      <4>2. LastOf(Places(id, Undone)) <= LastOf(S) /\ LastOf(S) \in 0..Len(journal)
        BY <4>1, LastMonotone, LastLine
      <4>3. LastUndo(id) <= LastSeq(Undone \cup {"outcome"}) /\ LastSeq(Undone \cup {"outcome"}) \in Nat
        BY <4>1, <4>2 DEF S, LastUndo, LastSeq, Mine
      <4>4. LastAct(id) \in Nat /\ LastUndo(id) \in Nat
        BY LastsType
      <4> QED
        BY <3>2, <4>3, <4>4
    <3> HIDE DEF k
    <3>4. InForce(id, journal[k].action)
      BY <3>2, <3>3 DEF InForce
    <3>5. LastAct(id) # 0 => LastAct(id) \in DOMAIN journal /\ journal[LastAct(id)].kind = "activate"
      BY LastsType DEF Places
    <3>6. k \in DOMAIN journal /\ journal[k].kind = "activate"
      BY <1>2, <3>2, <3>5
    <3>7. Held(p)' /\ told' = None
      BY <1>0, <2>1 DEF Held, Covered
    <3>8. ASSUME ~uncovered' PROVE Clear'
      <4>1. Clear
        BY <1>0, <3>8 DEF Covered
      <4>2. Plain'
        BY <1>0, <3>1, <3>6, <4>1 DEF Plain, Clear
      <4>3. active'.id = id /\ active'.action = journal[k].action
        BY <3>1
      <4>4. PICK i, a : i = id /\ a = setting
        OBVIOUS
      <4>5. InForce(i, a) => InForce(i, a)'
        BY <1>0, LastsKept DEF Owned
      <4>6. active'.action = setting => InForce(i, a)
        BY <3>4, <4>3, <4>4
      <4>7. InForce(i, a)' => InForce(active.id, setting)' /\ InForce(id, setting)'
        BY <1>0, <4>3, <4>4 DEF InForce, LastAct, LastUndo, Places
      <4>8. setting = Default \/ InForce(i, a)
        BY <1>0, <4>1, <4>4 DEF Clear, Known, Referring
      <4>9. Known(p)'
        BY <1>0, <2>1, <4>5, <4>6, <4>7, <4>8 DEF Known, Opening, Referring, Clean, Trying
      <4> QED
        BY <3>7, <4>2, <4>9 DEF Clear
    <3> QED
      BY <3>7, <3>8 DEF Covered
  <2> QED
    BY <2>2, <2>3
<1> QED
  BY <1>1, <1>2

\* An outcome that stands tells the setting; without one, or when it does not
\* stand, nothing is applied.
LEMMA CoveredStanding ==
  ASSUME Typed, Owned, Covered, Standing
  PROVE  Covered'
<1> DEFINE k == StandingOutcome
           e == [Entry("outcome_invalidated") EXCEPT !.action = journal[k].action]
<1>0. /\ p \in Process /\ p.at = "standing" /\ OwnedAt(p) /\ Answered /\ id \in Identities
      /\ UNCHANGED <<setting, active, id, told, uncovered>>
  BY DEF Standing, Typed, Handy, Owned
<1>1. k = IF LastOut(id) > LastUndo(id) THEN LastOut(id) ELSE 0
  BY DEF StandingOutcome, LastSeq, LastOut, LastUndo, Mine
<1>2. /\ LastAct(id) \in Nat /\ LastUndo(id) \in Nat /\ LastOut(id) \in Nat
  BY LastsType
<1>3. LastAct(id) <= LastUndo(id) \/ LastAct(id) < LastOut(id)
  BY <1>0 DEF OwnedAt
<1>4. Clear => setting = Default \/ InForce(id, setting)
  BY <1>0 DEF Clear, Known, Referring
<1>5. At("explore").at = "explore" /\ \A a : /\ [At("tell") EXCEPT !.action = a].at = "tell"
                                            /\ [At("tell") EXCEPT !.action = a].action = a
  BY <1>0 DEF At, Process
<1>6. e.kind = "outcome_invalidated" /\ e.id = id
  BY EntryType DEF Kinds, Record
<1>7. k # 0 /\ InForce(id, setting) => journal[k].action = setting
  BY <1>0, <1>1, <1>2, <1>3 DEF InForce, Answered
<1>8. k = 0 => ~InForce(id, setting)
  BY <1>1, <1>2, <1>3 DEF InForce
<1> HIDE DEF k
<1>9. CASE k = 0 /\ p' = At("explore") /\ journal' = journal
  <2>1. Clear => Known(At("explore"))
    BY <1>0, <1>4, <1>5, <1>8, <1>9 DEF Clear, Known, Opening, Referring, Clean, Trying
  <2> QED
    BY <1>0, <1>5, <1>9, <2>1, CoveredMove DEF Under
<1>10. CASE k # 0 /\ Stands(k) /\ p' = [At("tell") EXCEPT !.action = journal[k].action] /\ journal' = journal
  <2>1. p'.at = "tell" /\ p'.action = journal[k].action
    BY <1>5, <1>10
  <2>2. Clear => setting = journal[k].action
    BY <1>4, <1>7, <1>10 DEF Stands
  <2>3. Clear => Known(p')
    BY <1>0, <2>1, <2>2 DEF Clear, Known, Opening, Referring, Clean, Trying
  <2> QED
    BY <1>0, <1>10, <2>1, <2>3, CoveredMove DEF Under
<1>11. CASE k # 0 /\ ~Stands(k) /\ Recorded(e, At("explore"))
  <2>1. Clear => setting = Default
    BY <1>4, <1>7, <1>11 DEF Stands
  <2> HIDE DEF e
  <2>2. CASE active = None
    BY <1>0, <1>5, <1>6, <1>11, <2>1, <2>2, CoveredUndone DEF Undone, Under
  <2>3. CASE active # None
    <3>1. active.id = id
      BY <1>0, <2>3 DEF OwnedAt
    <3>2. p'.at \notin Under /\ p'.at \in {"off", "explore"}
      BY <1>5, <1>11 DEF Recorded, Off, Under
    <3>3. Held(p)' /\ told' = None
      BY <1>0, <3>2 DEF Held, Under, Covered
    <3>4. ASSUME ~uncovered' PROVE Clear'
      <4>1. Clear
        BY <1>0, <3>4 DEF Covered
      <4>2. setting = Default
        BY <2>1, <4>1
      <4>3. active.action # Default
        <5>1. active.action \in Actions
          BY <2>3 DEF Typed
        <5> QED
          BY <5>1, NoneAssumption
      <4>4. Known(p)'
        BY <1>0, <3>2, <4>2, <4>3 DEF Known, Opening, Referring, Clean, Trying
      <4>5. e.kind # "activate"
        BY <1>6
      <4>6. Plain'
        <5>1. CASE journal' = journal
          BY <1>0, <4>1, <5>1 DEF Plain, Clear
        <5>2. CASE journal' = Append(journal, e)
          BY <1>0, <4>1, <4>5, <5>2, PlacesAppend, PlacesType DEF Plain, Clear
        <5> QED
          BY <1>11, <5>1, <5>2 DEF Recorded
      <4> QED
        BY <3>3, <4>4, <4>6 DEF Clear
    <3> QED
      BY <3>3, <3>4 DEF Covered
  <2> QED
    BY <2>2, <2>3
<1> QED
  BY <1>9, <1>10, <1>11 DEF Standing, k

\* An action is applied where nothing was.
LEMMA CoveredApply ==
  ASSUME Typed, Owned, Covered, Apply
  PROVE  Covered'
<1>0. p \in Process
  BY DEF Typed, Handy
<1>1. /\ p.at = "apply" /\ p'.at = "applied" /\ p'.action = p.action /\ p'.previous = setting
      /\ setting' = p.action /\ UNCHANGED <<journal, active, id, told, uncovered>>
  BY <1>0 DEF Apply, At, Process
<1>2. Held(p)' /\ told' = None
  BY <1>1 DEF Held, Covered
<1>3. ASSUME ~uncovered' PROVE Clear'
  <2>1. Clear
    BY <1>1, <1>3 DEF Covered
  <2>2. setting = Default
    BY <1>1, <2>1 DEF Clear, Known, Clean, Trying
  <2>3. Known(p)'
    BY <1>1, <2>2 DEF Known, Opening, Referring, Clean, Trying
  <2>4. Plain'
    BY <1>1, <2>1 DEF Plain, Clear
  <2> QED
    BY <1>2, <2>3, <2>4 DEF Clear
<1> QED
  BY <1>2, <1>3 DEF Covered

\* And recorded, or uncovered.
LEMMA CoveredActivation ==
  ASSUME Typed, Owned, Covered, RecordActivation
  PROVE  Covered'
<1> DEFINE e == [Entry("activate") EXCEPT !.previous = p.previous]
<1>0. /\ p \in Process /\ p.at = "applied" /\ OwnedAt(p)
      /\ UNCHANGED <<setting, active, id, told>> /\ Recorded(e, At("envelope"))
      /\ uncovered' = (uncovered \/ torn')
  BY DEF RecordActivation, Typed, Handy, Owned
<1>1. /\ e.kind = "activate" /\ e.id = id /\ e.action = p.action /\ e.previous = p.previous
      /\ At("envelope").at = "envelope" /\ At("envelope").action = p.action
      /\ At("envelope").previous = p.previous
  BY <1>0, EntryType DEF At, Process, Kinds, Record
<1> HIDE DEF e
<1>2. setting = p.action /\ told' = None
  BY <1>0 DEF Covered, Held
<1>3. p' = Off \/ p' = At("envelope")
  BY <1>0 DEF Recorded
<1>4. Held(p)'
  BY <1>0, <1>1, <1>2, <1>3 DEF Held, Off
<1>5. ASSUME ~uncovered' PROVE Clear'
  <2>0. uncovered \in BOOLEAN /\ torn \in BOOLEAN
    BY DEF Typed
  <2>1. Clear
    BY <1>0, <1>5, <2>0 DEF Covered
  <2>2. journal' = Append(journal, e) /\ p' = At("envelope")
    <3>1. ~torn'
      BY <1>0, <1>5, <2>0
    <3> QED
      BY <1>0, <3>1 DEF Recorded
  <2>3. p.previous = Default
    BY <1>0, <2>1 DEF Clear, Known
  <2>4. Plain'
    BY <1>0, <1>1, <2>1, <2>2, <2>3, PlacesAppend, PlacesType DEF Plain, Clear
  <2>5. active = None \/ active.id = id
    BY <1>0 DEF OwnedAt, Trying
  <2>6. PICK i, a : i = id /\ a = setting
    OBVIOUS
  <2>7. InForce(i, a)'
    <3>1. LastAct(i)' = Len(journal) + 1 /\ LastUndo(i)' = LastUndo(i) /\ journal'[Len(journal) + 1] = e
      BY <1>1, <2>2, <2>6, LastsAppend DEF Undone
    <3>2. Len(journal) \in Nat /\ LastUndo(i) \in 0..Len(journal)
      BY LastsType
    <3> QED
      BY <1>1, <1>2, <2>6, <3>1, <3>2 DEF InForce
  <2>8. active # None => InForce(active.id, setting)'
    BY <1>0, <2>5, <2>6, <2>7 DEF InForce, LastAct, LastUndo, Places
  <2>9. Known(p)'
    BY <1>0, <1>1, <2>2, <2>3, <2>8 DEF Known, Opening, Referring, Clean, Trying
  <2> QED
    BY <1>2, <2>4, <2>9 DEF Clear
<1> QED
  BY <1>2, <1>4, <1>5 DEF Covered

\* The envelope says the same.
LEMMA CoveredEnvelope ==
  ASSUME Typed, Owned, Covered, WriteEnvelope
  PROVE  Covered'
<1>0. /\ p \in Process /\ p.at = "envelope" /\ p'.at = "recheck" /\ OwnedAt(p)
      /\ active' = [id |-> id, action |-> p.action, previous |-> p.previous]
      /\ UNCHANGED <<journal, setting, id, told, uncovered>>
  BY DEF WriteEnvelope, At, Process, Typed, Handy, Owned
<1>1. Held(p)' /\ told' = None
  BY <1>0 DEF Held, Covered
<1>2. ASSUME ~uncovered' PROVE Clear'
  <2>1. Clear /\ setting = p.action
    BY <1>0, <1>2 DEF Covered, Held
  <2>2. p.previous = Default
    BY <1>0, <2>1 DEF Clear, Known
  <2>3. Plain'
    BY <1>0, <2>1, <2>2 DEF Plain, Clear
  <2>4. InForce(id, p.action)
    BY <1>0 DEF OwnedAt
  <2>5. active'.id = id
    BY <1>0
  <2>6. InForce(active.id, setting)' /\ InForce(id, setting)'
    BY <1>0, <2>1, <2>4, <2>5 DEF InForce, LastAct, LastUndo, Places
  <2>7. Known(p)'
    BY <1>0, <2>6 DEF Known, Opening, Referring, Clean, Trying
  <2> QED
    BY <1>1, <2>3, <2>7 DEF Clear
<1> QED
  BY <1>1, <1>2 DEF Covered

\* Whether the adapter reports the action.
LEMMA CoveredRecheck ==
  ASSUME Typed, Owned, Covered, Recheck
  PROVE  Covered'
<1> DEFINE ok == setting = p.action
           n == Cardinality(Mine({"attempt"}))
           q == [[At("rerun") EXCEPT !.ok = ok] EXCEPT !.n = n]
           e == [Entry("attempt") EXCEPT !.action = [At("rerun") EXCEPT !.ok = ok].action, !.n = n]
<1>0. /\ p \in Process /\ p.at = "recheck" /\ UNCHANGED <<setting, active, id, told, uncovered>>
      /\ Recorded(e, q)
  BY DEF Recheck, Typed, Handy, Begins
<1>1. e.kind = "attempt"
  BY EntryType DEF Kinds, Record
<1>2. ok \in BOOLEAN /\ (ok <=> setting = p.action)
  OBVIOUS
<1> HIDE DEF ok, n
<1>3. q.at = "rerun" /\ q.action = p.action /\ q.ok = ok
  BY <1>0, <1>2 DEF At, Process
<1> HIDE DEF e, q
<1>4. p' = Off \/ p' = q
  BY <1>0 DEF Recorded
<1>5. Held(p)' /\ told' = None
  BY <1>0, <1>2, <1>3, <1>4 DEF Held, Off, Covered
<1>6. ASSUME ~uncovered' PROVE Clear'
  <2>1. Clear
    BY <1>0, <1>6 DEF Covered
  <2>2. Known(q)
    BY <1>0, <1>3, <2>1, KnownKept DEF Clear, Referring
  <2> QED
    BY <1>0, <1>1, <2>1, <2>2, ClearRecorded DEF Special, Undone
<1> QED
  BY <1>5, <1>6 DEF Covered

\* The outcome is the action only where the adapter had it.
LEMMA CoveredRechecked ==
  ASSUME Typed, Owned, Covered, Rechecked
  PROVE  Covered'
<1>0. /\ p \in Process /\ p.at = "rerun" /\ UNCHANGED <<setting, active, id, told, uncovered>>
  BY DEF Rechecked, Typed, Handy
<1>1. PICK ok \in {p.ok, FALSE} :
        Recorded(Result("recheck", ok),
                 [At(IF ok THEN "finish" ELSE "undo") EXCEPT !.n = None, !.ok = FALSE])
  BY DEF Rechecked
<1> DEFINE s == IF ok THEN "finish" ELSE "undo"
           q == [At(s) EXCEPT !.n = None, !.ok = FALSE]
<1>2. ok \in BOOLEAN /\ ((s = "finish" /\ p.ok) \/ s = "undo")
  BY <1>0, <1>1 DEF Process
<1> HIDE DEF s
<1>3. q.at = s /\ q.action = p.action
  BY <1>0 DEF At, Process
<1>4. Result("recheck", ok).kind = "recheck"
  BY <1>2, ResultType DEF Kinds
<1>5. Recorded(Result("recheck", ok), q)
  BY <1>1 DEF s
<1> HIDE DEF q
<1>6. q.at = "finish" => setting = q.action
  BY <1>0, <1>2, <1>3 DEF Covered, Held
<1>7. Clear => setting = Default \/ InForce(id, setting)
  BY <1>0 DEF Clear, Known, Referring
<1>8. Clear => Known(q)
  BY <1>0, <1>2, <1>3, <1>6, <1>7 DEF Clear, Known, Opening, Referring, Clean, Trying
<1> QED
  BY <1>0, <1>2, <1>3, <1>4, <1>5, <1>8, CoveredRecorded DEF Special, Undone, Under

\* The cycle's outcome is recorded.
LEMMA CoveredFinish ==
  ASSUME Typed, Owned, Covered, Finish
  PROVE  Covered'
<1> DEFINE e == Entry("outcome")
<1>0. /\ p \in Process /\ p.at = "finish" /\ UNCHANGED <<setting, active, id, told, uncovered>>
      /\ Recorded(e, At("tell"))
  BY DEF Finish, Typed, Handy
<1>1. e.kind = "outcome" /\ At("tell").at = "tell" /\ At("tell").action = p.action
  BY <1>0, EntryType DEF At, Process, Kinds
<1> HIDE DEF e
<1>2. p' = Off \/ p' = At("tell")
  BY <1>0 DEF Recorded
<1>3. Held(p)' /\ told' = None
  BY <1>0, <1>1, <1>2 DEF Held, Off, Covered
<1>4. ASSUME ~uncovered' PROVE Clear'
  <2>1. Clear
    BY <1>0, <1>4 DEF Covered
  <2>2. CASE journal' = journal /\ p' = Off
    BY <1>0, <2>1, <2>2, OffKnown, ClearMove DEF Clear
  <2>3. CASE journal' = Append(journal, e) /\ p' = At("tell")
    <3>1. Plain'
      BY <1>0, <1>1, <2>1, <2>3, PlacesAppend, PlacesType DEF Plain, Clear
    <3>2. PICK i, a : i = active.id /\ a = setting
      OBVIOUS
    <3>3. InForce(i, a) => InForce(i, a)'
      <4>1. LastAct(i)' = LastAct(i) /\ LastUndo(i)' = LastUndo(i)
            /\ (LastAct(i) # 0 => journal'[LastAct(i)] = journal[LastAct(i)])
        BY <1>1, <2>3, LastsAppend DEF Undone
      <4>2. LastAct(i) > LastUndo(i) => LastAct(i) # 0
        BY LastsType
      <4> QED
        BY <4>1, <4>2 DEF InForce
    <3>4. InForce(active.id, setting) => InForce(active.id, setting)'
      BY <1>0, <3>2, <3>3 DEF InForce, LastAct, LastUndo, Places
    <3>5. Known(p)'
      BY <1>0, <1>1, <2>1, <2>3, <3>4 DEF Known, Clear, Opening, Referring, Clean, Trying
    <3> QED
      BY <1>3, <3>1, <3>5 DEF Clear
  <2> QED
    BY <1>0, <2>2, <2>3 DEF Recorded
<1> QED
  BY <1>3, <1>4 DEF Covered

\* And told.
LEMMA CoveredTell ==
  ASSUME Typed, Owned, Covered, Tell
  PROVE  Covered'
<1>0. /\ p.at = "tell" /\ p' = Off /\ told' = p.action
      /\ UNCHANGED <<journal, setting, active, id, uncovered>>
  BY DEF Tell
<1>1. Held(p)' /\ p'.at = "off"
  BY <1>0 DEF Held, Off
<1>2. ASSUME ~uncovered' PROVE Clear'
  <2>1. Clear
    BY <1>0, <1>2 DEF Covered
  <2>2. setting = p.action
    BY <1>0, <2>1 DEF Clear, Known
  <2>3. Plain'
    BY <1>0, <2>1 DEF Plain, Clear
  <2>4. InForce(active.id, setting) => InForce(active.id, setting)'
    BY <1>0 DEF InForce, LastAct, LastUndo, Places
  <2>5. Known(p)'
    BY <1>0, <1>1, <2>1, <2>4 DEF Known, Clear, Opening, Referring, Clean, Trying
  <2> QED
    BY <1>0, <2>2, <2>3, <2>5 DEF Clear
<1> QED
  BY <1>1, <1>2 DEF Covered

\* Every step keeps the setting covered.
LEMMA NextCovered ==
  ASSUME Typed, Owned, Covered, [Next]_vars
  PROVE  Covered'
<1>0. /\ p \in Process /\ OwnedAt(p)
      /\ \A kind \in Kinds : Entry(kind) \in Record /\ Entry(kind).kind = kind
  BY EntryType DEF Typed, Handy, Owned
<1>1. CASE Start
  BY <1>1, CoveredStart
<1>2. CASE Open
  <2>1. p.at = "open" /\ p'.at \in {"recovered", "close"}
    BY <1>0, <1>2 DEF Open, At, Process
  <2>2. Clear => Known(p')
    BY <2>1, KnownKept DEF Clear, Opening
  <2> QED
    BY <1>2, <2>1, <2>2, CoveredMove DEF Open, Under
<1>3. CASE Recovered
  <2>1. p.at = "recovered" /\ At("close").at = "close"
    BY <1>0, <1>3 DEF Recovered, At, Process
  <2>2. Clear => Known(At("close"))
    BY <2>1, KnownKept DEF Clear, Opening
  <2> QED
    BY <1>0, <1>3, <2>1, <2>2, CoveredRecorded DEF Recovered, Under, Kinds, Special, Undone
<1>4. CASE CloseInterrupted
  <2>1. PICK k \in OpenAttempts : Recorded([journal[k] EXCEPT !.kind = "attempt_interrupted"], p)
    BY <1>4 DEF CloseInterrupted
  <2>2. journal[k] \in Record
    BY PlacesType DEF OpenAttempts, Mine
  <2>3. [journal[k] EXCEPT !.kind = "attempt_interrupted"].kind = "attempt_interrupted"
    BY <2>2 DEF Record
  <2> QED
    BY <1>4, <2>1, <2>3, CoveredRecorded DEF CloseInterrupted, Under, Special, Undone, Clear
<1>5. CASE Opened
  <2>1. p.at = "close" /\ p'.at \in {"undo", "enforce"}
    BY <1>0, <1>5 DEF Opened, At, Process
  <2>2. Clear => Known(p')
    BY <2>1, KnownKept DEF Clear, Opening
  <2> QED
    BY <1>5, <2>1, <2>2, CoveredMove DEF Opened, Under
<1>6. CASE EnforceIdentity
  <2>1. /\ p.at = "enforce"
        /\ \/ p'.at = "reference" /\ (active = None \/ active.id = id)
           \/ p'.at = "revert" /\ p'.previous = active.previous /\ active # None
    BY <1>0, <1>6 DEF EnforceIdentity, Owns, At, Process
  <2>2. Clear => Known(p')
    BY <2>1 DEF Clear, Plain, Known, Opening, Referring, Clean, Trying
  <2> QED
    BY <1>6, <2>1, <2>2, CoveredMove DEF EnforceIdentity, Under
<1>7. CASE NothingActive
  BY <1>7, CoveredNothing
<1>8. CASE Revert
  BY <1>8, CoveredRevert
<1>9. CASE Quarantine
  <2>1. p.at = "setaside" /\ p'.at = "undone"
    BY <1>0, <1>9 DEF Quarantine, At, Process
  <2> QED
    BY <1>9, <2>1, CoveredWithout DEF Quarantine
<1>10. CASE Reverted
  BY <1>10, CoveredReverted
<1>11. CASE Rollback
  <2> DEFINE k == OpenActivation(Undone)
             r == IF Owns THEN active.previous ELSE journal[k].previous
  <2>1. p.at = "undo" /\ p'.at = "revert" /\ p'.previous = r
    BY <1>0, <1>11 DEF Rollback, At, Process
  <2>2. ~Owns => k \in DOMAIN journal /\ journal[k].kind = "activate"
    <3>1. k = LastAct(id) \/ k = 0
      BY DEF OpenActivation, LastSeq, LastAct, Mine
    <3> HIDE DEF k
    <3>2. ~Owns => k # 0
      BY <1>11 DEF Rollback, k
    <3> QED
      BY <3>1, <3>2, LastsType DEF Places
  <2>3. Clear => r = Default
    BY <2>2 DEF Clear, Plain, Owns
  <2> HIDE DEF r
  <2>4. Clear => Known(p')
    BY <2>1, <2>3 DEF Clear, Known, Opening, Referring, Clean, Trying
  <2> QED
    BY <1>11, <2>1, <2>4, CoveredMove DEF Rollback, Under
<1>13. CASE Reference
  <2>1. At("refrun") \in Process /\ At("refrun").at = "refrun"
    BY <1>0 DEF At, Process, Stages
  <2> QED
    BY <1>13, <2>1, CoveredBegins DEF Reference, Referring, Under
<1>14. CASE ReferenceRun
  <2>1. p.at = "refrun" /\ [At("reference") EXCEPT !.n = None].at = "reference" /\ Off.at = "off"
    BY <1>0, <1>14 DEF ReferenceRun, At, Process, Off
  <2>2. \A kind \in {"reference", "reference_failed"}, ok \in BOOLEAN : Result(kind, ok).kind = kind
    BY ResultType DEF Kinds
  <2>3. Clear => Known([At("reference") EXCEPT !.n = None])
    BY <2>1, KnownKept DEF Clear, Referring
  <2>4. Clear => Known(Off)
    BY <2>1, OffKnown DEF Clear
  <2>5. CASE Recorded(Result("reference", TRUE), [At("reference") EXCEPT !.n = None])
    BY <1>14, <2>1, <2>2, <2>3, <2>5, CoveredRecorded DEF ReferenceRun, Under, Special, Undone
  <2>6. CASE Recorded(Result("reference_failed", FALSE), Off)
    BY <1>14, <2>1, <2>2, <2>4, <2>6, CoveredRecorded DEF ReferenceRun, Under, Special, Undone
  <2> QED
    BY <1>14, <2>5, <2>6 DEF ReferenceRun
<1>15. CASE Resume
  BY <1>15, CoveredResume
<1>16. CASE Standing
  BY <1>16, CoveredStanding
<1>17. CASE BeginTest
  <2>1. PICK a \in Actions : Begins([At("test") EXCEPT !.action = a])
    BY <1>17 DEF BeginTest
  <2>2. [At("test") EXCEPT !.action = a] \in Process /\ [At("test") EXCEPT !.action = a].at = "test"
    BY <1>0 DEF At, Process, Stages, Trying, Settings
  <2> QED
    BY <1>17, <2>1, <2>2, CoveredBegins DEF BeginTest, Clean, Trying, Under
<1>18. CASE Test
  <2> DEFINE q == [At("explore") EXCEPT !.action = None, !.n = None]
  <2>1. p.at = "test" /\ q.at = "explore"
    BY <1>0, <1>18 DEF Test, At, Process
  <2>2. PICK ok \in BOOLEAN : Recorded(Result("test", ok), q)
    BY <1>18 DEF Test
  <2>3. Result("test", ok).kind = "test"
    BY <2>1, ResultType DEF Kinds, Typed, Handy
  <2> HIDE DEF q
  <2>4. Clear => Known(q)
    BY <2>1, KnownKept DEF Clear, Clean, Trying
  <2> QED
    BY <1>18, <2>1, <2>2, <2>3, <2>4, CoveredRecorded DEF Test, Under, Special, Undone
<1>19. CASE ExploreEnd
  <2>1. p.at = "explore" /\ At("champion").at = "champion"
    BY <1>0, <1>19 DEF ExploreEnd, At, Process
  <2>2. Clear => Known(At("champion"))
    BY <2>1, KnownKept DEF Clear, Clean, Trying
  <2> QED
    BY <1>0, <1>19, <2>1, <2>2, CoveredRecorded DEF ExploreEnd, Under, Kinds, Special, Undone
<1>20. CASE Explored
  <2>1. p.at = "explore" /\ p'.at = "champion"
    BY <1>0, <1>20 DEF Explored, At, Process
  <2>2. Clear => Known(p')
    BY <2>1, KnownKept DEF Clear, Clean, Trying
  <2> QED
    BY <1>20, <2>1, <2>2, CoveredMove DEF Explored, Under
<1>21. CASE Champion
  <2>1. /\ p.at = "champion"
        /\ p'.at = "qualify" \/ (p'.at = "finish" /\ p'.action = Default)
    BY <1>0, <1>21 DEF Champion, At, Process
  <2>2. Clear => Known(p')
    BY <2>1, KnownKept, KnownEnd DEF Clear, Clean, Trying
  <2> QED
    BY <1>21, <2>1, <2>2, CoveredMove DEF Champion, Under
<1>22. CASE Qualify
  <2>1. p.at = "qualify" /\ Judging.at \in {"own", "judge"} /\ Kept.at = "finish" /\ Kept.action = Default
    BY <1>0, <1>22, Settle DEF Qualify
  <2>2. Clear => Known(Judging) /\ Known(Kept)
    BY <2>1, KnownKept, KnownEnd DEF Clear, Clean, Trying
  <2>3. CASE Recorded(Entry("qualify_start"), Judging)
    BY <1>0, <1>22, <2>1, <2>2, <2>3, CoveredRecorded DEF Qualify, Under, Kinds, Special, Undone
  <2>4. CASE journal' = journal /\ p' \in {Judging, Kept}
    BY <1>22, <2>1, <2>2, <2>4, CoveredMove DEF Qualify, Under
  <2> QED
    BY <1>22, <2>3, <2>4 DEF Qualify
<1>23. \A s \in {"answer", "runs"} :
         At(s) \in Process /\ At(s).at = s /\ s \in Clean /\ s \notin Under
  BY <1>0 DEF At, Process, Stages, Trying, Clean, Under
<1>24. CASE AskAdapter
  <2>1. p.at = "own" /\ p.at \in Clean /\ Begins(At("answer"))
    BY <1>24 DEF AskAdapter, Clean, Trying
  <2> QED
    BY <1>23, <1>24, <2>1, CoveredBegins DEF AskAdapter
<1>25. CASE AdapterAnswers
  BY <1>25, CoveredVerdict DEF AdapterAnswers
<1>26. CASE Judge
  <2>1. p.at = "judge" /\ p.at \in Clean
    BY <1>26 DEF Judge, Clean, Trying
  <2>2. CASE Begins(At("runs"))
    BY <1>23, <1>26, <2>1, <2>2, CoveredBegins DEF Judge
  <2>3. CASE \E ok \in BOOLEAN : Verdict(ok)
    BY <1>26, <2>1, <2>3, CoveredVerdict DEF Judge
  <2> QED
    BY <1>26, <2>2, <2>3 DEF Judge
<1>27. CASE TripletRuns
  <2>1. p.at = "runs" /\ At("triplet").at = "triplet"
    BY <1>0, <1>27 DEF TripletRuns, At, Process
  <2>2. Result("triplet_run", FALSE).kind = "triplet_run"
    BY ResultType DEF Kinds
  <2>3. Clear => Known(At("triplet"))
    BY <2>1, KnownKept DEF Clear, Clean, Trying
  <2> QED
    BY <1>27, <2>1, <2>2, <2>3, CoveredRecorded DEF TripletRuns, Under, Special, Undone
<1>28. CASE TripletDone
  <2> DEFINE q == [At("judge") EXCEPT !.n = None]
  <2>1. p.at = "triplet" /\ q.at = "judge"
    BY <1>0, <1>28 DEF TripletDone, At, Process
  <2>2. PICK ok \in BOOLEAN : Recorded(Result("triplet", ok), q)
    BY <1>28 DEF TripletDone
  <2>3. Result("triplet", ok).kind = "triplet"
    BY ResultType DEF Kinds
  <2> HIDE DEF q
  <2>4. Clear => Known(q)
    BY <2>1, KnownKept DEF Clear, Clean, Trying
  <2> QED
    BY <1>28, <2>1, <2>2, <2>3, <2>4, CoveredRecorded DEF TripletDone, Under, Special, Undone
<1>29. CASE Refused
  <2>1. p.at = "apply" /\ p.at \in Clean /\ Kept.at = "finish" /\ Kept.action = Default
    BY <1>0, <1>29, Settle DEF Refused, Clean, Trying
  <2>2. Clear => Known(Kept)
    BY <2>1, KnownEnd DEF Clear
  <2> QED
    BY <1>0, <1>29, <2>1, <2>2, CoveredRecorded DEF Refused, Under, Kinds, Special, Undone
<1>30. CASE Apply
  BY <1>30, CoveredApply
<1>31. CASE RecordActivation
  BY <1>31, CoveredActivation
<1>32. CASE WriteEnvelope
  BY <1>32, CoveredEnvelope
<1>33. CASE Recheck
  BY <1>33, CoveredRecheck
<1>34. CASE Rechecked
  BY <1>34, CoveredRechecked
<1>35. CASE Finish
  BY <1>35, CoveredFinish
<1>36. CASE Tell
  BY <1>36, CoveredTell
<1>37. CASE Die
  BY <1>37, CoveredDie
<1>38. CASE Reset
  BY <1>38, CoveredReset
<1>39. CASE LoseEnvelope
  BY <1>39, CoveredWithout DEF LoseEnvelope
<1>40. CASE UNCHANGED vars
  <2>1. UNCHANGED <<journal, setting, active, id, told, uncovered, p>>
    BY <1>40 DEF vars
  <2>2. Held(p)' /\ (p'.at # "off" => told' = None)
    BY <2>1 DEF Held, Covered
  <2>3. ~uncovered' => Clear'
    BY <2>1, ClearMove DEF Clear, Covered
  <2> QED
    BY <2>2, <2>3 DEF Covered
<1> QED
  BY <1>1, <1>2, <1>3, <1>4, <1>5, <1>6, <1>7, <1>8, <1>9, <1>10, <1>11, <1>13, <1>14, <1>15, <1>16,
     <1>17, <1>18, <1>19, <1>20, <1>21, <1>22, <1>24, <1>25, <1>26, <1>27, <1>28, <1>29, <1>30,
     <1>31, <1>32, <1>33, <1>34, <1>35, <1>36, <1>37, <1>38, <1>39, <1>40 DEF Next

-----------------------------------------------------------------------------
(* The theorems *)

\* The inductive invariant.
IInv == Typed /\ Numbered /\ Owned /\ Tried /\ Covered

\* Nothing is recorded, applied or under way at the start.
LEMMA InitIInv == Init => IInv
<1> SUFFICES ASSUME Init PROVE IInv
  OBVIOUS
<1>1. \A i, kinds : Places(i, kinds) = {}
  BY DEF Init, Places
<1>2. LastOf({}) = 0 /\ Cardinality({}) = 0
  <2>1. 0 \in Nat /\ {} \in SUBSET (1..0)
    OBVIOUS
  <2> QED
    BY <2>1, LastLine, FS_EmptySet
<1>3. \A i : /\ LastAct(i) = 0 /\ LastUndo(i) = 0 /\ LastOut(i) = 0 /\ LastTrial(i) = 0
             /\ Seen(i) = {}
  BY <1>1, <1>2 DEF LastAct, LastUndo, LastOut, LastTrial, Seen
<1>4. /\ p = Off /\ p.at = "off" /\ p.n = None /\ active = None /\ setting = Default
      /\ told = None /\ journal = <<>> /\ id \in Identities
  BY DEF Init, Off
<1>5. Typed
  <2>1. journal \in Seq(Record) /\ \A k \in DOMAIN journal : Good(journal[k])
    BY <1>4
  <2>2. starts \in 0 .. MaxStarts /\ faults \in 0 .. MaxFaults
    BY GoalAssumption DEF Init
  <2>3. torn \in BOOLEAN /\ uncovered \in BOOLEAN
    BY DEF Init
  <2> QED
    BY <1>4, <2>1, <2>2, <2>3, OffHandy DEF Typed, Settings
<1>6. Numbered
  BY <1>1, <1>4 DEF Numbered, MeasuredOnce, Mine, Begun
<1>7. Owned
  BY <1>3, <1>4 DEF Owned, Answered, OwnedAt, Trying
<1>8. Tried
  <2>1. EvidenceFirst
    BY <1>1 DEF EvidenceFirst
  <2>2. Tallied
    BY <1>2, <1>3, GoalAssumption DEF Tallied
  <2>3. TriedAt(p)
    BY <1>4 DEF TriedAt
  <2> QED
    BY <2>1, <2>2, <2>3 DEF Tried
<1>9. Covered
  <2>1. Held(p) /\ Known(p)
    BY <1>4 DEF Held, Known, Opening, Referring, Clean, Trying
  <2>2. Plain
    BY <1>4 DEF Plain
  <2> QED
    BY <1>4, <2>1, <2>2 DEF Covered, Clear
<1> QED
  BY <1>5, <1>6, <1>7, <1>8, <1>9 DEF IInv

\* However runs die, are repeated or belong to different identities, the layers hold
\* together: each needs the ones before it (coordinator.rs cycle, rollback).
THEOREM Invariant == Spec => []IInv
<1>1. IInv /\ [Next]_vars => IInv'
  BY NextTyped, NextNumbered, NextOwned, NextTried, NextCovered DEF IInv
<1> QED
  BY <1>1, InitIInv, PTL DEF Spec

\* The state has its shape: a well formed record or process is one of TypeOK
\* (store.rs Journal::append).
THEOREM CoordinatorTyped == Spec => []TypeOK
<1>1. IInv => TypeOK
  <2> SUFFICES ASSUME Typed PROVE TypeOK
    BY DEF IInv
  <2>1. \A k \in DOMAIN journal : journal[k] \in Record
    BY DEF Typed
  <2>2. p \in Process
    BY DEF Typed, Handy
  <2> QED
    BY <2>1, <2>2 DEF Typed, TypeOK, Record, Process
<1> QED
  BY <1>1, Invariant, PTL

\* For any number of runs, deaths and identities, attempts are numbered apart, none
\* is both interrupted and measured, and no action is screened twice
\* (coordinator.rs begin, close_interrupted, explore).
THEOREM AttemptsApart == Spec => []MeasuredOnce
<1>1. IInv => MeasuredOnce
  BY DEF IInv, Numbered
<1> QED
  BY <1>1, Invariant, PTL

\* For any number of pairs and trials, every activation rests on the evidence of its
\* own trial (coordinator.rs qualify, activate).
THEOREM EvidenceKept == Spec => []EvidenceFirst
<1>1. IInv => EvidenceFirst
  BY DEF IInv, Tried
<1> QED
  BY <1>1, Invariant, PTL

\* What a run said is in force is in force, as far as every setting applied was
\* recorded (coordinator.rs cycle, rollback, enforce_identity).
THEOREM ToldTrue == Spec => []Truthful
<1>1. IInv => Truthful
  BY DEF IInv, Covered, Clear, Truthful
<1> QED
  BY <1>1, Invariant, PTL

-----------------------------------------------------------------------------
(* The adapters of the optimizer are alone *)

Calling(r) == run[r] = "call"

\* A supervisor that has started its adapter or is about to.
Bound(r) == sup[r] \in {"checked", "running", "ending"}

BoundAlone ==
  \A q, r \in Runs :
     Bound(q) /\ Up(r) => IF q = r THEN Calling(r) ELSE Overlap(q, r)

Paired == \A q, r \in Runs : Up(q) /\ Up(r) /\ q # r => Overlap(q, r)

Leased == GroupTypeOK /\ BoundAlone /\ Paired

\* The first state satisfies the invariant.
LEMMA InitLeased == GroupInit => Leased
BY DEF GroupInit, Leased, GroupTypeOK, BoundAlone, Paired, Bound, Up, Calling

\* Every step keeps the types.
LEMMA GroupTypeStep == GroupTypeOK /\ [GroupNext]_groupVars => GroupTypeOK'
<1> SUFFICES ASSUME GroupTypeOK, [GroupNext]_groupVars PROVE GroupTypeOK'
  OBVIOUS
<1>1. CASE UNCHANGED groupVars
  BY <1>1 DEF groupVars, GroupTypeOK, Calling
<1>2. ASSUME NEW r \in Runs, StartRun(r) \/ Refuse(r) PROVE GroupTypeOK'
  BY <1>2 DEF GroupTypeOK, StartRun, Refuse, Go, Calling
<1>9. ASSUME NEW r \in Runs, EndRun(r) PROVE GroupTypeOK'
  BY <1>9 DEF GroupTypeOK, EndRun, Calling
<1>10. ASSUME NEW r \in Runs, PassGate(r) PROVE GroupTypeOK'
  <2>1. {q \in Runs : Up(q)} \in SUBSET Runs
    OBVIOUS
  <2>2. beside' \in [Runs -> SUBSET Runs]
    BY <1>10, <2>1 DEF GroupTypeOK, PassGate
  <2> QED BY <1>10, <2>2 DEF GroupTypeOK, PassGate, Go, Calling
<1>5. ASSUME NEW r \in Runs, Call(r) PROVE GroupTypeOK'
  <2>1. \A q \in Runs : line'[q] => Calling(q)'
    BY <1>5 DEF GroupTypeOK, Call, Go, Calling
  <2> QED BY <1>5, <2>1 DEF GroupTypeOK, Call, Go
<1>11. ASSUME NEW r \in Runs, TimeOut(r) PROVE GroupTypeOK'
  BY <1>11 DEF GroupTypeOK, TimeOut, Calling
<1>6. ASSUME NEW r \in Runs, Answer(r) PROVE GroupTypeOK'
  BY <1>6 DEF GroupTypeOK, Answer, Go, Calling
<1>7. ASSUME NEW r \in Runs,
             TakeLease(r) \/ Check(r) \/ Launch(r) \/ Exit(r) \/ Abandon(r)
               \/ Confirm(r) \/ Fail(r)
      PROVE  GroupTypeOK'
  BY <1>7 DEF GroupTypeOK, TakeLease, Check, Launch, Exit, Abandon, Confirm, Fail, Supervisor, Calling
<1>8. ASSUME NEW r \in Runs, Notice(r) \/ Signal(r) PROVE GroupTypeOK'
  BY <1>8 DEF GroupTypeOK, Notice, Signal, Calling
<1> QED BY <1>1, <1>2, <1>5, <1>6, <1>7, <1>8, <1>9, <1>10, <1>11 DEF GroupNext

\* A run that is up stays in the history of the others, and only the gate adds
\* a run.
LEMMA GroupQuiet ==
  ASSUME Leased, GroupTypeOK', beside' = beside, \A r \in Runs : Up(r)' => Up(r),
         \A r \in Runs : Bound(r)' => Bound(r) \/ Up(r)',
         \A r \in Runs : Bound(r)' /\ Up(r)' => Calling(r)'
  PROVE  Leased'
<1>1. Paired'
  BY DEF Leased, Paired, Overlap
<1>2. BoundAlone'
  <2> SUFFICES ASSUME NEW q \in Runs, NEW r \in Runs, Bound(q)', Up(r)'
               PROVE  IF q = r THEN Calling(r)' ELSE Overlap(q, r)'
    BY DEF BoundAlone
  <2>1. CASE q = r
    BY <2>1
  <2>2. CASE q # r
    <3>1. Up(r) /\ (Bound(q) \/ Up(q))
      OBVIOUS
    <3>2. Overlap(q, r)
      BY <2>2, <3>1 DEF Leased, BoundAlone, Paired
    <3> QED BY <2>2, <3>2 DEF Overlap
  <2> QED BY <2>1, <2>2
<1> QED BY <1>1, <1>2 DEF Leased

\* Every step keeps the invariant.
LEMMA StepLeased == Leased /\ [GroupNext]_groupVars => Leased'
<1> SUFFICES ASSUME Leased, [GroupNext]_groupVars PROVE Leased'
  OBVIOUS
<1>0. GroupTypeOK /\ GroupTypeOK'
  BY GroupTypeStep DEF Leased
<1>1. CASE UNCHANGED groupVars
  BY <1>1 DEF groupVars, Leased, GroupTypeOK, BoundAlone, Paired, Bound, Up, Calling, Overlap
<1>2. ASSUME NEW u \in Runs, PassGate(u) PROVE Leased'
  <2>1. /\ \A q \in Runs : ~Bound(q)
        /\ beside' = [beside EXCEPT ![u] = {q \in Runs : Up(q)}]
        /\ run' = [run EXCEPT ![u] = "up"] /\ sup' = sup /\ run[u] = "gate"
    BY <1>2 DEF PassGate, Go, Bound, Holds
  <2>2. BoundAlone'
    BY <2>1 DEF BoundAlone, Bound
  <2>3. \A r \in Runs : r # u => (Up(r)' <=> Up(r)) /\ beside'[r] = beside[r]
    BY <1>0, <2>1 DEF Up, Calling, GroupTypeOK
  <2>4. \A r \in Runs : Up(r) => r \in beside'[u]
    BY <1>0, <2>1 DEF GroupTypeOK
  <2>5. Paired'
    <3> SUFFICES ASSUME NEW q \in Runs, NEW r \in Runs, Up(q)', Up(r)', q # r
                 PROVE  Overlap(q, r)'
      BY DEF Paired
    <3>1. CASE q # u /\ r # u
      BY <2>3, <3>1 DEF Leased, Paired, Overlap
    <3>2. CASE q = u
      BY <2>3, <2>4, <3>2 DEF Overlap
    <3>3. CASE r = u
      BY <2>3, <2>4, <3>3 DEF Overlap
    <3> QED BY <3>1, <3>2, <3>3
  <2> QED BY <1>0, <2>2, <2>5 DEF Leased
<1>3. ASSUME NEW u \in Runs, StartRun(u) \/ Refuse(u) \/ EndRun(u) PROVE Leased'
  <2>1. sup' = sup /\ beside' = beside
    BY <1>3 DEF StartRun, Refuse, EndRun
  <2>2. \A r \in Runs : Up(r)' => Up(r) /\ (Calling(r) <=> Calling(r)')
    BY <1>0, <1>3 DEF StartRun, Refuse, EndRun, Go, Up, Calling, GroupTypeOK
  <2>3. \A r \in Runs : Bound(r)' <=> Bound(r)
    BY <2>1 DEF Bound
  <2>4. \A r \in Runs : Bound(r)' /\ Up(r)' => Calling(r)'
    BY <2>2, <2>3 DEF Leased, BoundAlone
  <2> QED BY <1>0, <2>1, <2>2, <2>3, <2>4, GroupQuiet
<1>4. ASSUME NEW u \in Runs, Call(u) \/ TimeOut(u) \/ Answer(u) PROVE Leased'
  <2>1. beside' = beside
    BY <1>4 DEF Call, TimeOut, Answer
  <2>2. \A r \in Runs : Up(r)' => Up(r)
    BY <1>0, <1>4 DEF Call, TimeOut, Answer, Go, Up, Calling, GroupTypeOK
  <2>3. \A r \in Runs : Bound(r)' => Bound(r)
    BY <1>0, <1>4 DEF Call, TimeOut, Answer, Bound, GroupTypeOK
  <2>4. \A r \in Runs : Bound(r)' /\ Up(r)' => Calling(r)'
    <3> SUFFICES ASSUME NEW r \in Runs, Bound(r)', Up(r)' PROVE Calling(r)'
      OBVIOUS
    <3>1. Calling(r)
      BY <2>2, <2>3 DEF Leased, BoundAlone
    <3>2. ~(r = u /\ Answer(u)) /\ ~(r = u /\ Call(u))
      BY <1>0, <3>1, <2>3 DEF Answer, Call, Go, Calling, Bound, GroupTypeOK
    <3> QED BY <1>0, <1>4, <3>1, <3>2 DEF Call, TimeOut, Answer, Go, Calling, GroupTypeOK
  <2> QED BY <1>0, <2>1, <2>2, <2>3, <2>4, GroupQuiet
<1>5. ASSUME NEW u \in Runs, Check(u) PROVE Leased'
  <2>1. beside' = beside /\ run' = run
    BY <1>5 DEF Check, Supervisor
  <2>2. \A r \in Runs : (Up(r)' <=> Up(r)) /\ (Calling(r)' <=> Calling(r))
    BY <2>1 DEF Up, Calling
  <2>3. \A r \in Runs : Bound(r)' => Bound(r) \/ Calling(r)
    BY <1>0, <1>5 DEF Check, Supervisor, Bound, GroupTypeOK, Calling
  <2>4. \A r \in Runs : Bound(r)' /\ Up(r)' => Calling(r)'
    BY <2>2, <2>3 DEF Leased, BoundAlone
  <2>5. \A r \in Runs : Calling(r) => Up(r)
    BY DEF Up, Calling
  <2> QED BY <1>0, <2>1, <2>2, <2>3, <2>4, <2>5, GroupQuiet
<1>6. ASSUME NEW u \in Runs,
             \/ TakeLease(u) \/ Launch(u) \/ Exit(u) \/ Abandon(u) \/ Confirm(u)
             \/ Fail(u) \/ Notice(u) \/ Signal(u)
      PROVE  Leased'
  <2>1. beside' = beside /\ run' = run
    BY <1>6 DEF TakeLease, Launch, Exit, Abandon, Confirm, Fail, Notice, Signal, Supervisor
  <2>2. \A r \in Runs : (Up(r)' <=> Up(r)) /\ (Calling(r)' <=> Calling(r))
    BY <2>1 DEF Up, Calling
  <2>3. \A r \in Runs : Bound(r)' => Bound(r)
    BY <1>0, <1>6 DEF TakeLease, Launch, Exit, Abandon, Confirm, Fail, Notice, Signal, Supervisor, Bound, GroupTypeOK
  <2>4. \A r \in Runs : Bound(r)' /\ Up(r)' => Calling(r)'
    BY <2>2, <2>3 DEF Leased, BoundAlone
  <2> QED BY <1>0, <2>1, <2>2, <2>3, <2>4, GroupQuiet
<1> QED BY <1>1, <1>2, <1>3, <1>4, <1>5, <1>6 DEF GroupNext

\* The invariant holds in every reachable state.
LEMMA LeasedAlways == GroupSpec => []Leased
<1>1. GroupInit => Leased
  BY InitLeased
<1>2. Leased /\ [GroupNext]_groupVars => Leased'
  BY StepLeased
<1> QED BY <1>1, <1>2, PTL DEF GroupSpec

\* Every reachable state is well typed (proc.rs supervise, adapter.rs call).
THEOREM SupervisionTyped == GroupSpec => []GroupTypeOK
<1>1. Leased => GroupTypeOK
  BY DEF Leased
<1> QED BY <1>1, LeasedAlways, PTL

\* A process of an adapter lives only during the call of its own run or beside
\* runs that were up together with it, for any number of runs (proc.rs
\* await_quiescence, supervise; adapter.rs call).
THEOREM AdaptersAlone == GroupSpec => []Alone
<1>1. Leased => Alone
  BY DEF Leased, Alone, BoundAlone, Bound, Lives, Calling
<1> QED BY <1>1, LeasedAlways, PTL

=============================================================================
