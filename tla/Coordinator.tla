----------------------------- MODULE Coordinator -----------------------------
(***************************************************************************)
(* The cycle of the native optimizer and its journal: coordinator.rs with    *)
(* Journal and the envelopes of store.rs.                                    *)
(*                                                                         *)
(* Every `imopt cycle` or `imopt rollback` is a process that reads the       *)
(* journal, goes on from what it says and dies at any step; the adapter's    *)
(* setting and the files stay.  A step is one record written, one file       *)
(* replaced or one effect of the adapter.  One such process runs at a time   *)
(* (Supervision says when that holds), and what its calls started is over    *)
(* when the next one begins.                                                 *)
(*                                                                         *)
(* Left out: costs, seconds and budgets (an exploration may end after any    *)
(* test), the planner with its checkpoint and the transfer between           *)
(* identities (a champion is any usable tested action, or none), actions of  *)
(* class tested_only, `detect` records, damaged files, and errors of the     *)
(* adapter that end a run, which are deaths here.                            *)
(***************************************************************************)
EXTENDS Integers, Sequences, FiniteSets, FiniteSetsExt

CONSTANTS
    Actions,       \* the settings an adapter offers beside its reference
    Identities,    \* cycle identities: host, adapter and goal
    OwnEvaluator,  \* the identities whose adapter qualifies by itself
    RefRuns,       \* goal.reference_runs
    MaxTests,      \* goal.max_tests
    MaxTrials,     \* rule.max_trials
    Pairs,         \* rule.pairs
    None,
    Default,       \* the setting with nothing applied
    MaxStarts,     \* bound: runs
    MaxFaults      \* bound: deaths, lost files and settings reset by others

ASSUME GoalAssumption ==
    /\ OwnEvaluator \subseteq Identities
    /\ {RefRuns, MaxTests, MaxTrials, Pairs} \subseteq Nat \ {0}
    /\ {MaxStarts, MaxFaults} \subseteq Nat

ASSUME NoneAssumption ==
    /\ None \notin Actions \cup {Default} \cup Nat /\ Default \notin Actions
    /\ None \notin [id : Identities, action : Actions, previous : Actions \cup {Default}]

VARIABLES
    journal,   \* the records
    torn,      \* the file ends in part of a record
    setting,   \* what the adapter runs with
    active,    \* active.json: the setting applied and the one before
    id,        \* the identity of the running process
    p,         \* where it is
    told,      \* the setting the last run said is in force
    uncovered, \* history: a setting was applied that no record or file tells a later run of
    starts, faults

vars == <<journal, torn, setting, active, id, p, told, uncovered, starts, faults>>

Settings == Actions \cup {Default}

Off == [at |-> "off", cmd |-> None, action |-> None, previous |-> None, n |-> None, ok |-> FALSE]

At(s) == [p EXCEPT !.at = s]

-----------------------------------------------------------------------------
(* The journal. *)

Entry(kind) ==
    [kind |-> kind, id |-> id, action |-> p.action, previous |-> None, n |-> None, ok |-> FALSE]

\* The places of an identity's records of these kinds.
Places(i, kinds) == {k \in DOMAIN journal : journal[k].id = i /\ journal[k].kind \in kinds}

Mine(kinds) == Places(id, kinds)

LastOf(S) == Max(S \cup {0})

LastSeq(kinds) == LastOf(Mine(kinds))

Undone == {"rollback", "identity_rollback", "outcome_invalidated"}

\* The last activation no rollback or invalidation (nor outcome) has closed, or 0.
OpenActivation(closing) ==
    LET k == LastSeq({"activate"}) IN IF k > LastSeq(closing) THEN k ELSE 0

\* A record is appended and synced; a death leaves it out, in part or whole (the
\* last is a death at the next step).
Recorded(entry, q) ==
    \/ journal' = Append(journal, entry) /\ p' = q /\ UNCHANGED <<torn, faults>>
    \/ /\ faults < MaxFaults /\ faults' = faults + 1
       /\ torn' = TRUE /\ p' = Off /\ UNCHANGED journal

\* A measurement is journaled before it starts.
Begins(q) ==
    LET n == Cardinality(Mine({"attempt"}))
    IN Recorded([Entry("attempt") EXCEPT !.action = q.action, !.n = n], [q EXCEPT !.n = n])

Result(kind, ok) == [Entry(kind) EXCEPT !.n = p.n, !.ok = ok]

-----------------------------------------------------------------------------
(* Opening. *)

Init ==
    /\ journal = <<>> /\ torn = FALSE /\ setting = Default /\ active = None
    /\ id \in Identities /\ p = Off /\ told = None /\ uncovered = FALSE
    /\ starts = 0 /\ faults = 0

\* Nothing an identity reads says that this setting was applied.
Unknown(i) ==
    LET k == LastOf(Places(i, {"activate"}))
    IN /\ setting # Default
       /\ active = None \/ active.action # setting
       /\ k <= LastOf(Places(i, Undone)) \/ journal[k].action # setting

Start ==
    /\ p.at = "off" /\ starts < MaxStarts /\ starts' = starts + 1
    /\ id' \in Identities
    /\ \E cmd \in {"cycle", "rollback"} : p' = [Off EXCEPT !.at = "open", !.cmd = cmd]
    /\ told' = None /\ uncovered' = (uncovered \/ Unknown(id'))
    /\ UNCHANGED <<journal, torn, setting, active, faults>>

\* The torn tail is cut off.
Open ==
    /\ p.at = "open"
    /\ p' = At(IF torn THEN "recovered" ELSE "close")
    /\ torn' = FALSE
    /\ UNCHANGED <<journal, setting, active, id, told, uncovered, starts, faults>>

Recovered ==
    /\ p.at = "recovered"
    /\ Recorded(Entry("recovered"), At("close"))
    /\ UNCHANGED <<setting, active, id, told, uncovered, starts>>

\* A mistake: an attempt that was answered is closed again.
OpenAttemptsMutant ==
    {k \in Mine({"attempt"}) :
        \A m \in Mine({"attempt_interrupted"}) : journal[m].n # journal[k].n}

\* Attempts of this identity no other record names.
OpenAttempts ==
    {k \in Mine({"attempt"}) :
        \A m \in DOMAIN journal :
            journal[m].id = id /\ journal[m].n = journal[k].n => journal[m].kind = "attempt"}

CloseInterrupted ==
    /\ p.at = "close"
    /\ \E k \in OpenAttempts :
        /\ \A m \in OpenAttempts : k <= m
        /\ Recorded([journal[k] EXCEPT !.kind = "attempt_interrupted"], p)
    /\ UNCHANGED <<setting, active, id, told, uncovered, starts>>

Opened ==
    /\ p.at = "close"
    /\ OpenAttempts = {}
    /\ p' = At(IF p.cmd = "rollback" THEN "undo" ELSE "enforce")
    /\ UNCHANGED <<journal, torn, setting, active, id, told, uncovered, starts, faults>>

-----------------------------------------------------------------------------
(* Going back. *)

Owns == active # None /\ active.id = id

\* A setting another identity applied is reverted first.
EnforceIdentity ==
    /\ p.at = "enforce"
    /\ p' = IF active = None \/ Owns THEN At("reference")
             ELSE [At("revert") EXCEPT !.previous = active.previous]
    /\ UNCHANGED <<journal, torn, setting, active, id, told, uncovered, starts, faults>>

\* The process enforces its identity: it has no action in hand yet.
Enforcing == p.cmd = "cycle" /\ p.action = None

\* The setting before comes from the envelope, or from the journal.
Rollback ==
    LET k == OpenActivation(Undone) IN
    /\ p.at = "undo"
    /\ Owns \/ k # 0
    /\ p' = [At("revert") EXCEPT
                  !.previous = IF Owns THEN active.previous ELSE journal[k].previous]
    /\ UNCHANGED <<journal, torn, setting, active, id, told, uncovered, starts, faults>>

NothingActive ==
    /\ p.at = "undo"
    /\ ~Owns /\ OpenActivation(Undone) = 0
    /\ Recorded(Entry("rollback"),
                IF p.cmd = "cycle" THEN [At("finish") EXCEPT !.action = Default] ELSE Off)
    /\ UNCHANGED <<setting, active, id, told, uncovered, starts>>

\* The adapter restores it and is asked.
Revert ==
    /\ p.at = "revert"
    /\ p' = At("setaside")
    /\ setting' = p.previous
    /\ UNCHANGED <<journal, torn, active, id, told, uncovered, starts, faults>>

Quarantine ==
    /\ p.at = "setaside"
    /\ p' = At("undone")
    /\ active' = None
    /\ UNCHANGED <<journal, torn, setting, id, told, uncovered, starts, faults>>

Reverted ==
    /\ p.at = "undone"
    /\ \/ /\ Enforcing
          /\ Recorded(Entry("identity_rollback"), [At("reference") EXCEPT !.previous = None])
       \/ /\ ~Enforcing
          /\ Recorded([Entry("rollback") EXCEPT !.previous = p.previous],
                      [At(IF p.cmd = "cycle" THEN "finish" ELSE "tell")
                          EXCEPT !.action = Default, !.previous = None])
    /\ UNCHANGED <<setting, active, id, told, uncovered, starts>>

-----------------------------------------------------------------------------
(* The reference and what an earlier run left. *)

\* A reference run that fails ends the cycle.
Reference ==
    /\ p.at = "reference"
    /\ Cardinality(Mine({"reference"})) < RefRuns
    /\ Begins(At("refrun"))
    /\ UNCHANGED <<setting, active, id, told, uncovered, starts>>

ReferenceRun ==
    /\ p.at = "refrun"
    /\ \/ Recorded(Result("reference", TRUE), [At("reference") EXCEPT !.n = None])
       \/ Recorded(Result("reference_failed", FALSE), Off)
    /\ UNCHANGED <<setting, active, id, told, uncovered, starts>>

\* What the envelope of a journaled activation says.
Envelope(k) == [id |-> id, action |-> journal[k].action, previous |-> journal[k].previous]

\* An activation without its outcome is finished, never applied again.
Resume ==
    LET k == OpenActivation(Undone \cup {"outcome"}) IN
    /\ p.at = "reference"
    /\ Cardinality(Mine({"reference"})) >= RefRuns
    /\ IF k = 0 THEN p' = At("standing") /\ UNCHANGED active
       ELSE /\ p' = [At("recheck") EXCEPT !.action = journal[k].action]
            /\ active' = IF Owns THEN active ELSE Envelope(k)
    /\ UNCHANGED <<journal, torn, setting, id, told, uncovered, starts, faults>>

\* The outcome nothing has undone since, or 0.
StandingOutcome ==
    LET k == LastSeq({"outcome"}) IN IF k > LastSeq(Undone) THEN k ELSE 0

\* A mistake: an outcome stands as it was recorded.
StandsMutant(k) == TRUE

\* An activated outcome stands while the adapter reports it.
Stands(k) == journal[k].action \in {Default, setting}

Standing ==
    LET k == StandingOutcome IN
    /\ p.at = "standing"
    /\ \/ /\ k = 0
          /\ p' = At("explore") /\ UNCHANGED <<journal, torn, faults>>
       \/ /\ k # 0 /\ Stands(k)
          /\ p' = [At("tell") EXCEPT !.action = journal[k].action]
          /\ UNCHANGED <<journal, torn, faults>>
       \/ /\ k # 0 /\ ~Stands(k)
          /\ Recorded([Entry("outcome_invalidated") EXCEPT !.action = journal[k].action],
                      At("explore"))
    /\ UNCHANGED <<setting, active, id, told, uncovered, starts>>

-----------------------------------------------------------------------------
(* Exploring and choosing. *)

\* Nothing was explored since the last thing was undone.
Due == LastSeq({"explore_end"}) <= LastSeq(Undone)

Tested(ok) == {journal[k].action : k \in {m \in Mine({"test"}) : ok => journal[m].ok}}

\* Each action is screened once.
BeginTest ==
    /\ p.at = "explore"
    /\ Due /\ Cardinality(Mine({"test"})) < MaxTests
    /\ \E a \in Actions \ Tested(FALSE) : Begins([At("test") EXCEPT !.action = a])
    /\ UNCHANGED <<setting, active, id, told, uncovered, starts>>

Test ==
    /\ p.at = "test"
    /\ \E ok \in BOOLEAN :
        Recorded(Result("test", ok), [At("explore") EXCEPT !.action = None, !.n = None])
    /\ UNCHANGED <<setting, active, id, told, uncovered, starts>>

\* The budget, every action tested, or no test worth its time.
ExploreEnd ==
    /\ p.at = "explore"
    /\ Due
    /\ Recorded(Entry("explore_end"), At("champion"))
    /\ UNCHANGED <<setting, active, id, told, uncovered, starts>>

Explored ==
    /\ p.at = "explore"
    /\ ~Due /\ p' = At("champion")
    /\ UNCHANGED <<journal, torn, setting, active, id, told, uncovered, starts, faults>>

Champion ==
    /\ p.at = "champion"
    /\ \/ \E a \in Tested(TRUE) : p' = [At("qualify") EXCEPT !.action = a]
       \/ p' = [At("finish") EXCEPT !.action = Default]
    /\ UNCHANGED <<journal, torn, setting, active, id, told, uncovered, starts, faults>>

-----------------------------------------------------------------------------
(* Qualifying. *)

TrialOpen ==
    LET k == LastSeq({"qualify_start"}) IN
    /\ k # 0 /\ journal[k].action = p.action
    /\ Cardinality(Mine({"qualify_end"})) < Cardinality(Mine({"qualify_start"}))

Judging == At(IF id \in OwnEvaluator THEN "own" ELSE "judge")

\* The cycle ends with the reference in force.
Kept == [At("finish") EXCEPT !.action = Default, !.n = None]

Qualify ==
    LET trials == Cardinality(Mine({"qualify_start"})) IN
    /\ p.at = "qualify"
    /\ \/ TrialOpen /\ p' = Judging /\ UNCHANGED <<journal, torn, faults>>
       \/ ~TrialOpen /\ trials >= MaxTrials /\ p' = Kept /\ UNCHANGED <<journal, torn, faults>>
       \/ ~TrialOpen /\ trials < MaxTrials /\ Recorded(Entry("qualify_start"), Judging)
    /\ UNCHANGED <<setting, active, id, told, uncovered, starts>>

\* The adapter's own evaluator.
AskAdapter ==
    /\ p.at = "own"
    /\ Begins(At("answer"))
    /\ UNCHANGED <<setting, active, id, told, uncovered, starts>>

Verdict(ok) ==
    Recorded(Result("qualify_end", ok), IF ok THEN [At("apply") EXCEPT !.n = None] ELSE Kept)

AdapterAnswers ==
    /\ p.at = "answer"
    /\ \E ok \in BOOLEAN : Verdict(ok)
    /\ UNCHANGED <<setting, active, id, told, uncovered, starts>>

\* A mistake: the triplets of an earlier trial count.
TripletsMutant == Mine({"triplet"})

\* The triplets of this trial.
Triplets == {k \in Mine({"triplet"}) : k > LastSeq({"qualify_start"})}

\* A vetoed triplet rejects; enough of them qualify or show no gain.
Judge ==
    LET vetoed == \E k \in Triplets : ~journal[k].ok IN
    /\ p.at = "judge"
    /\ \/ vetoed /\ Verdict(FALSE)
       \/ ~vetoed /\ Cardinality(Triplets) >= Pairs /\ \E ok \in BOOLEAN : Verdict(ok)
       \/ ~vetoed /\ Cardinality(Triplets) < Pairs /\ Begins(At("runs"))
    /\ UNCHANGED <<setting, active, id, told, uncovered, starts>>

\* The runs of a triplet are recorded one by one, here as one, and then judged.
TripletRuns ==
    /\ p.at = "runs"
    /\ Recorded(Result("triplet_run", FALSE), At("triplet"))
    /\ UNCHANGED <<setting, active, id, told, uncovered, starts>>

TripletDone ==
    /\ p.at = "triplet"
    /\ \E ok \in BOOLEAN :
        Recorded(Result("triplet", ok), [At("judge") EXCEPT !.n = None])
    /\ UNCHANGED <<setting, active, id, told, uncovered, starts>>

-----------------------------------------------------------------------------
(* Activating. *)

Refused ==
    /\ p.at = "apply"
    /\ Recorded(Entry("activate_failed"), Kept)
    /\ UNCHANGED <<setting, active, id, told, uncovered, starts>>

\* The adapter answers with the setting before.
Apply ==
    /\ p.at = "apply"
    /\ p' = [At("applied") EXCEPT !.previous = setting]
    /\ setting' = p.action
    /\ UNCHANGED <<journal, torn, active, id, told, uncovered, starts, faults>>

RecordActivation ==
    /\ p.at = "applied"
    /\ Recorded([Entry("activate") EXCEPT !.previous = p.previous], At("envelope"))
    /\ uncovered' = (uncovered \/ torn')
    /\ UNCHANGED <<setting, active, id, told, starts>>

WriteEnvelope ==
    /\ p.at = "envelope"
    /\ p' = [At("recheck") EXCEPT !.previous = None]
    /\ active' = [id |-> id, action |-> p.action, previous |-> p.previous]
    /\ UNCHANGED <<journal, torn, setting, id, told, uncovered, starts, faults>>

\* The adapter must report the action and still give the reference's output.
Recheck ==
    /\ p.at = "recheck"
    /\ Begins([At("rerun") EXCEPT !.ok = (setting = p.action)])
    /\ UNCHANGED <<setting, active, id, told, uncovered, starts>>

Rechecked ==
    /\ p.at = "rerun"
    /\ \E ok \in {p.ok, FALSE} :
        Recorded(Result("recheck", ok),
                 [At(IF ok THEN "finish" ELSE "undo") EXCEPT !.n = None, !.ok = FALSE])
    /\ UNCHANGED <<setting, active, id, told, uncovered, starts>>

\* The outcome's action is Default where the reference is kept.
Finish ==
    /\ p.at = "finish"
    /\ Recorded(Entry("outcome"), At("tell"))
    /\ UNCHANGED <<setting, active, id, told, uncovered, starts>>

Tell ==
    /\ p.at = "tell"
    /\ p' = Off
    /\ told' = p.action
    /\ UNCHANGED <<journal, torn, setting, active, id, uncovered, starts, faults>>

-----------------------------------------------------------------------------
(* The world. *)

Fault == faults < MaxFaults /\ faults' = faults + 1

\* The run is killed, or an error of the adapter ends it.
Die ==
    /\ p.at # "off" /\ Fault /\ p' = Off
    /\ uncovered' = (uncovered \/ p.at = "applied")
    /\ UNCHANGED <<journal, torn, setting, active, id, told, starts>>

\* Between runs someone else takes the setting back, or the envelope is lost.
Reset ==
    /\ p.at = "off" /\ setting # Default /\ Fault
    /\ setting' = Default /\ told' = None
    /\ UNCHANGED <<journal, torn, active, id, p, uncovered, starts>>

LoseEnvelope ==
    /\ p.at = "off" /\ active # None /\ Fault
    /\ active' = None
    /\ UNCHANGED <<journal, torn, setting, id, p, told, uncovered, starts>>

Next ==
    \/ Start \/ Open \/ Recovered \/ CloseInterrupted \/ Opened
    \/ EnforceIdentity \/ Rollback \/ NothingActive \/ Revert \/ Quarantine \/ Reverted
    \/ Reference \/ ReferenceRun \/ Resume \/ Standing
    \/ BeginTest \/ Test \/ ExploreEnd \/ Explored \/ Champion
    \/ Qualify \/ AskAdapter \/ AdapterAnswers \/ Judge \/ TripletRuns \/ TripletDone
    \/ Refused \/ Apply \/ RecordActivation \/ WriteEnvelope \/ Recheck \/ Rechecked
    \/ Finish \/ Tell \/ Die \/ Reset \/ LoseEnvelope

Spec == Init /\ [][Next]_vars

-----------------------------------------------------------------------------
(* Properties. *)

Kinds ==
    {"recovered", "attempt", "attempt_interrupted", "rollback", "identity_rollback", "reference",
     "reference_failed", "outcome_invalidated", "test", "explore_end", "qualify_start",
     "qualify_end", "triplet_run", "triplet", "activate_failed", "activate", "recheck", "outcome"}

\* The shape of the state (coordinator.rs Coordinator, store.rs Journal::append).
TypeOK ==
    /\ \A k \in DOMAIN journal :
        /\ journal[k].kind \in Kinds /\ journal[k].id \in Identities
        /\ {journal[k].action, journal[k].previous} \subseteq Settings \cup {None}
        /\ journal[k].n \in Nat \cup {None} /\ journal[k].ok \in BOOLEAN
    /\ torn \in BOOLEAN /\ setting \in Settings /\ id \in Identities
    /\ active \in [id : Identities, action : Actions, previous : Settings] \cup {None}
    /\ p.cmd \in {"cycle", "rollback", None} /\ p.n \in Nat \cup {None} /\ p.ok \in BOOLEAN
    /\ {p.action, p.previous, told} \subseteq Settings \cup {None}
    /\ uncovered \in BOOLEAN /\ starts \in 0 .. MaxStarts /\ faults \in 0 .. MaxFaults

\* However runs die, an identity numbers its attempts apart, an attempt recorded
\* as interrupted has no whole measurement as well, and no action is screened
\* twice (coordinator.rs begin, close_interrupted, explore).
MeasuredOnce ==
    \A i \in Identities :
        /\ \A j, k \in Places(i, {"attempt"}) : journal[j].n = journal[k].n => j = k
        /\ \A j \in Places(i, {"attempt_interrupted"}), k \in DOMAIN journal :
            journal[k].id = i /\ journal[k].n = journal[j].n =>
                k = j \/ journal[k].kind = "attempt"
        /\ \A j, k \in Places(i, {"test"}) : journal[j].action = journal[k].action => j = k

\* Nothing is activated on another trial's evidence: before each activation comes
\* a verdict of its identity for its action, and before a verdict by the
\* coordinator all the triplets of its trial, none of them vetoed; and no
\* activation is made while the one before is open (coordinator.rs qualify,
\* activate, cycle).
EvidenceFirst ==
    \A i \in Identities : \A k \in Places(i, {"activate"}) :
        LET before(kinds, m) == LastOf({j \in Places(i, kinds) : j < m})
            verdict == before({"qualify_end"}, k)
            trial == before({"qualify_start"}, verdict)
            seen == {j \in Places(i, {"triplet"}) : trial < j /\ j < verdict}
        IN /\ trial # 0 /\ journal[verdict].ok
           /\ journal[verdict].action = journal[k].action
           /\ journal[trial].action = journal[k].action
           /\ i \notin OwnEvaluator =>
                /\ Cardinality(seen) = Pairs
                /\ \A j \in seen : journal[j].ok /\ journal[j].action = journal[k].action
           /\ before({"activate"}, k) <= before(Undone \cup {"outcome"}, k)

\* What a run said is in force is: an activated action is the adapter's setting,
\* and a kept reference or a rollback left nothing applied, whatever died, was
\* lost or belonged to another identity in between.  The exception is a setting
\* of a run that died between the adapter's apply and its record, or whose record
\* or file another identity does not read (coordinator.rs cycle, rollback,
\* enforce_identity).
Truthful == told # None /\ ~uncovered => setting = told

=============================================================================
