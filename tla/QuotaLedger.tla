----------------------------- MODULE QuotaLedger -----------------------------
(***************************************************************************)
(* How the processes of one project spend a free accelerator quota:          *)
(* QuotaController of friday_evidence/portable/quota.py, and the two          *)
(* commands that submit jobs with it, _run_cloud() of cli.py and              *)
(* run_provider_smoke() of kaggle_probe.py.                                   *)
(*                                                                         *)
(* The ledger is an append-only journal under a file lock; it is kept here    *)
(* as what _state() reads from it.  A process may die at any step.  The       *)
(* provider runs the jobs and meters them; the quota starts anew in each      *)
(* window, and the provider may revise its total.                             *)
(*                                                                         *)
(* The provider displays its quota in rounded figures, so what a command sees *)
(* is up to half a display quantum off, and the ledger tolerates as much.     *)
(*                                                                         *)
(* Left out: the account's preflight, how an amount follows from a timeout,   *)
(* what a report says, a record that cannot be written (its process dies      *)
(* instead), a second resource.  Evidence may be too old at any time.         *)
(***************************************************************************)
EXTENDS Naturals, FiniteSetsExt

CONSTANTS
  Procs,       \* processes of the two commands
  Cloud,       \* those that run _run_cloud(); the others run_provider_smoke()
  Slugs,       \* run slugs, each the name of one job at the provider
  SlugOf,      \* the slug a process runs; that of _run_cloud() is its spec's
  Amount,      \* seconds a process reserves: its timeout and the overhead
  Totals,      \* quotas the provider may grant for a window
  CapOf,       \* of a total: what the project may reserve in a window
  Spare,       \* _POST_JOB_RESERVE_SECONDS
  Half,        \* half a display quantum: display_resolution_seconds / 2
  Second,      \* the second by which deltas may differ whatever the display
  MaxUsed,     \* bound: seconds metered in a window
  MaxTotal,    \* bound: the total of a window
  MaxWindows,  \* bound: windows
  None

ASSUME ProcAssumption ==
  /\ Cloud \subseteq Procs
  /\ SlugOf \in [Procs -> Slugs]
  /\ Amount \in [Procs -> Nat]
\* A probe's slug ends in a number of its own.
ASSUME ProbeAssumption ==
  \A p \in Procs \ Cloud : \A q \in Procs \ {p} : SlugOf[q] # SlugOf[p]
\* The cap is a share of the total with a ceiling, so it grows with the total.
ASSUME QuotaAssumption ==
  /\ {Spare, Half, Second, MaxUsed, MaxTotal, MaxWindows} \subseteq Nat /\ MaxWindows > 0
  /\ Totals \subseteq 0..MaxTotal /\ Totals # {}
  /\ CapOf \in [0..MaxTotal -> Nat]
  /\ \A a, b \in 0..MaxTotal : a <= b => CapOf[a] <= CapOf[b]

VARIABLES
  (* the ledger *)
  reserved,  \* of each slug: its reservation, or None
  frozen,
  lock,      \* the process that holds the lock between two records, or None
  (* the processes *)
  proc,      \* where it is, and the quota it has seen and not yet used, or None
  (* the provider *)
  job,       \* of each slug: none, running, ended
  window, total, used,
  (* histories *)
  pushes,    \* how often each job was submitted
  most,      \* the largest total granted in this window
  excused    \* in this window a job was reviewed, or its overshoot not recorded

ledgerVars == <<reserved, frozen, lock>>
meterVars == <<window, total, used, most>>
vars == <<ledgerVars, proc, job, meterVars, pushes, excused>>

-----------------------------------------------------------------------------
\* What a command has seen: the total less display_half, used and remaining.
Seen == [window : 1..MaxWindows, total : 0..MaxTotal,
         used : 0..MaxUsed + Half, left : 0..MaxTotal + Half]

\* run_id, reserved_seconds, the snapshot, and whether it is reconciled.
Reservation == [by : Procs, amount : Nat, seen : Seen, done : BOOLEAN]

ASSUME NoneAssumption == None \notin Procs \cup Reservation

Less(a, b) == IF a > b THEN a - b ELSE 0

\* What may be displayed for an amount: the nearest whole number of quanta.
Displayed(amount) ==
  IF Half = 0 THEN {amount}
  ELSE {shown \in Less(amount, Half)..(amount + Half) : shown % (2 * Half) = 0}

\* The quota the provider may display now.  What is used and what remains make the
\* total but for their rounding, else it is not parsed.
Snapshots ==
  [window : {window}, total : {Less(shown, Half) : shown \in Displayed(total)},
   used : Displayed(used), left : Displayed(total - used)]

\* rounding_allowance: two displays are compared, each of a whole quantum.
Allowance == IF 4 * Half > Second THEN 4 * Half ELSE Second

\* Reservations not reconciled yet.
Active == {s \in Slugs : reserved[s] # None /\ ~reserved[s].done}

\* What was reserved in a window, and the seconds of it.
Charged(w) == {s \in Slugs : reserved[s] # None /\ reserved[s].seen.window = w}
Already(w) == MapThenSumSet(LAMBDA s : reserved[s].amount, Charged(w))

\* A process whose reservation is in the ledger.
Owns(p) == reserved[SlugOf[p]] # None /\ reserved[SlugOf[p]].by = p

Steps == {"new", "quoted", "reserved", "staged", "pushed", "ended", "requoted",
          "checked", "overshot", "settled", "unknown", "over"}

\* Where a command has a quota it has seen.
Looking == {"quoted", "requoted", "checked"}

At(p, step) == proc[p].at = step

Goes(p, from, to, quota) ==
  At(p, from) /\ proc' = [proc EXCEPT ![p] = [at |-> to, quota |-> quota]]

Go(p, from, to) == Goes(p, from, to, None)

\* An exception: _run_cloud() freezes the ledger, a probe just ends.
Raised(p) == IF p \in Cloud THEN "unknown" ELSE "over"

Init ==
  /\ reserved = [s \in Slugs |-> None] /\ frozen = FALSE /\ lock = None
  /\ proc = [p \in Procs |-> [at |-> "new", quota |-> None]]
  /\ job = [s \in Slugs |-> "none"]
  /\ window = 1 /\ used = 0 /\ total \in Totals /\ most = total
  /\ pushes = [s \in Slugs |-> 0] /\ excused = FALSE

-----------------------------------------------------------------------------
(* Before the job. *)

\* client.quota() of a process that begins.
Quote(p) ==
  /\ used <= total /\ \E seen \in Snapshots : Goes(p, "new", "quoted", seen)
  /\ UNCHANGED <<ledgerVars, job, meterVars, pushes, excused>>

\* is_fresh(): a window that has ended makes its quota stale; so may the clock.
Fresh(p) == proc[p].quota.window = window

Record(p) ==
  [by |-> p, amount |-> Amount[p], seen |-> proc[p].quota, done |-> FALSE]

\* A mistake: a slug may be reserved again once it is reconciled.
ReserveMutantRetry(p) ==
  LET seen == proc[p].quota IN
  /\ Go(p, "quoted", "reserved")
  /\ lock = None /\ Fresh(p) /\ ~frozen
  /\ Active = {}
  /\ Already(seen.window) + Amount[p] <= CapOf[seen.total]
  /\ Amount[p] + Half + Spare <= seen.left
  /\ reserved' = [reserved EXCEPT ![SlugOf[p]] = Record(p)]
  /\ UNCHANGED <<frozen, lock, job, meterVars, pushes, excused>>

\* reserve(): all checks again, under the lock.
Reserve(p) ==
  LET seen == proc[p].quota IN
  /\ Go(p, "quoted", "reserved")
  /\ lock = None /\ Fresh(p) /\ ~frozen
  /\ reserved[SlugOf[p]] = None /\ Active = {}
  /\ Already(seen.window) + Amount[p] <= CapOf[seen.total]
  /\ Amount[p] + Half + Spare <= seen.left
  /\ reserved' = [reserved EXCEPT ![SlugOf[p]] = Record(p)]
  /\ UNCHANGED <<frozen, lock, job, meterVars, pushes, excused>>

\* The window grants less than was reserved in it: the ledger freezes for good.
Shrunk(p) ==
  /\ Go(p, "quoted", "over")
  /\ lock = None /\ Fresh(p) /\ ~frozen
  /\ reserved[SlugOf[p]] = None /\ Active = {}
  /\ Already(proc[p].quota.window) > CapOf[proc[p].quota.total]
  /\ frozen' = TRUE
  /\ UNCHANGED <<reserved, lock, job, meterVars, pushes, excused>>

\* A check fails; the evidence may always have become too old.
Refuse(p) ==
  /\ Go(p, "quoted", "over")
  /\ UNCHANGED <<ledgerVars, job, meterVars, pushes, excused>>

\* The bundle and its dataset are ready; a probe only writes its files.
Stage(p) ==
  /\ Go(p, "reserved", "staged")
  /\ UNCHANGED <<ledgerVars, job, meterVars, pushes, excused>>

StageFails(p) ==
  /\ p \in Cloud
  /\ Go(p, "reserved", "unknown")
  /\ UNCHANGED <<ledgerVars, job, meterVars, pushes, excused>>

\* client.push(): the job runs; or an error is raised, and it may run or not.
Push(p) ==
  /\ pushes' = [pushes EXCEPT ![SlugOf[p]] = @ + 1]
  /\ \/ Go(p, "staged", "pushed") /\ job' = [job EXCEPT ![SlugOf[p]] = "running"]
     \/ /\ Go(p, "staged", "unknown")
        /\ \/ job' = [job EXCEPT ![SlugOf[p]] = "running"]
           \/ UNCHANGED job
  /\ UNCHANGED <<ledgerVars, meterVars, excused>>

-----------------------------------------------------------------------------
(* After the job. *)

\* A mistake: the last answer before the deadline is taken for the end.
PollMutant(p) ==
  /\ Go(p, "pushed", "ended")
  /\ UNCHANGED <<ledgerVars, job, meterVars, pushes, excused>>

\* The provider says that the job is complete, failed or cancelled.
Poll(p) ==
  /\ Go(p, "pushed", "ended") /\ job[SlugOf[p]] = "ended"
  /\ UNCHANGED <<ledgerVars, job, meterVars, pushes, excused>>

\* No end was seen before the deadline.
PollTimesOut(p) ==
  /\ Go(p, "pushed", "unknown")
  /\ UNCHANGED <<ledgerVars, job, meterVars, pushes, excused>>

\* The provider's answer cannot be used.
PollFails(p) ==
  /\ Go(p, "pushed", Raised(p))
  /\ UNCHANGED <<ledgerVars, job, meterVars, pushes, excused>>

\* client.quota() once more.
Requote(p) ==
  /\ used <= total /\ \E seen \in Snapshots : Goes(p, "ended", "requoted", seen)
  /\ UNCHANGED <<ledgerVars, job, meterVars, pushes, excused>>

RequoteFails(p) ==
  /\ Go(p, "ended", "unknown")
  /\ UNCHANGED <<ledgerVars, job, meterVars, pushes, excused>>

\* reconcile_terminal() finds evidence that is stale or of another window: it freezes
\* the ledger and raises.
Unresolved(p) ==
  /\ Go(p, "requoted", "unknown")
  /\ UNCHANGED <<ledgerVars, job, meterVars, pushes, excused>>

\* It finds none, and waits for the lock.
Check(p) ==
  LET seen == proc[p].quota IN
  /\ Goes(p, "requoted", "checked", seen)
  /\ Fresh(p) /\ (Owns(p) => seen.window = reserved[SlugOf[p]].seen.window)
  /\ UNCHANGED <<ledgerVars, job, meterVars, pushes, excused>>

\* The ledger is open and still counts the command's reservation.
Settleable(p) == ~frozen /\ Owns(p) /\ ~reserved[SlugOf[p]].done

\* Both quotas are of one window; what is used did not fall, what remains did not grow,
\* and they moved alike, all within the allowance.
Matches(p) ==
  LET before == reserved[SlugOf[p]].seen
      after == proc[p].quota
  IN  /\ before.window = after.window
      /\ before.used <= after.used + Allowance
      /\ after.left <= before.left + Allowance
      /\ after.used + after.left <= before.used + before.left + Allowance
      /\ before.used + before.left <= after.used + after.left + Allowance

\* A mistake: the overshoot stays that of the elapsed time, and there is none.
OvershotMutant(p) == FALSE

\* The observed cost is larger than what was reserved, beyond the allowance.
Overshot(p) ==
  LET before == reserved[SlugOf[p]].seen
      after == proc[p].quota
      limit == reserved[SlugOf[p]].amount + Allowance
  IN  after.used > before.used + limit \/ before.left > after.left + limit

\* reconcile_terminal() under the lock: it freezes the ledger if the quotas moved
\* differently, else the charge is recorded; an overshoot needs another record before
\* the lock is given back.
Reconcile(p) ==
  /\ lock = None
  /\ \/ /\ ~Settleable(p)
        /\ Go(p, "checked", Raised(p))
        /\ UNCHANGED ledgerVars
     \/ /\ At(p, "checked") /\ Settleable(p) /\ ~Matches(p)
        /\ Go(p, "checked", Raised(p))
        /\ frozen' = TRUE
        /\ UNCHANGED <<reserved, lock>>
     \/ /\ At(p, "checked") /\ Settleable(p) /\ Matches(p)
        /\ Go(p, "checked", IF Overshot(p) THEN "overshot" ELSE "settled")
        /\ reserved' = [reserved EXCEPT ![SlugOf[p]].done = TRUE]
        /\ lock' = IF Overshot(p) THEN p ELSE None
        /\ UNCHANGED frozen
  /\ UNCHANGED <<job, meterVars, pushes, excused>>

RecordOvershoot(p) ==
  /\ Go(p, "overshot", Raised(p))
  /\ frozen' = TRUE /\ lock' = None
  /\ UNCHANGED <<reserved, job, meterVars, pushes, excused>>

\* The result is imported, or it is no success and the ledger will freeze.
Collect(p) ==
  /\ Go(p, "settled", "over") \/ Go(p, "settled", "unknown")
  /\ UNCHANGED <<ledgerVars, job, meterVars, pushes, excused>>

\* mark_submission_unknown(), mark_terminal_unknown(), mark_quota_unknown() and
\* mark_provider_failed().
MarkFrozen(p) ==
  /\ lock = None /\ Owns(p)
  /\ Go(p, "unknown", "over")
  /\ frozen' = TRUE
  /\ UNCHANGED <<reserved, lock, job, meterVars, pushes, excused>>

\* The process dies; the kernel gives its lock back.
Die(p) ==
  /\ proc[p].at \notin {"new", "over"}
  /\ Go(p, proc[p].at, "over")
  /\ lock' = IF lock = p THEN None ELSE lock
  /\ excused' = (excused \/ At(p, "overshot"))
  /\ UNCHANGED <<reserved, frozen, job, meterVars, pushes>>

-----------------------------------------------------------------------------
(* The operator and the provider. *)

\* review_frozen_terminal(): somebody has seen that the job ended, in the window it
\* was reserved in.
Review(s) ==
  /\ lock = None /\ frozen
  /\ Active = {s} /\ reserved[s].seen.window = window
  /\ job[s] = "ended"
  /\ frozen' = FALSE
  /\ reserved' = [reserved EXCEPT ![s].done = TRUE]
  /\ excused' = TRUE
  /\ UNCHANGED <<lock, proc, job, meterVars, pushes>>

\* A running job is metered.
Meter(s) ==
  /\ job[s] = "running" /\ used < MaxUsed
  /\ used' = used + 1
  /\ UNCHANGED <<ledgerVars, proc, job, window, total, most, pushes, excused>>

JobEnds(s) ==
  /\ job[s] = "running"
  /\ job' = [job EXCEPT ![s] = "ended"]
  /\ UNCHANGED <<ledgerVars, proc, meterVars, pushes, excused>>

\* The provider revises the total of the window.
Revise ==
  /\ total' \in Totals \ {total}
  /\ most' = IF total' > most THEN total' ELSE most
  /\ UNCHANGED <<ledgerVars, proc, job, window, used, pushes, excused>>

\* The quota starts anew.
Reset ==
  /\ window < MaxWindows
  /\ window' = window + 1 /\ used' = 0
  /\ total' \in Totals /\ most' = total'
  /\ excused' = FALSE
  /\ UNCHANGED <<ledgerVars, proc, job, pushes>>

-----------------------------------------------------------------------------
Command(p) ==
  \/ Quote(p) \/ Reserve(p) \/ Shrunk(p) \/ Refuse(p)
  \/ Stage(p) \/ StageFails(p) \/ Push(p)
  \/ Poll(p) \/ PollTimesOut(p) \/ PollFails(p)
  \/ Requote(p) \/ RequoteFails(p) \/ Unresolved(p) \/ Check(p)
  \/ Reconcile(p) \/ RecordOvershoot(p) \/ Collect(p) \/ MarkFrozen(p)

Next ==
  \/ \E p \in Procs : Command(p) \/ Die(p)
  \/ \E s \in Slugs : Review(s) \/ Meter(s) \/ JobEnds(s)
  \/ Revise \/ Reset

Spec == Init /\ [][Next]_vars

-----------------------------------------------------------------------------
(* Properties *)

\* The shape of the state.
TypeOK ==
  /\ reserved \in [Slugs -> Reservation \cup {None}]
  /\ {frozen, excused} \subseteq BOOLEAN /\ lock \in Procs \cup {None}
  /\ proc \in [Procs -> [at : Steps, quota : Seen \cup {None}]]
  /\ \A p \in Procs : proc[p].at \in Looking => proc[p].quota \in Seen
  /\ job \in [Slugs -> {"none", "running", "ended"}]
  /\ window \in 1..MaxWindows /\ used \in 0..MaxUsed
  /\ {total, most} \subseteq Totals /\ pushes \in [Slugs -> Nat]

\* A job at the provider is one the ledger still counts, so there is never a second
\* one beside it ("one-active-job controller", reserve(), reconcile_terminal()).
OneJob ==
  /\ \A s \in Slugs : job[s] = "running" => s \in Active
  /\ \A s, t \in Active : s = t

\* A job is submitted once, whatever dies and however often its command is started
\* again (reserve(): "retries are forbidden").
SubmittedOnce == \A s \in Slugs : pushes[s] <= 1

\* How far a settled job may have overspent: the allowance, and half a quantum in each
\* of the two displays that are compared.
Rounding == Allowance + 2 * Half

\* Between jobs, with the ledger open, the window's quota is not spent beyond what the
\* project may reserve in it and the rounding of each of its jobs (reserve(),
\* reconcile_terminal(), _state()).
CapKept ==
  ~frozen /\ lock = None /\ Active = {} /\ ~excused =>
    used <= CapOf[most] + Cardinality(Charged(window)) * Rounding
=============================================================================
