# IronMule in TLA+

This directory models the parts of IronMule in which order, failure and restart decide: the serving
path of `src/ironmule_product` (how requests are admitted, grouped, served, cancelled and answered,
and how one model worker is kept alive), the three places that learn a policy from live traffic and
may have to take it back (the agent, live learning, and the local dispatch of `src/ironmule`), and
the native optimizer, whose runs may die at any step of a journaled cycle, and the ledger by which
separate commands share one accelerator quota. The modules are translated from the code and checked
with TLC on small instances; their safety properties, and the refinement of `GroupService` by
`BatchProtocol`, are also proved with TLAPS, for every value of their constants. Liveness is checked
by TLC only.

`PROJECT.json` maps every definition to the source lines it models and lists components, runs,
mutants, findings, hazards and theorems.

## The system and its parts

| Part | Code | State | Operations | Hard behaviour | Module |
|---|---|---|---|---|---|
| Product scheduler | `ironmule_product/service.py` | queue, carry, sessions, group, counters, events per session | `stream`, `cancel`, `_next_session`, `_group_for`, `_perform*`, `joins`, `_deliver`, `_retire`, `close` | one scheduler thread, one consumer thread per member, callers, joins and hand-backs, cancels and deadlines at any time | `ProductScheduler` |
| Worker recovery | `service.py` `_recover`, `close`; `backend.py` `start`, `close`, `_mark_unusable`; `cli.py` `IdleTuner` | backend object, process, exit record, restart window, identity | replace, refuse, tune in idle time, shut down | a process that does not end, locks held across a load, close() during a start | `WorkerRecovery` |
| Serving protocol, worker | `backend.py` `complete_batch`; `worker.py`; `executor.py` rounds | command pipe, frames, joins, pending cancels | send, read, join, cancel, drain | joins that cross the end of a batch, early and late cancels | `BatchProtocol`, `GroupService` |
| Agent | `agent.py` | serving policy, candidate, audit, withdrawn and rejected schedules, counts, state file | decide, observe, plan, compare, withdraw, control, save, close | steps with the lock released, an operator between any two, a crash | `Agent` |
| Live learning | `live_learning.py` | candidate, comparison, active policy, watch, snapshots, state file | decide, complete, replay, control, write, close, restore | windows without the lock, a writer thread behind, a crash | `LiveLearning` |
| Local dispatch | `ironmule/router.py`, `activation.py`, `monitoring.py`, `local_learner.py`, `requalification.py` | controller state, kill record, requalification record, monitor state | load, gate a cohort, serve, observe, kill, requalify | several processes on the same four files, each dying at any step | `LocalActivation` |
| Optimizer calls | `native/optimizer` `proc.rs`, `adapter.rs`, gate of `imopt.rs` | lease, lifelines, process groups | gate, call, supervise, time out, signal | a dead run and the processes it started | `Supervision` |
| Optimizer cycle | `native/optimizer` `coordinator.rs`, `store.rs`, `qualify.rs` | journal, envelope, the adapter's setting | cycle, rollback, enforce identity, resume | a death between any two records, another identity's setting | `Coordinator` |
| Quota ledger | `friday_evidence/portable` `quota.py`, `cli.py`, `kaggle_probe.py` | journal of reservations, freezes and charges; the provider's meter | quote, reserve, submit, poll, reconcile, freeze, review | commands that die between two records, evidence that ages, totals that change | `QuotaLedger` |

Interactions. HTTP handler threads call `stream()` and iterate the generator it returns; the
scheduler thread calls the backend, which talks to the worker process over pipes; consumer threads
move a member's frames from the scheduler's callback to its caller; `close()` runs on the thread
that shuts the server down. Threads share the queue, the carry, the sessions and the backend. The
agent and the live learner are called by the scheduler thread (to decide a group, to hear of its
outcome, and in idle time) and by the handler threads of the operator; the first has a planner
process, the second a writer thread. The local dispatch is a library several processes load; they
meet only in files. A run of the optimizer calls its adapter through supervisor processes it does
not outlive by more than a signal. The commands that spend the quota meet in one locked journal and
at the provider.

What makes the parts correct:

- scheduler: every admitted request is in one place, is served once, is retired once, is counted
  once, and its caller hears of it; the order promised is kept; capacity and queue bounds hold; a
  healthy worker is kept;
- recovery: never two workers on one device; a lost worker is replaced or refused; the replacement
  has the identity of the service; nothing is left after `close()`;
- protocol: every request of a batch gets exactly one terminal frame or is handed back; a cancel
  ends its own request and no other;
- agent, live learning: what was withdrawn or rolled back does not come back, through no plan,
  comparison, control, file or restart; evidence is of one piece; a policy is blamed for its own
  failures only;
- local dispatch: the candidate serves only where everything that allows it holds at that moment; a
  kill and a doubt outlive their process; old evidence is never deleted;
- optimizer: no measurement runs beside another; the journal counts nothing twice; nothing is
  activated without the evidence of its own trial; a report says what the adapter runs with;
- quota ledger: one job at a time, each submitted once; no more spent than may be reserved, but for
  the tolerance of each job's reconciliation.

## Modules

### `ProductScheduler` (and `MCScheduler`, `ProductScheduler_proofs`)

A request is a model value, submitted at most once. State and code:

- `pending`, `carry`, `sessions`, `unfinished` are `_pending`, `_carry`, the keys of `_sessions`
  and `_pending.unfinished_tasks`; `admitted`, `started` and `aged` are histories (admission order,
  order of start, how many have waited longer than `SJF_AGE_S`).
- `cancelled`, `backendCancel`, `expired`, `events`, `outcome` are the fields of a session;
  `caller` is where the caller's generator is or how it ended.
- `pc`, `group`, `width`, `mode`, `live`, `joined`, `active` are the scheduler thread.
- `serve`, `tokens`, `frames` are the worker and the frames read from it; `deliver`, `stopped` and
  `count` are the consumers.

Actions are the callers' steps (`Admit` to `CallerLeaves`), the scheduler's (`NextSession`,
`NextSorted`, `OrderWaiting`, `TakeCompany`, `CloseGroup`, `Perform`, `Join`, `GroupDone`,
`GroupDrained`, `Retire`), the worker's, the delivery's (`Consume*`, `Finish*`, `Drain`, and `Record`,
which counts a request and records its outcome after its caller may have read its end) and
`close()` in four steps. A group runs in one of three modes, as in `_perform` and `_perform_batch`:
`single` (one request through `stream`), `buffered` (a batch whose events are delivered after it)
and `streaming` (a batch with callbacks and joins).

Abstractions: tokens are counted, not spelled; a stop string is a property of the request and the
token that completes it carries no text of its own; the tail a `StopFilter` holds back is not
modelled; which requests the worker rejects is a constant. The worker is external: it answers
every request with tokens and one terminal frame, or hands back a joiner it has not served, or
dies. `Recover` is one step here. `close()` waits for the scheduler for a bounded time only, so
`CloseDrop` may overtake it. The learned dispatch policy and the agent appear as any choice of
order and width.

### `WorkerRecovery` (and `MCRecovery`, `WorkerRecovery_proofs`)

A backend is one `MLXWorkerClient` and the process it owns: `proc`, `usable`, `attached` (`_process`
is set), `payload` (the reported identity), `lastExit` and the holder of its lock. The scheduler
runs `_recover()` step by step, with `old.close()`, `start()` (which holds the lock until the worker
has reported) and `fresh.close()` as several steps each; groups are reduced to ending, failing
(`_mark_unusable` without the lock) or giving the worker up with `close()`. The idle tuner closes
the worker, tunes and loads a fresh one on the same thread. `close()` of the service is a second
thread that reads what to stop under the service lock and then stops it.

Environment: a worker may die at any moment (`Die`), a killed process may fail to end within the
waits (`stuck`, at most `MaxStuck` at a time), the profile on disk may change (`Retune`), a restart
may fall out of the ten-minute window (`Expire`, any number of times). `late` remembers that the
tuner made its fresh worker after `close()` had read which worker to stop. An object is unused
when nothing refers to it and its process has ended; close() forgets the objects it has stopped. A
new backend is any unused object, the same one each time (`AnUnused`), since which one makes no
difference; so three objects stand for any number, and `Resolved` and `CloseEnds` show that `Make`
and `EndTune` never block for want of one. `MCView` identifies states that differ only in the looks
of unused objects or in the names of the two profiles, which are only ever compared.

### `BatchProtocol` and `GroupService` (and `MCBatch`, `BatchProtocol_proofs`)

`GroupService` is what the scheduler relies on: a request that enters a batch gets its tokens in
order and one end (produced to its limit, cancelled because its caller asked, or rejected before any
token), or comes back with nothing streamed. `BatchProtocol` is how `complete_batch()` and the
worker keep that, and implements it: `out` is the requests of `request_list` without a terminal,
`tokens` the lengths of `events_by_id`, `answer` the terminals.

Four actors: callers that cancel; the client's loop (`Start`, `Poll`, `Read*`), which sends due
cancels and new joiners before it looks at each frame and gives the worker up on any frame its
checks refuse (`ReadInvalid`); the worker's receiver thread (`Receive*`), which puts a command into
the queue, a join into `JOINS` and a cancel onto its request or into the capped set; and the
worker's main thread, `_run_engine_batch` (`TakeCommand`, `Round`, `Report`, `NoRowsLeft`,
`Cleanup`) with the rounds of the executor inside it (`Prefill`, `Admit`, `Form`, `Decode`). `Admit`
is the worker's `admit()`: joiners are rejected, take part in the run, wait for a slot, or are left
for a run of their own. The variables of one batch are dropped with it, as a function's locals are;
`limit` is the local that the loop in `Report` overwrites.

The engine is one of two: the tuned one, without a limit and with room for everyone, and the dense
plan, with a limit per request and as many slots as the client puts in a group. It may raise once.

### `Agent` (and `MCAgent`, `Agent_proofs`)

`m` is what `_save` writes of the agent (`_policy`, `_candidate`, `_audit`, `_withdrawn`,
`_rejected`, whether the world model is stale, the pause); `live` the counts that may withdraw a
policy and that no file keeps; `planner` the planner process and what it was told to exclude;
`sched` where the scheduler thread is in a group or an idle step; `operator` and `closer` the other
two threads; `file` the state file. `GroupStart`, `DecideFails` and `GroupEnd` are a live group with
its errors and its monitoring window. Idle time collects a plan (`IdleCollect`), chooses what to do
(`Look`, `Choose`), replays the arms of one triplet of the comparison or of the audit with the lock
released (`Bind`, `Arm`, `Finish`), judges it (`Qualify`, `Audit`), or starts a plan (`StartPlan`,
`Popen`), and saves (`IdleSave`, `IdleWrite`). `Off` and `On` are the operator's control, `OffStops`
the end of the planner after it. `Close*` saves and may overtake a scheduler that outlives the two
seconds it waits (`outlived`); `Restart` is a crash or an exit followed by `_load`, which sets a
state aside that fails its checks.

Left out: the world model, the traffic memory, training, and every clock: whether a plan may start,
whether arrivals for a window exist, what a window finds and whether a save is due are choices.
`standing` is a history: the policies that passed a comparison since the file last named them
withdrawn.

### `LiveLearning` (and `MCLearning`, `LiveLearning_proofs`)

`m` is what a snapshot holds (candidate, active policy, comparison, trials, the tables the native
learner knows or froze); `mode`, `evaluating`, `pending`, `watch` are what it does not; `saver` is
the slot of the writer thread, where a newer snapshot replaces one that waits; `lock` says that a
control or `close` waits for the writer with the learner's lock held; `asked` counts the controls
that `learning_control` let in and that have no lock yet. The scheduler decides and
completes groups (`Decide`, `Complete`), and in idle time freezes a candidate (`Idle`) or replays one
window of the triplet or the comparison with the lock released (`StartWindow`, `QualifyStep`,
`CompareStep`), so that a control can come between a window's start and its end. A control is let in (`Ask`) and acts
when it has the lock, by then perhaps on a learner that failed or that `close` has freed: it pauses,
resumes, rolls back, activates, compares, freezes, or starts and ends an evaluation. It returns when
its snapshot is on disk or its write failed; on a freed learner it returns at once and saves nothing. `Restart` restores the file,
drops an unfinished triplet and serves what the file calls active.

Left out: the native learner and its dreams, budgets, the suspension of replays and the numbers a
verdict rests on: which table is greedy, when a candidate or window is due and what a window finds
are choices. `since`, `cut` and `gone` are histories for the three properties: `cut` is set by every
pause and restart and cleared only when another triplet is begun; `gone` are the policies whose rollback
was in the file when it was answered.

### `LocalActivation` (and `MCLocal`, `LocalActivation_proofs`)

Four files (`controller`, `killed`, `required`, `monitorFile`; `archived` is the epochs a
requalification moved aside) and two kinds of process. A runtime (`rt[r]`) loads in the order of
`AppleRuntime.load` (controller, requalification record and monitor's file, kill record), then for each
dispatch splits it into cohorts, asks the gate for each (`for_dispatch`: enabled, nothing to
requalify, an interactive route, a class the controller qualifies), serves it, and observes it
afterwards; a full window may have drifted, which is doubt in memory, then writes the
requalification record, then the monitor's own state; either write may fail, which ends the
dispatch. `Offer` is a session a caller offers to the learner of its own process;
`decide_state` is translated whole. An anomaly or an error kills the dispatch in the process first
and then writes the record, which may fail (`WriteKill`). `ironmule requalify` compares, archives the
old epoch, writes the new, clears the record and renames the monitor's state, with a death possible
between any two. The machine's build may change between processes.

Left out: superseded segments, the silicon profile, guarded children, the adaptive runtime; times
and intervals are reduced to where the pooled interval lies, and drift is a choice. `epochs`,
`cleared` and the fields `late` and `unwritten` are histories.

### `Supervision` (and `MCSupervision`; its theorems are in `Coordinator_proofs`)

A run of `imopt` takes the lease of the state directory exclusively once (`PassGate`, or `Refuse`
after its wait), and then each adapter call spawns a supervisor with a pipe as its lifeline. The
supervisor takes the lease shared, only then looks whether the lifeline is open and no signal has
come (`Check`), starts the adapter in a group of its own, and ends the group when the adapter exits,
the lifeline closes or a signal comes. `beside` is a history: the runs that were up when a run passed
its gate. A supervisor killed with SIGKILL and processes that leave the adapter's group are left out,
as `proc.rs` leaves them out.

### `Coordinator` (and `MCCoordinator`, `Coordinator_proofs`)

`journal` is the records of `Journal`, `torn` a half-written last line, `active` the envelope
`active.json`, `setting` what the adapter runs with; these survive. `p` is the running process: where
it is in `cycle()` or `rollback()`, the action in hand, the setting before it and the number of the
measurement under way. Every step is one record, one file replaced or one effect of the adapter, and
a process may die at each (`Recorded` may tear its record, `Die` comes anywhere). A start cuts the
torn tail, closes attempts without a result, reverts another identity's setting
(`EnforceIdentity`, `Revert`, `Quarantine`, `Reverted`), measures the reference, finishes an
activation that has no outcome (`Resume`), lets an outcome stand or invalidates it (`Standing`), and
otherwise screens, chooses, qualifies with the adapter's own evaluator or with triplets, applies,
rechecks and reports (`Tell`).

Left out: costs, seconds and budgets (an exploration may end after any test), the planner, its
checkpoint and the transfer between identities (the champion is any usable tested action or none),
actions of class `tested_only`, `detect` records, damaged files. Errors of the adapter that end a run
are deaths. One command runs at a time, which `Supervision` shows of calls but not of commands (see
the divergences). `uncovered` is a history: a setting was applied that nothing the next run reads
tells of; `Truthful` excepts it.

### `QuotaLedger` (and `MCQuota`, `QuotaLedger_proofs`)

The ledger is what `_state()` reads from the journal: of each slug its reservation, whether it is
reconciled, and whether the ledger is frozen (`reserved`, `frozen`); `lock` is held between two
records only where an overshoot needs a second one. `proc` is where each command is, and the quota
it has seen and not used yet. A command of `_run_cloud()` or of `run_provider_smoke()` quotes,
reserves under the lock, stages, pushes, polls, quotes again, checks that evidence before it has the
lock (`Check`) and reconciles under it; each of these can fail, after which `_run_cloud()` freezes
the ledger and a probe just ends; each can be the last before the process dies. A display is rounded
to the nearest quantum of twice `Half`; `reserve` takes the lower bound of the total and of what
remains, and `reconcile_terminal` tolerates `Allowance`, the larger of a second and the two displays'
quanta, before it calls two movements inconsistent (`Matches`) or a cost an overshoot (`Overshot`). `Review` is the operator's `review_frozen_terminal()`. The provider is
external: a running job is metered and ends, the total may be revised, and the quota starts anew in
each window, after which earlier evidence is stale.

Left out: the account's preflight, how an amount follows from a timeout, what a report says, a second
resource, a record that cannot be written (its process dies instead). Evidence may be too old at any time. `pushes`, `most` and `excused` are histories: how
often each job was submitted, the largest total granted in this window, and whether a job of this
window was reviewed or an overshoot lost its record.

## What the runs show

| Run | Instance | Shows |
|---|---|---|
| `sched_stream` | streamed groups in arrival order, joins, hand-backs, one disturbance | every request in one place, task accounting, arrival order, capacity, bounded queue |
| `sched_buffered` | buffered and single paths, deciding dispatch policy, deadlines, stops, rejections, two disturbances | counting, and that what a caller was told agrees with the counters |
| `sched_live` | one stream, shortest first, a rejected request, fair threads | every caller is answered, every session retired |
| `recovery` | three backends, two profiles, one restart in the window, one stuck process, one failed tune, fair threads | never two workers loading or serving, groups only on the right identity, nothing left after `close()` but the worker of a late tuner; a lost worker is replaced or refused, provided restarts do not leave the window for ever; `close()` and the scheduler end |
| `protocol` | three requests, two batches, both engines, two cancels and room for one early cancel, one exception, fair threads | the client never gives a healthy worker up, a cancel is lost only to a full set of early cancels, `GroupService` is implemented, every batch ends |
| `protocol_limit` | the same with one batch, no cancel, no exception | the divergence of Findings 1 |
| `activation` | one runtime after another, two builds, two dispatches, two faults, one requalification, one offer | the gate follows the decision, kills are final, doubt that could be recorded and old epochs are kept |
| `agent` | two policies, two controls, one plan, one restart | what was withdrawn stays off, blame is for one's own, no file brings a withdrawn policy back |
| `learning` | one policy, two triplets, two controls, one restart | triplets of one piece, written rollbacks kept, nothing learned over a disturbance |
| `supervision` | two runs | an adapter is alone, and what a dead run started ends |
| `coordinator` | two actions, two identities, three starts, two faults | nothing measured twice, evidence before activation, truthful reports |
| `quota` | two starts of one specification and a probe, two windows, totals 5 and 6, exact displays, an allowance of one | one job at a time, each submitted once, the cap kept but for each job's allowance |

### Bounds

Two or three requests with a queue of one or two are enough for a group, a joiner and a
request left behind, which is what every ordering property compares; two tokens distinguish before,
during and after the first; one event of room (`EventCap`, 32 in the code) makes the full queue
happen. `MaxFaults` bounds cancels, disconnects, deadlines, crashes and closes together. For
the protocol, a second batch is what a late join or a late cancel can disturb; a group of two with a
third request gives a joiner that is handed back, one too long for the run and one that is rejected;
`Cancelling` is two of the three and the capped set holds one, so an early cancel meets a set that
another request's cancel has filled, one of the same batch or one that stayed from a batch before. For
recovery, one restart allowed in the window distinguishes the first attempt, one after a restart has
left the window and the refusal; the code's three add nothing new.

For the agent, two policies are a serving and a planned one, or one and its twin after a restart; a
look at one triplet, one error and one window in the monitor reach every verdict; two preemptions
tell a triplet that is tried again from a candidate that is dropped; two controls are an off and
an on, in any place. For live learning, two triplets of two windows make a verdict that is not reached
at once; two controls are a pause and its resume, or a rollback and what follows; a snapshot that is
queued behind another needs one save besides the controls', and a control let in before `close` and
acting after it needs one. The proofs cover any number of all of
these. For the local dispatch, a window of one and a baseline of one reach drift with two dispatches; two
sessions of evidence distinguish collecting from qualified; the faults are a death and a failed
write. The run has one runtime at a time (its processes follow each other), the proofs any number
at once. For the optimizer, three starts are a run that dies, one that resumes and one that finds the
outcome of the second; two faults are a death and a lost file, or two deaths; one screened action,
two trials and one triplet reach every record; the second identity has an adapter with its own
evaluator. For the quota, the two starts of one specification are a retry and the probe is a job of
another; totals 5 and 6 with caps 1 and 3 make one reservation fit under the larger total only and
shrink the cap under one already made; `MaxUsed` is 6, so a job can spend more than it reserved (2),
two can spend more than the cap and both allowances, and two windows let a job run across the border.
Displays are exact in the run (`Half` is 0), the allowance is a second; the proofs cover any display.

`CHECK_DEADLOCK FALSE` stands in the runs whose system may stop: the numbers of batches, plans,
controls, restarts, dispatches, starts, runs and commands are bounded, and when they are used up
nothing is left to do. The scheduler's and the recovery's runs check deadlock.

### Fairness

In `ProductScheduler` the threads that run are fair (`WF` of the scheduler, the worker,
the consumers, a caller that reads, and a `close()` that has begun): they are operating system
threads and a process with deadlines. Admissions, cancels, deadlines, disconnects, crashes and the
start of `close()` are never forced. In `WorkerRecovery` the scheduler and a `close()` under way are
fair; loading is not, since `start()` has a timeout that the step `StartFails` stands for, and a
group that hangs is ended by its timeout or by `close()`. A worker never has to die. `Resolved` has a
premise instead of a bound: from some time on no restart leaves the window. The code does not
guarantee it (see Observed divergences), so it is stated in the property. In
`BatchProtocol` one of the client's loop, the receiver and the worker takes a step whenever one of
them can: each is a thread or a process of its own, and since all they do within one batch is
finite, more than that is not needed. Cancels and new batches are never forced. In `Supervision` each supervisor's own steps are fair: it is a process of its
own, and SIGKILL ends its adapter's group. A run never has to call, end or die, no signal has to
come, and an adapter never has to exit by itself. The other modules state safety only and have no
fairness.

## What is proved

Each theorem holds for every value of the constants its assumptions allow; the runs check the same
formulas, and the invariants they rest on were checked there before they were proved.

### `ProductScheduler_proofs`

For any set of requests and any bounds and switches (`BoundsAssumption`, `SwitchAssumption`,
`RequestAssumption`). The argument is in layers, each inductive given those before it:

| Layer | Says | Why it is needed |
|---|---|---|
| `IInv` | types, `TaskAccounting`, and in `GroupHeld` where the group is empty | `Retire` subtracts one per member; all joiners can be handed back while the group stays |
| `Places` | `Apart`: nobody is twice in queue, carry, group and joiners; `Registered`: the sessions are exactly those, all admitted once | every move of a request keeps it in one place only if it was in one before |
| `Stages` | the worker and the consumers have touched only members of the running group; a joiner is unheard of while it has sent nothing | what is handed back must be as if new |
| `Slots` | group and joiners fit the capacity | a slot is reused only after its owner ended at the worker |
| `PutBack` | in arrival order the carry, with all that may still return to it, fits one group | a hand-back comes after the join that took the request |
| `InOrder` | the line rises by admission, from what was started on; at the worker the joiners are the last that were started | so they can be handed back in order |
| `Settled` | the counters sum to the requests handled; before a group is retired all of it is handled | a request that leaves its group is one the counters have seen |
| `Told` | what a request was told so far, by its consumer's stage; why it was cancelled at the worker | the end is told before it is recorded; "cancelled" is reported only for reasons that end the caller first |

Theorems: `TypeCorrect`, `TasksAccounted` (`task_done()` is called once per admitted request and never
raises), `OnePlace`, `SlotsKept`, `WaitingBounded`, `ArrivalKept`, `CountedExactly` and `CallersAgree`.

### `WorkerRecovery_proofs`

`RecoveryTyped`, `OneServingAlways`, `IdentityServedAlways` and `ClosedCleanAlways`, for any backends,
identities and budgets. What makes them inductive is that where the scheduler is decides which
backend alone may serve (`Placed`): the service's own while it works, nobody while an attempt is
judged or made, the fresh one while it loads. `Replacing` says the replacement is a new object,
`Locked` who holds which lock and that `start()` is the only holder beside a worker that serves,
`Kept` that a serving worker has not been given up, `Closing` what the closing thread has read and
that a fresh worker it has closed before its start cannot start any more,
`Identified` that a ready worker has the service's identity except while a tune is accounted for,
`Budgeted` that no attempt begins on an empty budget. It rests on `BackendAssumption`,
`ProfileAssumption` and `LimitAssumption`.

### `QuotaLedger_proofs`

`LedgerTyped`, `OneJobOnly`, `NeverResubmitted` and `CapIsKept`. The first three rest on `Held` (from
its reservation to its end a command finds its own record), `Unsubmitted`, `Untouched` and `EndSeen`.
`CapIsKept` bounds a sum over whatever was reserved. The library defines the sum by recursion over a
set; the lemmas from `AllNumbers` to `AmountsAdd` show that it is a number and grows by what is
added, by well-founded induction on the size of the set. `Bounded` then follows the seconds: what is
reserved is within the cap (`Capped`); before a job no more is used than is reserved without it, and
between jobs no more than is reserved (`Backed`); a command that asked again after its job knows
what is used but for half a quantum, and that nothing was used in a window begun since (`Metered`,
`Observed`); each job adds its `Rounding` to what may be used (`Leeway`); where an overshoot waits for its record the lock is held
(`Locked`). Of the cap it uses that it grows with the total: it is a share of it with a ceiling
(`quota.py:439`). The other assumptions are `ProcAssumption`, `ProbeAssumption`, `QuotaAssumption` and
`NoneAssumption`.

### `Coordinator_proofs`

`CoordinatorTyped`, `AttemptsApart` (`MeasuredOnce`), `EvidenceKept` (`EvidenceFirst`) and `ToldTrue`
(`Truthful`), for any adapters, goals and numbers of starts and deaths. What a run may do depends on
what earlier runs recorded and on where its process is, so there are five layers: `Typed`; `Numbered`
(an attempt's number is below the count of attempts, and what is measured was not recorded as
interrupted); `Owned` (which activations are open, and whose envelope there is, at each stage);
`Tried` (the tally of the open trial, and the evidence of the action in hand up to the record of its
activation); `Covered` (while every setting applied was recorded, it is the reference's, the
envelope's or that of an activation in force, and the code knows which). It rests on
`GoalAssumption` and `NoneAssumption`.

For `Supervision`, with any set of runs, `SupervisionTyped` (`GroupTypeOK`) and `AdaptersAlone`
(`Alone`), in the last part of the same module. `BoundAlone` says that a supervisor which
passed its check holds the lease and belongs to a call under way or has a closed lifeline; so a gate
that finds the lease free finds none of them, and those that pass the check later belong to runs
that were up at the gate or passed it themselves.

### `Agent_proofs`

`AgentTyped`, `WithdrawnOff`, `BlamedForTheirOwn` and `StandingServes`, for any policies, behaviours,
plans, controls and restarts. `Shaped` says what each thread carries and that the comparison it works
on is the one it began with, or an audit whose schedule was withdrawn. `Planned`: a planner runs only
without a candidate, and the schedule it was told of was at most withdrawn since, so a plan cannot
join a schedule that decides like it. `Blamed`: the counts name only who serves. `Settled`: what
serves, what the file would restore and the snapshots under way stand; a snapshot taken before the
operator's withdrawal makes a file that a restart sets aside. It rests on `PolicyAssumption` and
`BoundAssumption`.

### `LocalActivation_proofs`

For any number of processes, classes and builds and any bounds: `ActivationTyped`, `GateDecided`,
`KillIsFinal`, `DoubtSurvives` and `EpochsSurvive`, one for each property of the run. The inductive
invariant says of each runtime that it is well typed, that its phase fits its cohorts, that the gate
and the decision agree from the moment a cohort is chosen until it is served, and that a runtime
that began to load after the kill record is never admitted; of the files, that doubt in any process
or in the monitor's file has its record unless the write failed (`unwritten`), and that what a requalification is about to overwrite is
archived already. It rests on `ClassAssumption`, `LimitAssumption` and `NoneAssumption`.

### `LiveLearning_proofs`

For any policies and bounds: `LearningTyped`, `TripletsOfOnePiece`, `RollbackIsKept`,
`LearningIsUndisturbed`. A rollback survives because nothing a restart may find holds the policy: the
file, the snapshot being written and the one that waits are all newer than the rollback by the time
the operator is told, and while the writer works for a control nobody else can queue (`Locked`,
`Gone` and the type of the saver are the conjuncts that say so). A triplet is in one piece because
after a pause or a restart none is open until another is begun (`Whole`). `Windowed`, `Learned` and
`SoundAll` carry the rest. It rests on `PolicyAssumption`, `BoundAssumption` and `NoneAssumption`.

### `BatchProtocol_proofs`

For any requests, prompts, outputs and engines, any number of batches and cancels, with or without an
exception of the engine: `ProtocolTyped` (`TypeOK`), `WorkerNotCondemned` (`NeverCondemned`),
`ServiceImplemented` (`Implements`, whose specification states no fairness) and `CancelsKept`
(`CancelKept`). They rest on `RequestAssumption`, `EngineAssumption` and
`BoundAssumption`; limits are positive there because the client refuses a rejection that names no
positive limit (`backend.py:836`).

The client condemns its worker on a frame its checks refuse, so the invariant must say of every frame
on its way that the checks will pass when it is read. The client only knows its own list and counts,
the worker only its rows and streams; what relates the two is the contents of three pipes and two
queues. `ProtocolSafe` states it (`IInv`):

| Part | Says | Why it is needed |
|---|---|---|
| `Framed` | each frame of a row will be accepted at its place: its request is listed, its count is one more than what the client has or an earlier frame brings, its end is the only one and the last | `ReadInvalid` needs a refused frame |
| `Phased` | a running batch is asked for, commanded, worked on or ending, and what each of these leaves in the pipes | the last frame of a batch must be the last of the pipe |
| `Accounted` | what the client lists is, in this order, what the worker took, and the rows in the queued command, in the queued joins and in the pipe; of all but the first nothing was heard | `batch_done` names the first `accepted` rows of the list, and what is handed back must be as if new |
| `Kept` | a request no batch holds is in no list and in no pipe | a hand-back may enter another batch |
| `Caused` | every cancel on its way, pending or set was asked for by its caller and sent by the client | a `cancelled` end is refused otherwise |
| `Worked` | the rows of a run are apart from those that wait, each stream's last frame is at its count, and every row the worker took has an end or is still in one of its lists | each must have its end before `batch_done` |
| `Engined` | the executor's rounds hold just the rows that are not done | a row the engine forgot would have no end |
| `Seated` | on the dense plan no more requests are open than a group has | the plan never runs out of slots, which would be an exception |

The invariant was first checked by TLC as an invariant of the run `protocol` in all of its states.
Pipes are flattened and filtered, and the library defines `FlattenSeq` by recursion; the lemmas from
`AllNumbers` to `OnlyConcat` show, by induction on lengths, that the recursion has a solution,
what is kept of one sequence after another, and that order is kept. Then there is one lemma per
action (`PollSafe` to `ReportSafe`), one for each kind of frame put into the pipe (`TokenPipe`,
`EndsPipe`, `LastPipe`), and for the refinement one per action of the client (`StartEnters` to
`InvalidEnters`); no other action touches what `GroupService` sees.

`CancelsKept` adds `Trailing`: the cancel of a request whose rows are still in the pipe is behind them.
It holds for every number of cancels and every `PendingCap`, since `CancelKept` is about steps: no step
but one loses a cancel of the running batch. That one is named by `NoRoomFor`: the receiver takes a
cancel whose request is not registered and the set of early cancels is full. The set keeps those that
crossed the end of their request (see Observed divergences), so in the code this can come after 64 of
them, long ago and one at a time; nothing bounds them, and the theorem assumes no bound.

### Only model-checked

- Liveness, which needs fairness and `ENABLED` and is out of the prover's reach: `CallersAnswered`
  and `SessionsRetired` of the scheduler, `Resolved` and `CloseEnds` of the recovery, `Released` of the
  supervision, `BatchEnds` of the protocol.
- `RejectedTooLong` of the protocol is violated, and is the finding below.

## Findings

1. `protocol_limit`: after a batch's first run a joiner is measured against another request's
   `max_tokens` and rejected as too long, because a loop reuses the name `limit`
   (`worker.py:945`).

## Observed divergences

Where the models' properties are weaker than a reader may expect, this is why. These follow from
the code as modelled or read; no run is kept for them.

Scheduler:
- On the single path a rejection that meets a cancel closes a healthy worker (`service.py:1007`
  against `backend.py:1031` to `1034`, which keeps it warm). No property says that a healthy worker is
  kept.
- With a shortest-first or learned order the queue is emptied into the carry, so `max_pending` does
  not bound what waits (`service.py:558` against `service.py:116`); `BoundedWaiting` is for arrival
  order.

Recovery:
- A replacement that is turned away and does not end when killed leaves no exit record, and another
  worker is started beside it (`service.py:511`). `OneServing` counts workers that load or serve.
- The idle tuner makes a service serve again that had refused recovery (`cli.py:168`).
- `close()` reads the service's worker once (`service.py:1341`). An idle tuner that ends after that
  makes a fresh worker, publishes it and starts it (`cli.py:169` to `171`) without asking whether the
  service is closed; nobody stops that worker. `ClosedClean` excepts exactly that one (`late`).
- Restarts leave the ten-minute window however often (`service.py:471`), and a start may itself take
  as long (`backend.py:467`), so a worker that fails slowly is retried for ever: the budget never
  refuses it. `Resolved` says what happens once restarts stop leaving the window.
- A tune whose fresh worker fails to start keeps the old identity, and later replacements with the
  new profile are turned away (`cli.py:171`).

Protocol:
- A cancel that crosses the end of its request is retained for ever; the set it stays in holds 64,
  and then early cancels are dropped (`worker.py:347`) and their requests run to the end. `CancelKept`
  excepts that step and no other, and the run reaches it.

Agent:
- A triplet is bound to the serving schedule under one acquisition of the lock and judged under
  another: after a withdrawal in between, a candidate keeps triplets measured against the withdrawn
  schedule (`agent.py:862`); a pause and its resume between two windows are not noticed; and
  `agent.py:847` reads the policy before the bound of `agent.py:813`, so that a promotion is
  possible while paused.
- A withdrawal is in memory only until the next idle save, 30 seconds or more later, and a crash
  forgets it; `ServesStanding` is about what a file has named.
- `_save` dumps live lists, so a withdrawal during the write gives a file that names one policy both
  serving and withdrawn, and `_load` sets the whole state aside.
- A write that fails clears `_dirty_since` and is not tried again. A planner started after `close`
  stopped the planner is orphaned (`agent.py:1128`). `busy()` and `idle()` read `_planner` twice
  without the lock.

Live learning:
- `learning_control` asks without the lock whether the learner is eligible (`service.py:297`) and
  `control` takes the lock later without asking again (`live_learning.py:1198`). A rollback that waits
  while `close()` saves finds the learner freed, withdraws the policy in memory, skips the save
  (`live_learning.py:1239`) and is answered like any other; the file still names the policy active and
  the next start serves it. A rollback whose write fails is answered too, with `save_error` in its
  reply. `RollbackKept` is about the rollbacks that were in the file when they were answered; with the
  late ones added to `gone`, TLC finds it violated.
- The monitoring window is not reset when a policy is activated or promoted, so failures seen under
  other arms count against it (`live_learning.py:790`, `1034`, `1217`).
- A withdrawal while paused or evaluating is not written until a control or `close`
  (`live_learning.py:1108`); a crash before a save forgets a trial that was used; an `evaluate`
  during a window does not stop the window (`live_learning.py:1109`).

Local dispatch:
- Drift is doubt in memory before its record is written (`monitoring.py:401` to `405`). When the
  write fails the dispatch raises, the segment stays where it is and never writes again
  (`monitoring.py:355`). A crash then forgets the doubt; a `close()` saves it in the monitor's file,
  from which it is restored, but `requalify` refuses for want of a record. `DoubtRecorded` excepts it.
- A runtime that is still open when a requalification clears the record saves its own, older doubt
  over the archived state (`router.py:438`); the next load then requires a requalification that
  `check_preconditions` refuses (`requalification.py:122`).

Native optimizer:
- A command beside a running cycle passes the gate between two calls of that cycle, records its
  attempt as interrupted, and both append with the same sequence number (`coordinator.rs:142`).
- A death between the adapter's `apply` and the record of it: the next cycle applies again, and the
  setting "before" is the candidate itself, so a rollback restores the candidate
  (`coordinator.rs:425`; the optimizer's README says under "Activation and rollback" what it should
  restore).
- `imopt rollback` under a new identity finds nothing active though another identity's setting is in
  force. A death between the activation's record and the envelope, followed by a change of identity,
  leaves the old setting in force.
- A death between a qualified trial's end and its `apply` costs another trial, and at the cap the
  reference is kept.
- A campaign that dies after its activation is recorded, is rolled back with `managed-rollback` and
  is then resumed writes the rolled-back policy again (`campaign.rs:18` says it happens once per
  campaign).

Quota ledger:
- A reported time above the estimate does not freeze the ledger, though the docstring says so:
  `overshoot` is assigned again by the test on the quota's difference (`quota.py:584` to `586`, against
  `606` and `658`).
- A death between the records `reconciled` and `overshoot` leaves no freeze; `CapKept` excuses that job.
- Freezes recorded after the reconciliation (a failed job, an overshoot, a total that shrank) can
  never be reviewed, since the review wants exactly one active reservation; and after a death right
  after `reserve` the reservation is active without a freeze, which the review refuses as well.
- What is already reserved is summed from the reserved seconds, not from those charged, and a job
  freezes the ledger only above its reservation and `rounding_allowance` (`quota.py:648` to `658`). So
  each job of a window may use a second more than it reserved (72 seconds with displays of 0.01 h, and
  36 more that the rounding of the displays hides), unnoticed and uncharged: the 24 jobs of 300 s that
  fill a cap of 7200 s may use more. `CapKept` has this term for every job.
- After a failed job the reconciliation and the freeze are two acquisitions of the lock, so another
  process may reserve in between (`cli.py:275`).
- A snapshot up to a minute old may predate another short job, and the spare kept after the next
  job is then smaller than intended.

## Not modelled

- Learned dispatch and the device pool (`learned_dispatch.py`, `device_pool.py`): the scheduler
  takes their decisions as any choice; withdrawal and its record follow the pattern checked in
  `Agent` and `LocalActivation`.
- Replay windows (`_replay_window` of `service.py`): seen from the agent and the learner as a step
  that finds something or is preempted; the counters it saves and restores are not modelled.
- Prefix reuse, the online controller, product state (`state.py`), the evidence store
  (`friday_evidence`), and of the optimizer campaigns, managed runs, calibration and dreams: sequential code
  over its own state, candidates for modules of their own.
- Engines, kernels, bridges, the dense and tuned plans, tuning, benchmarks, statistics, probes, and
  the planners behind C interfaces: tensors and numbers, with no protocol a finite model would say
  much about.
- Front ends, page and command text, tools, and of the portable evidence runs their plans, contracts
  and corpus: parsing, presentation and remote services.

## What is left

1. `BatchProtocol`: the single request's operation and the executor's fallback re-runs.
2. Campaigns on top of `Coordinator`; two commands at once on one journal.
3. Learned dispatch with its withdrawal record; the evidence store's crash recovery.
