------------------------- MODULE ProductScheduler -------------------------
(***************************************************************************)
(* The request scheduler of ironmule_product/service.py (ProductService).  *)
(*                                                                         *)
(* Callers admit requests into a bounded queue (_pending).  One scheduler  *)
(* thread takes them up, possibly through a private deque (_carry), forms  *)
(* a group, runs it on the worker, and retires every member with exactly   *)
(* one task_done().  While a group streams, waiting requests may join it;  *)
(* the worker may hand a joiner back unserved.  Callers read their events, *)
(* cancel, disconnect or reach their deadline at any moment, the worker    *)
(* may die at any moment, and close() may run concurrently with all of it. *)
(*                                                                         *)
(* A request is a model value.  Tokens are counted, never spelled.  The    *)
(* worker is external here: it answers each dispatched request with tokens *)
(* and one terminal frame, or dies.                                        *)
(***************************************************************************)
EXTENDS Naturals, Sequences, FiniteSets, Functions

CONSTANTS
  Requests,      \* request ids; each is submitted at most once
  MaxPending,    \* settings["max_pending"]: capacity of _pending
  Capacity,      \* _batch_capacity(): streams a group may hold
  Widths,        \* group widths a decision may ask for; {Capacity} without a learner
  MaxMembers,    \* MAX_GROUP_MEMBERS: members over a group's life
  EventCap,      \* maxsize of a session's event queue (32 in the code)
  MaxTokens,     \* bound: tokens the worker emits for one request
  MaxFaults,     \* bound: cancels, disconnects, deadlines, crashes and closes
  Streams,       \* backend.streams_batches
  JoinPolicy,    \* policy.join
  ReusesSlots,   \* backend.reuses_slots (the dense plan)
  Gather,        \* policy.gather_ms > 0
  Order,         \* "fifo", "sjf", or "learned" (an active dispatch decides)
  HasDeadline,   \* settings["request_timeout_s"] is not None
  Recovers,      \* make_backend is not None
  Eligible,      \* requests that pass the backend's can_batch_requests gate
  TooLong,       \* requests the worker rejects before any token
  Stopping,      \* requests whose answer reaches one of their stop strings
  Limit          \* max_tokens of each request, the key of shortest-first

ASSUME BoundsAssumption ==
  /\ MaxPending \in Nat \ {0} /\ Capacity \in Nat \ {0}
  /\ MaxMembers \in Nat /\ EventCap \in Nat \ {0}
  /\ MaxTokens \in Nat /\ MaxFaults \in Nat
  /\ Widths \subseteq 1..Capacity /\ Widths # {}

ASSUME SwitchAssumption ==
  /\ {Streams, JoinPolicy, ReusesSlots, Gather, HasDeadline, Recovers} \subseteq BOOLEAN
  /\ Order \in {"fifo", "sjf", "learned"}

ASSUME RequestAssumption ==
  /\ Eligible \subseteq Requests /\ TooLong \subseteq Requests
  /\ Stopping \subseteq Requests /\ Limit \in [Requests -> Nat]

VARIABLES
  (* admission and queues *)
  pending,       \* _pending: the stdlib queue
  carry,         \* _carry: acquired but not yet grouped
  sessions,      \* keys of _sessions: admitted, not retired
  unfinished,    \* _pending.unfinished_tasks
  admitted,      \* history: admission order, i.e. submitted_ns order
  aged,          \* how many of admitted have waited longer than SJF_AGE_S
  (* sessions and their callers *)
  cancelled,     \* session.cancelled
  backendCancel, \* session.backend_cancel
  expired,       \* session.deadline has passed
  events,        \* session.events
  caller,        \* what the caller's generator (_events) is doing or ended with
  outcome,       \* session.outcome
  (* scheduler thread *)
  pc, group, width,
  mode,          \* how the group runs: "single", "buffered" or "streaming"
  live,          \* members dispatched to the worker
  joined,        \* requests that joined the running group, in order
  active,        \* _active
  started,       \* history: order in which requests were put on the worker
  (* worker and delivery *)
  worker,        \* "ready", "lost", or "refused" (_recovery_refused)
  faults,        \* how many of the bounded disturbances have happened
  serve,         \* the worker's view of a request: idle, running, ended
  tokens,        \* tokens emitted for a request
  frames,        \* frames read from the worker, not yet consumed
  deliver,       \* the request's consumer
  stopped,       \* StopFilter.stopped
  count,         \* _completed, _failed, _cancelled
  (* shutdown *)
  closed, closing

queueVars    == <<pending, carry, sessions, unfinished, admitted, aged>>
callerVars   == <<cancelled, backendCancel, expired, events, caller>>
schedVars    == <<pc, group, width, mode, live, joined, active, started>>
workerVars   == <<worker, serve, tokens>>
deliveryVars == <<frames, deliver, stopped, outcome, count>>
closeVars    == <<closed, closing>>
vars == <<queueVars, callerVars, schedVars, workerVars, deliveryVars, closeVars, faults>>

-----------------------------------------------------------------------------
(* State predicates and helpers *)

CallerStates == {"none", "open", "refused", "done", "error", "cancelled",
                 "timeout", "gone"}
EventKinds   == {"token", "done", "error", "cancelled"}
FrameKinds   == {"token", "stop_token", "done", "done_cancelled", "rejected", "eof"}
Answered     == {"ok", "failed", "cancelled"}  \* the caller's terminal event is out
DeliverStates == {"none", "unheard", "held", "consuming", "draining", "handled"} \cup Answered
PCs          == {"top", "order", "form", "gather", "perform", "serve", "drain",
                 "retire", "exit"}

\* _lost_worker(): the worker is gone and a replacement may be started.
LostWorker == Recovers /\ worker = "lost"

\* _backend_ready(): a worker is ready or being replaced.
BackendReady == worker = "ready" \/ LostWorker

\* can_batch_requests on a list of requests (external gate of the backend).
CanBatch(rs) == rs \subseteq Eligible

\* _streams_alone
StreamsAlone(r) == Streams /\ CanBatch({r})

\* One of the bounded disturbances happens now.
Fault == faults < MaxFaults /\ faults' = faults + 1

\* cancel(): only a session that is still registered is reached.
CancelSession(r) ==
  /\ cancelled' = [cancelled EXCEPT ![r] = @ \/ r \in sessions]
  /\ backendCancel' = [backendCancel EXCEPT ![r] = @ \/ r \in sessions]

\* _emit either puts the event, gives up, or waits for room in the queue.
EmitRefused(r) == closed \/ cancelled[r] \/ expired[r]
CanEmit(r)     == EmitRefused(r) \/ Len(events[r]) < EventCap
Emitted(r, e)  == IF EmitRefused(r) THEN events[r] ELSE Append(events[r], e)

Rank(r) == CHOOSE i \in DOMAIN admitted : admitted[i] = r

\* The sort key of _order_waiting: aged requests by arrival, then the others by
\* output limit; arrival order breaks ties and is the whole key without sjf.
StartsBefore(r, s, sjf) ==
  LET old(x) == Rank(x) <= aged
  IN IF sjf /\ old(r) # old(s) THEN old(r)
     ELSE IF sjf /\ ~old(r) /\ Limit[r] # Limit[s] THEN Limit[r] < Limit[s]
     ELSE Rank(r) < Rank(s)

\* The arrangements of q that sorting it by that key can give (exactly one).
Sorted(q, sjf) ==
  {s \in [1..Len(q) -> Range(q)] :
     \A i, j \in 1..Len(q) : i < j => StartsBefore(s[i], s[j], sjf)}

\* What _shortest_first()'s decision can say for one group.
Decisions == IF Order = "learned" THEN BOOLEAN ELSE {Order = "sjf"}

\* The requests on the worker: the dispatched group and its joiners.
OnWorker == live \cup Range(joined)

\* Mutant: the dispatched group itself is not counted.
OccupiedSlotsMutant == Cardinality({r \in Range(joined) : serve[r] # "ended"})

\* joins() compares this with the capacity: a backend that reuses slots counts
\* the streams still running, every other one the members over the group's life.
OccupiedSlots == IF ReusesSlots
                 THEN Cardinality({r \in OnWorker : serve[r] # "ended"})
                 ELSE Cardinality(live) + Len(joined)

-----------------------------------------------------------------------------
Init ==
  /\ pending = <<>> /\ carry = <<>> /\ sessions = {} /\ unfinished = 0
  /\ admitted = <<>> /\ aged = 0
  /\ cancelled = [r \in Requests |-> FALSE]
  /\ backendCancel = [r \in Requests |-> FALSE]
  /\ expired = [r \in Requests |-> FALSE]
  /\ events = [r \in Requests |-> <<>>]
  /\ caller = [r \in Requests |-> "none"]
  /\ pc = "top" /\ group = <<>> /\ width = Capacity /\ mode = "single"
  /\ live = {} /\ joined = <<>> /\ active = {} /\ started = <<>>
  /\ worker = "ready" /\ faults = 0
  /\ serve = [r \in Requests |-> "idle"]
  /\ tokens = [r \in Requests |-> 0]
  /\ frames = [r \in Requests |-> <<>>]
  /\ deliver = [r \in Requests |-> "none"]
  /\ stopped = [r \in Requests |-> FALSE]
  /\ outcome = [r \in Requests |-> "none"]
  /\ count = [completed |-> 0, failed |-> 0, cancelled |-> 0]
  /\ closed = FALSE /\ closing = "no"

-----------------------------------------------------------------------------
(* Callers: stream(), cancel() and the _events generator *)

\* Mutant: the queue bound is not checked.
AdmitMutant(r) ==
  /\ caller[r] = "none" /\ ~closed /\ BackendReady
  /\ pending' = Append(pending, r)
  /\ unfinished' = unfinished + 1
  /\ sessions' = sessions \cup {r}
  /\ admitted' = Append(admitted, r)
  /\ caller' = [caller EXCEPT ![r] = "open"]
  /\ UNCHANGED <<carry, aged, cancelled, backendCancel, expired, events,
                 schedVars, workerVars, deliveryVars, closeVars, faults>>

\* stream(): admission under the service lock.
Admit(r) ==
  /\ caller[r] = "none" /\ ~closed /\ BackendReady
  /\ Len(pending) < MaxPending
  /\ pending' = Append(pending, r)
  /\ unfinished' = unfinished + 1
  /\ sessions' = sessions \cup {r}
  /\ admitted' = Append(admitted, r)
  /\ caller' = [caller EXCEPT ![r] = "open"]
  /\ UNCHANGED <<carry, aged, cancelled, backendCancel, expired, events,
                 schedVars, workerVars, deliveryVars, closeVars, faults>>

\* stream() raises: closed, no worker, or the queue is full.
Refuse(r) ==
  /\ caller[r] = "none"
  /\ closed \/ ~BackendReady \/ Len(pending) >= MaxPending
  /\ caller' = [caller EXCEPT ![r] = "refused"]
  /\ UNCHANGED <<queueVars, cancelled, backendCancel, expired, events,
                 schedVars, workerVars, deliveryVars, closeVars, faults>>

\* cancel(request_id) called by another thread.
Cancel(r) ==
  /\ r \in sessions /\ ~cancelled[r] /\ Fault
  /\ CancelSession(r)
  /\ UNCHANGED <<queueVars, expired, events, caller, schedVars, workerVars,
                 deliveryVars, closeVars>>

\* The session's deadline passes.
Expire(r) ==
  /\ HasDeadline /\ caller[r] = "open" /\ ~expired[r] /\ Fault
  /\ expired' = [expired EXCEPT ![r] = TRUE]
  /\ UNCHANGED <<queueVars, cancelled, backendCancel, events, caller,
                 schedVars, workerVars, deliveryVars, closeVars>>

\* _events takes one event; a terminal one ends the generator, whose finally
\* block cancels the session.  The checks and the get are one step: a cancel
\* between them has the same effect as one right after the get.
CallerRead(r) ==
  /\ caller[r] = "open" /\ ~EmitRefused(r) /\ events[r] # <<>>
  /\ events' = [events EXCEPT ![r] = Tail(@)]
  /\ \/ /\ Head(events[r]) = "token"
        /\ UNCHANGED <<caller, cancelled, backendCancel>>
     \/ /\ Head(events[r]) # "token"
        /\ caller' = [caller EXCEPT ![r] = Head(events[r])]
        /\ CancelSession(r)
  /\ UNCHANGED <<queueVars, expired, schedVars, workerVars, deliveryVars, closeVars, faults>>

\* _events raises RequestCancelled or RequestTimeout, and cancels in finally.
CallerStops(r) ==
  /\ caller[r] = "open" /\ EmitRefused(r)
  /\ caller' = [caller EXCEPT ![r] =
                  IF cancelled[r] \/ closed THEN "cancelled" ELSE "timeout"]
  /\ CancelSession(r)
  /\ UNCHANGED <<queueVars, expired, events, schedVars, workerVars,
                 deliveryVars, closeVars, faults>>

\* The client disconnects: the generator is closed where it waits.
CallerLeaves(r) ==
  /\ caller[r] = "open" /\ Fault
  /\ caller' = [caller EXCEPT ![r] = "gone"]
  /\ CancelSession(r)
  /\ UNCHANGED <<queueVars, expired, events, schedVars, workerVars,
                 deliveryVars, closeVars>>

-----------------------------------------------------------------------------
(* Scheduler thread: _run, _next_session, _order_waiting, _group_for *)

\* One more of the admitted requests has waited longer than SJF_AGE_S.
Age ==
  /\ Order # "fifo" /\ aged < Len(admitted)
  /\ aged' = aged + 1
  /\ UNCHANGED <<pending, carry, sessions, unfinished, admitted, callerVars,
                 schedVars, workerVars, deliveryVars, closeVars, faults>>

\* _recover(), whole: the worker is replaced or recovery stops for good.  The
\* attempts in between are modelled in WorkerRecovery.
Recover ==
  /\ pc = "top" /\ ~closed /\ LostWorker
  /\ worker' \in {"ready", "refused"}
  /\ UNCHANGED <<queueVars, callerVars, schedVars, faults, serve, tokens,
                 deliveryVars, closeVars>>

\* Mutant: the queue goes before the carry.
TakeMutantOrder(r) ==
  \/ /\ pending # <<>> /\ r = Head(pending)
     /\ pending' = Tail(pending) /\ UNCHANGED carry
  \/ /\ pending = <<>> /\ carry # <<>> /\ r = Head(carry)
     /\ carry' = Tail(carry) /\ UNCHANGED pending

\* Mutant: a carried request is read but not removed.
TakeMutantKeep(r) ==
  \/ /\ carry # <<>> /\ r = Head(carry)
     /\ UNCHANGED <<carry, pending>>
  \/ /\ carry = <<>> /\ pending # <<>> /\ r = Head(pending)
     /\ pending' = Tail(pending) /\ UNCHANGED carry

\* The next waiting request is taken: from the carry first, then the queue.
Take(r) ==
  \/ /\ carry # <<>> /\ r = Head(carry)
     /\ carry' = Tail(carry) /\ UNCHANGED pending
  \/ /\ carry = <<>> /\ pending # <<>> /\ r = Head(pending)
     /\ pending' = Tail(pending) /\ UNCHANGED carry

\* _next_session in arrival order.
NextSession ==
  /\ pc = "top" /\ ~closed /\ ~LostWorker /\ Order = "fifo"
  /\ \E r \in Requests : Take(r) /\ group' = <<r>>
  /\ width' \in Widths
  /\ pc' = "form"
  /\ UNCHANGED <<sessions, unfinished, admitted, aged, callerVars, mode, live,
                 joined, active, started, workerVars, deliveryVars, closeVars, faults>>

\* _next_sorted: everything waiting moves to the carry, is sorted, and the
\* first of it is taken.
NextSorted ==
  /\ pc = "top" /\ ~closed /\ ~LostWorker /\ Order # "fifo"
  /\ carry \o pending # <<>>
  /\ \E sjf \in Decisions : \E s \in Sorted(carry \o pending, sjf) :
       /\ group' = <<Head(s)>>
       /\ carry' = Tail(s)
  /\ pending' = <<>>
  /\ pc' = "order"
  /\ UNCHANGED <<sessions, unfinished, admitted, aged, callerVars, width, mode,
                 live, joined, active, started, workerVars, deliveryVars, closeVars, faults>>

\* _group_for orders the waiting requests again before it takes company.
OrderWaiting ==
  /\ pc = "order"
  /\ \E sjf \in Decisions : \E s \in Sorted(carry \o pending, sjf) : carry' = s
  /\ pending' = <<>>
  /\ width' \in Widths
  /\ pc' = "form"
  /\ UNCHANGED <<sessions, unfinished, admitted, aged, callerVars, group, mode,
                 live, joined, active, started, workerVars, deliveryVars, closeVars, faults>>

\* _group_for takes one more waiting request into the group.
TakeCompany ==
  /\ pc \in {"form", "gather"} /\ Len(group) < width
  /\ \E r \in Requests : Take(r) /\ group' = Append(group, r)
  /\ UNCHANGED <<sessions, unfinished, admitted, aged, callerVars, pc, width,
                 mode, live, joined, active, started, workerVars, deliveryVars,
                 closeVars, faults>>

\* Nobody else waits: wait a little for company (policy.gather_ms).
StartGather ==
  /\ pc = "form" /\ Gather /\ Len(group) < width
  /\ carry = <<>> /\ pending = <<>>
  /\ pc' = "gather"
  /\ UNCHANGED <<queueVars, callerVars, group, width, mode, live, joined, active,
                 started, workerVars, deliveryVars, closeVars, faults>>

\* The group is complete.  A group the backend's gate refuses shrinks to its
\* first member; the others go back to the front of the carry in order.
CloseGroup ==
  /\ \/ pc = "form" /\ Len(group) >= width
     \/ pc = "form" /\ ~Gather /\ carry = <<>> /\ pending = <<>>
     \/ pc = "gather"
  /\ LET refused == Len(group) > 1 /\ ~CanBatch(Range(group))
         kept == IF refused THEN <<Head(group)>> ELSE group
     IN /\ group' = kept
        /\ carry' = IF refused THEN Tail(group) \o carry ELSE carry
        /\ active' = active \cup Range(kept)
        /\ started' = started \o kept
  /\ pc' = "perform"
  /\ UNCHANGED <<pending, sessions, unfinished, admitted, aged, callerVars,
                 width, mode, live, joined, workerVars, deliveryVars, closeVars, faults>>

-----------------------------------------------------------------------------
(* Running a group: _perform, _perform_batch, _stream_batch *)

\* Members that were cancelled or expired while they waited end here, as all do
\* without a ready worker; the others are dispatched.  A request cancelled in
\* the queue is counted as cancelled, but only the batch path records that
\* outcome.
Perform ==
  /\ pc = "perform"
  /\ LET batch  == Len(group) > 1 \/ StreamsAlone(group[1])
         gone   == {r \in Range(group) : cancelled[r]}
         failed == {r \in Range(group) \ gone : expired[r] \/ worker # "ready"}
         rest   == Range(group) \ (gone \cup failed)
     IN /\ live' = rest
        /\ mode' = IF ~batch THEN "single"
                   ELSE IF Streams THEN "streaming"
                   ELSE IF Cardinality(rest) = 1 THEN "single"
                   ELSE "buffered"
        /\ pc' = IF rest = {} THEN "retire" ELSE "serve"
        /\ serve' = [r \in Requests |-> IF r \in rest THEN "running" ELSE serve[r]]
        /\ deliver' = [r \in Requests |->
                         IF r \in rest
                         THEN IF mode' = "buffered" THEN "held" ELSE "consuming"
                         ELSE IF r \in gone \cup failed THEN "handled"
                         ELSE deliver[r]]
        /\ outcome' = [r \in Requests |->
                         IF batch /\ r \in gone THEN "cancelled" ELSE outcome[r]]
        /\ count' = [count EXCEPT !.cancelled = @ + Cardinality(gone),
                                 !.failed = @ + Cardinality(failed)]
        /\ events' = [r \in Requests |->
                        IF r \in failed THEN Emitted(r, "error") ELSE events[r]]
        /\ backendCancel' = [r \in Requests |->
                               backendCancel[r] \/ (r \in failed /\ expired[r])]
  /\ UNCHANGED <<queueVars, cancelled, expired, caller, group, width, joined,
                 active, started, worker, faults, tokens, frames, stopped, closeVars>>

\* joins(): the next waiting request joins the running group.
MayJoin ==
  /\ pc = "serve" /\ mode = "streaming" /\ worker = "ready"
  /\ JoinPolicy \/ ReusesSlots
  /\ OccupiedSlots < Capacity /\ Cardinality(live) + Len(joined) < MaxMembers

Joinable(r) == ~cancelled[r] /\ CanBatch({r})

Join ==
  /\ MayJoin
  /\ \E r \in Requests :
       /\ Take(r) /\ Joinable(r)
       /\ joined' = Append(joined, r)
       /\ active' = active \cup {r}
       /\ started' = Append(started, r)
       /\ serve' = [serve EXCEPT ![r] = "running"]
       /\ deliver' = [deliver EXCEPT ![r] = "unheard"]
  /\ UNCHANGED <<sessions, unfinished, admitted, aged, callerVars, pc, group,
                 width, mode, live, worker, faults, tokens, frames, stopped,
                 outcome, count, closeVars>>

\* Mutant: a request that may not join is dropped.
JoinDeclinedMutant ==
  /\ MayJoin
  /\ carry = <<>> /\ pending # <<>> /\ ~Joinable(Head(pending))
  /\ pending' = Tail(pending)
  /\ UNCHANGED <<carry, sessions, unfinished, admitted, aged, callerVars, schedVars,
                 workerVars, deliveryVars, closeVars, faults>>

\* joins() takes a request that may not join: it keeps its place, now at the
\* front of the carry.
JoinDeclined ==
  /\ MayJoin
  /\ carry = <<>> /\ pending # <<>> /\ ~Joinable(Head(pending))
  /\ carry' = <<Head(pending)>> /\ pending' = Tail(pending)
  /\ UNCHANGED <<sessions, unfinished, admitted, aged, callerVars, schedVars,
                 workerVars, deliveryVars, closeVars, faults>>

\* complete_batch (or the single stream) has answered for every member.  The
\* last joiners may be handed back unserved: they return to the front of the
\* queue in their order.
GroupDone ==
  /\ pc = "serve"
  /\ \A r \in live : serve[r] = "ended"
  /\ \E k \in 0..Len(joined) :
       LET kept == SubSeq(joined, 1, k)
           back == SubSeq(joined, k + 1, Len(joined))
       IN /\ \A r \in Range(kept) : serve[r] = "ended"
          /\ \A r \in Range(back) : deliver[r] = "unheard"
          /\ joined' = kept
          /\ carry' = back \o carry
          /\ active' = active \ Range(back)
          /\ started' = SubSeq(started, 1, Len(started) - Len(back))
          /\ serve' = [r \in Requests |->
                         IF r \in Range(back) THEN "idle" ELSE serve[r]]
          /\ deliver' = [r \in Requests |->
                           IF r \in Range(back) THEN "none"
                           ELSE IF deliver[r] = "held" THEN "consuming"
                           ELSE deliver[r]]
  /\ pc' = "drain"
  /\ UNCHANGED <<pending, sessions, unfinished, admitted, aged, callerVars, group,
                 width, mode, live, worker, faults, tokens, frames, stopped,
                 outcome, count, closeVars>>

\* Every consumer thread has been joined.
GroupDrained ==
  /\ pc = "drain"
  /\ \A r \in OnWorker : deliver[r] = "handled"
  /\ pc' = "retire"
  /\ UNCHANGED <<queueVars, callerVars, group, width, mode, live, joined, active,
                 started, workerVars, deliveryVars, closeVars, faults>>

\* Mutant: a joiner is retired by _stream_batch and by _run again.
RetireMutant ==
  /\ pc = "retire"
  /\ LET line == joined \o group
         r    == Head(line)
     IN /\ outcome' = [outcome EXCEPT ![r] = IF @ = "none" THEN "failed" ELSE @]
        /\ sessions' = sessions \ {r}
        /\ active' = active \ {r}
        /\ unfinished' = unfinished - (IF joined = <<>> THEN 1 ELSE 2)
        /\ IF joined # <<>>
           THEN joined' = Tail(joined) /\ UNCHANGED group
           ELSE group' = Tail(group) /\ UNCHANGED joined
        /\ pc' = IF Len(line) = 1 THEN "top" ELSE "retire"
        /\ live' = IF Len(line) = 1 THEN {} ELSE live
  /\ UNCHANGED <<pending, carry, admitted, aged, callerVars, width, mode, started,
                 workerVars, frames, deliver, stopped, count, closeVars, faults>>

\* _retire for one session: joiners first (_stream_batch), then the group
\* (_run's finally block).  One task_done() each.
Retire ==
  /\ pc = "retire"
  /\ LET line == joined \o group
         r    == Head(line)
     IN /\ outcome' = [outcome EXCEPT ![r] = IF @ = "none" THEN "failed" ELSE @]
        /\ sessions' = sessions \ {r}
        /\ active' = active \ {r}
        /\ unfinished' = unfinished - 1
        /\ IF joined # <<>>
           THEN joined' = Tail(joined) /\ UNCHANGED group
           ELSE group' = Tail(group) /\ UNCHANGED joined
        /\ pc' = IF Len(line) = 1 THEN "top" ELSE "retire"
        /\ live' = IF Len(line) = 1 THEN {} ELSE live
  /\ UNCHANGED <<pending, carry, admitted, aged, callerVars, width, mode, started,
                 workerVars, frames, deliver, stopped, count, closeVars, faults>>

\* _run leaves its loop.
Exit ==
  /\ pc = "top" /\ closed
  /\ pc' = "exit"
  /\ UNCHANGED <<queueVars, callerVars, group, width, mode, live, joined, active,
                 started, workerVars, deliveryVars, closeVars, faults>>

-----------------------------------------------------------------------------
(* The worker, as the service sees it (external) *)

Heard(r) == [deliver EXCEPT ![r] = IF @ = "unheard" THEN "consuming" ELSE @]

\* A token frame; "stop_token" completes one of the request's stop strings.
WorkerToken(r) ==
  /\ worker = "ready" /\ serve[r] = "running" /\ r \notin TooLong
  /\ tokens[r] < MaxTokens
  /\ \E kind \in {"token"} \cup (IF r \in Stopping THEN {"stop_token"} ELSE {}) :
       frames' = [frames EXCEPT ![r] = Append(@, kind)]
  /\ tokens' = [tokens EXCEPT ![r] = @ + 1]
  /\ deliver' = Heard(r)
  /\ UNCHANGED <<queueVars, callerVars, schedVars, worker, faults, serve, stopped,
                 outcome, count, closeVars>>

\* The terminal frame: finished, cancelled after a cancel frame, or rejected.
WorkerEnd(r) ==
  /\ worker = "ready" /\ serve[r] = "running"
  /\ \E kind \in {IF r \in TooLong THEN "rejected" ELSE "done"}
                  \cup (IF backendCancel[r] THEN {"done_cancelled"} ELSE {}) :
       frames' = [frames EXCEPT ![r] = Append(@, kind)]
  /\ serve' = [serve EXCEPT ![r] = "ended"]
  /\ deliver' = Heard(r)
  /\ UNCHANGED <<queueVars, callerVars, schedVars, worker, faults, tokens, stopped,
                 outcome, count, closeVars>>

\* Everything still running ends with the worker: consumers see their queue
\* end; a buffered group loses the frames it had.
WorkerGone ==
  LET cut == {r \in Requests : serve[r] = "running"}
  IN /\ serve' = [r \in Requests |-> IF r \in cut THEN "ended" ELSE serve[r]]
     /\ frames' = [r \in Requests |->
                     IF deliver[r] = "held" /\ cut # {} THEN <<"eof">>
                     ELSE IF r \in cut THEN Append(frames[r], "eof")
                     ELSE frames[r]]
     /\ deliver' = [r \in Requests |->
                      IF deliver[r] = "unheard" THEN "consuming" ELSE deliver[r]]

\* The process dies, breaks the protocol or outlives _backend_timeout.
WorkerCrash ==
  /\ worker = "ready" /\ Fault
  /\ worker' = "lost"
  /\ WorkerGone
  /\ UNCHANGED <<queueVars, callerVars, schedVars, tokens, stopped, outcome, count,
                 closeVars>>

-----------------------------------------------------------------------------
(* Delivery: _consume_events, _deliver, _finish_cancelled *)

\* A buffered group is delivered by the scheduler thread, in group order.
Turn(r) ==
  mode = "buffered" =>
    \A i, j \in 1..Len(group) :
      (i < j /\ group[j] = r /\ group[i] \in live) => deliver[group[i]] = "handled"

\* _finish_cancelled once the stream is drained.
FinishCancelled(r) ==
  /\ CanEmit(r)
  /\ events' = [events EXCEPT ![r] = Emitted(r, "cancelled")]
  /\ backendCancel' = [backendCancel EXCEPT ![r] = TRUE]
  /\ deliver' = [deliver EXCEPT ![r] = "cancelled"]
  /\ UNCHANGED <<outcome, count>>

\* Mutant: a failure is not reported.
FinishFailedMutantSilent(r) ==
  /\ backendCancel' = [backendCancel EXCEPT ![r] = @ \/ expired[r]]
  /\ deliver' = [deliver EXCEPT ![r] = "failed"]
  /\ UNCHANGED <<events, outcome, count>>

\* A failure reported to the caller.
FinishFailed(r) ==
  /\ CanEmit(r)
  /\ events' = [events EXCEPT ![r] = Emitted(r, "error")]
  /\ backendCancel' = [backendCancel EXCEPT ![r] = @ \/ expired[r]]
  /\ deliver' = [deliver EXCEPT ![r] = "failed"]
  /\ UNCHANGED <<outcome, count>>

\* The done event reached the caller's queue.
FinishOk(r) ==
  /\ Len(events[r]) < EventCap
  /\ events' = [events EXCEPT ![r] = Append(@, "done")]
  /\ deliver' = [deliver EXCEPT ![r] = "ok"]
  /\ UNCHANGED <<backendCancel, outcome, count>>

\* Only then is the request counted and its outcome recorded: its caller may have
\* read the event before.  A failure has no outcome until it is retired.
Record(r) ==
  /\ deliver[r] \in Answered
  /\ outcome' = [outcome EXCEPT ![r] = IF deliver[r] = "failed" THEN @ ELSE deliver[r]]
  /\ count' = [count EXCEPT !.completed = IF deliver[r] = "ok" THEN @ + 1 ELSE @,
                            !.failed = IF deliver[r] = "failed" THEN @ + 1 ELSE @,
                            !.cancelled = IF deliver[r] = "cancelled" THEN @ + 1 ELSE @]
  /\ deliver' = [deliver EXCEPT ![r] = "handled"]
  /\ UNCHANGED <<queueVars, callerVars, schedVars, workerVars, frames, stopped,
                 closeVars, faults>>

\* Mutant: the cancellation is counted before the drain as well as after it.
BeginDrainMutant(r) ==
  /\ deliver' = [deliver EXCEPT ![r] = "draining"]
  /\ backendCancel' = [backendCancel EXCEPT ![r] = TRUE]
  /\ count' = [count EXCEPT !.cancelled = @ + 1]
  /\ UNCHANGED <<events, outcome>>

\* The single path must reach the worker's terminal frame before it reports a
\* cancelled request.
BeginDrain(r) ==
  /\ deliver' = [deliver EXCEPT ![r] = "draining"]
  /\ backendCancel' = [backendCancel EXCEPT ![r] = TRUE]
  /\ UNCHANGED <<events, outcome, count>>

Consuming(r) ==
  /\ pc \in {"serve", "drain"} /\ deliver[r] = "consuming" /\ frames[r] # <<>>
  /\ Turn(r)

Interrupted(r) == closed \/ expired[r]

\* A token frame.
ConsumeToken(r) ==
  /\ Consuming(r) /\ Head(frames[r]) \in {"token", "stop_token"}
  /\ frames' = [frames EXCEPT ![r] = Tail(@)]
  /\ \/ /\ cancelled[r] \/ (Interrupted(r) /\ ~stopped[r] /\ Head(frames[r]) = "token")
        /\ IF mode = "single" THEN BeginDrain(r) ELSE FinishCancelled(r)
        /\ UNCHANGED stopped
     \/ /\ ~cancelled[r] /\ stopped[r]
        /\ UNCHANGED <<events, backendCancel, outcome, count, deliver, stopped>>
     \/ /\ ~cancelled[r] /\ ~stopped[r] /\ Head(frames[r]) = "stop_token"
        /\ stopped' = [stopped EXCEPT ![r] = TRUE]
        /\ backendCancel' = [backendCancel EXCEPT ![r] = TRUE]
        /\ UNCHANGED <<events, outcome, count, deliver>>
     \/ /\ ~EmitRefused(r) /\ ~stopped[r] /\ Head(frames[r]) = "token"
        /\ Len(events[r]) < EventCap
        /\ events' = [events EXCEPT ![r] = Append(@, "token")]
        /\ UNCHANGED <<backendCancel, outcome, count, deliver, stopped>>
  /\ UNCHANGED <<queueVars, cancelled, expired, caller, schedVars, workerVars,
                 closeVars, faults>>

\* Mutant: a request its own stop string ended counts as cancelled by the worker.
ConsumeDoneMutant(r) ==
  /\ Consuming(r) /\ Head(frames[r]) \in {"done", "done_cancelled"}
  /\ frames' = [frames EXCEPT ![r] = Tail(@)]
  /\ LET finishes == Head(frames[r]) = "done"
     IN \/ (EmitRefused(r) \/ ~finishes) /\ FinishCancelled(r)
        \/ ~EmitRefused(r) /\ finishes /\ FinishOk(r)
  /\ UNCHANGED <<queueVars, cancelled, expired, caller, schedVars, workerVars,
                 stopped, closeVars, faults>>

\* A done frame.
ConsumeDone(r) ==
  /\ Consuming(r) /\ Head(frames[r]) \in {"done", "done_cancelled"}
  /\ frames' = [frames EXCEPT ![r] = Tail(@)]
  /\ LET finishes == Head(frames[r]) = "done" \/ stopped[r]
     IN \/ (EmitRefused(r) \/ ~finishes) /\ FinishCancelled(r)
        \/ ~EmitRefused(r) /\ finishes /\ FinishOk(r)
  /\ UNCHANGED <<queueVars, cancelled, expired, caller, schedVars, workerVars,
                 stopped, closeVars, faults>>

\* The worker rejected the request, or its stream ended without completion.
\* On the single path either arrives as an exception out of the stream: a
\* cancelled request then finds nothing left to drain, takes that for a failed
\* drain, and retires the worker.
ConsumeFailure(r) ==
  /\ Consuming(r) /\ Head(frames[r]) \in {"rejected", "eof"}
  /\ frames' = [frames EXCEPT ![r] = Tail(@)]
  /\ IF cancelled[r] THEN FinishCancelled(r) ELSE FinishFailed(r)
  /\ worker' = IF cancelled[r] /\ mode = "single" /\ worker = "ready"
               THEN "lost" ELSE worker
  /\ UNCHANGED <<queueVars, cancelled, expired, caller, schedVars, faults, serve,
                 tokens, stopped, closeVars>>

\* _drain_cancelled_stream: content is dropped up to the terminal frame.
Drain(r) ==
  /\ deliver[r] = "draining" /\ frames[r] # <<>>
  /\ frames[r][Len(frames[r])] \in {"done", "done_cancelled", "eof"}
  /\ frames' = [frames EXCEPT ![r] = <<>>]
  /\ FinishCancelled(r)
  /\ UNCHANGED <<queueVars, cancelled, expired, caller, schedVars, workerVars,
                 stopped, closeVars, faults>>

-----------------------------------------------------------------------------
(* close() *)

\* _closed.set()
CloseBegin ==
  /\ closing = "no" /\ Fault
  /\ closed' = TRUE /\ closing' = "cancel"
  /\ UNCHANGED <<queueVars, callerVars, schedVars, workerVars, deliveryVars>>

\* Every registered session is cancelled.
CloseCancel ==
  /\ closing = "cancel"
  /\ cancelled' = [r \in Requests |-> cancelled[r] \/ r \in sessions]
  /\ backendCancel' = [r \in Requests |-> backendCancel[r] \/ r \in sessions]
  /\ closing' = "backend"
  /\ UNCHANGED <<queueVars, expired, events, caller, schedVars, workerVars,
                 deliveryVars, closed, faults>>

\* backend.close(): the worker ends.
CloseBackend ==
  /\ closing = "backend"
  /\ worker' = IF worker = "ready" THEN "lost" ELSE worker
  /\ WorkerGone
  /\ closing' = "join"
  /\ UNCHANGED <<queueVars, callerVars, schedVars, faults, tokens, stopped, outcome,
                 count, closed>>

\* Mutant: the carry is forgotten without task_done().
CloseDropMutant ==
  /\ closing = "join"
  /\ sessions' = {}
  /\ unfinished' = unfinished - Len(pending)
  /\ carry' = <<>> /\ pending' = <<>>
  /\ closing' = "done"
  /\ UNCHANGED <<admitted, aged, callerVars, schedVars, workerVars, deliveryVars,
                 closed, faults>>

\* The scheduler has ended, or the join timed out: sessions are forgotten and
\* whatever still waits is dropped, one task_done() each.
CloseDrop ==
  /\ closing = "join"
  /\ sessions' = {}
  /\ unfinished' = unfinished - Len(carry) - Len(pending)
  /\ carry' = <<>> /\ pending' = <<>>
  /\ closing' = "done"
  /\ UNCHANGED <<admitted, aged, callerVars, schedVars, workerVars, deliveryVars,
                 closed, faults>>

-----------------------------------------------------------------------------
CallerStep(r) == Admit(r) \/ Refuse(r) \/ Cancel(r) \/ Expire(r) \/ CallerRead(r)
                 \/ CallerStops(r) \/ CallerLeaves(r)

SchedulerStep == Recover \/ NextSession \/ NextSorted \/ OrderWaiting \/ TakeCompany
                 \/ StartGather \/ CloseGroup \/ Perform \/ GroupDone \/ GroupDrained
                 \/ Retire \/ Exit

Delivery(r) == ConsumeToken(r) \/ ConsumeDone(r) \/ ConsumeFailure(r) \/ Drain(r)
               \/ Record(r)

CloseStep == CloseBegin \/ CloseCancel \/ CloseBackend \/ CloseDrop

\* The scheduler polls an empty queue, or has ended: the service may rest here.
Idle ==
  /\ pc = "exit" \/ (pc = "top" /\ ~closed /\ carry = <<>> /\ pending = <<>>)
  /\ UNCHANGED vars

Next ==
  \/ \E r \in Requests : CallerStep(r) \/ WorkerToken(r) \/ WorkerEnd(r) \/ Delivery(r)
  \/ Age \/ Join \/ JoinDeclined \/ SchedulerStep \/ WorkerCrash \/ CloseStep
  \/ Idle

\* What runs without being asked: the scheduler and consumer threads, the engine
\* (a run is bounded by its token limit), a caller that has not left, and a
\* close() once begun.
SystemStep ==
  \/ SchedulerStep
  \/ \E r \in Requests : Delivery(r) \/ WorkerEnd(r) \/ CallerRead(r) \/ CallerStops(r)
  \/ CloseCancel \/ CloseBackend \/ CloseDrop

\* The weakest assumption under which these threads run: while one of them can
\* move, some one of them does.  Admission, joining, cancelling, deadlines,
\* crashes and closing are never forced.
Fairness == WF_vars(SystemStep)

Spec == Init /\ [][Next]_vars /\ Fairness

-----------------------------------------------------------------------------
(* Properties *)

QueueType ==
  /\ pending \in Seq(Requests) /\ carry \in Seq(Requests)
  /\ sessions \in SUBSET Requests /\ unfinished \in Nat
  /\ admitted \in Seq(Requests) /\ aged \in Nat

CallerType ==
  /\ cancelled \in [Requests -> BOOLEAN]
  /\ backendCancel \in [Requests -> BOOLEAN]
  /\ expired \in [Requests -> BOOLEAN]
  /\ events \in [Requests -> Seq(EventKinds)]
  /\ caller \in [Requests -> CallerStates]

SchedulerType ==
  /\ pc \in PCs /\ group \in Seq(Requests) /\ width \in 1..Capacity
  /\ mode \in {"single", "buffered", "streaming"}
  /\ live \in SUBSET Requests /\ joined \in Seq(Requests)
  /\ active \in SUBSET Requests /\ started \in Seq(Requests)

WorkerType ==
  /\ worker \in {"ready", "lost", "refused"}
  /\ serve \in [Requests -> {"idle", "running", "ended"}]
  /\ tokens \in [Requests -> Nat]

DeliveryType ==
  /\ frames \in [Requests -> Seq(FrameKinds)]
  /\ deliver \in [Requests -> DeliverStates]
  /\ stopped \in [Requests -> BOOLEAN]
  /\ outcome \in [Requests -> {"none", "ok", "cancelled", "failed"}]
  /\ count \in [completed : Nat, failed : Nat, cancelled : Nat]

CloseType == /\ closed \in BOOLEAN /\ closing \in {"no", "cancel", "backend", "join", "done"}
             /\ faults \in Nat

\* The type of every variable.
TypeOK ==
  /\ QueueType /\ CallerType /\ SchedulerType /\ WorkerType /\ DeliveryType /\ CloseType

\* Every acquisition of a queue task has exactly one matching task_done()
\* (service.py, comment on _carry): the queue's count of unfinished tasks is
\* the number of requests waiting, grouped or joined, through refused groups,
\* handed-back joiners and a close() that overtakes the scheduler.  One
\* task_done() too many would raise in _retire and end the scheduler thread.
TaskAccounting ==
  unfinished = Len(pending) + Len(carry) + Len(group) + Len(joined)

\* No admitted request is lost or held twice: until close() forgets them, the
\* registered sessions are exactly the requests in the queue, the carry, the
\* group and its joiners, and each of them is in one place only.
OnePlaceEach ==
  LET line == joined \o group \o carry \o pending
  IN /\ IsInjective(line)
     /\ closing # "done" => sessions = Range(line)

\* Without a shortest-first order, requests are put on the worker in the order
\* they were admitted, whatever groups were refused, joined or handed back.
ArrivalOrder ==
  Order = "fifo" =>
    \A i, j \in 1..Len(started) : i < j => Rank(started[i]) < Rank(started[j])

\* The three counters of health() count every request the scheduler ended once:
\* one that was delivered, failed or cancelled is never counted twice and none
\* is retired uncounted.
CountedOnce ==
  /\ count.completed + count.failed + count.cancelled
       = Cardinality({r \in Requests : deliver[r] = "handled"})
  /\ pc = "retire" => \A r \in Range(group \o joined) : deliver[r] = "handled"

\* What a caller was told agrees with what is recorded, or about to be: a caller
\* that read "done" was served completely, and one that read an error never was.
CallerAgrees ==
  \A r \in Requests :
    /\ caller[r] = "done" => outcome[r] = "ok" \/ deliver[r] = "ok"
    /\ caller[r] = "error" => /\ outcome[r] \in {"none", "failed"}
                              /\ deliver[r] \in {"failed", "handled"}
    /\ caller[r] # "cancelled" \/ cancelled[r] \/ closed

\* A group never runs more streams at once than the capacity the backend
\* qualified, joiners included, and a waiting request is never on the worker.
SlotsRespected ==
  /\ Cardinality({r \in Requests : serve[r] = "running"}) <= Capacity
  /\ \A r \in Range(carry \o pending) : serve[r] = "idle" /\ frames[r] = <<>>

\* Bounded admission: in arrival order, no more requests wait than the queue holds
\* plus one group's worth that was put back.  (A shortest-first order empties the
\* queue into the carry every time it sorts.)
BoundedWaiting ==
  Order = "fifo" => Len(pending) + Len(carry) <= MaxPending + Capacity

\* Every admitted request's caller is answered: with its tokens and "done",
\* with an error, or because it was cancelled, timed out or left.
CallersAnswered == \A r \in Requests : caller[r] = "open" ~> caller[r] # "open"

\* Every admitted request is retired.
SessionsRetired == \A r \in Requests : r \in sessions ~> r \notin sessions

=============================================================================
