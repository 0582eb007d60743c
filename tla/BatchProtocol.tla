---------------------------- MODULE BatchProtocol ----------------------------
(***************************************************************************)
(* One batch after another between complete_batch() of MLXWorkerClient     *)
(* (ironmule_product/backend.py) and the model worker (worker.py): the     *)
(* client's reader with its cancels and joins, the two pipes, the worker's *)
(* receiver thread, _run_engine_batch() and the engine's rounds            *)
(* (AsyncGroupedB1Executor.run of ironmule/executor.py).                   *)
(*                                                                         *)
(* Only configurations that stream (STREAMED_BATCH_CONFIGURATIONS) are     *)
(* modelled.  A request's content is its prompt length and its output      *)
(* limit; every answer runs to its limit.  Chained readback, which gives a *)
(* row several tokens in one turn, is one token per turn here; a cache's   *)
(* capacity is not rounded up; and the executor's fallback re-runs are     *)
(* left out, so an exception of the engine ends the batch.                 *)
(***************************************************************************)
EXTENDS Naturals, FiniteSets, Sequences, SequencesExt, FiniteSetsExt

CONSTANTS
  Requests,
  Prompt,        \* Prompt[r]: tokens of the rendered prompt
  Output,        \* Output[r]: max_tokens
  NoLimit,       \* the engine has no limit of its own
  Engines,       \* engines a worker may run: [limit, slots]
  ContextLimit,  \* CONTEXT_LIMIT
  Capacity,      \* batch_capacity: requests the service puts in one group
  GroupWidth,    \* max_width of the executor
  PendingCap,    \* the 64 of _receiver
  MaxBatches,    \* bound: batches the client starts
  Cancelling,    \* bound: requests whose callers may cancel
  MayFault       \* the engine may raise an exception, once

ASSUME RequestAssumption ==
  /\ Prompt \in [Requests -> Nat \ {0}]
  /\ Output \in [Requests -> Nat \ {0}]
ASSUME EngineAssumption ==
  \A e \in Engines : e.limit \in (Nat \ {0}) \cup {NoLimit} /\ e.slots \in Nat /\ e.slots >= Capacity
ASSUME BoundAssumption ==
  /\ ContextLimit \in Nat \ {0} /\ Capacity \in Nat \ {0} /\ GroupWidth \in Nat \ {0}
  /\ PendingCap \in Nat /\ MaxBatches \in Nat /\ Cancelling \subseteq Requests
  /\ MayFault \in BOOLEAN

VARIABLES
  engine,        \* the worker's engine: its limit (NoLimit) and its slots
  faulted,       \* whether the engine raised an exception
  (* the callers and the service *)
  cancelled,     \* requests whose cancel event is set
  free,          \* requests no batch holds and that have no answer
  answer,        \* how a request ended: none, stop, cancelled, rejected
  got,           \* tokens received (len of events_by_id)
  (* the client in complete_batch() *)
  client,        \* idle, running, failed
  batch,         \* number of the current or last batch (batch_id)
  listed,        \* request_list
  initial,       \* how many of them started the batch; the others joined
  cancelSent,
  (* the pipes *)
  toWorker, toClient,
  (* the worker's receiver thread *)
  commands, joins, registered, flagged, pending,
  (* _run_engine_batch() *)
  wpc,           \* wait, round, prefill, admit, joining, form, decode, report, cleanup
  wbatch, limit, allIds, report, skipped, joined, waiting, leftovers,
  sent, stopped, finished,       \* the _BatchStream of each request
  (* the engine's run *)
  rotation, arriving, todo, made, done

machine == <<engine, faulted>>
clientVars == <<cancelled, free, answer, got, client, batch, listed, initial, cancelSent>>
receiverVars == <<commands, joins, registered, flagged, pending>>
batchVars == <<wbatch, limit, allIds, report, skipped, joined, waiting, leftovers>>
streamVars == <<sent, stopped, finished>>
runVars == <<rotation, arriving, todo, made, done>>
vars == <<machine, clientVars, toWorker, toClient, receiverVars, wpc, batchVars, streamVars, runVars>>

Elements(s) == ToSet(s)
Only(s, S) == FlattenSeq([i \in DOMAIN s |-> IF s[i] \in S THEN <<s[i]>> ELSE <<>>])
Without(s, S) == Only(s, Requests \ S)
Distinct(S, n) == {s \in SeqOf(S, n) : IsInjective(s)}

Init ==
  /\ engine \in Engines
  /\ cancelled = {} /\ free = Requests
  /\ answer = [r \in Requests |-> "none"] /\ got = [r \in Requests |-> 0]
  /\ client = "idle" /\ batch = 0 /\ listed = <<>> /\ initial = 0 /\ cancelSent = {}
  /\ toWorker = <<>> /\ toClient = <<>>
  /\ commands = <<>> /\ joins = <<>> /\ registered = {} /\ flagged = {} /\ pending = {}
  /\ wpc = "wait"
  /\ wbatch = 0 /\ limit = NoLimit /\ allIds = <<>> /\ report = <<>> /\ skipped = {}
  /\ joined = <<>> /\ waiting = <<>> /\ leftovers = <<>>
  /\ sent = [r \in Requests |-> 0] /\ stopped = {} /\ finished = {}
  /\ rotation = <<>> /\ arriving = <<>> /\ todo = <<>> /\ made = [r \in Requests |-> 0] /\ done = {}
  /\ faulted = FALSE

-----------------------------------------------------------------------------
(* The client: complete_batch().                                           *)

Dense == engine.limit # NoLimit
Open == {r \in Elements(listed) : answer[r] = "none"}

(* A caller sets its cancel event; an answered request's stays unused.     *)
Cancel(r) ==
  /\ client # "failed" /\ r \in Cancelling \ cancelled /\ answer[r] = "none"
  /\ cancelled' = cancelled \cup {r}
  /\ UNCHANGED <<machine, free, answer, got, client, batch, listed, initial, cancelSent,
                 toWorker, toClient, receiverVars, wpc, batchVars, streamVars, runVars>>

Start ==
  /\ client = "idle" /\ batch < MaxBatches
  /\ \E rows \in Distinct(free \ cancelled, Capacity) :
       /\ rows # <<>>
       /\ batch' = batch + 1
       /\ listed' = rows /\ initial' = Len(rows)
       /\ free' = free \ Elements(rows)
       /\ toWorker' = Append(toWorker, [kind |-> "generate", batch |-> batch', rows |-> rows])
  /\ cancelSent' = {}
  /\ client' = "running"
  /\ UNCHANGED <<machine, cancelled, answer, got, toClient, receiverVars, wpc, batchVars, streamVars, runVars>>

(* How many the service may still hand to the running batch: a plan that   *)
(* reuses slots counts the members still running, others every member.     *)
Room == LET members == IF Dense THEN Cardinality(Open) ELSE Len(listed)
        IN  IF members < Capacity THEN Capacity - members ELSE 0

Due == {r \in cancelled \ cancelSent : answer[r] = "none"}
CancelsOf(rows) == [i \in DOMAIN rows |-> [kind |-> "cancel", id |-> rows[i]]]

(* poll_cancels(): the cancels that are due, then the joiners joins()      *)
(* takes from the queue, in one message.                                   *)
PollCancels(fresh) ==
  /\ fresh \in Distinct(free \ cancelled, Room)
  /\ toWorker' = toWorker
                 \o CancelsOf(Only(listed, Due))
                 \o IF fresh = <<>> THEN <<>>
                    ELSE <<[kind |-> "join", batch |-> batch, rows |-> fresh]>>
  /\ cancelSent' = cancelSent \cup (Due \cap Elements(listed))

Poll ==
  /\ client = "running"
  /\ \E fresh \in Distinct(free \ cancelled, Room) :
       /\ fresh # <<>> \/ Due \cap Elements(listed) # {}
       /\ PollCancels(fresh)
       /\ listed' = listed \o fresh
       /\ free' = free \ Elements(fresh)
  /\ UNCHANGED <<machine, cancelled, answer, got, client, batch, initial,
                 toClient, receiverVars, wpc, batchVars, streamVars, runVars>>

(* What the client accepts of each frame; `list` and `cancels` are its     *)
(* state after the poll that precedes the frame.                           *)
Known(f, list) == f.batch = batch /\ f.id \in Elements(list) /\ answer[f.id] = "none"
TokenValid(f, list) == Known(f, list) /\ f.n = got[f.id] + 1 /\ f.n <= Output[f.id]
DoneValid(f, list, cancels) ==
  /\ Known(f, list)
  /\ got[f.id] <= f.n /\ f.n <= Output[f.id]
  /\ f.how # "cancelled" => f.n <= got[f.id] + 1
  /\ f.how = "cancelled" => f.id \in cancels
RejectedValid(f, list) ==
  Known(f, list) /\ got[f.id] = 0 /\ f.limit \in 1..ContextLimit

(* Joiners the worker ended without: they go back to the caller.           *)
Unserved(f, list) ==
  {r \in Elements(SubSeq(list, initial + 1, Len(list))) :
     r \notin Elements(f.ids) /\ got[r] = 0 /\ answer[r] = "none"}

BatchDoneValid(f, list) ==
  LET unserved == Unserved(f, list) IN
  /\ f.batch = batch
  /\ f.ids = Without(list, unserved)
  /\ {r \in Elements(list) : answer[r] # "none"} \cup unserved = Elements(list)
  /\ Len(toClient) = 1

(* The client takes the next frame, polls, and then looks at the frame.    *)
Reading(kind, fresh) ==
  /\ client = "running" /\ toClient # <<>> /\ Head(toClient).kind = kind
  /\ toClient' = Tail(toClient)
  /\ PollCancels(fresh)
  /\ UNCHANGED <<machine, cancelled, batch, initial, receiverVars, wpc, batchVars, streamVars, runVars>>

ReadToken == \E fresh \in Distinct(free \ cancelled, Room) :
  /\ Reading("token", fresh)
  /\ TokenValid(Head(toClient), listed \o fresh)
  /\ got' = [got EXCEPT ![Head(toClient).id] = @ + 1]
  /\ listed' = listed \o fresh /\ free' = free \ Elements(fresh)
  /\ UNCHANGED <<answer, client>>

ReadDone == \E fresh \in Distinct(free \ cancelled, Room) :
  /\ Reading("done", fresh)
  /\ DoneValid(Head(toClient), listed \o fresh, cancelSent')
  /\ answer' = [answer EXCEPT ![Head(toClient).id] = Head(toClient).how]
  /\ listed' = listed \o fresh /\ free' = free \ Elements(fresh)
  /\ UNCHANGED <<got, client>>

ReadRejected == \E fresh \in Distinct(free \ cancelled, Room) :
  /\ Reading("rejected", fresh)
  /\ RejectedValid(Head(toClient), listed \o fresh)
  /\ answer' = [answer EXCEPT ![Head(toClient).id] = "rejected"]
  /\ listed' = listed \o fresh /\ free' = free \ Elements(fresh)
  /\ UNCHANGED <<got, client>>

ReadBatchDone == \E fresh \in Distinct(free \ cancelled, Room) :
  /\ Reading("batch_done", fresh)
  /\ BatchDoneValid(Head(toClient), listed \o fresh)
  /\ client' = "idle"
  /\ free' = (free \ Elements(fresh)) \cup Unserved(Head(toClient), listed \o fresh)
  /\ listed' = <<>>
  /\ UNCHANGED <<answer, got>>

(* Anything else is a broken batch: the client gives the worker up.        *)
ReadInvalid == \E fresh \in Distinct(free \ cancelled, Room) :
  LET f == Head(toClient)
      list == listed \o fresh
  IN
  /\ toClient # <<>>
  /\ Reading(f.kind, fresh)
  /\ ~ \/ f.kind = "token" /\ TokenValid(f, list)
       \/ f.kind = "done" /\ DoneValid(f, list, cancelSent')
       \/ f.kind = "rejected" /\ RejectedValid(f, list)
       \/ f.kind = "batch_done" /\ BatchDoneValid(f, list)
  /\ client' = "failed"
  /\ listed' = list /\ free' = free \ Elements(fresh)
  /\ UNCHANGED <<answer, got>>

-----------------------------------------------------------------------------
(* The worker's receiver thread: _receiver().                              *)

(* A client that gives the worker up kills it (_mark_unusable).            *)
Alive == client # "failed"

Receive(kind) ==
  /\ Alive /\ toWorker # <<>> /\ Head(toWorker).kind = kind
  /\ toWorker' = Tail(toWorker)
  /\ UNCHANGED <<machine, clientVars, toClient, registered, wpc, batchVars, streamVars, runVars>>

ReceiveCommand ==
  /\ Receive("generate")
  /\ commands' = Append(commands, Head(toWorker))
  /\ UNCHANGED <<joins, flagged, pending>>

ReceiveJoin ==
  /\ Receive("join")
  /\ joins' = Append(joins, Head(toWorker))
  /\ UNCHANGED <<commands, flagged, pending>>

(* A cancel sets the event of a request the worker knows; an earlier one   *)
(* is kept for the request that will come, while there is room.            *)
ReceiveCancel ==
  /\ Receive("cancel")
  /\ LET r == Head(toWorker).id IN
     IF r \in registered
     THEN flagged' = flagged \cup {r} /\ UNCHANGED pending
     ELSE /\ pending' = IF Cardinality(pending) < PendingCap THEN pending \cup {r} ELSE pending
          /\ UNCHANGED flagged
  /\ UNCHANGED <<commands, joins>>

-----------------------------------------------------------------------------
(* The worker's main thread: _run_engine_batch().                          *)

Cost(r) == Prompt[r] + Output[r]
TooLong(r, bound) == Cost(r) > ContextLimit \/ (bound # NoLimit /\ Cost(r) > bound)
Fitting(rows, bound) == Only(rows, {r \in Requests : ~TooLong(r, bound)})
Rejections(number, rows, bound) ==
  LET bad == Only(rows, {r \in Requests : TooLong(r, bound)}) IN
  [i \in DOMAIN bad |->
     [kind |-> "rejected", batch |-> number, id |-> bad[i],
      limit |-> IF Cost(bad[i]) > ContextLimit THEN ContextLimit ELSE bound]]

DoneFrame(r, how, n) == [kind |-> "done", batch |-> wbatch, id |-> r, how |-> how, n |-> n]

(* Mutant: the cancels that came early are not looked up.                  *)
RegisterMutant(rows) ==
  /\ registered' = registered \cup Elements(rows)
  /\ UNCHANGED <<flagged, pending>>

(* Each row gets its cancel event, already set when a cancel came first.   *)
Register(rows) ==
  /\ registered' = registered \cup Elements(rows)
  /\ flagged' = flagged \cup (pending \cap Elements(rows))
  /\ pending' = pending \ Elements(rows)

(* Mutant: the exception is swallowed.                                     *)
FailMutant ==
  /\ UNCHANGED toClient
  /\ wpc' = "cleanup"

(* An exception ends the batch with an error frame.                        *)
Fail ==
  /\ toClient' = Append(toClient, [kind |-> "error", batch |-> wbatch])
  /\ wpc' = "cleanup"

At(place) == Alive /\ wpc = place

TakeCommand ==
  /\ At("wait") /\ commands # <<>>
  /\ LET command == Head(commands) IN
     /\ wbatch' = command.batch
     /\ limit' = engine.limit
     /\ allIds' = command.rows
     /\ report' = Fitting(command.rows, limit')
     /\ toClient' = toClient \o Rejections(command.batch, command.rows, limit')
     /\ Register(report')
  /\ commands' = Tail(commands)
  /\ wpc' = "round"
  /\ UNCHANGED <<machine, clientVars, toWorker, joins, skipped, joined, waiting, leftovers,
                 streamVars, runVars>>

NoRowsLeft ==
  /\ At("round") /\ report = <<>>
  /\ toClient' = Append(toClient, [kind |-> "batch_done", batch |-> wbatch, ids |-> allIds])
  /\ wpc' = "cleanup"
  /\ UNCHANGED <<machine, clientVars, toWorker, receiverVars, batchVars, streamVars, runVars>>

(* finally: the registered events are dropped, and the locals with them.   *)
Cleanup ==
  /\ At("cleanup")
  /\ registered' = {} /\ flagged' = {}
  /\ wpc' = "wait"
  /\ wbatch' = 0 /\ limit' = NoLimit /\ allIds' = <<>> /\ report' = <<>> /\ skipped' = {}
  /\ joined' = <<>> /\ waiting' = <<>> /\ leftovers' = <<>>
  /\ sent' = [r \in Requests |-> 0] /\ stopped' = {} /\ finished' = {}
  /\ rotation' = <<>> /\ arriving' = <<>> /\ todo' = <<>> /\ made' = [r \in Requests |-> 0] /\ done' = {}
  /\ UNCHANGED <<machine, clientVars, toWorker, toClient, commands, joins, pending>>

(* A row of this round or newly admitted has a _BatchStream and a session  *)
(* of its own.                                                             *)
NewRows(rows) ==
  /\ sent' = [r \in Requests |-> IF r \in Elements(rows) THEN 0 ELSE sent[r]]
  /\ stopped' = stopped \ Elements(rows)
  /\ finished' = finished \ Elements(rows)
  /\ made' = [r \in Requests |-> IF r \in Elements(rows) THEN 0 ELSE made[r]]
  /\ done' = done \ Elements(rows)

(* The rows already cancelled are skipped; the engine gets the others,     *)
(* unless there are more of them than a dense plan has slots.              *)
Round ==
  /\ At("round") /\ report # <<>>
  /\ skipped' = flagged \cap Elements(report)
  /\ todo' = Without(report, skipped')
  /\ NewRows(todo')
  /\ rotation' = <<>> /\ arriving' = todo'
  /\ IF Dense /\ Len(todo') > engine.slots
     THEN Fail
     ELSE wpc' = (IF todo' = <<>> THEN "report" ELSE "prefill") /\ UNCHANGED toClient
  /\ UNCHANGED <<machine, clientVars, toWorker, receiverVars, wbatch, limit, allIds, report, joined,
                 waiting, leftovers>>

(* Mutant: a cancelled stream stops its tokens but not its done frame.     *)
ProduceMutant(r) ==
  LET n == made[r] + 1
      silent == r \in stopped \cup flagged
      last == n = Output[r]
  IN
  /\ made' = [made EXCEPT ![r] = n]
  /\ done' = IF last THEN done \cup {r} ELSE done
  /\ stopped' = IF silent THEN stopped \cup {r} ELSE stopped
  /\ sent' = IF silent THEN sent ELSE [sent EXCEPT ![r] = @ + 1]
  /\ finished' = IF last THEN finished \cup {r} ELSE finished
  /\ toClient' = toClient
       \o (IF silent THEN <<>> ELSE <<[kind |-> "token", batch |-> wbatch, id |-> r, n |-> sent[r] + 1]>>)
       \o (IF last THEN <<DoneFrame(r, "stop", sent[r] + 1)>> ELSE <<>>)

(* Mutant: one token past the limit.                                       *)
ProduceMutantLast(r) ==
  LET n == made[r] + 1
      silent == r \in stopped \cup flagged
      last == n > Output[r]
  IN
  /\ made' = [made EXCEPT ![r] = n]
  /\ done' = IF last THEN done \cup {r} ELSE done
  /\ stopped' = IF silent THEN stopped \cup {r} ELSE stopped
  /\ sent' = IF silent THEN sent ELSE [sent EXCEPT ![r] = @ + 1]
  /\ finished' = IF last /\ ~silent THEN finished \cup {r} ELSE finished
  /\ toClient' = toClient
       \o (IF silent THEN <<>> ELSE <<[kind |-> "token", batch |-> wbatch, id |-> r, n |-> sent[r] + 1]>>)
       \o (IF last /\ ~silent THEN <<DoneFrame(r, "stop", sent[r] + 1)>> ELSE <<>>)

(* _BatchStream.on_token() for the next token of r: nothing is sent once   *)
(* its cancel was seen; the last token brings the done frame with it.      *)
Produce(r) ==
  LET n == made[r] + 1
      silent == r \in stopped \cup flagged
      last == n = Output[r]
  IN
  /\ made' = [made EXCEPT ![r] = n]
  /\ done' = IF last THEN done \cup {r} ELSE done
  /\ stopped' = IF silent THEN stopped \cup {r} ELSE stopped
  /\ sent' = IF silent THEN sent ELSE [sent EXCEPT ![r] = @ + 1]
  /\ finished' = IF last /\ ~silent THEN finished \cup {r} ELSE finished
  /\ toClient' = toClient
       \o (IF silent THEN <<>> ELSE <<[kind |-> "token", batch |-> wbatch, id |-> r, n |-> sent[r] + 1]>>)
       \o (IF last /\ ~silent THEN <<DoneFrame(r, "stop", sent[r] + 1)>> ELSE <<>>)

(* Only a row of the round's start can stop the engine; a joiner has no    *)
(* predicate and runs silently to its end.                                 *)
Stoppable(r) == r \notin Elements(joined) /\ r \in flagged

(* The engine raises: the batch ends with an error frame.                  *)
EngineFault ==
  /\ Alive /\ MayFault /\ ~faulted /\ wpc \in {"prefill", "joining", "decode"}
  /\ faulted' = TRUE
  /\ Fail
  /\ UNCHANGED <<engine, clientVars, toWorker, receiverVars, batchVars, streamVars, runVars>>

EngineStep ==
  UNCHANGED <<machine, clientVars, toWorker, receiverVars, batchVars>>

(* Every row's prefill gives its first token, before the first round of    *)
(* the run, or at once when the row is admitted into it.                   *)
Prefill ==
  /\ Alive /\ wpc \in {"prefill", "joining"}
  /\ LET r == Head(todo) IN
     IF Stoppable(r)
     THEN done' = done \cup {r} /\ UNCHANGED <<made, streamVars, toClient>>
     ELSE Produce(r)
  /\ todo' = Tail(todo)
  /\ wpc' = IF Len(todo) > 1 THEN wpc ELSE IF wpc = "prefill" THEN "admit" ELSE "form"
  /\ EngineStep /\ UNCHANGED <<rotation, arriving>>

(* The rows that commands or joins bring to a batch.                       *)
RowsOf(messages, number) ==
  FlattenSeq([i \in DOMAIN messages |-> IF messages[i].batch = number THEN messages[i].rows ELSE <<>>])

(* Mutant: a join that arrives after its batch ended is not dropped.       *)
ArrivedMutant == FlattenSeq([i \in DOMAIN joins |-> joins[i].rows])

(* drain_joins(): join commands of another batch are dropped.              *)
Arrived == RowsOf(joins, wbatch)
Duplicate == ~IsInjective(allIds \o Arrived)

(* admit(): waiting joiners and new ones.  One too long for this run's     *)
(* cache runs after it, one without a free slot waits for the next round.  *)
RunRows == Elements(report) \ skipped
RunCapacity == Max({Prompt[r] : r \in RunRows}) + Max({Output[r] : r \in RunRows})
LongForRun(r) == IF limit # NoLimit THEN Cost(r) > limit ELSE Cost(r) > RunCapacity
FreeSlots == engine.slots - Cardinality(Elements(rotation \o arriving) \ done)

Admit ==
  /\ At("admit")
  /\ UNCHANGED <<machine, clientVars, toWorker, commands>>
  /\ joins' = <<>>
  /\ IF Duplicate
     THEN Fail /\ UNCHANGED <<batchVars, registered, flagged, pending, streamVars, runVars>>
     ELSE LET candidates == waiting \o Fitting(Arrived, limit)
              short == Only(candidates, {r \in Requests : ~LongForRun(r)})
              room == IF Dense /\ FreeSlots < Len(short) THEN FreeSlots ELSE Len(short)
          IN
          /\ allIds' = allIds \o Arrived
          /\ Register(Fitting(Arrived, limit))
          /\ leftovers' = leftovers \o Only(candidates, {r \in Requests : LongForRun(r)})
          /\ waiting' = SubSeq(short, room + 1, Len(short))
          /\ todo' = SubSeq(short, 1, room)
          /\ joined' = joined \o todo'
          /\ NewRows(todo')
          /\ arriving' = todo' \o arriving
          /\ wpc' = IF todo' = <<>> THEN "form" ELSE "joining"
          /\ UNCHANGED <<wbatch, limit, report, skipped, rotation>>
          /\ toClient' = toClient \o Rejections(wbatch, Arrived, limit)

(* The next round: rows that arrived join the rotation, cancelled ones     *)
(* leave it, and its first GroupWidth rows are stepped.  With none left    *)
(* the run ends, and joiners still waiting run after it.                   *)
Form ==
  /\ At("form")
  /\ done' = done \cup {r \in Elements(rotation \o arriving) : Stoppable(r)}
  /\ rotation' = Without(rotation \o arriving, done')
  /\ arriving' = <<>>
  /\ todo' = SubSeq(rotation', 1, IF Len(rotation') < GroupWidth THEN Len(rotation') ELSE GroupWidth)
  /\ IF rotation' = <<>>
     THEN wpc' = "report" /\ leftovers' = leftovers \o waiting /\ waiting' = <<>>
     ELSE wpc' = "decode" /\ UNCHANGED <<leftovers, waiting>>
  /\ UNCHANGED <<machine, clientVars, toWorker, toClient, receiverVars,
                 wbatch, limit, allIds, report, skipped, joined, streamVars, made>>

(* One more token for each row of the group, which then goes to the back.  *)
Decode ==
  /\ At("decode")
  /\ Produce(Head(todo))
  /\ todo' = Tail(todo)
  /\ rotation' = Tail(rotation) \o IF Head(todo) \in done' THEN <<>> ELSE <<Head(todo)>>
  /\ wpc' = IF Len(todo) > 1 THEN "decode" ELSE "admit"
  /\ EngineStep /\ UNCHANGED arriving

(* The run's results: rows that were skipped or stopped get their done     *)
(* now, every other one had it with its last token.  The loop over the     *)
(* results reuses the name `limit`.  Then what is left, and what joined    *)
(* since, makes the next round.                                            *)
Report ==
  /\ At("report")
  /\ LET rows == report \o joined
         ending == Without(rows, finished)
         frames == [i \in DOMAIN ending |->
                      IF ending[i] \in skipped THEN DoneFrame(ending[i], "cancelled", 0)
                      ELSE IF ending[i] \in flagged THEN DoneFrame(ending[i], "cancelled", sent[ending[i]])
                      ELSE DoneFrame(ending[i], "stop", made[ending[i]])]
     IN
     /\ limit' = Output[Last(rows)]
     /\ joins' = <<>>
     /\ IF Duplicate
        THEN /\ toClient' = toClient \o frames \o <<[kind |-> "error", batch |-> wbatch]>>
             /\ wpc' = "cleanup"
             /\ UNCHANGED <<allIds, report, joined, leftovers, registered, flagged, pending>>
        ELSE /\ allIds' = allIds \o Arrived
             /\ Register(Fitting(Arrived, limit'))
             /\ report' = leftovers \o Fitting(Arrived, limit')
             /\ leftovers' = <<>> /\ joined' = <<>>
             /\ toClient' = toClient \o frames \o Rejections(wbatch, Arrived, limit')
             /\ wpc' = "round"
  /\ UNCHANGED <<machine, clientVars, toWorker, commands, wbatch, skipped, waiting, streamVars, runVars>>

-----------------------------------------------------------------------------
Client == Poll \/ ReadToken \/ ReadDone \/ ReadRejected \/ ReadBatchDone \/ ReadInvalid
Receiver == ReceiveCommand \/ ReceiveJoin \/ ReceiveCancel
Worker == TakeCommand \/ NoRowsLeft \/ Cleanup \/ Round \/ Prefill \/ Admit \/ Form \/ Decode \/ Report \/ EngineFault

Next == Start \/ (\E r \in Requests : Cancel(r)) \/ Client \/ Receiver \/ Worker

Fairness == WF_vars(Client \/ Receiver \/ Worker)
Spec == Init /\ [][Next]_vars /\ Fairness

-----------------------------------------------------------------------------
(* Properties                                                              *)

TypeOK ==
  /\ engine \in Engines /\ faulted \in BOOLEAN
  /\ cancelled \subseteq Requests /\ free \subseteq Requests /\ cancelSent \subseteq Requests
  /\ answer \in [Requests -> {"none", "stop", "cancelled", "rejected"}]
  /\ got \in [Requests -> Nat]
  /\ client \in {"idle", "running", "failed"} /\ batch \in 0..MaxBatches
  /\ listed \in Seq(Requests) /\ initial \in 0..Capacity
  /\ registered \subseteq Requests /\ flagged \subseteq Requests /\ pending \subseteq Requests
  /\ wpc \in {"wait", "round", "prefill", "admit", "joining", "form", "decode", "report", "cleanup"}
  /\ wbatch \in 0..MaxBatches /\ limit \in Nat \cup {NoLimit}
  /\ allIds \in Seq(Requests) /\ report \in Seq(Requests) /\ joined \in Seq(Requests)
  /\ waiting \in Seq(Requests) /\ leftovers \in Seq(Requests) /\ skipped \subseteq Requests
  /\ \A r \in Requests : made[r] \in 0..Output[r] /\ sent[r] \in 0..made[r]
  /\ stopped \subseteq Requests /\ finished \subseteq Requests /\ done \subseteq Requests
  /\ rotation \in Seq(Requests) /\ arriving \in Seq(Requests) /\ todo \in Seq(Requests)

(* complete_batch() never gives a worker up that did nothing wrong,        *)
(* whatever the order in which cancels, joiners and frames cross.          *)
NeverCondemned == client = "failed" => faulted

(* A cancel the client sent is not lost between the threads: it is on its  *)
(* way, or it is set for a request the worker registered and kept for one  *)
(* whose command or join the worker has still to take.  No step ends that, *)
(* whatever crosses it, but the receiver's when a cancel comes before its  *)
(* request and the set of early cancels is full (_receiver()).             *)
InJoins == Elements(RowsOf(joins, batch))
InCommands == Elements(RowsOf(commands, batch))
Sending(r) == \E i \in DOMAIN toWorker : toWorker[i].kind = "cancel" /\ toWorker[i].id = r
Received(r) ==
  /\ r \in registered => r \in flagged
  /\ r \in InJoins \cup InCommands => r \in pending
Held(r) == Sending(r) \/ Received(r)
NoRoomFor(r) ==
  /\ ReceiveCancel /\ Head(toWorker).id = r
  /\ r \notin registered /\ ~(Cardinality(pending) < PendingCap)
HoldsCancels ==
  client' = "running" =>
    \A r \in cancelSent' : (r \in cancelSent => Held(r)) => Held(r)' \/ NoRoomFor(r)
CancelKept == [][HoldsCancels]_vars

(* A batch that started ends.                                              *)
BatchEnds == client = "running" ~> client # "running"

(* Whoever is rejected is too long to run (RequestTooLong in worker.py).   *)
RejectedTooLong == \A r \in Requests : answer[r] = "rejected" => TooLong(r, engine.limit)

(* complete_batch() keeps what the service relies on.                      *)
Promise == INSTANCE GroupService WITH
  out <- Open, tokens <- got, answer <- answer, cancelled <- cancelled
Implements == Promise!Spec
=============================================================================
