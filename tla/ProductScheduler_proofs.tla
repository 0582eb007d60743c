---------------------- MODULE ProductScheduler_proofs ----------------------
(***************************************************************************)
(* Theorems about ProductScheduler, for every set of requests, capacity,   *)
(* queue size and bound.                                                   *)
(*                                                                         *)
(* The argument is in layers, each an inductive invariant that the next    *)
(* ones may use: IInv (types and the queue's task count), Places (each     *)
(* request is in one place), Stages (the worker and the consumers have     *)
(* touched members of the running group only), and on top of these Slots,  *)
(* PutBack, InOrder, Settled and Told, one for each of the theorems        *)
(* SlotsKept, WaitingBounded, ArrivalKept, CountedExactly, CallersAgree.   *)
(***************************************************************************)
EXTENDS ProductScheduler, SequenceTheorems, FiniteSetTheorems, TLAPS

-----------------------------------------------------------------------------
(* Facts about sequences and finite sets used below *)

\* The elements of a finite sequence are finitely many, so any subset of them
\* has a natural cardinality.
LEMMA FiniteRange ==
  ASSUME NEW S, NEW q \in Seq(S), NEW T \in SUBSET Range(q)
  PROVE  IsFiniteSet(T) /\ Cardinality(T) \in Nat
<1>1. q \in Surjection(1..Len(q), Range(q))
  BY DEF Surjection, Range
<1>2. IsFiniteSet(1..Len(q))
  BY FS_Interval
<1>3. IsFiniteSet(Range(q))
  BY <1>1, <1>2, FS_Surjection
<1> QED
  BY <1>3, FS_Subset, FS_CardinalityType

\* Sorting the waiting requests keeps how many there are.
LEMMA SortedType ==
  ASSUME NEW q \in Seq(Requests), NEW sjf, NEW s \in Sorted(q, sjf)
  PROVE  s \in Seq(Requests) /\ Len(s) = Len(q)
<1>1. s \in [1..Len(q) -> Range(q)]
  BY DEF Sorted
<1>2. Range(q) \subseteq Requests
  BY DEF Range
<1> QED
  BY <1>1, <1>2

\* A cut of a sequence splits its length.
LEMMA CutType ==
  ASSUME NEW S, NEW q \in Seq(S), NEW k \in 0..Len(q)
  PROVE  /\ SubSeq(q, 1, k) \in Seq(S) /\ Len(SubSeq(q, 1, k)) = k
         /\ SubSeq(q, k + 1, Len(q)) \in Seq(S)
         /\ Len(SubSeq(q, k + 1, Len(q))) = Len(q) - k
<1>1. \A i \in 1..Len(q) : q[i] \in S
  OBVIOUS
<1>2. SubSeq(q, 1, k) \in Seq(S) /\ Len(SubSeq(q, 1, k)) = k
  BY <1>1, SubSeqProperties
<1>3. /\ SubSeq(q, k + 1, Len(q)) \in Seq(S)
      /\ Len(SubSeq(q, k + 1, Len(q))) = Len(q) - k
  BY <1>1, SubSeqProperties
<1> QED
  BY <1>2, <1>3

-----------------------------------------------------------------------------
(* The inductive invariant.  Retiring removes one request from the group or   *)
(* its joiners, so the count stays a natural number only because the thread   *)
(* never reaches that point empty-handed: what each program point holds is    *)
(* part of the invariant.                                                     *)

GroupHeld ==
  /\ pc \in {"top", "exit", "order", "form", "gather", "perform"} => joined = <<>>
  /\ pc \in {"top", "exit"} => group = <<>>
  /\ pc \in {"order", "form", "gather", "perform", "serve", "drain"} => group # <<>>
  /\ pc = "retire" => group # <<>> \/ joined # <<>>

IInv == TypeOK /\ GroupHeld /\ TaskAccounting

USE DEF EventKinds, FrameKinds, CallerStates, PCs, DeliverStates, Answered

\* The initial states satisfy it.
LEMMA InitIInv == Init => IInv
<1> SUFFICES ASSUME Init PROVE IInv
  OBVIOUS
<1>1. QueueType
  BY DEF Init, QueueType
<1>2. CallerType
  BY DEF Init, CallerType
<1>3. SchedulerType
  BY BoundsAssumption DEF Init, SchedulerType, BoundsAssumption
<1>4. WorkerType
  BY DEF Init, WorkerType
<1>5. DeliveryType
  BY DEF Init, DeliveryType
<1>6. CloseType
  BY BoundsAssumption DEF Init, CloseType, BoundsAssumption
<1>7. GroupHeld /\ TaskAccounting
  BY DEF Init, GroupHeld, TaskAccounting
<1> QED
  BY <1>1, <1>2, <1>3, <1>4, <1>5, <1>6, <1>7 DEF IInv, TypeOK

\* cancel() leaves Booleans.
LEMMA CancelType ==
  ASSUME CallerType, NEW r \in Requests, CancelSession(r)
  PROVE  cancelled' \in [Requests -> BOOLEAN] /\ backendCancel' \in [Requests -> BOOLEAN]
BY DEF CallerType, CancelSession

\* A step of a caller keeps the invariant.
LEMMA CallerIInv ==
  ASSUME IInv, NEW r \in Requests, CallerStep(r)
  PROVE  IInv'
<1> USE DEF IInv, TypeOK
<1>1. CASE Admit(r)
  <2>1. SchedulerType' /\ WorkerType' /\ DeliveryType' /\ CloseType'
    BY <1>1 DEF Admit, SchedulerType, WorkerType, DeliveryType, CloseType, schedVars, workerVars, deliveryVars, closeVars
  <2>2. QueueType'
    BY <1>1 DEF Admit, QueueType, CallerType, SchedulerType, WorkerType, DeliveryType, CloseType, queueVars
  <2>3. CallerType'
    BY <1>1 DEF Admit, QueueType, CallerType, SchedulerType, WorkerType, DeliveryType, CloseType, callerVars
  <2>4. GroupHeld' /\ TaskAccounting'
    BY <1>1 DEF Admit, QueueType, SchedulerType, queueVars, schedVars, GroupHeld, TaskAccounting
  <2> QED
    BY <2>1, <2>2, <2>3, <2>4
<1>2. CASE Refuse(r)
  <2>1. QueueType' /\ SchedulerType' /\ WorkerType' /\ DeliveryType' /\ CloseType'
    BY <1>2 DEF Refuse, QueueType, SchedulerType, WorkerType, DeliveryType, CloseType, queueVars, schedVars, workerVars, deliveryVars, closeVars
  <2>2. CallerType'
    BY <1>2 DEF Refuse, QueueType, CallerType, SchedulerType, WorkerType, DeliveryType, CloseType, callerVars
  <2>3. GroupHeld' /\ TaskAccounting'
    BY <1>2 DEF Refuse, queueVars, schedVars, GroupHeld, TaskAccounting
  <2> QED
    BY <2>1, <2>2, <2>3
<1>3. CASE Cancel(r)
  <2>1. QueueType' /\ SchedulerType' /\ WorkerType' /\ DeliveryType'
    BY <1>3 DEF Cancel, QueueType, SchedulerType, WorkerType, DeliveryType, queueVars, schedVars, workerVars, deliveryVars
  <2>2. CallerType'
    <3>1. CancelSession(r)
      BY <1>3 DEF Cancel
    <3>2. expired' = expired /\ events' = events /\ caller' \in [Requests -> CallerStates]
      BY <1>3 DEF Cancel, CallerType
    <3> QED
      BY <3>1, <3>2, CancelType DEF CallerType
  <2>3. CloseType'
    BY <1>3 DEF Cancel, QueueType, CallerType, SchedulerType, WorkerType, DeliveryType, CloseType, closeVars, Fault
  <2>4. GroupHeld' /\ TaskAccounting'
    BY <1>3 DEF Cancel, queueVars, schedVars, GroupHeld, TaskAccounting
  <2> QED
    BY <2>1, <2>2, <2>3, <2>4
<1>4. CASE Expire(r)
  <2>1. QueueType' /\ SchedulerType' /\ WorkerType' /\ DeliveryType'
    BY <1>4 DEF Expire, QueueType, SchedulerType, WorkerType, DeliveryType, queueVars, schedVars, workerVars, deliveryVars
  <2>2. CallerType'
    <3>1. expired' \in [Requests -> BOOLEAN]
      BY <1>4 DEF Expire, CallerType
    <3> QED
      BY <3>1, <1>4 DEF Expire, CallerType
  <2>3. CloseType'
    BY <1>4 DEF Expire, QueueType, CallerType, SchedulerType, WorkerType, DeliveryType, CloseType, closeVars, Fault
  <2>4. GroupHeld' /\ TaskAccounting'
    BY <1>4 DEF Expire, queueVars, schedVars, GroupHeld, TaskAccounting
  <2> QED
    BY <2>1, <2>2, <2>3, <2>4
<1>5. CASE CallerRead(r)
  <2>1. QueueType' /\ SchedulerType' /\ WorkerType' /\ DeliveryType' /\ CloseType'
    BY <1>5 DEF CallerRead, QueueType, SchedulerType, WorkerType, DeliveryType, CloseType, queueVars, schedVars, workerVars, deliveryVars, closeVars
  <2>2. CallerType'
    <3>a. events[r] \in Seq(EventKinds) /\ events[r] # <<>>
      BY <1>5 DEF CallerRead, CallerType
    <3>b. Head(events[r]) \in EventKinds /\ Tail(events[r]) \in Seq(EventKinds)
      BY <3>a, HeadTailProperties
    <3>c. events' \in [Requests -> Seq(EventKinds)]
      BY <3>b, <1>5 DEF CallerRead, CallerType
    <3>d. caller' \in [Requests -> CallerStates]
      BY <3>b, <1>5 DEF CallerRead, CallerType
    <3>e. expired' = expired
      BY <1>5 DEF CallerRead
    <3>2. CASE Head(events[r]) = "token"
      BY <3>c, <3>d, <3>e, <3>2, <1>5 DEF CallerRead, CallerType
    <3>3. CASE Head(events[r]) # "token"
      BY <3>c, <3>d, <3>e, <3>3, <1>5, CancelType DEF CallerRead, CallerType
    <3> QED
      BY <3>2, <3>3
  <2>3. GroupHeld' /\ TaskAccounting'
    BY <1>5 DEF CallerRead, queueVars, schedVars, GroupHeld, TaskAccounting
  <2> QED
    BY <2>1, <2>2, <2>3
<1>6. CASE CallerStops(r)
  <2>1. QueueType' /\ SchedulerType' /\ WorkerType' /\ DeliveryType' /\ CloseType'
    BY <1>6 DEF CallerStops, QueueType, SchedulerType, WorkerType, DeliveryType, CloseType, queueVars, schedVars, workerVars, deliveryVars, closeVars
  <2>2. CallerType'
    <3>1. CancelSession(r)
      BY <1>6 DEF CallerStops
    <3>2. expired' = expired /\ events' = events /\ caller' \in [Requests -> CallerStates]
      BY <1>6 DEF CallerStops, CallerType
    <3> QED
      BY <3>1, <3>2, CancelType DEF CallerType
  <2>3. GroupHeld' /\ TaskAccounting'
    BY <1>6 DEF CallerStops, queueVars, schedVars, GroupHeld, TaskAccounting
  <2> QED
    BY <2>1, <2>2, <2>3
<1>7. CASE CallerLeaves(r)
  <2>1. QueueType' /\ SchedulerType' /\ WorkerType' /\ DeliveryType'
    BY <1>7 DEF CallerLeaves, QueueType, SchedulerType, WorkerType, DeliveryType, queueVars, schedVars, workerVars, deliveryVars
  <2>2. CallerType'
    <3>1. CancelSession(r)
      BY <1>7 DEF CallerLeaves
    <3>2. expired' = expired /\ events' = events /\ caller' \in [Requests -> CallerStates]
      BY <1>7 DEF CallerLeaves, CallerType
    <3> QED
      BY <3>1, <3>2, CancelType DEF CallerType
  <2>3. CloseType'
    BY <1>7 DEF CallerLeaves, QueueType, CallerType, SchedulerType, WorkerType, DeliveryType, CloseType, closeVars, Fault
  <2>4. GroupHeld' /\ TaskAccounting'
    BY <1>7 DEF CallerLeaves, queueVars, schedVars, GroupHeld, TaskAccounting
  <2> QED
    BY <2>1, <2>2, <2>3, <2>4
<1> QED
  BY <1>1, <1>2, <1>3, <1>4, <1>5, <1>6, <1>7 DEF CallerStep

\* Emitting keeps a caller's queue a sequence of events.
LEMMA EmittedType ==
  ASSUME CallerType, NEW r \in Requests, NEW e \in EventKinds
  PROVE  Emitted(r, e) \in Seq(EventKinds)
BY DEF CallerType, Emitted

\* Taking the next waiting request takes one from the queue and the carry.
LEMMA TakeType ==
  ASSUME QueueType, NEW r, Take(r)
  PROVE  /\ carry' \in Seq(Requests) /\ pending' \in Seq(Requests)
         /\ Len(carry') + Len(pending') = Len(carry) + Len(pending) - 1
<1>1. CASE carry # <<>>
  <2>1. Tail(carry) \in Seq(Requests) /\ Len(Tail(carry)) = Len(carry) - 1
    BY <1>1, HeadTailProperties DEF QueueType
  <2>2. carry' = Tail(carry) /\ pending' = pending
    BY <1>1 DEF Take
  <2>3. Len(carry) \in Nat /\ Len(pending) \in Nat /\ pending \in Seq(Requests)
    BY DEF QueueType
  <2> QED
    BY <2>1, <2>2, <2>3
<1>2. CASE carry = <<>>
  BY <1>2, HeadTailProperties DEF Take, QueueType
<1> QED
  BY <1>1, <1>2

\* A step of the scheduler thread keeps the invariant.
LEMMA SchedulerIInv ==
  ASSUME IInv, SchedulerStep
  PROVE  IInv'
<1> USE DEF IInv, TypeOK
<1>1. CASE Recover
  <2>1. QueueType' /\ CallerType' /\ SchedulerType' /\ DeliveryType' /\ CloseType'
    BY <1>1 DEF Recover, QueueType, CallerType, SchedulerType, DeliveryType, CloseType, queueVars, callerVars, schedVars, deliveryVars, closeVars
  <2>2. WorkerType'
    BY <1>1 DEF Recover, WorkerType
  <2>3. GroupHeld' /\ TaskAccounting'
    BY <1>1 DEF Recover, GroupHeld, TaskAccounting, queueVars, schedVars
  <2> QED
    BY <2>1, <2>2, <2>3
<1>2. CASE NextSession
  <2>a. PICK r \in Requests : Take(r) /\ group' = <<r>>
    BY <1>2 DEF NextSession
  <2>b. /\ carry' \in Seq(Requests) /\ pending' \in Seq(Requests)
       /\ Len(carry') + Len(pending') = Len(carry) + Len(pending) - 1
    BY <2>a, TakeType
  <2>1. CallerType' /\ WorkerType' /\ DeliveryType' /\ CloseType'
    BY <1>2 DEF NextSession, CallerType, WorkerType, DeliveryType, CloseType, callerVars, workerVars, deliveryVars, closeVars
  <2>2. QueueType'
    BY <2>b, <1>2 DEF NextSession, QueueType
  <2>3. SchedulerType'
    BY <2>a, BoundsAssumption, <1>2 DEF NextSession, SchedulerType, BoundsAssumption
  <2>4. GroupHeld' /\ TaskAccounting'
    BY <2>a, <2>b, <1>2 DEF NextSession, GroupHeld, TaskAccounting, QueueType, SchedulerType
  <2> QED
    BY <2>1, <2>2, <2>3, <2>4
<1>3. CASE NextSorted
  <2>a. carry \o pending \in Seq(Requests) /\ Len(carry \o pending) = Len(carry) + Len(pending)
    BY DEF QueueType
  <2>b. PICK sjf \in Decisions : \E s \in Sorted(carry \o pending, sjf) :
         group' = <<Head(s)>> /\ carry' = Tail(s)
    BY <1>3 DEF NextSorted
  <2>c. PICK s \in Sorted(carry \o pending, sjf) : group' = <<Head(s)>> /\ carry' = Tail(s)
    BY <2>b
  <2>d. s \in Seq(Requests) /\ Len(s) = Len(carry) + Len(pending)
    BY <2>a, <2>c, SortedType
  <2>e. Len(carry) + Len(pending) > 0
    BY <2>a, <1>3 DEF NextSorted, QueueType
  <2>f. Head(s) \in Requests /\ Tail(s) \in Seq(Requests) /\ Len(Tail(s)) = Len(s) - 1
    BY <2>d, <2>e, HeadTailProperties
  <2>1. CallerType' /\ WorkerType' /\ DeliveryType' /\ CloseType'
    BY <1>3 DEF NextSorted, CallerType, WorkerType, DeliveryType, CloseType, callerVars, workerVars, deliveryVars, closeVars
  <2>2. QueueType'
    BY <2>c, <2>f, <1>3 DEF NextSorted, QueueType
  <2>3. SchedulerType'
    BY <2>c, <2>f, <1>3 DEF NextSorted, SchedulerType
  <2>4. GroupHeld' /\ TaskAccounting'
    BY <2>c, <2>d, <2>f, <1>3 DEF NextSorted, GroupHeld, TaskAccounting, QueueType, SchedulerType
  <2> QED
    BY <2>1, <2>2, <2>3, <2>4
<1>4. CASE OrderWaiting
  <2>a. carry \o pending \in Seq(Requests) /\ Len(carry \o pending) = Len(carry) + Len(pending)
    BY DEF QueueType
  <2>b. PICK sjf \in Decisions : \E s \in Sorted(carry \o pending, sjf) : carry' = s
    BY <1>4 DEF OrderWaiting
  <2>c. carry' \in Seq(Requests) /\ Len(carry') = Len(carry) + Len(pending)
    BY <2>a, <2>b, SortedType
  <2>1. CallerType' /\ WorkerType' /\ DeliveryType' /\ CloseType'
    BY <1>4 DEF OrderWaiting, CallerType, WorkerType, DeliveryType, CloseType, callerVars, workerVars, deliveryVars, closeVars
  <2>2. QueueType'
    BY <2>c, <1>4 DEF OrderWaiting, QueueType
  <2>3. SchedulerType'
    BY BoundsAssumption, <1>4 DEF OrderWaiting, SchedulerType, BoundsAssumption
  <2>4. GroupHeld' /\ TaskAccounting'
    BY <2>c, <1>4 DEF OrderWaiting, GroupHeld, TaskAccounting, QueueType, SchedulerType
  <2> QED
    BY <2>1, <2>2, <2>3, <2>4
<1>5. CASE TakeCompany
  <2>a. PICK r \in Requests : Take(r) /\ group' = Append(group, r)
    BY <1>5 DEF TakeCompany
  <2>b. /\ carry' \in Seq(Requests) /\ pending' \in Seq(Requests)
       /\ Len(carry') + Len(pending') = Len(carry) + Len(pending) - 1
    BY <2>a, TakeType
  <2>c. group' \in Seq(Requests) /\ Len(group') = Len(group) + 1
    BY <2>a DEF SchedulerType
  <2>1. CallerType' /\ WorkerType' /\ DeliveryType' /\ CloseType'
    BY <1>5 DEF TakeCompany, CallerType, WorkerType, DeliveryType, CloseType, callerVars, workerVars, deliveryVars, closeVars
  <2>2. QueueType'
    BY <2>b, <1>5 DEF TakeCompany, QueueType
  <2>3. SchedulerType'
    BY <2>c, <1>5 DEF TakeCompany, SchedulerType
  <2>4. GroupHeld' /\ TaskAccounting'
    <3>1. GroupHeld'
      BY <2>c, <1>5 DEF TakeCompany, GroupHeld
    <3>2. unfinished' = unfinished /\ joined' = joined
      BY <1>5 DEF TakeCompany
    <3>3. Len(pending) \in Nat /\ Len(carry) \in Nat /\ Len(group) \in Nat /\ Len(joined) \in Nat
      BY DEF QueueType, SchedulerType
    <3>4. Len(pending') \in Nat /\ Len(carry') \in Nat
      BY <2>b
    <3> QED
      BY <2>b, <2>c, <3>1, <3>2, <3>3, <3>4 DEF TaskAccounting
  <2> QED
    BY <2>1, <2>2, <2>3, <2>4
<1>6. CASE StartGather
  <2>1. QueueType' /\ CallerType' /\ WorkerType' /\ DeliveryType' /\ CloseType'
    BY <1>6 DEF StartGather, QueueType, CallerType, WorkerType, DeliveryType, CloseType, queueVars, callerVars, workerVars, deliveryVars, closeVars
  <2>2. SchedulerType'
    BY <1>6 DEF StartGather, SchedulerType
  <2>3. GroupHeld' /\ TaskAccounting'
    BY <1>6 DEF StartGather, GroupHeld, TaskAccounting, queueVars
  <2> QED
    BY <2>1, <2>2, <2>3
<1>7. CASE CloseGroup
  <2> DEFINE refused == Len(group) > 1 /\ ~CanBatch(Range(group))
  <2> DEFINE kept == IF refused THEN <<Head(group)>> ELSE group
  <2>a. group \in Seq(Requests) /\ group # <<>>
    BY <1>7 DEF CloseGroup, SchedulerType, GroupHeld
  <2>b. /\ Head(group) \in Requests /\ Tail(group) \in Seq(Requests)
       /\ Len(Tail(group)) = Len(group) - 1
    BY <2>a, HeadTailProperties
  <2>c. kept \in Seq(Requests) /\ kept # <<>> /\ Len(kept) = IF refused THEN 1 ELSE Len(group)
    BY <2>a, <2>b
  <2>d. carry' = IF refused THEN Tail(group) \o carry ELSE carry
    BY <1>7 DEF CloseGroup
  <2>e. carry' \in Seq(Requests) /\ Len(kept) + Len(carry') = Len(group) + Len(carry)
    BY <2>a, <2>b, <2>c, <2>d DEF QueueType
  <2>f. group' = kept /\ active' = active \cup Range(kept) /\ started' = started \o kept
    BY <1>7 DEF CloseGroup
  <2>g. Range(kept) \subseteq Requests
    BY <2>c DEF Range
  <2> HIDE DEF refused, kept
  <2>1. CallerType' /\ WorkerType' /\ DeliveryType' /\ CloseType'
    BY <1>7 DEF CloseGroup, CallerType, WorkerType, DeliveryType, CloseType, callerVars, workerVars, deliveryVars, closeVars
  <2>2. QueueType'
    BY <2>e, <1>7 DEF CloseGroup, QueueType
  <2>3. SchedulerType'
    BY <2>c, <2>f, <2>g, <1>7 DEF CloseGroup, SchedulerType
  <2>4. GroupHeld' /\ TaskAccounting'
    BY <2>c, <2>e, <2>f, <1>7 DEF CloseGroup, GroupHeld, TaskAccounting, QueueType, SchedulerType
  <2> QED
    BY <2>1, <2>2, <2>3, <2>4
<1>8. CASE Perform
  <2> DEFINE batch  == Len(group) > 1 \/ StreamsAlone(group[1])
  <2> DEFINE gone   == {r \in Range(group) : cancelled[r]}
  <2> DEFINE failed == {r \in Range(group) \ gone : expired[r] \/ worker # "ready"}
  <2> DEFINE rest   == Range(group) \ (gone \cup failed)
  <2>a. Range(group) \subseteq Requests
    BY DEF SchedulerType, Range
  <2>b. /\ gone \subseteq Range(group) /\ failed \subseteq Range(group) /\ rest \subseteq Requests
    BY <2>a
  <2>c. Cardinality(gone) \in Nat /\ Cardinality(failed) \in Nat
    BY <2>b, FiniteRange DEF SchedulerType
  <2>1. QueueType' /\ CloseType'
    BY <1>8 DEF Perform, QueueType, CloseType, queueVars, closeVars
  <2>2. CallerType'
    <3>1. backendCancel' = [r \in Requests |-> backendCancel[r] \/ (r \in failed /\ expired[r])]
      BY <1>8 DEF Perform
    <3>2. backendCancel' \in [Requests -> BOOLEAN]
      BY <3>1
    <3>3. events' = [r \in Requests |-> IF r \in failed THEN Emitted(r, "error") ELSE events[r]]
      BY <1>8 DEF Perform
    <3>4. \A r \in Requests : Emitted(r, "error") \in Seq(EventKinds)
      BY EmittedType DEF CallerType
    <3>5. events' \in [Requests -> Seq(EventKinds)]
      BY <3>3, <3>4 DEF CallerType
    <3> QED
      BY <3>2, <3>5, <1>8 DEF Perform, CallerType
  <2>3. SchedulerType'
    <3>1. live' = rest
      BY <1>8 DEF Perform
    <3>2. mode' \in {"single", "buffered", "streaming"} /\ pc' \in PCs
      BY <1>8 DEF Perform
    <3> QED
      BY <2>b, <3>1, <3>2, <1>8 DEF Perform, SchedulerType
  <2>4. WorkerType'
    BY <1>8 DEF Perform, WorkerType
  <2>5. DeliveryType'
    <3>1. deliver' = [r \in Requests |->
                         IF r \in rest
                         THEN IF mode' = "buffered" THEN "held" ELSE "consuming"
                         ELSE IF r \in gone \cup failed THEN "handled"
                         ELSE deliver[r]]
      BY <1>8 DEF Perform
    <3>2. outcome' = [r \in Requests |->
                         IF batch /\ r \in gone THEN "cancelled" ELSE outcome[r]]
      BY <1>8 DEF Perform
    <3>3. count' = [count EXCEPT !.cancelled = @ + Cardinality(gone),
                                 !.failed = @ + Cardinality(failed)]
      BY <1>8 DEF Perform
    <3>4. frames' = frames /\ stopped' = stopped
      BY <1>8 DEF Perform
    <3> HIDE DEF batch, gone, failed, rest
    <3>5. deliver' \in [Requests -> DeliverStates]
      BY <3>1 DEF DeliveryType
    <3>6. outcome' \in [Requests -> {"none", "ok", "cancelled", "failed"}]
      BY <3>2 DEF DeliveryType
    <3>7. count' \in [completed : Nat, failed : Nat, cancelled : Nat]
      <4>1. count.cancelled + Cardinality(gone) \in Nat /\ count.failed + Cardinality(failed) \in Nat
        BY <2>c DEF DeliveryType
      <4> QED
        BY <3>3, <4>1 DEF DeliveryType
    <3> QED
      BY <3>4, <3>5, <3>6, <3>7 DEF DeliveryType
  <2>6. GroupHeld' /\ TaskAccounting'
    BY <1>8 DEF Perform, GroupHeld, TaskAccounting, queueVars
  <2> QED
    BY <2>1, <2>2, <2>3, <2>4, <2>5, <2>6
<1>9. CASE GroupDone
  <2>a. PICK k \in 0..Len(joined) :
         LET back == SubSeq(joined, k + 1, Len(joined))
         IN /\ joined' = SubSeq(joined, 1, k) /\ carry' = back \o carry
    BY <1>9 DEF GroupDone
  <2>b. joined \in Seq(Requests)
    BY DEF SchedulerType
  <2>c. /\ joined' \in Seq(Requests) /\ Len(joined') = k
       /\ carry' \in Seq(Requests) /\ Len(carry') = Len(joined) - k + Len(carry)
    <3>1. SubSeq(joined, k + 1, Len(joined)) \in Seq(Requests)
      BY <2>b, CutType
    <3>2. Len(SubSeq(joined, k + 1, Len(joined))) = Len(joined) - k
      BY <2>b, CutType
    <3>3. SubSeq(joined, 1, k) \in Seq(Requests) /\ Len(SubSeq(joined, 1, k)) = k
      BY <2>b, CutType
    <3> QED
      <4>1. carry \in Seq(Requests) /\ carry' = SubSeq(joined, k + 1, Len(joined)) \o carry
        BY <2>a DEF QueueType
      <4>2. carry' \in Seq(Requests) /\ Len(carry') = Len(joined) - k + Len(carry)
        BY <3>1, <3>2, <4>1, ConcatProperties
      <4> QED
        BY <2>a, <3>3, <4>2
  <2>d. group' = group /\ pending' = pending /\ unfinished' = unfinished /\ pc' = "drain"
    BY <1>9 DEF GroupDone
  <2>1. CallerType' /\ CloseType'
    BY <1>9 DEF GroupDone, CallerType, CloseType, callerVars, closeVars
  <2>2. QueueType'
    BY <2>c, <1>9 DEF GroupDone, QueueType
  <2>3. SchedulerType'
    BY <1>9 DEF GroupDone, SchedulerType
  <2>4. WorkerType'
    BY <1>9 DEF GroupDone, WorkerType
  <2>5. DeliveryType'
    BY <1>9 DEF GroupDone, DeliveryType
  <2>6. GroupHeld' /\ TaskAccounting'
    <3>1. TaskAccounting'
      BY <2>b, <2>c, <2>d DEF TaskAccounting, QueueType, SchedulerType
    <3> QED
      BY <2>d, <3>1, <1>9 DEF GroupDone, GroupHeld
  <2> QED
    BY <2>1, <2>2, <2>3, <2>4, <2>5, <2>6
<1>10. CASE GroupDrained
  <2>1. QueueType' /\ CallerType' /\ WorkerType' /\ DeliveryType' /\ CloseType'
    BY <1>10 DEF GroupDrained, QueueType, CallerType, WorkerType, DeliveryType, CloseType, queueVars, callerVars, workerVars, deliveryVars, closeVars
  <2>2. SchedulerType'
    BY <1>10 DEF GroupDrained, SchedulerType
  <2>3. GroupHeld' /\ TaskAccounting'
    BY <1>10 DEF GroupDrained, GroupHeld, TaskAccounting, queueVars
  <2> QED
    BY <2>1, <2>2, <2>3
<1>11. CASE Retire
  <2>a. /\ joined \o group \in Seq(Requests) /\ joined \o group # <<>>
       /\ Len(joined \o group) = Len(joined) + Len(group)
    BY <1>11 DEF Retire, SchedulerType, GroupHeld
  <2>b. Head(joined \o group) \in Requests
    BY <2>a, HeadTailProperties
  <2>c. /\ joined' \in Seq(Requests) /\ group' \in Seq(Requests)
       /\ Len(joined') + Len(group') = Len(joined) + Len(group) - 1
    <3>1. CASE joined # <<>>
      <4>1. Tail(joined) \in Seq(Requests) /\ Len(Tail(joined)) = Len(joined) - 1
        BY <3>1, HeadTailProperties DEF SchedulerType
      <4> QED
        <5>1. joined' = Tail(joined) /\ group' = group
          BY <3>1, <1>11 DEF Retire
        <5> QED
          BY <4>1, <5>1 DEF SchedulerType
    <3>2. CASE joined = <<>>
      <4>1. group # <<>>
        BY <3>2, <1>11 DEF Retire, GroupHeld
      <4>2. Tail(group) \in Seq(Requests) /\ Len(Tail(group)) = Len(group) - 1
        BY <4>1, HeadTailProperties DEF SchedulerType
      <4> QED
        BY <3>2, <4>2, <1>11 DEF Retire, SchedulerType
    <3> QED
      BY <3>1, <3>2
  <2>d. unfinished' \in Nat /\ unfinished' = unfinished - 1
    BY <2>a, <1>11 DEF Retire, QueueType, TaskAccounting
  <2>1. CallerType' /\ WorkerType' /\ CloseType'
    BY <1>11 DEF Retire, CallerType, WorkerType, CloseType, callerVars, workerVars, closeVars
  <2>2. QueueType'
    BY <2>b, <2>d, <1>11 DEF Retire, QueueType
  <2>3. SchedulerType'
    BY <2>b, <2>c, <1>11 DEF Retire, SchedulerType
  <2>4. DeliveryType'
    BY <2>b, <1>11 DEF Retire, DeliveryType
  <2>5. GroupHeld' /\ TaskAccounting'
    BY <2>a, <2>c, <2>d, <1>11 DEF Retire, GroupHeld, TaskAccounting, QueueType, SchedulerType
  <2> QED
    BY <2>1, <2>2, <2>3, <2>4, <2>5
<1>12. CASE Exit
  <2>1. QueueType' /\ CallerType' /\ WorkerType' /\ DeliveryType' /\ CloseType'
    BY <1>12 DEF Exit, QueueType, CallerType, WorkerType, DeliveryType, CloseType, queueVars, callerVars, workerVars, deliveryVars, closeVars
  <2>2. SchedulerType'
    BY <1>12 DEF Exit, SchedulerType
  <2>3. GroupHeld' /\ TaskAccounting'
    BY <1>12 DEF Exit, GroupHeld, TaskAccounting, queueVars
  <2> QED
    BY <2>1, <2>2, <2>3
<1> QED
  BY <1>1, <1>2, <1>3, <1>4, <1>5, <1>6, <1>7, <1>8, <1>9, <1>10, <1>11, <1>12 DEF SchedulerStep

\* Joining, declining to join and growing older keep the invariant.
LEMMA JoiningIInv ==
  ASSUME IInv, Age \/ Join \/ JoinDeclined
  PROVE  IInv'
<1> USE DEF IInv, TypeOK
<1>1. CASE Age
  <2>1. CallerType' /\ SchedulerType' /\ WorkerType' /\ DeliveryType' /\ CloseType'
    BY <1>1 DEF Age, CallerType, SchedulerType, WorkerType, DeliveryType, CloseType,
                callerVars, schedVars, workerVars, deliveryVars, closeVars
  <2>2. QueueType'
    BY <1>1 DEF Age, QueueType
  <2>3. GroupHeld' /\ TaskAccounting'
    BY <1>1 DEF Age, schedVars, GroupHeld, TaskAccounting
  <2> QED
    BY <2>1, <2>2, <2>3
<1>2. CASE Join
  <2>a. PICK r \in Requests :
          /\ Take(r) /\ joined' = Append(joined, r) /\ active' = active \cup {r}
          /\ started' = Append(started, r)
          /\ serve' = [serve EXCEPT ![r] = "running"]
          /\ deliver' = [deliver EXCEPT ![r] = "unheard"]
    BY <1>2 DEF Join
  <2>b. /\ carry' \in Seq(Requests) /\ pending' \in Seq(Requests)
        /\ Len(carry') + Len(pending') = Len(carry) + Len(pending) - 1
    BY <2>a, TakeType
  <2>c. joined' \in Seq(Requests) /\ Len(joined') = Len(joined) + 1 /\ pc' = "serve"
    BY <2>a, <1>2 DEF Join, MayJoin, SchedulerType
  <2>1. CallerType' /\ CloseType'
    BY <1>2 DEF Join, CallerType, CloseType, callerVars, closeVars
  <2>2. QueueType'
    BY <2>b, <1>2 DEF Join, QueueType
  <2>3. SchedulerType'
    BY <2>a, <2>c, <1>2 DEF Join, SchedulerType
  <2>4. WorkerType' /\ DeliveryType'
    BY <2>a, <1>2 DEF Join, WorkerType, DeliveryType
  <2>5. GroupHeld'
    BY <2>c, <1>2 DEF Join, MayJoin, GroupHeld
  <2>6. TaskAccounting'
    <3>1. /\ Len(pending) \in Nat /\ Len(carry) \in Nat /\ Len(group) \in Nat
          /\ Len(joined) \in Nat /\ Len(carry') \in Nat /\ Len(pending') \in Nat
      BY <2>b DEF QueueType, SchedulerType
    <3>2. unfinished' = unfinished /\ group' = group
      BY <1>2 DEF Join
    <3> QED
      BY <2>b, <2>c, <3>1, <3>2 DEF TaskAccounting
  <2> QED
    BY <2>1, <2>2, <2>3, <2>4, <2>5, <2>6
<1>3. CASE JoinDeclined
  <2>1. CallerType' /\ SchedulerType' /\ WorkerType' /\ DeliveryType' /\ CloseType'
    BY <1>3 DEF JoinDeclined, CallerType, SchedulerType, WorkerType, DeliveryType, CloseType,
                callerVars, schedVars, workerVars, deliveryVars, closeVars
  <2>2. /\ Head(pending) \in Requests /\ Tail(pending) \in Seq(Requests)
        /\ Len(Tail(pending)) = Len(pending) - 1
    BY <1>3, HeadTailProperties DEF JoinDeclined, QueueType
  <2>3. QueueType'
    BY <2>2, <1>3 DEF JoinDeclined, QueueType
  <2>4. GroupHeld' /\ TaskAccounting'
    BY <2>2, <1>3 DEF JoinDeclined, schedVars, GroupHeld, TaskAccounting, QueueType, SchedulerType
  <2> QED
    BY <2>1, <2>3, <2>4
<1> QED
  BY <1>1, <1>2, <1>3

\* What ends with the worker stays well typed.
LEMMA WorkerGoneType ==
  ASSUME WorkerType, DeliveryType, WorkerGone
  PROVE  /\ serve' \in [Requests -> {"idle", "running", "ended"}]
         /\ frames' \in [Requests -> Seq(FrameKinds)]
         /\ deliver' \in [Requests -> DeliverStates]
<1> DEFINE cut == {r \in Requests : serve[r] = "running"}
<1>1. serve' = [r \in Requests |-> IF r \in cut THEN "ended" ELSE serve[r]]
  BY DEF WorkerGone
<1>2. frames' = [r \in Requests |->
                   IF deliver[r] = "held" /\ cut # {} THEN <<"eof">>
                   ELSE IF r \in cut THEN Append(frames[r], "eof")
                   ELSE frames[r]]
  BY DEF WorkerGone
<1>3. deliver' = [r \in Requests |->
                    IF deliver[r] = "unheard" THEN "consuming" ELSE deliver[r]]
  BY DEF WorkerGone
<1> HIDE DEF cut
<1>4. serve' \in [Requests -> {"idle", "running", "ended"}]
  BY <1>1 DEF WorkerType
<1>5. frames' \in [Requests -> Seq(FrameKinds)]
  <2>1. \A r \in Requests : Append(frames[r], "eof") \in Seq(FrameKinds)
    BY DEF DeliveryType
  <2>2. <<"eof">> \in Seq(FrameKinds)
    OBVIOUS
  <2> QED
    BY <1>2, <2>1, <2>2 DEF DeliveryType
<1> QED
  BY <1>3, <1>4, <1>5 DEF DeliveryType

\* The worker's steps keep the invariant.
LEMMA WorkerIInv ==
  ASSUME IInv, NEW r \in Requests, WorkerToken(r) \/ WorkerEnd(r)
  PROVE  IInv'
<1> USE DEF IInv, TypeOK
<1>1. CASE WorkerToken(r)
  <2>1. QueueType' /\ CallerType' /\ SchedulerType' /\ CloseType'
    BY <1>1 DEF WorkerToken, QueueType, CallerType, SchedulerType, CloseType,
                queueVars, callerVars, schedVars, closeVars
  <2>2. WorkerType'
    BY <1>1 DEF WorkerToken, WorkerType
  <2>3. DeliveryType'
    BY <1>1 DEF WorkerToken, Heard, DeliveryType
  <2>4. GroupHeld' /\ TaskAccounting'
    BY <1>1 DEF WorkerToken, queueVars, schedVars, GroupHeld, TaskAccounting
  <2> QED
    BY <2>1, <2>2, <2>3, <2>4
<1>2. CASE WorkerEnd(r)
  <2>1. QueueType' /\ CallerType' /\ SchedulerType' /\ CloseType'
    BY <1>2 DEF WorkerEnd, QueueType, CallerType, SchedulerType, CloseType,
                queueVars, callerVars, schedVars, closeVars
  <2>2. WorkerType'
    BY <1>2 DEF WorkerEnd, WorkerType
  <2>3. DeliveryType'
    BY <1>2 DEF WorkerEnd, Heard, DeliveryType
  <2>4. GroupHeld' /\ TaskAccounting'
    BY <1>2 DEF WorkerEnd, queueVars, schedVars, GroupHeld, TaskAccounting
  <2> QED
    BY <2>1, <2>2, <2>3, <2>4
<1> QED
  BY <1>1, <1>2

\* So does the death of the worker.
LEMMA CrashIInv ==
  ASSUME IInv, WorkerCrash
  PROVE  IInv'
<1> USE DEF IInv, TypeOK
<1>1. QueueType' /\ CallerType' /\ SchedulerType' /\ CloseType'
  BY DEF WorkerCrash, Fault, QueueType, CallerType, SchedulerType, CloseType,
         queueVars, callerVars, schedVars, closeVars
<1>2. WorkerType' /\ DeliveryType'
  BY WorkerGoneType DEF WorkerCrash, WorkerType, DeliveryType
<1>3. GroupHeld' /\ TaskAccounting'
  BY DEF WorkerCrash, queueVars, schedVars, GroupHeld, TaskAccounting
<1> QED
  BY <1>1, <1>2, <1>3

\* Whatever way a request ends, the caller's queue and the consumer's state stay well
\* typed; the outcome and the counters are recorded later.
LEMMA AnswerType ==
  ASSUME CallerType, DeliveryType, NEW r \in Requests,
         FinishCancelled(r) \/ FinishFailed(r) \/ FinishOk(r) \/ BeginDrain(r)
  PROVE  /\ events' \in [Requests -> Seq(EventKinds)]
         /\ backendCancel' \in [Requests -> BOOLEAN]
         /\ outcome' = outcome /\ count' = count
         /\ deliver' \in [Requests -> DeliverStates]
<1>1. \A e \in EventKinds : Emitted(r, e) \in Seq(EventKinds)
  BY EmittedType
<1>2. CASE FinishCancelled(r)
  <2>1. events' \in [Requests -> Seq(EventKinds)] /\ backendCancel' \in [Requests -> BOOLEAN]
    BY <1>1, <1>2 DEF FinishCancelled, CallerType
  <2> QED
    BY <1>2, <2>1 DEF FinishCancelled, DeliveryType
<1>3. CASE FinishFailed(r)
  <2>1. events' \in [Requests -> Seq(EventKinds)]
    BY <1>1, <1>3 DEF FinishFailed, CallerType
  <2>2. backendCancel' \in [Requests -> BOOLEAN]
    BY <1>3 DEF FinishFailed, CallerType
  <2> QED
    BY <1>3, <2>1, <2>2 DEF FinishFailed, DeliveryType
<1>4. CASE FinishOk(r)
  <2>1. events' \in [Requests -> Seq(EventKinds)] /\ backendCancel' \in [Requests -> BOOLEAN]
    BY <1>4 DEF FinishOk, CallerType
  <2> QED
    BY <1>4, <2>1 DEF FinishOk, DeliveryType
<1>5. CASE BeginDrain(r)
  <2>1. events' \in [Requests -> Seq(EventKinds)] /\ backendCancel' \in [Requests -> BOOLEAN]
    BY <1>5 DEF BeginDrain, CallerType
  <2> QED
    BY <1>5, <2>1 DEF BeginDrain, DeliveryType
<1> QED
  BY <1>2, <1>3, <1>4, <1>5

\* One of the counters goes up by one.
LEMMA RecordCount ==
  ASSUME DeliveryType, NEW r \in Requests, Record(r)
  PROVE  \/ count' = [count EXCEPT !.completed = @ + 1]
         \/ count' = [count EXCEPT !.failed = @ + 1]
         \/ count' = [count EXCEPT !.cancelled = @ + 1]
<1>1. count \in [completed : Nat, failed : Nat, cancelled : Nat]
  BY DEF DeliveryType
<1>2. deliver[r] \in {"ok", "failed", "cancelled"}
  BY DEF Record
<1> QED
  BY <1>1, <1>2 DEF Record

\* The record keeps the outcome and the counters well typed.
LEMMA RecordType ==
  ASSUME DeliveryType, NEW r \in Requests, Record(r)
  PROVE  DeliveryType'
<1>1. count \in [completed : Nat, failed : Nat, cancelled : Nat]
  BY DEF DeliveryType
<1>2. /\ count.completed + 1 \in Nat /\ count.failed + 1 \in Nat /\ count.cancelled + 1 \in Nat
  BY <1>1
<1>3. count' \in [completed : Nat, failed : Nat, cancelled : Nat]
  BY <1>1, <1>2, RecordCount
<1>4. outcome' \in [Requests -> {"none", "ok", "cancelled", "failed"}]
  BY DEF Record, DeliveryType
<1>5. deliver' \in [Requests -> DeliverStates]
  BY DEF Record, DeliveryType
<1> QED
  BY <1>3, <1>4, <1>5 DEF Record, DeliveryType

\* The queue and the scheduler's own state do not change while a consumer moves.
LEMMA DeliveryFrame ==
  ASSUME IInv, UNCHANGED <<queueVars, schedVars, closeVars, faults>>
  PROVE  QueueType' /\ SchedulerType' /\ CloseType' /\ GroupHeld' /\ TaskAccounting'
<1>1. QueueType' /\ SchedulerType' /\ CloseType'
  BY DEF IInv, TypeOK, QueueType, SchedulerType, CloseType, queueVars, schedVars, closeVars
<1>2. GroupHeld' /\ TaskAccounting'
  BY DEF IInv, GroupHeld, TaskAccounting, queueVars, schedVars
<1> QED
  BY <1>1, <1>2

\* A consumer's steps keep the invariant.
LEMMA DeliveryIInv ==
  ASSUME IInv, NEW r \in Requests, Delivery(r)
  PROVE  IInv'
<1> USE DEF IInv, TypeOK
<1>1. CASE ConsumeToken(r)
  <2>1. QueueType' /\ SchedulerType' /\ CloseType' /\ GroupHeld' /\ TaskAccounting'
    BY <1>1, DeliveryFrame DEF ConsumeToken
  <2>2. frames[r] \in Seq(FrameKinds) /\ frames[r] # <<>>
    BY <1>1 DEF ConsumeToken, Consuming, DeliveryType
  <2>3. frames' \in [Requests -> Seq(FrameKinds)]
    BY <1>1, <2>2, HeadTailProperties DEF ConsumeToken, DeliveryType
  <2>4. WorkerType' /\ cancelled' = cancelled /\ expired' = expired /\ caller' = caller
    BY <1>1 DEF ConsumeToken, WorkerType, workerVars
  <2>5. stopped' \in [Requests -> BOOLEAN]
    BY <1>1 DEF ConsumeToken, DeliveryType
  <2>6. CASE BeginDrain(r) \/ FinishCancelled(r)
    BY <2>1, <2>3, <2>4, <2>5, <2>6, AnswerType DEF CallerType, DeliveryType
  <2>7. CASE ~(BeginDrain(r) \/ FinishCancelled(r))
    <3>1. outcome' = outcome /\ count' = count /\ deliver' = deliver
      BY <1>1, <2>7 DEF ConsumeToken
    <3>2. backendCancel' \in [Requests -> BOOLEAN]
      BY <1>1, <2>7 DEF ConsumeToken, CallerType
    <3>3. events' \in [Requests -> Seq(EventKinds)]
      <4>1. \/ events' = events
            \/ events' = [events EXCEPT ![r] = Append(@, "token")]
        BY <1>1, <2>7 DEF ConsumeToken
      <4>2. Append(events[r], "token") \in Seq(EventKinds)
        BY DEF CallerType
      <4> QED
        BY <4>1, <4>2 DEF CallerType
    <3> QED
      BY <2>1, <2>3, <2>4, <2>5, <3>1, <3>2, <3>3 DEF CallerType, DeliveryType
  <2> QED
    BY <2>6, <2>7
<1>2. CASE ConsumeDone(r)
  <2>1. QueueType' /\ SchedulerType' /\ CloseType' /\ GroupHeld' /\ TaskAccounting'
    BY <1>2, DeliveryFrame DEF ConsumeDone
  <2>2. frames[r] \in Seq(FrameKinds) /\ frames[r] # <<>>
    BY <1>2 DEF ConsumeDone, Consuming, DeliveryType
  <2>3. frames' \in [Requests -> Seq(FrameKinds)]
    BY <1>2, <2>2, HeadTailProperties DEF ConsumeDone, DeliveryType
  <2>4. WorkerType' /\ cancelled' = cancelled /\ expired' = expired /\ caller' = caller
    BY <1>2 DEF ConsumeDone, WorkerType, workerVars
  <2>5. stopped' = stopped /\ (FinishCancelled(r) \/ FinishOk(r))
    BY <1>2 DEF ConsumeDone
  <2> QED
    BY <2>1, <2>3, <2>4, <2>5, AnswerType DEF CallerType, DeliveryType
<1>3. CASE ConsumeFailure(r)
  <2>1. QueueType' /\ SchedulerType' /\ CloseType' /\ GroupHeld' /\ TaskAccounting'
    BY <1>3, DeliveryFrame DEF ConsumeFailure
  <2>2. frames[r] \in Seq(FrameKinds) /\ frames[r] # <<>>
    BY <1>3 DEF ConsumeFailure, Consuming, DeliveryType
  <2>3. frames' \in [Requests -> Seq(FrameKinds)]
    BY <1>3, <2>2, HeadTailProperties DEF ConsumeFailure, DeliveryType
  <2>4. WorkerType' /\ cancelled' = cancelled /\ expired' = expired /\ caller' = caller
    BY <1>3 DEF ConsumeFailure, WorkerType
  <2>5. stopped' = stopped /\ (FinishCancelled(r) \/ FinishFailed(r))
    BY <1>3 DEF ConsumeFailure
  <2> QED
    BY <2>1, <2>3, <2>4, <2>5, AnswerType DEF CallerType, DeliveryType
<1>4. CASE Drain(r)
  <2>1. QueueType' /\ SchedulerType' /\ CloseType' /\ GroupHeld' /\ TaskAccounting'
    BY <1>4, DeliveryFrame DEF Drain
  <2>3. frames' \in [Requests -> Seq(FrameKinds)]
    BY <1>4 DEF Drain, DeliveryType
  <2>4. WorkerType' /\ cancelled' = cancelled /\ expired' = expired /\ caller' = caller
    BY <1>4 DEF Drain, WorkerType, workerVars
  <2>5. stopped' = stopped /\ FinishCancelled(r)
    BY <1>4 DEF Drain
  <2> QED
    BY <2>1, <2>3, <2>4, <2>5, AnswerType DEF CallerType, DeliveryType
<1>5. CASE Record(r)
  <2>1. QueueType' /\ SchedulerType' /\ CloseType' /\ GroupHeld' /\ TaskAccounting'
    BY <1>5, DeliveryFrame DEF Record
  <2>2. CallerType' /\ WorkerType'
    BY <1>5 DEF Record, CallerType, WorkerType, callerVars, workerVars
  <2> QED
    BY <1>5, <2>1, <2>2, RecordType
<1> QED
  BY <1>1, <1>2, <1>3, <1>4, <1>5 DEF Delivery

\* close() keeps the invariant: it forgets exactly the tasks that still wait.
LEMMA CloseIInv ==
  ASSUME IInv, CloseStep
  PROVE  IInv'
<1> USE DEF IInv, TypeOK
<1>1. CASE CloseBegin
  <2>1. QueueType' /\ CallerType' /\ SchedulerType' /\ WorkerType' /\ DeliveryType'
    BY <1>1 DEF CloseBegin, QueueType, CallerType, SchedulerType, WorkerType, DeliveryType,
                queueVars, callerVars, schedVars, workerVars, deliveryVars
  <2>2. CloseType'
    BY <1>1 DEF CloseBegin, Fault, CloseType
  <2>3. GroupHeld' /\ TaskAccounting'
    BY <1>1 DEF CloseBegin, queueVars, schedVars, GroupHeld, TaskAccounting
  <2> QED
    BY <2>1, <2>2, <2>3
<1>2. CASE CloseCancel
  <2>1. QueueType' /\ SchedulerType' /\ WorkerType' /\ DeliveryType'
    BY <1>2 DEF CloseCancel, QueueType, SchedulerType, WorkerType, DeliveryType,
                queueVars, schedVars, workerVars, deliveryVars
  <2>2. CloseType'
    BY <1>2 DEF CloseCancel, CloseType
  <2>3. CallerType'
    BY <1>2 DEF CloseCancel, CallerType
  <2>4. GroupHeld' /\ TaskAccounting'
    BY <1>2 DEF CloseCancel, queueVars, schedVars, GroupHeld, TaskAccounting
  <2> QED
    BY <2>1, <2>2, <2>3, <2>4
<1>3. CASE CloseBackend
  <2>1. QueueType' /\ CallerType' /\ SchedulerType'
    BY <1>3 DEF CloseBackend, QueueType, CallerType, SchedulerType,
                queueVars, callerVars, schedVars
  <2>2. CloseType'
    BY <1>3 DEF CloseBackend, CloseType
  <2>3. WorkerType' /\ DeliveryType'
    BY <1>3, WorkerGoneType DEF CloseBackend, WorkerType, DeliveryType
  <2>4. GroupHeld' /\ TaskAccounting'
    BY <1>3 DEF CloseBackend, queueVars, schedVars, GroupHeld, TaskAccounting
  <2> QED
    BY <2>1, <2>2, <2>3, <2>4
<1>4. CASE CloseDrop
  <2>1. CallerType' /\ SchedulerType' /\ WorkerType' /\ DeliveryType'
    BY <1>4 DEF CloseDrop, CallerType, SchedulerType, WorkerType, DeliveryType,
                callerVars, schedVars, workerVars, deliveryVars
  <2>2. CloseType'
    BY <1>4 DEF CloseDrop, CloseType
  <2>3. /\ Len(carry) \in Nat /\ Len(pending) \in Nat /\ Len(group) \in Nat
        /\ Len(joined) \in Nat
    BY DEF QueueType, SchedulerType
  <2>4. unfinished' = Len(group) + Len(joined)
    BY <1>4, <2>3 DEF CloseDrop, TaskAccounting
  <2>5. QueueType'
    BY <1>4, <2>3, <2>4 DEF CloseDrop, QueueType
  <2>6. GroupHeld'
    BY <1>4 DEF CloseDrop, schedVars, GroupHeld
  <2>7. group' = group /\ joined' = joined /\ carry' = <<>> /\ pending' = <<>>
    BY <1>4 DEF CloseDrop, schedVars
  <2>8. TaskAccounting'
    BY <2>3, <2>4, <2>7 DEF TaskAccounting
  <2> QED
    BY <2>1, <2>2, <2>5, <2>6, <2>8
<1> QED
  BY <1>1, <1>2, <1>3, <1>4 DEF CloseStep

\* Every step keeps the invariant.
LEMMA NextIInv == IInv /\ [Next]_vars => IInv'
<1> SUFFICES ASSUME IInv, [Next]_vars PROVE IInv'
  OBVIOUS
<1>1. ASSUME NEW r \in Requests,
             CallerStep(r) \/ WorkerToken(r) \/ WorkerEnd(r) \/ Delivery(r)
      PROVE  IInv'
  BY <1>1, CallerIInv, WorkerIInv, DeliveryIInv
<1>2. CASE Age \/ Join \/ JoinDeclined
  BY <1>2, JoiningIInv
<1>3. CASE SchedulerStep
  BY <1>3, SchedulerIInv
<1>4. CASE WorkerCrash
  BY <1>4, CrashIInv
<1>5. CASE CloseStep
  BY <1>5, CloseIInv
<1>6. CASE Idle \/ UNCHANGED vars
  <2>1. UNCHANGED <<queueVars, callerVars, schedVars, workerVars, deliveryVars, closeVars,
                    faults>>
    BY <1>6 DEF Idle, vars
  <2>2. QueueType' /\ SchedulerType' /\ CloseType' /\ GroupHeld' /\ TaskAccounting'
    BY <2>1, DeliveryFrame
  <2>3. CallerType'
    BY <2>1 DEF IInv, TypeOK, CallerType, callerVars
  <2>4. WorkerType'
    BY <2>1 DEF IInv, TypeOK, WorkerType, workerVars
  <2>5. DeliveryType'
    BY <2>1 DEF IInv, TypeOK, DeliveryType, deliveryVars
  <2> QED
    BY <2>2, <2>3, <2>4, <2>5 DEF IInv, TypeOK
<1> QED
  BY <1>1, <1>2, <1>3, <1>4, <1>5, <1>6 DEF Next

\* The invariant holds in every reachable state.
THEOREM Invariance == Spec => []IInv
<1>1. Init => IInv
  BY InitIInv
<1>2. IInv /\ [Next]_vars => IInv'
  BY NextIInv
<1> QED
  BY <1>1, <1>2, PTL DEF Spec

\* Every variable keeps its type.
THEOREM TypeCorrect == Spec => []TypeOK
<1>1. IInv => TypeOK
  BY DEF IInv
<1> QED
  BY <1>1, Invariance, PTL

\* The queue's task count is the number of requests waiting or being run, for any
\* number of requests, any queue bound, any capacity and any order of cancels,
\* deaths, hand-backs and a concurrent close(): _pending.task_done() is called
\* exactly once for every request admitted, so it can never raise.
THEOREM TasksAccounted == Spec => []TaskAccounting
<1>1. IInv => TaskAccounting
  BY DEF IInv
<1> QED
  BY <1>1, Invariance, PTL

-----------------------------------------------------------------------------
(* Facts about sequences used by the theorems on places and order *)

\* An element of a sequence is at one of its places.
LEMMA RangeSeq ==
  ASSUME NEW S, NEW q \in Seq(S)
  PROVE  /\ Range(q) \subseteq S
         /\ \A x : x \in Range(q) <=> \E i \in 1..Len(q) : q[i] = x
         /\ IsInjective(q) <=> \A i, j \in 1..Len(q) : q[i] = q[j] => i = j
         /\ q = <<>> <=> Range(q) = {}
<1>1. DOMAIN q = 1..Len(q) /\ Len(q) \in Nat /\ \A i \in 1..Len(q) : q[i] \in S
  OBVIOUS
<1>2. \A x : x \in Range(q) <=> \E i \in 1..Len(q) : q[i] = x
  BY <1>1 DEF Range
<1>3. IsInjective(q) <=> \A i, j \in 1..Len(q) : q[i] = q[j] => i = j
  BY <1>1, Zenon DEF IsInjective
<1>4. Range(q) \subseteq S
  BY <1>1, <1>2
<1>5. ASSUME q # <<>> PROVE Range(q) # {}
  <2>1. 1 \in 1..Len(q)
    BY <1>1, <1>5, EmptySeq
  <2>2. q[1] \in Range(q)
    BY <1>2, <2>1
  <2> QED
    BY <2>2
<1>6. ASSUME q = <<>> PROVE Range(q) = {}
  BY <1>2, <1>6
<1> QED
  BY <1>2, <1>3, <1>4, <1>5, <1>6

\* Taking the first element off.
LEMMA TailLine ==
  ASSUME NEW S, NEW q \in Seq(S), q # <<>>
  PROVE  /\ Tail(q) \in Seq(S) /\ Head(q) \in Range(q) /\ Len(Tail(q)) = Len(q) - 1
         /\ Range(q) = {Head(q)} \cup Range(Tail(q))
         /\ IsInjective(q) => IsInjective(Tail(q)) /\ Head(q) \notin Range(Tail(q))
<1> DEFINE t == Tail(q)
<1>1. /\ t \in Seq(S) /\ Len(t) = Len(q) - 1 /\ Len(q) \in Nat /\ Len(q) > 0
      /\ \A i \in 1..Len(t) : t[i] = q[i + 1] /\ i + 1 \in 1..Len(q)
      /\ Head(q) = q[1]
  BY HeadTailProperties
<1> HIDE DEF t
<1>2. \A j \in 1..Len(q) : j = 1 \/ \E i \in 1..Len(t) : j = i + 1
  <2>1. ASSUME NEW j \in 1..Len(q), j # 1 PROVE j - 1 \in 1..Len(t) /\ j = (j - 1) + 1
    BY <1>1, <2>1
  <2> QED
    BY <2>1
<1>3. \A x : x \in Range(q) <=> \E i \in 1..Len(q) : q[i] = x
  BY RangeSeq
<1>4. \A x : x \in Range(t) <=> \E i \in 1..Len(t) : t[i] = x
  BY <1>1, RangeSeq
<1>5. Head(q) \in Range(q)
  BY <1>1, <1>3
<1>6. \A x : x \in Range(t) => x \in Range(q)
  BY <1>1, <1>3, <1>4
<1>7. \A x : x \in Range(q) => x = Head(q) \/ x \in Range(t)
  <2> SUFFICES ASSUME NEW x \in Range(q), x # Head(q) PROVE x \in Range(t)
    OBVIOUS
  <2>1. PICK j \in 1..Len(q) : q[j] = x
    BY <1>3
  <2>2. PICK i \in 1..Len(t) : j = i + 1
    BY <1>1, <1>2, <2>1
  <2> QED
    BY <1>1, <1>4, <2>1, <2>2
<1>8. ASSUME IsInjective(q) PROVE IsInjective(t) /\ Head(q) \notin Range(t)
  <2>1. \A i, j \in 1..Len(q) : q[i] = q[j] => i = j
    BY <1>8, RangeSeq
  <2>2. \A i, j \in 1..Len(t) : t[i] = t[j] => i = j
    <3> SUFFICES ASSUME NEW i \in 1..Len(t), NEW j \in 1..Len(t), t[i] = t[j] PROVE i = j
      OBVIOUS
    <3>1. i + 1 = j + 1
      BY <1>1, <2>1
    <3> QED
      BY <1>1, <3>1
  <2>3. \A i \in 1..Len(t) : t[i] # Head(q)
    <3> SUFFICES ASSUME NEW i \in 1..Len(t), t[i] = Head(q) PROVE FALSE
      OBVIOUS
    <3>1. i + 1 = 1
      BY <1>1, <2>1
    <3> QED
      BY <1>1, <3>1
  <2> QED
    BY <1>1, <1>4, <2>2, <2>3, RangeSeq
<1>9. Range(q) = {Head(q)} \cup Range(t)
  BY <1>5, <1>6, <1>7
<1> QED
  BY <1>1, <1>5, <1>8, <1>9 DEF t

\* Adding an element at the end.
LEMMA AppendLine ==
  ASSUME NEW S, NEW q \in Seq(S), NEW x \in S
  PROVE  /\ Append(q, x) \in Seq(S) /\ Range(Append(q, x)) = Range(q) \cup {x}
         /\ Len(Append(q, x)) = Len(q) + 1
         /\ IsInjective(q) /\ x \notin Range(q) => IsInjective(Append(q, x))
<1> DEFINE t == Append(q, x)
<1>1. /\ t \in Seq(S) /\ Len(t) = Len(q) + 1 /\ Len(q) \in Nat
      /\ t[Len(q) + 1] = x /\ \A i \in 1..Len(q) : t[i] = q[i]
  OBVIOUS
<1> HIDE DEF t
<1>2. \A y : y \in Range(q) <=> \E i \in 1..Len(q) : q[i] = y
  BY RangeSeq
<1>3. \A y : y \in Range(t) <=> \E i \in 1..Len(q) + 1 : t[i] = y
  BY <1>1, RangeSeq
<1>4. Range(t) = Range(q) \cup {x}
  BY <1>1, <1>2, <1>3
<1>5. ASSUME IsInjective(q), x \notin Range(q) PROVE IsInjective(t)
  <2>1. \A i, j \in 1..Len(q) : q[i] = q[j] => i = j
    BY <1>5, RangeSeq
  <2>2. \A i, j \in 1..Len(t) : t[i] = t[j] => i = j
    BY <1>1, <1>2, <1>5, <2>1
  <2> QED
    BY <1>1, <2>2, RangeSeq
<1> QED
  BY <1>1, <1>4, <1>5 DEF t

\* Putting one sequence before another.
LEMMA ConcatLine ==
  ASSUME NEW S, NEW q \in Seq(S), NEW t \in Seq(S)
  PROVE  /\ q \o t \in Seq(S) /\ Range(q \o t) = Range(q) \cup Range(t)
         /\ IsInjective(q \o t) <=>
              IsInjective(q) /\ IsInjective(t) /\ Range(q) \cap Range(t) = {}
<1> DEFINE c == q \o t
           m == Len(q)
           n == Len(t)
<1>1. c \in Seq(S) /\ Len(c) = m + n /\ m \in Nat /\ n \in Nat
  BY ConcatProperties
<1>2. \A k \in 1..m + n : c[k] = IF k <= m THEN q[k] ELSE t[k - m]
  BY ConcatProperties
<1>3. \A k \in 1..m : c[k] = q[k]
  BY <1>1, <1>2
<1>4. \A k \in 1..n : c[m + k] = t[k] /\ m + k \in 1..m + n
  <2>1. ASSUME NEW k \in 1..n PROVE m + k \in 1..m + n /\ ~(m + k <= m) /\ m + k - m = k
    BY <1>1
  <2> QED
    BY <1>2, <2>1
<1> HIDE DEF c
<1>5. \A k \in 1..m + n : k \in 1..m \/ \E l \in 1..n : k = m + l
  <2>1. ASSUME NEW k \in 1..m + n, k \notin 1..m PROVE k - m \in 1..n /\ k = m + (k - m)
    BY <1>1, <2>1
  <2> QED
    BY <2>1
<1> HIDE DEF m, n
<1>6. \A x : x \in Range(q) <=> \E i \in 1..m : q[i] = x
  BY RangeSeq DEF m
<1>7. \A x : x \in Range(t) <=> \E i \in 1..n : t[i] = x
  BY RangeSeq DEF n
<1>8. \A x : x \in Range(c) <=> \E i \in 1..m + n : c[i] = x
  BY <1>1, RangeSeq
<1>9. Range(c) = Range(q) \cup Range(t)
  <2>1. \A x : x \in Range(q) => x \in Range(c)
    BY <1>1, <1>3, <1>6, <1>8
  <2>2. \A x : x \in Range(t) => x \in Range(c)
    BY <1>4, <1>7, <1>8
  <2>3. \A x : x \in Range(c) => x \in Range(q) \/ x \in Range(t)
    BY <1>3, <1>4, <1>5, <1>6, <1>7, <1>8
  <2> QED
    BY <2>1, <2>2, <2>3
<1>10. ASSUME IsInjective(c) PROVE IsInjective(q) /\ IsInjective(t) /\ Range(q) \cap Range(t) = {}
  <2>1. \A i, j \in 1..m + n : c[i] = c[j] => i = j
    BY <1>1, <1>10, RangeSeq
  <2>2. \A i, j \in 1..m : q[i] = q[j] => i = j
    BY <1>1, <1>3, <2>1
  <2>3. \A i, j \in 1..n : t[i] = t[j] => i = j
    <3> SUFFICES ASSUME NEW i \in 1..n, NEW j \in 1..n, t[i] = t[j] PROVE i = j
      OBVIOUS
    <3>1. m + i = m + j
      BY <1>4, <2>1
    <3> QED
      BY <1>1, <3>1
  <2>4. ASSUME NEW i \in 1..m, NEW j \in 1..n PROVE q[i] # t[j]
    <3>1. c[i] = q[i] /\ c[m + j] = t[j] /\ i \in 1..m + n /\ m + j \in 1..m + n /\ i # m + j
      BY <1>1, <1>3, <1>4
    <3> QED
      BY <3>1, <2>1
  <2>5. IsInjective(q)
    BY <2>2, RangeSeq DEF m
  <2>6. IsInjective(t)
    BY <2>3, RangeSeq DEF n
  <2> QED
    BY <2>4, <2>5, <2>6, <1>6, <1>7
<1>11. ASSUME IsInjective(q), IsInjective(t), Range(q) \cap Range(t) = {} PROVE IsInjective(c)
  <2>1. \A i, j \in 1..m : q[i] = q[j] => i = j
    BY <1>11, RangeSeq DEF m
  <2>2. \A i, j \in 1..n : t[i] = t[j] => i = j
    BY <1>11, RangeSeq DEF n
  <2>3. \A i \in 1..m, j \in 1..n : q[i] # t[j]
    BY <1>6, <1>7, <1>11
  <2>4. ASSUME NEW i \in 1..m + n, NEW j \in 1..m + n, c[i] = c[j] PROVE i = j
    <3>1. CASE i \in 1..m /\ j \in 1..m
      BY <3>1, <1>3, <2>1, <2>4
    <3>2. CASE i \in 1..m /\ \E l \in 1..n : j = m + l
      BY <3>2, <1>3, <1>4, <2>3, <2>4
    <3>3. CASE j \in 1..m /\ \E l \in 1..n : i = m + l
      BY <3>3, <1>3, <1>4, <2>3, <2>4
    <3>4. CASE (\E l \in 1..n : i = m + l) /\ \E l \in 1..n : j = m + l
      BY <3>4, <1>4, <2>2, <2>4
    <3> QED
      BY <3>1, <3>2, <3>3, <3>4, <1>5
  <2> QED
    BY <1>1, <2>4, RangeSeq
<1> QED
  BY <1>1, <1>9, <1>10, <1>11 DEF c

\* Cutting a sequence in two.
LEMMA CutLine ==
  ASSUME NEW S, NEW q \in Seq(S), NEW k \in 0..Len(q)
  PROVE  LET a == SubSeq(q, 1, k)  b == SubSeq(q, k + 1, Len(q)) IN
         /\ a \in Seq(S) /\ b \in Seq(S) /\ q = a \o b
         /\ Len(a) = k /\ Len(b) = Len(q) - k
         /\ Range(q) = Range(a) \cup Range(b)
         /\ IsInjective(q) => IsInjective(a) /\ IsInjective(b) /\ Range(a) \cap Range(b) = {}
<1> DEFINE a == SubSeq(q, 1, k)
           b == SubSeq(q, k + 1, Len(q))
<1>1. a \in Seq(S) /\ b \in Seq(S) /\ Len(a) = k /\ Len(b) = Len(q) - k
  BY CutType
<1>2. a \o b = q
  <2>1. 1 \in 1..Len(q) + 1 /\ k \in 1 - 1..Len(q) /\ Len(q) \in k..Len(q)
    OBVIOUS
  <2>2. SubSeq(q, 1, k) \o SubSeq(q, k + 1, Len(q)) = SubSeq(q, 1, Len(q))
    BY ONLY <2>1, ConcatAdjacentSubSeq, q \in Seq(S)
  <2> QED
    BY <2>2, SubSeqFull
<1> HIDE DEF a, b
<1>3. /\ q = a \o b /\ Range(q) = Range(a) \cup Range(b)
      /\ IsInjective(q) => IsInjective(a) /\ IsInjective(b) /\ Range(a) \cap Range(b) = {}
  <2>1. /\ Range(a \o b) = Range(a) \cup Range(b)
        /\ IsInjective(a \o b) <=> IsInjective(a) /\ IsInjective(b) /\ Range(a) \cap Range(b) = {}
    BY <1>1, ConcatLine
  <2> QED
    BY <1>2, <2>1
<1> QED
  BY <1>1, <1>3 DEF a, b

\* A request that was admitted has a rank.
LEMMA RankType ==
  ASSUME QueueType, NEW x \in Range(admitted)
  PROVE  Rank(x) \in 1..Len(admitted) /\ admitted[Rank(x)] = x
<1>1. \E i \in DOMAIN admitted : admitted[i] = x
  BY DEF Range
<1>2. DOMAIN admitted = 1..Len(admitted)
  BY DEF QueueType
<1> QED
  BY <1>1, <1>2 DEF Rank

\* Sorting the waiting requests arranges the same requests.
LEMMA SortedLine ==
  ASSUME QueueType, NEW q \in Seq(Requests), IsInjective(q), Range(q) \subseteq Range(admitted),
         NEW sjf, NEW s \in Sorted(q, sjf)
  PROVE  s \in Seq(Requests) /\ IsInjective(s) /\ Range(s) = Range(q) /\ Len(s) = Len(q)
<1>1. s \in Seq(Requests) /\ Len(s) = Len(q) /\ Len(q) \in Nat
  BY SortedType
<1>2. s \in [1..Len(q) -> Range(q)]
  BY DEF Sorted
<1>3. ASSUME NEW i \in 1..Len(q), NEW j \in 1..Len(q), i < j, s[i] = s[j] PROVE FALSE
  <2>1. StartsBefore(s[i], s[i], sjf)
    BY <1>3 DEF Sorted
  <2>2. Rank(s[i]) \in Int
    BY <1>2, RankType DEF QueueType
  <2> QED
    BY <2>1, <2>2 DEF StartsBefore
<1>4. IsInjective(s)
  BY <1>1, <1>3, RangeSeq
<1>5. s \in Injection(1..Len(q), Range(q))
  BY <1>2, <1>4 DEF Injection
<1>6. q \in Surjection(1..Len(q), Range(q)) /\ q \in Injection(1..Len(q), Range(q))
  BY DEF Surjection, Injection, Range
<1>7. IsFiniteSet(1..Len(q)) /\ IsFiniteSet(Range(q)) /\ Cardinality(1..Len(q)) = Cardinality(Range(q))
  BY <1>1, <1>6, FS_Interval, FS_Surjection
<1>8. s \in Surjection(1..Len(q), Range(q))
  BY <1>5, <1>7, FS_Injection
<1>9. Range(s) = Range(q)
  BY <1>1, <1>8 DEF Surjection, Range
<1> QED
  BY <1>1, <1>4, <1>9

-----------------------------------------------------------------------------
(* Where each request is: OnePlace *)

\* The requests that wait, and those of the running group.
Queued == Range(carry) \cup Range(pending)
Held == Range(group) \cup Range(joined)

\* Nobody is in two places.
Apart ==
  /\ IsInjective(carry) /\ IsInjective(pending) /\ Range(carry) \cap Range(pending) = {}
  /\ IsInjective(group) /\ IsInjective(joined) /\ Range(group) \cap Range(joined) = {}
  /\ Queued \cap Held = {}

\* The sessions are those in some place; all were admitted, each once.
Registered ==
  /\ closing # "done" => sessions = Queued \cup Held
  /\ Queued \cup Held \subseteq Range(admitted)
  /\ IsInjective(admitted)
  /\ \A r \in Requests : caller[r] = "none" => r \notin Range(admitted)

\* Each request that has a session is in one place.
Places == Apart /\ Registered

\* The line OnePlaceEach speaks of.
LEMMA PlacesLine ==
  ASSUME TypeOK, Places
  PROVE  OnePlaceEach
<1>1. joined \in Seq(Requests) /\ group \in Seq(Requests) /\ carry \in Seq(Requests)
      /\ pending \in Seq(Requests)
  BY DEF TypeOK, QueueType, SchedulerType
<1> DEFINE a == joined \o group
           b == a \o carry
           c == b \o pending
<1>2. a \in Seq(Requests) /\ Range(a) = Range(joined) \cup Range(group) /\ IsInjective(a)
  BY <1>1, ConcatLine DEF Places, Apart
<1> HIDE DEF a
<1>3. b \in Seq(Requests) /\ Range(b) = Held \cup Range(carry) /\ IsInjective(b)
  <2>1. Range(a) \cap Range(carry) = {} /\ IsInjective(carry) /\ Range(a) = Held
    BY <1>2 DEF Places, Apart, Queued, Held
  <2> QED
    BY <1>1, <1>2, <2>1, ConcatLine
<1> HIDE DEF b
<1>4. Range(c) = Held \cup Queued /\ IsInjective(c)
  <2>1. Range(b) \cap Range(pending) = {} /\ IsInjective(pending)
    BY <1>3 DEF Places, Apart, Queued, Held
  <2>2. Range(c) = Range(b) \cup Range(pending) /\ IsInjective(c)
    BY <1>1, <1>3, <2>1, ConcatLine
  <2> QED
    BY <2>2, <1>3 DEF Queued
<1>5. c = joined \o group \o carry \o pending
  BY DEF a, b
<1> HIDE DEF c
<1> QED
  BY <1>4, <1>5 DEF OnePlaceEach, Places, Registered

\* Taking the next waiting request.
LEMMA TakeLine ==
  ASSUME QueueType, Apart, NEW r, Take(r)
  PROVE  /\ carry' \in Seq(Requests) /\ pending' \in Seq(Requests)
         /\ IsInjective(carry') /\ IsInjective(pending') /\ Range(carry)' \cap Range(pending)' = {}
         /\ r \in Queued /\ Queued' = Queued \ {r}
<1>1. carry \in Seq(Requests) /\ pending \in Seq(Requests)
  BY DEF QueueType
<1>2. CASE carry # <<>>
  <2>1. /\ Tail(carry) \in Seq(Requests) /\ Head(carry) = r /\ r \in Range(carry)
        /\ Range(carry) = {r} \cup Range(Tail(carry))
        /\ IsInjective(Tail(carry)) /\ r \notin Range(Tail(carry))
    BY <1>1, <1>2, TailLine DEF Take, Apart
  <2>2. carry' = Tail(carry) /\ pending' = pending
    BY <1>2 DEF Take
  <2> QED
    BY <1>1, <2>1, <2>2 DEF Apart, Queued
<1>3. CASE carry = <<>>
  <2>1. /\ Tail(pending) \in Seq(Requests) /\ Head(pending) = r /\ r \in Range(pending)
        /\ Range(pending) = {r} \cup Range(Tail(pending))
        /\ IsInjective(Tail(pending)) /\ r \notin Range(Tail(pending))
    BY <1>1, <1>3, TailLine DEF Take, Apart
  <2>2. carry' = carry /\ pending' = Tail(pending)
    BY <1>3 DEF Take
  <2> QED
    BY <1>1, <2>1, <2>2 DEF Apart, Queued
<1> QED
  BY <1>2, <1>3

\* Sorting everything that waits.
LEMMA QueueSorted ==
  ASSUME QueueType, Places, NEW sjf, NEW s \in Sorted(carry \o pending, sjf)
  PROVE  s \in Seq(Requests) /\ IsInjective(s) /\ Range(s) = Queued
         /\ Len(s) = Len(carry \o pending)
<1> DEFINE q == carry \o pending
<1>1. carry \in Seq(Requests) /\ pending \in Seq(Requests)
  BY DEF QueueType
<1>2. q \in Seq(Requests) /\ Range(q) = Queued /\ IsInjective(q)
  BY <1>1, ConcatLine DEF Queued, Places, Apart
<1> HIDE DEF q
<1>3. s \in Sorted(q, sjf) /\ Range(q) \subseteq Range(admitted)
  BY <1>2 DEF q, Places, Registered
<1>4. s \in Seq(Requests) /\ IsInjective(s) /\ Range(s) = Range(q) /\ Len(s) = Len(q)
  BY <1>2, <1>3, SortedLine
<1> QED
  BY <1>2, <1>4 DEF q

\* A sequence of one.
LEMMA OneLine ==
  ASSUME NEW x
  PROVE  Range(<<x>>) = {x} /\ IsInjective(<<x>>)
BY DEF Range, IsInjective

\* Steps that move nobody.
LEMMA PlacesFrame ==
  ASSUME Places, UNCHANGED <<pending, carry, sessions, group, joined, admitted>>,
         closing = "done" => closing' = "done",
         \A r \in Requests : caller'[r] = "none" => caller[r] = "none"
  PROVE  Places'
<1>1. Queued' = Queued /\ Held' = Held /\ Range(admitted)' = Range(admitted)
  BY DEF Queued, Held
<1>2. Apart'
  BY <1>1 DEF Places, Apart
<1>3. Registered'
  BY <1>1 DEF Places, Registered
<1> QED
  BY <1>2, <1>3 DEF Places

\* A request admitted goes to the end of the queue and nowhere else.
LEMMA AdmitPlaces ==
  ASSUME IInv, Places, NEW r \in Requests, Admit(r)
  PROVE  Places'
<1>1. pending \in Seq(Requests) /\ admitted \in Seq(Requests) /\ caller \in [Requests -> CallerStates]
  BY DEF IInv, TypeOK, QueueType, CallerType
<1>2. r \notin Range(admitted) /\ r \notin Queued \cup Held
  BY DEF Admit, Places, Registered
<1>3. Range(pending)' = Range(pending) \cup {r} /\ IsInjective(pending')
  BY <1>1, <1>2, AppendLine DEF Admit, Places, Apart, Queued
<1>4. Range(admitted)' = Range(admitted) \cup {r} /\ IsInjective(admitted')
  BY <1>1, <1>2, AppendLine DEF Admit, Places, Registered
<1>5. /\ UNCHANGED <<carry, group, joined, closing>> /\ sessions' = sessions \cup {r}
      /\ caller' = [caller EXCEPT ![r] = "open"]
  BY DEF Admit, schedVars, closeVars
<1>6. Apart'
  BY <1>2, <1>3, <1>5 DEF Places, Apart, Queued, Held
<1>7. Registered'
  <2>1. \A s \in Requests : caller'[s] = "none" => s # r /\ caller[s] = "none"
    BY <1>1, <1>5
  <2> QED
    BY <1>3, <1>4, <1>5, <2>1 DEF Places, Registered, Queued, Held
<1> QED
  BY <1>6, <1>7 DEF Places

\* The first of a group leaves the queue or the carry for the group.
LEMMA NextSessionPlaces ==
  ASSUME IInv, Places, NextSession
  PROVE  Places'
<1>1. PICK r \in Requests : Take(r) /\ group' = <<r>>
  BY DEF NextSession
<1>2. /\ IsInjective(carry') /\ IsInjective(pending') /\ Range(carry)' \cap Range(pending)' = {}
      /\ r \in Queued /\ Queued' = Queued \ {r}
  BY <1>1, TakeLine DEF IInv, TypeOK, Places
<1>3. Range(group)' = {r} /\ IsInjective(group')
  BY <1>1, OneLine
<1>4. Range(group) = {} /\ Range(joined) = {}
  BY RangeSeq DEF NextSession, IInv, TypeOK, SchedulerType, GroupHeld
<1>5. UNCHANGED <<joined, sessions, admitted, closing, caller>>
  BY DEF NextSession, callerVars, closeVars
<1> QED
  BY <1>2, <1>3, <1>4, <1>5 DEF Places, Apart, Registered, Held

\* So does the first in a sorted order, the others moving to the carry.
LEMMA NextSortedPlaces ==
  ASSUME IInv, Places, NextSorted
  PROVE  Places'
<1>0. PICK sjf \in Decisions :
        \E s \in Sorted(carry \o pending, sjf) : group' = <<Head(s)>> /\ carry' = Tail(s)
  BY DEF NextSorted
<1>1. PICK s \in Sorted(carry \o pending, sjf) : group' = <<Head(s)>> /\ carry' = Tail(s)
  BY <1>0
<1>2. s \in Seq(Requests) /\ IsInjective(s) /\ Range(s) = Queued /\ Len(s) = Len(carry \o pending)
  BY <1>1, QueueSorted DEF IInv, TypeOK
<1>3. s # <<>>
  BY <1>2, RangeSeq, ConcatLine DEF NextSorted, IInv, TypeOK, QueueType
<1>4. /\ Range(s) = {Head(s)} \cup Range(Tail(s)) /\ IsInjective(Tail(s))
      /\ Head(s) \notin Range(Tail(s))
  BY <1>2, <1>3, TailLine
<1>5. Range(group)' = {Head(s)} /\ IsInjective(group')
  BY <1>1, OneLine
<1>6. Range(pending)' = {} /\ IsInjective(pending')
  BY DEF NextSorted, Range, IsInjective
<1>7. Range(group) = {} /\ Range(joined) = {}
  BY RangeSeq DEF NextSorted, IInv, TypeOK, SchedulerType, GroupHeld
<1>8. UNCHANGED <<joined, sessions, admitted, closing, caller>>
  BY DEF NextSorted, callerVars, closeVars
<1> QED
  BY <1>1, <1>2, <1>4, <1>5, <1>6, <1>7, <1>8 DEF Places, Apart, Registered, Queued, Held

\* Sorting what waits moves the queue to the carry.
LEMMA OrderWaitingPlaces ==
  ASSUME IInv, Places, OrderWaiting
  PROVE  Places'
<1>0. PICK sjf \in Decisions : \E s \in Sorted(carry \o pending, sjf) : carry' = s
  BY DEF OrderWaiting
<1>1. PICK s \in Sorted(carry \o pending, sjf) : carry' = s
  BY <1>0
<1>2. IsInjective(carry') /\ Range(carry)' = Queued
  BY <1>1, QueueSorted DEF IInv, TypeOK
<1>3. Range(pending)' = {} /\ IsInjective(pending')
  BY DEF OrderWaiting, Range, IsInjective
<1>4. UNCHANGED <<group, joined, sessions, admitted, closing, caller>>
  BY DEF OrderWaiting, callerVars, closeVars
<1> QED
  BY <1>2, <1>3, <1>4 DEF Places, Apart, Registered, Queued, Held

\* The group takes its next member out of the line.
LEMMA TakeCompanyPlaces ==
  ASSUME IInv, Places, TakeCompany
  PROVE  Places'
<1>1. PICK r \in Requests : Take(r) /\ group' = Append(group, r)
  BY DEF TakeCompany
<1>2. /\ IsInjective(carry') /\ IsInjective(pending') /\ Range(carry)' \cap Range(pending)' = {}
      /\ r \in Queued /\ Queued' = Queued \ {r}
  BY <1>1, TakeLine DEF IInv, TypeOK, Places
<1>3. Range(group)' = Range(group) \cup {r} /\ IsInjective(group')
  BY <1>1, <1>2, AppendLine DEF IInv, TypeOK, SchedulerType, Places, Apart, Held
<1>4. UNCHANGED <<joined, sessions, admitted, closing, caller>>
  BY DEF TakeCompany, callerVars, closeVars
<1> QED
  BY <1>2, <1>3, <1>4 DEF Places, Apart, Registered, Held

\* A refused group keeps its first member; the others go back to the carry.
LEMMA CloseGroupPlaces ==
  ASSUME IInv, Places, CloseGroup
  PROVE  Places'
<1>1. group \in Seq(Requests) /\ carry \in Seq(Requests) /\ group # <<>>
  BY DEF IInv, TypeOK, QueueType, SchedulerType, GroupHeld, CloseGroup
<1>2. /\ Tail(group) \in Seq(Requests) /\ Range(group) = {Head(group)} \cup Range(Tail(group))
      /\ IsInjective(Tail(group)) /\ Head(group) \notin Range(Tail(group))
  BY <1>1, TailLine DEF Places, Apart
<1>3. UNCHANGED <<pending, joined, sessions, admitted, closing, caller>>
  BY DEF CloseGroup, callerVars, closeVars
<1>4. CASE group' = group /\ carry' = carry
  BY <1>3, <1>4, PlacesFrame
<1>5. CASE group' = <<Head(group)>> /\ carry' = Tail(group) \o carry
  <2>1. Range(group)' = {Head(group)} /\ IsInjective(group')
    BY <1>5, OneLine
  <2>2. Range(Tail(group)) \cap Range(carry) = {} /\ IsInjective(carry)
    BY <1>2 DEF Places, Apart, Queued, Held
  <2>3. Range(carry)' = Range(Tail(group)) \cup Range(carry) /\ IsInjective(carry')
    BY <1>1, <1>2, <1>5, <2>2, ConcatLine
  <2> QED
    BY <1>2, <1>3, <2>1, <2>3 DEF Places, Apart, Registered, Queued, Held
<1> QED
  BY <1>4, <1>5 DEF CloseGroup

\* A joiner leaves the line for the joiners.
LEMMA JoinPlaces ==
  ASSUME IInv, Places, Join
  PROVE  Places'
<1>1. PICK r \in Requests : Take(r) /\ joined' = Append(joined, r)
  BY DEF Join
<1>2. /\ IsInjective(carry') /\ IsInjective(pending') /\ Range(carry)' \cap Range(pending)' = {}
      /\ r \in Queued /\ Queued' = Queued \ {r}
  BY <1>1, TakeLine DEF IInv, TypeOK, Places
<1>3. Range(joined)' = Range(joined) \cup {r} /\ IsInjective(joined')
  BY <1>1, <1>2, AppendLine DEF IInv, TypeOK, SchedulerType, Places, Apart, Held
<1>4. UNCHANGED <<group, sessions, admitted, closing, caller>>
  BY DEF Join, callerVars, closeVars
<1> QED
  BY <1>2, <1>3, <1>4 DEF Places, Apart, Registered, Held

\* A request that may not join moves to the head of the carry.
LEMMA JoinDeclinedPlaces ==
  ASSUME IInv, Places, JoinDeclined
  PROVE  Places'
<1>1. /\ Range(pending) = {Head(pending)} \cup Range(Tail(pending)) /\ IsInjective(Tail(pending))
      /\ Head(pending) \notin Range(Tail(pending))
  BY TailLine DEF JoinDeclined, IInv, TypeOK, QueueType, Places, Apart
<1>2. Range(carry)' = {Head(pending)} /\ IsInjective(carry') /\ pending' = Tail(pending)
  BY OneLine DEF JoinDeclined
<1>3. Range(carry) = {}
  BY RangeSeq DEF JoinDeclined, IInv, TypeOK, QueueType
<1>4. UNCHANGED <<group, joined, sessions, admitted, closing, caller>>
  BY DEF JoinDeclined, callerVars, schedVars, closeVars
<1> QED
  BY <1>1, <1>2, <1>3, <1>4 DEF Places, Apart, Registered, Queued, Held

\* The joiners handed back leave the joiners for the carry.
LEMMA GroupDonePlaces ==
  ASSUME IInv, Places, GroupDone
  PROVE  Places'
<1>1. joined \in Seq(Requests) /\ carry \in Seq(Requests)
  BY DEF IInv, TypeOK, QueueType, SchedulerType
<1>2. PICK k \in 0..Len(joined) :
        /\ joined' = SubSeq(joined, 1, k)
        /\ carry' = SubSeq(joined, k + 1, Len(joined)) \o carry
  BY DEF GroupDone
<1> DEFINE back == SubSeq(joined, k + 1, Len(joined))
<1>3. /\ back \in Seq(Requests) /\ Range(joined) = Range(joined') \cup Range(back)
      /\ IsInjective(joined') /\ IsInjective(back) /\ Range(joined') \cap Range(back) = {}
  BY <1>1, <1>2, CutLine DEF Places, Apart
<1> HIDE DEF back
<1>4. Range(back) \cap Range(carry) = {} /\ IsInjective(carry)
  BY <1>3 DEF Places, Apart, Queued, Held
<1>5. Range(carry)' = Range(back) \cup Range(carry) /\ IsInjective(carry')
  <2>1. carry' = back \o carry
    BY <1>2 DEF back
  <2> QED
    BY <1>1, <1>3, <1>4, <2>1, ConcatLine
<1>6. UNCHANGED <<pending, group, sessions, admitted, closing, caller>>
  BY DEF GroupDone, callerVars, closeVars
<1> QED
  BY <1>3, <1>5, <1>6 DEF Places, Apart, Registered, Queued, Held

\* A member retired is in no place any more, and has no session.
LEMMA RetirePlaces ==
  ASSUME IInv, Places, Retire
  PROVE  Places'
<1>1. joined \in Seq(Requests) /\ group \in Seq(Requests) /\ joined \o group # <<>>
  BY ConcatLine, RangeSeq DEF IInv, TypeOK, SchedulerType, GroupHeld, Retire
<1>2. UNCHANGED <<pending, carry, admitted, closing, caller>>
  BY DEF Retire, callerVars, closeVars
<1>3. CASE joined # <<>>
  <2>1. Head(joined \o group) = Head(joined)
    BY <1>1, <1>3
  <2>2. sessions' = sessions \ {Head(joined)} /\ joined' = Tail(joined) /\ group' = group
    BY <1>3, <2>1 DEF Retire
  <2>3. /\ Range(joined) = {Head(joined)} \cup Range(Tail(joined)) /\ IsInjective(Tail(joined))
        /\ Head(joined) \notin Range(Tail(joined))
    BY <1>1, <1>3, TailLine DEF Places, Apart
  <2> QED
    BY <1>2, <2>2, <2>3 DEF Places, Apart, Registered, Queued, Held
<1>4. CASE joined = <<>>
  <2>1. joined \o group = group
    BY <1>1, <1>4
  <2>2. /\ sessions' = sessions \ {Head(group)} /\ group' = Tail(group) /\ joined' = joined
        /\ group # <<>>
    BY <1>1, <1>4, <2>1 DEF Retire
  <2>3. /\ Range(group) = {Head(group)} \cup Range(Tail(group)) /\ IsInjective(Tail(group))
        /\ Head(group) \notin Range(Tail(group))
    BY <1>1, <2>2, TailLine DEF Places, Apart
  <2> QED
    BY <1>2, <2>2, <2>3 DEF Places, Apart, Registered, Queued, Held
<1> QED
  BY <1>3, <1>4

\* What close() drops is in no place any more.
LEMMA CloseDropPlaces ==
  ASSUME IInv, Places, CloseDrop
  PROVE  Places'
<1>1. Queued' = {} /\ IsInjective(carry') /\ IsInjective(pending') /\ closing' = "done"
      /\ Range(carry)' = {}
  BY DEF CloseDrop, Queued, Range, IsInjective
<1>2. UNCHANGED <<group, joined, admitted, caller>>
  BY DEF CloseDrop, schedVars, callerVars
<1> QED
  BY <1>1, <1>2 DEF Places, Apart, Registered, Held

\* Every step keeps the requests in their places.
LEMMA NextPlaces ==
  ASSUME IInv, Places, [Next]_vars
  PROVE  Places'
<1> USE DEF queueVars, callerVars, schedVars, workerVars, deliveryVars, closeVars
<1>0. caller \in [Requests -> CallerStates]
  BY DEF IInv, TypeOK, CallerType
<1>1. ASSUME NEW r \in Requests, CallerStep(r) PROVE Places'
  <2>1. CASE Refuse(r) \/ Cancel(r) \/ Expire(r) \/ CallerStops(r) \/ CallerLeaves(r)
    <3>1. UNCHANGED <<pending, carry, sessions, group, joined, admitted, closing>>
      BY <2>1 DEF Refuse, Cancel, Expire, CallerStops, CallerLeaves
    <3>2. \A s \in Requests : caller'[s] = "none" => caller[s] = "none"
      BY <1>0, <2>1 DEF Refuse, Cancel, Expire, CallerStops, CallerLeaves
    <3> QED
      BY <3>1, <3>2, PlacesFrame
  <2>2. CASE CallerRead(r)
    <3>1. UNCHANGED <<pending, carry, sessions, group, joined, admitted, closing>>
      BY <2>2 DEF CallerRead
    <3>2. Head(events[r]) # "none"
      <4>1. events[r] \in Seq(EventKinds) /\ events[r] # <<>>
        BY <2>2 DEF CallerRead, IInv, TypeOK, CallerType
      <4> QED
        BY <4>1, HeadTailProperties DEF EventKinds
    <3>3. \A s \in Requests : caller'[s] = "none" => caller[s] = "none"
      BY <1>0, <2>2, <3>2 DEF CallerRead
    <3> QED
      BY <3>1, <3>3, PlacesFrame
  <2> QED
    BY <1>1, <2>1, <2>2, AdmitPlaces DEF CallerStep
<1>2. ASSUME NEW r \in Requests, WorkerToken(r) \/ WorkerEnd(r) PROVE Places'
  BY <1>2, PlacesFrame DEF WorkerToken, WorkerEnd
<1>3. ASSUME NEW r \in Requests, Delivery(r) PROVE Places'
  BY <1>3, PlacesFrame DEF Delivery, ConsumeToken, ConsumeDone, ConsumeFailure, Record, Drain
<1>4. CASE Age \/ Recover \/ StartGather \/ Perform \/ GroupDrained \/ Exit \/ WorkerCrash
  BY <1>4, PlacesFrame DEF Age, Recover, StartGather, Perform, GroupDrained, Exit, WorkerCrash
<1>5. CASE CloseBegin \/ CloseCancel \/ CloseBackend
  BY <1>5, PlacesFrame DEF CloseBegin, CloseCancel, CloseBackend
<1>6. CASE Idle \/ UNCHANGED vars
  BY <1>6, PlacesFrame DEF Idle, vars
<1> QED
  BY <1>1, <1>2, <1>3, <1>4, <1>5, <1>6, NextSessionPlaces, NextSortedPlaces,
     OrderWaitingPlaces, TakeCompanyPlaces, CloseGroupPlaces, JoinPlaces, JoinDeclinedPlaces,
     GroupDonePlaces, RetirePlaces, CloseDropPlaces
  DEF Next, SchedulerStep, CloseStep

\* Nobody is anywhere at the start.
LEMMA InitPlaces == Init => Places
<1> SUFFICES ASSUME Init PROVE Places
  OBVIOUS
<1>1. Range(<<>>) = {} /\ IsInjective(<<>>)
  BY DEF Range, IsInjective
<1> QED
  BY <1>1 DEF Init, Places, Apart, Registered, Queued, Held

\* No admitted request is lost or held twice, through refused groups, sorting, hand-backs
\* and a close() that overtakes the scheduler: the sessions are exactly those in the queue,
\* the carry, the group and its joiners, and each is in one place only.
THEOREM OnePlace == Spec => []OnePlaceEach
<1>1. Init => IInv /\ Places
  BY InitIInv, InitPlaces
<1>2. IInv /\ Places /\ [Next]_vars => (IInv /\ Places)'
  BY NextIInv, NextPlaces
<1>3. IInv /\ Places => OnePlaceEach
  BY PlacesLine DEF IInv
<1> QED
  BY <1>1, <1>2, <1>3, PTL DEF Spec

-----------------------------------------------------------------------------
(* What has been done about each request: the stages the later theorems rest on *)

\* Neither the worker nor a consumer has begun with r.
Untouched(r) == serve[r] = "idle" /\ frames[r] = <<>> /\ deliver[r] = "none"

\* The worker and the consumers know the members of the running group only.
Stages ==
  /\ \A r \in Queued : Untouched(r)
  /\ \A r \in Requests \ Range(admitted) : Untouched(r)
  /\ pc \in {"order", "form", "gather", "perform"} => \A r \in Range(group) : Untouched(r)
  /\ \A r \in Requests : serve[r] = "running" => pc = "serve" /\ r \in OnWorker
  /\ \A r \in Requests : deliver[r] = "unheard" =>
       pc = "serve" /\ r \in Range(joined) /\ serve[r] = "running" /\ frames[r] = <<>>
  /\ \A r \in Requests : deliver[r] = "held" => pc = "serve" /\ r \in live
  /\ live \subseteq Range(group) \/ pc = "retire"
  /\ \A r \in OnWorker : serve[r] # "idle"

\* Steps that touch nobody's work.
LEMMA StagesFrame ==
  ASSUME Stages,
         UNCHANGED <<pending, carry, admitted, pc, group, joined, live, serve, frames, deliver>>
  PROVE  Stages'
<1>1. /\ Queued' = Queued /\ OnWorker' = OnWorker
      /\ \A r : Untouched(r)' <=> Untouched(r)
  BY DEF Queued, OnWorker, Untouched
<1> QED
  BY <1>1 DEF Stages

\* A request that anything was done about is neither waiting nor new.
LEMMA Touched ==
  ASSUME Stages, NEW r \in Requests, ~Untouched(r)
  PROVE  /\ r \notin Queued /\ r \in Range(admitted)
         /\ r \in Range(group) => pc \notin {"order", "form", "gather", "perform"}
BY DEF Stages

\* A consumer's step.
LEMMA StagesDelivery ==
  ASSUME IInv, Stages, NEW r \in Requests, deliver[r] \in {"consuming", "draining"} \cup Answered,
         UNCHANGED <<pending, carry, admitted, pc, group, joined, live, serve>>,
         \A s \in Requests \ {r} : deliver'[s] = deliver[s] /\ frames'[s] = frames[s],
         deliver'[r] \in {"consuming", "draining", "handled"} \cup Answered
  PROVE  Stages'
<1>1. ~Untouched(r)
  BY DEF Untouched
<1>2. Queued' = Queued /\ OnWorker' = OnWorker
  BY DEF Queued, OnWorker
<1>3. \A s \in Requests \ {r} : Untouched(s)' <=> Untouched(s)
  BY DEF Untouched
<1>4. \A s \in Requests : s \in Queued \/ s \notin Range(admitted) => s # r
  BY <1>1, Touched
<1>5. pc \in {"order", "form", "gather", "perform"} => r \notin Range(group)
  BY <1>1, Touched
<1>6. Range(group) \subseteq Requests /\ Queued \subseteq Requests
  BY RangeSeq DEF IInv, TypeOK, QueueType, SchedulerType, Queued
<1>7. Range(admitted)' = Range(admitted) /\ Range(group)' = Range(group) /\ Range(joined)' = Range(joined)
  OBVIOUS
<1>8. /\ \A s \in Queued' : Untouched(s)'
      /\ \A s \in Requests \ Range(admitted)' : Untouched(s)'
      /\ pc' \in {"order", "form", "gather", "perform"} => \A s \in Range(group)' : Untouched(s)'
  BY <1>2, <1>3, <1>4, <1>5, <1>6, <1>7 DEF Stages
<1>9. /\ \A s \in Requests : serve'[s] = "running" => pc' = "serve" /\ s \in OnWorker'
      /\ \A s \in Requests : deliver'[s] = "unheard" =>
           pc' = "serve" /\ s \in Range(joined)' /\ serve'[s] = "running" /\ frames'[s] = <<>>
      /\ \A s \in Requests : deliver'[s] = "held" => pc' = "serve" /\ s \in live'
      /\ live' \subseteq Range(group)' \/ pc' = "retire"
      /\ \A s \in OnWorker' : serve'[s] # "idle"
  BY <1>2, <1>7 DEF Stages
<1> QED
  BY <1>8, <1>9 DEF Stages

\* The worker sends a frame, or ends for every request it runs.
LEMMA StagesWorker ==
  ASSUME IInv, Stages, NEW R \in SUBSET Requests,
         \A r \in R : serve[r] = "running" \/ deliver[r] \in {"held", "unheard"},
         UNCHANGED <<pending, carry, admitted, pc, group, joined, live>>,
         \A r \in Requests \ R : /\ serve'[r] = serve[r] /\ frames'[r] = frames[r]
                                 /\ deliver'[r] = deliver[r],
         \A r \in R : /\ serve'[r] = serve[r] \/ serve'[r] = "ended"
                      /\ deliver'[r] \in {deliver[r], "consuming"} \ {"unheard"}
  PROVE  Stages'
<1>1. \A r \in R : ~Untouched(r)
  BY DEF Untouched
<1>2. Queued' = Queued /\ OnWorker' = OnWorker
  BY DEF Queued, OnWorker
<1>3. \A s \in Requests \ R : Untouched(s)' <=> Untouched(s)
  BY DEF Untouched
<1>4. \A s \in Requests : s \in Queued \/ s \notin Range(admitted) => s \notin R
  BY <1>1, Touched
<1>5. pc \in {"order", "form", "gather", "perform"} => Range(group) \cap R = {}
  BY <1>1, Touched
<1>6. Range(group) \subseteq Requests /\ Queued \subseteq Requests /\ OnWorker \subseteq Requests
  BY RangeSeq DEF IInv, TypeOK, QueueType, SchedulerType, Queued, OnWorker
<1>7. Range(admitted)' = Range(admitted) /\ Range(group)' = Range(group) /\ Range(joined)' = Range(joined)
  OBVIOUS
<1>8. /\ \A s \in Queued' : Untouched(s)'
      /\ \A s \in Requests \ Range(admitted)' : Untouched(s)'
      /\ pc' \in {"order", "form", "gather", "perform"} => \A s \in Range(group)' : Untouched(s)'
  BY <1>2, <1>3, <1>4, <1>5, <1>6, <1>7 DEF Stages
<1>9. \A s \in Requests : serve'[s] = "running" => serve[s] = "running"
  OBVIOUS
<1>10. \A s \in Requests : deliver'[s] = "unheard" =>
         deliver[s] = "unheard" /\ serve'[s] = serve[s] /\ frames'[s] = frames[s]
  OBVIOUS
<1>11. \A s \in Requests : deliver'[s] = "held" => deliver[s] = "held"
  OBVIOUS
<1>12. \A s \in Requests : serve'[s] = "idle" => serve[s] = "idle"
  OBVIOUS
<1>13. /\ \A s \in Requests : serve'[s] = "running" => pc' = "serve" /\ s \in OnWorker'
       /\ \A s \in Requests : deliver'[s] = "unheard" =>
            pc' = "serve" /\ s \in Range(joined)' /\ serve'[s] = "running" /\ frames'[s] = <<>>
       /\ \A s \in Requests : deliver'[s] = "held" => pc' = "serve" /\ s \in live'
       /\ live' \subseteq Range(group)' \/ pc' = "retire"
       /\ \A s \in OnWorker' : serve'[s] # "idle"
  BY <1>2, <1>6, <1>7, <1>9, <1>10, <1>11, <1>12 DEF Stages
<1> QED
  BY <1>8, <1>13 DEF Stages

\* What WorkerGone does.
LEMMA WorkerGoneStages ==
  ASSUME IInv, Stages, WorkerGone,
         UNCHANGED <<pending, carry, admitted, pc, group, joined, live>>
  PROVE  Stages' /\ \A r \in Requests : serve'[r] \in {serve[r], "ended"}
<1> DEFINE R == {r \in Requests : serve[r] = "running" \/ deliver[r] \in {"held", "unheard"}}
<1>1. \A r \in Requests \ R : /\ serve'[r] = serve[r] /\ frames'[r] = frames[r]
                              /\ deliver'[r] = deliver[r]
  BY DEF WorkerGone
<1>2. \A r \in R : /\ serve'[r] = serve[r] \/ serve'[r] = "ended"
                   /\ deliver'[r] \in {deliver[r], "consuming"} \ {"unheard"}
  BY DEF WorkerGone
<1>3. Stages'
  BY <1>1, <1>2, StagesWorker
<1> QED
  BY <1>3 DEF WorkerGone

\* Requests change their places without being touched.
LEMMA StagesMove ==
  ASSUME IInv, Stages, UNCHANGED <<live, joined, serve, frames, deliver>>,
         pc \notin {"serve", "retire"} , pc' \notin {"serve", "retire"},
         Queued' \subseteq Queued \cup {r \in Range(group) : Untouched(r)},
         Range(admitted)' = Range(admitted),
         pc' \in {"order", "form", "gather", "perform"} =>
           Range(group)' \subseteq Queued \cup {r \in Range(group) : Untouched(r)},
         live = {}
  PROVE  Stages'
<1>1. OnWorker' = OnWorker /\ \A r : Untouched(r)' <=> Untouched(r)
  BY DEF OnWorker, Untouched
<1> QED
  BY <1>1 DEF Stages


\* Nobody is on the worker before the group is dispatched.
LEMMA NobodyRuns ==
  ASSUME IInv, Stages, pc \in {"top", "exit", "order", "form", "gather", "perform"}
  PROVE  live = {} /\ OnWorker = {} /\ \A r \in Requests : serve[r] # "running"
<1>1. Range(joined) = {} /\ (pc \in {"top", "exit"} => Range(group) = {})
  BY RangeSeq DEF IInv, TypeOK, SchedulerType, GroupHeld
<1>2. live = {}
  BY <1>1 DEF Stages, OnWorker, Untouched
<1> QED
  BY <1>1, <1>2 DEF Stages, OnWorker

\* A new request waits, untouched.
LEMMA AdmitStages ==
  ASSUME IInv, Stages, NEW r \in Requests, Admit(r), Places
  PROVE  Stages'
<1>1. pending \in Seq(Requests) /\ admitted \in Seq(Requests)
  BY DEF IInv, TypeOK, QueueType
<1>2. Range(pending)' = Range(pending) \cup {r} /\ Range(admitted)' = Range(admitted) \cup {r}
  BY <1>1, AppendLine DEF Admit
<1>3. r \notin Range(admitted)
  BY DEF Admit, Places, Registered
<1>4. UNCHANGED <<carry, pc, group, joined, live, serve, frames, deliver>>
  BY DEF Admit, schedVars, workerVars, deliveryVars
<1>5. Queued' = Queued \cup {r} /\ OnWorker' = OnWorker /\ \A s : Untouched(s)' <=> Untouched(s)
  BY <1>2, <1>4 DEF Queued, OnWorker, Untouched
<1> QED
  BY <1>2, <1>3, <1>4, <1>5 DEF Stages

\* Forming a group moves requests that nobody has touched.
LEMMA FormingStages ==
  ASSUME IInv, Places, Stages,
         NextSession \/ NextSorted \/ OrderWaiting \/ TakeCompany \/ StartGather \/ CloseGroup
  PROVE  Stages'
<1>1. /\ UNCHANGED <<live, joined, serve, frames, deliver, admitted>>
      /\ pc \in {"top", "order", "form", "gather"} /\ pc' \notin {"top", "exit", "serve", "retire"}
  BY DEF NextSession, NextSorted, OrderWaiting, TakeCompany, StartGather, CloseGroup, queueVars,
         workerVars, deliveryVars
<1>2. live = {}
  BY <1>1, NobodyRuns
<1>3. pending \in Seq(Requests) /\ carry \in Seq(Requests) /\ group \in Seq(Requests)
  BY DEF IInv, TypeOK, QueueType, SchedulerType
<1>4. pc \in {"order", "form", "gather"} => \A r \in Range(group) : Untouched(r)
  BY DEF Stages
<1>5. ASSUME Queued' \subseteq Queued \cup {r \in Range(group) : Untouched(r)},
             Range(group)' \subseteq Queued \cup {r \in Range(group) : Untouched(r)}
      PROVE  Stages'
  BY <1>1, <1>2, <1>5, StagesMove
<1>6. CASE NextSession
  <2>1. PICK r \in Requests : Take(r) /\ group' = <<r>>
    BY <1>6 DEF NextSession
  <2>2. r \in Queued /\ Queued' = Queued \ {r} /\ Range(group)' = {r}
    BY <2>1, TakeLine, OneLine DEF IInv, TypeOK, Places
  <2> QED
    BY <1>5, <2>2
<1>7. CASE NextSorted
  <2>1. PICK sjf \in Decisions :
          \E s \in Sorted(carry \o pending, sjf) : group' = <<Head(s)>> /\ carry' = Tail(s)
    BY <1>7 DEF NextSorted
  <2>2. PICK s \in Sorted(carry \o pending, sjf) : group' = <<Head(s)>> /\ carry' = Tail(s)
    BY <2>1
  <2>3. s \in Seq(Requests) /\ Range(s) = Queued /\ Len(s) = Len(carry \o pending)
    BY <2>2, QueueSorted DEF IInv, TypeOK
  <2>4. s # <<>>
    BY <1>3, <1>7, <2>3, RangeSeq, ConcatLine DEF NextSorted
  <2>5. Range(s) = {Head(s)} \cup Range(Tail(s))
    BY <2>3, <2>4, TailLine
  <2>6. Range(group)' = {Head(s)}
    BY <2>2, OneLine
  <2>7. Range(pending)' = {}
    BY <1>7 DEF NextSorted, Range
  <2>8. Range(carry)' = Range(Tail(s))
    BY <2>2
  <2> QED
    BY <1>5, <2>3, <2>5, <2>6, <2>7, <2>8 DEF Queued
<1>8. CASE OrderWaiting
  <2>1. PICK sjf \in Decisions : \E s \in Sorted(carry \o pending, sjf) : carry' = s
    BY <1>8 DEF OrderWaiting
  <2>2. Range(carry)' = Queued
    BY <2>1, QueueSorted DEF IInv, TypeOK
  <2>3. Range(pending)' = {} /\ group' = group /\ pc = "order"
    BY <1>8 DEF OrderWaiting, Range
  <2>4. Queued' = Queued /\ Range(group)' = Range(group)
    BY <2>2, <2>3 DEF Queued
  <2> QED
    BY <1>4, <1>5, <2>3, <2>4
<1>9. CASE TakeCompany
  <2>1. PICK r \in Requests : Take(r) /\ group' = Append(group, r)
    BY <1>9 DEF TakeCompany
  <2>2. r \in Queued /\ Queued' = Queued \ {r} /\ Range(group)' = Range(group) \cup {r}
    BY <1>3, <2>1, TakeLine, AppendLine DEF IInv, TypeOK, Places
  <2> QED
    BY <1>4, <1>5, <1>9, <2>2 DEF TakeCompany
<1>10. CASE StartGather
  BY <1>4, <1>5, <1>10 DEF StartGather, queueVars, Queued
<1>11. CASE CloseGroup
  <2>1. group # <<>> /\ pending' = pending
    BY <1>11 DEF CloseGroup, IInv, GroupHeld
  <2>2. Range(group) = {Head(group)} \cup Range(Tail(group)) /\ Tail(group) \in Seq(Requests)
    BY <1>3, <2>1, TailLine
  <2>3. CASE group' = group /\ carry' = carry
    BY <1>4, <1>5, <1>11, <2>1, <2>3 DEF CloseGroup, Queued
  <2>4. CASE group' = <<Head(group)>> /\ carry' = Tail(group) \o carry
    <3>1. Range(group)' = {Head(group)}
      BY <2>4, OneLine
    <3>2. Range(carry)' = Range(Tail(group)) \cup Range(carry)
      BY <1>3, <2>2, <2>4, ConcatLine
    <3>3. pc \in {"form", "gather"}
      BY <1>11 DEF CloseGroup
    <3> QED
      BY <1>4, <1>5, <2>1, <2>2, <3>1, <3>2, <3>3 DEF Queued
  <2> QED
    BY <1>11, <2>3, <2>4 DEF CloseGroup
<1> QED
  BY <1>6, <1>7, <1>8, <1>9, <1>10, <1>11

\* Dispatch touches members of the group only.
LEMMA PerformStages ==
  ASSUME IInv, Places, Stages, Perform
  PROVE  Stages'
<1> DEFINE gone == {r \in Range(group) : cancelled[r]}
           failed == {r \in Range(group) \ gone : expired[r] \/ worker # "ready"}
           rest == Range(group) \ (gone \cup failed)
<1>1. /\ live' = rest /\ pc' = (IF rest = {} THEN "retire" ELSE "serve")
      /\ \A r \in Requests : serve'[r] = IF r \in rest THEN "running" ELSE serve[r]
      /\ UNCHANGED <<carry, pending, group, joined, admitted, frames>> /\ pc = "perform"
  BY DEF Perform, queueVars
<1>2. \A r \in Requests :
        /\ r \in rest => deliver'[r] = (IF mode' = "buffered" THEN "held" ELSE "consuming")
        /\ r \in gone \cup failed => deliver'[r] = "handled"
        /\ r \notin Range(group) => deliver'[r] = deliver[r]
  BY DEF Perform
<1>3. rest \subseteq Range(group) /\ Range(group) = rest \cup gone \cup failed
  OBVIOUS
<1> HIDE DEF gone, failed, rest
<1>4. OnWorker = {} /\ Range(joined) = {} /\ \A r \in Requests : serve[r] # "running"
  BY <1>1, NobodyRuns DEF OnWorker
<1>5. Range(joined)' = {} /\ Queued' = Queued /\ Range(group)' = Range(group)
      /\ Range(admitted)' = Range(admitted) /\ OnWorker' = rest
  BY <1>1, <1>4 DEF Queued, OnWorker
<1>6. Range(group) \subseteq Requests /\ Queued \subseteq Requests
  BY RangeSeq DEF IInv, TypeOK, QueueType, SchedulerType, Queued
<1>7. \A r \in Requests \ Range(group) : Untouched(r)' <=> Untouched(r)
  BY <1>1, <1>2, <1>3 DEF Untouched
<1>8. Queued \cap Range(group) = {} /\ Range(group) \subseteq Range(admitted)
  BY DEF Places, Apart, Registered, Held
<1>9. /\ \A r \in Queued' : Untouched(r)'
      /\ \A r \in Requests \ Range(admitted)' : Untouched(r)'
  BY <1>5, <1>6, <1>7, <1>8 DEF Stages
<1>10. rest # {} => pc' = "serve"
  BY <1>1
<1>11. \A r \in Requests : deliver[r] \notin {"unheard", "held"}
  BY <1>1 DEF Stages
<1>12. \A r \in Requests : deliver'[r] # "unheard" /\ (deliver'[r] = "held" => r \in rest)
  BY <1>2, <1>3, <1>11
<1>13. \A r \in Requests : serve'[r] = "running" => r \in rest
  BY <1>1, <1>4
<1>14. \A r \in rest : serve'[r] = "running"
  BY <1>1, <1>3, <1>6
<1>15. pc' \notin {"order", "form", "gather", "perform"}
  BY <1>1
<1> QED
  BY <1>1, <1>3, <1>5, <1>9, <1>10, <1>12, <1>13, <1>14, <1>15 DEF Stages

\* A joiner becomes one of those the worker may touch.
LEMMA JoinStages ==
  ASSUME IInv, Places, Stages, Join
  PROVE  Stages'
<1>1. PICK r \in Requests :
        /\ Take(r) /\ joined' = Append(joined, r)
        /\ serve' = [serve EXCEPT ![r] = "running"]
        /\ deliver' = [deliver EXCEPT ![r] = "unheard"]
  BY DEF Join
<1>2. r \in Queued /\ Queued' = Queued \ {r}
  BY <1>1, TakeLine DEF IInv, TypeOK, Places
<1>3. Range(joined)' = Range(joined) \cup {r}
  BY <1>1, AppendLine DEF IInv, TypeOK, SchedulerType
<1>4. UNCHANGED <<pc, group, live, admitted, frames>> /\ pc = "serve"
  BY DEF Join, MayJoin
<1>5. OnWorker' = OnWorker \cup {r} /\ r \in Range(admitted)
  BY <1>2, <1>3, <1>4 DEF OnWorker, Places, Registered
<1>6. \A s \in Requests \ {r} : /\ serve'[s] = serve[s] /\ deliver'[s] = deliver[s]
                                /\ Untouched(s)' <=> Untouched(s)
  BY <1>1, <1>4 DEF Untouched
<1>7. serve'[r] = "running" /\ deliver'[r] = "unheard" /\ frames'[r] = <<>>
  BY <1>1, <1>2, <1>4 DEF Stages, Untouched, IInv, TypeOK, WorkerType, DeliveryType
<1>8. Queued \subseteq Requests /\ OnWorker \subseteq Requests
  BY RangeSeq DEF IInv, TypeOK, QueueType, SchedulerType, Queued, OnWorker
<1>9. /\ \A s \in Queued' : Untouched(s)'
      /\ \A s \in Requests \ Range(admitted)' : Untouched(s)'
  BY <1>2, <1>4, <1>5, <1>6, <1>8 DEF Stages
<1> QED
  BY <1>3, <1>4, <1>5, <1>6, <1>7, <1>8, <1>9 DEF Stages

\* The joiners handed back are untouched, so they may wait again.
LEMMA GroupDoneStages ==
  ASSUME IInv, Places, Stages, GroupDone
  PROVE  Stages'
<1>1. joined \in Seq(Requests) /\ carry \in Seq(Requests)
  BY DEF IInv, TypeOK, QueueType, SchedulerType
<1>2. PICK k \in 0..Len(joined) :
        LET kept == SubSeq(joined, 1, k)
            back == SubSeq(joined, k + 1, Len(joined))
        IN /\ \A r \in Range(kept) : serve[r] = "ended"
           /\ \A r \in Range(back) : deliver[r] = "unheard"
           /\ joined' = kept
           /\ carry' = back \o carry
           /\ serve' = [r \in Requests |-> IF r \in Range(back) THEN "idle" ELSE serve[r]]
           /\ deliver' = [r \in Requests |->
                            IF r \in Range(back) THEN "none"
                            ELSE IF deliver[r] = "held" THEN "consuming"
                            ELSE deliver[r]]
  BY DEF GroupDone
<1> DEFINE kept == SubSeq(joined, 1, k)
           back == SubSeq(joined, k + 1, Len(joined))
<1>3. /\ back \in Seq(Requests) /\ Range(joined) = Range(kept) \cup Range(back)
      /\ Range(kept) \cap Range(back) = {}
  BY <1>1, <1>2, CutLine DEF Places, Apart
<1>4. /\ \A r \in Range(kept) : serve[r] = "ended"
      /\ \A r \in Range(back) : deliver[r] = "unheard"
      /\ joined' = kept /\ carry' = back \o carry
      /\ \A r \in Requests : /\ serve'[r] = IF r \in Range(back) THEN "idle" ELSE serve[r]
                             /\ deliver'[r] = IF r \in Range(back) THEN "none"
                                              ELSE IF deliver[r] = "held" THEN "consuming"
                                              ELSE deliver[r]
  BY <1>2
<1> HIDE DEF kept, back
<1>5. Range(carry)' = Range(back) \cup Range(carry)
  BY <1>1, <1>3, <1>4, ConcatLine
<1>6. /\ UNCHANGED <<pending, group, live, admitted, frames>> /\ pc = "serve" /\ pc' = "drain"
      /\ \A r \in live : serve[r] = "ended"
  BY DEF GroupDone
<1>7. /\ Queued' = Queued \cup Range(back) /\ OnWorker' = live \cup Range(kept)
      /\ Range(admitted)' = Range(admitted) /\ Range(group)' = Range(group)
  BY <1>4, <1>5, <1>6 DEF Queued, OnWorker
<1>8. Range(back) \subseteq Requests /\ Queued \subseteq Requests /\ OnWorker \subseteq Requests
      /\ OnWorker = live \cup Range(kept) \cup Range(back)
  BY <1>3, RangeSeq DEF IInv, TypeOK, QueueType, SchedulerType, Queued, OnWorker
<1>9. \A r \in Range(back) : Untouched(r)'
  BY <1>4, <1>6, <1>8 DEF Stages, Untouched
<1>10. \A r \in Requests : Untouched(r) => Untouched(r)'
  BY <1>4, <1>6, <1>9 DEF Untouched
<1>11. live \cap Range(back) = {}
  BY <1>4, <1>6, <1>8 DEF Stages
<1>12. \A r \in live \cup Range(kept) : serve'[r] = "ended"
  BY <1>3, <1>4, <1>6, <1>8, <1>11
<1>13. \A r \in Requests : serve'[r] # "running"
  <2> SUFFICES ASSUME NEW r \in Requests, serve'[r] = "running" PROVE FALSE
    OBVIOUS
  <2>1. serve[r] = "running" /\ r \notin Range(back)
    BY <1>4
  <2>2. r \in live \cup Range(kept)
    BY <2>1, <1>8 DEF Stages
  <2> QED
    BY <1>12, <2>2
<1>14. \A r \in Requests : deliver'[r] # "unheard" /\ deliver'[r] # "held"
  <2> SUFFICES ASSUME NEW r \in Requests, deliver'[r] = "unheard" PROVE FALSE
    BY <1>4
  <2>1. deliver[r] = "unheard" /\ r \notin Range(back)
    BY <1>4
  <2>2. r \in Range(kept) /\ serve[r] = "running"
    BY <1>3, <2>1 DEF Stages
  <2> QED
    BY <1>4, <2>2
<1>15. live \subseteq Range(group)
  BY <1>6 DEF Stages
<1> QED
  BY <1>6, <1>7, <1>8, <1>9, <1>10, <1>12, <1>13, <1>14, <1>15 DEF Stages

\* A member is retired once its consumer is done with it.
LEMMA RetireStages ==
  ASSUME IInv, Places, Stages, Retire
  PROVE  Stages'
<1>1. joined \in Seq(Requests) /\ group \in Seq(Requests)
  BY DEF IInv, TypeOK, SchedulerType
<1>2. /\ UNCHANGED <<pending, carry, admitted, serve, frames, deliver>> /\ pc = "retire"
      /\ pc' \in {"top", "retire"} /\ live' \in {live, {}} /\ (pc' = "top" => live' = {})
  BY DEF Retire, workerVars
<1>3. Range(joined)' \subseteq Range(joined)
  <2>1. CASE joined # <<>>
    <3>1. joined' = Tail(joined)
      BY <2>1 DEF Retire
    <3>2. Range(joined) = {Head(joined)} \cup Range(Tail(joined))
      BY <1>1, <2>1, TailLine
    <3> QED
      BY <3>1, <3>2
  <2>2. CASE joined = <<>>
    BY <2>2 DEF Retire
  <2> QED
    BY <2>1, <2>2
<1>4. Queued' = Queued /\ OnWorker' \subseteq OnWorker /\ \A r : Untouched(r)' <=> Untouched(r)
  BY <1>2, <1>3 DEF Queued, OnWorker, Untouched
<1>5. \A r \in Requests : serve[r] # "running" /\ deliver[r] # "unheard" /\ deliver[r] # "held"
  BY <1>2 DEF Stages
<1> QED
  BY <1>2, <1>4, <1>5 DEF Stages


\* A request that may not join goes from the queue to the carry.
LEMMA JoinDeclinedStages ==
  ASSUME IInv, Stages, JoinDeclined
  PROVE  Stages'
<1>1. Range(pending) = {Head(pending)} \cup Range(Tail(pending))
  BY TailLine DEF JoinDeclined, IInv, TypeOK, QueueType
<1>2. Range(carry)' = {Head(pending)} /\ Range(pending)' = Range(Tail(pending))
  BY OneLine DEF JoinDeclined
<1>3. UNCHANGED <<admitted, pc, group, joined, live, serve, frames, deliver>>
  BY DEF JoinDeclined, schedVars, workerVars, deliveryVars
<1>4. Queued' \subseteq Queued /\ OnWorker' = OnWorker /\ \A r : Untouched(r)' <=> Untouched(r)
  BY <1>1, <1>2, <1>3 DEF Queued, OnWorker, Untouched
<1> QED
  BY <1>3, <1>4 DEF Stages

\* The group is answered for, or the loop is left.
LEMMA GroupDrainedStages ==
  ASSUME IInv, Stages, GroupDrained \/ Exit
  PROVE  Stages'
<1>1. /\ UNCHANGED <<pending, carry, admitted, group, joined, live, serve, frames, deliver>>
      /\ pc \in {"drain", "top"} /\ pc' \in {"retire", "exit"}
  BY DEF GroupDrained, Exit, queueVars, workerVars, deliveryVars
<1>2. Queued' = Queued /\ OnWorker' = OnWorker /\ \A r : Untouched(r)' <=> Untouched(r)
  BY <1>1 DEF Queued, OnWorker, Untouched
<1> QED
  BY <1>1, <1>2 DEF Stages

\* What still waits is dropped.
LEMMA CloseDropStages ==
  ASSUME IInv, Stages, CloseDrop
  PROVE  Stages'
<1>1. UNCHANGED <<admitted, pc, group, joined, live, serve, frames, deliver>>
  BY DEF CloseDrop, schedVars, workerVars, deliveryVars
<1>2. Range(carry)' = {} /\ Range(pending)' = {}
  BY DEF CloseDrop, Range
<1>3. Queued' = {} /\ OnWorker' = OnWorker /\ \A r : Untouched(r)' <=> Untouched(r)
  BY <1>1, <1>2 DEF Queued, OnWorker, Untouched
<1> QED
  BY <1>1, <1>3 DEF Stages

\* The worker sends one request's frame.
LEMMA FrameStages ==
  ASSUME IInv, Stages, NEW r \in Requests, WorkerToken(r) \/ WorkerEnd(r)
  PROVE  Stages'
<1>1. /\ UNCHANGED <<pending, carry, admitted, pc, group, joined, live>>
      /\ serve[r] = "running" /\ deliver' = Heard(r)
  BY DEF WorkerToken, WorkerEnd, queueVars, schedVars
<1>2. /\ serve \in [Requests -> {"idle", "running", "ended"}]
      /\ deliver \in [Requests -> DeliverStates]
      /\ frames \in [Requests -> Seq(FrameKinds)]
  BY DEF IInv, TypeOK, WorkerType, DeliveryType
<1>3. \A s \in Requests \ {r} : serve'[s] = serve[s] /\ frames'[s] = frames[s]
  BY <1>2 DEF WorkerToken, WorkerEnd
<1>4. serve'[r] = serve[r] \/ serve'[r] = "ended"
  BY <1>2 DEF WorkerToken, WorkerEnd
<1>5. /\ \A s \in Requests \ {r} : deliver'[s] = deliver[s]
      /\ deliver'[r] \in {deliver[r], "consuming"} \ {"unheard"}
  BY <1>1, <1>2 DEF Heard
<1>6. {r} \in SUBSET Requests /\ \A s \in {r} : serve[s] = "running"
  BY <1>1
<1>7. /\ \A s \in Requests \ {r} : /\ serve'[s] = serve[s] /\ frames'[s] = frames[s]
                                  /\ deliver'[s] = deliver[s]
      /\ \A s \in {r} : /\ serve'[s] = serve[s] \/ serve'[s] = "ended"
                        /\ deliver'[s] \in {deliver[s], "consuming"} \ {"unheard"}
  BY <1>3, <1>4, <1>5
<1> QED
  BY <1>1, <1>6, <1>7, StagesWorker

\* A consumer takes a frame or ends.
LEMMA DeliveryStages ==
  ASSUME IInv, Stages, NEW r \in Requests, Delivery(r)
  PROVE  Stages'
<1>1. /\ UNCHANGED <<pending, carry, admitted, pc, group, joined, live, serve>>
      /\ deliver[r] \in {"consuming", "draining"} \cup Answered
  BY DEF Delivery, ConsumeToken, ConsumeDone, ConsumeFailure, Record, Drain, Consuming, queueVars,
         schedVars, workerVars
<1>2. /\ deliver \in [Requests -> DeliverStates]
      /\ frames \in [Requests -> Seq(FrameKinds)]
  BY DEF IInv, TypeOK, DeliveryType
<1>3. \A s \in Requests \ {r} : frames'[s] = frames[s]
  BY <1>2 DEF Delivery, ConsumeToken, ConsumeDone, ConsumeFailure, Record, Drain
<1>4. \/ deliver' = deliver
      \/ \E d \in {"draining", "handled"} \cup Answered : deliver' = [deliver EXCEPT ![r] = d]
  BY DEF Delivery, ConsumeToken, ConsumeDone, ConsumeFailure, Record, Drain, BeginDrain,
         FinishCancelled, FinishFailed, FinishOk
<1>5. /\ \A s \in Requests \ {r} : deliver'[s] = deliver[s]
      /\ deliver'[r] \in {"consuming", "draining", "handled"} \cup Answered
  BY <1>1, <1>2, <1>4
<1> QED
  BY <1>1, <1>3, <1>5, StagesDelivery

\* Every step keeps the requests at their stages.
LEMMA NextStages ==
  ASSUME IInv, Places, Stages, [Next]_vars
  PROVE  Stages'
<1> USE DEF queueVars, callerVars, schedVars, workerVars, deliveryVars, closeVars
<1>1. ASSUME NEW r \in Requests, CallerStep(r) PROVE Stages'
  <2>1. CASE Admit(r)
    BY <2>1, AdmitStages
  <2>2. CASE Refuse(r) \/ Cancel(r) \/ Expire(r) \/ CallerRead(r) \/ CallerStops(r) \/ CallerLeaves(r)
    BY <2>2, StagesFrame DEF Refuse, Cancel, Expire, CallerRead, CallerStops, CallerLeaves
  <2> QED
    BY <1>1, <2>1, <2>2 DEF CallerStep
<1>2. CASE Age \/ Recover
  BY <1>2, StagesFrame DEF Age, Recover
<1>3. CASE WorkerCrash \/ CloseBackend
  BY <1>3, WorkerGoneStages DEF WorkerCrash, CloseBackend
<1>4. CASE CloseBegin \/ CloseCancel
  BY <1>4, StagesFrame DEF CloseBegin, CloseCancel
<1>5. CASE Idle \/ UNCHANGED vars
  BY <1>5, StagesFrame DEF Idle, vars
<1> QED
  BY <1>1, <1>2, <1>3, <1>4, <1>5, FrameStages, DeliveryStages, FormingStages, PerformStages,
     JoinStages, JoinDeclinedStages, GroupDoneStages, GroupDrainedStages, RetireStages,
     CloseDropStages
  DEF Next, SchedulerStep, CloseStep

\* Nobody has been touched at the start.
LEMMA InitStages == Init => Stages
<1> SUFFICES ASSUME Init PROVE Stages
  OBVIOUS
<1>1. Range(<<>>) = {}
  BY DEF Range
<1> QED
  BY <1>1 DEF Init, Stages, Queued, OnWorker, Untouched

-----------------------------------------------------------------------------
(* The running group fits the capacity: SlotsKept *)

\* Group and joiners fit the capacity.
Slots ==
  /\ Len(group) <= Capacity
  /\ pc = "serve" => OccupiedSlots <= Capacity

\* Some elements of a sequence are no more than its length.
LEMMA RangeCount ==
  ASSUME NEW S, NEW q \in Seq(S), NEW T \in SUBSET Range(q)
  PROVE  IsFiniteSet(T) /\ Cardinality(T) \in Nat /\ Cardinality(T) <= Len(q)
<1>1. q \in Surjection(1..Len(q), Range(q)) /\ Len(q) \in Nat
  BY DEF Surjection, Range
<1>2. IsFiniteSet(1..Len(q)) /\ Cardinality(1..Len(q)) = Len(q)
  <2>1. Cardinality(1..Len(q)) = IF 1 > Len(q) THEN 0 ELSE Len(q) - 1 + 1
    BY <1>1, FS_Interval
  <2>2. IsFiniteSet(1..Len(q))
    BY <1>1, FS_Interval
  <2> QED
    BY <1>1, <2>1, <2>2
<1>3. IsFiniteSet(Range(q)) /\ Cardinality(Range(q)) <= Len(q) /\ Cardinality(Range(q)) \in Nat
  BY <1>1, <1>2, FS_Surjection, FS_CardinalityType
<1>4. IsFiniteSet(T) /\ Cardinality(T) <= Cardinality(Range(q)) /\ Cardinality(T) \in Nat
  BY <1>3, FS_Subset, FS_CardinalityType
<1> QED
  BY <1>1, <1>3, <1>4

\* A sequence that repeats nothing is as long as it has elements.
LEMMA InjectiveCount ==
  ASSUME NEW S, NEW q \in Seq(S), IsInjective(q)
  PROVE  Len(q) = Cardinality(Range(q)) /\ Len(q) \in Nat
<1>1. q \in Surjection(1..Len(q), Range(q)) /\ q \in Injection(1..Len(q), Range(q)) /\ Len(q) \in Nat
  BY DEF Surjection, Injection, IsInjective, Range
<1>2. Cardinality(1..Len(q)) = IF 1 > Len(q) THEN 0 ELSE Len(q) - 1 + 1
  BY <1>1, FS_Interval
<1>3. IsFiniteSet(1..Len(q))
  BY <1>1, FS_Interval
<1>4. Cardinality(Range(q)) = Cardinality(1..Len(q))
  BY <1>1, <1>3, FS_Surjection
<1> QED
  BY <1>1, <1>2, <1>4

\* The requests on the worker are finitely many, counted by the group and its joiners.
LEMMA OnWorkerCount ==
  ASSUME IInv, Stages, pc = "serve", NEW T \in SUBSET OnWorker
  PROVE  /\ IsFiniteSet(T) /\ Cardinality(T) \in Nat
         /\ Cardinality(T) <= Cardinality(live) + Len(joined)
         /\ IsFiniteSet(live) /\ Cardinality(live) \in Nat /\ Len(joined) \in Nat
         /\ Cardinality(live) <= Len(group)
<1>1. group \in Seq(Requests) /\ joined \in Seq(Requests) /\ Len(joined) \in Nat
  BY DEF IInv, TypeOK, SchedulerType
<1>2. live \in SUBSET Range(group)
  BY DEF Stages
<1>3. IsFiniteSet(live) /\ Cardinality(live) \in Nat /\ Cardinality(live) <= Len(group)
  BY <1>1, <1>2, RangeCount
<1>4. /\ IsFiniteSet(Range(joined)) /\ Cardinality(Range(joined)) \in Nat
      /\ Cardinality(Range(joined)) <= Len(joined)
  BY <1>1, RangeCount
<1>5. /\ IsFiniteSet(live \cup Range(joined))
      /\ Cardinality(live \cup Range(joined))
           = Cardinality(live) + Cardinality(Range(joined)) - Cardinality(live \cap Range(joined))
      /\ IsFiniteSet(live \cap Range(joined)) /\ Cardinality(live \cap Range(joined)) \in Nat
  BY <1>3, <1>4, FS_Union, FS_Intersection, FS_CardinalityType
<1>6. /\ IsFiniteSet(OnWorker) /\ Cardinality(OnWorker) \in Nat
      /\ Cardinality(OnWorker) <= Cardinality(live) + Len(joined)
  BY <1>1, <1>3, <1>4, <1>5, FS_CardinalityType DEF OnWorker
<1>7. IsFiniteSet(T) /\ Cardinality(T) <= Cardinality(OnWorker) /\ Cardinality(T) \in Nat
  BY <1>6, FS_Subset, FS_CardinalityType
<1> QED
  BY <1>1, <1>3, <1>6, <1>7

\* What is running is within the capacity, and nothing that waits has been touched.
LEMMA SlotsBound ==
  ASSUME IInv, Stages, Slots
  PROVE  SlotsRespected
<1> DEFINE running == {r \in Requests : serve[r] = "running"}
<1>3. Cardinality(running) <= Capacity
  <2>1. CASE pc # "serve"
    <3>1. running = {}
      BY <2>1 DEF Stages
    <3>2. Cardinality(running) = 0 /\ Capacity >= 0
      BY <3>1, FS_EmptySet, BoundsAssumption
    <3> QED
      BY <3>2, BoundsAssumption
  <2>2. CASE pc = "serve"
    <3>1. running \subseteq {r \in OnWorker : serve[r] # "ended"}
      BY DEF Stages
    <3>2. running \in SUBSET OnWorker
      BY <3>1
    <3>3. Cardinality(running) <= Cardinality(live) + Len(joined) /\ Cardinality(running) \in Nat
          /\ Cardinality(live) \in Nat /\ Len(joined) \in Nat
      BY <2>2, <3>2, OnWorkerCount
    <3>4. Cardinality(running) <= Cardinality({r \in OnWorker : serve[r] # "ended"})
          /\ Cardinality({r \in OnWorker : serve[r] # "ended"}) \in Nat
      BY <2>2, <3>1, OnWorkerCount, FS_Subset
    <3>5. CASE ReusesSlots
      <4>1. Cardinality({r \in OnWorker : serve[r] # "ended"}) <= Capacity
        BY <2>2, <3>5 DEF Slots, OccupiedSlots
      <4> QED
        BY <3>3, <3>4, <4>1, BoundsAssumption
    <3>6. CASE ~ReusesSlots
      <4>1. Cardinality(live) + Len(joined) <= Capacity
        BY <2>2, <3>6 DEF Slots, OccupiedSlots
      <4> QED
        BY <3>3, <4>1, BoundsAssumption
    <3> QED
      BY <3>5, <3>6
  <2> QED
    BY <2>1, <2>2
<1>4. Range(carry \o pending) = Queued
  BY ConcatLine DEF Queued, IInv, TypeOK, QueueType
<1> QED
  BY <1>3, <1>4 DEF SlotsRespected, Stages, Untouched

\* Steps that start nobody.
LEMMA SlotsFrame ==
  ASSUME IInv, Stages, Slots, Len(group)' <= Capacity,
         pc' = "serve" =>
           /\ pc = "serve" /\ UNCHANGED <<live, joined>>
           /\ \A r \in Requests : serve'[r] # "ended" => serve[r] # "ended"
  PROVE  Slots'
<1> SUFFICES ASSUME pc' = "serve" PROVE OccupiedSlots' <= Capacity
  BY DEF Slots
<1>1. pc = "serve" /\ live' = live /\ joined' = joined /\ OnWorker' = OnWorker
  BY DEF OnWorker
<1>2. CASE ReusesSlots
  <2> DEFINE A == {r \in OnWorker : serve[r] # "ended"}
             B == {r \in OnWorker : serve'[r] # "ended"}
  <2>1. OnWorker \subseteq Requests
    BY RangeSeq DEF IInv, TypeOK, SchedulerType, OnWorker
  <2>2. B \subseteq A
    BY <2>1
  <2>3. IsFiniteSet(A) /\ Cardinality(A) \in Nat /\ Cardinality(B) \in Nat
    BY <1>1, <2>2, OnWorkerCount
  <2>4. Cardinality(B) <= Cardinality(A)
    BY <2>2, <2>3, FS_Subset
  <2>5. OccupiedSlots' = Cardinality(B) /\ OccupiedSlots = Cardinality(A)
    BY <1>1, <1>2 DEF OccupiedSlots
  <2> QED
    BY <1>1, <2>3, <2>4, <2>5, BoundsAssumption DEF Slots
<1>3. CASE ~ReusesSlots
  BY <1>1, <1>3 DEF Slots, OccupiedSlots
<1> QED
  BY <1>2, <1>3

\* The group is dispatched.
LEMMA PerformSlots ==
  ASSUME IInv, Stages, Stages', IInv', Slots, Perform
  PROVE  Slots'
<1>1. group' = group /\ joined' = joined /\ joined = <<>>
  BY DEF Perform, IInv, GroupHeld
<1> SUFFICES ASSUME pc' = "serve" PROVE OccupiedSlots' <= Capacity
  BY <1>1 DEF Slots
<1> DEFINE A == {r \in OnWorker' : serve'[r] # "ended"}
<1>2. live' \in SUBSET Range(group)
  BY <1>1 DEF Stages
<1>3. A \subseteq live' /\ Len(joined') = 0
  BY <1>1 DEF OnWorker, Range
<1>4. A \in SUBSET Range(group) /\ group \in Seq(Requests) /\ Len(group) \in Nat
  BY <1>2, <1>3 DEF IInv, TypeOK, SchedulerType
<1>5. /\ Cardinality(A) \in Nat /\ Cardinality(A) <= Len(group)
      /\ Cardinality(live') \in Nat /\ Cardinality(live') <= Len(group)
  BY <1>2, <1>4, RangeCount
<1>6. OccupiedSlots' = IF ReusesSlots THEN Cardinality(A) ELSE Cardinality(live') + Len(joined')
  BY DEF OccupiedSlots
<1> QED
  BY <1>3, <1>4, <1>5, <1>6, BoundsAssumption DEF Slots

\* A request joins while a slot is free.
LEMMA JoinSlots ==
  ASSUME IInv, Stages, Slots, Join
  PROVE  Slots'
<1>1. PICK r \in Requests :
        joined' = Append(joined, r) /\ serve' = [serve EXCEPT ![r] = "running"]
  BY DEF Join
<1>2. /\ group' = group /\ live' = live /\ pc = "serve" /\ OccupiedSlots < Capacity
  BY DEF Join, MayJoin
<1>3. joined \in Seq(Requests) /\ serve \in [Requests -> {"idle", "running", "ended"}]
  BY DEF IInv, TypeOK, SchedulerType, WorkerType
<1>4. Range(joined)' = Range(joined) \cup {r} /\ Len(joined') = Len(joined) + 1
  BY <1>1, <1>3, AppendLine
<1>5. CASE ReusesSlots
  <2> DEFINE A == {s \in OnWorker : serve[s] # "ended"}
             B == {s \in OnWorker' : serve'[s] # "ended"}
  <2>1. OnWorker' = OnWorker \cup {r} /\ OnWorker \subseteq Requests
    BY <1>2, <1>3, <1>4, RangeSeq DEF OnWorker, IInv, TypeOK, SchedulerType
  <2>2. B \subseteq A \cup {r}
    BY <1>1, <1>3, <2>1
  <2>3. IsFiniteSet(A) /\ Cardinality(A) \in Nat
    BY <1>2, OnWorkerCount
  <2> HIDE DEF A, B
  <2>4. IsFiniteSet(A \cup {r}) /\ Cardinality(A \cup {r}) <= Cardinality(A) + 1
        /\ Cardinality(A \cup {r}) \in Nat
    <3>1. /\ IsFiniteSet(A \cup {r})
          /\ Cardinality(A \cup {r}) = IF r \in A THEN Cardinality(A) ELSE Cardinality(A) + 1
      BY <2>3, FS_AddElement
    <3> QED
      BY <2>3, <3>1
  <2>5. IsFiniteSet(B) /\ Cardinality(B) <= Cardinality(A \cup {r}) /\ Cardinality(B) \in Nat
    BY <2>2, <2>4, FS_Subset, FS_CardinalityType
  <2>6. OccupiedSlots' = Cardinality(B) /\ OccupiedSlots = Cardinality(A)
    BY <1>5 DEF OccupiedSlots, A, B
  <2>7. Cardinality(B) <= Capacity
    BY <1>2, <2>3, <2>4, <2>5, <2>6, BoundsAssumption
  <2> QED
    BY <1>2, <2>6, <2>7 DEF Slots
<1>6. CASE ~ReusesSlots
  <2>1. Cardinality(live) \in Nat /\ Len(joined) \in Nat
    BY <1>2, OnWorkerCount
  <2>2. OccupiedSlots' = Cardinality(live) + (Len(joined) + 1)
        /\ OccupiedSlots = Cardinality(live) + Len(joined)
    BY <1>2, <1>4, <1>6 DEF OccupiedSlots
  <2> QED
    BY <1>2, <2>1, <2>2, BoundsAssumption DEF Slots
<1> QED
  BY <1>5, <1>6

\* The group keeps within the capacity, and nobody else starts.
LEMMA NextSlots ==
  ASSUME IInv, Places, Stages, Slots, [Next]_vars
  PROVE  Slots'
<1> USE DEF queueVars, callerVars, schedVars, workerVars, deliveryVars, closeVars
<1>0. /\ Len(group) <= Capacity /\ group \in Seq(Requests) /\ width \in 1..Capacity
      /\ Capacity \in Nat \ {0}
      /\ serve \in [Requests -> {"idle", "running", "ended"}]
  BY BoundsAssumption DEF Slots, IInv, TypeOK, SchedulerType, WorkerType
<1>1. ASSUME NEW r \in Requests, CallerStep(r) PROVE Slots'
  BY <1>0, <1>1, SlotsFrame DEF CallerStep, Admit, Refuse, Cancel, Expire, CallerRead, CallerStops,
     CallerLeaves
<1>2. ASSUME NEW r \in Requests, WorkerToken(r) \/ WorkerEnd(r) PROVE Slots'
  <2>1. UNCHANGED <<group, pc, live, joined>>
    BY <1>2 DEF WorkerToken, WorkerEnd
  <2>2. \A s \in Requests : serve'[s] # "ended" => serve[s] # "ended"
    BY <1>0, <1>2 DEF WorkerToken, WorkerEnd
  <2> QED
    BY <1>0, <2>1, <2>2, SlotsFrame
<1>3. ASSUME NEW r \in Requests, Delivery(r) PROVE Slots'
  BY <1>0, <1>3, SlotsFrame DEF Delivery, ConsumeToken, ConsumeDone, ConsumeFailure, Record, Drain
<1>4. CASE NextSession \/ NextSorted
  <2>1. Len(group)' = 1 /\ pc' # "serve"
    BY <1>4 DEF NextSession, NextSorted
  <2> QED
    BY <1>0, <2>1, SlotsFrame
<1>5. CASE TakeCompany
  <2>1. \E r \in Requests : group' = Append(group, r)
    BY <1>5 DEF TakeCompany
  <2>2. Len(group') = Len(group) + 1 /\ Len(group) < width /\ pc' # "serve"
    BY <1>0, <1>5, <2>1 DEF TakeCompany
  <2> QED
    BY <1>0, <2>2, SlotsFrame
<1>6. CASE CloseGroup
  <2>1. group' = <<Head(group)>> \/ group' = group
    BY <1>6 DEF CloseGroup
  <2>2. Len(group)' <= Capacity /\ pc' # "serve"
    BY <1>0, <1>6, <2>1 DEF CloseGroup
  <2> QED
    BY <2>2, SlotsFrame
<1>7. CASE Retire
  <2>1. pc' # "serve" /\ (group' = group \/ (joined = <<>> /\ group' = Tail(group)))
    BY <1>7 DEF Retire
  <2>2. group' = Tail(group) /\ joined = <<>> => group # <<>>
    BY <1>7 DEF Retire, IInv, GroupHeld
  <2>3. Len(group)' <= Capacity
    BY <1>0, <2>1, <2>2, TailLine
  <2> QED
    BY <2>1, <2>3, SlotsFrame
<1>8. CASE OrderWaiting \/ StartGather \/ GroupDone \/ GroupDrained \/ Exit
  BY <1>0, <1>8, SlotsFrame DEF OrderWaiting, StartGather, GroupDone, GroupDrained, Exit
<1>9. CASE Age \/ Recover \/ JoinDeclined \/ CloseBegin \/ CloseCancel \/ CloseDrop
  BY <1>0, <1>9, SlotsFrame DEF Age, Recover, JoinDeclined, CloseBegin, CloseCancel, CloseDrop
<1>10. CASE WorkerCrash \/ CloseBackend
  <2>1. UNCHANGED <<pending, carry, admitted, pc, group, joined, live>> /\ WorkerGone
    BY <1>10 DEF WorkerCrash, CloseBackend
  <2>2. \A r \in Requests : serve'[r] \in {serve[r], "ended"}
    BY <2>1, WorkerGoneStages
  <2> QED
    BY <1>0, <2>1, <2>2, SlotsFrame
<1>11. CASE Idle \/ UNCHANGED vars
  BY <1>0, <1>11, SlotsFrame DEF Idle, vars
<1>12. CASE Perform
  BY <1>12, PerformSlots, NextStages, NextIInv
<1> QED
  BY <1>1, <1>2, <1>3, <1>4, <1>5, <1>6, <1>7, <1>8, <1>9, <1>10, <1>11, <1>12, JoinSlots
  DEF Next, SchedulerStep, CloseStep

\* A group never runs more streams than the capacity the backend qualified, joiners and
\* reused slots included, and a request that waits is never on the worker.
THEOREM SlotsKept == Spec => []SlotsRespected
<1>1. Init => IInv /\ Places /\ Stages /\ Slots
  <2>1. Init => Slots
    BY BoundsAssumption DEF Init, Slots
  <2> QED
    BY <2>1, InitIInv, InitPlaces, InitStages
<1>2. IInv /\ Places /\ Stages /\ Slots /\ [Next]_vars => (IInv /\ Places /\ Stages /\ Slots)'
  BY NextIInv, NextPlaces, NextStages, NextSlots
<1>3. IInv /\ Places /\ Stages /\ Slots => SlotsRespected
  BY SlotsBound
<1> QED
  BY <1>1, <1>2, <1>3, PTL DEF Spec

-----------------------------------------------------------------------------
(* What waits is bounded: WaitingBounded *)

\* The joiners the worker may still hand back.
Unheard == {r \in Range(joined) : deliver[r] = "unheard"}

\* What has been put back, or may yet be, fits one group.
PutBack ==
  /\ Len(pending) <= MaxPending
  /\ Order = "fifo" =>
       /\ pc \in {"form", "gather", "perform"} => Len(carry) + Len(group) <= Capacity
       /\ Len(carry) <= Capacity
       /\ pc = "serve" => Len(carry) + Cardinality(Unheard) <= Capacity
       /\ pc # "order"

\* Finitely many joiners are unheard of, and all of them run.
LEMMA UnheardCount ==
  ASSUME IInv, Stages
  PROVE  /\ IsFiniteSet(Unheard) /\ Cardinality(Unheard) \in Nat
         /\ Cardinality(Unheard) <= Len(joined)
         /\ Unheard \subseteq {r \in Requests : serve[r] = "running"}
<1>1. joined \in Seq(Requests) /\ Range(joined) \subseteq Requests
  BY RangeSeq DEF IInv, TypeOK, SchedulerType
<1>2. Unheard \in SUBSET Range(joined)
  BY DEF Unheard
<1>3. Unheard \subseteq {r \in Requests : serve[r] = "running"}
  BY <1>1 DEF Unheard, Stages
<1> QED
  BY <1>1, <1>2, <1>3, RangeCount

\* The joiners unheard of occupy slots.
LEMMA UnheardSlots ==
  ASSUME IInv, Stages, pc = "serve"
  PROVE  Cardinality(Unheard) <= OccupiedSlots /\ OccupiedSlots \in Nat
<1>1. /\ IsFiniteSet(Unheard) /\ Cardinality(Unheard) \in Nat
      /\ Cardinality(Unheard) <= Len(joined)
      /\ Unheard \subseteq {r \in Requests : serve[r] = "running"}
  BY UnheardCount
<1> DEFINE A == {r \in OnWorker : serve[r] # "ended"}
<1>2. Unheard \subseteq A
  BY <1>1 DEF Unheard, OnWorker
<1>3. IsFiniteSet(A) /\ Cardinality(A) \in Nat /\ Cardinality(live) \in Nat /\ Len(joined) \in Nat
  BY OnWorkerCount
<1>4. Cardinality(Unheard) <= Cardinality(A)
  BY <1>2, <1>3, FS_Subset
<1>5. OccupiedSlots = IF ReusesSlots THEN Cardinality(A) ELSE Cardinality(live) + Len(joined)
  BY DEF OccupiedSlots
<1> HIDE DEF A
<1> QED
  BY <1>1, <1>3, <1>4, <1>5

\* Taking a request shortens the carry, or leaves it empty.
LEMMA TakeCarry ==
  ASSUME QueueType, NEW r, Take(r)
  PROVE  /\ Len(carry)' = (IF carry = <<>> THEN 0 ELSE Len(carry) - 1)
         /\ carry # <<>> => Len(carry) > 0
         /\ Len(pending)' <= Len(pending)
<1>1. carry \in Seq(Requests) /\ pending \in Seq(Requests)
  BY DEF QueueType
<1>2. CASE carry # <<>>
  BY <1>1, <1>2, TailLine DEF Take
<1>3. CASE carry = <<>>
  BY <1>1, <1>3, TailLine DEF Take
<1> QED
  BY <1>2, <1>3

\* Steps that put nobody back.
LEMMA PutBackFrame ==
  ASSUME IInv, IInv', Stages, PutBack, Len(pending)' <= Len(pending), Len(carry)' <= Len(carry),
         pc' \in {"form", "gather", "perform"} =>
           pc \in {"form", "gather", "perform"} /\ Len(group)' = Len(group),
         pc' = "serve" => pc = "serve" /\ Unheard' \subseteq Unheard,
         pc' # "order" \/ pc = "order"
  PROVE  PutBack'
<1>1. /\ Len(carry) \in Nat /\ Len(pending) \in Nat /\ Len(group) \in Nat
      /\ Len(carry)' \in Nat /\ Len(pending)' \in Nat
      /\ MaxPending \in Nat /\ Capacity \in Nat
  BY BoundsAssumption DEF IInv, TypeOK, QueueType, SchedulerType
<1>2. ASSUME pc' = "serve" PROVE Cardinality(Unheard') <= Cardinality(Unheard)
  BY <1>2, UnheardCount, FS_Subset
<1>3. ASSUME pc' = "serve" PROVE Cardinality(Unheard') \in Nat /\ Cardinality(Unheard) \in Nat
  BY <1>3, UnheardCount, FS_Subset, FS_CardinalityType
<1> QED
  BY <1>1, <1>2, <1>3 DEF PutBack

\* A group is formed from the carry first.
LEMMA FormingPutBack ==
  ASSUME IInv, IInv', Stages, PutBack, NextSession \/ TakeCompany \/ CloseGroup
  PROVE  PutBack'
<1>1. /\ Len(carry) \in Nat /\ Len(pending) \in Nat /\ Len(group) \in Nat
      /\ group \in Seq(Requests) /\ carry \in Seq(Requests) /\ QueueType
      /\ Len(carry)' \in Nat /\ Len(pending)' \in Nat
      /\ MaxPending \in Nat /\ Capacity \in Nat \ {0} /\ width \in 1..Capacity
  BY BoundsAssumption DEF IInv, TypeOK, QueueType, SchedulerType
<1>2. CASE NextSession
  <2>1. PICK r \in Requests : Take(r) /\ group' = <<r>>
    BY <1>2 DEF NextSession
  <2>2. /\ Len(carry)' = (IF carry = <<>> THEN 0 ELSE Len(carry) - 1)
        /\ carry # <<>> => Len(carry) > 0
        /\ Len(pending)' <= Len(pending)
    BY <1>1, <2>1, TakeCarry
  <2>3. Len(group)' = 1 /\ pc' = "form" /\ Order = "fifo"
    BY <1>2, <2>1 DEF NextSession
  <2>4. Len(carry) <= Capacity /\ Len(pending) <= MaxPending
    BY <2>3 DEF PutBack
  <2>5. Len(carry)' + Len(group)' <= Capacity /\ Len(carry)' <= Capacity
    BY <1>1, <2>2, <2>3, <2>4
  <2>6. Len(pending)' <= MaxPending
    BY <1>1, <2>2, <2>4
  <2> QED
    BY <2>3, <2>5, <2>6 DEF PutBack
<1>3. CASE TakeCompany
  <2>1. PICK r \in Requests : Take(r) /\ group' = Append(group, r)
    BY <1>3 DEF TakeCompany
  <2>2. /\ Len(carry)' = (IF carry = <<>> THEN 0 ELSE Len(carry) - 1)
        /\ carry # <<>> => Len(carry) > 0
        /\ Len(pending)' <= Len(pending)
    BY <1>1, <2>1, TakeCarry
  <2>3. /\ Len(group)' = Len(group) + 1 /\ Len(group) < width
        /\ pc' = pc /\ pc \in {"form", "gather"}
    BY <1>1, <1>3, <2>1 DEF TakeCompany
  <2>4. ASSUME Order = "fifo" PROVE Len(carry) + Len(group) <= Capacity
    BY <2>3, <2>4 DEF PutBack
  <2>5. ASSUME Order = "fifo" PROVE Len(carry)' + Len(group)' <= Capacity /\ Len(carry)' <= Capacity
    <3>1. Len(group) + 1 <= Capacity
      BY <1>1, <2>3
    <3>2. CASE carry = <<>>
      <4>1. Len(carry)' = 0
        BY <2>2, <3>2
      <4> QED
        BY <1>1, <2>3, <3>1, <4>1
    <3>3. CASE carry # <<>>
      <4>1. Len(carry)' = Len(carry) - 1
        BY <2>2, <3>3
      <4> QED
        BY <1>1, <2>3, <2>4, <2>5, <4>1
    <3> QED
      BY <3>2, <3>3
  <2>6. Len(pending)' <= MaxPending
    BY <1>1, <2>2 DEF PutBack
  <2> QED
    BY <2>3, <2>5, <2>6 DEF PutBack
<1>4. CASE CloseGroup
  <2>1. pc \in {"form", "gather"} /\ pc' = "perform" /\ pending' = pending /\ group # <<>>
    BY <1>4 DEF CloseGroup, IInv, GroupHeld
  <2>2. Len(carry)' + Len(group)' = Len(carry) + Len(group)
    <3>1. CASE group' = group /\ carry' = carry
      BY <3>1
    <3>2. CASE group' = <<Head(group)>> /\ carry' = Tail(group) \o carry
      <4>1. Tail(group) \in Seq(Requests) /\ Len(Tail(group)) = Len(group) - 1
        BY <1>1, <2>1, TailLine
      <4>2. Len(carry)' = Len(group) - 1 + Len(carry) /\ Len(group)' = 1
        BY <1>1, <3>2, <4>1, ConcatProperties
      <4> QED
        BY <1>1, <4>2
    <3> QED
      BY <1>4, <3>1, <3>2 DEF CloseGroup
  <2>3. Len(group)' \in Nat
    BY DEF IInv, TypeOK, SchedulerType
  <2> QED
    BY <1>1, <2>1, <2>2, <2>3 DEF PutBack
<1> QED
  BY <1>2, <1>3, <1>4

\* A joiner may come back only into the place it left or a free slot.
LEMMA JoinPutBack ==
  ASSUME IInv, IInv', Stages, PutBack, Join
  PROVE  PutBack'
<1>1. PICK r \in Requests : Take(r) /\ joined' = Append(joined, r)
                            /\ deliver' = [deliver EXCEPT ![r] = "unheard"]
  BY DEF Join
<1>2. /\ Len(carry)' = (IF carry = <<>> THEN 0 ELSE Len(carry) - 1)
      /\ carry # <<>> => Len(carry) > 0
      /\ Len(pending)' <= Len(pending)
  BY <1>1, TakeCarry DEF IInv, TypeOK
<1>3. Range(joined)' = Range(joined) \cup {r} /\ Range(joined) \subseteq Requests
  BY <1>1, AppendLine, RangeSeq DEF IInv, TypeOK, SchedulerType
<1>4. Unheard' \subseteq Unheard \cup {r}
  BY <1>1, <1>3 DEF Unheard, IInv, TypeOK, DeliveryType
<1>5. pc = "serve" /\ pc' = "serve"
  BY DEF Join, MayJoin
<1>6. IsFiniteSet(Unheard) /\ Cardinality(Unheard) \in Nat
  BY UnheardCount
<1>7. Cardinality(Unheard') <= Cardinality(Unheard) + 1 /\ Cardinality(Unheard') \in Nat
  <2>1. /\ IsFiniteSet(Unheard \cup {r})
        /\ Cardinality(Unheard \cup {r})
             = IF r \in Unheard THEN Cardinality(Unheard) ELSE Cardinality(Unheard) + 1
    BY <1>6, FS_AddElement
  <2>2. Cardinality(Unheard') <= Cardinality(Unheard \cup {r}) /\ Cardinality(Unheard') \in Nat
    BY <1>4, <2>1, FS_Subset, FS_CardinalityType
  <2> QED
    BY <1>6, <2>1, <2>2
<1>8. Cardinality(Unheard) <= OccupiedSlots /\ OccupiedSlots < Capacity /\ OccupiedSlots \in Nat
  BY <1>5, UnheardSlots DEF Join, MayJoin
<1>9. Len(carry) \in Nat /\ Len(pending) \in Nat /\ Len(carry)' \in Nat /\ Len(pending)' \in Nat
      /\ MaxPending \in Nat /\ Capacity \in Nat
  BY BoundsAssumption DEF IInv, TypeOK, QueueType
<1> QED
  BY <1>2, <1>5, <1>6, <1>7, <1>8, <1>9 DEF PutBack

\* A request that may not join is put back while a slot is free for it.
LEMMA JoinDeclinedPutBack ==
  ASSUME IInv, Stages, PutBack, JoinDeclined
  PROVE  PutBack'
<1>1. pending \in Seq(Requests) /\ pending # <<>> /\ Len(pending) \in Nat
  BY DEF JoinDeclined, IInv, TypeOK, QueueType
<1>2. Len(pending)' = Len(pending) - 1
  BY <1>1, TailLine DEF JoinDeclined
<1>3. Len(carry)' = 1 /\ Unheard' = Unheard /\ pc = "serve" /\ pc' = "serve"
      /\ OccupiedSlots < Capacity
  BY DEF JoinDeclined, MayJoin, schedVars, deliveryVars, Unheard
<1>4. Cardinality(Unheard) <= OccupiedSlots /\ OccupiedSlots \in Nat /\ Cardinality(Unheard) \in Nat
  BY <1>3, UnheardSlots, UnheardCount
<1> QED
  BY <1>1, <1>2, <1>3, <1>4, BoundsAssumption DEF PutBack

\* Joiners handed back were unheard of.
LEMMA GroupDonePutBack ==
  ASSUME IInv, Places, Stages, PutBack, GroupDone
  PROVE  PutBack'
<1>1. joined \in Seq(Requests) /\ carry \in Seq(Requests)
  BY DEF IInv, TypeOK, QueueType, SchedulerType
<1>2. PICK k \in 0..Len(joined) :
        /\ \A r \in Range(SubSeq(joined, k + 1, Len(joined))) : deliver[r] = "unheard"
        /\ carry' = SubSeq(joined, k + 1, Len(joined)) \o carry
  BY DEF GroupDone
<1> DEFINE back == SubSeq(joined, k + 1, Len(joined))
<1>3. back \in Seq(Requests) /\ Range(back) \subseteq Range(joined) /\ IsInjective(back)
  <2>1. IsInjective(joined)
    BY DEF Places, Apart
  <2>2. /\ back \in Seq(Requests) /\ IsInjective(back)
        /\ Range(joined) = Range(SubSeq(joined, 1, k)) \cup Range(back)
    BY <1>1, <1>2, <2>1, CutLine
  <2> QED
    BY <2>2
<1>4. carry' = back \o carry /\ \A r \in Range(back) : deliver[r] = "unheard"
  BY <1>2
<1> HIDE DEF back
<1>5. Range(back) \subseteq Unheard
  BY <1>3, <1>4 DEF Unheard
<1>6. Len(back) = Cardinality(Range(back)) /\ Len(back) \in Nat
  BY <1>3, InjectiveCount
<1>7. /\ Cardinality(Range(back)) <= Cardinality(Unheard) /\ Cardinality(Unheard) \in Nat
  BY <1>5, UnheardCount, FS_Subset
<1>8. Len(carry)' = Len(back) + Len(carry) /\ Len(carry) \in Nat
  BY <1>1, <1>3, <1>4, ConcatProperties
<1>9. pc = "serve" /\ pc' = "drain" /\ pending' = pending
  BY DEF GroupDone
<1> QED
  BY <1>6, <1>7, <1>8, <1>9, BoundsAssumption DEF PutBack

\* Every step keeps what waits within its bounds.
LEMMA NextPutBack ==
  ASSUME IInv, Places, Stages, PutBack, [Next]_vars
  PROVE  PutBack'
<1> USE DEF queueVars, callerVars, schedVars, workerVars, deliveryVars, closeVars
<1>0. IInv'
  BY NextIInv
<1>a. /\ Len(carry) \in Nat /\ Len(pending) \in Nat /\ Len(group) \in Nat
      /\ carry \in Seq(Requests) /\ pending \in Seq(Requests)
      /\ MaxPending \in Nat /\ Capacity \in Nat
  BY BoundsAssumption DEF IInv, TypeOK, QueueType, SchedulerType
<1>1. ASSUME NEW r \in Requests, CallerStep(r) PROVE PutBack'
  <2>1. CASE Admit(r)
    <3>1. Len(pending)' = Len(pending) + 1 /\ Len(pending) < MaxPending
      BY <1>a, <2>1 DEF Admit
    <3>2. UNCHANGED <<carry, pc, group, Unheard>>
      BY <2>1 DEF Admit, Unheard
    <3> QED
      BY <1>a, <3>1, <3>2 DEF PutBack
  <2>2. CASE Refuse(r) \/ Cancel(r) \/ Expire(r) \/ CallerRead(r) \/ CallerStops(r) \/ CallerLeaves(r)
    <3>1. UNCHANGED <<pending, carry, pc, group, Unheard>>
      BY <2>2 DEF Refuse, Cancel, Expire, CallerRead, CallerStops, CallerLeaves, Unheard
    <3> QED
      BY <3>1 DEF PutBack
  <2> QED
    BY <1>1, <2>1, <2>2 DEF CallerStep
<1>2. ASSUME NEW r \in Requests, WorkerToken(r) \/ WorkerEnd(r) PROVE PutBack'
  <2>1. UNCHANGED <<pending, carry, pc, group, joined>> /\ deliver' = Heard(r)
    BY <1>2 DEF WorkerToken, WorkerEnd
  <2>2. Unheard' \subseteq Unheard
    BY <2>1, RangeSeq DEF Unheard, Heard, IInv, TypeOK, SchedulerType, DeliveryType
  <2> QED
    BY <1>0, <1>a, <2>1, <2>2, PutBackFrame
<1>3. ASSUME NEW r \in Requests, Delivery(r) PROVE PutBack'
  <2>1. UNCHANGED <<pending, carry, pc, group, joined>>
    BY <1>3 DEF Delivery, ConsumeToken, ConsumeDone, ConsumeFailure, Record, Drain
  <2>2. \/ deliver' = deliver
        \/ \E d \in {"draining", "handled"} \cup Answered : deliver' = [deliver EXCEPT ![r] = d]
    BY <1>3 DEF Delivery, ConsumeToken, ConsumeDone, ConsumeFailure, Record, Drain, BeginDrain,
         FinishCancelled, FinishFailed, FinishOk
  <2>3. Unheard' \subseteq Unheard
    BY <2>1, <2>2, RangeSeq DEF Unheard, IInv, TypeOK, SchedulerType, DeliveryType
  <2> QED
    BY <1>0, <1>a, <2>1, <2>3, PutBackFrame
<1>4. CASE NextSorted \/ OrderWaiting
  <2>1. Order # "fifo" /\ Len(pending)' = 0
    BY <1>4 DEF NextSorted, OrderWaiting, PutBack
  <2> QED
    BY <1>a, <2>1 DEF PutBack
<1>5. CASE StartGather \/ GroupDrained \/ Exit \/ Retire
  <2>1. UNCHANGED <<pending, carry>> /\ pc' \notin {"serve", "order"}
    BY <1>5 DEF StartGather, GroupDrained, Exit, Retire
  <2>2. pc' \in {"form", "gather", "perform"} => pc = "form" /\ group' = group
    BY <1>5 DEF StartGather, GroupDrained, Exit, Retire
  <2> QED
    BY <1>0, <1>a, <2>1, <2>2, PutBackFrame
<1>6. CASE Perform
  <2>1. UNCHANGED <<pending, carry, joined>> /\ joined = <<>> /\ pc' \in {"serve", "retire"}
    BY <1>6 DEF Perform, IInv, GroupHeld
  <2>2. Unheard' = {}
    BY <2>1 DEF Unheard, Range
  <2>3. Cardinality(Unheard') = 0
    BY <2>2, FS_EmptySet
  <2> QED
    BY <1>a, <2>1, <2>3 DEF PutBack
<1>7. CASE Age \/ Recover \/ CloseBegin \/ CloseCancel
  <2>1. UNCHANGED <<pending, carry, pc, group, Unheard>>
    BY <1>7 DEF Age, Recover, CloseBegin, CloseCancel, Unheard
  <2> QED
    BY <2>1 DEF PutBack
<1>8. CASE WorkerCrash \/ CloseBackend
  <2>1. UNCHANGED <<pending, carry, pc, group, joined>> /\ WorkerGone
    BY <1>8 DEF WorkerCrash, CloseBackend
  <2>2. Unheard' \subseteq Unheard
    BY <2>1, RangeSeq DEF Unheard, WorkerGone, IInv, TypeOK, SchedulerType
  <2> QED
    BY <1>0, <1>a, <2>1, <2>2, PutBackFrame
<1>9. CASE CloseDrop
  <2>1. UNCHANGED <<pc, group, Unheard>> /\ Len(carry)' = 0 /\ Len(pending)' = 0
    BY <1>9 DEF CloseDrop, Unheard
  <2> QED
    BY <1>0, <1>a, <2>1, PutBackFrame
<1>10. CASE Idle \/ UNCHANGED vars
  <2>1. UNCHANGED <<pending, carry, pc, group, Unheard>>
    BY <1>10 DEF Idle, vars, Unheard
  <2> QED
    BY <2>1 DEF PutBack
<1> QED
  BY <1>0, <1>1, <1>2, <1>3, <1>4, <1>5, <1>6, <1>7, <1>8, <1>9, <1>10, FormingPutBack, JoinPutBack,
     JoinDeclinedPutBack, GroupDonePutBack
  DEF Next, SchedulerStep, CloseStep

\* In arrival order no more requests wait than the queue holds plus one group's worth that
\* was put back, whatever groups were refused and whatever joiners were handed back.
THEOREM WaitingBounded == Spec => []BoundedWaiting
<1>1. Init => IInv /\ Places /\ Stages /\ PutBack
  <2>1. Init => PutBack
    BY BoundsAssumption DEF Init, PutBack
  <2> QED
    BY <2>1, InitIInv, InitPlaces, InitStages
<1>2. IInv /\ Places /\ Stages /\ PutBack /\ [Next]_vars
        => (IInv /\ Places /\ Stages /\ PutBack)'
  BY NextIInv, NextPlaces, NextStages, NextPutBack
<1>3. IInv /\ PutBack => BoundedWaiting
  BY BoundsAssumption DEF IInv, TypeOK, QueueType, PutBack, BoundedWaiting
<1> QED
  BY <1>1, <1>2, <1>3, PTL DEF Spec

-----------------------------------------------------------------------------
(* The order of admission: ArrivalKept *)

\* A sequence rises by f; everything in S comes before everything in T by f.
RisesBy(q, f) == \A i, j \in 1..Len(q) : i < j => f[q[i]] < f[q[j]]
PrecedesBy(S, T, f) == \A x \in S, y \in T : f[x] < f[y]

\* Each admitted request's place in the order of admission.
Ranks == [x \in Range(admitted) |-> Rank(x)]

\* In arrival order the line rises from what was started to what was admitted last.  At the
\* worker the joiners are the last that were started, so they can be handed back in order.
InOrder ==
  Order = "fifo" =>
    /\ Range(started) \subseteq Range(admitted)
    /\ RisesBy(started, Ranks) /\ RisesBy(carry, Ranks) /\ RisesBy(pending, Ranks)
    /\ PrecedesBy(Range(started), Queued, Ranks)
    /\ PrecedesBy(Range(carry), Range(pending), Ranks)
    /\ pc \in {"form", "gather"} =>
         /\ RisesBy(group, Ranks)
         /\ PrecedesBy(Range(started), Range(group), Ranks)
         /\ PrecedesBy(Range(group), Queued, Ranks)
    /\ pc = "serve" => \E s \in Seq(Requests) : started = s \o joined

\* A sequence rises when its parts do and the first precedes the second, and only then.
LEMMA RisesConcat ==
  ASSUME NEW S, NEW q \in Seq(S), NEW t \in Seq(S), NEW f
  PROVE  RisesBy(q \o t, f) <=>
           RisesBy(q, f) /\ RisesBy(t, f) /\ PrecedesBy(Range(q), Range(t), f)
<1> DEFINE c == q \o t
           m == Len(q)
           n == Len(t)
<1>1. Len(c) = m + n /\ m \in Nat /\ n \in Nat
  BY ConcatProperties
<1>2. \A k \in 1..m + n : c[k] = IF k <= m THEN q[k] ELSE t[k - m]
  BY ConcatProperties
<1>3. \A k \in 1..m : c[k] = q[k]
  BY <1>1, <1>2
<1>4. \A k \in 1..n : c[m + k] = t[k] /\ m + k \in 1..m + n
  <2>1. ASSUME NEW k \in 1..n PROVE m + k \in 1..m + n /\ ~(m + k <= m) /\ m + k - m = k
    BY <1>1
  <2> QED
    BY <1>2, <2>1
<1>5. \A k \in 1..m + n : k \in 1..m \/ \E l \in 1..n : k = m + l
  <2>1. ASSUME NEW k \in 1..m + n, k \notin 1..m PROVE k - m \in 1..n /\ k = m + (k - m)
    BY <1>1, <2>1
  <2> QED
    BY <2>1
<1> HIDE DEF c
<1>6. \A x : x \in Range(q) <=> \E i \in 1..m : q[i] = x
  BY RangeSeq
<1>7. \A x : x \in Range(t) <=> \E i \in 1..n : t[i] = x
  BY RangeSeq
<1> HIDE DEF m, n
<1>8. ASSUME RisesBy(c, f)
      PROVE  RisesBy(q, f) /\ RisesBy(t, f) /\ PrecedesBy(Range(q), Range(t), f)
  <2>1. \A i, j \in 1..m + n : i < j => f[c[i]] < f[c[j]]
    BY <1>1, <1>8 DEF RisesBy
  <2>2. \A i, j \in 1..m : i < j => f[q[i]] < f[q[j]]
    BY <1>1, <1>3, <2>1
  <2>3. ASSUME NEW i \in 1..n, NEW j \in 1..n, i < j PROVE f[t[i]] < f[t[j]]
    <3>1. m + i < m + j
      BY <1>1, <2>3
    <3> QED
      BY <1>4, <2>1, <3>1
  <2>4. ASSUME NEW i \in 1..m, NEW j \in 1..n PROVE f[q[i]] < f[t[j]]
    <3>1. i < m + j /\ i \in 1..m + n
      BY <1>1, <2>4
    <3> QED
      BY <1>3, <1>4, <2>1, <3>1
  <2> QED
    BY <1>6, <1>7, <2>2, <2>3, <2>4 DEF RisesBy, PrecedesBy, m, n
<1>9. ASSUME RisesBy(q, f), RisesBy(t, f), PrecedesBy(Range(q), Range(t), f)
      PROVE  RisesBy(c, f)
  <2>1. \A i, j \in 1..m : i < j => f[q[i]] < f[q[j]]
    BY <1>9 DEF RisesBy, m
  <2>2. \A i, j \in 1..n : i < j => f[t[i]] < f[t[j]]
    BY <1>9 DEF RisesBy, n
  <2>3. \A i \in 1..m, j \in 1..n : f[q[i]] < f[t[j]]
    BY <1>6, <1>7, <1>9 DEF PrecedesBy
  <2>4. ASSUME NEW i \in 1..m + n, NEW j \in 1..m + n, i < j PROVE f[c[i]] < f[c[j]]
    <3>1. CASE i \in 1..m /\ j \in 1..m
      BY <1>3, <2>1, <2>4, <3>1
    <3>2. CASE i \in 1..m /\ \E l \in 1..n : j = m + l
      BY <1>3, <1>4, <2>3, <3>2
    <3>3. CASE i \notin 1..m /\ j \in 1..m
      BY <1>1, <2>4, <3>3
    <3>4. CASE (\E l \in 1..n : i = m + l) /\ \E l \in 1..n : j = m + l
      <4>1. PICK k \in 1..n : i = m + k
        BY <3>4
      <4>2. PICK l \in 1..n : j = m + l
        BY <3>4
      <4>3. k < l
        BY <1>1, <2>4, <4>1, <4>2
      <4> QED
        BY <1>4, <2>2, <4>1, <4>2, <4>3
    <3> QED
      BY <1>5, <3>1, <3>2, <3>3, <3>4
  <2> QED
    BY <1>1, <2>4 DEF RisesBy
<1> QED
  BY <1>8, <1>9 DEF c

\* A sequence of one element rises.
LEMMA RisesOne ==
  ASSUME NEW x, NEW f
  PROVE  RisesBy(<<x>>, f) /\ RisesBy(<<>>, f)
BY DEF RisesBy

\* Adding an element that everything precedes.
LEMMA RisesAppend ==
  ASSUME NEW S, NEW q \in Seq(S), NEW x \in S, NEW f,
         RisesBy(q, f), PrecedesBy(Range(q), {x}, f)
  PROVE  RisesBy(Append(q, x), f)
<1>1. Append(q, x) = q \o <<x>> /\ <<x>> \in Seq(S) /\ Range(<<x>>) = {x}
  BY OneLine
<1> DEFINE o == <<x>>
<1>2. RisesBy(o, f)
  BY RisesOne
<1>3. o \in Seq(S) /\ Range(o) = {x} /\ Append(q, x) = q \o o
  BY <1>1
<1> HIDE DEF o
<1>4. RisesBy(q \o o, f)
  BY <1>2, <1>3, RisesConcat
<1> QED
  BY <1>3, <1>4

\* What is left when the first element is taken still rises, and the first precedes it.
LEMMA RisesTail ==
  ASSUME NEW S, NEW q \in Seq(S), q # <<>>, NEW f, RisesBy(q, f)
  PROVE  RisesBy(Tail(q), f) /\ PrecedesBy({Head(q)}, Range(Tail(q)), f)
<1>1. q = <<Head(q)>> \o Tail(q) /\ Head(q) \in S /\ Tail(q) \in Seq(S) /\ <<Head(q)>> \in Seq(S)
  OBVIOUS
<1>2. Range(<<Head(q)>>) = {Head(q)}
  BY OneLine
<1> DEFINE h == <<Head(q)>>
           t == Tail(q)
<1>3. RisesBy(h \o t, f)
  BY <1>1
<1> HIDE DEF h, t
<1>4. RisesBy(t, f) /\ PrecedesBy(Range(h), Range(t), f)
  BY <1>1, <1>3, RisesConcat DEF h, t
<1> QED
  BY <1>2, <1>4 DEF h, t

\* Two functions that agree on the elements order a sequence alike.
LEMMA RisesSame ==
  ASSUME NEW f, NEW g, NEW S, NEW q \in Seq(S), \A x \in Range(q) : f[x] = g[x], RisesBy(q, f)
  PROVE  RisesBy(q, g)
BY RangeSeq DEF RisesBy

\* And order sets alike.
LEMMA PrecedesSame ==
  ASSUME NEW f, NEW g, NEW S, NEW T, \A x \in S \cup T : f[x] = g[x], PrecedesBy(S, T, f)
  PROVE  PrecedesBy(S, T, g)
BY DEF PrecedesBy


\* Every admitted request's place is a number, and where it was admitted.
LEMMA RanksType ==
  ASSUME QueueType
  PROVE  \A x \in Range(admitted) : Ranks[x] = Rank(x) /\ Ranks[x] \in 1..Len(admitted)
BY RankType DEF Ranks

\* The next request comes last, and moves nobody.
LEMMA RanksAppend ==
  ASSUME QueueType, QueueType', IsInjective(admitted), NEW r \in Requests,
         r \notin Range(admitted), admitted' = Append(admitted, r)
  PROVE  \A x \in Range(admitted) : Ranks'[x] = Ranks[x] /\ Ranks[x] < Ranks'[r]
<1>1. /\ admitted \in Seq(Requests) /\ Len(admitted) \in Nat /\ Len(admitted') = Len(admitted) + 1
      /\ \A i \in 1..Len(admitted) : admitted'[i] = admitted[i]
      /\ admitted'[Len(admitted) + 1] = r
      /\ admitted' \in Seq(Requests)
  BY DEF QueueType
<1>2. Range(admitted') = Range(admitted) \cup {r} /\ IsInjective(admitted')
  BY <1>1, AppendLine
<1>3. \A i, j \in 1..Len(admitted') : admitted'[i] = admitted'[j] => i = j
  BY <1>1, <1>2, RangeSeq
<1>4. ASSUME NEW x \in Range(admitted')
      PROVE  Ranks'[x] \in 1..Len(admitted') /\ admitted'[Ranks'[x]] = x
  <2>1. Ranks'[x] = CHOOSE i \in DOMAIN admitted' : admitted'[i] = x
    BY DEF Ranks, Rank
  <2>2. \E i \in DOMAIN admitted' : admitted'[i] = x
    BY DEF Range
  <2>3. DOMAIN admitted' = 1..Len(admitted')
    BY <1>1
  <2> QED
    BY <2>1, <2>2, <2>3
<1>5. ASSUME NEW x \in Range(admitted) PROVE Ranks'[x] = Ranks[x] /\ Ranks[x] < Ranks'[r]
  <2>1. Ranks[x] \in 1..Len(admitted) /\ admitted[Ranks[x]] = x
    BY RankType, RanksType
  <2>2. Ranks[x] \in 1..Len(admitted') /\ admitted'[Ranks[x]] = x
    BY <1>1, <2>1
  <2>3. Ranks'[x] = Ranks[x]
    BY <1>2, <1>3, <1>4, <2>2
  <2>4. Ranks'[r] = Len(admitted) + 1
    <3>1. Len(admitted) + 1 \in 1..Len(admitted')
      BY <1>1
    <3> QED
      BY <1>1, <1>2, <1>3, <1>4, <3>1
  <2> QED
    BY <1>1, <2>1, <2>3, <2>4
<1> QED
  BY <1>5

\* The first in line is taken: everything else that waits comes after it.
LEMMA TakeOrder ==
  ASSUME QueueType, Apart, NEW r, Take(r), NEW f, RisesBy(carry, f), RisesBy(pending, f),
         PrecedesBy(Range(carry), Range(pending), f)
  PROVE  /\ RisesBy(carry', f) /\ RisesBy(pending', f)
         /\ PrecedesBy(Range(carry'), Range(pending'), f)
         /\ PrecedesBy({r}, Queued', f)
<1>1. carry \in Seq(Requests) /\ pending \in Seq(Requests)
  BY DEF QueueType
<1>2. CASE carry # <<>>
  <2>1. /\ Head(carry) = r /\ carry' = Tail(carry) /\ pending' = pending
        /\ Range(carry) = {r} \cup Range(Tail(carry))
    BY <1>1, <1>2, TailLine DEF Take
  <2>2. RisesBy(Tail(carry), f) /\ PrecedesBy({r}, Range(Tail(carry)), f)
    BY <1>1, <1>2, <2>1, RisesTail
  <2> QED
    BY <2>1, <2>2 DEF PrecedesBy, Queued
<1>3. CASE carry = <<>>
  <2>1. /\ Head(pending) = r /\ pending' = Tail(pending) /\ carry' = carry /\ pending # <<>>
        /\ Range(pending) = {r} \cup Range(Tail(pending)) /\ Range(carry) = {}
    BY <1>1, <1>3, TailLine, RangeSeq DEF Take
  <2>2. RisesBy(Tail(pending), f) /\ PrecedesBy({r}, Range(Tail(pending)), f)
    BY <1>1, <2>1, RisesTail
  <2> QED
    BY <2>1, <2>2 DEF PrecedesBy, Queued
<1> QED
  BY <1>2, <1>3

\* Steps that leave the line alone.
LEMMA OrderFrame ==
  ASSUME InOrder, UNCHANGED <<pending, carry, admitted, started>>,
         pc' \in {"form", "gather"} => pc \in {"form", "gather"} /\ group' = group,
         pc' = "serve" => pc = "serve" /\ joined' = joined
  PROVE  InOrder'
<1>1. Ranks' = Ranks /\ Queued' = Queued /\ Range(started)' = Range(started)
      /\ Range(carry)' = Range(carry) /\ Range(pending)' = Range(pending)
      /\ Range(admitted)' = Range(admitted)
  BY DEF Ranks, Rank, Queued
<1>2. ASSUME pc' \in {"form", "gather"} PROVE Range(group)' = Range(group)
  BY <1>2
<1> QED
  BY <1>1, <1>2 DEF InOrder, RisesBy

\* A request is admitted behind everything.
LEMMA AdmitOrder ==
  ASSUME IInv, IInv', Places, InOrder, NEW r \in Requests, Admit(r)
  PROVE  InOrder'
<1> SUFFICES ASSUME Order = "fifo" PROVE InOrder'
  BY DEF InOrder
<1>1. /\ pending \in Seq(Requests) /\ carry \in Seq(Requests) /\ started \in Seq(Requests)
      /\ group \in Seq(Requests) /\ admitted \in Seq(Requests) /\ QueueType /\ QueueType'
  BY DEF IInv, TypeOK, QueueType, SchedulerType
<1>2. /\ UNCHANGED <<carry, started, group, joined, pc>>
      /\ pending' = Append(pending, r) /\ admitted' = Append(admitted, r)
  BY DEF Admit, schedVars
<1>3. r \notin Range(admitted) /\ IsInjective(admitted)
  BY DEF Admit, Places, Registered
<1>4. \A x \in Range(admitted) : Ranks'[x] = Ranks[x] /\ Ranks[x] < Ranks'[r]
  BY <1>1, <1>2, <1>3, RanksAppend
<1>5. Range(pending') = Range(pending) \cup {r} /\ Range(admitted') = Range(admitted) \cup {r}
      /\ Queued' = Queued \cup {r}
  BY <1>1, <1>2, AppendLine DEF Queued
<1>6. /\ Range(carry) \subseteq Range(admitted) /\ Range(pending) \subseteq Range(admitted)
      /\ Range(group) \subseteq Range(admitted) /\ Range(started) \subseteq Range(admitted)
      /\ Queued \subseteq Range(admitted)
  BY DEF Places, Registered, Queued, Held, InOrder
<1> DEFINE f == Ranks
           g == Ranks'
<1>7. /\ RisesBy(started, f) /\ RisesBy(carry, f) /\ RisesBy(pending, f)
      /\ PrecedesBy(Range(started), Queued, f) /\ PrecedesBy(Range(carry), Range(pending), f)
      /\ pc \in {"form", "gather"} =>
           /\ RisesBy(group, f) /\ PrecedesBy(Range(started), Range(group), f)
           /\ PrecedesBy(Range(group), Queued, f)
  BY DEF InOrder
<1>8. \A x \in Range(admitted) : f[x] = g[x] /\ g[x] < g[r]
  BY <1>4
<1> HIDE DEF f, g
<1>9. /\ RisesBy(started, g) /\ RisesBy(carry, g) /\ RisesBy(pending, g)
  <2>1. RisesBy(started, g)
    BY <1>1, <1>6, <1>7, <1>8, RisesSame
  <2>2. RisesBy(carry, g)
    BY <1>1, <1>6, <1>7, <1>8, RisesSame
  <2>3. RisesBy(pending, g)
    BY <1>1, <1>6, <1>7, <1>8, RisesSame
  <2> QED
    BY <2>1, <2>2, <2>3
<1>10. RisesBy(pending', g)
  <2>1. PrecedesBy(Range(pending), {r}, g)
    BY <1>6, <1>8 DEF PrecedesBy
  <2> QED
    BY <1>1, <1>2, <1>9, <2>1, RisesAppend
<1>11. PrecedesBy(Range(started), Queued', g) /\ PrecedesBy(Range(carry), Range(pending'), g)
  BY <1>5, <1>6, <1>7, <1>8 DEF PrecedesBy
<1>12. ASSUME pc \in {"form", "gather"}
       PROVE  /\ RisesBy(group, g) /\ PrecedesBy(Range(started), Range(group), g)
              /\ PrecedesBy(Range(group), Queued', g)
  <2>1. RisesBy(group, g)
    BY <1>1, <1>6, <1>7, <1>8, <1>12, RisesSame
  <2>2. PrecedesBy(Range(started), Range(group), g) /\ PrecedesBy(Range(group), Queued', g)
    BY <1>5, <1>6, <1>7, <1>8, <1>12 DEF PrecedesBy
  <2> QED
    BY <2>1, <2>2
<1>13. g = Ranks'
  BY DEF g
<1>14. pc = "serve" => \E s \in Seq(Requests) : started = s \o joined
  BY DEF InOrder
<1> QED
  BY <1>2, <1>5, <1>6, <1>9, <1>10, <1>11, <1>12, <1>13, <1>14 DEF InOrder

\* A group takes the next in line.
LEMMA FormingOrder ==
  ASSUME IInv, Places, InOrder, NextSession \/ TakeCompany
  PROVE  InOrder'
<1> SUFFICES ASSUME Order = "fifo" PROVE InOrder'
  BY DEF InOrder
<1>1. /\ UNCHANGED <<started, admitted>> /\ pc' \in {"form", "gather"}
      /\ group \in Seq(Requests) /\ QueueType
  BY DEF NextSession, TakeCompany, IInv, TypeOK, SchedulerType
<1>2. Ranks' = Ranks
  BY <1>1 DEF Ranks, Rank
<1> DEFINE f == Ranks
<1>3. /\ RisesBy(started, f) /\ RisesBy(carry, f) /\ RisesBy(pending, f)
      /\ PrecedesBy(Range(started), Queued, f) /\ PrecedesBy(Range(carry), Range(pending), f)
      /\ pc \in {"form", "gather"} =>
           /\ RisesBy(group, f) /\ PrecedesBy(Range(started), Range(group), f)
           /\ PrecedesBy(Range(group), Queued, f)
      /\ Range(started) \subseteq Range(admitted)
  BY DEF InOrder
<1> HIDE DEF f
<1>4. ASSUME NEW r \in Requests, Take(r)
      PROVE  /\ RisesBy(carry', f) /\ RisesBy(pending', f)
             /\ PrecedesBy(Range(carry'), Range(pending'), f) /\ PrecedesBy({r}, Queued', f)
             /\ r \in Queued /\ Queued' \subseteq Queued
             /\ PrecedesBy(Range(started), Queued', f)
  <2>1. r \in Queued /\ Queued' = Queued \ {r}
    BY <1>1, <1>4, TakeLine DEF Places
  <2>2. PrecedesBy(Range(started), Queued', f)
    BY <1>3, <2>1 DEF PrecedesBy
  <2> QED
    BY <1>1, <1>3, <1>4, <2>1, <2>2, TakeOrder DEF Places
<1>5. ASSUME /\ RisesBy(carry', f) /\ RisesBy(pending', f)
             /\ PrecedesBy(Range(carry'), Range(pending'), f)
             /\ PrecedesBy(Range(started), Queued', f)
             /\ RisesBy(group', f) /\ PrecedesBy(Range(started), Range(group'), f)
             /\ PrecedesBy(Range(group'), Queued', f)
      PROVE  InOrder'
  BY <1>1, <1>2, <1>3, <1>5 DEF InOrder, f
<1>6. CASE NextSession
  <2>1. PICK r \in Requests : Take(r) /\ group' = <<r>>
    BY <1>6 DEF NextSession
  <2>2. Range(group') = {r} /\ RisesBy(group', f)
    BY <2>1, OneLine, RisesOne
  <2>3. PrecedesBy(Range(started), {r}, f)
    BY <1>3, <1>4, <2>1 DEF PrecedesBy
  <2> QED
    BY <1>4, <1>5, <2>1, <2>2, <2>3
<1>7. CASE TakeCompany
  <2>1. PICK r \in Requests : Take(r) /\ group' = Append(group, r)
    BY <1>7 DEF TakeCompany
  <2>2. pc \in {"form", "gather"}
    BY <1>7 DEF TakeCompany
  <2>3. Range(group') = Range(group) \cup {r}
    BY <1>1, <2>1, AppendLine
  <2>4. PrecedesBy(Range(group), {r}, f) /\ PrecedesBy(Range(started), Range(group'), f)
    BY <1>3, <1>4, <2>1, <2>2, <2>3 DEF PrecedesBy
  <2>5. RisesBy(group', f)
    BY <1>1, <1>3, <2>1, <2>2, <2>4, RisesAppend
  <2>6. PrecedesBy(Range(group'), Queued', f)
    BY <1>3, <1>4, <2>1, <2>2, <2>3 DEF PrecedesBy
  <2> QED
    BY <1>4, <1>5, <2>1, <2>4, <2>5, <2>6
<1> QED
  BY <1>6, <1>7


\* A complete group is started; what a refused group gives up goes back before the others.
LEMMA CloseGroupOrder ==
  ASSUME IInv, Places, InOrder, CloseGroup
  PROVE  InOrder'
<1> SUFFICES ASSUME Order = "fifo" PROVE InOrder'
  BY DEF InOrder
<1>1. /\ group \in Seq(Requests) /\ started \in Seq(Requests) /\ carry \in Seq(Requests)
      /\ group # <<>>
  BY DEF IInv, TypeOK, QueueType, SchedulerType, GroupHeld, CloseGroup
<1>2. /\ UNCHANGED <<pending, admitted>> /\ pc \in {"form", "gather"} /\ pc' = "perform"
      /\ started' = started \o group'
      /\ \/ group' = group /\ carry' = carry
         \/ group' = <<Head(group)>> /\ carry' = Tail(group) \o carry
  BY DEF CloseGroup
<1>3. Ranks' = Ranks
  BY <1>2 DEF Ranks, Rank
<1> DEFINE f == Ranks
<1>4. /\ RisesBy(started, f) /\ RisesBy(carry, f) /\ RisesBy(pending, f)
      /\ PrecedesBy(Range(started), Queued, f) /\ PrecedesBy(Range(carry), Range(pending), f)
      /\ RisesBy(group, f) /\ PrecedesBy(Range(started), Range(group), f)
      /\ PrecedesBy(Range(group), Queued, f)
      /\ Range(started) \subseteq Range(admitted)
  BY <1>2 DEF InOrder
<1> HIDE DEF f
<1>5. Range(group) \subseteq Range(admitted)
  BY DEF Places, Registered, Held
<1>6. ASSUME /\ Range(started') \subseteq Range(admitted)
             /\ RisesBy(started', f) /\ RisesBy(carry', f)
             /\ PrecedesBy(Range(started'), Queued', f)
             /\ PrecedesBy(Range(carry'), Range(pending), f)
      PROVE  InOrder'
  BY <1>2, <1>3, <1>4, <1>6 DEF InOrder, f
<1>7. CASE group' = group /\ carry' = carry
  <2>1. Range(started') = Range(started) \cup Range(group) /\ RisesBy(started', f)
    BY <1>1, <1>2, <1>4, <1>7, ConcatLine, RisesConcat
  <2>2. Queued' = Queued
    BY <1>2, <1>7 DEF Queued
  <2>3. PrecedesBy(Range(started'), Queued', f)
    BY <1>4, <2>1, <2>2 DEF PrecedesBy
  <2> QED
    BY <1>2, <1>4, <1>5, <1>6, <1>7, <2>1, <2>3
<1>8. CASE group' = <<Head(group)>> /\ carry' = Tail(group) \o carry
  <2> DEFINE h == <<Head(group)>>
             t == Tail(group)
  <2>1. /\ Range(group) = {Head(group)} \cup Range(t) /\ t \in Seq(Requests)
        /\ RisesBy(t, f) /\ PrecedesBy({Head(group)}, Range(t), f)
    BY <1>1, <1>4, TailLine, RisesTail
  <2>2. h \in Seq(Requests) /\ Range(h) = {Head(group)} /\ RisesBy(h, f)
    BY <1>1, OneLine, RisesOne
  <2> HIDE DEF h, t
  <2>3. started' = started \o h /\ carry' = t \o carry
    BY <1>2, <1>8 DEF h, t
  <2>4. /\ PrecedesBy(Range(started), Range(h), f) /\ PrecedesBy(Range(t), Range(carry), f)
        /\ PrecedesBy(Range(t), Range(pending), f)
    BY <1>4, <2>1, <2>2 DEF PrecedesBy, Queued
  <2>5. /\ Range(started') = Range(started) \cup Range(h) /\ RisesBy(started', f)
    BY <1>1, <1>4, <2>2, <2>3, <2>4, ConcatLine, RisesConcat
  <2>6. Range(carry') = Range(t) \cup Range(carry) /\ RisesBy(carry', f)
    BY <1>1, <1>4, <2>1, <2>3, <2>4, ConcatLine, RisesConcat
  <2>7. PrecedesBy(Range(carry'), Range(pending), f)
    BY <1>4, <2>4, <2>6 DEF PrecedesBy
  <2>8. Queued' = Range(t) \cup Queued
    BY <1>2, <2>6 DEF Queued
  <2>9. PrecedesBy(Range(started'), Queued', f)
    BY <1>4, <2>1, <2>2, <2>5, <2>8 DEF PrecedesBy
  <2>10. Range(started') \subseteq Range(admitted)
    BY <1>4, <1>5, <2>1, <2>2, <2>5
  <2> QED
    BY <1>6, <2>5, <2>6, <2>7, <2>9, <2>10
<1> QED
  BY <1>2, <1>7, <1>8

\* A joiner is the next in line, and the last started.
LEMMA JoinOrder ==
  ASSUME IInv, Places, InOrder, Join
  PROVE  InOrder'
<1> SUFFICES ASSUME Order = "fifo" PROVE InOrder'
  BY DEF InOrder
<1>1. PICK r \in Requests :
        Take(r) /\ joined' = Append(joined, r) /\ started' = Append(started, r)
  BY DEF Join
<1>2. /\ started \in Seq(Requests) /\ joined \in Seq(Requests) /\ QueueType
      /\ admitted' = admitted /\ pc = "serve" /\ pc' = "serve"
  BY DEF Join, MayJoin, IInv, TypeOK, SchedulerType
<1>3. Ranks' = Ranks
  BY <1>2 DEF Ranks, Rank
<1> DEFINE f == Ranks
<1>4. /\ RisesBy(started, f) /\ RisesBy(carry, f) /\ RisesBy(pending, f)
      /\ PrecedesBy(Range(started), Queued, f) /\ PrecedesBy(Range(carry), Range(pending), f)
      /\ Range(started) \subseteq Range(admitted)
  BY DEF InOrder
<1>5. PICK s \in Seq(Requests) : started = s \o joined
  BY <1>2 DEF InOrder
<1> HIDE DEF f
<1>6. /\ RisesBy(carry', f) /\ RisesBy(pending', f)
      /\ PrecedesBy(Range(carry'), Range(pending'), f) /\ PrecedesBy({r}, Queued', f)
  BY <1>1, <1>2, <1>4, TakeOrder DEF Places
<1>7. r \in Queued /\ Queued' = Queued \ {r} /\ r \in Range(admitted)
  BY <1>1, <1>2, TakeLine DEF Places, Registered
<1>8. Range(started') = Range(started) \cup {r} /\ RisesBy(started', f)
  <2>1. PrecedesBy(Range(started), {r}, f)
    BY <1>4, <1>7 DEF PrecedesBy
  <2> QED
    BY <1>1, <1>2, <1>4, <2>1, AppendLine, RisesAppend
<1>9. PrecedesBy(Range(started'), Queued', f)
  BY <1>4, <1>6, <1>7, <1>8 DEF PrecedesBy
<1>10. started' = s \o joined'
  <2> DEFINE o == <<r>>
  <2>1. o \in Seq(Requests) /\ Append(joined, r) = joined \o o /\ Append(started, r) = started \o o
    BY <1>2
  <2> HIDE DEF o
  <2>2. (s \o joined) \o o = s \o (joined \o o)
    BY ONLY <1>2, <2>1, s \in Seq(Requests), ConcatAssociative
  <2> QED
    BY <1>1, <1>5, <2>1, <2>2
<1> QED
  BY <1>2, <1>3, <1>4, <1>6, <1>7, <1>8, <1>9, <1>10 DEF InOrder, f

\* A request that may not join keeps its place at the head of the line.
LEMMA JoinDeclinedOrder ==
  ASSUME IInv, Places, InOrder, JoinDeclined
  PROVE  InOrder'
<1> SUFFICES ASSUME Order = "fifo" PROVE InOrder'
  BY DEF InOrder
<1>1. pending \in Seq(Requests) /\ pending # <<>>
  BY DEF JoinDeclined, IInv, TypeOK, QueueType
<1>2. /\ UNCHANGED <<admitted, started, pc, joined>> /\ pc = "serve"
      /\ carry' = <<Head(pending)>> /\ pending' = Tail(pending)
  BY DEF JoinDeclined, MayJoin, schedVars
<1>3. Ranks' = Ranks
  BY <1>2 DEF Ranks, Rank
<1> DEFINE f == Ranks
<1>4. /\ RisesBy(started, f) /\ RisesBy(pending, f) /\ PrecedesBy(Range(started), Queued, f)
      /\ Range(started) \subseteq Range(admitted)
      /\ \E s \in Seq(Requests) : started = s \o joined
  BY <1>2 DEF InOrder
<1> HIDE DEF f
<1>5. /\ Range(pending) = {Head(pending)} \cup Range(Tail(pending))
      /\ RisesBy(Tail(pending), f) /\ PrecedesBy({Head(pending)}, Range(Tail(pending)), f)
  BY <1>1, <1>4, TailLine, RisesTail
<1>6. Range(carry') = {Head(pending)} /\ RisesBy(carry', f)
  BY <1>2, OneLine, RisesOne
<1>7. Queued' \subseteq Queued
  BY <1>2, <1>5, <1>6 DEF Queued
<1>8. PrecedesBy(Range(started), Queued', f)
  BY <1>4, <1>7 DEF PrecedesBy
<1> QED
  BY <1>2, <1>3, <1>4, <1>5, <1>6, <1>8 DEF InOrder, f

\* The joiners handed back are the last that were started, so they come before all others.
LEMMA GroupDoneOrder ==
  ASSUME IInv, Places, InOrder, GroupDone
  PROVE  InOrder'
<1> SUFFICES ASSUME Order = "fifo" PROVE InOrder'
  BY DEF InOrder
<1>1. joined \in Seq(Requests) /\ carry \in Seq(Requests) /\ started \in Seq(Requests)
  BY DEF IInv, TypeOK, QueueType, SchedulerType
<1>2. PICK k \in 0..Len(joined) :
        /\ carry' = SubSeq(joined, k + 1, Len(joined)) \o carry
        /\ started' = SubSeq(started, 1, Len(started) - Len(SubSeq(joined, k + 1, Len(joined))))
  BY DEF GroupDone
<1>3. /\ UNCHANGED <<pending, admitted>> /\ pc = "serve" /\ pc' = "drain"
  BY DEF GroupDone
<1>4. PICK s \in Seq(Requests) : started = s \o joined
  BY <1>3 DEF InOrder
<1> DEFINE kept == SubSeq(joined, 1, k)
           back == SubSeq(joined, k + 1, Len(joined))
           first == s \o kept
<1>5. kept \in Seq(Requests) /\ back \in Seq(Requests) /\ joined = kept \o back
  BY <1>1, <1>2, CutLine
<1>6. carry' = back \o carry /\ started' = SubSeq(started, 1, Len(started) - Len(back))
  BY <1>2
<1> HIDE DEF kept, back
<1>7. first \in Seq(Requests) /\ started = first \o back
  <2>1. (s \o kept) \o back = s \o (kept \o back)
    BY ONLY <1>5, s \in Seq(Requests), ConcatAssociative
  <2>2. s \o kept \in Seq(Requests)
    BY <1>5
  <2>3. started = s \o (kept \o back)
    BY <1>4, <1>5
  <2> QED
    BY <2>1, <2>2, <2>3
<1> HIDE DEF first
<1>8. started' = first
  <2>1. Len(started) = Len(first) + Len(back) /\ Len(first) \in Nat /\ Len(back) \in Nat
    BY <1>5, <1>7, ConcatProperties
  <2>2. Len(started) - Len(back) = Len(first)
    BY <2>1
  <2>3. SubSeq(first \o back, 1, Len(first)) = first
    BY <1>5, <1>7
  <2> QED
    BY <1>6, <1>7, <2>2, <2>3
<1>9. Ranks' = Ranks
  BY <1>3 DEF Ranks, Rank
<1> DEFINE f == Ranks
<1>10. /\ RisesBy(started, f) /\ RisesBy(carry, f) /\ RisesBy(pending, f)
       /\ PrecedesBy(Range(started), Queued, f) /\ PrecedesBy(Range(carry), Range(pending), f)
       /\ Range(started) \subseteq Range(admitted)
  BY DEF InOrder
<1> HIDE DEF f
<1>11. /\ RisesBy(first, f) /\ RisesBy(back, f) /\ PrecedesBy(Range(first), Range(back), f)
       /\ Range(started) = Range(first) \cup Range(back)
  <2>1. RisesBy(first \o back, f)
    BY <1>7, <1>10
  <2>2. Range(first \o back) = Range(first) \cup Range(back)
    BY <1>5, <1>7, ConcatLine
  <2> QED
    BY <1>5, <1>7, <2>1, <2>2, RisesConcat
<1>12. Range(carry') = Range(back) \cup Range(carry) /\ RisesBy(carry', f)
  <2>1. PrecedesBy(Range(back), Range(carry), f)
    BY <1>10, <1>11 DEF PrecedesBy, Queued
  <2> QED
    BY <1>1, <1>5, <1>6, <1>10, <1>11, <2>1, ConcatLine, RisesConcat
<1>13. Queued' = Range(back) \cup Queued
  BY <1>3, <1>12 DEF Queued
<1>14. PrecedesBy(Range(first), Queued', f) /\ PrecedesBy(Range(carry'), Range(pending), f)
  BY <1>10, <1>11, <1>12, <1>13 DEF PrecedesBy, Queued
<1> QED
  BY <1>3, <1>8, <1>9, <1>10, <1>11, <1>12, <1>14 DEF InOrder, f

\* What still waits is dropped.
LEMMA CloseDropOrder ==
  ASSUME IInv, InOrder, CloseDrop
  PROVE  InOrder'
<1>1. /\ UNCHANGED <<admitted, started, pc, group, joined>> /\ carry' = <<>> /\ pending' = <<>>
  BY DEF CloseDrop, schedVars
<1>2. Range(carry') = {} /\ Range(pending') = {} /\ Queued' = {}
  BY <1>1 DEF Range, Queued
<1>3. Ranks' = Ranks
  BY <1>1 DEF Ranks, Rank
<1>4. RisesBy(carry', Ranks) /\ RisesBy(pending', Ranks)
  BY <1>1, RisesOne
<1>5. \A S : PrecedesBy(S, {}, Ranks)
  BY DEF PrecedesBy
<1> QED
  BY <1>1, <1>2, <1>3, <1>4, <1>5 DEF InOrder

\* Every step keeps the line in order.
LEMMA NextInOrder ==
  ASSUME IInv, Places, PutBack, InOrder, [Next]_vars
  PROVE  InOrder'
<1> USE DEF queueVars, callerVars, schedVars, workerVars, deliveryVars, closeVars
<1>1. ASSUME NEW r \in Requests, CallerStep(r) PROVE InOrder'
  <2>1. CASE Admit(r)
    BY <2>1, AdmitOrder, NextIInv
  <2>2. CASE Refuse(r) \/ Cancel(r) \/ Expire(r) \/ CallerRead(r) \/ CallerStops(r) \/ CallerLeaves(r)
    BY <2>2, OrderFrame DEF Refuse, Cancel, Expire, CallerRead, CallerStops, CallerLeaves
  <2> QED
    BY <1>1, <2>1, <2>2 DEF CallerStep
<1>2. ASSUME NEW r \in Requests, WorkerToken(r) \/ WorkerEnd(r) \/ Delivery(r) PROVE InOrder'
  BY <1>2, OrderFrame DEF WorkerToken, WorkerEnd, Delivery, ConsumeToken, ConsumeDone,
     ConsumeFailure, Record, Drain
<1>3. CASE Age \/ Recover \/ StartGather \/ GroupDrained \/ Exit \/ Retire
  BY <1>3, OrderFrame DEF Age, Recover, StartGather, GroupDrained, Exit, Retire
<1>4. CASE WorkerCrash \/ CloseBegin \/ CloseCancel \/ CloseBackend
  BY <1>4, OrderFrame DEF WorkerCrash, CloseBegin, CloseCancel, CloseBackend
<1>5. CASE NextSorted \/ OrderWaiting
  <2>1. Order # "fifo"
    BY <1>5 DEF NextSorted, OrderWaiting, PutBack
  <2> QED
    BY <2>1 DEF InOrder
<1>6. CASE Perform
  <2>1. /\ UNCHANGED <<pending, carry, admitted, started, joined>> /\ joined = <<>>
        /\ pc' \in {"serve", "retire"} /\ started \in Seq(Requests)
    BY <1>6 DEF Perform, IInv, TypeOK, SchedulerType, GroupHeld
  <2>2. started = started \o <<>>
    BY <2>1
  <2>3. Ranks' = Ranks /\ Queued' = Queued
    BY <2>1 DEF Ranks, Rank, Queued
  <2>4. \E s \in Seq(Requests) : started' = s \o joined'
    BY <2>1, <2>2
  <2> QED
    BY <2>1, <2>3, <2>4 DEF InOrder
<1>7. CASE Idle \/ UNCHANGED vars
  BY <1>7, OrderFrame DEF Idle, vars
<1> QED
  BY <1>1, <1>2, <1>3, <1>4, <1>5, <1>6, <1>7, FormingOrder, CloseGroupOrder, JoinOrder,
     JoinDeclinedOrder, GroupDoneOrder, CloseDropOrder
  DEF Next, SchedulerStep, CloseStep

\* What was started is in the order of admission.
LEMMA OrderLine ==
  ASSUME IInv, InOrder
  PROVE  ArrivalOrder
<1> SUFFICES ASSUME Order = "fifo", NEW i \in 1..Len(started), NEW j \in 1..Len(started), i < j
             PROVE  Rank(started[i]) < Rank(started[j])
  BY DEF ArrivalOrder
<1>1. started \in Seq(Requests) /\ QueueType
  BY DEF IInv, TypeOK, SchedulerType
<1>2. started[i] \in Range(admitted) /\ started[j] \in Range(admitted)
  BY <1>1, RangeSeq DEF InOrder
<1>3. Ranks[started[i]] < Ranks[started[j]]
  BY DEF InOrder, RisesBy
<1> QED
  BY <1>2, <1>3 DEF Ranks

\* Without a shortest-first order, requests are put on the worker in the order they were
\* admitted, through refused groups, declined joins and joiners handed back.
THEOREM ArrivalKept == Spec => []ArrivalOrder
<1>1. Init => IInv /\ Places /\ Stages /\ PutBack /\ InOrder
  <2>1. Init => PutBack
    BY BoundsAssumption DEF Init, PutBack
  <2>2. Init => InOrder
    <3> SUFFICES ASSUME Init PROVE InOrder
      OBVIOUS
    <3>1. Range(<<>>) = {}
      BY DEF Range
    <3> QED
      BY <3>1 DEF Init, InOrder, RisesBy, PrecedesBy, Queued
  <2> QED
    BY <2>1, <2>2, InitIInv, InitPlaces, InitStages
<1>2. IInv /\ Places /\ Stages /\ PutBack /\ InOrder /\ [Next]_vars
        => (IInv /\ Places /\ Stages /\ PutBack /\ InOrder)'
  BY NextIInv, NextPlaces, NextStages, NextPutBack, NextInOrder
<1>3. IInv /\ Places /\ Stages /\ PutBack /\ InOrder => ArrivalOrder
  BY OrderLine
<1> QED
  BY <1>1, <1>2, <1>3, PTL DEF Spec

-----------------------------------------------------------------------------
(* What is counted: CountedExactly *)

\* The requests the consumers are done with, and how many health() counts.
Handled == {r \in Requests : deliver[r] = "handled"}
Tally == count.completed + count.failed + count.cancelled

\* Every request ended is counted once; before a group is retired all of it has been ended.
Settled ==
  /\ IsFiniteSet(Handled) /\ Tally = Cardinality(Handled)
  /\ pc \in {"serve", "drain"} => Range(group) \ live \subseteq Handled
  /\ pc = "retire" => Held \subseteq Handled

\* Steps that end nobody.
LEMMA SettledFrame ==
  ASSUME Settled, Handled' = Handled, count' = count,
         pc' \in {"serve", "drain"} => pc \in {"serve", "drain"} /\ UNCHANGED <<group, live>>,
         pc' = "retire" => pc = "retire" /\ Held' \subseteq Held
  PROVE  Settled'
<1>1. Tally' = Tally
  BY DEF Tally
<1>2. pc' \in {"serve", "drain"} => Range(group)' = Range(group)
  OBVIOUS
<1> QED
  BY <1>1, <1>2 DEF Settled

\* One counter goes up by one.
LEMMA TallyStep ==
  ASSUME DeliveryType,
         \/ count' = [count EXCEPT !.completed = @ + 1]
         \/ count' = [count EXCEPT !.failed = @ + 1]
         \/ count' = [count EXCEPT !.cancelled = @ + 1]
  PROVE  Tally' = Tally + 1
<1>1. /\ count.completed \in Nat /\ count.failed \in Nat /\ count.cancelled \in Nat
      /\ count \in [completed : Nat, failed : Nat, cancelled : Nat]
  BY DEF DeliveryType
<1>2. CASE count' = [count EXCEPT !.completed = @ + 1]
  <2>1. /\ count'.completed = count.completed + 1 /\ count'.failed = count.failed
        /\ count'.cancelled = count.cancelled
    BY <1>1, <1>2
  <2> QED
    BY <1>1, <2>1 DEF Tally
<1>3. CASE count' = [count EXCEPT !.failed = @ + 1]
  <2>1. /\ count'.completed = count.completed /\ count'.failed = count.failed + 1
        /\ count'.cancelled = count.cancelled
    BY <1>1, <1>3
  <2> QED
    BY <1>1, <2>1 DEF Tally
<1>4. CASE count' = [count EXCEPT !.cancelled = @ + 1]
  <2>1. /\ count'.completed = count.completed /\ count'.failed = count.failed
        /\ count'.cancelled = count.cancelled + 1
    BY <1>1, <1>4
  <2> QED
    BY <1>1, <2>1 DEF Tally
<1> QED
  BY <1>2, <1>3, <1>4

\* A consumer goes on, or ends a request it had not ended.
LEMMA DeliverySettled ==
  ASSUME IInv, Settled, NEW r \in Requests, Delivery(r)
  PROVE  Settled'
<1>1. /\ UNCHANGED <<pc, group, live, joined>> /\ deliver[r] # "handled"
      /\ deliver \in [Requests -> DeliverStates]
      /\ DeliveryType
  BY DEF Delivery, ConsumeToken, ConsumeDone, ConsumeFailure, Record, Drain, Consuming, schedVars, IInv,
         TypeOK, DeliveryType
<1>2. \/ /\ count' = count
         /\ \/ deliver' = deliver
            \/ \E d \in {"draining"} \cup Answered : deliver' = [deliver EXCEPT ![r] = d]
      \/ Record(r)
  BY DEF Delivery, ConsumeToken, ConsumeDone, ConsumeFailure, Record, Drain, BeginDrain,
         FinishCancelled, FinishFailed, FinishOk
<1>3. CASE /\ count' = count
           /\ \/ deliver' = deliver
              \/ \E d \in {"draining"} \cup Answered : deliver' = [deliver EXCEPT ![r] = d]
  <2>1. Handled' = Handled
    BY <1>1, <1>3 DEF Handled
  <2> QED
    BY <1>1, <1>3, <2>1, SettledFrame DEF Held
<1>4. CASE Record(r)
  <2>1. Handled' = Handled \cup {r} /\ r \notin Handled
    BY <1>1, <1>4 DEF Record, Handled
  <2>2. IsFiniteSet(Handled') /\ Cardinality(Handled') = Cardinality(Handled) + 1
    BY <2>1, FS_AddElement DEF Settled
  <2>3. Tally' = Tally + 1
    BY <1>1, <1>4, RecordCount, TallyStep
  <2>4. Held' = Held /\ Range(group)' = Range(group)
    BY <1>1 DEF Held
  <2> QED
    BY <1>1, <2>1, <2>2, <2>3, <2>4 DEF Settled
<1> QED
  BY <1>2, <1>3, <1>4

\* Members that were cancelled, expired or left without a worker are ended here.
LEMMA PerformSettled ==
  ASSUME IInv, Stages, Settled, Perform
  PROVE  Settled'
<1> DEFINE gone == {r \in Range(group) : cancelled[r]}
           failed == {r \in Range(group) \ gone : expired[r] \/ worker # "ready"}
           rest == Range(group) \ (gone \cup failed)
<1>1. /\ live' = rest /\ pc' = (IF rest = {} THEN "retire" ELSE "serve") /\ pc = "perform"
      /\ UNCHANGED <<group, joined>> /\ joined = <<>>
      /\ count' = [count EXCEPT !.cancelled = @ + Cardinality(gone),
                                !.failed = @ + Cardinality(failed)]
  BY DEF Perform, IInv, GroupHeld
<1>2. \A r \in Requests :
        /\ r \in rest => deliver'[r] # "handled"
        /\ r \in gone \cup failed => deliver'[r] = "handled"
        /\ r \notin Range(group) => deliver'[r] = deliver[r]
  BY DEF Perform
<1>3. /\ Range(group) = rest \cup gone \cup failed /\ gone \cap failed = {}
      /\ gone \subseteq Range(group) /\ failed \subseteq Range(group)
  OBVIOUS
<1> HIDE DEF gone, failed, rest
<1>4. group \in Seq(Requests) /\ Range(group) \subseteq Requests /\ Range(joined) = {}
  BY <1>1, RangeSeq DEF IInv, TypeOK, SchedulerType
<1>5. \A r \in Range(group) : deliver[r] # "handled"
  BY <1>1 DEF Stages, Untouched
<1>6. /\ IsFiniteSet(gone) /\ Cardinality(gone) \in Nat
      /\ IsFiniteSet(failed) /\ Cardinality(failed) \in Nat
  BY <1>3, <1>4, FiniteRange
<1>7. Handled' = Handled \cup (gone \cup failed) /\ Handled \cap (gone \cup failed) = {}
  BY <1>2, <1>3, <1>4, <1>5 DEF Handled
<1>8. /\ IsFiniteSet(gone \cup failed)
      /\ Cardinality(gone \cup failed) = Cardinality(gone) + Cardinality(failed)
  <2>1. Cardinality(gone \cap failed) = 0
    BY <1>3, FS_EmptySet
  <2>2. /\ IsFiniteSet(gone \cup failed)
        /\ Cardinality(gone \cup failed)
             = Cardinality(gone) + Cardinality(failed) - Cardinality(gone \cap failed)
    BY <1>6, FS_Union
  <2> QED
    BY <1>6, <2>1, <2>2
<1>9. /\ IsFiniteSet(Handled')
      /\ Cardinality(Handled') = Cardinality(Handled) + Cardinality(gone) + Cardinality(failed)
  <2>1. Cardinality(Handled \cap (gone \cup failed)) = 0
    BY <1>7, FS_EmptySet
  <2>2. IsFiniteSet(Handled) /\ Cardinality(Handled) \in Nat
    BY FS_CardinalityType DEF Settled
  <2>3. /\ IsFiniteSet(Handled \cup (gone \cup failed))
        /\ Cardinality(Handled \cup (gone \cup failed))
             = Cardinality(Handled) + Cardinality(gone \cup failed)
                 - Cardinality(Handled \cap (gone \cup failed))
    BY <1>8, <2>2, FS_Union
  <2> QED
    BY <1>6, <1>7, <1>8, <2>1, <2>2, <2>3
<1>10. Tally' = Tally + Cardinality(gone) + Cardinality(failed)
  <2>1. count \in [completed : Nat, failed : Nat, cancelled : Nat]
    BY DEF IInv, TypeOK, DeliveryType
  <2> QED
    BY <1>1, <1>6, <2>1 DEF Tally
<1>11. IsFiniteSet(Handled') /\ Tally' = Cardinality(Handled')
  BY <1>9, <1>10 DEF Settled
<1>12. Range(group)' \ live' \subseteq Handled' /\ (pc' = "retire" => Held' \subseteq Handled')
  <2>1. Range(group)' = Range(group) /\ Range(joined)' = {}
    BY <1>1, <1>4
  <2> QED
    BY <1>1, <1>3, <1>7, <2>1 DEF Held
<1>13. pc' # "drain"
  BY <1>1
<1> QED
  BY <1>11, <1>12 DEF Settled

\* The worker has answered, or the consumers have finished.
LEMMA DoneSettled ==
  ASSUME IInv, Stages, Settled, GroupDone \/ GroupDrained
  PROVE  Settled'
<1>1. CASE GroupDone
  <2>1. pc = "serve" /\ pc' = "drain" /\ UNCHANGED <<group, live, count>>
    BY <1>1 DEF GroupDone
  <2>2. PICK k \in 0..Len(joined) :
          /\ \A r \in Range(SubSeq(joined, k + 1, Len(joined))) : deliver[r] = "unheard"
          /\ deliver' = [r \in Requests |->
                           IF r \in Range(SubSeq(joined, k + 1, Len(joined))) THEN "none"
                           ELSE IF deliver[r] = "held" THEN "consuming"
                           ELSE deliver[r]]
    BY <1>1 DEF GroupDone
  <2> DEFINE back == Range(SubSeq(joined, k + 1, Len(joined)))
  <2>3. /\ \A r \in back : deliver[r] = "unheard"
        /\ \A r \in Requests : deliver'[r] = IF r \in back THEN "none"
                                             ELSE IF deliver[r] = "held" THEN "consuming"
                                             ELSE deliver[r]
    BY <2>2
  <2> HIDE DEF back
  <2>4. \A r \in Requests : deliver'[r] = "handled" <=> deliver[r] = "handled"
    BY <2>3
  <2>5. Handled' = Handled
    BY <2>4 DEF Handled
  <2> QED
    BY <2>1, <2>5, SettledFrame
<1>2. CASE GroupDrained
  <2>1. /\ pc = "drain" /\ pc' = "retire" /\ UNCHANGED <<group, joined, live, count, deliver>>
        /\ \A r \in OnWorker : deliver[r] = "handled"
    BY <1>2 DEF GroupDrained, deliveryVars
  <2>2. OnWorker \subseteq Requests
    BY RangeSeq DEF IInv, TypeOK, SchedulerType, OnWorker
  <2>3. Held' = Held /\ Held \subseteq Handled /\ Handled' = Handled /\ Tally' = Tally
    BY <2>1, <2>2 DEF Held, Handled, OnWorker, Settled, Tally
  <2> QED
    BY <2>1, <2>3 DEF Settled
<1> QED
  BY <1>1, <1>2

\* Retiring takes a request from the group or its joiners.
LEMMA RetireSettled ==
  ASSUME IInv, Settled, Retire
  PROVE  Settled'
<1>1. /\ UNCHANGED <<deliver, count>> /\ pc = "retire" /\ pc' \in {"top", "retire"}
      /\ \/ joined # <<>> /\ joined' = Tail(joined) /\ group' = group
         \/ joined = <<>> /\ joined' = joined /\ group' = Tail(group)
  BY DEF Retire
<1>2. joined \in Seq(Requests) /\ group \in Seq(Requests) /\ (group # <<>> \/ joined # <<>>)
  BY <1>1 DEF IInv, TypeOK, SchedulerType, GroupHeld
<1>3. Held' \subseteq Held
  <2>1. CASE joined # <<>>
    <3>1. Range(Tail(joined)) \subseteq Range(joined)
      BY <1>2, <2>1, TailLine
    <3> QED
      BY <1>1, <2>1, <3>1 DEF Held
  <2>2. CASE joined = <<>>
    <3>1. Range(Tail(group)) \subseteq Range(group)
      BY <1>2, <2>2, TailLine
    <3> QED
      BY <1>1, <2>2, <3>1 DEF Held
  <2> QED
    BY <2>1, <2>2
<1>4. Handled' = Handled
  BY <1>1 DEF Handled
<1> QED
  BY <1>1, <1>3, <1>4, SettledFrame

\* The worker's frames, its loss and a new joiner end nobody.
LEMMA WorkSettled ==
  ASSUME IInv, Places, Stages, Settled,
         \/ Join \/ WorkerCrash \/ CloseBackend
         \/ \E r \in Requests : WorkerToken(r) \/ WorkerEnd(r)
  PROVE  Settled'
<1>1. deliver \in [Requests -> DeliverStates]
  BY DEF IInv, TypeOK, DeliveryType
<1>2. CASE Join
  <2>1. UNCHANGED <<pc, group, live, count>> /\ pc = "serve"
    BY <1>2 DEF Join, MayJoin
  <2>2. PICK r \in Requests : Take(r) /\ deliver' = [deliver EXCEPT ![r] = "unheard"]
    BY <1>2 DEF Join
  <2>3. r \in Queued
    BY <2>2, TakeLine DEF IInv, TypeOK, Places
  <2>4. deliver[r] = "none"
    BY <2>3 DEF Stages, Untouched
  <2>5. Handled' = Handled
    BY <1>1, <2>2, <2>4 DEF Handled
  <2> QED
    BY <2>1, <2>5, SettledFrame
<1>3. CASE WorkerCrash \/ CloseBackend
  <2>1. UNCHANGED <<pc, group, joined, live, count>> /\ WorkerGone
    BY <1>3 DEF WorkerCrash, CloseBackend, schedVars
  <2>2. Handled' = Handled
    BY <2>1 DEF WorkerGone, Handled
  <2> QED
    BY <2>1, <2>2, SettledFrame DEF Held
<1>4. CASE \E r \in Requests : WorkerToken(r) \/ WorkerEnd(r)
  <2>1. PICK r \in Requests : WorkerToken(r) \/ WorkerEnd(r)
    BY <1>4
  <2>2. UNCHANGED <<pc, group, joined, live, count>> /\ deliver' = Heard(r)
    BY <2>1 DEF WorkerToken, WorkerEnd, schedVars
  <2>3. Handled' = Handled
    BY <1>1, <2>2 DEF Heard, Handled
  <2> QED
    BY <2>2, <2>3, SettledFrame DEF Held
<1> QED
  BY <1>2, <1>3, <1>4

\* Every step counts what it ends.
LEMMA NextSettled ==
  ASSUME IInv, Places, Stages, Settled, [Next]_vars
  PROVE  Settled'
<1> USE DEF queueVars, callerVars, schedVars, workerVars, deliveryVars, closeVars
<1>1. ASSUME NEW r \in Requests, CallerStep(r) PROVE Settled'
  <2>1. UNCHANGED <<pc, group, joined, live, count, deliver>>
    BY <1>1 DEF CallerStep, Admit, Refuse, Cancel, Expire, CallerRead, CallerStops, CallerLeaves
  <2> QED
    BY <2>1, SettledFrame DEF Handled, Held
<1>2. CASE Age \/ Recover \/ JoinDeclined \/ CloseBegin \/ CloseCancel \/ CloseDrop \/ Idle
           \/ UNCHANGED vars
  <2>1. UNCHANGED <<pc, group, joined, live, count, deliver>>
    BY <1>2 DEF Age, Recover, JoinDeclined, CloseBegin, CloseCancel, CloseDrop, Idle, vars
  <2> QED
    BY <2>1, SettledFrame DEF Handled, Held
<1>3. CASE NextSession \/ NextSorted \/ OrderWaiting \/ TakeCompany \/ StartGather \/ CloseGroup
           \/ Exit
  <2>1. UNCHANGED <<count, deliver>> /\ pc' \notin {"serve", "drain", "retire"}
    BY <1>3 DEF NextSession, NextSorted, OrderWaiting, TakeCompany, StartGather, CloseGroup, Exit
  <2> QED
    BY <2>1, SettledFrame DEF Handled
<1> QED
  BY <1>1, <1>2, <1>3, DeliverySettled, PerformSettled, DoneSettled, RetireSettled, WorkSettled
  DEF Next, SchedulerStep, CloseStep

\* Nobody has been counted at the start.
LEMMA InitSettled == Init => Settled
<1> SUFFICES ASSUME Init PROVE Settled
  OBVIOUS
<1>1. Handled = {}
  BY DEF Init, Handled
<1>2. IsFiniteSet(Handled) /\ Cardinality(Handled) = 0
  BY <1>1, FS_EmptySet
<1> QED
  BY <1>2 DEF Init, Settled, Tally

\* The three counters of health() count every request the scheduler ended exactly once, and
\* none is retired uncounted, on every path through cancellation, failure and hand-back.
THEOREM CountedExactly == Spec => []CountedOnce
<1>1. Init => IInv /\ Places /\ Stages /\ Settled
  BY InitIInv, InitPlaces, InitStages, InitSettled
<1>2. IInv /\ Places /\ Stages /\ Settled /\ [Next]_vars => (IInv /\ Places /\ Stages /\ Settled)'
  BY NextIInv, NextPlaces, NextStages, NextSettled
<1>3. IInv /\ Settled => CountedOnce
  <2> SUFFICES ASSUME IInv, Settled PROVE CountedOnce
    OBVIOUS
  <2>1. Range(group \o joined) = Held
    BY ConcatLine DEF IInv, TypeOK, SchedulerType, Held
  <2> QED
    BY <2>1 DEF CountedOnce, Settled, Handled, Tally
<1> QED
  BY <1>1, <1>2, <1>3, PTL DEF Spec

-----------------------------------------------------------------------------
(* What callers are told: CallersAgree *)

\* What a request's caller has been told, or will read.
Said(r) == Range(events[r]) \cup {caller[r]}

\* Once the caller's terminal event is out.
Ended == Answered \cup {"handled"}

\* Before a request is ended its caller hears of no end, and until then nothing is recorded,
\* but what is recorded afterwards is what the caller may have heard.  Nobody is told
\* "cancelled": a request is cancelled at the worker only for a reason that ends its caller
\* first, its own stop string aside, and that is not reported as a cancellation.
ToldOf(r) ==
  /\ deliver[r] # "handled" => outcome[r] = "none"
  /\ deliver[r] \notin Ended => Said(r) \cap {"done", "error"} = {}
  /\ "done" \in Said(r) => outcome[r] = "ok" \/ deliver[r] = "ok"
  /\ "error" \in Said(r) => outcome[r] \in {"none", "failed"} /\ deliver[r] \in {"failed", "handled"}
  /\ "cancelled" \notin Range(events[r])
  /\ caller[r] = "cancelled" => cancelled[r] \/ closed
  /\ backendCancel[r] /\ deliver[r] \notin Ended => stopped[r] \/ EmitRefused(r)
  /\ "done_cancelled" \in Range(frames[r]) => backendCancel[r]
  /\ deliver[r] = "draining" => EmitRefused(r)

\* What is told about every request agrees with what is recorded.
Told == \A r \in Requests : ToldOf(r)

\* The reasons to stop a request never go away.
Lasting(r) ==
  /\ cancelled[r] => cancelled'[r]
  /\ expired[r] => expired'[r]
  /\ closed => closed'
  /\ stopped[r] => stopped'[r]
  /\ backendCancel[r] => backendCancel'[r]
  /\ "done_cancelled" \in Range(frames'[r]) =>
       "done_cancelled" \in Range(frames[r]) \/ backendCancel[r]

\* The step ends no request before its consumer does.
Quiet(r) == \/ deliver'[r] = deliver[r]
            \/ deliver[r] \notin Ended /\ deliver'[r] \notin Answered

\* A step that records no end of a request.
LEMMA ToldFrame ==
  ASSUME NEW r, ToldOf(r), Lasting(r), outcome'[r] = outcome[r],
         Quiet(r),
         \A e \in {"done", "error"} : e \in Said(r)' => e \in Said(r),
         "cancelled" \notin Range(events'[r]),
         caller'[r] = "cancelled" => caller[r] = "cancelled" \/ cancelled'[r] \/ closed',
         backendCancel'[r] => backendCancel[r] \/ stopped'[r] \/ EmitRefused(r)'
                              \/ deliver'[r] \in Ended,
         deliver'[r] = "draining" => deliver[r] = "draining" \/ EmitRefused(r)'
  PROVE  ToldOf(r)'
<1>1. EmitRefused(r) => EmitRefused(r)'
  BY DEF EmitRefused, Lasting
<1>2. Said(r) \cap {"done", "error"} = {} => Said(r)' \cap {"done", "error"} = {}
  OBVIOUS
<1> QED
  BY <1>1, <1>2 DEF ToldOf, Lasting, Quiet, Ended

\* A step that says nothing about a request to anybody.
LEMMA ToldSame ==
  ASSUME NEW r, ToldOf(r), Lasting(r), outcome'[r] = outcome[r], events'[r] = events[r],
         caller'[r] = caller[r],
         Quiet(r),
         backendCancel'[r] => backendCancel[r] \/ stopped'[r] \/ EmitRefused(r)',
         deliver'[r] = "draining" => deliver[r] = "draining"
  PROVE  ToldOf(r)'
<1>1. Said(r)' = Said(r)
  BY DEF Said
<1>2. "cancelled" \notin Range(events'[r]) /\ (caller[r] = "cancelled" => cancelled'[r] \/ closed')
  BY DEF ToldOf, Lasting
<1> QED
  BY <1>1, <1>2, ToldFrame

\* Nothing about a request changes.
LEMMA ToldStill ==
  ASSUME NEW r, ToldOf(r), outcome'[r] = outcome[r], events'[r] = events[r], caller'[r] = caller[r],
         deliver'[r] = deliver[r], frames'[r] = frames[r], stopped'[r] = stopped[r],
         cancelled[r] => cancelled'[r], expired'[r] = expired[r], closed => closed',
         backendCancel[r] => backendCancel'[r],
         backendCancel'[r] => backendCancel[r] \/ cancelled'[r]
  PROVE  ToldOf(r)'
<1>1. Lasting(r)
  BY DEF Lasting
<1>2. backendCancel'[r] => backendCancel[r] \/ EmitRefused(r)'
  BY DEF EmitRefused
<1> QED
  BY <1>1, <1>2, ToldSame DEF Quiet

\* The types the steps below read.
LEMMA ToldType ==
  ASSUME IInv
  PROVE  /\ cancelled \in [Requests -> BOOLEAN] /\ backendCancel \in [Requests -> BOOLEAN]
         /\ expired \in [Requests -> BOOLEAN] /\ events \in [Requests -> Seq(EventKinds)]
         /\ caller \in [Requests -> CallerStates] /\ frames \in [Requests -> Seq(FrameKinds)]
         /\ deliver \in [Requests -> DeliverStates]
         /\ stopped \in [Requests -> BOOLEAN]
         /\ outcome \in [Requests -> {"none", "ok", "cancelled", "failed"}]
         /\ closed \in BOOLEAN
BY DEF IInv, TypeOK, CallerType, DeliveryType, CloseType

\* What callers do.
LEMMA CallerTold ==
  ASSUME IInv, Told, NEW r \in Requests, CallerStep(r)
  PROVE  Told'
<1>1. UNCHANGED <<frames, deliver, stopped, outcome, closed>>
  BY DEF CallerStep, Admit, Refuse, Cancel, Expire, CallerRead, CallerStops, CallerLeaves,
         deliveryVars, closeVars
<1>2. /\ (cancelled' = cancelled /\ backendCancel' = backendCancel) \/ CancelSession(r)
      /\ expired' = expired \/ expired' = [expired EXCEPT ![r] = TRUE]
  BY DEF CallerStep, Admit, Refuse, Cancel, Expire, CallerRead, CallerStops, CallerLeaves, callerVars
<1>3. \A s \in Requests : /\ cancelled[s] => cancelled'[s]
                          /\ backendCancel[s] => backendCancel'[s]
                          /\ backendCancel'[s] => backendCancel[s] \/ cancelled'[s]
                          /\ expired[s] => expired'[s]
  <2>1. \A s \in Requests : expired[s] => expired'[s]
    BY <1>2, ToldType
  <2>2. CASE cancelled' = cancelled /\ backendCancel' = backendCancel
    BY <2>1, <2>2
  <2>3. CASE CancelSession(r)
    <3>1. \A s \in Requests \ {r} : cancelled'[s] = cancelled[s] /\ backendCancel'[s] = backendCancel[s]
      BY <2>3, ToldType, Zenon DEF CancelSession
    <3>2. /\ cancelled'[r] <=> cancelled[r] \/ r \in sessions
          /\ backendCancel'[r] <=> backendCancel[r] \/ r \in sessions
      BY <2>3, ToldType, Zenon DEF CancelSession
    <3> QED
      BY <2>1, <3>1, <3>2
  <2> QED
    BY <1>2, <2>2, <2>3
<1>4. \A s \in Requests : ToldOf(s) /\ Lasting(s)
  BY <1>1, <1>3 DEF Told, Lasting
<1>5. \A s \in Requests : backendCancel'[s] => backendCancel[s] \/ EmitRefused(s)'
  BY <1>3 DEF EmitRefused
<1>6. ASSUME NEW s \in Requests, s # r PROVE ToldOf(s)'
  <2>1. events'[s] = events[s] /\ caller'[s] = caller[s]
    BY <1>6, ToldType DEF CallerStep, Admit, Refuse, Cancel, Expire, CallerRead, CallerStops,
       CallerLeaves, callerVars
  <2> QED
    BY <1>1, <1>4, <1>5, <2>1, ToldSame DEF Quiet
<1>7. CASE CallerRead(r)
  <2>1. /\ events[r] \in Seq(EventKinds) /\ events[r] # <<>> /\ events'[r] = Tail(events[r])
        /\ caller'[r] \in {caller[r], Head(events[r])}
    BY <1>7, ToldType DEF CallerRead
  <2>2. Range(events[r]) = {Head(events[r])} \cup Range(events'[r])
    BY <2>1, TailLine
  <2>3. Said(r)' \subseteq Said(r)
    BY <2>1, <2>2 DEF Said
  <2>4. "cancelled" \notin Range(events[r])
    BY <1>4 DEF ToldOf
  <2>5. "cancelled" \notin Range(events'[r]) /\ (caller'[r] = "cancelled" => caller[r] = "cancelled")
    BY <2>1, <2>2, <2>4
  <2>6. ToldOf(r)'
    BY <1>1, <1>4, <1>5, <2>3, <2>5, ToldFrame DEF Quiet
  <2> QED
    BY <1>6, <2>6 DEF Told
<1>8. CASE Admit(r) \/ Refuse(r) \/ Cancel(r) \/ Expire(r) \/ CallerStops(r) \/ CallerLeaves(r)
  <2>1. /\ events' = events
        /\ caller'[r] \in {caller[r], "open", "refused", "cancelled", "timeout", "gone"}
    BY <1>8, ToldType DEF Admit, Refuse, Cancel, Expire, CallerStops, CallerLeaves, callerVars
  <2>2. caller'[r] = "cancelled" => caller[r] = "cancelled" \/ cancelled'[r] \/ closed'
    BY <1>1, <1>3, <1>8, ToldType DEF Admit, Refuse, Cancel, Expire, CallerStops, CallerLeaves,
       callerVars
  <2>3. \A e \in {"done", "error"} : e \in Said(r)' => e \in Said(r)
    BY <2>1 DEF Said
  <2>4. "cancelled" \notin Range(events'[r])
    BY <1>4, <2>1 DEF ToldOf
  <2>5. ToldOf(r)'
    BY <1>1, <1>4, <1>5, <2>2, <2>3, <2>4, ToldFrame DEF Quiet
  <2> QED
    BY <1>6, <2>5 DEF Told
<1> QED
  BY <1>7, <1>8 DEF CallerStep


\* A request is cancelled when its caller is past hearing of it.
LEMMA FinishCancelledTold ==
  ASSUME IInv, NEW r \in Requests, ToldOf(r), deliver[r] \in {"consuming", "draining"},
         EmitRefused(r), FinishCancelled(r), UNCHANGED <<cancelled, expired, caller, closed>>
  PROVE  ToldOf(r)'
<1>1. /\ events'[r] = events[r] /\ caller'[r] = caller[r] /\ deliver'[r] = "cancelled"
      /\ backendCancel'[r] = TRUE /\ outcome'[r] = "none"
  BY ToldType DEF FinishCancelled, Emitted, ToldOf
<1>2. Said(r)' = Said(r) /\ Said(r) \cap {"done", "error"} = {}
  BY <1>1 DEF Said, ToldOf, Ended
<1> QED
  BY <1>1, <1>2 DEF ToldOf, Ended

\* The done event reaches the caller before the record.
LEMMA FinishOkTold ==
  ASSUME IInv, NEW r \in Requests, ToldOf(r), deliver[r] \in {"consuming", "draining"}, FinishOk(r),
         Lasting(r), UNCHANGED <<cancelled, expired, caller, closed>>
  PROVE  ToldOf(r)'
<1>1. /\ events'[r] = Append(events[r], "done") /\ caller'[r] = caller[r]
      /\ deliver'[r] = "ok" /\ outcome'[r] = "none" /\ events[r] \in Seq(EventKinds)
  BY ToldType DEF FinishOk, ToldOf
<1>2. Range(events'[r]) = Range(events[r]) \cup {"done"}
  BY <1>1, AppendLine DEF EventKinds
<1>3. Said(r)' = Said(r) \cup {"done"} /\ Said(r) \cap {"done", "error"} = {}
  BY <1>1, <1>2 DEF Said, ToldOf, Ended
<1> QED
  BY <1>1, <1>2, <1>3 DEF ToldOf, Lasting, Ended

\* A failure is reported before it is counted.
LEMMA FinishFailedTold ==
  ASSUME IInv, NEW r \in Requests, ToldOf(r), deliver[r] \in {"consuming", "draining"},
         FinishFailed(r), Lasting(r), UNCHANGED <<cancelled, expired, caller, closed>>
  PROVE  ToldOf(r)'
<1>1. /\ events'[r] \in {events[r], Append(events[r], "error")} /\ caller'[r] = caller[r]
      /\ deliver'[r] = "failed" /\ outcome'[r] = "none" /\ events[r] \in Seq(EventKinds)
  BY ToldType DEF FinishFailed, Emitted, ToldOf
<1>2. Range(Append(events[r], "error")) = Range(events[r]) \cup {"error"}
  BY <1>1, AppendLine DEF EventKinds
<1>3. Range(events'[r]) \subseteq Range(events[r]) \cup {"error"}
  BY <1>1, <1>2
<1>4. Said(r)' \subseteq Said(r) \cup {"error"} /\ Said(r) \cap {"done", "error"} = {}
  BY <1>1, <1>3 DEF Said, ToldOf, Ended
<1> QED
  BY <1>1, <1>3, <1>4 DEF ToldOf, Lasting, Ended

\* What is recorded is what the caller may have heard.
LEMMA RecordTold ==
  ASSUME IInv, Told, NEW r \in Requests, Record(r)
  PROVE  Told'
<1>1. UNCHANGED <<cancelled, backendCancel, expired, events, caller, frames, stopped, closed>>
  BY DEF Record, callerVars, closeVars
<1>2. ASSUME NEW s \in Requests, s # r PROVE ToldOf(s)'
  <2>1. outcome'[s] = outcome[s] /\ deliver'[s] = deliver[s]
    BY <1>2, ToldType DEF Record
  <2> QED
    BY <1>1, <2>1, ToldStill DEF Told
<1>3. ToldOf(r)'
  <2>1. /\ deliver[r] \in {"ok", "failed", "cancelled"} /\ deliver'[r] = "handled"
        /\ outcome'[r] = IF deliver[r] = "failed" THEN outcome[r] ELSE deliver[r]
    BY ToldType DEF Record
  <2>2. Said(r)' = Said(r) /\ ToldOf(r)
    BY <1>1 DEF Said, Told
  <2>3. outcome[r] = "none"
    BY <2>1, <2>2 DEF ToldOf
  <2>4. /\ "done" \in Said(r) => deliver[r] = "ok"
        /\ "error" \in Said(r) => deliver[r] = "failed"
    BY <2>1, <2>2, <2>3 DEF ToldOf
  <2> QED
    BY <1>1, <2>1, <2>2, <2>3, <2>4 DEF ToldOf, Ended
<1> QED
  BY <1>2, <1>3 DEF Told

\* A consumer's step.
LEMMA DeliveryTold ==
  ASSUME IInv, Told, NEW r \in Requests, Delivery(r), ~Record(r)
  PROVE  Told'
<1>1. /\ UNCHANGED <<cancelled, expired, caller, closed>>
      /\ deliver[r] \in {"consuming", "draining"} /\ frames[r] # <<>>
  BY DEF Delivery, ConsumeToken, ConsumeDone, ConsumeFailure, Drain, Consuming, closeVars
<1>2. ToldOf(r) /\ frames[r] \in Seq(FrameKinds)
  BY ToldType DEF Told
<1>3. ASSUME NEW s \in Requests, s # r PROVE ToldOf(s)'
  <2>1. /\ outcome'[s] = outcome[s] /\ events'[s] = events[s] /\ deliver'[s] = deliver[s]
        /\ frames'[s] = frames[s] /\ stopped'[s] = stopped[s]
        /\ backendCancel'[s] = backendCancel[s]
    BY <1>3, ToldType DEF Delivery, ConsumeToken, ConsumeDone, ConsumeFailure, Drain, BeginDrain,
       FinishCancelled, FinishFailed, FinishOk
  <2> QED
    BY <1>1, <1>3, <2>1, ToldStill DEF Told
<1>4. frames'[r] \in {Tail(frames[r]), <<>>}
  BY ToldType DEF Delivery, ConsumeToken, ConsumeDone, ConsumeFailure, Drain
<1>5. Range(frames'[r]) \subseteq Range(frames[r]) /\ Head(frames[r]) \in Range(frames[r])
  <2>1. Range(frames[r]) = {Head(frames[r])} \cup Range(Tail(frames[r]))
    BY <1>1, <1>2, TailLine
  <2>2. Range(<<>>) = {}
    BY DEF Range
  <2> QED
    BY <1>4, <2>1, <2>2
<1>6. /\ stopped[r] => stopped'[r]
      /\ backendCancel[r] => backendCancel'[r]
  <2>1. stopped' = stopped \/ stopped' = [stopped EXCEPT ![r] = TRUE]
    BY DEF Delivery, ConsumeToken, ConsumeDone, ConsumeFailure, Drain
  <2>2. \/ backendCancel' = backendCancel
        \/ backendCancel' = [backendCancel EXCEPT ![r] = TRUE]
        \/ backendCancel' = [backendCancel EXCEPT ![r] = @ \/ expired[r]]
    BY DEF Delivery, ConsumeToken, ConsumeDone, ConsumeFailure, Drain, BeginDrain,
       FinishCancelled, FinishFailed, FinishOk
  <2>3. backendCancel' = [backendCancel EXCEPT ![r] = @ \/ expired[r]]
          => (backendCancel[r] => backendCancel'[r])
    BY ToldType, Zenon
  <2> QED
    BY <2>1, <2>2, <2>3, ToldType
<1>7. Lasting(r)
  BY <1>1, <1>5, <1>6 DEF Lasting
<1>8. ASSUME FinishCancelled(r), EmitRefused(r) PROVE ToldOf(r)'
  BY <1>1, <1>2, <1>8, FinishCancelledTold
<1>9. ASSUME FinishOk(r) PROVE ToldOf(r)'
  BY <1>1, <1>2, <1>7, <1>9, FinishOkTold
<1>10. ASSUME FinishFailed(r) PROVE ToldOf(r)'
  BY <1>1, <1>2, <1>7, <1>10, FinishFailedTold
<1>15. ToldOf(r)'
  <2>1. CASE ConsumeToken(r)
    <3>1. EmitRefused(r)' = EmitRefused(r)
      BY <1>1 DEF EmitRefused
    <3>2. \/ /\ EmitRefused(r) /\ FinishCancelled(r)
          \/ /\ EmitRefused(r) /\ BeginDrain(r) /\ UNCHANGED stopped
          \/ UNCHANGED <<events, backendCancel, outcome, count, deliver, stopped>>
          \/ /\ stopped' = [stopped EXCEPT ![r] = TRUE]
             /\ UNCHANGED <<events, outcome, count, deliver>>
          \/ /\ events' = [events EXCEPT ![r] = Append(@, "token")]
             /\ UNCHANGED <<backendCancel, outcome, count, deliver, stopped>>
      BY <2>1 DEF ConsumeToken, EmitRefused, Interrupted
    <3>3. CASE EmitRefused(r) /\ BeginDrain(r) /\ UNCHANGED stopped
      <4>1. UNCHANGED <<events, outcome>> /\ deliver'[r] = "draining"
        BY <3>3, ToldType DEF BeginDrain
      <4>2. Said(r)' = Said(r) /\ "cancelled" \notin Range(events'[r])
        BY <1>1, <1>2, <4>1 DEF Said, ToldOf
      <4>3. Quiet(r) /\ deliver'[r] \notin Ended
        BY <1>1, <4>1 DEF Quiet, Ended
      <4> QED
        BY <1>1, <1>2, <1>7, <3>1, <3>3, <4>1, <4>2, <4>3, ToldFrame
    <3>4. CASE UNCHANGED <<events, backendCancel, outcome, count, deliver, stopped>>
      BY <1>1, <1>2, <1>7, <3>4, ToldSame DEF Quiet
    <3>5. CASE /\ stopped' = [stopped EXCEPT ![r] = TRUE]
               /\ UNCHANGED <<events, outcome, count, deliver>>
      <4>1. stopped'[r] = TRUE
        BY <3>5, ToldType
      <4> QED
        BY <1>1, <1>2, <1>7, <3>5, <4>1, ToldSame DEF Quiet
    <3>6. CASE /\ events' = [events EXCEPT ![r] = Append(@, "token")]
               /\ UNCHANGED <<backendCancel, outcome, count, deliver, stopped>>
      <4>1. events'[r] = Append(events[r], "token") /\ events[r] \in Seq(EventKinds)
        BY <3>6, ToldType
      <4>2. Range(events'[r]) = Range(events[r]) \cup {"token"}
        BY <4>1, AppendLine DEF EventKinds
      <4>3. Said(r)' \subseteq Said(r) \cup {"token"} /\ "cancelled" \notin Range(events'[r])
        BY <1>1, <1>2, <4>2 DEF Said, ToldOf
      <4> QED
        BY <1>1, <1>2, <1>7, <3>6, <4>3, ToldFrame DEF Quiet
    <3> QED
      BY <1>8, <3>2, <3>3, <3>4, <3>5, <3>6
  <2>2. CASE ConsumeDone(r)
    <3>1. \/ (EmitRefused(r) \/ ~(Head(frames[r]) = "done" \/ stopped[r])) /\ FinishCancelled(r)
          \/ FinishOk(r)
      BY <2>2 DEF ConsumeDone
    <3>2. Head(frames[r]) \in {"done", "done_cancelled"}
      BY <2>2 DEF ConsumeDone
    <3>3. ASSUME Head(frames[r]) = "done_cancelled" PROVE stopped[r] \/ EmitRefused(r)
      BY <1>1, <1>2, <1>5, <3>3 DEF ToldOf, Ended
    <3> QED
      BY <1>8, <1>9, <3>1, <3>2, <3>3
  <2>3. CASE ConsumeFailure(r)
    BY <1>8, <1>10, <2>3 DEF ConsumeFailure, EmitRefused
  <2>4. CASE Drain(r)
    BY <1>2, <1>8, <2>4 DEF Drain, ToldOf
  <2> QED
    BY <2>1, <2>2, <2>3, <2>4 DEF Delivery
<1> QED
  BY <1>3, <1>15 DEF Told

\* Members that end without the worker: those that failed are told so, those that were
\* cancelled are not.
LEMMA PerformTold ==
  ASSUME IInv, Stages, Told, Perform
  PROVE  Told'
<1> DEFINE gone == {r \in Range(group) : cancelled[r]}
           failed == {r \in Range(group) \ gone : expired[r] \/ worker # "ready"}
           rest == Range(group) \ (gone \cup failed)
<1>1. /\ UNCHANGED <<cancelled, expired, caller, frames, stopped, closed, group>> /\ pc = "perform"
      /\ \A r \in Requests :
           /\ r \notin gone => outcome'[r] = outcome[r]
           /\ r \in failed => events'[r] = Emitted(r, "error")
           /\ r \notin failed => events'[r] = events[r]
           /\ backendCancel'[r] = (backendCancel[r] \/ (r \in failed /\ expired[r]))
  BY DEF Perform, closeVars
<1>2. \A r \in Requests :
        /\ r \in rest => deliver'[r] \in {"held", "consuming"}
        /\ r \in gone \cup failed => deliver'[r] = "handled"
        /\ r \notin Range(group) => deliver'[r] = deliver[r]
  BY DEF Perform
<1>3. Range(group) = rest \cup gone \cup failed /\ gone \cap failed = {}
  OBVIOUS
<1> HIDE DEF gone, failed, rest
<1>4. \A r \in Range(group) : deliver[r] = "none"
  BY <1>1 DEF Stages, Untouched
<1> SUFFICES ASSUME NEW r \in Requests PROVE ToldOf(r)'
  BY DEF Told
<1>5. ToldOf(r) /\ events[r] \in Seq(EventKinds)
  BY ToldType DEF Told
<1>6. CASE r \notin gone \cup failed
  <2>1. deliver'[r] \notin {"handled", "draining"} \/ deliver'[r] = deliver[r]
    BY <1>2, <1>3, <1>6
  <2>2. Quiet(r)
    BY <1>2, <1>3, <1>4, <1>6 DEF Quiet, Ended
  <2>3. /\ outcome'[r] = outcome[r] /\ events'[r] = events[r]
        /\ backendCancel'[r] <=> backendCancel[r]
    BY <1>1, <1>6, Zenon
  <2>4. Lasting(r)
    BY <1>1, <2>3 DEF Lasting
  <2> QED
    BY <1>1, <1>5, <2>1, <2>2, <2>3, <2>4, ToldSame
<1>7. CASE r \in gone
  <2>1. r \notin failed /\ deliver'[r] = "handled" /\ deliver[r] = "none"
    BY <1>2, <1>3, <1>4, <1>7
  <2>2. events'[r] = events[r] /\ (backendCancel'[r] <=> backendCancel[r])
    BY <1>1, <2>1, Zenon
  <2>3. Said(r)' = Said(r) /\ Said(r) \cap {"done", "error"} = {}
    BY <1>1, <1>5, <2>1, <2>2 DEF Said, ToldOf, Ended
  <2> QED
    BY <1>1, <1>5, <2>1, <2>2, <2>3 DEF ToldOf, Ended
<1>8. CASE r \in failed
  <2>1. r \notin gone /\ deliver'[r] = "handled" /\ deliver[r] = "none"
    BY <1>2, <1>3, <1>4, <1>8
  <2>2. /\ events'[r] \in {events[r], Append(events[r], "error")} /\ outcome'[r] = "none"
    BY <1>1, <1>5, <1>8, <2>1 DEF Emitted, ToldOf
  <2>3. Range(Append(events[r], "error")) = Range(events[r]) \cup {"error"}
    BY <1>5, AppendLine DEF EventKinds
  <2>4. Range(events'[r]) \subseteq Range(events[r]) \cup {"error"}
    BY <2>2, <2>3
  <2>5. Said(r)' \subseteq Said(r) \cup {"error"} /\ Said(r) \cap {"done", "error"} = {}
    BY <1>1, <1>5, <2>1, <2>4 DEF Said, ToldOf, Ended
  <2>6. backendCancel[r] => backendCancel'[r]
    BY <1>1, Zenon
  <2> QED
    BY <1>1, <1>5, <2>1, <2>2, <2>4, <2>5, <2>6 DEF ToldOf, Ended
<1> QED
  BY <1>6, <1>7, <1>8

\* What was ended without a record is recorded as failed.
LEMMA RetireTold ==
  ASSUME IInv, Settled, Told, Retire
  PROVE  Told'
<1> SUFFICES ASSUME NEW r \in Requests PROVE ToldOf(r)'
  BY DEF Told
<1> DEFINE h == Head(joined \o group)
<1>1. /\ UNCHANGED <<cancelled, backendCancel, expired, events, caller, frames, deliver, stopped, closed>>
      /\ outcome' = [outcome EXCEPT ![h] = IF @ = "none" THEN "failed" ELSE @] /\ pc = "retire"
  BY DEF Retire, callerVars, closeVars
<1>2. ToldOf(r)
  BY DEF Told
<1>3. CASE outcome'[r] = outcome[r]
  BY <1>1, <1>2, <1>3, ToldStill
<1>4. CASE outcome'[r] # outcome[r]
  <2>1. h = r /\ outcome[r] = "none" /\ outcome'[r] = "failed"
    BY <1>1, <1>4, ToldType
  <2>2. h \in Held
    <3>1. /\ joined \in Seq(Requests) /\ group \in Seq(Requests)
          /\ joined # <<>> \/ group # <<>>
      BY <1>1 DEF IInv, TypeOK, SchedulerType, GroupHeld
    <3>2. joined \o group \in Seq(Requests) /\ Range(joined \o group) = Held
      BY <3>1, ConcatLine DEF Held
    <3>3. Held # {}
      BY <3>1, RangeSeq DEF Held
    <3>4. joined \o group # <<>>
      BY <3>2, <3>3, RangeSeq
    <3> QED
      BY <3>2, <3>4, TailLine
  <2>3. deliver[r] = "handled"
    BY <1>1, <2>1, <2>2 DEF Settled, Handled
  <2>4. Said(r)' = Said(r)
    BY <1>1 DEF Said
  <2> HIDE DEF h
  <2> QED
    BY <1>1, <1>2, <2>1, <2>3, <2>4 DEF ToldOf, EmitRefused
<1> QED
  BY <1>3, <1>4


\* The worker's frames, a joiner and a hand-back tell nobody anything.
LEMMA WorkTold ==
  ASSUME IInv, Places, Stages, Told,
         \/ Join \/ GroupDone \/ WorkerCrash \/ CloseBackend
         \/ \E r \in Requests : WorkerToken(r) \/ WorkerEnd(r)
  PROVE  Told'
<1>1. UNCHANGED <<cancelled, backendCancel, expired, events, caller, stopped, outcome, closed>>
  BY DEF Join, GroupDone, WorkerCrash, CloseBackend, WorkerToken, WorkerEnd, callerVars, closeVars
<1>2. ASSUME \A s \in Requests :
               /\ Quiet(s)
               /\ deliver'[s] = "draining" => deliver[s] = "draining"
               /\ "done_cancelled" \in Range(frames'[s]) =>
                    "done_cancelled" \in Range(frames[s]) \/ backendCancel[s]
      PROVE  Told'
  <2> SUFFICES ASSUME NEW s \in Requests PROVE ToldOf(s)'
    BY DEF Told
  <2>1. Lasting(s) /\ ToldOf(s)
    BY <1>1, <1>2 DEF Lasting, Told
  <2> QED
    BY <1>1, <1>2, <2>1, ToldSame
<1>3. CASE Join
  <2>1. frames' = frames
    BY <1>3 DEF Join
  <2>2. PICK r \in Requests : Take(r) /\ deliver' = [deliver EXCEPT ![r] = "unheard"]
    BY <1>3 DEF Join
  <2>3. r \in Queued
    BY <2>2, TakeLine DEF IInv, TypeOK, Places
  <2>4. deliver[r] = "none"
    BY <2>3 DEF Stages, Untouched
  <2> QED
    BY <1>2, <2>1, <2>2, <2>4, ToldType DEF Quiet, Ended
<1>4. CASE GroupDone
  <2>1. frames' = frames
    BY <1>4 DEF GroupDone
  <2>2. PICK k \in 0..Len(joined) :
          /\ \A r \in Range(SubSeq(joined, k + 1, Len(joined))) : deliver[r] = "unheard"
          /\ deliver' = [r \in Requests |->
                           IF r \in Range(SubSeq(joined, k + 1, Len(joined))) THEN "none"
                           ELSE IF deliver[r] = "held" THEN "consuming"
                           ELSE deliver[r]]
    BY <1>4 DEF GroupDone
  <2> DEFINE back == Range(SubSeq(joined, k + 1, Len(joined)))
  <2>3. /\ \A r \in back : deliver[r] = "unheard"
        /\ \A r \in Requests : deliver'[r] = IF r \in back THEN "none"
                                             ELSE IF deliver[r] = "held" THEN "consuming"
                                             ELSE deliver[r]
    BY <2>2
  <2> HIDE DEF back
  <2>4. \A r \in Requests : /\ Quiet(r)
                            /\ deliver'[r] = "draining" => deliver[r] = "draining"
    BY <2>2, <2>3 DEF Quiet, Ended
  <2> QED
    BY <1>2, <2>1, <2>4
<1>5. CASE WorkerCrash \/ CloseBackend
  <2>1. WorkerGone
    BY <1>5 DEF WorkerCrash, CloseBackend
  <2>2. \A r \in Requests :
          /\ deliver'[r] = IF deliver[r] = "unheard" THEN "consuming" ELSE deliver[r]
          /\ frames'[r] \in {frames[r], Append(frames[r], "eof"), <<"eof">>}
          /\ frames[r] \in Seq(FrameKinds)
    BY <2>1, ToldType DEF WorkerGone
  <2>3. \A r \in Requests : Range(frames'[r]) \subseteq Range(frames[r]) \cup {"eof"}
    <3> SUFFICES ASSUME NEW r \in Requests PROVE Range(frames'[r]) \subseteq Range(frames[r]) \cup {"eof"}
      OBVIOUS
    <3>1. Range(Append(frames[r], "eof")) = Range(frames[r]) \cup {"eof"}
      BY <2>2, AppendLine DEF FrameKinds
    <3>2. Range(<<"eof">>) = {"eof"}
      BY OneLine
    <3> QED
      BY <2>2, <3>1, <3>2
  <2> QED
    BY <1>2, <2>2, <2>3 DEF Quiet, Ended
<1>6. CASE \E r \in Requests : WorkerToken(r) \/ WorkerEnd(r)
  <2>1. PICK r \in Requests : WorkerToken(r) \/ WorkerEnd(r)
    BY <1>6
  <2>2. deliver' = Heard(r)
    BY <2>1 DEF WorkerToken, WorkerEnd
  <2>3. \A s \in Requests : /\ Quiet(s)
                            /\ deliver'[s] = "draining" => deliver[s] = "draining"
    BY <2>2, ToldType DEF Heard, Quiet, Ended
  <2>4. PICK kind \in FrameKinds :
          /\ frames' = [frames EXCEPT ![r] = Append(@, kind)]
          /\ kind = "done_cancelled" => backendCancel[r]
    BY <2>1 DEF WorkerToken, WorkerEnd, FrameKinds
  <2>5. /\ frames'[r] = Append(frames[r], kind) /\ frames[r] \in Seq(FrameKinds)
        /\ \A s \in Requests \ {r} : frames'[s] = frames[s]
    BY <2>4, ToldType
  <2>6. Range(frames'[r]) = Range(frames[r]) \cup {kind}
    BY <2>5, AppendLine
  <2> QED
    BY <1>2, <2>3, <2>4, <2>5, <2>6
<1> QED
  BY <1>3, <1>4, <1>5, <1>6

\* Every step keeps what callers are told in agreement with what is recorded.
LEMMA NextTold ==
  ASSUME IInv, Places, Stages, Settled, Told, [Next]_vars
  PROVE  Told'
<1> USE DEF queueVars, callerVars, schedVars, workerVars, deliveryVars, closeVars
<1>1. ASSUME UNCHANGED <<cancelled, backendCancel, expired, events, caller, frames, deliver, stopped,
                         outcome>>,
             closed => closed'
      PROVE  Told'
  <2> SUFFICES ASSUME NEW s \in Requests PROVE ToldOf(s)'
    BY DEF Told
  <2> QED
    BY <1>1, ToldStill DEF Told
<1>2. CASE Age \/ Recover \/ NextSession \/ NextSorted \/ OrderWaiting \/ TakeCompany
           \/ StartGather \/ CloseGroup \/ JoinDeclined \/ GroupDrained \/ Exit
  BY <1>1, <1>2 DEF Age, Recover, NextSession, NextSorted, OrderWaiting, TakeCompany, StartGather,
     CloseGroup, JoinDeclined, GroupDrained, Exit
<1>3. CASE CloseBegin \/ CloseDrop \/ Idle \/ UNCHANGED vars
  BY <1>1, <1>3 DEF CloseBegin, CloseDrop, Idle, vars
<1>4. CASE CloseCancel
  <2>1. UNCHANGED <<expired, events, caller, frames, deliver, stopped, outcome, closed>>
    BY <1>4 DEF CloseCancel
  <2>2. \A s \in Requests : /\ cancelled'[s] <=> cancelled[s] \/ s \in sessions
                            /\ backendCancel'[s] <=> backendCancel[s] \/ s \in sessions
    BY <1>4, Zenon DEF CloseCancel
  <2> SUFFICES ASSUME NEW s \in Requests PROVE ToldOf(s)'
    BY DEF Told
  <2>3. ToldOf(s)
    BY DEF Told
  <2> QED
    BY <2>1, <2>2, <2>3, ToldStill
<1> QED
  BY <1>2, <1>3, <1>4, CallerTold, WorkTold, DeliveryTold, RecordTold, PerformTold, RetireTold
  DEF Next, SchedulerStep, CloseStep

\* Nobody has been told anything at the start.
LEMMA InitTold == Init => Told
<1> SUFFICES ASSUME Init, NEW r \in Requests PROVE ToldOf(r)
  BY DEF Told
<1>1. Range(<<>>) = {}
  BY DEF Range
<1>2. Said(r) = {"none"}
  BY <1>1 DEF Init, Said
<1> QED
  BY <1>1, <1>2 DEF Init, ToldOf

\* What a caller was told agrees with what is recorded, or about to be: a caller that read
\* "done" was served completely, one that read an error never was, and one that was cancelled had been cancelled.
THEOREM CallersAgree == Spec => []CallerAgrees
<1>1. Init => IInv /\ Places /\ Stages /\ Settled /\ Told
  BY InitIInv, InitPlaces, InitStages, InitSettled, InitTold
<1>2. IInv /\ Places /\ Stages /\ Settled /\ Told /\ [Next]_vars
        => (IInv /\ Places /\ Stages /\ Settled /\ Told)'
  BY NextIInv, NextPlaces, NextStages, NextSettled, NextTold
<1>3. Told => CallerAgrees
  <2> SUFFICES ASSUME Told, NEW r \in Requests
               PROVE  /\ caller[r] = "done" => outcome[r] = "ok" \/ deliver[r] = "ok"
                      /\ caller[r] = "error" => /\ outcome[r] \in {"none", "failed"}
                                                /\ deliver[r] \in {"failed", "handled"}
                      /\ caller[r] # "cancelled" \/ cancelled[r] \/ closed
    BY DEF CallerAgrees
  <2> QED
    BY DEF Told, ToldOf, Said
<1> QED
  BY <1>1, <1>2, <1>3, PTL DEF Spec

=============================================================================
