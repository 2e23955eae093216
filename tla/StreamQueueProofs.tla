-------------------------- MODULE StreamQueueProofs --------------------------
(***************************************************************************)
(* Proofs about StreamQueue, for every capacity and every set of streams.  *)
(***************************************************************************)
EXTENDS StreamQueue, SequenceTheorems, TLAPS

-----------------------------------------------------------------------------
\* NextIndex is a permutation of the slots: two different slots never have
\* the same successor, and (capacity being at least one) none is its own.
LEMMA NextIndexFacts ==
    ASSUME NEW i \in Index, NEW j \in Index
    PROVE  /\ NextIndex(i) \in Index
           /\ NextIndex(i) # i
           /\ NextIndex(i) = NextIndex(j) => i = j
BY CapacityAssumption DEF Index, NextIndex

\* Every access of the two threads keeps the variables in their types.
THEOREM TypeCorrect == Spec => []TypeOK
<1>1. Init => TypeOK
  BY CapacityAssumption DEF Init, TypeOK, Index, MaybeStream, EnqPC, DeqPC
<1>2. TypeOK /\ [Next]_vars => TypeOK'
  <2> SUFFICES ASSUME TypeOK, [Next]_vars PROVE TypeOK'
    OBVIOUS
  <2> USE DEF TypeOK, MaybeStream, EnqPC, DeqPC
  <2>1. CASE Enqueuer
    <3>1. ASSUME NEW s \in Stream, EnqCall(s) PROVE TypeOK'
      BY <3>1 DEF EnqCall
    <3>2. CASE EnqReadHead
      BY <3>2 DEF EnqReadHead
    <3>3. CASE EnqTestFull
      BY <3>3 DEF EnqTestFull
    <3>4. CASE EnqStore
      BY <3>4 DEF EnqStore
    <3>5. CASE EnqPublish
      BY <3>5, NextIndexFacts DEF EnqPublish
    <3>6. CASE EnqReturn
      BY <3>6 DEF EnqReturn
    <3>7. QED
      BY <2>1, <3>1, <3>2, <3>3, <3>4, <3>5, <3>6 DEF Enqueuer
  <2>2. CASE Dequeuer
    <3>1. CASE DeqCall
      BY <3>1 DEF DeqCall
    <3>2. CASE DeqReadHead
      BY <3>2 DEF DeqReadHead
    <3>3. CASE DeqTestEmpty
      BY <3>3 DEF DeqTestEmpty
    <3>4. CASE DeqLoad
      BY <3>4 DEF DeqLoad
    <3>5. CASE DeqAdvance
      BY <3>5, NextIndexFacts DEF DeqAdvance
    <3>6. CASE DeqReturn
      BY <3>6 DEF DeqReturn
    <3>7. QED
      BY <2>2, <3>1, <3>2, <3>3, <3>4, <3>5, <3>6 DEF Dequeuer
  <2>3. CASE UNCHANGED vars
    BY <2>3 DEF vars
  <2>4. QED
    BY <2>1, <2>2, <2>3 DEF Next
<1>3. QED
  BY <1>1, <1>2, PTL DEF Spec
-----------------------------------------------------------------------------
(***************************************************************************)
(* The inductive invariant.  A slot is live when the dequeuer may read it. *)
(***************************************************************************)
IsLive(i) == IF head <= tail THEN head <= i /\ i < tail
                             ELSE head <= i \/ i < tail

LiveHoldsStreams == \A i \in Index : IsLive(i) => q[i] \in Stream

\* The enqueuer's copy of _head may be stale, but a slot it found free stays
\* free: the dequeuer only frees more of them.
EnqInv ==
    /\ IF enq.pc = "idle" THEN enq.arg = NULL ELSE enq.arg \in Stream
    /\ enq.pc = "test_full" /\ NextIndex(tail) # enq.h => NextIndex(tail) # head
    /\ enq.pc \in {"store", "publish"} => NextIndex(tail) # head
    /\ enq.pc = "publish" => q[tail] = enq.arg

\* The dequeuer's copy of _head is never stale, and a ring it found
\* non-empty stays so: the enqueuer only adds.
DeqInv ==
    /\ deq.pc \in {"idle", "read_head", "test_empty", "load"} => deq.stream = NULL
    /\ deq.pc \in {"test_empty", "load", "advance"} => deq.h = head
    /\ deq.pc \in {"load", "advance"} => head # tail
    /\ deq.pc = "advance" => deq.stream = q[head]

IInv == TypeOK /\ LiveHoldsStreams /\ EnqInv /\ DeqInv

LEMMA InvInit == Init => IInv
BY CapacityAssumption
   DEF Init, IInv, TypeOK, Index, MaybeStream, EnqPC, DeqPC, LiveHoldsStreams,
       IsLive, EnqInv, DeqInv

LEMMA InvNext == IInv /\ TypeOK' /\ [Next]_vars => IInv'
<1> SUFFICES ASSUME IInv, TypeOK', [Next]_vars PROVE IInv'
  OBVIOUS
<1> USE NullAssumption DEF IInv
<1>1. ASSUME NEW s \in Stream, EnqCall(s) PROVE IInv'
  BY <1>1 DEF EnqCall, TypeOK, LiveHoldsStreams, IsLive, EnqInv, DeqInv
<1>2. CASE EnqReadHead
  BY <1>2 DEF EnqReadHead, TypeOK, LiveHoldsStreams, IsLive, EnqInv, DeqInv
<1>3. CASE EnqTestFull
  BY <1>3 DEF EnqTestFull, TypeOK, LiveHoldsStreams, IsLive, EnqInv, DeqInv
<1>4. CASE EnqStore
  <2>1. LiveHoldsStreams'
    BY <1>4 DEF EnqStore, TypeOK, LiveHoldsStreams, IsLive, EnqInv, Index
  <2>2. EnqInv'
    BY <1>4 DEF EnqStore, TypeOK, EnqInv
  <2>3. DeqInv'
    BY <1>4 DEF EnqStore, TypeOK, DeqInv
  <2>4. QED
    BY <2>1, <2>2, <2>3
<1>5. CASE EnqPublish
  <2>1. LiveHoldsStreams'
    BY <1>5, CapacityAssumption
       DEF EnqPublish, TypeOK, LiveHoldsStreams, IsLive, EnqInv, Index, NextIndex
  <2>2. EnqInv'
    BY <1>5 DEF EnqPublish, TypeOK, EnqInv
  <2>3. DeqInv'
    BY <1>5 DEF EnqPublish, TypeOK, EnqInv, DeqInv
  <2>4. QED
    BY <2>1, <2>2, <2>3
<1>6. CASE EnqReturn
  BY <1>6 DEF EnqReturn, TypeOK, LiveHoldsStreams, IsLive, EnqInv, DeqInv
<1>7. CASE DeqCall
  BY <1>7 DEF DeqCall, TypeOK, LiveHoldsStreams, IsLive, EnqInv, DeqInv
<1>8. CASE DeqReadHead
  BY <1>8 DEF DeqReadHead, TypeOK, LiveHoldsStreams, IsLive, EnqInv, DeqInv
<1>9. CASE DeqTestEmpty
  BY <1>9 DEF DeqTestEmpty, TypeOK, LiveHoldsStreams, IsLive, EnqInv, DeqInv
<1>10. CASE DeqLoad
  BY <1>10 DEF DeqLoad, TypeOK, LiveHoldsStreams, IsLive, EnqInv, DeqInv
<1>11. CASE DeqAdvance
  <2>1. LiveHoldsStreams'
    BY <1>11, CapacityAssumption
       DEF DeqAdvance, TypeOK, LiveHoldsStreams, IsLive, DeqInv, Index, NextIndex
  <2>2. EnqInv'
    BY <1>11, NextIndexFacts DEF DeqAdvance, TypeOK, EnqInv, DeqInv
  <2>3. DeqInv'
    BY <1>11 DEF DeqAdvance, TypeOK, DeqInv
  <2>4. QED
    BY <2>1, <2>2, <2>3
<1>12. CASE DeqReturn
  BY <1>12 DEF DeqReturn, TypeOK, LiveHoldsStreams, IsLive, EnqInv, DeqInv
<1>13. CASE UNCHANGED vars
  BY <1>13 DEF vars, TypeOK, LiveHoldsStreams, IsLive, EnqInv, DeqInv
<1>14. QED
  BY <1>1, <1>2, <1>3, <1>4, <1>5, <1>6, <1>7, <1>8, <1>9, <1>10, <1>11,
     <1>12, <1>13
     DEF Next, Enqueuer, Dequeuer

\* The inductive invariant holds in every reachable state.
THEOREM Invariance == Spec => []IInv
BY InvInit, InvNext, TypeCorrect, PTL DEF Spec
-----------------------------------------------------------------------------
\* The i-th slot from _head, and the count of them, in terms of IsLive.
LEMMA SlotFacts ==
    ASSUME TypeOK
    PROVE  /\ Count \in 0 .. Capacity
           /\ \A i \in 1 .. Count : Slot(i) \in Index /\ IsLive(Slot(i))
BY CapacityAssumption DEF TypeOK, Index, Count, Slot, IsLive

\* assert(stream) in StreamDequeue cannot fail, for any capacity.
THEOREM DequeueAssertHolds == Spec => []DequeueAsserted
<1>1. IInv => DequeueAsserted
  BY CapacityAssumption
     DEF IInv, DequeueAsserted, DeqInv, LiveHoldsStreams, IsLive, TypeOK, Index
<1>2. QED
  BY <1>1, Invariance, PTL

\* The slot being filled is never one the dequeuer reads, for any capacity.
THEOREM StoreNeverRaces == Spec => []StoreMissesReader
<1>1. IInv => StoreMissesReader
  <2> SUFFICES ASSUME IInv, enq.pc \in {"store", "publish"}
               PROVE  /\ tail \notin Live
                      /\ NextIndex(tail) # head
                      /\ deq.pc \in {"load", "advance"} => deq.h # tail
    BY DEF StoreMissesReader
  <2>1. ~ IsLive(tail)
    BY DEF IInv, TypeOK, Index, IsLive
  <2>2. tail \notin Live
    BY <2>1, SlotFacts DEF Live, IInv
  <2>3. QED
    BY <2>2 DEF IInv, EnqInv, DeqInv
<1>2. QED
  BY <1>1, Invariance, PTL
-----------------------------------------------------------------------------
(***************************************************************************)
(* The refinement: what each access of the ring is in BoundedQueue.        *)
(***************************************************************************)
\* The mapped queue is a sequence of Count streams.
LEMMA AbsQueueIsSeq ==
    ASSUME IInv
    PROVE  AbsQueue \in Seq(Stream) /\ Len(AbsQueue) = Count
<1>1. Count \in Nat /\ \A i \in 1 .. Count : q[Slot(i)] \in Stream
  BY SlotFacts DEF IInv, LiveHoldsStreams
<1>2. QED
  BY <1>1 DEF AbsQueue

\* Publishing the filled slot appends the argument.
LEMMA PublishAppends ==
    ASSUME IInv, EnqPublish
    PROVE  /\ AbsQueue' = Append(AbsQueue, enq.arg)
           /\ Count < Capacity
<1> USE CapacityAssumption DEF EnqPublish, IInv, TypeOK, Index, NextIndex, EnqInv
<1>1. Count' = Count + 1 /\ Count \in Nat /\ Count < Capacity
  BY DEF Count
<1>2. \A i \in 1 .. Count : Slot(i)' = Slot(i)
  BY DEF Slot
<1>3. \A i \in Nat : i = Count + 1 => Slot(i)' = tail
  BY DEF Slot, Count
<1>4. AbsQueue' = [i \in 1 .. Count + 1 |-> q[Slot(i)']]
  BY <1>1 DEF AbsQueue
<1>5. AbsQueue \in Seq(Stream) /\ Len(AbsQueue) = Count
  BY AbsQueueIsSeq
<1>6. Append(AbsQueue, enq.arg)
        = [i \in 1 .. Count + 1 |-> IF i = Count + 1 THEN enq.arg ELSE AbsQueue[i]]
  BY <1>5
<1>7. ASSUME NEW i \in 1 .. Count + 1
      PROVE  q[Slot(i)'] = IF i = Count + 1 THEN enq.arg ELSE AbsQueue[i]
  <2>1. CASE i = Count + 1
    BY <2>1, <1>3, <1>1
  <2>2. CASE i # Count + 1
    <3>1. i \in 1 .. Count
      BY <2>2, <1>1, <1>7
    <3>2. QED
      BY <2>2, <3>1, <1>2 DEF AbsQueue
  <2>3. QED
    BY <2>1, <2>2
<1>8. QED
  BY <1>1, <1>4, <1>6, <1>7

\* Tail as a function, the form in which the ring's queue is defined.
LEMMA TailAsFunction ==
    ASSUME NEW S, NEW s \in Seq(S), Len(s) > 0
    PROVE  Tail(s) = [i \in 1 .. Len(s) - 1 |-> s[i + 1]]
<1>1. s # << >>
  OBVIOUS
<1>2. /\ Tail(s) \in Seq(S)
      /\ Len(Tail(s)) = Len(s) - 1
      /\ \A i \in 1 .. Len(s) - 1 : Tail(s)[i] = s[i + 1]
  BY <1>1, HeadTailProperties
<1>3. Tail(s) = [i \in 1 .. Len(s) - 1 |-> Tail(s)[i]]
  BY <1>2, LenProperties, Zenon
<1>4. QED
  BY <1>2, <1>3, Zenon

\* Advancing _head renumbers the slots: the second becomes the first.
LEMMA SlotAdvances ==
    ASSUME NEW i \in 1 .. Capacity, head \in Index, head' = NextIndex(head)
    PROVE  Slot(i)' = Slot(i + 1)
<1>1. CASE head = Capacity
  BY <1>1, CapacityAssumption DEF Slot, NextIndex, Index
<1>2. CASE head # Capacity
  BY <1>2, CapacityAssumption DEF Slot, NextIndex, Index
<1>3. QED
  BY <1>1, <1>2

\* Advancing _head removes the oldest stream, the one that was loaded.
LEMMA AdvanceRemoves ==
    ASSUME IInv, DeqAdvance
    PROVE  /\ AbsQueue' = Tail(AbsQueue)
           /\ deq.stream = Head(AbsQueue)
           /\ Count > 0
<1> USE CapacityAssumption DEF DeqAdvance, IInv, TypeOK, Index, NextIndex, DeqInv
<1>1. Count \in Nat /\ Count > 0 /\ Count' = Count - 1
  BY DEF Count
<1>2. \A i \in 1 .. Count - 1 : Slot(i)' = Slot(i + 1)
  <2> SUFFICES ASSUME NEW i \in 1 .. Count - 1 PROVE Slot(i)' = Slot(i + 1)
    OBVIOUS
  <2>1. i \in 1 .. Capacity
    BY SlotFacts
  <2>2. head \in Index /\ head' = NextIndex(head)
    OBVIOUS
  <2> HIDE DEF DeqAdvance, IInv, TypeOK, Index, NextIndex, DeqInv
  <2>3. QED
    BY <2>1, <2>2, SlotAdvances
<1>3. Slot(1) = head
  BY DEF Slot
<1>4. AbsQueue \in Seq(Stream) /\ Len(AbsQueue) = Count
  BY AbsQueueIsSeq
<1>5. AbsQueue' = [i \in 1 .. Count - 1 |-> q[Slot(i)']]
  BY <1>1 DEF AbsQueue
<1>6. Tail(AbsQueue) = [i \in 1 .. Count - 1 |-> AbsQueue[i + 1]]
  BY <1>1, <1>4, TailAsFunction
<1>7. ASSUME NEW i \in 1 .. Count - 1
      PROVE  q[Slot(i)'] = AbsQueue[i + 1]
  <2>1. i + 1 \in 1 .. Count
    BY <1>1, <1>7
  <2>2. QED
    BY <2>1, <1>2 DEF AbsQueue
<1>8. deq.stream = Head(AbsQueue)
  <2>1. 1 \in 1 .. Count
    BY <1>1
  <2>2. QED
    BY <2>1, <1>3, <1>4 DEF AbsQueue
<1>9. QED
  BY <1>1, <1>5, <1>6, <1>7, <1>8

\* A step that moves neither index and stores at most into the free slot at
\* _tail leaves the mapped queue alone.
LEMMA QueueUntouched ==
    ASSUME IInv,
           UNCHANGED <<head, tail>>,
           \A i \in Index : i # tail => q'[i] = q[i]
    PROVE  AbsQueue' = AbsQueue
<1>1. Count' = Count
  BY DEF Count
<1>2. \A i \in 1 .. Count : Slot(i) \in Index /\ Slot(i) # tail /\ Slot(i)' = Slot(i)
  BY SlotFacts DEF IInv, TypeOK, IsLive, Index, Slot
<1>3. QED
  BY <1>1, <1>2 DEF AbsQueue

\* The ring implements the linearizable bounded FIFO, for every capacity and
\* every set of streams.
THEOREM Refinement == Spec => ImplementsBoundedQueue
<1>1. Init => BQ!Init
  <2> SUFFICES ASSUME Init PROVE BQ!Init
    OBVIOUS
  <2>1. Count = 0
    BY DEF Init, Count
  <2>2. AbsQueue = << >>
    BY <2>1 DEF AbsQueue
  <2>3. QED
    BY <2>2 DEF Init, BQ!Init, AbsEnq, AbsEnqOp, AbsDeq, AbsDeqOp
<1>2. IInv /\ IInv' /\ [Next]_vars => [BQ!Next]_BQ!vars
  <2> SUFFICES ASSUME IInv, IInv', [Next]_vars PROVE [BQ!Next]_BQ!vars
    OBVIOUS
  <2>q. ASSUME UNCHANGED <<head, tail, q>> PROVE AbsQueue' = AbsQueue
    BY <2>q, QueueUntouched
  <2>d. ASSUME UNCHANGED deq PROVE AbsDeq' = AbsDeq
    BY <2>d DEF AbsDeq, AbsDeqOp
  <2>e. ASSUME UNCHANGED <<enq, tail>> PROVE AbsEnq' = AbsEnq
    BY <2>e DEF AbsEnq, AbsEnqOp
  <2>1. ASSUME NEW s \in Stream, EnqCall(s) PROVE BQ!CallEnq(s)
    <3>1. AbsEnq.op = "idle" /\ AbsEnq' = [op |-> "called", arg |-> s]
      BY <2>1 DEF EnqCall, IInv, TypeOK, AbsEnq, AbsEnqOp
    <3>2. QED
      BY <2>1, <3>1, <2>q, <2>d DEF EnqCall, BQ!CallEnq
  <2>2. CASE EnqReadHead
    <3>1. AbsEnq.op = "called" /\ AbsEnq.arg = enq.arg
      BY <2>2 DEF EnqReadHead, AbsEnq, AbsEnqOp
    <3>2. AbsQueue' = AbsQueue /\ AbsDeq' = AbsDeq
      BY <2>2, <2>q, <2>d DEF EnqReadHead
    <3>3. CASE NextIndex(tail) = head
      <4>1. AbsEnq' = [op |-> "full", arg |-> enq.arg]
        BY <2>2, <3>3 DEF EnqReadHead, IInv, TypeOK, AbsEnq, AbsEnqOp, NextIndex
      <4>2. Len(AbsQueue) = Capacity
        BY <3>3, AbsQueueIsSeq, CapacityAssumption
           DEF Count, NextIndex, IInv, TypeOK, Index
      <4>3. BQ!FailEnq
        BY <3>1, <3>2, <4>1, <4>2 DEF BQ!FailEnq, AbsEnq
      <4>4. QED
        BY <4>3 DEF BQ!Next
    <3>4. CASE NextIndex(tail) # head
      <4>1. AbsEnq' = AbsEnq
        BY <2>2, <3>4 DEF EnqReadHead, IInv, TypeOK, AbsEnq, AbsEnqOp, NextIndex
      <4>2. QED
        BY <3>2, <4>1 DEF BQ!vars
    <3>5. QED
      BY <3>3, <3>4
  <2>3. CASE EnqTestFull
    <3>1. AbsEnq' = AbsEnq
      BY <2>3 DEF EnqTestFull, IInv, TypeOK, AbsEnq, AbsEnqOp, NextIndex
    <3>2. QED
      BY <2>3, <3>1, <2>q, <2>d DEF EnqTestFull, BQ!vars
  <2>4. CASE EnqStore
    <3>1. AbsEnq' = AbsEnq
      BY <2>4 DEF EnqStore, IInv, TypeOK, AbsEnq, AbsEnqOp
    <3>2. AbsQueue' = AbsQueue
      BY <2>4, QueueUntouched DEF EnqStore, IInv, TypeOK
    <3>3. QED
      BY <2>4, <3>1, <3>2, <2>d DEF EnqStore, BQ!vars
  <2>5. CASE EnqPublish
    <3>1. AbsEnq.op = "called" /\ AbsEnq' = [AbsEnq EXCEPT !.op = "ok"]
      BY <2>5 DEF EnqPublish, IInv, TypeOK, AbsEnq, AbsEnqOp
    <3>2. AbsQueue' = Append(AbsQueue, AbsEnq.arg) /\ Len(AbsQueue) < Capacity
      BY <2>5, PublishAppends, AbsQueueIsSeq DEF AbsEnq
    <3>3. BQ!DoEnq
      BY <2>5, <3>1, <3>2, <2>d DEF EnqPublish, BQ!DoEnq
    <3>4. QED
      BY <3>3 DEF BQ!Next
  <2>6. CASE EnqReturn
    <3>1. AbsEnq.op \in {"ok", "full"} /\ AbsEnq' = [op |-> "idle", arg |-> NULL]
      BY <2>6 DEF EnqReturn, IInv, TypeOK, AbsEnq, AbsEnqOp
    <3>2. BQ!RetEnq
      BY <2>6, <3>1, <2>q, <2>d DEF EnqReturn, BQ!RetEnq
    <3>3. QED
      BY <3>2 DEF BQ!Next
  <2>7. CASE DeqCall
    <3>1. AbsDeq.op = "idle" /\ AbsDeq' = [op |-> "called", res |-> NULL]
      BY <2>7 DEF DeqCall, IInv, TypeOK, AbsDeq, AbsDeqOp
    <3>2. BQ!CallDeq
      BY <2>7, <3>1, <2>q, <2>e DEF DeqCall, BQ!CallDeq
    <3>3. QED
      BY <3>2 DEF BQ!Next
  <2>8. CASE DeqReadHead
    <3>1. AbsDeq' = AbsDeq
      BY <2>8 DEF DeqReadHead, IInv, TypeOK, AbsDeq, AbsDeqOp
    <3>2. QED
      BY <2>8, <3>1, <2>q, <2>e DEF DeqReadHead, BQ!vars
  <2>9. CASE DeqTestEmpty
    <3>1. CASE deq.h # tail
      <4>1. AbsDeq' = AbsDeq
        BY <2>9, <3>1 DEF DeqTestEmpty, IInv, TypeOK, AbsDeq, AbsDeqOp
      <4>2. QED
        BY <2>9, <4>1, <2>q, <2>e DEF DeqTestEmpty, BQ!vars
    <3>2. CASE deq.h = tail
      <4>1. AbsDeq.op = "called" /\ AbsDeq' = [op |-> "done", res |-> NULL]
        BY <2>9, <3>2 DEF DeqTestEmpty, IInv, TypeOK, DeqInv, AbsDeq, AbsDeqOp
      <4>2. Len(AbsQueue) = 0
        BY <2>9, <3>2, AbsQueueIsSeq
           DEF DeqTestEmpty, IInv, DeqInv, Count, TypeOK, Index
      <4>3. BQ!EmptyDeq
        BY <2>9, <4>1, <4>2, <2>q, <2>e DEF DeqTestEmpty, BQ!EmptyDeq
      <4>4. QED
        BY <4>3 DEF BQ!Next
    <3>3. QED
      BY <3>1, <3>2
  <2>10. CASE DeqLoad
    <3>1. AbsDeq' = AbsDeq
      BY <2>10 DEF DeqLoad, IInv, TypeOK, AbsDeq, AbsDeqOp
    <3>2. QED
      BY <2>10, <3>1, <2>q, <2>e DEF DeqLoad, BQ!vars
  <2>11. CASE DeqAdvance
    <3>1. AbsDeq.op = "called" /\ AbsDeq' = [op |-> "done", res |-> deq.stream]
      BY <2>11 DEF DeqAdvance, IInv, TypeOK, AbsDeq, AbsDeqOp
    <3>2. AbsQueue' = Tail(AbsQueue) /\ deq.stream = Head(AbsQueue) /\ Len(AbsQueue) > 0
      BY <2>11, AdvanceRemoves, AbsQueueIsSeq
    <3>3. BQ!DoDeq
      BY <2>11, <3>1, <3>2, <2>e DEF DeqAdvance, BQ!DoDeq
    <3>4. QED
      BY <3>3 DEF BQ!Next
  <2>12. CASE DeqReturn
    <3>1. AbsDeq.op = "done" /\ AbsDeq' = [op |-> "idle", res |-> NULL]
      BY <2>12 DEF DeqReturn, IInv, TypeOK, AbsDeq, AbsDeqOp
    <3>2. BQ!RetDeq
      BY <2>12, <3>1, <2>q, <2>e DEF DeqReturn, BQ!RetDeq
    <3>3. QED
      BY <3>2 DEF BQ!Next
  <2>13. CASE UNCHANGED vars
    BY <2>13, <2>q, <2>d, <2>e DEF vars, BQ!vars
  <2>14. QED
    BY <2>1, <2>2, <2>3, <2>4, <2>5, <2>6, <2>7, <2>8, <2>9, <2>10, <2>11,
       <2>12, <2>13
       DEF Next, Enqueuer, Dequeuer, BQ!Next
<1>3. QED
  BY <1>1, <1>2, Invariance, PTL DEF Spec, ImplementsBoundedQueue, BQ!Spec
=============================================================================
