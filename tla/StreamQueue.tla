----------------------------- MODULE StreamQueue -----------------------------
(***************************************************************************)
(* The lock-free ring that carries streams between the application thread  *)
(* and the mTCP thread of a core (core/src/tcp_stream_queue.c).  The same  *)
(* code, with the element type changed, is the free list of send buffers   *)
(* (tcp_sb_queue.c) and of fragments (tcp_rb_frag_queue.c).                *)
(*                                                                         *)
(* LOCK_STREAM_QUEUE is FALSE (mtcp.h), so nothing serialises the two      *)
(* sides: every access to _head, _tail and _q is a step of its own.  The   *)
(* fields are volatile and the compiler barrier keeps the store to _q      *)
(* before the store to _tail; on the x86 machines the stack is built for   *)
(* stores become visible in program order, so steps are interleaved.       *)
(***************************************************************************)
EXTENDS Naturals, Sequences

CONSTANTS Stream,     \* pointers that can be enqueued
          Capacity,   \* the argument of CreateStreamQueue
          NULL        \* the null pointer, also what calloc leaves in a slot

ASSUME CapacityAssumption == Capacity \in Nat \ {0}
ASSUME NullAssumption == NULL \notin Stream

VARIABLES head,       \* sq->_head, written by the dequeuer only
          tail,       \* sq->_tail, written by the enqueuer only
          q,          \* sq->_q, capacity + 1 slots
          enq,        \* the enqueuer: program counter, argument, local h
          deq         \* the dequeuer: program counter, locals h and stream

vars == <<head, tail, q, enq, deq>>

Index == 0 .. Capacity
MaybeStream == Stream \cup {NULL}

EnqPC == {"idle", "read_head", "test_full", "store", "publish", "ok", "full"}
DeqPC == {"idle", "read_head", "test_empty", "load", "advance", "done"}

\* Mutant of NextIndex: wraps one slot early, so one slot is never used.
NextIndexEarlyWrap(i) == IF i + 1 # Capacity THEN i + 1 ELSE 0

\* Mutant of NextIndex: wraps one slot too late.
NextIndexLateWrap(i) == IF i # Capacity + 1 THEN i + 1 ELSE 0

NextIndex(i) == IF i # Capacity THEN i + 1 ELSE 0

Init ==
    /\ head = 0 /\ tail = 0
    /\ q = [i \in Index |-> NULL]
    /\ enq = [pc |-> "idle", arg |-> NULL, h |-> 0]
    /\ deq = [pc |-> "idle", h |-> 0, stream |-> NULL]
-----------------------------------------------------------------------------
\* StreamEnqueue, in the order of its memory accesses.
EnqCall(s) ==
    /\ enq.pc = "idle"
    /\ enq' = [enq EXCEPT !.pc = "read_head", !.arg = s]
    /\ UNCHANGED <<head, tail, q, deq>>

EnqReadHead ==
    /\ enq.pc = "read_head"
    /\ enq' = [enq EXCEPT !.pc = "test_full", !.h = head]
    /\ UNCHANGED <<head, tail, q, deq>>

\* Mutant of EnqTestFull: the full ring is not refused.
EnqTestFullUnguarded ==
    /\ enq.pc = "test_full"
    /\ enq' = [enq EXCEPT !.pc = "store"]
    /\ UNCHANGED <<head, tail, q, deq>>

EnqTestFull ==
    /\ enq.pc = "test_full"
    /\ enq' = [enq EXCEPT !.pc = IF NextIndex(tail) # enq.h THEN "store" ELSE "full"]
    /\ UNCHANGED <<head, tail, q, deq>>

EnqStore ==
    /\ enq.pc = "store"
    /\ q' = [q EXCEPT ![tail] = enq.arg]
    /\ enq' = [enq EXCEPT !.pc = "publish"]
    /\ UNCHANGED <<head, tail, deq>>

EnqPublish ==
    /\ enq.pc = "publish"
    /\ tail' = NextIndex(tail)
    /\ enq' = [enq EXCEPT !.pc = "ok"]
    /\ UNCHANGED <<head, q, deq>>

EnqReturn ==
    /\ enq.pc \in {"ok", "full"}
    /\ enq' = [enq EXCEPT !.pc = "idle", !.arg = NULL]
    /\ UNCHANGED <<head, tail, q, deq>>
-----------------------------------------------------------------------------
\* StreamDequeue, in the order of its memory accesses.
DeqCall ==
    /\ deq.pc = "idle"
    /\ deq' = [deq EXCEPT !.pc = "read_head", !.stream = NULL]
    /\ UNCHANGED <<head, tail, q, enq>>

DeqReadHead ==
    /\ deq.pc = "read_head"
    /\ deq' = [deq EXCEPT !.pc = "test_empty", !.h = head]
    /\ UNCHANGED <<head, tail, q, enq>>

\* Mutant of DeqTestEmpty: the empty ring is not recognised.
DeqTestEmptyUnguarded ==
    /\ deq.pc = "test_empty"
    /\ deq' = [deq EXCEPT !.pc = "load"]
    /\ UNCHANGED <<head, tail, q, enq>>

DeqTestEmpty ==
    /\ deq.pc = "test_empty"
    /\ deq' = [deq EXCEPT !.pc = IF deq.h # tail THEN "load" ELSE "done"]
    /\ UNCHANGED <<head, tail, q, enq>>

DeqLoad ==
    /\ deq.pc = "load"
    /\ deq' = [deq EXCEPT !.pc = "advance", !.stream = q[deq.h]]
    /\ UNCHANGED <<head, tail, q, enq>>

DeqAdvance ==
    /\ deq.pc = "advance"
    /\ head' = NextIndex(deq.h)
    /\ deq' = [deq EXCEPT !.pc = "done"]
    /\ UNCHANGED <<tail, q, enq>>

DeqReturn ==
    /\ deq.pc = "done"
    /\ deq' = [deq EXCEPT !.pc = "idle", !.stream = NULL]
    /\ UNCHANGED <<head, tail, q, enq>>

Enqueuer ==
    \/ \E s \in Stream : EnqCall(s)
    \/ EnqReadHead \/ EnqTestFull \/ EnqStore \/ EnqPublish \/ EnqReturn

Dequeuer ==
    \/ DeqCall \/ DeqReadHead \/ DeqTestEmpty \/ DeqLoad \/ DeqAdvance
    \/ DeqReturn

Next == Enqueuer \/ Dequeuer

\* Once in a call, a thread runs it to its end; nobody has to start one.
Fairness ==
    /\ WF_vars(EnqReadHead \/ EnqTestFull \/ EnqStore \/ EnqPublish \/ EnqReturn)
    /\ WF_vars(Dequeuer)

Spec == Init /\ [][Next]_vars
FairSpec == Spec /\ Fairness
-----------------------------------------------------------------------------
TypeOK ==
    /\ head \in Index /\ tail \in Index
    /\ q \in [Index -> MaybeStream]
    /\ enq \in [pc : EnqPC, arg : MaybeStream, h : Index]
    /\ deq \in [pc : DeqPC, h : Index, stream : MaybeStream]

\* The slots from _head up to _tail: how many, and which one is the i-th.
Count == IF tail >= head THEN tail - head ELSE tail + Capacity + 1 - head
Slot(i) == IF head + i - 1 <= Capacity THEN head + i - 1
                                       ELSE head + i - 2 - Capacity
Live == {Slot(i) : i \in 1 .. Count}

\* assert(stream) in StreamDequeue: a call that found the ring non-empty
\* never comes back with a null pointer, whatever the enqueuer is doing.
DequeueAsserted ==
    deq.pc = "advance" => deq.stream \in Stream

\* While the enqueuer fills a slot, that slot is not one the dequeuer may
\* read: the stale copy of _head it tested against is only ever too
\* pessimistic.
StoreMissesReader ==
    enq.pc \in {"store", "publish"} =>
        /\ tail \notin Live
        /\ NextIndex(tail) # head
        /\ deq.pc \in {"load", "advance"} => deq.h # tail

-----------------------------------------------------------------------------
(***************************************************************************)
(* The ring implements BoundedQueue.  A refused enqueue takes effect when  *)
(* it reads _head: _tail is its own, so the outcome is settled there, while *)
(* by the time of the test the dequeuer may have made room.                *)
(***************************************************************************)
AbsQueue == [i \in 1 .. Count |-> q[Slot(i)]]

AbsEnqOp ==
    CASE enq.pc = "idle" -> "idle"
      [] enq.pc = "ok" -> "ok"
      [] enq.pc = "full" -> "full"
      [] enq.pc = "test_full" /\ NextIndex(tail) = enq.h -> "full"
      [] OTHER -> "called"

AbsDeqOp ==
    CASE deq.pc = "idle" -> "idle"
      [] deq.pc = "done" -> "done"
      [] OTHER -> "called"

AbsEnq == [op |-> AbsEnqOp, arg |-> enq.arg]
AbsDeq == [op |-> AbsDeqOp, res |-> IF deq.pc = "done" THEN deq.stream ELSE NULL]

BQ == INSTANCE BoundedQueue WITH queue <- AbsQueue, enq <- AbsEnq, deq <- AbsDeq

\* Every behaviour of the ring is one of a linearizable bounded FIFO: nothing
\* lost, duplicated or reordered, refusals only when full.
ImplementsBoundedQueue == BQ!Spec

\* A stream whose enqueue succeeded is handed out if the dequeuer keeps
\* polling: no interleaving of the two index updates hides a published slot.
EveryStreamDelivered ==
    \A s \in Stream :
        (\E i \in Live : q[i] = s) ~> (deq.pc = "done" /\ deq.stream = s)
=============================================================================
