---------------------------- MODULE BoundedQueue ----------------------------
(***************************************************************************)
(* What a stream_queue promises to the one thread that enqueues and to the *)
(* one thread that dequeues: a linearizable bounded FIFO.  Each operation  *)
(* is a call, one indivisible effect, and a return; a refused enqueue is   *)
(* refused because the queue really was full at some moment of the call,   *)
(* and an empty-handed dequeue because it really was empty.                *)
(***************************************************************************)
EXTENDS Naturals, Sequences

CONSTANTS Stream,     \* the elements
          Capacity,   \* how many of them the queue holds
          NULL        \* what a dequeue from an empty queue returns

VARIABLES queue,      \* the queued streams, oldest first
          enq,        \* the enqueuer: [op, arg]
          deq         \* the dequeuer: [op, res]

vars == <<queue, enq, deq>>

EnqOps == {"idle", "called", "ok", "full"}
DeqOps == {"idle", "called", "done"}

Init ==
    /\ queue = << >>
    /\ enq = [op |-> "idle", arg |-> NULL]
    /\ deq = [op |-> "idle", res |-> NULL]

\* The enqueuer calls with stream s.
CallEnq(s) ==
    /\ enq.op = "idle"
    /\ enq' = [op |-> "called", arg |-> s]
    /\ UNCHANGED <<queue, deq>>

\* The call takes effect: s is the youngest element.
DoEnq ==
    /\ enq.op = "called"
    /\ Len(queue) < Capacity
    /\ queue' = Append(queue, enq.arg)
    /\ enq' = [enq EXCEPT !.op = "ok"]
    /\ UNCHANGED deq

\* The call is refused, which only a full queue justifies.
FailEnq ==
    /\ enq.op = "called"
    /\ Len(queue) = Capacity
    /\ enq' = [enq EXCEPT !.op = "full"]
    /\ UNCHANGED <<queue, deq>>

RetEnq ==
    /\ enq.op \in {"ok", "full"}
    /\ enq' = [op |-> "idle", arg |-> NULL]
    /\ UNCHANGED <<queue, deq>>

CallDeq ==
    /\ deq.op = "idle"
    /\ deq' = [op |-> "called", res |-> NULL]
    /\ UNCHANGED <<queue, enq>>

\* The oldest element leaves, and is the result.
DoDeq ==
    /\ deq.op = "called"
    /\ Len(queue) > 0
    /\ queue' = Tail(queue)
    /\ deq' = [op |-> "done", res |-> Head(queue)]
    /\ UNCHANGED enq

\* Nothing is returned, which only an empty queue justifies.
EmptyDeq ==
    /\ deq.op = "called"
    /\ Len(queue) = 0
    /\ deq' = [op |-> "done", res |-> NULL]
    /\ UNCHANGED <<queue, enq>>

RetDeq ==
    /\ deq.op = "done"
    /\ deq' = [op |-> "idle", res |-> NULL]
    /\ UNCHANGED <<queue, enq>>

Next ==
    \/ \E s \in Stream : CallEnq(s)
    \/ DoEnq \/ FailEnq \/ RetEnq
    \/ CallDeq \/ DoDeq \/ EmptyDeq \/ RetDeq

Spec == Init /\ [][Next]_vars
=============================================================================
