-------------------------------- MODULE Pipe --------------------------------
(***************************************************************************)
(* Pipes between threads of an application: pipe.c.                        *)
(*                                                                         *)
(* A pipe is one ring of bytes with one mutex and one condition variable.  *)
(* The part of a call that holds the mutex is one step; the tests before   *)
(* it and what is read after it are steps of their own.  The two ends are  *)
(* sockets, "rd" and "wr": the code lets both be read and written, here    *)
(* each thread keeps to one end and one use.  An end is blocking or not;   *)
(* the thread of a non-blocking end that is registered with epoll (level-  *)
(* triggered) waits for an event after every call, unless it was told that *)
(* the pipe is closed.                                                     *)
(*                                                                         *)
(* Byte k of all that is written has the value k.  A call with len <= 0    *)
(* returns at once and is left out.                                        *)
(***************************************************************************)
EXTENDS Integers, FiniteSets, FiniteSetsExt

CONSTANTS Readers, Writers,   \* threads
          Size,               \* PIPE_BUF_SIZE
          MaxLen,             \* bound on the len of a call
          MaxData             \* bound on the bytes written

ASSUME PipeAssumption ==
    /\ Readers \cap Writers = {} /\ Size \in Nat \ {0}
    /\ MaxLen \in Nat \ {0} /\ MaxData \in Nat

Thread == Readers \cup Writers
End == {"rd", "wr"}
EndOf(t) == IF t \in Readers THEN "rd" ELSE "wr"
Other(e) == IF e = "rd" THEN "wr" ELSE "rd"
Wanted(e) == IF e = "rd" THEN "in" ELSE "out"

VARIABLES p,       \* struct pipe
          freed,   \* it was freed
          sock,    \* the ends' sockets
          pc,      \* where each thread is
          n,       \* the len of its call
          eof,     \* the threads that were told the end
          wrote,   \* number of bytes written
          got      \* number of bytes read

vars == <<p, freed, sock, pc, n, eof, wrote, got>>

\* mtcp_pipe, with either end made non-blocking afterwards.
Init ==
    /\ p = [state |-> "active", buf |-> [i \in 0 .. Size - 1 |-> 0],
            off |-> 0, tail |-> 0, len |-> 0]
    /\ sock \in [End -> [pp : {TRUE}, nonblock : BOOLEAN, epoll : {{}}, events : {{}}]]
    /\ freed = FALSE /\ pc = [t \in Thread |-> "idle"] /\ n = [t \in Thread |-> 0]
    /\ eof = {} /\ wrote = 0 /\ got = 0
-----------------------------------------------------------------------------
(* Helpers.                                                                *)

Moved(t, to) == pc' = [pc EXCEPT ![t] = to]

\* A call ends: back to the event loop or to the program.
Returned(t) == IF sock[EndOf(t)].epoll # {} THEN "epoll" ELSE "idle"

AddEpollEvent(e, ev) == sock' = [sock EXCEPT ![e].events = @ \cup {ev}]

\* The threads that pthread_cond_signal may wake: any one of those that wait.
Woken(pcs) == {t \in Thread : pcs[t] = "wait"}

\* RaiseEventToPair: an event for a registered non-blocking pair socket, for a
\* blocking one a signal.  pcs are the threads' places but for the one woken.
RaiseEventToPair(e, ev, pcs) ==
    IF sock[Other(e)].nonblock
    THEN /\ pc' = pcs
         /\ IF sock[Other(e)].epoll # {} THEN AddEpollEvent(Other(e), ev) ELSE UNCHANGED sock
    ELSE /\ UNCHANGED sock
         /\ IF Woken(pcs) = {} THEN pc' = pcs
            ELSE \E t \in Woken(pcs) : pc' = [pcs EXCEPT ![t] = "lock"]

\* Mutants of what is announced: only what fills or empties the buffer.
ReadNotifiesLate(len, k) == len - k = 0
WriteNotifiesLate(len, k) == len + k = Size

\* A read from a full buffer is announced to the writer, a write to an empty
\* one to the reader.
ReadNotifies(len, k) == len = Size
WriteNotifies(len, k) == len = 0

\* Mutant of Advance: an index that forgets the bytes after the wrap.
AdvanceToStart(i, k) == IF i + k < Size THEN i + k ELSE 0

\* The index after k bytes from i on.
Advance(i, k) == IF i + k < Size THEN i + k ELSE k - (Size - i)
-----------------------------------------------------------------------------
(* PipeRead.                                                               *)

\* Without the lock: the end of a closed pipe, else go for the lock.
ReadCall(t, len) ==
    /\ pc[t] = "idle" /\ sock["rd"].pp
    /\ n' = [n EXCEPT ![t] = len]
    /\ IF p.state = "close_wait" /\ p.len = 0
       THEN eof' = eof \cup {t} /\ UNCHANGED pc
       ELSE UNCHANGED eof /\ Moved(t, "lock")
    /\ UNCHANGED <<p, freed, sock, wrote, got>>

\* An empty buffer: a blocking thread waits, without a look at the state.
ReadNothing(t) ==
    /\ pc[t] = "lock" /\ p.len = 0
    /\ Moved(t, IF sock["rd"].nonblock THEN "state" ELSE "wait")
    /\ UNCHANGED <<p, freed, sock, n, eof, wrote, got>>

ReadSome(t) ==
    /\ pc[t] = "lock" /\ p.len > 0
    /\ LET k == Min({n[t], p.len})
           pcs == [pc EXCEPT ![t] = "raise"]
       IN  /\ p' = [p EXCEPT !.off = Advance(@, k), !.len = @ - k]
           /\ got' = got + k
           /\ IF ReadNotifies(p.len, k) THEN RaiseEventToPair("rd", "out", pcs)
              ELSE pc' = pcs /\ UNCHANGED sock
    /\ UNCHANGED <<freed, n, eof, wrote>>

\* After the unlock: EAGAIN or the end.
ReadState(t) ==
    /\ pc[t] = "state"
    /\ Moved(t, IF p.state = "close_wait" THEN "idle" ELSE Returned(t))
    /\ eof' = IF p.state = "close_wait" THEN eof \cup {t} ELSE eof
    /\ UNCHANGED <<p, freed, sock, n, wrote, got>>

\* Mutant of ReadAgain: the end is not announced.
ReadAgainData == p.len > 0 /\ "in" \in sock["rd"].epoll

\* Is the reader to be told again: of the rest, or of the end?
ReadAgain == IF p.len > 0 THEN "in" \in sock["rd"].epoll ELSE p.state = "close_wait"

ReadRaise(t) ==
    /\ pc[t] = "raise" /\ Moved(t, Returned(t))
    /\ IF ReadAgain THEN AddEpollEvent("rd", "in") ELSE UNCHANGED sock
    /\ UNCHANGED <<p, freed, n, eof, wrote, got>>
-----------------------------------------------------------------------------
(* PipeWrite.                                                              *)

\* EPIPE if the pipe is closed, else go for the lock.
WriteCall(t, len) ==
    /\ pc[t] = "idle" /\ sock["wr"].pp /\ wrote + len <= MaxData
    /\ n' = [n EXCEPT ![t] = len]
    /\ Moved(t, IF p.state = "close_wait" THEN "idle" ELSE "lock")
    /\ UNCHANGED <<p, freed, sock, eof, wrote, got>>

WriteNothing(t) ==
    /\ pc[t] = "lock" /\ p.len = Size
    /\ Moved(t, IF sock["wr"].nonblock THEN Returned(t) ELSE "wait")
    /\ UNCHANGED <<p, freed, sock, n, eof, wrote, got>>

WriteSome(t) ==
    /\ pc[t] = "lock" /\ p.len < Size
    /\ LET k == Min({n[t], Size - p.len})
           pcs == [pc EXCEPT ![t] = "raise"]
           put(b) == [i \in DOMAIN b |-> LET j == (i - p.tail) % Size
                                         IN  IF j < k THEN wrote + j + 1 ELSE b[i]]
       IN  /\ p' = [p EXCEPT !.buf = put(@), !.tail = Advance(@, k), !.len = @ + k]
           /\ wrote' = wrote + k
           /\ IF WriteNotifies(p.len, k) THEN RaiseEventToPair("wr", "in", pcs)
              ELSE pc' = pcs /\ UNCHANGED sock
    /\ UNCHANGED <<freed, n, eof, got>>

WriteRaise(t) ==
    /\ pc[t] = "raise" /\ Moved(t, Returned(t))
    /\ IF p.len < Size /\ "out" \in sock["wr"].epoll
       THEN AddEpollEvent("wr", "out") ELSE UNCHANGED sock
    /\ UNCHANGED <<p, freed, n, eof, wrote, got>>
-----------------------------------------------------------------------------
(* mtcp_close, and the event loop of a non-blocking end.                   *)

\* Mutant of LastClose: every close frees.
LastCloseAny == TRUE

\* Has the other end closed before?
LastClose == p.state = "close_wait"

\* PipeClose: the first close is announced, the last frees the pipe.
PipeClose(t) ==
    LET pcs == [pc EXCEPT ![t] = "closed"]
    IN  /\ pc[t] \in {"idle", "epoll"} /\ sock[EndOf(t)].pp
        /\ p' = [p EXCEPT !.state = "close_wait"]
        /\ freed' = LastClose
        /\ IF LastClose
           THEN pc' = pcs /\ sock' = [e \in End |-> [sock[e] EXCEPT !.pp = FALSE]]
           ELSE RaiseEventToPair(EndOf(t), "in", pcs)
        /\ UNCHANGED <<n, eof, wrote, got>>

\* The end of mtcp_close.
FreeSocket(t) ==
    /\ pc[t] = "closed" /\ Moved(t, "done")
    /\ sock' = [sock EXCEPT ![EndOf(t)] = [@ EXCEPT !.pp = FALSE, !.epoll = {}, !.events = {}]]
    /\ UNCHANGED <<p, freed, n, eof, wrote, got>>

\* mtcp_epoll_ctl: the registration, then RaisePendingPipeEvents.
Register(t) ==
    LET e == EndOf(t)
    IN  /\ pc[t] = "idle" /\ sock[e].pp /\ sock[e].nonblock /\ sock[e].epoll = {}
        /\ sock' = [sock EXCEPT ![e].epoll = {Wanted(e)}]
        /\ Moved(t, "pending")
        /\ UNCHANGED <<p, freed, n, eof, wrote, got>>

RaisePendingPipeEvents(t) ==
    LET e == EndOf(t)
        ready == IF e = "rd" THEN p.len > 0 \/ p.state = "close_wait" ELSE p.len < Size
    IN  /\ pc[t] = "pending" /\ Moved(t, "epoll")
        /\ IF sock[e].pp /\ ready THEN AddEpollEvent(e, Wanted(e)) ELSE UNCHANGED sock
        /\ UNCHANGED <<p, freed, n, eof, wrote, got>>

\* mtcp_epoll_wait: an event that is not registered is dropped.
Fetch(t, ev) ==
    LET e == EndOf(t)
    IN  /\ pc[t] = "epoll" /\ ev \in sock[e].events
        /\ sock' = [sock EXCEPT ![e].events = @ \ {ev}]
        /\ Moved(t, IF ev \in sock[e].epoll THEN "idle" ELSE "epoll")
        /\ UNCHANGED <<p, freed, n, eof, wrote, got>>

\* POSIX lets a wait end without a signal.
SpuriousWakeup(t) ==
    /\ pc[t] = "wait" /\ Moved(t, "lock")
    /\ UNCHANGED <<p, freed, sock, n, eof, wrote, got>>

Reads(t) == ReadNothing(t) \/ ReadSome(t) \/ ReadState(t) \/ ReadRaise(t)
Writes(t) == WriteNothing(t) \/ WriteSome(t) \/ WriteRaise(t)
Waits(t) == RaisePendingPipeEvents(t) \/ \E ev \in {"in", "out"} : Fetch(t, ev)

Next ==
    \/ \E t \in Readers : Reads(t) \/ \E len \in 1 .. MaxLen : ReadCall(t, len)
    \/ \E t \in Writers : Writes(t) \/ \E len \in 1 .. MaxLen : WriteCall(t, len)
    \/ \E t \in Thread : Waits(t) \/ Register(t) \/ PipeClose(t) \/ FreeSocket(t) \/ SpuriousWakeup(t)

\* A thread goes on with the call it is in, and a reader reads.
Spec ==
    /\ Init /\ [][Next]_vars
    /\ \A t \in Readers : /\ WF_vars(Reads(t)) /\ WF_vars(Waits(t))
                          /\ WF_vars(\E len \in 1 .. MaxLen : ReadCall(t, len))
    /\ \A t \in Writers : WF_vars(Writes(t)) /\ WF_vars(FreeSocket(t))
-----------------------------------------------------------------------------
(* Properties.                                                             *)

\* Types and the bounds of the ring's indices.
TypeOK ==
    /\ p \in [state : {"active", "close_wait"}, buf : [0 .. Size - 1 -> Nat],
              off : 0 .. Size - 1, tail : 0 .. Size - 1, len : 0 .. Size]
    /\ sock \in [End -> [pp : BOOLEAN, nonblock : BOOLEAN,
                         epoll : SUBSET {"in", "out"}, events : SUBSET {"in", "out"}]]
    /\ pc \in [Thread -> {"idle", "lock", "wait", "state", "raise", "pending", "epoll", "closed", "done"}]
    /\ n \in [Thread -> 0 .. MaxLen] /\ eof \subseteq Readers /\ freed \in BOOLEAN
    /\ wrote \in Nat /\ got \in Nat

\* What lies in the ring is what was written and not yet read, in order, across
\* every wrap and every partial read and write.
RingInOrder ==
    /\ wrote = got + p.len
    /\ \A i \in 0 .. p.len - 1 : p.buf[(p.off + i) % Size] = got + i + 1

\* Nobody is left waiting for what is there: a sleeping reader means an empty
\* buffer and a sleeping writer a full one; a thread in its event loop has its
\* event.  Signals and events are sent on the edge only, so a lost one is final.
NobodyWaitsInVain ==
    \A t \in Thread :
        LET ready == IF t \in Readers THEN p.len > 0 ELSE p.len < Size
        IN  /\ pc[t] = "wait" => ~ready
            /\ pc[t] = "epoll" /\ ready => Wanted(EndOf(t)) \in sock[EndOf(t)].events

\* The pipe is freed when no call is in it.
FreedUnused ==
    freed => \A t \in Thread : pc[t] \notin {"lock", "wait", "state", "raise"}

ReaderGone == \E t \in Readers : pc[t] \in {"closed", "done"}

\* What is written is read as long as the reader has not closed its end.
WrittenIsRead ==
    \A k \in 1 .. MaxData : wrote >= k ~> (got >= k \/ ReaderGone)

\* A reader of a non-blocking end learns that the writer closed.  (A blocking
\* reader that is asleep or about to be does not: it waits for bytes only.)
EndIsReported ==
    \A t \in Readers :
        sock["rd"].nonblock /\ ~sock["wr"].pp ~> (t \in eof \/ ReaderGone)
=============================================================================
