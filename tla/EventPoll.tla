------------------------------ MODULE EventPoll ------------------------------
(***************************************************************************)
(* Event notification between the mTCP thread and one application thread:  *)
(* eventpoll.c with the functions that raise events (tcp_stream.c, tcp_in.c)*)
(* and the calls that consume what an event announces (api.c).             *)
(*                                                                         *)
(* The mTCP thread puts events into mtcp_queue without a lock and moves    *)
(* them to usr_queue under epoll_lock once per round; the application puts *)
(* events that remain pending into usr_shadow_queue without a lock, and    *)
(* fetches from the latter two in mtcp_epoll_wait under the lock.  The set *)
(* of events of a socket that are queued, socket->events, is read and      *)
(* written by both threads, with no lock in common: |= and &= are a load   *)
(* and a store here.                                                       *)
(*                                                                         *)
(* avail[s][k] is what event k of socket s announces: bytes to read or     *)
(* connections to accept for "IN", room in the send buffer for "OUT".      *)
(* Registration is level-triggered.                                        *)
(*                                                                         *)
(* A setup has the size given to mtcp_epoll_create, says which sockets     *)
(* listen and tells two habits of applications apart: "late" ones register *)
(* sockets that are open already, as accepted ones are, and may have data, *)
(* "partial" ones take less than there is in one call.  mtcp_accept always *)
(* takes one connection.                                                   *)
(***************************************************************************)
EXTENDS Integers, Sequences, FiniteSets, SequencesExt

CONSTANTS Socket,      \* sockets the application may register
          Kind,        \* event kinds, of {"IN", "OUT"}
          MaxEvents,   \* maxevents of mtcp_epoll_wait
          MaxAvail,    \* bound on what piles up unread
          Setups       \* the applications there may be

ASSUME EventPollAssumption ==
    /\ Kind \subseteq {"IN", "OUT"}
    /\ Setups \subseteq [listeners : SUBSET Socket, usage : SUBSET {"late", "partial"},
                      size : Nat \ {0}]
    /\ MaxEvents \in Nat \ {0} /\ MaxAvail \in Nat \ {0}

VARIABLES setup,       \* the application, of Setups
          epoll,       \* socket->epoll: the events each socket registered
          events,      \* socket->events: its events that are queued
          open,        \* sockets that have a connection or listen
          avail,       \* what is there to be consumed
          mtcp_queue, usr_queue, usr_shadow_queue,
          waiting,     \* ep->waiting
          signalled,   \* epoll_cond was signalled and not yet consumed
          app,         \* the application thread
          mtcp         \* the mTCP thread

vars == <<setup, epoll, events, open, avail, mtcp_queue, usr_queue, usr_shadow_queue,
          waiting, signalled, app, mtcp>>
queues == <<mtcp_queue, usr_queue, usr_shadow_queue>>

Event == Socket \X Kind
Load == SUBSET Kind

\* Where the application is: "run" between calls, with the events mtcp_epoll_wait
\* returned in got, the events RaisePendingStreamEvents still has to look at in
\* look, and the AddEpollEvent calls it still has to make in adds;
\* "add" inside one of them; "wait" blocked on epoll_cond; "fetch" holding
\* epoll_lock, "clear" between load and store of socket->events there.
AppAt(pc) == app.pc = pc
EpollLocked == app.pc \in {"fetch", "clear"}

Init ==
    /\ setup \in Setups
    /\ epoll = [s \in Socket |-> {}]
    /\ events = [s \in Socket |-> {}]
    /\ open = {} /\ avail = [s \in Socket |-> [k \in Kind |-> 0]]
    /\ mtcp_queue = <<>> /\ usr_queue = <<>> /\ usr_shadow_queue = <<>>
    /\ waiting = FALSE /\ signalled = FALSE
    /\ app = [pc |-> "run", got |-> <<>>, look |-> <<>>, adds |-> <<>>,
              load |-> {}, timeout |-> "zero"]
    /\ mtcp = [pc |-> "run", ev |-> <<>>, load |-> {}]
-----------------------------------------------------------------------------
(* mTCP thread.                                                            *)

\* RaiseReadEvent and the event for a listening socket are raised for every
\* arrival, RaiseWriteEvent only when there was no room before.  The socket's
\* registration is looked at next.
Arrive(s, k) ==
    /\ mtcp.pc = "run" /\ s \in open /\ avail[s][k] < MaxAvail
    /\ k = "OUT" => s \notin setup.listeners
    /\ avail' = [avail EXCEPT ![s][k] = @ + 1]
    /\ mtcp' = IF k = "OUT" => avail[s][k] = 0
               THEN [mtcp EXCEPT !.pc = "raise", !.ev = <<s, k>>] ELSE mtcp
    /\ UNCHANGED <<epoll, events, open, queues, waiting, signalled, app>>

\* Mutant of AddTests: the last slot is never used.
AddTestsShort(queue, ev) == ev[2] \notin events[ev[1]] /\ Len(queue) < setup.size - 1

\* AddEpollEvent returns early if the event is queued already, and gives up if
\* the queue is full.
AddTests(queue, ev) == ev[2] \notin events[ev[1]] /\ Len(queue) < setup.size

\* The event is added if the socket registered it.
MtcpAddBegin ==
    /\ mtcp.pc = "raise"
    /\ mtcp' = IF mtcp.ev[2] \in epoll[mtcp.ev[1]] /\ AddTests(mtcp_queue, mtcp.ev)
               THEN [mtcp EXCEPT !.pc = "add", !.load = events[mtcp.ev[1]]]
               ELSE [mtcp EXCEPT !.pc = "run", !.ev = <<>>]
    /\ UNCHANGED <<epoll, events, open, avail, queues, waiting, signalled, app>>

MtcpAddEnd ==
    /\ mtcp.pc = "add"
    /\ events' = [events EXCEPT ![mtcp.ev[1]] = mtcp.load \cup {mtcp.ev[2]}]
    /\ mtcp_queue' = Append(mtcp_queue, mtcp.ev)
    /\ mtcp' = [pc |-> "run", ev |-> <<>>, load |-> {}]
    /\ UNCHANGED <<epoll, open, avail, usr_queue, usr_shadow_queue, waiting, signalled,
                   app>>

\* Mutant of Wakes: mtcp_queue, just emptied, is looked at for usr_queue.
WakesOnRest(moved) ==
    waiting /\ (Len(mtcp_queue) > moved \/ usr_shadow_queue # <<>>)

\* Pending events wake the application if it waits.
Wakes(moved) ==
    waiting /\ (Len(usr_queue) + moved > 0 \/ usr_shadow_queue # <<>>)

FlushEpollEvents ==
    /\ mtcp.pc = "run" /\ ~EpollLocked
    /\ LET room == setup.size - Len(usr_queue)
           moved == IF Len(mtcp_queue) < room THEN Len(mtcp_queue) ELSE room
       IN  /\ moved > 0 \/ (Wakes(moved) /\ ~signalled)
           /\ usr_queue' = usr_queue \o SubSeq(mtcp_queue, 1, moved)
           /\ mtcp_queue' = SubSeq(mtcp_queue, moved + 1, Len(mtcp_queue))
           /\ signalled' = (signalled \/ Wakes(moved))
    /\ UNCHANGED <<epoll, events, open, avail, usr_shadow_queue, waiting, app, mtcp>>
-----------------------------------------------------------------------------
(* Application thread: AddEpollEvent on usr_shadow_queue.                  *)

AppAddBegin ==
    /\ AppAt("run") /\ app.adds # <<>>
    /\ LET ev == Head(app.adds)
       IN  app' = IF AddTests(usr_shadow_queue, ev)
                  THEN [app EXCEPT !.pc = "add", !.load = events[ev[1]]]
                  ELSE [app EXCEPT !.adds = Tail(@)]
    /\ UNCHANGED <<epoll, events, open, avail, queues, waiting, signalled, mtcp>>

AppAddEnd ==
    /\ AppAt("add")
    /\ LET ev == Head(app.adds)
       IN  /\ events' = [events EXCEPT ![ev[1]] = app.load \cup {ev[2]}]
           /\ usr_shadow_queue' = Append(usr_shadow_queue, ev)
    /\ app' = [app EXCEPT !.pc = "run", !.adds = Tail(@), !.load = {}]
    /\ UNCHANGED <<epoll, open, avail, mtcp_queue, usr_queue, waiting, signalled, mtcp>>

Between == AppAt("run") /\ app.look = <<>> /\ app.adds = <<>>

\* mtcp_connect or mtcp_listen, or mtcp_accept has returned the socket.
Open(s) ==
    /\ Between /\ s \notin open
    /\ open' = open \cup {s}
    /\ UNCHANGED <<epoll, events, avail, queues, waiting, signalled, app, mtcp>>

\* What RaisePendingStreamEvents looks at after a registration: of a listening
\* socket nothing.
Looks(s, ks) ==
    IF s \in setup.listeners THEN <<>>
    ELSE (IF "IN" \in ks THEN <<<<s, "IN">>>> ELSE <<>>)
             \o (IF "OUT" \in ks THEN <<<<s, "OUT">>>> ELSE <<>>)

\* The registration is stored; from now on the mTCP thread raises the events.
Registers(s, ks) ==
    /\ Between /\ ks # {}
    /\ "late" \in setup.usage \/ s \notin open
    /\ epoll' = [epoll EXCEPT ![s] = ks]
    /\ app' = [app EXCEPT !.look = Looks(s, ks)]
    /\ UNCHANGED <<events, open, avail, queues, waiting, signalled, mtcp>>

\* RaisePendingStreamEvents, without a lock: what became ready before the
\* registration, or since, is added by the application as well.
RaisePendingStreamEvents ==
    /\ AppAt("run") /\ app.adds = <<>> /\ app.look # <<>>
    /\ LET ev == Head(app.look)
       IN  app' = [app EXCEPT !.look = Tail(@),
                              !.adds = IF avail[ev[1]][ev[2]] > 0 THEN <<ev>> ELSE <<>>]
    /\ UNCHANGED <<epoll, events, open, avail, queues, waiting, signalled, mtcp>>

\* mtcp_epoll_ctl with ADD, MOD and DEL of a socket in the right state.
CtlAdd(s, ks) == epoll[s] = {} /\ Registers(s, ks)
CtlMod(s, ks) == epoll[s] # {} /\ Registers(s, ks)
CtlDel(s) ==
    /\ Between /\ epoll[s] # {}
    /\ epoll' = [epoll EXCEPT ![s] = {}]
    /\ UNCHANGED <<events, open, avail, queues, waiting, signalled, app, mtcp>>

\* mtcp_recv, mtcp_write or mtcp_accept on the next socket reported ready: it
\* takes n of what is there.  If some is left the event is raised again, by
\* mtcp_accept whether or not it is registered.
Consume(n) ==
    /\ Between /\ app.got # <<>>
    /\ LET s == app.got[1][1]
           k == app.got[1][2]
           left == avail[s][k] - n
       IN  /\ left >= 0
           /\ IF s \in setup.listeners THEN n = 1 \/ avail[s][k] = 0
              ELSE left = 0 \/ ("partial" \in setup.usage /\ n > 0)
           /\ avail' = [avail EXCEPT ![s][k] = left]
           /\ app' = [app EXCEPT !.got = Tail(@),
                                 !.adds = IF /\ left > 0
                                             /\ s \in setup.listeners \/ k \in epoll[s]
                                          THEN <<<<s, k>>>> ELSE <<>>]
    /\ UNCHANGED <<epoll, events, open, queues, waiting, signalled, mtcp>>
-----------------------------------------------------------------------------
(* Application thread: mtcp_epoll_wait.                                    *)

NothingQueued == usr_queue = <<>> /\ usr_shadow_queue = <<>>

\* With epoll_lock held, at the label wait: sleep on epoll_cond if nothing is
\* queued and the call may wait.
SleepOrFetch(timeout) ==
    LET sleep == NothingQueued /\ timeout # "zero"
    IN  /\ waiting' = sleep /\ signalled' = FALSE
        /\ app' = [app EXCEPT !.pc = IF sleep THEN "wait" ELSE "fetch",
                              !.timeout = timeout]
        /\ UNCHANGED <<epoll, events, open, avail, queues, mtcp>>

\* A call that polls, waits for a time or waits for ever.
EpollWait(timeout) ==
    /\ Between /\ app.got = <<>>
    /\ SleepOrFetch(timeout)

\* Signalled: look again, but a call with a deadline does not sleep twice.
Wake ==
    /\ AppAt("wait") /\ signalled
    /\ SleepOrFetch(IF app.timeout = "some" THEN "zero" ELSE app.timeout)

\* The deadline passed.
TimedOut ==
    /\ AppAt("wait") /\ app.timeout = "some"
    /\ SleepOrFetch("zero")

\* The next event of the two fetch loops, usr_queue first.
NextEvent == IF usr_queue # <<>> THEN Head(usr_queue) ELSE Head(usr_shadow_queue)

\* It is returned if the socket still wants it and it is still marked as queued.
FetchBegin ==
    /\ AppAt("fetch") /\ ~NothingQueued /\ Len(app.got) < MaxEvents
    /\ LET s == NextEvent[1]
           valid == NextEvent[2] \in epoll[s] /\ NextEvent[2] \in events[s]
       IN  app' = [app EXCEPT !.pc = "clear", !.load = events[s],
                              !.got = IF valid THEN Append(@, NextEvent) ELSE @]
    /\ UNCHANGED <<epoll, events, open, avail, queues, waiting, signalled, mtcp>>

\* Mutant of Unmarked: the mark stays.
UnmarkedNever(load, ev) == load

\* The mark is taken off, of an invalid event too.
Unmarked(load, ev) == load \ {ev[2]}

FetchEnd ==
    /\ AppAt("clear")
    /\ events' = [events EXCEPT ![NextEvent[1]] = Unmarked(app.load, NextEvent)]
    /\ IF usr_queue # <<>>
       THEN usr_queue' = Tail(usr_queue) /\ UNCHANGED usr_shadow_queue
       ELSE usr_shadow_queue' = Tail(usr_shadow_queue) /\ UNCHANGED usr_queue
    /\ app' = [app EXCEPT !.pc = "fetch", !.load = {}]
    /\ UNCHANGED <<epoll, open, avail, mtcp_queue, waiting, signalled, mtcp>>

\* Nothing left or maxevents reached: return, or wait again if every event was
\* invalid and the call has time left.
FetchDone ==
    /\ AppAt("fetch")
    /\ NothingQueued \/ Len(app.got) >= MaxEvents
    /\ IF app.got = <<>> /\ app.timeout # "zero"
       THEN SleepOrFetch(app.timeout)
       ELSE /\ app' = [app EXCEPT !.pc = "run", !.timeout = "zero"]
            /\ UNCHANGED <<epoll, events, open, avail, queues, waiting, signalled, mtcp>>

MtcpThread ==
    \/ \E s \in Socket, k \in Kind : Arrive(s, k)
    \/ MtcpAddBegin \/ MtcpAddEnd \/ FlushEpollEvents

Calls ==
    \/ \E s \in Socket : Open(s) \/ CtlDel(s)
    \/ \E s \in Socket, ks \in SUBSET Kind : CtlAdd(s, ks) \/ CtlMod(s, ks)

AddCalls == RaisePendingStreamEvents \/ AppAddBegin \/ AppAddEnd

EventLoop ==
    \/ Wake \/ FetchBegin \/ FetchEnd \/ FetchDone
    \/ \E timeout \in {"zero", "some", "forever"} : EpollWait(timeout)
    \/ \E n \in 0 .. MaxAvail : Consume(n)

Next == (MtcpThread \/ Calls \/ AddCalls \/ EventLoop \/ TimedOut) /\ UNCHANGED setup

Spec == Init /\ [][Next]_vars

\* The mTCP thread finishes its calls and comes round to FlushEpollEvents; the
\* application finishes its calls and comes round to the next one of its event
\* loop, whatever it registers in between.
Fairness ==
    /\ WF_vars(MtcpAddBegin /\ UNCHANGED setup) /\ WF_vars(MtcpAddEnd /\ UNCHANGED setup)
    /\ SF_vars(FlushEpollEvents /\ UNCHANGED setup)
    /\ WF_vars(AddCalls /\ UNCHANGED setup) /\ SF_vars(EventLoop /\ UNCHANGED setup)

FairSpec == Spec /\ Fairness
-----------------------------------------------------------------------------
(* Properties.                                                             *)

\* Types, and the three queues stay within the size they were allocated with.
TypeOK ==
    /\ setup \in Setups
    /\ epoll \in [Socket -> SUBSET Kind] /\ events \in [Socket -> SUBSET Kind]
    /\ open \subseteq Socket /\ avail \in [Socket -> [Kind -> 0 .. MaxAvail]]
    /\ mtcp_queue \in Seq(Event) /\ Len(mtcp_queue) <= setup.size
    /\ usr_queue \in Seq(Event) /\ Len(usr_queue) <= setup.size
    /\ usr_shadow_queue \in Seq(Event) /\ Len(usr_shadow_queue) <= setup.size
    /\ waiting \in BOOLEAN /\ signalled \in BOOLEAN
    /\ app \in [pc : {"run", "add", "wait", "fetch", "clear"}, got : Seq(Event),
                look : Seq(Event), adds : Seq(Event), load : Load,
                timeout : {"zero", "some", "forever"}]
    /\ mtcp \in [pc : {"run", "raise", "add"}, ev : Event \cup {<<>>}, load : Load]

InQueue(ev) ==
    \E q \in {mtcp_queue, usr_queue, usr_shadow_queue} : Contains(q, ev)

\* An event is marked in socket->events only while it is queued, being added or
\* being fetched: otherwise AddEpollEvent would hold it for queued and drop it
\* ever after.
MarkedIsQueued ==
    \A s \in Socket, k \in Kind : k \in events[s] => InQueue(<<s, k>>)

\* An application that registers sockets before it connects them, has no
\* listening ones among them, and takes all there is: it never has to add an
\* event itself, so there is one copy of an event in the queues at most.
Careful == setup.usage = {} /\ setup.listeners = {}

\* socket s has something to consume that it wants to be told of, and that is
\* on its way: about to be added, queued, or the wakeup is signalled.
Ready(s, k) == k \in epoll[s] /\ avail[s][k] > 0
Coming(s, k) == InQueue(<<s, k>>) \/ mtcp.ev = <<s, k>> \/ signalled

\* The thread of a careful application that blocks in mtcp_epoll_wait is not
\* left with work, however the mTCP thread's unlocked AddEpollEvent falls
\* between the load and the store of socket->events in the fetch loops.
NoSleepOnReady ==
    Careful /\ AppAt("wait") =>
        \A s \in Socket, k \in Kind : Ready(s, k) => Coming(s, k)

\* A careful application's registered socket with something to consume is
\* reported by mtcp_epoll_wait, for as long as it stays registered and ready:
\* the flush, the signal and the fetch loops pass every event on.
ReadyIsReported ==
    \A s \in Socket, k \in Kind :
        (Careful /\ Ready(s, k)) ~> (Contains(app.got, <<s, k>>) \/ ~Ready(s, k))

\* What mtcp_accept(3) says of listening sockets: a readable event is delivered
\* when a new connection arrives.  mtcp_accept adds the event a second time
\* while connections are left, in a race with the mTCP thread: of two copies
\* the fetch of the second may take off the mark of a third event, whose fetch
\* then finds it invalid.
ConnectionIsReported ==
    AppAt("wait") => \A s \in setup.listeners : Ready(s, "IN") => Coming(s, "IN")
=============================================================================
