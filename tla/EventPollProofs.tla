--------------------------- MODULE EventPollProofs ---------------------------
(***************************************************************************)
(* Proofs about EventPoll, for any number of sockets, any setup and any    *)
(* maxevents.  The queues never hold more than they were allocated for,    *)
(* whatever the kinds of events; the marks of socket->events and the       *)
(* queues agree when sockets have one kind of event only, since with two a *)
(* store of one thread can undo the other's.                               *)
(***************************************************************************)
EXTENDS EventPoll, SequenceTheorems, FiniteSetTheorems, TLAPS

-----------------------------------------------------------------------------
(* Sequences.                                                              *)

LEMMA ContainsAppend ==
    ASSUME NEW S, NEW q \in Seq(S), NEW x \in S, NEW y
    PROVE  Contains(Append(q, x), y) <=> Contains(q, y) \/ y = x
<1>1. /\ Len(Append(q, x)) = Len(q) + 1 /\ Len(q) \in Nat
      /\ \A i \in 1 .. Len(q) : Append(q, x)[i] = q[i]
      /\ Append(q, x)[Len(q) + 1] = x
  BY AppendProperties, LenProperties
<1>2. ASSUME Contains(Append(q, x), y) PROVE Contains(q, y) \/ y = x
  <2>1. PICK i \in 1 .. Len(q) + 1 : Append(q, x)[i] = y
    BY <1>1, <1>2 DEF Contains
  <2> QED
    BY <1>1, <2>1 DEF Contains
<1>3. ASSUME Contains(q, y) PROVE Contains(Append(q, x), y)
  <2>1. PICK i \in 1 .. Len(q) : q[i] = y
    BY <1>3 DEF Contains
  <2>2. i \in 1 .. Len(Append(q, x)) /\ Append(q, x)[i] = y
    BY <1>1, <2>1
  <2> QED
    BY <2>2 DEF Contains
<1>4. ASSUME y = x PROVE Contains(Append(q, x), y)
  <2>1. Len(q) + 1 \in 1 .. Len(Append(q, x))
    BY <1>1
  <2> QED
    BY <1>1, <1>4, <2>1 DEF Contains
<1> QED
  BY <1>2, <1>3, <1>4

LEMMA ContainsTail ==
    ASSUME NEW S, NEW q \in Seq(S), q # <<>>, NEW y
    PROVE  Contains(q, y) <=> y = Head(q) \/ Contains(Tail(q), y)
<1>1. /\ Len(q) \in Nat /\ Len(q) >= 1 /\ Len(Tail(q)) = Len(q) - 1 /\ Head(q) = q[1]
      /\ \A i \in 1 .. Len(Tail(q)) : Tail(q)[i] = q[i + 1]
  BY HeadTailProperties, LenProperties, EmptySeq
<1>2. ASSUME Contains(q, y) PROVE y = Head(q) \/ Contains(Tail(q), y)
  <2>1. PICK i \in 1 .. Len(q) : q[i] = y
    BY <1>2 DEF Contains
  <2>2. CASE i = 1
    BY <1>1, <2>1, <2>2
  <2>3. CASE i # 1
    <3>1. i - 1 \in 1 .. Len(Tail(q)) /\ Tail(q)[i - 1] = y
      BY <1>1, <2>1, <2>3
    <3> QED
      BY <3>1 DEF Contains
  <2> QED
    BY <2>2, <2>3
<1>3. ASSUME Contains(Tail(q), y) PROVE Contains(q, y)
  <2>1. PICK i \in 1 .. Len(Tail(q)) : Tail(q)[i] = y
    BY <1>3 DEF Contains
  <2>2. i + 1 \in 1 .. Len(q) /\ q[i + 1] = y
    BY <1>1, <2>1
  <2> QED
    BY <2>2 DEF Contains
<1>4. ASSUME y = Head(q) PROVE Contains(q, y)
  BY <1>1, <1>4 DEF Contains
<1> QED
  BY <1>2, <1>3, <1>4

LEMMA ContainsConcat ==
    ASSUME NEW S, NEW q \in Seq(S), NEW r \in Seq(S), NEW y
    PROVE  Contains(q \o r, y) <=> Contains(q, y) \/ Contains(r, y)
<1>1. /\ Len(q) \in Nat /\ Len(r) \in Nat /\ Len(q \o r) = Len(q) + Len(r)
      /\ \A i \in 1 .. Len(q) + Len(r) : (q \o r)[i] = IF i <= Len(q) THEN q[i] ELSE r[i - Len(q)]
  BY ConcatProperties, LenProperties
<1>2. ASSUME Contains(q \o r, y) PROVE Contains(q, y) \/ Contains(r, y)
  <2>1. PICK i \in 1 .. Len(q) + Len(r) : (q \o r)[i] = y
    BY <1>1, <1>2 DEF Contains
  <2>2. CASE i <= Len(q)
    <3>1. i \in 1 .. Len(q) /\ q[i] = y
      BY <1>1, <2>1, <2>2
    <3> QED
      BY <3>1 DEF Contains
  <2>3. CASE ~(i <= Len(q))
    <3>1. i - Len(q) \in 1 .. Len(r) /\ r[i - Len(q)] = y
      BY <1>1, <2>1, <2>3
    <3> QED
      BY <3>1 DEF Contains
  <2> QED
    BY <2>2, <2>3
<1>3. ASSUME Contains(q, y) PROVE Contains(q \o r, y)
  <2>1. PICK i \in 1 .. Len(q) : q[i] = y
    BY <1>3 DEF Contains
  <2>2. i \in 1 .. Len(q \o r) /\ (q \o r)[i] = y
    BY <1>1, <2>1
  <2> QED
    BY <2>2 DEF Contains
<1>4. ASSUME Contains(r, y) PROVE Contains(q \o r, y)
  <2>1. PICK i \in 1 .. Len(r) : r[i] = y
    BY <1>4 DEF Contains
  <2>2. i + Len(q) \in 1 .. Len(q \o r) /\ (q \o r)[i + Len(q)] = y
    BY <1>1, <2>1
  <2> QED
    BY <2>2 DEF Contains
<1> QED
  BY <1>2, <1>3, <1>4

\* A sequence cut in two.
LEMMA Cut ==
    ASSUME NEW S, NEW q \in Seq(S), NEW n \in 0 .. Len(q)
    PROVE  /\ SubSeq(q, 1, n) \in Seq(S) /\ Len(SubSeq(q, 1, n)) = n
           /\ SubSeq(q, n + 1, Len(q)) \in Seq(S) /\ Len(SubSeq(q, n + 1, Len(q))) = Len(q) - n
           /\ SubSeq(q, 1, n) \o SubSeq(q, n + 1, Len(q)) = q
<1>1. Len(q) \in Nat /\ n \in Nat /\ n <= Len(q)
  BY LenProperties
<1>2. /\ SubSeq(q, 1, n) \in Seq(S) /\ Len(SubSeq(q, 1, n)) = n
      /\ SubSeq(q, n + 1, Len(q)) \in Seq(S) /\ Len(SubSeq(q, n + 1, Len(q))) = Len(q) - n
  <2>1. /\ \A i \in 1 .. n : q[i] \in S
        /\ \A i \in n + 1 .. Len(q) : q[i] \in S
    BY <1>1, ElementOfSeq
  <2>2. SubSeq(q, 1, n) \in Seq(S) /\ Len(SubSeq(q, 1, n)) = n
    BY <1>1, <2>1, SubSeqProperties
  <2>3. /\ SubSeq(q, n + 1, Len(q)) \in Seq(S)
        /\ Len(SubSeq(q, n + 1, Len(q))) = IF n + 1 <= Len(q) THEN Len(q) - (n + 1) + 1 ELSE 0
    BY <1>1, <2>1, SubSeqProperties
  <2> QED
    BY <1>1, <2>2, <2>3
<1>3. SubSeq(q, 1, n) \o SubSeq(q, n + 1, Len(q)) = SubSeq(q, 1, Len(q))
  <2>1. 1 \in 1 .. Len(q) + 1 /\ n \in (1 - 1) .. Len(q) /\ Len(q) \in n .. Len(q)
    BY <1>1
  <2> QED
    BY <2>1, ConcatAdjacentSubSeq
<1>4. SubSeq(q, 1, Len(q)) = q
  BY SubSeqFull
<1> QED
  BY <1>2, <1>3, <1>4

\* The first part of one sequence moved to the end of another.
LEMMA MoveOver ==
    ASSUME NEW u \in Seq(Event), NEW q \in Seq(Event), NEW n \in 0 .. Len(q)
    PROVE  (u \o SubSeq(q, 1, n)) \o SubSeq(q, n + 1, Len(q)) = u \o q
<1>1. PICK a \in Seq(Event), b \in Seq(Event) : a = SubSeq(q, 1, n) /\ b = SubSeq(q, n + 1, Len(q))
  BY Cut
<1>2. a \o b = q
  BY <1>1, Cut
<1>3. (u \o a) \o b = u \o (a \o b)
  BY ConcatAssociative
<1> QED
  BY <1>1, <1>2, <1>3
-----------------------------------------------------------------------------
(* Types and the bounds of the queues.                                     *)

AppPC == {"run", "add", "wait", "fetch", "clear"}
Timeout == {"zero", "some", "forever"}
AppType == [pc : AppPC, got : Seq(Event), look : Seq(Event), adds : Seq(Event),
            load : Load, timeout : Timeout]
MtcpType == [pc : {"run", "raise", "add"}, ev : Event \cup {<<>>}, load : Load]

\* A thread in the middle of AddEpollEvent still has the room it found, and one
\* in the middle of a fetch still has the event it looks at.
Steps ==
    /\ mtcp.pc # "run" => mtcp.ev \in Event
    /\ mtcp.pc = "add" => Len(mtcp_queue) < setup.size
    /\ app.pc = "add" => app.adds # <<>> /\ Len(usr_shadow_queue) < setup.size
    /\ app.pc = "clear" => ~NothingQueued
    /\ app.pc \in {"wait", "fetch", "clear"} => app.adds = <<>>

QueueInv == TypeOK /\ Steps

LEMMA InitQueues == Init => QueueInv
<1> SUFFICES ASSUME Init PROVE QueueInv
  OBVIOUS
<1>1. /\ <<>> \in Seq(Event) /\ Len(<<>>) = 0 /\ setup \in Setups /\ setup.size \in Nat
  BY EventPollAssumption, EmptySeq DEF Init
<1>2. avail \in [Socket -> [Kind -> 0 .. MaxAvail]]
  BY EventPollAssumption DEF Init
<1>3. app \in AppType /\ mtcp \in MtcpType
  BY <1>1 DEF Init, AppType, MtcpType, AppPC, Timeout, Load
<1>4. /\ epoll \in [Socket -> SUBSET Kind] /\ events \in [Socket -> SUBSET Kind]
      /\ waiting \in BOOLEAN /\ signalled \in BOOLEAN
  BY DEF Init
<1>5. TypeOK
  BY <1>1, <1>2, <1>3, <1>4 DEF Init, TypeOK, AppType, MtcpType, AppPC, Timeout
<1>6. Steps
  BY DEF Init, Steps
<1> QED
  BY <1>5, <1>6 DEF QueueInv

\* The facts every step starts from.
LEMMA QueueFacts ==
    ASSUME QueueInv
    PROVE  /\ setup \in Setups /\ setup.size \in Nat /\ app \in AppType /\ mtcp \in MtcpType
           /\ epoll \in [Socket -> SUBSET Kind] /\ events \in [Socket -> SUBSET Kind]
           /\ open \subseteq Socket /\ avail \in [Socket -> [Kind -> 0 .. MaxAvail]]
           /\ mtcp_queue \in Seq(Event) /\ Len(mtcp_queue) \in 0 .. setup.size
           /\ usr_queue \in Seq(Event) /\ Len(usr_queue) \in 0 .. setup.size
           /\ usr_shadow_queue \in Seq(Event) /\ Len(usr_shadow_queue) \in 0 .. setup.size
           /\ waiting \in BOOLEAN /\ signalled \in BOOLEAN /\ Steps /\ MaxAvail \in Nat
<1>1. setup \in Setups /\ setup.size \in Nat
  BY EventPollAssumption DEF QueueInv, TypeOK
<1> QED
  BY <1>1, LenProperties, EventPollAssumption DEF QueueInv, TypeOK, AppType, MtcpType, AppPC, Timeout

\* The mTCP thread's steps: an arrival, AddEpollEvent in two steps, the flush.
LEMMA MtcpKeepsQueues ==
    ASSUME QueueInv, MtcpThread, UNCHANGED setup
    PROVE  QueueInv'
<1> USE QueueFacts
<1>1. ASSUME NEW s \in Socket, NEW k \in Kind, Arrive(s, k) PROVE QueueInv'
  <2>1. avail' \in [Socket -> [Kind -> 0 .. MaxAvail]]
    <3>1. avail' = [avail EXCEPT ![s][k] = avail[s][k] + 1] /\ avail[s][k] < MaxAvail
      BY <1>1 DEF Arrive
    <3>2. avail[s][k] + 1 \in 0 .. MaxAvail
      BY <3>1
    <3> QED
      BY <3>1, <3>2
  <2>2. /\ mtcp' \in MtcpType
        /\ (mtcp'.pc = "run" \/ (mtcp'.pc = "raise" /\ mtcp'.ev \in Event))
    <3>1. <<s, k>> \in Event
      BY DEF Event
    <3> QED
      BY <1>1, <3>1 DEF Arrive, MtcpType
  <2>3. UNCHANGED <<epoll, events, open, mtcp_queue, usr_queue, usr_shadow_queue, waiting, signalled, app>>
    BY <1>1 DEF Arrive, queues
  <2>4. Steps'
    BY <2>2, <2>3 DEF Steps, NothingQueued
  <2> QED
    BY <2>1, <2>2, <2>3, <2>4 DEF QueueInv, TypeOK, MtcpType
<1>2. CASE MtcpAddBegin
  <2>1. UNCHANGED <<epoll, events, open, avail, mtcp_queue, usr_queue, usr_shadow_queue, waiting, signalled, app>>
    BY <1>2 DEF MtcpAddBegin, queues
  <2>2. mtcp.ev \in Event /\ mtcp.ev[1] \in Socket /\ events[mtcp.ev[1]] \in Load
    BY <1>2 DEF MtcpAddBegin, Steps, Event, Load
  <2>3. /\ mtcp' \in MtcpType
        /\ mtcp'.pc # "run" => mtcp'.ev \in Event
        /\ mtcp'.pc = "add" => Len(mtcp_queue) < setup.size
    BY <1>2, <2>2 DEF MtcpAddBegin, MtcpType, AddTests
  <2>4. Steps'
    BY <2>1, <2>3 DEF Steps, NothingQueued
  <2> QED
    BY <2>1, <2>3, <2>4 DEF QueueInv, TypeOK, MtcpType
<1>3. CASE MtcpAddEnd
  <2>1. /\ UNCHANGED <<epoll, open, avail, usr_queue, usr_shadow_queue, waiting, signalled, app>>
        /\ mtcp' = [pc |-> "run", ev |-> <<>>, load |-> {}] /\ mtcp_queue' = Append(mtcp_queue, mtcp.ev)
    BY <1>3 DEF MtcpAddEnd
  <2>2. mtcp.ev \in Event /\ Len(mtcp_queue) < setup.size /\ mtcp.load \in Load
    BY <1>3 DEF MtcpAddEnd, Steps, MtcpType
  <2>3. events' \in [Socket -> SUBSET Kind]
    BY <1>3, <2>2 DEF MtcpAddEnd, Event, Load
  <2>4. mtcp_queue' \in Seq(Event) /\ Len(mtcp_queue') <= setup.size
    BY <2>1, <2>2, AppendProperties
  <2>5. mtcp' \in MtcpType
    BY <2>1 DEF MtcpType, Load
  <2>6. Steps'
    BY <2>1 DEF Steps, NothingQueued
  <2> QED
    BY <2>1, <2>3, <2>4, <2>5, <2>6 DEF QueueInv, TypeOK, MtcpType
<1>4. CASE FlushEpollEvents
  <2> DEFINE room == setup.size - Len(usr_queue)
             moved == IF Len(mtcp_queue) < room THEN Len(mtcp_queue) ELSE room
  <2>1. /\ UNCHANGED <<epoll, events, open, avail, usr_shadow_queue, waiting, app, mtcp>>
        /\ usr_queue' = usr_queue \o SubSeq(mtcp_queue, 1, moved)
        /\ mtcp_queue' = SubSeq(mtcp_queue, moved + 1, Len(mtcp_queue))
        /\ signalled' \in BOOLEAN /\ mtcp.pc = "run" /\ app.pc \notin {"fetch", "clear"}
    BY <1>4 DEF FlushEpollEvents, EpollLocked
  <2>2. moved \in 0 .. Len(mtcp_queue) /\ Len(usr_queue) + moved <= setup.size
    OBVIOUS
  <2> HIDE DEF moved
  <2>3. /\ mtcp_queue' \in Seq(Event) /\ Len(mtcp_queue') <= setup.size
    BY <2>1, <2>2, Cut
  <2>4. usr_queue' \in Seq(Event) /\ Len(usr_queue') <= setup.size
    BY <2>1, <2>2, Cut, ConcatProperties
  <2>5. Steps'
    BY <2>1 DEF Steps
  <2> QED
    BY <2>1, <2>3, <2>4, <2>5 DEF QueueInv, TypeOK
<1> QED
  BY <1>1, <1>2, <1>3, <1>4 DEF MtcpThread

\* mtcp_epoll_wait going to sleep or to fetch.
LEMMA SleepKeepsQueues ==
    ASSUME QueueInv, NEW timeout \in Timeout, SleepOrFetch(timeout), app.adds = <<>>, UNCHANGED setup
    PROVE  QueueInv'
<1>1. /\ UNCHANGED <<epoll, events, open, avail, mtcp_queue, usr_queue, usr_shadow_queue, mtcp>>
      /\ waiting' \in BOOLEAN /\ signalled' \in BOOLEAN
      /\ app' = [app EXCEPT !.pc = IF NothingQueued /\ timeout # "zero" THEN "wait" ELSE "fetch",
                            !.timeout = timeout]
  BY DEF SleepOrFetch, queues
<1>2. app' \in AppType /\ app'.pc \in {"wait", "fetch"} /\ app'.adds = <<>>
  BY <1>1, QueueFacts DEF AppType, AppPC
<1>3. Steps'
  BY <1>1, <1>2, QueueFacts DEF Steps
<1> QED
  BY <1>1, <1>2, <1>3, QueueFacts DEF QueueInv, TypeOK, AppType, AppPC, Timeout

\* The application's calls.
LEMMA CallsKeepQueues ==
    ASSUME QueueInv, Calls, UNCHANGED setup
    PROVE  QueueInv'
<1> USE QueueFacts
<1>1. ASSUME NEW s \in Socket, CtlDel(s) PROVE QueueInv'
  <2>1. /\ UNCHANGED <<events, open, avail, mtcp_queue, usr_queue, usr_shadow_queue, waiting, signalled, app, mtcp>>
        /\ epoll' \in [Socket -> SUBSET Kind]
    BY <1>1 DEF CtlDel, queues
  <2>2. Steps'
    BY <2>1 DEF Steps, NothingQueued
  <2> QED
    BY <2>1, <2>2 DEF QueueInv, TypeOK, AppType, MtcpType, AppPC, Timeout
<1>2. ASSUME NEW s \in Socket, NEW ks \in SUBSET Kind, Registers(s, ks) PROVE QueueInv'
  <2>1. Looks(s, ks) \in Seq(Event)
    <3>1. /\ "IN" \in ks => <<<<s, "IN">>>> \in Seq(Event)
          /\ "OUT" \in ks => <<<<s, "OUT">>>> \in Seq(Event) /\ <<>> \in Seq(Event)
      BY DEF Event
    <3> DEFINE a == IF "IN" \in ks THEN <<<<s, "IN">>>> ELSE <<>>
               b == IF "OUT" \in ks THEN <<<<s, "OUT">>>> ELSE <<>>
    <3>2. a \in Seq(Event) /\ b \in Seq(Event) /\ <<>> \in Seq(Event)
      BY <3>1
    <3> HIDE DEF a, b
    <3>3. a \o b \in Seq(Event)
      BY <3>2, ConcatProperties
    <3> QED
      BY <3>2, <3>3 DEF Looks, a, b
  <2>2. /\ UNCHANGED <<events, open, avail, mtcp_queue, usr_queue, usr_shadow_queue, waiting, signalled, mtcp>>
        /\ epoll' \in [Socket -> SUBSET Kind] /\ app' = [app EXCEPT !.look = Looks(s, ks)]
        /\ app.pc = "run"
    BY <1>2 DEF Registers, queues, Between, AppAt
  <2>3. app' \in AppType /\ app'.pc = "run"
    BY <2>1, <2>2 DEF AppType
  <2>4. Steps'
    BY <2>2, <2>3 DEF Steps, NothingQueued
  <2> QED
    BY <2>2, <2>3, <2>4 DEF QueueInv, TypeOK, AppType, MtcpType, AppPC, Timeout
<1>3. ASSUME NEW s \in Socket, Open(s) PROVE QueueInv'
  <2>1. /\ UNCHANGED <<epoll, events, avail, mtcp_queue, usr_queue, usr_shadow_queue, waiting, signalled, app, mtcp>>
        /\ open' \subseteq Socket
    BY <1>3 DEF Open, queues
  <2>2. Steps'
    BY <2>1 DEF Steps, NothingQueued
  <2> QED
    BY <2>1, <2>2 DEF QueueInv, TypeOK, AppType, MtcpType, AppPC, Timeout
<1> QED
  BY <1>1, <1>2, <1>3 DEF Calls, CtlAdd, CtlMod

\* The event loop: AddEpollEvent, the consuming calls, mtcp_epoll_wait.
LEMMA LoopKeepsQueues ==
    ASSUME QueueInv, AddCalls \/ EventLoop \/ TimedOut, UNCHANGED setup
    PROVE  QueueInv'
<1> USE QueueFacts
<1>1. CASE AppAddBegin
  <2>1. /\ UNCHANGED <<epoll, events, open, avail, mtcp_queue, usr_queue, usr_shadow_queue, waiting, signalled, mtcp>>
        /\ app.adds # <<>> /\ app.pc = "run" /\ app.adds \in Seq(Event)
    BY <1>1 DEF AppAddBegin, queues, AppAt, AppType
  <2>2. /\ Head(app.adds) \in Event /\ Tail(app.adds) \in Seq(Event)
        /\ Head(app.adds)[1] \in Socket /\ events[Head(app.adds)[1]] \in Load
    BY <2>1, HeadTailProperties DEF Event, Load
  <2>3. \/ /\ Len(usr_shadow_queue) < setup.size
           /\ app' = [app EXCEPT !.pc = "add", !.load = events[Head(app.adds)[1]]]
        \/ app' = [app EXCEPT !.adds = Tail(app.adds)]
    BY <1>1 DEF AppAddBegin, AddTests
  <2>4. /\ app' \in AppType /\ app'.pc \in {"run", "add"}
        /\ app'.pc = "add" => app'.adds # <<>> /\ Len(usr_shadow_queue) < setup.size
    BY <2>1, <2>2, <2>3 DEF AppType, AppPC
  <2>5. Steps'
    BY <2>1, <2>4 DEF Steps
  <2> QED
    BY <2>1, <2>4, <2>5 DEF QueueInv, TypeOK, AppType, MtcpType, AppPC, Timeout
<1>2. CASE AppAddEnd
  <2>1. /\ UNCHANGED <<epoll, open, avail, mtcp_queue, usr_queue, waiting, signalled, mtcp>>
        /\ app.adds # <<>> /\ app.adds \in Seq(Event) /\ Len(usr_shadow_queue) < setup.size
        /\ app.load \in Load /\ app' = [app EXCEPT !.pc = "run", !.adds = Tail(app.adds), !.load = {}]
        /\ usr_shadow_queue' = Append(usr_shadow_queue, Head(app.adds))
        /\ events' = [events EXCEPT ![Head(app.adds)[1]] = app.load \cup {Head(app.adds)[2]}]
    BY <1>2 DEF AppAddEnd, AppAt, AppType, Steps
  <2>2. /\ Head(app.adds) \in Event /\ Tail(app.adds) \in Seq(Event)
        /\ Head(app.adds)[1] \in Socket /\ Head(app.adds)[2] \in Kind
    BY <2>1, HeadTailProperties DEF Event
  <2>3. events' \in [Socket -> SUBSET Kind]
    BY <2>1, <2>2 DEF Load
  <2>4. usr_shadow_queue' \in Seq(Event) /\ Len(usr_shadow_queue') <= setup.size
    BY <2>1, <2>2, AppendProperties
  <2>5. app' \in AppType /\ app'.pc = "run"
    BY <2>1, <2>2 DEF AppType, AppPC, Load
  <2>6. Steps'
    BY <2>1, <2>5 DEF Steps
  <2> QED
    BY <2>1, <2>3, <2>4, <2>5, <2>6 DEF QueueInv, TypeOK, AppType, MtcpType, AppPC, Timeout
<1>3. CASE Wake \/ TimedOut
  <2>1. app.pc = "wait" /\ app.adds = <<>> /\ app.timeout \in Timeout
    BY <1>3 DEF Wake, TimedOut, AppAt, Steps, AppType
  <2>2. PICK timeout \in Timeout : SleepOrFetch(timeout)
    BY <1>3, <2>1 DEF Wake, TimedOut, Timeout
  <2> QED
    BY <2>1, <2>2, SleepKeepsQueues
<1>4. ASSUME NEW timeout \in Timeout, EpollWait(timeout) PROVE QueueInv'
  BY <1>4, SleepKeepsQueues DEF EpollWait, Between
<1>5. CASE FetchBegin
  <2>1. /\ UNCHANGED <<epoll, events, open, avail, mtcp_queue, usr_queue, usr_shadow_queue, waiting, signalled, mtcp>>
        /\ ~NothingQueued /\ app.pc = "fetch" /\ app.adds = <<>> /\ app.got \in Seq(Event)
    BY <1>5 DEF FetchBegin, queues, AppAt, Steps, AppType
  <2>2. NextEvent \in Event
    BY <2>1, HeadTailProperties DEF NextEvent, NothingQueued
  <2>3. events[NextEvent[1]] \in Load /\ Append(app.got, NextEvent) \in Seq(Event)
    BY <2>1, <2>2, AppendProperties DEF Event, Load
  <2>4. PICK g \in Seq(Event) : app' = [app EXCEPT !.pc = "clear", !.load = events[NextEvent[1]], !.got = g]
    BY <1>5, <2>1, <2>3 DEF FetchBegin
  <2>5. app' \in AppType /\ app'.pc = "clear" /\ app'.adds = <<>>
    BY <2>1, <2>3, <2>4 DEF AppType, AppPC
  <2>6. Steps'
    BY <2>1, <2>5 DEF Steps, NothingQueued
  <2> QED
    BY <2>1, <2>5, <2>6 DEF QueueInv, TypeOK, AppType, MtcpType, AppPC, Timeout
<1>6. CASE FetchEnd
  <2>1. /\ UNCHANGED <<epoll, open, avail, mtcp_queue, waiting, signalled, mtcp>>
        /\ ~NothingQueued /\ app.load \in Load /\ app' = [app EXCEPT !.pc = "fetch", !.load = {}]
        /\ app.adds = <<>>
        /\ events' = [events EXCEPT ![NextEvent[1]] = app.load \ {NextEvent[2]}]
    BY <1>6 DEF FetchEnd, AppAt, Steps, AppType, Unmarked
  <2>2. NextEvent \in Event
    BY <2>1, HeadTailProperties DEF NextEvent, NothingQueued
  <2>3. events' \in [Socket -> SUBSET Kind]
    BY <2>1, <2>2 DEF Event, Load
  <2>4. /\ usr_queue' \in Seq(Event) /\ Len(usr_queue') <= setup.size
        /\ usr_shadow_queue' \in Seq(Event) /\ Len(usr_shadow_queue') <= setup.size
    <3>1. CASE usr_queue # <<>>
      <4>1. usr_queue' = Tail(usr_queue) /\ usr_shadow_queue' = usr_shadow_queue
        BY <1>6, <3>1 DEF FetchEnd
      <4> QED
        BY <3>1, <4>1, HeadTailProperties
    <3>2. CASE usr_queue = <<>>
      <4>1. usr_shadow_queue' = Tail(usr_shadow_queue) /\ usr_queue' = usr_queue /\ usr_shadow_queue # <<>>
        BY <1>6, <2>1, <3>2 DEF FetchEnd, NothingQueued
      <4> QED
        BY <4>1, HeadTailProperties
    <3> QED
      BY <3>1, <3>2
  <2>5. app' \in AppType /\ app'.pc = "fetch" /\ app'.adds = <<>>
    BY <2>1 DEF AppType, AppPC, Load
  <2>6. Steps'
    BY <2>1, <2>5 DEF Steps
  <2> QED
    BY <2>1, <2>3, <2>4, <2>5, <2>6 DEF QueueInv, TypeOK, AppType, MtcpType, AppPC, Timeout
<1>7. CASE FetchDone
  <2>1. app.pc = "fetch" /\ app.adds = <<>> /\ app.timeout \in Timeout
    BY <1>7 DEF FetchDone, AppAt, Steps, AppType
  <2>2. CASE SleepOrFetch(app.timeout)
    BY <2>1, <2>2, SleepKeepsQueues
  <2>3. CASE ~SleepOrFetch(app.timeout)
    <3>1. /\ UNCHANGED <<epoll, events, open, avail, mtcp_queue, usr_queue, usr_shadow_queue, waiting, signalled, mtcp>>
          /\ app' = [app EXCEPT !.pc = "run", !.timeout = "zero"]
      BY <1>7, <2>3 DEF FetchDone, queues
    <3>2. app' \in AppType /\ app'.pc = "run"
      BY <3>1 DEF AppType, AppPC, Timeout
    <3>3. Steps'
      BY <3>1, <3>2 DEF Steps
    <3> QED
      BY <3>1, <3>2, <3>3 DEF QueueInv, TypeOK, AppType, MtcpType, AppPC, Timeout
  <2> QED
    BY <2>2, <2>3
<1>9. CASE RaisePendingStreamEvents
  <2>1. /\ UNCHANGED <<epoll, events, open, avail, mtcp_queue, usr_queue, usr_shadow_queue, waiting, signalled, mtcp>>
        /\ app.pc = "run" /\ app.look # <<>> /\ app.look \in Seq(Event)
    BY <1>9 DEF RaisePendingStreamEvents, AppAt, queues, AppType
  <2>2. <<Head(app.look)>> \in Seq(Event) /\ <<>> \in Seq(Event) /\ Tail(app.look) \in Seq(Event)
    BY <2>1, HeadTailProperties
  <2>3. PICK a \in Seq(Event) : app' = [app EXCEPT !.look = Tail(app.look), !.adds = a]
    BY <1>9, <2>2 DEF RaisePendingStreamEvents
  <2>4. app' \in AppType /\ app'.pc = "run"
    BY <2>1, <2>2, <2>3 DEF AppType
  <2>5. Steps'
    BY <2>1, <2>4 DEF Steps
  <2> QED
    BY <2>1, <2>4, <2>5 DEF QueueInv, TypeOK, AppType, MtcpType, AppPC, Timeout
<1>8. ASSUME NEW n \in 0 .. MaxAvail, Consume(n) PROVE QueueInv'
  <2> DEFINE s == app.got[1][1]
             k == app.got[1][2]
             left == avail[s][k] - n
  <2>1. /\ app.got # <<>> /\ app.got \in Seq(Event) /\ app.pc = "run"
        /\ UNCHANGED <<epoll, events, open, mtcp_queue, usr_queue, usr_shadow_queue, waiting, signalled, mtcp>>
    BY <1>8 DEF Consume, Between, AppAt, AppType, queues
  <2>2. app.got[1] \in Event /\ s \in Socket /\ k \in Kind /\ Tail(app.got) \in Seq(Event)
    <3>1. app.got[1] \in Event
      BY <2>1, EmptySeq, LenProperties, ElementOfSeq
    <3> QED
      BY <2>1, <3>1, HeadTailProperties DEF Event
  <2>3. left >= 0 /\ avail' = [avail EXCEPT ![s][k] = left]
    BY <1>8 DEF Consume
  <2>4. <<>> \in Seq(Event) /\ <<<<s, k>>>> \in Seq(Event)
    BY <2>2 DEF Event
  <2>5. PICK a \in Seq(Event) : app' = [app EXCEPT !.got = Tail(app.got), !.adds = a]
    BY <1>8, <2>4 DEF Consume
  <2> HIDE DEF s, k
  <2>6. left \in 0 .. MaxAvail
    <3>1. avail[s][k] \in 0 .. MaxAvail
      BY <2>2
    <3> QED
      BY <2>3, <3>1
  <2>7. avail' \in [Socket -> [Kind -> 0 .. MaxAvail]]
    BY <2>2, <2>3, <2>6
  <2>8. app' \in AppType /\ app'.pc = "run"
    BY <2>1, <2>2, <2>5 DEF AppType
  <2>9. Steps'
    BY <2>1, <2>8 DEF Steps
  <2> QED
    BY <2>1, <2>7, <2>8, <2>9 DEF QueueInv, TypeOK, AppType, MtcpType, AppPC, Timeout
<1> QED
  BY <1>1, <1>2, <1>3, <1>4, <1>5, <1>6, <1>7, <1>8, <1>9 DEF EventLoop, AddCalls, Timeout

LEMMA StepKeepsQueues == QueueInv /\ [Next]_vars => QueueInv'
<1> SUFFICES ASSUME QueueInv, [Next]_vars PROVE QueueInv'
  OBVIOUS
<1>1. CASE UNCHANGED vars
  BY <1>1 DEF vars, QueueInv, TypeOK, Steps, NothingQueued
<1> QED
  BY <1>1, MtcpKeepsQueues, CallsKeepQueues, LoopKeepsQueues DEF Next

\* AddEpollEvent and FlushEpollEvents never write beyond the queues that
\* mtcp_epoll_create allocated, although the test for room and the store are
\* two steps and nothing locks mtcp_queue and usr_shadow_queue; and every
\* variable keeps its type.  For any kinds of events and any setup.
THEOREM QueuesFit == Spec => []TypeOK
<1>1. QueueInv => TypeOK
  BY DEF QueueInv
<1> QED
  BY <1>1, InitQueues, StepKeepsQueues, PTL DEF Spec
-----------------------------------------------------------------------------
(* Marks and queues, for sockets with one kind of event.                   *)

OneKind == \A k, l \in Kind : k = l

\* A mark stays true when its event stays queued.
LEMMA MarksKept ==
    ASSUME MarkedIsQueued, UNCHANGED events, \A ev \in Event : InQueue(ev) => InQueue(ev)'
    PROVE  MarkedIsQueued'
BY DEF MarkedIsQueued, Event

LEMMA InQueueIs ==
    ASSUME NEW ev
    PROVE  /\ InQueue(ev) <=> Contains(mtcp_queue, ev) \/ Contains(usr_queue, ev) \/ Contains(usr_shadow_queue, ev)
           /\ InQueue(ev)' <=> Contains(mtcp_queue', ev) \/ Contains(usr_queue', ev) \/ Contains(usr_shadow_queue', ev)
BY DEF InQueue, Contains

\* FlushEpollEvents moves events from one queue to the next in order.
LEMMA FlushMoves ==
    ASSUME QueueInv, FlushEpollEvents, UNCHANGED setup
    PROVE  /\ usr_queue' \o mtcp_queue' = usr_queue \o mtcp_queue
           /\ usr_queue' \in Seq(Event) /\ mtcp_queue' \in Seq(Event)
           /\ UNCHANGED <<epoll, events, open, avail, usr_shadow_queue, waiting, app, mtcp>>
           /\ app.pc \notin {"fetch", "clear"} /\ mtcp.pc = "run"
<1> USE QueueFacts
<1> DEFINE room == setup.size - Len(usr_queue)
           moved == IF Len(mtcp_queue) < room THEN Len(mtcp_queue) ELSE room
           a == SubSeq(mtcp_queue, 1, moved)
           b == SubSeq(mtcp_queue, moved + 1, Len(mtcp_queue))
<1>1. usr_queue' = usr_queue \o a /\ mtcp_queue' = b
  BY DEF FlushEpollEvents
<1>2. moved \in 0 .. Len(mtcp_queue)
  OBVIOUS
<1> HIDE DEF moved
<1>3. a \in Seq(Event) /\ b \in Seq(Event) /\ a \o b = mtcp_queue
  BY <1>2, Cut
<1>4. (usr_queue \o a) \o b = usr_queue \o mtcp_queue
  BY <1>2, MoveOver
<1> HIDE DEF a, b
<1>5. usr_queue \o a \in Seq(Event)
  BY <1>3, ConcatProperties
<1> QED
  BY <1>1, <1>3, <1>4, <1>5 DEF FlushEpollEvents, EpollLocked

\* The steps that leave socket->events and the queues alone, and the others.
Quiet ==
    \/ \E s \in Socket, k \in Kind : Arrive(s, k)
    \/ MtcpAddBegin \/ RaisePendingStreamEvents \/ AppAddBegin \/ Calls \/ Wake \/ FetchBegin \/ FetchDone \/ TimedOut
    \/ \E timeout \in Timeout : EpollWait(timeout)
    \/ \E n \in 0 .. MaxAvail : Consume(n)

LEMMA QuietSteps ==
    /\ Quiet => UNCHANGED <<events, mtcp_queue, usr_queue, usr_shadow_queue>>
    /\ Next => Quiet \/ MtcpAddEnd \/ FlushEpollEvents \/ AppAddEnd \/ FetchEnd
<1>1. Next => Quiet \/ MtcpAddEnd \/ FlushEpollEvents \/ AppAddEnd \/ FetchEnd
  BY DEF Next, MtcpThread, AddCalls, EventLoop, Quiet, Timeout
<1>2. ASSUME Quiet PROVE UNCHANGED <<events, mtcp_queue, usr_queue, usr_shadow_queue>>
  BY <1>2 DEF Quiet, Calls, Arrive, MtcpAddBegin, AppAddBegin, RaisePendingStreamEvents, Open, CtlDel, CtlAdd, CtlMod,
              Registers, Wake, FetchBegin,
              FetchDone, EpollWait, Consume, TimedOut, SleepOrFetch, queues
<1> QED
  BY <1>1, <1>2

\* Storing a mark and queueing its event is one step, and so is taking both
\* back; with one kind of event a store leaves no stale mark behind.
LEMMA StepKeepsMarks ==
    ASSUME OneKind, QueueInv, MarkedIsQueued, [Next]_vars
    PROVE  MarkedIsQueued'
<1> USE QueueFacts
<1>1. ASSUME UNCHANGED <<events, mtcp_queue, usr_queue, usr_shadow_queue>> PROVE MarkedIsQueued'
  BY <1>1 DEF MarkedIsQueued, InQueue
<1>2. CASE MtcpAddEnd
  <2>1. /\ mtcp.ev \in Event /\ mtcp_queue' = Append(mtcp_queue, mtcp.ev)
        /\ events' = [events EXCEPT ![mtcp.ev[1]] = mtcp.load \cup {mtcp.ev[2]}]
        /\ UNCHANGED <<usr_queue, usr_shadow_queue>> /\ mtcp.load \in Load
    BY <1>2 DEF MtcpAddEnd, Steps, MtcpType
  <2>2. \A ev : InQueue(ev)' <=> InQueue(ev) \/ ev = mtcp.ev
    BY <2>1, InQueueIs, ContainsAppend
  <2>3. ASSUME NEW s \in Socket, NEW k \in Kind, k \in events'[s] PROVE InQueue(<<s, k>>)'
    <3>1. CASE s = mtcp.ev[1]
      <4>1. k = mtcp.ev[2] /\ <<s, k>> = mtcp.ev
        BY <2>1, <3>1 DEF OneKind, Event
      <4> QED
        BY <2>2, <4>1
    <3>2. CASE s # mtcp.ev[1]
      BY <2>1, <2>2, <2>3, <3>2 DEF MarkedIsQueued
    <3> QED
      BY <3>1, <3>2
  <2> QED
    BY <2>3 DEF MarkedIsQueued
<1>3. CASE AppAddEnd
  <2> DEFINE ev == Head(app.adds)
  <2>1. /\ app.adds # <<>> /\ app.adds \in Seq(Event) /\ usr_shadow_queue' = Append(usr_shadow_queue, ev)
        /\ events' = [events EXCEPT ![ev[1]] = app.load \cup {ev[2]}]
        /\ UNCHANGED <<usr_queue, mtcp_queue>> /\ app.load \in Load
    BY <1>3 DEF AppAddEnd, AppAt, Steps, AppType
  <2>2. ev \in Event
    BY <2>1, HeadTailProperties
  <2> HIDE DEF ev
  <2>3. \A x : InQueue(x)' <=> InQueue(x) \/ x = ev
    BY <2>1, <2>2, InQueueIs, ContainsAppend
  <2>4. ASSUME NEW s \in Socket, NEW k \in Kind, k \in events'[s] PROVE InQueue(<<s, k>>)'
    <3>1. CASE s = ev[1]
      <4>1. k = ev[2] /\ <<s, k>> = ev
        BY <2>2, <3>1 DEF OneKind, Event
      <4> QED
        BY <2>3, <4>1
    <3>2. CASE s # ev[1]
      BY <2>1, <2>3, <2>4, <3>2 DEF MarkedIsQueued
    <3> QED
      BY <3>1, <3>2
  <2> QED
    BY <2>4 DEF MarkedIsQueued
<1>4. CASE FlushEpollEvents
  <2>1. /\ usr_queue' \o mtcp_queue' = usr_queue \o mtcp_queue /\ UNCHANGED <<events, usr_shadow_queue>>
        /\ usr_queue' \in Seq(Event) /\ mtcp_queue' \in Seq(Event)
    BY <1>4, FlushMoves DEF Next, vars
  <2>2. \A ev : Contains(usr_queue', ev) \/ Contains(mtcp_queue', ev)
                    <=> Contains(usr_queue, ev) \/ Contains(mtcp_queue, ev)
    BY <2>1, ContainsConcat
  <2> QED
    BY <2>1, <2>2, InQueueIs, MarksKept
<1>5. CASE FetchEnd
  <2>1. /\ ~NothingQueued /\ app.load \in Load
        /\ events' = [events EXCEPT ![NextEvent[1]] = app.load \ {NextEvent[2]}]
    BY <1>5 DEF FetchEnd, AppAt, Steps, AppType, Unmarked
  <2>2. NextEvent \in Event
    BY <2>1, HeadTailProperties DEF NextEvent, NothingQueued
  <2>3. \A ev : InQueue(ev) => InQueue(ev)' \/ ev = NextEvent
    <3>1. CASE usr_queue # <<>>
      <4>1. /\ usr_queue' = Tail(usr_queue) /\ UNCHANGED <<mtcp_queue, usr_shadow_queue>>
            /\ NextEvent = Head(usr_queue)
        BY <1>5, <3>1 DEF FetchEnd, NextEvent
      <4> QED
        BY <3>1, <4>1, InQueueIs, ContainsTail
    <3>2. CASE usr_queue = <<>>
      <4>1. /\ usr_shadow_queue' = Tail(usr_shadow_queue) /\ UNCHANGED <<mtcp_queue, usr_queue>>
            /\ usr_shadow_queue # <<>> /\ NextEvent = Head(usr_shadow_queue)
        BY <1>5, <2>1, <3>2 DEF FetchEnd, NothingQueued, NextEvent
      <4> QED
        BY <4>1, InQueueIs, ContainsTail
    <3> QED
      BY <3>1, <3>2
  <2> DEFINE ev == NextEvent
  <2>4. ev \in Event /\ events' = [events EXCEPT ![ev[1]] = app.load \ {ev[2]}]
    BY <2>1, <2>2
  <2> HIDE DEF ev
  <2>5. ASSUME NEW s \in Socket, NEW k \in Kind, k \in events'[s] PROVE InQueue(<<s, k>>)'
    <3>1. CASE s = ev[1]
      <4>1. k = ev[2]
        BY <2>4 DEF OneKind, Event
      <4>2. k \notin events'[s]
        BY <2>4, <3>1, <4>1 DEF Event
      <4> QED
        BY <2>5, <4>2
    <3>2. CASE s # ev[1]
      <4>1. k \in events[s] /\ <<s, k>> # ev
        BY <2>4, <2>5, <3>2 DEF Event
      <4> QED
        BY <2>3, <4>1 DEF MarkedIsQueued, ev
    <3> QED
      BY <3>1, <3>2
  <2> QED
    BY <2>5 DEF MarkedIsQueued
<1>6. CASE UNCHANGED vars
  BY <1>1, <1>6 DEF vars
<1> QED
  BY <1>1, <1>2, <1>3, <1>4, <1>5, <1>6, QuietSteps

\* An event that is marked in socket->events is in one of the three queues, so
\* that the mark never outlives the event and AddEpollEvent never drops one for
\* good: for sockets with one kind of event, however AddEpollEvent and
\* mtcp_epoll_wait interleave their loads and stores of socket->events.
THEOREM MarksAreQueued == OneKind /\ Spec => []MarkedIsQueued
<1> SUFFICES ASSUME OneKind PROVE Spec => []MarkedIsQueued
  OBVIOUS
<1>1. Init => MarkedIsQueued
  BY DEF Init, MarkedIsQueued
<1>2. QueueInv /\ MarkedIsQueued /\ [Next]_vars => MarkedIsQueued'
  BY StepKeepsMarks
<1> QED
  BY <1>1, <1>2, InitQueues, StepKeepsQueues, PTL DEF Spec
-----------------------------------------------------------------------------
(* Sequences without repetition.                                           *)

Distinct(q) == \A i, j \in 1 .. Len(q) : q[i] = q[j] => i = j

LEMMA DistinctAppend ==
    ASSUME NEW S, NEW q \in Seq(S), NEW x \in S, Distinct(q), ~Contains(q, x)
    PROVE  Distinct(Append(q, x))
<1>1. /\ Len(Append(q, x)) = Len(q) + 1 /\ Len(q) \in Nat
      /\ \A i \in 1 .. Len(q) : Append(q, x)[i] = q[i] /\ q[i] # x
      /\ Append(q, x)[Len(q) + 1] = x
  BY AppendProperties, LenProperties DEF Contains
<1> QED
  BY <1>1 DEF Distinct

LEMMA DistinctTail ==
    ASSUME NEW S, NEW q \in Seq(S), q # <<>>, Distinct(q)
    PROVE  Distinct(Tail(q)) /\ ~Contains(Tail(q), Head(q))
<1>1. /\ Len(q) \in Nat /\ Len(q) >= 1 /\ Len(Tail(q)) = Len(q) - 1 /\ Head(q) = q[1]
      /\ \A i \in 1 .. Len(Tail(q)) : Tail(q)[i] = q[i + 1]
  BY HeadTailProperties, LenProperties, EmptySeq
<1>2. Distinct(Tail(q))
  <2> SUFFICES ASSUME NEW i \in 1 .. Len(Tail(q)), NEW j \in 1 .. Len(Tail(q)), Tail(q)[i] = Tail(q)[j]
               PROVE  i = j
    BY DEF Distinct
  <2>1. i + 1 \in 1 .. Len(q) /\ j + 1 \in 1 .. Len(q) /\ q[i + 1] = q[j + 1]
    BY <1>1
  <2>2. i + 1 = j + 1
    BY <2>1 DEF Distinct
  <2> QED
    BY <2>2
<1>3. ASSUME NEW i \in 1 .. Len(Tail(q)), Tail(q)[i] = Head(q) PROVE FALSE
  <2>1. i + 1 \in 1 .. Len(q) /\ 1 \in 1 .. Len(q) /\ q[i + 1] = q[1]
    BY <1>1, <1>3
  <2>2. i + 1 = 1
    BY <2>1 DEF Distinct
  <2> QED
    BY <2>2
<1> QED
  BY <1>2, <1>3 DEF Contains

LEMMA DistinctRest ==
    ASSUME NEW S, NEW q \in Seq(S), NEW r \in Seq(S), Distinct(q \o r)
    PROVE  Distinct(r)
<1>1. /\ Len(q) \in Nat /\ Len(r) \in Nat /\ Len(q \o r) = Len(q) + Len(r)
      /\ \A i \in 1 .. Len(q) + Len(r) : (q \o r)[i] = IF i <= Len(q) THEN q[i] ELSE r[i - Len(q)]
  BY ConcatProperties, LenProperties
<1> SUFFICES ASSUME NEW i \in 1 .. Len(r), NEW j \in 1 .. Len(r), r[i] = r[j] PROVE i = j
  BY DEF Distinct
<1>2. /\ i + Len(q) \in 1 .. Len(q \o r) /\ j + Len(q) \in 1 .. Len(q \o r)
      /\ (q \o r)[i + Len(q)] = r[i] /\ (q \o r)[j + Len(q)] = r[j]
  BY <1>1
<1>3. i + Len(q) = j + Len(q)
  BY <1>2 DEF Distinct
<1> QED
  BY <1>1, <1>3

\* The queues as one sequence: what a fetch takes and what an addition puts.
LEMMA ConcatEnds ==
    ASSUME NEW q \in Seq(Event), NEW r \in Seq(Event), NEW x \in Event
    PROVE  /\ q \o r \in Seq(Event) /\ q \o Append(r, x) = Append(q \o r, x)
           /\ q # <<>> => /\ q \o r # <<>> /\ Head(q \o r) = Head(q)
                          /\ Tail(q) \o r = Tail(q \o r)
<1>1. q \o r \in Seq(Event)
  BY ConcatProperties
<1>2. q \o Append(r, x) = Append(q \o r, x)
  <2>1. Append(r, x) = r \o <<x>> /\ <<x>> \in Seq(Event)
    BY AppendIsConcat
  <2>2. Append(q \o r, x) = (q \o r) \o <<x>>
    BY <1>1, AppendIsConcat
  <2>3. PICK y \in Seq(Event) : y = <<x>>
    BY <2>1
  <2>4. (q \o r) \o y = q \o (r \o y)
    BY ConcatAssociative
  <2> QED
    BY <2>1, <2>2, <2>3, <2>4
<1>3. ASSUME q # <<>>
      PROVE  q \o r # <<>> /\ Head(q \o r) = Head(q) /\ Tail(q) \o r = Tail(q \o r)
  <2>1. /\ Len(q) \in Nat /\ Len(r) \in Nat /\ Len(q) >= 1 /\ Len(q \o r) = Len(q) + Len(r)
        /\ \A i \in 1 .. Len(q) + Len(r) : (q \o r)[i] = IF i <= Len(q) THEN q[i] ELSE r[i - Len(q)]
    BY <1>3, ConcatProperties, LenProperties, EmptySeq
  <2>2. q \o r # <<>> /\ Head(q \o r) = Head(q)
    BY <1>1, <1>3, <2>1, EmptySeq
  <2>3. /\ Tail(q) \in Seq(Event) /\ Len(Tail(q)) = Len(q) - 1
        /\ \A i \in 1 .. Len(q) - 1 : Tail(q)[i] = q[i + 1]
    BY <1>3, HeadTailProperties
  <2>4. /\ Tail(q \o r) \in Seq(Event) /\ Len(Tail(q \o r)) = Len(q) + Len(r) - 1
        /\ \A i \in 1 .. Len(q) + Len(r) - 1 : Tail(q \o r)[i] = (q \o r)[i + 1]
    BY <1>1, <2>1, <2>2, HeadTailProperties
  <2>5. PICK t \in Seq(Event) : t = Tail(q)
    BY <2>3
  <2>6. /\ t \o r \in Seq(Event) /\ Len(t \o r) = Len(q) + Len(r) - 1
        /\ \A i \in 1 .. Len(q) + Len(r) - 1 :
              (t \o r)[i] = IF i <= Len(q) - 1 THEN t[i] ELSE r[i - (Len(q) - 1)]
    BY <2>1, <2>3, <2>5, ConcatProperties
  <2>7. \A i \in 1 .. Len(t \o r) : (t \o r)[i] = Tail(q \o r)[i]
    BY <2>1, <2>3, <2>4, <2>5, <2>6
  <2>8. t \o r = Tail(q \o r)
    BY <2>4, <2>6, <2>7, SeqEqual
  <2> QED
    BY <2>2, <2>5, <2>8
<1> QED
  BY <1>1, <1>2, <1>3

\* A queue without repetition that lacks an event is shorter than their number.
LEMMA RoomForMore ==
    ASSUME IsFiniteSet(Event), NEW q \in Seq(Event), Distinct(q), NEW x \in Event, ~Contains(q, x)
    PROVE  Len(q) < Cardinality(Event)
<1>1. Len(q) \in Nat /\ q \in [1 .. Len(q) -> Event]
  BY LenProperties
<1>2. q \in [1 .. Len(q) -> Event \ {x}] /\ IsInjective(q)
  BY <1>1 DEF Contains, Distinct, IsInjective
<1>3. /\ IsFiniteSet(Event \ {x}) /\ Cardinality(Event \ {x}) = Cardinality(Event) - 1
      /\ Cardinality(Event) \in Nat
  BY FS_RemoveElement, FS_CardinalityType
<1>4. q \in Injection(1 .. Len(q), Event \ {x})
  BY <1>2 DEF Injection
<1>5. Cardinality(1 .. Len(q)) <= Cardinality(Event \ {x})
  BY <1>3, <1>4, FS_Injection
<1>6. Cardinality(1 .. Len(q)) = Len(q)
  BY <1>1, FS_Interval
<1> QED
  BY <1>1, <1>3, <1>5, <1>6
-----------------------------------------------------------------------------
(* A careful application does not sleep on a ready socket.                 *)

\* mtcp_epoll_create was given room for every event of the application.
Fits ==
    /\ IsFiniteSet(Event)
    /\ \A st \in Setups : st.usage = {} /\ st.listeners = {} => Cardinality(Event) <= st.size

\* The events on their way to a careful application, first to last: it never
\* adds to usr_shadow_queue.
Queue == usr_queue \o mtcp_queue

\* A careful application adds no events itself; it sleeps only when it has none.
OnlyMtcpAdds ==
    /\ app.adds = <<>> /\ app.pc # "add" /\ usr_shadow_queue = <<>>
    /\ app.pc = "wait" => app.got = <<>>
    /\ mtcp.pc = "run" => mtcp.ev = <<>>

\* What is queued is marked and queued once; what is being added is not queued.
QueuedOnce ==
    /\ Distinct(Queue)
    /\ \A ev \in Event : Contains(Queue, ev) => ev[2] \in events[ev[1]]
    /\ mtcp.pc = "add" => ~Contains(Queue, mtcp.ev)

\* A wanted event that is being taken from the queue is among those fetched.
TakenIsGot ==
    app.pc = "clear" => \A ev \in Event : ev = Head(Queue) /\ ev[2] \in epoll[ev[1]] => Contains(app.got, ev)

\* A registered socket that is ready has its event queued, raised or fetched.
ReadyIsKnown ==
    \A ev \in Event : ev[2] \in epoll[ev[1]] /\ avail[ev[1]][ev[2]] > 0 =>
        Contains(Queue, ev) \/ mtcp.ev = ev \/ Contains(app.got, ev)

\* Nothing arrives for a socket that is not open, and the application registers,
\* and looks at, only such sockets.
LooksEarly ==
    /\ \A ev \in Event : ev[1] \notin open => avail[ev[1]][ev[2]] = 0
    /\ \A ev \in Event : Contains(app.look, ev) => ev[1] \notin open

CarefulInv == OnlyMtcpAdds /\ QueuedOnce /\ TakenIsGot /\ ReadyIsKnown /\ LooksEarly

LEMMA EarlyKept ==
    ASSUME CarefulInv, UNCHANGED <<open, avail>>, app'.look = app.look
    PROVE  LooksEarly'
BY DEF CarefulInv, LooksEarly

\* What holds in every state of a careful application.
LEMMA CarefulFacts ==
    ASSUME Careful, QueueInv, CarefulInv
    PROVE  /\ setup.listeners = {} /\ setup.usage = {} /\ Queue \in Seq(Event)
           /\ \A ev : InQueue(ev) <=> Contains(Queue, ev)
<1>1. /\ usr_queue \in Seq(Event) /\ mtcp_queue \in Seq(Event) /\ usr_shadow_queue = <<>>
  BY QueueFacts DEF CarefulInv, OnlyMtcpAdds
<1>2. \A ev : ~Contains(usr_shadow_queue, ev)
  BY <1>1 DEF Contains
<1>3. Queue \in Seq(Event)
  BY <1>1, ConcatProperties DEF Queue
<1>4. \A ev : Contains(Queue, ev) <=> Contains(usr_queue, ev) \/ Contains(mtcp_queue, ev)
  BY <1>1, ContainsConcat DEF Queue
<1> QED
  BY <1>2, <1>3, <1>4, InQueueIs DEF Careful

LEMMA EventParts ==
    ASSUME NEW ev \in Event
    PROVE  ev[1] \in Socket /\ ev[2] \in Kind /\ ev = <<ev[1], ev[2]>> /\ ev # <<>>
<1>1. ev[1] \in Socket /\ ev[2] \in Kind
  BY DEF Event
<1>2. ev = <<ev[1], ev[2]>>
  BY DEF Event
<1>3. Len(ev) = 2 /\ Len(<<>>) = 0
  BY <1>2
<1> QED
  BY <1>1, <1>2, <1>3

\* The mTCP thread.
LEMMA MtcpKeepsCareful ==
    ASSUME OneKind, Fits, Careful, QueueInv, MarkedIsQueued, CarefulInv, MtcpThread, UNCHANGED setup
    PROVE  CarefulInv'
<1> USE QueueFacts, CarefulFacts
<1>1. ASSUME NEW s \in Socket, NEW k \in Kind, Arrive(s, k) PROVE CarefulInv'
  <2> DEFINE e == <<s, k>>
  <2>1. /\ UNCHANGED <<epoll, events, open, usr_queue, mtcp_queue, usr_shadow_queue, app>> /\ e \in Event
        /\ mtcp.pc = "run" /\ avail' = [avail EXCEPT ![s][k] = avail[s][k] + 1] /\ mtcp.ev = <<>> /\ s \in open
    BY <1>1 DEF Arrive, queues, Event, CarefulInv, OnlyMtcpAdds
  <2>2. \/ mtcp' = mtcp /\ (k \notin epoll[s] \/ avail[s][k] # 0)
        \/ mtcp' = [mtcp EXCEPT !.pc = "raise", !.ev = e]
    BY <1>1 DEF Arrive
  <2>3. /\ mtcp'.pc # "add" /\ (mtcp'.pc = "run" => mtcp'.ev = <<>>)
        /\ mtcp'.ev = e \/ (mtcp'.ev = mtcp.ev /\ (k \notin epoll[s] \/ avail[s][k] # 0))
    BY <2>1, <2>2 DEF MtcpType
  <2>4. OnlyMtcpAdds' /\ QueuedOnce' /\ TakenIsGot'
    BY <2>1, <2>3 DEF CarefulInv, OnlyMtcpAdds, QueuedOnce, TakenIsGot, Queue
  <2>5. ASSUME NEW ev \in Event, ev[2] \in epoll[ev[1]], avail'[ev[1]][ev[2]] > 0
        PROVE  Contains(Queue, ev) \/ mtcp'.ev = ev \/ Contains(app.got, ev)
    <3>1. ev[1] \in Socket /\ ev[2] \in Kind /\ ev = <<ev[1], ev[2]>> /\ mtcp.ev # ev
      BY <2>1, EventParts
    <3>2. avail[ev[1]][ev[2]] > 0 => Contains(Queue, ev) \/ Contains(app.got, ev)
      BY <2>5, <3>1 DEF CarefulInv, ReadyIsKnown
    <3>3. CASE ev[1] = s /\ ev[2] = k
      <4>1. avail[s][k] \in Nat /\ (avail[s][k] # 0 => avail[s][k] > 0)
        OBVIOUS
      <4>2. ev = e
        BY <3>1, <3>3
      <4> HIDE DEF e
      <4> QED
        BY <2>3, <2>5, <3>2, <3>3, <4>1, <4>2
    <3>4. CASE ~(ev[1] = s /\ ev[2] = k)
      <4>1. avail'[ev[1]][ev[2]] = avail[ev[1]][ev[2]]
        BY <2>1, <3>1, <3>4
      <4> QED
        BY <2>5, <3>2, <4>1
    <3> QED
      BY <3>3, <3>4
  <2>6. ReadyIsKnown'
    BY <2>1, <2>5 DEF ReadyIsKnown, Queue
  <2>7. LooksEarly'
    <3>1. \A ev \in Event : ev[1] \notin open => avail'[ev[1]][ev[2]] = avail[ev[1]][ev[2]]
      BY <2>1, EventParts
    <3> QED
      BY <2>1, <3>1 DEF CarefulInv, LooksEarly
  <2> QED
    BY <2>4, <2>6, <2>7 DEF CarefulInv
<1>2. CASE MtcpAddBegin
  <2>1. /\ UNCHANGED <<epoll, events, open, avail, usr_queue, mtcp_queue, usr_shadow_queue, app>>
        /\ mtcp.ev \in Event /\ mtcp.pc = "raise"
    BY <1>2 DEF MtcpAddBegin, queues, Steps
  <2>2. \/ /\ mtcp' = [mtcp EXCEPT !.pc = "add", !.load = events[mtcp.ev[1]]]
           /\ mtcp.ev[2] \notin events[mtcp.ev[1]]
        \/ /\ mtcp' = [mtcp EXCEPT !.pc = "run", !.ev = <<>>]
           /\ mtcp.ev[2] \notin epoll[mtcp.ev[1]] \/ ~AddTests(mtcp_queue, mtcp.ev)
    BY <1>2 DEF MtcpAddBegin, AddTests
  <2>3. ASSUME ~AddTests(mtcp_queue, mtcp.ev) PROVE Contains(Queue, mtcp.ev)
    <3>1. CASE mtcp.ev[2] \in events[mtcp.ev[1]]
      <4>1. mtcp.ev[1] \in Socket /\ mtcp.ev[2] \in Kind /\ mtcp.ev = <<mtcp.ev[1], mtcp.ev[2]>>
        BY <2>1, EventParts
      <4>2. InQueue(<<mtcp.ev[1], mtcp.ev[2]>>)
        BY <3>1, <4>1 DEF MarkedIsQueued
      <4> QED
        BY <4>1, <4>2
    <3>2. CASE ~Contains(Queue, mtcp.ev)
      <4>1. Distinct(mtcp_queue)
        BY DistinctRest DEF CarefulInv, QueuedOnce, Queue
      <4>2. ~Contains(mtcp_queue, mtcp.ev)
        BY <3>2, ContainsConcat DEF Queue
      <4>3. Len(mtcp_queue) < Cardinality(Event)
        BY <2>1, <4>1, <4>2, RoomForMore DEF Fits
      <4>4. Cardinality(Event) <= setup.size /\ Cardinality(Event) \in Nat
        BY FS_CardinalityType DEF Fits
      <4>5. mtcp.ev[2] \in events[mtcp.ev[1]]
        BY <2>3, <4>3, <4>4 DEF AddTests
      <4> QED
        BY <3>1, <4>5
    <3> QED
      BY <3>1, <3>2
  <2>4. /\ mtcp'.pc = "run" =>
              mtcp'.ev = <<>> /\ (mtcp.ev[2] \in epoll[mtcp.ev[1]] => Contains(Queue, mtcp.ev))
        /\ mtcp'.pc = "add" => mtcp'.ev = mtcp.ev /\ mtcp.ev[2] \notin events[mtcp.ev[1]]
        /\ mtcp'.pc \in {"run", "add"}
    BY <2>2, <2>3 DEF MtcpType
  <2>5. OnlyMtcpAdds' /\ QueuedOnce' /\ TakenIsGot'
    BY <2>1, <2>4 DEF CarefulInv, OnlyMtcpAdds, QueuedOnce, TakenIsGot, Queue
  <2>6. ReadyIsKnown'
    BY <2>1, <2>4 DEF CarefulInv, ReadyIsKnown, Queue
  <2> QED
    BY <2>1, <2>5, <2>6, EarlyKept DEF CarefulInv
<1>3. CASE MtcpAddEnd
  <2>1. /\ UNCHANGED <<epoll, open, avail, usr_queue, usr_shadow_queue, app>> /\ mtcp_queue' = Append(mtcp_queue, mtcp.ev)
        /\ mtcp.ev \in Event /\ mtcp.pc = "add" /\ mtcp'.pc = "run" /\ mtcp'.ev = <<>>
        /\ events' = [events EXCEPT ![mtcp.ev[1]] = mtcp.load \cup {mtcp.ev[2]}]
    BY <1>3 DEF MtcpAddEnd, Steps
  <2>2. Queue' = Append(Queue, mtcp.ev)
    BY <2>1, ConcatEnds DEF Queue
  <2>3. \A ev : Contains(Queue', ev) <=> Contains(Queue, ev) \/ ev = mtcp.ev
    BY <2>1, <2>2, ContainsAppend
  <2>4. Distinct(Queue')
    BY <2>1, <2>2, DistinctAppend DEF CarefulInv, QueuedOnce
  <2>5. \A ev \in Event : Contains(Queue', ev) => ev[2] \in events'[ev[1]]
    <3> SUFFICES ASSUME NEW ev \in Event, Contains(Queue', ev) PROVE ev[2] \in events'[ev[1]]
      OBVIOUS
    <3>1. CASE ev[1] = mtcp.ev[1]
      BY <2>1, <3>1 DEF Event, OneKind
    <3>2. CASE ev[1] # mtcp.ev[1]
      BY <2>1, <2>3, <3>2 DEF Event, CarefulInv, QueuedOnce
    <3> QED
      BY <3>1, <3>2
  <2>6. app.pc = "clear" => Head(Queue') = Head(Queue)
    <3>1. app.pc = "clear" => usr_queue # <<>>
      BY DEF Steps, NothingQueued, CarefulInv, OnlyMtcpAdds
    <3>2. Append(mtcp_queue, mtcp.ev) \in Seq(Event)
      BY <2>1, AppendProperties
    <3> QED
      BY <2>1, <3>1, <3>2, ConcatEnds DEF Queue
  <2>7. OnlyMtcpAdds' /\ QueuedOnce' /\ TakenIsGot'
    BY <2>1, <2>4, <2>5, <2>6 DEF CarefulInv, OnlyMtcpAdds, QueuedOnce, TakenIsGot
  <2>8. ReadyIsKnown'
    BY <2>1, <2>3 DEF CarefulInv, ReadyIsKnown
  <2> QED
    BY <2>1, <2>7, <2>8, EarlyKept DEF CarefulInv
<1>4. CASE FlushEpollEvents
  <2>1. Queue' = Queue /\ UNCHANGED <<epoll, events, open, avail, usr_shadow_queue, app, mtcp>> /\ app.pc # "clear"
    BY <1>4, FlushMoves DEF Queue
  <2> QED
    BY <2>1, EarlyKept DEF CarefulInv, OnlyMtcpAdds, QueuedOnce, TakenIsGot, ReadyIsKnown
<1> QED
  BY <1>1, <1>2, <1>3, <1>4 DEF MtcpThread

\* mtcp_epoll_ctl and mtcp_connect: a careful application registers a socket
\* before it has a connection.
LEMMA CallsKeepCareful ==
    ASSUME Careful, QueueInv, CarefulInv, Calls, UNCHANGED setup
    PROVE  CarefulInv'
<1> USE QueueFacts, CarefulFacts
<1>1. ASSUME NEW s \in Socket, CtlDel(s) PROVE CarefulInv'
  <2>1. /\ UNCHANGED <<events, open, avail, usr_queue, mtcp_queue, usr_shadow_queue, app, mtcp>>
        /\ app.pc = "run" /\ epoll' = [epoll EXCEPT ![s] = {}]
    BY <1>1 DEF CtlDel, queues, Between, AppAt
  <2>2. OnlyMtcpAdds' /\ QueuedOnce' /\ TakenIsGot'
    BY <2>1 DEF CarefulInv, OnlyMtcpAdds, QueuedOnce, TakenIsGot, Queue
  <2>3. \A ev \in Event : ev[2] \in epoll'[ev[1]] => ev[2] \in epoll[ev[1]]
    BY <2>1 DEF Event
  <2>4. ReadyIsKnown'
    BY <2>1, <2>3 DEF CarefulInv, ReadyIsKnown, Queue
  <2> QED
    BY <2>1, <2>2, <2>4, EarlyKept DEF CarefulInv
<1>2. ASSUME NEW s \in Socket, NEW ks \in SUBSET Kind, Registers(s, ks) PROVE CarefulInv'
  <2>1. /\ UNCHANGED <<events, open, avail, usr_queue, mtcp_queue, usr_shadow_queue, mtcp>>
        /\ app.pc = "run" /\ epoll' = [epoll EXCEPT ![s] = ks]
        /\ app' = [app EXCEPT !.look = Looks(s, ks)] /\ s \notin open
    BY <1>2 DEF Registers, queues, Between, AppAt
  <2>2. \A ev : Contains(Looks(s, ks), ev) => ev[1] = s
    BY DEF Looks, Contains
  <2>3. app'.pc = "run" /\ app'.adds = app.adds /\ app'.got = app.got /\ app'.look = Looks(s, ks)
    BY <2>1 DEF AppType
  <2>4. OnlyMtcpAdds' /\ QueuedOnce' /\ TakenIsGot'
    BY <2>1, <2>3 DEF CarefulInv, OnlyMtcpAdds, QueuedOnce, TakenIsGot, Queue
  <2>5. \A ev \in Event : ev[2] \in epoll'[ev[1]] /\ avail[ev[1]][ev[2]] > 0 => ev[2] \in epoll[ev[1]]
    <3> SUFFICES ASSUME NEW ev \in Event, ev[2] \in epoll'[ev[1]], avail[ev[1]][ev[2]] > 0
                 PROVE  ev[2] \in epoll[ev[1]]
      OBVIOUS
    <3>1. ev[1] \in Socket
      BY DEF Event
    <3>2. ev[1] # s
      BY <2>1 DEF CarefulInv, LooksEarly
    <3> QED
      BY <2>1, <3>1, <3>2
  <2>6. ReadyIsKnown'
    BY <2>1, <2>3, <2>5 DEF CarefulInv, ReadyIsKnown, Queue
  <2>7. LooksEarly'
    BY <2>1, <2>2, <2>3 DEF CarefulInv, LooksEarly
  <2> QED
    BY <2>4, <2>6, <2>7 DEF CarefulInv
<1>3. ASSUME NEW s \in Socket, Open(s) PROVE CarefulInv'
  <2>1. /\ UNCHANGED <<epoll, events, avail, usr_queue, mtcp_queue, usr_shadow_queue, app, mtcp>>
        /\ app.look = <<>> /\ open' = open \cup {s}
    BY <1>3 DEF Open, queues, Between
  <2>2. LooksEarly'
    <3>1. \A ev : ~Contains(app.look, ev)
      BY <2>1 DEF Contains
    <3> QED
      BY <2>1, <3>1 DEF CarefulInv, LooksEarly
  <2> QED
    BY <2>1, <2>2 DEF CarefulInv, OnlyMtcpAdds, QueuedOnce, TakenIsGot, ReadyIsKnown, Queue
<1> QED
  BY <1>1, <1>2, <1>3 DEF Calls, CtlAdd, CtlMod

\* Going to sleep or to the fetch loops touches neither queues nor marks.
LEMMA SleepKeepsCareful ==
    ASSUME QueueInv, CarefulInv, NEW timeout, SleepOrFetch(timeout), app.got = <<>>
    PROVE  CarefulInv'
<1> USE QueueFacts
<1>1. /\ UNCHANGED <<epoll, events, open, avail, usr_queue, mtcp_queue, usr_shadow_queue, mtcp>>
      /\ app'.pc \in {"wait", "fetch"} /\ app'.adds = app.adds /\ app'.got = app.got /\ app'.look = app.look
  BY DEF SleepOrFetch, queues, AppType
<1>2. app'.pc # "add" /\ app'.pc # "clear"
  BY <1>1
<1> QED
  BY <1>1, <1>2, EarlyKept DEF CarefulInv, OnlyMtcpAdds, QueuedOnce, TakenIsGot, ReadyIsKnown, Queue

\* The application's event loop: it takes all there is of each socket reported.
LEMMA LoopKeepsCareful ==
    ASSUME OneKind, Careful, QueueInv, MarkedIsQueued, CarefulInv, AddCalls \/ EventLoop \/ TimedOut,
           UNCHANGED setup
    PROVE  CarefulInv'
<1> USE QueueFacts, CarefulFacts
<1>1. app.pc # "add" /\ app.adds = <<>> /\ (app.pc = "wait" => app.got = <<>>)
  BY DEF CarefulInv, OnlyMtcpAdds
<1>2. CASE AppAddBegin \/ AppAddEnd
  BY <1>1, <1>2 DEF AppAddBegin, AppAddEnd, AppAt
<1>3. CASE Wake \/ TimedOut
  <2>1. app.got = <<>>
    BY <1>1, <1>3 DEF Wake, TimedOut, AppAt
  <2> QED
    BY <1>3, <2>1, SleepKeepsCareful DEF Wake, TimedOut
<1>4. ASSUME NEW timeout \in {"zero", "some", "forever"}, EpollWait(timeout) PROVE CarefulInv'
  BY <1>4, SleepKeepsCareful DEF EpollWait
<1>5. CASE FetchDone
  <2>1. CASE app.got = <<>> /\ app.timeout # "zero"
    BY <1>5, <2>1, SleepKeepsCareful DEF FetchDone
  <2>2. CASE ~(app.got = <<>> /\ app.timeout # "zero")
    <3>1. /\ UNCHANGED <<epoll, events, open, avail, usr_queue, mtcp_queue, usr_shadow_queue, mtcp>>
          /\ app'.pc = "run" /\ app'.adds = app.adds /\ app'.got = app.got /\ app'.look = app.look
      BY <1>5, <2>2 DEF FetchDone, queues, AppType
    <3> QED
      BY <3>1, EarlyKept DEF CarefulInv, OnlyMtcpAdds, QueuedOnce, TakenIsGot, ReadyIsKnown, Queue
  <2> QED
    BY <2>1, <2>2
<1>6. ASSUME NEW n \in 0 .. MaxAvail, Consume(n) PROVE CarefulInv'
  <2>1. PICK ev \in Event : ev = Head(app.got) /\ app.got # <<>>
    BY <1>6, HeadTailProperties DEF Consume, AppType
  <2>2. ev = app.got[1] /\ ev[1] \in Socket /\ ev[2] \in Kind /\ ev = <<ev[1], ev[2]>>
    BY <2>1 DEF AppType, Event
  <2>3. /\ UNCHANGED <<epoll, events, open, usr_queue, mtcp_queue, usr_shadow_queue, mtcp>> /\ app.pc = "run"
        /\ avail[ev[1]][ev[2]] - n = 0
        /\ avail' = [avail EXCEPT ![ev[1]][ev[2]] = 0]
        /\ app' = [app EXCEPT !.got = Tail(app.got), !.adds = <<>>]
    <3>1. /\ UNCHANGED <<epoll, events, open, usr_queue, mtcp_queue, usr_shadow_queue, mtcp>> /\ app.pc = "run"
          /\ app.got[1][1] = ev[1] /\ app.got[1][2] = ev[2] /\ avail[ev[1]][ev[2]] \in Nat
          /\ ev[1] \notin setup.listeners /\ "partial" \notin setup.usage
      BY <1>6, <2>2 DEF Consume, queues, Between, AppAt
    <3>2. avail[ev[1]][ev[2]] - n = 0
      BY <1>6, <3>1 DEF Consume
    <3>3. avail' = [avail EXCEPT ![ev[1]][ev[2]] = avail[ev[1]][ev[2]] - n]
      BY <1>6, <3>1 DEF Consume
    <3>4. app' = [app EXCEPT !.got = Tail(app.got), !.adds = <<>>]
      <4>1. app' = [app EXCEPT !.got = Tail(app.got),
                               !.adds = IF /\ avail[app.got[1][1]][app.got[1][2]] - n > 0
                                           /\ app.got[1][1] \in setup.listeners \/ app.got[1][2] \in epoll[app.got[1][1]]
                                        THEN <<<<app.got[1][1], app.got[1][2]>>>> ELSE <<>>]
        BY <1>6, Zenon DEF Consume
      <4>2. ~(avail[app.got[1][1]][app.got[1][2]] - n > 0)
        BY <3>1, <3>2
      <4> QED
        BY <4>1, <4>2, Zenon
    <3> QED
      BY <3>1, <3>2, <3>3, <3>4
  <2>4. app'.pc = "run" /\ app'.adds = <<>> /\ app'.got = Tail(app.got) /\ app'.look = app.look
    BY <2>3 DEF AppType
  <2>5. OnlyMtcpAdds' /\ QueuedOnce' /\ TakenIsGot'
    BY <2>3, <2>4 DEF CarefulInv, OnlyMtcpAdds, QueuedOnce, TakenIsGot, Queue
  <2>6. \A x : Contains(app.got, x) <=> x = ev \/ Contains(Tail(app.got), x)
    BY <2>1, ContainsTail DEF AppType
  <2>7. \A x \in Event : avail'[x[1]][x[2]] > 0 => x # ev /\ avail[x[1]][x[2]] > 0
    <3> SUFFICES ASSUME NEW x \in Event, avail'[x[1]][x[2]] > 0
                 PROVE  x # ev /\ avail[x[1]][x[2]] > 0
      OBVIOUS
    <3>1. x[1] \in Socket /\ x[2] \in Kind /\ x = <<x[1], x[2]>>
      BY DEF Event
    <3>2. ~(x[1] = ev[1] /\ x[2] = ev[2])
      BY <2>2, <2>3, <3>1
    <3> QED
      BY <2>2, <2>3, <3>1, <3>2
  <2>8. ReadyIsKnown'
    BY <2>3, <2>4, <2>6, <2>7 DEF CarefulInv, ReadyIsKnown, Queue
  <2>9. LooksEarly'
    <3>1. \A x \in Event : avail[x[1]][x[2]] = 0 => avail'[x[1]][x[2]] = 0
      BY <2>2, <2>3, EventParts
    <3> QED
      BY <2>3, <2>4, <3>1 DEF CarefulInv, LooksEarly
  <2> QED
    BY <2>5, <2>8, <2>9 DEF CarefulInv
<1>7. CASE FetchBegin
  <2>1. app.pc = "fetch" /\ usr_queue # <<>> /\ NextEvent = Head(usr_queue)
    BY <1>7 DEF FetchBegin, AppAt, NothingQueued, NextEvent, CarefulInv, OnlyMtcpAdds
  <2>2. PICK ev \in Event : ev = NextEvent
    BY <2>1, HeadTailProperties
  <2>3. Head(Queue) = ev /\ Contains(Queue, ev)
    <3>1. Head(Queue) = ev /\ Queue # <<>>
      BY <2>1, <2>2, ConcatEnds DEF Queue
    <3> QED
      BY <3>1, ContainsTail
  <2>4. ev[2] \in events[ev[1]]
    BY <2>3 DEF CarefulInv, QueuedOnce
  <2>5. /\ UNCHANGED <<epoll, events, open, avail, usr_queue, mtcp_queue, usr_shadow_queue, mtcp>>
        /\ app' = [app EXCEPT !.pc = "clear", !.load = events[ev[1]],
                              !.got = IF ev[2] \in epoll[ev[1]] THEN Append(app.got, ev) ELSE app.got]
    BY <1>7, <2>2, <2>4 DEF FetchBegin, queues
  <2>6. /\ app'.pc = "clear" /\ app'.adds = app.adds /\ app'.look = app.look
        /\ app'.got = IF ev[2] \in epoll[ev[1]] THEN Append(app.got, ev) ELSE app.got
    BY <2>5 DEF AppType
  <2>7. \A x : Contains(app'.got, x) <=> Contains(app.got, x) \/ (ev[2] \in epoll[ev[1]] /\ x = ev)
    BY <2>6, ContainsAppend DEF AppType
  <2>8. OnlyMtcpAdds' /\ QueuedOnce'
    BY <2>5, <2>6 DEF CarefulInv, OnlyMtcpAdds, QueuedOnce, Queue
  <2>9. TakenIsGot'
    BY <2>3, <2>5, <2>7 DEF TakenIsGot, Queue
  <2>10. ReadyIsKnown'
    BY <2>5, <2>7 DEF CarefulInv, ReadyIsKnown, Queue
  <2> QED
    BY <2>5, <2>6, <2>8, <2>9, <2>10, EarlyKept DEF CarefulInv
<1>8. CASE FetchEnd
  <2>1. app.pc = "clear" /\ usr_queue # <<>> /\ NextEvent = Head(usr_queue)
    BY <1>8 DEF FetchEnd, AppAt, NothingQueued, NextEvent, Steps, CarefulInv, OnlyMtcpAdds
  <2>2. PICK ev \in Event : ev = NextEvent
    BY <2>1, HeadTailProperties
  <2>3. /\ UNCHANGED <<epoll, open, avail, mtcp_queue, usr_shadow_queue, mtcp>> /\ usr_queue' = Tail(usr_queue)
        /\ events' = [events EXCEPT ![ev[1]] = app.load \ {ev[2]}]
        /\ app' = [app EXCEPT !.pc = "fetch", !.load = {}]
    BY <1>8, <2>1, <2>2 DEF FetchEnd, Unmarked
  <2>4. app'.pc = "fetch" /\ app'.adds = app.adds /\ app'.got = app.got /\ app'.look = app.look
    BY <2>3 DEF AppType
  <2>5. Head(Queue) = ev /\ Queue # <<>> /\ Queue' = Tail(Queue)
    BY <2>1, <2>2, <2>3, ConcatEnds DEF Queue
  <2>6. \A x : Contains(Queue, x) <=> x = ev \/ Contains(Queue', x)
    BY <2>5, ContainsTail
  <2>7. Distinct(Queue') /\ ~Contains(Queue', ev)
    BY <2>5, DistinctTail DEF CarefulInv, QueuedOnce
  <2>8. \A x \in Event : Contains(Queue', x) => x[2] \in events'[x[1]]
    <3> SUFFICES ASSUME NEW x \in Event, Contains(Queue', x) PROVE x[2] \in events'[x[1]]
      OBVIOUS
    <3>1. /\ x[1] \in Socket /\ x[2] \in Kind /\ x = <<x[1], x[2]>>
          /\ ev[1] \in Socket /\ ev[2] \in Kind /\ ev = <<ev[1], ev[2]>>
      BY DEF Event
    <3>2. x # ev /\ x[2] \in events[x[1]]
      BY <2>6, <2>7 DEF CarefulInv, QueuedOnce
    <3>3. x[1] # ev[1]
      BY <3>1, <3>2 DEF OneKind
    <3> QED
      BY <2>3, <3>1, <3>2, <3>3
  <2>9. OnlyMtcpAdds' /\ QueuedOnce' /\ TakenIsGot'
    BY <2>3, <2>4, <2>6, <2>7, <2>8 DEF CarefulInv, OnlyMtcpAdds, QueuedOnce, TakenIsGot
  <2>10. \A x \in Event : x[2] \in epoll[x[1]] /\ Contains(Queue, x) => Contains(Queue', x) \/ Contains(app.got, x)
    BY <2>1, <2>5, <2>6 DEF CarefulInv, TakenIsGot
  <2>11. ReadyIsKnown'
    BY <2>3, <2>4, <2>10 DEF CarefulInv, ReadyIsKnown
  <2> QED
    BY <2>3, <2>4, <2>9, <2>11, EarlyKept DEF CarefulInv
<1>9. CASE RaisePendingStreamEvents
  <2>1. /\ UNCHANGED <<epoll, events, open, avail, usr_queue, mtcp_queue, usr_shadow_queue, mtcp>>
        /\ app.pc = "run" /\ app.look # <<>> /\ app.look \in Seq(Event)
    BY <1>9 DEF RaisePendingStreamEvents, AppAt, queues, AppType
  <2>2. PICK ev \in Event : ev = Head(app.look)
    BY <2>1, HeadTailProperties
  <2>3. \A x : Contains(Tail(app.look), x) => Contains(app.look, x)
    BY <2>1, ContainsTail
  <2>4. avail[ev[1]][ev[2]] = 0
    BY <2>1, <2>2, ContainsTail DEF CarefulInv, LooksEarly
  <2>5. app' = [app EXCEPT !.look = Tail(app.look), !.adds = <<>>]
    BY <1>9, <2>2, <2>4 DEF RaisePendingStreamEvents
  <2>6. app'.pc = "run" /\ app'.adds = <<>> /\ app'.got = app.got /\ app'.look = Tail(app.look)
    BY <2>1, <2>5 DEF AppType
  <2>7. OnlyMtcpAdds' /\ QueuedOnce' /\ TakenIsGot' /\ ReadyIsKnown'
    BY <2>1, <2>6 DEF CarefulInv, OnlyMtcpAdds, QueuedOnce, TakenIsGot, ReadyIsKnown, Queue
  <2>8. LooksEarly'
    BY <2>1, <2>3, <2>6 DEF CarefulInv, LooksEarly
  <2> QED
    BY <2>7, <2>8 DEF CarefulInv
<1> QED
  BY <1>2, <1>3, <1>4, <1>5, <1>6, <1>7, <1>8, <1>9 DEF EventLoop, AddCalls

\* The application is careful or not from the start.
LEMMA StepKeepsCareful ==
    ASSUME OneKind, Fits, QueueInv, MarkedIsQueued, Careful => CarefulInv, [Next]_vars
    PROVE  (Careful => CarefulInv)'
<1>1. CASE UNCHANGED vars
  BY <1>1 DEF vars, Careful, CarefulInv, OnlyMtcpAdds, QueuedOnce, TakenIsGot, ReadyIsKnown, Queue,
              LooksEarly
<1>2. CASE Next
  <2>1. Careful' => Careful
    BY <1>2 DEF Next, Careful
  <2> QED
    BY <1>2, <2>1, MtcpKeepsCareful, CallsKeepCareful, LoopKeepsCareful DEF Next
<1> QED
  BY <1>1, <1>2

LEMMA CarefulSleeps ==
    ASSUME QueueInv, Careful => CarefulInv
    PROVE  NoSleepOnReady
<1> SUFFICES ASSUME Careful, AppAt("wait"), NEW s \in Socket, NEW k \in Kind, k \in epoll[s], avail[s][k] > 0
             PROVE  InQueue(<<s, k>>) \/ mtcp.ev = <<s, k>>
  BY DEF NoSleepOnReady, Ready, Coming
<1>0. <<s, k>> \in Event /\ <<s, k>>[1] = s /\ <<s, k>>[2] = k
  BY DEF Event
<1>1. PICK ev \in Event : ev = <<s, k>> /\ ev[1] = s /\ ev[2] = k
  BY <1>0
<1>2. Contains(Queue, ev) \/ mtcp.ev = ev \/ Contains(app.got, ev)
  BY <1>1 DEF CarefulInv, ReadyIsKnown
<1>3. ~Contains(app.got, ev)
  BY DEF CarefulInv, OnlyMtcpAdds, AppAt, Contains
<1> QED
  BY <1>1, <1>2, <1>3, CarefulFacts

\* The thread of a careful application that blocks in mtcp_epoll_wait has no
\* ready socket whose event is not queued or about to be: no interleaving of
\* AddEpollEvent, FlushEpollEvents and the fetch loops loses the last wakeup,
\* when the queues were made for all events and sockets have one kind of event.
THEOREM NoSleep == OneKind /\ Fits /\ Spec => []NoSleepOnReady
<1> SUFFICES ASSUME OneKind, Fits PROVE Spec => []NoSleepOnReady
  OBVIOUS
<1> DEFINE Inv == Careful => CarefulInv
<1>1. Init => MarkedIsQueued
  BY DEF Init, MarkedIsQueued
<1>2. Init => Inv
  <2> SUFFICES ASSUME Init PROVE CarefulInv
    OBVIOUS
  <2>1. Queue = <<>>
    BY DEF Init, Queue
  <2> QED
    BY <2>1 DEF Init, CarefulInv, OnlyMtcpAdds, QueuedOnce, TakenIsGot, ReadyIsKnown, LooksEarly, Distinct,
                  Contains, Event
<1>3. QueueInv /\ MarkedIsQueued /\ [Next]_vars => MarkedIsQueued'
  BY StepKeepsMarks
<1>4. QueueInv /\ MarkedIsQueued /\ Inv /\ [Next]_vars => Inv'
  BY StepKeepsCareful
<1>5. QueueInv /\ Inv => NoSleepOnReady
  BY CarefulSleeps
<1> QED
  BY <1>1, <1>2, <1>3, <1>4, <1>5, InitQueues, StepKeepsQueues, PTL DEF Spec
==============================================================================
