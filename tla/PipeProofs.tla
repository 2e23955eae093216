----------------------------- MODULE PipeProofs -----------------------------
(***************************************************************************)
(* Proofs about Pipe, for every size of the ring and every length of the   *)
(* calls.  The order of the bytes holds for any number of threads; that    *)
(* nobody waits in vain and that the pipe is freed unused needs one thread *)
(* per end, since pthread_cond_signal wakes one thread only and a close    *)
(* does not look for other users of the same end.                          *)
(***************************************************************************)
EXTENDS Pipe, TLAPS

-----------------------------------------------------------------------------
(* The ring's indices.                                                     *)

\* The index that walks around the ring, without a modulus.
LEMMA ModRing ==
    ASSUME NEW x \in Int
    PROVE  /\ 0 <= x /\ x < Size => x % Size = x
           /\ Size <= x /\ x < 2 * Size => x % Size = x - Size
           /\ -Size <= x /\ x < 0 => x % Size = x + Size
BY PipeAssumption

LEMMA MinOfTwo ==
    ASSUME NEW a \in Int, NEW b \in Int
    PROVE  Min({a, b}) = IF a <= b THEN a ELSE b
<1>1. \E x \in {a, b} : \A y \in {a, b} : x <= y
  OBVIOUS
<1>2. Min({a, b}) \in {a, b} /\ \A y \in {a, b} : Min({a, b}) <= y
  BY <1>1 DEF Min
<1> QED
  BY <1>2

\* An index stays in the ring when it advances by what the ring holds.
LEMMA AdvanceInRing ==
    ASSUME NEW i \in 0 .. Size - 1, NEW k \in 0 .. Size
    PROVE  Advance(i, k) \in 0 .. Size - 1
BY PipeAssumption DEF Advance

\* Advancing twice is advancing by the sum, when both stay within one turn.
LEMMA AdvanceTwice ==
    ASSUME NEW i \in 0 .. Size - 1, NEW k \in 0 .. Size, NEW l \in 0 .. Size, k + l <= Size
    PROVE  Advance(Advance(i, k), l) = Advance(i, k + l)
BY PipeAssumption DEF Advance

\* Byte j behind the offset, as an index.
LEMMA RingIndex ==
    ASSUME NEW off \in 0 .. Size - 1, NEW j \in 0 .. Size - 1
    PROVE  (off + j) % Size = IF off + j < Size THEN off + j ELSE off + j - Size
BY ModRing, PipeAssumption

\* Where cell j of the ring lies as seen from the tail: the cells that hold
\* bytes come after the free ones.
LEMMA SeenFromTail ==
    ASSUME NEW off \in 0 .. Size - 1, NEW len \in 0 .. Size, NEW j \in 0 .. Size - 1
    PROVE  /\ (off + j) % Size \in 0 .. Size - 1
           /\ (((off + j) % Size) - Advance(off, len)) % Size
                  = IF j < len THEN j - len + Size ELSE j - len
<1>1. (off + j) % Size = IF off + j < Size THEN off + j ELSE off + j - Size
  BY RingIndex
<1>2. ((off + j) % Size) \in 0 .. Size - 1
  BY <1>1, PipeAssumption
<1>3. Advance(off, len) \in 0 .. Size - 1
  BY AdvanceInRing
<1> DEFINE d == ((off + j) % Size) - Advance(off, len)
<1>4. d \in Int /\ -Size <= d /\ d < Size
  BY <1>2, <1>3, PipeAssumption
<1>5. d % Size = IF d < 0 THEN d + Size ELSE d
  BY <1>4, ModRing, PipeAssumption
<1>6. d = IF off + j < Size
          THEN IF off + len < Size THEN j - len ELSE j - len + Size
          ELSE IF off + len < Size THEN j - len - Size ELSE j - len
  BY <1>1, PipeAssumption DEF Advance
<1> QED
  BY <1>2, <1>5, <1>6, PipeAssumption

\* The len bytes from off on are those that follow the g-th.
Holds(buf, off, len, g) == \A i \in 0 .. len - 1 : buf[(off + i) % Size] = g + i + 1

\* The bytes behind the first k are in order too.
LEMMA HoldsAfterRead ==
    ASSUME NEW buf, NEW off \in 0 .. Size - 1, NEW len \in 0 .. Size,
           NEW g \in Nat, NEW k \in 0 .. len, Holds(buf, off, len, g)
    PROVE  Holds(buf, Advance(off, k), len - k, g + k)
<1> SUFFICES ASSUME NEW i \in 0 .. (len - k) - 1
             PROVE  buf[(Advance(off, k) + i) % Size] = (g + k) + i + 1
  BY DEF Holds
<1>1. k \in 0 .. Size /\ i \in 0 .. Size - 1 /\ k + i \in 0 .. Size - 1 /\ k + i \in 0 .. len - 1
  BY PipeAssumption
<1>2. Advance(off, k) \in 0 .. Size - 1
  BY <1>1, AdvanceInRing
<1> DEFINE a == Advance(off, k)
<1>3. (a + i) % Size = IF a + i < Size THEN a + i ELSE a + i - Size
  BY <1>1, <1>2, RingIndex
<1>4. (off + (k + i)) % Size = IF off + (k + i) < Size THEN off + (k + i) ELSE off + (k + i) - Size
  BY <1>1, RingIndex
<1>5. (a + i) % Size = (off + (k + i)) % Size
  BY <1>1, <1>2, <1>3, <1>4, PipeAssumption DEF Advance
<1>6. buf[(off + (k + i)) % Size] = g + (k + i) + 1
  BY <1>1 DEF Holds
<1> QED
  BY <1>1, <1>5, <1>6

\* A buffer after the write of k bytes, the first of them being number w + 1.
Put(buf, tail, k, w) ==
    [i \in DOMAIN buf |-> IF (i - tail) % Size < k THEN w + ((i - tail) % Size) + 1 ELSE buf[i]]

LEMMA PutType ==
    ASSUME NEW buf \in [0 .. Size - 1 -> Nat], NEW tail \in 0 .. Size - 1, NEW k \in 0 .. Size, NEW w \in Nat
    PROVE  Put(buf, tail, k, w) \in [0 .. Size - 1 -> Nat]
<1> DEFINE d(i) == (i - tail) % Size
<1>1. ASSUME NEW i \in 0 .. Size - 1 PROVE d(i) \in Nat
  BY ModRing, PipeAssumption
<1> HIDE DEF d
<1>2. \A i \in 0 .. Size - 1 : (IF d(i) < k THEN w + d(i) + 1 ELSE buf[i]) \in Nat
  BY <1>1
<1> QED
  BY <1>2 DEF Put, d

\* What is written follows what the ring held, and overwrites none of it.
LEMMA HoldsAfterWrite ==
    ASSUME NEW buf \in [0 .. Size - 1 -> Nat], NEW off \in 0 .. Size - 1, NEW len \in 0 .. Size,
           NEW g \in Nat, NEW k \in 0 .. Size - len, Holds(buf, off, len, g)
    PROVE  Holds(Put(buf, Advance(off, len), k, g + len), off, len + k, g)
<1> SUFFICES ASSUME NEW j \in 0 .. (len + k) - 1
             PROVE  Put(buf, Advance(off, len), k, g + len)[(off + j) % Size] = g + j + 1
  BY DEF Holds
<1> DEFINE x == (off + j) % Size
           d == (x - Advance(off, len)) % Size
<1>1. j \in 0 .. Size - 1
  BY PipeAssumption
<1>2. x \in 0 .. Size - 1
  BY <1>1, SeenFromTail
<1>3. d = IF j < len THEN j - len + Size ELSE j - len
  BY <1>1, SeenFromTail
<1>4. Put(buf, Advance(off, len), k, g + len)[x] = IF d < k THEN (g + len) + d + 1 ELSE buf[x]
  BY <1>2 DEF Put
<1> HIDE DEF d
<1>5. ASSUME j < len PROVE buf[x] = g + j + 1
  <2>1. j \in 0 .. len - 1
    BY <1>1, <1>5
  <2> QED
    BY <2>1 DEF Holds
<1> HIDE DEF x
<1>6. CASE j < len
  BY <1>1, <1>3, <1>4, <1>5, <1>6, PipeAssumption DEF x
<1>7. CASE ~(j < len)
  BY <1>1, <1>3, <1>4, <1>7, PipeAssumption DEF x
<1> QED
  BY <1>6, <1>7
-----------------------------------------------------------------------------
(* What the steps have in common.                                          *)

PC == {"idle", "lock", "wait", "state", "raise", "pending", "epoll", "closed", "done"}
Socket == [pp : BOOLEAN, nonblock : BOOLEAN,
           epoll : SUBSET {"in", "out"}, events : SUBSET {"in", "out"}]

\* An end keeps its settings and its events.
Kept(e) ==
    /\ sock'[e].nonblock = sock[e].nonblock /\ sock'[e].epoll = sock[e].epoll
    /\ sock[e].events \subseteq sock'[e].events

\* The sockets after a change of one field of one of them.
LEMMA SocketUpdates ==
    ASSUME sock \in [End -> Socket], NEW e \in End, NEW E \in SUBSET {"in", "out"}
    PROVE  /\ [sock EXCEPT ![e].events = E] \in [End -> Socket]
           /\ [sock EXCEPT ![e].epoll = E] \in [End -> Socket]
           /\ \A d \in End \ {e} : /\ [sock EXCEPT ![e].events = E][d] = sock[d]
                                   /\ [sock EXCEPT ![e].epoll = E][d] = sock[d]
           /\ [sock EXCEPT ![e].events = E][e] = [sock[e] EXCEPT !.events = E]
           /\ [sock EXCEPT ![e].epoll = E][e] = [sock[e] EXCEPT !.epoll = E]
BY DEF Socket

\* An event added to a socket changes nothing else.
LEMMA AddEpollEventFacts ==
    ASSUME TypeOK, NEW e \in End, NEW ev \in {"in", "out"}, AddEpollEvent(e, ev)
    PROVE  /\ sock' \in [End -> Socket]
           /\ \A d \in End : Kept(d) /\ sock'[d].pp = sock[d].pp
           /\ ev \in sock'[e].events
BY DEF TypeOK, AddEpollEvent, Socket, Kept

\* RaiseEventToPair leaves the sockets as they are but for an event of the
\* other end, and the threads but for one that waits, which goes on.  The event
\* reaches a registered non-blocking end, and a signal the one thread that
\* waits.
LEMMA RaiseEventToPairFacts ==
    ASSUME TypeOK, NEW e \in End, NEW ev \in {"in", "out"}, NEW pcs \in [Thread -> PC],
           RaiseEventToPair(e, ev, pcs)
    PROVE  /\ sock' \in [End -> Socket] /\ pc' \in [Thread -> PC]
           /\ \A d \in End : Kept(d) /\ sock'[d].pp = sock[d].pp
           /\ sock[Other(e)].nonblock /\ sock[Other(e)].epoll # {} =>
                  ev \in sock'[Other(e)].events
           /\ \A t \in Thread : pc'[t] # pcs[t] => pcs[t] = "wait" /\ pc'[t] = "lock"
           /\ ~sock[Other(e)].nonblock =>
                  \A t \in Thread :
                      (\A u \in Thread : pcs[u] = "wait" => u = t) => pc'[t] # "wait"
<1>1. sock \in [End -> Socket] /\ Other(e) \in End
  BY DEF TypeOK, Socket, Other, End
<1>2. CASE sock[Other(e)].nonblock
  <2>1. pc' = pcs
    BY <1>2 DEF RaiseEventToPair
  <2>2. CASE sock[Other(e)].epoll # {}
    <3>1. AddEpollEvent(Other(e), ev)
      BY <1>2, <2>2 DEF RaiseEventToPair
    <3> QED
      BY <1>1, <1>2, <2>1, <3>1, AddEpollEventFacts
  <2>3. CASE sock[Other(e)].epoll = {}
    BY <1>1, <1>2, <2>1, <2>3 DEF RaiseEventToPair, Kept
  <2> QED
    BY <2>2, <2>3
<1>3. CASE ~sock[Other(e)].nonblock
  <2>1. sock' = sock
    BY <1>3 DEF RaiseEventToPair
  <2>2. CASE Woken(pcs) = {}
    <3>1. pc' = pcs
      BY <1>3, <2>2 DEF RaiseEventToPair
    <3> QED
      BY <1>1, <1>3, <2>1, <2>2, <3>1 DEF Woken, Kept
  <2>3. CASE Woken(pcs) # {}
    <3>1. PICK w \in Woken(pcs) : pc' = [pcs EXCEPT ![w] = "lock"]
      BY <1>3, <2>3 DEF RaiseEventToPair
    <3>2. w \in Thread /\ pcs[w] = "wait"
      BY <3>1 DEF Woken
    <3>3. pc' \in [Thread -> PC]
      BY <3>1, <3>2 DEF PC
    <3>4. \A t \in Thread : pc'[t] # pcs[t] => pcs[t] = "wait" /\ pc'[t] = "lock"
      BY <3>1, <3>2
    <3>5. \A t \in Thread : (\A u \in Thread : pcs[u] = "wait" => u = t) => pc'[t] # "wait"
      BY <3>1, <3>2
    <3> QED
      BY <1>1, <1>3, <2>1, <3>3, <3>4, <3>5 DEF Kept
  <2> QED
    BY <2>2, <2>3
<1> QED
  BY <1>2, <1>3
-----------------------------------------------------------------------------
(* The order of the bytes, for any number of threads.                      *)

\* The tail is where the bytes in the ring end.
TailIsEnd == p.tail = Advance(p.off, p.len)

RingInv == TypeOK /\ RingInOrder /\ TailIsEnd

\* The steps that neither read nor write bytes keep the ring as it is.
RingUnchanged ==
    /\ p'.buf = p.buf /\ p'.off = p.off /\ p'.tail = p.tail /\ p'.len = p.len
    /\ wrote' = wrote /\ got' = got

LEMMA RingUnchangedKeeps ==
    ASSUME RingInOrder, TailIsEnd, RingUnchanged
    PROVE  RingInOrder' /\ TailIsEnd'
BY DEF RingInOrder, TailIsEnd, RingUnchanged

\* A read takes the first bytes of the ring and leaves the others in order.
LEMMA ReadKeepsRing ==
    ASSUME RingInv, NEW t \in Readers, ReadSome(t)
    PROVE  RingInv'
<1> DEFINE k == Min({n[t], p.len})
           pcs == [pc EXCEPT ![t] = "raise"]
<1>1. /\ n[t] \in Nat /\ p.len \in 0 .. Size /\ p.off \in 0 .. Size - 1 /\ p.tail \in 0 .. Size - 1
      /\ wrote \in Nat /\ got \in Nat /\ pcs \in [Thread -> PC] /\ sock \in [End -> Socket]
  BY PipeAssumption DEF RingInv, TypeOK, Thread, PC, Socket
<1>2. k \in 0 .. p.len
  BY <1>1, MinOfTwo
<1>3. /\ p' = [p EXCEPT !.off = Advance(p.off, k), !.len = p.len - k]
      /\ got' = got + k /\ wrote' = wrote /\ n' = n /\ eof' = eof /\ freed' = freed
      /\ \/ RaiseEventToPair("rd", "out", pcs)
         \/ pc' = pcs /\ sock' = sock
  BY DEF ReadSome
<1> HIDE DEF k, pcs
<1>4. p.len - k \in 0 .. Size /\ k \in 0 .. Size /\ Advance(p.off, k) \in 0 .. Size - 1
  <2>1. p.len - k \in 0 .. Size /\ k \in 0 .. Size
    BY <1>1, <1>2, PipeAssumption
  <2> QED
    BY <1>1, <2>1, AdvanceInRing
<1>5. /\ p'.buf = p.buf /\ p'.tail = p.tail /\ p'.len = p.len - k /\ p'.off = Advance(p.off, k)
      /\ p' \in [state : {"active", "close_wait"}, buf : [0 .. Size - 1 -> Nat],
                 off : 0 .. Size - 1, tail : 0 .. Size - 1, len : 0 .. Size]
  BY <1>3, <1>4 DEF RingInv, TypeOK
<1>6. TypeOK'
  <2>1. "rd" \in End /\ "out" \in {"in", "out"}
    BY DEF End
  <2>2. pc' \in [Thread -> PC] /\ sock' \in [End -> Socket]
    BY <1>1, <1>3, <2>1, RaiseEventToPairFacts DEF RingInv
  <2>3. got' \in Nat
    BY <1>1, <1>2, <1>3
  <2> QED
    BY <1>3, <1>5, <2>2, <2>3 DEF RingInv, TypeOK, PC, Socket
<1>7. TailIsEnd'
  <2>1. k + (p.len - k) <= Size /\ k + (p.len - k) = p.len
    BY <1>1, <1>2
  <2>2. Advance(Advance(p.off, k), p.len - k) = Advance(p.off, p.len)
    BY <1>1, <1>4, <2>1, AdvanceTwice
  <2> QED
    BY <1>5, <2>2 DEF RingInv, TailIsEnd
<1>8. RingInOrder'
  <2>1. Holds(p.buf, Advance(p.off, k), p.len - k, got + k)
    <3>1. Holds(p.buf, p.off, p.len, got)
      BY DEF RingInv, RingInOrder, Holds
    <3> QED
      BY <1>1, <1>2, <3>1, HoldsAfterRead
  <2>2. wrote' = got' + p'.len
    BY <1>1, <1>2, <1>3, <1>5 DEF RingInv, RingInOrder
  <2> QED
    BY <1>3, <1>5, <2>1, <2>2 DEF RingInOrder, Holds
<1> QED
  BY <1>6, <1>7, <1>8 DEF RingInv

\* A write puts its bytes behind those in the ring and overwrites none.
LEMMA WriteKeepsRing ==
    ASSUME RingInv, NEW t \in Writers, WriteSome(t)
    PROVE  RingInv'
<1> DEFINE k == Min({n[t], Size - p.len})
           pcs == [pc EXCEPT ![t] = "raise"]
<1>1. /\ n[t] \in Nat /\ p.len \in 0 .. Size /\ p.off \in 0 .. Size - 1 /\ p.tail \in 0 .. Size - 1
      /\ wrote \in Nat /\ got \in Nat /\ pcs \in [Thread -> PC] /\ sock \in [End -> Socket]
      /\ p.buf \in [0 .. Size - 1 -> Nat]
  BY PipeAssumption DEF RingInv, TypeOK, Thread, PC, Socket
<1>2. k \in 0 .. Size - p.len
  <2>1. Size - p.len \in Nat
    BY <1>1, PipeAssumption
  <2> QED
    BY <1>1, <2>1, MinOfTwo
<1>3. /\ p' = [p EXCEPT !.buf = Put(p.buf, p.tail, k, wrote), !.tail = Advance(p.tail, k), !.len = p.len + k]
      /\ got' = got /\ wrote' = wrote + k /\ n' = n /\ eof' = eof /\ freed' = freed
      /\ \/ RaiseEventToPair("wr", "in", pcs)
         \/ pc' = pcs /\ sock' = sock
  BY DEF WriteSome, Put
<1> HIDE DEF k, pcs
<1>4. p.len + k \in 0 .. Size /\ k \in 0 .. Size /\ Advance(p.tail, k) \in 0 .. Size - 1
  <2>1. p.len + k \in 0 .. Size /\ k \in 0 .. Size
    BY <1>1, <1>2, PipeAssumption
  <2> QED
    BY <1>1, <2>1, AdvanceInRing
<1>5. Put(p.buf, p.tail, k, wrote) \in [0 .. Size - 1 -> Nat]
  BY <1>1, <1>4, PutType
<1>6. /\ p'.buf = Put(p.buf, p.tail, k, wrote) /\ p'.off = p.off
      /\ p'.tail = Advance(p.tail, k) /\ p'.len = p.len + k
      /\ p' \in [state : {"active", "close_wait"}, buf : [0 .. Size - 1 -> Nat],
                 off : 0 .. Size - 1, tail : 0 .. Size - 1, len : 0 .. Size]
  BY <1>3, <1>4, <1>5 DEF RingInv, TypeOK
<1>7. TypeOK'
  <2>1. "wr" \in End /\ "in" \in {"in", "out"}
    BY DEF End
  <2>2. pc' \in [Thread -> PC] /\ sock' \in [End -> Socket]
    BY <1>1, <1>3, <2>1, RaiseEventToPairFacts DEF RingInv
  <2>3. wrote' \in Nat
    BY <1>1, <1>2, <1>3
  <2> QED
    BY <1>3, <1>6, <2>2, <2>3 DEF RingInv, TypeOK, PC, Socket
<1>8. TailIsEnd'
  <2>1. Advance(Advance(p.off, p.len), k) = Advance(p.off, p.len + k)
    BY <1>1, <1>4, AdvanceTwice
  <2> QED
    BY <1>6, <2>1 DEF RingInv, TailIsEnd
<1>9. RingInOrder'
  <2>1. wrote = got + p.len /\ p.tail = Advance(p.off, p.len)
    BY DEF RingInv, RingInOrder, TailIsEnd
  <2>2. Holds(Put(p.buf, p.tail, k, wrote), p.off, p.len + k, got)
    <3>1. Holds(p.buf, p.off, p.len, got)
      BY DEF RingInv, RingInOrder, Holds
    <3> QED
      BY <1>1, <1>2, <2>1, <3>1, HoldsAfterWrite
  <2>3. wrote' = got' + p'.len
    BY <1>1, <1>2, <1>3, <1>6, <2>1
  <2> QED
    BY <1>3, <1>6, <2>2, <2>3 DEF RingInOrder, Holds
<1> QED
  BY <1>7, <1>8, <1>9 DEF RingInv

\* The other steps leave the ring alone and everything in its type.
LEMMA OtherKeepsRing ==
    ASSUME RingInv, NEW t \in Thread,
           \/ t \in Readers /\ (ReadNothing(t) \/ ReadState(t) \/ ReadRaise(t))
           \/ t \in Readers /\ \E len \in 1 .. MaxLen : ReadCall(t, len)
           \/ t \in Writers /\ (WriteNothing(t) \/ WriteRaise(t))
           \/ t \in Writers /\ \E len \in 1 .. MaxLen : WriteCall(t, len)
           \/ Waits(t) \/ Register(t) \/ PipeClose(t) \/ FreeSocket(t) \/ SpuriousWakeup(t)
    PROVE  RingInv'
<1> DEFINE e == EndOf(t)
<1>1. /\ p \in [state : {"active", "close_wait"}, buf : [0 .. Size - 1 -> Nat],
                off : 0 .. Size - 1, tail : 0 .. Size - 1, len : 0 .. Size]
      /\ pc \in [Thread -> PC] /\ sock \in [End -> Socket] /\ e \in End /\ Wanted(e) \in {"in", "out"}
      /\ n \in [Thread -> 0 .. MaxLen] /\ eof \subseteq Readers /\ freed \in BOOLEAN
      /\ wrote \in Nat /\ got \in Nat /\ "rd" \in End /\ "wr" \in End /\ TypeOK
  BY DEF RingInv, TypeOK, PC, Socket, EndOf, End, Wanted
<1>2. Returned(t) \in PC
  BY DEF Returned, PC
<1> HIDE DEF e
<1> DEFINE G == /\ p' \in [state : {"active", "close_wait"}, buf : [0 .. Size - 1 -> Nat],
                           off : 0 .. Size - 1, tail : 0 .. Size - 1, len : 0 .. Size]
                /\ pc' \in [Thread -> PC] /\ sock' \in [End -> Socket]
                /\ n' \in [Thread -> 0 .. MaxLen] /\ eof' \subseteq Readers /\ freed' \in BOOLEAN
                /\ RingUnchanged
<1> SUFFICES G
  BY <1>1, RingUnchangedKeeps DEF RingInv, TypeOK, PC, Socket, RingUnchanged
<1>3. ASSUME t \in Readers, ReadNothing(t) \/ ReadState(t)
      PROVE  /\ pc' \in [Thread -> PC] /\ eof' \subseteq Readers
             /\ UNCHANGED <<p, sock, n, freed, wrote, got>>
  BY <1>1, <1>2, <1>3 DEF ReadNothing, ReadState, Moved, PC
<1>4. ASSUME t \in Readers, ReadRaise(t)
      PROVE  pc' \in [Thread -> PC] /\ sock' \in [End -> Socket] /\ UNCHANGED <<p, n, freed, eof, wrote, got>>
  BY <1>1, <1>2, <1>4, AddEpollEventFacts DEF ReadRaise, Moved
<1>5. ASSUME t \in Readers, NEW len \in 1 .. MaxLen, ReadCall(t, len)
      PROVE  /\ n' \in [Thread -> 0 .. MaxLen] /\ eof' \subseteq Readers /\ pc' \in [Thread -> PC]
             /\ UNCHANGED <<p, freed, sock, wrote, got>>
  <2>1. n' = [n EXCEPT ![t] = len] /\ UNCHANGED <<p, freed, sock, wrote, got>>
    BY <1>5 DEF ReadCall
  <2>2. n' \in [Thread -> 0 .. MaxLen]
    BY <1>1, <2>1
  <2>3. eof' \subseteq Readers /\ pc' \in [Thread -> PC]
    BY <1>1, <1>5 DEF ReadCall, Moved, PC
  <2> QED
    BY <2>1, <2>2, <2>3
<1>6. ASSUME t \in Writers, WriteNothing(t)
      PROVE  pc' \in [Thread -> PC] /\ UNCHANGED <<p, sock, n, freed, eof, wrote, got>>
  BY <1>1, <1>2, <1>6 DEF WriteNothing, Moved, PC
<1>7. ASSUME t \in Writers, WriteRaise(t)
      PROVE  pc' \in [Thread -> PC] /\ sock' \in [End -> Socket] /\ UNCHANGED <<p, n, freed, eof, wrote, got>>
  BY <1>1, <1>2, <1>7, AddEpollEventFacts DEF WriteRaise, Moved
<1>8. ASSUME t \in Writers, NEW len \in 1 .. MaxLen, WriteCall(t, len)
      PROVE  /\ n' \in [Thread -> 0 .. MaxLen] /\ pc' \in [Thread -> PC]
             /\ UNCHANGED <<p, freed, sock, eof, wrote, got>>
  BY <1>1, <1>8 DEF WriteCall, Moved, PC
<1>9. ASSUME Waits(t)
      PROVE  pc' \in [Thread -> PC] /\ sock' \in [End -> Socket] /\ UNCHANGED <<p, n, freed, eof, wrote, got>>
  <2>1. ASSUME RaisePendingPipeEvents(t)
        PROVE  pc' \in [Thread -> PC] /\ sock' \in [End -> Socket] /\ UNCHANGED <<p, n, freed, eof, wrote, got>>
    BY <1>1, <2>1, AddEpollEventFacts DEF RaisePendingPipeEvents, Moved, PC, e
  <2>2. ASSUME NEW ev \in {"in", "out"}, Fetch(t, ev)
        PROVE  pc' \in [Thread -> PC] /\ sock' \in [End -> Socket] /\ UNCHANGED <<p, n, freed, eof, wrote, got>>
    <3>1. /\ sock' = [sock EXCEPT ![e].events = sock[e].events \ {ev}]
          /\ UNCHANGED <<p, n, freed, eof, wrote, got>>
      BY <2>2 DEF Fetch, e
    <3>2. sock[e].events \ {ev} \in SUBSET {"in", "out"}
      BY <1>1 DEF Socket
    <3>3. pc' \in [Thread -> PC]
      BY <1>1, <2>2 DEF Fetch, Moved, PC
    <3> QED
      BY <1>1, <3>1, <3>2, <3>3, SocketUpdates
  <2> QED
    BY <1>9, <2>1, <2>2 DEF Waits
<1>10. ASSUME Register(t)
       PROVE  pc' \in [Thread -> PC] /\ sock' \in [End -> Socket] /\ UNCHANGED <<p, n, freed, eof, wrote, got>>
  <2>1. /\ sock' = [sock EXCEPT ![e].epoll = {Wanted(e)}]
        /\ UNCHANGED <<p, n, freed, eof, wrote, got>>
    BY <1>10 DEF Register, e
  <2>2. pc' \in [Thread -> PC]
    BY <1>1, <1>10 DEF Register, Moved, PC
  <2>3. {Wanted(e)} \in SUBSET {"in", "out"}
    BY <1>1
  <2> QED
    BY <1>1, <2>1, <2>2, <2>3, SocketUpdates
<1>11. ASSUME PipeClose(t)
       PROVE  /\ p' \in [state : {"active", "close_wait"}, buf : [0 .. Size - 1 -> Nat],
                         off : 0 .. Size - 1, tail : 0 .. Size - 1, len : 0 .. Size]
              /\ p'.buf = p.buf /\ p'.off = p.off /\ p'.tail = p.tail /\ p'.len = p.len
              /\ pc' \in [Thread -> PC] /\ sock' \in [End -> Socket]
              /\ freed' \in BOOLEAN /\ UNCHANGED <<n, eof, wrote, got>>
  <2> DEFINE pcs == [pc EXCEPT ![t] = "closed"]
  <2>1. pcs \in [Thread -> PC]
    BY <1>1 DEF PC
  <2>2. \/ RaiseEventToPair(e, "in", pcs)
        \/ pc' = pcs /\ sock' = [d \in End |-> [sock[d] EXCEPT !.pp = FALSE]]
    BY <1>11 DEF PipeClose, e
  <2> HIDE DEF pcs
  <2>3. "in" \in {"in", "out"}
    OBVIOUS
  <2>4. ASSUME RaiseEventToPair(e, "in", pcs)
        PROVE  pc' \in [Thread -> PC] /\ sock' \in [End -> Socket]
    BY <1>1, <2>1, <2>3, <2>4, RaiseEventToPairFacts
  <2>5. [d \in End |-> [sock[d] EXCEPT !.pp = FALSE]] \in [End -> Socket]
    BY <1>1 DEF Socket
  <2>6. pc' \in [Thread -> PC] /\ sock' \in [End -> Socket]
    BY <2>1, <2>2, <2>4, <2>5
  <2>7. p' = [p EXCEPT !.state = "close_wait"] /\ freed' = LastClose /\ UNCHANGED <<n, eof, wrote, got>>
    BY <1>11 DEF PipeClose
  <2> QED
    BY <1>1, <2>6, <2>7 DEF LastClose
<1>12. ASSUME FreeSocket(t)
       PROVE  pc' \in [Thread -> PC] /\ sock' \in [End -> Socket] /\ UNCHANGED <<p, n, freed, eof, wrote, got>>
  <2>1. /\ sock' = [sock EXCEPT ![e] = [sock[e] EXCEPT !.pp = FALSE, !.epoll = {}, !.events = {}]]
        /\ UNCHANGED <<p, n, freed, eof, wrote, got>>
    BY <1>12 DEF FreeSocket, e
  <2>2. [sock[e] EXCEPT !.pp = FALSE, !.epoll = {}, !.events = {}] \in Socket
    BY <1>1 DEF Socket
  <2>3. sock' \in [End -> Socket]
    BY <1>1, <2>1, <2>2
  <2>4. pc' \in [Thread -> PC]
    BY <1>1, <1>12 DEF FreeSocket, Moved, PC
  <2> QED
    BY <2>1, <2>3, <2>4
<1>13. ASSUME SpuriousWakeup(t)
       PROVE  pc' \in [Thread -> PC] /\ UNCHANGED <<p, sock, n, freed, eof, wrote, got>>
  BY <1>1, <1>13 DEF SpuriousWakeup, Moved, PC
<1>14. ASSUME t \in Readers, ReadNothing(t) \/ ReadState(t) \/ ReadRaise(t) PROVE G
  <2>1. CASE ReadRaise(t)
    BY <1>1, <1>4, <1>14, <2>1 DEF RingUnchanged
  <2>2. CASE ReadNothing(t) \/ ReadState(t)
    BY <1>1, <1>3, <1>14, <2>2 DEF RingUnchanged
  <2> QED
    BY <1>14, <2>1, <2>2
<1>15. ASSUME t \in Readers, NEW len \in 1 .. MaxLen, ReadCall(t, len) PROVE G
  BY <1>1, <1>5, <1>15 DEF RingUnchanged
<1>16. ASSUME t \in Writers, WriteNothing(t) \/ WriteRaise(t) PROVE G
  BY <1>1, <1>6, <1>7, <1>16 DEF RingUnchanged
<1>17. ASSUME t \in Writers, NEW len \in 1 .. MaxLen, WriteCall(t, len) PROVE G
  BY <1>1, <1>8, <1>17 DEF RingUnchanged
<1>18. ASSUME Waits(t) \/ Register(t) \/ FreeSocket(t) \/ SpuriousWakeup(t) PROVE G
  BY <1>1, <1>9, <1>10, <1>12, <1>13, <1>18 DEF RingUnchanged
<1>19. ASSUME PipeClose(t) PROVE G
  BY <1>1, <1>11, <1>19 DEF RingUnchanged
<1> HIDE DEF G
<1> QED
  BY <1>14, <1>15, <1>16, <1>17, <1>18, <1>19

\* The types and the order of the bytes are kept by every step.
LEMMA StepKeepsRing == RingInv /\ [Next]_vars => RingInv'
<1> SUFFICES ASSUME RingInv, [Next]_vars PROVE RingInv'
  OBVIOUS
<1>1. CASE UNCHANGED vars
  BY <1>1 DEF vars, RingInv, TypeOK, RingInOrder, TailIsEnd
<1>2. ASSUME NEW t \in Readers, Reads(t) \/ \E len \in 1 .. MaxLen : ReadCall(t, len)
      PROVE  RingInv'
  BY <1>2, ReadKeepsRing, OtherKeepsRing DEF Reads, Thread
<1>3. ASSUME NEW t \in Writers, Writes(t) \/ \E len \in 1 .. MaxLen : WriteCall(t, len)
      PROVE  RingInv'
  BY <1>3, WriteKeepsRing, OtherKeepsRing DEF Writes, Thread
<1>4. ASSUME NEW t \in Thread,
             Waits(t) \/ Register(t) \/ PipeClose(t) \/ FreeSocket(t) \/ SpuriousWakeup(t)
      PROVE  RingInv'
  BY <1>4, OtherKeepsRing
<1> QED
  BY <1>1, <1>2, <1>3, <1>4 DEF Next

\* Initially the ring is empty.
LEMMA InitRing == Init => RingInv
<1> SUFFICES ASSUME Init PROVE RingInv
  OBVIOUS
<1>1. sock \in [End -> [pp : BOOLEAN, nonblock : BOOLEAN,
                        epoll : SUBSET {"in", "out"}, events : SUBSET {"in", "out"}]]
  BY DEF Init
<1>2. p \in [state : {"active", "close_wait"}, buf : [0 .. Size - 1 -> Nat],
             off : 0 .. Size - 1, tail : 0 .. Size - 1, len : 0 .. Size]
  BY PipeAssumption DEF Init
<1>3. TypeOK
  <2>1. 0 \in 0 .. MaxLen
    BY PipeAssumption
  <2>2. n \in [Thread -> 0 .. MaxLen]
    BY <2>1 DEF Init
  <2>3. freed \in BOOLEAN /\ eof \subseteq Readers /\ wrote \in Nat /\ got \in Nat
    BY DEF Init
  <2>4. pc \in [Thread -> PC]
    BY DEF Init, PC
  <2> QED
    BY <1>1, <1>2, <2>2, <2>3, <2>4 DEF TypeOK, PC
<1>4. RingInOrder /\ TailIsEnd
  BY PipeAssumption DEF Init, RingInOrder, TailIsEnd, Advance
<1> QED
  BY <1>3, <1>4 DEF RingInv

\* The indices of the ring stay in the ring and every variable in its type,
\* whatever the calls of PipeRead and PipeWrite take and however many threads
\* make them.
THEOREM TypeCorrect == Spec => []TypeOK
<1>1. RingInv => TypeOK
  BY DEF RingInv
<1> QED
  BY <1>1, InitRing, StepKeepsRing, PTL DEF Spec

\* PipeRead returns the bytes in the order in which PipeWrite took them: the
\* ring holds what was written and not yet read, across every wrap and every
\* partial call, for every size and any number of threads.
THEOREM BytesInOrder == Spec => []RingInOrder
<1>1. RingInv => RingInOrder
  BY DEF RingInv
<1> QED
  BY <1>1, InitRing, StepKeepsRing, PTL DEF Spec
-----------------------------------------------------------------------------
(* One thread per end: nobody waits in vain, nothing is used after the free. *)

OneThreadPerEnd == \A t, u \in Thread : EndOf(t) = EndOf(u) => t = u

Closed(t) == pc[t] \in {"closed", "done"}

\* A thread that has not closed has its end of the pipe; a pipe is in
\* PIPE_CLOSE_WAIT since a close, and it is freed when both ends are closed.
UseInv ==
    /\ \A t \in Thread : Closed(t) \/ sock[EndOf(t)].pp
    /\ p.state = "close_wait" => \E t \in Thread : Closed(t)
    /\ freed => \A t \in Thread : Closed(t)

\* The call of t would get or put a byte.
Ready(t) == IF t \in Readers THEN p.len > 0 ELSE p.len < Size

\* What holds of a thread and its end: only a blocking thread sleeps, and only
\* when it cannot go on; a thread in its event loop is registered; a registered
\* thread that is in its event loop, or may go there without another look at
\* the buffer, has its event if there is something for it.
WaitOf(t) ==
    LET e == EndOf(t)
    IN  /\ sock[e].epoll \subseteq {Wanted(e)}
        /\ sock[e].epoll # {} => sock[e].nonblock
        /\ pc[t] = "wait" => ~sock[e].nonblock /\ ~Ready(t)
        /\ pc[t] \in {"pending", "epoll"} => sock[e].epoll # {}
        /\ pc[t] \in {"epoll", "state"} /\ Ready(t) /\ sock[e].epoll # {} =>
               Wanted(e) \in sock[e].events
        /\ pc[t] = "state" => t \in Readers

WaitInv == \A t \in Thread : WaitOf(t)

\* A thread whose end keeps its settings and its events is not disturbed,
\* unless there is now something for it.
LEMMA Undisturbed ==
    ASSUME NEW t \in Thread, WaitOf(t), Kept(EndOf(t)), Ready(t)' => Ready(t),
           pc'[t] = pc[t] \/ pc'[t] \in {"idle", "lock", "raise", "closed", "done"}
    PROVE  WaitOf(t)'
BY DEF WaitOf, Kept

\* What is announced to a thread reaches it: a thread whose end may now go on
\* is woken or has its event.
LEMMA Announced ==
    ASSUME TypeOK, OneThreadPerEnd, WaitInv, NEW t \in Thread, NEW u \in Thread, u # t,
           NEW pcs \in [Thread -> PC], pcs[u] = pc[u], pcs[t] # "wait",
           RaiseEventToPair(EndOf(t), Wanted(EndOf(u)), pcs), p'.len \in 0 .. Size
    PROVE  WaitOf(u)'
<1>1. /\ EndOf(t) \in End /\ EndOf(u) \in End /\ Wanted(EndOf(u)) \in {"in", "out"}
      /\ Other(EndOf(t)) = EndOf(u)
  BY DEF OneThreadPerEnd, EndOf, End, Other, Wanted
<1>2. \A v \in Thread : v = t \/ v = u
  BY DEF OneThreadPerEnd, EndOf
<1>3. /\ Kept(EndOf(u))
      /\ sock[EndOf(u)].nonblock /\ sock[EndOf(u)].epoll # {} => Wanted(EndOf(u)) \in sock'[EndOf(u)].events
      /\ pc'[u] = pc[u] \/ (pc[u] = "wait" /\ pc'[u] = "lock")
      /\ ~sock[EndOf(u)].nonblock /\ (\A v \in Thread : pcs[v] = "wait" => v = u) => pc'[u] # "wait"
  <2>1. PICK e \in End, ev \in {"in", "out"} : e = EndOf(t) /\ ev = Wanted(EndOf(u))
    BY <1>1
  <2>2. RaiseEventToPair(e, ev, pcs) /\ Other(e) = EndOf(u)
    BY <1>1, <2>1
  <2> HIDE <2>1
  <2>3. /\ \A d \in End : Kept(d)
        /\ sock[Other(e)].nonblock /\ sock[Other(e)].epoll # {} => ev \in sock'[Other(e)].events
        /\ \A v \in Thread : pc'[v] # pcs[v] => pcs[v] = "wait" /\ pc'[v] = "lock"
        /\ ~sock[Other(e)].nonblock =>
               \A v \in Thread :
                   (\A w \in Thread : pcs[w] = "wait" => w = v) => pc'[v] # "wait"
    BY <2>2, RaiseEventToPairFacts
  <2>4. Kept(EndOf(u))
    BY <1>1, <2>3
  <2>5. pc'[u] = pc[u] \/ (pc[u] = "wait" /\ pc'[u] = "lock")
    BY <2>3
  <2>6. sock[EndOf(u)].nonblock /\ sock[EndOf(u)].epoll # {} => Wanted(EndOf(u)) \in sock'[EndOf(u)].events
    BY <2>1, <2>2, <2>3
  <2>7. ~sock[EndOf(u)].nonblock /\ (\A v \in Thread : pcs[v] = "wait" => v = u) => pc'[u] # "wait"
    BY <2>2, <2>3
  <2> QED
    BY <2>4, <2>5, <2>6, <2>7
<1>4. \A v \in Thread : pcs[v] = "wait" => v = u
  BY <1>2
<1>5. WaitOf(u)
  BY DEF WaitInv
<1>6. CASE pc[u] = "wait"
  <2>1. ~sock[EndOf(u)].nonblock /\ pc'[u] = "lock"
    BY <1>3, <1>4, <1>5, <1>6 DEF WaitOf
  <2> QED
    BY <1>3, <1>5, <2>1 DEF WaitOf, Kept
<1>7. CASE pc[u] # "wait"
  <2>1. pc'[u] = pc[u]
    BY <1>3, <1>7
  <2>2. sock'[EndOf(u)].epoll # {} => Wanted(EndOf(u)) \in sock'[EndOf(u)].events
    BY <1>3, <1>5 DEF WaitOf, Kept
  <2> QED
    BY <1>3, <1>5, <1>7, <2>1, <2>2 DEF WaitOf, Kept
<1> QED
  BY <1>6, <1>7

\* A read tells the writer when the buffer was full.
LEMMA ReadSomeWakes ==
    ASSUME TypeOK, TypeOK', OneThreadPerEnd, WaitInv, NEW t \in Readers, ReadSome(t)
    PROVE  WaitInv' /\ \A d \in End : sock'[d].pp = sock[d].pp
<1> DEFINE pcs == [pc EXCEPT ![t] = "raise"]
<1>1. /\ t \in Thread /\ EndOf(t) = "rd" /\ Wanted("wr") = "out" /\ "rd" \in End /\ "out" \in {"in", "out"}
      /\ pcs \in [Thread -> PC] /\ pcs[t] = "raise" /\ \A u \in Thread : u # t => pcs[u] = pc[u]
  BY DEF TypeOK, Thread, EndOf, End, Wanted, PC
<1>2. IF p.len = Size THEN RaiseEventToPair("rd", "out", pcs) ELSE pc' = pcs /\ sock' = sock
  BY DEF ReadSome, ReadNotifies
<1>3. (\A d \in End : Kept(d) /\ sock'[d].pp = sock[d].pp)
      /\ \A v \in Thread : pc'[v] # pcs[v] => pcs[v] = "wait" /\ pc'[v] = "lock"
  <2>1. CASE p.len = Size
    BY <1>1, <1>2, <2>1, RaiseEventToPairFacts
  <2>2. CASE p.len # Size
    BY <1>2, <2>2 DEF Kept
  <2> QED
    BY <2>1, <2>2
<1> HIDE DEF pcs
<1>4. ASSUME NEW u \in Thread PROVE WaitOf(u)'
  <2>1. WaitOf(u) /\ EndOf(u) \in End
    BY DEF WaitInv, EndOf, End
  <2>2. CASE u = t
    <3>1. pc'[t] = "raise"
      BY <1>1, <1>3
    <3> QED
      BY <1>3, <2>1, <2>2, <3>1 DEF WaitOf, Kept
  <2>3. CASE u # t /\ p.len = Size
    <3>1. EndOf(u) = "wr"
      BY <1>1, <2>3 DEF OneThreadPerEnd, EndOf
    <3>2. RaiseEventToPair(EndOf(t), Wanted(EndOf(u)), pcs)
      BY <1>1, <1>2, <2>3, <3>1
    <3>3. p'.len \in 0 .. Size
      BY DEF TypeOK
    <3> QED
      BY <1>1, <2>3, <3>2, <3>3, Announced
  <2>4. CASE u # t /\ p.len # Size
    <3>1. u \notin Readers
      BY <1>1, <2>4 DEF OneThreadPerEnd, EndOf, Thread
    <3>2. p.len \in 0 .. Size
      BY DEF TypeOK
    <3>3. Ready(u)
      BY <2>4, <3>1, <3>2, PipeAssumption DEF Ready
    <3>4. pc'[u] = pc[u]
      BY <1>1, <1>2, <2>4
    <3> QED
      BY <1>3, <2>1, <3>3, <3>4, Undisturbed
  <2> QED
    BY <2>2, <2>3, <2>4
<1> QED
  BY <1>3, <1>4 DEF WaitInv

\* A write tells the reader when the buffer was empty.
LEMMA WriteSomeWakes ==
    ASSUME TypeOK, TypeOK', OneThreadPerEnd, WaitInv, NEW t \in Writers, WriteSome(t)
    PROVE  WaitInv' /\ \A d \in End : sock'[d].pp = sock[d].pp
<1> DEFINE pcs == [pc EXCEPT ![t] = "raise"]
<1>1. /\ t \in Thread /\ EndOf(t) = "wr" /\ Wanted("rd") = "in" /\ "wr" \in End /\ "in" \in {"in", "out"}
      /\ pcs \in [Thread -> PC] /\ pcs[t] = "raise" /\ \A u \in Thread : u # t => pcs[u] = pc[u]
  BY PipeAssumption DEF TypeOK, Thread, EndOf, End, Wanted, PC
<1>2. IF p.len = 0 THEN RaiseEventToPair("wr", "in", pcs) ELSE pc' = pcs /\ sock' = sock
  BY DEF WriteSome, WriteNotifies
<1>3. (\A d \in End : Kept(d) /\ sock'[d].pp = sock[d].pp)
      /\ \A v \in Thread : pc'[v] # pcs[v] => pcs[v] = "wait" /\ pc'[v] = "lock"
  <2>1. CASE p.len = 0
    BY <1>1, <1>2, <2>1, RaiseEventToPairFacts
  <2>2. CASE p.len # 0
    BY <1>2, <2>2 DEF Kept
  <2> QED
    BY <2>1, <2>2
<1> HIDE DEF pcs
<1>4. ASSUME NEW u \in Thread PROVE WaitOf(u)'
  <2>1. WaitOf(u) /\ EndOf(u) \in End
    BY DEF WaitInv, EndOf, End
  <2>2. CASE u = t
    <3>1. pc'[t] = "raise"
      BY <1>1, <1>3
    <3> QED
      BY <1>3, <2>1, <2>2, <3>1 DEF WaitOf, Kept
  <2>3. CASE u # t /\ p.len = 0
    <3>1. EndOf(u) = "rd"
      BY <1>1, <2>3 DEF OneThreadPerEnd, EndOf
    <3>2. RaiseEventToPair(EndOf(t), Wanted(EndOf(u)), pcs)
      BY <1>1, <1>2, <2>3, <3>1
    <3>3. p'.len \in 0 .. Size
      BY DEF TypeOK
    <3> QED
      BY <1>1, <2>3, <3>2, <3>3, Announced
  <2>4. CASE u # t /\ p.len # 0
    <3>1. u \in Readers
      BY <1>1, <2>4 DEF OneThreadPerEnd, EndOf, Thread
    <3>2. p.len \in 0 .. Size
      BY DEF TypeOK
    <3>3. Ready(u)
      BY <2>4, <3>1, <3>2, PipeAssumption DEF Ready
    <3>4. pc'[u] = pc[u]
      BY <1>1, <1>2, <2>4
    <3> QED
      BY <1>3, <2>1, <3>3, <3>4, Undisturbed
  <2> QED
    BY <2>2, <2>3, <2>4
<1> QED
  BY <1>3, <1>4 DEF WaitInv

\* A step of t that touches neither the buffer nor the other end.
Local(t) ==
    /\ p'.len = p.len /\ \A d \in End : d # EndOf(t) => sock'[d] = sock[d]
    /\ \A u \in Thread : u # t => pc'[u] = pc[u]

\* Such a step disturbs no other thread.
LEMMA LocalKeeps ==
    ASSUME OneThreadPerEnd, WaitInv, NEW t \in Thread, Local(t), WaitOf(t)'
    PROVE  WaitInv'
<1> SUFFICES ASSUME NEW u \in Thread, u # t PROVE WaitOf(u)'
  BY DEF WaitInv
<1>1. EndOf(u) # EndOf(t) /\ EndOf(u) \in End
  BY DEF OneThreadPerEnd, EndOf, End
<1>2. Kept(EndOf(u)) /\ pc'[u] = pc[u] /\ Ready(u)' = Ready(u)
  BY <1>1 DEF Local, Kept, Ready
<1> QED
  BY <1>2, Undisturbed DEF WaitInv

\* A call that gets nothing: only an empty buffer lets a reader sleep, only a
\* full one a writer.
LEMMA NothingKeeps ==
    ASSUME TypeOK, OneThreadPerEnd, WaitInv, NEW t \in Thread,
           (t \in Readers /\ ReadNothing(t)) \/ (t \in Writers /\ WriteNothing(t))
    PROVE  WaitInv'
<1>1. WaitOf(t) /\ pc \in [Thread -> PC] /\ EndOf(t) = (IF t \in Readers THEN "rd" ELSE "wr")
  BY DEF WaitInv, TypeOK, PC, EndOf
<1>2. ~Ready(t) /\ p' = p /\ sock' = sock
  BY PipeAssumption DEF Ready, ReadNothing, WriteNothing
<1>3. \/ t \in Readers /\ pc' = [pc EXCEPT ![t] = IF sock["rd"].nonblock THEN "state" ELSE "wait"]
      \/ t \in Writers /\ pc' = [pc EXCEPT ![t] = IF sock["wr"].nonblock THEN Returned(t) ELSE "wait"]
  BY DEF ReadNothing, WriteNothing, Moved
<1>4. Local(t)
  BY <1>1, <1>2, <1>3 DEF Local
<1>5. ~Ready(t)'
  BY <1>2 DEF Ready
<1>6. \/ pc'[t] = "wait" /\ ~sock[EndOf(t)].nonblock
      \/ pc'[t] = "state" /\ t \in Readers
      \/ pc'[t] = "epoll" /\ sock[EndOf(t)].epoll # {}
      \/ pc'[t] = "idle"
  BY <1>1, <1>3, PipeAssumption DEF Returned
<1>7. WaitOf(t)'
  BY <1>1, <1>2, <1>5, <1>6 DEF WaitOf
<1> QED
  BY <1>4, <1>7, LocalKeeps

\* The event a thread raises for itself after its call, and the tests before and
\* after the lock.
LEMMA RaiseKeeps ==
    ASSUME TypeOK, OneThreadPerEnd, WaitInv, NEW t \in Thread,
           \/ t \in Readers /\ (ReadState(t) \/ ReadRaise(t))
           \/ t \in Writers /\ WriteRaise(t)
    PROVE  WaitInv' /\ \A d \in End : sock'[d].pp = sock[d].pp
<1> DEFINE e == EndOf(t)
<1>1. /\ WaitOf(t) /\ pc \in [Thread -> PC] /\ e \in End /\ e = (IF t \in Readers THEN "rd" ELSE "wr")
      /\ Wanted(e) = (IF t \in Readers THEN "in" ELSE "out") /\ Wanted(e) \in {"in", "out"}
  BY DEF WaitInv, TypeOK, PC, EndOf, End, Wanted
<1>2. p' = p /\ Ready(t)' = Ready(t) /\ (sock' = sock \/ AddEpollEvent(e, Wanted(e)))
  BY <1>1, PipeAssumption DEF ReadState, ReadRaise, WriteRaise, Ready
<1>3. \/ pc' = [pc EXCEPT ![t] = "idle"]
      \/ pc' = [pc EXCEPT ![t] = Returned(t)] /\ pc[t] = "state" /\ sock' = sock
      \/ /\ pc' = [pc EXCEPT ![t] = Returned(t)]
         /\ Ready(t) /\ Wanted(e) \in sock[e].epoll => AddEpollEvent(e, Wanted(e))
  BY <1>1, PipeAssumption DEF ReadState, ReadRaise, ReadAgain, WriteRaise, Moved, Ready
<1>4. /\ \A d \in End : Kept(d) /\ sock'[d].pp = sock[d].pp
      /\ AddEpollEvent(e, Wanted(e)) => Wanted(e) \in sock'[e].events
      /\ \A d \in End : d # e => sock'[d] = sock[d]
  <2>1. CASE sock' = sock
    BY <1>1, <2>1, AddEpollEventFacts DEF Kept
  <2>2. CASE AddEpollEvent(e, Wanted(e))
    <3>1. \A d \in End : d # e => sock'[d] = sock[d]
      BY <2>2 DEF AddEpollEvent, TypeOK
    <3> QED
      BY <1>1, <2>2, <3>1, AddEpollEventFacts
  <2> QED
    BY <1>2, <2>1, <2>2
<1>5. Local(t)
  BY <1>1, <1>2, <1>3, <1>4 DEF Local
<1> HIDE DEF e
<1>6. \/ pc'[t] = "idle"
      \/ pc'[t] = "epoll" /\ sock[e].epoll # {} /\ pc[t] = "state"
      \/ /\ pc'[t] = "epoll" /\ sock[e].epoll # {}
         /\ Ready(t) /\ Wanted(e) \in sock[e].epoll => AddEpollEvent(e, Wanted(e))
  BY <1>1, <1>3 DEF Returned, e
<1>7. sock[e].epoll # {} => Wanted(e) \in sock[e].epoll
  BY <1>1 DEF WaitOf, e
<1>8. WaitOf(t)'
  <2>1. CASE pc'[t] = "idle"
    BY <1>1, <1>2, <1>4, <2>1 DEF WaitOf, Kept, e
  <2>2. CASE pc'[t] = "epoll"
    <3>1. Ready(t) => Wanted(e) \in sock'[e].events
      BY <1>1, <1>4, <1>6, <1>7, <2>2 DEF WaitOf, Kept, e
    <3> QED
      BY <1>1, <1>2, <1>4, <1>6, <2>2, <3>1 DEF WaitOf, Kept, e
  <2> QED
    BY <1>6, <2>1, <2>2
<1> QED
  BY <1>4, <1>5, <1>8, LocalKeeps

\* A step that moves t without closing its end keeps who uses the pipe.
LEMMA UseKept ==
    ASSUME UseInv, NEW t \in Thread, ~Closed(t), \A d \in End : sock'[d].pp = sock[d].pp,
           p'.state = p.state, freed' = freed, \A u \in Thread : Closed(u)' = Closed(u)
    PROVE  UseInv'
<1>1. \A u \in Thread : EndOf(u) \in End
  BY DEF EndOf, End
<1> QED
  BY <1>1 DEF UseInv

\* Only a close closes.
LEMMA ClosedKept ==
    ASSUME TypeOK, NEW t \in Thread,
           \/ t \in Readers /\ (Reads(t) \/ \E len \in 1 .. MaxLen : ReadCall(t, len))
           \/ t \in Writers /\ (Writes(t) \/ \E len \in 1 .. MaxLen : WriteCall(t, len))
           \/ Waits(t) \/ Register(t) \/ SpuriousWakeup(t)
    PROVE  ~Closed(t) /\ \A u \in Thread : Closed(u)' = Closed(u)
<1> DEFINE pcs == [pc EXCEPT ![t] = "raise"]
<1>1. pc \in [Thread -> PC] /\ pcs \in [Thread -> PC]
  BY DEF TypeOK, PC
<1>2. ~Closed(t)
  BY DEF Closed, Reads, Writes, Waits, ReadCall, ReadNothing, ReadSome, ReadState, ReadRaise, WriteCall,
         WriteNothing, WriteSome, WriteRaise, Register, RaisePendingPipeEvents, Fetch, SpuriousWakeup
<1>3. CASE (t \in Readers /\ ReadSome(t)) \/ (t \in Writers /\ WriteSome(t))
  <2>1. PICK e \in End, ev \in {"in", "out"} :
            RaiseEventToPair(e, ev, pcs) \/ pc' = pcs
    <3>1. \/ RaiseEventToPair("rd", "out", pcs) \/ RaiseEventToPair("wr", "in", pcs)
          \/ pc' = pcs
      BY <1>3 DEF ReadSome, WriteSome
    <3> QED
      BY <3>1 DEF End
  <2>2. \A u \in Thread : pc'[u] # pcs[u] => pcs[u] = "wait" /\ pc'[u] = "lock"
    BY <1>1, <2>1, RaiseEventToPairFacts
  <2>3. \A u \in Thread : pcs[u] = IF u = t THEN "raise" ELSE pc[u]
    BY <1>1
  <2> HIDE DEF pcs
  <2> QED
    BY <1>2, <2>2, <2>3 DEF Closed
<1>4. CASE ~((t \in Readers /\ ReadSome(t)) \/ (t \in Writers /\ WriteSome(t)))
  <2>1. \E to \in {"idle", "lock", "wait", "state", "epoll", "pending"} :
            pc' = [pc EXCEPT ![t] = to] \/ pc' = pc
    BY <1>4 DEF Moved, Returned, Reads, Writes, Waits, ReadCall, ReadNothing, ReadState, ReadRaise, WriteCall,
         WriteNothing, WriteRaise, Register, RaisePendingPipeEvents, Fetch, SpuriousWakeup
  <2> QED
    BY <1>1, <1>2, <2>1 DEF Closed
<1> QED
  BY <1>3, <1>4

\* The calls, the registration and the event loop.
LEMMA LoopKeeps ==
    ASSUME TypeOK, OneThreadPerEnd, WaitInv, UseInv, NEW t \in Thread,
           \/ t \in Readers /\ \E len \in 1 .. MaxLen : ReadCall(t, len)
           \/ t \in Writers /\ \E len \in 1 .. MaxLen : WriteCall(t, len)
           \/ Waits(t) \/ Register(t) \/ SpuriousWakeup(t)
    PROVE  WaitInv' /\ \A d \in End : sock'[d].pp = sock[d].pp
<1> DEFINE e == EndOf(t)
<1>1. /\ WaitOf(t) /\ pc \in [Thread -> PC] /\ e \in End /\ sock \in [End -> Socket]
      /\ Wanted(e) \in {"in", "out"} /\ e = (IF t \in Readers THEN "rd" ELSE "wr")
      /\ Wanted(e) = (IF t \in Readers THEN "in" ELSE "out")
  BY DEF WaitInv, TypeOK, PC, Socket, EndOf, End, Wanted
<1>2. CASE \/ t \in Readers /\ \E len \in 1 .. MaxLen : ReadCall(t, len)
           \/ t \in Writers /\ \E len \in 1 .. MaxLen : WriteCall(t, len)
           \/ SpuriousWakeup(t)
  <2>1. /\ p' = p /\ sock' = sock
        /\ pc' = pc \/ pc' = [pc EXCEPT ![t] = "lock"] \/ pc' = [pc EXCEPT ![t] = "idle"]
    BY <1>2 DEF ReadCall, WriteCall, SpuriousWakeup, Moved
  <2>2. \A u \in Thread : Kept(EndOf(u)) /\ Ready(u)' = Ready(u)
    BY <2>1 DEF Kept, Ready
  <2>3. \A u \in Thread : pc'[u] = pc[u] \/ pc'[u] \in {"lock", "idle"}
    BY <1>1, <2>1
  <2>4. \A u \in Thread : WaitOf(u)'
    BY <2>2, <2>3, Undisturbed DEF WaitInv
  <2> QED
    BY <2>1, <2>4 DEF WaitInv
<1>3. CASE RaisePendingPipeEvents(t)
  <2> DEFINE ready == IF e = "rd" THEN p.len > 0 \/ p.state = "close_wait" ELSE p.len < Size
  <2>1. /\ p' = p /\ pc' = [pc EXCEPT ![t] = "epoll"] /\ pc[t] = "pending"
        /\ IF sock[e].pp /\ ready THEN AddEpollEvent(e, Wanted(e)) ELSE sock' = sock
    BY <1>3 DEF RaisePendingPipeEvents, Moved
  <2>2. sock[e].pp
    BY <2>1 DEF UseInv, Closed
  <2>3. Ready(t) => ready
    BY <1>1 DEF Ready
  <2>4. Ready(t)' = Ready(t) /\ pc'[t] = "epoll"
    BY <1>1, <2>1 DEF Ready
  <2> HIDE DEF ready
  <2>5. /\ \A d \in End : Kept(d) /\ sock'[d].pp = sock[d].pp
        /\ ready => Wanted(e) \in sock'[e].events
        /\ \A d \in End : d # e => sock'[d] = sock[d]
    <3>1. CASE ready
      <4>1. AddEpollEvent(e, Wanted(e))
        BY <2>1, <2>2, <3>1
      <4>2. \A d \in End : d # e => sock'[d] = sock[d]
        BY <4>1 DEF AddEpollEvent, TypeOK
      <4> QED
        BY <1>1, <4>1, <4>2, AddEpollEventFacts
    <3>2. CASE ~ready
      BY <2>1, <3>2 DEF Kept
    <3> QED
      BY <3>1, <3>2
  <2>6. Local(t)
    BY <1>1, <2>1, <2>5 DEF Local
  <2>7. WaitOf(t)'
    BY <1>1, <2>1, <2>3, <2>4, <2>5 DEF WaitOf, Kept
  <2> QED
    BY <2>5, <2>6, <2>7, LocalKeeps
<1>4. ASSUME NEW ev \in {"in", "out"}, Fetch(t, ev)
      PROVE  WaitInv' /\ \A d \in End : sock'[d].pp = sock[d].pp
  <2>1. /\ p' = p /\ pc[t] = "epoll" /\ sock' = [sock EXCEPT ![e].events = sock[e].events \ {ev}]
        /\ pc' = [pc EXCEPT ![t] = IF ev \in sock[e].epoll THEN "idle" ELSE "epoll"]
    BY <1>4 DEF Fetch, Moved
  <2>2. sock[e].events \ {ev} \in SUBSET {"in", "out"}
    BY <1>1 DEF Socket
  <2>3. /\ \A d \in End : d # e => sock'[d] = sock[d]
        /\ sock'[e] = [sock[e] EXCEPT !.events = sock[e].events \ {ev}]
    BY <1>1, <2>1, <2>2, SocketUpdates
  <2>4. /\ sock'[e].pp = sock[e].pp /\ sock'[e].nonblock = sock[e].nonblock
        /\ sock'[e].epoll = sock[e].epoll /\ sock'[e].events = sock[e].events \ {ev}
    BY <1>1, <2>3 DEF Socket
  <2>5. Local(t)
    BY <1>1, <2>1, <2>3 DEF Local
  <2>6. Ready(t)' = Ready(t) /\ pc'[t] = (IF ev \in sock[e].epoll THEN "idle" ELSE "epoll")
    BY <1>1, <2>1 DEF Ready
  <2>7. WaitOf(t)'
    BY <1>1, <2>1, <2>4, <2>6 DEF WaitOf
  <2> QED
    BY <2>3, <2>4, <2>5, <2>7, LocalKeeps
<1>5. CASE Register(t)
  <2>1. /\ p' = p /\ sock' = [sock EXCEPT ![e].epoll = {Wanted(e)}] /\ sock[e].nonblock
        /\ pc' = [pc EXCEPT ![t] = "pending"]
    BY <1>5 DEF Register, Moved
  <2>2. {Wanted(e)} \in SUBSET {"in", "out"}
    BY <1>1
  <2>3. /\ \A d \in End : d # e => sock'[d] = sock[d]
        /\ sock'[e] = [sock[e] EXCEPT !.epoll = {Wanted(e)}]
    BY <1>1, <2>1, <2>2, SocketUpdates
  <2>4. /\ sock'[e].pp = sock[e].pp /\ sock'[e].nonblock = sock[e].nonblock
        /\ sock'[e].epoll = {Wanted(e)}
    BY <1>1, <2>3 DEF Socket
  <2>5. Local(t)
    BY <1>1, <2>1, <2>3 DEF Local
  <2>6. pc'[t] = "pending"
    BY <1>1, <2>1
  <2>7. WaitOf(t)'
    BY <2>1, <2>4, <2>6 DEF WaitOf
  <2> QED
    BY <2>3, <2>4, <2>5, <2>7, LocalKeeps
<1> QED
  BY <1>2, <1>3, <1>4, <1>5 DEF Waits

\* A close: the second one finds every thread of the pipe gone.
LEMMA CloseKeeps ==
    ASSUME TypeOK, TypeOK', OneThreadPerEnd, WaitInv, UseInv, NEW t \in Thread, PipeClose(t)
    PROVE  WaitInv' /\ UseInv'
<1> DEFINE e == EndOf(t)
           pcs == [pc EXCEPT ![t] = "closed"]
<1>1. /\ e \in End /\ "in" \in {"in", "out"} /\ pcs \in [Thread -> PC] /\ pcs[t] = "closed"
      /\ \A u \in Thread : u # t => pcs[u] = pc[u]
      /\ sock \in [End -> Socket] /\ \A u \in Thread : EndOf(u) \in End
  BY DEF TypeOK, PC, EndOf, End, Socket
<1>2. p'.state = "close_wait" /\ p'.len = p.len
  BY DEF PipeClose, TypeOK
<1>3. \A u \in Thread : Ready(u)' = Ready(u)
  BY <1>2 DEF Ready
<1>4. ~Closed(t) /\ sock[e].pp
  BY DEF PipeClose, Closed
<1>5. CASE LastClose
  <2>1. freed' /\ pc' = pcs /\ sock' = [d \in End |-> [sock[d] EXCEPT !.pp = FALSE]]
    BY <1>5 DEF PipeClose
  <2>2. \A d \in End : Kept(d)
    BY <1>1, <2>1 DEF Kept, Socket
  <2>3. PICK v \in Thread : Closed(v)
    BY <1>5 DEF UseInv, LastClose
  <2>4. \A u \in Thread : u = t \/ u = v
    BY <1>4, <2>3 DEF OneThreadPerEnd, EndOf
  <2> HIDE DEF pcs
  <2>5. \A u \in Thread : Closed(u)'
    BY <1>1, <2>1, <2>3, <2>4 DEF Closed
  <2>6. UseInv'
    BY <2>5 DEF UseInv
  <2>7. \A u \in Thread : WaitOf(u)'
    BY <1>1, <1>3, <2>2, <2>5, Undisturbed DEF WaitInv, Closed
  <2> QED
    BY <2>6, <2>7 DEF WaitInv
<1>6. CASE ~LastClose
  <2>1. freed' = FALSE /\ RaiseEventToPair(e, "in", pcs)
    BY <1>6 DEF PipeClose
  <2> HIDE DEF pcs, e
  <2>2. /\ \A d \in End : Kept(d) /\ sock'[d].pp = sock[d].pp
        /\ \A u \in Thread : pc'[u] # pcs[u] => pcs[u] = "wait" /\ pc'[u] = "lock"
    BY <1>1, <2>1, RaiseEventToPairFacts
  <2>3. pc'[t] = "closed"
    BY <1>1, <2>2
  <2>4. \A u \in Thread : u # t => pc'[u] = pc[u] \/ (pc[u] = "wait" /\ pc'[u] = "lock")
    BY <1>1, <2>2
  <2>5. \A u \in Thread : pc'[u] = pc[u] \/ pc'[u] \in {"lock", "closed"}
    BY <2>3, <2>4
  <2>6. \A u \in Thread : WaitOf(u)'
    BY <1>1, <1>3, <2>2, <2>5, Undisturbed DEF WaitInv
  <2>7. \A u \in Thread : Closed(u)' \/ sock'[EndOf(u)].pp
    <3>1. \A u \in Thread : Closed(u) => Closed(u)'
      BY <2>3, <2>4 DEF Closed
    <3> QED
      BY <1>1, <2>2, <3>1 DEF UseInv
  <2>8. UseInv'
    BY <2>1, <2>3, <2>7 DEF UseInv, Closed
  <2> QED
    BY <2>6, <2>8 DEF WaitInv
<1> QED
  BY <1>5, <1>6

\* The socket goes when its thread has closed it.
LEMMA FreeKeeps ==
    ASSUME TypeOK, OneThreadPerEnd, WaitInv, UseInv, NEW t \in Thread, FreeSocket(t)
    PROVE  WaitInv' /\ UseInv'
<1> DEFINE e == EndOf(t)
<1>1. /\ e \in End /\ pc \in [Thread -> PC] /\ sock \in [End -> Socket]
      /\ \A u \in Thread : EndOf(u) \in End
  BY DEF TypeOK, PC, EndOf, End, Socket
<1>2. /\ pc[t] = "closed" /\ pc' = [pc EXCEPT ![t] = "done"] /\ p' = p /\ freed' = freed
      /\ sock' = [sock EXCEPT ![e] = [sock[e] EXCEPT !.pp = FALSE, !.epoll = {}, !.events = {}]]
  BY DEF FreeSocket, Moved
<1>3. /\ pc'[t] = "done" /\ \A u \in Thread : u # t => pc'[u] = pc[u]
      /\ \A d \in End : d # e => sock'[d] = sock[d]
      /\ sock'[e].epoll = {}
  BY <1>1, <1>2 DEF Socket
<1>4. Local(t)
  BY <1>2, <1>3 DEF Local
<1>5. WaitOf(t)'
  BY <1>3 DEF WaitOf
<1>6. UseInv'
  <2>1. \A u \in Thread : Closed(u)' = Closed(u)
    BY <1>2, <1>3 DEF Closed
  <2>2. \A u \in Thread : u # t => sock'[EndOf(u)] = sock[EndOf(u)]
    BY <1>1, <1>3 DEF OneThreadPerEnd
  <2>3. Closed(t)
    BY <1>2 DEF Closed
  <2> QED
    BY <1>2, <2>1, <2>2, <2>3 DEF UseInv
<1> QED
  BY <1>4, <1>5, <1>6, LocalKeeps

\* Every step keeps what a thread that waits may rely on.
LEMMA StepKeepsWait ==
    ASSUME RingInv, RingInv', OneThreadPerEnd, WaitInv, UseInv, [Next]_vars
    PROVE  WaitInv' /\ UseInv'
<1>1. TypeOK /\ TypeOK'
  BY DEF RingInv
<1>2. CASE UNCHANGED vars
  BY <1>2 DEF vars, WaitInv, UseInv, WaitOf, Ready, Closed
<1>3. ASSUME NEW t \in Thread,
             \/ t \in Readers /\ (Reads(t) \/ \E len \in 1 .. MaxLen : ReadCall(t, len))
             \/ t \in Writers /\ (Writes(t) \/ \E len \in 1 .. MaxLen : WriteCall(t, len))
             \/ Waits(t) \/ Register(t) \/ SpuriousWakeup(t)
      PROVE  WaitInv' /\ UseInv'
  <2>1. WaitInv' /\ \A d \in End : sock'[d].pp = sock[d].pp
    <3>1. ASSUME t \in Readers, Reads(t) PROVE WaitInv' /\ \A d \in End : sock'[d].pp = sock[d].pp
      <4>1. CASE ReadNothing(t)
        BY <1>1, <3>1, <4>1, NothingKeeps DEF ReadNothing
      <4>2. CASE ReadSome(t)
        BY <1>1, <3>1, <4>2, ReadSomeWakes
      <4>3. CASE ReadState(t) \/ ReadRaise(t)
        BY <1>1, <3>1, <4>3, RaiseKeeps
      <4> QED
        BY <3>1, <4>1, <4>2, <4>3 DEF Reads
    <3>2. ASSUME t \in Writers, Writes(t) PROVE WaitInv' /\ \A d \in End : sock'[d].pp = sock[d].pp
      <4>1. CASE WriteNothing(t)
        BY <1>1, <3>2, <4>1, NothingKeeps DEF WriteNothing
      <4>2. CASE WriteSome(t)
        BY <1>1, <3>2, <4>2, WriteSomeWakes
      <4>3. CASE WriteRaise(t)
        BY <1>1, <3>2, <4>3, RaiseKeeps
      <4> QED
        BY <3>2, <4>1, <4>2, <4>3 DEF Writes
    <3> QED
      BY <1>1, <1>3, <3>1, <3>2, LoopKeeps
  <2>2. p'.state = p.state /\ freed' = freed
    <3>1. p'.state = p.state
      BY <1>1, <1>3 DEF TypeOK, Reads, Writes, Waits, ReadCall, ReadNothing, ReadSome, ReadState, ReadRaise,
         WriteCall, WriteNothing, WriteSome, WriteRaise, Register, RaisePendingPipeEvents, Fetch, SpuriousWakeup
    <3>2. freed' = freed
      BY <1>3 DEF Reads, Writes, Waits, ReadCall, ReadNothing, ReadSome, ReadState, ReadRaise,
         WriteCall, WriteNothing, WriteSome, WriteRaise, Register, RaisePendingPipeEvents, Fetch, SpuriousWakeup
    <3> QED
      BY <3>1, <3>2
  <2>3. ~Closed(t) /\ \A u \in Thread : Closed(u)' = Closed(u)
    BY <1>1, <1>3, ClosedKept
  <2> QED
    BY <2>1, <2>2, <2>3, UseKept
<1>4. ASSUME NEW t \in Thread, PipeClose(t) \/ FreeSocket(t)
      PROVE  WaitInv' /\ UseInv'
  BY <1>1, <1>4, CloseKeeps, FreeKeeps
<1> QED
  BY <1>2, <1>3, <1>4 DEF Next, Thread

LEMMA InitWait == Init => WaitInv /\ UseInv
<1> SUFFICES ASSUME Init PROVE WaitInv /\ UseInv
  OBVIOUS
<1>1. \A t \in Thread : pc[t] = "idle" /\ EndOf(t) \in End
  BY DEF Init, EndOf, End
<1>2. \A e \in End : sock[e].pp /\ sock[e].epoll = {}
  BY DEF Init
<1>3. p.state = "active" /\ freed = FALSE
  BY DEF Init
<1> QED
  BY <1>1, <1>2, <1>3 DEF WaitInv, WaitOf, UseInv

\* With one thread per end, no thread sleeps on the condition variable while its
\* call could go on, and none sits in its event loop without the event: the
\* edge-only announcements of RaiseEventToPair lose nothing, whatever the two
\* threads interleave, spurious wake-ups included.
THEOREM NobodyWaits == OneThreadPerEnd /\ Spec => []NobodyWaitsInVain
<1> SUFFICES ASSUME OneThreadPerEnd PROVE Spec => []NobodyWaitsInVain
  OBVIOUS
<1> DEFINE I == RingInv /\ WaitInv /\ UseInv
<1>1. Init => I
  BY InitRing, InitWait
<1>2. I /\ [Next]_vars => I'
  BY StepKeepsRing, StepKeepsWait
<1>3. I => NobodyWaitsInVain
  BY DEF WaitInv, WaitOf, Ready, NobodyWaitsInVain
<1> QED
  BY <1>1, <1>2, <1>3, PTL DEF Spec

\* With one thread per end, the close that frees the pipe finds no thread in a
\* call on it, not even one between its unlock and its last look at the state.
THEOREM FreeIsSafe == OneThreadPerEnd /\ Spec => []FreedUnused
<1> SUFFICES ASSUME OneThreadPerEnd PROVE Spec => []FreedUnused
  OBVIOUS
<1> DEFINE I == RingInv /\ WaitInv /\ UseInv
<1>1. Init => I
  BY InitRing, InitWait
<1>2. I /\ [Next]_vars => I'
  BY StepKeepsRing, StepKeepsWait
<1>3. I => FreedUnused
  BY DEF UseInv, Closed, FreedUnused
<1> QED
  BY <1>1, <1>2, <1>3, PTL DEF Spec
=============================================================================
