--------------------------- MODULE RtoWheelProofs ---------------------------
(***************************************************************************)
(* Proofs about the RTO wheel, for every number of streams, slots and      *)
(* ticks, every estimate and every limit.                                  *)
(*                                                                         *)
(* SlotIsTime is not inductive: AddtoRTOList rewinds the wheel when        *)
(* rto_list_cnt is 0, which is harmless only if then no stream is on it,   *)
(* and CheckRtmTimeout follows the links of streams that HandleRTO may     *)
(* move.  WheelOK adds that count, lists and on_rto_idx agree, WheelInv    *)
(* that the walk is always at a stream that is on its list.                *)
(*                                                                         *)
(* NeverEarly and LateByTurns are about rounds that handle every timeout   *)
(* they find: TimeInv bounds the distance between wheel and present, and   *)
(* between every stream's slot and its timeout.                            *)
(***************************************************************************)
EXTENDS RtoWheel, FiniteSetTheorems, SequenceTheorems, WellFoundedInduction, TLAPS

\* on_rto_idx; -1: on no list.
SlotOrNone == Slot \cup {-1}

StreamRec ==
    [live : BOOLEAN, established : BOOLEAN, rto : Int, estimate : Int,
     nrtx : Nat, unacked : BOOLEAN, on_rto_idx : SlotOrNone, armed : Int]

StoreRec ==
    [of : [Stream -> StreamRec], rto_list : [Slot -> Seq(Stream)],
     rto_list_cnt : Int, rto_now_idx : Slot, rto_now_ts : Int]

\* a and b are whole turns of the wheel apart.
Cong(a, b) == \E k \in Int : a - b = k * RTO_HASH

\* The streams on the wheel, by their on_rto_idx.
On(r) == {s \in Stream : r.of[s].on_rto_idx >= 0}

Counted(r) == IsFiniteSet(On(r)) /\ r.rto_list_cnt = Cardinality(On(r))

Listed(r) ==
    \A s \in On(r) : \E n \in 1 .. Len(r.rto_list[r.of[s].on_rto_idx]) :
        r.rto_list[r.of[s].on_rto_idx][n] = s

Marked(r) ==
    \A i \in Slot : \A n \in 1 .. Len(r.rto_list[i]) :
        r.of[r.rto_list[i][n]].on_rto_idx = i

Once(r) ==
    \A i \in Slot : \A n, k \in 1 .. Len(r.rto_list[i]) :
        r.rto_list[i][n] = r.rto_list[i][k] => n = k

\* SlotIsTime in the arithmetic of turns.
Timed(r) ==
    \A s \in On(r) :
        Cong(r.rto_now_ts + r.of[s].on_rto_idx - r.rto_now_idx, r.of[s].armed)

\* A stream that does not exist has nothing to wait for.
Buried(r) == \A s \in Stream : r.of[s].live \/ r.of[s] = Dead

WheelOK(r) ==
    /\ r \in StoreRec /\ Buried(r)
    /\ Counted(r) /\ Listed(r) /\ Marked(r) /\ Once(r) /\ Timed(r)

WheelInv ==
    /\ WheelOK(st) /\ ts \in Int
    /\ phase = "check" /\ walk # None => walk \in On(st)
-----------------------------------------------------------------------------
(* Turns.                                                                  *)

\* The constants of the arithmetic are what the lemmas need.
LEMMA Constants ==
    /\ RTO_HASH \in Int /\ RTO_HASH > 0 /\ W \in Int /\ W > 0
    /\ \E j \in Int : W = j * RTO_HASH
<1>1. RTO_HASH \in Int /\ RTO_HASH > 0 /\ W \in Int /\ W > 0 /\ W % (2 * RTO_HASH) = 0
  BY WheelAssumption
<1>2. W = (2 * RTO_HASH) * (W \div (2 * RTO_HASH)) /\ W \div (2 * RTO_HASH) \in Int
  BY <1>1
<1> DEFINE d == W \div (2 * RTO_HASH)
<1>3. d \in Int /\ W = (2 * RTO_HASH) * d
  BY <1>2
<1> HIDE DEF d
<1>4. W = (2 * d) * RTO_HASH /\ 2 * d \in Int
  BY <1>1, <1>3
<1> QED
  BY <1>1, <1>4

\* A slot index is the number it was reduced from, up to turns.
LEMMA ModHash ==
    ASSUME NEW n \in Int
    PROVE  n % RTO_HASH \in Slot /\ Cong(n % RTO_HASH, n) /\ n % RTO_HASH \in Int
<1> DEFINE q == n \div RTO_HASH  r == n % RTO_HASH
<1>1. q \in Int /\ r \in 0 .. RTO_HASH - 1 /\ r = n - RTO_HASH * q
  BY Constants
<1> HIDE DEF q, r
<1>2. r - n = (-q) * RTO_HASH /\ -q \in Int
  BY <1>1, Constants
<1>3. r \in Slot /\ Cong(r, n) /\ r \in Int
  BY <1>1, <1>2, Constants DEF Slot, Cong
<1> QED
  BY <1>3 DEF r

\* So is a time that wraps: the wheel divides the period.
LEMMA ModTime ==
    ASSUME NEW n \in Int
    PROVE  n % W \in Int /\ Cong(n % W, n)
<1> DEFINE q == n \div W  r == n % W
<1>1. q \in Int /\ r \in Int /\ r = n - W * q
  BY Constants
<1>2. PICK j \in Int : W = j * RTO_HASH
  BY Constants
<1> HIDE DEF q, r
<1>3. r - n = (-(q * j)) * RTO_HASH /\ -(q * j) \in Int
  BY <1>1, <1>2, Constants
<1>4. r \in Int /\ Cong(r, n)
  BY <1>1, <1>3, Constants DEF Cong
<1> QED
  BY <1>4 DEF r

\* And so is a signed difference.
LEMMA DiffTurns ==
    ASSUME NEW a \in Int, NEW b \in Int
    PROVE  Diff(a, b) \in Int /\ Cong(Diff(a, b), a - b)
<1> DEFINE h == W \div 2
<1>1. h \in Int
  BY Constants
<1> DEFINE x == a - b + h
<1>2. x \in Int /\ Diff(a, b) = (x % W) - h
  BY <1>1 DEF Diff
<1>3. x % W \in Int /\ Cong(x % W, x)
  BY <1>2, ModTime
<1> DEFINE y == x % W
<1>4. PICK k \in Int : y - x = k * RTO_HASH
  BY <1>3 DEF Cong
<1> HIDE DEF h, y
<1>5. y \in Int /\ Diff(a, b) = y - h
  BY <1>2, <1>3 DEF y, h
<1>6. Diff(a, b) - (a - b) = k * RTO_HASH
  BY <1>1, <1>4, <1>5
<1> QED
  BY <1>1, <1>5, <1>6 DEF Cong

\* The slot that AddtoRTOList computes for a timeout.
LEMMA OffsetTurns ==
    ASSUME NEW now \in Int, NEW idx \in Int, NEW t \in Int, NEW i,
           i = (Diff(t, now) + idx) % RTO_HASH
    PROVE  i \in Slot /\ Cong(now + i - idx, t)
<1> DEFINE d == Diff(t, now)
<1>1. d \in Int /\ Cong(d, t - now)
  BY DiffTurns
<1>2. i \in Slot /\ i \in Int /\ Cong(i, d + idx)
  BY <1>1, ModHash
<1> HIDE DEF d
<1>3. PICK k \in Int : d - (t - now) = k * RTO_HASH
  BY <1>1 DEF Cong
<1>4. PICK l \in Int : i - (d + idx) = l * RTO_HASH
  BY <1>2 DEF Cong
<1>5. k + l \in Int /\ (now + i - idx) - t = (k + l) * RTO_HASH
  BY <1>1, <1>2, <1>3, <1>4, Constants
<1> QED
  BY <1>2, <1>5 DEF Cong

\* The step to the next slot moves index and time together.
LEMMA NextTurns ==
    ASSUME NEW now \in Int, NEW idx \in Int, NEW i \in Int, NEW t \in Int,
           NEW now1, NEW idx1, now1 = (now + 1) % W, idx1 = (idx + 1) % RTO_HASH,
           Cong(now + i - idx, t)
    PROVE  Cong(now1 + i - idx1, t)
<1>1. now1 \in Int /\ Cong(now1, now + 1)
  BY ModTime
<1>2. idx1 \in Int /\ Cong(idx1, idx + 1)
  BY ModHash
<1>3. PICK k \in Int : now1 - (now + 1) = k * RTO_HASH
  BY <1>1 DEF Cong
<1>4. PICK l \in Int : idx1 - (idx + 1) = l * RTO_HASH
  BY <1>2 DEF Cong
<1>5. PICK m \in Int : (now + i - idx) - t = m * RTO_HASH
  BY DEF Cong
<1>6. m + k - l \in Int /\ (now1 + i - idx1) - t = (m + k - l) * RTO_HASH
  BY <1>1, <1>2, <1>3, <1>4, <1>5, Constants
<1> QED
  BY <1>6 DEF Cong

\* What Timed says is what SlotIsTime says.
LEMMA TimedSlot ==
    ASSUME NEW now \in Int, NEW idx \in Int, NEW i \in Int, NEW t \in Int,
           Cong(now + i - idx, t)
    PROVE  Diff(now + ((i - idx) % RTO_HASH), t) % RTO_HASH = 0
<1> DEFINE a == (i - idx) % RTO_HASH
<1>1. a \in Int /\ Cong(a, i - idx)
  BY ModHash
<1> HIDE DEF a
<1> DEFINE d == Diff(now + a, t)
<1>2. d \in Int /\ Cong(d, now + a - t)
  BY <1>1, DiffTurns
<1> HIDE DEF d
<1>3. PICK k \in Int : a - (i - idx) = k * RTO_HASH
  BY <1>1 DEF Cong
<1>4. PICK l \in Int : d - (now + a - t) = l * RTO_HASH
  BY <1>2 DEF Cong
<1>5. PICK m \in Int : (now + i - idx) - t = m * RTO_HASH
  BY DEF Cong
<1>6. k + l + m \in Int /\ d = (k + l + m) * RTO_HASH
  BY <1>1, <1>2, <1>3, <1>4, <1>5, Constants
<1>7. d % RTO_HASH = 0
  BY <1>2, <1>6, Constants
<1> QED
  BY <1>7 DEF d, a
-----------------------------------------------------------------------------
(* The operators of the wheel.                                             *)

\* A new stream and none are on no list.
LEMMA NewStream ==
    /\ New \in StreamRec /\ New.on_rto_idx = -1
    /\ Dead \in StreamRec /\ Dead.on_rto_idx = -1 /\ ~Dead.unacked
<1>1. Initial \in Int
  BY WheelAssumption
<1>2. PICK x \in SlotOrNone : x = -1
  BY DEF SlotOrNone
<1>3. New = [live |-> TRUE, established |-> FALSE, rto |-> Initial,
             estimate |-> Initial, nrtx |-> 0, unacked |-> FALSE,
             on_rto_idx |-> x, armed |-> 0]
  BY <1>2 DEF New
<1>4. New \in StreamRec /\ New.on_rto_idx = x /\ ~New.unacked
  BY <1>1, <1>3 DEF StreamRec
<1>5. Dead \in StreamRec /\ Dead.on_rto_idx = x /\ ~Dead.unacked
  BY <1>4 DEF Dead, StreamRec
<1> QED
  BY <1>2, <1>4, <1>5

\* What leaves the wheel and the marks of its streams alone keeps it right.
LEMMA SameWheel ==
    ASSUME NEW r, WheelOK(r), NEW q \in StoreRec,
           q.rto_list = r.rto_list, q.rto_list_cnt = r.rto_list_cnt,
           q.rto_now_idx = r.rto_now_idx, q.rto_now_ts = r.rto_now_ts,
           \A u \in Stream : q.of[u].on_rto_idx = r.of[u].on_rto_idx,
           \A u \in On(r) : q.of[u].armed = r.of[u].armed,
           Buried(q)
    PROVE  WheelOK(q) /\ On(q) = On(r)
<1>1. On(q) = On(r)
  BY DEF On
<1>2. Counted(q)
  BY <1>1 DEF WheelOK, Counted
<1>3. Listed(q)
  BY <1>1 DEF WheelOK, Listed, On
<1>4. Marked(q)
  <2> SUFFICES ASSUME NEW i \in Slot, NEW n \in 1 .. Len(r.rto_list[i])
               PROVE  q.of[r.rto_list[i][n]].on_rto_idx = i
    BY DEF Marked
  <2>1. r.rto_list[i][n] \in Stream
    BY DEF WheelOK, StoreRec
  <2> QED
    BY <2>1 DEF WheelOK, Marked
<1>5. Once(q)
  BY DEF WheelOK, Once
<1>6. Timed(q)
  BY <1>1 DEF WheelOK, Timed, On
<1> QED
  BY <1>1, <1>2, <1>3, <1>4, <1>5, <1>6 DEF WheelOK

\* An empty wheel may be rewound.
LEMMA RewoundOK ==
    ASSUME NEW r, WheelOK(r), NEW t \in Int
    PROVE  LET q == Rewound(r, t) IN WheelOK(q) /\ q.of = r.of /\ On(q) = On(r)
<1> DEFINE q == Rewound(r, t)
<1>1. CASE r.rto_list_cnt # 0
  BY <1>1 DEF Rewound
<1>2. CASE r.rto_list_cnt = 0
  <2>1. q = [r EXCEPT !.rto_now_idx = 0, !.rto_now_ts = t]
    BY <1>2 DEF Rewound
  <2>0. 0 \in Slot
    BY Constants DEF Slot
  <2>2. q \in StoreRec
    BY <2>0, <2>1 DEF WheelOK, StoreRec
  <2>3. /\ q.of = r.of /\ q.rto_list = r.rto_list /\ q.rto_list_cnt = r.rto_list_cnt
    BY <2>1 DEF WheelOK, StoreRec
  <2>4. On(r) = {}
    BY <1>2, FS_EmptySet DEF WheelOK, Counted
  <2>5. On(q) = On(r)
    BY <2>3 DEF On
  <2> HIDE DEF q
  <2>6. Counted(q) /\ Listed(q) /\ Timed(q)
    BY <2>3, <2>4, <2>5 DEF WheelOK, Counted, Listed, Timed
  <2>7. Marked(q) /\ Once(q) /\ Buried(q)
    BY <2>3 DEF WheelOK, Marked, Once, Buried
  <2> QED
    BY <2>2, <2>3, <2>5, <2>6, <2>7 DEF WheelOK, q
<1> QED
  BY <1>1, <1>2

\* A stream goes to the end of the list of its slot.
LEMMA AddOK ==
    ASSUME NEW r, WheelOK(r), NEW s \in Stream, NEW t \in Int, r.of[s].live
    PROVE  LET q == AddtoRTOList(r, s, t)
           IN  WheelOK(q) /\ On(q) = On(r) \cup {s}
<1> DEFINE p == Rewound(r, t)
           q == AddtoRTOList(r, s, t)
           i == Offset(p, t)
<1>1. WheelOK(p) /\ p.of = r.of /\ On(p) = On(r)
  BY RewoundOK
<1>2. i = (Diff(t, p.rto_now_ts) + p.rto_now_idx) % RTO_HASH
  BY DEF Offset
<1>3. q = IF p.of[s].on_rto_idx >= 0 THEN p
          ELSE [p EXCEPT !.of[s].on_rto_idx = i, !.of[s].armed = t,
                         !.rto_list[i] = Append(@, s), !.rto_list_cnt = @ + 1]
  BY DEF AddtoRTOList
<1> HIDE DEF p, q, i
<1>4. CASE p.of[s].on_rto_idx >= 0
  BY <1>1, <1>3, <1>4 DEF On, q
<1>5. CASE ~(p.of[s].on_rto_idx >= 0)
  <2>1. /\ p \in StoreRec /\ p.of \in [Stream -> StreamRec] /\ p.rto_list \in [Slot -> Seq(Stream)]
        /\ p.rto_list_cnt \in Int /\ p.rto_now_idx \in Slot /\ p.rto_now_ts \in Int
    BY <1>1 DEF WheelOK, StoreRec
  <2>2. p.rto_now_idx \in Int
    BY <2>1, Constants DEF Slot
  <2>3. i \in Slot /\ Cong(p.rto_now_ts + i - p.rto_now_idx, t)
    BY <1>2, <2>1, <2>2, OffsetTurns
  <2>4. i \in Int /\ i >= 0
    BY <2>3, Constants DEF Slot
  <2> DEFINE o == [p.of[s] EXCEPT !.on_rto_idx = i, !.armed = t]
             l == Append(p.rto_list[i], s)
  <2>5. /\ o \in StreamRec /\ o.on_rto_idx = i /\ o.armed = t
        /\ o.live = p.of[s].live
    BY <2>1, <2>3 DEF StreamRec, SlotOrNone
  <2>6. l \in Seq(Stream)
    BY <2>1, <2>3
  <2>7. q = [p EXCEPT !.of = [p.of EXCEPT ![s] = o],
                      !.rto_list = [p.rto_list EXCEPT ![i] = l],
                      !.rto_list_cnt = p.rto_list_cnt + 1]
    BY <1>3, <1>5, <2>1, <2>3 DEF StoreRec, StreamRec
  <2> HIDE DEF o
  <2>8. /\ q.of = [p.of EXCEPT ![s] = o]
        /\ q.rto_list = [p.rto_list EXCEPT ![i] = l]
        /\ q.rto_list_cnt = p.rto_list_cnt + 1
        /\ q.rto_now_idx = p.rto_now_idx /\ q.rto_now_ts = p.rto_now_ts
    BY <2>1, <2>7 DEF StoreRec
  <2>9. q \in StoreRec
    <3>1. [p.of EXCEPT ![s] = o] \in [Stream -> StreamRec]
      BY <2>1, <2>5
    <3>2. [p.rto_list EXCEPT ![i] = l] \in [Slot -> Seq(Stream)]
      BY <2>1, <2>6
    <3>3. p.rto_list_cnt + 1 \in Int
      BY <2>1
    <3> HIDE DEF l
    <3> QED
      BY <2>1, <2>7, <3>1, <3>2, <3>3 DEF StoreRec
  <2>10. /\ q.of[s].on_rto_idx = i /\ q.of[s].armed = t /\ q.of[s].live
         /\ \A u \in Stream \ {s} : q.of[u] = p.of[u]
         /\ q.rto_list[i] = l
         /\ \A j \in Slot \ {i} : q.rto_list[j] = p.rto_list[j]
    BY <1>1, <2>1, <2>3, <2>5, <2>8
  <2>19. /\ q.rto_list[i] = l
         /\ \A j \in Slot \ {i} : q.rto_list[j] = p.rto_list[j]
    BY <2>10
  <2>18. Buried(q)
    BY <1>1, <2>10 DEF WheelOK, Buried
  <2>11. On(q) = On(p) \cup {s} /\ s \notin On(p)
    BY <1>5, <2>4, <2>10 DEF On
  <2>12. Counted(q)
    BY <1>1, <2>8, <2>11, FS_AddElement DEF WheelOK, Counted
  <2>13. /\ Len(l) = Len(p.rto_list[i]) + 1 /\ Len(p.rto_list[i]) \in Nat
         /\ l[Len(l)] = s
         /\ \A n \in 1 .. Len(p.rto_list[i]) : l[n] = p.rto_list[i][n]
    BY <2>1, <2>3
  <2> HIDE DEF l
  <2>14. Listed(q)
    <3> SUFFICES ASSUME NEW u \in On(q)
                 PROVE  \E n \in 1 .. Len(q.rto_list[q.of[u].on_rto_idx]) :
                            q.rto_list[q.of[u].on_rto_idx][n] = u
      BY DEF Listed
    <3>1. CASE u = s
      BY <3>1, <2>10, <2>13
    <3>2. CASE u # s
      <4>1. u \in On(p) /\ u \in Stream /\ q.of[u].on_rto_idx = p.of[u].on_rto_idx
        BY <3>2, <2>10, <2>11 DEF On
      <4> DEFINE j == p.of[u].on_rto_idx
      <4>2. PICK n \in 1 .. Len(p.rto_list[j]) : p.rto_list[j][n] = u
        BY <1>1, <4>1 DEF WheelOK, Listed
      <4>3. j \in Slot
        BY <2>1, <4>1 DEF On, StreamRec, SlotOrNone
      <4> HIDE DEF j
      <4>4. n \in 1 .. Len(q.rto_list[j]) /\ q.rto_list[j][n] = u
        BY <2>10, <2>13, <4>2, <4>3
      <4> QED
        BY <4>1, <4>4 DEF j
    <3> QED
      BY <3>1, <3>2
  <2>15. Marked(q)
    <3> SUFFICES ASSUME NEW j \in Slot, NEW n \in 1 .. Len(q.rto_list[j])
                 PROVE  q.of[q.rto_list[j][n]].on_rto_idx = j
      BY DEF Marked
    <3>1. CASE j = i /\ n = Len(l)
      BY <3>1, <2>10, <2>13
    <3>2. CASE ~(j = i /\ n = Len(l))
      <4>1. n \in 1 .. Len(p.rto_list[j]) /\ q.rto_list[j][n] = p.rto_list[j][n]
        <5>1. CASE j # i
          BY <2>19, <5>1
        <5>2. CASE j = i
          <6>1. n \in 1 .. Len(l) /\ n # Len(l) /\ q.rto_list[j][n] = l[n]
            BY <2>19, <3>2, <5>2
          <6>2. n \in 1 .. Len(p.rto_list[i])
            BY <2>13, <6>1
          <6> QED
            BY <2>13, <5>2, <6>1, <6>2
        <5> QED
          BY <5>1, <5>2
      <4>2. p.rto_list[j][n] \in Stream
        BY <2>1, <4>1
      <4>3. p.of[p.rto_list[j][n]].on_rto_idx = j
        BY <1>1, <4>1 DEF WheelOK, Marked
      <4>4. j >= 0
        BY Constants DEF Slot
      <4>5. p.rto_list[j][n] # s
        BY <1>5, <4>3, <4>4
      <4> QED
        BY <2>10, <4>1, <4>2, <4>3, <4>5
    <3> QED
      BY <3>1, <3>2
  <2>16. Once(q)
    <3> SUFFICES ASSUME NEW j \in Slot, NEW n \in 1 .. Len(q.rto_list[j]),
                        NEW k \in 1 .. Len(q.rto_list[j]),
                        q.rto_list[j][n] = q.rto_list[j][k]
                 PROVE  n = k
      BY DEF Once
    <3>1. \A x \in 1 .. Len(p.rto_list[j]) : p.rto_list[j][x] # s
      <4>1. j >= 0
        BY Constants DEF Slot
      <4> QED
        BY <1>1, <1>5, <4>1 DEF WheelOK, Marked
    <3>2. \A x, y \in 1 .. Len(p.rto_list[j]) :
              p.rto_list[j][x] = p.rto_list[j][y] => x = y
      BY <1>1 DEF WheelOK, Once
    <3>3. CASE j # i
      BY <3>2, <3>3, <2>19
    <3>4. CASE j = i
      <4>1. n \in 1 .. Len(l) /\ k \in 1 .. Len(l) /\ l[n] = l[k]
        BY <2>19, <3>4
      <4>2. \A x \in 1 .. Len(l) : x = Len(l) \/ x \in 1 .. Len(p.rto_list[i])
        BY <2>13
      <4>3. CASE n = Len(l)
        BY <2>13, <3>1, <3>4, <4>1, <4>2, <4>3
      <4>4. CASE k = Len(l)
        BY <2>13, <3>1, <3>4, <4>1, <4>2, <4>4
      <4>5. CASE n # Len(l) /\ k # Len(l)
        BY <2>13, <3>2, <3>4, <4>1, <4>2, <4>5
      <4> QED
        BY <4>3, <4>4, <4>5
    <3> QED
      BY <3>3, <3>4
  <2>17. Timed(q)
    <3> SUFFICES ASSUME NEW u \in On(q)
                 PROVE  Cong(q.rto_now_ts + q.of[u].on_rto_idx - q.rto_now_idx, q.of[u].armed)
      BY DEF Timed
    <3>1. CASE u = s
      BY <3>1, <2>3, <2>8, <2>10
    <3>2. CASE u # s
      <4>1. u \in On(p) /\ q.of[u] = p.of[u]
        BY <3>2, <2>10, <2>11 DEF On
      <4> QED
        BY <1>1, <2>8, <4>1 DEF WheelOK, Timed
    <3> QED
      BY <3>1, <3>2
  <2> QED
    BY <1>1, <2>9, <2>11, <2>12, <2>14, <2>15, <2>16, <2>17, <2>18 DEF WheelOK, q
<1> QED
  BY <1>4, <1>5

\* The place of a member of a list, and what is left without it.
LEMMA Unlinked ==
    ASSUME NEW l \in Seq(Stream), NEW s \in Stream, NEW k \in 1 .. Len(l), l[k] = s,
           \A n, m \in 1 .. Len(l) : l[n] = l[m] => n = m,
           NEW c, c = RemoveAt(l, Place(l, s))
    PROVE  /\ Place(l, s) = k
           /\ c \in Seq(Stream) /\ Len(c) = Len(l) - 1
           /\ \A n \in 1 .. Len(c) : c[n] = IF n < k THEN l[n] ELSE l[n + 1]
<1>1. Place(l, s) = k
  BY DEF Place
<1>2. c = SubSeq(l, 1, k - 1) \o SubSeq(l, k + 1, Len(l))
  BY <1>1 DEF RemoveAt
<1>3. /\ SubSeq(l, 1, k - 1) \in Seq(Stream) /\ Len(SubSeq(l, 1, k - 1)) = k - 1
      /\ \A n \in 1 .. k - 1 : SubSeq(l, 1, k - 1)[n] = l[n]
  OBVIOUS
<1>4. /\ SubSeq(l, k + 1, Len(l)) \in Seq(Stream)
      /\ Len(SubSeq(l, k + 1, Len(l))) = Len(l) - k
      /\ \A n \in 1 .. Len(l) - k : SubSeq(l, k + 1, Len(l))[n] = l[n + k]
  OBVIOUS
<1> DEFINE a == SubSeq(l, 1, k - 1)  b == SubSeq(l, k + 1, Len(l))
<1>5. /\ a \in Seq(Stream) /\ b \in Seq(Stream) /\ c = a \o b
      /\ Len(a) = k - 1 /\ Len(b) = Len(l) - k
      /\ \A n \in 1 .. k - 1 : a[n] = l[n]
      /\ \A n \in 1 .. Len(l) - k : b[n] = l[n + k]
  BY <1>2, <1>3, <1>4
<1> HIDE DEF a, b
<1>6. /\ c \in Seq(Stream) /\ Len(c) = Len(l) - 1
      /\ \A n \in 1 .. Len(c) : c[n] = IF n < k THEN l[n] ELSE l[n + 1]
  <2>1. /\ c \in Seq(Stream) /\ Len(c) = Len(a) + Len(b)
        /\ \A n \in 1 .. Len(a) + Len(b) :
               c[n] = IF n <= Len(a) THEN a[n] ELSE b[n - Len(a)]
    <3>1. a \in Seq(Stream) /\ b \in Seq(Stream) /\ c = a \o b
      BY <1>5
    <3>2. /\ a \o b \in Seq(Stream) /\ Len(a \o b) = Len(a) + Len(b)
          /\ \A n \in 1 .. Len(a) + Len(b) :
                (a \o b)[n] = IF n <= Len(a) THEN a[n] ELSE b[n - Len(a)]
      BY <3>1, ConcatProperties
    <3> QED
      BY <3>1, <3>2
  <2>2. Len(l) \in Nat /\ k \in Int
    OBVIOUS
  <2>3. ASSUME NEW n \in 1 .. Len(c) PROVE c[n] = IF n < k THEN l[n] ELSE l[n + 1]
    <3>1. CASE n < k
      BY <1>5, <2>1, <2>2, <3>1
    <3>2. CASE ~(n < k)
      <4>1. n - Len(a) \in 1 .. Len(b) /\ c[n] = b[n - Len(a)]
        BY <1>5, <2>1, <2>2, <3>2
      <4>2. n - Len(a) + k = n + 1
        BY <1>5, <2>2
      <4> QED
        BY <1>5, <3>2, <4>1, <4>2
    <3> QED
      BY <3>1, <3>2
  <2> QED
    BY <1>5, <2>1, <2>2, <2>3
<1> QED
  BY <1>1, <1>6

\* A stream leaves the list of its slot.
LEMMA RemoveOK ==
    ASSUME NEW r, WheelOK(r), NEW s \in Stream
    PROVE  LET q == RemoveFromRTOList(r, s)
           IN  WheelOK(q) /\ On(q) = On(r) \ {s} /\ q.of[s].live = r.of[s].live
<1> DEFINE q == RemoveFromRTOList(r, s)
           i == r.of[s].on_rto_idx
<1>0. /\ r \in StoreRec /\ r.of \in [Stream -> StreamRec] /\ r.rto_list \in [Slot -> Seq(Stream)]
      /\ r.rto_list_cnt \in Int /\ r.rto_now_idx \in Slot /\ r.rto_now_ts \in Int
  BY DEF WheelOK, StoreRec
<1>1. i \in Slot \cup {-1}
  BY <1>0 DEF StreamRec, SlotOrNone
<1>2. CASE i < 0
  <2>1. ~(i >= 0)
    BY <1>1, <1>2, Constants DEF Slot
  <2> QED
    BY <1>2, <2>1 DEF RemoveFromRTOList, On
<1>3. CASE ~(i < 0)
  <2>1. i \in Slot /\ i \in Int /\ i >= 0 /\ s \in On(r)
    BY <1>1, <1>3, Constants DEF Slot, On
  <2> DEFINE l == r.rto_list[i]
             c == RemoveAt(l, Place(l, s))
             o == [r.of[s] EXCEPT !.on_rto_idx = -1, !.armed = 0]
  <2>2. l \in Seq(Stream) /\ Len(l) \in Nat
    BY <1>0, <2>1
  <2>3. \A n, m \in 1 .. Len(l) : l[n] = l[m] => n = m
    BY <2>1 DEF WheelOK, Once
  <2>4. PICK k \in 1 .. Len(l) : l[k] = s
    BY <2>1 DEF WheelOK, Listed
  <2>5. /\ c \in Seq(Stream) /\ Len(c) = Len(l) - 1
        /\ \A n \in 1 .. Len(c) : c[n] = IF n < k THEN l[n] ELSE l[n + 1]
    <3>1. c = RemoveAt(l, Place(l, s))
      OBVIOUS
    <3> HIDE DEF l, c
    <3> QED
      BY <2>2, <2>3, <2>4, <3>1, Unlinked
  <2>6. o \in StreamRec /\ o.on_rto_idx = -1 /\ o.live = r.of[s].live
    <3>1. r.of[s] \in StreamRec
      BY <1>0
    <3>2. -1 \in SlotOrNone
      BY DEF SlotOrNone
    <3>3. PICK x \in SlotOrNone, z \in Int : x = -1 /\ z = 0
      BY <3>2
    <3>4. o = [r.of[s] EXCEPT !.on_rto_idx = x, !.armed = z]
      BY <3>3
    <3>5. [r.of[s] EXCEPT !.on_rto_idx = x, !.armed = z] \in StreamRec
      BY <1>0 DEF StreamRec
    <3>6. /\ [r.of[s] EXCEPT !.on_rto_idx = x, !.armed = z].on_rto_idx = x
          /\ [r.of[s] EXCEPT !.on_rto_idx = x, !.armed = z].live = r.of[s].live
      BY <1>0 DEF StreamRec
    <3> QED
      BY <3>3, <3>4, <3>5, <3>6
  <2>7. q = [r EXCEPT !.of = [r.of EXCEPT ![s] = o],
                      !.rto_list = [r.rto_list EXCEPT ![i] = c],
                      !.rto_list_cnt = r.rto_list_cnt - 1]
    BY <1>0, <1>3, <2>1 DEF RemoveFromRTOList, StoreRec, StreamRec
  <2> HIDE DEF q, o, c
  <2>8. /\ q.of = [r.of EXCEPT ![s] = o]
        /\ q.rto_list = [r.rto_list EXCEPT ![i] = c]
        /\ q.rto_list_cnt = r.rto_list_cnt - 1
        /\ q.rto_now_idx = r.rto_now_idx /\ q.rto_now_ts = r.rto_now_ts
    BY <1>0, <2>7 DEF StoreRec
  <2>9. q \in StoreRec
    <3>1. [r.of EXCEPT ![s] = o] \in [Stream -> StreamRec]
      BY <1>0, <2>6
    <3>2. [r.rto_list EXCEPT ![i] = c] \in [Slot -> Seq(Stream)]
      BY <1>0, <2>5
    <3>3. r.rto_list_cnt - 1 \in Int
      BY <1>0
    <3> QED
      BY <1>0, <2>7, <3>1, <3>2, <3>3 DEF StoreRec
  <2>10. /\ q.of[s].on_rto_idx = -1 /\ q.of[s].live = r.of[s].live
         /\ \A u \in Stream \ {s} : q.of[u] = r.of[u]
         /\ q.rto_list[i] = c
         /\ \A j \in Slot \ {i} : q.rto_list[j] = r.rto_list[j]
    BY <1>0, <2>1, <2>6, <2>8
  <2>18. Buried(q)
    <3>1. r.of[s].live
      BY <2>1, NewStream DEF WheelOK, Buried
    <3> QED
      BY <2>10, <3>1 DEF WheelOK, Buried
  <2>11. On(q) = On(r) \ {s}
    BY <2>10 DEF On
  <2>12. Counted(q)
    BY <2>1, <2>8, <2>11, FS_RemoveElement DEF WheelOK, Counted
  <2>13. Listed(q)
    <3> SUFFICES ASSUME NEW u \in On(q)
                 PROVE  \E n \in 1 .. Len(q.rto_list[q.of[u].on_rto_idx]) :
                            q.rto_list[q.of[u].on_rto_idx][n] = u
      BY DEF Listed
    <3>1. u \in On(r) /\ u # s /\ u \in Stream /\ q.of[u].on_rto_idx = r.of[u].on_rto_idx
      BY <2>10, <2>11 DEF On
    <3> DEFINE j == r.of[u].on_rto_idx
    <3>2. PICK n \in 1 .. Len(r.rto_list[j]) : r.rto_list[j][n] = u
      BY <3>1 DEF WheelOK, Listed
    <3>3. j \in Slot
      BY <1>0, <3>1 DEF On, StreamRec, SlotOrNone
    <3> HIDE DEF j, i
    <3>4. CASE j # i
      BY <2>10, <3>1, <3>2, <3>3, <3>4 DEF j
    <3>5. CASE j = i
      <4>1. n # k
        BY <2>4, <3>1, <3>2, <3>5
      <4>2. CASE n < k
        <5>1. n \in 1 .. Len(c) /\ c[n] = u
          BY <2>2, <2>4, <2>5, <3>2, <3>5, <4>2
        <5> QED
          BY <2>10, <3>1, <3>5, <5>1 DEF j
      <4>3. CASE n > k
        <5>1. n - 1 \in 1 .. Len(c) /\ ~(n - 1 < k) /\ (n - 1) + 1 = n
          BY <2>2, <2>4, <2>5, <3>2, <3>5, <4>3
        <5>2. c[n - 1] = u
          BY <2>5, <3>2, <3>5, <5>1
        <5> QED
          BY <2>10, <3>1, <3>5, <5>1, <5>2 DEF j
      <4> QED
        BY <2>4, <3>2, <4>1, <4>2, <4>3
    <3> QED
      BY <3>4, <3>5
  <2>14. \A n \in 1 .. Len(c) : \E m \in 1 .. Len(l) :
             c[n] = l[m] /\ m # k /\ m = IF n < k THEN n ELSE n + 1
    <3> HIDE DEF l
    <3> QED
      BY <2>2, <2>4, <2>5
  <2>15. Marked(q)
    <3> SUFFICES ASSUME NEW j \in Slot, NEW n \in 1 .. Len(q.rto_list[j])
                 PROVE  q.of[q.rto_list[j][n]].on_rto_idx = j
      BY DEF Marked
    <3>1. PICK m \in 1 .. Len(r.rto_list[j]) :
              q.rto_list[j][n] = r.rto_list[j][m] /\ (j = i => m # k)
      BY ZenonT(60), <2>10, <2>14
    <3>2. r.of[r.rto_list[j][m]].on_rto_idx = j /\ r.rto_list[j][m] \in Stream
      BY <1>0 DEF WheelOK, Marked
    <3>3. r.rto_list[j][m] # s
      BY <2>3, <2>4, <3>1, <3>2
    <3> QED
      BY <2>10, <3>1, <3>2, <3>3
  <2>16. Once(q)
    <3> SUFFICES ASSUME NEW j \in Slot, NEW n \in 1 .. Len(q.rto_list[j]),
                        NEW m \in 1 .. Len(q.rto_list[j]),
                        q.rto_list[j][n] = q.rto_list[j][m]
                 PROVE  n = m
      BY DEF Once
    <3>1. CASE j # i
      BY <2>10, <3>1 DEF WheelOK, Once
    <3>2. CASE j = i
      <4>1. PICK x \in 1 .. Len(l) : c[n] = l[x] /\ x = IF n < k THEN n ELSE n + 1
        BY <2>10, <2>14, <3>2
      <4>2. PICK y \in 1 .. Len(l) : c[m] = l[y] /\ y = IF m < k THEN m ELSE m + 1
        BY <2>10, <2>14, <3>2
      <4>3. x = y
        BY ZenonT(60), <2>3, <2>10, <3>2, <4>1, <4>2
      <4>4. n \in Int /\ m \in Int
        OBVIOUS
      <4> QED
        BY <2>4, <4>1, <4>2, <4>3, <4>4
    <3> QED
      BY <3>1, <3>2
  <2>17. Timed(q)
    BY <2>8, <2>10, <2>11 DEF WheelOK, Timed, On
  <2> QED
    BY <2>9, <2>10, <2>11, <2>12, <2>13, <2>15, <2>16, <2>17, <2>18 DEF WheelOK, q
<1> QED
  BY <1>1, <1>2, <1>3, Constants DEF Slot

-----------------------------------------------------------------------------
(* What is done to a stream.                                               *)

\* Its other fields do not concern the wheel.
LEMMA TouchOK ==
    ASSUME NEW r, WheelOK(r), NEW s \in Stream, NEW o \in StreamRec,
           o.on_rto_idx = r.of[s].on_rto_idx,
           o.armed = r.of[s].armed \/ s \notin On(r), o.live \/ o = Dead,
           NEW q, q = [r EXCEPT !.of[s] = o]
    PROVE  WheelOK(q) /\ On(q) = On(r) /\ q.of[s] = o
<1>1. /\ r \in StoreRec /\ r.of \in [Stream -> StreamRec]
  BY DEF WheelOK, StoreRec
<1>2. /\ q.of = [r.of EXCEPT ![s] = o] /\ q.rto_list = r.rto_list
      /\ q.rto_list_cnt = r.rto_list_cnt
      /\ q.rto_now_idx = r.rto_now_idx /\ q.rto_now_ts = r.rto_now_ts
  BY <1>1 DEF StoreRec
<1>3. q \in StoreRec
  <2>1. [r.of EXCEPT ![s] = o] \in [Stream -> StreamRec]
    BY <1>1
  <2>2. q = [r EXCEPT !.of = [r.of EXCEPT ![s] = o]]
    BY <1>1 DEF StoreRec
  <2> QED
    BY <1>1, <2>1, <2>2 DEF StoreRec
<1>4. /\ \A u \in Stream : q.of[u].on_rto_idx = r.of[u].on_rto_idx
      /\ \A u \in On(r) : q.of[u].armed = r.of[u].armed
      /\ q.of[s] = o
  BY <1>1, <1>2 DEF On
<1>5. Buried(q)
  BY <1>1, <1>2 DEF WheelOK, Buried
<1> QED
  BY <1>2, <1>3, <1>4, <1>5, SameWheel

\* A packet that takes sequence numbers starts the timer.
LEMMA TransmitOK ==
    ASSUME NEW r, WheelOK(r), NEW s \in Stream, r.of[s].live, ts \in Int
    PROVE  WheelOK(Transmit(r, s)) /\ On(Transmit(r, s)) = On(r) \cup {s}
<1> DEFINE o == [r.of[s] EXCEPT !.unacked = TRUE]
           q == [r EXCEPT !.of[s] = o]
           t == (ts + r.of[s].rto) % W
<1>1. r \in StoreRec /\ r.of \in [Stream -> StreamRec]
  BY DEF WheelOK, StoreRec
<1>2. r.of[s] \in StreamRec /\ r.of[s].rto \in Int
  BY <1>1 DEF StreamRec
<1>3. /\ o \in StreamRec /\ o.on_rto_idx = r.of[s].on_rto_idx
      /\ o.armed = r.of[s].armed /\ o.live
  BY <1>2 DEF StreamRec
<1>4. ts + r.of[s].rto \in Int
  BY <1>2
<1>5. t \in Int
  BY <1>4, ModTime
<1>6. Transmit(r, s) = AddtoRTOList(q, s, t)
  BY <1>1 DEF Transmit, StoreRec
<1> HIDE DEF o, t
<1>7. WheelOK(q) /\ On(q) = On(r) /\ q.of[s].live
  BY <1>3, TouchOK
<1> HIDE DEF q
<1> QED
  BY <1>5, <1>6, <1>7, AddOK

\* A stream that is destroyed leaves the wheel.
LEMMA DestroyOK ==
    ASSUME NEW r, WheelOK(r), NEW s \in Stream
    PROVE  WheelOK(DestroyTCPStream(r, s)) /\ On(DestroyTCPStream(r, s)) = On(r) \ {s}
<1> DEFINE p == RemoveFromRTOList(r, s)
           q == [p EXCEPT !.of[s] = Dead]
<1>1. WheelOK(p) /\ On(p) = On(r) \ {s}
  BY RemoveOK
<1>2. DestroyTCPStream(r, s) = q
  BY DEF DestroyTCPStream
<1>3. Dead \in StreamRec /\ Dead.on_rto_idx = -1
  BY NewStream
<1> HIDE DEF p
<1>4. s \notin On(p)
  BY <1>1
<1>5. p.of[s].on_rto_idx = -1
  BY <1>1, <1>4, Constants DEF WheelOK, StoreRec, StreamRec, SlotOrNone, On, Slot
<1>6. WheelOK(q) /\ On(q) = On(p)
  BY <1>1, <1>3, <1>4, <1>5, TouchOK
<1> QED
  BY <1>1, <1>2, <1>6

\* The timer is started again or, with everything acknowledged, stopped.
LEMMA UpdateOK ==
    ASSUME NEW r, WheelOK(r), NEW s \in Stream, NEW all \in BOOLEAN,
           r.of[s].live, ts \in Int
    PROVE  WheelOK(UpdateRetransmissionTimer(r, s, all))
<1> DEFINE o == [r.of[s] EXCEPT !.nrtx = 0]
           p == [r EXCEPT !.of[s] = o]
           q == RemoveFromRTOList(p, s)
           t == (ts + q.of[s].rto) % W
           u == [q.of[s] EXCEPT !.unacked = FALSE]
<1>1. r \in StoreRec /\ r.of \in [Stream -> StreamRec] /\ r.of[s] \in StreamRec
  BY DEF WheelOK, StoreRec
<1>2. /\ o \in StreamRec /\ o.on_rto_idx = r.of[s].on_rto_idx
      /\ o.armed = r.of[s].armed /\ o.live
  BY <1>1 DEF StreamRec
<1>3. UpdateRetransmissionTimer(r, s, all) =
        IF all THEN [q EXCEPT !.of[s].unacked = FALSE] ELSE AddtoRTOList(q, s, t)
  BY <1>1 DEF UpdateRetransmissionTimer, StoreRec
<1> HIDE DEF o
<1>4. WheelOK(p) /\ p.of[s].live
  BY <1>2, TouchOK
<1> HIDE DEF p
<1>5. WheelOK(q) /\ q.of[s].live
  BY <1>4, RemoveOK
<1> HIDE DEF q
<1>6. q \in StoreRec /\ q.of \in [Stream -> StreamRec] /\ q.of[s] \in StreamRec
  BY <1>5 DEF WheelOK, StoreRec
<1>7. CASE all
  <2>1. /\ u \in StreamRec /\ u.on_rto_idx = q.of[s].on_rto_idx
        /\ u.armed = q.of[s].armed /\ u.live
    BY <1>5, <1>6 DEF StreamRec
  <2>2. [q EXCEPT !.of[s].unacked = FALSE] = [q EXCEPT !.of[s] = u]
    BY <1>6 DEF StoreRec
  <2> HIDE DEF u
  <2>3. WheelOK([q EXCEPT !.of[s] = u])
    BY <1>5, <2>1, TouchOK
  <2> QED
    BY <1>3, <1>7, <2>2, <2>3
<1>8. CASE ~all
  <2>1. ts + q.of[s].rto \in Int
    BY <1>6 DEF StreamRec
  <2>2. t \in Int
    BY <2>1, ModTime
  <2> HIDE DEF t
  <2> QED
    BY <1>3, <1>5, <1>8, <2>2, AddOK
<1> QED
  BY <1>7, <1>8

\* A measured round trip concerns the next timeout only.
LEMMA MeasureOK ==
    ASSUME NEW r, WheelOK(r), NEW s \in Stream, r.of[s].live, NEW e \in Int
    PROVE  LET q == [r EXCEPT !.of[s].established = TRUE, !.of[s].estimate = e,
                              !.of[s].rto = e]
           IN  WheelOK(q) /\ q.of[s].live
<1> DEFINE o == [r.of[s] EXCEPT !.established = TRUE, !.estimate = e, !.rto = e]
           q == [r EXCEPT !.of[s] = o]
<1>1. r \in StoreRec /\ r.of \in [Stream -> StreamRec] /\ r.of[s] \in StreamRec
  BY DEF WheelOK, StoreRec
<1>2. q = [r EXCEPT !.of[s].established = TRUE, !.of[s].estimate = e, !.of[s].rto = e]
  BY <1>1 DEF StoreRec
<1>3. /\ o \in StreamRec /\ o.on_rto_idx = r.of[s].on_rto_idx
      /\ o.armed = r.of[s].armed /\ o.live
  BY <1>1 DEF StreamRec
<1> HIDE DEF o
<1>4. WheelOK(q) /\ q.of[s].live
  BY <1>3, TouchOK
<1> QED
  BY <1>2, <1>4

-----------------------------------------------------------------------------
(* How far a timeout backs off.                                            *)

\* Every set of natural numbers that is not empty has a least one.
LEMMA Least ==
    ASSUME NEW T, T \subseteq Nat, T # {}
    PROVE  \E n \in T : \A k \in T : n <= k
<1>1. PICK n \in T : \A k \in T : ~(<<k, n>> \in OpToRel(<, Nat))
  BY NatLessThanWellFounded, WFMin, Zenon
<1>2. \A k \in T : ~(k < n)
  BY <1>1, Zenon DEF OpToRel
<1> QED
  BY <1>2

\* f is Power up to n.
Powers(f, n) == f = [i \in 0 .. n |-> IF i = 0 THEN 1 ELSE 2 * f[i - 1]]

LEMMA PowersExist ==
    ASSUME NEW n \in Nat
    PROVE  \E f : Powers(f, n)
<1> DEFINE T == {k \in Nat : ~ \E f : Powers(f, k)}
<1>1. SUFFICES ASSUME T # {} PROVE FALSE
  OBVIOUS
<1>2. PICK k \in T : \A j \in T : k <= j
  <2> HIDE DEF T
  <2>1. T \subseteq Nat
    BY DEF T
  <2> QED
    BY <1>1, <2>1, Least
<1>3. Powers([i \in 0 .. 0 |-> 1], 0)
  BY DEF Powers
<1>4. k # 0 /\ k \in Nat /\ k - 1 \in Nat
  BY <1>2, <1>3
<1>5. PICK f : Powers(f, k - 1)
  BY <1>2, <1>4
<1> DEFINE g == [i \in 0 .. k |-> IF i = k THEN 2 * f[k - 1] ELSE f[i]]
<1>6. \A i \in 0 .. k : g[i] = IF i = 0 THEN 1 ELSE 2 * g[i - 1]
  <2> SUFFICES ASSUME NEW i \in 0 .. k
               PROVE  g[i] = IF i = 0 THEN 1 ELSE 2 * g[i - 1]
    OBVIOUS
  <2>1. CASE i = k
    BY <2>1, <1>4
  <2>2. CASE i # k
    BY <2>2, <1>4, <1>5 DEF Powers
  <2> QED
    BY <2>1, <2>2
<1>7. Powers(g, k)
  BY <1>6 DEF Powers
<1> QED
  BY <1>2, <1>7

LEMMA PowerIs ==
    \A n \in 0 .. MaxBackoff : Power[n] = IF n = 0 THEN 1 ELSE 2 * Power[n - 1]
<1>1. Power = CHOOSE f : Powers(f, MaxBackoff)
  BY DEF Power, Powers
<1>2. Powers(Power, MaxBackoff)
  <2>1. \E f : Powers(f, MaxBackoff)
    BY WheelAssumption, PowersExist
  <2> QED
    BY <1>1, <2>1, Zenon
<1> QED
  BY <1>2 DEF Powers

\* What is true at 0 and passed on to the next is true up to MaxBackoff.
LEMMA PowerPositive ==
    \A n \in 0 .. MaxBackoff : Power[n] \in Nat /\ Power[n] >= 1
<1> DEFINE T == {n \in 0 .. MaxBackoff : ~(Power[n] \in Nat /\ Power[n] >= 1)}
<1>1. SUFFICES ASSUME T # {} PROVE FALSE
  OBVIOUS
<1>2. PICK k \in T : \A j \in T : k <= j
  <2> HIDE DEF T
  <2>1. T \subseteq Nat
    BY DEF T
  <2> QED
    BY <1>1, <2>1, Least
<1>3. k # 0
  BY <1>2, PowerIs, WheelAssumption
<1>4. k - 1 \in 0 .. MaxBackoff /\ k - 1 \notin T
  BY <1>2, <1>3, WheelAssumption
<1>5. Power[k - 1] \in Nat /\ Power[k - 1] >= 1
  BY <1>4
<1>6. Power[k] = 2 * Power[k - 1]
  BY <1>2, <1>3, PowerIs
<1> QED
  BY <1>2, <1>5, <1>6

LEMMA BackoffInt ==
    ASSUME NEW o \in StreamRec
    PROVE  Backoff(o) \in Int
<1>1. o.estimate \in Int /\ o.nrtx \in Nat /\ o.rto \in Int /\ MaxBackoff \in Nat
  BY WheelAssumption DEF StreamRec
<1> DEFINE n == Min({o.nrtx, MaxBackoff})
<1>2. n \in 0 .. MaxBackoff
  <2>1. \E x \in {o.nrtx, MaxBackoff} : \A y \in {o.nrtx, MaxBackoff} : x <= y
    BY <1>1
  <2> QED
    BY <1>1, <2>1 DEF Min
<1>3. Power[n] \in Nat
  BY <1>2, PowerPositive
<1>4. o.estimate * Power[n] \in Int
  <2> DEFINE p == Power[n]
  <2>1. p \in Nat
    BY <1>3
  <2> HIDE DEF p
  <2>2. o.estimate * p \in Int
    BY <1>1, <2>1
  <2> QED
    BY <2>2 DEF p
<1>5. 2 * o.rto \in Int
  BY <1>1
<1> QED
  BY ZenonT(60), <1>1, <1>4, <1>5 DEF Backoff

\* A timeout: the stream is given up, sent again or put in line for it.
LEMMA HandleOK ==
    ASSUME NEW r, WheelOK(r), NEW s \in Stream, NEW now \in BOOLEAN,
           r.of[s].live, ts \in Int
    PROVE  /\ WheelOK(HandleRTO(r, s, now))
           /\ On(r) \ {s} \subseteq On(HandleRTO(r, s, now))
<1>1. CASE r.of[s].nrtx = MaxRtx
  BY <1>1, DestroyOK DEF HandleRTO
<1>2. CASE r.of[s].nrtx # MaxRtx
  <2> DEFINE o == [r.of[s] EXCEPT !.nrtx = @ + 1]
             u == [o EXCEPT !.rto = Backoff(o)]
             q == [r EXCEPT !.of[s] = u]
  <2>1. r.of[s] \in StreamRec /\ r.of[s].nrtx \in Nat
    BY DEF WheelOK, StoreRec, StreamRec
  <2>2. PICK n \in Nat : n = r.of[s].nrtx + 1
    BY <2>1
  <2>3. o = [r.of[s] EXCEPT !.nrtx = n]
    BY <2>1, <2>2
  <2>4. /\ o \in StreamRec /\ o.on_rto_idx = r.of[s].on_rto_idx
        /\ o.armed = r.of[s].armed /\ o.live
    BY <2>1, <2>3 DEF StreamRec
  <2>5. HandleRTO(r, s, now) = IF now THEN Transmit(q, s) ELSE q
    BY <1>2 DEF HandleRTO
  <2> HIDE DEF o
  <2>6. Backoff(o) \in Int
    BY <2>4, BackoffInt
  <2>7. /\ u \in StreamRec /\ u.on_rto_idx = r.of[s].on_rto_idx
        /\ u.armed = r.of[s].armed /\ u.live
    BY <2>4, <2>6 DEF StreamRec
  <2> HIDE DEF u
  <2>8. WheelOK(q) /\ On(q) = On(r) /\ q.of[s].live
    BY <2>7, TouchOK
  <2> HIDE DEF q
  <2>9. CASE now
    BY <2>5, <2>8, <2>9, TransmitOK
  <2>10. CASE ~now
    BY <2>5, <2>8, <2>10
  <2> QED
    BY <2>9, <2>10
<1> QED
  BY <1>1, <1>2

-----------------------------------------------------------------------------
(* The rounds.                                                             *)

LEMMA InitInv == Init => WheelInv
<1> SUFFICES ASSUME Init PROVE WheelInv
  OBVIOUS
<1>1. st.of = [s \in Stream |-> Dead] /\ st.rto_list = [i \in Slot |-> <<>>]
  BY DEF Init
<1>2. 0 \in Slot
  BY Constants DEF Slot
<1>3. st \in StoreRec
  <2>1. [s \in Stream |-> Dead] \in [Stream -> StreamRec]
    BY NewStream
  <2>2. [i \in Slot |-> <<>>] \in [Slot -> Seq(Stream)]
    OBVIOUS
  <2> QED
    BY <1>2, <2>1, <2>2 DEF Init, StoreRec
<1>4. On(st) = {}
  BY <1>1, NewStream DEF On
<1>5. Counted(st)
  BY <1>4, FS_EmptySet DEF Counted, Init
<1>6. Listed(st) /\ Timed(st)
  BY <1>4 DEF Listed, Timed
<1>7. Marked(st) /\ Once(st) /\ Buried(st)
  BY <1>1 DEF Marked, Once, Buried
<1> QED
  BY <1>3, <1>5, <1>6, <1>7 DEF Init, WheelInv, WheelOK

\* The walk enters a slot at the head of its list.
LEMMA SlotsOK ==
    ASSUME NEW r, WheelOK(r), Slots(r)
    PROVE  phase' = "check" /\ walk' # None => walk' \in On(r)
<1> SUFFICES ASSUME phase' = "check", walk' # None
             PROVE  walk' \in On(r)
  OBVIOUS
<1> DEFINE list == r.rto_list[r.rto_now_idx]
<1>1. walk' = IF list = <<>> THEN None ELSE Head(list)
  BY DEF Slots
<1>2. list # <<>> /\ walk' = Head(list)
  BY <1>1
<1>3. r.rto_now_idx \in Slot /\ list \in Seq(Stream)
  BY DEF WheelOK, StoreRec
<1>4. Len(list) \in Nat /\ Len(list) # 0 /\ walk' = list[1] /\ list[1] \in Stream
  <2> HIDE DEF list
  <2> QED
    BY <1>2, <1>3
<1>5. r.of[list[1]].on_rto_idx = r.rto_now_idx
  BY <1>3, <1>4 DEF WheelOK, Marked
<1>6. r.rto_now_idx >= 0
  BY <1>3, Constants DEF Slot
<1> QED
  BY <1>4, <1>5, <1>6 DEF On

\* The next stream of the walk is another one, on the same list.
LEMMA NextStream ==
    ASSUME WheelOK(st), NEW s \in On(st)
    PROVE  Next1(s) = None \/ Next1(s) \in On(st) \ {s}
<1> DEFINE j == st.of[s].on_rto_idx
           l == st.rto_list[j]
<1>1. s \in Stream /\ j \in Slot /\ j >= 0
  BY Constants DEF On, WheelOK, StoreRec, StreamRec, SlotOrNone, Slot
<1>2. l \in Seq(Stream) /\ Len(l) \in Nat
  BY <1>1 DEF WheelOK, StoreRec
<1>3. \A n, k \in 1 .. Len(l) : l[n] = l[k] => n = k
  BY <1>1 DEF WheelOK, Once
<1>4. PICK k \in 1 .. Len(l) : l[k] = s
  BY DEF WheelOK, Listed
<1>5. Next1(s) = IF Place(l, s) = Len(l) THEN None ELSE l[Place(l, s) + 1]
  BY DEF Next1
<1>6. \A n \in 1 .. Len(l) : st.of[l[n]].on_rto_idx = j
  BY <1>1 DEF WheelOK, Marked
<1> HIDE DEF l, j
<1>7. Place(l, s) = k
  BY <1>3, <1>4 DEF Place
<1>8. CASE k = Len(l)
  BY <1>5, <1>7, <1>8
<1>9. CASE k # Len(l)
  <2>1. k + 1 \in 1 .. Len(l) /\ k + 1 # k /\ Next1(s) = l[k + 1]
    BY <1>2, <1>5, <1>7, <1>9
  <2>2. l[k + 1] \in Stream /\ l[k + 1] # s /\ st.of[l[k + 1]].on_rto_idx = j
    BY <1>2, <1>3, <1>4, <1>6, <2>1
  <2> QED
    BY <1>1, <2>1, <2>2 DEF On
<1> QED
  BY <1>8, <1>9

\* The step to the next slot.
LEMMA AdvanceOK ==
    ASSUME NEW r, WheelOK(r)
    PROVE  WheelOK(NextSlot(r)) /\ On(NextSlot(r)) = On(r)
<1> DEFINE q == NextSlot(r)
           now1 == (r.rto_now_ts + 1) % W
           idx1 == (r.rto_now_idx + 1) % RTO_HASH
<1>1. /\ r \in StoreRec /\ r.rto_now_idx \in Slot /\ r.rto_now_ts \in Int
      /\ r.of \in [Stream -> StreamRec]
  BY DEF WheelOK, StoreRec
<1>2. r.rto_now_idx \in Int
  BY <1>1, Constants DEF Slot
<1>3. now1 \in Int /\ idx1 \in Slot
  <2>1. r.rto_now_ts + 1 \in Int /\ r.rto_now_idx + 1 \in Int
    BY <1>1, <1>2
  <2> QED
    BY <2>1, ModTime, ModHash
<1>4. q = [r EXCEPT !.rto_now_idx = idx1, !.rto_now_ts = now1]
  BY DEF NextSlot
<1>a. now1 = (r.rto_now_ts + 1) % W /\ idx1 = (r.rto_now_idx + 1) % RTO_HASH
  OBVIOUS
<1> HIDE DEF q, now1, idx1
<1>5. q \in StoreRec
  BY <1>1, <1>3, <1>4 DEF StoreRec
<1>6. /\ q.of = r.of /\ q.rto_list = r.rto_list /\ q.rto_list_cnt = r.rto_list_cnt
      /\ q.rto_now_idx = idx1 /\ q.rto_now_ts = now1
  BY <1>1, <1>4 DEF StoreRec
<1>7. On(q) = On(r)
  BY <1>6 DEF On
<1>8. Counted(q) /\ Listed(q) /\ Marked(q) /\ Once(q) /\ Buried(q)
  BY <1>6, <1>7 DEF WheelOK, Counted, Listed, Marked, Once, Buried
<1>9. Timed(q)
  <2> SUFFICES ASSUME NEW s \in On(r)
               PROVE  Cong(now1 + r.of[s].on_rto_idx - idx1, r.of[s].armed)
    BY <1>6, <1>7 DEF Timed
  <2>1. Cong(r.rto_now_ts + r.of[s].on_rto_idx - r.rto_now_idx, r.of[s].armed)
    BY DEF WheelOK, Timed
  <2>2. r.of[s].on_rto_idx \in Int /\ r.of[s].armed \in Int
    BY <1>1, Constants DEF On, StreamRec, SlotOrNone, Slot
  <2> QED
    BY <1>1, <1>2, <1>a, <2>1, <2>2, NextTurns
<1> QED
  BY <1>5, <1>7, <1>8, <1>9 DEF WheelOK, q

\* What a step has to show of the store it leaves.
LEMMA After ==
    ASSUME NEW r, st' = r, WheelOK(r), ts' \in Int,
           phase' = "check" /\ walk' # None => walk' \in On(r)
    PROVE  WheelInv'
BY DEF WheelInv, WheelOK, Buried, Counted, Listed, Marked, Once, Timed, On

LEMMA StepInv == WheelInv /\ [Next]_vars => WheelInv'
<1> SUFFICES ASSUME WheelInv, [Next]_vars
             PROVE  WheelInv'
  OBVIOUS
<1>0. WheelOK(st) /\ ts \in Int
  BY DEF WheelInv
<1>1. CASE Tick
  <2>1. PICK d \in 0 .. MaxGap : ts' = (ts + d) % W
    BY <1>1 DEF Tick
  <2>2. ts + d \in Int
    BY <1>0
  <2>3. ts' \in Int
    BY <2>1, <2>2, ModTime
  <2> QED
    BY <1>0, <1>1, <2>3, After DEF Tick
<1>2. CASE CheckRtmTimeout
  <2>1. st' = st /\ ts' = ts
    BY <1>2 DEF CheckRtmTimeout
  <2>2. phase' = "check" /\ walk' # None => walk' \in On(st)
    BY <1>0, <1>2, SlotsOK DEF CheckRtmTimeout
  <2> QED
    BY <1>0, <2>1, <2>2, After
<1>3. CASE Fire
  <2>1. walk \in On(st) /\ walk \in Stream
    BY <1>3 DEF Fire, WheelInv, On
  <2>2. PICK now \in BOOLEAN : st' = HandleRTO(RemoveFromRTOList(st, walk), walk, now)
    BY <1>3 DEF Fire
  <2> DEFINE p == RemoveFromRTOList(st, walk)
  <2>3. WheelOK(p) /\ On(p) = On(st) \ {walk} /\ p.of[walk].live
    <3>1. st.of[walk].live
      BY <1>0, <2>1, NewStream DEF WheelOK, Buried, On
    <3> QED
      BY <1>0, <2>1, <3>1, RemoveOK
  <2>4. /\ WheelOK(HandleRTO(p, walk, now))
        /\ On(p) \ {walk} \subseteq On(HandleRTO(p, walk, now))
    <3> HIDE DEF p
    <3> QED
      BY <1>0, <2>1, <2>3, HandleOK
  <2>5. walk' = Next1(walk) /\ ts' = ts
    BY <1>3 DEF Fire
  <2>6. walk' = None \/ walk' \in On(st) \ {walk}
    BY <1>0, <2>1, <2>5, NextStream
  <2>7. walk' # None => walk' \in On(HandleRTO(p, walk, now))
    BY <2>3, <2>4, <2>6
  <2> QED
    BY <1>0, <2>2, <2>4, <2>5, <2>7, After
<1>4. CASE Enough
  BY <1>0, <1>4, After DEF Enough
<1>5. CASE Advance
  <2>1. st' = NextSlot(st) /\ ts' = ts /\ Slots(st')
    BY <1>5 DEF Advance
  <2>2. WheelOK(NextSlot(st))
    BY <1>0, AdvanceOK
  <2>3. phase' = "check" /\ walk' # None => walk' \in On(NextSlot(st))
    BY <2>1, <2>2, SlotsOK
  <2> QED
    BY <1>0, <2>1, <2>2, <2>3, After
<1>6. ASSUME NEW s \in Stream, Acked(s)
      PROVE  WheelInv'
  <2>1. PICK e \in Estimates, all \in BOOLEAN :
            st' = UpdateRetransmissionTimer(
                    [st EXCEPT !.of[s].established = TRUE, !.of[s].estimate = e,
                               !.of[s].rto = e], s, all)
    BY <1>6 DEF Acked
  <2> DEFINE q == [st EXCEPT !.of[s].established = TRUE, !.of[s].estimate = e,
                             !.of[s].rto = e]
  <2>2. st.of[s].live /\ e \in Int
    BY <1>0, <1>6, NewStream, WheelAssumption DEF WheelOK, Buried, Acked
  <2>3. st' = UpdateRetransmissionTimer(q, s, all)
    BY <2>1
  <2>4. WheelOK(q) /\ q.of[s].live
    BY <1>0, <2>2, MeasureOK
  <2> HIDE DEF q
  <2>6. WheelOK(UpdateRetransmissionTimer(q, s, all))
    BY <1>0, <2>4, UpdateOK
  <2>7. ts' = ts /\ phase' # "check"
    BY <1>6 DEF Acked
  <2> QED
    BY <1>0, <2>3, <2>6, <2>7, After
<1>7. ASSUME NEW s \in Stream, Open(s)
      PROVE  WheelInv'
  <2> DEFINE p == [st EXCEPT !.of[s] = New]
  <2>1. st' = Transmit(p, s) /\ ts' = ts /\ phase' # "check"
    BY <1>7 DEF Open
  <2>2. st.of[s] = Dead
    BY <1>0, <1>7 DEF WheelOK, Buried, Open
  <2>3. s \notin On(st) /\ New.live
    BY <2>2, NewStream DEF On, New
  <2>4. WheelOK(p) /\ p.of[s].live
    BY <1>0, <2>2, <2>3, NewStream, TouchOK
  <2> HIDE DEF p
  <2>5. WheelOK(Transmit(p, s))
    BY <1>0, <2>4, TransmitOK
  <2> QED
    BY <1>0, <2>1, <2>5, After
<1>8. ASSUME NEW s \in Stream, Destroy(s)
      PROVE  WheelInv'
  <2>1. st' = DestroyTCPStream(st, s) /\ ts' = ts /\ phase' # "check"
    BY <1>8 DEF Destroy
  <2>2. WheelOK(DestroyTCPStream(st, s))
    BY <1>0, DestroyOK
  <2> QED
    BY <1>0, <2>1, <2>2, After
<1>9. ASSUME NEW s \in Stream, Send(s)
      PROVE  WheelInv'
  <2>1. st' = Transmit(st, s) /\ ts' = ts /\ phase' # "check"
    BY <1>9 DEF Send
  <2>2. WheelOK(Transmit(st, s))
    BY <1>0, <1>9, TransmitOK DEF Send
  <2> QED
    BY <1>0, <2>1, <2>2, After
<1>10. CASE UNCHANGED vars
  BY <1>0, <1>10, After DEF vars, WheelInv
<1> QED
  BY <1>1, <1>2, <1>3, <1>4, <1>5, <1>6, <1>7, <1>8, <1>9, <1>10 DEF Next

\* Count, lists, indices and times of the wheel agree in every round, and the
\* walk of CheckRtmTimeout never follows the link of a stream that was taken
\* off its list, whatever HandleRTO puts back or removes meanwhile.
THEOREM WheelInvariant == Spec => []WheelInv
BY InitInv, StepInv, PTL DEF Spec

\* AddtoRTOList and CheckRtmTimeout: a stream is met at its timeout or whole
\* turns away from it, for every number of streams and slots.
THEOREM SlotsAreTimes == Spec => []SlotIsTime
<1>1. WheelInv => SlotIsTime
  <2> SUFFICES ASSUME WheelInv, NEW s \in Waiting
               PROVE  Diff(st.rto_now_ts + Ahead(s), st.of[s].armed) % RTO_HASH = 0
    BY DEF SlotIsTime
  <2>1. s \in On(st) /\ s \in Stream
    BY DEF Waiting, On
  <2>2. Cong(st.rto_now_ts + st.of[s].on_rto_idx - st.rto_now_idx, st.of[s].armed)
    BY <2>1 DEF WheelInv, WheelOK, Timed
  <2>3. /\ st.rto_now_ts \in Int /\ st.rto_now_idx \in Int
        /\ st.of[s].on_rto_idx \in Int /\ st.of[s].armed \in Int
    BY <2>1, Constants DEF WheelInv, WheelOK, StoreRec, StreamRec, SlotOrNone, Slot
  <2> QED
    BY <2>2, <2>3, TimedSlot DEF Ahead
<1> QED
  BY <1>1, WheelInvariant, PTL

-----------------------------------------------------------------------------
(* In time.  A round that does not stop at max_concurrency leaves the      *)
(* wheel ahead of the present, by at most the largest timeout.             *)

\* The ticks by which the wheel, and the timeout of a stream, are ahead of t.
Lead(r, t) == Diff(r.rto_now_ts, t)
Left(r, s, t) == Diff(r.of[s].armed, t)

\* The slots from the wheel to the stream
Gap(r, s) == (r.of[s].on_rto_idx - r.rto_now_idx) % RTO_HASH

InTime(r, s, t) ==
    /\ Lead(r, t) + Gap(r, s) - Left(r, s, t) <= Turns * RTO_HASH
    /\ Left(r, s, t) <= r.of[s].rto

\* A timeout is at most the largest: as long as no round trip is measured, it
\* was doubled once for every retransmission.
RtoOK(o) ==
    /\ o.nrtx >= 0 /\ 1 <= o.rto /\ o.rto <= MaxRto
    /\ IF o.established THEN o.estimate \in Estimates
       ELSE o.rto <= Initial * Power[Min({o.nrtx, MaxBackoff})]

\* All but the streams in X
OnTime(r, t, X) ==
    /\ On(r) # {} => Lead(r, t) <= MaxRto + 1
    /\ \A s \in Stream : RtoOK(r.of[s])
    /\ \A s \in On(r) \ X : InTime(r, s, t)

Low(r, t, low) == On(r) # {} => low <= Lead(r, t)

\* The walk is at the head of its slot; behind it, what it put there itself.
WalkAt(r, t, w) ==
    /\ 1 - MaxGap <= Lead(r, t) /\ Lead(r, t) <= MaxRto
    /\ IF w # None
       THEN /\ Lead(r, t) <= 0
            /\ r.rto_list[r.rto_now_idx] # <<>>
            /\ w = Head(r.rto_list[r.rto_now_idx])
       ELSE \A s \in On(r) : Gap(r, s) = 0 => Lead(r, t) <= Left(r, s, t)

TimeInv ==
    /\ OnTime(st, ts, {})
    /\ phase = "send" => Low(st, ts, 1)
    /\ phase = "receive" => Low(st, ts, 1 - MaxGap)
    /\ phase = "check" => WalkAt(st, ts, walk)
-----------------------------------------------------------------------------
(* Signed differences, exactly.                                            *)

\* The timestamps do not wrap while a timeout is waited for.
TimeIsLong == 2 * (Turns * RTO_HASH + MaxGap + 2) <= W

\* a and b are whole periods of the timestamps apart.
CongW(a, b) == \E k \in Int : a - b = k * W

\* Half a period, the range of signed differences
HalfW == W \div 2

LEMMA Halves ==
    HalfW \in Int /\ W = 2 * HalfW /\ HalfW > 0
<1>1. RTO_HASH \in Int /\ RTO_HASH > 0 /\ W \in Int /\ W > 0 /\ W % (2 * RTO_HASH) = 0
  BY WheelAssumption
<1> DEFINE d == W \div (2 * RTO_HASH)
<1>2. d \in Int /\ W = (2 * RTO_HASH) * d
  BY <1>1
<1> HIDE DEF d
<1> DEFINE e == RTO_HASH * d
<1>3. e \in Int /\ W = 2 * e
  BY <1>1, <1>2
<1> HIDE DEF e
<1>4. W \div 2 = e
  BY <1>3
<1> QED
  BY <1>1, <1>3, <1>4 DEF HalfW

\* Two numbers less than n apart that are whole multiples of n apart are one.
LEMMA SameMod ==
    ASSUME NEW n \in Int, n > 0, NEW x \in Int, NEW y \in Int, NEW k \in Int,
           x - y = k * n, -n < x - y, x - y < n
    PROVE  x = y
<1>1. CASE k >= 1
  <2>1. k * n >= n
    BY <1>1
  <2> QED
    BY <2>1
<1>2. CASE k <= -1
  <2>1. k * n <= -n
    BY <1>2
  <2> QED
    BY <2>1
<1>3. CASE k = 0
  BY <1>3
<1> QED
  BY <1>1, <1>2, <1>3

LEMMA DiffRange ==
    ASSUME NEW a \in Int, NEW b \in Int
    PROVE  /\ Diff(a, b) \in Int /\ -HalfW <= Diff(a, b) /\ Diff(a, b) < HalfW
           /\ CongW(Diff(a, b), a - b)
<1> DEFINE x == a - b + HalfW  q == x \div W  y == x % W
<1>1. x \in Int
  BY Halves
<1>2. q \in Int /\ y \in Int /\ 0 <= y /\ y < W /\ x = W * q + y
  <2> HIDE DEF x
  <2> QED
    BY <1>1, Constants
<1>3. Diff(a, b) = y - HalfW
  BY DEF Diff, HalfW
<1> HIDE DEF y, q
<1>4. (y - HalfW) - (a - b) = (-q) * W /\ -q \in Int
  BY <1>2, Halves
<1>5. CongW(y - HalfW, a - b)
  BY <1>4 DEF CongW
<1>6. y - HalfW \in Int /\ -HalfW <= y - HalfW /\ y - HalfW < HalfW
  BY <1>2, Halves
<1> QED
  BY <1>3, <1>5, <1>6

\* A signed difference is the number in range that is right up to periods.
LEMMA DiffIs ==
    ASSUME NEW a \in Int, NEW b \in Int, NEW x \in Int, -HalfW <= x, x < HalfW,
           CongW(x, a - b)
    PROVE  Diff(a, b) = x
<1> DEFINE d == Diff(a, b)
<1>1. /\ d \in Int /\ -HalfW <= d /\ d < HalfW /\ CongW(d, a - b)
  BY DiffRange
<1> HIDE DEF d
<1>2. PICK k \in Int : x - (a - b) = k * W
  BY DEF CongW
<1>3. PICK l \in Int : d - (a - b) = l * W
  BY <1>1 DEF CongW
<1>4. d - x = (l - k) * W /\ l - k \in Int
  BY <1>1, <1>2, <1>3, Halves
<1>5. d = x
  BY <1>1, <1>4, Halves, SameMod
<1> QED
  BY <1>5 DEF d

LEMMA ModW ==
    ASSUME NEW n \in Int
    PROVE  n % W \in Int /\ CongW(n % W, n)
<1> DEFINE q == n \div W  r == n % W
<1>1. q \in Int /\ r \in Int /\ r = n - W * q
  BY Constants
<1> HIDE DEF q, r
<1>2. r - n = (-q) * W /\ -q \in Int
  BY <1>1, Constants
<1>3. r \in Int /\ CongW(r, n)
  BY <1>1, <1>2 DEF CongW
<1> QED
  BY <1>3 DEF r

\* Time goes on: what is ahead comes nearer.
LEMMA DiffTick ==
    ASSUME NEW a \in Int, NEW t \in Int, NEW d \in Int,
           -HalfW <= Diff(a, t) - d, Diff(a, t) - d < HalfW
    PROVE  Diff(a, (t + d) % W) = Diff(a, t) - d
<1> DEFINE n == (t + d) % W  x == Diff(a, t)
<1>1. n \in Int /\ CongW(n, t + d)
  BY ModW
<1>2. x \in Int /\ CongW(x, a - t)
  BY DiffRange
<1> HIDE DEF n, x
<1>3. PICK k \in Int : n - (t + d) = k * W
  BY <1>1 DEF CongW
<1>4. PICK l \in Int : x - (a - t) = l * W
  BY <1>2 DEF CongW
<1>5. (x - d) - (a - n) = (k + l) * W /\ k + l \in Int
  BY <1>1, <1>2, <1>3, <1>4, Halves
<1>6. CongW(x - d, a - n)
  BY <1>5 DEF CongW
<1>7. -HalfW <= x - d /\ x - d < HalfW /\ x - d \in Int
  BY <1>2 DEF x
<1>8. Diff(a, n) = x - d
  BY <1>1, <1>6, <1>7, DiffIs
<1> QED
  BY <1>8 DEF n, x

\* What is d ahead of something ahead
LEMMA DiffPut ==
    ASSUME NEW a \in Int, NEW t \in Int, NEW d \in Int,
           -HalfW <= Diff(a, t) + d, Diff(a, t) + d < HalfW
    PROVE  Diff((a + d) % W, t) = Diff(a, t) + d
<1> DEFINE n == (a + d) % W  x == Diff(a, t)
<1>1. n \in Int /\ CongW(n, a + d)
  BY ModW
<1>2. x \in Int /\ CongW(x, a - t)
  BY DiffRange
<1> HIDE DEF n, x
<1>3. PICK k \in Int : n - (a + d) = k * W
  BY <1>1 DEF CongW
<1>4. PICK l \in Int : x - (a - t) = l * W
  BY <1>2 DEF CongW
<1>5. (x + d) - (n - t) = (l - k) * W /\ l - k \in Int
  BY <1>1, <1>2, <1>3, <1>4, Halves
<1>6. CongW(x + d, n - t)
  BY <1>5 DEF CongW
<1>7. -HalfW <= x + d /\ x + d < HalfW /\ x + d \in Int
  BY <1>2 DEF x
<1>8. Diff(n, t) = x + d
  BY <1>1, <1>6, <1>7, DiffIs
<1> QED
  BY <1>8 DEF n, x

LEMMA DiffSelf ==
    ASSUME NEW a \in Int
    PROVE  Diff(a, a) = 0
<1>1. CongW(0, a - a)
  <2>1. 0 - (a - a) = 0 * W
    BY Halves
  <2> QED
    BY <2>1 DEF CongW
<1> QED
  BY <1>1, Halves, DiffIs

LEMMA DiffBack ==
    ASSUME NEW a \in Int, NEW b \in Int, -HalfW < Diff(a, b)
    PROVE  Diff(b, a) = -Diff(a, b)
<1> DEFINE x == Diff(a, b)
<1>1. x \in Int /\ x < HalfW /\ -HalfW < x /\ CongW(x, a - b)
  BY DiffRange
<1> HIDE DEF x
<1>2. PICK k \in Int : x - (a - b) = k * W
  BY <1>1 DEF CongW
<1>3. (-x) - (b - a) = (-k) * W /\ -k \in Int
  BY <1>1, <1>2, Halves
<1>4. CongW(-x, b - a)
  BY <1>3 DEF CongW
<1>5. Diff(b, a) = -x
  BY <1>1, <1>4, Halves, DiffIs
<1> QED
  BY <1>5 DEF x

-----------------------------------------------------------------------------
(* The largest timeout.                                                    *)

LEMMA PowerGrows ==
    ASSUME NEW m \in 0 .. MaxBackoff
    PROVE  \A n \in m .. MaxBackoff : Power[m] <= Power[n]
<1> DEFINE T == {n \in m .. MaxBackoff : ~(Power[m] <= Power[n])}
<1>1. SUFFICES ASSUME T # {} PROVE FALSE
  OBVIOUS
<1>2. PICK k \in T : \A j \in T : k <= j
  <2> HIDE DEF T
  <2>1. T \subseteq Nat
    BY DEF T
  <2> QED
    BY <1>1, <2>1, Least
<1>3. k # m
  BY <1>2, PowerPositive
<1>4. k - 1 \in m .. MaxBackoff /\ k - 1 \notin T /\ k - 1 \in 0 .. MaxBackoff
  BY <1>2, <1>3, WheelAssumption
<1>5. Power[m] <= Power[k - 1]
  BY <1>4
<1>6. k \in 0 .. MaxBackoff /\ k # 0
  BY <1>2, <1>3
<1>7. Power[k] = 2 * Power[k - 1]
  BY <1>6, PowerIs
<1>8. Power[m] \in Nat /\ Power[k] \in Nat /\ Power[k - 1] \in Nat
  BY <1>4, <1>6, PowerPositive
<1> QED
  BY <1>2, <1>5, <1>7, <1>8

\* A finite set of natural numbers has a largest one.
LEMMA Largest ==
    ASSUME NEW S, IsFiniteSet(S), S \subseteq Nat, S # {}
    PROVE  Max(S) \in S /\ \A y \in S : Max(S) >= y
<1> DEFINE Good(n) == \A U \in SUBSET Nat :
                         IsFiniteSet(U) /\ U # {} /\ Cardinality(U) = n
                         => \E x \in U : \A y \in U : x >= y
           T == {n \in Nat : ~Good(n)}
<1>1. T = {}
  <2>1. SUFFICES ASSUME T # {} PROVE FALSE
    OBVIOUS
  <2>2. PICK k \in T : \A j \in T : k <= j
    <3> HIDE DEF T
    <3>1. T \subseteq Nat
      BY DEF T
    <3> QED
      BY <2>1, <3>1, Least
  <2>3. PICK U \in SUBSET Nat :
            IsFiniteSet(U) /\ U # {} /\ Cardinality(U) = k
            /\ ~ \E x \in U : \A y \in U : x >= y
    BY <2>2
  <2>4. PICK u \in U : TRUE
    BY <2>3
  <2> DEFINE V == U \ {u}
  <2>5. IsFiniteSet(V) /\ Cardinality(V) = k - 1 /\ V \in SUBSET Nat
    BY <2>3, <2>4, FS_RemoveElement
  <2>6. V # {}
    <3>1. ASSUME V = {} PROVE FALSE
      <4>1. \A y \in U : y = u
        BY <3>1
      <4>2. u \in Nat
        BY <2>3, <2>4
      <4> QED
        BY <2>3, <2>4, <4>1, <4>2
    <3> QED
      BY <3>1
  <2>7. k - 1 \in Nat
    BY <2>5, FS_CardinalityType
  <2>8. Good(k - 1)
    <3>1. k - 1 \notin T
      BY <2>2, <2>7
    <3> QED
      BY <2>7, <3>1
  <2> HIDE DEF V
  <2>9. PICK v \in V : \A y \in V : v >= y
    BY <2>5, <2>6, <2>8
  <2>10. \A y \in U : y \in V \/ y = u
    BY DEF V
  <2>11. u \in Nat /\ v \in Nat /\ v \in U
    BY <2>3, <2>4, <2>5 DEF V
  <2>12. CASE v >= u
    BY <2>3, <2>9, <2>10, <2>11, <2>12
  <2>13. CASE u > v
    <3>1. \A y \in V : y \in Nat
      BY <2>5
    <3>2. \A y \in U : u >= y
      BY <2>9, <2>10, <2>11, <2>13, <3>1
    <3> QED
      BY <2>3, <2>4, <3>2
  <2> QED
    BY <2>11, <2>12, <2>13
<1>2. Cardinality(S) \in Nat
  BY FS_CardinalityType
<1>3. Good(Cardinality(S))
  BY <1>1, <1>2
<1>4. \E x \in S : \A y \in S : x >= y
  BY <1>3
<1> QED
  BY <1>4, Zenon DEF Max


LEMMA MaxRtoIs ==
    /\ MaxRto \in Nat /\ MaxRto >= 1
    /\ \A e \in Estimates \cup {Initial} : \A n \in 0 .. MaxBackoff :
          e \in Nat /\ e >= 1 /\ e * Power[n] \in Nat /\ 1 <= e * Power[n] /\ e * Power[n] <= MaxRto
<1> DEFINE S == Estimates \cup {Initial}
           x == Max(S)
<1>1. IsFiniteSet(S) /\ S \subseteq Nat \ {0} /\ S # {}
  BY WheelAssumption, FS_AddElement
<1>2. x \in S /\ \A y \in S : x >= y
  <2> HIDE DEF S
  <2> QED
    BY <1>1, Largest
<1>3. MaxRto = x * Power[MaxBackoff]
  BY DEF MaxRto
<1> HIDE DEF x, S
<1> DEFINE p == Power[MaxBackoff]
<1>4. MaxBackoff \in 0 .. MaxBackoff
  BY WheelAssumption
<1>5. p \in Nat /\ p >= 1
  BY <1>4, PowerPositive
<1>6. x \in Nat /\ x >= 1
  BY <1>1, <1>2
<1>7. ASSUME NEW e \in S, NEW n \in 0 .. MaxBackoff
      PROVE  /\ e \in Nat /\ e >= 1 /\ e * Power[n] \in Nat
             /\ 1 <= e * Power[n] /\ e * Power[n] <= x * p
  <2> DEFINE b == Power[n]
  <2>1. b \in Nat /\ b >= 1
    BY PowerPositive
  <2>2. b <= p
    BY <1>4, PowerGrows
  <2>3. e \in Nat /\ e >= 1 /\ e <= x
    BY <1>1, <1>2
  <2> HIDE DEF b, p
  <2>4. e * b \in Nat /\ 1 <= e * b
    BY <2>1, <2>3
  <2>5. e * b <= x * b
    BY <1>6, <2>1, <2>3
  <2>6. x * b <= x * p
    BY <1>5, <1>6, <2>1, <2>2
  <2>7. x * b \in Nat /\ x * p \in Nat
    BY <1>5, <1>6, <2>1
  <2> QED
    BY <2>3, <2>4, <2>5, <2>6, <2>7 DEF b
<1> HIDE DEF p
<1>8. x * p \in Nat /\ 1 <= x * p
  BY <1>5, <1>6
<1>9. MaxRto = x * p
  BY <1>3 DEF p
<1> QED
  BY <1>7, <1>8, <1>9 DEF S

LEMMA TurnsIs ==
    /\ Turns \in Nat /\ Turns >= 1 /\ MaxRto <= Turns * RTO_HASH
    /\ Turns * RTO_HASH \in Nat
    /\ \A n \in Int : Cong(n, 0) /\ n <= MaxRto + RTO_HASH - 1 => n <= Turns * RTO_HASH
<1>1. MaxRto \in Nat /\ MaxRto >= 1 /\ RTO_HASH \in Int /\ RTO_HASH > 0
  BY MaxRtoIs, Constants
<1> DEFINE m == MaxRto - 1  d == m \div RTO_HASH  e == m % RTO_HASH
<1>2. m \in Nat
  BY <1>1
<1>3. d \in Int /\ e \in Int /\ 0 <= e /\ e < RTO_HASH /\ m = RTO_HASH * d + e
  <2> HIDE DEF m
  <2> QED
    BY <1>1, <1>2
<1>4. Turns = 1 + d
  BY DEF Turns
<1> HIDE DEF d, e
<1>5. d >= 0
  <2>1. ASSUME d <= -1 PROVE FALSE
    <3>1. RTO_HASH * d <= -RTO_HASH
      BY <1>1, <1>3, <2>1
    <3> QED
      BY <1>2, <1>3, <1>1, <3>1
  <2> QED
    BY <1>3, <2>1
<1>6. (1 + d) * RTO_HASH = RTO_HASH + RTO_HASH * d
  BY <1>1, <1>3
<1>7. ASSUME NEW n \in Int, Cong(n, 0), n <= MaxRto + RTO_HASH - 1
      PROVE  n <= Turns * RTO_HASH
  <2>1. PICK k \in Int : n = k * RTO_HASH
    BY <1>7 DEF Cong
  <2>2. ASSUME k >= d + 2 PROVE FALSE
    <3>1. k * RTO_HASH >= (d + 2) * RTO_HASH
      BY <1>1, <1>3, <2>2
    <3>2. (d + 2) * RTO_HASH = RTO_HASH * d + RTO_HASH + RTO_HASH
      BY <1>1, <1>3
    <3> QED
      BY <1>1, <1>3, <1>7, <2>1, <3>1, <3>2
  <2>3. k <= d + 1
    BY <1>3, <2>2
  <2>4. k * RTO_HASH <= (1 + d) * RTO_HASH
    BY <1>1, <1>3, <2>3
  <2> QED
    BY <1>4, <2>1, <2>4
<1>8. Turns \in Nat /\ Turns >= 1
  BY <1>3, <1>4, <1>5
<1>9. MaxRto <= Turns * RTO_HASH /\ Turns * RTO_HASH \in Nat
  BY <1>1, <1>3, <1>4, <1>5, <1>6
<1> QED
  BY <1>7, <1>8, <1>9

LEMMA BackoffOK ==
    ASSUME NEW o \in StreamRec, RtoOK(o),
           NEW p, p = [o EXCEPT !.nrtx = o.nrtx + 1],
           NEW q, q = [p EXCEPT !.rto = Backoff(p)]
    PROVE  RtoOK(q)
<1> DEFINE n == Min({o.nrtx, MaxBackoff})  k == Min({p.nrtx, MaxBackoff})
<1>1. /\ o.nrtx \in Int /\ o.rto \in Int /\ o.nrtx >= 0 /\ MaxBackoff \in Nat
      /\ p \in StreamRec /\ p.nrtx = o.nrtx + 1 /\ p.rto = o.rto
      /\ p.established = o.established /\ p.estimate = o.estimate
  BY WheelAssumption DEF RtoOK, StreamRec
<1>2. ASSUME NEW a \in Nat
      PROVE  Min({a, MaxBackoff}) = IF a <= MaxBackoff THEN a ELSE MaxBackoff
  <2> DEFINE x == Min({a, MaxBackoff})
  <2>1. x \in {a, MaxBackoff} /\ \A y \in {a, MaxBackoff} : x <= y
    <3>1. \E x1 \in {a, MaxBackoff} : \A y \in {a, MaxBackoff} : x1 <= y
      BY <1>1, <1>2
    <3> QED
      BY <3>1, Zenon DEF Min
  <2> HIDE DEF x
  <2>2. x = IF a <= MaxBackoff THEN a ELSE MaxBackoff
    BY <1>1, <2>1
  <2> QED
    BY <2>2 DEF x
<1>3. n = IF o.nrtx <= MaxBackoff THEN o.nrtx ELSE MaxBackoff
  BY <1>1, <1>2
<1>4. k = IF o.nrtx + 1 <= MaxBackoff THEN o.nrtx + 1 ELSE MaxBackoff
  BY <1>1, <1>2
<1>a. Backoff(p) = IF p.established THEN p.estimate * Power[k]
                   ELSE IF p.nrtx < MaxBackoff THEN 2 * p.rto ELSE p.rto
  BY DEF Backoff
<1>b. ~o.established => o.rto <= Initial * Power[n]
  BY DEF RtoOK
<1>c. o.established => o.estimate \in Estimates
  BY DEF RtoOK
<1>d. 1 <= o.rto /\ o.rto <= MaxRto
  BY DEF RtoOK
<1> HIDE DEF n, k
<1>5. n \in 0 .. MaxBackoff /\ k \in 0 .. MaxBackoff /\ n <= k
  BY <1>1, <1>3, <1>4
<1> DEFINE b == Backoff(p)
<1>6. /\ 1 <= b /\ b <= MaxRto /\ b \in Int
      /\ ~o.established => b <= Initial * Power[k]
  <2>1. CASE o.established
    BY <1>1, <1>a, <1>c, <1>5, <2>1, MaxRtoIs
  <2>2. CASE ~o.established /\ o.nrtx + 1 < MaxBackoff
    <3>1. k = n + 1 /\ b = 2 * o.rto
      BY <1>1, <1>3, <1>4, <1>a, <2>2
    <3>2. Power[k] = 2 * Power[n] /\ Power[n] \in Nat
      BY <1>5, <3>1, PowerIs, PowerPositive
    <3>3. Initial \in Nat
      BY WheelAssumption
    <3> DEFINE w == Power[n]
    <3>4. Initial * (2 * w) = 2 * (Initial * w) /\ Initial * w \in Nat
      <4> HIDE DEF w
      <4>1. w \in Nat
        BY <3>2 DEF w
      <4> QED
        BY <3>3, <4>1
    <3>5. o.rto <= Initial * w /\ Power[k] = 2 * w
      BY <1>b, <2>2, <3>2
    <3> HIDE DEF w
    <3>6. b <= Initial * Power[k]
      BY <1>1, <3>1, <3>4, <3>5
    <3>7. Initial * Power[k] \in Nat /\ Initial * Power[k] <= MaxRto
      BY <1>5, MaxRtoIs
    <3>8. b \in Int /\ 1 <= b
      BY <1>1, <1>d, <3>1
    <3> QED
      BY <3>6, <3>7, <3>8, MaxRtoIs
  <2>3. CASE ~o.established /\ ~(o.nrtx + 1 < MaxBackoff)
    <3>1. b = o.rto
      BY <1>1, <1>a, <2>3
    <3>2. Power[n] <= Power[k] /\ Power[n] \in Nat /\ Power[k] \in Nat /\ Initial \in Nat
      BY <1>5, PowerGrows, PowerPositive, WheelAssumption
    <3> DEFINE w == Power[n]  v == Power[k]
    <3>3. w <= v /\ w \in Nat /\ v \in Nat
      BY <3>2
    <3>4. o.rto <= Initial * w
      BY <1>b, <2>3
    <3> HIDE DEF w, v
    <3>5. Initial * w <= Initial * v /\ Initial * w \in Nat /\ Initial * v \in Nat
      BY <3>2, <3>3
    <3>6. o.rto <= Initial * v
      BY <1>1, <3>4, <3>5
    <3> QED
      BY <1>1, <1>d, <3>1, <3>6 DEF v
  <2> QED
    BY <2>1, <2>2, <2>3
<1> HIDE DEF b
<1>7. q = [p EXCEPT !.rto = b]
  BY DEF b
<1>8. /\ q.nrtx = o.nrtx + 1 /\ q.rto = b /\ q.established = o.established
      /\ q.estimate = o.estimate
  BY <1>1, <1>7 DEF StreamRec
<1>9. Min({q.nrtx, MaxBackoff}) = k
  BY <1>1, <1>8 DEF k
<1> QED
  BY <1>1, <1>6, <1>8, <1>9, <1>c DEF RtoOK

-----------------------------------------------------------------------------
(* The wheel's operators and the times of its streams.                     *)

\* What the wheel's times look at in a stream's record
SameTimer(o, p) ==
    /\ p.rto = o.rto /\ p.nrtx = o.nrtx /\ p.established = o.established
    /\ p.estimate = o.estimate

\* What adding a stream does to the others, and to the wheel
LEMMA AddIs ==
    ASSUME NEW r, WheelOK(r), NEW s \in Stream, s \notin On(r), r.of[s].live,
           NEW a \in Int, NEW q, q = AddtoRTOList(r, s, a)
    PROVE  /\ WheelOK(q) /\ On(q) = On(r) \cup {s}
           /\ \A u \in Stream \ {s} : q.of[u] = r.of[u]
           /\ q.of[s].armed = a /\ SameTimer(r.of[s], q.of[s])
           /\ On(r) = {} => q.rto_now_ts = a /\ q.rto_now_idx = 0 /\ q.of[s].on_rto_idx = 0
           /\ On(r) # {} => q.rto_now_ts = r.rto_now_ts /\ q.rto_now_idx = r.rto_now_idx
           /\ \A j \in Slot : q.rto_list[j] = r.rto_list[j]
                              \/ q.rto_list[j] = Append(r.rto_list[j], s)
<1> DEFINE p == Rewound(r, a)
           i == Offset(p, a)
<1>1. WheelOK(q) /\ On(q) = On(r) \cup {s}
  BY AddOK
<1>2. WheelOK(p) /\ p.of = r.of /\ On(p) = On(r)
  BY RewoundOK
<1>3. q = IF p.of[s].on_rto_idx >= 0 THEN p
          ELSE [p EXCEPT !.of[s].on_rto_idx = i, !.of[s].armed = a,
                         !.rto_list[i] = Append(@, s), !.rto_list_cnt = @ + 1]
  BY DEF AddtoRTOList
<1>4. (r.rto_list_cnt = 0) <=> (On(r) = {})
  BY FS_EmptySet DEF WheelOK, Counted
<1>5. /\ r \in StoreRec /\ r.of \in [Stream -> StreamRec] /\ r.rto_list \in [Slot -> Seq(Stream)]
  BY DEF WheelOK, StoreRec
<1>6. p = IF r.rto_list_cnt = 0
          THEN [r EXCEPT !.rto_now_idx = 0, !.rto_now_ts = a] ELSE r
  BY DEF Rewound
<1>7. /\ p.rto_list = r.rto_list /\ p.of = r.of /\ p \in StoreRec
      /\ On(r) = {} => p.rto_now_ts = a /\ p.rto_now_idx = 0
      /\ On(r) # {} => p.rto_now_ts = r.rto_now_ts /\ p.rto_now_idx = r.rto_now_idx
  BY <1>2, <1>4, <1>5, <1>6 DEF StoreRec, WheelOK
<1>8. i = (Diff(a, p.rto_now_ts) + p.rto_now_idx) % RTO_HASH
  BY DEF Offset
<1>9. On(r) = {} => i = 0
  <2>1. (0 + 0) % RTO_HASH = 0
    BY Constants
  <2> QED
    BY <1>7, <1>8, <2>1, DiffSelf
<1>10. i \in Slot
  <2>1. p.rto_now_ts \in Int /\ p.rto_now_idx \in Int
    BY <1>7, Constants DEF StoreRec, Slot
  <2>2. Diff(a, p.rto_now_ts) \in Int
    BY <2>1, DiffRange
  <2> QED
    BY <1>8, <2>1, <2>2, ModHash
<1> HIDE DEF p, i
<1>11. ~(p.of[s].on_rto_idx >= 0)
  BY <1>7 DEF On
<1> DEFINE o == [p.of[s] EXCEPT !.on_rto_idx = i, !.armed = a]
           l == Append(p.rto_list[i], s)
<1>12. /\ o.armed = a /\ o.on_rto_idx = i /\ SameTimer(r.of[s], o)
  BY <1>5, <1>7, <1>10 DEF StreamRec, SlotOrNone, SameTimer
<1>b. /\ p \in StoreRec /\ p.of \in [Stream -> StreamRec] /\ p.rto_list \in [Slot -> Seq(Stream)]
      /\ p.rto_list_cnt \in Int /\ p.rto_now_idx \in Slot /\ p.rto_now_ts \in Int
  BY <1>7 DEF StoreRec
<1>c. q = [p EXCEPT !.of[s].on_rto_idx = i, !.of[s].armed = a,
                    !.rto_list[i] = Append(@, s), !.rto_list_cnt = @ + 1]
  BY <1>3, <1>11
<1>13. q = [p EXCEPT !.of = [p.of EXCEPT ![s] = o],
                     !.rto_list = [p.rto_list EXCEPT ![i] = l],
                     !.rto_list_cnt = p.rto_list_cnt + 1]
  BY ZenonT(60), <1>10, <1>b, <1>c DEF StoreRec, StreamRec
<1> HIDE DEF o, l
<1>14. /\ q.of = [p.of EXCEPT ![s] = o]
       /\ q.rto_list = [p.rto_list EXCEPT ![i] = l]
       /\ q.rto_now_ts = p.rto_now_ts /\ q.rto_now_idx = p.rto_now_idx
  BY <1>7, <1>13 DEF StoreRec
<1>15. q.of[s] = o /\ \A u \in Stream \ {s} : q.of[u] = r.of[u]
  BY <1>5, <1>7, <1>14
<1>16. \A j \in Slot : q.rto_list[j] = r.rto_list[j]
                       \/ q.rto_list[j] = Append(r.rto_list[j], s)
  BY <1>5, <1>7, <1>10, <1>14 DEF l
<1> QED
  BY <1>1, <1>7, <1>9, <1>12, <1>14, <1>15, <1>16

\* What removing a stream does to the others and to the head of its list
LEMMA RemoveIs ==
    ASSUME NEW r, WheelOK(r), NEW s \in Stream, NEW q, q = RemoveFromRTOList(r, s)
    PROVE  /\ WheelOK(q) /\ On(q) = On(r) \ {s}
           /\ \A u \in Stream \ {s} : q.of[u] = r.of[u]
           /\ SameTimer(r.of[s], q.of[s]) /\ q.of[s].live = r.of[s].live
           /\ q.rto_now_ts = r.rto_now_ts /\ q.rto_now_idx = r.rto_now_idx
           /\ s \notin On(r) => q = r
<1> DEFINE i == r.of[s].on_rto_idx
<1>1. WheelOK(q) /\ On(q) = On(r) \ {s} /\ q.of[s].live = r.of[s].live
  BY RemoveOK
<1>2. /\ r \in StoreRec /\ r.of \in [Stream -> StreamRec] /\ r.rto_list \in [Slot -> Seq(Stream)]
      /\ r.of[s] \in StreamRec
  BY DEF WheelOK, StoreRec
<1>3. i \in Slot \cup {-1}
  BY <1>2 DEF StreamRec, SlotOrNone
<1>4. CASE s \notin On(r)
  <2>1. i < 0
    BY <1>3, <1>4, Constants DEF On, Slot
  <2>2. q = r
    BY <2>1 DEF RemoveFromRTOList
  <2> QED
    BY <1>1, <1>4, <2>2 DEF SameTimer
<1>5. CASE s \in On(r)
  <2>1. i \in Slot /\ ~(i < 0) /\ -1 \in SlotOrNone
    BY <1>3, <1>5, Constants DEF On, Slot, SlotOrNone
  <2> DEFINE l == r.rto_list[i]
             c == RemoveAt(l, Place(l, s))
             m == -1
             o == [r.of[s] EXCEPT !.on_rto_idx = m, !.armed = 0]
  <2> HIDE DEF m
  <2>2. q = [r EXCEPT !.rto_list[i] = c, !.of[s].on_rto_idx = m, !.of[s].armed = 0,
                      !.rto_list_cnt = @ - 1]
    BY <2>1 DEF RemoveFromRTOList, m
  <2>3. SameTimer(r.of[s], o)
    BY <1>2 DEF SameTimer, StreamRec
  <2> HIDE DEF c
  <2>4. q = [r EXCEPT !.rto_list = [r.rto_list EXCEPT ![i] = c],
                      !.of = [r.of EXCEPT ![s] = o],
                      !.rto_list_cnt = r.rto_list_cnt - 1]
    BY ZenonT(60), <1>2, <2>1, <2>2 DEF StoreRec, StreamRec
  <2> HIDE DEF o, i
  <2>5. /\ q.of = [r.of EXCEPT ![s] = o]
        /\ q.rto_list = [r.rto_list EXCEPT ![i] = c]
        /\ q.rto_now_ts = r.rto_now_ts /\ q.rto_now_idx = r.rto_now_idx
    BY <1>2, <2>4 DEF StoreRec
  <2>6. q.of[s] = o /\ \A u \in Stream \ {s} : q.of[u] = r.of[u]
    BY <1>2, <2>5
  <2> QED
    BY <1>1, <1>5, <2>3, <2>5, <2>6
<1> QED
  BY <1>4, <1>5

\* The tail of a list
IsTail(c, l) ==
    c \in Seq(Stream) /\ Len(c) = Len(l) - 1 /\ \A n \in 1 .. Len(c) : c[n] = l[n + 1]

\* The head of a list is removed.
LEMMA RemoveHead ==
    ASSUME NEW r, WheelOK(r), NEW s \in Stream, NEW i \in Slot, r.of[s].on_rto_idx = i,
           r.rto_list[i] # <<>>, Head(r.rto_list[i]) = s,
           NEW q, q = RemoveFromRTOList(r, s)
    PROVE  IsTail(q.rto_list[i], r.rto_list[i])
<1> DEFINE l == r.rto_list[i]
           c == RemoveAt(l, Place(l, s))
<1>1. /\ r \in StoreRec /\ r.of \in [Stream -> StreamRec] /\ r.rto_list \in [Slot -> Seq(Stream)]
      /\ ~(i < 0)
  BY Constants DEF WheelOK, StoreRec, Slot
<1> DEFINE m == -1
<1> HIDE DEF m
<1>2. q = [r EXCEPT !.rto_list[i] = c, !.of[s].on_rto_idx = m, !.of[s].armed = 0,
                    !.rto_list_cnt = @ - 1]
  BY <1>1 DEF RemoveFromRTOList, m
<1> HIDE DEF c
<1>3. q.rto_list = [r.rto_list EXCEPT ![i] = c]
  BY <1>1, <1>2 DEF StoreRec
<1>4. q.rto_list[i] = c
  BY <1>1, <1>3
<1>5. l \in Seq(Stream) /\ \A n, k \in 1 .. Len(l) : l[n] = l[k] => n = k
  BY <1>1 DEF WheelOK, Once
<1>6. c = RemoveAt(l, Place(l, s))
  BY DEF c
<1> HIDE DEF l
<1>7. 1 \in 1 .. Len(l) /\ l[1] = s
  <2>1. l # <<>> /\ Head(l) = s
    BY DEF l
  <2> QED
    BY <1>5, <2>1
<1>8. c \in Seq(Stream) /\ Len(c) = Len(l) - 1
      /\ \A n \in 1 .. Len(c) : c[n] = IF n < 1 THEN l[n] ELSE l[n + 1]
  BY <1>5, <1>6, <1>7, Unlinked
<1>9. IsTail(c, l)
  BY <1>8 DEF IsTail
<1> QED
  BY <1>4, <1>9 DEF l


LEMMA Long ==
    ASSUME TimeIsLong
    PROVE  /\ Turns * RTO_HASH \in Nat /\ MaxRto <= Turns * RTO_HASH /\ MaxRto \in Nat
           /\ MaxRto >= 1 /\ MaxGap \in Nat /\ HalfW \in Int
           /\ Turns * RTO_HASH + MaxGap + 2 <= HalfW
<1>1. Turns * RTO_HASH \in Nat /\ MaxRto <= Turns * RTO_HASH
  BY TurnsIs
<1>2. MaxGap \in Nat
  BY WheelAssumption
<1> DEFINE n == Turns * RTO_HASH
<1>3. 2 * (n + MaxGap + 2) <= W
  BY DEF TimeIsLong
<1> HIDE DEF n
<1>4. n \in Nat
  BY <1>1 DEF n
<1>5. n + MaxGap + 2 <= HalfW
  BY <1>2, <1>3, <1>4, Halves
<1> QED
  BY <1>1, <1>2, <1>5, MaxRtoIs, Halves DEF n

\* The times of a stream on the wheel are whole turns apart.
LEMMA TimesOf ==
    ASSUME NEW r, WheelOK(r), NEW s \in On(r), NEW t \in Int
    PROVE  /\ Lead(r, t) \in Int /\ Left(r, s, t) \in Int
           /\ Gap(r, s) \in Int /\ 0 <= Gap(r, s) /\ Gap(r, s) <= RTO_HASH - 1
           /\ Cong(Lead(r, t) + Gap(r, s) - Left(r, s, t), 0)
<1> DEFINE now == r.rto_now_ts  idx == r.rto_now_idx
           i == r.of[s].on_rto_idx  a == r.of[s].armed
<1>1. now \in Int /\ idx \in Int /\ i \in Int /\ a \in Int
  BY Constants DEF On, WheelOK, StoreRec, StreamRec, SlotOrNone, Slot
<1>2. Cong(now + i - idx, a)
  BY DEF WheelOK, Timed
<1> DEFINE x == Lead(r, t)  y == Left(r, s, t)  g == Gap(r, s)
<1>3. x \in Int /\ Cong(x, now - t)
  BY <1>1, DiffTurns DEF Lead
<1>4. y \in Int /\ Cong(y, a - t)
  BY <1>1, DiffTurns DEF Left
<1>5. g \in Slot /\ Cong(g, i - idx) /\ g \in Int
  BY <1>1, ModHash DEF Gap
<1> HIDE DEF x, y, g, now, idx, i, a
<1>6. PICK k1 \in Int : x - (now - t) = k1 * RTO_HASH
  BY <1>3 DEF Cong
<1>7. PICK k2 \in Int : y - (a - t) = k2 * RTO_HASH
  BY <1>4 DEF Cong
<1>8. PICK k3 \in Int : g - (i - idx) = k3 * RTO_HASH
  BY <1>5 DEF Cong
<1>9. PICK k4 \in Int : (now + i - idx) - a = k4 * RTO_HASH
  BY <1>2 DEF Cong
<1>10. k1 + k3 + k4 - k2 \in Int
       /\ (x + g - y) - 0 = (k1 + k3 + k4 - k2) * RTO_HASH
  BY <1>1, <1>3, <1>4, <1>5, <1>6, <1>7, <1>8, <1>9, Constants
<1>11. Cong(x + g - y, 0)
  BY <1>10 DEF Cong
<1>12. 0 <= g /\ g <= RTO_HASH - 1
  BY <1>5, Constants DEF Slot
<1> QED
  BY <1>3, <1>4, <1>5, <1>11, <1>12 DEF x, y, g

\* No timeout is further in the past than the turns allow.
LEMMA LeftLow ==
    ASSUME NEW r, WheelOK(r), NEW s \in On(r), NEW t \in Int, InTime(r, s, t)
    PROVE  Lead(r, t) - Turns * RTO_HASH <= Left(r, s, t)
<1>1. Turns * RTO_HASH \in Nat
  BY TurnsIs
<1>2. /\ Lead(r, t) \in Int /\ Left(r, s, t) \in Int
      /\ Gap(r, s) \in Int /\ 0 <= Gap(r, s)
  BY TimesOf
<1>3. Lead(r, t) + Gap(r, s) - Left(r, s, t) <= Turns * RTO_HASH
  BY DEF InTime
<1> QED
  BY <1>1, <1>2, <1>3

\* Only the stream for which the wheel is where it was concerns the slot zero.
LEMMA GapZero ==
    ASSUME NEW r, WheelOK(r), NEW s \in On(r)
    PROVE  Gap(r, s) = 0 <=> r.of[s].on_rto_idx = r.rto_now_idx
<1> DEFINE idx == r.rto_now_idx  i == r.of[s].on_rto_idx  g == Gap(r, s)
<1>1. idx \in Slot /\ i \in Slot /\ idx \in Int /\ i \in Int
  BY Constants DEF On, WheelOK, StoreRec, StreamRec, SlotOrNone, Slot
<1>2. g \in Int /\ Cong(g, i - idx)
  BY <1>1, ModHash DEF Gap
<1>3. g = (i - idx) % RTO_HASH
  BY DEF Gap
<1> HIDE DEF idx, i, g
<1>4. i = idx => g = 0
  <2>1. 0 % RTO_HASH = 0
    BY Constants
  <2> QED
    BY <1>1, <1>3, <2>1
<1>5. ASSUME g = 0 PROVE i = idx
  <2>1. PICK k \in Int : g - (i - idx) = k * RTO_HASH
    BY <1>2 DEF Cong
  <2>2. idx - i = k * RTO_HASH
    BY <1>1, <1>5, <2>1, Constants
  <2>3. -RTO_HASH < idx - i /\ idx - i < RTO_HASH
    BY <1>1, Constants DEF Slot
  <2>4. RTO_HASH \in Int /\ RTO_HASH > 0
    BY Constants
  <2> QED
    BY <1>1, <2>2, <2>3, <2>4, SameMod
<1> QED
  BY <1>4, <1>5 DEF g, i, idx

LEMMA SameRto ==
    ASSUME NEW o, NEW p, SameTimer(o, p), RtoOK(o)
    PROVE  RtoOK(p)
BY DEF SameTimer, RtoOK

\* What leaves the wheel and the timers alone, and nobody new on it, is in time.
LEMMA FrameTime ==
    ASSUME NEW r, NEW q, NEW t, NEW X, NEW Y, OnTime(r, t, X),
           q.rto_now_ts = r.rto_now_ts, q.rto_now_idx = r.rto_now_idx,
           On(q) \subseteq On(r),
           \A u \in Stream : RtoOK(q.of[u]),
           \A u \in On(q) \ Y :
               u \notin X /\ q.of[u].on_rto_idx = r.of[u].on_rto_idx
               /\ q.of[u].armed = r.of[u].armed /\ q.of[u].rto = r.of[u].rto
    PROVE  OnTime(q, t, Y) /\ \A low : Low(r, t, low) => Low(q, t, low)
<1>1. Lead(q, t) = Lead(r, t)
  BY DEF Lead
<1>2. On(q) # {} => On(r) # {}
  OBVIOUS
<1>3. ASSUME NEW u \in On(q) \ Y
      PROVE  InTime(q, u, t)
  <2>1. Left(q, u, t) = Left(r, u, t) /\ Gap(q, u) = Gap(r, u)
    BY <1>3 DEF Left, Gap
  <2>2. InTime(r, u, t)
    BY <1>3 DEF OnTime
  <2> QED
    BY <1>1, <1>3, <2>1, <2>2 DEF InTime
<1>4. OnTime(q, t, Y)
  BY <1>1, <1>2, <1>3 DEF OnTime
<1> QED
  BY <1>1, <1>2, <1>4 DEF Low

\* A timeout is that far ahead of the present.
LEMMA DueIs ==
    ASSUME NEW t \in Int, NEW rto \in Int, 1 <= rto, rto <= MaxRto, TimeIsLong
    PROVE  (t + rto) % W \in Int /\ Diff((t + rto) % W, t) = rto
<1> DEFINE a == (t + rto) % W
<1>1. t + rto \in Int
  OBVIOUS
<1>2. a \in Int
  BY <1>1, ModW
<1>3. Diff(t, t) = 0
  BY DiffSelf
<1>4. -HalfW <= 0 + rto /\ 0 + rto < HalfW /\ 0 + rto = rto
  BY Long
<1>5. Diff(a, t) = 0 + rto
  BY <1>3, <1>4, DiffPut
<1> QED
  BY <1>2, <1>4, <1>5

\* A stream is put ahead of the present, at most the turns before its slot.
LEMMA AddTime ==
    ASSUME NEW r, WheelOK(r), NEW s \in Stream, s \notin On(r), r.of[s].live,
           NEW t \in Int, TimeIsLong, OnTime(r, t, {}),
           NEW a \in Int, Diff(a, t) = r.of[s].rto, NEW q, q = AddtoRTOList(r, s, a)
    PROVE  /\ OnTime(q, t, {}) /\ Left(q, s, t) = r.of[s].rto
           /\ On(r) = {} => Lead(q, t) = r.of[s].rto
           /\ \A low \in Int : low <= 1 /\ Low(r, t, low) => Low(q, t, low)
<1> DEFINE rto == r.of[s].rto
<1>1. rto \in Int /\ 1 <= rto /\ rto <= MaxRto
  BY DEF WheelOK, StoreRec, StreamRec, OnTime, RtoOK
<1>2. Diff(a, t) = rto
  OBVIOUS
<1> HIDE DEF rto
<1>4. /\ WheelOK(q) /\ On(q) = On(r) \cup {s}
      /\ \A u \in Stream \ {s} : q.of[u] = r.of[u]
      /\ q.of[s].armed = a /\ SameTimer(r.of[s], q.of[s])
      /\ On(r) = {} => q.rto_now_ts = a /\ q.rto_now_idx = 0 /\ q.of[s].on_rto_idx = 0
      /\ On(r) # {} => q.rto_now_ts = r.rto_now_ts /\ q.rto_now_idx = r.rto_now_idx
  BY AddIs
<1>5. Left(q, s, t) = rto /\ q.of[s].rto = rto
  BY <1>2, <1>4 DEF Left, SameTimer, rto
<1>6. \A u \in Stream : RtoOK(q.of[u])
  <2>1. \A u \in Stream : RtoOK(r.of[u])
    BY DEF OnTime
  <2>2. RtoOK(q.of[s])
    BY <1>4, <2>1, SameRto
  <2> QED
    BY <1>4, <2>1, <2>2
<1>7. s \in On(q)
  BY <1>4
<1>8. CASE On(r) = {}
  <2>1. Lead(q, t) = rto
    BY <1>2, <1>4, <1>8 DEF Lead
  <2>2. Gap(q, s) = 0
    BY <1>4, <1>7, <1>8, GapZero
  <2>3. Turns * RTO_HASH \in Nat /\ MaxRto \in Nat
    BY Long
  <2>4. InTime(q, s, t)
    <3>1. rto + 0 - rto <= Turns * RTO_HASH
      BY <1>1, <2>3
    <3> QED
      BY <1>5, <2>1, <2>2, <3>1, <1>1 DEF InTime
  <2>5. On(q) = {s}
    BY <1>4, <1>8
  <2>6. OnTime(q, t, {})
    BY SMTT(40), <1>1, <1>6, <2>1, <2>3, <2>4, <2>5 DEF OnTime
  <2>7. \A low \in Int : low <= 1 => Low(q, t, low)
    BY <1>1, <2>1 DEF Low
  <2> QED
    BY <1>5, <2>1, <2>6, <2>7 DEF rto
<1>9. CASE On(r) # {}
  <2>1. Lead(q, t) = Lead(r, t) /\ Lead(q, t) <= MaxRto + 1
    BY <1>4, <1>9 DEF Lead, OnTime
  <2>2. /\ Lead(q, t) \in Int
        /\ Gap(q, s) \in Int /\ 0 <= Gap(q, s) /\ Gap(q, s) <= RTO_HASH - 1
        /\ Cong(Lead(q, t) + Gap(q, s) - Left(q, s, t), 0)
    BY <1>4, <1>7, TimesOf
  <2>3. InTime(q, s, t)
    <3> DEFINE n == Lead(q, t) + Gap(q, s) - rto
    <3>1. n \in Int /\ Cong(n, 0) /\ n <= MaxRto + RTO_HASH - 1
      <4>1. n \in Int /\ Cong(n, 0)
        BY SMTT(60), <1>1, <1>5, <2>2
      <4>2. RTO_HASH \in Int /\ MaxRto \in Int
        BY Constants, MaxRtoIs
      <4> QED
        BY SMTT(60), <4>1, <4>2, <1>1, <2>1, <2>2
    <3> HIDE DEF n
    <3>2. n <= Turns * RTO_HASH
      BY <3>1, TurnsIs
    <3> QED
      BY <1>1, <1>5, <3>2 DEF InTime, n
  <2>4. ASSUME NEW u \in On(q), u # s
        PROVE  InTime(q, u, t)
    <3>1. u \in On(r) /\ u \in Stream
      BY <1>4, <2>4 DEF On
    <3>2. q.of[u] = r.of[u] /\ InTime(r, u, t)
      BY <1>4, <2>4, <3>1 DEF OnTime
    <3>3. Left(q, u, t) = Left(r, u, t) /\ Gap(q, u) = Gap(r, u)
      BY <1>4, <1>9, <3>2 DEF Left, Gap
    <3> QED
      BY <2>1, <3>2, <3>3 DEF InTime
  <2>5. OnTime(q, t, {})
    BY <1>6, <2>1, <2>3, <2>4 DEF OnTime
  <2> QED
    BY <1>5, <1>9, <2>1, <2>5 DEF Low, rto
<1> QED
  BY <1>8, <1>9


LEMMA AddAgain ==
    ASSUME NEW r, WheelOK(r), NEW s \in On(r), NEW a
    PROVE  AddtoRTOList(r, s, a) = r
<1>1. On(r) # {} /\ r.of[s].on_rto_idx >= 0
  BY DEF On
<1>2. r.rto_list_cnt # 0
  BY <1>1, FS_EmptySet DEF WheelOK, Counted
<1>3. Rewound(r, a) = r
  BY <1>2 DEF Rewound
<1> QED
  BY <1>1, <1>3 DEF AddtoRTOList

\* An assignment that leaves the wheel's marks of the stream alone
Touched(r, s, o, q) ==
    /\ q = [r EXCEPT !.of[s] = o]
    /\ o.on_rto_idx = r.of[s].on_rto_idx
    /\ o.armed = r.of[s].armed \/ s \notin On(r)
    /\ o.live \/ o = Dead

LEMMA TouchedIs ==
    ASSUME NEW r, WheelOK(r), NEW s \in Stream, NEW o \in StreamRec, NEW q,
           Touched(r, s, o, q)
    PROVE  /\ WheelOK(q) /\ On(q) = On(r) /\ q.of[s] = o
           /\ \A u \in Stream \ {s} : q.of[u] = r.of[u]
           /\ q.rto_list = r.rto_list
           /\ q.rto_now_idx = r.rto_now_idx /\ q.rto_now_ts = r.rto_now_ts
<1> DEFINE p == [r EXCEPT !.of[s] = o]
<1>1. /\ o.on_rto_idx = r.of[s].on_rto_idx
      /\ o.armed = r.of[s].armed \/ s \notin On(r)
      /\ o.live \/ o = Dead
  BY DEF Touched
<1>2. WheelOK(p) /\ On(p) = On(r)
  BY <1>1, TouchOK
<1>3. /\ \A u \in Stream \ {s} : p.of[u] = r.of[u]
      /\ p.of[s] = o /\ p.rto_list = r.rto_list
      /\ p.rto_now_idx = r.rto_now_idx /\ p.rto_now_ts = r.rto_now_ts
  <2>1. /\ r \in StoreRec /\ r.of \in [Stream -> StreamRec]
    BY DEF WheelOK, StoreRec
  <2>2. /\ p.of = [r.of EXCEPT ![s] = o] /\ p.rto_list = r.rto_list
        /\ p.rto_now_idx = r.rto_now_idx /\ p.rto_now_ts = r.rto_now_ts
    BY <2>1 DEF StoreRec
  <2> HIDE DEF p
  <2> QED
    BY <2>1, <2>2
<1>4. q = p
  BY DEF Touched
<1> HIDE DEF p
<1> QED
  BY <1>2, <1>3, <1>4

LEMMA TouchTime ==
    ASSUME NEW r, WheelOK(r), NEW s \in Stream, NEW o \in StreamRec, NEW q,
           Touched(r, s, o, q), RtoOK(o),
           NEW t, NEW X, OnTime(r, t, X),
           o.rto = r.of[s].rto \/ s \notin On(r) \/ s \in X
    PROVE  OnTime(q, t, X) /\ \A low : Low(r, t, low) => Low(q, t, low)
<1>1. /\ WheelOK(q) /\ On(q) = On(r) /\ q.of[s] = o
      /\ \A u \in Stream \ {s} : q.of[u] = r.of[u]
      /\ q.rto_now_idx = r.rto_now_idx /\ q.rto_now_ts = r.rto_now_ts
  BY TouchedIs
<1>2. \A u \in Stream : RtoOK(q.of[u])
  BY <1>1 DEF OnTime
<1>3. o.on_rto_idx = r.of[s].on_rto_idx /\ (o.armed = r.of[s].armed \/ s \notin On(r))
  BY DEF Touched
<1>4. ASSUME NEW u \in On(q) \ X
      PROVE  /\ u \notin X /\ q.of[u].on_rto_idx = r.of[u].on_rto_idx
             /\ q.of[u].armed = r.of[u].armed /\ q.of[u].rto = r.of[u].rto
  <2>1. CASE u = s
    BY <1>1, <1>3, <1>4, <2>1
  <2>2. CASE u # s
    <3>1. u \in Stream \ {s}
      BY <1>4, <2>2 DEF On
    <3> QED
      BY <1>1, <1>4, <3>1
  <2> QED
    BY <2>1, <2>2
<1>5. On(q) \subseteq On(r)
  BY <1>1
<1> QED
  BY <1>1, <1>2, <1>4, <1>5, FrameTime

LEMMA RemoveTime ==
    ASSUME NEW r, WheelOK(r), NEW s \in Stream, NEW t, OnTime(r, t, {s}),
           NEW q, q = RemoveFromRTOList(r, s)
    PROVE  OnTime(q, t, {}) /\ \A low : Low(r, t, low) => Low(q, t, low)
<1>1. /\ On(q) = On(r) \ {s} /\ \A u \in Stream \ {s} : q.of[u] = r.of[u]
      /\ SameTimer(r.of[s], q.of[s])
      /\ q.rto_now_ts = r.rto_now_ts /\ q.rto_now_idx = r.rto_now_idx
  BY RemoveIs
<1>2. \A u \in Stream : RtoOK(q.of[u])
  <2>1. \A u \in Stream : RtoOK(r.of[u])
    BY DEF OnTime
  <2>2. RtoOK(q.of[s])
    BY <1>1, <2>1, SameRto
  <2> QED
    BY <1>1, <2>1, <2>2
<1>3. \A u \in On(q) \ {} : u \in Stream \ {s}
  BY <1>1 DEF On
<1> QED
  BY <1>1, <1>2, <1>3, FrameTime

\* A whole set of exemptions may be larger than necessary.
LEMMA Exempt ==
    ASSUME NEW r, NEW t, OnTime(r, t, {}), NEW X
    PROVE  OnTime(r, t, X)
BY DEF OnTime

LEMMA InitialRto ==
    /\ RtoOK(New) /\ RtoOK(Dead)
    /\ \A e \in Estimates : 1 <= e /\ e <= MaxRto /\ e \in Int
<1>1. 0 \in 0 .. MaxBackoff /\ MaxBackoff \in Nat /\ Initial \in Nat
  BY WheelAssumption
<1>2. Power[0] = 1
  BY <1>1, PowerIs
<1>3. \A e \in Estimates \cup {Initial} : e \in Nat /\ e >= 1 /\ e * Power[0] <= MaxRto
  BY <1>1, MaxRtoIs
<1>4. \A e \in Estimates \cup {Initial} : e \in Nat /\ e >= 1 /\ e <= MaxRto
  BY <1>2, <1>3
<1>5. Min({0, MaxBackoff}) = 0
  <2>1. \E x \in {0, MaxBackoff} : \A y \in {0, MaxBackoff} : x <= y
    BY <1>1
  <2> DEFINE x == Min({0, MaxBackoff})
  <2>2. x \in {0, MaxBackoff} /\ \A y \in {0, MaxBackoff} : x <= y
    BY <2>1, Zenon DEF Min
  <2> HIDE DEF x
  <2>3. x = 0
    BY <1>1, <2>2
  <2> QED
    BY <2>3 DEF x
<1>6. /\ New.nrtx = 0 /\ New.rto = Initial /\ ~New.established
      /\ Dead.nrtx = 0 /\ Dead.rto = Initial /\ ~Dead.established
  BY DEF New, Dead
<1>7. Initial <= Initial * Power[Min({0, MaxBackoff})]
  BY <1>1, <1>2, <1>5
<1> QED
  BY <1>4, <1>6, <1>7 DEF RtoOK

LEMMA DestroyTime ==
    ASSUME NEW r, WheelOK(r), NEW s \in Stream, NEW t, OnTime(r, t, {}),
           NEW q, q = DestroyTCPStream(r, s)
    PROVE  OnTime(q, t, {}) /\ \A low : Low(r, t, low) => Low(q, t, low)
<1> DEFINE p == RemoveFromRTOList(r, s)
<1>1. /\ WheelOK(p) /\ On(p) = On(r) \ {s}
      /\ OnTime(p, t, {}) /\ \A low : Low(r, t, low) => Low(p, t, low)
  BY RemoveIs, RemoveTime, Exempt
<1>2. q = [p EXCEPT !.of[s] = Dead]
  BY DEF DestroyTCPStream
<1> HIDE DEF p
<1>3. Dead \in StreamRec /\ Dead.on_rto_idx = -1 /\ RtoOK(Dead)
  BY NewStream, InitialRto
<1>4. s \notin On(p)
  BY <1>1
<1>5. p.of[s].on_rto_idx = -1
  BY <1>1, <1>4, Constants DEF WheelOK, StoreRec, StreamRec, SlotOrNone, On, Slot
<1>6. Touched(p, s, Dead, q)
  BY <1>2, <1>3, <1>4, <1>5 DEF Touched
<1>7. OnTime(q, t, {}) /\ \A low : Low(p, t, low) => Low(q, t, low)
  BY <1>1, <1>3, <1>4, <1>6, TouchTime
<1> QED
  BY <1>1, <1>7

\* A timer is started unless it runs.
LEMMA TransmitTime ==
    ASSUME NEW r, WheelOK(r), NEW s \in Stream, r.of[s].live, ts \in Int,
           TimeIsLong, OnTime(r, ts, {}), NEW q, q = Transmit(r, s)
    PROVE  /\ OnTime(q, ts, {})
           /\ \A low \in Int : low <= 1 /\ Low(r, ts, low) => Low(q, ts, low)
           /\ \A u \in Stream \ {s} : q.of[u] = r.of[u]
           /\ s \notin On(r) =>
                /\ On(q) = On(r) \cup {s}
                /\ Left(q, s, ts) = r.of[s].rto
                /\ On(r) = {} => Lead(q, ts) = r.of[s].rto
                /\ On(r) # {} => q.rto_now_ts = r.rto_now_ts /\ q.rto_now_idx = r.rto_now_idx
                /\ \A j \in Slot : q.rto_list[j] = r.rto_list[j]
                                   \/ q.rto_list[j] = Append(r.rto_list[j], s)
<1> DEFINE o == [r.of[s] EXCEPT !.unacked = TRUE]
           p == [r EXCEPT !.of[s] = o]
           a == (ts + r.of[s].rto) % W
<1>1. r \in StoreRec /\ r.of \in [Stream -> StreamRec] /\ r.of[s] \in StreamRec
  BY DEF WheelOK, StoreRec
<1>2. /\ o \in StreamRec /\ o.on_rto_idx = r.of[s].on_rto_idx
      /\ o.armed = r.of[s].armed /\ o.live /\ o.rto = r.of[s].rto
      /\ SameTimer(r.of[s], o)
  BY <1>1 DEF StreamRec, SameTimer
<1>3. q = AddtoRTOList(p, s, a)
  BY <1>1 DEF Transmit, StoreRec
<1>4. a \in Int
  <2>1. ts + r.of[s].rto \in Int
    BY <1>1 DEF StreamRec
  <2> QED
    BY <2>1, ModW
<1>5. RtoOK(o)
  <2>1. RtoOK(r.of[s])
    BY DEF OnTime
  <2> HIDE DEF o
  <2> QED
    BY <1>2, <2>1, SameRto
<1>6. p = [r EXCEPT !.of[s] = o]
  OBVIOUS
<1> HIDE DEF o
<1>t. Touched(r, s, o, p)
  BY <1>2, <1>6 DEF Touched
<1> HIDE DEF p
<1>7. OnTime(p, ts, {}) /\ \A low : Low(r, ts, low) => Low(p, ts, low)
  BY <1>2, <1>5, <1>t, TouchTime
<1>8. /\ WheelOK(p) /\ On(p) = On(r) /\ p.of[s] = o
      /\ \A u \in Stream \ {s} : p.of[u] = r.of[u]
      /\ p.rto_list = r.rto_list
      /\ p.rto_now_idx = r.rto_now_idx /\ p.rto_now_ts = r.rto_now_ts
  BY <1>2, <1>t, TouchedIs
<1>9. CASE s \in On(r)
  <2>1. q = p
    BY <1>3, <1>8, <1>9, AddAgain
  <2> QED
    BY <1>7, <1>8, <1>9, <2>1
<1>10. CASE s \notin On(r)
  <2>1. Diff(a, ts) = p.of[s].rto
    <3>1. RtoOK(r.of[s]) /\ r.of[s].rto \in Int
      BY <1>1 DEF OnTime, StreamRec
    <3>2. Diff(a, ts) = r.of[s].rto
      BY <3>1, DueIs DEF RtoOK
    <3> QED
      BY <1>2, <1>8, <3>2
  <2> HIDE DEF a
  <2>b. WheelOK(p) /\ s \notin On(p) /\ p.of[s].live /\ q = AddtoRTOList(p, s, a)
    BY <1>2, <1>3, <1>8, <1>10
  <2>2. /\ OnTime(q, ts, {}) /\ Left(q, s, ts) = p.of[s].rto
        /\ On(p) = {} => Lead(q, ts) = p.of[s].rto
        /\ \A low \in Int : low <= 1 /\ Low(p, ts, low) => Low(q, ts, low)
    BY <1>4, <1>7, <2>1, <2>b, AddTime
  <2>3. /\ WheelOK(q) /\ On(q) = On(p) \cup {s}
        /\ \A u \in Stream \ {s} : q.of[u] = p.of[u]
        /\ q.of[s].armed = a /\ SameTimer(p.of[s], q.of[s])
        /\ On(p) = {} => q.rto_now_ts = a /\ q.rto_now_idx = 0 /\ q.of[s].on_rto_idx = 0
        /\ On(p) # {} => q.rto_now_ts = p.rto_now_ts /\ q.rto_now_idx = p.rto_now_idx
        /\ \A j \in Slot : q.rto_list[j] = p.rto_list[j]
                           \/ q.rto_list[j] = Append(p.rto_list[j], s)
    BY <1>4, <2>b, AddIs
  <2> QED
    BY <1>2, <1>7, <1>8, <2>2, <2>3
<1> QED
  BY <1>9, <1>10


\* A round trip is measured.
Measured(r, s, e) ==
    [r EXCEPT !.of[s].established = TRUE, !.of[s].estimate = e, !.of[s].rto = e]

\* An acknowledgement starts the timer again with what was measured.
LEMMA UpdateTime ==
    ASSUME NEW r, WheelOK(r), NEW s \in Stream, r.of[s].live, ts \in Int,
           TimeIsLong, OnTime(r, ts, {}), NEW e \in Estimates, NEW all \in BOOLEAN,
           NEW m, m = Measured(r, s, e),
           NEW q, q = UpdateRetransmissionTimer(m, s, all)
    PROVE  /\ OnTime(q, ts, {})
           /\ \A low \in Int : low <= 1 /\ Low(r, ts, low) => Low(q, ts, low)
<1> DEFINE o == [r.of[s] EXCEPT !.established = TRUE, !.estimate = e, !.rto = e]
<1>1. r \in StoreRec /\ r.of \in [Stream -> StreamRec] /\ r.of[s] \in StreamRec
  BY DEF WheelOK, StoreRec
<1>2. 1 <= e /\ e <= MaxRto /\ e \in Int
  BY InitialRto
<1>3. m = [r EXCEPT !.of[s] = o]
  BY <1>1 DEF Measured, StoreRec
<1>4. /\ o \in StreamRec /\ o.on_rto_idx = r.of[s].on_rto_idx
      /\ o.armed = r.of[s].armed /\ o.live /\ o.rto = e /\ o.estimate = e
      /\ o.established /\ o.nrtx = r.of[s].nrtx
  BY <1>1, <1>2 DEF StreamRec
<1> HIDE DEF o
<1>5. r.of[s].nrtx >= 0
  BY DEF OnTime, RtoOK
<1>6. RtoOK(o)
  BY <1>2, <1>4, <1>5 DEF RtoOK
<1>7. Touched(r, s, o, m)
  BY <1>3, <1>4 DEF Touched
<1>8. OnTime(r, ts, {s})
  BY Exempt
<1>9. OnTime(m, ts, {s}) /\ \A low : Low(r, ts, low) => Low(m, ts, low)
  BY <1>4, <1>6, <1>7, <1>8, TouchTime
<1>10. WheelOK(m) /\ On(m) = On(r) /\ m.of[s] = o
  BY <1>4, <1>7, TouchedIs
<1> DEFINE z == 0
           u == [o EXCEPT !.nrtx = z]
           p == [m EXCEPT !.of[s] = u]
           v == RemoveFromRTOList(p, s)
<1>11. m \in StoreRec /\ m.of \in [Stream -> StreamRec] /\ z \in Nat
  BY <1>10 DEF WheelOK, StoreRec
<1> HIDE DEF z
<1>12. /\ u \in StreamRec /\ u.on_rto_idx = o.on_rto_idx
       /\ u.armed = o.armed /\ u.live /\ u.rto = e /\ u.estimate = e
       /\ u.established /\ u.nrtx = z
  BY <1>4, <1>11 DEF StreamRec
<1>13. [m EXCEPT !.of[s].nrtx = 0] = p
  BY <1>10, <1>11 DEF StoreRec, z
<1> HIDE DEF u
<1>14. RtoOK(u)
  BY <1>2, <1>12 DEF RtoOK, z
<1>15. Touched(m, s, u, p)
  BY <1>10, <1>12 DEF Touched
<1> HIDE DEF p
<1>16. OnTime(p, ts, {s}) /\ \A low : Low(m, ts, low) => Low(p, ts, low)
  BY <1>9, <1>10, <1>12, <1>14, <1>15, TouchTime
<1>17. WheelOK(p) /\ On(p) = On(m) /\ p.of[s] = u
  BY <1>10, <1>12, <1>15, TouchedIs
<1>18. OnTime(v, ts, {}) /\ \A low : Low(p, ts, low) => Low(v, ts, low)
  BY <1>16, <1>17, RemoveTime
<1>19. /\ WheelOK(v) /\ On(v) = On(p) \ {s} /\ SameTimer(p.of[s], v.of[s])
       /\ v.of[s].live = p.of[s].live
  BY <1>17, RemoveIs
<1> DEFINE a == (ts + v.of[s].rto) % W
<1>20. q = IF all THEN [v EXCEPT !.of[s].unacked = FALSE] ELSE AddtoRTOList(v, s, a)
  BY <1>13 DEF UpdateRetransmissionTimer
<1> HIDE DEF v
<1>21. v \in StoreRec /\ v.of \in [Stream -> StreamRec] /\ v.of[s] \in StreamRec /\ v.of[s].live
  BY <1>12, <1>17, <1>19 DEF WheelOK, StoreRec
<1>22. s \notin On(v)
  BY <1>19
<1>23. CASE all
  <2> DEFINE w == [v.of[s] EXCEPT !.unacked = FALSE]
  <2>1. /\ w \in StreamRec /\ w.on_rto_idx = v.of[s].on_rto_idx
        /\ w.armed = v.of[s].armed /\ w.live /\ SameTimer(v.of[s], w)
    BY <1>21 DEF StreamRec, SameTimer
  <2>2. q = [v EXCEPT !.of[s] = w]
    BY <1>20, <1>21, <1>23 DEF StoreRec
  <2> HIDE DEF w
  <2>3. Touched(v, s, w, q)
    BY <2>1, <2>2 DEF Touched
  <2>4. RtoOK(v.of[s])
    BY <1>18 DEF OnTime
  <2>5. RtoOK(w)
    BY <2>1, <2>4, SameRto
  <2>6. OnTime(q, ts, {}) /\ \A low : Low(v, ts, low) => Low(q, ts, low)
    BY <1>18, <1>19, <1>22, <2>1, <2>3, <2>5, TouchTime
  <2> QED
    BY <1>9, <1>16, <1>18, <2>6
<1>24. CASE ~all
  <2>1. a \in Int /\ Diff(a, ts) = v.of[s].rto
    <3>1. RtoOK(v.of[s]) /\ v.of[s].rto \in Int
      BY <1>18, <1>21 DEF OnTime, StreamRec
    <3> QED
      BY <3>1, DueIs DEF RtoOK
  <2> HIDE DEF a
  <2>b. q = AddtoRTOList(v, s, a)
    BY <1>20, <1>24
  <2>2. OnTime(q, ts, {}) /\ \A low \in Int : low <= 1 /\ Low(v, ts, low) => Low(q, ts, low)
    BY <1>18, <1>19, <1>21, <1>22, <2>1, <2>b, AddTime
  <2> QED
    BY <1>9, <1>16, <1>18, <2>2
<1> QED
  BY <1>23, <1>24

\* What a timeout does to the wheel: the stream is off it, or put back.
LEMMA HandleTime ==
    ASSUME NEW r, WheelOK(r), NEW s \in Stream, s \notin On(r), r.of[s].live,
           ts \in Int, TimeIsLong, OnTime(r, ts, {}), NEW now \in BOOLEAN,
           NEW q, q = HandleRTO(r, s, now)
    PROVE  /\ OnTime(q, ts, {})
           /\ \A u \in Stream \ {s} : q.of[u] = r.of[u]
           /\ On(q) \subseteq On(r) \cup {s}
           /\ s \in On(q) => \E rto \in 1 .. MaxRto :
                                /\ Left(q, s, ts) = rto
                                /\ On(r) = {} => Lead(q, ts) = rto
           /\ On(r) # {} \/ s \notin On(q) =>
                q.rto_now_ts = r.rto_now_ts /\ q.rto_now_idx = r.rto_now_idx
           /\ \A j \in Slot : q.rto_list[j] = r.rto_list[j]
                              \/ q.rto_list[j] = Append(r.rto_list[j], s)
<1>1. CASE r.of[s].nrtx = MaxRtx
  <2>1. q = DestroyTCPStream(r, s)
    BY <1>1 DEF HandleRTO
  <2>2. OnTime(q, ts, {})
    BY <2>1, DestroyTime
  <2>3. RemoveFromRTOList(r, s) = r
    BY RemoveIs
  <2>4. q = [r EXCEPT !.of[s] = Dead]
    BY <2>1, <2>3 DEF DestroyTCPStream
  <2>5. Dead \in StreamRec /\ Dead.on_rto_idx = -1
    BY NewStream
  <2>6. r.of[s].on_rto_idx = -1
    BY Constants DEF WheelOK, StoreRec, StreamRec, SlotOrNone, On, Slot
  <2>7. Touched(r, s, Dead, q)
    BY <2>4, <2>5, <2>6 DEF Touched
  <2>8. /\ On(q) = On(r)
        /\ \A u \in Stream \ {s} : q.of[u] = r.of[u]
        /\ q.rto_list = r.rto_list
        /\ q.rto_now_idx = r.rto_now_idx /\ q.rto_now_ts = r.rto_now_ts
    BY <2>5, <2>7, TouchedIs
  <2> QED
    BY <2>2, <2>8
<1>2. CASE r.of[s].nrtx # MaxRtx
  <2> DEFINE o == [r.of[s] EXCEPT !.nrtx = @ + 1]
             u == [o EXCEPT !.rto = Backoff(o)]
             p == [r EXCEPT !.of[s] = u]
  <2>1. r.of[s] \in StreamRec /\ r.of[s].nrtx \in Nat
    BY DEF WheelOK, StoreRec, StreamRec
  <2>2. o = [r.of[s] EXCEPT !.nrtx = r.of[s].nrtx + 1]
    BY <2>1
  <2>3. RtoOK(r.of[s])
    BY DEF OnTime
  <2>4. RtoOK(u)
    <3> HIDE DEF o
    <3> QED
      BY <2>1, <2>2, <2>3, BackoffOK
  <2>5. PICK n \in Nat : n = r.of[s].nrtx + 1
    BY <2>1
  <2>6. o = [r.of[s] EXCEPT !.nrtx = n]
    BY <2>1, <2>5
  <2>7. /\ o \in StreamRec /\ o.on_rto_idx = r.of[s].on_rto_idx
        /\ o.armed = r.of[s].armed /\ o.live
    BY <2>1, <2>6 DEF StreamRec
  <2>8. q = IF now THEN Transmit(p, s) ELSE p
    BY <1>2 DEF HandleRTO
  <2> HIDE DEF o
  <2>9. Backoff(o) \in Int
    BY <2>7, BackoffInt
  <2>10. /\ u \in StreamRec /\ u.on_rto_idx = r.of[s].on_rto_idx
         /\ u.armed = r.of[s].armed /\ u.live
    BY <2>7, <2>9 DEF StreamRec
  <2> HIDE DEF u
  <2>11. Touched(r, s, u, p)
    BY <2>10 DEF Touched
  <2> HIDE DEF p
  <2>12. OnTime(p, ts, {})
    BY <2>4, <2>10, <2>11, TouchTime
  <2>13. /\ WheelOK(p) /\ On(p) = On(r) /\ p.of[s] = u
         /\ \A x \in Stream \ {s} : p.of[x] = r.of[x]
         /\ p.rto_list = r.rto_list
         /\ p.rto_now_idx = r.rto_now_idx /\ p.rto_now_ts = r.rto_now_ts
    BY <2>10, <2>11, TouchedIs
  <2>a. WheelOK(p)
    BY <2>13
  <2>14. CASE ~now
    BY <2>8, <2>12, <2>13, <2>14
  <2>15. CASE now
    <3>1. q = Transmit(p, s) /\ p.of[s].live /\ s \notin On(p)
      BY <2>8, <2>10, <2>13, <2>15
    <3>2. /\ OnTime(q, ts, {})
          /\ \A x \in Stream \ {s} : q.of[x] = p.of[x]
          /\ On(q) = On(p) \cup {s}
          /\ Left(q, s, ts) = p.of[s].rto
          /\ On(p) = {} => Lead(q, ts) = p.of[s].rto
          /\ On(p) # {} => q.rto_now_ts = p.rto_now_ts /\ q.rto_now_idx = p.rto_now_idx
          /\ \A j \in Slot : q.rto_list[j] = p.rto_list[j]
                             \/ q.rto_list[j] = Append(p.rto_list[j], s)
      BY <2>12, <2>a, <3>1, TransmitTime
    <3>3. u.rto \in 1 .. MaxRto
      BY <2>4, <2>10 DEF RtoOK, StreamRec
    <3> QED
      BY <2>13, <3>1, <3>2, <3>3
  <2> QED
    BY <2>14, <2>15
<1> QED
  BY <1>1, <1>2

-----------------------------------------------------------------------------
(* The rounds and the times.                                               *)

\* Nobody is in the slot of the wheel if its list is empty.
LEMMA EmptySlot ==
    ASSUME NEW r, WheelOK(r), r.rto_list[r.rto_now_idx] = <<>>, NEW s \in On(r)
    PROVE  Gap(r, s) # 0
<1>1. ASSUME Gap(r, s) = 0 PROVE FALSE
  <2>1. r.of[s].on_rto_idx = r.rto_now_idx
    BY <1>1, GapZero
  <2>2. \E n \in 1 .. Len(r.rto_list[r.of[s].on_rto_idx]) : TRUE
    BY DEF WheelOK, Listed
  <2>3. Len(<<>>) = 0
    OBVIOUS
  <2> QED
    BY <2>1, <2>2, <2>3
<1> QED
  BY <1>1

LEMMA TickTime ==
    ASSUME NEW r, WheelOK(r), NEW t \in Int, TimeIsLong, OnTime(r, t, {}),
           Low(r, t, 1), NEW d \in 0 .. MaxGap, NEW t1, t1 = (t + d) % W
    PROVE  OnTime(r, t1, {}) /\ Low(r, t1, 1 - MaxGap)
<1>1. /\ MaxGap \in Nat /\ d \in Int /\ 0 <= d /\ d <= MaxGap /\ HalfW \in Int
      /\ Turns * RTO_HASH \in Nat /\ MaxRto <= Turns * RTO_HASH /\ MaxRto \in Nat
      /\ Turns * RTO_HASH + MaxGap + 2 <= HalfW
  BY Long
<1> DEFINE tr == Turns * RTO_HASH
<1>2. ASSUME On(r) # {}
      PROVE  /\ Lead(r, t1) = Lead(r, t) - d /\ Lead(r, t) \in Int
             /\ 1 <= Lead(r, t) /\ Lead(r, t) <= MaxRto + 1
  <2>1. r.rto_now_ts \in Int
    BY DEF WheelOK, StoreRec
  <2>2. Lead(r, t) \in Int
    BY <2>1, DiffRange DEF Lead
  <2>3. 1 <= Lead(r, t) /\ Lead(r, t) <= MaxRto + 1
    BY <1>2 DEF Low, OnTime
  <2>4. -HalfW <= Lead(r, t) - d /\ Lead(r, t) - d < HalfW
    <3> HIDE DEF tr
    <3> QED
      BY <1>1, <2>2, <2>3
  <2>5. Lead(r, t1) = Lead(r, t) - d
    BY <1>1, <2>1, <2>4, DiffTick DEF Lead
  <2> QED
    BY <2>2, <2>3, <2>5
<1>3. ASSUME NEW s \in On(r)
      PROVE  InTime(r, s, t1)
  <2>1. InTime(r, s, t) /\ s \in Stream
    BY DEF OnTime, On
  <2>2. /\ Lead(r, t) \in Int /\ Left(r, s, t) \in Int /\ Gap(r, s) \in Int
    BY TimesOf
  <2>3. Lead(r, t) - tr <= Left(r, s, t)
    BY <2>1, LeftLow
  <2>4. Left(r, s, t) <= r.of[s].rto /\ r.of[s].rto <= MaxRto /\ r.of[s].rto \in Int
    BY <2>1 DEF InTime, OnTime, RtoOK, WheelOK, StoreRec, StreamRec
  <2>5. Lead(r, t1) = Lead(r, t) - d /\ 1 <= Lead(r, t)
    BY <1>2
  <2> HIDE DEF tr
  <2>6. -HalfW <= Left(r, s, t) - d /\ Left(r, s, t) - d < HalfW
    BY <1>1, <2>2, <2>3, <2>4, <2>5 DEF tr
  <2>7. r.of[s].armed \in Int
    BY <2>1 DEF WheelOK, StoreRec, StreamRec
  <2>8. Left(r, s, t1) = Left(r, s, t) - d
    BY <1>1, <2>6, <2>7, DiffTick DEF Left
  <2>9. Lead(r, t) + Gap(r, s) - Left(r, s, t) <= tr
    BY <2>1 DEF InTime, tr
  <2>10. Lead(r, t1) + Gap(r, s) - Left(r, s, t1) <= tr
    BY <1>1, <2>2, <2>5, <2>8, <2>9
  <2>11. Left(r, s, t1) <= r.of[s].rto
    BY <1>1, <2>2, <2>4, <2>8
  <2> QED
    BY <2>10, <2>11 DEF InTime, tr
<1>4. On(r) # {} => 1 - MaxGap <= Lead(r, t1) /\ Lead(r, t1) <= MaxRto + 1
  BY <1>1, <1>2
<1> QED
  BY <1>3, <1>4 DEF OnTime, Low

LEMMA SlotsTime ==
    ASSUME NEW r, WheelOK(r), ts \in Int, TimeIsLong,
           1 - MaxGap <= Lead(r, ts), Lead(r, ts) <= MaxRto + 1, Slots(r)
    PROVE  \/ phase' = "send" /\ 1 <= Lead(r, ts)
           \/ phase' = "check" /\ WalkAt(r, ts, walk')
<1>1. r.rto_now_ts \in Int /\ r.rto_now_idx \in Slot /\ r.rto_list \in [Slot -> Seq(Stream)]
  BY DEF WheelOK, StoreRec
<1>2. Lead(r, ts) \in Int
  BY <1>1, DiffRange DEF Lead
<1>3. /\ MaxGap \in Nat /\ HalfW \in Int /\ Turns * RTO_HASH \in Nat /\ MaxRto \in Nat
      /\ MaxRto >= 1 /\ Turns * RTO_HASH + MaxGap + 2 <= HalfW
  BY Long
<1>4. -HalfW < Lead(r, ts)
  <2> DEFINE tr == Turns * RTO_HASH
  <2>1. tr \in Nat /\ tr + MaxGap + 2 <= HalfW
    BY <1>3
  <2> HIDE DEF tr
  <2> QED
    BY <1>2, <1>3, <2>1
<1>5. Diff(ts, r.rto_now_ts) = -Lead(r, ts)
  BY <1>1, <1>4, DiffBack DEF Lead
<1>6. CASE -Lead(r, ts) < 0
  <2>1. phase' = "send"
    BY <1>5, <1>6 DEF Slots
  <2> QED
    BY <1>2, <1>6, <2>1
<1>7. CASE ~(-Lead(r, ts) < 0)
  <2> DEFINE l == r.rto_list[r.rto_now_idx]
  <2>1. phase' = "check" /\ walk' = IF l = <<>> THEN None ELSE Head(l)
    BY <1>5, <1>7 DEF Slots
  <2>2. Lead(r, ts) <= 0
    BY <1>2, <1>7
  <2>3. l \in Seq(Stream)
    BY <1>1
  <2>4. CASE l = <<>>
    <3>1. \A s \in On(r) : Gap(r, s) # 0
      BY <2>4, EmptySlot
    <3>2. Lead(r, ts) <= MaxRto
      BY <1>2, <1>3, <2>2
    <3> QED
      BY <2>1, <2>4, <3>1, <3>2 DEF WalkAt
  <2>5. CASE l # <<>>
    <3>1. walk' = Head(l) /\ Head(l) \in Stream
      <4> HIDE DEF l
      <4> QED
        BY <2>1, <2>3, <2>5
    <3>2. walk' # None
      BY <3>1, WheelAssumption
    <3>3. Lead(r, ts) <= MaxRto
      BY <1>2, <1>3, <2>2
    <3> QED
      BY <2>1, <2>2, <2>5, <3>1, <3>2, <3>3 DEF WalkAt
  <2> QED
    BY <2>4, <2>5
<1> QED
  BY <1>6, <1>7

\* One slot on: what was passed is met a turn later.
LEMMA GapNext ==
    ASSUME NEW r, WheelOK(r), NEW s \in On(r), NEW q, q = NextSlot(r)
    PROVE  Gap(q, s) = IF Gap(r, s) = 0 THEN RTO_HASH - 1 ELSE Gap(r, s) - 1
<1> DEFINE idx == r.rto_now_idx  i == r.of[s].on_rto_idx
           idx1 == (idx + 1) % RTO_HASH
           g == Gap(r, s)  h == Gap(q, s)
<1>1. idx \in Int /\ i \in Int
  BY Constants DEF On, WheelOK, StoreRec, StreamRec, SlotOrNone, Slot
<1>2. q.rto_now_idx = idx1 /\ q.of = r.of
  BY DEF NextSlot, WheelOK, StoreRec
<1>3. idx1 \in Int /\ Cong(idx1, idx + 1)
  BY <1>1, ModHash
<1>4. g \in Int /\ g \in Slot /\ Cong(g, i - idx)
  BY <1>1, ModHash DEF Gap
<1>a. h = (i - idx1) % RTO_HASH
  BY <1>2 DEF Gap
<1> HIDE DEF idx1
<1>5. h \in Int /\ h \in Slot /\ Cong(h, i - idx1)
  <2> HIDE DEF h, idx, i
  <2>1. i - idx1 \in Int
    BY <1>1, <1>3
  <2> QED
    BY <1>a, <2>1, ModHash
<1> HIDE DEF idx, i, g, h
<1>6. PICK k1 \in Int : idx1 - (idx + 1) = k1 * RTO_HASH
  BY <1>3 DEF Cong
<1>7. PICK k2 \in Int : g - (i - idx) = k2 * RTO_HASH
  BY <1>4 DEF Cong
<1>8. PICK k3 \in Int : h - (i - idx1) = k3 * RTO_HASH
  BY <1>5 DEF Cong
<1>9. h - (g - 1) = (k3 - k2 - k1) * RTO_HASH
  BY <1>1, <1>3, <1>4, <1>5, <1>6, <1>7, <1>8, Constants
<1>10. RTO_HASH \in Int /\ RTO_HASH > 0 /\ 0 <= g /\ g < RTO_HASH /\ 0 <= h /\ h < RTO_HASH
  BY <1>4, <1>5, Constants DEF Slot
<1>11. CASE g = 0
  <2>1. h - (RTO_HASH - 1) = (k3 - k2 - k1 - 1) * RTO_HASH /\ k3 - k2 - k1 - 1 \in Int
    BY <1>4, <1>5, <1>9, <1>10, <1>11
  <2>2. -RTO_HASH < h - (RTO_HASH - 1) /\ h - (RTO_HASH - 1) < RTO_HASH
        /\ RTO_HASH - 1 \in Int
    BY <1>5, <1>10
  <2>3. h = RTO_HASH - 1
    BY <1>5, <1>10, <2>1, <2>2, SameMod
  <2> QED
    BY <1>11, <2>3 DEF g, h
<1>12. CASE g # 0
  <2>1. -RTO_HASH < h - (g - 1) /\ h - (g - 1) < RTO_HASH /\ g - 1 \in Int
        /\ k3 - k2 - k1 \in Int
    BY <1>4, <1>5, <1>10, <1>12
  <2>2. h = g - 1
    BY <1>5, <1>9, <1>10, <2>1, SameMod
  <2> QED
    BY <1>12, <2>2 DEF g, h
<1> QED
  BY <1>11, <1>12

LEMMA AdvanceTime ==
    ASSUME NEW r, WheelOK(r), ts \in Int, TimeIsLong, OnTime(r, ts, {}),
           WalkAt(r, ts, None), NEW q, q = NextSlot(r)
    PROVE  /\ OnTime(q, ts, {})
           /\ 1 - MaxGap <= Lead(q, ts) /\ Lead(q, ts) <= MaxRto + 1
<1>1. /\ 1 - MaxGap <= Lead(r, ts) /\ Lead(r, ts) <= MaxRto
      /\ \A s \in On(r) : Gap(r, s) = 0 => Lead(r, ts) <= Left(r, s, ts)
  BY DEF WalkAt
<1>2. /\ MaxGap \in Nat /\ HalfW \in Int /\ Turns * RTO_HASH \in Nat /\ MaxRto \in Nat
      /\ MaxRto <= Turns * RTO_HASH /\ Turns * RTO_HASH + MaxGap + 2 <= HalfW
  BY Long
<1> DEFINE tr == Turns * RTO_HASH
<1>3. r.rto_now_ts \in Int
  BY DEF WheelOK, StoreRec
<1>4. Lead(r, ts) \in Int
  BY <1>3, DiffRange DEF Lead
<1>5. q.rto_now_ts = (r.rto_now_ts + 1) % W /\ q.of = r.of
  BY DEF NextSlot, WheelOK, StoreRec
<1>6. Lead(q, ts) = Lead(r, ts) + 1
  <2>1. -HalfW <= Lead(r, ts) + 1 /\ Lead(r, ts) + 1 < HalfW
    <3>1. tr \in Nat /\ MaxRto <= tr /\ tr + MaxGap + 2 <= HalfW
      BY <1>2
    <3> HIDE DEF tr
    <3> QED
      BY <1>1, <1>2, <1>4, <3>1
  <2> QED
    BY <1>3, <1>5, <2>1, DiffPut DEF Lead
<1>7. On(q) = On(r)
  BY <1>5 DEF On
<1>8. ASSUME NEW s \in On(r)
      PROVE  InTime(q, s, ts)
  <2>1. InTime(r, s, ts)
    BY DEF OnTime
  <2>2. /\ Left(r, s, ts) \in Int /\ Gap(r, s) \in Int
    BY TimesOf
  <2>3. Left(q, s, ts) = Left(r, s, ts)
    BY <1>5 DEF Left
  <2>4. Gap(q, s) = IF Gap(r, s) = 0 THEN RTO_HASH - 1 ELSE Gap(r, s) - 1
    BY GapNext
  <2>5. RTO_HASH <= tr /\ RTO_HASH \in Int /\ tr \in Nat
    <3>1. Turns \in Nat /\ Turns >= 1 /\ RTO_HASH \in Int /\ RTO_HASH > 0
      BY TurnsIs, Constants
    <3>2. 1 * RTO_HASH <= Turns * RTO_HASH
      BY <3>1
    <3> QED
      BY <1>2, <3>1, <3>2
  <2>6. Lead(r, ts) + Gap(r, s) - Left(r, s, ts) <= tr /\ Left(r, s, ts) <= r.of[s].rto
    BY <2>1 DEF InTime, tr
  <2> HIDE DEF tr
  <2>7. Lead(q, ts) + Gap(q, s) - Left(q, s, ts) <= tr
    <3>1. CASE Gap(r, s) = 0
      BY <1>1, <1>4, <1>6, <2>2, <2>3, <2>4, <2>5, <3>1
    <3>2. CASE Gap(r, s) # 0
      BY <1>4, <1>6, <2>2, <2>3, <2>4, <2>5, <2>6, <3>2
    <3> QED
      BY <3>1, <3>2
  <2> QED
    BY <1>5, <2>3, <2>6, <2>7 DEF InTime, tr
<1>9. 1 - MaxGap <= Lead(q, ts) /\ Lead(q, ts) <= MaxRto + 1
  BY <1>1, <1>2, <1>4, <1>6
<1> QED
  BY <1>5, <1>7, <1>8, <1>9 DEF OnTime


LEMMA FireTime ==
    ASSUME WheelOK(st), ts \in Int, TimeIsLong, OnTime(st, ts, {}),
           WalkAt(st, ts, walk), Fire
    PROVE  OnTime(st', ts, {}) /\ WalkAt(st', ts, walk')
<1> DEFINE s == walk
           idx == st.rto_now_idx
           l == st.rto_list[idx]
           p == RemoveFromRTOList(st, s)
           c == p.rto_list[idx]
<1>1. /\ idx \in Slot /\ l \in Seq(Stream) /\ st.of \in [Stream -> StreamRec]
  BY DEF WheelOK, StoreRec
<1>2. /\ s # None /\ l # <<>> /\ s = Head(l) /\ Lead(st, ts) <= 0
      /\ 1 - MaxGap <= Lead(st, ts)
  BY DEF WalkAt, Fire
<1>3. Len(l) \in Nat /\ Len(l) >= 1 /\ s = l[1] /\ s \in Stream /\ 1 \in 1 .. Len(l)
  <2> HIDE DEF l, s
  <2> QED
    BY <1>1, <1>2
<1>4. st.of[s].on_rto_idx = idx
  BY <1>1, <1>3 DEF WheelOK, Marked
<1>5. s \in On(st) /\ st.of[s].live
  <2>1. s \in On(st)
    BY <1>1, <1>3, <1>4, Constants DEF On, Slot
  <2> QED
    BY <1>3, <2>1, NewStream DEF WheelOK, Buried, On
<1>6. \A n, k \in 1 .. Len(l) : l[n] = l[k] => n = k
  BY <1>1 DEF WheelOK, Once
<1>7. Lead(st, ts) \in Int
  <2>1. st.rto_now_ts \in Int
    BY DEF WheelOK, StoreRec
  <2> QED
    BY <2>1, DiffRange DEF Lead
<1>8. /\ MaxRto \in Nat /\ MaxRto >= 1 /\ MaxGap \in Nat
  BY Long
<1>9. /\ WheelOK(p) /\ On(p) = On(st) \ {s}
      /\ \A u \in Stream \ {s} : p.of[u] = st.of[u]
      /\ p.of[s].live = st.of[s].live
      /\ p.rto_now_ts = st.rto_now_ts /\ p.rto_now_idx = st.rto_now_idx
  BY <1>3, RemoveIs
<1>10. c \in Seq(Stream) /\ Len(c) = Len(l) - 1 /\ \A n \in 1 .. Len(c) : c[n] = l[n + 1]
  <2>1. IsTail(c, l)
    <3>1. l # <<>> /\ Head(l) = s
      BY <1>2
    <3>2. p = RemoveFromRTOList(st, s)
      OBVIOUS
    <3> HIDE DEF p, s, idx
    <3> QED
      BY <1>1, <1>3, <1>4, <3>1, <3>2, RemoveHead
  <2> QED
    BY <2>1 DEF IsTail
<1>11. OnTime(p, ts, {})
  BY <1>3, Exempt, RemoveTime
<1>12. PICK now \in BOOLEAN : st' = HandleRTO(p, s, now)
  BY DEF Fire
<1>13. walk' = IF Place(l, s) = Len(l) THEN None ELSE l[Place(l, s) + 1]
  BY <1>4 DEF Fire, Next1
<1> HIDE DEF p, l, c, s
<1> DEFINE q == st'
<1>14. /\ OnTime(q, ts, {})
       /\ \A u \in Stream \ {s} : q.of[u] = p.of[u]
       /\ On(q) \subseteq On(p) \cup {s}
       /\ s \in On(q) => \E rto \in 1 .. MaxRto :
                            /\ Left(q, s, ts) = rto
                            /\ On(p) = {} => Lead(q, ts) = rto
       /\ On(p) # {} \/ s \notin On(q) =>
            q.rto_now_ts = p.rto_now_ts /\ q.rto_now_idx = p.rto_now_idx
       /\ \A j \in Slot : q.rto_list[j] = p.rto_list[j]
                          \/ q.rto_list[j] = Append(p.rto_list[j], s)
  <2>1. s \notin On(p) /\ p.of[s].live
    BY <1>5, <1>9
  <2>2. WheelOK(p)
    BY <1>9
  <2> QED
    BY <1>3, <1>11, <1>12, <2>1, <2>2, HandleTime
<1> HIDE DEF q
<1>15. Place(l, s) = 1
  BY <1>3, <1>6 DEF Place
<1>16. On(p) # {} \/ s \notin On(q) => Lead(q, ts) = Lead(st, ts)
  BY <1>9, <1>14 DEF Lead
<1>17. CASE Len(l) = 1
  <2>1. walk' = None
    BY <1>13, <1>15, <1>17
  <2>2. 1 - MaxGap <= Lead(q, ts) /\ Lead(q, ts) <= MaxRto
    <3>1. CASE On(p) # {} \/ s \notin On(q)
      BY <1>2, <1>7, <1>8, <1>16, <3>1
    <3>2. CASE On(p) = {} /\ s \in On(q)
      BY <1>8, <1>14, <3>2
    <3> QED
      BY <3>1, <3>2
  <2>3. ASSUME NEW u \in On(q), Gap(q, u) = 0
        PROVE  Lead(q, ts) <= Left(q, u, ts)
    <3>1. CASE u = s
      <4>1. CASE On(p) = {}
        BY <1>8, <1>14, <3>1, <4>1
      <4>2. CASE On(p) # {}
        BY <1>2, <1>7, <1>8, <1>14, <1>16, <3>1, <4>2
      <4> QED
        BY <4>1, <4>2
    <3>2. CASE u # s
      <4>1. u \in On(p) /\ u \in On(st) /\ u \in Stream \ {s}
        BY <1>9, <1>14, <3>2 DEF On
      <4>2. q.of[u] = st.of[u] /\ q.rto_now_idx = st.rto_now_idx
        BY <1>9, <1>14, <4>1
      <4>3. Gap(st, u) = 0
        BY <2>3, <4>2 DEF Gap
      <4>4. st.of[u].on_rto_idx = idx
        BY <4>1, <4>3, GapZero
      <4>5. PICK n \in 1 .. Len(l) : l[n] = u
        BY <4>1, <4>4 DEF WheelOK, Listed, l
      <4>6. n = 1
        BY <1>17, <4>5
      <4> QED
        BY <1>3, <3>2, <4>5, <4>6
    <3> QED
      BY <3>1, <3>2
  <2> QED
    BY <1>14, <2>1, <2>2, <2>3 DEF WalkAt, q
<1>18. CASE Len(l) # 1
  <2>1. 2 \in 1 .. Len(l) /\ walk' = l[2] /\ l[2] \in Stream /\ l[2] # s
    <3>1. 2 \in 1 .. Len(l)
      BY SMTT(40), <1>3, <1>18
    <3>2. walk' = l[1 + 1]
      BY <1>13, <1>15, <1>18
    <3> QED
      BY <1>1, <1>3, <1>6, <3>1, <3>2
  <2>2. l[2] \in On(p)
    <3>1. st.of[l[2]].on_rto_idx = idx
      BY <1>1, <2>1 DEF WheelOK, Marked, l
    <3> QED
      BY <1>1, <1>9, <2>1, <3>1, Constants DEF On, Slot
  <2>3. q.rto_now_idx = idx /\ Lead(q, ts) = Lead(st, ts)
    BY <1>9, <1>14, <1>16, <2>2
  <2>4. Len(c) >= 1 /\ c[1] = l[2] /\ Len(c) \in Nat
    <3>1. Len(c) >= 1 /\ Len(c) \in Nat
      BY <1>3, <1>10, <1>18
    <3>2. 1 \in 1 .. Len(c)
      BY <3>1
    <3>3. c[1] = l[1 + 1]
      BY <1>10, <3>2
    <3> QED
      BY <3>1, <3>3
  <2>5. q.rto_list[idx] = c \/ q.rto_list[idx] = Append(c, s)
    BY <1>1, <1>14 DEF c
  <2>6. q.rto_list[idx] # <<>> /\ Head(q.rto_list[idx]) = c[1]
    <3>1. CASE q.rto_list[idx] = c
      BY <1>10, <2>4, <3>1
    <3>2. CASE q.rto_list[idx] = Append(c, s)
      <4>1. Append(c, s)[1] = c[1] /\ Len(Append(c, s)) = Len(c) + 1 /\ Append(c, s) \in Seq(Stream)
        BY <1>3, <1>10, <2>4
      <4> QED
        BY <2>4, <3>2, <4>1
    <3> QED
      BY <2>5, <3>1, <3>2
  <2>7. walk' # None
    BY <2>1, WheelAssumption
  <2>8. Lead(q, ts) <= MaxRto /\ 1 - MaxGap <= Lead(q, ts) /\ Lead(q, ts) <= 0
    BY <1>2, <1>7, <1>8, <2>3
  <2> QED
    BY <1>14, <2>1, <2>3, <2>4, <2>6, <2>7, <2>8 DEF WalkAt, q
<1> QED
  BY <1>3, <1>17, <1>18

LEMMA InitTime == Init => TimeInv
<1> SUFFICES ASSUME Init PROVE TimeInv
  OBVIOUS
<1>1. st.of = [s \in Stream |-> Dead] /\ phase = "send"
  BY DEF Init
<1>2. On(st) = {}
  BY <1>1, NewStream DEF On
<1>3. \A s \in Stream : RtoOK(st.of[s])
  BY <1>1, InitialRto
<1> QED
  BY <1>1, <1>2, <1>3 DEF TimeInv, OnTime, Low

LEMMA StepTime ==
    TimeIsLong /\ WheelInv /\ TimeInv /\ [Next]_vars /\ [~Enough]_vars => TimeInv'
<1> SUFFICES ASSUME TimeIsLong, WheelInv, TimeInv, [Next]_vars, [~Enough]_vars
             PROVE  TimeInv'
  OBVIOUS
<1>0. /\ WheelOK(st) /\ ts \in Int /\ OnTime(st, ts, {})
      /\ phase = "send" => Low(st, ts, 1)
      /\ phase = "receive" => Low(st, ts, 1 - MaxGap)
      /\ phase = "check" => WalkAt(st, ts, walk)
      /\ MaxGap \in Nat /\ 1 - MaxGap \in Int /\ 1 - MaxGap <= 1
  BY WheelAssumption DEF WheelInv, TimeInv
\* What a step outside the walk has to show
<1>a. ASSUME ts' = ts, phase' = phase, phase # "check", OnTime(st', ts, {}),
             \A low \in Int : low <= 1 /\ Low(st, ts, low) => Low(st', ts, low)
      PROVE  TimeInv'
  BY <1>0, <1>a DEF TimeInv
<1>1. CASE Tick
  <2>1. PICK d \in 0 .. MaxGap : ts' = (ts + d) % W
    BY <1>1 DEF Tick
  <2>2. st' = st /\ phase = "send" /\ phase' = "receive"
    BY <1>1 DEF Tick
  <2>3. OnTime(st, ts', {}) /\ Low(st, ts', 1 - MaxGap)
    BY <1>0, <2>1, <2>2, TickTime
  <2> QED
    BY <2>2, <2>3 DEF TimeInv
<1>2. CASE CheckRtmTimeout
  <2>1. st' = st /\ ts' = ts /\ phase = "receive" /\ Low(st, ts, 1 - MaxGap)
    BY <1>0, <1>2 DEF CheckRtmTimeout
  <2>2. CASE st.rto_list_cnt = 0
    <3>1. On(st) = {}
      BY <1>0, <2>2, FS_EmptySet DEF WheelOK, Counted
    <3>2. phase' = "send"
      BY <1>2, <2>2 DEF CheckRtmTimeout
    <3>3. Low(st, ts, 1)
      BY <3>1 DEF Low
    <3> QED
      BY <1>0, <2>1, <3>2, <3>3 DEF TimeInv
  <2>3. CASE st.rto_list_cnt # 0
    <3>1. On(st) # {}
      BY <1>0, <2>3, FS_EmptySet DEF WheelOK, Counted
    <3>2. 1 - MaxGap <= Lead(st, ts) /\ Lead(st, ts) <= MaxRto + 1
      BY <1>0, <2>1, <3>1 DEF Low, OnTime
    <3>3. Slots(st)
      BY <1>2, <2>3 DEF CheckRtmTimeout
    <3>4. \/ phase' = "send" /\ 1 <= Lead(st, ts)
          \/ phase' = "check" /\ WalkAt(st, ts, walk')
      BY <1>0, <3>2, <3>3, SlotsTime
    <3> QED
      BY <1>0, <2>1, <3>4 DEF TimeInv, Low
  <2> QED
    BY <2>2, <2>3
<1>3. CASE Fire
  <2>1. phase = "check" /\ phase' = "check" /\ ts' = ts
    BY <1>3 DEF Fire
  <2>2. OnTime(st', ts, {}) /\ WalkAt(st', ts, walk')
    BY <1>0, <1>3, <2>1, FireTime
  <2> QED
    BY <2>1, <2>2 DEF TimeInv
<1>4. CASE Enough
  <2>1. UNCHANGED vars
    BY <1>4
  <2> QED
    BY <1>0, <2>1 DEF vars, TimeInv
<1>5. CASE Advance
  <2>1. st' = NextSlot(st) /\ ts' = ts /\ Slots(st') /\ phase = "check" /\ walk = None
    BY <1>5 DEF Advance
  <2> DEFINE q == NextSlot(st)
  <2>2. WheelOK(q)
    BY <1>0, AdvanceOK
  <2>3. /\ OnTime(q, ts, {})
        /\ 1 - MaxGap <= Lead(q, ts) /\ Lead(q, ts) <= MaxRto + 1
    BY <1>0, <2>1, AdvanceTime
  <2>4. st' = q /\ Slots(q)
    BY <2>1
  <2> HIDE DEF q
  <2>5. \/ phase' = "send" /\ 1 <= Lead(q, ts)
        \/ phase' = "check" /\ WalkAt(q, ts, walk')
    BY <1>0, <2>2, <2>3, <2>4, SlotsTime
  <2> QED
    BY <2>1, <2>3, <2>4, <2>5 DEF TimeInv, Low
<1>6. ASSUME NEW s \in Stream, Acked(s)
      PROVE  TimeInv'
  <2>1. PICK e \in Estimates, all \in BOOLEAN :
            st' = UpdateRetransmissionTimer(Measured(st, s, e), s, all)
    BY <1>6 DEF Acked, Measured
  <2>2. st.of[s].live
    BY <1>0, <1>6, NewStream DEF WheelOK, Buried, Acked
  <2>3. /\ OnTime(st', ts, {})
        /\ \A low \in Int : low <= 1 /\ Low(st, ts, low) => Low(st', ts, low)
    BY <1>0, <2>1, <2>2, UpdateTime
  <2>4. ts' = ts /\ phase' = phase /\ phase # "check"
    BY <1>6 DEF Acked
  <2> QED
    BY <1>a, <2>3, <2>4
<1>7. ASSUME NEW s \in Stream, Open(s)
      PROVE  TimeInv'
  <2> DEFINE p == [st EXCEPT !.of[s] = New]
  <2>1. st' = Transmit(p, s) /\ ts' = ts /\ phase' = phase /\ phase # "check"
    BY <1>7 DEF Open
  <2>2. st.of[s] = Dead
    BY <1>0, <1>7 DEF WheelOK, Buried, Open
  <2>3. s \notin On(st) /\ New.live /\ New \in StreamRec /\ RtoOK(New)
        /\ New.on_rto_idx = st.of[s].on_rto_idx
    BY <2>2, NewStream, InitialRto DEF On, New
  <2>4. Touched(st, s, New, p)
    BY <2>3 DEF Touched
  <2> HIDE DEF p
  <2>5. OnTime(p, ts, {}) /\ \A low : Low(st, ts, low) => Low(p, ts, low)
    BY <1>0, <2>3, <2>4, TouchTime
  <2>6. WheelOK(p) /\ p.of[s].live
    BY <1>0, <2>3, <2>4, TouchedIs
  <2>7. /\ OnTime(st', ts, {})
        /\ \A low \in Int : low <= 1 /\ Low(p, ts, low) => Low(st', ts, low)
    BY <1>0, <2>1, <2>5, <2>6, TransmitTime
  <2> QED
    BY <1>a, <2>1, <2>5, <2>7
<1>8. ASSUME NEW s \in Stream, Destroy(s)
      PROVE  TimeInv'
  <2>1. st' = DestroyTCPStream(st, s) /\ ts' = ts /\ phase' = phase /\ phase # "check"
    BY <1>8 DEF Destroy
  <2>2. OnTime(st', ts, {}) /\ \A low : Low(st, ts, low) => Low(st', ts, low)
    BY <1>0, <2>1, DestroyTime
  <2> QED
    BY <1>a, <2>1, <2>2
<1>9. ASSUME NEW s \in Stream, Send(s)
      PROVE  TimeInv'
  <2>1. st' = Transmit(st, s) /\ ts' = ts /\ phase' = phase /\ phase # "check"
    BY <1>9 DEF Send
  <2>2. /\ OnTime(st', ts, {})
        /\ \A low \in Int : low <= 1 /\ Low(st, ts, low) => Low(st', ts, low)
    BY <1>0, <1>9, <2>1, TransmitTime DEF Send
  <2> QED
    BY <1>a, <2>1, <2>2
<1>10. CASE UNCHANGED vars
  BY <1>0, <1>10 DEF vars, TimeInv
<1> QED
  BY <1>1, <1>2, <1>3, <1>4, <1>5, <1>6, <1>7, <1>8, <1>9, <1>10 DEF Next


\* A round that handles every timeout it finds leaves the wheel ahead of the
\* present by at most the largest timeout, and no stream further behind it than
\* the turns that this costs; HandleRTO may rewind the wheel in the middle of the
\* walk.
THEOREM TimeInvariant ==
    TimeIsLong => (Spec /\ [][~Enough]_vars => []TimeInv)
<1> SUFFICES ASSUME TimeIsLong
             PROVE  Spec /\ [][~Enough]_vars => []TimeInv
  OBVIOUS
<1>1. WheelInv /\ TimeInv /\ [Next]_vars /\ [~Enough]_vars => TimeInv'
  BY StepTime
<1> QED
  BY <1>1, InitTime, WheelInvariant, PTL DEF Spec

\* CheckRtmTimeout and HandleRTO: no retransmission is later than the turns by
\* which the first stream's timeout puts the wheel ahead, as long as no round
\* stops at max_concurrency and the timestamps do not wrap meanwhile.
THEOREM TimeoutsAreHandled ==
    TimeIsLong => (Spec /\ [][~Enough]_vars => []LateByTurns)
<1> SUFFICES ASSUME TimeIsLong
             PROVE  Spec /\ [][~Enough]_vars => []LateByTurns
  OBVIOUS
<1>1. WheelInv /\ TimeInv => LateByTurns
  <2> SUFFICES ASSUME WheelInv, TimeInv, phase = "send", NEW s \in Waiting
               PROVE  Diff(ts, st.of[s].armed) < Turns * RTO_HASH
    BY DEF LateByTurns
  <2>1. s \in On(st) /\ s \in Stream /\ WheelOK(st) /\ ts \in Int
    BY DEF Waiting, On, WheelInv
  <2>2. InTime(st, s, ts) /\ 1 <= Lead(st, ts)
    BY <2>1 DEF TimeInv, OnTime, Low
  <2> DEFINE tr == Turns * RTO_HASH  x == Lead(st, ts)  y == Left(st, s, ts)
  <2>3. x \in Int /\ y \in Int
    BY <2>1, TimesOf
  <2>4. x - tr <= y
    BY <2>1, <2>2, LeftLow
  <2>5. tr \in Nat /\ MaxGap \in Nat /\ HalfW \in Int /\ tr + MaxGap + 2 <= HalfW
    BY Long
  <2>6. st.of[s].armed \in Int
    BY <2>1 DEF WheelOK, StoreRec, StreamRec
  <2>7. y = Diff(st.of[s].armed, ts)
    BY DEF Left
  <2> HIDE DEF tr, y
  <2>8. -HalfW < y
    BY <2>2, <2>3, <2>4, <2>5
  <2>9. Diff(ts, st.of[s].armed) = -y
    BY <2>1, <2>6, <2>7, <2>8, DiffBack
  <2>10. -y < tr
    BY <2>2, <2>3, <2>4, <2>5
  <2> QED
    BY <2>9, <2>10 DEF tr
<1> QED
  BY <1>1, TimeInvariant, WheelInvariant, PTL

\* CheckRtmTimeout: no stream is handled before its timeout if that is less than
\* a turn away, under the same conditions.
THEOREM NobodyIsEarly ==
    TimeIsLong => (Spec /\ [][~Enough]_vars => []NeverEarly)
<1> SUFFICES ASSUME TimeIsLong
             PROVE  Spec /\ [][~Enough]_vars => []NeverEarly
  OBVIOUS
<1>1. WheelInv /\ TimeInv => NeverEarly
  <2> SUFFICES ASSUME WheelInv, TimeInv, phase = "check", walk # None, Near(walk)
               PROVE  Diff(ts, st.of[walk].armed) >= 0
    BY DEF NeverEarly
  <2>1. walk \in On(st) /\ walk \in Stream /\ WheelOK(st) /\ ts \in Int
    BY DEF On, WheelInv
  <2>2. InTime(st, walk, ts)
    BY <2>1 DEF TimeInv, OnTime
  <2>3. /\ 1 - MaxGap <= Lead(st, ts) /\ Lead(st, ts) <= 0
        /\ st.rto_list[st.rto_now_idx] # <<>>
        /\ walk = Head(st.rto_list[st.rto_now_idx])
    BY DEF TimeInv, WalkAt
  <2> DEFINE l == st.rto_list[st.rto_now_idx]
  <2>4. st.rto_now_idx \in Slot /\ l \in Seq(Stream)
    BY <2>1 DEF WheelOK, StoreRec
  <2>5. 1 \in 1 .. Len(l) /\ walk = l[1]
    <3>1. l # <<>> /\ walk = Head(l)
      BY <2>3
    <3> HIDE DEF l
    <3> QED
      BY <2>4, <3>1
  <2>6. Gap(st, walk) = 0
    <3>1. st.of[walk].on_rto_idx = st.rto_now_idx
      BY <2>1, <2>4, <2>5 DEF WheelOK, Marked
    <3> QED
      BY <2>1, <3>1, GapZero
  <2> DEFINE tr == Turns * RTO_HASH  x == Lead(st, ts)  y == Left(st, walk, ts)
             rto == st.of[walk].rto
  <2>7. x \in Int /\ y \in Int /\ Cong(x + 0 - y, 0)
    BY <2>1, <2>6, TimesOf
  <2>8. x - tr <= y
    BY <2>1, <2>2, LeftLow
  <2>9. tr \in Nat /\ MaxGap \in Nat /\ HalfW \in Int /\ tr + MaxGap + 2 <= HalfW
    BY Long
  <2>10. st.of[walk].armed \in Int /\ rto \in Int
    BY <2>1 DEF WheelOK, StoreRec, StreamRec
  <2>11. y = Diff(st.of[walk].armed, ts)
    BY DEF Left
  <2>12. y <= rto /\ rto + MaxGap < RTO_HASH
    BY <2>2 DEF InTime, Near
  <2>13. 1 - MaxGap <= x /\ x <= 0
    BY <2>3
  <2> HIDE DEF tr, y, x, rto
  <2>14. ASSUME y > 0 PROVE FALSE
    <3>1. PICK k \in Int : x - y = k * RTO_HASH
      BY <2>7 DEF Cong
    <3>2. RTO_HASH \in Int /\ RTO_HASH > 0
      BY Constants
    <3>3. -RTO_HASH < x - y /\ x - y < RTO_HASH
      BY <2>7, <2>9, <2>10, <2>12, <2>13, <2>14, <3>2
    <3>4. x = y
      BY <2>7, <3>1, <3>2, <3>3, SameMod
    <3> QED
      BY <2>7, <2>13, <2>14, <3>4
  <2>15. -HalfW < y
    BY <2>7, <2>8, <2>9, <2>13
  <2>16. Diff(ts, st.of[walk].armed) = -y
    BY <2>1, <2>10, <2>11, <2>15, DiffBack
  <2>17. -y >= 0
    BY <2>7, <2>14
  <2> QED
    BY <2>16, <2>17
<1> QED
  BY <1>1, TimeInvariant, WheelInvariant, PTL
=============================================================================
