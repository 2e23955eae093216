------------------------------ MODULE RtoWheel ------------------------------
(***************************************************************************)
(* The retransmission timers of a core (struct rto_hashstore): a wheel of  *)
(* RTO_HASH slots of one tick each.  A stream is put into the slot of its  *)
(* timeout; CheckRtmTimeout, once a round, walks the slots up to the       *)
(* present and handles every stream it finds there, whatever its ts_rto    *)
(* says by then.                                                           *)
(*                                                                         *)
(* rto_list[RTO_HASH], the list for timeouts further away, is never filled *)
(* (timer.c:50), so RearrangeRTOStore has nothing to do.  Timestamps are   *)
(* 32-bit numbers of ticks: they count modulo W here, and a difference is  *)
(* read as a signed number.                                                *)
(***************************************************************************)
EXTENDS Integers, Sequences, SequencesExt, FiniteSetsExt

CONSTANTS Stream,
          None,        \* no stream
          RTO_HASH,    \* slots of the wheel
          W,           \* timestamps are modulo W
          Initial,     \* TCP_INITIAL_RTO
          Estimates,   \* what (srtt >> 3) + rttvar may be
          MaxGap,      \* bound on the ticks between two rounds
          Thresh,      \* max_concurrency
          MaxRtx,      \* TCP_MAX_RTX
          MaxBackoff   \* TCP_MAX_BACKOFF

ASSUME WheelAssumption ==
    /\ None \notin Stream
    /\ RTO_HASH \in Nat \ {0} /\ W \in Nat \ {0} /\ W % (2 * RTO_HASH) = 0
    /\ Initial \in Nat \ {0} /\ Estimates \subseteq Nat \ {0} /\ IsFiniteSet(Estimates)
    /\ MaxGap \in Nat /\ Thresh \in Nat /\ MaxRtx \in Nat /\ MaxBackoff \in Nat

VARIABLES st,     \* the streams and the two fields of the store
          ts,     \* cur_ts of the round
          phase,  \* where the main loop is
          walk,   \* the next stream of the slot that CheckRtmTimeout handles
          cnt     \* how many it has handled in this round

vars == <<st, ts, phase, walk, cnt>>

Slot == 0 .. RTO_HASH - 1

\* (int32_t)(a - b)
Diff(a, b) == ((a - b + W \div 2) % W) - W \div 2

\* A new stream.  ts_rto is always assigned just before AddtoRTOList, which
\* alone reads it: it is an argument of it here, and armed is the one that put
\* the stream into its slot.
New == [live |-> TRUE, established |-> FALSE, rto |-> Initial,
        estimate |-> Initial, nrtx |-> 0, unacked |-> FALSE,
        on_rto_idx |-> -1, armed |-> 0]

Dead == [New EXCEPT !.live = FALSE]

Init ==
    /\ st = [of |-> [s \in Stream |-> Dead], rto_list |-> [i \in Slot |-> <<>>],
             rto_list_cnt |-> 0, rto_now_idx |-> 0, rto_now_ts |-> 0]
    /\ ts = 0
    /\ phase = "send" /\ walk = None /\ cnt = 0
-----------------------------------------------------------------------------
(* The wheel.                                                              *)

\* The first stream sets the wheel to its own timeout.
Rewound(r, ts_rto) ==
    IF r.rto_list_cnt = 0
    THEN [r EXCEPT !.rto_now_idx = 0, !.rto_now_ts = ts_rto] ELSE r

\* Mutant of Offset: one slot short.
OffsetShort(r, ts_rto) == (Diff(ts_rto, r.rto_now_ts) + r.rto_now_idx - 1) % RTO_HASH

Offset(r, ts_rto) == (Diff(ts_rto, r.rto_now_ts) + r.rto_now_idx) % RTO_HASH

AddtoRTOList(r, s, ts_rto) ==
    LET q == Rewound(r, ts_rto)
        i == Offset(q, ts_rto)
    IN  IF q.of[s].on_rto_idx >= 0 THEN q
        ELSE [q EXCEPT !.of[s].on_rto_idx = i, !.of[s].armed = ts_rto,
                       !.rto_list[i] = Append(@, s), !.rto_list_cnt = @ + 1]

\* Where s is in a slot's list
Place(list, s) == CHOOSE i \in 1 .. Len(list) : list[i] = s

RemoveFromRTOList(r, s) ==
    IF r.of[s].on_rto_idx < 0 THEN r
    ELSE [r EXCEPT !.rto_list[r.of[s].on_rto_idx] = RemoveAt(@, Place(@, s)),
                   !.of[s].on_rto_idx = -1, !.of[s].armed = 0, !.rto_list_cnt = @ - 1]

\* SendTCPPacket for a packet that takes sequence numbers.
Transmit(r, s) ==
    AddtoRTOList([r EXCEPT !.of[s].unacked = TRUE], s, (ts + r.of[s].rto) % W)

\* all: whether everything is acknowledged.
UpdateRetransmissionTimer(r, s, all) ==
    LET q == RemoveFromRTOList([r EXCEPT !.of[s].nrtx = 0], s)
    IN  IF all THEN [q EXCEPT !.of[s].unacked = FALSE]
        ELSE AddtoRTOList(q, s, (ts + q.of[s].rto) % W)

DestroyTCPStream(r, s) ==
    LET q == RemoveFromRTOList(r, s) IN [q EXCEPT !.of[s] = Dead]

\* 1 << n
Power[n \in 0 .. MaxBackoff] == IF n = 0 THEN 1 ELSE 2 * Power[n - 1]

Backoff(o) ==
    IF o.established THEN o.estimate * Power[Min({o.nrtx, MaxBackoff})]
    ELSE IF o.nrtx < MaxBackoff THEN 2 * o.rto ELSE o.rto

\* now: a control packet that is sent at once; data goes to the send list, and
\* so does in effect a control packet for which there is no buffer.  The limits
\* for a SYN and for other packets are one.  A stream that is given up has no
\* timer any more, whether it is destroyed or left to the application.
HandleRTO(r, s, now) ==
    IF r.of[s].nrtx = MaxRtx THEN DestroyTCPStream(r, s)
    ELSE LET o == [r.of[s] EXCEPT !.nrtx = @ + 1]
             q == [r EXCEPT !.of[s] = [o EXCEPT !.rto = Backoff(o)]]
         IN  IF now THEN Transmit(q, s) ELSE q
-----------------------------------------------------------------------------
(* A round: packets come in, the timers are checked, packets go out.       *)

\* gettimeofday at the top of the main loop
Tick ==
    /\ phase = "send"
    /\ \E d \in 0 .. MaxGap : ts' = (ts + d) % W
    /\ phase' = "receive"
    /\ UNCHANGED <<st, walk, cnt>>

\* An ACK is new data acknowledged: the round trip is measured.
Acked(s) ==
    /\ phase = "receive" /\ st.of[s].unacked
    /\ \E e \in Estimates, all \in BOOLEAN :
        st' = UpdateRetransmissionTimer(
                [st EXCEPT !.of[s].established = TRUE, !.of[s].estimate = e,
                           !.of[s].rto = e], s, all)
    /\ UNCHANGED <<ts, phase, walk, cnt>>

\* The application opens, the peer or the application ends a connection.
Open(s) ==
    /\ phase = "send" /\ ~st.of[s].live
    /\ st' = Transmit([st EXCEPT !.of[s] = New], s)
    /\ UNCHANGED <<ts, phase, walk, cnt>>

Destroy(s) ==
    /\ phase # "check" /\ st.of[s].live
    /\ st' = DestroyTCPStream(st, s)
    /\ UNCHANGED <<ts, phase, walk, cnt>>

Send(s) ==
    /\ phase = "send" /\ st.of[s].live
    /\ st' = Transmit(st, s)
    /\ UNCHANGED <<ts, phase, walk, cnt>>

\* Mutant of Slots: a loop that ends before the present slot.
SlotsShort(r) ==
    IF Diff(ts, r.rto_now_ts) <= 0
    THEN /\ phase' = "send" /\ walk' = None /\ cnt' = 0
    ELSE /\ phase' = "check" /\ cnt' = cnt
         /\ walk' = LET list == r.rto_list[r.rto_now_idx]
                    IN  IF list = <<>> THEN None ELSE Head(list)

\* The top of the loop over the slots.
Slots(r) ==
    IF Diff(ts, r.rto_now_ts) < 0
    THEN /\ phase' = "send" /\ walk' = None /\ cnt' = 0
    ELSE /\ phase' = "check" /\ cnt' = cnt
         /\ walk' = LET list == r.rto_list[r.rto_now_idx]
                    IN  IF list = <<>> THEN None ELSE Head(list)

CheckRtmTimeout ==
    /\ phase = "receive"
    /\ IF st.rto_list_cnt = 0
       THEN phase' = "send" /\ UNCHANGED <<walk, cnt>> ELSE Slots(st)
    /\ UNCHANGED <<st, ts>>

\* TAILQ_NEXT of s in its slot
Next1(s) ==
    LET list == st.rto_list[st.of[s].on_rto_idx]
        i == Place(list, s)
    IN  IF i = Len(list) THEN None ELSE list[i + 1]

Fire ==
    /\ phase = "check" /\ walk # None
    /\ cnt < Thresh
    /\ \E now \in BOOLEAN : st' = HandleRTO(RemoveFromRTOList(st, walk), walk, now)
    /\ walk' = Next1(walk) /\ cnt' = cnt + 1
    /\ UNCHANGED <<ts, phase>>

Enough ==
    /\ phase = "check" /\ walk # None /\ cnt >= Thresh
    /\ phase' = "send" /\ walk' = None /\ cnt' = 0
    /\ UNCHANGED <<st, ts>>

\* Mutant of NextSlot: a walk that leaves the slot's index behind.
NextSlotStays(r) == [r EXCEPT !.rto_now_ts = (@ + 1) % W]

NextSlot(r) ==
    [r EXCEPT !.rto_now_idx = (@ + 1) % RTO_HASH, !.rto_now_ts = (@ + 1) % W]

Advance ==
    /\ phase = "check" /\ walk = None
    /\ st' = NextSlot(st)
    /\ Slots(st')
    /\ UNCHANGED ts

Next ==
    \/ Tick \/ CheckRtmTimeout \/ Fire \/ Enough \/ Advance
    \/ \E s \in Stream : Acked(s) \/ Open(s) \/ Destroy(s) \/ Send(s)

Spec == Init /\ [][Next]_vars
-----------------------------------------------------------------------------
(* Properties.                                                             *)

Waiting == {s \in Stream : st.of[s].on_rto_idx >= 0}

\* The tick at which the walk reaches the slot of stream s, counted from now.
Ahead(s) == (st.of[s].on_rto_idx - st.rto_now_idx) % RTO_HASH

\* The wheel was not rewound and its index and time did not part while a stream
\* waits: every stream is met at its timeout or whole turns away from it.
SlotIsTime ==
    \A s \in Waiting : Diff(st.rto_now_ts + Ahead(s), st.of[s].armed) % RTO_HASH = 0

\* CheckRtmTimeout handles no stream before its timeout, if that is less than a
\* turn away from the slot at which the walk may have been left.
Near(s) == st.of[s].rto + MaxGap < RTO_HASH
NeverEarly == (phase = "check" /\ walk # None /\ Near(walk)) => Diff(ts, st.of[walk].armed) >= 0

\* The largest timeout.
MaxRto == Max(Estimates \cup {Initial}) * Power[MaxBackoff]

\* The turns by which a timeout may be late: so many as the first stream's own
\* timeout may put the wheel ahead.
Turns == 1 + (MaxRto - 1) \div RTO_HASH

\* A timeout that was passed over, because the wheel was set ahead of it or
\* because the walk went on after HandleRTO had rewound the wheel, is handled
\* within the next turns: no retransmission is lost.
LateByTurns ==
    phase = "send" => \A s \in Waiting : Diff(ts, st.of[s].armed) < Turns * RTO_HASH
=============================================================================
