------------------------------ MODULE TcpStream ------------------------------
(***************************************************************************)
(* The life of one end-host stream between three parties: the application  *)
(* thread (the calls of api.c), the mTCP thread (RunMainLoop of core.c)    *)
(* and the peer.  The two threads share the stream and the queues between  *)
(* them and hold no common lock: the application reads the state of the    *)
(* stream, decides, and enqueues, with the mTCP thread running in between; *)
(* the mTCP thread empties the queues one after the other, with the        *)
(* application filling them in between.                                    *)
(*                                                                         *)
(* The mTCP thread goes round its loop: phase names the part it is in.     *)
(* Other streams exist, so flow_cnt > 0 and every part runs every time.    *)
(* The windows never limit the sender here.                                *)
(***************************************************************************)
EXTENDS TcpRecv

CONSTANTS MaxData,      \* units of data the application writes
          PeerSends,    \* kinds of segment the peer sends, of SegmentKind
          AppCalls      \* calls the application makes, of Call

SegmentKind == {"SYN", "SYN/ACK", "LATESYN", "ACK", "OLD", "DUP3", "LATE3",
                "DATA", "FIN", "RST"}
Call == {"connect", "accept", "write", "read", "close", "abort"}

ASSUME StreamAssumption ==
    MaxData \in Nat /\ PeerSends \subseteq SegmentKind /\ AppCalls \subseteq Call

VARIABLES st,      \* the tcp_stream with its sndvar and rcvvar
          app,     \* the application thread: the call it is in, the state it
                   \* read, whether it owns the socket, whether it let go of it
          phase    \* where the mTCP thread is in its loop

vars == <<st, app, phase>>

\* A FIN that is sent again without a timeout moves snd_nxt one further each
\* time (SendTCPPacket): the bound on that, and the numbers that can occur.
MaxSndNxt == MaxData + 3
Capped == st'.snd_nxt <= MaxSndNxt \/ st'.snd_nxt <= st.snd_nxt
SeqNo == 0 .. MaxSndNxt + 1

Phases == <<"rx", "timers", "connect", "send", "ack", "close", "close_int",
            "reset", "reset_int", "destroy", "control", "acks", "data">>
PhaseSet == {Phases[i] : i \in 1 .. 13}
After(ph) ==
    LET i == CHOOSE k \in 1 .. 13 : Phases[k] = ph
    IN  IF i = 13 THEN Phases[1] ELSE Phases[i + 1]

Unborn ==
    [state |-> "CLOSED", active |-> FALSE, socket |-> FALSE, freed |-> FALSE,
     have_reset |-> FALSE, is_fin_sent |-> FALSE, control_waiting |-> FALSE,
     on_control |-> FALSE, on_send |-> FALSE, on_ack |-> FALSE,
     on_rto |-> FALSE, on_timewait |-> FALSE, on_timeout |-> FALSE, nrtx |-> 0,
     sndbuf |-> FALSE, head |-> 1, len |-> 0, snd_una |-> 0, snd_nxt |-> 0,
     fss |-> 0, wire |-> {}, queued |-> {}, destroyq |-> 0, actions |-> {},
     out |-> <<>>, bad |-> {}]

Init ==
    /\ st = Unborn
    /\ app = [pc |-> "idle", seen |-> "CLOSED", owns |-> FALSE, left |-> FALSE]
    /\ phase = "rx"

\* A fatal failure ends the model's account of the stream.
Running == st.bad \cap Fatal = {}

\* The stream at the start of a step: nothing sent yet.
This == [st EXCEPT !.out = <<>>]

Enqueue(r, q) == [r EXCEPT !.queued = @ \cup {q}]
Dequeue(r, q) == [r EXCEPT !.queued = @ \ {q}]
-----------------------------------------------------------------------------
(* The application thread.                                                 *)

Idle(call) == Running /\ call \in AppCalls /\ app.pc = "idle"

\* mtcp_connect.  If the connect queue is full the stream goes to the destroy
\* queue, and the application still owns the socket that points to it.
Connect ==
    /\ Idle("connect") /\ st.state = "CLOSED" /\ ~st.freed
    /\ LET opened == [This EXCEPT !.state = "SYN_SENT", !.active = TRUE,
                                  !.socket = TRUE]
       IN  \/ st' = Enqueue(opened, "connect")
           \/ st' = [opened EXCEPT !.destroyq = 1]
    /\ app' = [app EXCEPT !.owns = TRUE]
    /\ UNCHANGED phase

\* mtcp_accept.  Without a free socket the stream is dropped from the queue
\* and nothing else ("TODO: destroy the stream").
Accept ==
    /\ Idle("accept") /\ "accept" \in st.queued
    /\ IF st.freed
       THEN st' = Fail(This, "use_after_free") /\ UNCHANGED app
       ELSE \/ /\ st' = [Dequeue(This, "accept") EXCEPT !.socket = TRUE]
               /\ app' = [app EXCEPT !.owns = TRUE]
            \/ st' = Dequeue(This, "accept") /\ UNCHANGED app
    /\ UNCHANGED phase

\* mtcp_write: the copy into the send buffer, under write_lock ...
WriteCopy ==
    /\ Idle("write") /\ app.owns /\ st.state \in {"ESTABLISHED", "CLOSE_WAIT"}
    /\ st.head + st.len <= MaxData
    /\ st' = [This EXCEPT !.sndbuf = TRUE, !.len = @ + 1]
    /\ app' = [app EXCEPT !.pc = "write"]
    /\ UNCHANGED phase

\* ... and, after the unlock, the wakeup of the mTCP thread.
WriteWake ==
    /\ Running /\ app.pc = "write"
    /\ st' = IF "send" \in st.queued \/ st.on_send THEN This
             ELSE Enqueue(This, "send")
    /\ app' = [app EXCEPT !.pc = "idle"]
    /\ UNCHANGED phase

\* mtcp_recv after a zero window was advertised: CopyToUser asks for an ACK.
Read ==
    /\ Idle("read") /\ app.owns
    /\ st.state \in {"ESTABLISHED", "CLOSE_WAIT", "FIN_WAIT_1", "FIN_WAIT_2"}
    /\ "ack" \notin st.queued
    /\ st' = Enqueue(This, "ack")
    /\ UNCHANGED <<app, phase>>

\* CloseStreamSocket lets go of the stream, then reads its state ...
CloseBegin ==
    /\ Idle("close") /\ app.owns
    /\ st' = IF st.freed THEN Fail(This, "use_after_free")
             ELSE [This EXCEPT !.socket = FALSE]
    /\ app' = [pc |-> "close", seen |-> st.state, owns |-> FALSE, left |-> TRUE]
    /\ UNCHANGED phase

\* ... and acts on what it read.
CloseEnd ==
    /\ Running /\ app.pc = "close"
    /\ st' = CASE app.seen \in {"CLOSED_RSVD", "SYN_SENT"} ->
                    [This EXCEPT !.destroyq = @ + 1]
               [] app.seen \in {"ESTABLISHED", "CLOSE_WAIT"} ->
                    Enqueue(This, "close")
               [] OTHER -> This
    /\ app' = [app EXCEPT !.pc = "idle"]
    /\ UNCHANGED phase

\* mtcp_abort, in the same two parts.
AbortBegin ==
    /\ Idle("abort") /\ app.owns
    /\ st' = IF st.freed THEN Fail(This, "use_after_free")
             ELSE [This EXCEPT !.socket = FALSE]
    /\ app' = [pc |-> "abort", seen |-> st.state, owns |-> FALSE, left |-> TRUE]
    /\ UNCHANGED phase

AbortEnd ==
    /\ Running /\ app.pc = "abort"
    /\ st' = CASE app.seen = "CLOSED_RSVD" -> This
               [] app.seen \in {"SYN_SENT", "CLOSING", "LAST_ACK", "TIME_WAIT"} ->
                    [Close(This) EXCEPT !.destroyq = @ + 1]
               [] OTHER -> Enqueue(This, "reset")
    /\ app' = [app EXCEPT !.pc = "idle"]
    /\ UNCHANGED phase

Application ==
    \/ Connect \/ Accept \/ WriteCopy \/ WriteWake \/ Read
    \/ CloseBegin \/ CloseEnd \/ AbortBegin \/ AbortEnd
-----------------------------------------------------------------------------
(* The peer.  It acknowledges only what was put on the wire without a gap, *)
(* sends data and its FIN only after the handshake, and nothing new after  *)
(* its FIN; the network delays, repeats and loses what it sends.           *)

AckNos == {a \in 1 .. MaxData + 2 : 0 .. a - 1 \subseteq st.wire}
PeerDone == st.state \in {"CLOSE_WAIT", "LAST_ACK", "CLOSING", "TIME_WAIT"}
New == IF PeerDone THEN {} ELSE {"next", "ahead"}
Again(can) == IF can /\ "OLD" \in PeerSends THEN {"old"} ELSE {}

Segment(syn, ack, fin, rst, seq, len, ackno, third) ==
    [syn |-> syn, ack |-> ack, fin |-> fin, rst |-> rst, seq |-> seq,
     len |-> len, ackno |-> ackno, third |-> third]

\* What the peer may send of each kind: the SYN of its side of the handshake
\* and late copies of it; acknowledgements in sequence, and with a sequence
\* number already received; the fourth equal one in a row, of what the stream
\* knows to be acknowledged, and of less when the four were overtaken; data,
\* FIN and RST.
Segments ==
    LET Of(kind, set) == IF kind \in PeerSends THEN set ELSE {}
        Syn(ack, a) == Segment(TRUE, ack, FALSE, FALSE, "old", 0, a, FALSE)
        Ack(seq, a, third) ==
            Segment(FALSE, TRUE, FALSE, FALSE, seq, 0, a, third)
        Handshake ==
            IF st.active THEN {Syn(TRUE, a) : a \in AckNos \cap {1}}
            ELSE {Syn(FALSE, 0)}
        Opening ==
            UNION {Of("SYN", {Syn(FALSE, 0)}),
                   Of("SYN/ACK", IF st.active THEN Handshake ELSE {})}
        Open ==
            UNION {
                Of("LATESYN", Handshake),
                Of("ACK", {Ack("next", a, FALSE) : a \in AckNos}),
                Of("OLD", {Ack("old", a, FALSE) : a \in AckNos}),
                Of("DUP3", {Ack("next", a, TRUE) : a \in AckNos \cap {st.head}}),
                Of("LATE3", {Ack("next", a, TRUE) : a \in AckNos \cap 1 .. st.head - 1}),
                Of("DATA", {Segment(FALSE, TRUE, FALSE, FALSE, seq, 1, a, FALSE) :
                              seq \in New \cup Again(TRUE), a \in AckNos}),
                Of("FIN", {Segment(FALSE, TRUE, TRUE, FALSE, seq, 0, a, FALSE) :
                              seq \in New \cup Again(PeerDone), a \in AckNos})}
        Reset == Of("RST", {Segment(FALSE, ack, FALSE, TRUE, seq, 0, a, FALSE) :
                              ack \in BOOLEAN, seq \in {"old", "next", "zero"},
                              a \in AckNos})
    IN  Reset \cup IF st.state \in {"CLOSED", "SYN_SENT", "SYN_RCVD"}
                   THEN Opening \cup (IF st.state = "SYN_RCVD" THEN Open ELSE {})
                   ELSE Open
-----------------------------------------------------------------------------
(* The mTCP thread.                                                        *)

In(ph) == Running /\ phase = ph
Leave(ph) == phase' = After(ph) /\ st' = This
Stay == UNCHANGED <<app, phase>>

\* ProcessInTCPPacket: a SYN for a listener creates the stream in LISTEN.
Receive(p) ==
    /\ In("rx") /\ ~st.freed
    /\ \/ st.state # "CLOSED"
       \/ p.syn /\ ~p.ack /\ "accept" \in AppCalls
    /\ \E room, tx \in BOOLEAN :
          st' = HandleSockStream(
                   IF st.state = "CLOSED" THEN [This EXCEPT !.state = "LISTEN"]
                   ELSE This, p, room, tx)
    /\ Capped
    /\ Stay

ReceiveDone == In("rx") /\ Leave("rx") /\ UNCHANGED app

\* CheckRtmTimeout takes an expired stream off the wheel.
CheckRtmTimeout(tx) ==
    /\ In("timers") /\ st.on_rto
    /\ st' = HandleRTO(RemoveFromRTOList(This), tx)
    /\ Stay

CheckTimewaitExpire ==
    /\ In("timers") /\ st.on_timewait /\ ~st.on_control
    /\ st' = DestroyTCPStream(Close(This))
    /\ Stay

CheckConnectionTimeout ==
    /\ In("timers") /\ st.on_timeout
    /\ st' = GiveUp(RemoveFromTimeoutList(This))
    /\ Stay

TimersDone == In("timers") /\ Leave("timers") /\ UNCHANGED app

\* HandleApplicationCalls empties queue q with operator Op, then moves on.
Drain(q, handled) ==
    /\ In(q)
    /\ IF q \notin st.queued THEN Leave(q)
       ELSE /\ st' = IF st.freed THEN Fail(This, "use_after_free") ELSE handled
            /\ UNCHANGED phase
    /\ UNCHANGED app

HandleConnect(tx) ==
    Drain("connect",
          LET r == Dequeue(This, "connect")
          IN  IF r.state # "SYN_SENT" THEN Fail(r, "connect_exit")
              ELSE AddtoControlList(r, tx))

HandleSend == Drain("send", AddtoSendList(Dequeue(This, "send")))

HandleAck == Drain("ack", EnqueueACK(Dequeue(This, "ack")))

\* The state the FIN is sent in.
Closing(r) ==
    [r EXCEPT !.state = CASE @ = "ESTABLISHED" -> "FIN_WAIT_1"
                          [] @ = "CLOSE_WAIT" -> "LAST_ACK"
                          [] OTHER -> @]

\* Mutant of CloseRequest: the FIN takes the next number to send instead of
\* the one after the last buffered unit.
CloseRequestEarlyFss(r, tx) ==
    LET t == RemoveFromTimeoutList([r EXCEPT !.fss = r.snd_nxt])
    IN  IF t.on_send \/ t.on_ack THEN [Closing(t) EXCEPT !.control_waiting = TRUE]
        ELSE AddtoControlList(Closing(t), tx)

\* One stream of the close queue.
CloseRequest(r, tx) ==
    LET t == RemoveFromTimeoutList(
                [r EXCEPT !.fss = IF r.sndbuf THEN r.head + r.len ELSE r.snd_nxt])
    IN  CASE t.have_reset ->
                IF t.state # "CLOSED_RSVD" THEN DestroyTCPStream(Close(t)) ELSE t
          [] ~t.have_reset /\ t.on_control -> Enqueue(t, "close_int")
          [] ~t.have_reset /\ ~t.on_control /\ (t.on_send \/ t.on_ack) ->
                [Closing(t) EXCEPT !.control_waiting = TRUE]
          [] OTHER ->
                IF t.state # "CLOSED_RSVD" THEN AddtoControlList(Closing(t), tx)
                ELSE t

HandleClose(tx) == Drain("close", CloseRequest(Dequeue(This, "close"), tx))

\* One pass over the streams whose close had to wait for the control list.
HandleCloseInt(tx) ==
    /\ In("close_int") /\ phase' = After("close_int") /\ UNCHANGED app
    /\ LET r == Dequeue(This, "close_int")
       IN  st' = IF "close_int" \notin st.queued \/ (st.on_control /\ ~st.freed)
                 THEN This
                 ELSE IF st.freed THEN Fail(This, "use_after_free")
                 ELSE IF st.state # "CLOSED_RSVD"
                 THEN AddtoControlList(Closing(r), tx) ELSE r

HandleReset(tx) ==
    Drain("reset",
          LET r == RemoveFromTimeoutList(Dequeue(This, "reset"))
          IN  IF r.have_reset
              THEN IF r.state # "CLOSED_RSVD" THEN DestroyTCPStream(Close(r))
                   ELSE r
              ELSE IF r.on_control \/ r.on_send \/ r.on_ack
              THEN Enqueue(r, "reset_int")
              ELSE IF r.state # "CLOSED_RSVD" THEN AddtoControlList(Close(r), tx)
              ELSE r)

HandleResetInt(tx) ==
    /\ In("reset_int") /\ phase' = After("reset_int") /\ UNCHANGED app
    /\ LET r == Dequeue(This, "reset_int")
       IN  st' = IF "reset_int" \notin st.queued THEN This
                 ELSE IF st.freed THEN Fail(This, "use_after_free")
                 ELSE IF st.on_control \/ st.on_send \/ st.on_ack THEN This
                 ELSE IF st.state # "CLOSED_RSVD"
                 THEN AddtoControlList(Close(r), tx) ELSE r

HandleDestroy ==
    /\ In("destroy") /\ UNCHANGED app
    /\ IF st.destroyq = 0 THEN Leave("destroy")
       ELSE /\ st' = DestroyTCPStream([This EXCEPT !.destroyq = @ - 1])
            /\ UNCHANGED phase

\* WriteTCPControlList.
WriteControl(tx) ==
    /\ In("control") /\ phase' = After("control") /\ UNCHANGED app
    /\ st' = IF st.on_control /\ tx /\ ~ControlMustWait(st)
             THEN SendControlPacket([This EXCEPT !.on_control = FALSE])
             ELSE This
    /\ Capped

\* WriteTCPACKList: outside the listed states the acks are dropped, and so
\* they are when nothing was ever received (rcvd).
WriteAck(tx, rcvd) ==
    /\ In("acks") /\ phase' = After("acks") /\ UNCHANGED app
    /\ LET kept == /\ st.state \in {"ESTABLISHED", "CLOSE_WAIT", "FIN_WAIT_1",
                                    "FIN_WAIT_2", "TIME_WAIT"}
                   /\ rcvd /\ ~tx
           r == [This EXCEPT !.on_ack = kept]
       IN  st' = IF ~st.on_ack THEN This
                 ELSE IF st.on_send THEN r ELSE ReleaseControl(r, tx)

\* WriteTCPDataList: the device takes n of the units that are left.
WriteData(n, tx) ==
    /\ In("data") /\ phase' = After("data") /\ UNCHANGED app
    /\ n <= Unsent(st)
    /\ LET flushes == st.state \in {"ESTABLISHED", "CLOSE_WAIT", "FIN_WAIT_1",
                                    "LAST_ACK"}
           delayed == st.state = "ESTABLISHED" /\ st.on_control
           r == IF flushes THEN FlushTCPSendingBuffer(This, n) ELSE This
           done == [r EXCEPT !.on_send = FALSE]
       IN  st' = IF ~st.on_send \/ delayed THEN This
                 ELSE IF flushes /\ n < Unsent(st) THEN r
                 ELSE IF st.on_ack THEN done ELSE ReleaseControl(done, tx)

Loop ==
    \/ ReceiveDone \/ TimersDone \/ HandleSend \/ HandleAck \/ HandleDestroy
    \/ \E tx \in BOOLEAN :
          \/ HandleConnect(tx) \/ HandleClose(tx) \/ HandleCloseInt(tx)
          \/ HandleReset(tx) \/ HandleResetInt(tx) \/ WriteControl(tx)
          \/ \E rcvd \in BOOLEAN : WriteAck(tx, rcvd)
          \/ \E n \in 0 .. MaxData : WriteData(n, tx)

Timers ==
    \/ \E tx \in BOOLEAN : CheckRtmTimeout(tx)
    \/ CheckTimewaitExpire \/ CheckConnectionTimeout

Peer == \E p \in Segments : Receive(p)

\* Nothing is said of what follows a fatal failure.
Crashed == ~Running /\ UNCHANGED vars

Next == Application \/ Peer \/ Timers \/ Loop \/ Crashed

Spec == Init /\ [][Next]_vars

(* Fairness.  The application returns from its calls, the mTCP thread keeps *)
(* going round, a timer that stays armed expires, and the device is not     *)
(* full for ever.                                                           *)
Fairness ==
    /\ WF_vars(WriteWake) /\ WF_vars(CloseEnd) /\ WF_vars(AbortEnd)
    /\ WF_vars(Loop)
    /\ SF_vars(CheckRtmTimeout(TRUE)) /\ SF_vars(CheckTimewaitExpire)
    /\ SF_vars(CheckConnectionTimeout)
    /\ SF_vars(st.on_control /\ WriteControl(TRUE))
    /\ SF_vars(st.on_ack /\ WriteAck(TRUE, TRUE))
    /\ SF_vars(st.on_send /\ WriteData(Unsent(st), TRUE))

FairSpec == Spec /\ Fairness
-----------------------------------------------------------------------------
(* Properties.                                                             *)

\* Every field of the stream, of the application thread and of the loop has
\* its type: in particular no queue flag is lost and nrtx stays within
\* TCP_MAX_RTX although three places of the code count it up.
TypeOK ==
    /\ st \in [state : TcpState, active : BOOLEAN, socket : BOOLEAN,
               freed : BOOLEAN, have_reset : BOOLEAN, is_fin_sent : BOOLEAN,
               control_waiting : BOOLEAN, on_control : BOOLEAN,
               on_send : BOOLEAN, on_ack : BOOLEAN, on_rto : BOOLEAN,
               on_timewait : BOOLEAN, on_timeout : BOOLEAN, nrtx : 0 .. MaxRtx,
               sndbuf : BOOLEAN, head : SeqNo, len : 0 .. MaxData,
               snd_una : SeqNo, snd_nxt : SeqNo, fss : SeqNo,
               wire : SUBSET SeqNo, queued : SUBSET Queue,
               destroyq : 0 .. 2, actions : {{}},
               out : {<<>>} \cup (TcpState \X Flags), bad : SUBSET Failure]
    /\ app \in [pc : {"idle", "write", "close", "abort"}, seen : TcpState,
                owns : BOOLEAN, left : BOOLEAN]
    /\ phase \in PhaseSet

\* The RTO wheel and the timewait list link a stream through the one
\* sndvar->timer_link (timer.c), so it is never on both: whatever is sent,
\* received or timed out after TIME_WAIT, neither list is corrupted.
TimerLinkExclusive == ~(st.on_rto /\ st.on_timewait)

\* An active close that got its FIN acknowledged (Handle_TCP_ST_FIN_WAIT_1,
\* Handle_TCP_ST_CLOSING) got every byte written before it acknowledged, even
\* if the FIN overtook data or acknowledgements were repeated and overtaken.
GracefulCloseDelivers ==
    st.state \in {"FIN_WAIT_2", "TIME_WAIT"} => st.len = 0

\* The FIN has the sequence number after the last byte in the send buffer:
\* no byte is written behind it, although close computes fss (core.c) in the
\* mTCP thread and mtcp_write fills the buffer in the other.
FinIsLast == st.is_fin_sent /\ st.sndbuf => st.fss = st.head + st.len

\* The stream is in line to send, waits for acks that are in line, or will be
\* put in line by its timer.
InLine ==
    \/ st.on_rto \/ st.on_control \/ st.on_send
    \/ st.control_waiting /\ st.on_ack

\* Every unit on the wire, the SYN's number included, that is not acknowledged
\* will be sent again, wherever snd_nxt was moved meanwhile: ProcessACK, the
\* state handlers, fast retransmission and HandleRTO stop and start the timer
\* and take snd_nxt back in a dozen places.  The FIN's number is FinPending's.
\* It does not survive what moves snd_nxt before the head of the buffer: four
\* equal acknowledgements that were overtaken (LATE3) and a late copy of the
\* handshake (LATESYN).
RetransmissionArmed ==
    (\E n \in st.wire : n >= st.snd_una /\ ~(st.is_fin_sent /\ n = st.fss)) =>
        InLine \/ st.state \in {"CLOSED", "FIN_WAIT_2", "TIME_WAIT", "CLOSED_RSVD"}

\* A stream that owes its peer a FIN or the retransmission of one is in line
\* for it: control_list_waiting is never left behind when the send list and
\* the ack list let go of the stream, and no timer is stopped before the FIN
\* is acknowledged.  It does not survive a fast retransmission (DUP3, LATE3) or
\* a late copy of the handshake (LATESYN): each can move snd_nxt to what the
\* peer acknowledges, and then the timer is stopped with the FIN outstanding.
FinPending == st.state \in {"FIN_WAIT_1", "LAST_ACK", "CLOSING"} => InLine

\* Once the peer is silent, a stream the application let go of is destroyed:
\* retransmission, TIME_WAIT and the queues run to their end.  FIN_WAIT_2 has
\* no timer in this code and is the only place to stay.
ClosedIsReleased ==
    <>[][~Peer]_vars =>
        (app.left ~> (st.freed \/ st.state = "FIN_WAIT_2" \/ ~Running))

\* What the code says of itself and does not keep.  SendControlPacket in
\* CLOSING: "if the sequence is for FIN, send FIN", "if FIN is not sent, send
\* fin with ack".
ClosingSendsFinOrAck ==
    st.out # <<>> /\ st.out[1] = "CLOSING" => st.out[2] \in {"FIN/ACK", "ACK"}

\* FlushTCPSendingBuffer: "Invalid sequence to send", assert(0).  snd_nxt is
\* never before the first byte of the send buffer when the buffer is flushed.
SequenceIsValid == "flush_seq" \notin st.bad

\* mtcp_close ends a connection gracefully: no FIN is on the wire before the
\* bytes that were written before the close.
FinFollowsData == st.is_fin_sent => 0 .. st.fss - 1 \subseteq st.wire
=============================================================================
