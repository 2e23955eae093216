------------------------------- MODULE TcpRecv -------------------------------
(***************************************************************************)
(* tcp_in.c: what an arriving segment does to a stream of type             *)
(* MOS_SOCK_STREAM.  A segment p has the header bits syn, ack, fin, rst,   *)
(* its place seq relative to rcv_nxt ("zero" for a reset with sequence     *)
(* number 0), len > 0 when it carries payload, the acknowledgement number  *)
(* ackno, and third, set on the last of four equal acknowledgements.       *)
(* Timestamps are taken to be acceptable and memory for the receive buffer *)
(* to be available.                                                        *)
(***************************************************************************)
EXTENDS TcpOps

\* If the segment does not lie in the receive window an answer is scheduled;
\* the caller goes on with the segment whatever the outcome.
ValidateSequence(r, p) ==
    IF p.seq # "old" \/ p.rst THEN r
    ELSE IF r.state = "ESTABLISHED" THEN Act(r, "SEND_ACK")
    ELSE IF r.state = "TIME_WAIT" THEN Act(AddtoTimewaitList(r), "SEND_CONTROL")
    ELSE Act(r, "SEND_CONTROL")

ProcessRST(r, p) ==
    CASE r.state = "SYN_RCVD" ->
            IF p.seq = "zero" \/ p.ackno = r.snd_nxt
            THEN Act(Close(r), "DESTROY") ELSE r
      [] r.state \in {"FIN_WAIT_1", "FIN_WAIT_2", "LAST_ACK", "CLOSING",
                      "TIME_WAIT"} -> Act(Close(r), "DESTROY")
      [] OTHER ->
            IF r.queued \cap {"close", "close_int", "reset", "reset_int"} = {}
            THEN Close(r) ELSE r

\* The acknowledgement of the FIN counts as one of the last data unit.
AckOfData(r, p) ==
    IF /\ r.state \in {"FIN_WAIT_1", "FIN_WAIT_2", "CLOSING", "CLOSE_WAIT",
                       "LAST_ACK"}
       /\ r.is_fin_sent /\ p.ackno = r.fss + 1
    THEN p.ackno - 1 ELSE p.ackno

FastRetransmit(r, p, a) ==
    IF p.third /\ p.len = 0 /\ a < r.snd_nxt
    THEN Act([r EXCEPT !.snd_nxt = a,
                       !.nrtx = IF @ < MaxRtx THEN @ + 1 ELSE @], "SEND_DATA")
    ELSE r

\* RECOVERY_AFTER_LOSS: the peer has more than was resent.
RecoverSndNxt(r, a) ==
    IF a > r.snd_nxt
    THEN [r EXCEPT !.snd_nxt = a, !.on_send = @ /\ r.len > 0]
    ELSE r

RemoveAcked(r, a) ==
    IF a <= r.head THEN r
    ELSE UpdateRetransmissionTimer(
            [r EXCEPT !.len = @ - (a - r.head), !.head = a, !.snd_una = a])

ProcessACK(r, p) ==
    LET a == AckOfData(r, p)
    IN  IF ~r.sndbuf \/ a > r.head + r.len THEN r
        ELSE RemoveAcked(RecoverSndNxt(FastRetransmit(r, p, a), a), a)

ProcessTCPPayload(r, p) == IF p.len > 0 THEN Act(r, "SEND_ACK") ELSE r

EnterTimeWait(r) ==
    Act(AddtoTimewaitList([r EXCEPT !.state = "TIME_WAIT"]), "SEND_CONTROL")
-----------------------------------------------------------------------------
Handle_LISTEN(r, p) ==
    IF p.syn THEN Act([r EXCEPT !.state = "SYN_RCVD"], "SEND_CONTROL") ELSE r

\* HandleActiveOpen and the rest of the SYN/ACK case: a stream whose socket
\* was closed meanwhile is reset and destroyed.
ActiveOpen(r, p) ==
    LET opened == [UpdateRetransmissionTimer([r EXCEPT !.snd_nxt = p.ackno])
                      EXCEPT !.state = "ESTABLISHED", !.nrtx = 0]
        owned == IF r.socket THEN opened ELSE Act(opened, "DESTROY")
    IN  AddtoTimeoutList(Act(RemoveFromRTOList(owned), "SEND_CONTROL"))

Handle_SYN_SENT(r, p) ==
    LET acked == IF p.ack THEN [r EXCEPT !.snd_una = @ + 1] ELSE r
    IN  CASE p.ack /\ (p.ackno <= 0 \/ p.ackno > r.snd_nxt) -> r
          [] ~(p.ack /\ (p.ackno <= 0 \/ p.ackno > r.snd_nxt)) /\ p.rst ->
                IF ~p.ack THEN r
                ELSE IF r.socket THEN Close(acked)
                ELSE Act(Close(acked), "DESTROY")
          [] p.ack /\ p.syn /\ p.ackno \in 1 .. r.snd_nxt /\ ~p.rst ->
                ActiveOpen(acked, p)
          [] ~p.ack /\ p.syn /\ ~p.rst ->
                Act([r EXCEPT !.state = "SYN_RCVD", !.snd_nxt = 0], "SEND_CONTROL")
          [] OTHER -> acked

\* The handshake is complete; room says whether the accept queue has a slot.
\* Only a listening socket has one: mtcp->listener is null in a client.
PassiveOpen(r, p, room) ==
    LET opened == RemoveFromRTOList(
            [r EXCEPT !.snd_una = @ + 1, !.snd_nxt = p.ackno, !.nrtx = 0,
                      !.state = "ESTABLISHED"])
    IN  IF r.active THEN Fail(opened, "null_listener")
        ELSE AddtoTimeoutList(
            IF room THEN [opened EXCEPT !.queued = @ \cup {"accept"}]
                    ELSE Act(Close(opened), "SEND_CONTROL"))

Handle_SYN_RCVD(r, p, room) ==
    IF p.ack THEN PassiveOpen(r, p, room)
    ELSE Act([r EXCEPT !.snd_nxt = 0], "SEND_CONTROL")

\* A late copy of the handshake moves snd_nxt to whatever it acknowledges.
Handle_ESTABLISHED(r, p) ==
    LET data == ProcessTCPPayload(r, p)
        acked == IF p.ack THEN ProcessACK(data, p) ELSE data
    IN  IF p.syn THEN Act([r EXCEPT !.snd_nxt = p.ackno], "SEND_CONTROL")
        ELSE IF ~p.fin THEN acked
        ELSE IF p.seq = "next"
        THEN Act([acked EXCEPT !.state = "CLOSE_WAIT"], "SEND_CONTROL")
        ELSE Act(acked, "SEND_ACK")

Handle_CLOSE_WAIT(r, p) ==
    IF p.seq = "old" THEN Act(r, "SEND_CONTROL") ELSE ProcessACK(r, p)

Handle_LAST_ACK(r, p) ==
    LET acked == ProcessACK(r, p)
        closed == UpdateRetransmissionTimer([acked EXCEPT !.snd_una = @ + 1])
    IN  CASE p.seq = "old" -> r
          [] p.seq # "old" /\ ~p.ack -> Act(r, "SEND_CONTROL")
          [] p.seq # "old" /\ p.ack /\ ~r.is_fin_sent -> acked
          [] p.seq # "old" /\ p.ack /\ r.is_fin_sent ->
                IF p.ackno = r.fss + 1 THEN Act(Close(closed), "DESTROY")
                ELSE Act(acked, "SEND_CONTROL")

\* Mutant of FinAcked: any acknowledgement is taken for the one of the FIN.
FinAckedAny(r, p) == r.is_fin_sent

FinAcked(r, p) == r.is_fin_sent /\ p.ackno = r.fss + 1

Handle_FIN_WAIT_1(r, p) ==
    LET acked == ProcessACK(r, p)
        ours == IF FinAcked(r, p)
                THEN RemoveFromRTOList([acked EXCEPT
                        !.snd_una = p.ackno, !.nrtx = 0, !.state = "FIN_WAIT_2",
                        !.snd_nxt = IF p.ackno > @ THEN p.ackno ELSE @])
                ELSE acked
        data == ProcessTCPPayload(ours, p)
    IN  IF p.seq = "old" THEN Act(r, "SEND_CONTROL")
        ELSE IF ~p.ack THEN r
        ELSE IF ~p.fin THEN data
        ELSE IF p.seq # "next" THEN Act(data, "SEND_ACK")
        ELSE IF data.state = "FIN_WAIT_2" THEN EnterTimeWait(data)
        ELSE Act([data EXCEPT !.state = "CLOSING"], "SEND_CONTROL")

Handle_FIN_WAIT_2(r, p) ==
    LET data == ProcessTCPPayload(ProcessACK(r, p), p)
    IN  IF ~p.ack THEN r
        ELSE IF p.fin /\ p.seq = "next" THEN EnterTimeWait(data)
        ELSE data

Handle_CLOSING(r, p) ==
    LET acked == ProcessACK(r, p)
        done == UpdateRetransmissionTimer([acked EXCEPT !.snd_una = p.ackno])
    IN  IF ~p.ack THEN r
        ELSE IF ~FinAcked(r, p) THEN acked
        ELSE AddtoTimewaitList([done EXCEPT !.state = "TIME_WAIT"])
-----------------------------------------------------------------------------
Dispatch(r, p, room) ==
    CASE r.state = "LISTEN" -> Handle_LISTEN(r, p)
      [] r.state = "SYN_SENT" -> Handle_SYN_SENT(r, p)
      [] r.state = "SYN_RCVD" ->
            IF p.syn THEN Handle_LISTEN(r, p)
            ELSE LET opened == Handle_SYN_RCVD(r, p, room)
                 IN  IF p.len > 0 /\ opened.state = "ESTABLISHED"
                     THEN Handle_ESTABLISHED(opened, p) ELSE opened
      [] r.state = "ESTABLISHED" -> Handle_ESTABLISHED(r, p)
      [] r.state = "CLOSE_WAIT" -> Handle_CLOSE_WAIT(r, p)
      [] r.state = "LAST_ACK" -> Handle_LAST_ACK(r, p)
      [] r.state = "FIN_WAIT_1" -> Handle_FIN_WAIT_1(r, p)
      [] r.state = "FIN_WAIT_2" -> Handle_FIN_WAIT_2(r, p)
      [] r.state = "CLOSING" -> Handle_CLOSING(r, p)
      [] r.state = "TIME_WAIT" -> Act(r, "SEND_CONTROL")
      [] OTHER -> r

UpdateRecvTCPContext(r, p, room) ==
    LET seen == IF r.state \in Synchronized THEN ValidateSequence(r, p) ELSE r
        marked == [seen EXCEPT !.have_reset = @ \/ p.rst]
    IN  IF p.rst /\ r.state \notin {"CLOSED", "LISTEN", "SYN_SENT"}
        THEN ProcessRST(marked, p)
        ELSE Dispatch(marked, p, room)

\* The bits of cur_stream->actions, lowest first.
DoActionEndTCPPacket(r, tx) ==
    LET data == IF "SEND_DATA" \in r.actions THEN AddtoSendList(r) ELSE r
        ack == IF "SEND_ACK" \in r.actions THEN EnqueueACK(data) ELSE data
        control == IF "SEND_CONTROL" \in r.actions THEN AddtoControlList(ack, tx)
                   ELSE ack
        gone == IF "DESTROY" \in r.actions THEN DestroyTCPStream(control)
                ELSE control
    IN  [gone EXCEPT !.actions = {}]

\* HandleSockStream.
HandleSockStream(r, p, room, tx) ==
    DoActionEndTCPPacket(UpdateRecvTCPContext(r, p, room), tx)
=============================================================================
