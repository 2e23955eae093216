------------------------------- MODULE TcpOps -------------------------------
(***************************************************************************)
(* What the mTCP thread does to one end-host stream: the state handlers of *)
(* tcp_in.c, the list and packet functions of tcp_out.c and the timers of  *)
(* timer.c, each as an operator from the record of the stream before the   *)
(* call to the record after it.  TcpStream turns them into actions.        *)
(*                                                                         *)
(* Sequence numbers are those of a connection with iss = 0 that writes a   *)
(* few units of data: 0 is the SYN, 1.. the data, then the FIN.  Of the    *)
(* peer's sequence space only the relation to rcv_nxt matters, so a        *)
(* segment is "old" (all of it before rcv_nxt), "next" or "ahead".         *)
(*                                                                         *)
(* The build is the default one (core/src/Makefile.in): NDEBUG, no         *)
(* BE_RESILIENT_TO_PACKET_DROP.  A failed assert is therefore not a stop:  *)
(* its name is added to the field bad and the code after it runs.          *)
(***************************************************************************)
EXTENDS Integers, FiniteSets

CONSTANTS MaxRtx,        \* TCP_MAX_RTX
          MaxSynRetry,   \* TCP_MAX_SYN_RETRY
          TcpTimeout     \* g_config.mos->tcp_timeout > 0

ASSUME RtxAssumption ==
    MaxRtx \in Nat /\ MaxSynRetry \in Nat /\ MaxSynRetry < MaxRtx
ASSUME TimeoutAssumption == TcpTimeout \in BOOLEAN

TcpState == {"CLOSED", "LISTEN", "SYN_SENT", "SYN_RCVD", "ESTABLISHED",
             "FIN_WAIT_1", "FIN_WAIT_2", "CLOSE_WAIT", "CLOSING", "LAST_ACK",
             "TIME_WAIT", "CLOSED_RSVD"}
Synchronized == TcpState \ {"CLOSED", "LISTEN", "SYN_SENT", "SYN_RCVD"}

Queue == {"connect", "send", "ack", "close", "close_int", "reset",
          "reset_int", "accept"}

\* Asserts and other failures; after a fatal one the code works on memory that
\* is not the stream's, or the process has exited.
Fatal == {"double_destroy", "use_after_free", "connect_exit", "null_listener",
          "flush_past_end"}
Failure == {"rto_state", "flush_seq", "no_sndbuf", "control_state"} \cup Fatal

Fail(r, what) == [r EXCEPT !.bad = @ \cup {what}]
Act(r, a) == [r EXCEPT !.actions = @ \cup {a}]
-----------------------------------------------------------------------------
(* timer.c.  The RTO wheel and the timewait list share sndvar->timer_link. *)

AddtoRTOList(r) ==
    IF r.on_timewait THEN r ELSE [r EXCEPT !.on_rto = TRUE]

RemoveFromRTOList(r) == [r EXCEPT !.on_rto = FALSE]

\* Mutant of AddtoTimewaitList: the retransmission timer is left running.
AddtoTimewaitListKeepsRto(r) == [r EXCEPT !.on_timewait = TRUE]

AddtoTimewaitList(r) == [r EXCEPT !.on_timewait = TRUE, !.on_rto = FALSE]

AddtoTimeoutList(r) == [r EXCEPT !.on_timeout = @ \/ TcpTimeout]

RemoveFromTimeoutList(r) == [r EXCEPT !.on_timeout = FALSE]

\* Mutant of UpdateRetransmissionTimer: the timer is stopped although part
\* of the data is still unacknowledged.
UpdateRetransmissionTimerStop(r) ==
    [RemoveFromRTOList(r) EXCEPT !.nrtx = 0]

UpdateRetransmissionTimer(r) ==
    LET off == [RemoveFromRTOList(r) EXCEPT !.nrtx = 0]
    IN  IF r.snd_nxt > r.snd_una THEN AddtoRTOList(off) ELSE off
-----------------------------------------------------------------------------
(* tcp_out.c: the three lists of a sender and what is put on the wire.     *)

AddtoSendList(r) ==
    IF ~r.sndbuf THEN Fail(r, "no_sndbuf") ELSE [r EXCEPT !.on_send = TRUE]

EnqueueACK(r) == [r EXCEPT !.on_ack = TRUE]

\* DestroyTCPStream: off every list of the mTCP thread, but not off the
\* queues that the application fills.
DestroyTCPStream(r) ==
    IF r.freed THEN Fail(r, "double_destroy")
    ELSE [r EXCEPT !.state = "CLOSED_RSVD", !.freed = TRUE,
                   !.on_control = FALSE, !.on_send = FALSE, !.on_ack = FALSE,
                   !.on_rto = FALSE, !.on_timewait = FALSE,
                   !.on_timeout = FALSE, !.sndbuf = FALSE, !.len = 0]

Close(r) == [r EXCEPT !.state = "CLOSED_RSVD"]

\* SendTCPPacket with the flags SYN (with or without ACK), FIN/ACK, or none
\* that takes a sequence number.
SendSyn(r) ==
    AddtoRTOList([r EXCEPT !.wire = @ \cup {r.snd_nxt}, !.snd_nxt = @ + 1])

SendFin(r) ==
    AddtoRTOList([r EXCEPT !.is_fin_sent = TRUE, !.wire = @ \cup {r.fss},
                           !.snd_nxt = @ + 1])

Flags == {"SYN", "SYN/ACK", "ACK", "FIN/ACK", "RST"}

\* The flags of the packet SendControlPacket sends in a state.
ControlFlags(r) ==
    CASE r.state = "SYN_SENT" -> "SYN"
      [] r.state = "SYN_RCVD" -> "SYN/ACK"
      [] r.state \in {"ESTABLISHED", "CLOSE_WAIT", "FIN_WAIT_2", "TIME_WAIT"}
            -> "ACK"
      [] r.state \in {"LAST_ACK", "FIN_WAIT_1"} -> "FIN/ACK"
      [] r.state \in {"CLOSING", "CLOSED_RSVD"} -> "RST"
      [] OTHER -> "none"

\* The packet has to wait for data or acks that are queued before it.
ControlMustWait(r) ==
    /\ r.state \in {"LAST_ACK", "FIN_WAIT_1", "CLOSING", "CLOSED_RSVD"}
    /\ r.on_send \/ r.on_ack

\* SendControlPacket once nothing has to go before it.  CLOSING has no break
\* and falls into the case of CLOSED_RSVD.
SendControlPacket(r) ==
    LET flags == ControlFlags(r)
        noted == [r EXCEPT !.out = <<r.state, flags>>]
    IN  CASE flags = "SYN" -> SendSyn(noted)
          [] flags = "SYN/ACK" -> SendSyn([noted EXCEPT !.snd_nxt = 0])
          [] flags = "ACK" -> noted
          [] flags = "FIN/ACK" -> SendFin(noted)
          [] flags = "RST" -> DestroyTCPStream(noted)
          [] OTHER -> Fail(r, "control_state")

\* AddtoControlList with TRY_SEND_BEFORE_QUEUE: the packet is sent at once if
\* the device takes it (tx) and nothing has to go before it.
AddtoControlList(r, tx) ==
    IF tx /\ ~ControlMustWait(r)
    THEN [SendControlPacket(r) EXCEPT !.on_control = FALSE]
    ELSE [r EXCEPT !.on_control = TRUE]

\* FlushTCPSendingBuffer when the windows admit all that is buffered and the
\* device takes n units.  buffered_len is unsigned: a snd_nxt beyond the end
\* of the buffer makes it huge and bytes outside the buffer are sent.
FlushTCPSendingBuffer(r, n) ==
    LET end == r.head + r.len
    IN  CASE ~r.sndbuf -> Fail(r, "no_sndbuf")
          [] r.sndbuf /\ r.len = 0 -> r
          [] r.sndbuf /\ r.len > 0 /\ r.snd_nxt < r.head -> Fail(r, "flush_seq")
          [] r.sndbuf /\ r.len > 0 /\ r.snd_nxt > end -> Fail(r, "flush_past_end")
          [] OTHER ->
                IF n = 0 THEN r
                ELSE AddtoRTOList([r EXCEPT
                        !.wire = @ \cup (r.snd_nxt .. r.snd_nxt + n - 1),
                        !.snd_nxt = @ + n])

Unsent(r) ==
    IF r.sndbuf /\ r.len > 0 /\ r.snd_nxt \in r.head .. r.head + r.len
    THEN r.head + r.len - r.snd_nxt ELSE 0

\* Mutant of ReleaseControl: the packet that waited is forgotten.
ReleaseControlNever(r, tx) == r

\* A FIN that waited for the data or the acks is sent once both are gone.
ReleaseControl(r, tx) ==
    IF r.control_waiting
    THEN AddtoControlList([r EXCEPT !.control_waiting = FALSE], tx) ELSE r
-----------------------------------------------------------------------------
(* timer.c: what happens when a timer expires.                             *)

\* Mutant of GiveUp: nobody is there to be told, and nothing is destroyed.
GiveUpNotifyOnly(r) == Close(r)

\* Out of retries: tell the owner of the socket, or destroy.
GiveUp(r) == IF r.socket THEN Close(r) ELSE DestroyTCPStream(Close(r))

Retransmit(r, tx) ==
    LET back == [r EXCEPT !.snd_nxt = r.snd_una]
    IN  CASE r.state \in {"ESTABLISHED", "CLOSE_WAIT"} -> AddtoSendList(back)
          [] r.state \in {"FIN_WAIT_1", "CLOSING", "LAST_ACK"} ->
                IF r.snd_una < r.fss
                THEN AddtoSendList([back EXCEPT !.on_control = FALSE,
                                                !.control_waiting = TRUE])
                ELSE AddtoControlList(back, tx)
          [] OTHER -> AddtoControlList(back, tx)

\* HandleRTO, for a stream just taken off the wheel.
HandleRTO(r, tx) ==
    LET again == [r EXCEPT !.nrtx = @ + 1]
    IN  CASE r.nrtx >= MaxRtx ->
                IF r.state \in {"LISTEN", "SYN_SENT", "SYN_RCVD"}
                THEN DestroyTCPStream(Close(r)) ELSE GiveUp(r)
          [] r.nrtx < MaxRtx /\ r.state = "SYN_SENT" /\ r.nrtx + 1 > MaxSynRetry ->
                GiveUp(again)
          [] r.nrtx < MaxRtx /\ r.state \in {"CLOSED", "LISTEN", "TIME_WAIT",
                                             "CLOSED_RSVD"} ->
                Fail(again, "rto_state")
          [] OTHER -> Retransmit(again, tx)
=============================================================================
