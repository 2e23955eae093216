---------------------------- MODULE MonitorFlow ----------------------------
(***************************************************************************)
(* One monitored flow (stream_type MOS_SOCK_MONITOR_STREAM_ACTIVE only):   *)
(* two hosts talk past the middlebox, which keeps a stream for each of     *)
(* them.  A packet first moves the stream of its sender                    *)
(* (UpdatePassiveSendTCPContext), then the stream of its receiver          *)
(* (UpdateRecvTCPContext), and is forwarded.  Packets are lost before and  *)
(* behind the middlebox and sent again.                                    *)
(*                                                                         *)
(* Sequence numbers are positions in what a host sends: 0 is its SYN, so   *)
(* iss and irs are 0; a segment has at most one byte.  A monitor stream    *)
(* has no send buffer, so ProcessACK is not called, and the check of       *)
(* ValidateSequence decides nothing but what an end host would answer.     *)
(* buffer_mgmt is BUFMGMT_FULL, and the pools are large enough: when       *)
(* AttachServerTCPStream fails the code goes on with a stream it freed.    *)
(***************************************************************************)
EXTENDS Integers, FiniteSets

CONSTANTS Flight,      \* bytes a host sends before they are acknowledged
          Rcvbuf,      \* rmem_size, the length of a stream's ring
          TCP_INITIAL_WINDOW,
          Timeout,     \* tcp_timeout, in ticks
          Setups       \* what the hosts send, tcp_tw_interval in ticks, and the
                       \* sides whose monitoring the application may stop

ASSUME MonitorAssumption ==
    /\ Setups \subseteq [data : [{"CLI", "SVR"} -> Nat], tw : Nat, stoppable : SUBSET {"CLI", "SVR"}]
    /\ Flight \in Nat /\ Rcvbuf \in Nat /\ TCP_INITIAL_WINDOW \in Nat /\ Timeout \in Nat \ {0}

VARIABLES flow,      \* the two streams, or no stream
          host,      \* the two hosts
          data,      \* data[x]: bound on the bytes host x sends
          tw,        \* tcp_tw_interval
          stoppable, \* the sides whose monitoring may be stopped
          idle       \* the ticks since a packet with an ACK was seen, for the properties

vars == <<flow, host, data, tw, stoppable, idle>>

Side == {"CLI", "SVR"}
Peer(x) == IF x = "CLI" THEN "SVR" ELSE "CLI"

NoFlow == [x \in {} |-> {}]
Alive == flow # NoFlow

\* A host: how much it sent and whether a FIN ends it; what it received of its
\* peer's, in any order, and how much of that without a gap; how much of its own
\* it knows to be received.
Quiet == [sent |-> 0, fin |-> FALSE, rcvd |-> {}, got |-> 0, una |-> 0, gone |-> FALSE]

\* have: the bytes stored in the receive buffer, those included that later ones
\* have overwritten; age and tw_age: ticks since last_active_ts and since the
\* stream entered the timewait list.
CreateTCPStream ==
    [state |-> "LISTEN", fss |-> 0, is_fin_sent |-> FALSE, rcv_nxt |-> 0,
     rcv_wnd |-> TCP_INITIAL_WINDOW, snd_nxt |-> 0, have |-> {}, status_mgmt |-> TRUE,
     on_timeout_list |-> FALSE, on_timewait_list |-> FALSE, age |-> 0, tw_age |-> 0]

Init ==
    /\ flow = NoFlow
    /\ host = [x \in Side |-> Quiet]
    /\ \E setup \in Setups : data = setup.data /\ tw = setup.tw /\ stoppable = setup.stoppable
    /\ idle = 0
-----------------------------------------------------------------------------
(* The stream of the sender.                                               *)

\* Sequence number behind the payload of p.
End(p) == p.seq + p.len

\* The cases ESTABLISHED and CLOSE_WAIT.
PassiveFin(s, p) ==
    [s EXCEPT !.fss = End(p), !.is_fin_sent = TRUE, !.snd_nxt = @ + 1,
              !.state = IF s.state = "ESTABLISHED" THEN "FIN_WAIT_1"
                        ELSE IF p.ack /\ p.ack_seq = s.rcv_nxt THEN "LAST_ACK"
                        ELSE "CLOSING"]

UpdatePassiveSendTCPContext(s, p) ==
    IF p.syn /\ ~p.ack /\ s.state \in {"LISTEN", "SYN_SENT"}
    THEN [s EXCEPT !.snd_nxt = p.seq + 1, !.state = "SYN_SENT", !.age = 0,
                   !.on_timeout_list = TRUE]
    ELSE LET a == [s EXCEPT !.age = IF p.ack THEN 0 ELSE @, !.snd_nxt = End(p)]
         IN  IF p.rst THEN [a EXCEPT !.state = "CLOSED_RSVD"]
             ELSE IF s.state = "SYN_RCVD" /\ p.ack /\ p.syn
             THEN [a EXCEPT !.snd_nxt = p.seq + 1]
             ELSE IF s.state \in {"ESTABLISHED", "CLOSE_WAIT"} /\ p.fin
             THEN PassiveFin(a, p)
             ELSE a
-----------------------------------------------------------------------------
(* The stream of the receiver.                                             *)

\* The first byte that is missing, if none before next is.
FirstGap(have, next) == CHOOSE n \in next .. next + Cardinality(have) :
    n \notin have /\ \A i \in next .. n - 1 : i \in have

\* A payload beyond the window is dropped; MOS_ON_ERROR announces it.
Admitted(s, p) == End(p) >= s.rcv_nxt /\ End(p) <= s.rcv_nxt + s.rcv_wnd

\* pile is moved to rcv_nxt first, so that tcprb_pwrite may give up all before it
\* to fit the byte in; it refuses one that is still too far, which the window of
\* a new stream admits.
Fits(s, p) == p.seq < s.rcv_nxt + Rcvbuf

\* Mutant of Window: what was merged before takes its space for good.
WindowLeft(s, next) == Rcvbuf - (next - 1)

\* rcv_wnd: the ring without the bytes between pile and the next gap.  Where the
\* host has sent its FIN pile is moved up again.
Window(s, next) ==
    IF s.state \in {"FIN_WAIT_1", "FIN_WAIT_2"} THEN Rcvbuf ELSE Rcvbuf - (next - s.rcv_nxt)

\* The buffer merges what it has.
ProcessTCPPayload(s, p) ==
    IF p.len = 0 \/ ~Admitted(s, p) THEN s
    ELSE LET have == s.have \cup (IF Fits(s, p) THEN {p.seq} ELSE {})
             next == FirstGap(have, s.rcv_nxt)
         IN  [s EXCEPT !.have = have, !.rcv_nxt = next, !.rcv_wnd = Window(s, next)]

AddtoTimewaitList(s) == [s EXCEPT !.on_timewait_list = TRUE, !.tw_age = 0]

\* A FIN is taken at its place only.
FinAccepted(s, p) == p.fin /\ End(p) = s.rcv_nxt

\* Mutant of AckOfFin: the ACK of the data before the FIN passes for its own.
AckOfFinEarly(s, p) == p.ack /\ s.is_fin_sent /\ p.ack_seq >= s.fss

AckOfFin(s, p) == p.ack /\ s.is_fin_sent /\ p.ack_seq = s.fss + 1

Handle_TCP_ST_LISTEN(s, p) ==
    IF p.syn THEN [s EXCEPT !.state = "SYN_RCVD", !.rcv_nxt = p.seq] ELSE s

Handle_TCP_ST_SYN_SENT(s, p) ==
    IF ~p.ack \/ p.ack_seq <= 0 \/ p.ack_seq > s.snd_nxt THEN s
    ELSE IF p.rst THEN [s EXCEPT !.state = "CLOSED_RSVD"]
    ELSE IF p.syn THEN [s EXCEPT !.state = "ESTABLISHED", !.rcv_nxt = p.seq + 1,
                                 !.snd_nxt = p.ack_seq]
    ELSE s

Handle_TCP_ST_ESTABLISHED(s, p) ==
    IF p.syn THEN [s EXCEPT !.snd_nxt = p.ack_seq]
    ELSE LET b == ProcessTCPPayload(s, p)
         IN  IF FinAccepted(b, p)
             THEN [b EXCEPT !.state = "CLOSE_WAIT", !.rcv_nxt = @ + 1] ELSE b

Handle_TCP_ST_SYN_RCVD(s, p) ==
    IF p.syn /\ p.seq = 0 THEN Handle_TCP_ST_LISTEN(s, p)
    ELSE IF ~p.ack THEN [s EXCEPT !.snd_nxt = 0]
    ELSE LET e == [s EXCEPT !.state = "ESTABLISHED", !.rcv_nxt = 1, !.snd_nxt = p.ack_seq]
         IN  IF p.len > 0 THEN Handle_TCP_ST_ESTABLISHED(e, p) ELSE e

Handle_TCP_ST_LAST_ACK(s, p) ==
    IF p.seq >= s.rcv_nxt /\ AckOfFin(s, p)
    THEN [s EXCEPT !.state = "CLOSED_RSVD"] ELSE s

\* The end of FIN_WAIT_1 and FIN_WAIT_2: payload and FIN.
ReceiveFin(s, p) ==
    LET b == ProcessTCPPayload(s, p)
        c == [b EXCEPT !.rcv_nxt = @ + 1]
    IN  IF ~FinAccepted(b, p) THEN b
        ELSE IF s.state = "FIN_WAIT_1" THEN [c EXCEPT !.state = "CLOSING"]
        ELSE AddtoTimewaitList([c EXCEPT !.state = "TIME_WAIT"])

Handle_TCP_ST_FIN_WAIT_1(s, p) ==
    IF p.seq < s.rcv_nxt \/ ~p.ack THEN s
    ELSE ReceiveFin(IF AckOfFin(s, p) THEN [s EXCEPT !.state = "FIN_WAIT_2"] ELSE s, p)

Handle_TCP_ST_FIN_WAIT_2(s, p) == IF p.ack THEN ReceiveFin(s, p) ELSE s

Handle_TCP_ST_CLOSING(s, p) ==
    IF AckOfFin(s, p) THEN AddtoTimewaitList([s EXCEPT !.state = "TIME_WAIT"]) ELSE s

ProcessRST(s, p) ==
    IF s.state = "SYN_RCVD" /\ p.seq # 0 /\ p.ack_seq # s.snd_nxt THEN s
    ELSE [s EXCEPT !.state = "CLOSED_RSVD"]

UpdateRecvTCPContext(s0, p) ==
    LET s == [s0 EXCEPT !.age = 0]
    IN  IF p.rst /\ s.state \notin {"LISTEN", "SYN_SENT"} THEN ProcessRST(s, p)
        ELSE CASE s.state = "LISTEN"      -> Handle_TCP_ST_LISTEN(s, p)
               [] s.state = "SYN_SENT"    -> Handle_TCP_ST_SYN_SENT(s, p)
               [] s.state = "SYN_RCVD"    -> Handle_TCP_ST_SYN_RCVD(s, p)
               [] s.state = "ESTABLISHED" -> Handle_TCP_ST_ESTABLISHED(s, p)
               [] s.state = "LAST_ACK"    -> Handle_TCP_ST_LAST_ACK(s, p)
               [] s.state = "FIN_WAIT_1"  -> Handle_TCP_ST_FIN_WAIT_1(s, p)
               [] s.state = "FIN_WAIT_2"  -> Handle_TCP_ST_FIN_WAIT_2(s, p)
               [] s.state = "CLOSING"     -> Handle_TCP_ST_CLOSING(s, p)
               [] s.state = "TIME_WAIT"   ->
                     IF s.on_timewait_list THEN AddtoTimewaitList(s) ELSE s
               [] OTHER                   -> s
-----------------------------------------------------------------------------
(* The flow.                                                               *)

\* CreateClientTCPStream, and AttachServerTCPStream in UpdateMonitor.
CreateStream(p) ==
    IF p.syn /\ ~p.ack THEN [x \in Side |-> CreateTCPStream] ELSE NoFlow

UpdateMonitor(f, from, p) ==
    LET sent == IF f[from].status_mgmt
                THEN [f EXCEPT ![from] = UpdatePassiveSendTCPContext(@, p)] ELSE f
    IN  IF sent[Peer(from)].status_mgmt
        THEN [sent EXCEPT ![Peer(from)] = UpdateRecvTCPContext(@, p)] ELSE sent

\* Mutant of Over: an end that is over only when it is closed.
OverClosed(s) == s.state = "CLOSED_RSVD" \/ ~s.status_mgmt

\* An end that has nothing more to show.
Over(s) ==
    \/ s.state = "TIME_WAIT" /\ tw = 0
    \/ s.state = "CLOSED_RSVD"
    \/ ~s.status_mgmt

HandleMonitorStream(f, from, p) ==
    LET g == UpdateMonitor(f, from, p)
    IN  IF \A x \in Side : Over(g[x]) THEN NoFlow ELSE g

ProcessInTCPPacket(from, p) ==
    LET f == IF Alive THEN flow ELSE CreateStream(p)
    IN  IF f = NoFlow THEN NoFlow ELSE HandleMonitorStream(f, from, p)
-----------------------------------------------------------------------------
(* The hosts.                                                              *)

Segment(x, seq, len, syn, fin) ==
    [seq |-> seq, len |-> len, syn |-> syn, fin |-> fin, rst |-> FALSE,
     ack |-> host[x].got > 0, ack_seq |-> host[x].got]

\* The sequence numbers p takes.
Numbers(p) == p.seq .. End(p) - (IF p.syn \/ p.fin THEN 0 ELSE 1)

\* y receives p, and keeps what comes out of order.
Receive(h, y, p) ==
    LET rcvd == h[y].rcvd \cup Numbers(p)
    IN  IF h[y].gone THEN h
        ELSE IF p.rst THEN [h EXCEPT ![y].gone = TRUE]
        ELSE [h EXCEPT ![y].rcvd = rcvd,
                       ![y].got = FirstGap(rcvd, @),
                       ![y].una = IF p.ack /\ p.ack_seq > @ THEN p.ack_seq ELSE @]

\* x, now h[x], sends p; p is lost before or behind the middlebox or arrives.
Emit(h, x, p) ==
    \/ /\ host' = h
       /\ UNCHANGED <<flow, idle, tw>>
    \/ /\ flow' = ProcessInTCPPacket(x, p)
       /\ host' \in {h, Receive(h, Peer(x), p)}
       /\ idle' = IF p.ack THEN 0 ELSE idle
       /\ UNCHANGED tw

Talks(x) == ~host[x].gone /\ host[x].got > 0 /\ host[x].una > 0

SendSyn(x) ==
    /\ ~host[x].gone /\ host[x].sent = 0 /\ (x = "SVR" => host[x].got > 0)
    /\ Emit([host EXCEPT ![x].sent = 1], x, Segment(x, 0, 0, TRUE, FALSE))

\* Data within the receiver's window, a FIN, or both.
SendMore(x) ==
    /\ Talks(x) /\ ~host[x].fin
    /\ \E len \in 0 .. 1, fin \in BOOLEAN :
        /\ len > 0 \/ fin
        /\ len > 0 => /\ host[x].sent + len <= data[x] + 1
                      /\ host[x].sent + len <= host[x].una + Flight
        /\ Emit([host EXCEPT ![x].sent = @ + len + (IF fin THEN 1 ELSE 0), ![x].fin = fin],
                x, Segment(x, host[x].sent, len, FALSE, fin))

SendAck(x) ==
    /\ Talks(x)
    /\ Emit(host, x, Segment(x, host[x].sent, 0, FALSE, FALSE))

SendRst(x) ==
    /\ ~host[x].gone /\ host[x].got > 0
    /\ Emit([host EXCEPT ![x].gone = TRUE], x,
            [Segment(x, host[x].sent, 0, FALSE, FALSE) EXCEPT !.rst = TRUE])

\* What is not known to have arrived is sent again, a number at a time.
Resend(x) ==
    /\ ~host[x].gone
    /\ \E q \in host[x].una .. host[x].sent - 1 :
        LET fin == host[x].fin /\ q = host[x].sent - 1
        IN  /\ q > 0 => host[x].got > 0
            /\ Emit(host, x, Segment(x, q, IF q = 0 \/ fin THEN 0 ELSE 1, q = 0, fin))
-----------------------------------------------------------------------------
(* The middlebox between packets.                                          *)

\* mtcp_cb_stop, for the last socket that monitors the side.
StopMon(x) ==
    /\ Alive /\ x \in stoppable
    /\ flow' = [flow EXCEPT ![x].status_mgmt = FALSE]
    /\ UNCHANGED <<host, tw, idle>>

\* Mutant of TimewaitExpires: a check that waits for the time alone.
TimewaitExpiresAlone(f) == \E x \in Side : f[x].on_timewait_list /\ f[x].tw_age >= tw

\* CheckTimewaitExpire waits for the other end.
TimewaitExpires(f) ==
    \E x \in Side : /\ f[x].on_timewait_list /\ f[x].tw_age >= tw
                    /\ f[Peer(x)].state \in {"CLOSED_RSVD", "TIME_WAIT"}

ConnectionTimesOut(f) == \E x \in Side : f[x].on_timeout_list /\ f[x].age >= Timeout

\* Ages stop where they make no difference any more.
Older(n, most) == IF n < most THEN n + 1 ELSE n

Aged(f) == [x \in Side |-> [f[x] EXCEPT !.age = Older(@, Timeout),
                                        !.tw_age = IF f[x].on_timewait_list THEN Older(@, tw) ELSE @]]

\* Both streams go with DestroyTCPStream, also when both are on the timewait
\* list: the walk then steps on the freed one, whose on_timewait_list is off.
CheckTimewaitExpire ==
    /\ Alive /\ TimewaitExpires(flow)
    /\ flow' = NoFlow
    /\ UNCHANGED <<host, tw, idle>>

\* A round in which ts is a new one.
CheckConnectionTimeout ==
    /\ Alive
    /\ LET f == Aged(flow)
       IN  flow' = IF TimewaitExpires(f) \/ ConnectionTimesOut(f) THEN NoFlow ELSE f
    /\ idle' = Older(idle, Timeout)
    /\ UNCHANGED <<host, tw>>

HostNext == \E x \in Side : SendSyn(x) \/ SendMore(x) \/ SendAck(x) \/ SendRst(x) \/ Resend(x)

Next ==
    /\ HostNext \/ CheckTimewaitExpire \/ CheckConnectionTimeout \/ \E x \in Side : StopMon(x)
    /\ UNCHANGED <<data, stoppable>>

Spec == Init /\ [][Next]_vars
-----------------------------------------------------------------------------
(* Properties.                                                             *)

\* Every byte that a host has received was stored in the buffer of its stream,
\* while the flow is monitored.
NewDataIsStored ==
    Alive => \A x \in Side : flow[x].status_mgmt =>
        \A i \in host[x].rcvd \ {0} :
            (host[Peer(x)].fin /\ i = host[Peer(x)].sent - 1) \/ i \in flow[x].have

\* Hosts keep no more in flight than half of the ring, so that a gap that closes
\* leaves a window for all that may come next.
Spacious == 2 * Flight <= Rcvbuf /\ Flight <= TCP_INITIAL_WINDOW

\* With such hosts the monitor misses no byte, whatever was lost, repeated or
\* overtaken; with others it does (mtcp_peek(3) says that new data are stored).
DataIsSeen == Spacious => NewDataIsStored

\* The connection is over: a host reset it, or each has received the other's FIN.
SomeoneReset == \E x \in Side : host[x].gone
ReallyOver == SomeoneReset \/ \A x \in Side : host[x].fin /\ host[Peer(x)].got = host[x].sent

\* Side x alone can know no more than that its own FIN arrived and the other
\* one was sent.
SeenOver(x) ==
    \/ SomeoneReset
    \/ (\A y \in Side : host[y].fin) /\ host[Peer(x)].got = host[x].sent

\* The flow ends because nobody monitors it, because it was idle, or because the
\* sides that are monitored are over.
Monitored == {x \in Side : flow[x].status_mgmt}
EndsRightly ==
    \/ Monitored = {} \/ idle' >= Timeout
    \/ IF Monitored = Side THEN ReallyOver' ELSE \A x \in Monitored : SeenOver(x)'

\* A flow that is destroyed ended, or stays untouched, also when the server's side
\* is no longer monitored.
EndIsReal == [][(Alive /\ flow' = NoFlow /\ "CLI" \in Monitored) => EndsRightly]_vars

\* So it should be when the monitoring of either side is stopped: MOS_STOP_MON is
\* "for the specific side" (mtcp_api.h).  But only the client's stream is on the
\* timeout list, and its last_active_ts stands still from then on.
OtherSideStays == [][(Alive /\ flow' = NoFlow) => EndsRightly]_vars

\* Host y has received the FIN of host x.
FinReached(x) == host[x].fin /\ host[Peer(x)].got = host[x].sent

\* What the state of a stream says of the two hosts is so: a FIN that counts as
\* sent was sent, one that counts as acknowledged has arrived, and a connection
\* that counts as set up was set up by both.
StateIsTrue ==
    Alive => \A x \in Side :
        LET state == flow[x].state
        IN  /\ state \notin {"LISTEN", "SYN_SENT", "SYN_RCVD", "CLOSED_RSVD"} =>
                   host["CLI"].sent > 0 /\ host["SVR"].sent > 0
            /\ state \in {"FIN_WAIT_1", "FIN_WAIT_2", "CLOSING", "LAST_ACK", "TIME_WAIT"} => host[x].fin
            /\ state \in {"CLOSE_WAIT", "CLOSING", "LAST_ACK", "TIME_WAIT"} => host[Peer(x)].fin
            /\ state = "LAST_ACK" => FinReached(Peer(x))
            /\ state \in {"FIN_WAIT_2", "TIME_WAIT"} => FinReached(x)
            /\ state = "CLOSED_RSVD" => FinReached(x) \/ \E y \in Side : host[y].gone

\* With no timewait interval a flow does not outlive its connection: when each
\* host knows that its FIN arrived, the flow is gone, unless a stream missed a
\* FIN that its host has (as one in SYN_RCVD does, tcp_in.c:1342, when the ACK
\* of the handshake is lost).
OverIsReleased ==
    ~ /\ tw = 0 /\ Alive
      /\ \A x \in Side : /\ flow[x].status_mgmt /\ flow[x].rcv_nxt = host[x].got
                         /\ ~host[x].gone /\ host[x].fin /\ host[x].una = host[x].sent
============================================================================
