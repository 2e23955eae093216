------------------------------- MODULE Sender -------------------------------
(***************************************************************************)
(* The streams that share a sender (struct mtcp_sender, one for a device): *)
(* its control, ACK and send list, in the order in which                   *)
(* WritePacketsToChunks serves them, the window of FlushTCPSendingBuffer   *)
(* and, through Arp, the addresses of the hosts.                           *)
(*                                                                         *)
(* TcpStream has all that happens to one stream; here a stream has what    *)
(* decides whether it may send.  Data and windows count segments.  A       *)
(* retransmission is one action (Resend), whichever timer asked for it.    *)
(* The lists hold every stream at most once, so thresh, which is the       *)
(* number of streams a core may have, never ends a loop.                   *)
(***************************************************************************)
EXTENDS Arp, Integers, Sequences, SequencesExt, FiniteSetsExt

CONSTANTS Stream,
          Addr,
          Dest,       \* Dest[s] is the daddr of stream s
          Answering,  \* the addresses of hosts that are up
          Windows,    \* what a peer may advertise
          Room,       \* packets the device takes in a round
          MaxAcks,    \* bound on the pending ACKs; the field has 6 bits
          MaxRtx,     \* TCP_MAX_RTX
          MaxLost,    \* bound on the ARP requests that are lost
          Setups      \* the users there may be, and what is known at the start

Deed == {"write", "close", "abort", "data", "fin"}

\* does[s] is what the users of stream s do once it is connected; they write data
\* segments at most; known are the hosts whose addresses are in the ARP table.
ASSUME SenderAssumption ==
    /\ Dest \in [Stream -> Addr] /\ Answering \subseteq Addr
    /\ Windows \subseteq Nat /\ Room \in Nat \ {0}
    /\ MaxRtx \in Nat /\ MaxLost \in Nat /\ MaxAcks \in 1 .. 63
    /\ Setups \subseteq [does : [Stream -> SUBSET Deed], data : Nat, known : SUBSET Addr]

VARIABLES setup, \* the users, of Setups
          m,     \* the streams, the sender, the device and the ARP state
          round  \* changes with every round of the main loop

vars == <<setup, m, round>>

State == {"CLOSED", "SYN_SENT", "ESTABLISHED", "CLOSE_WAIT", "FIN_WAIT_1",
          "FIN_WAIT_2", "LAST_ACK", "CLOSED_RSVD", "FREED"}

\* unsent and flight are the data in the send buffer after and before snd_nxt,
\* out is the SYN or FIN that is sent and not acknowledged, owed tells whether
\* the peer has sent data since the stream's last packet, wrote how much was
\* written.
Idle == [state |-> "CLOSED", unsent |-> 0, flight |-> 0, out |-> "none",
         peer_wnd |-> 0, on_control |-> FALSE, on_send |-> FALSE,
         on_ack |-> FALSE, control_list_waiting |-> FALSE, ack_cnt |-> 0,
         is_wack |-> FALSE, owed |-> FALSE,
         nrtx |-> 0, wrote |-> 0]

\* A stream that was destroyed; it is not used again.
Freed == [Idle EXCEPT !.state = "FREED"]

Init ==
    /\ setup \in Setups
    /\ m = [st |-> [s \in Stream |-> Idle], closeq_int |-> <<>>, resetq_int |-> <<>>,
            control_list |-> <<>>, ack_list |-> <<>>, send_list |-> <<>>,
            room |-> Room, arp_table |-> setup.known, arp_list |-> {}, arp_wire |-> {},
            lost |-> 0]
    /\ round = 0
-----------------------------------------------------------------------------
(* The lists.                                                              *)

\* Where s is on the list.
Place(list, s) == CHOOSE i \in DOMAIN list : list[i] = s

\* A list without s, for s on it.
Off(list, s) == RemoveAt(list, Place(list, s))

AddtoSendList(r, s) ==
    IF r.st[s].on_send THEN r
    ELSE [r EXCEPT !.st[s].on_send = TRUE, !.send_list = Append(@, s)]

AddtoACKList(r, s) ==
    IF r.st[s].on_ack THEN r
    ELSE [r EXCEPT !.st[s].on_ack = TRUE, !.ack_list = Append(@, s)]

RemoveFromControlList(r, s) ==
    IF r.st[s].on_control
    THEN [r EXCEPT !.st[s].on_control = FALSE, !.control_list = Off(@, s)] ELSE r

RemoveFromACKList(r, s) ==
    IF r.st[s].on_ack
    THEN [r EXCEPT !.st[s].on_ack = FALSE, !.ack_list = Off(@, s)] ELSE r

RemoveFromSendList(r, s) ==
    IF r.st[s].on_send
    THEN [r EXCEPT !.st[s].on_send = FALSE, !.send_list = Off(@, s)] ELSE r

\* EnqueueACK with ACK_OPT_NOW, ACK_OPT_AGGREGATE or ACK_OPT_WACK.
EnqueueACK(r, s, opt) ==
    LET c == r.st[s].ack_cnt
    IN  AddtoACKList(
            [r EXCEPT !.st[s].ack_cnt = CASE opt = "now" -> (c + 1) % 64
                                          [] opt = "agg" /\ c = 0 -> 1
                                          [] OTHER -> c,
                      !.st[s].is_wack = @ \/ opt = "wack"], s)

\* Mutant of DestroyTCPStream: the send list keeps the stream.
DestroyTCPStreamKeepsSend(r, s) ==
    [RemoveFromControlList(RemoveFromACKList(r, s), s) EXCEPT !.st[s] = Freed]

\* DestroyTCPStream, as far as the sender is concerned.
DestroyTCPStream(r, s) ==
    [RemoveFromControlList(RemoveFromSendList(RemoveFromACKList(r, s), s), s)
        EXCEPT !.st[s] = Freed]
-----------------------------------------------------------------------------
(* Sending.  Every packet of a stream acknowledges what it received.       *)

\* SendTCPPacket returns at least 0.
Sendable(r, s) == Resolved(r, Dest[s]) /\ r.room > 0

\* EthernetOutput: a buffer of the device is taken.
TakeBuffer(r) == [r EXCEPT !.room = @ - 1]

SendTCPPacket(r, s) == [TakeBuffer(r) EXCEPT !.st[s].owed = FALSE]

\* SendTCPPacket returns -2: IPOutput has asked for the address or found no
\* buffer.
Refused(r, s) ==
    IF Resolved(r, Dest[s]) THEN r ELSE RequestARP(r, Dest[s])

\* Mutant of ControlMustWait: the FIN does not wait for the data.
ControlMustWaitAck(r, s) ==
    /\ r.st[s].state \in {"FIN_WAIT_1", "LAST_ACK", "CLOSED_RSVD"}
    /\ r.st[s].on_ack

\* The packet goes after what the stream has on the other two lists.
ControlMustWait(r, s) ==
    /\ r.st[s].state \in {"FIN_WAIT_1", "LAST_ACK", "CLOSED_RSVD"}
    /\ r.st[s].on_send \/ r.st[s].on_ack

ControlSendable(r, s) == Sendable(r, s) /\ ~ControlMustWait(r, s)

\* SendControlPacket, when it returns at least 0: a SYN, a FIN, a RST, after
\* which the stream is destroyed, or an ACK.
SendControlPacket(r, s) ==
    LET sent == SendTCPPacket(r, s)
    IN  CASE r.st[s].state = "SYN_SENT" -> [sent EXCEPT !.st[s].out = "SYN"]
          [] r.st[s].state \in {"FIN_WAIT_1", "LAST_ACK"} ->
                [sent EXCEPT !.st[s].out = "FIN"]
          [] r.st[s].state = "CLOSED_RSVD" -> DestroyTCPStream(sent, s)
          [] OTHER -> sent

\* SendControlPacket, when it does not.
ControlRefused(r, s) == IF ControlMustWait(r, s) THEN r ELSE Refused(r, s)

\* AddtoControlList with TRY_SEND_BEFORE_QUEUE.
AddtoControlList(r, s) ==
    IF ControlSendable(r, s)
    THEN RemoveFromControlList(SendControlPacket(r, s), s)
    ELSE LET tried == ControlRefused(r, s)
         IN  IF r.st[s].on_control THEN tried
             ELSE [tried EXCEPT !.st[s].on_control = TRUE,
                                !.control_list = Append(@, s)]

\* FlushTCPSendingBuffer passes all its tests for the (k+1)st packet.  The
\* window shrinks by what was sent and is compared with all that is in flight.
FlushPasses(r, s, k) ==
    LET t == r.st[s]
    IN  /\ k < t.unsent /\ k < t.peer_wnd
        /\ t.flight + k + 1 <= t.peer_wnd - k
        /\ Resolved(r, Dest[s]) /\ k < r.room

Flushed(r, s) ==
    Max({n \in 0 .. r.st[s].unsent : \A k \in 0 .. n - 1 : FlushPasses(r, s, k)})

\* The loop ends with a break and not with a packet that has to be sent later:
\* nothing is left, or nothing of the window.
FlushEnds(r, s) ==
    LET n == Flushed(r, s)
    IN  n = r.st[s].unsent \/ n >= r.st[s].peer_wnd

FlushSent(r, s) ==
    LET n == Flushed(r, s)
    IN  [r EXCEPT !.st[s] = [r.st[s] EXCEPT !.unsent = @ - n, !.flight = @ + n,
                                            !.owed = @ /\ n = 0],
                  !.room = @ - n]

\* The packet that cannot be sent now: the window is full, and the peer is
\* probed if the last ACK was sent long ago, or IPOutput refuses.
FlushRefused(r, s, late) ==
    LET n == Flushed(r, s)
        sent == FlushSent(r, s)
    IN  IF r.st[s].flight + n + 1 > r.st[s].peer_wnd - n
        THEN IF late /\ n = 0 /\ r.st[s].flight + 1 > r.st[s].peer_wnd
             THEN EnqueueACK(sent, s, "wack") ELSE sent
        ELSE Refused(sent, s)
-----------------------------------------------------------------------------
(* The three writers.  A step of WriteTCPControlList or WriteTCPDataList is *)
(* [m, go], where go is FALSE at the break.                                *)

ControlStep(r, s) ==
    LET taken == RemoveFromControlList(r, s)
    IN  IF ControlSendable(taken, s)
        THEN [m |-> SendControlPacket(taken, s), go |-> TRUE]
        ELSE [m |-> [ControlRefused(taken, s) EXCEPT
                        !.st[s].on_control = TRUE, !.control_list = <<s>> \o @],
              go |-> FALSE]

\* A FIN that waits is sent when the other list does not hold the stream.
ReleaseControl(r, s, other) ==
    IF r.st[s].control_list_waiting /\ ~other
    THEN AddtoControlList([r EXCEPT !.st[s].control_list_waiting = FALSE], s)
    ELSE r

\* ACKs are sent one by one while the device takes them, then the probe.
AckSent(r, s) ==
    LET c == r.st[s].ack_cnt
        k == IF Resolved(r, Dest[s]) THEN Min({c, r.room}) ELSE 0
        acked == [r EXCEPT !.room = @ - k, !.st[s].ack_cnt = @ - k,
                           !.st[s].owed = @ /\ k = 0]
        tried == IF k < c THEN Refused(acked, s) ELSE acked
    IN  CASE ~r.st[s].is_wack -> tried
          [] r.st[s].is_wack /\ Sendable(tried, s) ->
                [SendTCPPacket(tried, s) EXCEPT !.st[s].is_wack = FALSE]
          [] OTHER -> Refused(tried, s)

\* Mutant of AckStep: the stream leaves the list though ACKs are pending.
AckStepOnce(r, s) ==
    LET done == RemoveFromACKList(AckSent(r, s), s)
    IN  ReleaseControl(done, s, done.st[s].on_send)

\* One stream of WriteTCPACKList.
AckStep(r, s) ==
    LET acks == r.st[s].state \in {"ESTABLISHED", "CLOSE_WAIT", "FIN_WAIT_1",
                                   "FIN_WAIT_2"}
        sent == AckSent(r, s)
        done == CASE ~acks -> [RemoveFromACKList(r, s) EXCEPT
                                  !.st[s].ack_cnt = 0, !.st[s].is_wack = FALSE]
                  [] acks /\ (sent.st[s].ack_cnt > 0 \/ sent.st[s].is_wack) -> sent
                  [] OTHER -> RemoveFromACKList(sent, s)
    IN  ReleaseControl(done, s, done.st[s].on_send)

\* Mutant of PutBack: the stream leaves the list.
PutBackLost(r, s) == RemoveFromSendList(r, s)

\* A stream that cannot send goes to the end of the list.
PutBack(r, s) == [r EXCEPT !.send_list = Append(Off(@, s), s)]

\* Mutant of FlushDone: a stream the window stops leaves the list.
FlushDoneAnyway(r, s) == TRUE

\* What one stream of WriteTCPDataList has to send is sent.
FlushDone(r, s) == FlushEnds(r, s)

\* One stream of WriteTCPDataList: in ESTABLISHED data waits for the control
\* packet; what is sent takes as many pending ACKs along.
DataStep(r, s, late) ==
    LET t == r.st[s]
        n == Flushed(r, s)
        sends == t.state \in {"ESTABLISHED", "CLOSE_WAIT", "FIN_WAIT_1", "LAST_ACK"}
        held == t.state = "ESTABLISHED" /\ t.on_control
        left == RemoveFromSendList(IF sends THEN FlushSent(r, s) ELSE r, s)
        piggy == IF sends
                 THEN [left EXCEPT !.st[s].ack_cnt = Max({0, @ - n})] ELSE left
    IN  CASE sends /\ held -> [m |-> PutBack(r, s), go |-> FALSE]
          [] sends /\ ~held /\ ~FlushDone(r, s) ->
                [m |-> PutBack(FlushRefused(r, s, late), s), go |-> FALSE]
          [] OTHER ->
                [m |-> ReleaseControl(piggy, s, piggy.st[s].on_ack), go |-> TRUE]
-----------------------------------------------------------------------------
(* HandleApplicationCalls.                                                 *)

Closing(state) ==
    CASE state = "ESTABLISHED" -> "FIN_WAIT_1"
      [] state = "CLOSE_WAIT" -> "LAST_ACK"
      [] OTHER -> state

ToClosing(r, s) == [r EXCEPT !.st[s].state = Closing(@)]

\* A request of the close queue: the control packet that is on its way goes
\* first, and the FIN after data and ACKs that are queued.
CloseRequest(r, s) ==
    LET t == r.st[s]
    IN  CASE t.on_control -> [r EXCEPT !.closeq_int = Append(@, s)]
          [] ~t.on_control /\ (t.on_send \/ t.on_ack) ->
                [ToClosing(r, s) EXCEPT !.st[s].control_list_waiting = TRUE]
          [] OTHER -> AddtoControlList(ToClosing(r, s), s)

\* A stream of closeq_int.
CloseDelayed(r, s) ==
    LET taken == [r EXCEPT !.closeq_int = Tail(@)]
    IN  CASE r.st[s].on_control -> [taken EXCEPT !.closeq_int = Append(@, s)]
          [] ~r.st[s].on_control /\ r.st[s].state # "CLOSED_RSVD" ->
                AddtoControlList(ToClosing(taken, s), s)
          [] OTHER -> taken

\* A request of the reset queue, or a stream taken from resetq_int.
ResetRequest(r, s) ==
    LET t == r.st[s]
    IN  CASE t.on_control \/ t.on_send \/ t.on_ack ->
                [r EXCEPT !.resetq_int = Append(@, s)]
          [] ~(t.on_control \/ t.on_send \/ t.on_ack) /\ t.state # "CLOSED_RSVD" ->
                AddtoControlList([r EXCEPT !.st[s].state = "CLOSED_RSVD"], s)
          [] OTHER -> r

ResetDelayed(r, s) == ResetRequest([r EXCEPT !.resetq_int = Tail(@)], s)
-----------------------------------------------------------------------------
(* The loops of a round.  Each goes once through its list as it is when it *)
(* begins, to the end or to a break.                                       *)

LoopStep(loop, r, s, late) ==
    CASE loop = "closeq_int" -> [m |-> CloseDelayed(r, s), go |-> TRUE]
      [] loop = "resetq_int" -> [m |-> ResetDelayed(r, s), go |-> TRUE]
      [] loop = "control_list" -> ControlStep(r, s)
      [] loop = "ack_list" -> [m |-> AckStep(r, s), go |-> TRUE]
      [] loop = "send_list" -> DataStep(r, s, late)

Walk(loop, r, late) ==
    LET list == r[loop]
        walked[k \in 0 .. Len(list)] ==
            IF k = 0 THEN [m |-> r, go |-> TRUE]
            ELSE LET w == walked[k - 1]
                 IN  IF w.go THEN LoopStep(loop, w.m, list[k], late) ELSE w
    IN  walked[Len(list)].m

HandleDelayed(r, late) == Walk("resetq_int", Walk("closeq_int", r, late), late)

WritePacketsToChunks(r, late) ==
    Walk("send_list", Walk("ack_list", Walk("control_list", r, late), late), late)

\* A round of the main loop, but for the packets, timers and requests that it
\* takes in: what was delayed, the three lists, and send_pkts, which empties
\* the device's buffer.
Round(late) ==
    /\ m' = [WritePacketsToChunks(HandleDelayed(m, late), late) EXCEPT !.room = Room]
    /\ round' = 1 - round

\* A request of the connect queue.
Connect(s) ==
    /\ m.st[s].state = "CLOSED"
    /\ m' = AddtoControlList([m EXCEPT !.st[s].state = "SYN_SENT"], s)

Delayed(s) == Contains(m.closeq_int, s) \/ Contains(m.resetq_int, s)

\* The application may still use the stream.
Usable(s) == m.st[s].state \in {"ESTABLISHED", "CLOSE_WAIT"} /\ ~Delayed(s)

\* A request of the send queue.
Write(s) ==
    /\ "write" \in setup.does[s] /\ Usable(s) /\ m.st[s].wrote < setup.data
    /\ m' = AddtoSendList([m EXCEPT !.st[s].unsent = @ + 1, !.st[s].wrote = @ + 1], s)

Close(s) ==
    /\ "close" \in setup.does[s] /\ Usable(s)
    /\ m' = CloseRequest(m, s)

\* A request of the destroy queue: the application closes a stream that is not
\* connected yet.
Destroy(s) ==
    /\ "close" \in setup.does[s] /\ m.st[s].state = "SYN_SENT"
    /\ m' = DestroyTCPStream(m, s)

Abort(s) ==
    /\ "abort" \in setup.does[s] /\ Usable(s)
    /\ m' = ResetRequest(m, s)
-----------------------------------------------------------------------------
(* The handlers of tcp_in.c and the retransmission timer.                  *)

\* The peer sends data, in order (agg) or not (now).
PeerData(s, opt) ==
    /\ "data" \in setup.does[s]
    /\ m.st[s].state \in {"ESTABLISHED", "FIN_WAIT_1", "FIN_WAIT_2"}
    /\ m.st[s].ack_cnt < MaxAcks
    /\ m' = EnqueueACK([m EXCEPT !.st[s].owed = TRUE], s, opt)

\* The peer closes.
PeerFin(s) ==
    /\ "fin" \in setup.does[s]
    /\ m.st[s].state = "ESTABLISHED"
    /\ m' = AddtoControlList([m EXCEPT !.st[s].state = "CLOSE_WAIT"], s)

Outstanding(t) == t.flight > 0 \/ t.out # "none"

\* The peer acknowledges all it was sent and advertises wnd.  No handler puts
\* the stream on the send list again.
PeerAck(s, wnd) ==
    LET t == m.st[s]
        acked == [m EXCEPT !.st[s].flight = 0, !.st[s].out = "none",
                           !.st[s].nrtx = 0, !.st[s].peer_wnd = wnd]
        fin == t.out = "FIN" /\ t.unsent = 0
    IN  /\ Dest[s] \in Answering
        /\ Outstanding(t) \/ t.state \notin {"CLOSED", "SYN_SENT", "FREED"}
        /\ m' = CASE t.state = "SYN_SENT" ->
                        AddtoControlList([acked EXCEPT !.st[s].state = "ESTABLISHED"], s)
                  [] t.state = "FIN_WAIT_1" /\ fin ->
                        [acked EXCEPT !.st[s].state = "FIN_WAIT_2"]
                  [] t.state = "LAST_ACK" /\ fin -> DestroyTCPStream(acked, s)
                  [] OTHER -> acked

\* HandleRTO, which does nothing in CLOSED_RSVD.  Giving up a stream that is on
\* closeq_int or resetq_int leaves it there, freed: that is left out.
HandleRTO(s) ==
    LET t == m.st[s]
        back == [m EXCEPT !.st[s].unsent = @ + t.flight, !.st[s].flight = 0,
                          !.st[s].out = "none", !.st[s].nrtx = @ + 1]
    IN  /\ Outstanding(t) /\ t.state # "CLOSED_RSVD"
        /\ t.nrtx < MaxRtx \/ ~Delayed(s)
        /\ m' = CASE t.nrtx >= MaxRtx -> DestroyTCPStream(m, s)
                  [] t.nrtx < MaxRtx /\ t.state \in {"ESTABLISHED", "CLOSE_WAIT"} ->
                        AddtoSendList(back, s)
                  [] t.nrtx < MaxRtx /\ t.state \in {"FIN_WAIT_1", "LAST_ACK"}
                        /\ t.unsent + t.flight > 0 ->
                        AddtoSendList([RemoveFromControlList(back, s) EXCEPT
                                            !.st[s].control_list_waiting = TRUE], s)
                  [] OTHER -> AddtoControlList(back, s)
-----------------------------------------------------------------------------
(* The hosts and the ARP timer.                                            *)

\* A host that is up answers a request.
HostReplies(a) ==
    /\ a \in m.arp_wire \cap Answering
    /\ m' = ProcessARPReply([m EXCEPT !.arp_wire = @ \ {a}], a)

\* A request, or the answer to it, is lost.
ArpLost(a) ==
    /\ a \in m.arp_wire /\ m.lost < MaxLost
    /\ m' = [m EXCEPT !.arp_wire = @ \ {a}, !.lost = @ + 1]

\* A host that is up asks for our address.
HostAsks(a) ==
    /\ a \in Answering \ m.arp_table
    /\ m' = ProcessARPRequest(m, a)

ArpTimesOut(a) ==
    /\ a \in m.arp_list
    /\ m' = ARPTimer(m, {a})

Step ==
    \/ \E s \in Stream :
        \/ Connect(s) \/ Write(s) \/ Close(s) \/ Destroy(s) \/ Abort(s)
        \/ PeerFin(s) \/ HandleRTO(s)
        \/ \E opt \in {"now", "agg"} : PeerData(s, opt)
        \/ \E wnd \in Windows : PeerAck(s, wnd)
    \/ \E a \in Addr :
        HostReplies(a) \/ ArpLost(a) \/ HostAsks(a) \/ ArpTimesOut(a)

Next ==
    /\ \/ \E late \in BOOLEAN : Round(late)
       \/ Step /\ UNCHANGED round
    /\ UNCHANGED setup

Spec == Init /\ [][Next]_vars

\* The loop goes on.  A host that is up answers the requests that reach it, and
\* requests time out; what it is sent again and again it acknowledges (strong
\* fairness: it can do so exactly while something is outstanding).
Acknowledged(s) == Outstanding(m.st[s]) /\ \E wnd \in Windows : PeerAck(s, wnd)

Fairness ==
    /\ WF_round(round' = 1 - round)
    /\ \A s \in Stream : Dest[s] \in Answering =>
          ([]<>Outstanding(m.st[s]) => []<><<Acknowledged(s)>>_m)
    /\ \A a \in Answering : []<>(a \notin m.arp_wire)
    /\ \A a \in Addr : []<>(a \notin m.arp_list)

FairSpec == Spec /\ Fairness
-----------------------------------------------------------------------------
(* Properties.                                                             *)

\* A list that holds the streams of S, each once.
OnList(list, S) == IsInjective(list) /\ ToSet(list) = S

\* A list holds a stream once, exactly if the stream's flag says so, and no
\* destroyed stream is on one: TAILQ_REMOVE of a stream that is not on the
\* list would tear it.
ListsAgree ==
    /\ OnList(m.control_list, {s \in Stream : m.st[s].on_control})
    /\ OnList(m.send_list, {s \in Stream : m.st[s].on_send})
    /\ OnList(m.ack_list, {s \in Stream : m.st[s].on_ack})
    /\ \A s \in Stream : m.st[s].state = "FREED" => m.st[s] = Freed

\* SendControlPacket never sends a FIN while data waits to be sent, whichever
\* list, retransmission or delayed close it comes from.
FinAfterData ==
    \A s \in Stream : m.st[s].out = "FIN" => m.st[s].unsent = 0

\* Data that is not sent is on the send list, or behind data whose
\* retransmission timer runs: nothing else would send it.
UnsentIsQueued ==
    \A s \in Stream :
        m.st[s].unsent > 0 => m.st[s].on_send \/ m.st[s].flight > 0

\* The host of s is up, and its users do the deed.
Reachable(s, deed) == Dest[s] \in Answering /\ deed \in setup.does[s] \cup {"connect"}

\* What is on the control list is sent if the host answers: a packet that
\* IPOutput refused is tried again (ip_out.c:203), although WriteTCPControlList
\* stops at the first one it cannot send.
ControlIsSent ==
    \A s \in Stream :
        Reachable(s, "connect") /\ m.st[s].on_control ~> ~m.st[s].on_control

\* What a stream writes to a host that is up is sent to the last segment,
\* although WriteTCPDataList stops at the first stream that the window or the
\* device does not let send, and although no handler puts a stream on the list
\* when the window opens.
DataIsSent ==
    \A s \in Stream :
        Reachable(s, "write") /\ m.st[s].unsent > 0 ~> m.st[s].unsent = 0

\* Data that was received is acknowledged, by an ACK of its own or by another
\* packet of the stream.
OwedIsAcked ==
    \A s \in Stream : Reachable(s, "data") /\ m.st[s].owed ~> ~m.st[s].owed
=============================================================================
