---------------------------- MODULE TcpStreamProofs ----------------------------
(***************************************************************************)
(* Proofs about one stream, for any amount of data, any retry limit, any   *)
(* calls of the application and any segments of the peer: its closing,     *)
(* its timers and, for segments in order, the FIN it owes.  Each has an    *)
(* inductive invariant of its own and, for each operator the handlers are  *)
(* built from, a lemma.                                                    *)
(***************************************************************************)
EXTENDS TcpStream, TLAPS

Early == {"CLOSED", "LISTEN", "SYN_SENT", "SYN_RCVD"}

-----------------------------------------------------------------------------
(***************************************************************************)
(* The FIN of a stream comes after every byte that was written, and its    *)
(* acknowledgement after the acknowledgement of every byte: for any amount *)
(* of data, any retry limit, any calls of the application and any segments *)
(* of the peer.                                                            *)
(*                                                                         *)
(* CloseRequest computes fss in one thread from a buffer that the other    *)
(* fills.  What makes that safe is spread over both: mtcp_close lets go of *)
(* the socket before it asks for the FIN, a stream is handed to the        *)
(* application once, by mtcp_connect or by mtcp_accept, and no state from  *)
(* which it could be handed over again is entered again.  The invariant    *)
(* says all of this, of the stream (CloseOK) and of the application        *)
(* (CloseInv).                                                             *)
(***************************************************************************)

FinStates == {"FIN_WAIT_1", "FIN_WAIT_2", "CLOSING", "LAST_ACK", "TIME_WAIT"}

\* fss is settled: the FIN is sent, is to be sent or waits for the control list.
FinDue(r) == r.is_fin_sent \/ r.state \in FinStates \/ "close_int" \in r.queued

\* The fields of a stream that the invariant is about.
CloseFields == {"state", "active", "is_fin_sent", "sndbuf", "head", "len", "fss", "queued"}

\* Stream r, of which the application has let go (left), or which it has or had (mine).
CloseOK(r, left, mine) ==
    /\ CloseFields \subseteq DOMAIN r
    /\ r.head \in Int /\ r.len \in Nat /\ (~r.sndbuf => r.len = 0)
    /\ mine => "accept" \notin r.queued /\ r.state # "CLOSED" /\ (r.state \in Early => r.active)
    /\ "accept" \in r.queued => ~r.active /\ r.state \notin Early
    /\ r.state \in {"CLOSED", "LISTEN"} => ~r.active
    /\ FinDue(r) \/ "close" \in r.queued => left
    /\ FinDue(r) /\ r.sndbuf => r.fss = r.head + r.len
    /\ r.state \in {"FIN_WAIT_2", "TIME_WAIT"} => r.len = 0

CloseInv ==
    /\ CloseOK(st, app.left, app.left \/ app.owns)
    /\ {"pc", "seen", "owns", "left"} = DOMAIN app
    /\ app.left => ~app.owns
    /\ app.pc = "close" => app.left
-----------------------------------------------------------------------------
(* Operators that do not touch these fields.                               *)

\* The fields of t are those of r.
Same(r, t) ==
    /\ DOMAIN t = DOMAIN r
    /\ t.state = r.state /\ t.active = r.active /\ t.is_fin_sent = r.is_fin_sent /\ t.sndbuf = r.sndbuf
    /\ t.head = r.head /\ t.len = r.len /\ t.fss = r.fss /\ t.queued = r.queued

LEMMA SameOK ==
    ASSUME NEW r, NEW t, NEW left, NEW mine, CloseOK(r, left, mine), Same(r, t)
    PROVE  CloseOK(t, left, mine)
  BY DEF CloseOK, Same, FinDue

\* The timers and the lists.
LEMMA Untouched ==
    ASSUME NEW r, CloseFields \subseteq DOMAIN r, NEW x
    PROVE  /\ Same(r, AddtoRTOList(r)) /\ Same(r, RemoveFromRTOList(r)) /\ Same(r, AddtoTimewaitList(r))
           /\ Same(r, AddtoTimeoutList(r)) /\ Same(r, RemoveFromTimeoutList(r))
           /\ Same(r, Fail(r, x)) /\ Same(r, Act(r, x)) /\ Same(r, EnqueueACK(r)) /\ Same(r, AddtoSendList(r))
           /\ Same(r, SendSyn(r)) /\ Same(r, UpdateRetransmissionTimer(r))
  <1>1. \A s : CloseFields \subseteq DOMAIN s => Same(s, AddtoRTOList(s)) /\ Same(s, RemoveFromRTOList(s))
    BY DEF CloseFields, Same, AddtoRTOList, RemoveFromRTOList
  <1>2. Same(r, AddtoTimewaitList(r)) BY DEF CloseFields, Same, AddtoTimewaitList
  <1>3. Same(r, AddtoTimeoutList(r)) BY DEF CloseFields, Same, AddtoTimeoutList
  <1>4. Same(r, RemoveFromTimeoutList(r)) BY DEF CloseFields, Same, RemoveFromTimeoutList
  <1>5. \A y : Same(r, Fail(r, y)) BY DEF CloseFields, Same, Fail
  <1>6. Same(r, Act(r, x)) BY DEF CloseFields, Same, Act
  <1>7. Same(r, EnqueueACK(r)) BY DEF CloseFields, Same, EnqueueACK
  <1>8. Same(r, AddtoSendList(r)) BY <1>5 DEF CloseFields, Same, AddtoSendList
  <1>9. Same(r, SendSyn(r))
    <2>. DEFINE s == [r EXCEPT !.wire = @ \cup {r.snd_nxt}, !.snd_nxt = @ + 1]
    <2>1. Same(r, s) BY DEF CloseFields, Same
    <2>2. Same(s, AddtoRTOList(s)) BY <1>1, <2>1 DEF Same
    <2>. QED BY <2>1, <2>2 DEF Same, SendSyn
  <1>10. Same(r, UpdateRetransmissionTimer(r))
    <2>. DEFINE off == [RemoveFromRTOList(r) EXCEPT !.nrtx = 0]
    <2>1. Same(r, off) BY <1>1 DEF CloseFields, Same
    <2>2. Same(off, AddtoRTOList(off)) BY <1>1, <2>1 DEF Same
    <2>. HIDE DEF off
    <2>3. Same(r, AddtoRTOList(off)) BY <2>1, <2>2 DEF Same
    <2>. QED BY <2>1, <2>3 DEF UpdateRetransmissionTimer, off
  <1>. QED BY <1>1, <1>2, <1>3, <1>4, <1>5, <1>6, <1>7, <1>8, <1>9, <1>10

\* So they keep CloseOK.
LEMMA Lists ==
    ASSUME NEW r, NEW left, NEW mine, CloseOK(r, left, mine), NEW x
    PROVE  /\ CloseOK(AddtoRTOList(r), left, mine) /\ CloseOK(RemoveFromRTOList(r), left, mine)
           /\ CloseOK(AddtoTimewaitList(r), left, mine) /\ CloseOK(AddtoTimeoutList(r), left, mine)
           /\ CloseOK(RemoveFromTimeoutList(r), left, mine) /\ CloseOK(Fail(r, x), left, mine)
           /\ CloseOK(Act(r, x), left, mine) /\ CloseOK(EnqueueACK(r), left, mine)
           /\ CloseOK(AddtoSendList(r), left, mine) /\ CloseOK(SendSyn(r), left, mine)
           /\ CloseOK(UpdateRetransmissionTimer(r), left, mine)
  <1>1. CloseFields \subseteq DOMAIN r BY DEF CloseOK
  <1>. QED BY <1>1, Untouched, SameOK

\* The end of a stream, and the queues that the invariant does not speak of.
LEMMA Ends ==
    ASSUME NEW r, NEW left, NEW mine, CloseOK(r, left, mine), NEW x
    PROVE  /\ CloseOK(Close(r), left, mine) /\ CloseOK(DestroyTCPStream(r), left, mine)
           /\ CloseOK(Dequeue(r, x), left, mine)
           /\ x \notin {"accept", "close", "close_int"} => CloseOK(Enqueue(r, x), left, mine)
  <1>1. CloseOK(Close(r), left, mine) BY DEF CloseOK, Close, FinDue, CloseFields, Early, FinStates
  <1>2. CloseOK(DestroyTCPStream(r), left, mine)
    <2>1. CASE r.freed BY <2>1, Lists DEF DestroyTCPStream
    <2>2. CASE ~r.freed BY <2>2 DEF DestroyTCPStream, CloseOK, FinDue, CloseFields, Early, FinStates
    <2>. QED BY <2>1, <2>2
  <1>3. CloseOK(Dequeue(r, x), left, mine) BY DEF CloseOK, Dequeue, FinDue, CloseFields
  <1>4. x \notin {"accept", "close", "close_int"} => CloseOK(Enqueue(r, x), left, mine)
    BY DEF CloseOK, Enqueue, FinDue, CloseFields
  <1>. QED BY <1>1, <1>2, <1>3, <1>4

\* SendFin is called in FIN_WAIT_1 and LAST_ACK, where fss is settled.
LEMMA Control ==
    ASSUME NEW r, NEW left, NEW mine, CloseOK(r, left, mine), NEW tx
    PROVE  /\ CloseOK(SendControlPacket(r), left, mine)
           /\ CloseOK(AddtoControlList(r, tx), left, mine)
           /\ CloseOK(ReleaseControl(r, tx), left, mine)
  <1>1. \A s : CloseOK(s, left, mine) => CloseOK(SendControlPacket(s), left, mine)
    <2>. TAKE s
    <2>. HAVE CloseOK(s, left, mine)
    <2>. DEFINE noted == [s EXCEPT !.out = <<s.state, ControlFlags(s)>>]
                first == [noted EXCEPT !.snd_nxt = 0]
    <2>1. CloseFields \subseteq DOMAIN s BY DEF CloseOK
    <2>2. Same(s, noted) BY <2>1 DEF Same, CloseFields
    <2>3. CloseOK(noted, left, mine) BY <2>2, SameOK
    <2>. HIDE DEF noted
    <2>4. Same(noted, first) BY <2>1, <2>2 DEF Same, CloseFields
    <2>5. CloseOK(first, left, mine) BY <2>3, <2>4, SameOK
    <2>6. /\ CloseOK(SendSyn(noted), left, mine) /\ CloseOK(SendSyn(first), left, mine)
          /\ CloseOK(DestroyTCPStream(noted), left, mine)
          /\ CloseOK(Fail(s, "control_state"), left, mine)
      BY <2>3, <2>5, Lists, Ends
    <2>7. CASE s.state \in {"FIN_WAIT_1", "LAST_ACK"}
      <3>. DEFINE sent == [noted EXCEPT !.is_fin_sent = TRUE, !.wire = @ \cup {noted.fss}, !.snd_nxt = @ + 1]
      <3>1. noted.state \in FinStates BY <2>2, <2>7 DEF Same, FinStates
      <3>2. CloseOK(sent, left, mine) BY <2>3, <3>1 DEF CloseOK, FinDue, CloseFields
      <3>. HIDE DEF sent
      <3>3. CloseOK(AddtoRTOList(sent), left, mine) BY <3>2, Lists
      <3>4. CloseOK(SendFin(noted), left, mine) BY <3>3 DEF SendFin, sent
      <3>. QED BY <2>7, <3>4 DEF SendControlPacket, ControlFlags, noted
    <2>8. CASE s.state \notin {"FIN_WAIT_1", "LAST_ACK"}
      <3>1. ControlFlags(s) # "FIN/ACK" BY <2>8 DEF ControlFlags
      <3>. QED BY <2>3, <2>6, <3>1 DEF SendControlPacket, noted, first
    <2>. QED BY <2>7, <2>8
  <1>2. \A s, y : CloseOK(s, left, mine) => CloseOK([s EXCEPT !.on_control = y], left, mine)
    BY DEF CloseOK, FinDue, CloseFields
  <1>3. \A s : CloseOK(s, left, mine) => CloseOK(AddtoControlList(s, tx), left, mine)
    BY <1>1, <1>2 DEF AddtoControlList
  <1>4. CloseOK(ReleaseControl(r, tx), left, mine)
    <2>. DEFINE s == [r EXCEPT !.control_waiting = FALSE]
    <2>1. CloseOK(s, left, mine) BY DEF CloseOK, FinDue, CloseFields
    <2>. HIDE DEF s
    <2>. QED BY <1>3, <2>1 DEF ReleaseControl, s
  <1>. QED BY <1>1, <1>3, <1>4

LEMMA Sending ==
    ASSUME NEW r, NEW left, NEW mine, CloseOK(r, left, mine), NEW n
    PROVE  CloseOK(FlushTCPSendingBuffer(r, n), left, mine)
  <1>. DEFINE sent == [r EXCEPT !.wire = @ \cup (r.snd_nxt .. r.snd_nxt + n - 1), !.snd_nxt = @ + n]
  <1>1. Same(r, sent) BY DEF Same, CloseOK, CloseFields
  <1>2. CloseOK(sent, left, mine) BY <1>1, SameOK
  <1>. HIDE DEF sent
  <1>3. CloseOK(AddtoRTOList(sent), left, mine) BY <1>2, Lists
  <1>4. /\ CloseOK(Fail(r, "no_sndbuf"), left, mine) /\ CloseOK(Fail(r, "flush_seq"), left, mine)
        /\ CloseOK(Fail(r, "flush_past_end"), left, mine)
    BY Lists
  <1>. QED BY <1>3, <1>4 DEF FlushTCPSendingBuffer, sent

\* HandleRTO and what it does: give up, or send again from snd_una.
LEMMA Timeout ==
    ASSUME NEW r, NEW left, NEW mine, CloseOK(r, left, mine), NEW tx
    PROVE  CloseOK(GiveUp(r), left, mine) /\ CloseOK(HandleRTO(r, tx), left, mine)
  <1>1. \A s : CloseOK(s, left, mine) => CloseOK(GiveUp(s), left, mine) /\ CloseOK(DestroyTCPStream(Close(s)), left, mine)
    BY Ends DEF GiveUp
  <1>2. \A s : CloseOK(s, left, mine) => CloseOK(Retransmit(s, tx), left, mine)
    <2>. TAKE s
    <2>. HAVE CloseOK(s, left, mine)
    <2>. DEFINE back == [s EXCEPT !.snd_nxt = s.snd_una]
                data == [back EXCEPT !.on_control = FALSE, !.control_waiting = TRUE]
    <2>1. CloseOK(back, left, mine) BY DEF CloseOK, FinDue, CloseFields
    <2>. HIDE DEF back
    <2>2. CloseOK(data, left, mine) BY <2>1 DEF CloseOK, FinDue, CloseFields
    <2>. HIDE DEF data
    <2>3. CloseOK(AddtoSendList(back), left, mine) /\ CloseOK(AddtoSendList(data), left, mine)
      BY <2>1, <2>2, Lists
    <2>4. CloseOK(AddtoControlList(back, tx), left, mine) BY <2>1, Control
    <2>. QED BY <2>3, <2>4 DEF Retransmit, back, data
  <1>3. CloseOK(HandleRTO(r, tx), left, mine)
    <2>. DEFINE again == [r EXCEPT !.nrtx = @ + 1]
    <2>1. CloseOK(again, left, mine) BY DEF CloseOK, FinDue, CloseFields
    <2>. HIDE DEF again
    <2>2. CloseOK(Fail(again, "rto_state"), left, mine) BY <2>1, Lists
    <2>3. /\ CloseOK(GiveUp(again), left, mine) /\ CloseOK(Retransmit(again, tx), left, mine)
          /\ CloseOK(GiveUp(r), left, mine) /\ CloseOK(DestroyTCPStream(Close(r)), left, mine)
      BY <1>1, <1>2, <2>1
    <2>. QED BY <2>2, <2>3 DEF HandleRTO, again
  <1>. QED BY <1>1, <1>3
-----------------------------------------------------------------------------
(* Operators of TcpRecv.                                                   *)

LEMMA Checks ==
    ASSUME NEW r, NEW left, NEW mine, CloseOK(r, left, mine), NEW p
    PROVE  CloseOK(ValidateSequence(r, p), left, mine) /\ CloseOK(ProcessRST(r, p), left, mine)
  <1>1. /\ CloseOK(Act(r, "SEND_ACK"), left, mine) /\ CloseOK(Act(r, "SEND_CONTROL"), left, mine)
        /\ CloseOK(Act(AddtoTimewaitList(r), "SEND_CONTROL"), left, mine)
    BY Lists
  <1>2. CloseOK(Close(r), left, mine) /\ CloseOK(Act(Close(r), "DESTROY"), left, mine)
    BY Ends, Lists
  <1>. QED BY <1>1, <1>2 DEF ValidateSequence, ProcessRST

\* What an acknowledgement does: units leave the front of the buffer, as many as it
\* acknowledges and the buffer holds, and nothing else of these fields changes.
Shorter(r, t) ==
    /\ DOMAIN t = DOMAIN r
    /\ t.state = r.state /\ t.active = r.active /\ t.is_fin_sent = r.is_fin_sent /\ t.sndbuf = r.sndbuf
    /\ t.fss = r.fss /\ t.queued = r.queued
    /\ t.head \in Int /\ t.len \in Nat /\ t.head + t.len = r.head + r.len /\ t.len <= r.len

LEMMA ShorterOK ==
    ASSUME NEW r, NEW t, NEW left, NEW mine, CloseOK(r, left, mine), Shorter(r, t)
    PROVE  CloseOK(t, left, mine)
  BY DEF CloseOK, Shorter, FinDue

\* After ProcessACK of the FIN's number the buffer is empty: fss is its end.
LEMMA Acknowledgement ==
    ASSUME NEW r, NEW left, NEW mine, CloseOK(r, left, mine), NEW p, p.ackno \in Nat
    PROVE  /\ Shorter(r, ProcessACK(r, p))
           /\ CloseOK(ProcessACK(r, p), left, mine) /\ CloseOK(ProcessTCPPayload(r, p), left, mine)
           /\ r.state \in {"FIN_WAIT_1", "CLOSING"} /\ FinAcked(r, p) => ProcessACK(r, p).len = 0
  <1>. DEFINE a == AckOfData(r, p)
              fast == FastRetransmit(r, p, a)
              more == RecoverSndNxt(fast, a)
              less == [more EXCEPT !.len = @ - (a - more.head), !.head = a, !.snd_una = a]
  <1>0. r.head \in Int /\ r.len \in Nat /\ CloseFields \subseteq DOMAIN r BY DEF CloseOK
  <1>1. a \in Int BY DEF AckOfData
  <1>2. r.state \in {"FIN_WAIT_1", "CLOSING"} /\ FinAcked(r, p) => a = p.ackno - 1 /\ p.ackno = r.fss + 1
    BY DEF AckOfData, FinAcked
  <1>3. r.state \in {"FIN_WAIT_1", "CLOSING"} /\ r.sndbuf => r.fss = r.head + r.len
    BY DEF CloseOK, FinDue, FinStates
  <1>. HIDE DEF a
  <1>4. Same(r, fast)
    <2>. DEFINE s == [r EXCEPT !.snd_nxt = a, !.nrtx = IF @ < MaxRtx THEN @ + 1 ELSE @]
    <2>1. Same(r, s) BY <1>0 DEF Same, CloseFields
    <2>2. CloseFields \subseteq DOMAIN s BY <1>0
    <2>. HIDE DEF s
    <2>3. Same(s, Act(s, "SEND_DATA")) BY <2>2, Untouched
    <2>. QED BY <2>1, <2>3 DEF Same, FastRetransmit, s
  <1>5. Same(fast, more)
    <2>. HIDE DEF fast
    <2>. QED BY <1>0, <1>4 DEF Same, RecoverSndNxt, CloseFields
  <1>. HIDE DEF fast
  <1>6. Same(r, more) BY <1>4, <1>5 DEF Same
  <1>. HIDE DEF more
  <1>7. ProcessACK(r, p) = IF ~r.sndbuf \/ a > r.head + r.len THEN r ELSE RemoveAcked(more, a)
    BY DEF ProcessACK, more, fast, a
  <1>8. CASE ~r.sndbuf \/ a > r.head + r.len
    <2>1. Shorter(r, r) BY <1>0 DEF Shorter
    <2>2. r.state \in {"FIN_WAIT_1", "CLOSING"} /\ FinAcked(r, p) => r.len = 0
      <3>1. CASE ~r.sndbuf BY <3>1 DEF CloseOK
      <3>2. CASE r.sndbuf /\ a > r.head + r.len BY <1>0, <1>1, <1>2, <1>3, <3>2 
      <3>. QED BY <1>8, <3>1, <3>2
    <2>. QED BY <1>7, <1>8, <2>1, <2>2, Lists DEF ProcessTCPPayload
  <1>9. CASE r.sndbuf /\ ~(a > r.head + r.len) /\ a <= r.head
    <2>1. RemoveAcked(more, a) = more BY <1>6, <1>9 DEF RemoveAcked, Same
    <2>2. Shorter(r, more) BY <1>0, <1>6 DEF Shorter, Same
    <2>3. r.state \in {"FIN_WAIT_1", "CLOSING"} /\ FinAcked(r, p) => more.len = 0
      <3>1. more.len = r.len BY <1>6 DEF Same
      <3>. HAVE r.state \in {"FIN_WAIT_1", "CLOSING"} /\ FinAcked(r, p)
      <3>2. p.ackno = r.head + r.len + 1 BY <1>2, <1>3, <1>9
      <3>. QED BY <1>0, <1>1, <1>2, <1>9, <3>1, <3>2
    <2>. QED BY <1>7, <1>9, <2>1, <2>2, <2>3, ShorterOK, Lists DEF ProcessTCPPayload
  <1>10. CASE r.sndbuf /\ ~(a > r.head + r.len) /\ a > r.head
    <2>0. more.head = r.head /\ more.len = r.len /\ DOMAIN more = DOMAIN r BY <1>6 DEF Same
    <2>1. PICK k \in Nat : k = r.len - (a - r.head) BY <1>0, <1>1, <1>10
    <2>2. less = [more EXCEPT !.len = k, !.head = a, !.snd_una = a] BY <2>0, <2>1
    <2>3. /\ less.state = r.state /\ less.active = r.active /\ less.is_fin_sent = r.is_fin_sent
          /\ less.sndbuf = r.sndbuf /\ less.fss = r.fss /\ less.queued = r.queued
          /\ less.head = a /\ less.len = k /\ DOMAIN less = DOMAIN r
      BY <1>0, <1>6, <2>0, <2>2 DEF Same, CloseFields
    <2>. HIDE DEF less
    <2>4. CloseFields \subseteq DOMAIN less BY <1>0, <2>3
    <2>5. Same(less, UpdateRetransmissionTimer(less)) BY <2>4, Untouched
    <2>6. RemoveAcked(more, a) = UpdateRetransmissionTimer(less)
      BY <1>0, <1>1, <1>10, <2>0 DEF RemoveAcked, less
    <2>7. k + a = r.head + r.len /\ k <= r.len BY <1>0, <1>1, <1>10, <2>1
    <2>8. Shorter(r, UpdateRetransmissionTimer(less)) BY <1>0, <1>1, <2>3, <2>5, <2>7 DEF Same, Shorter
    <2>9. r.state \in {"FIN_WAIT_1", "CLOSING"} /\ FinAcked(r, p) => k = 0
      <3>. HAVE r.state \in {"FIN_WAIT_1", "CLOSING"} /\ FinAcked(r, p)
      <3>1. p.ackno = r.head + r.len + 1 BY <1>2, <1>3, <1>10
      <3>. QED BY <1>0, <1>1, <1>2, <2>1, <3>1
    <2>. QED BY <1>7, <1>10, <2>3, <2>5, <2>6, <2>8, <2>9, ShorterOK, Lists DEF ProcessTCPPayload, Same
  <1>. QED BY <1>0, <1>1, <1>8, <1>9, <1>10

\* TIME_WAIT is entered with an empty buffer.
LEMMA TimeWait ==
    ASSUME NEW r, NEW left, NEW mine, CloseOK(r, left, mine), r.state \in FinStates, r.len = 0
    PROVE  CloseOK(EnterTimeWait(r), left, mine)
  <1>. DEFINE t == [r EXCEPT !.state = "TIME_WAIT"]
  <1>1. CloseOK(t, left, mine) BY DEF CloseOK, FinDue, FinStates, Early, CloseFields
  <1>. HIDE DEF t
  <1>2. CloseOK(Act(AddtoTimewaitList(t), "SEND_CONTROL"), left, mine) BY <1>1, Lists
  <1>. QED BY <1>2 DEF EnterTimeWait, t

\* The handshake.  A stream goes to the accept queue from SYN_RCVD only, and only if no
\* mtcp_connect made it, so it has no owner yet.
LEMMA Opening ==
    ASSUME NEW r, NEW left, NEW mine, CloseOK(r, left, mine), NEW p, NEW room
    PROVE  /\ r.state \in {"LISTEN", "SYN_RCVD"} => CloseOK(Handle_LISTEN(r, p), left, mine)
           /\ r.state = "SYN_SENT" => CloseOK(Handle_SYN_SENT(r, p), left, mine)
           /\ r.state = "SYN_RCVD" => CloseOK(Handle_SYN_RCVD(r, p, room), left, mine)
  <1>1. ASSUME r.state \in {"LISTEN", "SYN_RCVD"} PROVE CloseOK(Handle_LISTEN(r, p), left, mine)
    <2>. DEFINE t == [r EXCEPT !.state = "SYN_RCVD"]
    <2>1. CloseOK(t, left, mine) BY <1>1 DEF CloseOK, FinDue, FinStates, Early, CloseFields
    <2>. HIDE DEF t
    <2>2. CloseOK(Act(t, "SEND_CONTROL"), left, mine) BY <2>1, Lists
    <2>. QED BY <2>2 DEF Handle_LISTEN, t
  <1>2. \A s : CloseOK(s, left, mine) /\ s.state = "SYN_SENT" => CloseOK(ActiveOpen(s, p), left, mine)
    <2>. TAKE s
    <2>. HAVE CloseOK(s, left, mine) /\ s.state = "SYN_SENT"
    <2>. DEFINE moved == [s EXCEPT !.snd_nxt = p.ackno]
                timer == UpdateRetransmissionTimer(moved)
                opened == [timer EXCEPT !.state = "ESTABLISHED", !.nrtx = 0]
                owned == IF s.socket THEN opened ELSE Act(opened, "DESTROY")
    <2>1. CloseOK(moved, left, mine) /\ moved.state = "SYN_SENT" BY DEF CloseOK, FinDue, FinStates, Early, CloseFields
    <2>. HIDE DEF moved
    <2>2. CloseOK(timer, left, mine) /\ timer.state = "SYN_SENT"
      <3>1. CloseFields \subseteq DOMAIN moved BY <2>1 DEF CloseOK
      <3>2. Same(moved, timer) BY <3>1, Untouched
      <3>. QED BY <2>1, <3>2, Lists DEF Same
    <2>. HIDE DEF timer
    <2>3. CloseOK(opened, left, mine) BY <2>2 DEF CloseOK, FinDue, FinStates, Early, CloseFields
    <2>. HIDE DEF opened
    <2>4. CloseOK(owned, left, mine) BY <2>3, Lists
    <2>. HIDE DEF owned
    <2>5. CloseOK(RemoveFromRTOList(owned), left, mine) BY <2>4, Lists
    <2>6. CloseOK(Act(RemoveFromRTOList(owned), "SEND_CONTROL"), left, mine) BY <2>5, Lists
    <2>7. CloseOK(AddtoTimeoutList(Act(RemoveFromRTOList(owned), "SEND_CONTROL")), left, mine) BY <2>6, Lists
    <2>. QED BY <2>7 DEF ActiveOpen, owned, opened, timer, moved
  <1>3. ASSUME r.state = "SYN_SENT" PROVE CloseOK(Handle_SYN_SENT(r, p), left, mine)
    <2>. DEFINE acked == IF p.ack THEN [r EXCEPT !.snd_una = @ + 1] ELSE r
                open == [r EXCEPT !.state = "SYN_RCVD", !.snd_nxt = 0]
    <2>1. CloseOK(acked, left, mine) /\ acked.state = "SYN_SENT" BY <1>3 DEF CloseOK, FinDue, FinStates, Early, CloseFields
    <2>. HIDE DEF acked
    <2>2. CloseOK(open, left, mine) BY <1>3 DEF CloseOK, FinDue, FinStates, Early, CloseFields
    <2>. HIDE DEF open
    <2>3. CloseOK(Close(acked), left, mine) BY <2>1, Ends
    <2>4. CloseOK(Act(Close(acked), "DESTROY"), left, mine) /\ CloseOK(Act(open, "SEND_CONTROL"), left, mine)
      BY <2>2, <2>3, Lists
    <2>5. CloseOK(ActiveOpen(acked, p), left, mine) BY <1>2, <2>1
    <2>. QED BY <2>1, <2>3, <2>4, <2>5 DEF Handle_SYN_SENT, acked, open
  <1>4. ASSUME r.state = "SYN_RCVD" PROVE CloseOK(PassiveOpen(r, p, room), left, mine)
    <2>. DEFINE new == [r EXCEPT !.snd_una = @ + 1, !.snd_nxt = p.ackno, !.nrtx = 0, !.state = "ESTABLISHED"]
                opened == RemoveFromRTOList(new)
                queued == [opened EXCEPT !.queued = @ \cup {"accept"}]
    <2>1. CloseOK(new, left, mine) /\ new.state = "ESTABLISHED" /\ new.active = r.active
      BY <1>4 DEF CloseOK, FinDue, FinStates, Early, CloseFields
    <2>. HIDE DEF new
    <2>2. CloseOK(opened, left, mine) /\ opened.state = "ESTABLISHED" /\ opened.active = r.active
      <3>1. CloseFields \subseteq DOMAIN new BY <2>1 DEF CloseOK
      <3>2. Same(new, opened) BY <3>1, Untouched
      <3>. QED BY <2>1, <3>2, Lists DEF Same
    <2>. HIDE DEF opened
    <2>3. ~r.active => ~mine BY <1>4 DEF CloseOK, Early
    <2>4. ASSUME ~r.active PROVE CloseOK(queued, left, mine)
      BY <2>2, <2>3, <2>4 DEF CloseOK, FinDue, FinStates, Early, CloseFields
    <2>. HIDE DEF queued
    <2>5. CloseOK(Close(opened), left, mine) BY <2>2, Ends
    <2>6. CloseOK(Fail(opened, "null_listener"), left, mine) /\ CloseOK(Act(Close(opened), "SEND_CONTROL"), left, mine)
      BY <2>2, <2>5, Lists
    <2>7. CloseOK(AddtoTimeoutList(Act(Close(opened), "SEND_CONTROL")), left, mine) BY <2>6, Lists
    <2>8. ASSUME ~r.active PROVE CloseOK(AddtoTimeoutList(queued), left, mine) BY <2>4, <2>8, Lists
    <2>. QED BY <2>6, <2>7, <2>8 DEF PassiveOpen, queued, opened, new
  <1>5. ASSUME r.state = "SYN_RCVD" PROVE CloseOK(Handle_SYN_RCVD(r, p, room), left, mine)
    <2>. DEFINE t == [r EXCEPT !.snd_nxt = 0]
    <2>1. CloseOK(t, left, mine) BY DEF CloseOK, FinDue, FinStates, Early, CloseFields
    <2>. HIDE DEF t
    <2>2. CloseOK(Act(t, "SEND_CONTROL"), left, mine) BY <2>1, Lists
    <2>. QED BY <1>4, <1>5, <2>2 DEF Handle_SYN_RCVD, t
  <1>. QED BY <1>1, <1>3, <1>5

\* Data transfer and the passive close.
LEMMA Transfer ==
    ASSUME NEW r, NEW left, NEW mine, CloseOK(r, left, mine), NEW p, p.ackno \in Nat
    PROVE  /\ r.state = "ESTABLISHED" => CloseOK(Handle_ESTABLISHED(r, p), left, mine)
           /\ CloseOK(Handle_CLOSE_WAIT(r, p), left, mine)
           /\ CloseOK(Handle_LAST_ACK(r, p), left, mine)
  <1>1. ASSUME r.state = "ESTABLISHED" PROVE CloseOK(Handle_ESTABLISHED(r, p), left, mine)
    <2>. DEFINE data == ProcessTCPPayload(r, p)
                acked == IF p.ack THEN ProcessACK(data, p) ELSE data
                waits == [acked EXCEPT !.state = "CLOSE_WAIT"]
                late == [r EXCEPT !.snd_nxt = p.ackno]
    <2>0. CloseFields \subseteq DOMAIN r BY DEF CloseOK
    <2>1. CloseOK(data, left, mine) /\ data.state = "ESTABLISHED"
      <3>1. Same(r, data) BY <2>0, Untouched DEF ProcessTCPPayload, Same
      <3>. QED BY <1>1, <3>1, SameOK DEF Same
    <2>. HIDE DEF data
    <2>2. CloseOK(acked, left, mine) /\ acked.state = "ESTABLISHED"
      BY <2>1, Acknowledgement DEF Shorter
    <2>. HIDE DEF acked
    <2>3. CloseOK(waits, left, mine) BY <2>2 DEF CloseOK, FinDue, FinStates, Early, CloseFields
    <2>4. CloseOK(late, left, mine) BY DEF CloseOK, FinDue, FinStates, Early, CloseFields
    <2>. HIDE DEF waits, late
    <2>5. /\ CloseOK(Act(waits, "SEND_CONTROL"), left, mine) /\ CloseOK(Act(late, "SEND_CONTROL"), left, mine)
          /\ CloseOK(Act(acked, "SEND_ACK"), left, mine)
      BY <2>2, <2>3, <2>4, Lists
    <2>. QED BY <2>2, <2>5 DEF Handle_ESTABLISHED, waits, late, acked, data
  <1>2. CloseOK(Handle_CLOSE_WAIT(r, p), left, mine)
    BY Acknowledgement, Lists DEF Handle_CLOSE_WAIT
  <1>3. CloseOK(Handle_LAST_ACK(r, p), left, mine)
    <2>. DEFINE acked == ProcessACK(r, p)
                one == [acked EXCEPT !.snd_una = @ + 1]
                closed == UpdateRetransmissionTimer(one)
    <2>1. CloseOK(acked, left, mine) BY Acknowledgement
    <2>. HIDE DEF acked
    <2>2. CloseOK(one, left, mine) BY <2>1 DEF CloseOK, FinDue, CloseFields
    <2>. HIDE DEF one
    <2>3. CloseOK(closed, left, mine) BY <2>2, Lists
    <2>. HIDE DEF closed
    <2>4. CloseOK(Close(closed), left, mine) BY <2>3, Ends
    <2>5. /\ CloseOK(Act(r, "SEND_CONTROL"), left, mine) /\ CloseOK(Act(acked, "SEND_CONTROL"), left, mine)
          /\ CloseOK(Act(Close(closed), "DESTROY"), left, mine)
      BY <2>1, <2>4, Lists
    <2>. QED BY <2>1, <2>5 DEF Handle_LAST_ACK, acked, one, closed
  <1>. QED BY <1>1, <1>2, <1>3

\* The active close: FIN_WAIT_2 and TIME_WAIT are entered on the acknowledgement of the
\* FIN, which empties the buffer.
LEMMA ActiveClose ==
    ASSUME NEW r, NEW left, NEW mine, CloseOK(r, left, mine), NEW p, p.ackno \in Nat
    PROVE  /\ r.state = "FIN_WAIT_1" => CloseOK(Handle_FIN_WAIT_1(r, p), left, mine)
           /\ r.state = "FIN_WAIT_2" => CloseOK(Handle_FIN_WAIT_2(r, p), left, mine)
           /\ r.state = "CLOSING" => CloseOK(Handle_CLOSING(r, p), left, mine)
  <1>. DEFINE acked == ProcessACK(r, p)
  <1>1. CloseOK(acked, left, mine) /\ Shorter(r, acked) BY Acknowledgement
  <1>2. r.state \in {"FIN_WAIT_1", "CLOSING"} /\ FinAcked(r, p) => acked.len = 0 BY Acknowledgement
  <1>3. \A s : CloseFields \subseteq DOMAIN s => Same(s, ProcessTCPPayload(s, p))
    BY Untouched DEF ProcessTCPPayload, Same
  <1>. HIDE DEF acked
  <1>4. ASSUME r.state = "FIN_WAIT_1" PROVE CloseOK(Handle_FIN_WAIT_1(r, p), left, mine)
    <2>. DEFINE half == [acked EXCEPT !.snd_una = p.ackno, !.nrtx = 0, !.state = "FIN_WAIT_2",
                                      !.snd_nxt = IF p.ackno > @ THEN p.ackno ELSE @]
                off == RemoveFromRTOList(half)
                ours == IF FinAcked(r, p) THEN off ELSE acked
                data == ProcessTCPPayload(ours, p)
                both == [data EXCEPT !.state = "CLOSING"]
    <2>0. acked.state = "FIN_WAIT_1" BY <1>1, <1>4 DEF Shorter
    <2>1. ASSUME FinAcked(r, p) PROVE CloseOK(half, left, mine) /\ half.state = "FIN_WAIT_2"
      <3>1. acked.len = 0 BY <1>2, <1>4, <2>1
      <3>. QED BY <1>1, <2>0, <3>1 DEF CloseOK, FinDue, FinStates, Early, CloseFields
    <2>. HIDE DEF half
    <2>2. ASSUME FinAcked(r, p) PROVE CloseOK(off, left, mine) /\ off.state = "FIN_WAIT_2"
      <3>1. CloseFields \subseteq DOMAIN half BY <2>1, <2>2 DEF CloseOK
      <3>2. Same(half, off) BY <3>1, Untouched
      <3>. QED BY <2>1, <2>2, <3>2, SameOK DEF Same
    <2>. HIDE DEF off
    <2>3. CloseOK(ours, left, mine) /\ ours.state \in {"FIN_WAIT_1", "FIN_WAIT_2"} BY <1>1, <2>0, <2>2
    <2>. HIDE DEF ours
    <2>4. CloseOK(data, left, mine) /\ data.state \in {"FIN_WAIT_1", "FIN_WAIT_2"}
      <3>1. CloseFields \subseteq DOMAIN ours BY <2>3 DEF CloseOK
      <3>2. Same(ours, data) BY <1>3, <3>1
      <3>. QED BY <2>3, <3>2, SameOK DEF Same
    <2>. HIDE DEF data
    <2>5. CloseOK(both, left, mine) BY <2>4 DEF CloseOK, FinDue, FinStates, Early, CloseFields
    <2>. HIDE DEF both
    <2>6. ASSUME data.state = "FIN_WAIT_2" PROVE CloseOK(EnterTimeWait(data), left, mine)
      <3>1. data.len = 0 /\ data.state \in FinStates BY <2>4, <2>6 DEF CloseOK, FinStates
      <3>. QED BY <2>4, <3>1, TimeWait
    <2>7. /\ CloseOK(Act(r, "SEND_CONTROL"), left, mine) /\ CloseOK(Act(data, "SEND_ACK"), left, mine)
          /\ CloseOK(Act(both, "SEND_CONTROL"), left, mine)
      BY <2>4, <2>5, Lists
    <2>. QED BY <2>4, <2>6, <2>7 DEF Handle_FIN_WAIT_1, both, data, ours, off, half, acked
  <1>5. ASSUME r.state = "FIN_WAIT_2" PROVE CloseOK(Handle_FIN_WAIT_2(r, p), left, mine)
    <2>. DEFINE data == ProcessTCPPayload(acked, p)
    <2>1. CloseFields \subseteq DOMAIN acked BY <1>1 DEF CloseOK
    <2>2. Same(acked, data) BY <1>3, <2>1
    <2>. HIDE DEF data
    <2>3. CloseOK(data, left, mine) /\ data.state = "FIN_WAIT_2" BY <1>1, <1>5, <2>2, SameOK DEF Same, Shorter
    <2>4. data.len = 0 /\ data.state \in FinStates BY <2>3 DEF CloseOK, FinStates
    <2>5. CloseOK(EnterTimeWait(data), left, mine) BY <2>3, <2>4, TimeWait
    <2>. QED BY <2>3, <2>5 DEF Handle_FIN_WAIT_2, data, acked
  <1>6. ASSUME r.state = "CLOSING" PROVE CloseOK(Handle_CLOSING(r, p), left, mine)
    <2>. DEFINE seen == [acked EXCEPT !.snd_una = p.ackno]
                done == UpdateRetransmissionTimer(seen)
                last == [done EXCEPT !.state = "TIME_WAIT"]
    <2>1. CASE FinAcked(r, p)
      <3>1. CloseOK(seen, left, mine) /\ seen.len = 0 /\ seen.state = "CLOSING" 
        <4>1. acked.len = 0 /\ acked.state = "CLOSING" BY <1>1, <1>2, <1>6, <2>1 DEF Shorter
        <4>. QED BY <1>1, <4>1 DEF CloseOK, FinDue, CloseFields
      <3>. HIDE DEF seen
      <3>2. CloseOK(done, left, mine) /\ done.len = 0 /\ done.state = "CLOSING" 
        <4>1. CloseFields \subseteq DOMAIN seen BY <3>1 DEF CloseOK
        <4>2. Same(seen, done) BY <4>1, Untouched
        <4>. QED BY <3>1, <4>2, SameOK DEF Same
      <3>. HIDE DEF done
      <3>3. CloseOK(last, left, mine) BY <3>2 DEF CloseOK, FinDue, FinStates, Early, CloseFields
      <3>. HIDE DEF last
      <3>4. CloseOK(AddtoTimewaitList(last), left, mine) BY <3>3, Lists
      <3>. QED BY <2>1, <3>4 DEF Handle_CLOSING, last, done, seen, acked
    <2>2. CASE ~FinAcked(r, p) BY <1>1, <2>2 DEF Handle_CLOSING, acked
    <2>. QED BY <2>1, <2>2
  <1>. QED BY <1>4, <1>5, <1>6

\* A segment, through its handler and the actions that follow it.
LEMMA Packet ==
    ASSUME NEW r, NEW left, NEW mine, CloseOK(r, left, mine), NEW p, p.ackno \in Nat, NEW room, NEW tx
    PROVE  CloseOK(HandleSockStream(r, p, room, tx), left, mine)
  <1>1. \A s : CloseOK(s, left, mine) => CloseOK(Dispatch(s, p, room), left, mine)
    <2>. TAKE s
    <2>. HAVE CloseOK(s, left, mine)
    <2>. DEFINE opened == Handle_SYN_RCVD(s, p, room)
    <2>1. s.state = "SYN_RCVD" => CloseOK(opened, left, mine) BY Opening
    <2>. HIDE DEF opened
    <2>2. s.state = "SYN_RCVD" /\ opened.state = "ESTABLISHED" => CloseOK(Handle_ESTABLISHED(opened, p), left, mine)
      BY <2>1, Transfer
    <2>3. CloseOK(Act(s, "SEND_CONTROL"), left, mine) BY Lists
    <2>4. /\ s.state \in {"LISTEN", "SYN_RCVD"} => CloseOK(Handle_LISTEN(s, p), left, mine)
          /\ s.state = "SYN_SENT" => CloseOK(Handle_SYN_SENT(s, p), left, mine)
      BY Opening
    <2>5. /\ s.state = "ESTABLISHED" => CloseOK(Handle_ESTABLISHED(s, p), left, mine)
          /\ CloseOK(Handle_CLOSE_WAIT(s, p), left, mine) /\ CloseOK(Handle_LAST_ACK(s, p), left, mine)
      BY Transfer
    <2>6. /\ s.state = "FIN_WAIT_1" => CloseOK(Handle_FIN_WAIT_1(s, p), left, mine)
          /\ s.state = "FIN_WAIT_2" => CloseOK(Handle_FIN_WAIT_2(s, p), left, mine)
          /\ s.state = "CLOSING" => CloseOK(Handle_CLOSING(s, p), left, mine)
      BY ActiveClose
    <2>. QED BY <2>1, <2>2, <2>3, <2>4, <2>5, <2>6 DEF Dispatch, opened
  <1>2. CloseOK(UpdateRecvTCPContext(r, p, room), left, mine)
    <2>. DEFINE seen == IF r.state \in Synchronized THEN ValidateSequence(r, p) ELSE r
                marked == [seen EXCEPT !.have_reset = @ \/ p.rst]
    <2>1. CloseOK(seen, left, mine) BY Checks
    <2>. HIDE DEF seen
    <2>2. CloseOK(marked, left, mine) BY <2>1 DEF CloseOK, FinDue, CloseFields
    <2>. HIDE DEF marked
    <2>3. CloseOK(ProcessRST(marked, p), left, mine) /\ CloseOK(Dispatch(marked, p, room), left, mine)
      BY <1>1, <2>2, Checks
    <2>. QED BY <2>3 DEF UpdateRecvTCPContext, marked, seen
  <1>3. \A s : CloseOK(s, left, mine) => CloseOK(DoActionEndTCPPacket(s, tx), left, mine)
    <2>. TAKE s
    <2>. HAVE CloseOK(s, left, mine)
    <2>. DEFINE data == IF "SEND_DATA" \in s.actions THEN AddtoSendList(s) ELSE s
                ack == IF "SEND_ACK" \in s.actions THEN EnqueueACK(data) ELSE data
                control == IF "SEND_CONTROL" \in s.actions THEN AddtoControlList(ack, tx) ELSE ack
                gone == IF "DESTROY" \in s.actions THEN DestroyTCPStream(control) ELSE control
                done == [gone EXCEPT !.actions = {}]
    <2>1. CloseOK(data, left, mine) BY Lists
    <2>. HIDE DEF data
    <2>2. CloseOK(ack, left, mine) BY <2>1, Lists
    <2>. HIDE DEF ack
    <2>3. CloseOK(control, left, mine) BY <2>2, Control
    <2>. HIDE DEF control
    <2>4. CloseOK(gone, left, mine) BY <2>3, Ends
    <2>. HIDE DEF gone
    <2>5. CloseOK(done, left, mine) BY <2>4 DEF CloseOK, FinDue, CloseFields
    <2>. QED BY <2>5 DEF DoActionEndTCPPacket, gone, control, ack, data
  <1>. QED BY <1>2, <1>3 DEF HandleSockStream

\* The state the FIN is sent in: fss has to be settled before it is entered.
LEMMA IntoClosing ==
    ASSUME NEW r, NEW left, NEW mine, CloseOK(r, left, mine), left, r.sndbuf => r.fss = r.head + r.len, NEW tx
    PROVE  /\ CloseOK(Closing(r), left, mine) /\ CloseOK(AddtoControlList(Closing(r), tx), left, mine)
           /\ CloseOK([Closing(r) EXCEPT !.control_waiting = TRUE], left, mine)
  <1>1. CloseOK(Closing(r), left, mine)
    <2>1. CASE r.state = "ESTABLISHED"
      <3>1. Closing(r) = [r EXCEPT !.state = "FIN_WAIT_1"] BY <2>1 DEF Closing
      <3>. QED BY <2>1, <3>1 DEF CloseOK, FinDue, FinStates, Early, CloseFields
    <2>2. CASE r.state = "CLOSE_WAIT"
      <3>1. Closing(r) = [r EXCEPT !.state = "LAST_ACK"] BY <2>2 DEF Closing
      <3>. QED BY <2>2, <3>1 DEF CloseOK, FinDue, FinStates, Early, CloseFields
    <2>3. CASE r.state \notin {"ESTABLISHED", "CLOSE_WAIT"}
      <3>1. Same(r, Closing(r)) BY <2>3 DEF Closing, Same, CloseOK, CloseFields
      <3>. QED BY <3>1, SameOK
    <2>. QED BY <2>1, <2>2, <2>3
  <1>2. CloseOK([Closing(r) EXCEPT !.control_waiting = TRUE], left, mine)
    <2>. DEFINE t == Closing(r)
    <2>1. CloseOK(t, left, mine) BY <1>1
    <2>. HIDE DEF t
    <2>2. CloseOK([t EXCEPT !.control_waiting = TRUE], left, mine) BY <2>1 DEF CloseOK, FinDue, CloseFields
    <2>. QED BY <2>2 DEF t
  <1>. QED BY <1>1, <1>2, Control

\* One stream of the close queue: fss becomes the end of the buffer, and nobody writes
\* behind it, because the application has let go.
LEMMA CloseOne ==
    ASSUME NEW r, NEW left, NEW mine, CloseOK(r, left, mine), left, NEW tx
    PROVE  CloseOK(CloseRequest(r, tx), left, mine)
  <1>. DEFINE mark == [r EXCEPT !.fss = IF r.sndbuf THEN r.head + r.len ELSE r.snd_nxt]
              t == RemoveFromTimeoutList(mark)
  <1>1. CloseOK(mark, left, mine) /\ (mark.sndbuf => mark.fss = mark.head + mark.len)
    BY DEF CloseOK, FinDue, CloseFields
  <1>2. CloseOK(t, left, mine) /\ (t.sndbuf => t.fss = t.head + t.len)
    <2>. HIDE DEF mark
    <2>1. CloseFields \subseteq DOMAIN mark BY <1>1 DEF CloseOK
    <2>2. Same(mark, t) BY <2>1, Untouched
    <2>. QED BY <1>1, <2>2, SameOK DEF Same
  <1>. HIDE DEF t
  <1>3. /\ CloseOK(AddtoControlList(Closing(t), tx), left, mine)
        /\ CloseOK([Closing(t) EXCEPT !.control_waiting = TRUE], left, mine)
    BY <1>2, IntoClosing
  <1>4. CloseOK(Close(t), left, mine) BY <1>2, Ends
  <1>5. CloseOK(DestroyTCPStream(Close(t)), left, mine) BY <1>4, Ends
  <1>6. CloseOK(Enqueue(t, "close_int"), left, mine)
    BY <1>2 DEF CloseOK, FinDue, CloseFields, Enqueue
  <1>. QED BY <1>2, <1>3, <1>5, <1>6 DEF CloseRequest, t
-----------------------------------------------------------------------------
(* The actions of TcpStream.                                               *)

LEMMA ThisOK ==
    ASSUME CloseInv
    PROVE  CloseOK(This, app.left, app.left \/ app.owns) /\ Same(st, This)
  <1>1. CloseFields \subseteq DOMAIN st BY DEF CloseInv, CloseOK
  <1>2. Same(st, This) BY <1>1 DEF Same, This, CloseFields
  <1>. QED BY <1>2, SameOK DEF CloseInv

\* The application: it writes while it has the socket, and the FIN is due only after it let
\* go; it gets the stream from mtcp_connect or from mtcp_accept and from one of them once.
LEMMA ApplicationStep ==
    ASSUME CloseInv, Application
    PROVE  CloseInv'
  <1>. DEFINE left == app.left
              mine == app.left \/ app.owns
  <1>0. CloseOK(This, left, mine) /\ Same(st, This) BY ThisOK
  <1>a. /\ DOMAIN app = {"pc", "seen", "owns", "left"}
        /\ (app.left => ~app.owns) /\ (app.pc = "close" => app.left)
    BY DEF CloseInv
  <1>1. CASE Connect
    <2>. DEFINE opened == [This EXCEPT !.state = "SYN_SENT", !.active = TRUE, !.socket = TRUE]
    <2>1. ~mine /\ This.state = "CLOSED" BY <1>0, <1>1 DEF CloseOK, Connect, Same
    <2>2. CloseOK(opened, left, TRUE) BY <1>0, <2>1 DEF CloseOK, FinDue, FinStates, Early, CloseFields
    <2>. HIDE DEF opened
    <2>3. CloseOK(Enqueue(opened, "connect"), left, TRUE) BY <2>2, Ends
    <2>4. CloseOK([opened EXCEPT !.destroyq = 1], left, TRUE) BY <2>2 DEF CloseOK, FinDue, CloseFields
    <2>5. CloseOK(st', left, TRUE) BY <1>1, <2>3, <2>4 DEF Connect, opened
    <2>6. app' = [app EXCEPT !.owns = TRUE] BY <1>1 DEF Connect
    <2>7. app'.owns /\ app'.left = left /\ app'.pc = app.pc /\ DOMAIN app' = DOMAIN app BY <1>a, <2>6
    <2>. QED BY <1>a, <2>1, <2>5, <2>7 DEF CloseInv, CloseOK
  <1>2. CASE Accept
    <2>. DEFINE out == Dequeue(This, "accept")
                given == [out EXCEPT !.socket = TRUE]
    <2>1. "accept" \in This.queued BY <1>0, <1>2 DEF Accept, Same
    <2>2. ~mine BY <1>0, <2>1 DEF CloseOK
    <2>3. CloseOK(out, left, TRUE) BY <1>0, <2>1, <2>2 DEF CloseOK, FinDue, FinStates, Early, CloseFields, Dequeue
    <2>4. CloseOK(out, left, mine) BY <1>0, Ends
    <2>. HIDE DEF out
    <2>5. CloseOK(given, left, TRUE) BY <2>3 DEF CloseOK, FinDue, CloseFields
    <2>. HIDE DEF given
    <2>6. CloseOK(Fail(This, "use_after_free"), left, mine) BY <1>0, Lists
    <2>7. CASE app' = [app EXCEPT !.owns = TRUE] /\ st' = given
      <3>1. app'.owns /\ app'.left = left /\ app'.pc = app.pc /\ DOMAIN app' = DOMAIN app BY <1>a, <2>7
      <3>. QED BY <1>a, <2>2, <2>5, <2>7, <3>1 DEF CloseInv, CloseOK
    <2>8. CASE app' = app /\ CloseOK(st', left, mine)
      BY <1>a, <2>8 DEF CloseInv
    <2>. QED BY <1>2, <2>4, <2>6, <2>7, <2>8 DEF Accept, given, out
  <1>3. CASE WriteCopy
    <2>. DEFINE t == [This EXCEPT !.sndbuf = TRUE, !.len = @ + 1]
    <2>1. ~left /\ app.owns BY <1>a, <1>3 DEF WriteCopy
    <2>2. ~FinDue(This) BY <1>0, <2>1 DEF CloseOK
    <2>3. This.len \in Nat BY <1>0 DEF CloseOK
    <2>4. PICK n \in Nat : n = This.len + 1 BY <2>3
    <2>5. t = [This EXCEPT !.sndbuf = TRUE, !.len = n] BY <2>4
    <2>6. CloseOK(t, left, mine) BY <1>0, <2>2, <2>5 DEF CloseOK, FinDue, CloseFields, FinStates
    <2>. HIDE DEF t
    <2>7. st' = t /\ app' = [app EXCEPT !.pc = "write"] BY <1>3 DEF WriteCopy, t
    <2>8. app'.owns = app.owns /\ app'.left = left /\ app'.pc = "write" /\ DOMAIN app' = DOMAIN app BY <1>a, <2>7
    <2>. QED BY <1>a, <2>6, <2>7, <2>8 DEF CloseInv, CloseOK
  <1>4. CASE WriteWake
    <2>1. CloseOK(Enqueue(This, "send"), left, mine) BY <1>0, Ends
    <2>2. CloseOK(st', left, mine) /\ app' = [app EXCEPT !.pc = "idle"] BY <1>0, <1>4, <2>1 DEF WriteWake
    <2>3. app'.owns = app.owns /\ app'.left = left /\ app'.pc = "idle" /\ DOMAIN app' = DOMAIN app BY <1>a, <2>2
    <2>. QED BY <1>a, <2>2, <2>3 DEF CloseInv, CloseOK
  <1>5. CASE Read
    <2>1. CloseOK(Enqueue(This, "ack"), left, mine) BY <1>0, Ends
    <2>2. CloseOK(st', left, mine) /\ app' = app BY <1>5, <2>1 DEF Read
    <2>. QED BY <1>a, <2>2 DEF CloseInv
  <1>6. CASE CloseBegin \/ AbortBegin
    <2>. DEFINE t == [This EXCEPT !.socket = FALSE]
    <2>0. mine BY <1>6 DEF CloseBegin, AbortBegin
    <2>1. CloseOK(t, TRUE, TRUE) BY <1>0, <2>0 DEF CloseOK, FinDue, CloseFields
    <2>. HIDE DEF t
    <2>2. CloseOK(This, TRUE, TRUE) BY <1>0, <2>0 DEF CloseOK
    <2>3. CloseOK(Fail(This, "use_after_free"), TRUE, TRUE) BY <2>2, Lists
    <2>4. CloseOK(st', TRUE, TRUE) BY <1>6, <2>1, <2>3 DEF CloseBegin, AbortBegin, t
    <2>5. /\ app'.left = TRUE /\ app'.owns = FALSE /\ DOMAIN app' = {"pc", "seen", "owns", "left"}
      BY <1>6 DEF CloseBegin, AbortBegin
    <2>. QED BY <2>4, <2>5 DEF CloseInv, CloseOK
  <1>7. CASE CloseEnd
    <2>. DEFINE d == [This EXCEPT !.destroyq = @ + 1]
    <2>1. left BY <1>a, <1>7 DEF CloseEnd
    <2>2. CloseOK(d, left, mine) BY <1>0 DEF CloseOK, FinDue, CloseFields
    <2>3. CloseOK(Enqueue(This, "close"), left, mine) BY <1>0, <2>1 DEF CloseOK, FinDue, CloseFields, Enqueue
    <2>4. CloseOK(st', left, mine) /\ app' = [app EXCEPT !.pc = "idle"] BY <1>0, <1>7, <2>2, <2>3 DEF CloseEnd
    <2>5. app'.owns = app.owns /\ app'.left = left /\ app'.pc = "idle" /\ DOMAIN app' = DOMAIN app BY <1>a, <2>4
    <2>. QED BY <1>a, <2>4, <2>5 DEF CloseInv, CloseOK
  <1>8. CASE AbortEnd
    <2>. DEFINE c == Close(This)
                d == [c EXCEPT !.destroyq = @ + 1]
    <2>1. CloseOK(c, left, mine) BY <1>0, Ends
    <2>. HIDE DEF c
    <2>2. CloseOK(d, left, mine) BY <2>1 DEF CloseOK, FinDue, CloseFields
    <2>. HIDE DEF d
    <2>3. CloseOK(Enqueue(This, "reset"), left, mine) BY <1>0, Ends
    <2>4. CloseOK(st', left, mine) /\ app' = [app EXCEPT !.pc = "idle"]
      BY <1>0, <1>8, <2>2, <2>3 DEF AbortEnd, d, c
    <2>5. app'.owns = app.owns /\ app'.left = left /\ app'.pc = "idle" /\ DOMAIN app' = DOMAIN app BY <1>a, <2>4
    <2>. QED BY <1>a, <2>4, <2>5 DEF CloseInv, CloseOK
  <1>. QED BY <1>1, <1>2, <1>3, <1>4, <1>5, <1>6, <1>7, <1>8 DEF Application

\* Every segment has an acknowledgement number (0 if it has no ACK).
LEMMA AckNumbers ==
    ASSUME NEW p \in Segments
    PROVE  p.ackno \in Nat
  <1>. DEFINE Seqs == {"old", "next", "ahead", "zero"}
              All == [syn : BOOLEAN, ack : BOOLEAN, fin : BOOLEAN, rst : BOOLEAN, seq : Seqs,
                      len : {0, 1}, ackno : Nat, third : BOOLEAN]
  <1>1. AckNos \subseteq Nat BY DEF AckNos
  <1>2. \A syn, ack, fin, rst, third \in BOOLEAN : \A seq \in Seqs, len \in {0, 1}, a \in Nat :
           Segment(syn, ack, fin, rst, seq, len, a, third) \in All
    BY DEF Segment
  <1>3. New \subseteq Seqs /\ \A can : Again(can) \subseteq Seqs BY DEF New, Again
  <1>. DEFINE Of(kind, set) == IF kind \in PeerSends THEN set ELSE {}
              Syn(ack, a) == Segment(TRUE, ack, FALSE, FALSE, "old", 0, a, FALSE)
              Ack(seq, a, third) == Segment(FALSE, TRUE, FALSE, FALSE, seq, 0, a, third)
              Handshake == IF st.active THEN {Syn(TRUE, a) : a \in AckNos \cap {1}} ELSE {Syn(FALSE, 0)}
              Acks == {Ack("next", a, FALSE) : a \in AckNos}
              Old == {Ack("old", a, FALSE) : a \in AckNos}
              Dup == {Ack("next", a, TRUE) : a \in AckNos \cap {st.head}}
              Late == {Ack("next", a, TRUE) : a \in AckNos \cap 1 .. st.head - 1}
              WithData(seq, a) == Segment(FALSE, TRUE, FALSE, FALSE, seq, 1, a, FALSE)
              WithFin(seq, a) == Segment(FALSE, TRUE, TRUE, FALSE, seq, 0, a, FALSE)
              WithRst(ack, seq, a) == Segment(FALSE, ack, FALSE, TRUE, seq, 0, a, FALSE)
              AnySeq == New \cup Again(TRUE)
              Data == {WithData(seq, a) : seq \in AnySeq, a \in AckNos}
              Fin == {WithFin(seq, a) : seq \in New \cup Again(PeerDone), a \in AckNos}
              Rst == {WithRst(ack, seq, a) : ack \in BOOLEAN, seq \in {"old", "next", "zero"}, a \in AckNos}
              Opens == UNION {Of("SYN", {Syn(FALSE, 0)}), Of("SYN/ACK", IF st.active THEN Handshake ELSE {})}
              Open == UNION {Of("LATESYN", Handshake), Of("ACK", Acks), Of("OLD", Old), Of("DUP3", Dup),
                             Of("LATE3", Late), Of("DATA", Data), Of("FIN", Fin)}
  <1>. HIDE DEF All
  <1>4. {Syn(FALSE, 0)} \subseteq All /\ Handshake \subseteq All BY <1>1, <1>2
  <1>5. Acks \subseteq All /\ Old \subseteq All BY <1>1, <1>2
  <1>6. Dup \subseteq All /\ Late \subseteq All BY <1>1, <1>2
  <1>7. Data \subseteq All
    <2>1. \A seq \in AnySeq, a \in AckNos : WithData(seq, a) \in All BY <1>1, <1>2, <1>3
    <2>. HIDE DEF WithData, AnySeq
    <2>. QED BY <2>1
  <1>8. Fin \subseteq All
    <2>1. \A seq \in New \cup Again(PeerDone), a \in AckNos : WithFin(seq, a) \in All BY <1>1, <1>2, <1>3
    <2>. HIDE DEF WithFin
    <2>. QED BY <2>1
  <1>9. Rst \subseteq All
    <2>1. \A ack \in BOOLEAN, seq \in {"old", "next", "zero"}, a \in AckNos : WithRst(ack, seq, a) \in All
      BY <1>1, <1>2
    <2>. HIDE DEF WithRst
    <2>. QED BY <2>1
  <1>10. Segments = Of("RST", Rst) \cup IF st.state \in {"CLOSED", "SYN_SENT", "SYN_RCVD"}
                                        THEN Opens \cup (IF st.state = "SYN_RCVD" THEN Open ELSE {})
                                        ELSE Open
    BY DEF Segments
  <1>. HIDE DEF Handshake, Acks, Old, Dup, Late, Data, Fin, Rst, Syn
  <1>11. Opens \subseteq All BY <1>4
  <1>12. Open \subseteq All BY <1>4, <1>5, <1>6, <1>7, <1>8
  <1>13. Of("RST", Rst) \subseteq All BY <1>9
  <1>. HIDE DEF Open, Opens, Of
  <1>14. p \in All BY <1>10, <1>11, <1>12, <1>13
  <1>. QED BY <1>14 DEF All

\* What the mTCP thread does alone leaves the application where it is.
LEMMA Alone ==
    ASSUME CloseInv, UNCHANGED app, CloseOK(st', app.left, app.left \/ app.owns)
    PROVE  CloseInv'
  BY DEF CloseInv

\* A segment or an expired timer.
LEMMA EventStep ==
    ASSUME CloseInv, Peer \/ Timers
    PROVE  CloseInv'
  <1>. DEFINE left == app.left
              mine == app.left \/ app.owns
  <1>0. CloseOK(This, left, mine) /\ Same(st, This) BY ThisOK
  <1>1. UNCHANGED app
    BY DEF Peer, Receive, Timers, CheckRtmTimeout, CheckTimewaitExpire, CheckConnectionTimeout, Stay
  <1>. SUFFICES CloseOK(st', left, mine) BY <1>1, Alone
  <1>2. CASE Peer
    <2>1. PICK p \in Segments : Receive(p) BY <1>2 DEF Peer
    <2>2. p.ackno \in Nat BY AckNumbers
    <2>. DEFINE new == [This EXCEPT !.state = "LISTEN"]
    <2>3. ASSUME This.state = "CLOSED" PROVE CloseOK(new, left, mine)
      BY <1>0, <2>3 DEF CloseOK, FinDue, FinStates, Early, CloseFields
    <2>. HIDE DEF new
    <2>4. PICK room \in BOOLEAN, tx \in BOOLEAN :
             st' = HandleSockStream(IF st.state = "CLOSED" THEN new ELSE This, p, room, tx)
      BY <2>1 DEF Receive, new
    <2>5. CASE st.state = "CLOSED"
      <3>1. CloseOK(new, left, mine) BY <1>0, <2>3, <2>5 DEF Same
      <3>. QED BY <2>2, <2>4, <2>5, <3>1, Packet
    <2>6. CASE st.state # "CLOSED" BY <1>0, <2>2, <2>4, <2>6, Packet
    <2>. QED BY <2>5, <2>6
  <1>3. ASSUME NEW tx \in BOOLEAN, CheckRtmTimeout(tx) PROVE CloseOK(st', left, mine)
    <2>1. CloseOK(RemoveFromRTOList(This), left, mine) BY <1>0, Lists
    <2>2. CloseOK(HandleRTO(RemoveFromRTOList(This), tx), left, mine) BY <2>1, Timeout
    <2>. QED BY <1>3, <2>2 DEF CheckRtmTimeout
  <1>4. CASE CheckTimewaitExpire
    <2>1. CloseOK(Close(This), left, mine) BY <1>0, Ends
    <2>2. CloseOK(DestroyTCPStream(Close(This)), left, mine) BY <2>1, Ends
    <2>. QED BY <1>4, <2>2 DEF CheckTimewaitExpire
  <1>5. CASE CheckConnectionTimeout
    <2>1. CloseOK(RemoveFromTimeoutList(This), left, mine) BY <1>0, Lists
    <2>2. CloseOK(GiveUp(RemoveFromTimeoutList(This)), left, mine) BY <2>1, Timeout
    <2>. QED BY <1>5, <2>2 DEF CheckConnectionTimeout
  <1>. QED BY <1>2, <1>3, <1>4, <1>5 DEF Timers

\* The queues of the application and the lists of the sender.
LEMMA LoopStep ==
    ASSUME CloseInv, Loop
    PROVE  CloseInv'
  <1>. DEFINE left == app.left
              mine == app.left \/ app.owns
  <1>0. CloseOK(This, left, mine) /\ Same(st, This) BY ThisOK
  <1>1. UNCHANGED app
    BY DEF Loop, ReceiveDone, TimersDone, HandleSend, HandleAck, HandleDestroy, HandleConnect, HandleClose,
           HandleCloseInt, HandleReset, HandleResetInt, WriteControl, WriteAck, WriteData, Drain
  <1>. SUFFICES CloseOK(st', left, mine) BY <1>1, Alone
  <1>2. CloseOK(Fail(This, "use_after_free"), left, mine) BY <1>0, Lists
  <1>3. ASSUME NEW q, NEW handled, q \in st.queued => CloseOK(handled, left, mine), Drain(q, handled)
        PROVE  CloseOK(st', left, mine)
    BY <1>0, <1>2, <1>3 DEF Drain, Leave
  <1>4. CASE ReceiveDone \/ TimersDone
    BY <1>0, <1>4 DEF ReceiveDone, TimersDone, Leave
  <1>5. CASE HandleSend \/ HandleAck
    <2>1. CloseOK(Dequeue(This, "send"), left, mine) /\ CloseOK(Dequeue(This, "ack"), left, mine)
      BY <1>0, Ends
    <2>2. /\ CloseOK(AddtoSendList(Dequeue(This, "send")), left, mine)
          /\ CloseOK(EnqueueACK(Dequeue(This, "ack")), left, mine)
      BY <2>1, Lists
    <2>. QED BY <1>3, <1>5, <2>2 DEF HandleSend, HandleAck
  <1>6. CASE HandleDestroy
    <2>. DEFINE t == [This EXCEPT !.destroyq = @ - 1]
    <2>1. CloseOK(t, left, mine) BY <1>0 DEF CloseOK, FinDue, CloseFields
    <2>. HIDE DEF t
    <2>2. CloseOK(DestroyTCPStream(t), left, mine) BY <2>1, Ends
    <2>. QED BY <1>0, <1>6, <2>2 DEF HandleDestroy, Leave, t
  <1>7. ASSUME NEW tx \in BOOLEAN, HandleConnect(tx) PROVE CloseOK(st', left, mine)
    <2>. DEFINE c == Dequeue(This, "connect")
                handled == IF c.state # "SYN_SENT" THEN Fail(c, "connect_exit") ELSE AddtoControlList(c, tx)
    <2>1. CloseOK(c, left, mine) BY <1>0, Ends
    <2>. HIDE DEF c
    <2>2. CloseOK(handled, left, mine) BY <2>1, Lists, Control
    <2>3. Drain("connect", handled) BY <1>7 DEF HandleConnect, c
    <2>. HIDE DEF handled
    <2>. QED BY <1>3, <2>2, <2>3
  <1>8. ASSUME NEW tx \in BOOLEAN, HandleClose(tx) PROVE CloseOK(st', left, mine)
    <2>1. CloseOK(Dequeue(This, "close"), left, mine) BY <1>0, Ends
    <2>2. "close" \in st.queued => left BY <1>0 DEF CloseOK, Same
    <2>3. "close" \in st.queued => CloseOK(CloseRequest(Dequeue(This, "close"), tx), left, mine)
      BY <2>1, <2>2, CloseOne
    <2>. QED BY <1>3, <1>8, <2>3 DEF HandleClose
  <1>9. ASSUME NEW tx \in BOOLEAN, HandleCloseInt(tx) PROVE CloseOK(st', left, mine)
    <2>. DEFINE c == Dequeue(This, "close_int")
    <2>1. CloseOK(c, left, mine) BY <1>0, Ends
    <2>2. ASSUME "close_int" \in st.queued PROVE CloseOK(AddtoControlList(Closing(c), tx), left, mine)
      <3>1. left /\ (This.sndbuf => This.fss = This.head + This.len)
        BY <1>0, <2>2 DEF CloseOK, FinDue, Same
      <3>2. c.sndbuf => c.fss = c.head + c.len BY <1>0, <3>1 DEF Dequeue, CloseOK, CloseFields
      <3>. HIDE DEF c
      <3>. QED BY <2>1, <3>1, <3>2, IntoClosing
    <2>. HIDE DEF c
    <2>. QED BY <1>0, <1>2, <1>9, <2>1, <2>2 DEF HandleCloseInt, c
  <1>10. ASSUME NEW tx \in BOOLEAN, HandleReset(tx) PROVE CloseOK(st', left, mine)
    <2>. DEFINE r == RemoveFromTimeoutList(Dequeue(This, "reset"))
                handled == IF r.have_reset
                           THEN IF r.state # "CLOSED_RSVD" THEN DestroyTCPStream(Close(r)) ELSE r
                           ELSE IF r.on_control \/ r.on_send \/ r.on_ack THEN Enqueue(r, "reset_int")
                           ELSE IF r.state # "CLOSED_RSVD" THEN AddtoControlList(Close(r), tx)
                           ELSE r
    <2>1. CloseOK(Dequeue(This, "reset"), left, mine) BY <1>0, Ends
    <2>2. CloseOK(r, left, mine) BY <2>1, Lists
    <2>. HIDE DEF r
    <2>3. CloseOK(Close(r), left, mine) /\ CloseOK(Enqueue(r, "reset_int"), left, mine) BY <2>2, Ends
    <2>4. CloseOK(DestroyTCPStream(Close(r)), left, mine) /\ CloseOK(AddtoControlList(Close(r), tx), left, mine)
      BY <2>3, Ends, Control
    <2>5. CloseOK(handled, left, mine) BY <2>2, <2>3, <2>4
    <2>6. Drain("reset", handled) BY <1>10 DEF HandleReset, r
    <2>. HIDE DEF handled
    <2>. QED BY <1>3, <2>5, <2>6
  <1>11. ASSUME NEW tx \in BOOLEAN, HandleResetInt(tx) PROVE CloseOK(st', left, mine)
    <2>. DEFINE r == Dequeue(This, "reset_int")
    <2>1. CloseOK(r, left, mine) BY <1>0, Ends
    <2>. HIDE DEF r
    <2>2. CloseOK(Close(r), left, mine) BY <2>1, Ends
    <2>3. CloseOK(AddtoControlList(Close(r), tx), left, mine) BY <2>2, Control
    <2>. QED BY <1>0, <1>2, <1>11, <2>1, <2>3 DEF HandleResetInt, r
  <1>12. ASSUME NEW tx \in BOOLEAN, WriteControl(tx) PROVE CloseOK(st', left, mine)
    <2>. DEFINE t == [This EXCEPT !.on_control = FALSE]
    <2>1. CloseOK(t, left, mine) BY <1>0 DEF CloseOK, FinDue, CloseFields
    <2>. HIDE DEF t
    <2>2. CloseOK(SendControlPacket(t), left, mine) BY <2>1, Control
    <2>. QED BY <1>0, <1>12, <2>2 DEF WriteControl, t
  <1>13. ASSUME NEW tx \in BOOLEAN, NEW rcvd \in BOOLEAN, WriteAck(tx, rcvd) PROVE CloseOK(st', left, mine)
    <2>1. \A kept : CloseOK([This EXCEPT !.on_ack = kept], left, mine) BY <1>0 DEF CloseOK, FinDue, CloseFields
    <2>2. \A kept : CloseOK(ReleaseControl([This EXCEPT !.on_ack = kept], tx), left, mine) BY <2>1, Control
    <2>. QED BY <1>0, <1>13, <2>1, <2>2 DEF WriteAck
  <1>14. ASSUME NEW tx \in BOOLEAN, NEW n \in 0 .. MaxData, WriteData(n, tx) PROVE CloseOK(st', left, mine)
    <2>. DEFINE flushes == st.state \in {"ESTABLISHED", "CLOSE_WAIT", "FIN_WAIT_1", "LAST_ACK"}
                r == IF flushes THEN FlushTCPSendingBuffer(This, n) ELSE This
                done == [r EXCEPT !.on_send = FALSE]
    <2>1. CloseOK(r, left, mine) BY <1>0, Sending
    <2>. HIDE DEF r
    <2>2. CloseOK(done, left, mine) BY <2>1 DEF CloseOK, FinDue, CloseFields
    <2>. HIDE DEF done
    <2>3. CloseOK(ReleaseControl(done, tx), left, mine) BY <2>2, Control
    <2>. QED BY <1>0, <1>14, <2>1, <2>2, <2>3 DEF WriteData, r, done
  <1>. QED BY <1>4, <1>5, <1>6, <1>7, <1>8, <1>9, <1>10, <1>11, <1>12, <1>13, <1>14 DEF Loop
-----------------------------------------------------------------------------
\* The invariant holds in every state of the specification: fss is the end of the send
\* buffer from the close on, and only a stream that the application let go of is closed.
THEOREM CloseInvariant == Spec => []CloseInv
  <1>1. Init => CloseInv
    BY DEF Init, Unborn, CloseInv, CloseOK, FinDue, FinStates, Early, CloseFields
  <1>2. CloseInv /\ [Next]_vars => CloseInv'
    <2>1. CloseInv /\ UNCHANGED vars => CloseInv' BY DEF CloseInv, vars
    <2>. QED BY <2>1, ApplicationStep, EventStep, LoopStep DEF Next, Crashed
  <1>. QED BY <1>1, <1>2, PTL DEF Spec

\* No byte is written behind a FIN that was sent: CloseRequest (core.c) takes fss from the
\* buffer in the mTCP thread, and mtcp_write cannot fill it any more.
THEOREM FinComesLast == Spec => []FinIsLast
  <1>1. CloseInv => FinIsLast BY DEF CloseInv, CloseOK, FinDue, FinIsLast
  <1>. QED BY <1>1, CloseInvariant, PTL

\* A stream in FIN_WAIT_2 or TIME_WAIT has every byte acknowledged, whatever was lost,
\* repeated or overtaken before (Handle_TCP_ST_FIN_WAIT_1, Handle_TCP_ST_CLOSING).
THEOREM GracefulClose == Spec => []GracefulCloseDelivers
  <1>1. CloseInv => GracefulCloseDelivers BY DEF CloseInv, CloseOK, GracefulCloseDelivers
  <1>. QED BY <1>1, CloseInvariant, PTL

-----------------------------------------------------------------------------
(***************************************************************************)
(* The timers of a stream: it is never on the RTO wheel and on the         *)
(* timewait list at once, and while snd_una is behind snd_nxt the RTO      *)
(* timer runs, for any amount of data, any retry limit, any calls of the   *)
(* application and any segments of the peer.  What snd_nxt was moved past  *)
(* is another matter, and the next section's.                              *)
(*                                                                         *)
(* The second needs the whole history of the three numbers that the code   *)
(* compares.  A timer is stopped without a look at snd_nxt when the        *)
(* handshake ends, which is right because only the SYN is on the wire by   *)
(* then; ProcessACK leaves it alone when nothing leaves the send buffer,   *)
(* which is right because snd_una is never behind the buffer's head once   *)
(* the handshake is over.  So the invariant says what was sent before the  *)
(* handshake, and that no close request, no waiting FIN and no second SYN  *)
(* can come to the list of control packets during it.                      *)
(***************************************************************************)

\* States in which nothing is sent again.
Quiet == {"CLOSED", "FIN_WAIT_2", "TIME_WAIT", "CLOSED_RSVD"}

\* The fields of a stream that the invariant is about.
TimerFields == {"state", "on_rto", "on_timewait", "on_control", "control_waiting", "head", "snd_una",
                "snd_nxt", "wire", "queued", "actions"}

\* timer_link is in one list at most.
OneLink(r) ==
    /\ ~(r.on_rto /\ r.on_timewait)
    /\ r.on_timewait => r.state \in {"TIME_WAIT", "CLOSED_RSVD"}

\* Before the end of the handshake: at most the SYN was sent, and no FIN is asked for.
Handshaking(r) ==
    /\ r.head = 1 /\ r.snd_una = 0 /\ r.wire \subseteq {0} /\ ~r.control_waiting
    /\ "close" \notin r.queued /\ "close_int" \notin r.queued

\* The SYN is sent once by HandleConnect, then by the timer.
SynOnce(r) ==
    /\ r.state \in {"CLOSED", "LISTEN"} => r.snd_nxt = 0 /\ ~r.on_rto /\ ~r.on_control
    /\ r.state \in {"CLOSED", "LISTEN", "SYN_SENT"} => "SEND_CONTROL" \notin r.actions
    /\ r.state = "SYN_SENT" /\ "connect" \in r.queued => r.snd_nxt = 0 /\ ~r.on_rto /\ ~r.on_control

\* Stream r while a step is under way; asked says that the application is in mtcp_close and
\* read a state in which it will ask for the FIN.
Loose(r, asked) ==
    /\ TimerFields \subseteq DOMAIN r
    /\ r.head \in Int /\ r.head >= 1 /\ r.snd_una \in Int /\ r.snd_nxt \in Int
    /\ r.on_rto \in BOOLEAN /\ r.on_timewait \in BOOLEAN /\ r.on_control \in BOOLEAN
    /\ r.control_waiting \in BOOLEAN
    /\ OneLink(r) /\ SynOnce(r)
    /\ r.state \in Early => Handshaking(r)
    /\ r.state \notin Early \cup Quiet => r.snd_una >= r.head
    /\ asked => r.state \notin Early

\* What lies between snd_una and snd_nxt has its timer running.
Armed(r) == r.snd_una < r.snd_nxt => r.on_rto \/ r.state \in Quiet

\* A SYN that waits in the control list is the first one, or the timer moved snd_nxt back.
SynWaits(r) == r.state = "SYN_SENT" /\ r.on_control => r.snd_nxt = 0

TimersOK(r, asked) == Loose(r, asked) /\ Armed(r) /\ SynWaits(r)

Asked == app.pc = "close" /\ app.seen \in {"ESTABLISHED", "CLOSE_WAIT"}

TimerInv ==
    /\ TimersOK(st, Asked)
    /\ DOMAIN app = {"pc", "seen", "owns", "left"}
-----------------------------------------------------------------------------
(* Operators that do not touch these fields, or only the RTO timer.        *)

\* The fields of t are those of r, but for on_rto.
Near(r, t) ==
    /\ DOMAIN t = DOMAIN r /\ t.on_rto \in BOOLEAN
    /\ t.state = r.state /\ t.on_timewait = r.on_timewait /\ t.on_control = r.on_control
    /\ t.control_waiting = r.control_waiting /\ t.head = r.head /\ t.snd_una = r.snd_una
    /\ t.snd_nxt = r.snd_nxt /\ t.wire = r.wire /\ t.queued = r.queued /\ t.actions = r.actions

TimerSame(r, t) == Near(r, t) /\ t.on_rto = r.on_rto

LEMMA TimerSameOK ==
    ASSUME NEW r, NEW t, NEW asked, TimerSame(r, t)
    PROVE  /\ Loose(r, asked) => Loose(t, asked)
           /\ Armed(r) => Armed(t)
           /\ SynWaits(r) => SynWaits(t)
  <1>1. Loose(r, asked) => Loose(t, asked) BY DEF Loose, OneLink, SynOnce, Handshaking, TimerSame, Near
  <1>. QED BY <1>1 DEF Armed, SynWaits, TimerSame, Near

LEMMA TimerUntouched ==
    ASSUME NEW r, TimerFields \subseteq DOMAIN r, r.on_rto \in BOOLEAN, NEW x
    PROVE  /\ TimerSame(r, AddtoTimeoutList(r)) /\ TimerSame(r, RemoveFromTimeoutList(r)) /\ TimerSame(r, Fail(r, x))
           /\ TimerSame(r, EnqueueACK(r)) /\ TimerSame(r, AddtoSendList(r))
           /\ Near(r, UpdateRetransmissionTimer(r))
  <1>1. TimerSame(r, AddtoTimeoutList(r)) BY DEF TimerFields, TimerSame, Near, AddtoTimeoutList
  <1>2. TimerSame(r, RemoveFromTimeoutList(r)) BY DEF TimerFields, TimerSame, Near, RemoveFromTimeoutList
  <1>3. \A y : TimerSame(r, Fail(r, y)) BY DEF TimerFields, TimerSame, Near, Fail
  <1>4. TimerSame(r, EnqueueACK(r)) BY DEF TimerFields, TimerSame, Near, EnqueueACK
  <1>5. TimerSame(r, AddtoSendList(r)) BY <1>3 DEF TimerFields, TimerSame, Near, AddtoSendList
  <1>6. Near(r, UpdateRetransmissionTimer(r))
    <2>. DEFINE off == [RemoveFromRTOList(r) EXCEPT !.nrtx = 0]
    <2>1. Near(r, off) BY DEF Near, TimerFields, RemoveFromRTOList
    <2>2. Near(off, AddtoRTOList(off))
      <3>. HIDE DEF off
      <3>. QED BY <2>1 DEF Near, TimerFields, AddtoRTOList
    <2>. HIDE DEF off
    <2>3. Near(r, AddtoRTOList(off)) BY <2>1, <2>2 DEF Near
    <2>. QED BY <2>1, <2>3 DEF UpdateRetransmissionTimer, off
  <1>. QED BY <1>1, <1>2, <1>3, <1>4, <1>5, <1>6

\* So they keep the invariant.
LEMMA TimerLists ==
    ASSUME NEW r, NEW asked, TimersOK(r, asked), NEW x
    PROVE  /\ TimersOK(AddtoTimeoutList(r), asked) /\ TimersOK(RemoveFromTimeoutList(r), asked)
           /\ TimersOK(Fail(r, x), asked) /\ TimersOK(EnqueueACK(r), asked) /\ TimersOK(AddtoSendList(r), asked)
  <1>1. TimerFields \subseteq DOMAIN r /\ r.on_rto \in BOOLEAN BY DEF TimersOK, Loose
  <1>. QED BY <1>1, TimerUntouched, TimerSameOK DEF TimersOK

\* An action is noted; a control packet only once there is a handshake.
LEMMA Notes ==
    ASSUME NEW r, NEW asked, TimersOK(r, asked), NEW x,
           x = "SEND_CONTROL" => r.state \notin {"CLOSED", "LISTEN", "SYN_SENT"}
    PROVE  TimersOK(Act(r, x), asked)
  <1>1. Loose(Act(r, x), asked) BY DEF TimersOK, Loose, OneLink, SynOnce, Handshaking, TimerFields, Act
  <1>. QED BY <1>1 DEF TimersOK, Armed, SynWaits, Act, Loose, TimerFields

\* The end of a stream, the timewait list and the queues.
LEMMA TimerEnds ==
    ASSUME NEW r, NEW asked, Loose(r, asked), NEW x
    PROVE  /\ TimersOK(Close(r), asked) /\ Close(r).state = "CLOSED_RSVD"
           /\ TimersOK(r, asked) => TimersOK(DestroyTCPStream(r), asked) /\ TimersOK(Dequeue(r, x), asked)
           /\ TimersOK(r, asked) /\ x \notin {"connect", "close", "close_int"} => TimersOK(Enqueue(r, x), asked)
           /\ r.state \in {"TIME_WAIT", "CLOSED_RSVD"} => TimersOK(AddtoTimewaitList(r), asked)
  <1>1. TimersOK(Close(r), asked) /\ Close(r).state = "CLOSED_RSVD"
    BY DEF TimersOK, Loose, Armed, SynWaits, OneLink, SynOnce, Handshaking, TimerFields, Early, Quiet, Close
  <1>2. TimersOK(r, asked) => TimersOK(DestroyTCPStream(r), asked)
    <2>1. CASE r.freed BY <2>1, TimerLists DEF DestroyTCPStream
    <2>2. CASE ~r.freed
      BY <2>2 DEF TimersOK, Loose, Armed, SynWaits, OneLink, SynOnce, Handshaking, TimerFields, Early, Quiet,
                  DestroyTCPStream
    <2>. QED BY <2>1, <2>2
  <1>3. TimersOK(r, asked) => TimersOK(Dequeue(r, x), asked)
    BY DEF TimersOK, Loose, Armed, SynWaits, OneLink, SynOnce, Handshaking, TimerFields, Dequeue
  <1>4. TimersOK(r, asked) /\ x \notin {"connect", "close", "close_int"} => TimersOK(Enqueue(r, x), asked)
    BY DEF TimersOK, Loose, Armed, SynWaits, OneLink, SynOnce, Handshaking, TimerFields, Enqueue
  <1>5. r.state \in {"TIME_WAIT", "CLOSED_RSVD"} => TimersOK(AddtoTimewaitList(r), asked)
    BY DEF TimersOK, Loose, Armed, SynWaits, OneLink, SynOnce, Handshaking, TimerFields, Early, Quiet,
           AddtoTimewaitList
  <1>. QED BY <1>1, <1>2, <1>3, <1>4, <1>5

\* A step of a stream that may send: no first SYN is still to come.
Sends(r) == r.state \notin {"CLOSED", "LISTEN"} /\ ~(r.state = "SYN_SENT" /\ "connect" \in r.queued)

\* Arming the timer makes good whatever was sent before.
LEMMA Arm ==
    ASSUME NEW r, NEW asked, Loose(r, asked), Sends(r)
    PROVE  /\ Loose(AddtoRTOList(r), asked) /\ Armed(AddtoRTOList(r))
           /\ Loose(UpdateRetransmissionTimer(r), asked) /\ Armed(UpdateRetransmissionTimer(r))
  <1>1. \A s : Loose(s, asked) /\ Sends(s) => Loose(AddtoRTOList(s), asked) /\ Armed(AddtoRTOList(s))
    <2>. TAKE s
    <2>. HAVE Loose(s, asked) /\ Sends(s)
    <2>1. CASE s.on_timewait
      BY <2>1 DEF Loose, Armed, OneLink, Quiet, AddtoRTOList
    <2>2. CASE ~s.on_timewait
      BY <2>2 DEF Loose, Armed, OneLink, SynOnce, Handshaking, TimerFields, AddtoRTOList, Sends
    <2>. QED BY <2>1, <2>2
  <1>2. Loose(UpdateRetransmissionTimer(r), asked) /\ Armed(UpdateRetransmissionTimer(r))
    <2>. DEFINE off == [RemoveFromRTOList(r) EXCEPT !.nrtx = 0]
    <2>1. Loose(off, asked) /\ Sends(off)
      BY DEF Loose, OneLink, SynOnce, Handshaking, TimerFields, RemoveFromRTOList, Sends
    <2>2. off.snd_nxt = r.snd_nxt /\ off.snd_una = r.snd_una BY DEF RemoveFromRTOList, Loose, TimerFields
    <2>. HIDE DEF off
    <2>3. ~(r.snd_nxt > r.snd_una) => Armed(off) BY <2>2 DEF Armed, Loose
    <2>. QED BY <1>1, <2>1, <2>3 DEF UpdateRetransmissionTimer, off
  <1>. QED BY <1>1, <1>2

-----------------------------------------------------------------------------
(* Operators of TcpOps.                                                    *)

\* A SYN takes number 0, and every packet that takes a number arms the timer.
LEMMA TimerControl ==
    ASSUME NEW r, NEW asked, Loose(r, asked), Armed(r), Sends(r), r.state = "SYN_SENT" => r.snd_nxt = 0, NEW tx
    PROVE  /\ Loose(SendControlPacket(r), asked) /\ Armed(SendControlPacket(r))
           /\ ~r.on_control => TimersOK(SendControlPacket(r), asked)
           /\ TimersOK(AddtoControlList(r, tx), asked)
  <1>. DEFINE noted == [r EXCEPT !.out = <<r.state, ControlFlags(r)>>]
              first == [noted EXCEPT !.snd_nxt = 0]
  <1>1. TimerSame(r, noted) BY DEF TimerSame, Near, TimerFields, Loose
  <1>2. Loose(noted, asked) /\ Armed(noted) /\ Sends(noted) /\ noted.state = r.state
    BY <1>1, TimerSameOK DEF Sends, TimerSame, Near
  <1>3. noted.snd_nxt \in Int /\ noted.snd_nxt = r.snd_nxt /\ noted.on_control = r.on_control
    BY <1>1 DEF TimerSame, Near, Loose
  <1>. HIDE DEF noted
  <1>4. ASSUME NEW s, Loose(s, asked), Sends(s), s.state \in Early => s.snd_nxt = 0
        PROVE  Loose(SendSyn(s), asked) /\ Armed(SendSyn(s)) /\ SendSyn(s).on_control = s.on_control
    <2>. DEFINE t == [s EXCEPT !.wire = @ \cup {s.snd_nxt}, !.snd_nxt = @ + 1]
    <2>1. PICK n \in Int : n = s.snd_nxt + 1 BY <1>4 DEF Loose
    <2>2. t = [s EXCEPT !.wire = @ \cup {s.snd_nxt}, !.snd_nxt = n] BY <2>1
    <2>3. Loose(t, asked) /\ Sends(t) /\ t.on_control = s.on_control
      BY <1>4, <2>2 DEF Loose, OneLink, SynOnce, Handshaking, TimerFields, Sends, Early
    <2>. HIDE DEF t
    <2>4. AddtoRTOList(t).on_control = t.on_control BY <2>3 DEF AddtoRTOList, Loose, TimerFields
    <2>. QED BY <2>3, <2>4, Arm DEF SendSyn, t
  <1>5. ASSUME NEW s, Loose(s, asked), Sends(s), s.state \notin Early
        PROVE  Loose(SendFin(s), asked) /\ Armed(SendFin(s)) /\ SendFin(s).on_control = s.on_control
    <2>. DEFINE t == [s EXCEPT !.is_fin_sent = TRUE, !.wire = @ \cup {s.fss}, !.snd_nxt = @ + 1]
    <2>1. PICK n \in Int : n = s.snd_nxt + 1 BY <1>5 DEF Loose
    <2>2. t = [s EXCEPT !.is_fin_sent = TRUE, !.wire = @ \cup {s.fss}, !.snd_nxt = n] BY <2>1
    <2>3. Loose(t, asked) /\ Sends(t) /\ t.on_control = s.on_control
      BY <1>5, <2>2 DEF Loose, OneLink, SynOnce, Handshaking, TimerFields, Sends, Early
    <2>. HIDE DEF t
    <2>4. AddtoRTOList(t).on_control = t.on_control BY <2>3 DEF AddtoRTOList, Loose, TimerFields
    <2>. QED BY <2>3, <2>4, Arm DEF SendFin, t
  <1>6. Loose(first, asked) /\ Sends(first) /\ first.snd_nxt = 0 /\ first.on_control = r.on_control
    BY <1>2, <1>3 DEF Loose, OneLink, SynOnce, Handshaking, TimerFields, Sends
  <1>. HIDE DEF first
  <1>7. /\ Loose(SendControlPacket(r), asked) /\ Armed(SendControlPacket(r))
        /\ SendControlPacket(r).on_control \in {r.on_control, FALSE}
    <2>1. CASE r.state = "SYN_SENT"
      <3>1. SendControlPacket(r) = SendSyn(noted) BY <2>1 DEF SendControlPacket, ControlFlags, noted
      <3>. QED BY <1>2, <1>3, <1>4, <2>1, <3>1
    <2>2. CASE r.state = "SYN_RCVD"
      <3>1. SendControlPacket(r) = SendSyn(first) BY <2>2 DEF SendControlPacket, ControlFlags, noted, first
      <3>. QED BY <1>4, <1>6, <3>1
    <2>3. CASE r.state \in {"LAST_ACK", "FIN_WAIT_1"}
      <3>1. SendControlPacket(r) = SendFin(noted) BY <2>3 DEF SendControlPacket, ControlFlags, noted
      <3>. QED BY <1>2, <1>3, <1>5, <2>3, <3>1 DEF Early
    <2>4. CASE r.state \in {"CLOSING", "CLOSED_RSVD"}
      <3>1. SendControlPacket(r) = DestroyTCPStream(noted) BY <2>4 DEF SendControlPacket, ControlFlags, noted
      <3>2. SynWaits(noted) BY <1>2, <2>4 DEF SynWaits
      <3>3. TimersOK(DestroyTCPStream(noted), asked) BY <1>2, <3>2, TimerEnds DEF TimersOK
      <3>4. DestroyTCPStream(noted).on_control \in {noted.on_control, FALSE}
        BY <1>2 DEF DestroyTCPStream, Fail, Loose, TimerFields
      <3>. QED BY <1>3, <3>1, <3>3, <3>4 DEF TimersOK
    <2>5. CASE r.state \in {"ESTABLISHED", "CLOSE_WAIT", "FIN_WAIT_2", "TIME_WAIT"}
      <3>1. SendControlPacket(r) = noted BY <2>5 DEF SendControlPacket, ControlFlags, noted
      <3>. QED BY <1>2, <1>3, <3>1
    <2>6. CASE r.state \notin {"SYN_SENT", "SYN_RCVD", "LAST_ACK", "FIN_WAIT_1", "CLOSING", "CLOSED_RSVD",
                               "ESTABLISHED", "CLOSE_WAIT", "FIN_WAIT_2", "TIME_WAIT"}
      <3>1. SendControlPacket(r) = Fail(r, "control_state") BY <2>6 DEF SendControlPacket, ControlFlags
      <3>2. TimerSame(r, Fail(r, "control_state")) BY TimerUntouched DEF Loose
      <3>. QED BY <3>1, <3>2, TimerSameOK DEF TimerSame, Near
    <2>. QED BY <2>1, <2>2, <2>3, <2>4, <2>5, <2>6
  <1>8. ~r.on_control => TimersOK(SendControlPacket(r), asked) BY <1>7 DEF TimersOK, SynWaits
  <1>9. TimersOK(AddtoControlList(r, tx), asked)
    <2>. DEFINE s == SendControlPacket(r)
                t == [s EXCEPT !.on_control = FALSE]
                u == [r EXCEPT !.on_control = TRUE]
    <2>1. Loose(s, asked) /\ Armed(s) BY <1>7
    <2>. HIDE DEF s
    <2>2. TimersOK(t, asked)
      BY <2>1 DEF TimersOK, Loose, Armed, SynWaits, OneLink, SynOnce, Handshaking, TimerFields
    <2>3. TimersOK(u, asked)
      BY DEF TimersOK, Loose, Armed, SynWaits, OneLink, SynOnce, Handshaking, TimerFields, Sends
    <2>. QED BY <2>2, <2>3 DEF AddtoControlList, s
  <1>. QED BY <1>7, <1>8, <1>9

\* The same once the handshake is over.
LEMMA LateControl ==
    ASSUME NEW r, NEW asked, TimersOK(r, asked), NEW tx
    PROVE  /\ r.state \notin {"CLOSED", "LISTEN", "SYN_SENT"} => TimersOK(AddtoControlList(r, tx), asked)
           /\ TimersOK(ReleaseControl(r, tx), asked)
  <1>1. \A s : TimersOK(s, asked) /\ s.state \notin {"CLOSED", "LISTEN", "SYN_SENT"} =>
                  TimersOK(AddtoControlList(s, tx), asked)
    BY TimerControl DEF Sends, TimersOK
  <1>2. TimersOK(ReleaseControl(r, tx), asked)
    <2>. DEFINE s == [r EXCEPT !.control_waiting = FALSE]
    <2>1. CASE r.control_waiting
      <3>1. r.state \notin Early BY <2>1 DEF TimersOK, Loose, Handshaking
      <3>2. TimersOK(s, asked) /\ s.state = r.state
        BY DEF TimersOK, Loose, Armed, SynWaits, OneLink, SynOnce, Handshaking, TimerFields
      <3>. HIDE DEF s
      <3>3. TimersOK(AddtoControlList(s, tx), asked) BY <1>1, <3>1, <3>2 DEF Early
      <3>. QED BY <2>1, <3>3 DEF ReleaseControl, s
    <2>2. CASE ~r.control_waiting BY <2>2 DEF ReleaseControl
    <2>. QED BY <2>1, <2>2
  <1>. QED BY <1>1, <1>2

LEMMA TimerSending ==
    ASSUME NEW r, NEW asked, TimersOK(r, asked), r.state \notin Early, NEW n \in Nat
    PROVE  TimersOK(FlushTCPSendingBuffer(r, n), asked)
  <1>. DEFINE sent == [r EXCEPT !.wire = @ \cup (r.snd_nxt .. r.snd_nxt + n - 1), !.snd_nxt = @ + n]
  <1>1. PICK m \in Int : m = r.snd_nxt + n BY DEF TimersOK, Loose
  <1>2. sent = [r EXCEPT !.wire = @ \cup (r.snd_nxt .. r.snd_nxt + n - 1), !.snd_nxt = m] BY <1>1
  <1>3. Loose(sent, asked) /\ Sends(sent) /\ sent.state = r.state
    BY <1>2 DEF TimersOK, Loose, OneLink, SynOnce, Handshaking, TimerFields, Sends, Early
  <1>. HIDE DEF sent
  <1>4. Loose(AddtoRTOList(sent), asked) /\ Armed(AddtoRTOList(sent)) BY <1>3, Arm
  <1>5. AddtoRTOList(sent).state = r.state BY <1>3 DEF AddtoRTOList, Loose, TimerFields
  <1>6. TimersOK(AddtoRTOList(sent), asked) BY <1>4, <1>5 DEF TimersOK, SynWaits, Early
  <1>7. /\ TimersOK(Fail(r, "no_sndbuf"), asked) /\ TimersOK(Fail(r, "flush_seq"), asked)
        /\ TimersOK(Fail(r, "flush_past_end"), asked)
    BY TimerLists
  <1>. QED BY <1>6, <1>7 DEF FlushTCPSendingBuffer, sent

\* HandleRTO: the stream is off the wheel, so it is sent again from snd_una or given up.
LEMMA TimerTimeout ==
    ASSUME NEW r, NEW asked, Loose(r, asked), NEW tx
    PROVE  /\ TimersOK(GiveUp(r), asked)
           /\ Sends(r) => TimersOK(HandleRTO(r, tx), asked)
  <1>1. \A s : Loose(s, asked) => TimersOK(GiveUp(s), asked) /\ TimersOK(DestroyTCPStream(Close(s)), asked)
    <2>. TAKE s
    <2>. HAVE Loose(s, asked)
    <2>1. TimersOK(Close(s), asked) BY TimerEnds
    <2>2. TimersOK(DestroyTCPStream(Close(s)), asked) BY <2>1, TimerEnds DEF TimersOK
    <2>. QED BY <2>1, <2>2 DEF GiveUp
  <1>2. \A s : Loose(s, asked) /\ Sends(s) => TimersOK(Retransmit(s, tx), asked)
    <2>. TAKE s
    <2>. HAVE Loose(s, asked) /\ Sends(s)
    <2>. DEFINE back == [s EXCEPT !.snd_nxt = s.snd_una]
                data == [back EXCEPT !.on_control = FALSE, !.control_waiting = TRUE]
    <2>1. Loose(back, asked) /\ Sends(back) /\ Armed(back) /\ back.state = s.state
          /\ (back.state = "SYN_SENT" => back.snd_nxt = 0)
      BY DEF Loose, Armed, OneLink, SynOnce, Handshaking, TimerFields, Sends, Early
    <2>. HIDE DEF back
    <2>2. TimersOK(AddtoControlList(back, tx), asked) BY <2>1, TimerControl
    <2>3. back.state # "SYN_SENT" => TimersOK(back, asked) BY <2>1 DEF TimersOK, SynWaits
    <2>4. back.state # "SYN_SENT" => TimersOK(AddtoSendList(back), asked) BY <2>3, TimerLists
    <2>5. s.state \in {"FIN_WAIT_1", "CLOSING", "LAST_ACK"} => TimersOK(data, asked)
      BY <2>1 DEF TimersOK, Loose, Armed, SynWaits, OneLink, SynOnce, Handshaking, TimerFields, Early
    <2>. HIDE DEF data
    <2>6. s.state \in {"FIN_WAIT_1", "CLOSING", "LAST_ACK"} => TimersOK(AddtoSendList(data), asked)
      BY <2>5, TimerLists
    <2>. QED BY <2>1, <2>2, <2>4, <2>6 DEF Retransmit, back, data
  <1>3. ASSUME Sends(r) PROVE TimersOK(HandleRTO(r, tx), asked)
    <2>. DEFINE again == [r EXCEPT !.nrtx = @ + 1]
    <2>1. TimerSame(r, again) BY DEF TimerSame, Near, TimerFields, Loose
    <2>2. Loose(again, asked) /\ Sends(again) /\ again.state = r.state BY <1>3, <2>1, TimerSameOK DEF Sends, TimerSame, Near
    <2>. HIDE DEF again
    <2>3. r.state \in {"TIME_WAIT", "CLOSED_RSVD"} => TimersOK(Fail(again, "rto_state"), asked)
      <3>1. r.state \in {"TIME_WAIT", "CLOSED_RSVD"} => TimersOK(again, asked)
        BY <2>2 DEF TimersOK, Armed, SynWaits, Quiet
      <3>. QED BY <3>1, TimerLists
    <2>4. /\ TimersOK(GiveUp(again), asked) /\ TimersOK(Retransmit(again, tx), asked)
          /\ TimersOK(GiveUp(r), asked) /\ TimersOK(DestroyTCPStream(Close(r)), asked)
      BY <1>1, <1>2, <2>2
    <2>5. r.state \notin {"CLOSED", "LISTEN"} BY <1>3 DEF Sends
    <2>. QED BY <2>3, <2>4, <2>5 DEF HandleRTO, again
  <1>. QED BY <1>1, <1>3

-----------------------------------------------------------------------------
(* Operators of TcpRecv.                                                   *)

\* What a segment p that reaches stream r can say: during the handshake only the SYN can
\* be acknowledged, and nothing but a SYN or a reset comes to a stream in SYN_SENT.
SegmentOK(r, p) ==
    /\ p.ackno \in Nat
    /\ p.syn \in BOOLEAN /\ p.ack \in BOOLEAN /\ p.rst \in BOOLEAN
    /\ p.syn => p.ackno <= 1
    /\ r.state = "SYN_RCVD" => p.ackno <= 1
    /\ r.state = "SYN_SENT" => p.syn \/ p.rst

LEMMA TimerChecks ==
    ASSUME NEW r, NEW asked, TimersOK(r, asked), NEW p
    PROVE  /\ r.state \in Synchronized =>
                TimersOK(ValidateSequence(r, p), asked) /\ ValidateSequence(r, p).state = r.state
           /\ TimersOK(ProcessRST(r, p), asked)
  <1>0. TimerFields \subseteq DOMAIN r BY DEF TimersOK, Loose
  <1>1. ASSUME r.state \in Synchronized
        PROVE  TimersOK(ValidateSequence(r, p), asked) /\ ValidateSequence(r, p).state = r.state
    <2>1. r.state \notin Early BY <1>1 DEF Synchronized, Early
    <2>2. TimersOK(Act(r, "SEND_ACK"), asked) /\ TimersOK(Act(r, "SEND_CONTROL"), asked)
      BY <2>1, Notes DEF Early
    <2>. DEFINE w == AddtoTimewaitList(r)
    <2>3. r.state = "TIME_WAIT" => TimersOK(w, asked) /\ w.state = "TIME_WAIT"
      <3>1. w.state = r.state BY <1>0 DEF AddtoTimewaitList, TimerFields
      <3>2. r.state = "TIME_WAIT" => TimersOK(w, asked) BY TimerEnds DEF TimersOK
      <3>. QED BY <3>1, <3>2
    <2>. HIDE DEF w
    <2>4. r.state = "TIME_WAIT" => TimersOK(Act(w, "SEND_CONTROL"), asked) BY <2>3, Notes
    <2>5. TimersOK(ValidateSequence(r, p), asked) BY <2>2, <2>4 DEF ValidateSequence, w
    <2>6. ValidateSequence(r, p).state = r.state
      BY <1>0 DEF ValidateSequence, Act, AddtoTimewaitList, TimerFields
    <2>. QED BY <2>5, <2>6
  <1>2. TimersOK(ProcessRST(r, p), asked)
    <2>1. TimersOK(Close(r), asked) BY TimerEnds DEF TimersOK
    <2>2. TimersOK(Act(Close(r), "DESTROY"), asked) BY <2>1, Notes
    <2>. QED BY <2>1, <2>2 DEF ProcessRST
  <1>. QED BY <1>1, <1>2

\* An acknowledgement after the handshake: if units leave the buffer the timer is set anew;
\* if none does, snd_nxt is not moved beyond snd_una, which the head has not passed.
LEMMA TimerAcknowledgement ==
    ASSUME NEW r, NEW asked, TimersOK(r, asked), r.state \notin Early, NEW p, p.ackno \in Nat
    PROVE  /\ TimersOK(ProcessACK(r, p), asked) /\ ProcessACK(r, p).state = r.state
           /\ TimersOK(ProcessTCPPayload(r, p), asked) /\ ProcessTCPPayload(r, p).state = r.state
  <1>. DEFINE a == AckOfData(r, p)
              fast == FastRetransmit(r, p, a)
              more == RecoverSndNxt(fast, a)
              less == [more EXCEPT !.len = @ - (a - more.head), !.head = a, !.snd_una = a]
  <1>0. r.head \in Int /\ r.head >= 1 /\ r.snd_una \in Int /\ r.snd_nxt \in Int /\ TimerFields \subseteq DOMAIN r
    BY DEF TimersOK, Loose
  <1>1. PICK b \in Int : b = a BY DEF AckOfData
  <1>. HIDE DEF a
  <1>2. TimersOK(fast, asked) /\ fast.state = r.state /\ fast.head = r.head
    <2>. DEFINE s == [r EXCEPT !.snd_nxt = b, !.nrtx = IF @ < MaxRtx THEN @ + 1 ELSE @]
    <2>1. CASE b < r.snd_nxt
      <3>1. TimersOK(s, asked) /\ s.state = r.state /\ s.head = r.head
        BY <1>0, <1>1, <2>1 DEF TimersOK, Loose, Armed, SynWaits, OneLink, SynOnce, Handshaking, TimerFields, Early
      <3>. HIDE DEF s
      <3>2. TimersOK(Act(s, "SEND_DATA"), asked) BY <3>1, Notes
      <3>3. Act(s, "SEND_DATA").state = r.state /\ Act(s, "SEND_DATA").head = r.head
        BY <3>1 DEF Act, TimersOK, Loose, TimerFields
      <3>. QED BY <1>1, <3>2, <3>3 DEF FastRetransmit, s
    <2>2. CASE ~(b < r.snd_nxt) BY <1>1, <2>2 DEF FastRetransmit
    <2>. QED BY <2>1, <2>2
  <1>. HIDE DEF fast
  <1>3. /\ Loose(more, asked) /\ more.state = r.state /\ more.head = r.head
        /\ (b <= r.head => Armed(more))
    <2>. DEFINE s == [fast EXCEPT !.snd_nxt = b, !.on_send = @ /\ fast.len > 0]
    <2>1. /\ Loose(s, asked) /\ s.state = r.state /\ s.head = r.head
          /\ s.snd_nxt = b /\ s.snd_una = fast.snd_una
      BY <1>2 DEF TimersOK, Loose, OneLink, SynOnce, Handshaking, TimerFields, Early
    <2>2. b <= r.head => Armed(s)
      <3>1. CASE r.state \in Quiet BY <2>1, <3>1 DEF Armed
      <3>2. CASE r.state \notin Quiet
        <4>1. fast.snd_una >= fast.head /\ fast.snd_una \in Int BY <1>2, <3>2 DEF TimersOK, Loose
        <4>. QED BY <1>0, <1>2, <2>1, <4>1 DEF Armed
      <3>. QED BY <3>1, <3>2
    <2>. HIDE DEF s
    <2>3. more = IF b > fast.snd_nxt THEN s ELSE fast BY <1>1 DEF RecoverSndNxt, s
    <2>. QED BY <1>2, <2>1, <2>2, <2>3 DEF TimersOK
  <1>. HIDE DEF more
  <1>4. TimersOK(ProcessACK(r, p), asked) /\ ProcessACK(r, p).state = r.state
    <2>1. b <= r.head => TimersOK(more, asked) BY <1>3 DEF TimersOK, SynWaits, Early
    <2>2. ASSUME ~(b <= r.head)
          PROVE  TimersOK(UpdateRetransmissionTimer(less), asked) /\ UpdateRetransmissionTimer(less).state = r.state
      <3>1. Loose(less, asked) /\ less.state = r.state /\ Sends(less)
        <4>1. b \in Int /\ b >= 1 BY <1>0, <2>2
        <4>2. PICK k : k = more.len - (b - more.head) OBVIOUS
        <4>3. less = [more EXCEPT !.len = k, !.head = b, !.snd_una = b] BY <1>1, <4>2
        <4>4. /\ less.head = b /\ less.snd_una = b /\ DOMAIN less = DOMAIN more
              /\ less.state = more.state /\ less.on_rto = more.on_rto /\ less.on_timewait = more.on_timewait
              /\ less.on_control = more.on_control /\ less.control_waiting = more.control_waiting
              /\ less.snd_nxt = more.snd_nxt
          BY <1>3, <4>3 DEF Loose, TimerFields
        <4>. HIDE DEF less
        <4>5. OneLink(less) /\ SynOnce(less) /\ Sends(less) BY <1>3, <4>4 DEF Loose, OneLink, SynOnce, Early, Sends
        <4>. QED BY <1>3, <4>1, <4>4, <4>5 DEF Loose
      <3>. HIDE DEF less
      <3>2. Loose(UpdateRetransmissionTimer(less), asked) /\ Armed(UpdateRetransmissionTimer(less))
        BY <3>1, Arm
      <3>3. UpdateRetransmissionTimer(less).state = r.state
        <4>1. Near(less, UpdateRetransmissionTimer(less)) BY <3>1, TimerUntouched DEF Loose
        <4>. QED BY <3>1, <4>1 DEF Near
      <3>. QED BY <3>2, <3>3 DEF TimersOK, SynWaits, Early
    <2>3. ProcessACK(r, p) = IF ~r.sndbuf \/ a > r.head + r.len THEN r
                             ELSE IF b <= r.head THEN more ELSE UpdateRetransmissionTimer(less)
      BY <1>1, <1>3 DEF ProcessACK, RemoveAcked, more, fast, a
    <2>. QED BY <1>3, <2>1, <2>2, <2>3
  <1>5. TimersOK(Act(r, "SEND_ACK"), asked) BY Notes
  <1>6. Act(r, "SEND_ACK").state = r.state BY <1>0 DEF Act, TimerFields
  <1>. QED BY <1>4, <1>5, <1>6 DEF ProcessTCPPayload

LEMMA TimerTimeWait ==
    ASSUME NEW r, NEW asked, Loose(r, asked), r.state \in {"FIN_WAIT_1", "FIN_WAIT_2", "CLOSING"}
    PROVE  TimersOK(EnterTimeWait(r), asked) /\ TimersOK(AddtoTimewaitList([r EXCEPT !.state = "TIME_WAIT"]), asked)
  <1>. DEFINE t == [r EXCEPT !.state = "TIME_WAIT"]
              w == AddtoTimewaitList(t)
  <1>1. Loose(t, asked) /\ t.state = "TIME_WAIT"
    BY DEF Loose, OneLink, SynOnce, Handshaking, TimerFields, Early, Quiet
  <1>. HIDE DEF t
  <1>2. TimersOK(w, asked) BY <1>1, TimerEnds
  <1>3. w.state = "TIME_WAIT" BY <1>1 DEF AddtoTimewaitList, Loose, TimerFields
  <1>. HIDE DEF w
  <1>4. TimersOK(Act(w, "SEND_CONTROL"), asked) BY <1>2, <1>3, Notes
  <1>. QED BY <1>2, <1>4 DEF EnterTimeWait, w, t

\* The handshake.  When it ends the timer is stopped, and snd_nxt and snd_una are both 1.
LEMMA TimerOpening ==
    ASSUME NEW r, NEW asked, TimersOK(r, asked), NEW p, SegmentOK(r, p), NEW room
    PROVE  /\ r.state \in {"LISTEN", "SYN_RCVD"} => TimersOK(Handle_LISTEN(r, p), asked)
           /\ r.state = "SYN_SENT" => TimersOK(Handle_SYN_SENT(r, p), asked)
           /\ r.state = "SYN_RCVD" => TimersOK(Handle_SYN_RCVD(r, p, room), asked)
  <1>0. TimerFields \subseteq DOMAIN r /\ r.snd_una \in Int /\ r.snd_nxt \in Int BY DEF TimersOK, Loose
  <1>1. ASSUME r.state \in {"LISTEN", "SYN_RCVD"} PROVE TimersOK(Handle_LISTEN(r, p), asked)
    <2>. DEFINE t == [r EXCEPT !.state = "SYN_RCVD"]
    <2>1. TimersOK(t, asked) /\ t.state = "SYN_RCVD"
      BY <1>1 DEF TimersOK, Loose, Armed, SynWaits, OneLink, SynOnce, Handshaking, TimerFields, Early, Quiet
    <2>. HIDE DEF t
    <2>2. TimersOK(Act(t, "SEND_CONTROL"), asked) BY <2>1, Notes
    <2>. QED BY <2>2 DEF Handle_LISTEN, t
  \* Both ways out of the handshake.
  <1>2. ASSUME NEW s, NEW t, Loose(s, asked), s.state \in {"SYN_SENT", "SYN_RCVD"}, p.ackno <= 1,
               DOMAIN t = DOMAIN s, t.state = "ESTABLISHED", t.on_rto = FALSE, t.on_timewait = s.on_timewait,
               t.on_control = s.on_control, t.control_waiting = s.control_waiting, t.head = s.head,
               t.snd_una = 1, t.snd_nxt = p.ackno
        PROVE  TimersOK(t, asked)
    <2>1. s.head = 1 /\ ~s.on_timewait BY <1>2 DEF Loose, Handshaking, Early, OneLink
    <2>2. PICK n \in Nat : n = p.ackno /\ n <= 1 BY <1>2 DEF SegmentOK
    <2>3. OneLink(t) /\ SynOnce(t) BY <1>2, <2>1 DEF OneLink, SynOnce
    <2>4. /\ TimerFields \subseteq DOMAIN t
          /\ t.on_rto \in BOOLEAN /\ t.on_timewait \in BOOLEAN /\ t.on_control \in BOOLEAN /\ t.control_waiting \in BOOLEAN
      BY <1>2 DEF Loose
    <2>5. t.head = 1 /\ t.snd_una = 1 /\ t.snd_nxt = n /\ t.state \notin Early BY <1>2, <2>1, <2>2 DEF Early
    <2>6. Loose(t, asked) BY <2>3, <2>4, <2>5 DEF Loose
    <2>. QED BY <2>2, <2>5, <2>6 DEF TimersOK, Armed, SynWaits, Early
  <1>3. ASSUME NEW s, Loose(s, asked), s.state = "SYN_SENT", p.ackno <= 1
        PROVE  TimersOK(ActiveOpen([s EXCEPT !.snd_una = 1], p), asked)
    <2>. DEFINE one == [s EXCEPT !.snd_una = 1]
                moved == [one EXCEPT !.snd_nxt = p.ackno]
                timer == UpdateRetransmissionTimer(moved)
                opened == [timer EXCEPT !.state = "ESTABLISHED", !.nrtx = 0]
                off == RemoveFromRTOList(opened)
                gone == Act(opened, "DESTROY")
                offg == RemoveFromRTOList(gone)
    <2>1. /\ DOMAIN moved = DOMAIN s /\ moved.on_rto \in BOOLEAN /\ moved.on_timewait = s.on_timewait
          /\ moved.on_control = s.on_control /\ moved.control_waiting = s.control_waiting
          /\ moved.head = s.head /\ moved.snd_una = 1 /\ moved.snd_nxt = p.ackno
      BY <1>3 DEF Loose, TimerFields
    <2>. HIDE DEF moved
    <2>2. TimerFields \subseteq DOMAIN moved BY <1>3, <2>1 DEF Loose
    <2>3. Near(moved, timer) BY <2>1, <2>2, TimerUntouched
    <2>. HIDE DEF timer
    <2>4. /\ DOMAIN opened = DOMAIN s /\ opened.state = "ESTABLISHED" /\ opened.on_timewait = s.on_timewait
          /\ opened.on_control = s.on_control /\ opened.control_waiting = s.control_waiting
          /\ opened.head = s.head /\ opened.snd_una = 1 /\ opened.snd_nxt = p.ackno
      BY <2>1, <2>2, <2>3 DEF Near, TimerFields
    <2>. HIDE DEF opened
    <2>5. /\ DOMAIN gone = DOMAIN s /\ gone.state = "ESTABLISHED" /\ gone.on_timewait = s.on_timewait
          /\ gone.on_control = s.on_control /\ gone.control_waiting = s.control_waiting
          /\ gone.head = s.head /\ gone.snd_una = 1 /\ gone.snd_nxt = p.ackno
      BY <2>1, <2>2, <2>4 DEF TimerFields, Act
    <2>. HIDE DEF gone
    <2>6. ASSUME NEW u, DOMAIN u = DOMAIN s, u.state = "ESTABLISHED", u.on_timewait = s.on_timewait,
                 u.on_control = s.on_control, u.control_waiting = s.control_waiting,
                 u.head = s.head, u.snd_una = 1, u.snd_nxt = p.ackno
          PROVE  TimersOK(AddtoTimeoutList(Act(RemoveFromRTOList(u), "SEND_CONTROL")), asked)
      <3>. DEFINE v == RemoveFromRTOList(u)
      <3>1. /\ DOMAIN v = DOMAIN s /\ v.state = "ESTABLISHED" /\ v.on_rto = FALSE /\ v.on_timewait = s.on_timewait
            /\ v.on_control = s.on_control /\ v.control_waiting = s.control_waiting
            /\ v.head = s.head /\ v.snd_una = 1 /\ v.snd_nxt = p.ackno
        BY <2>1, <2>2, <2>6 DEF TimerFields, RemoveFromRTOList
      <3>. HIDE DEF v
      <3>2. TimersOK(v, asked) BY <1>2, <1>3, <3>1
      <3>3. TimersOK(Act(v, "SEND_CONTROL"), asked) BY <3>1, <3>2, Notes
      <3>4. TimersOK(AddtoTimeoutList(Act(v, "SEND_CONTROL")), asked) BY <3>3, TimerLists
      <3>. QED BY <3>4 DEF v
    <2>7. /\ TimersOK(AddtoTimeoutList(Act(RemoveFromRTOList(opened), "SEND_CONTROL")), asked)
          /\ TimersOK(AddtoTimeoutList(Act(RemoveFromRTOList(gone), "SEND_CONTROL")), asked)
      BY <2>4, <2>5, <2>6
    <2>8. one.socket = s.socket BY <1>3
    <2>. HIDE DEF one
    <2>9. ActiveOpen(one, p) = AddtoTimeoutList(Act(RemoveFromRTOList(IF one.socket THEN opened ELSE gone), "SEND_CONTROL"))
      BY DEF ActiveOpen, opened, gone, timer, moved
    <2>. QED BY <2>7, <2>9 DEF one
  <1>4. ASSUME r.state = "SYN_SENT" PROVE TimersOK(Handle_SYN_SENT(r, p), asked)
    <2>. DEFINE acked == [r EXCEPT !.snd_una = 1]
                closed == Close(r)
                open == [r EXCEPT !.state = "SYN_RCVD", !.snd_nxt = 0]
    <2>0. r.snd_una = 0 BY <1>4 DEF TimersOK, Loose, Handshaking, Early
    <2>1. [r EXCEPT !.snd_una = @ + 1] = acked BY <2>0
    <2>2. TimersOK(Close(acked), asked)
      BY <1>0, <1>4 DEF Close, TimersOK, Loose, Armed, SynWaits, OneLink, SynOnce, Handshaking, TimerFields, Early, Quiet
    <2>3. TimersOK(Act(Close(acked), "DESTROY"), asked) BY <2>2, Notes
    <2>4. TimersOK(open, asked) /\ open.state = "SYN_RCVD"
      BY <1>4 DEF TimersOK, Loose, Armed, SynWaits, OneLink, SynOnce, Handshaking, TimerFields, Early, Quiet
    <2>. HIDE DEF open
    <2>5. TimersOK(Act(open, "SEND_CONTROL"), asked) BY <2>4, Notes
    <2>6. p.syn => TimersOK(ActiveOpen(acked, p), asked) BY <1>3, <1>4 DEF TimersOK, SegmentOK
    <2>7. p.syn \/ p.rst BY <1>4 DEF SegmentOK
    <2>8. CASE p.ack /\ (p.ackno <= 0 \/ p.ackno > r.snd_nxt)
      <3>1. Handle_SYN_SENT(r, p) = r BY <1>0, <2>8 DEF SegmentOK, Handle_SYN_SENT
      <3>. QED BY <3>1
    <2>9. CASE ~(p.ack /\ (p.ackno <= 0 \/ p.ackno > r.snd_nxt)) /\ p.rst
      <3>1. Handle_SYN_SENT(r, p) = IF ~p.ack THEN r ELSE IF r.socket THEN Close(acked) ELSE Act(Close(acked), "DESTROY")
        BY <2>1, <2>9 DEF Handle_SYN_SENT
      <3>. QED BY <2>2, <2>3, <3>1
    <2>10. CASE ~(p.ack /\ (p.ackno <= 0 \/ p.ackno > r.snd_nxt)) /\ ~p.rst /\ p.ack
      <3>1. p.ackno \in 1 .. r.snd_nxt BY <1>0, <2>10 DEF SegmentOK
      <3>2. Handle_SYN_SENT(r, p) = ActiveOpen(acked, p) BY <2>1, <2>7, <2>10, <3>1 DEF Handle_SYN_SENT
      <3>. QED BY <2>6, <2>7, <2>10, <3>2
    <2>11. CASE ~p.rst /\ ~p.ack
      <3>1. Handle_SYN_SENT(r, p) = Act(open, "SEND_CONTROL") BY <2>7, <2>11 DEF Handle_SYN_SENT, open
      <3>. QED BY <2>5, <3>1
    <2>. QED BY <2>8, <2>9, <2>10, <2>11
  <1>5. ASSUME r.state = "SYN_RCVD" PROVE TimersOK(PassiveOpen(r, p, room), asked)
    <2>. DEFINE new == [r EXCEPT !.snd_una = @ + 1, !.snd_nxt = p.ackno, !.nrtx = 0, !.state = "ESTABLISHED"]
                opened == RemoveFromRTOList(new)
                queued == [opened EXCEPT !.queued = @ \cup {"accept"}]
    <2>0. r.snd_una = 0 /\ p.ackno <= 1 BY <1>5 DEF TimersOK, Loose, Handshaking, Early, SegmentOK
    <2>1. new = [r EXCEPT !.snd_una = 1, !.snd_nxt = p.ackno, !.nrtx = 0, !.state = "ESTABLISHED"] BY <2>0
    <2>2. /\ DOMAIN opened = DOMAIN r /\ opened.state = "ESTABLISHED" /\ opened.on_rto = FALSE
          /\ opened.on_timewait = r.on_timewait /\ opened.on_control = r.on_control
          /\ opened.control_waiting = r.control_waiting /\ opened.head = r.head
          /\ opened.snd_una = 1 /\ opened.snd_nxt = p.ackno
      BY <1>0, <2>1 DEF TimerFields, RemoveFromRTOList
    <2>. HIDE DEF opened
    <2>3. TimersOK(opened, asked) BY <1>2, <1>5, <2>0, <2>2 DEF TimersOK
    <2>4. TimersOK(queued, asked)
      BY <2>2, <2>3 DEF TimersOK, Loose, Armed, SynWaits, OneLink, SynOnce, Handshaking, TimerFields, Early
    <2>. HIDE DEF queued
    <2>5. TimersOK(Close(opened), asked) /\ Close(opened).state = "CLOSED_RSVD" BY <2>3, TimerEnds DEF TimersOK
    <2>6. TimersOK(Act(Close(opened), "SEND_CONTROL"), asked) BY <2>5, Notes
    <2>7. /\ TimersOK(AddtoTimeoutList(Act(Close(opened), "SEND_CONTROL")), asked)
          /\ TimersOK(AddtoTimeoutList(queued), asked) /\ TimersOK(Fail(opened, "null_listener"), asked)
      BY <2>3, <2>4, <2>6, TimerLists
    <2>. QED BY <2>7 DEF PassiveOpen, queued, opened
  <1>6. ASSUME r.state = "SYN_RCVD" PROVE TimersOK(Handle_SYN_RCVD(r, p, room), asked)
    <2>. DEFINE t == [r EXCEPT !.snd_nxt = 0]
    <2>1. TimersOK(t, asked) /\ t.state = "SYN_RCVD"
      BY <1>6 DEF TimersOK, Loose, Armed, SynWaits, OneLink, SynOnce, Handshaking, TimerFields, Early, Quiet
    <2>. HIDE DEF t
    <2>2. TimersOK(Act(t, "SEND_CONTROL"), asked) BY <2>1, Notes
    <2>. QED BY <1>5, <1>6, <2>2 DEF Handle_SYN_RCVD, t
  <1>. QED BY <1>1, <1>4, <1>6

\* Data transfer and the passive close.  A late SYN sets snd_nxt to 0 or 1, and snd_una is
\* not less by then.
LEMMA TimerTransfer ==
    ASSUME NEW r, NEW asked, TimersOK(r, asked), NEW p, p.ackno \in Nat
    PROVE  /\ r.state = "ESTABLISHED" /\ (p.syn => p.ackno <= 1) => TimersOK(Handle_ESTABLISHED(r, p), asked)
           /\ r.state = "CLOSE_WAIT" => TimersOK(Handle_CLOSE_WAIT(r, p), asked)
           /\ r.state = "LAST_ACK" => TimersOK(Handle_LAST_ACK(r, p), asked)
  <1>1. ASSUME r.state = "ESTABLISHED", p.syn => p.ackno <= 1 PROVE TimersOK(Handle_ESTABLISHED(r, p), asked)
    <2>. DEFINE data == ProcessTCPPayload(r, p)
                acked == IF p.ack THEN ProcessACK(data, p) ELSE data
                waits == [acked EXCEPT !.state = "CLOSE_WAIT"]
                late == [r EXCEPT !.snd_nxt = p.ackno]
    <2>1. TimersOK(data, asked) /\ data.state = "ESTABLISHED" BY <1>1, TimerAcknowledgement DEF Early
    <2>. HIDE DEF data
    <2>2. TimersOK(acked, asked) /\ acked.state = "ESTABLISHED" BY <2>1, TimerAcknowledgement DEF Early
    <2>. HIDE DEF acked
    <2>3. TimersOK(waits, asked) /\ waits.state = "CLOSE_WAIT"
      BY <2>2 DEF TimersOK, Loose, Armed, SynWaits, OneLink, SynOnce, Handshaking, TimerFields, Early, Quiet
    <2>4. p.syn => TimersOK(late, asked) /\ late.state = "ESTABLISHED"
      <3>. HAVE p.syn
      <3>1. PICK n \in Nat : n = p.ackno /\ n <= 1 BY <1>1
      <3>2. late = [r EXCEPT !.snd_nxt = n] BY <3>1
      <3>3. r.snd_una >= r.head BY <1>1 DEF TimersOK, Loose, Early, Quiet
      <3>4. Loose(late, asked) /\ late.state = "ESTABLISHED" /\ late.snd_nxt = n /\ late.snd_una = r.snd_una
        BY <1>1, <3>2 DEF TimersOK, Loose, OneLink, SynOnce, Handshaking, TimerFields, Early
      <3>5. Armed(late) BY <3>1, <3>3, <3>4 DEF Armed, TimersOK, Loose
      <3>. QED BY <3>4, <3>5 DEF TimersOK, SynWaits
    <2>. HIDE DEF waits, late
    <2>5. /\ TimersOK(Act(waits, "SEND_CONTROL"), asked) /\ (p.syn => TimersOK(Act(late, "SEND_CONTROL"), asked))
          /\ TimersOK(Act(acked, "SEND_ACK"), asked)
      BY <2>2, <2>3, <2>4, Notes
    <2>. QED BY <2>2, <2>5 DEF Handle_ESTABLISHED, waits, late, acked, data
  <1>2. ASSUME r.state = "CLOSE_WAIT" PROVE TimersOK(Handle_CLOSE_WAIT(r, p), asked)
    <2>1. TimersOK(ProcessACK(r, p), asked) BY <1>2, TimerAcknowledgement DEF Early
    <2>2. TimersOK(Act(r, "SEND_CONTROL"), asked) BY <1>2, Notes
    <2>. QED BY <2>1, <2>2 DEF Handle_CLOSE_WAIT
  <1>3. ASSUME r.state = "LAST_ACK" PROVE TimersOK(Handle_LAST_ACK(r, p), asked)
    <2>. DEFINE acked == ProcessACK(r, p)
                one == [acked EXCEPT !.snd_una = @ + 1]
                closed == UpdateRetransmissionTimer(one)
    <2>1. TimersOK(acked, asked) /\ acked.state = "LAST_ACK" BY <1>3, TimerAcknowledgement DEF Early
    <2>. HIDE DEF acked
    <2>2. PICK n \in Int : n = acked.snd_una + 1 BY <2>1 DEF TimersOK, Loose
    <2>3. one = [acked EXCEPT !.snd_una = n] BY <2>2
    <2>4. n >= acked.snd_una BY <2>1, <2>2 DEF TimersOK, Loose
    <2>5. Loose(one, asked) /\ Sends(one)
      <3>1. acked.snd_una >= acked.head BY <2>1 DEF TimersOK, Loose, Early, Quiet
      <3>2. n >= acked.head BY <2>1, <2>4, <3>1 DEF TimersOK, Loose
      <3>. QED BY <2>1, <2>3, <3>2 DEF TimersOK, Loose, OneLink, SynOnce, Handshaking, TimerFields, Early, Sends
    <2>. HIDE DEF one
    <2>6. Loose(closed, asked) BY <2>5, Arm
    <2>. HIDE DEF closed
    <2>7. TimersOK(Close(closed), asked) BY <2>6, TimerEnds
    <2>8. /\ TimersOK(Act(r, "SEND_CONTROL"), asked) /\ TimersOK(Act(acked, "SEND_CONTROL"), asked)
          /\ TimersOK(Act(Close(closed), "DESTROY"), asked)
      BY <1>3, <2>1, <2>7, Notes
    <2>. QED BY <2>1, <2>8 DEF Handle_LAST_ACK, acked, one, closed
  <1>. QED BY <1>1, <1>2, <1>3

\* The active close: FIN_WAIT_2 and TIME_WAIT send nothing again.
LEMMA TimerActiveClose ==
    ASSUME NEW r, NEW asked, TimersOK(r, asked), NEW p, p.ackno \in Nat
    PROVE  /\ r.state = "FIN_WAIT_1" => TimersOK(Handle_FIN_WAIT_1(r, p), asked)
           /\ r.state = "FIN_WAIT_2" => TimersOK(Handle_FIN_WAIT_2(r, p), asked)
           /\ r.state = "CLOSING" => TimersOK(Handle_CLOSING(r, p), asked)
  <1>. DEFINE acked == ProcessACK(r, p)
  <1>1. r.state \notin Early => TimersOK(acked, asked) /\ acked.state = r.state BY TimerAcknowledgement
  <1>. HIDE DEF acked
  <1>2. ASSUME r.state = "FIN_WAIT_1" PROVE TimersOK(Handle_FIN_WAIT_1(r, p), asked)
    <2>. DEFINE half == [acked EXCEPT !.snd_una = p.ackno, !.nrtx = 0, !.state = "FIN_WAIT_2",
                                      !.snd_nxt = IF p.ackno > @ THEN p.ackno ELSE @]
                off == RemoveFromRTOList(half)
                ours == IF FinAcked(r, p) THEN off ELSE acked
                data == ProcessTCPPayload(ours, p)
                both == [data EXCEPT !.state = "CLOSING"]
    <2>1. TimersOK(acked, asked) /\ acked.state = "FIN_WAIT_1" BY <1>1, <1>2 DEF Early
    <2>2. PICK n \in Int : n = IF p.ackno > acked.snd_nxt THEN p.ackno ELSE acked.snd_nxt
      BY <2>1 DEF TimersOK, Loose
    <2>3. half = [acked EXCEPT !.snd_una = p.ackno, !.nrtx = 0, !.state = "FIN_WAIT_2", !.snd_nxt = n]
      BY <2>2
    <2>4. TimersOK(half, asked) /\ half.state = "FIN_WAIT_2"
      BY <2>1, <2>3 DEF TimersOK, Loose, Armed, SynWaits, OneLink, SynOnce, Handshaking, TimerFields, Early, Quiet
    <2>. HIDE DEF half
    <2>5. TimersOK(off, asked) /\ off.state = "FIN_WAIT_2"
      BY <2>4 DEF TimersOK, Loose, Armed, SynWaits, OneLink, SynOnce, Handshaking, TimerFields, Early, Quiet,
                  RemoveFromRTOList
    <2>. HIDE DEF off
    <2>6. TimersOK(ours, asked) /\ ours.state \in {"FIN_WAIT_1", "FIN_WAIT_2"} BY <2>1, <2>5
    <2>. HIDE DEF ours
    <2>7. TimersOK(data, asked) /\ data.state = ours.state BY <2>6, TimerAcknowledgement DEF Early
    <2>. HIDE DEF data
    <2>8. data.state # "FIN_WAIT_2" => TimersOK(both, asked) /\ both.state = "CLOSING"
      BY <2>6, <2>7 DEF TimersOK, Loose, Armed, SynWaits, OneLink, SynOnce, Handshaking, TimerFields, Early, Quiet
    <2>. HIDE DEF both
    <2>9. TimersOK(EnterTimeWait(data), asked) BY <2>6, <2>7, TimerTimeWait DEF TimersOK
    <2>10. /\ TimersOK(Act(r, "SEND_CONTROL"), asked) /\ TimersOK(Act(data, "SEND_ACK"), asked)
           /\ (data.state # "FIN_WAIT_2" => TimersOK(Act(both, "SEND_CONTROL"), asked))
      BY <1>2, <2>7, <2>8, Notes
    <2>. QED BY <2>7, <2>9, <2>10 DEF Handle_FIN_WAIT_1, both, data, ours, off, half, acked
  <1>3. ASSUME r.state = "FIN_WAIT_2" PROVE TimersOK(Handle_FIN_WAIT_2(r, p), asked)
    <2>. DEFINE data == ProcessTCPPayload(acked, p)
    <2>1. TimersOK(data, asked) /\ data.state = "FIN_WAIT_2" BY <1>1, <1>3, TimerAcknowledgement DEF Early
    <2>. HIDE DEF data
    <2>2. TimersOK(EnterTimeWait(data), asked) BY <2>1, TimerTimeWait DEF TimersOK
    <2>. QED BY <2>1, <2>2 DEF Handle_FIN_WAIT_2, data, acked
  <1>4. ASSUME r.state = "CLOSING" PROVE TimersOK(Handle_CLOSING(r, p), asked)
    <2>. DEFINE seen == [acked EXCEPT !.snd_una = p.ackno]
                done == UpdateRetransmissionTimer(seen)
    <2>1. TimersOK(acked, asked) /\ acked.state = "CLOSING" BY <1>1, <1>4 DEF Early
    <2>2. TimerFields \subseteq DOMAIN seen /\ seen.on_rto \in BOOLEAN BY <2>1 DEF TimersOK, Loose, TimerFields
    <2>3. Near(seen, done) /\ done.on_rto \in BOOLEAN
      <3>. HIDE DEF seen
      <3>. QED BY <2>2, TimerUntouched DEF Near
    <2>. HIDE DEF done
    <2>. DEFINE last == [done EXCEPT !.state = "TIME_WAIT"]
                in == AddtoTimewaitList(last)
    <2>4. /\ DOMAIN done = DOMAIN acked /\ done.on_timewait = acked.on_timewait /\ done.on_control = acked.on_control
          /\ done.control_waiting = acked.control_waiting /\ done.head = acked.head /\ done.snd_una = p.ackno
          /\ done.snd_nxt = acked.snd_nxt
      BY <2>1, <2>3 DEF Near, TimersOK, Loose, TimerFields
    <2>5. /\ DOMAIN in = DOMAIN acked /\ in.on_timewait = TRUE /\ in.on_rto = FALSE /\ in.state = "TIME_WAIT"
          /\ in.on_control = acked.on_control /\ in.control_waiting = acked.control_waiting
          /\ in.head = acked.head /\ in.snd_una = p.ackno /\ in.snd_nxt = acked.snd_nxt
      BY <2>1, <2>4 DEF TimersOK, Loose, TimerFields, AddtoTimewaitList
    <2>. HIDE DEF in
    <2>6. OneLink(in) /\ SynOnce(in) /\ Armed(in) /\ SynWaits(in)
      BY <2>5 DEF OneLink, SynOnce, Armed, SynWaits, Quiet
    <2>7. in.on_rto \in BOOLEAN /\ in.on_timewait \in BOOLEAN /\ in.on_control \in BOOLEAN /\ in.control_waiting \in BOOLEAN
      BY <2>1, <2>5 DEF TimersOK, Loose
    <2>8. TimersOK(in, asked)
      BY <2>1, <2>5, <2>6, <2>7 DEF TimersOK, Loose, Early, Quiet
    <2>. QED BY <2>1, <2>8 DEF Handle_CLOSING, in, last, done, seen, acked
  <1>. QED BY <1>2, <1>3, <1>4

\* A segment, through its handler and the actions that follow it.
LEMMA TimerPacket ==
    ASSUME NEW r, NEW asked, TimersOK(r, asked), NEW p, SegmentOK(r, p), NEW room, NEW tx
    PROVE  TimersOK(HandleSockStream(r, p, room, tx), asked)
  <1>1. \A s : TimersOK(s, asked) /\ s.state = r.state => TimersOK(Dispatch(s, p, room), asked)
    <2>. TAKE s
    <2>. HAVE TimersOK(s, asked) /\ s.state = r.state
    <2>0. SegmentOK(s, p) /\ p.ackno \in Nat /\ (p.syn => p.ackno <= 1) BY DEF SegmentOK
    <2>. DEFINE opened == Handle_SYN_RCVD(s, p, room)
    <2>1. s.state = "SYN_RCVD" => TimersOK(opened, asked) BY <2>0, TimerOpening
    <2>. HIDE DEF opened
    <2>2. s.state = "SYN_RCVD" /\ opened.state = "ESTABLISHED" => TimersOK(Handle_ESTABLISHED(opened, p), asked)
      BY <2>0, <2>1, TimerTransfer
    <2>3. s.state = "TIME_WAIT" => TimersOK(Act(s, "SEND_CONTROL"), asked) BY Notes
    <2>4. /\ s.state \in {"LISTEN", "SYN_RCVD"} => TimersOK(Handle_LISTEN(s, p), asked)
          /\ s.state = "SYN_SENT" => TimersOK(Handle_SYN_SENT(s, p), asked)
      BY <2>0, TimerOpening
    <2>5. /\ s.state = "ESTABLISHED" => TimersOK(Handle_ESTABLISHED(s, p), asked)
          /\ s.state = "CLOSE_WAIT" => TimersOK(Handle_CLOSE_WAIT(s, p), asked)
          /\ s.state = "LAST_ACK" => TimersOK(Handle_LAST_ACK(s, p), asked)
      BY <2>0, TimerTransfer
    <2>6. /\ s.state = "FIN_WAIT_1" => TimersOK(Handle_FIN_WAIT_1(s, p), asked)
          /\ s.state = "FIN_WAIT_2" => TimersOK(Handle_FIN_WAIT_2(s, p), asked)
          /\ s.state = "CLOSING" => TimersOK(Handle_CLOSING(s, p), asked)
      BY <2>0, TimerActiveClose
    <2>. QED BY <2>1, <2>2, <2>3, <2>4, <2>5, <2>6 DEF Dispatch, opened
  <1>2. TimersOK(UpdateRecvTCPContext(r, p, room), asked)
    <2>. DEFINE seen == IF r.state \in Synchronized THEN ValidateSequence(r, p) ELSE r
                marked == [seen EXCEPT !.have_reset = @ \/ p.rst]
    <2>1. TimersOK(seen, asked) /\ seen.state = r.state BY TimerChecks
    <2>. HIDE DEF seen
    <2>2. TimerSame(seen, marked) BY <2>1 DEF TimerSame, Near, TimersOK, Loose, TimerFields
    <2>. HIDE DEF marked
    <2>3. TimersOK(marked, asked) /\ marked.state = r.state BY <2>1, <2>2, TimerSameOK DEF TimersOK, TimerSame, Near
    <2>4. TimersOK(ProcessRST(marked, p), asked) /\ TimersOK(Dispatch(marked, p, room), asked)
      BY <1>1, <2>3, TimerChecks
    <2>. QED BY <2>4 DEF UpdateRecvTCPContext, marked, seen
  <1>3. \A s : TimersOK(s, asked) => TimersOK(DoActionEndTCPPacket(s, tx), asked)
    <2>. TAKE s
    <2>. HAVE TimersOK(s, asked)
    <2>. DEFINE data == IF "SEND_DATA" \in s.actions THEN AddtoSendList(s) ELSE s
                ack == IF "SEND_ACK" \in s.actions THEN EnqueueACK(data) ELSE data
                control == IF "SEND_CONTROL" \in s.actions THEN AddtoControlList(ack, tx) ELSE ack
                gone == IF "DESTROY" \in s.actions THEN DestroyTCPStream(control) ELSE control
                done == [gone EXCEPT !.actions = {}]
    <2>1. TimersOK(data, asked) /\ data.state = s.state
      <3>1. TimerSame(s, AddtoSendList(s)) BY TimerUntouched DEF TimersOK, Loose
      <3>. QED BY <3>1, TimerLists DEF TimerSame, Near
    <2>. HIDE DEF data
    <2>2. TimersOK(ack, asked) /\ ack.state = s.state
      <3>1. TimerSame(data, EnqueueACK(data)) BY <2>1, TimerUntouched DEF TimersOK, Loose
      <3>. QED BY <2>1, <3>1, TimerLists DEF TimerSame, Near
    <2>. HIDE DEF ack
    <2>3. TimersOK(control, asked)
      <3>1. "SEND_CONTROL" \in s.actions => s.state \notin {"CLOSED", "LISTEN", "SYN_SENT"}
        BY DEF TimersOK, Loose, SynOnce
      <3>. QED BY <2>2, <3>1, LateControl
    <2>. HIDE DEF control
    <2>4. TimersOK(gone, asked) BY <2>3, TimerEnds DEF TimersOK
    <2>. HIDE DEF gone
    <2>5. TimersOK(done, asked)
      BY <2>4 DEF TimersOK, Loose, Armed, SynWaits, OneLink, SynOnce, Handshaking, TimerFields
    <2>. QED BY <2>5 DEF DoActionEndTCPPacket, gone, control, ack, data
  <1>. QED BY <1>2, <1>3 DEF HandleSockStream

\* A close request, of which the handshake is past.
LEMMA TimerCloseOne ==
    ASSUME NEW r, NEW asked, TimersOK(r, asked), r.state \notin Early, NEW tx
    PROVE  /\ TimersOK(AddtoControlList(Closing(r), tx), asked)
           /\ TimersOK(CloseRequest(r, tx), asked)
  <1>1. \A s : TimersOK(s, asked) /\ s.state \notin Early =>
                  TimersOK(Closing(s), asked) /\ Closing(s).state \notin Early
    <2>. TAKE s
    <2>. HAVE TimersOK(s, asked) /\ s.state \notin Early
    <2>1. PICK x : x = Closing(s).state OBVIOUS
    <2>2. /\ Closing(s) = [s EXCEPT !.state = x]
          /\ (s.state \in Quiet => x = s.state) /\ x \notin Early /\ (s.state \notin Quiet => x \notin Quiet)
      <3>1. CASE s.state = "ESTABLISHED"
        <4>1. Closing(s) = [s EXCEPT !.state = "FIN_WAIT_1"] BY <3>1 DEF Closing
        <4>. QED BY <2>1, <3>1, <4>1 DEF TimersOK, Loose, TimerFields, Early, Quiet
      <3>2. CASE s.state = "CLOSE_WAIT"
        <4>1. Closing(s) = [s EXCEPT !.state = "LAST_ACK"] BY <3>2 DEF Closing
        <4>. QED BY <2>1, <3>2, <4>1 DEF TimersOK, Loose, TimerFields, Early, Quiet
      <3>3. CASE s.state \notin {"ESTABLISHED", "CLOSE_WAIT"}
        <4>1. Closing(s) = [s EXCEPT !.state = s.state] BY <3>3 DEF Closing
        <4>. QED BY <2>1, <4>1 DEF TimersOK, Loose, TimerFields
      <3>. QED BY <3>1, <3>2, <3>3
    <2>3. TimersOK([s EXCEPT !.state = x], asked)
      BY <2>2 DEF TimersOK, Loose, Armed, SynWaits, OneLink, SynOnce, Handshaking, TimerFields, Early, Quiet
    <2>. QED BY <2>1, <2>2, <2>3
  <1>2. \A s : TimersOK(s, asked) /\ s.state \notin Early => TimersOK(AddtoControlList(Closing(s), tx), asked)
    BY <1>1, LateControl DEF Early
  <1>. DEFINE mark == [r EXCEPT !.fss = IF r.sndbuf THEN r.head + r.len ELSE r.snd_nxt]
              t == RemoveFromTimeoutList(mark)
  <1>3. TimerSame(r, mark) BY DEF TimersOK, Loose, TimerFields, TimerSame, Near
  <1>. HIDE DEF mark
  <1>4. TimersOK(mark, asked) BY <1>3, TimerSameOK DEF TimersOK
  <1>5. TimerSame(mark, t) BY <1>4, TimerUntouched DEF TimersOK, Loose
  <1>. HIDE DEF t
  <1>6. TimersOK(t, asked) /\ t.state \notin Early BY <1>3, <1>4, <1>5, TimerSameOK DEF TimersOK, TimerSame, Near
  <1>7. TimersOK(Close(t), asked) BY <1>6, TimerEnds DEF TimersOK
  <1>8. TimersOK(DestroyTCPStream(Close(t)), asked) BY <1>7, TimerEnds DEF TimersOK
  <1>9. TimersOK(Enqueue(t, "close_int"), asked)
    BY <1>6 DEF Enqueue, TimersOK, Loose, Armed, SynWaits, OneLink, SynOnce, Handshaking, TimerFields, Early
  <1>. DEFINE c == Closing(t)
              w == [c EXCEPT !.control_waiting = TRUE]
  <1>10. TimersOK(c, asked) /\ c.state \notin Early BY <1>1, <1>6
  <1>. HIDE DEF c
  <1>11. TimersOK(w, asked)
    BY <1>10 DEF TimersOK, Loose, Armed, SynWaits, OneLink, SynOnce, Handshaking, TimerFields, Early
  <1>12. TimersOK(CloseRequest(r, tx), asked)
    <2>1. TimersOK(AddtoControlList(Closing(t), tx), asked) BY <1>2, <1>6
    <2>. QED BY <1>6, <1>8, <1>9, <1>11, <2>1 DEF CloseRequest, t, mark, w, c
  <1>. QED BY <1>2, <1>12

-----------------------------------------------------------------------------
(* The actions of TcpStream.                                               *)

\* The segments the peer can send to the stream as it is now.
LEMMA SegmentsFit ==
    ASSUME TimerInv, NEW p \in Segments
    PROVE  SegmentOK(st, p)
  <1>. DEFINE Seqs == {"old", "next", "ahead", "zero"}
              Acked == AckNos \cup {0}
              All == [syn : BOOLEAN, ack : BOOLEAN, fin : BOOLEAN, rst : BOOLEAN, seq : Seqs,
                      len : {0, 1}, ackno : Acked, third : BOOLEAN]
              Syns == {s \in All : s.syn /\ s.ackno <= 1}
              Others == {s \in All : ~s.syn}
              Resets == {s \in All : ~s.syn /\ s.rst}
  <1>1. AckNos \subseteq Nat BY DEF AckNos
  <1>2. st.state = "SYN_RCVD" => AckNos \subseteq {1}
    <2>. HAVE st.state = "SYN_RCVD"
    <2>1. st.wire \subseteq {0} BY DEF TimerInv, TimersOK, Loose, Handshaking, Early
    <2>2. SUFFICES ASSUME NEW a \in AckNos PROVE a = 1 OBVIOUS
    <2>3. a \in Nat /\ a >= 1 /\ 0 .. a - 1 \subseteq {0} BY <2>1 DEF AckNos
    <2>4. a - 1 \in 0 .. a - 1 BY <2>3
    <2>. QED BY <2>3, <2>4
  <1>3. /\ \A ack \in BOOLEAN, a \in Acked \cap {0, 1} : Segment(TRUE, ack, FALSE, FALSE, "old", 0, a, FALSE) \in Syns
        /\ \A fin, third \in BOOLEAN : \A seq \in Seqs, len \in {0, 1}, a \in AckNos :
              Segment(FALSE, TRUE, fin, FALSE, seq, len, a, third) \in Others
        /\ \A ack \in BOOLEAN : \A seq \in Seqs, a \in AckNos : Segment(FALSE, ack, FALSE, TRUE, seq, 0, a, FALSE) \in Resets
    BY DEF Segment
  <1>4. New \subseteq Seqs /\ \A can : Again(can) \subseteq Seqs BY DEF New, Again
  <1>. DEFINE Of(kind, set) == IF kind \in PeerSends THEN set ELSE {}
              Syn(ack, a) == Segment(TRUE, ack, FALSE, FALSE, "old", 0, a, FALSE)
              Ack(seq, a, third) == Segment(FALSE, TRUE, FALSE, FALSE, seq, 0, a, third)
              Handshake == IF st.active THEN {Syn(TRUE, a) : a \in AckNos \cap {1}} ELSE {Syn(FALSE, 0)}
              Acks == {Ack("next", a, FALSE) : a \in AckNos}
              Old == {Ack("old", a, FALSE) : a \in AckNos}
              Dup == {Ack("next", a, TRUE) : a \in AckNos \cap {st.head}}
              Late == {Ack("next", a, TRUE) : a \in AckNos \cap 1 .. st.head - 1}
              WithData(seq, a) == Segment(FALSE, TRUE, FALSE, FALSE, seq, 1, a, FALSE)
              WithFin(seq, a) == Segment(FALSE, TRUE, TRUE, FALSE, seq, 0, a, FALSE)
              WithRst(ack, seq, a) == Segment(FALSE, ack, FALSE, TRUE, seq, 0, a, FALSE)
              AnySeq == New \cup Again(TRUE)
              Data == {WithData(seq, a) : seq \in AnySeq, a \in AckNos}
              Fin == {WithFin(seq, a) : seq \in New \cup Again(PeerDone), a \in AckNos}
              Rst == {WithRst(ack, seq, a) : ack \in BOOLEAN, seq \in {"old", "next", "zero"}, a \in AckNos}
              Opens == UNION {Of("SYN", {Syn(FALSE, 0)}), Of("SYN/ACK", IF st.active THEN Handshake ELSE {})}
              Open == UNION {Of("LATESYN", Handshake), Of("ACK", Acks), Of("OLD", Old), Of("DUP3", Dup),
                             Of("LATE3", Late), Of("DATA", Data), Of("FIN", Fin)}
  <1>. HIDE DEF Syns, Others, Resets
  <1>5. {Syn(FALSE, 0)} \subseteq Syns /\ Handshake \subseteq Syns BY <1>3
  <1>6. Acks \subseteq Others /\ Old \subseteq Others BY <1>3
  <1>7. Dup \subseteq Others /\ Late \subseteq Others BY <1>3
  <1>8. Data \subseteq Others
    <2>1. \A seq \in AnySeq, a \in AckNos : WithData(seq, a) \in Others BY <1>3, <1>4
    <2>. HIDE DEF WithData, AnySeq
    <2>. QED BY <2>1
  <1>9. Fin \subseteq Others
    <2>1. \A seq \in New \cup Again(PeerDone), a \in AckNos : WithFin(seq, a) \in Others BY <1>3, <1>4
    <2>. HIDE DEF WithFin
    <2>. QED BY <2>1
  <1>10. Rst \subseteq Resets
    <2>1. \A ack \in BOOLEAN, seq \in {"old", "next", "zero"}, a \in AckNos : WithRst(ack, seq, a) \in Resets
      BY <1>3
    <2>. HIDE DEF WithRst
    <2>. QED BY <2>1
  <1>11. Segments = Of("RST", Rst) \cup IF st.state \in {"CLOSED", "SYN_SENT", "SYN_RCVD"}
                                        THEN Opens \cup (IF st.state = "SYN_RCVD" THEN Open ELSE {})
                                        ELSE Open
    BY DEF Segments
  <1>. HIDE DEF Handshake, Acks, Old, Dup, Late, Data, Fin, Rst, Syn
  <1>12. Opens \subseteq Syns BY <1>5
  <1>13. Open \subseteq Syns \cup Others BY <1>5, <1>6, <1>7, <1>8, <1>9
  <1>14. Of("RST", Rst) \subseteq Resets BY <1>10
  <1>. HIDE DEF Open, Opens, Of
  <1>15. /\ p \in Syns \cup Others \cup Resets
         /\ st.state = "SYN_SENT" => p \in Syns \cup Resets
    BY <1>11, <1>12, <1>13, <1>14
  <1>16. p \in All /\ (p.syn => p.ackno <= 1) BY <1>15 DEF Syns, Others, Resets
  <1>17. st.state = "SYN_SENT" => p.syn \/ p.rst BY <1>15 DEF Syns, Resets
  <1>18. p.syn \in BOOLEAN /\ p.ack \in BOOLEAN /\ p.rst \in BOOLEAN /\ p.ackno \in Acked BY <1>16
  <1>19. p.ackno \in Nat /\ (st.state = "SYN_RCVD" => p.ackno <= 1)
    <2>. HIDE DEF All
    <2>1. p.ackno \in AckNos \/ p.ackno = 0 BY <1>18
    <2>2. p.ackno \in AckNos => p.ackno \in Nat /\ (st.state = "SYN_RCVD" => p.ackno = 1) BY <1>1, <1>2
    <2>. QED BY <2>1, <2>2
  <1>. QED BY <1>16, <1>17, <1>18, <1>19 DEF SegmentOK

LEMMA TimerThisOK ==
    ASSUME TimerInv
    PROVE  TimersOK(This, Asked) /\ TimerSame(st, This)
  <1>1. TimerSame(st, This) BY DEF TimerInv, TimersOK, Loose, TimerSame, Near, This, TimerFields
  <1>. QED BY <1>1, TimerSameOK DEF TimerInv, TimersOK

\* The application asks for a FIN only after it read a state past the handshake.
LEMMA TimerApplicationStep ==
    ASSUME TimerInv, Application
    PROVE  TimerInv'
  <1>0. TimersOK(This, Asked) /\ TimerSame(st, This) BY TimerThisOK
  <1>a. DOMAIN app = {"pc", "seen", "owns", "left"} BY DEF TimerInv
  <1>b. ASSUME TimersOK(st', Asked), ~Asked', DOMAIN app' = DOMAIN app PROVE TimerInv'
    BY <1>a, <1>b DEF TimerInv, TimersOK, Loose
  <1>1. CASE Connect
    <2>. DEFINE opened == [This EXCEPT !.state = "SYN_SENT", !.active = TRUE, !.socket = TRUE]
                queued == Enqueue(opened, "connect")
                full == [opened EXCEPT !.destroyq = 1]
    <2>1. This.state = "CLOSED" /\ app.pc = "idle" BY <1>0, <1>1 DEF Connect, Idle, TimerSame, Near
    <2>2. /\ TimersOK(opened, Asked) /\ opened.state = "SYN_SENT" /\ opened.snd_nxt = 0
          /\ ~opened.on_rto /\ ~opened.on_control
      BY <1>0, <2>1 DEF Asked, TimersOK, Loose, Armed, SynWaits, OneLink, SynOnce, Handshaking, TimerFields, Early, Quiet
    <2>. HIDE DEF opened
    <2>3. TimersOK(queued, Asked)
      BY <2>2 DEF Enqueue, TimersOK, Loose, Armed, SynWaits, OneLink, SynOnce, Handshaking, TimerFields, Early, Quiet
    <2>4. TimersOK(full, Asked)
      BY <2>2 DEF TimersOK, Loose, Armed, SynWaits, OneLink, SynOnce, Handshaking, TimerFields
    <2>. HIDE DEF queued, full
    <2>5. TimersOK(st', Asked) /\ app' = [app EXCEPT !.owns = TRUE] BY <1>1, <2>3, <2>4 DEF Connect, opened, queued, full
    <2>6. app'.pc = "idle" /\ DOMAIN app' = DOMAIN app BY <1>a, <2>1, <2>5
    <2>. QED BY <1>b, <2>5, <2>6 DEF Asked
  <1>2. CASE Accept
    <2>. DEFINE out == Dequeue(This, "accept")
                given == [out EXCEPT !.socket = TRUE]
    <2>1. TimersOK(out, Asked) BY <1>0, TimerEnds DEF TimersOK
    <2>. HIDE DEF out
    <2>2. TimersOK(given, Asked)
      BY <2>1 DEF TimersOK, Loose, Armed, SynWaits, OneLink, SynOnce, Handshaking, TimerFields
    <2>. HIDE DEF given
    <2>3. TimersOK(Fail(This, "use_after_free"), Asked) BY <1>0, TimerLists
    <2>4. TimersOK(st', Asked) /\ (app' = app \/ app' = [app EXCEPT !.owns = TRUE]) /\ app.pc = "idle"
      BY <1>2, <2>1, <2>2, <2>3 DEF Accept, Idle, given, out
    <2>5. app'.pc = "idle" /\ DOMAIN app' = DOMAIN app BY <1>a, <2>4
    <2>. QED BY <1>b, <2>4, <2>5 DEF Asked
  <1>3. CASE WriteCopy
    <2>. DEFINE t == [This EXCEPT !.sndbuf = TRUE, !.len = @ + 1]
    <2>1. TimerSame(This, t) BY <1>0 DEF TimerSame, Near, TimersOK, Loose, TimerFields
    <2>. HIDE DEF t
    <2>2. TimersOK(t, Asked) BY <1>0, <2>1, TimerSameOK DEF TimersOK
    <2>3. st' = t /\ app' = [app EXCEPT !.pc = "write"] BY <1>3 DEF WriteCopy, t
    <2>4. app'.pc = "write" /\ DOMAIN app' = DOMAIN app BY <1>a, <2>3
    <2>. QED BY <1>b, <2>2, <2>3, <2>4 DEF Asked
  <1>4. CASE WriteWake
    <2>1. TimersOK(Enqueue(This, "send"), Asked) BY <1>0, TimerEnds DEF TimersOK
    <2>2. TimersOK(st', Asked) /\ app' = [app EXCEPT !.pc = "idle"] BY <1>0, <1>4, <2>1 DEF WriteWake
    <2>3. app'.pc = "idle" /\ DOMAIN app' = DOMAIN app BY <1>a, <2>2
    <2>. QED BY <1>b, <2>2, <2>3 DEF Asked
  <1>5. CASE Read
    <2>1. TimersOK(Enqueue(This, "ack"), Asked) BY <1>0, TimerEnds DEF TimersOK
    <2>2. TimersOK(st', Asked) /\ app' = app /\ app.pc = "idle" BY <1>5, <2>1 DEF Read, Idle
    <2>. QED BY <1>b, <2>2 DEF Asked
  <1>6. CASE CloseBegin \/ AbortBegin
    <2>. DEFINE t == [This EXCEPT !.socket = FALSE]
    <2>1. TimerSame(This, t) BY <1>0 DEF TimerSame, Near, TimersOK, Loose, TimerFields
    <2>. HIDE DEF t
    <2>2. TimersOK(t, Asked) /\ t.state = st.state BY <1>0, <2>1, TimerSameOK DEF TimersOK, TimerSame, Near
    <2>3. TimerSame(This, Fail(This, "use_after_free")) BY <1>0, TimerUntouched DEF TimersOK, Loose
    <2>4. TimersOK(Fail(This, "use_after_free"), Asked) /\ Fail(This, "use_after_free").state = st.state
      BY <1>0, <2>3, TimerLists DEF TimerSame, Near
    <2>5. TimersOK(st', Asked) /\ st'.state = st.state BY <1>6, <2>2, <2>4 DEF CloseBegin, AbortBegin, t
    <2>6. DOMAIN app' = {"pc", "seen", "owns", "left"} /\ app'.seen = st.state
      BY <1>6 DEF CloseBegin, AbortBegin
    <2>7. Asked' => st'.state \notin Early BY <2>5, <2>6 DEF Asked, Early
    <2>. QED BY <2>5, <2>6, <2>7 DEF TimerInv, TimersOK, Loose
  <1>7. CASE CloseEnd
    <2>. DEFINE d == [This EXCEPT !.destroyq = @ + 1]
    <2>1. TimersOK(d, Asked)
      <3>1. TimerSame(This, d) BY <1>0 DEF TimerSame, Near, TimersOK, Loose, TimerFields
      <3>. HIDE DEF d
      <3>. QED BY <1>0, <3>1, TimerSameOK DEF TimersOK
    <2>. HIDE DEF d
    <2>2. Asked => TimersOK(Enqueue(This, "close"), Asked)
      <3>1. Asked => This.state \notin Early BY <1>0 DEF TimersOK, Loose
      <3>. QED BY <1>0, <3>1 DEF Enqueue, TimersOK, Loose, Armed, SynWaits, OneLink, SynOnce, Handshaking, TimerFields, Early
    <2>3. app.seen \in {"ESTABLISHED", "CLOSE_WAIT"} => Asked BY <1>7 DEF CloseEnd, Asked
    <2>4. TimersOK(st', Asked) /\ app' = [app EXCEPT !.pc = "idle"] BY <1>0, <1>7, <2>1, <2>2, <2>3 DEF CloseEnd, d
    <2>5. app'.pc = "idle" /\ DOMAIN app' = DOMAIN app BY <1>a, <2>4
    <2>. QED BY <1>b, <2>4, <2>5 DEF Asked
  <1>8. CASE AbortEnd
    <2>. DEFINE c == Close(This)
                d == [c EXCEPT !.destroyq = @ + 1]
    <2>1. TimersOK(c, Asked) BY <1>0, TimerEnds DEF TimersOK
    <2>. HIDE DEF c
    <2>2. TimerSame(c, d) BY <2>1 DEF TimerSame, Near, TimersOK, Loose, TimerFields
    <2>. HIDE DEF d
    <2>3. TimersOK(d, Asked) BY <2>1, <2>2, TimerSameOK DEF TimersOK
    <2>4. TimersOK(Enqueue(This, "reset"), Asked) BY <1>0, TimerEnds DEF TimersOK
    <2>5. TimersOK(st', Asked) /\ app' = [app EXCEPT !.pc = "idle"] BY <1>0, <1>8, <2>3, <2>4 DEF AbortEnd, d, c
    <2>6. app'.pc = "idle" /\ DOMAIN app' = DOMAIN app BY <1>a, <2>5
    <2>. QED BY <1>b, <2>5, <2>6 DEF Asked
  <1>. QED BY <1>1, <1>2, <1>3, <1>4, <1>5, <1>6, <1>7, <1>8 DEF Application

LEMMA TimerAlone ==
    ASSUME TimerInv, UNCHANGED app, TimersOK(st', Asked)
    PROVE  TimerInv'
  BY DEF TimerInv, Asked

\* A segment or an expired timer.
LEMMA TimerEventStep ==
    ASSUME TimerInv, Peer \/ Timers
    PROVE  TimerInv'
  <1>0. TimersOK(This, Asked) /\ TimerSame(st, This) BY TimerThisOK
  <1>1. UNCHANGED app
    BY DEF Peer, Receive, Timers, CheckRtmTimeout, CheckTimewaitExpire, CheckConnectionTimeout, Stay
  <1>. SUFFICES TimersOK(st', Asked) BY <1>1, TimerAlone
  <1>2. CASE Peer
    <2>1. PICK p \in Segments : Receive(p) BY <1>2 DEF Peer
    <2>2. SegmentOK(st, p) BY SegmentsFit
    <2>. DEFINE new == [This EXCEPT !.state = "LISTEN"]
    <2>3. ASSUME This.state = "CLOSED" PROVE TimersOK(new, Asked) /\ new.state = "LISTEN"
      BY <1>0, <2>3 DEF TimersOK, Loose, Armed, SynWaits, OneLink, SynOnce, Handshaking, TimerFields, Early, Quiet
    <2>. HIDE DEF new
    <2>4. PICK room \in BOOLEAN, tx \in BOOLEAN :
             st' = HandleSockStream(IF st.state = "CLOSED" THEN new ELSE This, p, room, tx)
      BY <2>1 DEF Receive, new
    <2>5. CASE st.state = "CLOSED"
      <3>1. TimersOK(new, Asked) /\ SegmentOK(new, p) BY <1>0, <2>2, <2>3, <2>5 DEF TimerSame, Near, SegmentOK
      <3>. QED BY <2>4, <2>5, <3>1, TimerPacket
    <2>6. CASE st.state # "CLOSED"
      <3>1. SegmentOK(This, p) BY <1>0, <2>2 DEF TimerSame, Near, SegmentOK
      <3>. QED BY <1>0, <2>4, <2>6, <3>1, TimerPacket
    <2>. QED BY <2>5, <2>6
  <1>3. ASSUME NEW tx \in BOOLEAN, CheckRtmTimeout(tx) PROVE TimersOK(st', Asked)
    <2>. DEFINE off == RemoveFromRTOList(This)
    <2>1. This.on_rto BY <1>0, <1>3 DEF CheckRtmTimeout, TimerSame, Near
    <2>2. Sends(This) BY <1>0, <2>1 DEF Sends, TimersOK, Loose, SynOnce
    <2>3. Loose(off, Asked) /\ Sends(off)
      BY <1>0, <2>2 DEF RemoveFromRTOList, Sends, TimersOK, Loose, OneLink, SynOnce, Handshaking, TimerFields
    <2>. HIDE DEF off
    <2>4. TimersOK(HandleRTO(off, tx), Asked) BY <2>3, TimerTimeout
    <2>. QED BY <1>3, <2>4 DEF CheckRtmTimeout, off
  <1>4. CASE CheckTimewaitExpire
    <2>1. TimersOK(Close(This), Asked) BY <1>0, TimerEnds DEF TimersOK
    <2>2. TimersOK(DestroyTCPStream(Close(This)), Asked) BY <2>1, TimerEnds DEF TimersOK
    <2>. QED BY <1>4, <2>2 DEF CheckTimewaitExpire
  <1>5. CASE CheckConnectionTimeout
    <2>1. TimersOK(RemoveFromTimeoutList(This), Asked) BY <1>0, TimerLists
    <2>2. TimersOK(GiveUp(RemoveFromTimeoutList(This)), Asked) BY <2>1, TimerTimeout DEF TimersOK
    <2>. QED BY <1>5, <2>2 DEF CheckConnectionTimeout
  <1>. QED BY <1>2, <1>3, <1>4, <1>5 DEF Timers

\* The queues of the application and the lists of the sender.
LEMMA TimerLoopStep ==
    ASSUME TimerInv, Loop
    PROVE  TimerInv'
  <1>0. TimersOK(This, Asked) /\ TimerSame(st, This) BY TimerThisOK
  <1>1. UNCHANGED app
    BY DEF Loop, ReceiveDone, TimersDone, HandleSend, HandleAck, HandleDestroy, HandleConnect, HandleClose,
           HandleCloseInt, HandleReset, HandleResetInt, WriteControl, WriteAck, WriteData, Drain
  <1>. SUFFICES TimersOK(st', Asked) BY <1>1, TimerAlone
  <1>2. TimersOK(Fail(This, "use_after_free"), Asked) BY <1>0, TimerLists
  <1>3. ASSUME NEW q, NEW handled, q \in st.queued => TimersOK(handled, Asked), Drain(q, handled)
        PROVE  TimersOK(st', Asked)
    BY <1>0, <1>2, <1>3 DEF Drain, Leave
  <1>d. \A q : TimersOK(Dequeue(This, q), Asked) /\ Dequeue(This, q).state = st.state
    <2>. TAKE q
    <2>1. TimersOK(Dequeue(This, q), Asked) BY <1>0, TimerEnds DEF TimersOK
    <2>2. Dequeue(This, q).state = This.state BY <1>0 DEF Dequeue, TimersOK, Loose, TimerFields
    <2>. QED BY <1>0, <2>1, <2>2 DEF TimerSame, Near
  <1>e. st.queued \cap {"close", "close_int"} # {} => st.state \notin Early
    BY DEF TimerInv, TimersOK, Loose, Handshaking
  <1>4. CASE ReceiveDone \/ TimersDone
    BY <1>0, <1>4 DEF ReceiveDone, TimersDone, Leave
  <1>5. CASE HandleSend \/ HandleAck
    <2>1. TimersOK(Dequeue(This, "send"), Asked) /\ TimersOK(Dequeue(This, "ack"), Asked)
      BY <1>d
    <2>2. /\ TimersOK(AddtoSendList(Dequeue(This, "send")), Asked)
          /\ TimersOK(EnqueueACK(Dequeue(This, "ack")), Asked)
      BY <2>1, TimerLists
    <2>. QED BY <1>3, <1>5, <2>2 DEF HandleSend, HandleAck
  <1>6. CASE HandleDestroy
    <2>. DEFINE t == [This EXCEPT !.destroyq = @ - 1]
    <2>1. TimerSame(This, t) BY <1>0 DEF TimerSame, Near, TimersOK, Loose, TimerFields
    <2>. HIDE DEF t
    <2>2. TimersOK(t, Asked) BY <1>0, <2>1, TimerSameOK DEF TimersOK
    <2>3. TimersOK(DestroyTCPStream(t), Asked) BY <2>2, TimerEnds DEF TimersOK
    <2>. QED BY <1>0, <1>6, <2>3 DEF HandleDestroy, Leave, t
  <1>7. ASSUME NEW tx \in BOOLEAN, HandleConnect(tx) PROVE TimersOK(st', Asked)
    <2>. DEFINE c == Dequeue(This, "connect")
                handled == IF c.state # "SYN_SENT" THEN Fail(c, "connect_exit") ELSE AddtoControlList(c, tx)
    <2>1. TimersOK(c, Asked) BY <1>d
    <2>2. ASSUME "connect" \in st.queued, c.state = "SYN_SENT" PROVE TimersOK(AddtoControlList(c, tx), Asked)
      <3>1. This.snd_nxt = 0
        <4>1. This.state = "SYN_SENT" /\ "connect" \in This.queued BY <1>0, <1>d, <2>2 DEF TimerSame, Near
        <4>. QED BY <1>0, <4>1 DEF TimersOK, Loose, SynOnce
      <3>2. c.snd_nxt = 0 /\ "connect" \notin c.queued BY <1>0, <3>1 DEF Dequeue, TimersOK, Loose, TimerFields
      <3>3. Sends(c) BY <2>2, <3>2 DEF Sends
      <3>. HIDE DEF c
      <3>. QED BY <2>1, <3>2, <3>3, TimerControl DEF TimersOK
    <2>. HIDE DEF c
    <2>3. TimersOK(Fail(c, "connect_exit"), Asked) BY <2>1, TimerLists
    <2>4. "connect" \in st.queued => TimersOK(handled, Asked) BY <2>2, <2>3
    <2>5. Drain("connect", handled) BY <1>7 DEF HandleConnect, c
    <2>. HIDE DEF handled
    <2>. QED BY <1>3, <2>4, <2>5
  <1>8. ASSUME NEW tx \in BOOLEAN, HandleClose(tx) PROVE TimersOK(st', Asked)
    <2>1. "close" \in st.queued => TimersOK(CloseRequest(Dequeue(This, "close"), tx), Asked)
      BY <1>d, <1>e, TimerCloseOne
    <2>. QED BY <1>3, <1>8, <2>1 DEF HandleClose
  <1>9. ASSUME NEW tx \in BOOLEAN, HandleCloseInt(tx) PROVE TimersOK(st', Asked)
    <2>. DEFINE c == Dequeue(This, "close_int")
    <2>1. TimersOK(c, Asked) BY <1>d
    <2>2. "close_int" \in st.queued => TimersOK(AddtoControlList(Closing(c), tx), Asked)
      BY <1>d, <1>e, TimerCloseOne
    <2>. HIDE DEF c
    <2>. QED BY <1>0, <1>2, <1>9, <2>1, <2>2 DEF HandleCloseInt, c
  <1>10. ASSUME NEW tx \in BOOLEAN, HandleReset(tx) PROVE TimersOK(st', Asked)
    <2>. DEFINE r == RemoveFromTimeoutList(Dequeue(This, "reset"))
                handled == IF r.have_reset
                           THEN IF r.state # "CLOSED_RSVD" THEN DestroyTCPStream(Close(r)) ELSE r
                           ELSE IF r.on_control \/ r.on_send \/ r.on_ack THEN Enqueue(r, "reset_int")
                           ELSE IF r.state # "CLOSED_RSVD" THEN AddtoControlList(Close(r), tx)
                           ELSE r
    <2>1. TimersOK(Dequeue(This, "reset"), Asked) BY <1>d
    <2>2. TimersOK(r, Asked) BY <2>1, TimerLists
    <2>. HIDE DEF r
    <2>3. TimersOK(Close(r), Asked) /\ Close(r).state = "CLOSED_RSVD" /\ TimersOK(Enqueue(r, "reset_int"), Asked)
      BY <2>2, TimerEnds DEF TimersOK
    <2>4. TimersOK(DestroyTCPStream(Close(r)), Asked) BY <2>3, TimerEnds DEF TimersOK
    <2>5. TimersOK(AddtoControlList(Close(r), tx), Asked) BY <2>3, LateControl
    <2>6. TimersOK(handled, Asked) BY <2>2, <2>3, <2>4, <2>5
    <2>7. Drain("reset", handled) BY <1>10 DEF HandleReset, r
    <2>. HIDE DEF handled
    <2>. QED BY <1>3, <2>6, <2>7
  <1>11. ASSUME NEW tx \in BOOLEAN, HandleResetInt(tx) PROVE TimersOK(st', Asked)
    <2>. DEFINE r == Dequeue(This, "reset_int")
    <2>1. TimersOK(r, Asked) BY <1>d
    <2>. HIDE DEF r
    <2>2. TimersOK(Close(r), Asked) /\ Close(r).state = "CLOSED_RSVD" BY <2>1, TimerEnds DEF TimersOK
    <2>3. TimersOK(AddtoControlList(Close(r), tx), Asked) BY <2>2, LateControl
    <2>. QED BY <1>0, <1>2, <1>11, <2>1, <2>3 DEF HandleResetInt, r
  <1>12. ASSUME NEW tx \in BOOLEAN, WriteControl(tx) PROVE TimersOK(st', Asked)
    <2>. DEFINE t == [This EXCEPT !.on_control = FALSE]
    <2>1. CASE This.on_control
      <3>1. Sends(This) /\ (This.state = "SYN_SENT" => This.snd_nxt = 0)
        BY <1>0, <2>1 DEF Sends, TimersOK, Loose, SynOnce, SynWaits
      <3>2. TimersOK(t, Asked) /\ ~t.on_control /\ Sends(t) /\ (t.state = "SYN_SENT" => t.snd_nxt = 0)
        BY <1>0, <3>1 DEF Sends, TimersOK, Loose, Armed, SynWaits, OneLink, SynOnce, Handshaking, TimerFields
      <3>. HIDE DEF t
      <3>3. TimersOK(SendControlPacket(t), Asked) BY <3>2, TimerControl DEF TimersOK
      <3>. QED BY <1>0, <1>12, <3>3 DEF WriteControl, t
    <2>2. CASE ~This.on_control BY <1>0, <1>12, <2>2 DEF WriteControl, TimerSame, Near
    <2>. QED BY <2>1, <2>2
  <1>13. ASSUME NEW tx \in BOOLEAN, NEW rcvd \in BOOLEAN, WriteAck(tx, rcvd) PROVE TimersOK(st', Asked)
    <2>1. \A kept : TimersOK([This EXCEPT !.on_ack = kept], Asked)
      BY <1>0 DEF TimersOK, Loose, Armed, SynWaits, OneLink, SynOnce, Handshaking, TimerFields
    <2>2. \A kept : TimersOK(ReleaseControl([This EXCEPT !.on_ack = kept], tx), Asked) BY <2>1, LateControl
    <2>. QED BY <1>0, <1>13, <2>1, <2>2 DEF WriteAck
  <1>14. ASSUME NEW tx \in BOOLEAN, NEW n \in 0 .. MaxData, WriteData(n, tx) PROVE TimersOK(st', Asked)
    <2>. DEFINE flushes == st.state \in {"ESTABLISHED", "CLOSE_WAIT", "FIN_WAIT_1", "LAST_ACK"}
                r == IF flushes THEN FlushTCPSendingBuffer(This, n) ELSE This
                done == [r EXCEPT !.on_send = FALSE]
    <2>1. TimersOK(r, Asked)
      <3>1. n \in Nat OBVIOUS
      <3>2. flushes => This.state \notin Early BY <1>0 DEF TimerSame, Near, Early
      <3>. QED BY <1>0, <3>1, <3>2, TimerSending
    <2>. HIDE DEF r
    <2>2. TimerSame(r, done) BY <2>1 DEF TimerSame, Near, TimersOK, Loose, TimerFields
    <2>. HIDE DEF done
    <2>3. TimersOK(done, Asked) BY <2>1, <2>2, TimerSameOK DEF TimersOK
    <2>4. TimersOK(ReleaseControl(done, tx), Asked) BY <2>3, LateControl
    <2>. QED BY <1>0, <1>14, <2>1, <2>3, <2>4 DEF WriteData, r, done
  <1>. QED BY <1>4, <1>5, <1>6, <1>7, <1>8, <1>9, <1>10, <1>11, <1>12, <1>13, <1>14 DEF Loop
-----------------------------------------------------------------------------
\* The invariant holds in every state of the specification.
THEOREM TimerInvariant == Spec => []TimerInv
  <1>1. Init => TimerInv
    BY DEF Init, Unborn, Asked, TimerInv, TimersOK, Loose, Armed, SynWaits, OneLink, SynOnce, Handshaking,
           TimerFields, Early, Quiet
  <1>2. TimerInv /\ [Next]_vars => TimerInv'
    <2>1. TimerInv /\ UNCHANGED vars => TimerInv' BY DEF TimerInv, Asked, vars
    <2>. QED BY <2>1, TimerApplicationStep, TimerEventStep, TimerLoopStep DEF Next, Crashed
  <1>. QED BY <1>1, <1>2, PTL DEF Spec

\* The stream is never on the RTO wheel and on the timewait list at once, so the link they
\* share (sndvar->timer_link, timer.c) is never in two lists.
THEOREM TimerLinkSafe == Spec => []TimerLinkExclusive
  <1>1. TimerInv => TimerLinkExclusive BY DEF TimerInv, TimersOK, Loose, OneLink, TimerLinkExclusive
  <1>. QED BY <1>1, TimerInvariant, PTL
-----------------------------------------------------------------------------
(***************************************************************************)
(* The FIN that a stream owes, and the data it has sent: until they are    *)
(* acknowledged they are in line or the timer runs that puts them there    *)
(* again.                                                                  *)
(*                                                                         *)
(* The timer alone is not enough: an acknowledgement restarts it by        *)
(* comparing snd_nxt with snd_una (ProcessACK), so it goes on only if the  *)
(* FIN, which lies at or after snd_nxt, cannot be taken for acknowledged.  *)
(* The invariant therefore relates snd_nxt to what the peer can have       *)
(* received.  A stream that owes its FIN and relies on the timer has       *)
(* snd_nxt beyond everything the peer can acknowledge (Beyond): the FIN    *)
(* was sent after the data, or in front of data that is missing on the     *)
(* wire.  That is so because a FIN is sent only by a stream that is not on *)
(* the send list, and of such a stream nothing from snd_nxt on is on the   *)
(* wire (Level).                                                           *)
(***************************************************************************)

Carrying == {"ESTABLISHED", "CLOSE_WAIT"}
Owing == {"FIN_WAIT_1", "LAST_ACK", "CLOSING"}

\* The fields of a stream that the invariant is about.
PendFields == {"state", "freed", "on_timewait", "on_control", "on_send", "on_ack", "on_rto", "control_waiting",
               "is_fin_sent", "sndbuf", "head", "len", "snd_una", "snd_nxt", "fss", "wire", "queued"}

\* The number after the last unit in the send buffer.
End(r) == r.head + r.len

\* The peer can have received all before a.
Reached(r, a) == 0 .. a - 1 \subseteq r.wire

\* No unit of the buffer from snd_nxt on is on the wire.
Level(r) == \A x \in Int : r.snd_nxt <= x /\ x < End(r) => x \notin r.wire

\* What is on the wire behind the buffer is the FIN.
FinOnly(r) == \A x \in r.wire : x \in Int /\ (End(r) <= x => r.is_fin_sent /\ x = r.fss)

\* The peer cannot acknowledge all before snd_nxt.
Beyond(r) == r.snd_nxt <= End(r) => ~Reached(r, r.snd_nxt)

\* The numbers of a stream that carries data or owes a FIN.
Numbered(r) ==
    /\ ~r.on_timewait
    /\ r.head <= r.snd_una /\ r.snd_una <= r.snd_nxt
    /\ ~r.on_send /\ r.state # "CLOSING" => Level(r)
    /\ FinOnly(r)
    /\ ~r.sndbuf /\ r.state \in Carrying => r.snd_nxt <= r.snd_una
    /\ r.state \in Owing \/ "close_int" \in r.queued =>
            IF r.sndbuf THEN r.fss = End(r) ELSE r.fss <= r.snd_una

\* Stream r; asks says that the application is in mtcp_close.  It closes once.
PendOK(r, asks) ==
    /\ PendFields \subseteq DOMAIN r
    /\ r.head \in Nat /\ r.snd_una \in Int /\ r.snd_nxt \in Int /\ r.fss \in Int
    /\ r.len \in Nat /\ (~r.sndbuf => r.len = 0)
    /\ r.freed => r.state = "CLOSED_RSVD"
    /\ r.state \in Early => ~r.sndbuf
    /\ r.state \in Carrying \cup Owing => Numbered(r)
    /\ asks \/ "close" \in r.queued => ~FinDue(r)
    /\ asks => "close" \notin r.queued

\* The FIN is on its way.
OnItsWay(r) ==
    \/ r.on_control
    \/ r.control_waiting /\ (r.on_send \/ r.on_ack)
    \/ r.on_rto /\ Beyond(r)

Pends(r) == r.state \in Owing => OnItsWay(r)

Whole(r, asks) == PendOK(r, asks) /\ Pends(r)

PendInv == Whole(st, app.pc = "close")
-----------------------------------------------------------------------------
(* Operators that touch the lists only.                                    *)

\* The numbers of t are those of r; it may have come to the send list.
Kept(r, t) ==
    /\ DOMAIN t = DOMAIN r
    /\ t.state = r.state /\ t.freed = r.freed /\ t.on_timewait = r.on_timewait
    /\ t.is_fin_sent = r.is_fin_sent /\ t.sndbuf = r.sndbuf /\ t.head = r.head /\ t.len = r.len
    /\ t.snd_una = r.snd_una /\ t.snd_nxt = r.snd_nxt /\ t.fss = r.fss /\ t.wire = r.wire
    /\ t.queued = r.queued
    /\ r.on_send => t.on_send

\* It may have come to other lists too, and has left none.
Fuller(r, t) ==
    /\ Kept(r, t)
    /\ (r.on_control => t.on_control) /\ (r.control_waiting => t.control_waiting)
    /\ (r.on_ack => t.on_ack) /\ (r.on_rto => t.on_rto)

LEMMA FullerOK ==
    ASSUME NEW r, NEW t, NEW asks, Kept(r, t)
    PROVE  /\ PendOK(r, asks) => PendOK(t, asks)
           /\ Fuller(r, t) /\ Pends(r) => Pends(t)
  <1>1. (\A a : Reached(t, a) <=> Reached(r, a)) /\ End(t) = End(r) BY DEF Kept, Reached, End
  <1>2. (Level(t) <=> Level(r)) /\ (FinOnly(t) <=> FinOnly(r)) /\ (Beyond(t) <=> Beyond(r))
    BY <1>1 DEF Kept, Level, FinOnly, Beyond
  <1>3. r.state \in Carrying \cup Owing /\ Numbered(r) => Numbered(t) BY <1>1, <1>2 DEF Kept, Numbered
  <1>4. PendOK(r, asks) => PendOK(t, asks) BY <1>3 DEF Kept, PendOK, FinDue
  <1>5. Fuller(r, t) /\ Pends(r) => Pends(t) BY <1>2 DEF Kept, Fuller, Pends, OnItsWay
  <1>. QED BY <1>4, <1>5

LEMMA FinLists ==
    ASSUME NEW r, PendFields \subseteq DOMAIN r, NEW x
    PROVE  /\ Fuller(r, AddtoRTOList(r)) /\ Fuller(r, AddtoSendList(r)) /\ Fuller(r, EnqueueACK(r))
           /\ Fuller(r, Fail(r, x)) /\ Fuller(r, Act(r, x)) /\ Fuller(r, AddtoTimeoutList(r))
           /\ Fuller(r, RemoveFromTimeoutList(r))
           /\ Kept(r, RemoveFromRTOList(r)) /\ Kept(r, UpdateRetransmissionTimer(r))
           /\ (r.sndbuf => AddtoSendList(r).on_send)
           /\ (~r.on_timewait => AddtoRTOList(r).on_rto)
           /\ (~r.on_timewait /\ r.snd_nxt > r.snd_una => UpdateRetransmissionTimer(r).on_rto)
           /\ UpdateRetransmissionTimer(r).on_control = r.on_control
           /\ UpdateRetransmissionTimer(r).control_waiting = r.control_waiting
           /\ UpdateRetransmissionTimer(r).on_ack = r.on_ack
           /\ UpdateRetransmissionTimer(r).on_send = r.on_send
  <1>1. \A s : PendFields \subseteq DOMAIN s =>
             /\ Fuller(s, AddtoRTOList(s)) /\ (~s.on_timewait => AddtoRTOList(s).on_rto)
             /\ AddtoRTOList(s).on_control = s.on_control /\ AddtoRTOList(s).control_waiting = s.control_waiting
             /\ AddtoRTOList(s).on_ack = s.on_ack /\ AddtoRTOList(s).on_send = s.on_send
    BY DEF PendFields, Fuller, Kept, AddtoRTOList
  <1>2. \A y : Fuller(r, Fail(r, y)) BY DEF PendFields, Fuller, Kept, Fail
  <1>3. Fuller(r, AddtoSendList(r)) /\ (r.sndbuf => AddtoSendList(r).on_send)
    BY <1>2 DEF PendFields, Fuller, Kept, AddtoSendList
  <1>4. Fuller(r, EnqueueACK(r)) BY DEF PendFields, Fuller, Kept, EnqueueACK
  <1>5. Fuller(r, Act(r, x)) BY DEF PendFields, Fuller, Kept, Act
  <1>6. Fuller(r, AddtoTimeoutList(r)) BY DEF PendFields, Fuller, Kept, AddtoTimeoutList
  <1>7. Fuller(r, RemoveFromTimeoutList(r)) BY DEF PendFields, Fuller, Kept, RemoveFromTimeoutList
  <1>8. Kept(r, RemoveFromRTOList(r)) BY DEF PendFields, Kept, RemoveFromRTOList
  <1>9. /\ Kept(r, UpdateRetransmissionTimer(r))
        /\ ~r.on_timewait /\ r.snd_nxt > r.snd_una => UpdateRetransmissionTimer(r).on_rto
        /\ UpdateRetransmissionTimer(r).on_control = r.on_control
        /\ UpdateRetransmissionTimer(r).control_waiting = r.control_waiting
        /\ UpdateRetransmissionTimer(r).on_ack = r.on_ack
        /\ UpdateRetransmissionTimer(r).on_send = r.on_send
    <2>. DEFINE off == [RemoveFromRTOList(r) EXCEPT !.nrtx = 0]
    <2>1. /\ Kept(r, off) /\ off.on_control = r.on_control /\ off.control_waiting = r.control_waiting
          /\ off.on_ack = r.on_ack /\ off.on_send = r.on_send
      BY DEF PendFields, Kept, RemoveFromRTOList
    <2>. HIDE DEF off
    <2>2. PendFields \subseteq DOMAIN off BY <2>1 DEF Kept
    <2>3. UpdateRetransmissionTimer(r) = IF r.snd_nxt > r.snd_una THEN AddtoRTOList(off) ELSE off
      BY DEF UpdateRetransmissionTimer, off
    <2>4. CASE r.snd_nxt > r.snd_una BY <1>1, <2>1, <2>2, <2>3, <2>4 DEF Kept, Fuller
    <2>5. CASE ~(r.snd_nxt > r.snd_una) BY <2>1, <2>3, <2>5
    <2>. QED BY <2>4, <2>5
  <1>. QED BY <1>1, <1>2, <1>3, <1>4, <1>5, <1>6, <1>7, <1>8, <1>9

\* So they keep what is owed in line.
LEMMA FinListsOK ==
    ASSUME NEW r, NEW asks, PendOK(r, asks), NEW x
    PROVE  /\ PendOK(AddtoRTOList(r), asks) /\ PendOK(AddtoSendList(r), asks) /\ PendOK(EnqueueACK(r), asks)
           /\ PendOK(Fail(r, x), asks) /\ PendOK(Act(r, x), asks) /\ PendOK(AddtoTimeoutList(r), asks)
           /\ PendOK(RemoveFromTimeoutList(r), asks) /\ PendOK(RemoveFromRTOList(r), asks)
           /\ PendOK(UpdateRetransmissionTimer(r), asks)
           /\ Pends(r) => /\ Pends(AddtoRTOList(r)) /\ Pends(AddtoSendList(r)) /\ Pends(EnqueueACK(r))
                          /\ Pends(Fail(r, x)) /\ Pends(Act(r, x)) /\ Pends(AddtoTimeoutList(r))
                          /\ Pends(RemoveFromTimeoutList(r))
  <1>1. PendFields \subseteq DOMAIN r BY DEF PendOK
  <1>2. /\ Fuller(r, AddtoRTOList(r)) /\ Fuller(r, AddtoSendList(r)) /\ Fuller(r, EnqueueACK(r))
        /\ Fuller(r, Fail(r, x)) /\ Fuller(r, Act(r, x)) /\ Fuller(r, AddtoTimeoutList(r))
        /\ Fuller(r, RemoveFromTimeoutList(r))
        /\ Kept(r, RemoveFromRTOList(r)) /\ Kept(r, UpdateRetransmissionTimer(r))
    BY <1>1, FinLists
  <1>3. \A t : Fuller(r, t) => PendOK(t, asks) /\ (Pends(r) => Pends(t)) BY FullerOK DEF Fuller
  <1>4. \A t : Kept(r, t) => PendOK(t, asks) BY FullerOK
  <1>. QED BY <1>2, <1>3, <1>4

\* The end of a stream, the timewait list and the queues.
LEMMA FinEnds ==
    ASSUME NEW r, NEW asks, PendOK(r, asks), NEW x
    PROVE  /\ Whole(Close(r), asks) /\ Close(r).state = "CLOSED_RSVD" /\ Whole(DestroyTCPStream(r), asks)
           /\ PendOK(Dequeue(r, x), asks) /\ (Pends(r) => Pends(Dequeue(r, x)))
           /\ x \notin {"close", "close_int"} =>
                  PendOK(Enqueue(r, x), asks) /\ (Pends(r) => Pends(Enqueue(r, x)))
           /\ r.state \notin Carrying \cup Owing => Whole(AddtoTimewaitList(r), asks)
  <1>1. Whole(Close(r), asks) /\ Close(r).state = "CLOSED_RSVD"
    BY DEF Whole, Pends, PendOK, FinDue, FinStates, PendFields, Early, Carrying, Owing, Close
  <1>2. Whole(DestroyTCPStream(r), asks)
    <2>1. CASE r.freed
      <3>1. DestroyTCPStream(r) = Fail(r, "double_destroy") BY <2>1 DEF DestroyTCPStream
      <3>2. Pends(r) BY <2>1 DEF PendOK, Pends, Owing
      <3>. QED BY <3>1, <3>2, FinListsOK DEF Whole
    <2>2. CASE ~r.freed
      BY <2>2 DEF DestroyTCPStream, Whole, Pends, PendOK, FinDue, FinStates, PendFields, Early, Carrying, Owing
    <2>. QED BY <2>1, <2>2
  <1>3. ASSUME NEW t, NEW Q, t = [r EXCEPT !.queued = Q], "close" \in Q => "close" \in r.queued,
               "close_int" \in Q => "close_int" \in r.queued
        PROVE  PendOK(t, asks) /\ (Pends(r) => Pends(t))
    <2>1. /\ DOMAIN t = DOMAIN r /\ t.queued = Q
          /\ t.state = r.state /\ t.freed = r.freed /\ t.on_timewait = r.on_timewait
          /\ t.is_fin_sent = r.is_fin_sent /\ t.sndbuf = r.sndbuf /\ t.head = r.head /\ t.len = r.len
          /\ t.snd_una = r.snd_una /\ t.snd_nxt = r.snd_nxt /\ t.fss = r.fss /\ t.wire = r.wire
          /\ t.on_send = r.on_send /\ t.on_control = r.on_control /\ t.control_waiting = r.control_waiting
          /\ t.on_ack = r.on_ack /\ t.on_rto = r.on_rto
      BY <1>3 DEF PendOK, PendFields
    <2>2. (\A a : Reached(t, a) <=> Reached(r, a)) /\ End(t) = End(r) BY <2>1 DEF Reached, End
    <2>3. (Level(t) <=> Level(r)) /\ (FinOnly(t) <=> FinOnly(r)) /\ (Beyond(t) <=> Beyond(r))
    BY <2>1, <2>2 DEF Level, FinOnly, Beyond
    <2>4. Numbered(r) => Numbered(t) BY <1>3, <2>1, <2>2, <2>3 DEF Numbered
    <2>. QED BY <1>3, <2>1, <2>3, <2>4 DEF PendOK, FinDue, Pends, OnItsWay
  <1>4. PendOK(Dequeue(r, x), asks) /\ (Pends(r) => Pends(Dequeue(r, x))) BY <1>3 DEF Dequeue
  <1>5. x \notin {"close", "close_int"} => PendOK(Enqueue(r, x), asks) /\ (Pends(r) => Pends(Enqueue(r, x)))
    BY <1>3 DEF Enqueue
  <1>6. r.state \notin Carrying \cup Owing => Whole(AddtoTimewaitList(r), asks)
    BY DEF AddtoTimewaitList, Whole, Pends, PendOK, FinDue, PendFields
  <1>. QED BY <1>1, <1>2, <1>4, <1>5, <1>6
-----------------------------------------------------------------------------
(* Operators of TcpOps.                                                    *)

\* The FIN goes out of a stream that is not on the send list: nothing the peer has is at or
\* beyond its new snd_nxt.
LEMMA FinSent ==
    ASSUME NEW r, NEW asks, PendOK(r, asks), r.state \in {"FIN_WAIT_1", "LAST_ACK"}, ~r.on_send
    PROVE  PendOK(SendFin(r), asks) /\ SendFin(r).state = r.state /\ SendFin(r).on_rto /\ Beyond(SendFin(r))
  <1>. PICK n \in Int : n = r.snd_nxt + 1 BY DEF PendOK
  <1>. PICK W : W = r.wire \cup {r.fss} OBVIOUS
  <1>. DEFINE t == [r EXCEPT !.is_fin_sent = TRUE, !.wire = W, !.snd_nxt = n]
  <1>1. SendFin(r) = AddtoRTOList(t) BY DEF SendFin
  <1>2. /\ PendFields \subseteq DOMAIN t /\ t.wire = W /\ t.snd_nxt = n /\ t.is_fin_sent = TRUE
        /\ t.state = r.state /\ t.freed = r.freed /\ t.on_timewait = r.on_timewait
        /\ t.sndbuf = r.sndbuf /\ t.head = r.head /\ t.len = r.len
        /\ t.snd_una = r.snd_una /\ t.fss = r.fss /\ t.queued = r.queued
    BY DEF PendOK, PendFields
  <1>. HIDE DEF t
  <1>3. Numbered(r) /\ Level(r) BY DEF PendOK, Numbered, Owing
  <1>4. End(t) = End(r) /\ End(r) \in Int BY <1>2 DEF PendOK, End
  <1>5. Beyond(t)
    <2>1. SUFFICES ASSUME n <= End(r), Reached(t, n) PROVE FALSE BY <1>2, <1>4 DEF Beyond
    <2>2. r.snd_nxt < End(r) BY <1>4, <2>1 DEF PendOK
    <2>3. r.sndbuf
      <3>1. ~r.sndbuf => End(r) = r.head BY DEF PendOK, End
      <3>. QED BY <1>3, <2>2, <3>1 DEF Numbered, PendOK
    <2>4. r.fss = End(r) BY <1>3, <2>3 DEF Numbered, Owing
    <2>5. 0 .. n - 1 \subseteq W BY <1>2, <2>1 DEF Reached
    <2>6. r.fss \notin 0 .. n - 1 BY <1>4, <2>1, <2>4
    <2>7. r.snd_nxt \in 0 .. n - 1 BY <1>3 DEF Numbered, PendOK
    <2>. QED BY <1>3, <1>4, <2>2, <2>5, <2>6, <2>7 DEF Level, PendOK
  <1>6. Level(t)
    <2>1. SUFFICES ASSUME NEW x \in Int, n <= x, x < End(r), x \in W PROVE FALSE BY <1>2, <1>4 DEF Level
    <2>2. r.sndbuf
      <3>1. ~r.sndbuf => End(r) = r.head BY DEF PendOK, End
      <3>. QED BY <1>3, <2>1, <3>1 DEF Numbered, PendOK
    <2>3. r.fss = End(r) BY <1>3, <2>2 DEF Numbered, Owing
    <2>4. x \in r.wire /\ r.snd_nxt <= x BY <1>4, <2>1, <2>3 DEF PendOK
    <2>. QED BY <1>3, <2>1, <2>4 DEF Level
  <1>7. Numbered(t)
    <2>1. r.snd_una <= n BY <1>3 DEF Numbered, PendOK
    <2>2. t.state \notin Carrying BY <1>2 DEF Carrying
    <2>3. r.fss \in Int /\ FinOnly(r) BY <1>3 DEF PendOK, Numbered
    <2>4. FinOnly(t) BY <1>2, <1>4, <2>3 DEF FinOnly
    <2>. QED BY <1>2, <1>3, <1>4, <1>6, <2>1, <2>2, <2>4 DEF Numbered
  <1>8. PendOK(t, asks)
    <2>1. ~asks /\ "close" \notin r.queued BY DEF PendOK, FinDue, FinStates
    <2>2. t.state \notin Early BY <1>2 DEF Early
    <2>. QED BY <1>2, <1>7, <2>1, <2>2 DEF PendOK
  <1>9. PendFields \subseteq DOMAIN t /\ ~t.on_timewait BY <1>2, <1>3 DEF Numbered
  <1>10. Fuller(t, AddtoRTOList(t)) /\ AddtoRTOList(t).on_rto BY <1>9, FinLists
  <1>11. PendOK(AddtoRTOList(t), asks) BY <1>8, FinListsOK
  <1>12. Beyond(AddtoRTOList(t)) BY <1>5, <1>10 DEF Fuller, Kept, Beyond, End, Reached
  <1>. QED BY <1>1, <1>2, <1>10, <1>11, <1>12 DEF Fuller, Kept

\* A control packet; the FIN only when the data is gone.
LEMMA FinControl ==
    ASSUME NEW r, NEW asks, PendOK(r, asks), NEW tx
    PROVE  /\ (r.state \in {"FIN_WAIT_1", "LAST_ACK"} => ~r.on_send) => Whole(SendControlPacket(r), asks)
           /\ Whole(AddtoControlList(r, tx), asks)
           /\ Pends(r) \/ r.control_waiting => Whole(ReleaseControl(r, tx), asks)
  <1>1. ASSUME NEW s, PendOK(s, asks), s.state \in {"FIN_WAIT_1", "LAST_ACK"} => ~s.on_send
        PROVE  /\ PendOK(SendControlPacket(s), asks)
               /\ SendControlPacket(s).state \in Owing =>
                     SendControlPacket(s).on_rto /\ Beyond(SendControlPacket(s))
    <2>. DEFINE noted == [s EXCEPT !.out = <<s.state, ControlFlags(s)>>]
                first == [noted EXCEPT !.snd_nxt = 0]
    <2>1. Fuller(s, noted) /\ noted.on_send = s.on_send BY <1>1 DEF Fuller, Kept, PendOK, PendFields
    <2>2. PendOK(noted, asks) /\ noted.state = s.state /\ noted.on_send = s.on_send
      BY <1>1, <2>1, FullerOK DEF Fuller, Kept
    <2>. HIDE DEF noted
    <2>3. ASSUME NEW q, PendOK(q, asks), q.state \in Early
          PROVE  PendOK(SendSyn(q), asks) /\ SendSyn(q).state \in Early
      <3>. PICK n \in Int : n = q.snd_nxt + 1 BY <2>3 DEF PendOK
      <3>. DEFINE t == [q EXCEPT !.wire = @ \cup {q.snd_nxt}, !.snd_nxt = n]
      <3>1. PendOK(t, asks) /\ t.state \in Early
        BY <2>3 DEF PendOK, PendFields, FinDue, Early, Carrying, Owing
      <3>2. SendSyn(q) = AddtoRTOList(t) BY DEF SendSyn
      <3>. HIDE DEF t
      <3>3. Fuller(t, AddtoRTOList(t)) BY <3>1, FinLists DEF PendOK
      <3>. QED BY <3>1, <3>2, <3>3, FinListsOK DEF Fuller, Kept
    <2>4. CASE s.state = "SYN_SENT"
      <3>1. SendControlPacket(s) = SendSyn(noted) BY <2>4 DEF SendControlPacket, ControlFlags, noted
      <3>2. noted.state \in Early BY <2>2, <2>4 DEF Early
      <3>. QED BY <2>2, <2>3, <3>1, <3>2 DEF Early, Owing
    <2>5. CASE s.state = "SYN_RCVD"
      <3>1. SendControlPacket(s) = SendSyn(first) BY <2>5 DEF SendControlPacket, ControlFlags, noted, first
      <3>2. PendOK(first, asks) /\ first.state \in Early
        BY <2>2, <2>5 DEF PendOK, PendFields, FinDue, Early, Carrying, Owing
      <3>. HIDE DEF first
      <3>. QED BY <2>3, <3>1, <3>2 DEF Early, Owing
    <2>6. CASE s.state \in {"LAST_ACK", "FIN_WAIT_1"}
      <3>1. SendControlPacket(s) = SendFin(noted) BY <2>6 DEF SendControlPacket, ControlFlags, noted
      <3>2. ~noted.on_send /\ noted.state \in {"FIN_WAIT_1", "LAST_ACK"} BY <1>1, <2>2, <2>6
      <3>. QED BY <2>2, <3>1, <3>2, FinSent
    <2>7. CASE s.state \in {"CLOSING", "CLOSED_RSVD"}
      <3>1. SendControlPacket(s) = DestroyTCPStream(noted) BY <2>7 DEF SendControlPacket, ControlFlags, noted
      <3>2. PendOK(DestroyTCPStream(noted), asks) BY <2>2, FinEnds DEF Whole
      <3>3. DestroyTCPStream(noted).state = "CLOSED_RSVD"
        <4>1. noted.freed => noted.state = "CLOSED_RSVD" BY <2>2 DEF PendOK
        <4>2. noted.freed => Fuller(noted, Fail(noted, "double_destroy")) BY <2>2, FinLists DEF PendOK
        <4>. QED BY <2>2, <4>1, <4>2 DEF DestroyTCPStream, Fuller, Kept, PendOK, PendFields
      <3>. QED BY <3>1, <3>2, <3>3 DEF Owing
    <2>8. CASE s.state \in {"ESTABLISHED", "CLOSE_WAIT", "FIN_WAIT_2", "TIME_WAIT"}
      <3>1. SendControlPacket(s) = noted BY <2>8 DEF SendControlPacket, ControlFlags, noted
      <3>. QED BY <2>2, <2>8, <3>1 DEF Owing
    <2>9. CASE s.state \notin {"SYN_SENT", "SYN_RCVD", "LAST_ACK", "FIN_WAIT_1", "CLOSING", "CLOSED_RSVD",
                               "ESTABLISHED", "CLOSE_WAIT", "FIN_WAIT_2", "TIME_WAIT"}
      <3>1. SendControlPacket(s) = Fail(s, "control_state") BY <2>9 DEF SendControlPacket, ControlFlags
      <3>2. Fuller(s, Fail(s, "control_state")) BY <1>1, FinLists DEF PendOK
      <3>3. Fail(s, "control_state").state = s.state BY <3>2 DEF Fuller, Kept
      <3>4. Fail(s, "control_state").state \notin Owing BY <2>9, <3>3 DEF Owing
      <3>. QED BY <1>1, <3>1, <3>4, FinListsOK
    <2>. QED BY <2>4, <2>5, <2>6, <2>7, <2>8, <2>9
  <1>2. ASSUME NEW s, PendOK(s, asks) PROVE Whole(AddtoControlList(s, tx), asks)
    <2>1. CASE tx /\ ~ControlMustWait(s)
      <3>. DEFINE sent == SendControlPacket(s)
      <3>1. s.state \in {"FIN_WAIT_1", "LAST_ACK"} => ~s.on_send BY <2>1 DEF ControlMustWait
      <3>2. PendOK(sent, asks) /\ (sent.state \in Owing => sent.on_rto /\ Beyond(sent)) BY <1>1, <1>2, <3>1
      <3>. HIDE DEF sent
      <3>. DEFINE t == [sent EXCEPT !.on_control = FALSE]
      <3>3. Kept(sent, t) /\ t.on_rto = sent.on_rto BY <3>2 DEF Kept, PendOK, PendFields
      <3>4. PendOK(t, asks) BY <3>2, <3>3, FullerOK
      <3>5. Pends(t) BY <3>2, <3>3 DEF Pends, OnItsWay, Kept, Beyond, End, Reached
      <3>. QED BY <2>1, <3>4, <3>5 DEF AddtoControlList, sent, Whole
    <2>2. CASE ~(tx /\ ~ControlMustWait(s))
      <3>. DEFINE t == [s EXCEPT !.on_control = TRUE]
      <3>1. Kept(s, t) /\ t.on_control BY <1>2 DEF Kept, PendOK, PendFields
      <3>2. AddtoControlList(s, tx) = t BY <2>2 DEF AddtoControlList
      <3>. QED BY <1>2, <3>1, <3>2, FullerOK DEF Whole, Pends, OnItsWay
    <2>. QED BY <2>1, <2>2
  <1>3. ASSUME Pends(r) \/ r.control_waiting PROVE Whole(ReleaseControl(r, tx), asks)
    <2>. DEFINE s == [r EXCEPT !.control_waiting = FALSE]
    <2>1. Kept(r, s) BY DEF Kept, PendOK, PendFields
    <2>2. PendOK(s, asks) BY <2>1, FullerOK
    <2>. HIDE DEF s
    <2>. QED BY <1>2, <1>3, <2>2 DEF ReleaseControl, s, Whole
  <1>4. (r.state \in {"FIN_WAIT_1", "LAST_ACK"} => ~r.on_send) => Whole(SendControlPacket(r), asks)
    BY <1>1 DEF Whole, Pends, OnItsWay
  <1>. QED BY <1>2, <1>3, <1>4

\* The data goes out of a stream that is on the send list; when all is out, it may leave.
LEMMA FinSending ==
    ASSUME NEW r, NEW asks, PendOK(r, asks), r.on_send, NEW n \in Nat, n <= Unsent(r),
           r.state \in {"ESTABLISHED", "CLOSE_WAIT", "FIN_WAIT_1", "LAST_ACK"}
    PROVE  LET t == FlushTCPSendingBuffer(r, n)
           IN  /\ PendOK(t, asks) /\ t.state = r.state /\ (Pends(r) => Pends(t))
               /\ t.on_ack = r.on_ack /\ t.control_waiting = r.control_waiting /\ t.on_control = r.on_control
               /\ n >= Unsent(r) => Level(t)
  <1>. DEFINE t == FlushTCPSendingBuffer(r, n)
  <1>0. Numbered(r) /\ PendFields \subseteq DOMAIN r BY DEF PendOK, Carrying, Owing
  <1>1. r.head \in Int /\ r.len \in Nat /\ r.snd_nxt \in Int /\ r.head <= r.snd_nxt /\ End(r) \in Int
    BY <1>0 DEF PendOK, Numbered, End
  <1>2. ASSUME NEW x, x \in {"no_sndbuf", "flush_past_end"}, t = Fail(r, x), r.snd_nxt >= End(r)
        PROVE  /\ PendOK(t, asks) /\ t.state = r.state /\ (Pends(r) => Pends(t))
               /\ t.on_ack = r.on_ack /\ t.control_waiting = r.control_waiting /\ t.on_control = r.on_control
               /\ Level(t)
    <2>1. Kept(r, Fail(r, x)) BY <1>0, FinLists DEF Fuller
    <2>2. t.on_ack = r.on_ack /\ t.control_waiting = r.control_waiting /\ t.on_control = r.on_control
      BY <1>0, <1>2 DEF Fail, PendFields
    <2>3. Level(t) BY <1>1, <1>2, <2>1 DEF Level, Kept, End
    <2>. QED BY <1>2, <2>1, <2>2, <2>3, FinListsOK DEF Kept
  <1>3. CASE ~r.sndbuf
    <2>1. t = Fail(r, "no_sndbuf") BY <1>3 DEF FlushTCPSendingBuffer
    <2>2. r.snd_nxt >= End(r) BY <1>1, <1>3 DEF PendOK, End
    <2>. QED BY <1>2, <2>1, <2>2
  <1>4. CASE r.sndbuf /\ r.len = 0
    <2>1. t = r BY <1>4 DEF FlushTCPSendingBuffer
    <2>2. Level(r) BY <1>1, <1>4 DEF Level, End
    <2>. QED BY <2>1, <2>2
  <1>5. CASE r.sndbuf /\ r.len > 0 /\ r.snd_nxt > End(r)
    <2>1. t = Fail(r, "flush_past_end") BY <1>1, <1>5 DEF FlushTCPSendingBuffer, End
    <2>. QED BY <1>1, <1>2, <1>5, <2>1
  <1>6. CASE r.sndbuf /\ r.len > 0 /\ r.snd_nxt <= End(r)
    <2>1. Unsent(r) = End(r) - r.snd_nxt BY <1>1, <1>6 DEF Unsent, End
    <2>2. CASE n = 0
      <3>1. t = r BY <1>1, <1>6, <2>2 DEF FlushTCPSendingBuffer, End
      <3>2. n >= Unsent(r) => Level(r) BY <1>1, <1>6, <2>1, <2>2 DEF Level
      <3>. QED BY <3>1, <3>2
    <2>3. CASE n # 0
      <3>. PICK nxt \in Int : nxt = r.snd_nxt + n BY <1>1
      <3>. PICK W : W = r.wire \cup (r.snd_nxt .. r.snd_nxt + n - 1) OBVIOUS
      <3>. DEFINE u == [r EXCEPT !.wire = W, !.snd_nxt = nxt]
      <3>1. t = AddtoRTOList(u) BY <1>1, <1>6, <2>3 DEF FlushTCPSendingBuffer, End
      <3>2. /\ PendFields \subseteq DOMAIN u /\ u.wire = W /\ u.snd_nxt = nxt
            /\ u.state = r.state /\ u.freed = r.freed /\ u.on_timewait = r.on_timewait
            /\ u.is_fin_sent = r.is_fin_sent /\ u.sndbuf = r.sndbuf /\ u.head = r.head /\ u.len = r.len
            /\ u.snd_una = r.snd_una /\ u.fss = r.fss /\ u.queued = r.queued
            /\ u.on_ack = r.on_ack /\ u.control_waiting = r.control_waiting /\ u.on_control = r.on_control
            /\ u.on_send = r.on_send /\ u.on_rto = r.on_rto
        BY <1>0 DEF PendFields
      <3>. HIDE DEF u
      <3>3. End(u) = End(r) /\ nxt <= End(r) /\ r.snd_nxt < nxt BY <1>1, <2>1, <2>3, <3>2 DEF End
      <3>4. Numbered(u)
        <4>1. u.snd_una <= u.snd_nxt BY <1>0, <1>1, <3>2, <3>3 DEF Numbered, PendOK
        <4>2. FinOnly(u)
          <5>. SUFFICES ASSUME NEW x \in W PROVE x \in Int /\ (End(r) <= x => r.is_fin_sent /\ x = r.fss)
            BY <3>2, <3>3 DEF FinOnly
          <5>1. CASE x \in r.wire BY <1>0, <5>1 DEF Numbered, FinOnly
          <5>2. CASE x \in r.snd_nxt .. r.snd_nxt + n - 1 BY <1>1, <3>3, <5>2
          <5>. QED BY <5>1, <5>2
        <4>. QED BY <1>0, <1>6, <3>2, <3>3, <4>1, <4>2 DEF Numbered
      <3>5. PendOK(u, asks) BY <3>2, <3>4 DEF PendOK, FinDue
      <3>6. Beyond(r) => Beyond(u)
        <4>. SUFFICES ASSUME Reached(u, nxt) PROVE Reached(r, r.snd_nxt) BY <1>6, <3>2, <3>3 DEF Beyond
        <4>1. SUFFICES ASSUME NEW x \in 0 .. r.snd_nxt - 1 PROVE x \in r.wire BY DEF Reached
        <4>2. x \in 0 .. nxt - 1 BY <1>1, <3>3, <4>1
        <4>3. x \in W BY <3>2, <4>2 DEF Reached
        <4>. QED BY <1>1, <4>1, <4>3
      <3>7. Pends(r) => Pends(u) BY <3>2, <3>6 DEF Pends, OnItsWay
      <3>8. n >= Unsent(r) => Level(u) BY <1>1, <2>1, <3>2, <3>3 DEF Level
      <3>9. Fuller(u, t) /\ t.on_ack = u.on_ack /\ t.control_waiting = u.control_waiting
            /\ t.on_control = u.on_control
        <4>1. Fuller(u, AddtoRTOList(u)) BY <3>2, FinLists
        <4>. QED BY <3>1, <3>2, <4>1 DEF AddtoRTOList, PendFields
      <3>10. Level(u) => Level(t) BY <3>9 DEF Fuller, Kept, Level, End, Reached
      <3>11. PendOK(t, asks) /\ (Pends(u) => Pends(t)) BY <3>1, <3>5, FinListsOK
      <3>. QED BY <3>2, <3>7, <3>8, <3>9, <3>10, <3>11 DEF Fuller, Kept
    <2>. QED BY <2>2, <2>3
  <1>. QED BY <1>1, <1>3, <1>4, <1>5, <1>6 DEF PendOK

\* HandleRTO and what it does: give up, or send again from snd_una, the data before the FIN.
LEMMA FinTimeout ==
    ASSUME NEW r, NEW asks, PendOK(r, asks), NEW tx
    PROVE  Whole(GiveUp(r), asks) /\ Whole(HandleRTO(r, tx), asks)
  <1>1. \A s : PendOK(s, asks) => Whole(GiveUp(s), asks) /\ Whole(DestroyTCPStream(Close(s)), asks)
    BY FinEnds DEF GiveUp, Whole
  <1>2. ASSUME NEW s, PendOK(s, asks) PROVE Whole(Retransmit(s, tx), asks)
    <2>. DEFINE back == [s EXCEPT !.snd_nxt = s.snd_una]
                data == [back EXCEPT !.on_control = FALSE, !.control_waiting = TRUE]
    <2>0. s.state \in Carrying \cup Owing => Numbered(s) BY <1>2 DEF PendOK
    <2>1. /\ PendFields \subseteq DOMAIN back /\ back.snd_nxt = s.snd_una /\ back.wire = s.wire
          /\ back.state = s.state /\ back.freed = s.freed /\ back.on_timewait = s.on_timewait
          /\ back.is_fin_sent = s.is_fin_sent /\ back.sndbuf = s.sndbuf /\ back.head = s.head /\ back.len = s.len
          /\ back.snd_una = s.snd_una /\ back.fss = s.fss /\ back.queued = s.queued /\ back.on_send = s.on_send
          /\ back.on_ack = s.on_ack /\ back.control_waiting = s.control_waiting /\ back.on_control = s.on_control
      BY <1>2 DEF PendOK, PendFields
    <2>. HIDE DEF back
    <2>2. End(back) = End(s) BY <2>1 DEF End
    <2>3. ASSUME s.state \in Carrying \cup Owing, ~s.sndbuf \/ (s.state \in Owing /\ s.snd_una >= s.fss)
          PROVE  PendOK(back, asks)
      <3>1. s.snd_una >= End(s)
        <4>1. CASE ~s.sndbuf BY <1>2, <2>0, <2>3, <4>1 DEF PendOK, Numbered, End
        <4>2. CASE s.sndbuf /\ s.state \in Owing /\ s.snd_una >= s.fss BY <2>0, <2>3, <4>2 DEF Numbered
        <4>. QED BY <2>3, <4>1, <4>2
      <3>2. Level(back) BY <1>2, <2>1, <2>2, <3>1 DEF Level, PendOK, End
      <3>3. FinOnly(back) <=> FinOnly(s) BY <2>1, <2>2 DEF FinOnly
      <3>4. Numbered(back) BY <1>2, <2>0, <2>1, <2>2, <2>3, <3>2, <3>3 DEF Numbered, PendOK
      <3>. QED BY <1>2, <2>1, <3>4 DEF PendOK, FinDue
    <2>4. ASSUME s.state \notin Carrying \cup Owing PROVE PendOK(back, asks)
      BY <1>2, <2>1, <2>4 DEF PendOK, FinDue
    <2>5. ASSUME NEW t, s.state \in Carrying \cup Owing, s.sndbuf, t.on_send, PendFields \subseteq DOMAIN t,
                 t.snd_nxt = s.snd_una, t.wire = s.wire, t.state = s.state, t.freed = s.freed,
                 t.on_timewait = s.on_timewait, t.is_fin_sent = s.is_fin_sent, t.sndbuf = s.sndbuf,
                 t.head = s.head, t.len = s.len, t.snd_una = s.snd_una, t.fss = s.fss, t.queued = s.queued
          PROVE  PendOK(t, asks)
      <3>1. End(t) = End(s) BY <2>5 DEF End
      <3>2. FinOnly(t) <=> FinOnly(s) BY <2>5, <3>1 DEF FinOnly
      <3>3. Numbered(t) BY <1>2, <2>0, <2>5, <3>1, <3>2 DEF Numbered, PendOK
      <3>. QED BY <1>2, <2>5, <3>3 DEF PendOK, FinDue
    <2>6. CASE s.state \in Carrying
      <3>1. Retransmit(s, tx) = AddtoSendList(back) BY <2>6 DEF Retransmit, Carrying, back
      <3>2. CASE s.sndbuf
        <4>. DEFINE t == [back EXCEPT !.on_send = TRUE]
        <4>1. AddtoSendList(back) = t BY <2>1, <3>2 DEF AddtoSendList
        <4>2. /\ t.on_send /\ PendFields \subseteq DOMAIN t
              /\ t.snd_nxt = s.snd_una /\ t.wire = s.wire /\ t.state = s.state /\ t.freed = s.freed
              /\ t.on_timewait = s.on_timewait /\ t.is_fin_sent = s.is_fin_sent /\ t.sndbuf = s.sndbuf
              /\ t.head = s.head /\ t.len = s.len /\ t.snd_una = s.snd_una /\ t.fss = s.fss
              /\ t.queued = s.queued
          BY <2>1 DEF PendFields
        <4>. HIDE DEF t
        <4>3. PendOK(t, asks) BY <2>5, <2>6, <3>2, <4>2
        <4>4. Pends(t) BY <2>6, <4>2 DEF Pends, Carrying, Owing
        <4>. QED BY <3>1, <4>1, <4>3, <4>4 DEF Whole
      <3>3. CASE ~s.sndbuf
        <4>1. PendOK(back, asks) BY <2>3, <2>6, <3>3
        <4>2. Pends(back) BY <2>1, <2>6 DEF Pends, Carrying, Owing
        <4>. QED BY <3>1, <4>1, <4>2, FinListsOK DEF Whole
      <3>. QED BY <3>2, <3>3
    <2>7. CASE s.state \in Owing /\ s.snd_una < s.fss
      <3>1. Retransmit(s, tx) = AddtoSendList(data) BY <2>7 DEF Retransmit, Owing, back, data
      <3>2. s.sndbuf BY <1>2, <2>0, <2>7 DEF Numbered, PendOK
      <3>. DEFINE t == [data EXCEPT !.on_send = TRUE]
      <3>3. AddtoSendList(data) = t BY <2>1, <3>2 DEF AddtoSendList, PendFields
      <3>4. /\ t.on_send /\ t.control_waiting /\ PendFields \subseteq DOMAIN t
            /\ t.snd_nxt = s.snd_una /\ t.wire = s.wire /\ t.state = s.state /\ t.freed = s.freed
            /\ t.on_timewait = s.on_timewait /\ t.is_fin_sent = s.is_fin_sent /\ t.sndbuf = s.sndbuf
            /\ t.head = s.head /\ t.len = s.len /\ t.snd_una = s.snd_una /\ t.fss = s.fss
            /\ t.queued = s.queued
        BY <2>1 DEF PendFields
      <3>. HIDE DEF t
      <3>5. PendOK(t, asks) BY <2>5, <2>7, <3>2, <3>4
      <3>. QED BY <3>1, <3>3, <3>4, <3>5 DEF Whole, Pends, OnItsWay
    <2>8. CASE s.state \in Owing /\ ~(s.snd_una < s.fss)
      <3>1. Retransmit(s, tx) = AddtoControlList(back, tx) BY <2>8 DEF Retransmit, Owing, back
      <3>2. s.snd_una >= s.fss BY <1>2, <2>8 DEF PendOK
      <3>3. PendOK(back, asks) BY <2>3, <2>8, <3>2
      <3>. QED BY <3>1, <3>3, FinControl
    <2>9. CASE s.state \notin Carrying \cup Owing
      <3>1. Retransmit(s, tx) = AddtoControlList(back, tx) BY <2>9 DEF Retransmit, Carrying, Owing, back
      <3>. QED BY <2>4, <2>9, <3>1, FinControl
    <2>. QED BY <2>6, <2>7, <2>8, <2>9
  <1>3. Whole(HandleRTO(r, tx), asks)
    <2>. DEFINE again == [r EXCEPT !.nrtx = @ + 1]
    <2>1. Kept(r, again) BY DEF Kept, PendOK, PendFields
    <2>2. PendOK(again, asks) /\ again.state = r.state /\ again.freed = r.freed BY <2>1, FullerOK DEF Kept
    <2>. HIDE DEF again
    <2>3. Whole(Retransmit(again, tx), asks) BY <1>2, <2>2
    <2>4. /\ Whole(GiveUp(again), asks)
          /\ Whole(GiveUp(r), asks) /\ Whole(DestroyTCPStream(Close(r)), asks)
      BY <1>1, <2>2
    <2>5. r.state \notin Owing => Whole(Fail(again, "rto_state"), asks)
      <3>. HAVE r.state \notin Owing
      <3>1. Pends(again) BY <2>2 DEF Pends
      <3>. QED BY <2>2, <3>1, FinListsOK DEF Whole
    <2>. QED BY <2>2, <2>3, <2>4, <2>5 DEF HandleRTO, again, Owing
  <1>. QED BY <1>1, <1>3
-----------------------------------------------------------------------------
(* Operators of TcpRecv, for a peer without duplicate acknowledgements.    *)

\* An acknowledgement of what the peer has: neither half of what is acknowledged lies
\* beyond snd_nxt, so the timer is stopped only if it is not relied upon.
Acks(r, p) == p.ackno \in Int /\ p.ackno >= 1 /\ Reached(r, p.ackno) /\ ~p.third

LEMMA FinAcknowledgement ==
    ASSUME NEW r, NEW asks, PendOK(r, asks), NEW p, Acks(r, p)
    PROVE  /\ PendOK(ProcessACK(r, p), asks) /\ (Pends(r) => Pends(ProcessACK(r, p)))
           /\ ProcessACK(r, p).state = r.state
  <1>. DEFINE a == AckOfData(r, p)
              more == RecoverSndNxt(r, a)
              less == [more EXCEPT !.len = @ - (a - more.head), !.head = a, !.snd_una = a]
  <1>0. /\ PendFields \subseteq DOMAIN r /\ r.head \in Int /\ r.len \in Nat /\ r.snd_nxt \in Int
        /\ r.snd_una \in Int /\ End(r) \in Int
        /\ r.state \in Carrying \cup Owing => Numbered(r)
    BY DEF PendOK, End
  <1>1. a \in Int /\ a >= 0 /\ a <= p.ackno BY DEF AckOfData, Acks
  <1>2. FastRetransmit(r, p, a) = r BY DEF FastRetransmit, Acks
  <1>. HIDE DEF a
  <1>3. \A b \in Int : b <= a => Reached(r, b)
    <2>. SUFFICES ASSUME NEW b \in Int, b <= a PROVE 0 .. b - 1 \subseteq 0 .. p.ackno - 1
      BY DEF Reached, Acks
    <2>. QED BY <1>1 DEF Acks
  <1>4. ProcessACK(r, p) = IF ~r.sndbuf \/ a > End(r) THEN r ELSE RemoveAcked(more, a)
    BY <1>2 DEF ProcessACK, a, End
  <1>5. CASE ~r.sndbuf \/ a > End(r) BY <1>4, <1>5
  <1>6. CASE r.sndbuf /\ a <= End(r)
    <2>1. /\ PendOK(more, asks) /\ (Pends(r) => Pends(more))
          /\ more.state = r.state /\ more.head = r.head /\ more.len = r.len /\ more.sndbuf = r.sndbuf
          /\ more.wire = r.wire
          /\ r.state \in Carrying \cup Owing => a <= more.snd_nxt
      <3>1. CASE a <= r.snd_nxt
        <4>1. more = r BY <1>0, <1>1, <3>1 DEF RecoverSndNxt
        <4>. QED BY <3>1, <4>1
      <3>2. CASE a > r.snd_nxt
        <4>. PICK send \in BOOLEAN : send = (r.on_send /\ r.len > 0) OBVIOUS
        <4>1. more = [r EXCEPT !.snd_nxt = a, !.on_send = send] BY <3>2 DEF RecoverSndNxt
        <4>2. /\ PendFields \subseteq DOMAIN more /\ more.wire = r.wire /\ more.snd_nxt = a
              /\ more.state = r.state /\ more.freed = r.freed /\ more.on_timewait = r.on_timewait
              /\ more.is_fin_sent = r.is_fin_sent /\ more.sndbuf = r.sndbuf /\ more.head = r.head
              /\ more.len = r.len /\ more.snd_una = r.snd_una /\ more.fss = r.fss /\ more.queued = r.queued
              /\ more.on_ack = r.on_ack /\ more.control_waiting = r.control_waiting
              /\ more.on_control = r.on_control /\ more.on_rto = r.on_rto /\ more.on_send = send
          BY <1>0, <4>1 DEF PendFields
        <4>. HIDE DEF more
        <4>3. End(more) = End(r) /\ (FinOnly(more) <=> FinOnly(r)) BY <4>2 DEF End, FinOnly
        <4>4. ~Beyond(r) BY <1>0, <1>1, <1>3, <1>6, <3>2 DEF Beyond
        <4>6. CASE r.state \in Carrying \cup Owing
          <5>1. Numbered(r) BY <1>0, <4>6
          <5>2. r.len > 0 BY <1>0, <1>1, <1>6, <3>2, <5>1 DEF Numbered, End
          <5>3. send <=> r.on_send BY <5>2
          <5>4. r.snd_una <= a BY <1>0, <1>1, <3>2, <5>1 DEF Numbered
          <5>5. ~Level(r)
            <6>1. Reached(r, a) BY <1>1, <1>3
            <6>2. r.snd_nxt \in 0 .. a - 1 BY <1>0, <1>1, <3>2, <5>1 DEF Numbered, PendOK
            <6>3. r.snd_nxt \in r.wire BY <6>1, <6>2 DEF Reached
            <6>. QED BY <1>0, <1>1, <1>6, <3>2, <6>3 DEF Level
          <5>6. Numbered(more) BY <1>6, <4>2, <4>3, <5>5, <5>1, <5>3, <5>4 DEF Numbered
          <5>7. PendOK(more, asks) BY <1>1, <4>2, <5>6 DEF PendOK, FinDue
          <5>8. Pends(r) => Pends(more) BY <4>2, <4>4, <5>3 DEF Pends, OnItsWay
          <5>. QED BY <1>1, <4>2, <5>7, <5>8
        <4>5. CASE r.state \notin Carrying \cup Owing
          BY <1>1, <4>2, <4>5 DEF PendOK, FinDue, Pends
        <4>. QED BY <4>6, <4>5
      <3>. QED BY <1>0, <1>1, <3>1, <3>2
    <2>. HIDE DEF more
    <2>2. CASE a <= r.head
      <3>1. RemoveAcked(more, a) = more BY <2>1, <2>2 DEF RemoveAcked
      <3>. QED BY <1>1, <1>0, <1>4, <1>6, <2>1, <3>1
    <2>3. CASE a > r.head
      <3>0. a - r.head \in Nat /\ a - r.head <= r.len BY <1>0, <1>1, <1>6, <2>3 DEF End
      <3>. PICK k \in Nat : k = r.len - (a - r.head) BY <1>0, <3>0
      <3>1. less = [more EXCEPT !.len = k, !.head = a, !.snd_una = a] BY <2>1
      <3>2. /\ PendFields \subseteq DOMAIN less /\ less.len = k /\ less.head = a /\ less.snd_una = a
            /\ less.wire = more.wire /\ less.snd_nxt = more.snd_nxt
            /\ less.state = more.state /\ less.freed = more.freed /\ less.on_timewait = more.on_timewait
            /\ less.is_fin_sent = more.is_fin_sent /\ less.sndbuf = more.sndbuf
            /\ less.fss = more.fss /\ less.queued = more.queued
            /\ less.on_ack = more.on_ack /\ less.control_waiting = more.control_waiting
            /\ less.on_control = more.on_control /\ less.on_rto = more.on_rto /\ less.on_send = more.on_send
        BY <2>1, <3>1 DEF PendOK, PendFields
      <3>3. RemoveAcked(more, a) = UpdateRetransmissionTimer(less)
        BY <1>0, <1>1, <2>1, <2>3 DEF RemoveAcked, less
      <3>. HIDE DEF less
      <3>4. End(less) = End(r) /\ End(more) = End(r) BY <1>0, <1>1, <2>1, <3>2 DEF End
      <3>5. r.state \in Carrying \cup Owing => Numbered(less)
        <4>. HAVE r.state \in Carrying \cup Owing
        <4>1. Numbered(more) /\ a <= more.snd_nxt BY <2>1 DEF PendOK
        <4>2. (Level(more) => Level(less)) /\ (FinOnly(more) <=> FinOnly(less)) BY <3>2, <3>4 DEF Level, FinOnly
        <4>. QED BY <1>1, <1>6, <2>1, <3>2, <3>4, <4>1, <4>2 DEF Numbered
      <3>6. PendOK(less, asks) BY <1>1, <1>6, <2>1, <3>2, <3>5 DEF PendOK, FinDue
      <3>. DEFINE t == UpdateRetransmissionTimer(less)
      <3>7. /\ PendOK(t, asks) /\ Kept(less, t) /\ t.on_control = less.on_control
            /\ t.control_waiting = less.control_waiting /\ t.on_ack = less.on_ack /\ t.on_send = less.on_send
            /\ ~less.on_timewait /\ less.snd_nxt > less.snd_una => t.on_rto
        BY <3>2, <3>6, FinLists, FinListsOK
      <3>. HIDE DEF t
      <3>8. ASSUME r.state \in Owing, OnItsWay(more) PROVE OnItsWay(t)
        <4>1. CASE more.on_rto /\ Beyond(more)
          <5>1. ~(more.snd_nxt <= a)
            <6>. SUFFICES ASSUME more.snd_nxt <= a PROVE FALSE OBVIOUS
            <6>0. more.snd_nxt \in Int BY <2>1 DEF PendOK
            <6>1. more.snd_nxt <= End(more) BY <1>0, <1>1, <1>6, <3>4, <6>0
            <6>2. Reached(r, more.snd_nxt) BY <1>3, <6>0
            <6>. QED BY <2>1, <4>1, <6>1, <6>2 DEF Beyond, Reached
          <5>2. ~less.on_timewait BY <3>2, <3>5, <3>8 DEF Numbered
          <5>3. less.snd_nxt > less.snd_una BY <1>1, <2>1, <3>2, <5>1 DEF PendOK
          <5>4. Beyond(t) BY <3>2, <3>4, <3>7, <4>1 DEF Kept, Beyond, End, Reached
          <5>. QED BY <3>7, <5>2, <5>3, <5>4 DEF OnItsWay
        <4>2. CASE ~(more.on_rto /\ Beyond(more)) BY <3>2, <3>7, <3>8, <4>2 DEF OnItsWay
        <4>. QED BY <4>1, <4>2
      <3>9. t.state = r.state BY <2>1, <3>2, <3>7 DEF Kept
      <3>10. Pends(r) => Pends(t) BY <2>1, <3>8, <3>9 DEF Pends
      <3>. QED BY <1>0, <1>1, <1>4, <1>6, <3>3, <3>7, <3>9, <3>10 DEF t
    <2>. QED BY <1>0, <1>1, <2>2, <2>3
  <1>. QED BY <1>0, <1>1, <1>5, <1>6

\* A stream before the end of its handshake (Handshaking).
Fresh(r) ==
    /\ r.head = 1 /\ r.snd_una = 0 /\ r.wire \subseteq {0}
    /\ ~r.on_timewait /\ "close_int" \notin r.queued

\* The handshake ends with the SYN acknowledged and an empty buffer.
LEMMA FinOpening ==
    ASSUME NEW r, NEW asks, PendOK(r, asks), Fresh(r), r.state \in Early, NEW p, NEW room
    PROVE  /\ Whole(Handle_LISTEN(r, p), asks)
           /\ r.state = "SYN_SENT" /\ (p.syn /\ p.ack => p.ackno = 1) => Whole(Handle_SYN_SENT(r, p), asks)
           /\ r.state = "SYN_RCVD" /\ Acks(r, p) =>
                 /\ Whole(Handle_SYN_RCVD(r, p, room), asks)
                 /\ Handle_SYN_RCVD(r, p, room).wire = r.wire
  <1>0. PendFields \subseteq DOMAIN r /\ ~r.freed BY DEF PendOK, Early
  <1>1. ASSUME NEW t, PendOK(t, asks), t.state \notin Owing, NEW x
        PROVE  Whole(t, asks) /\ Whole(Act(t, x), asks) /\ Act(t, x).wire = t.wire
    <2>1. Pends(t) BY <1>1 DEF Pends
    <2>2. Fuller(t, Act(t, x)) BY <1>1, FinLists DEF PendOK
    <2>. QED BY <1>1, <2>1, <2>2, FinListsOK DEF Whole, Fuller, Kept
  <1>2. ASSUME NEW t, PendFields \subseteq DOMAIN t, t.state = "ESTABLISHED", t.snd_una = 1, t.snd_nxt = 1,
               t.freed = r.freed, t.on_timewait = r.on_timewait, t.is_fin_sent = r.is_fin_sent,
               t.sndbuf = r.sndbuf, t.head = r.head, t.len = r.len, t.fss = r.fss, t.wire = r.wire,
               t.queued = r.queued
        PROVE  PendOK(t, asks)
    <2>0. ~r.sndbuf /\ r.len = 0 BY DEF PendOK
    <2>1. End(t) = 1 BY <1>2, <2>0 DEF Fresh, End
    <2>2. Numbered(t) BY <1>2, <2>0, <2>1 DEF Fresh, Numbered, Level, FinOnly, Owing
    <2>3. t.state \notin Early BY <1>2 DEF Early
    <2>4. FinDue(t) => FinDue(r) BY <1>2 DEF FinDue, FinStates
    <2>. QED BY <1>0, <1>2, <2>2, <2>3, <2>4 DEF PendOK
  <1>3. Whole(Handle_LISTEN(r, p), asks)
    <2>. DEFINE t == [r EXCEPT !.state = "SYN_RCVD"]
    <2>1. PendOK(t, asks) /\ t.state = "SYN_RCVD"
      BY <1>0 DEF PendOK, PendFields, FinDue, FinStates, Early, Carrying, Owing
    <2>. HIDE DEF t
    <2>2. r.state \notin Owing BY DEF Early, Owing
    <2>. QED BY <1>1, <2>1, <2>2 DEF Handle_LISTEN, t, Owing
  <1>4. ASSUME r.state = "SYN_SENT", p.syn /\ p.ack => p.ackno = 1
        PROVE  Whole(Handle_SYN_SENT(r, p), asks)
    <2>. DEFINE one == [r EXCEPT !.snd_una = 1]
                acked == IF p.ack THEN one ELSE r
                open == [r EXCEPT !.state = "SYN_RCVD", !.snd_nxt = 0]
    <2>1. (IF p.ack THEN [r EXCEPT !.snd_una = @ + 1] ELSE r) = acked BY DEF Fresh
    <2>2. PendOK(one, asks) /\ one.state = "SYN_SENT"
      BY <1>0, <1>4 DEF PendOK, PendFields, FinDue, FinStates, Early, Carrying, Owing
    <2>3. PendOK(open, asks) /\ open.state = "SYN_RCVD"
      BY <1>0, <1>4 DEF PendOK, PendFields, FinDue, FinStates, Early, Carrying, Owing
    <2>4. ASSUME p.syn, p.ack PROVE Whole(ActiveOpen(one, p), asks)
      <3>. DEFINE moved == [one EXCEPT !.snd_nxt = 1]
                  timer == UpdateRetransmissionTimer(moved)
                  opened == [timer EXCEPT !.state = "ESTABLISHED", !.nrtx = 0]
                  owned == IF one.socket THEN opened ELSE Act(opened, "DESTROY")
                  off == RemoveFromRTOList(owned)
      <3>1. /\ PendFields \subseteq DOMAIN moved /\ moved.snd_una = 1 /\ moved.snd_nxt = 1
            /\ moved.freed = r.freed /\ moved.on_timewait = r.on_timewait /\ moved.is_fin_sent = r.is_fin_sent
            /\ moved.sndbuf = r.sndbuf /\ moved.head = r.head /\ moved.len = r.len /\ moved.fss = r.fss
            /\ moved.wire = r.wire /\ moved.queued = r.queued
        BY <1>0 DEF PendFields
      <3>. HIDE DEF moved
      <3>2. Kept(moved, timer) BY <3>1, FinLists
      <3>. HIDE DEF timer
      <3>3. PendOK(opened, asks) /\ opened.state = "ESTABLISHED"
        <4>1. /\ PendFields \subseteq DOMAIN opened /\ opened.state = "ESTABLISHED"
              /\ opened.snd_una = 1 /\ opened.snd_nxt = 1
              /\ opened.freed = r.freed /\ opened.on_timewait = r.on_timewait
              /\ opened.is_fin_sent = r.is_fin_sent /\ opened.sndbuf = r.sndbuf /\ opened.head = r.head
              /\ opened.len = r.len /\ opened.fss = r.fss /\ opened.wire = r.wire /\ opened.queued = r.queued
          BY <3>1, <3>2 DEF Kept, PendFields
        <4>. HIDE DEF opened
        <4>. QED BY <1>2, <4>1
      <3>. HIDE DEF opened
      <3>4. PendOK(owned, asks) /\ owned.state = "ESTABLISHED"
        <4>1. Fuller(opened, Act(opened, "DESTROY")) BY <3>3, FinLists DEF PendOK
        <4>. QED BY <3>3, <4>1, FinListsOK DEF Fuller, Kept
      <3>. HIDE DEF owned
      <3>5. PendOK(off, asks) /\ off.state = "ESTABLISHED"
        <4>1. Kept(owned, RemoveFromRTOList(owned)) BY <3>4, FinLists DEF PendOK
        <4>. QED BY <3>4, <4>1, FinListsOK DEF Kept
      <3>. HIDE DEF off
      <3>6. Whole(Act(off, "SEND_CONTROL"), asks) BY <1>1, <3>5 DEF Owing
      <3>7. Whole(AddtoTimeoutList(Act(off, "SEND_CONTROL")), asks) BY <3>6, FinListsOK DEF Whole
      <3>8. [one EXCEPT !.snd_nxt = p.ackno] = moved BY <1>4, <2>4 DEF moved
      <3>. QED BY <3>7, <3>8 DEF ActiveOpen, off, owned, opened, timer
    <2>. HIDE DEF one, open
    <2>5. PendOK(acked, asks) /\ acked.state = "SYN_SENT" BY <1>4, <2>2
    <2>6. Whole(r, asks) /\ Whole(acked, asks) /\ Whole(Act(open, "SEND_CONTROL"), asks)
      BY <1>1, <1>4, <2>3, <2>5 DEF Owing
    <2>. HIDE DEF acked
    <2>7. Whole(Close(acked), asks) /\ Close(acked).state = "CLOSED_RSVD" BY <2>5, FinEnds
    <2>8. Whole(Act(Close(acked), "DESTROY"), asks) BY <2>7, FinListsOK DEF Whole
    <2>9. p.syn /\ p.ack => Whole(ActiveOpen(acked, p), asks) BY <2>4 DEF acked
    <2>10. \/ Handle_SYN_SENT(r, p) \in {r, acked, Close(acked), Act(Close(acked), "DESTROY"),
                                         Act(open, "SEND_CONTROL")}
           \/ p.syn /\ p.ack /\ Handle_SYN_SENT(r, p) = ActiveOpen(acked, p)
      BY <2>1 DEF Handle_SYN_SENT, open
    <2>. QED BY <2>6, <2>7, <2>8, <2>9, <2>10
  <1>5. ASSUME r.state = "SYN_RCVD", Acks(r, p)
        PROVE  Whole(PassiveOpen(r, p, room), asks) /\ PassiveOpen(r, p, room).wire = r.wire
    <2>. DEFINE new == [r EXCEPT !.snd_una = 1, !.snd_nxt = 1, !.nrtx = 0, !.state = "ESTABLISHED"]
                opened == RemoveFromRTOList(new)
                queued == [opened EXCEPT !.queued = @ \cup {"accept"}]
    <2>1. p.ackno = 1
      <3>1. 0 .. p.ackno - 1 \subseteq {0} BY <1>5 DEF Fresh, Acks, Reached
      <3>2. p.ackno - 1 \in 0 .. p.ackno - 1 BY <1>5 DEF Acks
      <3>. QED BY <1>5, <3>1, <3>2 DEF Acks
    <2>2. [r EXCEPT !.snd_una = @ + 1, !.snd_nxt = p.ackno, !.nrtx = 0, !.state = "ESTABLISHED"] = new
      BY <2>1 DEF Fresh
    <2>3. /\ PendFields \subseteq DOMAIN new /\ new.state = "ESTABLISHED"
          /\ new.snd_una = 1 /\ new.snd_nxt = 1
          /\ new.freed = r.freed /\ new.on_timewait = r.on_timewait
          /\ new.is_fin_sent = r.is_fin_sent /\ new.sndbuf = r.sndbuf /\ new.head = r.head
          /\ new.len = r.len /\ new.fss = r.fss /\ new.wire = r.wire /\ new.queued = r.queued
      BY <1>0 DEF PendFields
    <2>. HIDE DEF new
    <2>4. PendOK(new, asks) BY <1>2, <2>3
    <2>5. PendOK(opened, asks) /\ Kept(new, opened) BY <2>3, <2>4, FinLists, FinListsOK
    <2>6. opened.state = "ESTABLISHED" /\ opened.wire = r.wire BY <2>3, <2>5 DEF Kept
    <2>. HIDE DEF opened
    <2>7. queued = Enqueue(opened, "accept") BY DEF Enqueue
    <2>8. Whole(queued, asks) /\ queued.wire = r.wire
      <3>1. PendOK(queued, asks) /\ Pends(queued)
        BY <2>5, <2>6, <2>7, FinEnds DEF Pends, Owing
      <3>2. queued.wire = r.wire BY <2>5, <2>6 DEF PendOK, PendFields
      <3>. QED BY <3>1, <3>2 DEF Whole
    <2>. HIDE DEF queued
    <2>9. Whole(Close(opened), asks) /\ Close(opened).wire = r.wire
      BY <2>5, <2>6, FinEnds DEF Close, PendOK, PendFields
    <2>10. Whole(Act(Close(opened), "SEND_CONTROL"), asks) /\ Act(Close(opened), "SEND_CONTROL").wire = r.wire
      <3>1. Fuller(Close(opened), Act(Close(opened), "SEND_CONTROL")) BY <2>9, FinLists DEF Whole, PendOK
      <3>. QED BY <2>9, <3>1, FinListsOK DEF Whole, Fuller, Kept
    <2>11. \A t : Whole(t, asks) => Whole(AddtoTimeoutList(t), asks) /\ AddtoTimeoutList(t).wire = t.wire
      <3>1. \A t : Whole(t, asks) => Fuller(t, AddtoTimeoutList(t)) BY FinLists DEF Whole, PendOK
      <3>. QED BY <3>1, FinListsOK DEF Whole, Fuller, Kept
    <2>12. Whole(Fail(opened, "null_listener"), asks) /\ Fail(opened, "null_listener").wire = r.wire
      <3>1. Pends(opened) BY <2>6 DEF Pends, Owing
      <3>2. Fuller(opened, Fail(opened, "null_listener")) BY <2>5, FinLists DEF PendOK
      <3>. QED BY <2>5, <2>6, <3>1, <3>2, FinListsOK DEF Whole, Fuller, Kept
    <2>. QED BY <2>2, <2>8, <2>10, <2>11, <2>12 DEF PassiveOpen, queued, opened
  <1>6. ASSUME r.state = "SYN_RCVD", Acks(r, p)
        PROVE  Whole(Handle_SYN_RCVD(r, p, room), asks) /\ Handle_SYN_RCVD(r, p, room).wire = r.wire
    <2>. DEFINE t == [r EXCEPT !.snd_nxt = 0]
    <2>1. PendOK(t, asks) /\ t.state \notin Owing /\ t.wire = r.wire
      BY <1>0, <1>6 DEF PendOK, PendFields, FinDue, FinStates, Early, Carrying, Owing
    <2>. HIDE DEF t
    <2>2. Whole(Act(t, "SEND_CONTROL"), asks) /\ Act(t, "SEND_CONTROL").wire = r.wire BY <1>1, <2>1
    <2>. QED BY <1>5, <1>6, <2>2 DEF Handle_SYN_RCVD, t
  <1>. QED BY <1>3, <1>4, <1>6

\* From one state that carries data to the other, or from FIN_WAIT_1 to CLOSING.
LEMMA FinMoves ==
    ASSUME NEW r, NEW asks, PendOK(r, asks), NEW t, NEW x, t = [r EXCEPT !.state = x],
           \/ r.state = "ESTABLISHED" /\ x = "CLOSE_WAIT"
           \/ r.state = "FIN_WAIT_1" /\ x = "CLOSING"
    PROVE  PendOK(t, asks) /\ (Pends(r) => Pends(t)) /\ t.state = x
  <1>1. /\ DOMAIN t = DOMAIN r /\ t.state = x
        /\ t.freed = r.freed /\ t.on_timewait = r.on_timewait /\ t.is_fin_sent = r.is_fin_sent
        /\ t.sndbuf = r.sndbuf /\ t.head = r.head /\ t.len = r.len /\ t.snd_una = r.snd_una
        /\ t.snd_nxt = r.snd_nxt /\ t.fss = r.fss /\ t.wire = r.wire /\ t.queued = r.queued
        /\ t.on_send = r.on_send /\ t.on_control = r.on_control /\ t.control_waiting = r.control_waiting
        /\ t.on_ack = r.on_ack /\ t.on_rto = r.on_rto
    BY DEF PendOK, PendFields
  <1>2. (\A a : Reached(t, a) <=> Reached(r, a)) /\ End(t) = End(r) BY <1>1 DEF Reached, End
  <1>3. (Level(t) <=> Level(r)) /\ (FinOnly(t) <=> FinOnly(r)) /\ (Beyond(t) <=> Beyond(r))
    BY <1>1, <1>2 DEF Level, FinOnly, Beyond
  <1>4. Numbered(r) /\ ~r.freed BY DEF PendOK, Carrying, Owing
  <1>5. Numbered(t) BY <1>1, <1>2, <1>3, <1>4 DEF Numbered, Carrying, Owing
  <1>6. (FinDue(t) <=> FinDue(r)) /\ t.state \notin Early BY <1>1 DEF FinDue, FinStates, Early
  <1>7. PendOK(t, asks) BY <1>1, <1>4, <1>5, <1>6 DEF PendOK
  <1>8. Pends(r) => Pends(t) BY <1>1, <1>3 DEF Pends, OnItsWay, Owing
  <1>. QED BY <1>1, <1>7, <1>8

\* Established, and the passive close.
LEMMA FinTransfer ==
    ASSUME NEW r, NEW asks, Whole(r, asks), NEW p, Acks(r, p)
    PROVE  /\ r.state = "ESTABLISHED" /\ ~p.syn => Whole(Handle_ESTABLISHED(r, p), asks)
           /\ r.state = "CLOSE_WAIT" => Whole(Handle_CLOSE_WAIT(r, p), asks)
           /\ r.state = "LAST_ACK" => Whole(Handle_LAST_ACK(r, p), asks)
  <1>1. Whole(ProcessACK(r, p), asks) /\ ProcessACK(r, p).state = r.state BY FinAcknowledgement DEF Whole
  <1>2. \A t, x : Whole(t, asks) => Whole(Act(t, x), asks) BY FinListsOK DEF Whole
  <1>3. ASSUME r.state = "ESTABLISHED", ~p.syn PROVE Whole(Handle_ESTABLISHED(r, p), asks)
    <2>. DEFINE data == ProcessTCPPayload(r, p)
                acked == IF p.ack THEN ProcessACK(data, p) ELSE data
                waits == [acked EXCEPT !.state = "CLOSE_WAIT"]
    <2>1. Fuller(r, Act(r, "SEND_ACK")) BY FinLists DEF Whole, PendOK
    <2>2. Whole(data, asks) /\ data.state = "ESTABLISHED" /\ Acks(data, p)
      BY <1>2, <1>3, <2>1 DEF ProcessTCPPayload, Fuller, Kept, Acks, Reached
    <2>. HIDE DEF data
    <2>3. Whole(acked, asks) /\ acked.state = "ESTABLISHED" BY <2>2, FinAcknowledgement DEF Whole
    <2>. HIDE DEF acked
    <2>4. Whole(waits, asks) BY <2>3, FinMoves DEF Whole
    <2>. HIDE DEF waits
    <2>5. Whole(Act(waits, "SEND_CONTROL"), asks) /\ Whole(Act(acked, "SEND_ACK"), asks) BY <1>2, <2>3, <2>4
    <2>. QED BY <1>3, <2>3, <2>5 DEF Handle_ESTABLISHED, waits, acked, data
  <1>4. Whole(Handle_CLOSE_WAIT(r, p), asks) BY <1>1, <1>2 DEF Handle_CLOSE_WAIT
  <1>5. ASSUME r.state = "LAST_ACK" PROVE Whole(Handle_LAST_ACK(r, p), asks)
    <2>. DEFINE acked == ProcessACK(r, p)
                one == [acked EXCEPT !.snd_una = @ + 1]
                closed == UpdateRetransmissionTimer(one)
                end == Close(closed)
    <2>1. Whole(acked, asks) BY <1>1
    <2>. HIDE DEF acked
    <2>2. Whole(Act(acked, "SEND_CONTROL"), asks) /\ Whole(Act(r, "SEND_CONTROL"), asks) BY <1>2, <2>1
    <2>3. PICK n \in Int : n = acked.snd_una + 1 BY <2>1 DEF Whole, PendOK
    <2>4. one = [acked EXCEPT !.snd_una = n] BY <2>3
    <2>5. /\ PendFields \subseteq DOMAIN one /\ one.snd_una = n /\ one.freed = acked.freed
          /\ one.sndbuf = acked.sndbuf /\ one.head = acked.head /\ one.len = acked.len
          /\ one.snd_nxt = acked.snd_nxt /\ one.fss = acked.fss /\ one.queued = acked.queued
          /\ one.is_fin_sent = acked.is_fin_sent /\ one.state = acked.state
      BY <2>1, <2>4 DEF Whole, PendOK, PendFields
    <2>. HIDE DEF one
    <2>6. Kept(one, closed) BY <2>5, FinLists
    <2>. HIDE DEF closed
    <2>7. /\ PendFields \subseteq DOMAIN end /\ end.snd_una = n /\ end.state = "CLOSED_RSVD"
          /\ end.freed = acked.freed /\ end.sndbuf = acked.sndbuf /\ end.head = acked.head
          /\ end.len = acked.len /\ end.snd_nxt = acked.snd_nxt /\ end.fss = acked.fss
          /\ end.queued = acked.queued /\ end.is_fin_sent = acked.is_fin_sent
      BY <2>5, <2>6 DEF Kept, Close, PendFields
    <2>. HIDE DEF end
    <2>8. FinDue(end) => FinDue(acked) BY <2>7 DEF FinDue, FinStates
    <2>9. Whole(end, asks)
      BY <2>1, <2>7, <2>8 DEF Whole, Pends, PendOK, Early, Carrying, Owing
    <2>10. Whole(Act(end, "DESTROY"), asks) BY <1>2, <2>9
    <2>. QED BY <2>1, <2>2, <2>10 DEF Handle_LAST_ACK, acked, one, closed, end
  <1>. QED BY <1>3, <1>4, <1>5

\* The active close.
LEMMA FinActiveClose ==
    ASSUME NEW r, NEW asks, Whole(r, asks), NEW p, Acks(r, p)
    PROVE  /\ r.state = "FIN_WAIT_1" => Whole(Handle_FIN_WAIT_1(r, p), asks)
           /\ r.state = "FIN_WAIT_2" => Whole(Handle_FIN_WAIT_2(r, p), asks)
           /\ r.state = "CLOSING" => Whole(Handle_CLOSING(r, p), asks)
  <1>. DEFINE acked == ProcessACK(r, p)
  <1>1. Whole(acked, asks) /\ acked.state = r.state BY FinAcknowledgement DEF Whole
  <1>2. \A t, x : Whole(t, asks) => Whole(Act(t, x), asks) /\ Act(t, x).state = t.state
    <2>. TAKE t, x
    <2>. HAVE Whole(t, asks)
    <2>1. Whole(Act(t, x), asks) BY FinListsOK DEF Whole
    <2>2. Act(t, x).state = t.state BY DEF Whole, PendOK, PendFields, Act
    <2>. QED BY <2>1, <2>2
  <1>. HIDE DEF acked
  <1>3. \A t : Whole(t, asks) /\ t.state \in {"FIN_WAIT_1", "FIN_WAIT_2", "CLOSING"} =>
                  Whole(EnterTimeWait(t), asks)
    <2>. TAKE t
    <2>. HAVE Whole(t, asks) /\ t.state \in {"FIN_WAIT_1", "FIN_WAIT_2", "CLOSING"}
    <2>. DEFINE last == [t EXCEPT !.state = "TIME_WAIT"]
    <2>1. PendOK(last, asks) /\ last.state = "TIME_WAIT"
      BY DEF Whole, PendOK, PendFields, FinDue, FinStates, Early, Carrying, Owing
    <2>. HIDE DEF last
    <2>2. Whole(AddtoTimewaitList(last), asks) BY <2>1, FinEnds DEF Carrying, Owing
    <2>. QED BY <1>2, <2>2 DEF EnterTimeWait, last
  <1>4. ASSUME r.state = "FIN_WAIT_1" PROVE Whole(Handle_FIN_WAIT_1(r, p), asks)
    <2>. DEFINE half == [acked EXCEPT !.snd_una = p.ackno, !.nrtx = 0, !.state = "FIN_WAIT_2",
                                      !.snd_nxt = IF p.ackno > @ THEN p.ackno ELSE @]
                off == RemoveFromRTOList(half)
                ours == IF FinAcked(r, p) THEN off ELSE acked
                data == ProcessTCPPayload(ours, p)
                both == [data EXCEPT !.state = "CLOSING"]
    <2>1. PICK n \in Int : n = IF p.ackno > acked.snd_nxt THEN p.ackno ELSE acked.snd_nxt
      BY <1>1 DEF Whole, PendOK, Acks
    <2>2. half = [acked EXCEPT !.snd_una = p.ackno, !.nrtx = 0, !.state = "FIN_WAIT_2", !.snd_nxt = n]
      BY <2>1
    <2>3. PendOK(half, asks) /\ half.state = "FIN_WAIT_2"
      BY <1>1, <1>4, <2>2 DEF Acks, Whole, PendOK, PendFields, FinDue, FinStates, Early, Carrying, Owing
    <2>. HIDE DEF half
    <2>4. Whole(off, asks) /\ off.state = "FIN_WAIT_2"
      <3>1. PendOK(off, asks) BY <2>3, FinListsOK
      <3>2. off.state = "FIN_WAIT_2" BY <2>3 DEF RemoveFromRTOList, PendOK, PendFields
      <3>. QED BY <3>1, <3>2 DEF Whole, Pends, Owing
    <2>. HIDE DEF off
    <2>5. Whole(ours, asks) /\ ours.state \in {"FIN_WAIT_1", "FIN_WAIT_2"} BY <1>1, <1>4, <2>4
    <2>. HIDE DEF ours
    <2>6. Whole(data, asks) /\ data.state \in {"FIN_WAIT_1", "FIN_WAIT_2"}
      BY <1>2, <2>5 DEF ProcessTCPPayload
    <2>. HIDE DEF data
    <2>7. data.state = "FIN_WAIT_1" => Whole(both, asks) BY <2>6, FinMoves DEF Whole
    <2>. HIDE DEF both
    <2>8. Whole(EnterTimeWait(data), asks) /\ Whole(Act(data, "SEND_ACK"), asks) /\ Whole(Act(r, "SEND_CONTROL"), asks)
      BY <1>2, <1>3, <2>6
    <2>9. data.state # "FIN_WAIT_2" => Whole(Act(both, "SEND_CONTROL"), asks) BY <1>2, <2>6, <2>7
    <2>. QED BY <2>6, <2>8, <2>9 DEF Handle_FIN_WAIT_1, both, data, ours, off, half, acked
  <1>5. ASSUME r.state = "FIN_WAIT_2" PROVE Whole(Handle_FIN_WAIT_2(r, p), asks)
    <2>. DEFINE data == ProcessTCPPayload(acked, p)
    <2>1. Whole(data, asks) /\ data.state = "FIN_WAIT_2" BY <1>1, <1>2, <1>5 DEF ProcessTCPPayload
    <2>. HIDE DEF data
    <2>2. Whole(EnterTimeWait(data), asks) BY <1>3, <2>1
    <2>. QED BY <2>1, <2>2 DEF Handle_FIN_WAIT_2, data, acked
  <1>6. ASSUME r.state = "CLOSING" PROVE Whole(Handle_CLOSING(r, p), asks)
    <2>. DEFINE seen == [acked EXCEPT !.snd_una = p.ackno]
                done == UpdateRetransmissionTimer(seen)
                last == [done EXCEPT !.state = "TIME_WAIT"]
    <2>1. /\ PendFields \subseteq DOMAIN seen /\ seen.snd_una = p.ackno /\ seen.freed = acked.freed
          /\ seen.sndbuf = acked.sndbuf /\ seen.head = acked.head /\ seen.len = acked.len
          /\ seen.snd_nxt = acked.snd_nxt /\ seen.fss = acked.fss /\ seen.queued = acked.queued
          /\ seen.is_fin_sent = acked.is_fin_sent /\ seen.state = "CLOSING"
      BY <1>1, <1>6 DEF Whole, PendOK, PendFields
    <2>. HIDE DEF seen
    <2>2. Kept(seen, done) BY <2>1, FinLists
    <2>. HIDE DEF done
    <2>3. /\ PendFields \subseteq DOMAIN last /\ last.snd_una = p.ackno /\ last.freed = acked.freed
          /\ last.sndbuf = acked.sndbuf /\ last.head = acked.head /\ last.len = acked.len
          /\ last.snd_nxt = acked.snd_nxt /\ last.fss = acked.fss /\ last.queued = acked.queued
          /\ last.is_fin_sent = acked.is_fin_sent /\ last.state = "TIME_WAIT"
      BY <2>1, <2>2 DEF Kept, PendFields
    <2>. HIDE DEF last
    <2>4. FinDue(acked) /\ ~acked.freed BY <1>1, <1>6 DEF FinDue, FinStates, Whole, PendOK
    <2>5. PendOK(last, asks)
      BY <1>1, <2>3, <2>4 DEF Acks, Whole, PendOK, FinDue, Early, Carrying, Owing
    <2>6. Whole(AddtoTimewaitList(last), asks) BY <2>3, <2>5, FinEnds DEF Carrying, Owing
    <2>. QED BY <1>1, <2>6 DEF Handle_CLOSING, last, done, seen, acked
  <1>. QED BY <1>4, <1>5, <1>6

\* A segment the stream can get before the end of its handshake, and after it.
Fit(r, p) ==
    /\ p.syn => r.state \in Early /\ (p.ack => p.ackno = 1)
    /\ ~p.syn => Acks(r, p)

\* A segment, through its handler and the actions that follow it.
LEMMA FinPacket ==
    ASSUME NEW r, NEW asks, Whole(r, asks), r.state \in Early => Fresh(r),
           NEW p, Fit(r, p), NEW room, NEW tx
    PROVE  Whole(HandleSockStream(r, p, room, tx), asks)
  <1>0. \A t, x : Whole(t, asks) =>
           /\ Whole(Act(t, x), asks) /\ Act(t, x).state = t.state /\ Act(t, x).wire = t.wire
           /\ Whole(Close(t), asks) /\ Whole(Act(Close(t), x), asks)
    <2>. TAKE t, x
    <2>. HAVE Whole(t, asks)
    <2>1. Whole(Act(t, x), asks) BY FinListsOK DEF Whole
    <2>2. Act(t, x).state = t.state /\ Act(t, x).wire = t.wire BY DEF Whole, PendOK, PendFields, Act
    <2>3. Whole(Close(t), asks) BY FinEnds DEF Whole
    <2>4. Whole(Act(Close(t), x), asks) BY <2>3, FinListsOK DEF Whole
    <2>. QED BY <2>1, <2>2, <2>3, <2>4
  <1>1. \A s : Whole(s, asks) /\ s.state = r.state /\ (s.state \in Early => Fresh(s)) /\ Fit(s, p) =>
                  Whole(Dispatch(s, p, room), asks)
    <2>. TAKE s
    <2>. HAVE Whole(s, asks) /\ s.state = r.state /\ (s.state \in Early => Fresh(s)) /\ Fit(s, p)
    <2>. DEFINE opened == Handle_SYN_RCVD(s, p, room)
    <2>1. s.state \in Early /\ s.state # "CLOSED" =>
             /\ Whole(Handle_LISTEN(s, p), asks)
             /\ s.state = "SYN_SENT" => Whole(Handle_SYN_SENT(s, p), asks)
             /\ s.state = "SYN_RCVD" /\ ~p.syn => Whole(opened, asks) /\ opened.wire = s.wire
      BY FinOpening DEF Whole, Fit
    <2>. HIDE DEF opened
    <2>2. s.state = "SYN_RCVD" /\ ~p.syn /\ opened.state = "ESTABLISHED" => Whole(Handle_ESTABLISHED(opened, p), asks)
      <3>. HAVE s.state = "SYN_RCVD" /\ ~p.syn /\ opened.state = "ESTABLISHED"
      <3>1. Whole(opened, asks) /\ Acks(opened, p) BY <2>1 DEF Fit, Acks, Reached, Early
      <3>. QED BY <3>1, FinTransfer
    <2>3. s.state = "TIME_WAIT" => Whole(Act(s, "SEND_CONTROL"), asks) BY <1>0
    <2>4. s.state \notin Early => ~p.syn /\ Acks(s, p) BY DEF Fit
    <2>5. /\ s.state = "ESTABLISHED" => Whole(Handle_ESTABLISHED(s, p), asks)
          /\ s.state = "CLOSE_WAIT" => Whole(Handle_CLOSE_WAIT(s, p), asks)
          /\ s.state = "LAST_ACK" => Whole(Handle_LAST_ACK(s, p), asks)
      BY <2>4, FinTransfer DEF Early
    <2>6. /\ s.state = "FIN_WAIT_1" => Whole(Handle_FIN_WAIT_1(s, p), asks)
          /\ s.state = "FIN_WAIT_2" => Whole(Handle_FIN_WAIT_2(s, p), asks)
          /\ s.state = "CLOSING" => Whole(Handle_CLOSING(s, p), asks)
      BY <2>4, FinActiveClose DEF Early
    <2>. QED BY <2>1, <2>2, <2>3, <2>5, <2>6 DEF Dispatch, opened, Early
  <1>2. \A s : Whole(s, asks) => Whole(ProcessRST(s, p), asks) BY <1>0 DEF ProcessRST
  <1>3. Whole(UpdateRecvTCPContext(r, p, room), asks)
    <2>. DEFINE seen == IF r.state \in Synchronized THEN ValidateSequence(r, p) ELSE r
                marked == [seen EXCEPT !.have_reset = @ \/ p.rst]
    <2>1. /\ Whole(seen, asks) /\ seen.state = r.state /\ seen.wire = r.wire
          /\ (r.state \in Early => seen = r)
      <3>1. r.state = "TIME_WAIT" =>
               /\ Whole(AddtoTimewaitList(r), asks) /\ AddtoTimewaitList(r).state = r.state
               /\ AddtoTimewaitList(r).wire = r.wire
        BY FinEnds DEF Whole, PendOK, PendFields, AddtoTimewaitList, Carrying, Owing
      <3>2. r.state = "TIME_WAIT" =>
               /\ Whole(Act(AddtoTimewaitList(r), "SEND_CONTROL"), asks)
               /\ Act(AddtoTimewaitList(r), "SEND_CONTROL").state = r.state
               /\ Act(AddtoTimewaitList(r), "SEND_CONTROL").wire = r.wire
        BY <1>0, <3>1
      <3>. QED BY <1>0, <3>2 DEF ValidateSequence, Synchronized, Early
    <2>. HIDE DEF seen
    <2>2. Fuller(seen, marked) BY <2>1 DEF Fuller, Kept, Whole, PendOK, PendFields
    <2>. HIDE DEF marked
    <2>3. Whole(marked, asks) /\ marked.state = r.state /\ marked.wire = r.wire
      BY <2>1, <2>2, FullerOK DEF Whole, Fuller, Kept
    <2>4. marked.state \in Early => Fresh(marked) BY <2>1, <2>2, <2>3 DEF Fresh, Fuller, Kept
    <2>5. Fit(marked, p) BY <2>3 DEF Fit, Acks, Reached
    <2>. QED BY <1>1, <1>2, <2>3, <2>4, <2>5 DEF UpdateRecvTCPContext, marked, seen
  <1>4. \A s : Whole(s, asks) => Whole(DoActionEndTCPPacket(s, tx), asks)
    <2>. TAKE s
    <2>. HAVE Whole(s, asks)
    <2>. DEFINE data == IF "SEND_DATA" \in s.actions THEN AddtoSendList(s) ELSE s
                ack == IF "SEND_ACK" \in s.actions THEN EnqueueACK(data) ELSE data
                control == IF "SEND_CONTROL" \in s.actions THEN AddtoControlList(ack, tx) ELSE ack
                gone == IF "DESTROY" \in s.actions THEN DestroyTCPStream(control) ELSE control
                done == [gone EXCEPT !.actions = {}]
    <2>1. Whole(data, asks) BY FinListsOK DEF Whole
    <2>. HIDE DEF data
    <2>2. Whole(ack, asks) BY <2>1, FinListsOK DEF Whole
    <2>. HIDE DEF ack
    <2>3. Whole(control, asks) BY <2>2, FinControl DEF Whole
    <2>. HIDE DEF control
    <2>4. Whole(gone, asks) BY <2>3, FinEnds DEF Whole
    <2>. HIDE DEF gone
    <2>5. Fuller(gone, done) BY <2>4 DEF Fuller, Kept, Whole, PendOK, PendFields
    <2>. HIDE DEF done
    <2>6. Whole(done, asks) BY <2>4, <2>5, FullerOK DEF Whole, Fuller
    <2>. QED BY <2>6 DEF DoActionEndTCPPacket, gone, control, ack, data, done
  <1>. QED BY <1>3, <1>4 DEF HandleSockStream

\* fss is what close computes.
FssOK(r) == r.state \in Carrying => IF r.sndbuf THEN r.fss = End(r) ELSE r.fss <= r.snd_una

\* Into the state the FIN is sent in.
LEMMA FinClosing ==
    ASSUME NEW r, NEW asks, PendOK(r, asks), ~asks, "close" \notin r.queued, FssOK(r), NEW tx
    PROVE  /\ Whole(AddtoControlList(Closing(r), tx), asks)
           /\ r.on_send \/ r.on_ack => Whole([Closing(r) EXCEPT !.control_waiting = TRUE], asks)
  <1>. DEFINE c == Closing(r)
              w == [c EXCEPT !.control_waiting = TRUE]
  <1>1. PICK x : x = CASE r.state = "ESTABLISHED" -> "FIN_WAIT_1"
                       [] r.state = "CLOSE_WAIT" -> "LAST_ACK"
                       [] OTHER -> r.state
    OBVIOUS
  <1>2. c = [r EXCEPT !.state = x] BY <1>1 DEF Closing
  <1>3. /\ DOMAIN c = DOMAIN r /\ c.state = x
        /\ c.freed = r.freed /\ c.on_timewait = r.on_timewait /\ c.is_fin_sent = r.is_fin_sent
        /\ c.sndbuf = r.sndbuf /\ c.head = r.head /\ c.len = r.len /\ c.snd_una = r.snd_una
        /\ c.snd_nxt = r.snd_nxt /\ c.fss = r.fss /\ c.wire = r.wire /\ c.queued = r.queued
        /\ c.on_send = r.on_send /\ c.on_control = r.on_control /\ c.control_waiting = r.control_waiting
        /\ c.on_ack = r.on_ack /\ c.on_rto = r.on_rto
    BY <1>2 DEF PendOK, PendFields
  <1>. HIDE DEF c
  <1>4. PendOK(c, asks)
    <2>1. CASE r.state \in Carrying
      <3>1. x \in {"FIN_WAIT_1", "LAST_ACK"} BY <1>1, <2>1 DEF Carrying
      <3>2. (\A a : Reached(c, a) <=> Reached(r, a)) /\ End(c) = End(r) BY <1>3 DEF Reached, End
      <3>3. (Level(c) <=> Level(r)) /\ (FinOnly(c) <=> FinOnly(r)) BY <1>3, <3>2 DEF Level, FinOnly
      <3>4. Numbered(r) /\ ~r.freed BY <2>1 DEF PendOK, Carrying
      <3>5. r.state # "CLOSING" BY <2>1 DEF Carrying
      <3>6. Numbered(c) BY <1>3, <2>1, <3>1, <3>2, <3>3, <3>4, <3>5 DEF Numbered, FssOK, Carrying
      <3>7. c.state \notin Early BY <1>3, <3>1 DEF Early
      <3>. QED BY <1>3, <3>4, <3>6, <3>7 DEF PendOK
    <2>2. CASE r.state \notin Carrying
      <3>1. x = r.state BY <1>1, <2>2 DEF Carrying
      <3>2. Kept(r, c) BY <1>3, <3>1 DEF Kept
      <3>. QED BY <3>2, FullerOK
    <2>. QED BY <2>1, <2>2
  <1>5. Whole(AddtoControlList(c, tx), asks) BY <1>4, FinControl
  <1>6. Fuller(c, w) /\ w.control_waiting /\ w.on_send = c.on_send /\ w.on_ack = c.on_ack
    BY <1>4 DEF PendOK, PendFields, Fuller, Kept
  <1>. HIDE DEF w
  <1>7. r.on_send \/ r.on_ack => Whole(w, asks)
    BY <1>3, <1>4, <1>6, FullerOK DEF Whole, Pends, OnItsWay, Fuller
  <1>. QED BY <1>5, <1>7 DEF w, c

\* A close request.
LEMMA FinCloseOne ==
    ASSUME NEW r, NEW asks, PendOK(r, asks), ~asks, "close" \notin r.queued, ~FinDue(r), NEW tx
    PROVE  Whole(CloseRequest(r, tx), asks)
  <1>. DEFINE mark == [r EXCEPT !.fss = IF r.sndbuf THEN r.head + r.len ELSE r.snd_nxt]
              t == RemoveFromTimeoutList(mark)
              q == Enqueue(t, "close_int")
  <1>0. r.state \notin Owing BY DEF FinDue, FinStates, Owing
  <1>1. PICK n \in Int : n = IF r.sndbuf THEN r.head + r.len ELSE r.snd_nxt BY DEF PendOK
  <1>2. mark = [r EXCEPT !.fss = n] BY <1>1
  <1>3. /\ DOMAIN mark = DOMAIN r /\ mark.state = r.state
        /\ mark.freed = r.freed /\ mark.on_timewait = r.on_timewait /\ mark.is_fin_sent = r.is_fin_sent
        /\ mark.sndbuf = r.sndbuf /\ mark.head = r.head /\ mark.len = r.len /\ mark.snd_una = r.snd_una
        /\ mark.snd_nxt = r.snd_nxt /\ mark.fss = n /\ mark.wire = r.wire /\ mark.queued = r.queued
        /\ mark.on_send = r.on_send
    BY <1>2 DEF PendOK, PendFields
  <1>. HIDE DEF mark
  <1>4. PendOK(mark, asks) /\ FssOK(mark)
    <2>1. (\A a : Reached(mark, a) <=> Reached(r, a)) /\ End(mark) = End(r) BY <1>3 DEF Reached, End
    <2>2. (Level(mark) <=> Level(r)) /\ (FinOnly(mark) <=> FinOnly(r)) BY <1>3, <2>1 DEF Level, FinOnly, FinDue
    <2>3. "close_int" \notin r.queued BY DEF FinDue
    <2>4. Numbered(r) => Numbered(mark) BY <1>0, <1>3, <2>1, <2>2, <2>3 DEF Numbered
    <2>5. FinDue(mark) <=> FinDue(r) BY <1>3 DEF FinDue
    <2>6. PendOK(mark, asks) BY <1>3, <2>4, <2>5 DEF PendOK
    <2>7. r.state \in Carrying => IF r.sndbuf THEN n = End(r) ELSE n <= r.snd_una
      BY <1>1 DEF PendOK, Numbered, End
    <2>. QED BY <1>3, <2>1, <2>6, <2>7 DEF FssOK
  <1>5. Fuller(mark, t) BY <1>4, FinLists DEF PendOK
  <1>. HIDE DEF t
  <1>6. /\ PendOK(t, asks) /\ FssOK(t) /\ "close" \notin t.queued /\ t.state \notin Owing /\ Pends(t)
    BY <1>0, <1>3, <1>4, <1>5, FullerOK DEF Fuller, Kept, FssOK, End, Pends
  <1>7. Whole(t, asks) /\ Whole(DestroyTCPStream(Close(t)), asks)
    <2>1. PendOK(Close(t), asks) BY <1>6, FinEnds DEF Whole
    <2>. QED BY <1>6, <2>1, FinEnds DEF Whole
  <1>8. Whole(q, asks)
    <2>. PICK Q : Q = t.queued \cup {"close_int"} OBVIOUS
    <2>1. /\ DOMAIN q = DOMAIN t /\ q.state = t.state
          /\ q.freed = t.freed /\ q.on_timewait = t.on_timewait /\ q.is_fin_sent = t.is_fin_sent
          /\ q.sndbuf = t.sndbuf /\ q.head = t.head /\ q.len = t.len /\ q.snd_una = t.snd_una
          /\ q.snd_nxt = t.snd_nxt /\ q.fss = t.fss /\ q.wire = t.wire /\ q.queued = Q
          /\ q.on_send = t.on_send
      BY <1>6 DEF Enqueue, PendOK, PendFields
    <2>. HIDE DEF q
    <2>2. (\A a : Reached(q, a) <=> Reached(t, a)) /\ End(q) = End(t) BY <2>1 DEF Reached, End
    <2>3. (Level(q) <=> Level(t)) /\ (FinOnly(q) <=> FinOnly(t)) BY <2>1, <2>2 DEF Level, FinOnly
    <2>4. t.state \in Carrying /\ Numbered(t) => Numbered(q) BY <1>6, <2>1, <2>2, <2>3 DEF Numbered, FssOK
    <2>5. ~asks /\ "close" \notin q.queued BY <1>6, <2>1
    <2>6. PendOK(q, asks) BY <1>6, <2>1, <2>4, <2>5 DEF PendOK
    <2>. QED BY <1>6, <2>1, <2>6 DEF Whole, Pends
  <1>. HIDE DEF q
  <1>9. /\ Whole(AddtoControlList(Closing(t), tx), asks)
        /\ t.on_send \/ t.on_ack => Whole([Closing(t) EXCEPT !.control_waiting = TRUE], asks)
    BY <1>6, FinClosing
  <1>. QED BY <1>7, <1>8, <1>9 DEF CloseRequest, t, mark, q
-----------------------------------------------------------------------------
(* The actions of TcpStream.                                               *)

\* No late copy of the handshake and no fourth equal acknowledgement reaches the stream: both
\* move snd_nxt back or to a number the peer can acknowledge.
Orderly == PeerSends \cap {"LATESYN", "DUP3", "LATE3"} = {}

LEMMA OrderlySegments ==
    ASSUME Orderly, NEW p \in Segments
    PROVE  Fit(st, p)
  <1>. DEFINE Syns == {s \in [syn : {TRUE}, ack : BOOLEAN, fin : BOOLEAN, rst : BOOLEAN, seq : {"old"}, len : {0},
                              ackno : {0, 1}, third : BOOLEAN] : s.ack => s.ackno = 1}
              Others == [syn : {FALSE}, ack : BOOLEAN, fin : BOOLEAN, rst : BOOLEAN,
                         seq : {"old", "next", "ahead", "zero"}, len : {0, 1}, ackno : AckNos, third : {FALSE}]
              Seqs == {"old", "next", "ahead", "zero"}
  <1>1. Segment(TRUE, FALSE, FALSE, FALSE, "old", 0, 0, FALSE) \in Syns BY DEF Segment
  <1>2. Segment(TRUE, TRUE, FALSE, FALSE, "old", 0, 1, FALSE) \in Syns BY DEF Segment
  <1>3. \A ack, fin, rst \in BOOLEAN : \A seq \in Seqs, len \in {0, 1}, a \in AckNos :
           Segment(FALSE, ack, fin, rst, seq, len, a, FALSE) \in Others
    BY DEF Segment
  <1>4. New \subseteq Seqs /\ \A can : Again(can) \subseteq Seqs BY DEF New, Again
  <1>. DEFINE Of(kind, set) == IF kind \in PeerSends THEN set ELSE {}
              Syn(ack, a) == Segment(TRUE, ack, FALSE, FALSE, "old", 0, a, FALSE)
              Ack(seq, a, third) == Segment(FALSE, TRUE, FALSE, FALSE, seq, 0, a, third)
              Handshake == IF st.active THEN {Syn(TRUE, a) : a \in AckNos \cap {1}} ELSE {Syn(FALSE, 0)}
              InOrder == {Ack("next", a, FALSE) : a \in AckNos}
              Old == {Ack("old", a, FALSE) : a \in AckNos}
              Dup == {Ack("next", a, TRUE) : a \in AckNos \cap {st.head}}
              Late == {Ack("next", a, TRUE) : a \in AckNos \cap 1 .. st.head - 1}
              WithData(seq, a) == Segment(FALSE, TRUE, FALSE, FALSE, seq, 1, a, FALSE)
              WithFin(seq, a) == Segment(FALSE, TRUE, TRUE, FALSE, seq, 0, a, FALSE)
              WithRst(ack, seq, a) == Segment(FALSE, ack, FALSE, TRUE, seq, 0, a, FALSE)
              AnySeq == New \cup Again(TRUE)
              Data == {WithData(seq, a) : seq \in AnySeq, a \in AckNos}
              Fin == {WithFin(seq, a) : seq \in New \cup Again(PeerDone), a \in AckNos}
              Rst == {WithRst(ack, seq, a) : ack \in BOOLEAN, seq \in {"old", "next", "zero"}, a \in AckNos}
              Opens == UNION {Of("SYN", {Syn(FALSE, 0)}), Of("SYN/ACK", IF st.active THEN Handshake ELSE {})}
              Open == UNION {Of("LATESYN", Handshake), Of("ACK", InOrder), Of("OLD", Old), Of("DUP3", Dup),
                             Of("LATE3", Late), Of("DATA", Data), Of("FIN", Fin)}
  <1>. HIDE DEF Syns, Others
  <1>5. {Syn(FALSE, 0)} \subseteq Syns /\ Handshake \subseteq Syns BY <1>1, <1>2
  <1>6. InOrder \subseteq Others /\ Old \subseteq Others BY <1>3
  <1>7. Data \subseteq Others
    <2>1. \A seq \in AnySeq, a \in AckNos : WithData(seq, a) \in Others BY <1>3, <1>4
    <2>. HIDE DEF WithData, AnySeq
    <2>. QED BY <2>1
  <1>8. Fin \subseteq Others
    <2>1. \A seq \in New \cup Again(PeerDone), a \in AckNos : WithFin(seq, a) \in Others BY <1>3, <1>4
    <2>. HIDE DEF WithFin
    <2>. QED BY <2>1
  <1>9. Rst \subseteq Others
    <2>1. \A ack \in BOOLEAN, seq \in {"old", "next", "zero"}, a \in AckNos : WithRst(ack, seq, a) \in Others
      BY <1>3
    <2>. HIDE DEF WithRst
    <2>. QED BY <2>1
  <1>10. Segments = Of("RST", Rst) \cup IF st.state \in {"CLOSED", "SYN_SENT", "SYN_RCVD"}
                                        THEN Opens \cup (IF st.state = "SYN_RCVD" THEN Open ELSE {})
                                        ELSE Open
    BY DEF Segments
  <1>. HIDE DEF Handshake, InOrder, Old, Dup, Late, Data, Fin, Rst, Syn
  <1>11. Opens \subseteq Syns BY <1>5
  <1>12. Open \subseteq Others BY <1>6, <1>7, <1>8 DEF Orderly
  <1>13. Of("RST", Rst) \subseteq Others BY <1>9
  <1>. HIDE DEF Open, Opens, Of
  <1>14. p \in Others \/ (p \in Syns /\ st.state \in Early)
    BY <1>10, <1>11, <1>12, <1>13 DEF Early
  <1>15. p \in Syns => p.syn /\ (p.ack => p.ackno = 1) BY DEF Syns
  <1>16. p \in Others => ~p.syn /\ ~p.third /\ p.ackno \in AckNos BY DEF Others
  <1>17. p.ackno \in AckNos => p.ackno \in Int /\ p.ackno >= 1 /\ Reached(st, p.ackno)
    BY DEF AckNos, Reached
  <1>. QED BY <1>14, <1>15, <1>16, <1>17 DEF Fit, Acks

LEMMA FinThisOK ==
    ASSUME PendInv
    PROVE  Whole(This, app.pc = "close") /\ Fuller(st, This)
  <1>1. Fuller(st, This) BY DEF PendInv, Whole, PendOK, Fuller, Kept, This, PendFields
  <1>. QED BY <1>1, FullerOK DEF PendInv, Whole, Fuller

\* A stream before the end of its handshake.
LEMMA StaysFresh ==
    ASSUME TimerInv, st.state \in Early
    PROVE  Fresh(st)
  BY DEF TimerInv, TimersOK, Loose, Handshaking, OneLink, Early, Fresh

\* A stream that the application has, or is about to close, owes no FIN yet.
LEMMA NotDue ==
    ASSUME CloseInv, ~app.left
    PROVE  ~FinDue(st) /\ "close" \notin st.queued
  BY DEF CloseInv, CloseOK

\* The application: it writes to a stream that owes no FIN, behind all that is on the wire.
LEMMA FinApplicationStep ==
    ASSUME CloseInv, TimerInv, PendInv, Application
    PROVE  PendInv'
  <1>. DEFINE asks == app.pc = "close"
  <1>0. Whole(This, asks) /\ Fuller(st, This) BY FinThisOK
  <1>1. Whole(This, FALSE) BY <1>0 DEF Whole, PendOK
  <1>2. PendFields \subseteq DOMAIN This /\ This.state = st.state /\ This.queued = st.queued /\ This.on_send = st.on_send
    BY <1>0, <1>1 DEF Whole, PendOK, Fuller, Kept, This, PendInv, PendFields
  <1>3. DOMAIN app = {"pc", "seen", "owns", "left"} /\ (app.owns => ~app.left) BY DEF CloseInv
  <1>a. ASSUME Whole(st', FALSE), app'.pc # "close" PROVE PendInv'
    BY <1>a DEF PendInv, Whole, PendOK
  <1>b. \A t : Fuller(This, t) => Whole(t, FALSE) BY <1>1, FullerOK DEF Whole, Fuller
  <1>4. CASE Connect
    <2>. DEFINE opened == [This EXCEPT !.state = "SYN_SENT", !.active = TRUE, !.socket = TRUE]
                queued == Enqueue(opened, "connect")
                full == [opened EXCEPT !.destroyq = 1]
    <2>1. This.state = "CLOSED" /\ app.pc = "idle" BY <1>2, <1>4 DEF Connect, Idle
    <2>2. Whole(opened, FALSE)
      BY <1>1, <2>1 DEF Whole, Pends, PendOK, PendFields, FinDue, FinStates, Early, Carrying, Owing
    <2>. HIDE DEF opened
    <2>3. Whole(queued, FALSE) BY <2>2, FinEnds DEF Whole
    <2>4. Fuller(opened, full) BY <2>2 DEF Whole, PendOK, PendFields, Fuller, Kept
    <2>. HIDE DEF queued, full
    <2>5. Whole(full, FALSE) BY <2>2, <2>4, FullerOK DEF Whole, Fuller
    <2>6. Whole(st', FALSE) /\ app' = [app EXCEPT !.owns = TRUE]
      BY <1>4, <2>3, <2>5 DEF Connect, opened, queued, full
    <2>7. app'.pc = "idle" BY <1>3, <2>1, <2>6
    <2>. QED BY <1>a, <2>6, <2>7
  <1>5. CASE Accept
    <2>. DEFINE out == Dequeue(This, "accept")
                given == [out EXCEPT !.socket = TRUE]
    <2>1. Whole(out, FALSE) BY <1>1, FinEnds DEF Whole
    <2>. HIDE DEF out
    <2>2. Fuller(out, given) BY <2>1 DEF Whole, PendOK, PendFields, Fuller, Kept
    <2>. HIDE DEF given
    <2>3. Whole(given, FALSE) BY <2>1, <2>2, FullerOK DEF Whole, Fuller
    <2>4. Whole(Fail(This, "use_after_free"), FALSE) BY <1>1, FinListsOK DEF Whole
    <2>5. Whole(st', FALSE) /\ (app' = app \/ app' = [app EXCEPT !.owns = TRUE]) /\ app.pc = "idle"
      BY <1>5, <2>1, <2>3, <2>4 DEF Accept, Idle, given, out
    <2>6. app'.pc = "idle" BY <1>3, <2>5
    <2>. QED BY <1>a, <2>5, <2>6
  <1>6. CASE WriteCopy
    <2>. DEFINE t == [This EXCEPT !.sndbuf = TRUE, !.len = @ + 1]
    <2>1. ~app.left /\ This.state \in Carrying BY <1>2, <1>3, <1>6 DEF WriteCopy, Carrying
    <2>2. ~FinDue(This) BY <1>2, <2>1, NotDue, <1>0 DEF FinDue, Fuller, Kept
    <2>3. Numbered(This) BY <1>1, <2>1 DEF Whole, PendOK
    <2>4. This.head >= 1 BY <1>0 DEF TimerInv, TimersOK, Loose, Fuller, Kept
    <2>5. PICK n \in Nat : n = This.len + 1 BY <1>1 DEF Whole, PendOK
    <2>6. t = [This EXCEPT !.sndbuf = TRUE, !.len = n] BY <2>5
    <2>7. /\ DOMAIN t = DOMAIN This /\ t.state = This.state
          /\ t.freed = This.freed /\ t.on_timewait = This.on_timewait /\ t.is_fin_sent = This.is_fin_sent
          /\ t.sndbuf = TRUE /\ t.head = This.head /\ t.len = n /\ t.snd_una = This.snd_una
          /\ t.snd_nxt = This.snd_nxt /\ t.fss = This.fss /\ t.wire = This.wire /\ t.queued = This.queued
          /\ t.on_send = This.on_send
      BY <1>2, <2>6 DEF PendFields
    <2>. HIDE DEF t
    <2>8. /\ End(This) \in Int /\ End(t) = End(This) + 1
          /\ This.head \in Int /\ This.snd_una \in Int /\ This.snd_nxt \in Int
      BY <1>1, <2>5, <2>7 DEF End, Whole, PendOK
    <2>9. This.snd_nxt >= 1 BY <2>3, <2>4, <2>8 DEF Numbered
    <2>10. ~This.on_send => Level(t)
      <3>. SUFFICES ASSUME ~This.on_send, NEW x \in Int, This.snd_nxt <= x, x < End(t), x \in This.wire
                    PROVE  FALSE
        BY <2>7 DEF Level
      <3>1. Level(This) BY <2>1, <2>3 DEF Numbered, Carrying
      <3>2. x = End(This) BY <2>8, <3>1 DEF Level
      <3>. QED BY <2>2, <2>3, <3>2 DEF Numbered, FinOnly, FinDue
    <2>11. FinOnly(t) BY <2>2, <2>3, <2>7, <2>8 DEF Numbered, FinOnly, FinDue
    <2>12. Numbered(t) BY <2>1, <2>2, <2>3, <2>7, <2>10, <2>11 DEF Numbered, FinDue, FinStates, Owing
    <2>13. FinDue(t) <=> FinDue(This) BY <2>7 DEF FinDue
    <2>14. t.state \notin Early \cup Owing BY <2>1, <2>7 DEF Early, Owing, Carrying
    <2>15. Whole(t, FALSE) BY <1>1, <2>7, <2>12, <2>13, <2>14 DEF Whole, Pends, PendOK
    <2>16. st' = t /\ app' = [app EXCEPT !.pc = "write"] BY <1>6 DEF WriteCopy, t
    <2>17. app'.pc = "write" BY <1>3, <2>16
    <2>. QED BY <1>a, <2>15, <2>16, <2>17
  <1>7. CASE WriteWake
    <2>1. Whole(Enqueue(This, "send"), FALSE) BY <1>1, FinEnds DEF Whole
    <2>2. Whole(st', FALSE) /\ app' = [app EXCEPT !.pc = "idle"] BY <1>1, <1>7, <2>1 DEF WriteWake
    <2>3. app'.pc = "idle" BY <1>3, <2>2
    <2>. QED BY <1>a, <2>2, <2>3
  <1>8. CASE Read
    <2>1. Whole(Enqueue(This, "ack"), FALSE) BY <1>1, FinEnds DEF Whole
    <2>2. Whole(st', FALSE) /\ app' = app /\ app.pc = "idle" BY <1>8, <2>1 DEF Read, Idle
    <2>. QED BY <1>a, <2>2
  <1>9. CASE CloseBegin \/ AbortBegin
    <2>. DEFINE t == [This EXCEPT !.socket = FALSE]
    <2>1. ~app.left BY <1>3, <1>9 DEF CloseBegin, AbortBegin
    <2>2. ~FinDue(This) /\ "close" \notin This.queued BY <1>0, <1>2, <2>1, NotDue DEF FinDue, Fuller, Kept
    <2>3. Whole(This, TRUE) BY <1>1, <2>2 DEF Whole, PendOK
    <2>4. Fuller(This, t) BY <1>2 DEF PendFields, Fuller, Kept
    <2>. HIDE DEF t
    <2>5. Whole(t, TRUE) /\ Whole(Fail(This, "use_after_free"), TRUE)
      BY <2>3, <2>4, FullerOK, FinListsOK DEF Whole, Fuller
    <2>6. Whole(st', TRUE) BY <1>9, <2>5 DEF CloseBegin, AbortBegin, t
    <2>. QED BY <2>6 DEF PendInv, Whole, PendOK
  <1>10. CASE CloseEnd
    <2>. DEFINE d == [This EXCEPT !.destroyq = @ + 1]
                q == Enqueue(This, "close")
    <2>1. PendOK(This, TRUE) BY <1>0, <1>10 DEF CloseEnd, Whole, PendOK
    <2>2. ~FinDue(This) BY <2>1 DEF PendOK
    <2>3. Fuller(This, d) BY <1>2 DEF PendFields, Fuller, Kept
    <2>4. Whole(q, FALSE)
      <3>. PICK Q : Q = This.queued \cup {"close"} OBVIOUS
      <3>1. /\ DOMAIN q = DOMAIN This /\ q.state = This.state
            /\ q.freed = This.freed /\ q.on_timewait = This.on_timewait /\ q.is_fin_sent = This.is_fin_sent
            /\ q.sndbuf = This.sndbuf /\ q.head = This.head /\ q.len = This.len /\ q.snd_una = This.snd_una
            /\ q.snd_nxt = This.snd_nxt /\ q.fss = This.fss /\ q.wire = This.wire /\ q.queued = Q
            /\ q.on_send = This.on_send
        BY <1>2 DEF Enqueue, PendFields
      <3>. HIDE DEF q
      <3>2. (\A a : Reached(q, a) <=> Reached(This, a)) /\ End(q) = End(This) BY <3>1 DEF Reached, End
      <3>3. (Level(q) <=> Level(This)) /\ (FinOnly(q) <=> FinOnly(This)) BY <3>1, <3>2 DEF Level, FinOnly
      <3>4. Numbered(This) => Numbered(q) BY <3>1, <3>2, <3>3 DEF Numbered
      <3>5. ~FinDue(q) /\ q.state \notin Owing BY <2>2, <3>1 DEF FinDue, FinStates, Owing
      <3>. QED BY <1>1, <3>1, <3>4, <3>5 DEF Whole, Pends, PendOK
    <2>. HIDE DEF d, q
    <2>5. Whole(st', FALSE) /\ app' = [app EXCEPT !.pc = "idle"]
      BY <1>1, <1>10, <1>b, <2>3, <2>4 DEF CloseEnd, d, q
    <2>6. app'.pc = "idle" BY <1>3, <2>5
    <2>. QED BY <1>a, <2>5, <2>6
  <1>11. CASE AbortEnd
    <2>. DEFINE c == Close(This)
                d == [c EXCEPT !.destroyq = @ + 1]
    <2>1. Whole(c, FALSE) BY <1>1, FinEnds DEF Whole
    <2>. HIDE DEF c
    <2>2. Fuller(c, d) BY <2>1 DEF Whole, PendOK, PendFields, Fuller, Kept
    <2>. HIDE DEF d
    <2>3. Whole(d, FALSE) BY <2>1, <2>2, FullerOK DEF Whole, Fuller
    <2>4. Whole(Enqueue(This, "reset"), FALSE) BY <1>1, FinEnds DEF Whole
    <2>5. Whole(st', FALSE) /\ app' = [app EXCEPT !.pc = "idle"]
      BY <1>1, <1>11, <2>3, <2>4 DEF AbortEnd, d, c
    <2>6. app'.pc = "idle" BY <1>3, <2>5
    <2>. QED BY <1>a, <2>5, <2>6
  <1>. QED BY <1>4, <1>5, <1>6, <1>7, <1>8, <1>9, <1>10, <1>11 DEF Application

LEMMA PendAlone ==
    ASSUME UNCHANGED app, Whole(st', app.pc = "close")
    PROVE  PendInv'
  BY DEF PendInv, Whole, PendOK

\* A segment or an expired timer.
LEMMA FinEventStep ==
    ASSUME Orderly, TimerInv, PendInv, Peer \/ Timers
    PROVE  PendInv'
  <1>. DEFINE asks == app.pc = "close"
  <1>0. Whole(This, asks) /\ Fuller(st, This) BY FinThisOK
  <1>1. UNCHANGED app
    BY DEF Peer, Receive, Timers, CheckRtmTimeout, CheckTimewaitExpire, CheckConnectionTimeout, Stay
  <1>. HIDE DEF asks
  <1>. SUFFICES Whole(st', asks) BY <1>1, PendAlone DEF asks
  <1>2. CASE Peer
    <2>1. PICK p \in Segments : Receive(p) BY <1>2 DEF Peer
    <2>2. Fit(st, p) BY OrderlySegments
    <2>. DEFINE new == [This EXCEPT !.state = "LISTEN"]
    <2>3. This.state \in Early => Fresh(This)
      <3>. HAVE This.state \in Early
      <3>1. Fresh(st) BY <1>0, StaysFresh DEF Fuller, Kept
      <3>. QED BY <1>0, <3>1 DEF Fresh, Fuller, Kept
    <2>4. Fit(This, p) BY <1>0, <2>2 DEF Fit, Acks, Reached, Fuller, Kept
    <2>5. ASSUME This.state = "CLOSED" PROVE Whole(new, asks) /\ Fresh(new) /\ Fit(new, p)
      <3>1. /\ PendFields \subseteq DOMAIN new /\ new.state = "LISTEN" /\ new.wire = This.wire
            /\ new.head = This.head /\ new.snd_una = This.snd_una /\ new.on_timewait = This.on_timewait
            /\ new.queued = This.queued
        BY <1>0 DEF Whole, PendOK, PendFields
      <3>2. Whole(new, asks)
        BY <1>0, <2>5 DEF Whole, Pends, PendOK, PendFields, FinDue, FinStates, Early, Carrying, Owing
      <3>. HIDE DEF new
      <3>3. This.state \in Early /\ new.state \in Early BY <2>5, <3>1 DEF Early
      <3>. QED BY <2>3, <2>4, <3>1, <3>2, <3>3 DEF Fresh, Fit, Acks, Reached
    <2>. HIDE DEF new
    <2>6. PICK room \in BOOLEAN, tx \in BOOLEAN :
             st' = HandleSockStream(IF st.state = "CLOSED" THEN new ELSE This, p, room, tx)
      BY <2>1 DEF Receive, new
    <2>7. CASE st.state = "CLOSED"
      <3>1. Whole(new, asks) /\ Fresh(new) /\ Fit(new, p) BY <1>0, <2>5, <2>7 DEF Fuller, Kept
      <3>. QED BY <2>6, <2>7, <3>1, FinPacket
    <2>8. CASE st.state # "CLOSED" BY <1>0, <2>3, <2>4, <2>6, <2>8, FinPacket
    <2>. QED BY <2>7, <2>8
  <1>3. ASSUME NEW tx \in BOOLEAN, CheckRtmTimeout(tx) PROVE Whole(st', asks)
    <2>1. PendOK(RemoveFromRTOList(This), asks) BY <1>0, FinListsOK DEF Whole
    <2>2. Whole(HandleRTO(RemoveFromRTOList(This), tx), asks) BY <2>1, FinTimeout
    <2>. QED BY <1>3, <2>2 DEF CheckRtmTimeout
  <1>4. CASE CheckTimewaitExpire
    <2>1. PendOK(Close(This), asks) BY <1>0, FinEnds DEF Whole
    <2>2. Whole(DestroyTCPStream(Close(This)), asks) BY <2>1, FinEnds
    <2>. QED BY <1>4, <2>2 DEF CheckTimewaitExpire
  <1>5. CASE CheckConnectionTimeout
    <2>1. PendOK(RemoveFromTimeoutList(This), asks) BY <1>0, FinListsOK DEF Whole
    <2>2. Whole(GiveUp(RemoveFromTimeoutList(This)), asks) BY <2>1, FinTimeout
    <2>. QED BY <1>5, <2>2 DEF CheckConnectionTimeout
  <1>. QED BY <1>2, <1>3, <1>4, <1>5 DEF Timers

\* The lists of the sender: the FIN that waits is put in line when the last of them lets go.
LEMMA FinWriteStep ==
    ASSUME NEW asks, Whole(This, asks), Fuller(st, This),
           This.on_send = st.on_send, This.on_ack = st.on_ack, This.on_control = st.on_control,
           Unsent(st) = Unsent(This), NEW tx \in BOOLEAN
    PROVE  /\ WriteControl(tx) => Whole(st', asks)
           /\ \A rcvd \in BOOLEAN : WriteAck(tx, rcvd) => Whole(st', asks)
           /\ \A n \in 0 .. MaxData : WriteData(n, tx) => Whole(st', asks)
  <1>0. PendFields \subseteq DOMAIN This /\ This.state = st.state BY DEF Whole, PendOK, Fuller, Kept
  <1>1. ASSUME WriteControl(tx) PROVE Whole(st', asks)
    <2>. DEFINE t == [This EXCEPT !.on_control = FALSE]
    <2>1. Kept(This, t) /\ t.state = This.state /\ t.on_send = This.on_send BY <1>0 DEF PendFields, Kept
    <2>. HIDE DEF t
    <2>2. PendOK(t, asks) BY <2>1, FullerOK DEF Whole
    <2>3. ~ControlMustWait(st) => Whole(SendControlPacket(t), asks)
      <3>1. ~ControlMustWait(st) => (t.state \in {"FIN_WAIT_1", "LAST_ACK"} => ~t.on_send)
        BY <1>0, <2>1 DEF ControlMustWait
      <3>. QED BY <2>2, <3>1, FinControl
    <2>. QED BY <1>1, <2>3 DEF WriteControl, t
  <1>2. ASSUME NEW rcvd \in BOOLEAN, WriteAck(tx, rcvd) PROVE Whole(st', asks)
    <2>. PICK kept : kept = (/\ st.state \in {"ESTABLISHED", "CLOSE_WAIT", "FIN_WAIT_1", "FIN_WAIT_2", "TIME_WAIT"}
                             /\ rcvd /\ ~tx)
      OBVIOUS
    <2>. DEFINE r == [This EXCEPT !.on_ack = kept]
    <2>1. /\ Kept(This, r) /\ r.on_control = This.on_control /\ r.control_waiting = This.control_waiting
          /\ r.on_rto = This.on_rto /\ r.on_send = This.on_send /\ r.state = This.state
      BY <1>0 DEF PendFields, Kept
    <2>2. st' = IF ~st.on_ack THEN This ELSE IF st.on_send THEN r ELSE ReleaseControl(r, tx)
      BY <1>2 DEF WriteAck
    <2>. HIDE DEF r
    <2>3. PendOK(r, asks) BY <2>1, FullerOK DEF Whole
    <2>4. Beyond(r) <=> Beyond(This) BY <2>1 DEF Kept, Beyond, Reached, End
    <2>5. Pends(r) \/ r.control_waiting BY <2>1, <2>4 DEF Whole, Pends, OnItsWay
    <2>6. st.on_send => Pends(r) BY <2>1, <2>4 DEF Whole, Pends, OnItsWay
    <2>7. Whole(ReleaseControl(r, tx), asks) BY <2>3, <2>5, FinControl
    <2>. QED BY <2>2, <2>3, <2>6, <2>7 DEF Whole
  <1>3. ASSUME NEW n \in 0 .. MaxData, WriteData(n, tx) PROVE Whole(st', asks)
    <2>. DEFINE flushes == st.state \in {"ESTABLISHED", "CLOSE_WAIT", "FIN_WAIT_1", "LAST_ACK"}
                r == IF flushes THEN FlushTCPSendingBuffer(This, n) ELSE This
                done == [r EXCEPT !.on_send = FALSE]
    <2>1. n \in Nat /\ n <= Unsent(This) BY <1>3 DEF WriteData
    <2>2. This.on_send =>
             /\ PendOK(r, asks) /\ Pends(r) /\ r.state = This.state
             /\ r.on_ack = This.on_ack
             /\ flushes /\ n >= Unsent(This) => Level(r)
      <3>. HAVE This.on_send
      <3>1. CASE flushes BY <1>0, <2>1, <3>1, FinSending DEF Whole
      <3>2. CASE ~flushes BY <3>2 DEF Whole
      <3>. QED BY <3>1, <3>2
    <2>3. \/ st' = This
          \/ st.on_send /\ st' = r
          \/ /\ st.on_send /\ (flushes => ~(n < Unsent(This)))
             /\ st' = IF st.on_ack THEN done ELSE ReleaseControl(done, tx)
      BY <1>3 DEF WriteData
    <2>. HIDE DEF r
    <2>4. ASSUME This.on_send, flushes => ~(n < Unsent(This))
          PROVE  /\ PendOK(done, asks) /\ (Pends(done) \/ done.control_waiting)
                 /\ st.on_ack => Pends(done)
      <3>1. /\ DOMAIN done = DOMAIN r /\ done.state = r.state
            /\ done.freed = r.freed /\ done.on_timewait = r.on_timewait /\ done.is_fin_sent = r.is_fin_sent
            /\ done.sndbuf = r.sndbuf /\ done.head = r.head /\ done.len = r.len /\ done.snd_una = r.snd_una
            /\ done.snd_nxt = r.snd_nxt /\ done.fss = r.fss /\ done.wire = r.wire /\ done.queued = r.queued
            /\ done.on_control = r.on_control /\ done.control_waiting = r.control_waiting
            /\ done.on_ack = r.on_ack /\ done.on_rto = r.on_rto
        BY <2>2, <2>4 DEF PendOK, PendFields
      <3>. HIDE DEF done
      <3>2. (\A a : Reached(done, a) <=> Reached(r, a)) /\ End(done) = End(r) BY <3>1 DEF Reached, End
      <3>3. (Level(done) <=> Level(r)) /\ (FinOnly(done) <=> FinOnly(r)) /\ (Beyond(done) <=> Beyond(r))
        BY <3>1, <3>2 DEF Level, FinOnly, Beyond
      <3>4. flushes => Level(done)
        <4>1. Unsent(This) \in Int BY DEF Unsent, Whole, PendOK
        <4>2. flushes => n >= Unsent(This) BY <2>1, <2>4, <4>1
        <4>. QED BY <2>2, <2>4, <3>3, <4>2
      <3>5. done.state \in Carrying \cup Owing /\ ~flushes => done.state = "CLOSING"
        BY <1>0, <2>2, <2>4, <3>1 DEF Carrying, Owing
      <3>6. done.state \in Carrying \cup Owing => Numbered(done)
        <4>. HAVE done.state \in Carrying \cup Owing
        <4>1. Numbered(r) BY <2>2, <2>4, <3>1 DEF PendOK
        <4>2. done.state # "CLOSING" => Level(done) BY <3>4, <3>5
        <4>. QED BY <3>1, <3>2, <3>3, <4>1, <4>2 DEF Numbered
      <3>7. PendOK(done, asks) BY <2>2, <2>4, <3>1, <3>6 DEF PendOK, FinDue
      <3>8. Pends(done) \/ done.control_waiting BY <2>2, <2>4, <3>1, <3>3 DEF Pends, OnItsWay
      <3>9. st.on_ack => Pends(done) BY <2>2, <2>4, <3>1, <3>3 DEF Pends, OnItsWay
      <3>. QED BY <3>7, <3>8, <3>9
    <2>. HIDE DEF done
    <2>5. This.on_send /\ (flushes => ~(n < Unsent(This))) => Whole(ReleaseControl(done, tx), asks)
      BY <2>4, FinControl
    <2>. QED BY <2>2, <2>3, <2>4, <2>5 DEF Whole
  <1>. QED BY <1>1, <1>2, <1>3

\* The queues of the application and the lists of the sender.
LEMMA FinLoopStep ==
    ASSUME PendInv, Loop
    PROVE  PendInv'
  <1>. DEFINE asks == app.pc = "close"
  <1>0. Whole(This, asks) /\ Fuller(st, This) BY FinThisOK
  <1>1. UNCHANGED app
    BY DEF Loop, ReceiveDone, TimersDone, HandleSend, HandleAck, HandleDestroy, HandleConnect, HandleClose,
           HandleCloseInt, HandleReset, HandleResetInt, WriteControl, WriteAck, WriteData, Drain
  <1>2. /\ This.on_send = st.on_send /\ This.on_ack = st.on_ack /\ This.on_control = st.on_control
        /\ This.queued = st.queued /\ Unsent(st) = Unsent(This)
    <2>1. PendFields \subseteq DOMAIN st BY DEF PendInv, Whole, PendOK
    <2>2. This.on_send = st.on_send /\ This.on_ack = st.on_ack /\ This.on_control = st.on_control
      BY <2>1 DEF This, PendFields
    <2>3. Unsent(st) = Unsent(This) BY <1>0 DEF Fuller, Kept, Unsent
    <2>. QED BY <1>0, <2>2, <2>3 DEF Fuller, Kept
  <1>. HIDE DEF asks
  <1>. SUFFICES Whole(st', asks) BY <1>1, PendAlone DEF asks
  <1>3. Whole(Fail(This, "use_after_free"), asks) BY <1>0, FinListsOK DEF Whole
  <1>4. ASSUME NEW q, NEW handled, q \in st.queued => Whole(handled, asks), Drain(q, handled)
        PROVE  Whole(st', asks)
    BY <1>0, <1>3, <1>4 DEF Drain, Leave
  <1>d. \A q : Whole(Dequeue(This, q), asks) BY <1>0, FinEnds DEF Whole
  <1>5. CASE ReceiveDone \/ TimersDone BY <1>0, <1>5 DEF ReceiveDone, TimersDone, Leave
  <1>6. CASE HandleSend \/ HandleAck
    <2>1. /\ Whole(AddtoSendList(Dequeue(This, "send")), asks)
          /\ Whole(EnqueueACK(Dequeue(This, "ack")), asks)
      BY <1>d, FinListsOK DEF Whole
    <2>. QED BY <1>4, <1>6, <2>1 DEF HandleSend, HandleAck
  <1>7. CASE HandleDestroy
    <2>. DEFINE t == [This EXCEPT !.destroyq = @ - 1]
    <2>1. Fuller(This, t) BY <1>0 DEF Whole, PendOK, PendFields, Fuller, Kept
    <2>. HIDE DEF t
    <2>2. PendOK(t, asks) BY <1>0, <2>1, FullerOK DEF Whole, Fuller
    <2>3. Whole(DestroyTCPStream(t), asks) BY <2>2, FinEnds
    <2>. QED BY <1>0, <1>7, <2>3 DEF HandleDestroy, Leave, t
  <1>8. ASSUME NEW tx \in BOOLEAN, HandleConnect(tx) PROVE Whole(st', asks)
    <2>. DEFINE c == Dequeue(This, "connect")
                handled == IF c.state # "SYN_SENT" THEN Fail(c, "connect_exit") ELSE AddtoControlList(c, tx)
    <2>1. Whole(c, asks) BY <1>d
    <2>. HIDE DEF c
    <2>2. Whole(handled, asks) BY <2>1, FinListsOK, FinControl DEF Whole
    <2>3. Drain("connect", handled) BY <1>8 DEF HandleConnect, c
    <2>. HIDE DEF handled
    <2>. QED BY <1>4, <2>2, <2>3
  <1>9. ASSUME NEW tx \in BOOLEAN, HandleClose(tx) PROVE Whole(st', asks)
    <2>. DEFINE c == Dequeue(This, "close")
    <2>1. ASSUME "close" \in st.queued PROVE Whole(CloseRequest(c, tx), asks)
      <3>1. ~asks /\ ~FinDue(This) BY <1>0, <1>2, <2>1 DEF Whole, PendOK
      <3>2. /\ "close" \notin c.queued /\ ("close_int" \in c.queued => "close_int" \in This.queued)
            /\ c.state = This.state /\ c.is_fin_sent = This.is_fin_sent
        BY <1>0 DEF Dequeue, Whole, PendOK, PendFields
      <3>3. PendOK(c, asks) BY <1>d DEF Whole
      <3>. HIDE DEF c
      <3>4. ~FinDue(c) BY <3>1, <3>2 DEF FinDue
      <3>. QED BY <3>1, <3>2, <3>3, <3>4, FinCloseOne
    <2>. QED BY <1>4, <1>9, <2>1 DEF HandleClose
  <1>10. ASSUME NEW tx \in BOOLEAN, HandleCloseInt(tx) PROVE Whole(st', asks)
    <2>. DEFINE c == Dequeue(This, "close_int")
    <2>1. Whole(c, asks) BY <1>d
    <2>2. ASSUME "close_int" \in st.queued PROVE Whole(AddtoControlList(Closing(c), tx), asks)
      <3>1. ~asks /\ "close" \notin This.queued BY <1>0, <1>2, <2>2 DEF Whole, PendOK, FinDue
      <3>2. /\ "close" \in c.queued => "close" \in This.queued
            /\ c.state = This.state /\ c.sndbuf = This.sndbuf /\ c.fss = This.fss /\ c.head = This.head
            /\ c.len = This.len /\ c.snd_una = This.snd_una
        BY <1>0 DEF Dequeue, Whole, PendOK, PendFields
      <3>3. FssOK(This) BY <1>0, <1>2, <2>2 DEF Whole, PendOK, Numbered, FssOK
      <3>. HIDE DEF c
      <3>4. FssOK(c) BY <3>2, <3>3 DEF FssOK, End
      <3>5. PendOK(c, asks) /\ ~asks /\ "close" \notin c.queued BY <2>1, <3>1, <3>2 DEF Whole
      <3>. QED BY <3>4, <3>5, FinClosing
    <2>. HIDE DEF c
    <2>. QED BY <1>0, <1>3, <1>10, <2>1, <2>2 DEF HandleCloseInt, c
  <1>11. ASSUME NEW tx \in BOOLEAN, HandleReset(tx) PROVE Whole(st', asks)
    <2>. DEFINE r == RemoveFromTimeoutList(Dequeue(This, "reset"))
                handled == IF r.have_reset
                           THEN IF r.state # "CLOSED_RSVD" THEN DestroyTCPStream(Close(r)) ELSE r
                           ELSE IF r.on_control \/ r.on_send \/ r.on_ack THEN Enqueue(r, "reset_int")
                           ELSE IF r.state # "CLOSED_RSVD" THEN AddtoControlList(Close(r), tx)
                           ELSE r
    <2>1. Whole(r, asks) BY <1>d, FinListsOK DEF Whole
    <2>. HIDE DEF r
    <2>2. Whole(Close(r), asks) /\ Whole(Enqueue(r, "reset_int"), asks) BY <2>1, FinEnds DEF Whole
    <2>3. Whole(DestroyTCPStream(Close(r)), asks) /\ Whole(AddtoControlList(Close(r), tx), asks)
      BY <2>2, FinEnds, FinControl DEF Whole
    <2>4. Whole(handled, asks) BY <2>1, <2>2, <2>3
    <2>5. Drain("reset", handled) BY <1>11 DEF HandleReset, r
    <2>. HIDE DEF handled
    <2>. QED BY <1>4, <2>4, <2>5
  <1>12. ASSUME NEW tx \in BOOLEAN, HandleResetInt(tx) PROVE Whole(st', asks)
    <2>. DEFINE r == Dequeue(This, "reset_int")
    <2>1. Whole(r, asks) BY <1>d
    <2>. HIDE DEF r
    <2>2. PendOK(Close(r), asks) BY <2>1, FinEnds DEF Whole
    <2>3. Whole(AddtoControlList(Close(r), tx), asks) BY <2>2, FinControl
    <2>. QED BY <1>0, <1>3, <1>12, <2>1, <2>3 DEF HandleResetInt, r
  <1>13. ASSUME NEW tx \in BOOLEAN,
                WriteControl(tx) \/ (\E rcvd \in BOOLEAN : WriteAck(tx, rcvd)) \/ (\E n \in 0 .. MaxData : WriteData(n, tx))
         PROVE  Whole(st', asks)
    BY <1>0, <1>2, <1>13, FinWriteStep
  <1>. QED BY <1>5, <1>6, <1>7, <1>8, <1>9, <1>10, <1>11, <1>12, <1>13 DEF Loop
-----------------------------------------------------------------------------
\* While segments come in order the invariant holds in every state: the peer can acknowledge
\* nothing from snd_nxt on while a FIN is owed and only the timer will send it.
THEOREM PendInvariant == Orderly => (Spec => []PendInv)
  <1>. SUFFICES ASSUME Orderly PROVE Spec => []PendInv OBVIOUS
  <1>1. Init => PendInv
    BY DEF Init, Unborn, PendInv, Whole, Pends, PendOK, PendFields, FinDue, FinStates, Early, Carrying, Owing
  <1>2. CloseInv /\ TimerInv /\ PendInv /\ [Next]_vars => PendInv'
    <2>1. PendInv /\ UNCHANGED vars => PendInv' BY DEF PendInv, Whole, PendOK, vars
    <2>. QED BY <2>1, FinApplicationStep, FinEventStep, FinLoopStep DEF Next, Crashed
  <1>. QED BY <1>1, <1>2, CloseInvariant, TimerInvariant, PTL DEF Spec

\* A stream that owes its FIN is in line for it, waits for data or acks that are in line, or
\* has its timer running, whatever its control list, send list and ack list do to each other
\* (tcp_out.c) and wherever its timer is stopped (tcp_in.c): as long as segments come in
\* order.
THEOREM FinIsPending == Orderly => (Spec => []FinPending)
  <1>. SUFFICES ASSUME Orderly PROVE Spec => []FinPending OBVIOUS
  <1>1. PendInv => FinPending BY DEF PendInv, Whole, Pends, OnItsWay, Owing, InLine, FinPending
  <1>2. Spec => []PendInv BY PendInvariant
  <1>. QED BY <1>1, <1>2, PTL

\* What is on the wire and not acknowledged will be sent again once the handshake is over,
\* however far a timeout took snd_nxt back: as long as segments come in order.  What lies
\* before snd_nxt has its timer (Armed), what lies behind it is on the send list (Level),
\* and what lies behind the buffer is the FIN (FinOnly).
THEOREM DataIsResent == Orderly => (Spec => [](st.state \in Carrying \cup Owing => RetransmissionArmed))
  <1>. SUFFICES ASSUME Orderly PROVE Spec => [](st.state \in Carrying \cup Owing => RetransmissionArmed) OBVIOUS
  <1>1. TimerInv /\ PendInv => (st.state \in Carrying \cup Owing => RetransmissionArmed)
    <2>. SUFFICES ASSUME TimerInv, PendInv, st.state \in Carrying \cup Owing, ~InLine,
                         NEW n \in st.wire, n >= st.snd_una, ~(st.is_fin_sent /\ n = st.fss)
                  PROVE  FALSE
      BY DEF RetransmissionArmed
    <2>1. Numbered(st) /\ End(st) \in Int /\ st.snd_una \in Int /\ st.snd_nxt \in Int
      BY DEF PendInv, Whole, PendOK, End
    <2>2. n \in Int BY <2>1 DEF Numbered, FinOnly
    <2>3. n < End(st) BY <2>1, <2>2 DEF Numbered, FinOnly
    <2>4. ~st.on_rto /\ ~st.on_control /\ ~st.on_send /\ ~(st.control_waiting /\ st.on_ack) BY DEF InLine
    <2>5. CASE st.state = "CLOSING" BY <2>4, <2>5 DEF PendInv, Whole, Pends, OnItsWay, Owing
    <2>6. CASE st.state # "CLOSING"
      <3>1. n < st.snd_nxt BY <2>1, <2>2, <2>3, <2>4, <2>6 DEF Numbered, Level
      <3>. QED BY <2>1, <2>2, <2>4, <3>1 DEF TimerInv, TimersOK, Armed, Carrying, Owing, Quiet
    <2>. QED BY <2>5, <2>6
  <1>. QED BY <1>1, PendInvariant, TimerInvariant, PTL
=============================================================================
