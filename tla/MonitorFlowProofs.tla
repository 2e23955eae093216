-------------------------- MODULE MonitorFlowProofs --------------------------
(***************************************************************************)
(* Proofs about MonitorFlow, for any amount of data, any timeout, any      *)
(* timewait interval and any sides whose monitoring may be stopped.        *)
(*                                                                         *)
(* The invariant says of the hosts what TCP makes of them, and of each     *)
(* stream how it relates to both hosts: what its state claims, what its    *)
(* FIN and its receive buffer are, what it has missed (nothing, of hosts   *)
(* that keep little enough in flight) and how far it may lag behind.       *)
(***************************************************************************)
EXTENDS MonitorFlow, FiniteSetTheorems, TLAPS

HostType == [sent : Nat, fin : BOOLEAN, rcvd : SUBSET Nat, got : Nat, una : Nat, gone : BOOLEAN]

State == {"LISTEN", "SYN_SENT", "SYN_RCVD", "ESTABLISHED", "CLOSE_WAIT", "FIN_WAIT_1",
          "FIN_WAIT_2", "CLOSING", "LAST_ACK", "TIME_WAIT", "CLOSED_RSVD"}

StreamType ==
    [state : State, fss : Nat, is_fin_sent : BOOLEAN, rcv_nxt : Nat, rcv_wnd : Int, snd_nxt : Nat,
     have : SUBSET Nat, status_mgmt : BOOLEAN, on_timeout_list : BOOLEAN, on_timewait_list : BOOLEAN, age : Nat, tw_age : Nat]

PacketType ==
    [seq : Nat, len : 0 .. 1, syn : BOOLEAN, fin : BOOLEAN, rst : BOOLEAN, ack : BOOLEAN, ack_seq : Nat]

\* The number behind the data of host x.
DataEnd(h, x) == h[x].sent - (IF h[x].fin THEN 1 ELSE 0)

\* What a host knows to have arrived did, and what arrived was sent; it goes on
\* from its SYN when the handshake is done, and keeps to Flight.
HostsOK(h) ==
    /\ h \in [Side -> HostType]
    /\ \A x \in Side :
        /\ h[x].una <= h[Peer(x)].got /\ h[x].got <= h[Peer(x)].sent
        /\ IsFiniteSet(h[x].rcvd) /\ \A i \in h[x].rcvd : i < h[Peer(x)].sent
        /\ \A i \in 0 .. h[x].got - 1 : i \in h[x].rcvd
        /\ h[x].sent > 1 => h[x].got > 0 /\ h[x].una > 0
        /\ h[x].fin => h[x].sent > 1
        /\ DataEnd(h, x) > 1 => DataEnd(h, x) <= h[x].una + Flight
    /\ h["CLI"].rcvd # {} => h["CLI"].una > 0
    /\ h["SVR"].sent > 0 => h["SVR"].got > 0

\* The states of a stream that has seen its host's FIN, and its peer's, and of
\* one that still takes payload.
OwnFin == {"FIN_WAIT_1", "FIN_WAIT_2", "CLOSING", "LAST_ACK", "TIME_WAIT"}
PeerFin == {"CLOSE_WAIT", "CLOSING", "LAST_ACK", "TIME_WAIT"}
Reading == {"ESTABLISHED", "FIN_WAIT_1", "FIN_WAIT_2"}

\* The peer of x has the FIN of x, and all before it; it has the FIN.
Reached(h, x) == h[x].fin /\ h[Peer(x)].got = h[x].sent
FinTaken(h, x) == h[x].fin /\ h[x].sent - 1 \in h[Peer(x)].rcvd
SomeoneGone(h) == \E y \in Side : h[y].gone

\* What the state of stream s of side x says of the hosts.
StateTrue(s, x, h) ==
    /\ s.state # "LISTEN" /\ s.state # (IF x = "CLI" THEN "SYN_RCVD" ELSE "SYN_SENT")
    /\ s.state \notin {"LISTEN", "SYN_SENT", "SYN_RCVD", "CLOSED_RSVD"} =>
           h["CLI"].sent > 0 /\ h["SVR"].sent > 0
    /\ s.state \in OwnFin => h[x].fin /\ s.is_fin_sent
    /\ s.is_fin_sent => h[x].fin /\ s.fss + 1 = h[x].sent
    /\ s.state \in PeerFin => h[Peer(x)].fin /\ s.rcv_nxt = h[Peer(x)].sent
    /\ s.state = "LAST_ACK" => Reached(h, Peer(x))
    /\ s.state \in {"FIN_WAIT_2", "TIME_WAIT"} => Reached(h, x)
    /\ s.state = "CLOSED_RSVD" => Reached(h, x) \/ SomeoneGone(h)
    /\ s.on_timewait_list => s.state \in {"TIME_WAIT", "CLOSED_RSVD"}
    /\ s.on_timeout_list => x = "CLI"

\* Only data bytes of y; all the data of y that x has.
DataOnly(have, y, h) == \A i \in have : 1 <= i /\ i < h[y].sent /\ (h[y].fin => i # h[y].sent - 1)
Seen(have, x, y, h) == \A i \in h[x].rcvd \ {0} : (h[y].fin /\ i = h[y].sent - 1) \/ i \in have

\* All up to the next byte is stored, and not that.
Contiguous(s) == s.rcv_nxt > 0 /\ s.rcv_nxt \notin s.have /\ \A i \in 1 .. s.rcv_nxt - 1 : i \in s.have

\* The receive buffer of a monitored stream: data only; all that is before
\* rcv_nxt, and all there is when the peer's FIN is taken.
BufferTrue(s, x, h) ==
    LET y == Peer(x)
    IN  /\ DataOnly(s.have, y, h)
        /\ s.state \in {"SYN_SENT", "SYN_RCVD"} => s.have = {}
        /\ s.state \in Reading => Contiguous(s)
        /\ s.state \in PeerFin => \A i \in 1 .. h[y].sent - 2 : i \in s.have
        /\ s.state = "CLOSED_RSVD" => SomeoneGone(h) \/ \A i \in 1 .. h[y].sent - 2 : i \in s.have

\* With hosts that leave it the space, it has all its host has, and a window for
\* all that may come.
NothingMissed(s, x, h) ==
    Spacious => /\ Seen(s.have, x, Peer(x), h)
                /\ s.state \in Reading \cup {"SYN_SENT", "SYN_RCVD"} => s.rcv_wnd >= Flight

\* How far a monitored stream may lag behind the hosts.
InStep(s, x, h) ==
    LET y == Peer(x)
    IN  /\ s.state = "SYN_SENT" => h[x].rcvd = {} /\ s.snd_nxt = 1
        /\ s.state = "SYN_RCVD" => h[x].rcvd \subseteq {0} /\ h[x].una = 0
        /\ FinTaken(h, x) => s.state \in OwnFin \cup {"CLOSED_RSVD"}
        /\ s.state \in {"CLOSING", "LAST_ACK"} => h[x].una < h[x].sent
        /\ s.state = "LAST_ACK" /\ FinTaken(h, x) => h[y].una = h[y].sent
        /\ s.state = "CLOSED_RSVD" => SomeoneGone(h) \/ (h[y].fin /\ s.rcv_nxt = h[y].sent)

StreamOK(s, x, h) ==
    /\ s \in StreamType /\ IsFiniteSet(s.have)
    /\ StateTrue(s, x, h)
    /\ s.status_mgmt => BufferTrue(s, x, h) /\ NothingMissed(s, x, h) /\ InStep(s, x, h)

\* With no timewait interval two monitored streams are not both over.
NotBothOver ==
    tw = 0 => \E x \in Side : ~flow[x].status_mgmt \/ flow[x].state \notin {"TIME_WAIT", "CLOSED_RSVD"}

FlowInv ==
    /\ HostsOK(host) /\ tw \in Nat
    /\ Alive => /\ flow \in [Side -> StreamType]
                /\ \A x \in Side : StreamOK(flow[x], x, host)
                /\ NotBothOver

\* A monitored stream is not idle for longer than the connection.
AgeInv ==
    /\ idle \in Nat
    /\ Alive => \A x \in Side : flow[x].status_mgmt => flow[x].age <= idle
-----------------------------------------------------------------------------
(* Numbers.                                                                *)

\* A set of numbers has a least one: the intervals that end in its members
\* are finite sets, and a least interval is one by inclusion.
LEMMA LeastNat ==
    ASSUME NEW T \in SUBSET Nat, T # {}
    PROVE  \E m \in T : \A n \in T : m <= n
<1> DEFINE F == {0 .. n : n \in T}
<1>1. F \subseteq FiniteSubsetsOf(Nat) /\ F # {}
  <2>1. \A n \in T : IsFiniteSet(0 .. n) /\ 0 .. n \subseteq Nat
    BY FS_Interval
  <2> QED
    BY <2>1 DEF FiniteSubsetsOf
<1>2. PICK I \in F : \A J \in F : ~(<<J, I>> \in StrictSubsetOrdering(Nat))
  <2>1. IsWellFoundedOn(StrictSubsetOrdering(Nat), FiniteSubsetsOf(Nat))
    BY FS_StrictSubsetOrderingWellFounded
  <2> HIDE DEF F
  <2> QED
    BY <1>1, <2>1, WFMin
<1>3. PICK m \in T : I = 0 .. m
  OBVIOUS
<1>4. ASSUME NEW n \in T, ~(m <= n) PROVE FALSE
  <2>1. 0 .. n \in F /\ 0 .. n \subseteq 0 .. m /\ 0 .. n \in SUBSET Nat /\ 0 .. m \in SUBSET Nat
    BY <1>4
  <2>2. m \in 0 .. m /\ m \notin 0 .. n
    BY <1>4
  <2>3. 0 .. n # 0 .. m
    BY <2>2
  <2>4. PICK J \in SUBSET Nat : J = 0 .. n
    BY <2>1
  <2>5. J \in F /\ J \subseteq I /\ J # I /\ I \in SUBSET Nat
    BY <1>3, <2>1, <2>3, <2>4
  <2>6. <<J, I>> \in StrictSubsetOrdering(Nat)
    BY <2>5 DEF StrictSubsetOrdering
  <2> QED
    BY <1>2, <2>5, <2>6
<1> QED
  BY <1>4

\* What rcv_nxt becomes when the buffer merges what it has.
LEMMA FirstGapIs ==
    ASSUME NEW have \in SUBSET Nat, IsFiniteSet(have), NEW next \in Nat
    PROVE  /\ FirstGap(have, next) \in Nat /\ FirstGap(have, next) >= next /\ FirstGap(have, next) \notin have
           /\ \A i \in next .. FirstGap(have, next) - 1 : i \in have
<1> DEFINE c == Cardinality(have)
           N == next .. next + c
           T == {n \in N : n \notin have}
<1>1. c \in Nat
  BY FS_CardinalityType
<1>2. T # {}
  <2> SUFFICES ASSUME N \subseteq have PROVE FALSE
    OBVIOUS
  <2>1. Cardinality(N) <= c
    BY FS_Subset
  <2>2. Cardinality(N) = c + 1
    BY <1>1, FS_Interval
  <2> QED
    BY <1>1, <2>1, <2>2
<1>3. T \in SUBSET Nat
  BY <1>1
<1>4. PICK m \in T : \A n \in T : m <= n
  BY <1>2, <1>3, LeastNat
<1>5. m \in N /\ m \notin have /\ \A i \in next .. m - 1 : i \in have
  BY <1>1, <1>4
<1>6. /\ FirstGap(have, next) \in N /\ FirstGap(have, next) \notin have
      /\ \A i \in next .. FirstGap(have, next) - 1 : i \in have
  BY <1>5 DEF FirstGap
<1> QED
  BY <1>1, <1>6
-----------------------------------------------------------------------------
(* The hosts.                                                              *)

LEMMA Sides == /\ Side = {"CLI", "SVR"} /\ Peer("CLI") = "SVR" /\ Peer("SVR") = "CLI"
               /\ \A x \in Side : Peer(x) \in Side /\ Peer(x) # x /\ Peer(Peer(x)) = x
BY DEF Side, Peer

\* Host x goes from g[x] to h[x] and sends p.
Sends(g, h, x, p) ==
    /\ h \in [Side -> HostType] /\ p \in PacketType /\ h[Peer(x)] = g[Peer(x)]
    /\ ~g[x].gone /\ (h[x].gone <=> p.rst)
    /\ h[x].got = g[x].got /\ h[x].rcvd = g[x].rcvd /\ h[x].una = g[x].una /\ h[x].sent >= g[x].sent
    /\ DataEnd(h, x) > 1 => DataEnd(h, x) <= h[x].una + Flight
    /\ g[x].fin => h[x].fin /\ h[x].sent = g[x].sent
    /\ h[x].fin => g[x].fin \/ h[x].sent > g[x].sent
    /\ h[x].sent > 1 => g[x].got > 0 /\ g[x].una > 0
    /\ h[x].fin => h[x].sent > 1
    /\ x = "SVR" /\ h[x].sent > 0 => g[x].got > 0
    /\ (p.ack <=> g[x].got > 0) /\ p.ack_seq = g[x].got
    /\ p.rst => p.len = 0 /\ ~p.fin
    /\ p.syn => p.seq = 0 /\ p.len = 0 /\ ~p.fin /\ ~p.rst /\ h[x].sent > 0
    /\ p.fin => h[x].fin /\ p.seq + p.len + 1 = h[x].sent
    /\ ~p.syn => p.ack
    /\ ~p.syn /\ ~p.rst => p.seq > 0 /\ g[x].una > 0
    /\ p.len = 1 /\ h[x].fin => p.seq # h[x].sent - 1
    /\ ~p.rst => /\ p.seq >= g[x].una
                 /\ p.seq + p.len + (IF p.syn \/ p.fin THEN 1 ELSE 0) <= h[x].sent

LEMMA SegmentIs ==
    ASSUME NEW x \in Side, host[x] \in HostType
    PROVE  \E ack \in BOOLEAN :
               /\ ack <=> host[x].got > 0
               /\ \A seq, len, syn, fin :
                      Segment(x, seq, len, syn, fin) =
                          [seq |-> seq, len |-> len, syn |-> syn, fin |-> fin, rst |-> FALSE, ack |-> ack,
                           ack_seq |-> host[x].got]
<1>1. PICK ack \in BOOLEAN : ack <=> host[x].got > 0
  OBVIOUS
<1>2. ack = (host[x].got > 0)
  BY <1>1
<1>3. ASSUME NEW seq, NEW len, NEW syn, NEW fin
      PROVE  Segment(x, seq, len, syn, fin) =
                 [seq |-> seq, len |-> len, syn |-> syn, fin |-> fin, rst |-> FALSE, ack |-> ack,
                  ack_seq |-> host[x].got]
  BY <1>2 DEF Segment
<1> QED
  BY <1>1, <1>3, Zenon

\* Sends, from the fields.
LEMMA SendsIs ==
    ASSUME NEW g \in [Side -> HostType], NEW h \in [Side -> HostType], NEW x \in Side, HostsOK(g),
           h[Peer(x)] = g[Peer(x)], ~g[x].gone, NEW p \in PacketType,
           h[x].gone <=> p.rst, p.ack <=> g[x].got > 0, p.ack_seq = g[x].got,
           h[x].got = g[x].got, h[x].rcvd = g[x].rcvd, h[x].una = g[x].una,
           \/ /\ p.syn /\ p.seq = 0 /\ p.len = 0 /\ ~p.fin /\ ~p.rst /\ (h[x].fin <=> g[x].fin) /\ g[x].una = 0
              /\ (h[x].sent = g[x].sent /\ g[x].sent > 0) \/ (h[x].sent = 1 /\ g[x].sent = 0)
              /\ x = "SVR" => g[x].got > 0
           \/ /\ ~p.syn /\ g[x].got > 0 /\ g[x].una > 0 /\ p.seq = g[x].sent /\ ~g[x].fin /\ ~p.rst
              /\ (h[x].fin <=> p.fin) /\ h[x].sent = g[x].sent + p.len + (IF p.fin THEN 1 ELSE 0)
              /\ p.len > 0 \/ p.fin
              /\ p.len > 0 => g[x].sent + p.len <= g[x].una + Flight
           \/ /\ ~p.syn /\ g[x].got > 0 /\ ~p.fin /\ p.len = 0 /\ (h[x].fin <=> g[x].fin) /\ h[x].sent = g[x].sent
              /\ p.rst \/ (g[x].una > 0 /\ p.seq = g[x].sent)
           \/ /\ ~p.syn /\ g[x].got > 0 /\ p.seq >= g[x].una /\ p.seq < g[x].sent /\ p.seq > 0 /\ h = g /\ ~p.rst
              /\ (p.fin <=> g[x].fin /\ p.seq = g[x].sent - 1) /\ p.len = IF p.fin THEN 0 ELSE 1
    PROVE  Sends(g, h, x, p)
<1>1. /\ g[x].sent \in Nat /\ g[x].got \in Nat /\ g[x].una \in Nat /\ g[x].fin \in BOOLEAN
      /\ g[x].gone \in BOOLEAN
      /\ h[x].sent \in Nat /\ h[x].got \in Nat /\ h[x].una \in Nat /\ h[x].fin \in BOOLEAN
      /\ h[x].gone \in BOOLEAN /\ p.rst \in BOOLEAN /\ p.ack \in BOOLEAN /\ p.syn \in BOOLEAN /\ p.fin \in BOOLEAN
      /\ p.seq \in Nat /\ p.len \in Nat /\ p.len <= 1
  BY DEF HostType, PacketType
<1>2. /\ g[x].una <= g[x].sent
      /\ g[x].sent > 1 => g[x].got > 0 /\ g[x].una > 0
      /\ g[x].fin => g[x].sent > 1
      /\ x = "SVR" => (g[x].sent > 0 => g[x].got > 0)
  <2>1. g[Peer(x)].got \in Nat /\ g[x].una <= g[Peer(x)].got /\ g[Peer(x)].got <= g[x].sent
    BY Sides DEF HostsOK, HostType
  <2> QED
    BY <1>1, <2>1, Sides DEF HostsOK
<1>3. DataEnd(h, x) > 1 => DataEnd(h, x) <= h[x].una + Flight
  <2> DEFINE a == g[x].sent - (IF g[x].fin THEN 1 ELSE 0)
             b == h[x].sent - (IF h[x].fin THEN 1 ELSE 0)
  <2>1. a > 1 => a <= g[x].una + Flight
    BY DEF HostsOK, DataEnd
  <2>2. b = a \/ b <= 1 \/ (b = g[x].sent + p.len /\ p.len > 0 /\ g[x].sent + p.len <= g[x].una + Flight)
    BY <1>1, <1>2, SMTT(30)
  <2>3. a \in Int /\ b \in Int /\ Flight \in Nat
    BY <1>1, MonitorAssumption
  <2>4. b > 1 => b <= h[x].una + Flight
    <3> HIDE DEF a, b
    <3> QED
      BY <1>1, <2>1, <2>2, <2>3
  <2> QED
    BY <2>4 DEF DataEnd
<1>4. /\ h[x].sent >= g[x].sent
      /\ g[x].fin => h[x].fin /\ h[x].sent = g[x].sent
      /\ h[x].fin => g[x].fin \/ h[x].sent > g[x].sent
      /\ h[x].sent > 1 => g[x].got > 0 /\ g[x].una > 0
      /\ h[x].fin => h[x].sent > 1
      /\ x = "SVR" /\ h[x].sent > 0 => g[x].got > 0
  BY <1>1, <1>2, SMTT(60)
<1>5. /\ p.rst => p.len = 0 /\ ~p.fin
      /\ p.syn => p.seq = 0 /\ p.len = 0 /\ ~p.fin /\ ~p.rst /\ h[x].sent > 0
      /\ p.fin => h[x].fin /\ p.seq + p.len + 1 = h[x].sent
      /\ ~p.syn => p.ack
      /\ ~p.syn /\ ~p.rst => p.seq > 0 /\ g[x].una > 0
      /\ p.len = 1 /\ h[x].fin => p.seq # h[x].sent - 1
  BY <1>1, <1>2, SMTT(60)
<1>6. ~p.rst => /\ p.seq >= g[x].una
                /\ p.seq + p.len + (IF p.syn \/ p.fin THEN 1 ELSE 0) <= h[x].sent
  BY <1>1, <1>2, SMTT(60)
<1> QED
  BY <1>3, <1>4, <1>5, <1>6 DEF Sends

\* Each action of a host is to send a packet.
LEMMA HostSends ==
    ASSUME HostsOK(host), NEW x \in Side, SendSyn(x) \/ SendMore(x) \/ SendAck(x) \/ SendRst(x) \/ Resend(x)
    PROVE  \E h \in [Side -> HostType], p \in PacketType : Sends(host, h, x, p) /\ Emit(h, x, p)
<1> DEFINE a == host[x]
<1>1. /\ a \in HostType /\ host \in [Side -> HostType] /\ Peer(x) \in Side /\ Peer(x) # x
      /\ a.sent \in Nat /\ a.got \in Nat /\ a.una \in Nat /\ a.fin \in BOOLEAN /\ a.gone \in BOOLEAN
  BY Sides DEF HostsOK, HostType
<1>2. PICK ack \in BOOLEAN :
          /\ ack <=> a.got > 0
          /\ \A seq, len, syn, fin :
                 Segment(x, seq, len, syn, fin) =
                     [seq |-> seq, len |-> len, syn |-> syn, fin |-> fin, rst |-> FALSE, ack |-> ack,
                      ack_seq |-> a.got]
  BY <1>1, SegmentIs
<1> DEFINE Packet(seq, len, syn, fin, rst) ==
               [seq |-> seq, len |-> len, syn |-> syn, fin |-> fin, rst |-> rst, ack |-> ack, ack_seq |-> a.got]
<1>3. CASE SendSyn(x)
  <2>1. PICK h \in [Side -> HostType] : h = [host EXCEPT ![x].sent = 1]
    BY <1>1 DEF HostType
  <2>2. /\ h[Peer(x)] = host[Peer(x)] /\ h[x].sent = 1 /\ h[x].fin = a.fin /\ h[x].got = a.got
        /\ h[x].rcvd = a.rcvd /\ h[x].una = a.una /\ h[x].gone = a.gone
    BY <1>1, <2>1 DEF HostType
  <2>3. Packet(0, 0, TRUE, FALSE, FALSE) \in PacketType
    BY <1>1 DEF PacketType
  <2>4. PICK p \in PacketType : p = Packet(0, 0, TRUE, FALSE, FALSE)
    BY <2>3
  <2>5. p.seq = 0 /\ p.len = 0 /\ p.syn /\ ~p.fin /\ ~p.rst /\ (p.ack <=> a.got > 0) /\ p.ack_seq = a.got
    BY <1>2, <2>4
  <2>6. ~a.gone /\ a.sent = 0 /\ (x = "SVR" => a.got > 0) /\ Emit(h, x, p)
    BY <1>2, <1>3, <2>1, <2>4 DEF SendSyn
  <2>7. a.una = 0
    <3>1. a.una <= host[Peer(x)].got /\ host[Peer(x)].got <= a.sent /\ host[Peer(x)].got \in Nat
      BY <1>1, Sides DEF HostsOK, HostType
    <3> QED
      BY <1>1, <2>6, <3>1
  <2>8. Sends(host, h, x, p)
    BY <1>1, <2>2, <2>5, <2>6, <2>7, SendsIs
  <2> QED
    BY <2>6, <2>8
<1>4. CASE SendMore(x)
  <2>1. PICK len \in 0 .. 1, fin \in BOOLEAN :
            /\ len > 0 \/ fin
            /\ len > 0 => a.sent + len <= a.una + Flight
            /\ Emit([host EXCEPT ![x].sent = a.sent + len + (IF fin THEN 1 ELSE 0), ![x].fin = fin],
                    x, Segment(x, a.sent, len, FALSE, fin))
    BY <1>4 DEF SendMore
  <2>2. PICK n \in Nat : n = a.sent + len + (IF fin THEN 1 ELSE 0)
    BY <1>1
  <2>3. PICK h \in [Side -> HostType] : h = [host EXCEPT ![x].sent = n, ![x].fin = fin]
    BY <1>1 DEF HostType
  <2>4. /\ h[Peer(x)] = host[Peer(x)] /\ h[x].sent = n /\ (h[x].fin <=> fin) /\ h[x].got = a.got
        /\ h[x].rcvd = a.rcvd /\ h[x].una = a.una /\ h[x].gone = a.gone
    BY <1>1, <2>3 DEF HostType
  <2>5. Packet(a.sent, len, FALSE, fin, FALSE) \in PacketType
    BY <1>1 DEF PacketType
  <2>6. PICK p \in PacketType : p = Packet(a.sent, len, FALSE, fin, FALSE)
    BY <2>5
  <2>7. /\ p.seq = a.sent /\ p.len = len /\ ~p.syn /\ (p.fin <=> fin) /\ ~p.rst
        /\ (p.ack <=> a.got > 0) /\ p.ack_seq = a.got
    BY <1>2, <2>6
  <2>8. ~a.gone /\ a.got > 0 /\ a.una > 0 /\ ~a.fin
    BY <1>4 DEF SendMore, Talks
  <2>9. Emit(h, x, p)
    BY <1>2, <2>1, <2>2, <2>3, <2>6
  <2>10. h[x].sent = a.sent + p.len + (IF p.fin THEN 1 ELSE 0) /\ (p.len > 0 \/ p.fin) /\ (h[x].fin <=> p.fin)
         /\ (p.len > 0 => a.sent + p.len <= a.una + Flight)
    BY <2>1, <2>2, <2>4, <2>7
  <2>11. Sends(host, h, x, p)
    BY <1>1, <2>4, <2>7, <2>8, <2>10, SendsIs
  <2> QED
    BY <2>9, <2>11
<1>5. CASE SendAck(x)
  <2>1. Packet(a.sent, 0, FALSE, FALSE, FALSE) \in PacketType
    BY <1>1 DEF PacketType
  <2>2. PICK p \in PacketType : p = Packet(a.sent, 0, FALSE, FALSE, FALSE)
    BY <2>1
  <2>3. p.seq = a.sent /\ p.len = 0 /\ ~p.syn /\ ~p.fin /\ ~p.rst /\ (p.ack <=> a.got > 0) /\ p.ack_seq = a.got
    BY <1>2, <2>2
  <2>4. ~a.gone /\ a.got > 0 /\ a.una > 0 /\ Emit(host, x, p)
    BY <1>2, <1>5, <2>2 DEF SendAck, Talks
  <2>5. Sends(host, host, x, p)
    BY <1>1, <2>3, <2>4, SendsIs
  <2> QED
    BY <1>1, <2>4, <2>5
<1>6. CASE SendRst(x)
  <2>1. PICK h \in [Side -> HostType] : h = [host EXCEPT ![x].gone = TRUE]
    BY <1>1 DEF HostType
  <2>2. /\ h[Peer(x)] = host[Peer(x)] /\ h[x].sent = a.sent /\ h[x].fin = a.fin /\ h[x].got = a.got
        /\ h[x].rcvd = a.rcvd /\ h[x].una = a.una /\ h[x].gone
    BY <1>1, <2>1 DEF HostType
  <2>3. Packet(a.sent, 0, FALSE, FALSE, TRUE) \in PacketType
    BY <1>1 DEF PacketType
  <2>4. PICK p \in PacketType : p = Packet(a.sent, 0, FALSE, FALSE, TRUE)
    BY <2>3
  <2>5. p.seq = a.sent /\ p.len = 0 /\ ~p.syn /\ ~p.fin /\ p.rst /\ (p.ack <=> a.got > 0) /\ p.ack_seq = a.got
    BY <1>2, <2>4
  <2>6. p = [Segment(x, a.sent, 0, FALSE, FALSE) EXCEPT !.rst = TRUE]
    <3>1. Segment(x, a.sent, 0, FALSE, FALSE) = Packet(a.sent, 0, FALSE, FALSE, FALSE)
      BY <1>2
    <3>2. PICK no : no = FALSE
      OBVIOUS
    <3>3. PICK yes : yes = TRUE
      OBVIOUS
    <3>4. Packet(a.sent, 0, no, no, yes) = [Packet(a.sent, 0, no, no, no) EXCEPT !.rst = yes]
      OBVIOUS
    <3> QED
      BY <2>4, <3>1, <3>2, <3>3, <3>4, Zenon
  <2>7. ~a.gone /\ a.got > 0 /\ Emit(h, x, p)
    BY <1>6, <2>1, <2>6 DEF SendRst
  <2>8. Sends(host, h, x, p)
    BY <1>1, <2>2, <2>5, <2>7, SendsIs
  <2> QED
    BY <2>7, <2>8
<1>7. CASE Resend(x)
  <2>1. PICK q \in a.una .. a.sent - 1 :
            /\ q > 0 => a.got > 0
            /\ Emit(host, x, Segment(x, q, IF q = 0 \/ (a.fin /\ q = a.sent - 1) THEN 0 ELSE 1, q = 0,
                                     a.fin /\ q = a.sent - 1))
    BY <1>7 DEF Resend
  <2>2. q \in Nat /\ q >= a.una /\ q < a.sent /\ ~a.gone
    BY <1>1, <1>7, <2>1 DEF Resend
  <2>3. PICK fin \in BOOLEAN : fin <=> a.fin /\ q = a.sent - 1
    OBVIOUS
  <2>4. PICK syn \in BOOLEAN : syn <=> q = 0
    OBVIOUS
  <2>5. PICK len \in 0 .. 1 : len = IF q = 0 \/ fin THEN 0 ELSE 1
    OBVIOUS
  <2>6. Packet(q, len, syn, fin, FALSE) \in PacketType
    BY <1>1, <2>2 DEF PacketType
  <2>7. PICK p \in PacketType : p = Packet(q, len, syn, fin, FALSE)
    BY <2>6
  <2>8. /\ p.seq = q /\ p.len = len /\ (p.syn <=> q = 0) /\ (p.fin <=> a.fin /\ q = a.sent - 1) /\ ~p.rst
        /\ (p.ack <=> a.got > 0) /\ p.ack_seq = a.got
    BY <1>2, <2>3, <2>4, <2>7
  <2>9. Emit(host, x, p)
    <3>1. p = Segment(x, q, len, syn, fin)
      BY <1>2, <2>7
    <3>2. Segment(x, q, IF q = 0 \/ (a.fin /\ q = a.sent - 1) THEN 0 ELSE 1, q = 0, a.fin /\ q = a.sent - 1)
              = Segment(x, q, len, syn, fin)
      BY <2>3, <2>4, <2>5 DEF Segment
    <3> QED
      BY <2>1, <3>1, <3>2
  <2>10. (a.fin => a.sent > 1) /\ (x = "SVR" => (a.sent > 0 => a.got > 0))
    BY <1>1, Sides DEF HostsOK
  <2>11. Sends(host, host, x, p)
    <3>1. CASE q = 0
      <4>1. /\ p.syn /\ p.seq = 0 /\ p.len = 0 /\ ~p.fin /\ ~p.rst /\ a.una = 0 /\ a.sent > 0
            /\ x = "SVR" => a.got > 0
        BY <1>1, <2>2, <2>5, <2>8, <2>10, <3>1
      <4> QED
        BY <1>1, <2>2, <2>8, <4>1, SendsIs
    <3>2. CASE q > 0
      <4>1. /\ ~p.syn /\ a.got > 0 /\ p.seq >= a.una /\ p.seq < a.sent /\ p.seq > 0 /\ ~p.rst
            /\ (p.fin <=> a.fin /\ p.seq = a.sent - 1) /\ p.len = IF p.fin THEN 0 ELSE 1
        BY <2>1, <2>2, <2>3, <2>5, <2>8, <3>2
      <4> QED
        BY <1>1, <2>2, <2>8, <4>1, SendsIs
    <3> QED
      BY <2>2, <3>1, <3>2
  <2> QED
    BY <1>1, <2>9, <2>11
<1> QED
  BY <1>3, <1>4, <1>5, <1>6, <1>7

\* The number behind those p takes.
Next1(p) == p.seq + p.len + (IF p.syn \/ p.fin THEN 1 ELSE 0)

LEMMA NumbersAre ==
    ASSUME NEW p \in PacketType
    PROVE  /\ Numbers(p) \in SUBSET Nat /\ IsFiniteSet(Numbers(p)) /\ Next1(p) \in Nat
           /\ \A i \in Nat : i \in Numbers(p) <=> p.seq <= i /\ i < Next1(p)
<1>1. p.seq \in Nat /\ p.len \in Nat /\ p.syn \in BOOLEAN /\ p.fin \in BOOLEAN
  BY DEF PacketType
<1>2. PICK n \in Int : n = p.seq + p.len - (IF p.syn \/ p.fin THEN 0 ELSE 1)
  BY <1>1
<1>3. Numbers(p) = p.seq .. n
  BY <1>1, <1>2 DEF Numbers, End
<1>4. IsFiniteSet(Numbers(p))
  <2>1. PICK m \in Int : m = p.seq
    BY <1>1
  <2>2. IsFiniteSet(m .. n)
    BY FS_Interval
  <2> QED
    BY <1>3, <2>1, <2>2
<1>5. Next1(p) = n + 1
  BY <1>1, <1>2 DEF Next1
<1> QED
  BY <1>1, <1>2, <1>3, <1>4, <1>5

\* Host y takes p in.
TakesIn(g, k, y, p) ==
    /\ ~p.rst /\ ~g[y].gone /\ ~k[y].gone
    /\ k[y].rcvd = g[y].rcvd \cup Numbers(p) /\ k[y].got >= g[y].got
    /\ \A i \in g[y].got .. k[y].got - 1 : i \in k[y].rcvd
    /\ k[y].una >= g[y].una /\ (p.ack => k[y].una >= p.ack_seq)
    /\ k[y].una = g[y].una \/ (p.ack /\ k[y].una = p.ack_seq)

\* What packet p of host x makes of the hosts g, received by the other, y, or not.
Moved(g, h, k, x, y, p) ==
    /\ k \in [Side -> HostType] /\ k[x] = h[x]
    /\ k[y].sent = g[y].sent /\ (k[y].fin <=> g[y].fin)
    /\ \/ k[y].rcvd = g[y].rcvd /\ k[y].got = g[y].got /\ k[y].una = g[y].una /\ (g[y].gone => k[y].gone)
       \/ TakesIn(g, k, y, p)

LEMMA Progress ==
    ASSUME NEW g \in [Side -> HostType], NEW h \in [Side -> HostType], NEW x \in Side, NEW y \in Side, y = Peer(x),
           NEW p \in PacketType, Sends(g, h, x, p), IsFiniteSet(g[y].rcvd), NEW k, k \in {h, Receive(h, y, p)}
    PROVE  Moved(g, h, k, x, y, p)
<1> USE DEF Moved
<1>1. /\ h[y] = g[y] /\ x # y /\ h[y] \in HostType /\ h[y].got \in Nat /\ h[y].una \in Nat /\ h[y].sent \in Nat
      /\ h[y].fin \in BOOLEAN /\ h[y].gone \in BOOLEAN /\ h[y].rcvd \in SUBSET Nat /\ p.ack_seq \in Nat
  BY Sides DEF Sends, HostType, PacketType
<1>2. CASE k = h
  BY <1>1, <1>2
<1>3. CASE ~h[y].gone /\ k = [h EXCEPT ![y].gone = TRUE]
  <2>1. k \in [Side -> HostType] /\ k[x] = h[x] /\ k[y] = [h[y] EXCEPT !.gone = TRUE]
    BY <1>1, <1>3 DEF HostType
  <2>2. /\ k[y].sent = h[y].sent /\ k[y].fin = h[y].fin /\ k[y].gone /\ k[y].got = h[y].got /\ k[y].una = h[y].una
        /\ k[y].rcvd = h[y].rcvd
    BY <1>1, <2>1 DEF HostType
  <2> QED
    BY <1>1, <2>1, <2>2
<1>r. PICK r \in SUBSET Nat : r = h[y].rcvd \cup Numbers(p)
  BY <1>1, NumbersAre
<1>4. CASE /\ ~p.rst /\ ~h[y].gone
           /\ k = [h EXCEPT ![y].rcvd = r, ![y].got = FirstGap(r, h[y].got),
                            ![y].una = IF p.ack /\ p.ack_seq > h[y].una THEN p.ack_seq ELSE h[y].una]
  <2>1. PICK n \in Nat : n = FirstGap(r, h[y].got) /\ n >= h[y].got /\ \A i \in h[y].got .. n - 1 : i \in r
    <3>1. IsFiniteSet(r)
      BY <1>1, <1>r, NumbersAre, FS_Union
    <3> QED
      BY <1>1, <3>1, FirstGapIs
  <2>2. PICK u \in Nat : u = IF p.ack /\ p.ack_seq > h[y].una THEN p.ack_seq ELSE h[y].una
    BY <1>1
  <2>3. k = [h EXCEPT ![y].rcvd = r, ![y].got = n, ![y].una = u]
    BY <1>4, <2>1, <2>2
  <2>4. k \in [Side -> HostType] /\ k[x] = h[x]
    BY <1>1, <2>3 DEF HostType
  <2>5. k[y].sent = h[y].sent /\ k[y].fin = h[y].fin /\ k[y].gone = h[y].gone /\ k[y].got = n /\ k[y].una = u
        /\ k[y].rcvd = r
    BY <1>1, <2>3 DEF HostType
  <2>6. u >= h[y].una /\ (u = h[y].una \/ (p.ack /\ u = p.ack_seq)) /\ (p.ack => u >= p.ack_seq)
    BY <1>1, <2>2
  <2>7. TakesIn(g, k, y, p)
    BY <1>1, <1>4, <1>r, <2>1, <2>5, <2>6 DEF TakesIn
  <2> QED
    BY <1>1, <2>4, <2>5, <2>7
<1> QED
  <2>1. Receive(h, y, p) = IF h[y].gone THEN h ELSE IF p.rst THEN [h EXCEPT ![y].gone = TRUE]
                           ELSE [h EXCEPT ![y].rcvd = r, ![y].got = FirstGap(r, h[y].got),
                                   ![y].una = IF p.ack /\ p.ack_seq > h[y].una THEN p.ack_seq ELSE h[y].una]
    BY <1>r DEF Receive
  <2> QED
    BY <1>2, <1>3, <1>4, <2>1

LEMMA HostsKept ==
    ASSUME NEW g, HostsOK(g), NEW h \in [Side -> HostType], NEW x \in Side, NEW y \in Side, y = Peer(x),
           NEW p \in PacketType, Sends(g, h, x, p), NEW k, k \in {h, Receive(h, y, p)}
    PROVE  HostsOK(k)
<1>1. g \in [Side -> HostType] /\ h[y] = g[y] /\ x # y /\ x = Peer(y) /\ Side = {x, y} /\ IsFiniteSet(g[y].rcvd)
  BY Sides DEF HostsOK, Sends
<1>2. Moved(g, h, k, x, y, p)
  BY <1>1, Progress
<1> USE <1>1
<1>3. /\ k[x].sent \in Nat /\ k[x].got \in Nat /\ k[x].una \in Nat /\ k[y].sent \in Nat /\ k[y].got \in Nat
      /\ k[y].una \in Nat /\ g[x].sent \in Nat /\ g[x].got \in Nat /\ g[x].una \in Nat /\ g[y].sent \in Nat
      /\ g[y].got \in Nat /\ g[y].una \in Nat /\ p.seq \in Nat /\ p.len \in Nat /\ p.ack_seq \in Nat
      /\ k[x].got = g[x].got /\ k[x].una = g[x].una /\ k[x].sent >= g[x].sent /\ k[x].rcvd = g[x].rcvd
      /\ p.ack_seq = g[x].got /\ k[x].sent = h[x].sent
      /\ g[x].rcvd \in SUBSET Nat /\ g[y].rcvd \in SUBSET Nat /\ k[y].rcvd \in SUBSET Nat
  BY <1>2 DEF HostType, PacketType, Moved, Sends
<1>4. /\ g[x].una <= g[y].got /\ g[x].got <= g[y].sent /\ g[y].una <= g[x].got /\ g[y].got <= g[x].sent
      /\ (g[y].sent > 1 => g[y].got > 0 /\ g[y].una > 0) /\ (g[y].fin => g[y].sent > 1)
      /\ (y = "CLI" => (g[y].rcvd # {} => g[y].una > 0)) /\ (y = "SVR" => (g[y].sent > 0 => g[y].got > 0))
      /\ (x = "CLI" => (g[x].rcvd # {} => g[x].una > 0)) /\ (x = "SVR" => (g[x].sent > 0 => g[x].got > 0))
  BY DEF HostsOK
<1>m. k[y].got >= g[y].got /\ k[y].una >= g[y].una
  BY <1>2, <1>3 DEF Moved, TakesIn
<1>5. k[x].una <= k[y].got /\ k[y].una <= k[x].got /\ k[x].got <= k[y].sent
  BY <1>2, <1>3, <1>4, <1>m DEF Moved, TakesIn
<1>b. \A i \in k[y].rcvd : i < k[x].sent
  <2>1. \A i \in g[y].rcvd : i < k[x].sent
    BY <1>3 DEF HostsOK
  <2>2. ~p.rst => Next1(p) <= k[x].sent
    BY <1>3 DEF Sends, Next1
  <2>3. TakesIn(g, k, y, p) => \A i \in Numbers(p) : i < k[x].sent
    BY <1>3, <2>2, NumbersAre DEF TakesIn
  <2> QED
    BY <1>2, <2>1, <2>3 DEF Moved, TakesIn
<1>c. \A i \in 0 .. k[y].got - 1 : i \in k[y].rcvd
  <2>1. \A i \in 0 .. g[y].got - 1 : i \in g[y].rcvd
    BY DEF HostsOK
  <2>2. ASSUME TakesIn(g, k, y, p), NEW i \in 0 .. k[y].got - 1 PROVE i \in k[y].rcvd
    <3>1. i \in 0 .. g[y].got - 1 \/ i \in g[y].got .. k[y].got - 1
      BY <1>3
    <3> QED
      BY <2>1, <2>2, <3>1 DEF TakesIn
  <2> QED
    BY <1>2, <2>1, <2>2 DEF Moved
<1>6. k[y].got <= k[x].sent
  <2>1. k[y].got > 0 => k[y].got - 1 \in k[y].rcvd
    BY <1>3, <1>c
  <2>2. k[y].got > 0 => k[y].got - 1 < k[x].sent
    BY <1>b, <2>1
  <2> QED
    BY <1>3, <2>2
<1>f. IsFiniteSet(k[y].rcvd)
  <2>1. IsFiniteSet(Numbers(p))
    BY NumbersAre
  <2>2. IsFiniteSet(g[y].rcvd \cup Numbers(p))
    BY <2>1, FS_Union
  <2> QED
    BY <1>2, <2>2 DEF Moved, TakesIn
<1>7. /\ (k[y].sent > 1 => k[y].got > 0 /\ k[y].una > 0) /\ (k[y].fin => k[y].sent > 1)
      /\ (k[x].sent > 1 => k[x].got > 0 /\ k[x].una > 0) /\ (k[x].fin => k[x].sent > 1)
      /\ (x = "CLI" => (k[x].rcvd # {} => k[x].una > 0)) /\ (x = "SVR" => (k[x].sent > 0 => k[x].got > 0))
      /\ (y = "SVR" => (k[y].sent > 0 => k[y].got > 0))
  BY <1>2, <1>3, <1>4, <1>m DEF Sends, Moved
<1>8. ASSUME y = "CLI", k[y].rcvd # {} PROVE k[y].una > 0
  <2>1. CASE k[y].rcvd = g[y].rcvd
    BY <1>3, <1>4, <1>8, <1>m, <2>1
  <2>2. CASE k[y].rcvd # g[y].rcvd
    <3>1. x = "SVR" /\ ~p.rst /\ (p.ack => k[y].una >= p.ack_seq)
      BY <1>2, <1>8, <2>2, Sides DEF Moved, TakesIn
    <3>2. p.ack /\ p.ack_seq > 0
      BY <1>3, <3>1 DEF Sends
    <3> QED
      BY <1>3, <3>1, <3>2
  <2> QED
    BY <2>1, <2>2
<1>9. /\ DataEnd(k, x) > 1 => DataEnd(k, x) <= k[x].una + Flight
      /\ DataEnd(k, y) > 1 => DataEnd(k, y) <= k[y].una + Flight
  <2>1. DataEnd(k, x) = DataEnd(h, x) /\ k[x].una = h[x].una
    BY <1>2 DEF Moved, DataEnd
  <2>2. DataEnd(k, y) = DataEnd(g, y)
    BY <1>2 DEF Moved, DataEnd
  <2>3. DataEnd(h, x) > 1 => DataEnd(h, x) <= h[x].una + Flight
    BY DEF Sends
  <2>4. DataEnd(g, y) > 1 => DataEnd(g, y) <= g[y].una + Flight
    BY DEF HostsOK
  <2>5. DataEnd(g, y) \in Int
    BY <1>3 DEF DataEnd
  <2> QED
    BY <1>3, <1>m, <2>1, <2>2, <2>3, <2>4, <2>5, MonitorAssumption
<1>10. IsFiniteSet(k[x].rcvd) /\ (\A i \in k[x].rcvd : i < k[y].sent) /\ \A i \in 0 .. k[x].got - 1 : i \in k[x].rcvd
  BY <1>2, <1>3 DEF HostsOK, Moved
<1>11. k \in [Side -> HostType]
  BY <1>2 DEF Moved
<1>12. ASSUME NEW z \in Side
       PROVE  /\ k[z].una <= k[Peer(z)].got /\ k[z].got <= k[Peer(z)].sent
              /\ IsFiniteSet(k[z].rcvd) /\ \A i \in k[z].rcvd : i < k[Peer(z)].sent
              /\ \A i \in 0 .. k[z].got - 1 : i \in k[z].rcvd
              /\ k[z].sent > 1 => k[z].got > 0 /\ k[z].una > 0
              /\ k[z].fin => k[z].sent > 1
              /\ DataEnd(k, z) > 1 => DataEnd(k, z) <= k[z].una + Flight
  <2>1. CASE z = x
    BY <1>5, <1>6, <1>7, <1>9, <1>10, <2>1
  <2>2. CASE z = y
    BY <1>5, <1>6, <1>7, <1>9, <1>b, <1>c, <1>f, <2>2
  <2> QED
    BY <2>1, <2>2
<1> QED
  BY <1>7, <1>8, <1>11, <1>12, Sides DEF HostsOK

-----------------------------------------------------------------------------
(* A stream and the packets it sees.                                       *)

\* Hosts g become h when x sends p, and k when y has received it, or has not.
Delivery(g, h, k, x, y, p) ==
    /\ x \in Side /\ y \in Side /\ y = Peer(x) /\ x = Peer(y) /\ x # y /\ Side = {x, y}
    /\ HostsOK(g) /\ HostsOK(k) /\ p \in PacketType
    /\ Sends(g, h, x, p) /\ Moved(g, h, k, x, y, p)

LEMMA HostFields ==
    ASSUME NEW g, HostsOK(g), NEW x \in Side, NEW y \in Side, y = Peer(x)
    PROVE  /\ g[x].sent \in Nat /\ g[x].got \in Nat /\ g[x].una \in Nat
           /\ g[x].fin \in BOOLEAN /\ g[x].gone \in BOOLEAN
           /\ g[x].una <= g[y].got /\ g[x].got <= g[y].sent /\ (g[x].fin => g[x].sent > 1)
           /\ g[x].sent > 1 => g[x].got > 0 /\ g[x].una > 0
BY DEF HostsOK, HostType

LEMMA PacketFields ==
    ASSUME NEW p \in PacketType
    PROVE  /\ p.seq \in Nat /\ p.len \in Nat /\ p.len <= 1 /\ p.ack_seq \in Nat
           /\ p.syn \in BOOLEAN /\ p.fin \in BOOLEAN /\ p.rst \in BOOLEAN /\ p.ack \in BOOLEAN
BY DEF PacketType

\* What a delivery leaves as it was and what it moves, in numbers.
Facts(g, k, x, y, p) ==
    /\ k[x].sent >= g[x].sent /\ k[x].got = g[x].got /\ k[x].una = g[x].una /\ k[y].sent = g[y].sent
    /\ k[x].rcvd = g[x].rcvd
    /\ (g[x].fin => k[x].fin /\ k[x].sent = g[x].sent)
    /\ (k[x].fin => g[x].fin \/ k[x].sent > g[x].sent) /\ (k[y].fin <=> g[y].fin)
    /\ ~g[x].gone /\ (k[x].gone <=> p.rst) /\ (g[y].gone => k[y].gone)
    /\ k[y].got >= g[y].got /\ k[y].una >= g[y].una
    /\ k[y].una # g[y].una => ~p.rst /\ p.ack /\ k[y].una = p.ack_seq
    /\ (p.ack <=> g[x].got > 0) /\ p.ack_seq = g[x].got /\ (~p.syn => p.ack)
    /\ (p.rst => p.len = 0 /\ ~p.fin)
    /\ (p.syn => p.seq = 0 /\ p.len = 0 /\ ~p.fin /\ ~p.rst)
    /\ (p.fin => k[x].fin /\ p.seq + p.len + 1 = k[x].sent)
    /\ (~p.syn /\ ~p.rst => p.seq > 0 /\ g[x].una > 0)
    /\ (p.len = 1 /\ k[x].fin => p.seq # k[x].sent - 1)
    /\ ~p.rst => /\ p.seq >= g[x].una
                 /\ p.seq + p.len + (IF p.syn \/ p.fin THEN 1 ELSE 0) <= k[x].sent
    /\ p.len = 1 => p.seq + 1 <= g[x].una + Flight

\* What y receives: nothing new, or p.
Arrival(g, k, y, p) ==
    \/ k[y].rcvd = g[y].rcvd
    \/ /\ ~p.rst /\ ~g[y].gone /\ (p.ack => k[y].una >= p.ack_seq)
       /\ \A i \in Nat : i \in k[y].rcvd <=>
              i \in g[y].rcvd \/ (p.seq <= i /\ i < p.seq + p.len + (IF p.syn \/ p.fin THEN 1 ELSE 0))

\* The fields of hosts g, of k and of packet p.
Fields(g, x, y) ==
    /\ g[x].sent \in Nat /\ g[x].got \in Nat /\ g[x].una \in Nat /\ g[x].fin \in BOOLEAN /\ g[x].gone \in BOOLEAN
    /\ g[y].sent \in Nat /\ g[y].got \in Nat /\ g[y].una \in Nat /\ g[y].fin \in BOOLEAN /\ g[y].gone \in BOOLEAN
    /\ g[x].una <= g[y].got /\ g[x].got <= g[y].sent /\ (g[x].fin => g[x].sent > 1)
    /\ g[y].una <= g[x].got /\ g[y].got <= g[x].sent /\ (g[y].fin => g[y].sent > 1)
    /\ (g[x].sent > 1 => g[x].got > 0 /\ g[x].una > 0) /\ (g[y].sent > 1 => g[y].got > 0 /\ g[y].una > 0)

\* What x has received of y.
Received(g, x, y) ==
    /\ g[x].rcvd \in SUBSET Nat /\ (\A i \in g[x].rcvd : i < g[y].sent)
    /\ \A i \in 0 .. g[x].got - 1 : i \in g[x].rcvd

IsPacket(p) ==
    /\ p.seq \in Nat /\ p.len \in Nat /\ p.len <= 1 /\ p.ack_seq \in Nat
    /\ p.syn \in BOOLEAN /\ p.fin \in BOOLEAN /\ p.rst \in BOOLEAN /\ p.ack \in BOOLEAN

LEMMA DeliveryFacts ==
    ASSUME NEW g, NEW h, NEW k, NEW x, NEW y, NEW p, Delivery(g, h, k, x, y, p)
    PROVE  /\ Facts(g, k, x, y, p) /\ Fields(g, x, y) /\ Fields(k, x, y) /\ IsPacket(p)
           /\ x \in Side /\ y \in Side /\ y = Peer(x) /\ x = Peer(y) /\ x # y /\ Side = {x, y}
<1>1. h[x] = k[x] /\ p \in PacketType /\ x \in Side /\ y \in Side /\ y = Peer(x) /\ x = Peer(y) /\ x # y /\ Side = {x, y}
  BY DEF Delivery, Moved
<1>2. IsPacket(p)
  BY <1>1, PacketFields DEF IsPacket
<1>3. k[x].sent = h[x].sent /\ k[x].got = h[x].got /\ k[x].una = h[x].una /\ k[x].fin = h[x].fin /\ k[x].gone = h[x].gone
      /\ k[x].rcvd = h[x].rcvd
  BY <1>1
<1>4. Fields(g, x, y) /\ Fields(k, x, y)
  BY <1>1, HostFields DEF Delivery, Fields
<1>5. p.len = 1 => p.seq + 1 <= g[x].una + Flight
  <2>1. DataEnd(h, x) > 1 => DataEnd(h, x) <= h[x].una + Flight
    BY DEF Delivery, Sends
  <2>2. p.len = 1 => /\ ~p.rst /\ ~p.syn /\ p.seq > 0 /\ h[x].una = g[x].una
                     /\ p.seq + 1 + (IF p.fin THEN 1 ELSE 0) <= h[x].sent
                     /\ (h[x].fin => p.seq # h[x].sent - 1)
    BY <1>2 DEF Delivery, Sends, IsPacket
  <2>3. h[x].sent \in Nat /\ h[x].fin \in BOOLEAN /\ h[x].una \in Nat
    BY <1>3, <1>4 DEF Fields
  <2>4. p.len = 1 => p.seq + 1 <= DataEnd(h, x)
    BY <1>2, <2>2, <2>3 DEF DataEnd, IsPacket
  <2>5. DataEnd(h, x) \in Int
    BY <2>3 DEF DataEnd
  <2> QED
    BY <1>2, <2>1, <2>2, <2>3, <2>4, <2>5, MonitorAssumption DEF IsPacket
<1>6. k[y].got >= g[y].got /\ k[y].una >= g[y].una /\ (k[y].una # g[y].una => ~p.rst /\ p.ack /\ k[y].una = p.ack_seq)
      /\ k[y].sent = g[y].sent /\ (k[y].fin <=> g[y].fin) /\ (g[y].gone => k[y].gone)
  BY <1>4 DEF Delivery, Moved, TakesIn, Fields
<1>7. Facts(g, k, x, y, p)
  BY <1>3, <1>5, <1>6 DEF Delivery, Sends, Facts
<1> QED
  BY <1>1, <1>2, <1>4, <1>7

LEMMA DeliveryArrives ==
    ASSUME NEW g, NEW h, NEW k, NEW x, NEW y, NEW p, Delivery(g, h, k, x, y, p)
    PROVE  /\ Arrival(g, k, y, p)
           /\ Received(g, x, y) /\ Received(g, y, x) /\ Received(k, x, y) /\ Received(k, y, x)
<1>1. HostsOK(g) /\ HostsOK(k) /\ p \in PacketType /\ Moved(g, h, k, x, y, p)
      /\ x \in Side /\ y \in Side /\ y = Peer(x) /\ x = Peer(y)
  BY DEF Delivery
<1>2. ASSUME NEW f, HostsOK(f) PROVE Received(f, x, y) /\ Received(f, y, x)
  BY <1>1, <1>2 DEF HostsOK, HostType, Received
<1>3. ASSUME TakesIn(g, k, y, p) PROVE Arrival(g, k, y, p)
  <2>1. \A i \in Nat : i \in Numbers(p) <=> p.seq <= i /\ i < p.seq + p.len + (IF p.syn \/ p.fin THEN 1 ELSE 0)
    BY <1>1, NumbersAre DEF Next1
  <2>2. g[y].rcvd \in SUBSET Nat /\ k[y].rcvd = g[y].rcvd \cup Numbers(p) /\ Numbers(p) \in SUBSET Nat
    BY <1>1, <1>2, <1>3, NumbersAre DEF TakesIn, Received
  <2>3. \A i \in Nat : i \in k[y].rcvd <=>
            i \in g[y].rcvd \/ (p.seq <= i /\ i < p.seq + p.len + (IF p.syn \/ p.fin THEN 1 ELSE 0))
    BY <2>1, <2>2
  <2>4. ~p.rst /\ ~g[y].gone /\ (p.ack => k[y].una >= p.ack_seq)
    BY <1>3 DEF TakesIn
  <2> QED
    BY <2>3, <2>4, Zenon DEF Arrival
<1>4. ASSUME ~TakesIn(g, k, y, p) PROVE Arrival(g, k, y, p)
  <2>1. k[y].rcvd = g[y].rcvd
    BY <1>1, <1>4 DEF Moved
  <2> QED
    BY <2>1, Zenon DEF Arrival
<1> QED
  BY <1>1, <1>2, <1>3, <1>4

\* The hosts only move on.
Grew(g, k) ==
    \A z \in Side :
        /\ k[z].sent >= g[z].sent /\ k[z].got >= g[z].got /\ (g[z].gone => k[z].gone)
        /\ g[z].fin => k[z].fin /\ k[z].sent = g[z].sent
        /\ k[z].fin => g[z].fin \/ k[z].sent > g[z].sent

LEMMA DeliveryGrows ==
    ASSUME NEW g, NEW h, NEW k, NEW x, NEW y, NEW p, Delivery(g, h, k, x, y, p)
    PROVE  Grew(g, k)
<1>1. Side = {x, y} /\ Fields(g, x, y) /\ Facts(g, k, x, y, p)
  BY DeliveryFacts
<1> QED
  BY <1>1 DEF Grew, Facts, Fields

\* What a state says of the hosts stays true of them.
LEMMA StateKept ==
    ASSUME NEW g, NEW k, HostsOK(g), HostsOK(k), Grew(g, k), NEW z \in Side, NEW s \in StreamType, StateTrue(s, z, g)
    PROVE  StateTrue(s, z, k)
<1>1. PICK w \in Side : w = Peer(z)
  BY Sides
<1>2. Peer(w) = z /\ w # z /\ "CLI" \in Side /\ "SVR" \in Side
  BY <1>1, Sides
<1>3. /\ g[z].sent \in Nat /\ g[z].got \in Nat /\ g[w].sent \in Nat /\ g[w].got \in Nat
      /\ k[z].sent \in Nat /\ k[z].got \in Nat /\ k[w].sent \in Nat /\ k[w].got \in Nat
      /\ k[z].got <= k[w].sent /\ k[w].got <= k[z].sent
  BY <1>1, <1>2, HostFields
<1>4. /\ Reached(g, z) => Reached(k, z)
      /\ Reached(g, w) => Reached(k, w)
  BY <1>1, <1>2, <1>3 DEF Reached, Grew
<1>5. SomeoneGone(g) => SomeoneGone(k)
  BY DEF SomeoneGone, Grew
<1>6. g["CLI"].sent > 0 /\ g["SVR"].sent > 0 => k["CLI"].sent > 0 /\ k["SVR"].sent > 0
  <2>1. /\ g["CLI"].sent \in Nat /\ g["SVR"].sent \in Nat /\ k["CLI"].sent \in Nat /\ k["SVR"].sent \in Nat
    BY <1>2, Sides, HostFields
  <2> QED
    BY <1>2, <2>1 DEF Grew
<1>7. /\ g[z].fin => k[z].fin /\ k[z].sent = g[z].sent
      /\ g[w].fin => k[w].fin /\ k[w].sent = g[w].sent
  BY DEF Grew
<1> QED
  BY <1>1, <1>4, <1>5, <1>6, <1>7 DEF StateTrue

\* The FIN of x is taken when p brings it; that of y stays so.
LEMMA FinArrives ==
    ASSUME NEW g, NEW h, NEW k, NEW x, NEW y, NEW p, Delivery(g, h, k, x, y, p)
    PROVE  /\ FinTaken(k, x) /\ ~FinTaken(g, x) =>
                  p.fin /\ ~p.syn /\ ~p.rst /\ (p.ack => k[y].una >= p.ack_seq)
           /\ FinTaken(k, y) <=> FinTaken(g, y)
<1>1. /\ Facts(g, k, x, y, p) /\ Fields(g, x, y) /\ Fields(k, x, y) /\ IsPacket(p) /\ y = Peer(x) /\ x = Peer(y)
  BY DeliveryFacts
<1>2. Arrival(g, k, y, p) /\ Received(g, y, x)
  BY DeliveryArrives
<1>3. FinTaken(k, y) <=> FinTaken(g, y)
  BY <1>1 DEF FinTaken, Facts
<1>4. ASSUME FinTaken(k, x), ~FinTaken(g, x)
      PROVE  p.fin /\ ~p.syn /\ ~p.rst /\ (p.ack => k[y].una >= p.ack_seq)
  <2>1. PICK i \in Nat : i = k[x].sent - 1 /\ i > 0 /\ k[x].fin /\ i \in k[y].rcvd
    BY <1>1, <1>4 DEF FinTaken, Fields
  <2>2. i \notin g[y].rcvd
    <3> SUFFICES ASSUME i \in g[y].rcvd PROVE FALSE
      OBVIOUS
    <3>1. i < g[x].sent
      BY <1>2 DEF Received
    <3>2. g[x].fin /\ i = g[x].sent - 1
      BY <1>1, <2>1, <3>1 DEF Facts, Fields
    <3> QED
      BY <1>1, <1>4, <3>2 DEF FinTaken
  <2>3. /\ ~p.rst /\ (p.ack => k[y].una >= p.ack_seq)
        /\ p.seq <= i /\ i < p.seq + p.len + (IF p.syn \/ p.fin THEN 1 ELSE 0)
    BY <1>2, <2>1, <2>2 DEF Arrival
  <2>4. ~p.syn
    BY <1>1, <2>1, <2>3 DEF Facts, IsPacket
  <2>5. p.fin
    BY <1>1, <2>1, <2>3, <2>4 DEF Facts, Fields, IsPacket
  <2> QED
    BY <2>3, <2>4, <2>5
<1> QED
  BY <1>3, <1>4

\* A FIN that is known to all is taken.
LEMMA ReachedIsTaken ==
    ASSUME NEW g, HostsOK(g), NEW x \in Side, Reached(g, x)
    PROVE  FinTaken(g, x)
<1>1. PICK y \in Side : y = Peer(x) /\ x = Peer(y)
  BY Sides
<1>2. g[x].sent \in Nat /\ g[x].sent > 1 /\ g[x].fin /\ g[y].got = g[x].sent
  BY <1>1, HostFields DEF Reached
<1>3. PICK i \in Nat : i = g[x].sent - 1
  BY <1>2
<1>4. i \in 0 .. g[y].got - 1
  BY <1>2, <1>3
<1>5. i \in g[y].rcvd
  BY <1>1, <1>4 DEF HostsOK
<1> QED
  BY <1>1, <1>2, <1>3, <1>5 DEF FinTaken

\* A stream that no packet reaches: p was lost before the middlebox.
LEMMA LostKept ==
    ASSUME NEW g, NEW h, NEW x, NEW y, NEW p, Delivery(g, h, h, x, y, p), h[y] = g[y],
           NEW z \in Side, NEW s \in StreamType, StreamOK(s, z, g)
    PROVE  StreamOK(s, z, h)
<1>1. Facts(g, h, x, y, p) /\ Fields(g, x, y) /\ Fields(h, x, y) /\ Side = {x, y} /\ y = Peer(x) /\ x = Peer(y)
  BY DeliveryFacts
<1>2. StateTrue(s, z, h)
  BY DeliveryGrows, StateKept DEF Delivery, StreamOK
<1>3. SomeoneGone(g) => SomeoneGone(h)
  BY <1>1 DEF SomeoneGone, Facts
<1>r. Received(g, y, x) /\ Received(g, x, y) /\ Received(h, y, x)
  BY DeliveryArrives
<1>4. FinTaken(h, z) => FinTaken(g, z)
  <2>1. FinTaken(h, y) => FinTaken(g, y)
    BY FinArrives
  <2>2. FinTaken(h, x) => FinTaken(g, x)
    <3> SUFFICES ASSUME FinTaken(h, x) PROVE FinTaken(g, x)
      OBVIOUS
    <3>1. PICK i \in Nat : i = h[x].sent - 1 /\ i \in g[y].rcvd /\ h[x].fin
      BY <1>1 DEF FinTaken, Fields
    <3>2. i < g[x].sent
      BY <1>r, <3>1 DEF Received
    <3> QED
      BY <1>1, <3>1, <3>2 DEF FinTaken, Facts, Fields
  <2> QED
    BY <1>1, <2>1, <2>2
<1>5. ASSUME s.status_mgmt PROVE InStep(s, z, h)
  <2>1. InStep(s, z, g) /\ StateTrue(s, z, g)
    BY <1>5 DEF StreamOK
  <2>2. CASE z = x
    BY <1>1, <1>3, <1>4, <2>1, <2>2 DEF InStep, StateTrue, OwnFin, PeerFin, Facts, Fields
  <2>3. CASE z = y
    <3>1. s.state = "LAST_ACK" => h[x].sent = g[x].sent
      BY <1>1, <2>1, <2>3 DEF StateTrue, PeerFin, Facts
    <3> QED
      BY <1>1, <1>3, <1>4, <2>1, <2>3, <3>1 DEF InStep, OwnFin, Facts
  <2> QED
    BY <1>1, <2>2, <2>3
<1>6. ASSUME s.status_mgmt PROVE BufferTrue(s, z, h) /\ NothingMissed(s, z, h)
  <2>1. InStep(s, z, g) /\ StateTrue(s, z, g) /\ BufferTrue(s, z, g) /\ NothingMissed(s, z, g) /\ s.have \subseteq Nat
    BY <1>6 DEF StreamOK, StreamType
  <2>2. CASE z = x
    <3>1. h[Peer(z)] = g[Peer(z)] /\ h[z].rcvd = g[z].rcvd
      BY <1>1, <2>2 DEF Facts
    <3> QED
      BY <1>3, <2>1, <3>1 DEF BufferTrue, NothingMissed, DataOnly, Seen
  <2>3. CASE z = y
    <3>1. Peer(z) = x /\ h[z] = g[z]
      BY <1>1, <2>3
    <3>2. \A i \in s.have : 1 <= i /\ i < h[x].sent /\ (h[x].fin => i # h[x].sent - 1)
      <4> SUFFICES ASSUME NEW i \in s.have PROVE 1 <= i /\ i < h[x].sent /\ (h[x].fin => i # h[x].sent - 1)
        OBVIOUS
      <4>1. i \in Nat /\ 1 <= i /\ i < g[x].sent /\ (g[x].fin => i # g[x].sent - 1)
        BY <2>1, <3>1 DEF BufferTrue, DataOnly
      <4> QED
        BY <1>1, <4>1 DEF Facts, Fields
    <3>3. /\ s.state \in PeerFin => h[x].sent = g[x].sent
          /\ s.state = "CLOSED_RSVD" => SomeoneGone(g) \/ h[x].sent = g[x].sent
      BY <1>1, <2>1, <3>1 DEF StateTrue, InStep, Facts
    <3>4. Spacious => \A i \in h[z].rcvd \ {0} : (h[x].fin /\ i = h[x].sent - 1) \/ i \in s.have
      BY <1>1, <2>1, <3>1 DEF NothingMissed, Seen, Facts
    <3> QED
      BY <1>3, <2>1, <3>1, <3>2, <3>3, <3>4 DEF BufferTrue, NothingMissed, DataOnly, Seen
  <2> QED
    BY <1>1, <2>2, <2>3
<1> QED
  BY <1>2, <1>5, <1>6 DEF StreamOK

\* Streams s and t agree on their ends; and on the timeout list.
SameEnds(s, t) ==
    /\ (t.is_fin_sent <=> s.is_fin_sent) /\ t.fss = s.fss /\ (t.status_mgmt <=> s.status_mgmt)
SameRest(s, t) == SameEnds(s, t) /\ (t.on_timeout_list <=> s.on_timeout_list)

LEMMA StreamFields ==
    ASSUME NEW s \in StreamType
    PROVE  /\ s.state \in State /\ s.fss \in Nat /\ s.is_fin_sent \in BOOLEAN /\ s.rcv_nxt \in Nat
           /\ s.rcv_wnd \in Int /\ s.snd_nxt \in Nat /\ s.have \in SUBSET Nat /\ s.status_mgmt \in BOOLEAN
           /\ s.on_timeout_list \in BOOLEAN /\ s.on_timewait_list \in BOOLEAN /\ s.age \in Nat /\ s.tw_age \in Nat
BY DEF StreamType

\* p's byte is in the buffer of t, or before what e had, or beyond what e admits.
Stored(e, have, p) ==
    p.len = 1 => \/ p.seq \in have
                 \/ p.seq + 1 < e.rcv_nxt
                 \/ p.seq + 1 > e.rcv_nxt + e.rcv_wnd
                 \/ p.seq >= e.rcv_nxt + Rcvbuf

\* Stream s becomes b with the payload of p.
Merged(s, b, p) ==
    /\ b \in StreamType /\ IsFiniteSet(b.have) /\ SameRest(s, b) /\ b.state = s.state
    /\ b.age = s.age /\ (b.on_timewait_list <=> s.on_timewait_list)
    /\ s.have \subseteq b.have /\ (\A i \in b.have : i \in s.have \/ (p.len = 1 /\ i = p.seq))
    /\ b.rcv_nxt >= s.rcv_nxt /\ (\A i \in s.rcv_nxt .. b.rcv_nxt - 1 : i \in b.have)
    /\ s.rcv_nxt \notin s.have => b.rcv_nxt \notin b.have
    /\ b.rcv_wnd \in {s.rcv_wnd, Rcvbuf, Rcvbuf - (b.rcv_nxt - s.rcv_nxt)}
    /\ Stored(s, b.have, p)

LEMMA Payload ==
    ASSUME NEW s \in StreamType, NEW p \in PacketType, IsFiniteSet(s.have)
    PROVE  Merged(s, ProcessTCPPayload(s, p), p)
<1>1. IsPacket(p)
  BY PacketFields DEF IsPacket
<1>2. s.rcv_nxt \in Nat /\ s.rcv_wnd \in Int /\ s.have \in SUBSET Nat /\ Rcvbuf \in Nat
  BY StreamFields, MonitorAssumption
<1>3. CASE p.len = 0 \/ ~Admitted(s, p)
  <2>1. ProcessTCPPayload(s, p) = s
    BY <1>3 DEF ProcessTCPPayload
  <2>2. Stored(s, s.have, p)
    BY <1>1, <1>2, <1>3 DEF Stored, Admitted, End, IsPacket
  <2> QED
    BY <1>2, <2>1, <2>2 DEF Merged, SameRest, SameEnds
<1>4. CASE ~(p.len = 0 \/ ~Admitted(s, p))
  <2>1. PICK have \in SUBSET Nat : have = s.have \cup (IF Fits(s, p) THEN {p.seq} ELSE {})
    BY <1>1, <1>2 DEF IsPacket
  <2>2. IsFiniteSet(have)
    <3>1. IsFiniteSet(s.have \cup {p.seq})
      BY FS_AddElement
    <3>2. have = s.have \/ have = s.have \cup {p.seq}
      BY <2>1
    <3> QED
      BY <3>1, <3>2
  <2>3. PICK n \in Nat : /\ n = FirstGap(have, s.rcv_nxt)
                         /\ n >= s.rcv_nxt /\ n \notin have /\ \A i \in s.rcv_nxt .. n - 1 : i \in have
    BY <1>2, <2>2, FirstGapIs
  <2>4. PICK w \in Int : w = Window(s, n) /\ w \in {Rcvbuf, Rcvbuf - (n - s.rcv_nxt)}
    BY <1>2 DEF Window
  <2>5. ProcessTCPPayload(s, p) = [s EXCEPT !.have = have, !.rcv_nxt = n, !.rcv_wnd = w]
    BY <1>4, <2>1, <2>3, <2>4 DEF ProcessTCPPayload
  <2>6. PICK b \in StreamType : b = [s EXCEPT !.have = have, !.rcv_nxt = n, !.rcv_wnd = w]
    BY DEF StreamType
  <2>7. b.have = have /\ b.rcv_nxt = n /\ b.rcv_wnd = w /\ SameRest(s, b) /\ b.state = s.state /\ b.age = s.age
        /\ (b.on_timewait_list <=> s.on_timewait_list)
    BY <2>6 DEF StreamType, SameRest, SameEnds
  <2>8. p.len = 1
    BY <1>1, <1>4 DEF IsPacket
  <2>9. Stored(s, have, p)
    BY <1>1, <1>2, <2>1 DEF Stored, Fits, IsPacket
  <2>10. s.have \subseteq have /\ \A i \in have : i \in s.have \/ i = p.seq
    BY <2>1
  <2>11. Merged(s, b, p)
    BY <2>2, <2>3, <2>4, <2>7, <2>8, <2>9, <2>10 DEF Merged
  <2> QED
    BY <2>5, <2>6, <2>11
<1> QED
  BY <1>3, <1>4

\* Data stays data.
LEMMA DataKept ==
    ASSUME NEW g, NEW h, NEW k, NEW x, NEW y, NEW p, Delivery(g, h, k, x, y, p),
           NEW old \in SUBSET Nat, NEW have \in SUBSET Nat, DataOnly(old, x, g),
           \A i \in have : i \in old \/ (p.len = 1 /\ i = p.seq)
    PROVE  DataOnly(have, x, k)
<1>1. Facts(g, k, x, y, p) /\ Fields(g, x, y) /\ Fields(k, x, y) /\ IsPacket(p)
  BY DeliveryFacts
<1>2. ASSUME NEW i \in have PROVE 1 <= i /\ i < k[x].sent /\ (k[x].fin => i # k[x].sent - 1)
  <2>1. CASE i \in old
    <3>1. i \in Nat /\ 1 <= i /\ i < g[x].sent /\ (g[x].fin => i # g[x].sent - 1)
      BY <2>1 DEF DataOnly
    <3> QED
      BY <1>1, <3>1 DEF Facts, Fields
  <2>2. CASE p.len = 1 /\ i = p.seq
    BY <1>1, <2>2 DEF Facts, Fields, IsPacket
  <2> QED
    BY <1>2, <2>1, <2>2
<1> QED
  BY <1>2 DEF DataOnly

\* What y receives is seen when p's byte is in the buffer.
LEMMA SeenBytes ==
    ASSUME NEW g, NEW h, NEW k, NEW x, NEW y, NEW p, Delivery(g, h, k, x, y, p),
           NEW old, NEW have, Seen(old, y, x, g), old \subseteq have,
           ~g[y].gone /\ p.len = 1 => p.seq \in have
    PROVE  Seen(have, y, x, k)
<1>1. Facts(g, k, x, y, p) /\ Fields(g, x, y) /\ Fields(k, x, y) /\ IsPacket(p)
  BY DeliveryFacts
<1>2. Arrival(g, k, y, p) /\ Received(k, y, x)
  BY DeliveryArrives
<1>3. ASSUME NEW i \in k[y].rcvd \ {0} PROVE (k[x].fin /\ i = k[x].sent - 1) \/ i \in have
  <2>1. i \in Nat /\ i > 0
    BY <1>2 DEF Received
  <2>2. CASE i \in g[y].rcvd
    <3>1. (g[x].fin /\ i = g[x].sent - 1) \/ i \in old
      BY <2>1, <2>2 DEF Seen
    <3> QED
      BY <1>1, <3>1 DEF Facts
  <2>3. CASE i \notin g[y].rcvd
    <3>1. /\ ~g[y].gone /\ ~p.rst
          /\ p.seq <= i /\ i < p.seq + p.len + (IF p.syn \/ p.fin THEN 1 ELSE 0)
      BY <1>2, <2>1, <2>3 DEF Arrival
    <3>2. CASE i = p.seq /\ p.len = 1
      BY <3>1, <3>2
    <3>3. CASE ~(i = p.seq /\ p.len = 1)
      <4>1. p.fin /\ i = p.seq + p.len
        BY <1>1, <2>1, <3>1, <3>3 DEF Facts, IsPacket
      <4> QED
        BY <1>1, <2>1, <4>1 DEF Facts, Fields, IsPacket
    <3> QED
      BY <3>2, <3>3
  <2> QED
    BY <2>2, <2>3
<1> QED
  BY <1>3 DEF Seen

-----------------------------------------------------------------------------
(* The stream of the sender.                                               *)

\* What packet p makes of stream s of its sender.
Sent(s, t, p) ==
    /\ t \in StreamType /\ t.have = s.have /\ t.rcv_nxt = s.rcv_nxt /\ (t.status_mgmt <=> s.status_mgmt)
    /\ t.rcv_wnd = s.rcv_wnd /\ (t.on_timeout_list => s.on_timeout_list \/ (p.syn /\ ~p.ack))
    /\ (t.on_timewait_list <=> s.on_timewait_list) /\ (t.age = 0 \/ (~p.ack /\ t.age = s.age))
    /\ \/ /\ t.state = s.state /\ SameEnds(s, t) /\ ~p.rst
          /\ ~(p.fin /\ s.state \in {"ESTABLISHED", "CLOSE_WAIT"})
          /\ p.syn /\ ~p.ack => s.state \notin {"LISTEN", "SYN_SENT"}
       \/ /\ t.state = "SYN_SENT" /\ SameEnds(s, t) /\ t.snd_nxt = p.seq + 1 /\ p.syn /\ ~p.ack
          /\ s.state \in {"LISTEN", "SYN_SENT"}
       \/ t.state = "CLOSED_RSVD" /\ SameEnds(s, t) /\ p.rst
       \/ /\ ~p.rst /\ p.fin /\ t.is_fin_sent /\ t.fss = p.seq + p.len
          /\ \/ s.state = "ESTABLISHED" /\ t.state = "FIN_WAIT_1"
             \/ s.state = "CLOSE_WAIT" /\ t.state = "LAST_ACK" /\ p.ack /\ p.ack_seq = s.rcv_nxt
             \/ s.state = "CLOSE_WAIT" /\ t.state = "CLOSING" /\ ~(p.ack /\ p.ack_seq = s.rcv_nxt)

LEMMA SenderMoves ==
    ASSUME NEW s \in StreamType, NEW p \in PacketType
    PROVE  Sent(s, UpdatePassiveSendTCPContext(s, p), p)
<1>1. IsPacket(p)
  BY PacketFields DEF IsPacket
<1>2. PICK yes \in BOOLEAN : yes = TRUE
  OBVIOUS
<1>3. CASE p.syn /\ ~p.ack /\ s.state \in {"LISTEN", "SYN_SENT"}
  <2>1. PICK n \in Nat : n = p.seq + 1
    BY <1>1 DEF IsPacket
  <2>2. UpdatePassiveSendTCPContext(s, p) =
            [s EXCEPT !.snd_nxt = n, !.state = "SYN_SENT", !.age = 0, !.on_timeout_list = yes]
    BY <1>2, <1>3, <2>1 DEF UpdatePassiveSendTCPContext
  <2>3. PICK t \in StreamType : t = [s EXCEPT !.snd_nxt = n, !.state = "SYN_SENT", !.age = 0, !.on_timeout_list = yes]
    BY DEF StreamType, State
  <2>4. /\ t.have = s.have /\ t.rcv_nxt = s.rcv_nxt /\ t.rcv_wnd = s.rcv_wnd /\ t.status_mgmt = s.status_mgmt /\ t.age = 0
        /\ t.on_timewait_list = s.on_timewait_list /\ t.state = "SYN_SENT" /\ t.snd_nxt = n /\ t.fss = s.fss
        /\ t.is_fin_sent = s.is_fin_sent
    BY <2>3 DEF StreamType
  <2>5. Sent(s, t, p)
    BY <1>3, <2>1, <2>4 DEF Sent, SameEnds
  <2> QED
    BY <2>2, <2>3, <2>5
<1>4. CASE ~(p.syn /\ ~p.ack /\ s.state \in {"LISTEN", "SYN_SENT"})
  <2>n. PICK n \in Nat, m \in Nat, q \in Nat : n = p.seq + p.len /\ m = p.seq + 1 /\ q = IF p.ack THEN 0 ELSE s.age
    BY <1>1, StreamFields DEF IsPacket
  <2>2. PICK c \in StreamType : c = [s EXCEPT !.age = q, !.snd_nxt = n]
    BY DEF StreamType
  <2>3. /\ c.have = s.have /\ c.rcv_nxt = s.rcv_nxt /\ c.rcv_wnd = s.rcv_wnd /\ c.on_timeout_list = s.on_timeout_list
        /\ c.status_mgmt = s.status_mgmt
        /\ (c.age = 0 \/ (~p.ack /\ c.age = s.age)) /\ c.on_timewait_list = s.on_timewait_list
        /\ c.state = s.state /\ c.fss = s.fss /\ c.is_fin_sent = s.is_fin_sent
    BY <2>n, <2>2 DEF StreamType
  <2>4. UpdatePassiveSendTCPContext(s, p) =
            IF p.rst THEN [c EXCEPT !.state = "CLOSED_RSVD"]
            ELSE IF s.state = "SYN_RCVD" /\ p.ack /\ p.syn THEN [c EXCEPT !.snd_nxt = p.seq + 1]
            ELSE IF s.state \in {"ESTABLISHED", "CLOSE_WAIT"} /\ p.fin THEN PassiveFin(c, p)
            ELSE c
    BY <1>4, <2>n, <2>2 DEF UpdatePassiveSendTCPContext, End
  <2>5. CASE p.rst
    <3>1. PICK t \in StreamType : t = [c EXCEPT !.state = "CLOSED_RSVD"]
      BY DEF StreamType, State
    <3>2. /\ t.have = c.have /\ t.rcv_nxt = c.rcv_nxt /\ t.rcv_wnd = c.rcv_wnd /\ t.on_timeout_list = c.on_timeout_list
          /\ t.status_mgmt = c.status_mgmt /\ t.age = c.age
          /\ t.on_timewait_list = c.on_timewait_list /\ t.state = "CLOSED_RSVD" /\ t.fss = c.fss
          /\ t.is_fin_sent = c.is_fin_sent
      BY <3>1 DEF StreamType
    <3>3. Sent(s, t, p)
      BY <2>3, <2>5, <3>2 DEF Sent, SameEnds
    <3> QED
      BY <2>4, <2>5, <3>1, <3>3
  <2>6. CASE ~p.rst /\ s.state = "SYN_RCVD" /\ p.ack /\ p.syn
    <3>1. PICK t \in StreamType : t = [c EXCEPT !.snd_nxt = m]
      BY DEF StreamType
    <3>2. /\ t.have = c.have /\ t.rcv_nxt = c.rcv_nxt /\ t.rcv_wnd = c.rcv_wnd /\ t.on_timeout_list = c.on_timeout_list
          /\ t.status_mgmt = c.status_mgmt /\ t.age = c.age
          /\ t.on_timewait_list = c.on_timewait_list /\ t.state = c.state /\ t.fss = c.fss
          /\ t.is_fin_sent = c.is_fin_sent
      BY <3>1 DEF StreamType
    <3>3. Sent(s, t, p)
      BY <2>3, <2>6, <3>2 DEF Sent, SameEnds
    <3> QED
      BY <2>n, <2>4, <2>6, <3>1, <3>3
  <2>7. CASE ~p.rst /\ s.state \in {"ESTABLISHED", "CLOSE_WAIT"} /\ p.fin
    <3>1. PICK new \in State : new = IF s.state = "ESTABLISHED" THEN "FIN_WAIT_1"
                                     ELSE IF p.ack /\ p.ack_seq = s.rcv_nxt THEN "LAST_ACK" ELSE "CLOSING"
      BY DEF State
    <3>r. PICK r \in Nat : r = c.snd_nxt + 1
      BY StreamFields
    <3>2. PassiveFin(c, p) = [c EXCEPT !.fss = n, !.is_fin_sent = yes, !.snd_nxt = r, !.state = new]
      BY <1>2, <2>n, <2>3, <3>1, <3>r DEF PassiveFin, End
    <3>3. PICK t \in StreamType : t = [c EXCEPT !.fss = n, !.is_fin_sent = yes, !.snd_nxt = r, !.state = new]
      BY DEF StreamType
    <3>4. /\ t.have = c.have /\ t.rcv_nxt = c.rcv_nxt /\ t.rcv_wnd = c.rcv_wnd /\ t.on_timeout_list = c.on_timeout_list
          /\ t.status_mgmt = c.status_mgmt /\ t.age = c.age
          /\ t.on_timewait_list = c.on_timewait_list /\ t.state = new /\ t.fss = p.seq + p.len
          /\ t.is_fin_sent
      BY <1>2, <2>n, <3>3 DEF StreamType
    <3>5. Sent(s, t, p)
      BY <2>3, <2>7, <3>1, <3>4 DEF Sent
    <3> QED
      BY <2>4, <2>7, <3>2, <3>3, <3>5
  <2>8. CASE /\ ~p.rst /\ ~(s.state = "SYN_RCVD" /\ p.ack /\ p.syn)
             /\ ~(s.state \in {"ESTABLISHED", "CLOSE_WAIT"} /\ p.fin)
    <3>1. Sent(s, c, p)
      BY <1>4, <2>3, <2>8 DEF Sent, SameEnds
    <3> QED
      BY <2>4, <2>8, <3>1
  <2> QED
    BY <2>5, <2>6, <2>7, <2>8
<1> QED
  BY <1>3, <1>4

LEMMA SenderOK ==
    ASSUME NEW g, NEW h, NEW k, NEW x, NEW y, NEW p, Delivery(g, h, k, x, y, p),
           NEW s \in StreamType, StreamOK(s, x, g), s.status_mgmt, NEW t, Sent(s, t, p)
    PROVE  StreamOK(t, x, k)
<1>1. /\ Facts(g, k, x, y, p) /\ Fields(g, x, y) /\ Fields(k, x, y) /\ IsPacket(p)
      /\ x \in Side /\ y \in Side /\ y = Peer(x) /\ x = Peer(y) /\ Side = {x, y}
  BY DeliveryFacts
<1>2. IsFiniteSet(s.have) /\ StateTrue(s, x, g) /\ BufferTrue(s, x, g) /\ NothingMissed(s, x, g) /\ InStep(s, x, g)
  BY DEF StreamOK
<1>3. StateTrue(s, x, k)
  BY <1>1, <1>2, DeliveryGrows, StateKept DEF Delivery
<1>4. t \in StreamType /\ t.have = s.have /\ t.rcv_nxt = s.rcv_nxt /\ (t.on_timewait_list <=> s.on_timewait_list)
      /\ t.rcv_wnd = s.rcv_wnd
  BY DEF Sent
<1>5. SomeoneGone(g) => SomeoneGone(k)
  BY <1>1 DEF SomeoneGone, Facts
<1>6. p.rst => SomeoneGone(k)
  BY <1>1 DEF SomeoneGone, Facts
<1>r. Received(g, x, y)
  BY DeliveryArrives
<1>t. t.on_timeout_list => x = "CLI"
  <2>1. p.syn /\ ~p.ack => x = "CLI"
    <3>1. p.syn => k[x].sent > 0
      BY <1>1 DEF Facts, Fields, IsPacket
    <3>2. x = "SVR" => (k[x].sent > 0 => k[x].got > 0)
      BY DEF Delivery, HostsOK
    <3> QED
      BY <1>1, <3>1, <3>2, Sides DEF Facts
  <2> QED
    BY <1>3, <2>1 DEF Sent, StateTrue
<1>7. s.state # "LISTEN" /\ (s.state = "SYN_SENT" => p.syn /\ ~p.ack /\ p.seq = 0) /\ (p.fin => s.state # "SYN_RCVD")
  <2>1. s.state # "LISTEN"
    BY <1>2 DEF StateTrue
  <2>2. ASSUME s.state = "SYN_SENT" PROVE g[x].got = 0
    <3>1. g[x].rcvd = {}
      BY <1>2, <2>2 DEF InStep
    <3>2. g[x].got > 0 => 0 \in g[x].rcvd
      BY <1>1, <1>r DEF Received, Fields
    <3> QED
      BY <1>1, <3>1, <3>2 DEF Fields
  <2>3. s.state = "SYN_RCVD" => g[x].una = 0
    BY <1>2 DEF InStep
  <2> QED
    BY <1>1, <2>1, <2>2, <2>3 DEF Facts, Fields, IsPacket
<1>8. StateTrue(t, x, k)
  <2> USE <1>t
  <2>1. CASE t.state = s.state /\ SameEnds(s, t)
    BY <1>3, <1>4, <2>1 DEF StateTrue, SameEnds
  <2>2. CASE t.state = "SYN_SENT" /\ SameEnds(s, t) /\ s.state \in {"LISTEN", "SYN_SENT"}
    BY <1>3, <1>4, <2>2 DEF StateTrue, SameEnds
  <2>3. CASE t.state = "CLOSED_RSVD" /\ SameEnds(s, t) /\ p.rst
    BY <1>3, <1>4, <1>6, <2>3 DEF StateTrue, SameEnds, OwnFin, PeerFin
  <2>4. CASE p.fin /\ t.is_fin_sent /\ t.fss = p.seq + p.len /\ s.state = "ESTABLISHED" /\ t.state = "FIN_WAIT_1"
    <3>1. k[x].fin /\ t.fss + 1 = k[x].sent
      BY <1>1, <2>4 DEF Facts
    <3> QED
      BY <1>3, <1>4, <2>4, <3>1 DEF StateTrue, OwnFin, PeerFin
  <2>5. CASE /\ p.fin /\ t.is_fin_sent /\ t.fss = p.seq + p.len /\ s.state = "CLOSE_WAIT"
             /\ \/ t.state = "LAST_ACK" /\ p.ack /\ p.ack_seq = s.rcv_nxt
                \/ t.state = "CLOSING" /\ ~(p.ack /\ p.ack_seq = s.rcv_nxt)
    <3>1. k[x].fin /\ t.fss + 1 = k[x].sent /\ k[x].got = p.ack_seq
      BY <1>1, <2>5 DEF Facts
    <3>2. k[y].fin /\ s.rcv_nxt = k[y].sent
      BY <1>1, <1>3, <2>5 DEF StateTrue, PeerFin
    <3>3. t.state = "LAST_ACK" => Reached(k, y)
      BY <1>1, <2>5, <3>1, <3>2 DEF Reached
    <3> QED
      BY <1>1, <1>3, <1>4, <2>5, <3>1, <3>2, <3>3 DEF StateTrue, OwnFin, PeerFin
  <2> QED
    BY <2>1, <2>2, <2>3, <2>4, <2>5 DEF Sent
<1>9. BufferTrue(t, x, k) /\ NothingMissed(t, x, k)
  <2>1. DataOnly(t.have, y, k)
    BY <1>1, <1>2, <1>4 DEF BufferTrue, DataOnly, Facts
  <2>2. k[y].sent = g[y].sent
    BY <1>1 DEF Facts
  <2>3. \/ t.state = s.state
        \/ t.state \in {"FIN_WAIT_1", "LAST_ACK", "CLOSING"} /\ s.state \in {"ESTABLISHED", "CLOSE_WAIT"}
           /\ (t.state = "FIN_WAIT_1" <=> s.state = "ESTABLISHED")
        \/ t.state = "CLOSED_RSVD" /\ SomeoneGone(k)
    BY <1>6, <1>7 DEF Sent
  <2>4. Contiguous(t) <=> Contiguous(s)
    BY <1>4 DEF Contiguous
  <2>5. BufferTrue(t, x, k)
    BY <1>1, <1>2, <1>4, <1>5, <2>1, <2>2, <2>3, <2>4 DEF BufferTrue, PeerFin, Reading
  <2>6. Seen(s.have, x, y, g) => Seen(t.have, x, y, k)
    BY <1>1, <1>4 DEF Seen, Facts
  <2>7. NothingMissed(t, x, k)
    BY <1>1, <1>2, <1>4, <2>3, <2>6 DEF NothingMissed, Reading
  <2> QED
    BY <2>5, <2>7
<1>10. InStep(t, x, k)
  <2>1. t.state = "SYN_SENT" => k[x].rcvd = {} /\ t.snd_nxt = 1
    <3>1. t.state = "SYN_SENT" => s.state = "SYN_SENT" /\ p.syn /\ p.seq = 0 /\ t.snd_nxt = p.seq + 1
      BY <1>1, <1>7 DEF Sent, Facts
    <3> QED
      BY <1>1, <1>2, <3>1 DEF InStep, Facts
  <2>2. t.state = "SYN_RCVD" => k[x].rcvd \subseteq {0} /\ k[x].una = 0
    BY <1>1, <1>2 DEF Sent, InStep, Facts
  <2>3. ASSUME FinTaken(k, x) PROVE t.state \in OwnFin \cup {"CLOSED_RSVD"}
    <3>1. CASE FinTaken(g, x)
      BY <1>2, <3>1 DEF InStep, Sent, OwnFin
    <3>2. CASE ~FinTaken(g, x)
      <4>1. p.fin /\ ~p.syn /\ ~p.rst
        BY <2>3, <3>2, FinArrives
      <4>2. s.state \in State
        BY StreamFields
      <4> QED
        BY <1>7, <4>1, <4>2 DEF Sent, OwnFin, State
    <3> QED
      BY <3>1, <3>2
  <2>4. ASSUME t.state \in {"CLOSING", "LAST_ACK"} PROVE k[x].una < k[x].sent
    <3>1. CASE t.state = s.state
      BY <1>1, <1>2, <2>4, <3>1 DEF InStep, Facts, Fields
    <3>2. CASE t.state # s.state
      <4>1. p.fin /\ ~p.rst
        BY <2>4, <3>2 DEF Sent
      <4> QED
        BY <1>1, <4>1 DEF Facts, Fields, IsPacket
    <3> QED
      BY <3>1, <3>2
  <2>5. ASSUME t.state = "LAST_ACK", FinTaken(k, x) PROVE k[y].una = k[y].sent
    <3>1. g[x].got = g[y].sent /\ (g[x].got > 0 => p.ack)
      <4>1. CASE s.state = "LAST_ACK"
        BY <1>1, <1>2, <4>1 DEF StateTrue, Reached, Facts
      <4>2. CASE s.state = "CLOSE_WAIT" /\ p.ack_seq = s.rcv_nxt
        BY <1>1, <1>2, <4>2 DEF StateTrue, PeerFin, Facts
      <4> QED
        BY <2>5, <4>1, <4>2 DEF Sent
    <3>3. CASE ~FinTaken(g, x)
      <4>1. g[y].sent > 0
        BY <1>1, <1>8, <2>5, Sides DEF StateTrue, Facts
      <4>2. p.ack => k[y].una >= p.ack_seq
        BY <2>5, <3>3, FinArrives
      <4> QED
        BY <1>1, <3>1, <4>1, <4>2 DEF Facts, Fields, IsPacket
    <3>4. CASE FinTaken(g, x)
      <4>2. s.state = "LAST_ACK"
        BY <1>2, <2>5, <3>4 DEF InStep, Sent, OwnFin
      <4> QED
        BY <1>1, <1>2, <3>4, <4>2 DEF InStep, Facts, Fields
    <3> QED
      BY <3>3, <3>4
  <2>6. t.state = "CLOSED_RSVD" => SomeoneGone(k) \/ (k[y].fin /\ t.rcv_nxt = k[y].sent)
    BY <1>1, <1>2, <1>4, <1>5, <1>6 DEF InStep, Sent, Facts
  <2> QED
    BY <1>1, <2>1, <2>2, <2>3, <2>4, <2>5, <2>6 DEF InStep
<1> QED
  BY <1>2, <1>4, <1>8, <1>9, <1>10 DEF StreamOK

-----------------------------------------------------------------------------
(* The stream of the receiver.                                             *)

\* Stream e, which still waits for a FIN, takes payload and FIN of p.
Reads(e, t, p) ==
    /\ t \in StreamType /\ IsFiniteSet(t.have) /\ SameRest(e, t) /\ t.age = e.age
    /\ e.have \subseteq t.have /\ (\A i \in t.have : i \in e.have \/ (p.len = 1 /\ i = p.seq))
    /\ Stored(e, t.have, p)
    /\ \E n \in Nat :
        /\ n >= e.rcv_nxt /\ \A i \in e.rcv_nxt .. n - 1 : i \in t.have
        /\ e.rcv_nxt \notin e.have => n \notin t.have
        /\ t.rcv_wnd \in {e.rcv_wnd, Rcvbuf, Rcvbuf - (n - e.rcv_nxt)}
        /\ \/ t.state = e.state /\ t.rcv_nxt = n /\ (t.on_timewait_list <=> e.on_timewait_list)
           \/ /\ p.fin /\ p.seq + p.len = n /\ t.rcv_nxt = n + 1
              /\ \/ /\ t.on_timewait_list <=> e.on_timewait_list
                    /\ \/ e.state = "ESTABLISHED" /\ t.state = "CLOSE_WAIT"
                       \/ e.state = "FIN_WAIT_1" /\ t.state = "CLOSING"
                 \/ e.state = "FIN_WAIT_2" /\ t.state = "TIME_WAIT"

LEMMA EstablishedReads ==
    ASSUME NEW e \in StreamType, NEW p \in PacketType, IsFiniteSet(e.have), e.state = "ESTABLISHED", ~p.syn
    PROVE  Reads(e, Handle_TCP_ST_ESTABLISHED(e, p), p)
<1>1. PICK b \in StreamType : b = ProcessTCPPayload(e, p)
  BY Payload DEF Merged
<1>2. Merged(e, b, p)
  BY <1>1, Payload
<1>3. Handle_TCP_ST_ESTABLISHED(e, p) =
          IF p.fin /\ p.seq + p.len = b.rcv_nxt THEN [b EXCEPT !.state = "CLOSE_WAIT", !.rcv_nxt = b.rcv_nxt + 1] ELSE b
  BY <1>1 DEF Handle_TCP_ST_ESTABLISHED, FinAccepted, End
<1>4. b.rcv_nxt \in Nat
  BY StreamFields
<1>5. CASE p.fin /\ p.seq + p.len = b.rcv_nxt
  <2>1. PICK n \in Nat : n = b.rcv_nxt + 1
    BY <1>4
  <2>2. PICK t \in StreamType : t = [b EXCEPT !.state = "CLOSE_WAIT", !.rcv_nxt = n]
    BY DEF StreamType, State
  <2>3. /\ t.have = b.have /\ t.rcv_nxt = n /\ t.state = "CLOSE_WAIT" /\ t.fss = b.fss /\ t.age = b.age
        /\ t.rcv_wnd = b.rcv_wnd /\ t.on_timeout_list = b.on_timeout_list
        /\ t.is_fin_sent = b.is_fin_sent /\ t.status_mgmt = b.status_mgmt /\ t.on_timewait_list = b.on_timewait_list
    BY <2>2 DEF StreamType
  <2>4. Reads(e, t, p)
    BY <1>2, <1>4, <1>5, <2>1, <2>3 DEF Reads, Merged, SameRest, SameEnds
  <2> QED
    BY <1>3, <1>5, <2>1, <2>2, <2>4
<1>6. CASE ~(p.fin /\ p.seq + p.len = b.rcv_nxt)
  <2>1. Reads(e, b, p)
    BY <1>2, <1>4 DEF Reads, Merged
  <2> QED
    BY <1>3, <1>6, <2>1
<1> QED
  BY <1>5, <1>6

LEMMA ReceiveFinReads ==
    ASSUME NEW e \in StreamType, NEW p \in PacketType, IsFiniteSet(e.have), e.state \in {"FIN_WAIT_1", "FIN_WAIT_2"}
    PROVE  Reads(e, ReceiveFin(e, p), p)
<1>1. PICK b \in StreamType : b = ProcessTCPPayload(e, p)
  BY Payload DEF Merged
<1>2. Merged(e, b, p)
  BY <1>1, Payload
<1>3. b.rcv_nxt \in Nat
  BY StreamFields
<1>4. PICK n \in Nat : n = b.rcv_nxt + 1
  BY <1>3
<1>5. PICK c \in StreamType : c = [b EXCEPT !.rcv_nxt = n]
  BY DEF StreamType
<1>6. /\ c.have = b.have /\ c.rcv_nxt = n /\ c.fss = b.fss /\ c.age = b.age
      /\ c.rcv_wnd = b.rcv_wnd /\ c.on_timeout_list = b.on_timeout_list
      /\ c.is_fin_sent = b.is_fin_sent /\ c.status_mgmt = b.status_mgmt /\ c.on_timewait_list = b.on_timewait_list
  BY <1>5 DEF StreamType
<1>7. ReceiveFin(e, p) =
          IF ~(p.fin /\ p.seq + p.len = b.rcv_nxt) THEN b
          ELSE IF e.state = "FIN_WAIT_1" THEN [c EXCEPT !.state = "CLOSING"]
          ELSE AddtoTimewaitList([c EXCEPT !.state = "TIME_WAIT"])
  BY <1>1, <1>4, <1>5 DEF ReceiveFin, FinAccepted, End
<1>8. CASE ~(p.fin /\ p.seq + p.len = b.rcv_nxt)
  <2>1. Reads(e, b, p)
    BY <1>2, <1>3 DEF Reads, Merged
  <2> QED
    BY <1>7, <1>8, <2>1
<1>9. CASE p.fin /\ p.seq + p.len = b.rcv_nxt /\ e.state = "FIN_WAIT_1"
  <2>1. PICK t \in StreamType : t = [c EXCEPT !.state = "CLOSING"]
    BY DEF StreamType, State
  <2>2. /\ t.have = c.have /\ t.rcv_nxt = c.rcv_nxt /\ t.state = "CLOSING" /\ t.fss = c.fss /\ t.age = c.age
        /\ t.rcv_wnd = c.rcv_wnd /\ t.on_timeout_list = c.on_timeout_list
        /\ t.is_fin_sent = c.is_fin_sent /\ t.status_mgmt = c.status_mgmt /\ t.on_timewait_list = c.on_timewait_list
    BY <2>1 DEF StreamType
  <2>3. Reads(e, t, p)
    BY <1>2, <1>3, <1>4, <1>6, <1>9, <2>2 DEF Reads, Merged, SameRest, SameEnds
  <2> QED
    BY <1>7, <1>9, <2>1, <2>3
<1>10. CASE p.fin /\ p.seq + p.len = b.rcv_nxt /\ e.state = "FIN_WAIT_2"
  <2>1. PICK yes \in BOOLEAN : yes = TRUE
    OBVIOUS
  <2>2. PICK d \in StreamType : d = [c EXCEPT !.state = "TIME_WAIT"]
    BY DEF StreamType, State
  <2>3. PICK t \in StreamType : t = [d EXCEPT !.on_timewait_list = yes, !.tw_age = 0]
    BY DEF StreamType
  <2>4. /\ d.have = c.have /\ d.rcv_nxt = c.rcv_nxt /\ d.state = "TIME_WAIT" /\ d.fss = c.fss /\ d.age = c.age
        /\ d.rcv_wnd = c.rcv_wnd /\ d.on_timeout_list = c.on_timeout_list
        /\ d.is_fin_sent = c.is_fin_sent /\ d.status_mgmt = c.status_mgmt
    BY <2>2 DEF StreamType
  <2>5. /\ t.have = d.have /\ t.rcv_nxt = d.rcv_nxt /\ t.state = d.state /\ t.fss = d.fss /\ t.age = d.age
        /\ t.rcv_wnd = d.rcv_wnd /\ t.on_timeout_list = d.on_timeout_list
        /\ t.is_fin_sent = d.is_fin_sent /\ t.status_mgmt = d.status_mgmt
    BY <2>3 DEF StreamType
  <2>6. Reads(e, t, p)
    BY <1>2, <1>3, <1>4, <1>6, <1>10, <2>4, <2>5 DEF Reads, Merged, SameRest, SameEnds
  <2>7. t = AddtoTimewaitList([c EXCEPT !.state = "TIME_WAIT"])
    BY <2>1, <2>2, <2>3 DEF AddtoTimewaitList
  <2> QED
    BY <1>7, <1>10, <2>6, <2>7
<1> QED
  BY <1>8, <1>9, <1>10

\* Nothing of s that the invariant speaks of changes, but for the state.
SameBuffer(s, t) ==
    t.have = s.have /\ t.rcv_nxt = s.rcv_nxt /\ t.rcv_wnd = s.rcv_wnd /\ (t.on_timewait_list <=> s.on_timewait_list)

\* Why a stream keeps its state.
Ignores(s, p) ==
    /\ p.rst => s.state \in {"LISTEN", "SYN_SENT", "SYN_RCVD"}
    /\ s.state = "LISTEN" => ~p.syn
    /\ s.state = "SYN_SENT" => ~(p.ack /\ p.ack_seq > 0 /\ p.ack_seq <= s.snd_nxt /\ (p.syn \/ p.rst))
    /\ s.state = "SYN_RCVD" => p.rst \/ ~p.ack
    /\ s.state = "ESTABLISHED" => p.syn
    /\ s.state = "FIN_WAIT_1" => p.seq < s.rcv_nxt \/ ~p.ack
    /\ s.state = "FIN_WAIT_2" => ~p.ack
    /\ s.state = "CLOSING" => ~AckOfFin(s, p)
    /\ s.state = "LAST_ACK" => ~(p.seq >= s.rcv_nxt /\ AckOfFin(s, p))

\* Stream s takes part of p as e does, which is s or s with its handshake done
\* or its FIN acknowledged.
Takes(s, e, t, p) ==
    /\ e \in StreamType /\ SameRest(s, e) /\ e.age = 0 /\ e.have = s.have /\ e.rcv_wnd = s.rcv_wnd
    /\ (e.on_timewait_list <=> s.on_timewait_list)
    /\ ~p.rst /\ p.ack
    /\ \/ /\ s.state = "SYN_RCVD" /\ ~p.syn /\ e.state = "ESTABLISHED" /\ e.rcv_nxt = 1
          /\ (p.len = 0 /\ t = e) \/ Reads(e, t, p)
       \/ /\ e.rcv_nxt = s.rcv_nxt /\ Reads(e, t, p)
          /\ \/ s.state \in {"ESTABLISHED", "FIN_WAIT_2"} /\ e.state = s.state
             \/ s.state = "FIN_WAIT_1" /\ e.state = "FIN_WAIT_1" /\ ~AckOfFin(s, p)
             \/ s.state = "FIN_WAIT_1" /\ e.state = "FIN_WAIT_2" /\ AckOfFin(s, p)

\* What packet p makes of stream s of its receiver.
Got(s, t, p) ==
    /\ t \in StreamType /\ IsFiniteSet(t.have) /\ SameRest(s, t) /\ t.age = 0
    /\ \/ /\ t.state = s.state /\ SameBuffer(s, t) /\ Ignores(s, p)
          /\ s.state = "SYN_SENT" => t.snd_nxt = s.snd_nxt
       \/ /\ t.state = "CLOSED_RSVD" /\ SameBuffer(s, t)
          /\ p.rst \/ (s.state = "LAST_ACK" /\ AckOfFin(s, p))
       \/ /\ s.state \in {"LISTEN", "SYN_RCVD"} /\ t.state = "SYN_RCVD" /\ p.syn /\ t.rcv_nxt = p.seq
          /\ t.have = s.have /\ t.rcv_wnd = s.rcv_wnd /\ (t.on_timewait_list <=> s.on_timewait_list)
       \/ /\ s.state = "SYN_SENT" /\ t.state = "ESTABLISHED" /\ p.syn /\ p.ack /\ t.rcv_nxt = p.seq + 1
          /\ t.have = s.have /\ t.rcv_wnd = s.rcv_wnd /\ (t.on_timewait_list <=> s.on_timewait_list)
       \/ /\ s.state = "CLOSING" /\ t.state = "TIME_WAIT" /\ t.have = s.have /\ t.rcv_nxt = s.rcv_nxt /\ AckOfFin(s, p)
       \/ \E e : Takes(s, e, t, p)

\* A stream that enters the timewait list.
LEMMA Timewaits ==
    ASSUME NEW a \in StreamType
    PROVE  \E t \in StreamType :
               /\ t = AddtoTimewaitList(a) /\ t.state = a.state /\ t.rcv_nxt = a.rcv_nxt /\ t.rcv_wnd = a.rcv_wnd /\ t.have = a.have
               /\ t.age = a.age /\ SameRest(a, t) /\ t.on_timewait_list
<1>1. PICK yes \in BOOLEAN : yes = TRUE
  OBVIOUS
<1>2. PICK t \in StreamType : t = [a EXCEPT !.on_timewait_list = yes, !.tw_age = 0]
  BY DEF StreamType
<1>3. /\ t.state = a.state /\ t.rcv_nxt = a.rcv_nxt /\ t.rcv_wnd = a.rcv_wnd /\ t.have = a.have
      /\ t.age = a.age /\ SameRest(a, t) /\ t.on_timewait_list
  BY <1>1, <1>2 DEF StreamType, SameRest, SameEnds
<1> QED
  BY <1>1, <1>2, <1>3 DEF AddtoTimewaitList

\* A stream whose state alone changes.
LEMMA Turned ==
    ASSUME NEW a \in StreamType, NEW new \in State
    PROVE  \E t \in StreamType :
               /\ t = [a EXCEPT !.state = new]
               /\ t.state = new /\ SameRest(a, t) /\ SameBuffer(a, t) /\ t.age = a.age
<1>1. PICK t \in StreamType : t = [a EXCEPT !.state = new]
  BY DEF StreamType
<1>2. t.state = new /\ SameRest(a, t) /\ SameBuffer(a, t) /\ t.age = a.age
  BY <1>1 DEF StreamType, SameRest, SameEnds, SameBuffer
<1> QED
  BY <1>1, <1>2

\* A stream that keeps its state, but for snd_nxt.
LEMMA Renumbered ==
    ASSUME NEW a \in StreamType, NEW snd \in Nat
    PROVE  \E t \in StreamType :
               t = [a EXCEPT !.snd_nxt = snd] /\ t.state = a.state /\ SameRest(a, t) /\ SameBuffer(a, t) /\ t.age = a.age
<1>1. PICK t \in StreamType : t = [a EXCEPT !.snd_nxt = snd]
  BY DEF StreamType
<1>2. t.state = a.state /\ SameRest(a, t) /\ SameBuffer(a, t) /\ t.age = a.age
  BY <1>1 DEF StreamType, SameRest, SameEnds, SameBuffer
<1> QED
  BY <1>1, <1>2

LEMMA ReceiverMoves ==
    ASSUME NEW s \in StreamType, NEW p \in PacketType, IsFiniteSet(s.have),
           p.syn => p.seq = 0 /\ p.len = 0 /\ ~p.rst, ~p.syn => p.ack
    PROVE  Got(s, UpdateRecvTCPContext(s, p), p)
<1>1. IsPacket(p) /\ s.state \in State /\ s.rcv_nxt \in Nat /\ s.snd_nxt \in Nat
  BY PacketFields, StreamFields DEF IsPacket
<1>2. PICK a \in StreamType : a = [s EXCEPT !.age = 0]
  BY DEF StreamType
<1>3. /\ a.state = s.state /\ SameRest(s, a) /\ SameBuffer(s, a) /\ a.age = 0 /\ a.snd_nxt = s.snd_nxt
      /\ a.fss = s.fss /\ a.is_fin_sent = s.is_fin_sent /\ a.have = s.have /\ a.rcv_nxt = s.rcv_nxt /\ a.rcv_wnd = s.rcv_wnd
      /\ (a.on_timewait_list <=> s.on_timewait_list)
  BY <1>2 DEF StreamType, SameRest, SameEnds, SameBuffer
<1>4. IsFiniteSet(a.have)
  BY <1>3
<1>5. AckOfFin(a, p) <=> AckOfFin(s, p)
  BY <1>3 DEF AckOfFin
<1> DEFINE r == UpdateRecvTCPContext(s, p)
<1>6. Ignores(s, p) => Got(s, a, p)
  BY <1>3, <1>4 DEF Got
<1>c. PICK c \in StreamType : /\ c = [a EXCEPT !.state = "CLOSED_RSVD"] /\ c.state = "CLOSED_RSVD" /\ SameRest(a, c)
                              /\ SameBuffer(a, c) /\ c.age = a.age
  BY Turned DEF State
<1>7. p.rst \/ (s.state = "LAST_ACK" /\ AckOfFin(s, p)) => Got(s, c, p)
  BY <1>3, <1>4, <1>c DEF Got, SameRest, SameEnds, SameBuffer
<1>r. PICK u \in StreamType : /\ u = [a EXCEPT !.state = "SYN_RCVD", !.rcv_nxt = p.seq] /\ u.state = "SYN_RCVD"
                              /\ u.rcv_nxt = p.seq /\ u.have = a.have /\ u.rcv_wnd = a.rcv_wnd /\ SameRest(a, u)
                              /\ (u.on_timewait_list <=> a.on_timewait_list) /\ u.age = a.age
  <2>1. p.seq \in Nat
    BY <1>1 DEF IsPacket
  <2>2. PICK u \in StreamType : u = [a EXCEPT !.state = "SYN_RCVD", !.rcv_nxt = p.seq]
    BY <2>1 DEF StreamType, State
  <2>3. /\ u.state = "SYN_RCVD" /\ u.rcv_nxt = p.seq /\ u.have = a.have /\ u.rcv_wnd = a.rcv_wnd /\ SameRest(a, u)
        /\ (u.on_timewait_list <=> a.on_timewait_list) /\ u.age = a.age
    BY <2>2 DEF StreamType, SameRest, SameEnds
  <2> QED
    BY <2>2, <2>3
<1>8. p.syn /\ s.state \in {"LISTEN", "SYN_RCVD"} => Got(s, u, p)
  BY <1>3, <1>4, <1>r DEF Got, SameRest, SameEnds
<1>9. CASE p.rst /\ s.state \notin {"LISTEN", "SYN_SENT"}
  <2>1. r = ProcessRST(a, p)
    BY <1>2, <1>3, <1>9 DEF UpdateRecvTCPContext
  <2>2. CASE s.state = "SYN_RCVD" /\ p.seq # 0 /\ p.ack_seq # s.snd_nxt
    <3>1. Ignores(s, p)
      BY <1>9, <2>2 DEF Ignores
    <3> QED
      BY <1>3, <1>6, <2>1, <2>2, <3>1 DEF ProcessRST
  <2>3. CASE ~(s.state = "SYN_RCVD" /\ p.seq # 0 /\ p.ack_seq # s.snd_nxt)
    BY <1>3, <1>7, <1>9, <1>c, <2>1, <2>3 DEF ProcessRST
  <2> QED
    BY <2>2, <2>3
<1>10. CASE s.state = "LISTEN"
  <2>1. r = Handle_TCP_ST_LISTEN(a, p)
    BY <1>2, <1>3, <1>10 DEF UpdateRecvTCPContext
  <2>2. ~p.syn => Ignores(s, p)
    BY <1>10 DEF Ignores
  <2> QED
    BY <1>6, <1>8, <1>10, <1>r, <2>1, <2>2 DEF Handle_TCP_ST_LISTEN
<1>11. CASE s.state = "SYN_SENT"
  <2>1. r = Handle_TCP_ST_SYN_SENT(a, p)
    BY <1>2, <1>3, <1>11 DEF UpdateRecvTCPContext
  <2>2. CASE ~(p.ack /\ p.ack_seq > 0 /\ p.ack_seq <= s.snd_nxt /\ (p.syn \/ p.rst))
    <3>1. Ignores(s, p)
      BY <1>11, <2>2 DEF Ignores
    <3>2. r = a
      BY <1>1, <1>3, <2>1, <2>2 DEF Handle_TCP_ST_SYN_SENT, IsPacket
    <3> QED
      BY <1>6, <3>1, <3>2
  <2>3. CASE p.ack /\ p.ack_seq > 0 /\ p.ack_seq <= s.snd_nxt /\ p.rst
    <3>1. r = c
      BY <1>1, <1>3, <1>c, <2>1, <2>3 DEF Handle_TCP_ST_SYN_SENT, IsPacket
    <3> QED
      BY <1>7, <2>3, <3>1
  <2>4. CASE p.ack /\ p.ack_seq > 0 /\ p.ack_seq <= s.snd_nxt /\ p.syn /\ ~p.rst
    <3>1. PICK n \in Nat, m \in Nat : n = p.seq + 1 /\ m = p.ack_seq
      BY <1>1 DEF IsPacket
    <3>2. PICK t \in StreamType : /\ t = [a EXCEPT !.state = "ESTABLISHED", !.rcv_nxt = n, !.snd_nxt = m]
                                  /\ t.state = "ESTABLISHED" /\ t.rcv_nxt = n /\ t.have = a.have /\ t.rcv_wnd = a.rcv_wnd /\ t.age = a.age
                                  /\ SameRest(a, t) /\ (t.on_timewait_list <=> a.on_timewait_list)
      <4>1. PICK t \in StreamType : t = [a EXCEPT !.state = "ESTABLISHED", !.rcv_nxt = n, !.snd_nxt = m]
        BY DEF StreamType, State
      <4>2. /\ t.state = "ESTABLISHED" /\ t.rcv_nxt = n /\ t.have = a.have /\ t.rcv_wnd = a.rcv_wnd /\ t.age = a.age
            /\ SameRest(a, t) /\ (t.on_timewait_list <=> a.on_timewait_list)
        BY <4>1 DEF StreamType, SameRest, SameEnds
      <4> QED
        BY <4>1, <4>2
    <3>3. r = t
      BY <1>1, <1>3, <2>1, <2>4, <3>1, <3>2 DEF Handle_TCP_ST_SYN_SENT, IsPacket
    <3>4. Got(s, t, p)
      BY <1>3, <1>4, <1>11, <2>4, <3>1, <3>2 DEF Got, SameRest, SameEnds
    <3> QED
      BY <3>3, <3>4
  <2> QED
    BY <2>2, <2>3, <2>4
<1>12. CASE s.state = "SYN_RCVD" /\ ~p.rst
  <2>1. r = Handle_TCP_ST_SYN_RCVD(a, p)
    BY <1>2, <1>3, <1>12 DEF UpdateRecvTCPContext
  <2>2. CASE p.syn
    <3>1. r = u
      BY <1>r, <2>1, <2>2 DEF Handle_TCP_ST_SYN_RCVD, Handle_TCP_ST_LISTEN
    <3> QED
      BY <1>8, <1>12, <2>2, <3>1
  <2>3. CASE ~p.syn
    <3>1. PICK m \in Nat : m = p.ack_seq
      BY <1>1 DEF IsPacket
    <3>2. PICK e \in StreamType : /\ e = [a EXCEPT !.state = "ESTABLISHED", !.rcv_nxt = 1, !.snd_nxt = m]
                                  /\ e.state = "ESTABLISHED" /\ e.rcv_nxt = 1 /\ e.have = a.have /\ e.rcv_wnd = a.rcv_wnd /\ e.age = a.age
                                  /\ SameRest(a, e) /\ (e.on_timewait_list <=> a.on_timewait_list)
      <4>1. PICK e \in StreamType : e = [a EXCEPT !.state = "ESTABLISHED", !.rcv_nxt = 1, !.snd_nxt = m]
        BY DEF StreamType, State
      <4>2. /\ e.state = "ESTABLISHED" /\ e.rcv_nxt = 1 /\ e.have = a.have /\ e.rcv_wnd = a.rcv_wnd /\ e.age = a.age
            /\ SameRest(a, e) /\ (e.on_timewait_list <=> a.on_timewait_list)
        BY <4>1 DEF StreamType, SameRest, SameEnds
      <4> QED
        BY <4>1, <4>2
    <3>3. r = IF p.len > 0 THEN Handle_TCP_ST_ESTABLISHED(e, p) ELSE e
      BY <2>1, <2>3, <3>1, <3>2 DEF Handle_TCP_ST_SYN_RCVD
    <3>4. Reads(e, Handle_TCP_ST_ESTABLISHED(e, p), p)
      BY <1>4, <2>3, <3>2, EstablishedReads
    <3>5. (p.len = 0 /\ r = e) \/ Reads(e, r, p)
      BY <1>1, <3>3, <3>4 DEF IsPacket
    <3>6. Takes(s, e, r, p)
      BY <1>3, <1>12, <2>3, <3>2, <3>5 DEF Takes, SameRest, SameEnds
    <3>7. r \in StreamType /\ IsFiniteSet(r.have) /\ SameRest(s, r) /\ r.age = 0
      BY <1>3, <1>4, <3>2, <3>5 DEF Reads, SameRest, SameEnds
    <3> QED
      BY <3>6, <3>7 DEF Got
  <2> QED
    BY <2>2, <2>3
<1>13. CASE s.state = "ESTABLISHED" /\ ~p.rst
  <2>1. r = Handle_TCP_ST_ESTABLISHED(a, p)
    BY <1>2, <1>3, <1>13 DEF UpdateRecvTCPContext
  <2>2. CASE p.syn
    <3>1. PICK m \in Nat : m = p.ack_seq
      BY <1>1 DEF IsPacket
    <3>2. PICK t \in StreamType : t = [a EXCEPT !.snd_nxt = m] /\ t.state = a.state /\ SameRest(a, t) /\ SameBuffer(a, t) /\ t.age = a.age
      BY Renumbered
    <3>3. r = t
      BY <2>1, <2>2, <3>1, <3>2 DEF Handle_TCP_ST_ESTABLISHED
    <3>4. Ignores(s, p)
      BY <1>13, <2>2 DEF Ignores
    <3>5. Got(s, t, p)
      BY <1>3, <1>4, <1>13, <3>2, <3>4 DEF Got, SameRest, SameEnds, SameBuffer
    <3> QED
      BY <3>3, <3>5
  <2>3. CASE ~p.syn
    <3>1. Reads(a, r, p)
      BY <1>3, <1>4, <1>13, <2>1, <2>3, EstablishedReads
    <3>2. Takes(s, a, r, p)
      BY <1>3, <1>13, <2>3, <3>1 DEF Takes
    <3>3. r \in StreamType /\ IsFiniteSet(r.have) /\ SameRest(s, r) /\ r.age = 0
      BY <1>3, <3>1 DEF Reads, SameRest, SameEnds
    <3> QED
      BY <3>2, <3>3 DEF Got
  <2> QED
    BY <2>2, <2>3
<1>14. CASE s.state = "LAST_ACK" /\ ~p.rst
  <2>1. r = Handle_TCP_ST_LAST_ACK(a, p)
    BY <1>2, <1>3, <1>14 DEF UpdateRecvTCPContext
  <2>2. ~(p.seq >= s.rcv_nxt /\ AckOfFin(s, p)) => Ignores(s, p)
    BY <1>14 DEF Ignores
  <2>3. r = IF p.seq >= s.rcv_nxt /\ AckOfFin(s, p) THEN c ELSE a
    BY <1>3, <1>5, <1>c, <2>1 DEF Handle_TCP_ST_LAST_ACK
  <2> QED
    BY <1>6, <1>7, <1>14, <2>2, <2>3
<1>15. CASE s.state = "FIN_WAIT_1" /\ ~p.rst
  <2>1. r = Handle_TCP_ST_FIN_WAIT_1(a, p)
    BY <1>2, <1>3, <1>15 DEF UpdateRecvTCPContext
  <2>2. CASE p.seq < s.rcv_nxt \/ ~p.ack
    <3>1. Ignores(s, p)
      BY <1>15, <2>2 DEF Ignores
    <3> QED
      BY <1>3, <1>6, <2>1, <2>2, <3>1 DEF Handle_TCP_ST_FIN_WAIT_1
  <2>4. CASE ~(p.seq < s.rcv_nxt \/ ~p.ack)
    <3>1. PICK e \in StreamType :
              /\ e = IF AckOfFin(s, p) THEN [a EXCEPT !.state = "FIN_WAIT_2"] ELSE a
              /\ e.state = (IF AckOfFin(s, p) THEN "FIN_WAIT_2" ELSE "FIN_WAIT_1")
              /\ SameRest(a, e) /\ SameBuffer(a, e) /\ e.age = a.age
      <4>1. CASE AckOfFin(s, p)
        BY <4>1, Turned DEF State
      <4>2. CASE ~AckOfFin(s, p)
        BY <1>3, <1>15, <4>2 DEF SameRest, SameEnds, SameBuffer
      <4> QED
        BY <4>1, <4>2
    <3>2. r = ReceiveFin(e, p)
      BY <1>3, <1>5, <2>1, <2>4, <3>1 DEF Handle_TCP_ST_FIN_WAIT_1
    <3>3. Reads(e, r, p)
      BY <1>4, <3>1, <3>2, ReceiveFinReads DEF SameBuffer
    <3>4. Takes(s, e, r, p)
      BY <1>3, <1>15, <2>4, <3>1, <3>3 DEF Takes, SameRest, SameEnds, SameBuffer
    <3>5. r \in StreamType /\ IsFiniteSet(r.have) /\ SameRest(s, r) /\ r.age = 0
      BY <1>3, <3>1, <3>3 DEF Reads, SameRest, SameEnds
    <3> QED
      BY <3>4, <3>5 DEF Got
  <2> QED
    BY <2>2, <2>4
<1>16. CASE s.state = "FIN_WAIT_2" /\ ~p.rst
  <2>1. r = Handle_TCP_ST_FIN_WAIT_2(a, p)
    BY <1>2, <1>3, <1>16 DEF UpdateRecvTCPContext
  <2>2. CASE ~p.ack
    <3>1. Ignores(s, p)
      BY <1>16, <2>2 DEF Ignores
    <3> QED
      BY <1>6, <2>1, <2>2, <3>1 DEF Handle_TCP_ST_FIN_WAIT_2
  <2>4. CASE p.ack
    <3>1. Reads(a, r, p)
      BY <1>3, <1>4, <1>16, <2>1, <2>4, ReceiveFinReads DEF Handle_TCP_ST_FIN_WAIT_2
    <3>2. Takes(s, a, r, p)
      BY <1>3, <1>16, <2>4, <3>1 DEF Takes
    <3>3. r \in StreamType /\ IsFiniteSet(r.have) /\ SameRest(s, r) /\ r.age = 0
      BY <1>3, <3>1 DEF Reads, SameRest, SameEnds
    <3> QED
      BY <3>2, <3>3 DEF Got
  <2> QED
    BY <2>2, <2>4
<1>17. CASE s.state = "CLOSING" /\ ~p.rst
  <2>1. r = Handle_TCP_ST_CLOSING(a, p)
    BY <1>2, <1>3, <1>17 DEF UpdateRecvTCPContext
  <2>2. CASE ~AckOfFin(s, p)
    <3>1. Ignores(s, p)
      BY <1>17, <2>2 DEF Ignores
    <3> QED
      BY <1>5, <1>6, <2>1, <2>2, <3>1 DEF Handle_TCP_ST_CLOSING
  <2>3. CASE AckOfFin(s, p)
    <3>1. PICK d \in StreamType : /\ d = [a EXCEPT !.state = "TIME_WAIT"] /\ d.state = "TIME_WAIT" /\ SameRest(a, d)
                                  /\ SameBuffer(a, d) /\ d.age = a.age
      BY Turned DEF State
    <3>2. PICK t \in StreamType :
               /\ t = AddtoTimewaitList(d) /\ t.state = d.state /\ t.rcv_nxt = d.rcv_nxt /\ t.rcv_wnd = d.rcv_wnd /\ t.have = d.have
               /\ t.age = d.age /\ SameRest(d, t) /\ t.on_timewait_list
      BY Timewaits
    <3>3. r = t
      BY <1>5, <2>1, <2>3, <3>1, <3>2 DEF Handle_TCP_ST_CLOSING
    <3>4. Got(s, t, p)
      BY <1>3, <1>4, <1>17, <2>3, <3>1, <3>2 DEF Got, SameRest, SameEnds, SameBuffer
    <3> QED
      BY <3>3, <3>4
  <2> QED
    BY <2>2, <2>3
<1>18. CASE s.state = "TIME_WAIT" /\ ~p.rst
  <2>1. r = IF a.on_timewait_list THEN AddtoTimewaitList(a) ELSE a
    BY <1>2, <1>3, <1>18 DEF UpdateRecvTCPContext
  <2>2. Ignores(s, p)
    BY <1>18 DEF Ignores
  <2>3. CASE ~a.on_timewait_list
    BY <1>6, <2>1, <2>2, <2>3
  <2>4. CASE a.on_timewait_list
    <3>1. PICK t \in StreamType :
               /\ t = AddtoTimewaitList(a) /\ t.state = a.state /\ t.rcv_nxt = a.rcv_nxt /\ t.rcv_wnd = a.rcv_wnd /\ t.have = a.have
               /\ t.age = a.age /\ SameRest(a, t) /\ t.on_timewait_list
      BY Timewaits
    <3>2. Got(s, t, p)
      BY <1>3, <1>4, <1>18, <2>2, <2>4, <3>1 DEF Got, SameRest, SameEnds, SameBuffer
    <3> QED
      BY <2>1, <2>4, <3>1, <3>2
  <2> QED
    BY <2>3, <2>4
<1>19. CASE s.state \in {"CLOSE_WAIT", "CLOSED_RSVD"} /\ ~p.rst
  <2>1. r = a
    BY <1>2, <1>3, <1>19 DEF UpdateRecvTCPContext
  <2>2. Ignores(s, p)
    BY <1>19 DEF Ignores
  <2> QED
    BY <1>6, <2>1, <2>2
<1> QED
  BY <1>1, <1>9, <1>10, <1>11, <1>12, <1>13, <1>14, <1>15, <1>16, <1>17, <1>18, <1>19 DEF State

\* With hosts that leave it the space, the next byte that stream e of side y waits
\* for is not before what the sender knows to have arrived, or it is the FIN.
LEMMA NextIs ==
    ASSUME NEW g, NEW h, NEW k, NEW x, NEW y, NEW p, Delivery(g, h, k, x, y, p),
           NEW e \in StreamType, Contiguous(e), Seen(e.have, y, x, g)
    PROVE  e.rcv_nxt >= g[x].una \/ (g[x].fin /\ e.rcv_nxt = g[x].sent - 1)
<1>1. Fields(g, x, y) /\ Received(g, y, x)
  BY DeliveryFacts, DeliveryArrives
<1>2. e.rcv_nxt \in Nat
  BY StreamFields
<1>3. CASE e.rcv_nxt < g[y].got
  <2>1. e.rcv_nxt \in g[y].rcvd \ {0} /\ e.rcv_nxt \notin e.have
    BY <1>1, <1>2, <1>3 DEF Received, Contiguous, Fields
  <2> QED
    BY <2>1 DEF Seen
<1> QED
  BY <1>1, <1>2, <1>3 DEF Fields

\* A stream that still waits for a FIN, and what it reads.
LEMMA ReadsOK ==
    ASSUME NEW g, NEW h, NEW k, NEW x, NEW y, NEW p, Delivery(g, h, k, x, y, p), ~p.rst,
           NEW e \in StreamType, e.state \in Reading, StateTrue(e, y, k),
           DataOnly(e.have, x, g), Contiguous(e), Spacious => Seen(e.have, y, x, g) /\ e.rcv_wnd >= Flight,
           FinTaken(k, y) => e.state # "ESTABLISHED",
           e.state = "FIN_WAIT_1" => k[y].una < k[y].sent,
           NEW t, Reads(e, t, p)
    PROVE  StreamOK(t, y, k)
<1> USE DEF Reading
<1>1. /\ Facts(g, k, x, y, p) /\ Fields(g, x, y) /\ Fields(k, x, y) /\ IsPacket(p)
      /\ x \in Side /\ y \in Side /\ y = Peer(x) /\ x = Peer(y) /\ Side = {x, y}
  BY DeliveryFacts
<1>2. PICK n \in Nat :
        /\ n >= e.rcv_nxt /\ \A i \in e.rcv_nxt .. n - 1 : i \in t.have
        /\ e.rcv_nxt \notin e.have => n \notin t.have
        /\ t.rcv_wnd \in {e.rcv_wnd, Rcvbuf, Rcvbuf - (n - e.rcv_nxt)}
        /\ \/ t.state = e.state /\ t.rcv_nxt = n /\ (t.on_timewait_list <=> e.on_timewait_list)
           \/ /\ p.fin /\ p.seq + p.len = n /\ t.rcv_nxt = n + 1
              /\ \/ /\ t.on_timewait_list <=> e.on_timewait_list
                    /\ \/ e.state = "ESTABLISHED" /\ t.state = "CLOSE_WAIT"
                       \/ e.state = "FIN_WAIT_1" /\ t.state = "CLOSING"
                 \/ e.state = "FIN_WAIT_2" /\ t.state = "TIME_WAIT"
  BY DEF Reads
<1>3. /\ t \in StreamType /\ IsFiniteSet(t.have) /\ SameRest(e, t) /\ e.have \subseteq t.have
      /\ t.have \in SUBSET Nat /\ e.have \in SUBSET Nat /\ e.rcv_nxt \in Nat /\ e.rcv_nxt > 0 /\ e.rcv_wnd \in Int
      /\ Rcvbuf \in Nat /\ Flight \in Nat
  BY StreamFields, MonitorAssumption DEF Reads, Contiguous
<1>4. \A i \in 1 .. n - 1 : i \in t.have
  <2> SUFFICES ASSUME NEW i \in 1 .. n - 1 PROVE i \in t.have
    OBVIOUS
  <2>1. CASE i \in 1 .. e.rcv_nxt - 1
    BY <1>3, <2>1 DEF Contiguous
  <2>2. CASE i \in e.rcv_nxt .. n - 1
    BY <1>2, <2>2
  <2> QED
    BY <1>3, <2>1, <2>2
<1>5. DataOnly(t.have, x, k)
  <2>1. \A i \in t.have : i \in e.have \/ (p.len = 1 /\ i = p.seq)
    BY DEF Reads
  <2> QED
    BY <1>3, <2>1, DataKept
<1>6. p.fin => k[x].fin /\ p.seq + p.len + 1 = k[x].sent
  BY <1>1 DEF Facts
<1>7. ~e.on_timewait_list
  BY DEF StateTrue
<1>8. StateTrue(t, y, k)
  <2> USE DEF StateTrue, SameRest, SameEnds, OwnFin, PeerFin
  <2>1. CASE t.state = e.state /\ (t.on_timewait_list <=> e.on_timewait_list)
    BY <1>3, <1>7, <2>1
  <2>2. CASE p.fin /\ p.seq + p.len = n /\ t.rcv_nxt = n + 1 /\ e.state = "ESTABLISHED" /\ t.state = "CLOSE_WAIT"
             /\ (t.on_timewait_list <=> e.on_timewait_list)
    BY <1>1, <1>3, <1>6, <1>7, <2>2
  <2>3. CASE p.fin /\ p.seq + p.len = n /\ t.rcv_nxt = n + 1 /\ e.state = "FIN_WAIT_1" /\ t.state = "CLOSING"
             /\ (t.on_timewait_list <=> e.on_timewait_list)
    BY <1>1, <1>3, <1>6, <1>7, <2>3
  <2>4. CASE p.fin /\ p.seq + p.len = n /\ t.rcv_nxt = n + 1 /\ e.state = "FIN_WAIT_2" /\ t.state = "TIME_WAIT"
    BY <1>1, <1>3, <1>6, <2>4
  <2> QED
    BY <1>2, <2>1, <2>2, <2>3, <2>4
<1>9. BufferTrue(t, y, k)
  <2>1. t.state \in PeerFin => n = k[x].sent - 1
    BY <1>1, <1>2, <1>6 DEF PeerFin, Fields
  <2>2. t.state \in PeerFin => \A i \in 1 .. k[x].sent - 2 : i \in t.have
    BY <1>1, <1>4, <2>1 DEF Fields
  <2>3. t.state \in Reading => Contiguous(t)
    BY <1>2, <1>3, <1>4 DEF Contiguous
  <2>4. t.state \notin {"CLOSED_RSVD", "SYN_SENT", "SYN_RCVD"}
    BY <1>2
  <2> QED
    BY <1>1, <1>5, <2>2, <2>3, <2>4 DEF BufferTrue
<1>10. NothingMissed(t, y, k)
  <2> SUFFICES ASSUME Spacious PROVE Seen(t.have, y, x, k) /\ (t.state \in Reading => t.rcv_wnd >= Flight)
    BY <1>1, <1>2 DEF NothingMissed
  <2>1. Seen(e.have, y, x, g) /\ e.rcv_wnd >= Flight /\ 2 * Flight <= Rcvbuf
    BY DEF Spacious
  <2>2. e.rcv_nxt >= g[x].una \/ (g[x].fin /\ e.rcv_nxt = g[x].sent - 1)
    BY <2>1, NextIs
  <2>3. p.len = 1 => p.seq \in Nat /\ p.seq > 0 /\ p.seq + 1 <= e.rcv_nxt + Flight
    BY <1>1, <1>3, <2>2 DEF Facts, Fields, IsPacket
  <2>4. p.len = 1 => p.seq \in t.have
    <3>1. p.len = 1 => p.seq \in t.have \/ p.seq + 1 < e.rcv_nxt
      BY <1>1, <1>3, <2>1, <2>3 DEF Reads, Stored
    <3>2. p.len = 1 => p.seq \in t.have \/ p.seq \in 1 .. n - 1
      BY <1>2, <1>3, <2>3, <3>1
    <3> QED
      BY <1>4, <3>2
  <2>5. n <= e.rcv_nxt + Flight
    <3>1. CASE n = e.rcv_nxt
      BY <1>3, <3>1
    <3>2. CASE n > e.rcv_nxt
      <4>1. PICK m \in Nat : m = n - 1 /\ m >= e.rcv_nxt /\ m \in t.have
        BY <1>2, <1>3, <3>2
      <4>2. m < k[x].sent /\ (k[x].fin => m # k[x].sent - 1)
        BY <1>5, <4>1 DEF DataOnly
      <4>3. CASE g[x].fin /\ e.rcv_nxt = g[x].sent - 1
        BY <1>1, <1>3, <4>1, <4>2, <4>3 DEF Facts, Fields
      <4>4. CASE e.rcv_nxt >= g[x].una
        <5>1. DataEnd(k, x) > 1 => DataEnd(k, x) <= k[x].una + Flight
          BY <1>1 DEF Delivery, HostsOK
        <5>2. DataEnd(k, x) \in Int /\ n <= DataEnd(k, x)
          BY <1>1, <4>1, <4>2 DEF DataEnd, Fields
        <5> QED
          BY <1>1, <1>3, <3>2, <4>4, <5>1, <5>2 DEF Facts, Fields
      <4> QED
        BY <2>2, <4>3, <4>4
    <3> QED
      BY <1>2, <1>3, <3>1, <3>2
  <2>6. t.rcv_wnd >= Flight
    BY <1>2, <1>3, <2>1, <2>5
  <2> QED
    BY <1>3, <2>1, <2>4, <2>6, SeenBytes
<1>11. InStep(t, y, k)
  BY <1>1, <1>2 DEF InStep, OwnFin
<1> QED
  BY <1>3, <1>8, <1>9, <1>10, <1>11 DEF StreamOK

\* The byte of p is in the buffer, or p is not taken by its receiver.
LEMMA ByteKnown ==
    ASSUME NEW g, NEW h, NEW k, NEW x, NEW y, NEW p, Delivery(g, h, k, x, y, p),
           NEW s \in StreamType, StateTrue(s, y, g), BufferTrue(s, y, g), InStep(s, y, g),
           Ignores(s, p), p.len = 1, ~g[y].gone
    PROVE  p.seq \in s.have
<1>1. /\ Facts(g, k, x, y, p) /\ Fields(g, x, y) /\ Fields(k, x, y) /\ IsPacket(p)
      /\ x \in Side /\ y \in Side /\ y = Peer(x) /\ x = Peer(y) /\ Side = {x, y}
  BY DeliveryFacts
<1>2. ~p.syn /\ ~p.rst /\ p.ack /\ p.seq > 0 /\ g[x].una > 0 /\ g[y].got > 0
  BY <1>1 DEF Facts, Fields, IsPacket
<1>3. s.state \in State /\ s.rcv_nxt \in Nat
  BY StreamFields
<1>4. CASE s.state = "FIN_WAIT_1"
  <2>1. p.seq \in 1 .. s.rcv_nxt - 1
    BY <1>1, <1>2, <1>3, <1>4 DEF Ignores, IsPacket
  <2> QED
    BY <1>4, <2>1 DEF BufferTrue, Contiguous, Reading
<1>5. ASSUME g[x].fin PROVE p.seq \in 1 .. g[x].sent - 2
  BY <1>1, <1>2, <1>5 DEF Facts, Fields, IsPacket
<1>6. CASE s.state \in PeerFin
  BY <1>1, <1>5, <1>6 DEF BufferTrue, StateTrue
<1>7. CASE s.state = "CLOSED_RSVD"
  <2>1. ~SomeoneGone(g)
    BY <1>1 DEF SomeoneGone, Facts
  <2> QED
    BY <1>1, <1>5, <1>7, <2>1 DEF BufferTrue, InStep
<1>8. s.state # "SYN_SENT"
  <2>1. 0 \in g[y].rcvd
    <3>1. Received(g, y, x)
      BY DeliveryArrives
    <3> QED
      BY <1>1, <1>2, <3>1 DEF Received, Fields
  <2> QED
    BY <2>1 DEF InStep
<1>9. s.state \notin {"LISTEN", "SYN_RCVD", "ESTABLISHED", "FIN_WAIT_2"}
  BY <1>1, <1>2 DEF StateTrue, Ignores
<1> QED
  BY <1>3, <1>4, <1>6, <1>7, <1>8, <1>9 DEF State, PeerFin

LEMMA ReceiverOK ==
    ASSUME NEW g, NEW h, NEW k, NEW x, NEW y, NEW p, Delivery(g, h, k, x, y, p),
           NEW s \in StreamType, StreamOK(s, y, g), s.status_mgmt, NEW t, Got(s, t, p)
    PROVE  StreamOK(t, y, k)
<1>1. /\ Facts(g, k, x, y, p) /\ Fields(g, x, y) /\ Fields(k, x, y) /\ IsPacket(p)
      /\ x \in Side /\ y \in Side /\ y = Peer(x) /\ x = Peer(y) /\ Side = {x, y}
  BY DeliveryFacts
<1>2. IsFiniteSet(s.have) /\ StateTrue(s, y, g) /\ BufferTrue(s, y, g) /\ NothingMissed(s, y, g) /\ InStep(s, y, g)
  BY DEF StreamOK
<1>3. StateTrue(s, y, k)
  BY <1>1, <1>2, DeliveryGrows, StateKept DEF Delivery
<1>4. /\ t \in StreamType /\ IsFiniteSet(t.have) /\ SameRest(s, t) /\ s.have \in SUBSET Nat /\ t.have \in SUBSET Nat
      /\ s.state \in State
  BY StreamFields DEF Got
<1>r. Arrival(g, k, y, p) /\ Received(g, y, x) /\ Received(k, y, x)
  BY DeliveryArrives
<1>5. DataOnly(s.have, x, g) /\ (Spacious => Seen(s.have, y, x, g))
  BY <1>1, <1>2 DEF BufferTrue, NothingMissed
<1>6. SomeoneGone(g) => SomeoneGone(k)
  BY <1>1 DEF SomeoneGone, Facts
<1>7. p.rst => SomeoneGone(k)
  BY <1>1 DEF SomeoneGone, Facts
<1>8. FinTaken(k, y) <=> FinTaken(g, y)
  BY FinArrives
<1>9. /\ DataOnly(s.have, x, k)
      /\ (~g[y].gone /\ p.len = 1 => p.seq \in s.have) => (Spacious => Seen(s.have, y, x, k))
  <2>1. DataOnly(s.have, x, k)
    BY <1>4, <1>5, DataKept
  <2> QED
    BY <1>5, <2>1, SeenBytes
<1>10. AckOfFin(s, p) <=> (s.is_fin_sent /\ p.ack /\ k[x].got = k[y].sent)
  <2>1. s.is_fin_sent => s.fss + 1 = k[y].sent
    BY <1>3 DEF StateTrue
  <2>2. p.ack_seq = k[x].got
    BY <1>1 DEF Facts
  <2> QED
    BY <2>1, <2>2 DEF AckOfFin
<1>11. CASE /\ t.state = s.state /\ SameBuffer(s, t) /\ Ignores(s, p)
            /\ s.state = "SYN_SENT" => t.snd_nxt = s.snd_nxt
  <2>1. StateTrue(t, y, k)
    BY <1>3, <1>4, <1>11 DEF StateTrue, SameRest, SameEnds, SameBuffer
  <2>2. Spacious => Seen(s.have, y, x, k)
    BY <1>2, <1>9, <1>11, ByteKnown
  <2>3. /\ s.state \in PeerFin => k[x].sent = g[x].sent
        /\ s.state = "CLOSED_RSVD" => SomeoneGone(g) \/ k[x].sent = g[x].sent
    BY <1>1, <1>2 DEF StateTrue, InStep, Facts
  <2>4. BufferTrue(t, y, k)
    <3>1. Contiguous(t) <=> Contiguous(s)
      BY <1>11 DEF Contiguous, SameBuffer
    <3> QED
      BY <1>1, <1>2, <1>6, <1>9, <1>11, <2>3, <3>1 DEF BufferTrue, SameBuffer
  <2>n. NothingMissed(t, y, k)
    BY <1>1, <1>2, <1>11, <2>2 DEF NothingMissed, SameBuffer
  <2>5. InStep(t, y, k)
    <3>1. t.state = "SYN_SENT" => k[y].rcvd = {} /\ t.snd_nxt = 1
      <4> SUFFICES ASSUME t.state = "SYN_SENT" PROVE k[y].rcvd = {} /\ t.snd_nxt = 1
        OBVIOUS
      <4>1. g[y].rcvd = {} /\ s.snd_nxt = 1 /\ t.snd_nxt = 1 /\ y = "CLI" /\ x = "SVR"
        BY <1>1, <1>2, <1>11, Sides DEF InStep, StateTrue
      <4>a. g[y].got = 0
        BY <1>1, <1>r, <4>1 DEF Received, Fields
      <4>2. p.rst \/ p.syn
        BY <1>1, <4>a DEF Facts, Fields
      <4>3. ASSUME p.syn, ~p.rst PROVE FALSE
        <5>1. k[x].sent > 0
          BY <1>1, <4>3 DEF Facts, Fields
        <5>2. k[x].got > 0
          BY <4>1, <5>1 DEF Delivery, HostsOK
        <5>3. k[x].got <= k[y].sent /\ p.ack /\ p.ack_seq > 0
          BY <1>1, <4>1, <5>2 DEF Facts, Fields
        <5>4. k[y].sent <= 1
          <6>1. k[y].sent = g[y].sent
            BY <1>1 DEF Facts
          <6> QED
            BY <1>1, <4>a, <6>1 DEF Fields
        <5> QED
          BY <1>1, <1>11, <4>1, <4>3, <5>3, <5>4 DEF Ignores, Facts, Fields
      <4> QED
        BY <1>r, <4>1, <4>2, <4>3 DEF Arrival
    <3>2. t.state = "SYN_RCVD" => k[y].rcvd \subseteq {0} /\ k[y].una = 0
      <4> SUFFICES ASSUME t.state = "SYN_RCVD" PROVE k[y].rcvd \subseteq {0} /\ k[y].una = 0
        OBVIOUS
      <4>1. g[y].rcvd \subseteq {0} /\ g[y].una = 0 /\ (p.rst \/ ~p.ack)
        BY <1>2, <1>11 DEF InStep, Ignores
      <4>2. k[y].una = 0
        BY <1>1, <4>1 DEF Facts
      <4>3. CASE k[y].rcvd = g[y].rcvd
        BY <4>1, <4>2, <4>3
      <4>4. CASE k[y].rcvd # g[y].rcvd
        <5>1. p.syn /\ p.seq = 0 /\ p.len = 0
          BY <1>1, <1>r, <4>1, <4>4 DEF Facts, Arrival
        <5>2. \A i \in Nat : i \in k[y].rcvd => i = 0
          BY <1>r, <4>1, <4>4, <5>1 DEF Arrival
        <5> QED
          BY <1>r, <4>2, <5>2 DEF Received
      <4> QED
        BY <4>3, <4>4
    <3>3. FinTaken(k, y) => t.state \in OwnFin \cup {"CLOSED_RSVD"}
      BY <1>2, <1>8, <1>11 DEF InStep
    <3>4. ASSUME t.state \in {"CLOSING", "LAST_ACK"} PROVE k[y].una < k[y].sent
      <4>1. g[y].una < g[y].sent /\ s.is_fin_sent /\ ~p.rst /\ g[y].fin
        BY <1>2, <1>11, <3>4 DEF InStep, StateTrue, OwnFin, Ignores
      <4>2. CASE k[y].una = g[y].una
        BY <1>1, <4>1, <4>2 DEF Facts
      <4>3. CASE k[y].una # g[y].una
        <5>1. p.ack /\ k[y].una = k[x].got
          BY <1>1, <4>3 DEF Facts
        <5>2. CASE k[x].got # k[y].sent
          BY <1>1, <5>1, <5>2 DEF Fields
        <5>3. CASE k[x].got = k[y].sent
          <6>1. AckOfFin(s, p)
            BY <1>10, <4>1, <5>1, <5>3
          <6>2. s.state = "LAST_ACK" /\ p.seq < s.rcv_nxt
            BY <1>1, <1>11, <3>4, <6>1, StreamFields DEF Ignores, IsPacket
          <6>3. g[x].got = g[y].sent /\ g[x].fin /\ s.rcv_nxt = g[x].sent
            BY <1>1, <1>2, <5>3, <6>2 DEF StateTrue, PeerFin, Facts
          <6>t. FinTaken(g, y)
            <7>1. Reached(g, y)
              BY <1>1, <4>1, <6>3 DEF Reached
            <7> QED
              BY <1>1, <7>1, ReachedIsTaken DEF Delivery
          <6>4. g[x].una = g[x].sent
            BY <1>1, <1>2, <6>2, <6>t DEF InStep
          <6> QED
            BY <1>1, <4>1, <6>2, <6>3, <6>4 DEF Facts, Fields, IsPacket
        <5> QED
          BY <5>2, <5>3
      <4> QED
        BY <4>2, <4>3
    <3>5. t.state = "LAST_ACK" /\ FinTaken(k, y) => k[x].una = k[x].sent
      <4>1. t.state = "LAST_ACK" => g[x].fin
        BY <1>1, <1>2, <1>11 DEF StateTrue, PeerFin
      <4> QED
        BY <1>1, <1>2, <1>8, <1>11, <4>1 DEF InStep, Facts
    <3>6. t.state = "CLOSED_RSVD" => SomeoneGone(k) \/ (k[x].fin /\ t.rcv_nxt = k[x].sent)
      BY <1>1, <1>2, <1>6, <1>11 DEF InStep, SameBuffer, Facts
    <3> QED
      BY <1>1, <3>1, <3>2, <3>3, <3>4, <3>5, <3>6 DEF InStep
  <2> QED
    BY <1>4, <2>1, <2>4, <2>n, <2>5 DEF StreamOK
<1>12. CASE /\ t.state = "CLOSED_RSVD" /\ SameBuffer(s, t)
            /\ p.rst \/ (s.state = "LAST_ACK" /\ AckOfFin(s, p))
  <2>1. SomeoneGone(k) \/ (s.state = "LAST_ACK" /\ Reached(k, y) /\ k[x].fin /\ s.rcv_nxt = k[x].sent)
    BY <1>1, <1>3, <1>7, <1>10, <1>12 DEF StateTrue, Reached, OwnFin, PeerFin
  <2>2. Spacious => Seen(s.have, y, x, k)
    <3>1. p.rst => p.len # 1
      BY <1>1 DEF Facts
    <3>2. s.state = "LAST_ACK" /\ p.len = 1 => p.seq \in s.have
      <4>1. p.len = 1 => ~p.syn /\ ~p.rst /\ p.seq > 0
        BY <1>1 DEF Facts, IsPacket
      <4>2. s.state = "LAST_ACK" => g[x].fin
        BY <1>1, <1>2 DEF StateTrue, PeerFin
      <4>3. s.state = "LAST_ACK" /\ p.len = 1 => p.seq \in 1 .. g[x].sent - 2
        BY <1>1, <4>1, <4>2 DEF Facts, Fields, IsPacket
      <4> QED
        BY <1>1, <1>2, <4>3 DEF BufferTrue, PeerFin
    <3> QED
      BY <1>9, <1>12, <3>1, <3>2
  <2>3. StateTrue(t, y, k)
    BY <1>3, <1>4, <1>12, <2>1 DEF StateTrue, SameRest, SameEnds, SameBuffer, OwnFin, PeerFin
  <2>4. SomeoneGone(k) \/ \A i \in 1 .. k[x].sent - 2 : i \in s.have
    <3>1. s.state = "LAST_ACK" => k[x].sent = g[x].sent
      BY <1>1, <1>2 DEF StateTrue, PeerFin, Facts
    <3> QED
      BY <1>1, <1>2, <2>1, <3>1 DEF BufferTrue, PeerFin
  <2>5. BufferTrue(t, y, k)
    BY <1>1, <1>9, <1>12, <2>4 DEF BufferTrue, SameBuffer, PeerFin, Reading
  <2>n. NothingMissed(t, y, k)
    BY <1>1, <1>12, <2>2 DEF NothingMissed, SameBuffer, Reading
  <2>6. InStep(t, y, k)
    BY <1>1, <1>12, <2>1 DEF InStep, SameBuffer
  <2> QED
    BY <1>4, <2>3, <2>5, <2>n, <2>6 DEF StreamOK
<1>13. CASE /\ s.state \in {"LISTEN", "SYN_RCVD"} /\ t.state = "SYN_RCVD" /\ p.syn
            /\ t.have = s.have /\ t.rcv_wnd = s.rcv_wnd /\ (t.on_timewait_list <=> s.on_timewait_list)
  <2>1. s.state = "SYN_RCVD" /\ y = "SVR" /\ x = "CLI"
    BY <1>1, <1>2, <1>13, Sides DEF StateTrue
  <2>2. StateTrue(t, y, k)
    BY <1>3, <1>4, <1>13, <2>1 DEF StateTrue, SameRest, SameEnds, OwnFin, PeerFin
  <2>3. p.seq = 0 /\ p.len = 0 /\ ~p.rst /\ ~p.fin
    BY <1>1, <1>13 DEF Facts
  <2>4. BufferTrue(t, y, k)
    BY <1>1, <1>2, <1>9, <1>13, <2>1 DEF BufferTrue, PeerFin, Reading
  <2>n. NothingMissed(t, y, k)
    BY <1>1, <1>2, <1>9, <1>13, <2>1, <2>3 DEF NothingMissed
  <2>5. ~p.ack
    <3>1. g[x].got > 0 => g[x].una > 0
      <4>1. g[x].got > 0 => 0 \in g[x].rcvd
        <5>1. Received(g, x, y)
          BY DeliveryArrives
        <5> QED
          BY <1>1, <5>1 DEF Received, Fields
      <4> QED
        BY <2>1, <4>1 DEF Delivery, HostsOK
    <3>2. g[y].una = 0 /\ g[x].una <= g[y].got /\ g[y].rcvd \subseteq {0}
      BY <1>1, <1>2, <2>1 DEF InStep, Fields
    <3> QED
      BY <1>1, <2>3, <3>1, <3>2 DEF Facts, Fields
  <2>6. k[y].una = 0 /\ k[y].rcvd \subseteq {0} /\ ~FinTaken(k, y)
    <3>1. g[y].rcvd \subseteq {0} /\ g[y].una = 0 /\ ~FinTaken(g, y)
      BY <1>2, <2>1 DEF InStep, OwnFin
    <3>2. \A i \in Nat : i \in k[y].rcvd => i = 0
      BY <1>1, <1>13, <1>r, <2>3, <3>1 DEF Arrival
    <3> QED
      BY <1>1, <1>r, <1>8, <2>5, <3>1, <3>2 DEF Facts, Received
  <2>7. InStep(t, y, k)
    BY <1>1, <1>13, <2>6 DEF InStep
  <2> QED
    BY <1>4, <2>2, <2>4, <2>n, <2>7 DEF StreamOK
<1>14. CASE /\ s.state = "SYN_SENT" /\ t.state = "ESTABLISHED" /\ p.syn /\ p.ack /\ t.rcv_nxt = p.seq + 1
            /\ t.have = s.have /\ t.rcv_wnd = s.rcv_wnd /\ (t.on_timewait_list <=> s.on_timewait_list)
  <2>1. p.seq = 0 /\ p.len = 0 /\ ~p.rst /\ ~p.fin /\ k[x].sent > 0 /\ k[y].sent > 0
    BY <1>1, <1>14 DEF Facts, Fields
  <2>2. k["CLI"].sent > 0 /\ k["SVR"].sent > 0
    BY <1>1, <2>1, Sides
  <2>3. StateTrue(t, y, k)
    BY <1>3, <1>4, <1>14, <2>2 DEF StateTrue, SameRest, SameEnds, OwnFin, PeerFin
  <2>c. Contiguous(t)
    BY <1>2, <1>14, <2>1 DEF Contiguous, BufferTrue
  <2>4. BufferTrue(t, y, k)
    BY <1>1, <1>9, <1>14, <2>c DEF BufferTrue, PeerFin
  <2>n. NothingMissed(t, y, k)
    BY <1>1, <1>2, <1>9, <1>14, <2>1 DEF NothingMissed
  <2>5. ~FinTaken(k, y)
    BY <1>2, <1>8, <1>14 DEF InStep, OwnFin
  <2>6. InStep(t, y, k)
    BY <1>1, <1>14, <2>5 DEF InStep
  <2> QED
    BY <1>4, <2>3, <2>4, <2>n, <2>6 DEF StreamOK
<1>15. CASE /\ s.state = "CLOSING" /\ t.state = "TIME_WAIT" /\ t.have = s.have /\ t.rcv_nxt = s.rcv_nxt /\ AckOfFin(s, p)
  <2>1. Reached(k, y)
    BY <1>1, <1>3, <1>10, <1>15 DEF StateTrue, Reached, OwnFin
  <2>2. StateTrue(t, y, k)
    BY <1>3, <1>4, <1>15, <2>1 DEF StateTrue, SameRest, SameEnds, OwnFin, PeerFin
  <2>3. p.len = 1 => p.seq \in s.have
    <3>1. g[x].fin
      BY <1>1, <1>2, <1>15 DEF StateTrue, PeerFin
    <3>2. p.len = 1 => p.seq \in 1 .. g[x].sent - 2
      BY <1>1, <3>1 DEF Facts, Fields, IsPacket
    <3> QED
      BY <1>1, <1>2, <1>15, <3>2 DEF BufferTrue, PeerFin
  <2>4. k[x].sent = g[x].sent
    BY <1>1, <1>2, <1>15 DEF StateTrue, PeerFin, Facts
  <2>5. BufferTrue(t, y, k)
    BY <1>1, <1>2, <1>9, <1>15, <2>4 DEF BufferTrue, PeerFin, Reading
  <2>n. NothingMissed(t, y, k)
    BY <1>1, <1>9, <1>15, <2>3 DEF NothingMissed, Reading
  <2>6. InStep(t, y, k)
    BY <1>1, <1>15 DEF InStep, OwnFin
  <2> QED
    BY <1>4, <2>2, <2>5, <2>n, <2>6 DEF StreamOK
<1>16. CASE \E e : Takes(s, e, t, p)
  <2>1. PICK e \in StreamType : Takes(s, e, t, p)
    BY <1>16 DEF Takes
  <2>2. /\ SameRest(s, e) /\ e.have = s.have /\ e.rcv_wnd = s.rcv_wnd
        /\ (e.on_timewait_list <=> s.on_timewait_list) /\ ~p.rst /\ p.ack
        /\ e.state \in Reading /\ s.state \in Reading \cup {"SYN_RCVD"}
        /\ e.state = "ESTABLISHED" => s.state \in {"SYN_RCVD", "ESTABLISHED"}
        /\ e.state = "FIN_WAIT_1" => s.state = "FIN_WAIT_1" /\ ~AckOfFin(s, p)
        /\ e.state = "FIN_WAIT_2" => s.state = "FIN_WAIT_2" \/ (s.state = "FIN_WAIT_1" /\ AckOfFin(s, p))
        /\ s.state = "SYN_RCVD" => ~p.syn /\ e.rcv_nxt = 1 /\ e.state = "ESTABLISHED"
        /\ s.state # "SYN_RCVD" => e.rcv_nxt = s.rcv_nxt /\ Reads(e, t, p)
        /\ (p.len = 0 /\ t = e /\ s.state = "SYN_RCVD") \/ Reads(e, t, p)
    BY <2>1 DEF Takes, Reading
  <2>3. Contiguous(e)
    BY <1>2, <2>2 DEF BufferTrue, Contiguous
  <2>w. Spacious => Seen(e.have, y, x, g) /\ e.rcv_wnd >= Flight
    BY <1>2, <1>5, <2>2 DEF NothingMissed
  <2>4. FinTaken(k, y) => e.state # "ESTABLISHED"
    BY <1>2, <1>8, <2>2 DEF InStep, OwnFin
  <2>5. e.state = "FIN_WAIT_1" => k[y].una < k[y].sent
    <3>1. e.state = "FIN_WAIT_1" => k[x].got # k[y].sent
      BY <1>3, <1>10, <2>2 DEF StateTrue, OwnFin
    <3> QED
      BY <1>1, <3>1 DEF Fields
  <2>6. k["CLI"].sent > 0 /\ k["SVR"].sent > 0
    <3>1. CASE s.state = "SYN_RCVD"
      <4>1. k[x].sent > 0 /\ k[y].sent > 0
        BY <1>1, <2>2, <3>1 DEF Facts, Fields
      <4> QED
        BY <1>1, <4>1, Sides
    <3>2. CASE s.state # "SYN_RCVD"
      BY <1>3, <2>2, <3>2 DEF StateTrue, Reading
    <3> QED
      BY <3>1, <3>2
  <2>7. e.state = "FIN_WAIT_2" => Reached(k, y)
    BY <1>1, <1>3, <1>10, <2>2 DEF StateTrue, Reached, OwnFin
  <2>8. StateTrue(e, y, k)
    BY <1>3, <2>2, <2>6, <2>7 DEF StateTrue, SameRest, SameEnds, OwnFin, PeerFin, Reading
  <2>9. CASE Reads(e, t, p)
    BY <1>5, <2>2, <2>3, <2>4, <2>5, <2>8, <2>9, <2>w, ReadsOK
  <2>10. CASE p.len = 0 /\ t = e /\ s.state = "SYN_RCVD"
    <3>1. BufferTrue(t, y, k)
      BY <1>1, <1>9, <2>2, <2>3, <2>10 DEF BufferTrue, PeerFin, Reading
    <3>2. InStep(t, y, k)
      BY <1>1, <2>2, <2>4, <2>10 DEF InStep
    <3>3. NothingMissed(t, y, k)
      BY <1>1, <1>9, <2>2, <2>w, <2>10 DEF NothingMissed
    <3> QED
      BY <1>4, <2>8, <2>10, <3>1, <3>2, <3>3 DEF StreamOK
  <2> QED
    BY <2>2, <2>9, <2>10
<1> QED
  BY <1>11, <1>12, <1>13, <1>14, <1>15, <1>16 DEF Got

-----------------------------------------------------------------------------
(* The flow.                                                               *)

LEMMA FlowIsSome ==
    ASSUME NEW f \in [Side -> StreamType]
    PROVE  f # NoFlow
<1>1. DOMAIN f = Side /\ "CLI" \in Side
  BY Sides
<1>2. DOMAIN NoFlow = {}
  BY DEF NoFlow
<1> QED
  BY <1>1, <1>2

\* UpdateMonitor moves each stream that is monitored.
LEMMA MonitorMoves ==
    ASSUME NEW f \in [Side -> StreamType], NEW x \in Side, NEW y \in Side, y = Peer(x), NEW p \in PacketType,
           IsFiniteSet(f[y].have), p.syn => p.seq = 0 /\ p.len = 0 /\ ~p.rst, ~p.syn => p.ack
    PROVE  \E r \in [Side -> StreamType] :
               /\ r = UpdateMonitor(f, x, p)
               /\ IF f[x].status_mgmt THEN Sent(f[x], r[x], p) ELSE r[x] = f[x]
               /\ IF f[y].status_mgmt THEN Got(f[y], r[y], p) ELSE r[y] = f[y]
<1>1. PICK a \in StreamType : a = IF f[x].status_mgmt THEN UpdatePassiveSendTCPContext(f[x], p) ELSE f[x]
  BY SenderMoves DEF Sent
<1>2. IF f[x].status_mgmt THEN Sent(f[x], a, p) ELSE a = f[x]
  BY <1>1, SenderMoves
<1>3. PICK b \in StreamType : b = IF f[y].status_mgmt THEN UpdateRecvTCPContext(f[y], p) ELSE f[y]
  BY ReceiverMoves DEF Got
<1>4. IF f[y].status_mgmt THEN Got(f[y], b, p) ELSE b = f[y]
  BY <1>3, ReceiverMoves
<1>5. x # y
  BY Sides
<1>6. PICK e \in [Side -> StreamType] : e = [f EXCEPT ![x] = a]
  OBVIOUS
<1>7. e[x] = a /\ e[y] = f[y]
  BY <1>5, <1>6
<1>8. PICK r \in [Side -> StreamType] : r = [e EXCEPT ![y] = b]
  OBVIOUS
<1>9. r[x] = a /\ r[y] = b
  BY <1>5, <1>7, <1>8
<1>10. UpdateMonitor(f, x, p) =
           LET sent == IF f[x].status_mgmt THEN [f EXCEPT ![x] = UpdatePassiveSendTCPContext(f[x], p)] ELSE f
           IN  IF sent[y].status_mgmt THEN [sent EXCEPT ![y] = UpdateRecvTCPContext(sent[y], p)] ELSE sent
  BY DEF UpdateMonitor
<1>11. e = IF f[x].status_mgmt THEN [f EXCEPT ![x] = UpdatePassiveSendTCPContext(f[x], p)] ELSE f
  BY <1>1, <1>6
<1>12. UpdateMonitor(f, x, p) = IF e[y].status_mgmt THEN [e EXCEPT ![y] = UpdateRecvTCPContext(e[y], p)] ELSE e
  BY <1>10, <1>11
<1>13. r = UpdateMonitor(f, x, p)
  BY <1>3, <1>7, <1>8, <1>12
<1> QED
  BY <1>2, <1>4, <1>9, <1>13

\* What a packet that the middlebox sees makes of the streams.
LEMMA MonitorOK ==
    ASSUME NEW g, NEW h, NEW k, NEW x, NEW y, NEW p, Delivery(g, h, k, x, y, p),
           NEW f \in [Side -> StreamType], \A z \in Side : StreamOK(f[z], z, g)
    PROVE  \E r \in [Side -> StreamType] :
               /\ r = UpdateMonitor(f, x, p)
               /\ \A z \in Side : /\ StreamOK(r[z], z, k) /\ (r[z].status_mgmt <=> f[z].status_mgmt)
                                  /\ f[z].status_mgmt => r[z].age = 0 \/ (~p.ack /\ r[z].age = f[z].age)
<1>1. /\ Facts(g, k, x, y, p) /\ Fields(g, x, y) /\ IsPacket(p) /\ p \in PacketType
      /\ x \in Side /\ y \in Side /\ y = Peer(x) /\ x = Peer(y) /\ Side = {x, y}
  BY DeliveryFacts DEF Delivery
<1>2. IsFiniteSet(f[y].have) /\ (p.syn => p.seq = 0 /\ p.len = 0 /\ ~p.rst) /\ (~p.syn => p.ack)
  BY <1>1 DEF StreamOK, Facts
<1>3. PICK r \in [Side -> StreamType] :
               /\ r = UpdateMonitor(f, x, p)
               /\ IF f[x].status_mgmt THEN Sent(f[x], r[x], p) ELSE r[x] = f[x]
               /\ IF f[y].status_mgmt THEN Got(f[y], r[y], p) ELSE r[y] = f[y]
  BY <1>1, <1>2, MonitorMoves
<1>4. ASSUME NEW z \in Side, ~f[z].status_mgmt PROVE StreamOK(f[z], z, k)
  <2>1. StateTrue(f[z], z, g) /\ IsFiniteSet(f[z].have) /\ f[z] \in StreamType
    BY <1>4 DEF StreamOK
  <2>2. StateTrue(f[z], z, k)
    BY <2>1, DeliveryGrows, StateKept DEF Delivery
  <2> QED
    BY <1>4, <2>1, <2>2 DEF StreamOK
<1>5. StreamOK(r[x], x, k)
  <2>1. CASE f[x].status_mgmt
    BY <1>1, <1>3, <2>1, SenderOK
  <2>2. CASE ~f[x].status_mgmt
    BY <1>1, <1>3, <1>4, <2>2
  <2> QED
    BY <2>1, <2>2
<1>6. StreamOK(r[y], y, k)
  <2>1. CASE f[y].status_mgmt
    BY <1>1, <1>3, <2>1, ReceiverOK
  <2>2. CASE ~f[y].status_mgmt
    BY <1>1, <1>3, <1>4, <2>2
  <2> QED
    BY <2>1, <2>2
<1>7. /\ r[x].status_mgmt <=> f[x].status_mgmt
      /\ f[x].status_mgmt => r[x].age = 0 \/ (~p.ack /\ r[x].age = f[x].age)
  BY <1>3 DEF Sent
<1>8. /\ r[y].status_mgmt <=> f[y].status_mgmt
      /\ f[y].status_mgmt => r[y].age = 0
  BY <1>3 DEF Got, SameRest, SameEnds
<1> QED
  BY <1>1, <1>3, <1>5, <1>6, <1>7, <1>8

\* The first SYN makes two streams.
LEMMA CreateOK ==
    ASSUME NEW g, NEW h, NEW k, NEW x, NEW y, NEW p, Delivery(g, h, k, x, y, p), p.syn, ~p.ack,
           NEW f, f = [z \in Side |-> CreateTCPStream]
    PROVE  \E r \in [Side -> StreamType] :
               /\ r = UpdateMonitor(f, x, p)
               /\ \A z \in Side : StreamOK(r[z], z, k) /\ r[z].age = 0
<1>1. /\ Facts(g, k, x, y, p) /\ Fields(g, x, y) /\ Fields(k, x, y) /\ IsPacket(p) /\ p \in PacketType
      /\ x \in Side /\ y \in Side /\ y = Peer(x) /\ x = Peer(y) /\ Side = {x, y}
  BY DeliveryFacts DEF Delivery
<1>2. (p.syn => p.seq = 0 /\ p.len = 0 /\ ~p.rst) /\ (~p.syn => p.ack)
  BY <1>1 DEF Facts
<1>3. PICK c \in StreamType : c = CreateTCPStream
  <2>1. CreateTCPStream \in StreamType
    BY MonitorAssumption DEF CreateTCPStream, StreamType, State
  <2> QED
    BY <2>1
<1>4. /\ c.state = "LISTEN" /\ ~c.is_fin_sent /\ c.have = {} /\ c.status_mgmt /\ ~c.on_timewait_list
      /\ ~c.on_timeout_list /\ c.age = 0 /\ c.rcv_wnd = TCP_INITIAL_WINDOW
  BY <1>3 DEF CreateTCPStream
<1>5. f \in [Side -> StreamType] /\ f[x] = c /\ f[y] = c
  BY <1>1, <1>3
<1>6. IsFiniteSet(f[y].have)
  BY <1>4, <1>5, FS_EmptySet
<1>7. PICK r \in [Side -> StreamType] :
               /\ r = UpdateMonitor(f, x, p)
               /\ IF f[x].status_mgmt THEN Sent(f[x], r[x], p) ELSE r[x] = f[x]
               /\ IF f[y].status_mgmt THEN Got(f[y], r[y], p) ELSE r[y] = f[y]
  BY <1>1, <1>2, <1>5, <1>6, MonitorMoves
<1>8. Sent(c, r[x], p) /\ Got(c, r[y], p)
  BY <1>4, <1>5, <1>7
<1>9. /\ r[x] \in StreamType /\ r[x].have = {} /\ r[x].state = "SYN_SENT" /\ r[x].snd_nxt = 1 /\ r[x].age = 0
      /\ ~r[x].is_fin_sent /\ ~r[x].on_timewait_list /\ r[x].rcv_wnd = TCP_INITIAL_WINDOW
  BY <1>1, <1>2, <1>4, <1>8 DEF Sent, SameEnds, IsPacket, Facts
<1>10. /\ r[y] \in StreamType /\ r[y].have = {} /\ r[y].state = "SYN_RCVD" /\ r[y].age = 0
       /\ ~r[y].is_fin_sent /\ ~r[y].on_timewait_list /\ ~r[y].on_timeout_list /\ r[y].rcv_wnd = TCP_INITIAL_WINDOW
  BY <1>2, <1>4, <1>8 DEF Got, SameRest, SameEnds, SameBuffer, Ignores, Takes
<1>11. x = "CLI" /\ y = "SVR"
  <2>1. x # "SVR"
    BY <1>1 DEF Delivery, Sends, Facts
  <2> QED
    BY <1>1, <2>1, Sides
<1>r. Received(k, x, y) /\ Received(k, y, x)
  BY DeliveryArrives
<1>12. k[x].rcvd = {} /\ k[y].rcvd \subseteq {0} /\ k[y].una = 0
  <2>1. k[x].got = 0 /\ k[x].una = 0 /\ k[x].sent <= 1 /\ k[y].una = 0
    BY <1>1, <1>2 DEF Facts, Fields, IsPacket
  <2>2. k[x].rcvd = {}
    BY <1>11, <2>1 DEF Delivery, HostsOK
  <2> QED
    BY <1>1, <1>r, <2>1, <2>2 DEF Received, Fields
<1>13. ~FinTaken(k, x) /\ ~FinTaken(k, y)
  BY <1>1, <1>12 DEF FinTaken, Fields
<1>w. Spacious => TCP_INITIAL_WINDOW >= Flight
  BY MonitorAssumption DEF Spacious
<1>14. StreamOK(r[x], x, k)
  <2>1. StateTrue(r[x], x, k)
    BY <1>9, <1>11 DEF StateTrue, OwnFin, PeerFin
  <2>2. BufferTrue(r[x], x, k)
    BY <1>9 DEF BufferTrue, DataOnly, PeerFin, Reading
  <2>n. NothingMissed(r[x], x, k)
    BY <1>9, <1>12, <1>w DEF NothingMissed, Seen
  <2>3. InStep(r[x], x, k)
    BY <1>9, <1>12, <1>13 DEF InStep
  <2> QED
    BY <1>9, <2>1, <2>2, <2>n, <2>3, FS_EmptySet DEF StreamOK
<1>15. StreamOK(r[y], y, k)
  <2>1. StateTrue(r[y], y, k)
    BY <1>10, <1>11 DEF StateTrue, OwnFin, PeerFin
  <2>2. BufferTrue(r[y], y, k)
    BY <1>10 DEF BufferTrue, DataOnly, PeerFin, Reading
  <2>n. NothingMissed(r[y], y, k)
    BY <1>10, <1>12, <1>w DEF NothingMissed, Seen
  <2>3. InStep(r[y], y, k)
    BY <1>10, <1>12, <1>13 DEF InStep
  <2> QED
    BY <1>10, <2>1, <2>2, <2>n, <2>3, FS_EmptySet DEF StreamOK
<1> QED
  BY <1>1, <1>7, <1>9, <1>10, <1>14, <1>15

\* A stream that only ages, or that is no longer monitored.
LEMMA RestKept ==
    ASSUME NEW s \in StreamType, NEW t \in StreamType, NEW z \in Side, NEW g, StreamOK(s, z, g),
           t.state = s.state, t.fss = s.fss, t.is_fin_sent <=> s.is_fin_sent, t.rcv_nxt = s.rcv_nxt,
           t.snd_nxt = s.snd_nxt, t.rcv_wnd = s.rcv_wnd, t.have = s.have,
           t.on_timewait_list <=> s.on_timewait_list, t.on_timeout_list <=> s.on_timeout_list,
           t.status_mgmt => s.status_mgmt
    PROVE  StreamOK(t, z, g)
<1>1. StateTrue(t, z, g)
  BY DEF StreamOK, StateTrue
<1>2. t.status_mgmt => BufferTrue(t, z, g) /\ NothingMissed(t, z, g)
  BY DEF StreamOK, BufferTrue, NothingMissed, Contiguous
<1>3. t.status_mgmt => InStep(t, z, g)
  BY DEF StreamOK, InStep
<1> QED
  BY <1>1, <1>2, <1>3 DEF StreamOK

-----------------------------------------------------------------------------
(* The steps.                                                              *)

Inv == FlowInv /\ AgeInv

\* A step that drops a flow does it for a reason: EndIsReal, of one step.
EndStep == (Alive /\ flow' = NoFlow /\ "CLI" \in Monitored) => EndsRightly

\* Streams that are over, but for those that are not monitored, have ended: both
\* ends have what there is, or one was reset.
LEMMA Ended ==
    ASSUME NEW f \in [Side -> StreamType], HostsOK(host'), \A z \in Side : StreamOK(f[z], z, host'),
           \A z \in Side : f[z].status_mgmt <=> flow[z].status_mgmt,
           \A z \in Side : f[z].state \in {"TIME_WAIT", "CLOSED_RSVD"} \/ ~f[z].status_mgmt
    PROVE  EndsRightly
<1>1. ASSUME NEW z \in Side, flow[z].status_mgmt
      PROVE  (Reached(host', z) /\ host'[Peer(z)].fin) \/ SomeoneGone(host')
  <2>1. StateTrue(f[z], z, host') /\ InStep(f[z], z, host') /\ f[z].state \in {"TIME_WAIT", "CLOSED_RSVD"}
    BY <1>1 DEF StreamOK
  <2> QED
    BY <2>1 DEF StateTrue, InStep, PeerFin
<1>2. SomeoneGone(host') <=> SomeoneReset'
  BY DEF SomeoneGone, SomeoneReset
<1>3. CASE Monitored = Side
  <2>1. \A z \in Side : flow[z].status_mgmt
    BY <1>3 DEF Monitored
  <2>2. ReallyOver'
    BY <1>1, <1>2, <2>1 DEF ReallyOver, Reached
  <2> QED
    BY <1>3, <2>2 DEF EndsRightly
<1>4. CASE Monitored # Side
  <2>1. ASSUME NEW z \in Monitored PROVE SeenOver(z)'
    <3>1. z \in Side /\ flow[z].status_mgmt
      BY <2>1 DEF Monitored
    <3>2. Reached(host', z) /\ host'[Peer(z)].fin => \A y \in Side : host'[y].fin
      BY <3>1, Sides DEF Reached
    <3> QED
      BY <1>1, <1>2, <3>1, <3>2 DEF SeenOver, Reached
  <2> QED
    BY <1>4, <2>1 DEF EndsRightly
<1> QED
  BY <1>3, <1>4

\* A packet that the middlebox sees.
LEMMA SeenKept ==
    ASSUME Inv, NEW h, NEW x, NEW y, NEW p, Delivery(host, h, host', x, y, p),
           flow' = ProcessInTCPPacket(x, p), idle' = (IF p.ack THEN 0 ELSE idle), UNCHANGED tw
    PROVE  Inv' /\ EndStep
<1>1. HostsOK(host') /\ tw' \in Nat /\ idle' \in Nat /\ idle \in Nat
  BY DEF Inv, FlowInv, AgeInv, Delivery
<1>2. CASE ~Alive /\ ~(p.syn /\ ~p.ack)
  <2>1. flow' = NoFlow
    BY <1>2 DEF ProcessInTCPPacket, CreateStream
  <2> QED
    BY <1>1, <1>2, <2>1 DEF Inv, FlowInv, AgeInv, Alive, EndStep
<1>3. ASSUME NEW r \in [Side -> StreamType], flow' = (IF \A z \in Side : Over(r[z]) THEN NoFlow ELSE r),
             \A z \in Side : StreamOK(r[z], z, host'), \A z \in Side : r[z].status_mgmt => r[z].age <= idle'
      PROVE  Inv'
  <2>1. CASE flow' = NoFlow
    BY <1>1, <2>1 DEF Inv, FlowInv, AgeInv, Alive
  <2>2. CASE flow' # NoFlow
    <3>1. flow' = r /\ \E z \in Side : ~Over(r[z])
      BY <1>3, <2>2
    <3>2. NotBothOver'
      BY <3>1 DEF NotBothOver, Over
    <3> QED
      BY <1>1, <1>3, <3>1, <3>2 DEF Inv, FlowInv, AgeInv, Alive
  <2> QED
    BY <2>1, <2>2
<1>4. CASE ~Alive /\ p.syn /\ ~p.ack
  <2>1. PICK f : f = [z \in Side |-> CreateTCPStream]
    OBVIOUS
  <2>2. PICK r \in [Side -> StreamType] :
               r = UpdateMonitor(f, x, p) /\ \A z \in Side : StreamOK(r[z], z, host') /\ r[z].age = 0
    BY <1>4, <2>1, CreateOK
  <2>3. f # NoFlow
    <3>1. CreateTCPStream \in StreamType
      BY MonitorAssumption DEF CreateTCPStream, StreamType, State
    <3>2. f \in [Side -> StreamType]
      BY <2>1, <3>1
    <3> QED
      BY <3>2, FlowIsSome
  <2>4. flow' = IF \A z \in Side : Over(r[z]) THEN NoFlow ELSE r
    BY <1>4, <2>1, <2>2, <2>3 DEF ProcessInTCPPacket, CreateStream, HandleMonitorStream
  <2>5. Inv'
    <3>1. \A z \in Side : r[z].status_mgmt => r[z].age <= idle'
      BY <1>1, <2>2
    <3> QED
      BY <1>3, <2>2, <2>4, <3>1
  <2> QED
    BY <1>4, <2>5 DEF EndStep
<1>5. CASE Alive
  <2>1. flow \in [Side -> StreamType] /\ \A z \in Side : StreamOK(flow[z], z, host)
    BY <1>5 DEF Inv, FlowInv
  <2>2. PICK r \in [Side -> StreamType] :
               /\ r = UpdateMonitor(flow, x, p)
               /\ \A z \in Side : /\ StreamOK(r[z], z, host') /\ (r[z].status_mgmt <=> flow[z].status_mgmt)
                                  /\ flow[z].status_mgmt => r[z].age = 0 \/ (~p.ack /\ r[z].age = flow[z].age)
    BY <2>1, MonitorOK
  <2>3. flow' = IF \A z \in Side : Over(r[z]) THEN NoFlow ELSE r
    BY <1>5, <2>2 DEF ProcessInTCPPacket, HandleMonitorStream, Alive
  <2>4. \A z \in Side : r[z].status_mgmt => r[z].age <= idle'
    <3>1. \A z \in Side : flow[z].status_mgmt => flow[z].age <= idle
      BY <1>5 DEF Inv, AgeInv
    <3> QED
      BY <1>1, <2>2, <3>1
  <2>5. Inv'
    BY <1>3, <2>2, <2>3, <2>4
  <2>6. ASSUME flow' = NoFlow PROVE EndsRightly
    <3>1. r # NoFlow
      BY FlowIsSome
    <3>2. \A z \in Side : r[z].state \in {"TIME_WAIT", "CLOSED_RSVD"} \/ ~r[z].status_mgmt
      BY <2>3, <2>6, <3>1 DEF Over
    <3> QED
      BY <1>1, <2>2, <3>2, Ended
  <2> QED
    BY <2>5, <2>6 DEF EndStep
<1> QED
  BY <1>2, <1>4, <1>5

\* A packet that is lost before the middlebox.
LEMMA UnseenKept ==
    ASSUME Inv, NEW h, NEW x, NEW y, NEW p, Delivery(host, h, h, x, y, p), h[y] = host[y],
           host' = h, UNCHANGED <<flow, idle, tw>>
    PROVE  Inv' /\ EndStep
<1>1. HostsOK(host') /\ tw' \in Nat
  BY DEF Inv, FlowInv, Delivery
<1>2. ASSUME Alive PROVE \A z \in Side : StreamOK(flow[z], z, host')
  BY <1>2, LostKept DEF Inv, FlowInv
<1>3. FlowInv'
  BY <1>1, <1>2 DEF Inv, FlowInv, Alive, NotBothOver
<1> QED
  BY <1>3 DEF Inv, AgeInv, Alive, EndStep

LEMMA HostStepKept ==
    ASSUME Inv, HostNext
    PROVE  Inv' /\ EndStep
<1>1. HostsOK(host)
  BY DEF Inv, FlowInv
<1>2. PICK x \in Side : SendSyn(x) \/ SendMore(x) \/ SendAck(x) \/ SendRst(x) \/ Resend(x)
  BY DEF HostNext
<1>3. PICK h \in [Side -> HostType], p \in PacketType : Sends(host, h, x, p) /\ Emit(h, x, p)
  BY <1>1, <1>2, HostSends
<1>4. PICK y \in Side : y = Peer(x)
  BY Sides
<1>5. x = Peer(y) /\ x # y /\ Side = {x, y} /\ host \in [Side -> HostType]
  BY <1>1, <1>4, Sides DEF HostsOK
<1>6. ASSUME NEW k, k \in {h, Receive(h, y, p)} PROVE Delivery(host, h, k, x, y, p)
  <2>1. HostsOK(k)
    BY <1>1, <1>3, <1>4, <1>6, HostsKept
  <2>2. Moved(host, h, k, x, y, p)
    <3>1. IsFiniteSet(host[y].rcvd)
      BY <1>1 DEF HostsOK
    <3> QED
      BY <1>3, <1>4, <1>5, <1>6, <3>1, Progress
  <2> QED
    BY <1>1, <1>3, <1>4, <1>5, <2>1, <2>2 DEF Delivery
<1>7. CASE host' = h /\ UNCHANGED <<flow, idle, tw>>
  <2>1. h[y] = host[y]
    BY <1>3, <1>4 DEF Sends
  <2> QED
    BY <1>6, <1>7, <2>1, UnseenKept
<1>8. CASE /\ flow' = ProcessInTCPPacket(x, p)
           /\ host' \in {h, Receive(h, Peer(x), p)}
           /\ idle' = IF p.ack THEN 0 ELSE idle
           /\ UNCHANGED tw
  BY <1>4, <1>6, <1>8, SeenKept
<1> QED
  BY <1>3, <1>7, <1>8 DEF Emit

LEMMA StopKept ==
    ASSUME Inv, NEW x \in Side, StopMon(x)
    PROVE  Inv' /\ flow' # NoFlow
<1>1. /\ Alive /\ flow \in [Side -> StreamType] /\ (\A z \in Side : StreamOK(flow[z], z, host)) /\ NotBothOver
      /\ HostsOK(host) /\ tw \in Nat /\ UNCHANGED <<host, tw, idle>>
  BY DEF Inv, FlowInv, StopMon
<1>2. PICK no \in BOOLEAN : no = FALSE
  OBVIOUS
<1>3. PICK t \in StreamType : t = [flow[x] EXCEPT !.status_mgmt = no]
  BY <1>1 DEF StreamType
<1>4. /\ t.state = flow[x].state /\ t.fss = flow[x].fss /\ (t.is_fin_sent <=> flow[x].is_fin_sent)
      /\ t.rcv_nxt = flow[x].rcv_nxt /\ t.snd_nxt = flow[x].snd_nxt /\ t.have = flow[x].have
      /\ (t.on_timewait_list <=> flow[x].on_timewait_list) /\ ~t.status_mgmt
      /\ (t.on_timeout_list <=> flow[x].on_timeout_list) /\ t.rcv_wnd = flow[x].rcv_wnd
  BY <1>1, <1>2, <1>3 DEF StreamType
<1>5. flow' = [flow EXCEPT ![x] = t]
  BY <1>2, <1>3 DEF StopMon
<1>6. flow' \in [Side -> StreamType] /\ flow'[x] = t /\ \A z \in Side : z # x => flow'[z] = flow[z]
  BY <1>1, <1>5
<1>7. flow' # NoFlow
  BY <1>6, FlowIsSome
<1>8. StreamOK(t, x, host)
  BY <1>1, <1>4, RestKept
<1>9. \A z \in Side : StreamOK(flow'[z], z, host')
  BY <1>1, <1>6, <1>8
<1>10. NotBothOver'
  BY <1>4, <1>6 DEF NotBothOver
<1>11. FlowInv'
  BY <1>1, <1>6, <1>9, <1>10 DEF FlowInv
<1>12. AgeInv'
  BY <1>1, <1>4, <1>6 DEF Inv, AgeInv
<1> QED
  BY <1>7, <1>11, <1>12 DEF Inv

\* A stream of which only the ages have changed.
OnlyAged(s, t) ==
    /\ t \in StreamType /\ t.state = s.state /\ t.fss = s.fss /\ (t.is_fin_sent <=> s.is_fin_sent)
    /\ t.rcv_nxt = s.rcv_nxt /\ t.rcv_wnd = s.rcv_wnd /\ t.snd_nxt = s.snd_nxt /\ t.have = s.have
    /\ (t.on_timewait_list <=> s.on_timewait_list) /\ (t.status_mgmt <=> s.status_mgmt)
    /\ (t.on_timeout_list <=> s.on_timeout_list) /\ t.age = Older(s.age, Timeout)

LEMMA AgedIs ==
    ASSUME NEW f \in [Side -> StreamType], tw \in Nat
    PROVE  Aged(f) \in [Side -> StreamType] /\ \A z \in Side : OnlyAged(f[z], Aged(f)[z])
<1>1. ASSUME NEW z \in Side PROVE Aged(f)[z] \in StreamType /\ OnlyAged(f[z], Aged(f)[z])
  <2>1. f[z] \in StreamType /\ f[z].age \in Nat /\ f[z].tw_age \in Nat
    BY StreamFields
  <2>2. PICK n \in Nat : n = Older(f[z].age, Timeout)
    BY <2>1 DEF Older
  <2>3. PICK m \in Nat : m = IF f[z].on_timewait_list THEN Older(f[z].tw_age, tw) ELSE f[z].tw_age
    BY <2>1 DEF Older
  <2>4. Aged(f)[z] = [f[z] EXCEPT !.age = n, !.tw_age = m]
    BY <2>2, <2>3 DEF Aged
  <2>5. PICK t \in StreamType : t = [f[z] EXCEPT !.age = n, !.tw_age = m]
    BY <2>1 DEF StreamType
  <2>6. /\ t.state = f[z].state /\ t.fss = f[z].fss /\ (t.is_fin_sent <=> f[z].is_fin_sent)
        /\ t.rcv_nxt = f[z].rcv_nxt /\ t.rcv_wnd = f[z].rcv_wnd /\ t.snd_nxt = f[z].snd_nxt /\ t.have = f[z].have
        /\ (t.on_timewait_list <=> f[z].on_timewait_list) /\ (t.status_mgmt <=> f[z].status_mgmt)
        /\ (t.on_timeout_list <=> f[z].on_timeout_list) /\ t.age = n
    BY <2>1, <2>5 DEF StreamType
  <2>7. OnlyAged(f[z], t)
    BY <2>2, <2>6 DEF OnlyAged
  <2> QED
    BY <2>4, <2>5, <2>7
<1>2. Aged(f) = [z \in Side |-> Aged(f)[z]]
  BY DEF Aged
<1> QED
  BY <1>1, <1>2

\* Streams that leave the timewait list have ended.
LEMMA ExpiryIsReal ==
    ASSUME NEW f \in [Side -> StreamType], HostsOK(host'), \A z \in Side : StreamOK(f[z], z, host'),
           \A z \in Side : f[z].status_mgmt <=> flow[z].status_mgmt, TimewaitExpires(f)
    PROVE  EndsRightly
<1>1. PICK x \in Side : f[x].on_timewait_list /\ f[Peer(x)].state \in {"CLOSED_RSVD", "TIME_WAIT"}
  BY DEF TimewaitExpires
<1>2. f[x].state \in {"TIME_WAIT", "CLOSED_RSVD"}
  BY <1>1 DEF StreamOK, StateTrue
<1>3. \A z \in Side : z = x \/ z = Peer(x)
  BY Sides
<1>4. \A z \in Side : f[z].state \in {"TIME_WAIT", "CLOSED_RSVD"}
  BY <1>1, <1>2, <1>3
<1> QED
  BY <1>4, Ended

LEMMA ExpireKept ==
    ASSUME Inv, CheckTimewaitExpire
    PROVE  Inv' /\ EndStep
<1>1. /\ flow \in [Side -> StreamType] /\ HostsOK(host') /\ \A z \in Side : StreamOK(flow[z], z, host')
      /\ TimewaitExpires(flow) /\ flow' = NoFlow /\ UNCHANGED <<host, tw, idle>>
  BY DEF Inv, FlowInv, CheckTimewaitExpire
<1>2. EndsRightly
  BY <1>1, ExpiryIsReal
<1> QED
  BY <1>1, <1>2 DEF Inv, FlowInv, AgeInv, Alive, EndStep

\* Of two ages the older stays so.
LEMMA OlderKeeps ==
    ASSUME NEW n \in Nat, NEW m \in Nat, n <= m
    PROVE  Older(n, Timeout) \in Nat /\ Older(n, Timeout) <= Older(m, Timeout) /\ Older(m, Timeout) \in Nat
BY MonitorAssumption DEF Older

LEMMA TimeoutKept ==
    ASSUME Inv, CheckConnectionTimeout
    PROVE  Inv' /\ EndStep
<1>1. /\ Alive /\ flow \in [Side -> StreamType] /\ HostsOK(host) /\ (\A z \in Side : StreamOK(flow[z], z, host))
      /\ NotBothOver /\ tw \in Nat /\ UNCHANGED <<host, tw>> /\ idle \in Nat /\ idle' = Older(idle, Timeout)
      /\ \A z \in Side : flow[z].status_mgmt => flow[z].age <= idle
  BY DEF Inv, FlowInv, AgeInv, CheckConnectionTimeout
<1>2. PICK f \in [Side -> StreamType] : f = Aged(flow) /\ \A z \in Side : OnlyAged(flow[z], f[z])
  BY <1>1, AgedIs
<1>3. flow' = IF TimewaitExpires(f) \/ ConnectionTimesOut(f) THEN NoFlow ELSE f
  BY <1>2 DEF CheckConnectionTimeout
<1>4. ASSUME NEW z \in Side PROVE StreamOK(f[z], z, host')
  <2>1. OnlyAged(flow[z], f[z]) /\ StreamOK(flow[z], z, host') /\ flow[z] \in StreamType
    BY <1>1, <1>2
  <2> QED
    BY <2>1, RestKept DEF OnlyAged
<1>5. ASSUME NEW z \in Side PROVE f[z].status_mgmt => f[z].age <= idle'
  <2>1. flow[z].age \in Nat
    BY <1>1, StreamFields
  <2>2. OnlyAged(flow[z], f[z])
    BY <1>2
  <2>3. flow[z].status_mgmt => Older(flow[z].age, Timeout) <= idle'
    BY <1>1, <2>1, OlderKeeps
  <2> QED
    BY <2>2, <2>3 DEF OnlyAged
<1>6. HostsOK(host') /\ tw' \in Nat /\ idle' \in Nat
  BY <1>1 DEF Older
<1>7. Inv'
  <2>1. CASE flow' = NoFlow
    BY <1>6, <2>1 DEF Inv, FlowInv, AgeInv, Alive
  <2>2. CASE flow' # NoFlow
    <3>1. flow' = f
      BY <1>3, <2>2
    <3>2. NotBothOver'
      BY <1>1, <1>2, <3>1 DEF NotBothOver, OnlyAged
    <3> QED
      BY <1>4, <1>5, <1>6, <3>1, <3>2 DEF Inv, FlowInv, AgeInv
  <2> QED
    BY <2>1, <2>2
<1>8. ASSUME flow' = NoFlow, "CLI" \in Monitored PROVE EndsRightly
  <2>1. f # NoFlow
    BY FlowIsSome
  <2>2. TimewaitExpires(f) \/ ConnectionTimesOut(f)
    BY <1>3, <1>8, <2>1
  <2>3. CASE TimewaitExpires(f)
    <3>1. \A z \in Side : f[z].status_mgmt <=> flow[z].status_mgmt
      BY <1>2 DEF OnlyAged
    <3> QED
      BY <1>4, <1>6, <2>3, <3>1, ExpiryIsReal
  <2>4. CASE ConnectionTimesOut(f)
    <3>1. PICK z \in Side : f[z].on_timeout_list /\ f[z].age >= Timeout
      BY <2>4 DEF ConnectionTimesOut
    <3>2. z = "CLI"
      BY <1>4, <3>1 DEF StreamOK, StateTrue
    <3>3. f[z].status_mgmt /\ f[z].age \in Nat
      BY <1>2, <1>8, <3>2, StreamFields DEF OnlyAged, Monitored
    <3>4. f[z].age <= idle'
      BY <1>5, <3>3
    <3> QED
      BY <1>6, <3>1, <3>3, <3>4, MonitorAssumption DEF EndsRightly
  <2> QED
    BY <2>2, <2>3, <2>4
<1> QED
  BY <1>7, <1>8 DEF EndStep
-----------------------------------------------------------------------------
(* The theorems.                                                           *)

LEMMA InvInit == Init => Inv
<1> SUFFICES ASSUME Init PROVE Inv
  OBVIOUS
<1>1. PICK q \in HostType : q = Quiet /\ q.sent = 0 /\ ~q.fin /\ q.rcvd = {} /\ q.got = 0 /\ q.una = 0 /\ ~q.gone
  <2>1. PICK q \in HostType : q = Quiet
    BY DEF Quiet, HostType
  <2>2. q.sent = 0 /\ ~q.fin /\ q.rcvd = {} /\ q.got = 0 /\ q.una = 0 /\ ~q.gone
    BY <2>1 DEF Quiet
  <2> QED
    BY <2>1, <2>2
<1>2. host = [x \in Side |-> q]
  BY <1>1 DEF Init
<1>3. HostsOK(host)
  <2>1. \A x \in Side : host[x] = q /\ host[Peer(x)] = q
    BY <1>2, Sides
  <2>2. host \in [Side -> HostType] /\ "CLI" \in Side /\ "SVR" \in Side
    BY <1>2, Sides
  <2>3. \A x \in Side : DataEnd(host, x) = 0
    BY <1>1, <2>1 DEF DataEnd
  <2>4. IsFiniteSet(q.rcvd) /\ \A i \in 0 .. q.got - 1 : i \in q.rcvd
    BY <1>1, FS_EmptySet
  <2> QED
    BY <1>1, <2>1, <2>2, <2>3, <2>4 DEF HostsOK
<1> QED
  BY <1>3, MonitorAssumption DEF Init, Inv, FlowInv, AgeInv, Alive

LEMMA InvStep == Inv /\ [Next]_vars => Inv' /\ (Next => EndStep)
<1> SUFFICES ASSUME Inv, [Next]_vars PROVE Inv' /\ (Next => EndStep)
  OBVIOUS
<1>1. CASE HostNext
  BY <1>1, HostStepKept
<1>2. CASE CheckTimewaitExpire
  BY <1>2, ExpireKept
<1>3. CASE CheckConnectionTimeout
  BY <1>3, TimeoutKept
<1>4. CASE \E x \in Side : StopMon(x)
  BY <1>4, StopKept DEF EndStep
<1>5. CASE UNCHANGED vars
  <2>1. Inv'
    BY <1>5 DEF vars, Inv, FlowInv, AgeInv, Alive, NotBothOver
  <2>2. EndStep
    BY <1>5 DEF vars, EndStep, Alive
  <2> QED
    BY <2>1, <2>2
<1> QED
  BY <1>1, <1>2, <1>3, <1>4, <1>5 DEF Next

\* Of any flow, whatever is lost, sent again or reset, and wherever monitoring is
\* stopped, the hosts and both streams keep to FlowInv, and a monitored stream is
\* not older than the connection is idle.
THEOREM FlowInvariant == Spec => []Inv
<1>1. Inv /\ [Next]_vars => Inv'
  BY InvStep
<1> QED
  BY InvInit, <1>1, PTL DEF Spec

\* What the state of a stream says of the two hosts (UpdatePassiveSendTCPContext,
\* UpdateRecvTCPContext) is so, for any number of bytes.
THEOREM StatesAreTrue == Spec => []StateIsTrue
<1>1. Inv => StateIsTrue
  <2> SUFFICES ASSUME Inv, Alive, NEW x \in Side, NEW state, state = flow[x].state
               PROVE  /\ state \notin {"LISTEN", "SYN_SENT", "SYN_RCVD", "CLOSED_RSVD"} =>
                             host["CLI"].sent > 0 /\ host["SVR"].sent > 0
                      /\ state \in {"FIN_WAIT_1", "FIN_WAIT_2", "CLOSING", "LAST_ACK", "TIME_WAIT"} => host[x].fin
                      /\ state \in {"CLOSE_WAIT", "CLOSING", "LAST_ACK", "TIME_WAIT"} => host[Peer(x)].fin
                      /\ state = "LAST_ACK" => FinReached(Peer(x))
                      /\ state \in {"FIN_WAIT_2", "TIME_WAIT"} => FinReached(x)
                      /\ state = "CLOSED_RSVD" => FinReached(x) \/ \E y \in Side : host[y].gone
    BY DEF StateIsTrue
  <2>1. StateTrue(flow[x], x, host)
    BY DEF Inv, FlowInv, StreamOK
  <2> QED
    BY <2>1 DEF StateTrue, OwnFin, PeerFin, Reached, SomeoneGone, FinReached
<1> QED
  BY <1>1, FlowInvariant, PTL

\* Of hosts that keep no more in flight than half of the ring, every byte that
\* one has received was stored in the buffer of its monitored stream
\* (ProcessTCPPayload), for any number of bytes.
THEOREM NothingIsMissed == Spec => []DataIsSeen
<1>1. Inv => DataIsSeen
  <2> SUFFICES ASSUME Inv, Spacious, Alive, NEW x \in Side, flow[x].status_mgmt
               PROVE  \A i \in host[x].rcvd \ {0} :
                          (host[Peer(x)].fin /\ i = host[Peer(x)].sent - 1) \/ i \in flow[x].have
    BY DEF DataIsSeen, NewDataIsStored
  <2>1. NothingMissed(flow[x], x, host)
    BY DEF Inv, FlowInv, StreamOK
  <2> QED
    BY <2>1 DEF NothingMissed, Seen
<1> QED
  BY <1>1, FlowInvariant, PTL

\* With no timewait interval HandleMonitorStream has dropped a flow when each
\* host knows that its FIN arrived, unless a stream missed one.
THEOREM NothingOutlives == Spec => []OverIsReleased
<1>1. Inv => OverIsReleased
  <2> SUFFICES ASSUME Inv, tw = 0, Alive,
                      \A x \in Side : /\ flow[x].status_mgmt /\ flow[x].rcv_nxt = host[x].got
                                      /\ ~host[x].gone /\ host[x].fin /\ host[x].una = host[x].sent
               PROVE  FALSE
    BY DEF OverIsReleased
  <2>1. ASSUME NEW x \in Side PROVE flow[x].state \in {"TIME_WAIT", "CLOSED_RSVD"}
    <3>1. PICK y \in Side : y = Peer(x) /\ x = Peer(y)
      BY Sides
    <3>2. HostsOK(host) /\ StateTrue(flow[x], x, host) /\ BufferTrue(flow[x], x, host) /\ InStep(flow[x], x, host)
      BY DEF Inv, FlowInv, StreamOK
    <3>3. /\ host[x].sent \in Nat /\ host[y].sent \in Nat /\ host[x].got \in Nat /\ host[y].got \in Nat
          /\ host[x].una <= host[y].got /\ host[y].got <= host[x].sent
          /\ host[y].una <= host[x].got /\ host[x].got <= host[y].sent /\ (host[y].fin => host[y].sent > 1)
      BY <3>1, <3>2, HostFields
    <3>4. host[y].got = host[x].sent /\ host[x].got = host[y].sent /\ host[y].sent > 1
      BY <3>1, <3>3
    <3>5. Reached(host, x)
      BY <3>1, <3>4 DEF Reached
    <3>6. flow[x].state \in OwnFin \cup {"CLOSED_RSVD"} /\ flow[x].state \notin {"CLOSING", "LAST_ACK"}
      <4>1. FinTaken(host, x)
        BY <3>2, <3>5, ReachedIsTaken
      <4> QED
        BY <3>2, <3>3, <4>1 DEF InStep
    <3>7. flow[x].state \notin {"FIN_WAIT_1", "FIN_WAIT_2"}
      <4> SUFFICES ASSUME flow[x].state \in {"FIN_WAIT_1", "FIN_WAIT_2"} PROVE FALSE
        OBVIOUS
      <4>1. PICK i \in Nat : i = host[y].sent - 1 /\ i \in 1 .. host[x].got - 1
        BY <3>3, <3>4
      <4>2. i \in flow[x].have
        BY <3>2, <4>1 DEF BufferTrue, Contiguous, Reading
      <4> QED
        BY <3>1, <3>2, <4>1, <4>2 DEF BufferTrue, DataOnly
    <3> QED
      BY <3>6, <3>7 DEF OwnFin
  <2> QED
    BY <2>1 DEF Inv, FlowInv, NotBothOver
<1> QED
  BY <1>1, FlowInvariant, PTL

\* A flow whose client's side is monitored is destroyed (HandleMonitorStream,
\* CheckTimewaitExpire, CheckConnectionTimeout) only because what is monitored of
\* it is over, or because it is idle, wherever else monitoring was stopped.
THEOREM EndsAreReal == Spec => EndIsReal
<1>1. Inv /\ [Next]_vars => [EndStep]_vars
  BY InvStep
<1>2. Spec => [][EndStep]_vars
  BY FlowInvariant, <1>1, PTL DEF Spec
<1>3. [EndStep]_vars => [(Alive /\ flow' = NoFlow /\ "CLI" \in Monitored) => EndsRightly]_vars
  BY DEF EndStep
<1> QED
  BY <1>2, <1>3, PTL DEF EndIsReal
=============================================================================
