---------------------------- MODULE SenderProofs ----------------------------
(***************************************************************************)
(* Proofs about the streams of a sender, for every number of streams and   *)
(* hosts, every room in the device and all bounds.                         *)
(*                                                                         *)
(* The lists and what the flags of a stream say are changed by operators   *)
(* that call each other; each has a lemma.  A loop of a round is a         *)
(* recursive function: what its steps preserve is proved by the least step *)
(* that would not (Least).                                                 *)
(***************************************************************************)
EXTENDS Sender, SequenceTheorems, WellFoundedInduction, TLAPS

\* The record of a stream.
Tcb ==
    [state : State, unsent : Nat, flight : Nat, out : {"none", "SYN", "FIN"},
     peer_wnd : Nat, on_control : BOOLEAN, on_send : BOOLEAN, on_ack : BOOLEAN,
     control_list_waiting : BOOLEAN, ack_cnt : Int, is_wack : BOOLEAN,
     owed : BOOLEAN, nrtx : Nat, wrote : Nat]

SenderRec ==
    [st : [Stream -> Tcb], closeq_int : Seq(Stream), resetq_int : Seq(Stream),
     control_list : Seq(Stream), ack_list : Seq(Stream), send_list : Seq(Stream),
     room : Int, arp_table : SUBSET Addr, arp_list : SUBSET Addr,
     arp_wire : SUBSET Addr, lost : Int]

\* The streams whose flags say that they are on a list.
OnControl(r) == {s \in Stream : r.st[s].on_control}
OnSend(r) == {s \in Stream : r.st[s].on_send}
OnAck(r) == {s \in Stream : r.st[s].on_ack}

Linked(r) ==
    /\ r \in SenderRec
    /\ OnList(r.control_list, OnControl(r))
    /\ OnList(r.send_list, OnSend(r))
    /\ OnList(r.ack_list, OnAck(r))

-----------------------------------------------------------------------------
(* Sequences without repetition.                                           *)

LEMMA OnListIs ==
    ASSUME NEW list \in Seq(Stream), NEW S, OnList(list, S)
    PROVE  /\ \A i, j \in 1 .. Len(list) : list[i] = list[j] => i = j
           /\ \A x \in S : \E i \in 1 .. Len(list) : list[i] = x
           /\ \A i \in 1 .. Len(list) : list[i] \in S
<1>1. DOMAIN list = 1 .. Len(list)
  OBVIOUS
<1> QED
  BY <1>1 DEF OnList, IsInjective, ToSet

LEMMA IsOnList ==
    ASSUME NEW list \in Seq(Stream), NEW S,
           \A i, j \in 1 .. Len(list) : list[i] = list[j] => i = j,
           \A x \in S : \E i \in 1 .. Len(list) : list[i] = x,
           \A i \in 1 .. Len(list) : list[i] \in S
    PROVE  OnList(list, S)
<1>1. DOMAIN list = 1 .. Len(list)
  OBVIOUS
<1> QED
  BY <1>1 DEF OnList, IsInjective, ToSet

LEMMA AppendOn ==
    ASSUME NEW list \in Seq(Stream), NEW S, OnList(list, S),
           NEW s \in Stream, s \notin S
    PROVE  Append(list, s) \in Seq(Stream) /\ OnList(Append(list, s), S \cup {s})
<1> DEFINE l == Append(list, s)
<1>1. /\ l \in Seq(Stream) /\ Len(l) = Len(list) + 1 /\ Len(list) \in Nat
      /\ \A i \in 1 .. Len(list) : l[i] = list[i]
      /\ l[Len(list) + 1] = s
  OBVIOUS
<1> HIDE DEF l
<1>2. \A i, j \in 1 .. Len(l) : l[i] = l[j] => i = j
  BY <1>1, OnListIs
<1>3. \A x \in S \cup {s} : \E i \in 1 .. Len(l) : l[i] = x
  <2> TAKE x \in S \cup {s}
  <2>1. CASE x = s
    BY <1>1, <2>1
  <2>2. CASE x \in S
    <3>1. PICK i \in 1 .. Len(list) : list[i] = x
      BY <2>2, OnListIs
    <3> QED
      BY <3>1, <1>1
  <2> QED
    BY <2>1, <2>2
<1>4. \A i \in 1 .. Len(l) : l[i] \in S \cup {s}
  BY <1>1, OnListIs
<1> QED
  BY <1>1, <1>2, <1>3, <1>4, IsOnList DEF l

LEMMA PushOn ==
    ASSUME NEW list \in Seq(Stream), NEW S, OnList(list, S),
           NEW s \in Stream, s \notin S
    PROVE  <<s>> \o list \in Seq(Stream) /\ OnList(<<s>> \o list, S \cup {s})
<1> DEFINE l == <<s>> \o list
<1>1. /\ l \in Seq(Stream) /\ Len(l) = Len(list) + 1 /\ Len(list) \in Nat
      /\ \A i \in 1 .. Len(list) : l[i + 1] = list[i]
      /\ l[1] = s
  OBVIOUS
<1> HIDE DEF l
<1>0. \A i \in 1 .. Len(l) : i # 1 => i - 1 \in 1 .. Len(list) /\ l[i] = list[i - 1]
  <2> TAKE i \in 1 .. Len(l)
  <2> HAVE i # 1
  <2>1. i - 1 \in 1 .. Len(list) /\ (i - 1) + 1 = i
    BY <1>1
  <2> QED
    BY <2>1, <1>1
<1>2. \A i, j \in 1 .. Len(l) : l[i] = l[j] => i = j
  <2> SUFFICES ASSUME NEW i \in 1 .. Len(l), NEW j \in 1 .. Len(l), l[i] = l[j]
               PROVE  i = j
    OBVIOUS
  <2>1. CASE i = 1 /\ j # 1
    BY <1>0, <1>1, <2>1, OnListIs
  <2>2. CASE i # 1 /\ j = 1
    BY <1>0, <1>1, <2>2, OnListIs
  <2>3. CASE i # 1 /\ j # 1
    <3>1. i - 1 = j - 1
      BY <1>0, <2>3, OnListIs
    <3> QED
      BY <3>1
  <2> QED
    BY <2>1, <2>2, <2>3
<1>3. \A x \in S \cup {s} : \E i \in 1 .. Len(l) : l[i] = x
  <2> TAKE x \in S \cup {s}
  <2>1. CASE x = s
    BY <1>1, <2>1
  <2>2. CASE x \in S
    <3>1. PICK i \in 1 .. Len(list) : list[i] = x
      BY <2>2, OnListIs
    <3>2. i + 1 \in 1 .. Len(l) /\ l[i + 1] = x
      BY <3>1, <1>1
    <3> QED
      BY <3>2
  <2> QED
    BY <2>1, <2>2
<1>4. \A i \in 1 .. Len(l) : l[i] \in S \cup {s}
  BY <1>0, <1>1, OnListIs
<1> QED
  BY <1>1, <1>2, <1>3, <1>4, IsOnList DEF l

\* What RemoveAt leaves.
LEMMA CutOut ==
    ASSUME NEW list \in Seq(Stream), NEW p \in 1 .. Len(list)
    PROVE  LET l == RemoveAt(list, p)
           IN  /\ l \in Seq(Stream) /\ Len(l) = Len(list) - 1
               /\ \A i \in 1 .. Len(l) : l[i] = IF i < p THEN list[i] ELSE list[i + 1]
<1> DEFINE a == SubSeq(list, 1, p - 1)  b == SubSeq(list, p + 1, Len(list))
<1>1. Len(list) \in Nat /\ \A i \in 1 .. Len(list) : list[i] \in Stream
  OBVIOUS
<1>2. /\ a \in Seq(Stream) /\ Len(a) = p - 1
      /\ \A i \in 1 .. p - 1 : a[i] = list[i]
  BY <1>1, SubSeqProperties
<1>3. /\ b \in Seq(Stream) /\ Len(b) = Len(list) - p
      /\ \A i \in 1 .. Len(list) - p : b[i] = list[p + i]
  <2>1. \A i \in p + 1 .. Len(list) : list[i] \in Stream
    BY <1>1
  <2>2. b \in Seq(Stream) /\ Len(b) = IF p + 1 <= Len(list) THEN Len(list) - (p + 1) + 1 ELSE 0
    BY <1>1, <2>1, SubSeqProperties
  <2>3. \A i \in 1 .. Len(list) - (p + 1) + 1 : b[i] = list[(p + 1) + i - 1]
    BY <1>1, <2>1, SubSeqProperties
  <2>4. Len(b) = Len(list) - p
    BY <1>1, <2>2
  <2> HIDE DEF b
  <2>5. \A i \in 1 .. Len(list) - p : b[i] = list[p + i]
    <3> TAKE i \in 1 .. Len(list) - p
    <3>1. i \in 1 .. Len(list) - (p + 1) + 1 /\ (p + 1) + i - 1 = p + i
      BY <1>1
    <3> QED
      BY <2>3, <3>1
  <2> QED
    BY <2>2, <2>4, <2>5
<1> HIDE DEF a, b
<1> DEFINE l == a \o b
<1>4. /\ l \in Seq(Stream) /\ Len(l) = Len(list) - 1
      /\ \A i \in 1 .. Len(a) + Len(b) : l[i] = IF i <= Len(a) THEN a[i] ELSE b[i - Len(a)]
  BY <1>1, <1>2, <1>3, ConcatProperties
<1> HIDE DEF l
<1>5. \A i \in 1 .. Len(l) : l[i] = IF i < p THEN list[i] ELSE list[i + 1]
  <2> TAKE i \in 1 .. Len(l)
  <2>1. CASE i < p
    <3>1. i \in 1 .. p - 1 /\ i \in 1 .. Len(a) + Len(b) /\ i <= Len(a)
      BY <1>1, <1>2, <1>3, <1>4, <2>1
    <3>2. l[i] = a[i] /\ a[i] = list[i]
      BY <1>2, <1>4, <3>1
    <3> QED
      BY <3>2, <2>1
  <2>2. CASE ~(i < p)
    <3>1. i - (p - 1) \in 1 .. Len(list) - p /\ p + (i - (p - 1)) = i + 1
      BY <1>1, <1>4, <2>2
    <3>a. i \in 1 .. Len(a) + Len(b) /\ ~(i <= Len(a)) /\ Len(a) = p - 1
      BY <1>1, <1>2, <1>3, <1>4, <2>2
    <3>2. l[i] = b[i - (p - 1)]
      BY <1>4, <3>a
    <3> QED
      BY <3>1, <3>2, <1>3, <2>2
  <2> QED
    BY <2>1, <2>2
<1>6. RemoveAt(list, p) = l
  BY DEF RemoveAt, l, a, b
<1> QED
  BY <1>4, <1>5, <1>6

LEMMA OffOn ==
    ASSUME NEW list \in Seq(Stream), NEW S, OnList(list, S), NEW s \in S
    PROVE  Off(list, s) \in Seq(Stream) /\ OnList(Off(list, s), S \ {s})
<1> DEFINE p == Place(list, s)  l == Off(list, s)
<1>1. p \in 1 .. Len(list) /\ list[p] = s /\ DOMAIN list = 1 .. Len(list)
  <2>1. \E i \in 1 .. Len(list) : list[i] = s
    BY OnListIs
  <2> QED
    BY <2>1 DEF Place
<1>2. /\ l \in Seq(Stream) /\ Len(l) = Len(list) - 1
      /\ \A i \in 1 .. Len(l) : l[i] = IF i < p THEN list[i] ELSE list[i + 1]
  BY <1>1, CutOut DEF Off
<1>3. Len(list) \in Nat
  OBVIOUS
<1> HIDE DEF l, p
<1> DEFINE at(i) == IF i < p THEN i ELSE i + 1
<1>4. \A i \in 1 .. Len(l) : at(i) \in 1 .. Len(list) /\ at(i) # p /\ l[i] = list[at(i)]
  BY <1>1, <1>2, <1>3
<1>5. \A i, j \in 1 .. Len(l) : l[i] = l[j] => i = j
  <2> SUFFICES ASSUME NEW i \in 1 .. Len(l), NEW j \in 1 .. Len(l), l[i] = l[j]
               PROVE  i = j
    OBVIOUS
  <2>1. at(i) = at(j)
    <3> HIDE DEF at
    <3> QED
      BY SMTT(40), <1>4, OnListIs
  <2> QED
    BY <2>1, <1>1, <1>2, <1>3
<1>6. \A x \in S \ {s} : \E i \in 1 .. Len(l) : l[i] = x
  <2> TAKE x \in S \ {s}
  <2>1. PICK j \in 1 .. Len(list) : list[j] = x
    BY OnListIs
  <2>2. j # p
    BY <2>1, <1>1
  <2>3. CASE j < p
    BY <2>1, <2>3, <1>1, <1>2, <1>3
  <2>4. CASE j > p
    <3>1. j - 1 \in 1 .. Len(l) /\ ~(j - 1 < p) /\ (j - 1) + 1 = j
      BY <2>4, <1>1, <1>2, <1>3
    <3> QED
      BY <3>1, <2>1, <1>2
  <2> QED
    BY <2>2, <2>3, <2>4, <1>1
<1>7. \A i \in 1 .. Len(l) : l[i] \in S \ {s}
  <2> TAKE i \in 1 .. Len(l)
  <2> HIDE DEF at
  <2> QED
    BY <1>1, <1>4, OnListIs
<1> QED
  BY <1>2, <1>5, <1>6, <1>7, IsOnList DEF l

-----------------------------------------------------------------------------
(* The operators on the lists.                                             *)

\* q is r but for the stream s, the lists of the sender and the device.
Only(q, r, s) ==
    /\ q.st = [r.st EXCEPT ![s] = q.st[s]]
    /\ q.closeq_int = r.closeq_int /\ q.resetq_int = r.resetq_int

LEMMA OnlyIs ==
    ASSUME NEW r \in SenderRec, NEW q \in SenderRec, NEW s \in Stream, Only(q, r, s)
    PROVE  /\ \A u \in Stream \ {s} : q.st[u] = r.st[u]
           /\ q.closeq_int = r.closeq_int /\ q.resetq_int = r.resetq_int
BY DEF Only, SenderRec

LEMMA OnlyTwice ==
    ASSUME NEW r \in SenderRec, NEW q \in SenderRec, NEW p \in SenderRec,
           NEW s \in Stream, Only(q, r, s), Only(p, q, s)
    PROVE  Only(p, r, s)
BY DEF Only, SenderRec

\* A set with s, or without.
With(S, s, b) == IF b THEN S \cup {s} ELSE S \ {s}

LEMMA Flags ==
    ASSUME NEW r \in SenderRec, NEW q \in SenderRec, NEW s \in Stream, Only(q, r, s)
    PROVE  /\ OnControl(q) = With(OnControl(r), s, q.st[s].on_control)
           /\ OnSend(q) = With(OnSend(r), s, q.st[s].on_send)
           /\ OnAck(q) = With(OnAck(r), s, q.st[s].on_ack)
BY DEF Only, SenderRec, OnControl, OnSend, OnAck, With

LEMMA Same ==
    ASSUME NEW r \in SenderRec, NEW s \in Stream
    PROVE  /\ r.st[s] \in Tcb
           /\ OnControl(r) = With(OnControl(r), s, r.st[s].on_control)
           /\ OnSend(r) = With(OnSend(r), s, r.st[s].on_send)
           /\ OnAck(r) = With(OnAck(r), s, r.st[s].on_ack)
BY SMTT(40) DEF SenderRec, Tcb, OnControl, OnSend, OnAck, With

\* Whatever else is done to a stream leaves its lists alone.
LEMMA Updated ==
    ASSUME NEW r, Linked(r), NEW s \in Stream, NEW q \in SenderRec, Only(q, r, s),
           q.st[s].on_control = r.st[s].on_control,
           q.st[s].on_send = r.st[s].on_send, q.st[s].on_ack = r.st[s].on_ack,
           q.control_list = r.control_list, q.send_list = r.send_list,
           q.ack_list = r.ack_list
    PROVE  Linked(q)
<1>1. r \in SenderRec
  BY DEF Linked
<1>2. OnControl(q) = OnControl(r) /\ OnSend(q) = OnSend(r) /\ OnAck(q) = OnAck(r)
  BY <1>1, Flags, Same
<1> QED
  BY <1>2 DEF Linked

LEMMA Put ==
    ASSUME NEW r \in SenderRec, NEW s \in Stream, NEW t \in Tcb
    PROVE  [r.st EXCEPT ![s] = t] \in [Stream -> Tcb]
BY DEF SenderRec

\* The stream changes to t, and the lists with its flags.
Listed(r, s, t, control, send, ack) ==
    [r EXCEPT !.st = [r.st EXCEPT ![s] = t], !.control_list = control,
              !.send_list = send, !.ack_list = ack]

LEMMA Relinked ==
    ASSUME NEW r, Linked(r), NEW s \in Stream, NEW t \in Tcb,
           NEW control \in Seq(Stream), NEW send \in Seq(Stream), NEW ack \in Seq(Stream),
           OnList(control, With(OnControl(r), s, t.on_control)),
           OnList(send, With(OnSend(r), s, t.on_send)),
           OnList(ack, With(OnAck(r), s, t.on_ack)),
           NEW q, q = Listed(r, s, t, control, send, ack)
    PROVE  Linked(q) /\ Only(q, r, s) /\ q.st[s] = t
<1> DEFINE f == [r.st EXCEPT ![s] = t]
<1>1. r \in SenderRec
  BY DEF Linked
<1>2. f \in [Stream -> Tcb]
  BY <1>1, Put
<1>3. q = [r EXCEPT !.st = f, !.control_list = control, !.send_list = send, !.ack_list = ack]
  BY DEF Listed
<1> HIDE DEF f
<1>4. /\ q \in SenderRec /\ q.st = f /\ q.send_list = send
      /\ q.closeq_int = r.closeq_int /\ q.resetq_int = r.resetq_int
      /\ q.control_list = control /\ q.ack_list = ack
  BY ZenonT(60), <1>1, <1>2, <1>3 DEF SenderRec
<1>5. q.st[s] = t /\ Only(q, r, s)
  <2>1. q.st = [r.st EXCEPT ![s] = t]
    BY <1>4 DEF f
  <2> QED
    BY <1>1, <1>4, <2>1 DEF Only, SenderRec
<1>6. /\ OnControl(q) = With(OnControl(r), s, t.on_control)
      /\ OnSend(q) = With(OnSend(r), s, t.on_send)
      /\ OnAck(q) = With(OnAck(r), s, t.on_ack)
  BY <1>1, <1>4, <1>5, Flags
<1> QED
  BY <1>4, <1>5, <1>6 DEF Linked

\* The lists as they are.
LEMMA Unlisted ==
    ASSUME NEW r, Linked(r), NEW s \in Stream
    PROVE  /\ r \in SenderRec /\ r.st[s] \in Tcb
           /\ r.control_list \in Seq(Stream)
           /\ OnList(r.control_list, With(OnControl(r), s, r.st[s].on_control))
           /\ r.send_list \in Seq(Stream)
           /\ OnList(r.send_list, With(OnSend(r), s, r.st[s].on_send))
           /\ r.ack_list \in Seq(Stream)
           /\ OnList(r.ack_list, With(OnAck(r), s, r.st[s].on_ack))
<1>1. r \in SenderRec
  BY DEF Linked
<1>2. r.control_list \in Seq(Stream) /\ r.send_list \in Seq(Stream) /\ r.ack_list \in Seq(Stream)
  BY <1>1 DEF SenderRec
<1>3. OnList(r.control_list, OnControl(r)) /\ OnList(r.send_list, OnSend(r)) /\ OnList(r.ack_list, OnAck(r))
  BY DEF Linked
<1> QED
  BY <1>1, <1>2, <1>3, Same

\* Nothing is left to do.
LEMMA OnlySame ==
    ASSUME NEW r \in SenderRec, NEW s \in Stream
    PROVE  Only(r, r, s)
BY DEF Only, SenderRec

LEMMA SendListed ==
    ASSUME NEW r, Linked(r), NEW s \in Stream, NEW q, q = AddtoSendList(r, s)
    PROVE  /\ Linked(q) /\ Only(q, r, s)
           /\ q.st[s] = [r.st[s] EXCEPT !.on_send = TRUE]
<1> DEFINE t == [r.st[s] EXCEPT !.on_send = TRUE]
           l == Append(r.send_list, s)
<1>1. r \in SenderRec /\ r.st[s] \in Tcb
  BY Unlisted
<1>2. CASE r.st[s].on_send
  <2>1. q = r /\ r.st[s] = t
    BY <1>1, <1>2 DEF AddtoSendList, Tcb
  <2> QED
    BY <1>1, <2>1, OnlySame
<1>3. CASE ~r.st[s].on_send
  <2>1. /\ t \in Tcb /\ t.on_send = TRUE /\ t.on_ack = r.st[s].on_ack
        /\ t.on_control = r.st[s].on_control
    BY <1>1 DEF Tcb
  <2>2. s \notin OnSend(r)
    BY <1>3 DEF OnSend
  <2>3. l \in Seq(Stream) /\ OnList(l, With(OnSend(r), s, TRUE))
    BY <1>1, <2>2, AppendOn DEF Linked, SenderRec, With
  <2>4. q = Listed(r, s, t, r.control_list, l, r.ack_list)
    BY <1>1, <1>3 DEF AddtoSendList, Listed, SenderRec
  <2> HIDE DEF t, l
  <2>5. /\ r.control_list \in Seq(Stream) /\ l \in Seq(Stream) /\ r.ack_list \in Seq(Stream)
        /\ OnList(r.control_list, With(OnControl(r), s, t.on_control))
        /\ OnList(l, With(OnSend(r), s, t.on_send))
        /\ OnList(r.ack_list, With(OnAck(r), s, t.on_ack))
    BY <2>1, <2>3, Unlisted
  <2>6. Linked(q) /\ Only(q, r, s) /\ q.st[s] = t
    BY <2>1, <2>4, <2>5, Relinked
  <2> QED
    BY <2>6 DEF t
<1> QED
  BY <1>2, <1>3

LEMMA AckListed ==
    ASSUME NEW r, Linked(r), NEW s \in Stream, NEW q, q = AddtoACKList(r, s)
    PROVE  /\ Linked(q) /\ Only(q, r, s)
           /\ q.st[s] = [r.st[s] EXCEPT !.on_ack = TRUE]
<1> DEFINE t == [r.st[s] EXCEPT !.on_ack = TRUE]
           l == Append(r.ack_list, s)
<1>1. r \in SenderRec /\ r.st[s] \in Tcb
  BY Unlisted
<1>2. CASE r.st[s].on_ack
  <2>1. q = r /\ r.st[s] = t
    BY <1>1, <1>2 DEF AddtoACKList, Tcb
  <2> QED
    BY <1>1, <2>1, OnlySame
<1>3. CASE ~r.st[s].on_ack
  <2>1. /\ t \in Tcb /\ t.on_ack = TRUE /\ t.on_send = r.st[s].on_send
        /\ t.on_control = r.st[s].on_control
    BY <1>1 DEF Tcb
  <2>2. s \notin OnAck(r)
    BY <1>3 DEF OnAck
  <2>3. l \in Seq(Stream) /\ OnList(l, With(OnAck(r), s, TRUE))
    BY <1>1, <2>2, AppendOn DEF Linked, SenderRec, With
  <2>4. q = Listed(r, s, t, r.control_list, r.send_list, l)
    BY <1>1, <1>3 DEF AddtoACKList, Listed, SenderRec
  <2> HIDE DEF t, l
  <2>5. /\ r.control_list \in Seq(Stream) /\ r.send_list \in Seq(Stream) /\ l \in Seq(Stream)
        /\ OnList(r.control_list, With(OnControl(r), s, t.on_control))
        /\ OnList(r.send_list, With(OnSend(r), s, t.on_send))
        /\ OnList(l, With(OnAck(r), s, t.on_ack))
    BY <2>1, <2>3, Unlisted
  <2>6. Linked(q) /\ Only(q, r, s) /\ q.st[s] = t
    BY <2>1, <2>4, <2>5, Relinked
  <2> QED
    BY <2>6 DEF t
<1> QED
  BY <1>2, <1>3

LEMMA ControlUnlisted ==
    ASSUME NEW r, Linked(r), NEW s \in Stream, NEW q, q = RemoveFromControlList(r, s)
    PROVE  /\ Linked(q) /\ Only(q, r, s)
           /\ q.st[s] = [r.st[s] EXCEPT !.on_control = FALSE]
<1> DEFINE t == [r.st[s] EXCEPT !.on_control = FALSE]
           l == Off(r.control_list, s)
<1>1. r \in SenderRec /\ r.st[s] \in Tcb
  BY Unlisted
<1>2. CASE ~r.st[s].on_control
  <2>1. q = r /\ r.st[s] = t
    BY <1>1, <1>2 DEF RemoveFromControlList, Tcb
  <2> QED
    BY <1>1, <2>1, OnlySame
<1>3. CASE r.st[s].on_control
  <2>1. /\ t \in Tcb /\ t.on_control = FALSE /\ t.on_send = r.st[s].on_send
        /\ t.on_ack = r.st[s].on_ack
    BY <1>1 DEF Tcb
  <2>2. s \in OnControl(r)
    BY <1>3 DEF OnControl
  <2>3. l \in Seq(Stream) /\ OnList(l, With(OnControl(r), s, FALSE))
    BY <1>1, <2>2, OffOn DEF Linked, SenderRec, With
  <2>4. q = Listed(r, s, t, l, r.send_list, r.ack_list)
    BY <1>1, <1>3 DEF RemoveFromControlList, Listed, SenderRec
  <2> HIDE DEF t, l
  <2>5. /\ l \in Seq(Stream) /\ r.send_list \in Seq(Stream) /\ r.ack_list \in Seq(Stream)
        /\ OnList(l, With(OnControl(r), s, t.on_control))
        /\ OnList(r.send_list, With(OnSend(r), s, t.on_send))
        /\ OnList(r.ack_list, With(OnAck(r), s, t.on_ack))
    BY <2>1, <2>3, Unlisted
  <2>6. Linked(q) /\ Only(q, r, s) /\ q.st[s] = t
    BY <2>1, <2>4, <2>5, Relinked
  <2> QED
    BY <2>6 DEF t
<1> QED
  BY <1>2, <1>3

LEMMA SendUnlisted ==
    ASSUME NEW r, Linked(r), NEW s \in Stream, NEW q, q = RemoveFromSendList(r, s)
    PROVE  /\ Linked(q) /\ Only(q, r, s)
           /\ q.st[s] = [r.st[s] EXCEPT !.on_send = FALSE]
<1> DEFINE t == [r.st[s] EXCEPT !.on_send = FALSE]
           l == Off(r.send_list, s)
<1>1. r \in SenderRec /\ r.st[s] \in Tcb
  BY Unlisted
<1>2. CASE ~r.st[s].on_send
  <2>1. q = r /\ r.st[s] = t
    BY <1>1, <1>2 DEF RemoveFromSendList, Tcb
  <2> QED
    BY <1>1, <2>1, OnlySame
<1>3. CASE r.st[s].on_send
  <2>1. /\ t \in Tcb /\ t.on_send = FALSE /\ t.on_control = r.st[s].on_control
        /\ t.on_ack = r.st[s].on_ack
    BY <1>1 DEF Tcb
  <2>2. s \in OnSend(r)
    BY <1>3 DEF OnSend
  <2>3. l \in Seq(Stream) /\ OnList(l, With(OnSend(r), s, FALSE))
    BY <1>1, <2>2, OffOn DEF Linked, SenderRec, With
  <2>4. q = Listed(r, s, t, r.control_list, l, r.ack_list)
    BY <1>1, <1>3 DEF RemoveFromSendList, Listed, SenderRec
  <2> HIDE DEF t, l
  <2>5. /\ r.control_list \in Seq(Stream) /\ l \in Seq(Stream) /\ r.ack_list \in Seq(Stream)
        /\ OnList(r.control_list, With(OnControl(r), s, t.on_control))
        /\ OnList(l, With(OnSend(r), s, t.on_send))
        /\ OnList(r.ack_list, With(OnAck(r), s, t.on_ack))
    BY <2>1, <2>3, Unlisted
  <2>6. Linked(q) /\ Only(q, r, s) /\ q.st[s] = t
    BY <2>1, <2>4, <2>5, Relinked
  <2> QED
    BY <2>6 DEF t
<1> QED
  BY <1>2, <1>3

LEMMA AckUnlisted ==
    ASSUME NEW r, Linked(r), NEW s \in Stream, NEW q, q = RemoveFromACKList(r, s)
    PROVE  /\ Linked(q) /\ Only(q, r, s)
           /\ q.st[s] = [r.st[s] EXCEPT !.on_ack = FALSE]
<1> DEFINE t == [r.st[s] EXCEPT !.on_ack = FALSE]
           l == Off(r.ack_list, s)
<1>1. r \in SenderRec /\ r.st[s] \in Tcb
  BY Unlisted
<1>2. CASE ~r.st[s].on_ack
  <2>1. q = r /\ r.st[s] = t
    BY <1>1, <1>2 DEF RemoveFromACKList, Tcb
  <2> QED
    BY <1>1, <2>1, OnlySame
<1>3. CASE r.st[s].on_ack
  <2>1. /\ t \in Tcb /\ t.on_ack = FALSE /\ t.on_send = r.st[s].on_send
        /\ t.on_control = r.st[s].on_control
    BY <1>1 DEF Tcb
  <2>2. s \in OnAck(r)
    BY <1>3 DEF OnAck
  <2>3. l \in Seq(Stream) /\ OnList(l, With(OnAck(r), s, FALSE))
    BY <1>1, <2>2, OffOn DEF Linked, SenderRec, With
  <2>4. q = Listed(r, s, t, r.control_list, r.send_list, l)
    BY <1>1, <1>3 DEF RemoveFromACKList, Listed, SenderRec
  <2> HIDE DEF t, l
  <2>5. /\ r.control_list \in Seq(Stream) /\ r.send_list \in Seq(Stream) /\ l \in Seq(Stream)
        /\ OnList(r.control_list, With(OnControl(r), s, t.on_control))
        /\ OnList(r.send_list, With(OnSend(r), s, t.on_send))
        /\ OnList(l, With(OnAck(r), s, t.on_ack))
    BY <2>1, <2>3, Unlisted
  <2>6. Linked(q) /\ Only(q, r, s) /\ q.st[s] = t
    BY <2>1, <2>4, <2>5, Relinked
  <2> QED
    BY <2>6 DEF t
<1> QED
  BY <1>2, <1>3

\* Neither the lists nor the flags change.
Touch(r, s, t, room) == [r EXCEPT !.st = [r.st EXCEPT ![s] = t], !.room = room]

LEMMA Touched ==
    ASSUME NEW r, Linked(r), NEW s \in Stream, NEW t \in Tcb, NEW room \in Int,
           t.on_control = r.st[s].on_control, t.on_send = r.st[s].on_send,
           t.on_ack = r.st[s].on_ack,
           NEW q, q = Touch(r, s, t, room)
    PROVE  Linked(q) /\ Only(q, r, s) /\ q.st[s] = t
<1> DEFINE f == [r.st EXCEPT ![s] = t]
<1>1. r \in SenderRec
  BY DEF Linked
<1>2. f \in [Stream -> Tcb]
  BY <1>1, Put
<1>3. q = [r EXCEPT !.st = f, !.room = room]
  BY DEF Touch
<1> HIDE DEF f
<1>4. /\ q \in SenderRec /\ q.st = f /\ q.send_list = r.send_list
      /\ q.closeq_int = r.closeq_int /\ q.resetq_int = r.resetq_int
      /\ q.control_list = r.control_list /\ q.ack_list = r.ack_list
  BY <1>1, <1>2, <1>3 DEF SenderRec
<1>5. q.st[s] = t /\ Only(q, r, s)
  <2>1. q.st = [r.st EXCEPT ![s] = t]
    BY <1>4 DEF f
  <2> QED
    BY <1>1, <1>4, <2>1 DEF Only, SenderRec
<1> QED
  BY <1>4, <1>5, Updated

LEMMA RefusedOK ==
    ASSUME NEW r, Linked(r), NEW s \in Stream, NEW q, q = Refused(r, s)
    PROVE  Linked(q) /\ Only(q, r, s) /\ q.st[s] = r.st[s]
<1>1. r \in SenderRec /\ Dest[s] \in Addr
  BY SenderAssumption DEF Linked
<1>2. CASE q = r
  BY <1>1, <1>2, OnlySame
<1>3. CASE q # r
  <2>1. q = [r EXCEPT !.arp_list = r.arp_list \cup {Dest[s]},
                      !.arp_wire = r.arp_wire \cup {Dest[s]}]
    BY <1>1, <1>3 DEF Refused, RequestARP, ARPOutput, SenderRec
  <2> DEFINE l == r.arp_list \cup {Dest[s]}  w == r.arp_wire \cup {Dest[s]}
  <2>0. l \in SUBSET Addr /\ w \in SUBSET Addr
    BY <1>1 DEF SenderRec
  <2> HIDE DEF l, w
  <2>2. /\ q \in SenderRec /\ q.st = r.st /\ q.send_list = r.send_list
        /\ q.closeq_int = r.closeq_int /\ q.resetq_int = r.resetq_int
        /\ q.control_list = r.control_list /\ q.ack_list = r.ack_list
    <3>1. q = [r EXCEPT !.arp_list = l, !.arp_wire = w]
      BY <2>1 DEF l, w
    <3> QED
      BY <1>1, <2>0, <3>1 DEF SenderRec
  <2>3. Only(q, r, s)
    BY <1>1, <2>2 DEF Only, SenderRec
  <2> QED
    BY <2>2, <2>3, Updated
<1> QED
  BY <1>2, <1>3

LEMMA FreedIs ==
    /\ Freed \in Tcb /\ Freed.state = "FREED"
    /\ ~Freed.on_control /\ ~Freed.on_send /\ ~Freed.on_ack
    /\ Freed.unsent = 0 /\ Freed.flight = 0 /\ Freed.out = "none"
<1>1. Idle \in Tcb
  BY DEF Idle, Tcb, State
<1>2. /\ ~Idle.on_control /\ ~Idle.on_send /\ ~Idle.on_ack
      /\ Idle.unsent = 0 /\ Idle.flight = 0 /\ Idle.out = "none"
  BY DEF Idle
<1>3. Freed = [Idle EXCEPT !.state = "FREED"]
  BY DEF Freed
<1> QED
  BY <1>1, <1>2, <1>3 DEF Tcb, State

LEMMA Destroyed ==
    ASSUME NEW r, Linked(r), NEW s \in Stream, NEW q, q = DestroyTCPStream(r, s)
    PROVE  Linked(q) /\ Only(q, r, s) /\ q.st[s] = Freed
<1> DEFINE a == RemoveFromACKList(r, s)
           b == RemoveFromSendList(a, s)
           c == RemoveFromControlList(b, s)
<1>0. r \in SenderRec /\ r.st[s] \in Tcb
  BY Unlisted
<1>1. Linked(a) /\ Only(a, r, s) /\ a.st[s] = [r.st[s] EXCEPT !.on_ack = FALSE]
  BY AckUnlisted
<1>2. Linked(b) /\ Only(b, a, s) /\ b.st[s] = [a.st[s] EXCEPT !.on_send = FALSE]
  <2> HIDE DEF a
  <2> QED
    BY ZenonT(60), <1>1, SendUnlisted
<1>3. Linked(c) /\ Only(c, b, s) /\ c.st[s] = [b.st[s] EXCEPT !.on_control = FALSE]
  <2> HIDE DEF a, b
  <2> QED
    BY ZenonT(60), <1>2, ControlUnlisted
<1> HIDE DEF a, b
<1>4. a \in SenderRec /\ b \in SenderRec /\ c \in SenderRec /\ c.st[s] \in Tcb
  BY <1>1, <1>2, <1>3, Unlisted
<1>5. ~c.st[s].on_control /\ ~c.st[s].on_send /\ ~c.st[s].on_ack
  BY <1>0, <1>1, <1>2, <1>3 DEF Tcb
<1>6. q = [c EXCEPT !.st[s] = Freed]
  BY DEF DestroyTCPStream, a, b
<1> HIDE DEF c
<1>7. q = Touch(c, s, Freed, c.room) /\ c.room \in Int
  BY <1>4, <1>6 DEF Touch, SenderRec
<1>8. Linked(q) /\ Only(q, c, s) /\ q.st[s] = Freed
  BY <1>3, <1>4, <1>5, <1>7, FreedIs, Touched DEF Tcb
<1>9. Only(q, r, s)
  BY <1>0, <1>1, <1>2, <1>3, <1>4, <1>8, OnlyTwice, Unlisted
<1> QED
  BY <1>8, <1>9

LEMMA PacketSent ==
    ASSUME NEW r, Linked(r), NEW s \in Stream, NEW q, q = SendTCPPacket(r, s)
    PROVE  Linked(q) /\ Only(q, r, s) /\ q.st[s] = [r.st[s] EXCEPT !.owed = FALSE]
<1> DEFINE t == [r.st[s] EXCEPT !.owed = FALSE]
<1>1. r \in SenderRec /\ r.st[s] \in Tcb
  BY Unlisted
<1>2. /\ t \in Tcb /\ t.on_control = r.st[s].on_control
      /\ t.on_send = r.st[s].on_send /\ t.on_ack = r.st[s].on_ack
  BY <1>1 DEF Tcb
<1>3. q = Touch(r, s, t, r.room - 1) /\ r.room - 1 \in Int
  <2> DEFINE b == TakeBuffer(r)
  <2>1. b = [r EXCEPT !.room = r.room - 1] /\ b.st = r.st /\ r.room - 1 \in Int
    BY <1>1 DEF TakeBuffer, SenderRec
  <2>2. q = [b EXCEPT !.st = [b.st EXCEPT ![s] = [b.st[s] EXCEPT !.owed = FALSE]]]
    BY DEF SendTCPPacket
  <2> HIDE DEF b
  <2> QED
    BY <1>1, <2>1, <2>2 DEF Touch, SenderRec
<1> HIDE DEF t
<1>4. Linked(q) /\ Only(q, r, s) /\ q.st[s] = t
  BY <1>2, <1>3, Touched
<1> QED
  BY <1>4 DEF t

-----------------------------------------------------------------------------
(* What the operators do to a stream.                                      *)

\* What u and t may send is the same.
Alike(u, t) ==
    /\ u.state = t.state /\ u.unsent = t.unsent /\ u.flight = t.flight
    /\ u.peer_wnd = t.peer_wnd /\ u.on_send = t.on_send

\* A control packet of t makes it u: a FIN only if t is not on the send list.
Kin(u, t) ==
    \/ u = Freed /\ t.state = "CLOSED_RSVD"
    \/ /\ Alike(u, t)
       /\ u.out = "FIN" =>
            t.out = "FIN" \/ (t.state \in {"FIN_WAIT_1", "LAST_ACK"} /\ ~t.on_send)

MarkOut(r, s, out) == [r EXCEPT !.st[s].out = out]

LEMMA OutMarked ==
    ASSUME NEW r, Linked(r), NEW s \in Stream, NEW out \in {"SYN", "FIN"},
           NEW q, q = MarkOut(r, s, out)
    PROVE  /\ Linked(q) /\ Only(q, r, s)
           /\ Alike(q.st[s], r.st[s]) /\ q.st[s].out = out
<1> DEFINE t == [r.st[s] EXCEPT !.out = out]
<1>1. r \in SenderRec /\ r.st[s] \in Tcb
  BY Unlisted
<1>2. /\ t \in Tcb /\ t.on_control = r.st[s].on_control
      /\ t.on_send = r.st[s].on_send /\ t.on_ack = r.st[s].on_ack
  BY <1>1 DEF Tcb
<1>3. q = Touch(r, s, t, r.room) /\ r.room \in Int
  BY <1>1 DEF Touch, SenderRec, MarkOut
<1> HIDE DEF t
<1>4. Linked(q) /\ Only(q, r, s) /\ q.st[s] = t
  BY <1>2, <1>3, Touched
<1> QED
  BY <1>1, <1>4 DEF t, Alike, Tcb

LEMMA ControlSent ==
    ASSUME NEW r, Linked(r), NEW s \in Stream, ~ControlMustWait(r, s),
           NEW q, q = SendControlPacket(r, s)
    PROVE  Linked(q) /\ Only(q, r, s) /\ Kin(q.st[s], r.st[s])
<1> DEFINE sent == SendTCPPacket(r, s)
<1>1. r \in SenderRec /\ r.st[s] \in Tcb
  BY Unlisted
<1>2. Linked(sent) /\ Only(sent, r, s) /\ sent.st[s] = [r.st[s] EXCEPT !.owed = FALSE]
  BY PacketSent
<1>3. sent \in SenderRec /\ sent.st[s] \in Tcb
  BY <1>2, Unlisted
<1> HIDE DEF sent
<1>4. ASSUME NEW out \in {"SYN", "FIN"}, q = MarkOut(sent, s, out),
             out = "FIN" => r.st[s].state \in {"FIN_WAIT_1", "LAST_ACK"}
      PROVE  Linked(q) /\ Only(q, r, s) /\ Kin(q.st[s], r.st[s])
  <2>1. Linked(q) /\ Only(q, sent, s) /\ Alike(q.st[s], sent.st[s]) /\ q.st[s].out = out
    BY <1>2, <1>4, OutMarked
  <2>2. q \in SenderRec
    BY <2>1, Unlisted
  <2>3. Only(q, r, s)
    BY <1>1, <1>2, <1>3, <2>1, <2>2, OnlyTwice
  <2>4. Kin(q.st[s], r.st[s])
    BY <1>1, <1>2, <1>3, <1>4, <2>1 DEF Kin, Alike, Tcb, ControlMustWait
  <2> QED
    BY <2>1, <2>3, <2>4
<1>5. CASE r.st[s].state = "SYN_SENT"
  <2>1. q = MarkOut(sent, s, "SYN")
    BY <1>5 DEF SendControlPacket, sent, MarkOut
  <2> QED
    BY <1>4, <2>1
<1>6. CASE r.st[s].state \in {"FIN_WAIT_1", "LAST_ACK"}
  <2>1. q = MarkOut(sent, s, "FIN")
    BY <1>6 DEF SendControlPacket, sent, MarkOut
  <2> QED
    BY <1>4, <1>6, <2>1
<1>7. CASE r.st[s].state = "CLOSED_RSVD"
  <2>1. q = DestroyTCPStream(sent, s)
    BY <1>7 DEF SendControlPacket, sent, MarkOut
  <2>2. Linked(q) /\ Only(q, sent, s) /\ q.st[s] = Freed
    BY <1>2, <2>1, Destroyed
  <2>3. q \in SenderRec
    BY <2>2, Unlisted
  <2>4. Only(q, r, s)
    BY <1>1, <1>2, <1>3, <2>2, <2>3, OnlyTwice
  <2> QED
    BY <1>7, <2>2, <2>4 DEF Kin
<1>8. CASE r.st[s].state \notin {"SYN_SENT", "FIN_WAIT_1", "LAST_ACK", "CLOSED_RSVD"}
  <2>1. q = sent
    BY <1>8 DEF SendControlPacket, sent, MarkOut
  <2>2. Kin(sent.st[s], r.st[s])
    BY <1>1, <1>2 DEF Kin, Alike, Tcb
  <2> QED
    BY <1>2, <2>1, <2>2
<1> QED
  BY <1>5, <1>6, <1>7, <1>8

LEMMA KinKeeps ==
    ASSUME NEW t \in Tcb, NEW u \in Tcb, NEW v \in Tcb, Kin(u, t),
           v = [u EXCEPT !.on_control = FALSE]
    PROVE  Kin(v, t)
<1>1. CASE u = Freed
  <2>1. v = u
    BY <1>1, FreedIs DEF Tcb
  <2> QED
    BY <2>1
<1>2. CASE u # Freed
  BY <1>2 DEF Kin, Alike, Tcb
<1> QED
  BY <1>1, <1>2

LEMMA RefusedControl ==
    ASSUME NEW r, Linked(r), NEW s \in Stream, NEW q, q = ControlRefused(r, s)
    PROVE  Linked(q) /\ Only(q, r, s) /\ q.st[s] = r.st[s]
<1>1. CASE ControlMustWait(r, s)
  BY <1>1, OnlySame, Unlisted DEF ControlRefused
<1>2. CASE ~ControlMustWait(r, s)
  BY <1>2, RefusedOK DEF ControlRefused
<1> QED
  BY <1>1, <1>2

LEMMA ControlAdded ==
    ASSUME NEW r, Linked(r), NEW s \in Stream, NEW q, q = AddtoControlList(r, s)
    PROVE  Linked(q) /\ Only(q, r, s) /\ Kin(q.st[s], r.st[s])
<1>0. r \in SenderRec /\ r.st[s] \in Tcb
  BY Unlisted
<1>1. CASE ControlSendable(r, s)
  <2> DEFINE p == SendControlPacket(r, s)
  <2>1. Linked(p) /\ Only(p, r, s) /\ Kin(p.st[s], r.st[s])
    BY <1>1, ControlSent DEF ControlSendable
  <2>2. q = RemoveFromControlList(p, s)
    BY <1>1 DEF AddtoControlList
  <2> HIDE DEF p
  <2>3. Linked(q) /\ Only(q, p, s) /\ q.st[s] = [p.st[s] EXCEPT !.on_control = FALSE]
    BY <2>1, <2>2, ControlUnlisted
  <2>4. q \in SenderRec /\ p \in SenderRec /\ q.st[s] \in Tcb /\ p.st[s] \in Tcb
    BY <2>1, <2>3, Unlisted
  <2>5. Kin(q.st[s], r.st[s])
    BY <1>0, <2>1, <2>3, <2>4, KinKeeps
  <2> QED
    BY <1>0, <2>1, <2>3, <2>4, <2>5, OnlyTwice
<1>2. CASE ~ControlSendable(r, s)
  <2> DEFINE p == ControlRefused(r, s)
  <2>1. Linked(p) /\ Only(p, r, s) /\ p.st[s] = r.st[s]
    BY RefusedControl
  <2>2. q = IF r.st[s].on_control THEN p
            ELSE [p EXCEPT !.st[s].on_control = TRUE, !.control_list = Append(@, s)]
    BY <1>2 DEF AddtoControlList
  <2> HIDE DEF p
  <2>3. p \in SenderRec
    BY <2>1, Unlisted
  <2>4. CASE r.st[s].on_control
    BY <1>0, <2>1, <2>2, <2>4 DEF Kin, Alike
  <2>5. CASE ~r.st[s].on_control
    <3> DEFINE t == [p.st[s] EXCEPT !.on_control = TRUE]
               l == Append(p.control_list, s)
    <3>1. /\ t \in Tcb /\ t.on_control = TRUE /\ t.on_send = p.st[s].on_send
          /\ t.on_ack = p.st[s].on_ack
      BY <1>0, <2>1 DEF Tcb
    <3>2. s \notin OnControl(p)
      BY <2>1, <2>5 DEF OnControl
    <3>3. l \in Seq(Stream) /\ OnList(l, With(OnControl(p), s, TRUE))
      BY <2>1, <2>3, <3>2, AppendOn DEF Linked, SenderRec, With
    <3>4. q = Listed(p, s, t, l, p.send_list, p.ack_list)
      BY <2>2, <2>3, <2>5 DEF Listed, SenderRec
    <3>5. Kin(t, r.st[s])
      BY <1>0, <2>1 DEF Kin, Alike, Tcb
    <3> HIDE DEF t, l
    <3>6. /\ l \in Seq(Stream) /\ p.send_list \in Seq(Stream) /\ p.ack_list \in Seq(Stream)
          /\ OnList(l, With(OnControl(p), s, t.on_control))
          /\ OnList(p.send_list, With(OnSend(p), s, t.on_send))
          /\ OnList(p.ack_list, With(OnAck(p), s, t.on_ack))
      BY <2>1, <3>1, <3>3, Unlisted
    <3>7. Linked(q) /\ Only(q, p, s) /\ q.st[s] = t
      BY <2>1, <3>1, <3>4, <3>6, Relinked
    <3>8. Only(q, r, s)
      BY <1>0, <2>1, <2>3, <3>7, OnlyTwice, Unlisted
    <3> QED
      BY <3>5, <3>7, <3>8
  <2> QED
    BY <2>4, <2>5
<1> QED
  BY <1>1, <1>2

\* One stream of WriteTCPControlList.
LEMMA ControlStepped ==
    ASSUME NEW r, Linked(r), NEW s \in Stream, NEW q, q = ControlStep(r, s).m
    PROVE  Linked(q) /\ Only(q, r, s) /\ Kin(q.st[s], r.st[s])
<1> DEFINE k == RemoveFromControlList(r, s)
<1>0. r \in SenderRec /\ r.st[s] \in Tcb
  BY Unlisted
<1>1. Linked(k) /\ Only(k, r, s) /\ k.st[s] = [r.st[s] EXCEPT !.on_control = FALSE]
  BY ControlUnlisted
<1>2. q = IF ControlSendable(k, s) THEN SendControlPacket(k, s)
          ELSE [ControlRefused(k, s) EXCEPT
                    !.st[s].on_control = TRUE, !.control_list = <<s>> \o @]
  BY DEF ControlStep
<1> HIDE DEF k
<1>3. k \in SenderRec /\ k.st[s] \in Tcb
  BY <1>1, Unlisted
<1>4. CASE ControlSendable(k, s)
  <2>1. Linked(q) /\ Only(q, k, s) /\ Kin(q.st[s], k.st[s])
    BY <1>1, <1>2, <1>4, ControlSent DEF ControlSendable
  <2>2. Kin(q.st[s], r.st[s])
    BY <1>0, <1>1, <2>1 DEF Kin, Alike, Tcb
  <2>3. Only(q, r, s)
    BY <1>0, <1>1, <1>3, <2>1, OnlyTwice, Unlisted
  <2> QED
    BY <2>1, <2>2, <2>3
<1>5. CASE ~ControlSendable(k, s)
  <2> DEFINE p == ControlRefused(k, s)
  <2>1. Linked(p) /\ Only(p, k, s) /\ p.st[s] = k.st[s]
    BY <1>1, RefusedControl
  <2>2. q = [p EXCEPT !.st[s].on_control = TRUE, !.control_list = <<s>> \o @]
    BY <1>2, <1>5
  <2> HIDE DEF p
  <2>3. p \in SenderRec /\ p.st[s] \in Tcb /\ p.st[s].on_control = FALSE
    BY <1>0, <1>1, <2>1, Unlisted DEF Tcb
  <2> DEFINE t == [p.st[s] EXCEPT !.on_control = TRUE]
             l == <<s>> \o p.control_list
  <2>4. /\ t \in Tcb /\ t.on_control = TRUE /\ t.on_send = p.st[s].on_send
        /\ t.on_ack = p.st[s].on_ack
    BY <2>3 DEF Tcb
  <2>5. s \notin OnControl(p)
    BY <2>3 DEF OnControl
  <2>6. l \in Seq(Stream) /\ OnList(l, With(OnControl(p), s, TRUE))
    BY <2>1, <2>3, <2>5, PushOn DEF Linked, SenderRec, With
  <2>7. q = Listed(p, s, t, l, p.send_list, p.ack_list)
    BY <2>2, <2>3 DEF Listed, SenderRec
  <2>8. Kin(t, r.st[s])
    BY <1>0, <1>1, <2>1 DEF Kin, Alike, Tcb
  <2> HIDE DEF t, l
  <2>9. /\ l \in Seq(Stream) /\ p.send_list \in Seq(Stream) /\ p.ack_list \in Seq(Stream)
        /\ OnList(l, With(OnControl(p), s, t.on_control))
        /\ OnList(p.send_list, With(OnSend(p), s, t.on_send))
        /\ OnList(p.ack_list, With(OnAck(p), s, t.on_ack))
    BY <2>1, <2>4, <2>6, Unlisted
  <2>10. Linked(q) /\ Only(q, p, s) /\ q.st[s] = t
    BY <2>1, <2>4, <2>7, <2>9, Relinked
  <2>11. Only(q, k, s)
    BY <1>3, <2>1, <2>3, <2>10, OnlyTwice, Unlisted
  <2>12. Only(q, r, s)
    BY <1>0, <1>1, <1>3, <2>10, <2>11, OnlyTwice, Unlisted
  <2> QED
    BY <2>8, <2>10, <2>12
<1> QED
  BY <1>4, <1>5

LEMMA Released ==
    ASSUME NEW r, Linked(r), NEW s \in Stream, NEW other \in BOOLEAN,
           NEW q, q = ReleaseControl(r, s, other)
    PROVE  Linked(q) /\ Only(q, r, s) /\ Kin(q.st[s], r.st[s])
<1>0. r \in SenderRec /\ r.st[s] \in Tcb
  BY Unlisted
<1>1. CASE r.st[s].control_list_waiting /\ ~other
  <2> DEFINE t == [r.st[s] EXCEPT !.control_list_waiting = FALSE]
             p == [r EXCEPT !.st[s].control_list_waiting = FALSE]
  <2>1. /\ t \in Tcb /\ t.on_control = r.st[s].on_control
        /\ t.on_send = r.st[s].on_send /\ t.on_ack = r.st[s].on_ack
    BY <1>0 DEF Tcb
  <2>2. p = Touch(r, s, t, r.room) /\ r.room \in Int
    BY <1>0 DEF Touch, SenderRec
  <2>3. q = AddtoControlList(p, s)
    BY <1>1 DEF ReleaseControl
  <2> HIDE DEF p, t
  <2>4. Linked(p) /\ Only(p, r, s) /\ p.st[s] = t
    BY ONLY Linked(r), s \in Stream, <2>1, <2>2, Touched
  <2>5. Linked(q) /\ Only(q, p, s) /\ Kin(q.st[s], p.st[s])
    BY <2>3, <2>4, ControlAdded
  <2>6. Kin(q.st[s], r.st[s])
    BY <1>0, <2>4, <2>5 DEF Kin, Alike, Tcb, t
  <2>7. Only(q, r, s)
    BY <1>0, <2>4, <2>5, OnlyTwice, Unlisted
  <2> QED
    BY <2>5, <2>6, <2>7
<1>2. CASE ~(r.st[s].control_list_waiting /\ ~other)
  <2>1. q = r
    BY <1>2 DEF ReleaseControl
  <2> QED
    BY <1>0, <2>1, OnlySame DEF Kin, Alike
<1> QED
  BY <1>1, <1>2

\* In these states the stream sends data.
DataStates == {"ESTABLISHED", "CLOSE_WAIT", "FIN_WAIT_1", "LAST_ACK"}

\* No peer advertises less than two segments.
WindowsOpen == \A w \in Windows : w > 1

\* Data that is not sent is on the send list, and a FIN was sent after it.
Queued(t) ==
    /\ t.unsent > 0 => t.on_send /\ t.state \in DataStates
    /\ t.flight > 0 => t.state \in DataStates \cup {"CLOSED_RSVD"}
    /\ t.out = "FIN" => t.unsent = 0 /\ t.state \in {"FIN_WAIT_1", "LAST_ACK"}
    /\ t.state \in DataStates => t.peer_wnd \in Windows

Sound(t) ==
    /\ t.state = "FREED" => t = Freed
    /\ WindowsOpen => Queued(t)

LEMMA FreedSound == Sound(Freed)
BY FreedIs DEF Sound, Queued, DataStates

LEMMA KinSound ==
    ASSUME NEW t \in Tcb, NEW u \in Tcb, Sound(t), t.state # "FREED", Kin(u, t)
    PROVE  Sound(u) /\ (u.state # t.state => u.state = "FREED")
<1>1. CASE u = Freed
  BY <1>1, FreedSound, FreedIs
<1>2. CASE u # Freed
  <2>1. Queued(t) => Queued(u)
    BY <1>2 DEF Kin, Alike, Queued, Tcb, DataStates
  <2> QED
    BY <1>2, <2>1 DEF Sound, Kin, Alike
<1> QED
  BY <1>1, <1>2

\* What the stream has sent and has to send is the same.
Untold(u, t) == Alike(u, t) /\ u.out = t.out

LEMMA UntoldSound ==
    ASSUME NEW t \in Tcb, NEW u \in Tcb, Sound(t), t.state # "FREED", Untold(u, t)
    PROVE  Sound(u) /\ u.state = t.state
BY DEF Sound, Untold, Alike, Queued, DataStates, Tcb

\* A stream with a flag was not destroyed.
LEMMA FlagsAlive ==
    ASSUME NEW t \in Tcb, Sound(t), t.on_control \/ t.on_send \/ t.on_ack
    PROVE  t.state # "FREED"
BY FreedIs DEF Sound

LEMMA UntoldTwice ==
    ASSUME NEW t, NEW u, NEW v, Untold(u, t), Untold(v, u)
    PROVE  Untold(v, t)
BY DEF Untold, Alike

LEMMA Enqueued ==
    ASSUME NEW r, Linked(r), NEW s \in Stream, NEW opt, NEW q, q = EnqueueACK(r, s, opt)
    PROVE  Linked(q) /\ Only(q, r, s) /\ Untold(q.st[s], r.st[s])
<1> DEFINE c == r.st[s].ack_cnt
           cnt == CASE opt = "now" -> (c + 1) % 64
                    [] opt = "agg" /\ c = 0 -> 1
                    [] OTHER -> c
           wack == r.st[s].is_wack \/ opt = "wack"
           t == [r.st[s] EXCEPT !.ack_cnt = cnt, !.is_wack = wack]
           p == [r EXCEPT !.st[s].ack_cnt = cnt, !.st[s].is_wack = wack]
<1>0. r \in SenderRec /\ r.st[s] \in Tcb
  BY Unlisted
<1>1. cnt \in Int /\ wack \in BOOLEAN
  <2>1. c \in Int /\ (c + 1) % 64 \in Int
    BY <1>0 DEF Tcb
  <2> QED
    BY <2>1
<1>2. q = AddtoACKList(p, s)
  BY DEF EnqueueACK
<1> HIDE DEF cnt, wack
<1>3. /\ t \in Tcb /\ t.on_control = r.st[s].on_control
      /\ t.on_send = r.st[s].on_send /\ t.on_ack = r.st[s].on_ack
  BY <1>0, <1>1 DEF Tcb
<1>4. Untold(t, r.st[s])
  BY <1>0, <1>1 DEF Untold, Alike, Tcb
<1>5. p = Touch(r, s, t, r.room) /\ r.room \in Int
  BY <1>0 DEF Touch, SenderRec
<1> HIDE DEF p, t
<1>6. Linked(p) /\ Only(p, r, s) /\ p.st[s] = t
  BY ONLY Linked(r), s \in Stream, <1>3, <1>5, Touched
<1>7. Linked(q) /\ Only(q, p, s) /\ q.st[s] = [t EXCEPT !.on_ack = TRUE]
  BY <1>2, <1>6, AckListed
<1>8. Untold(q.st[s], t)
  BY <1>3, <1>7 DEF Untold, Alike, Tcb
<1> QED
  BY <1>0, <1>4, <1>6, <1>7, <1>8, UntoldTwice, OnlyTwice, Unlisted

LEMMA MinOfTwo ==
    ASSUME NEW a \in Int, NEW b \in Int
    PROVE  Min({a, b}) \in {a, b}
<1>1. \E x \in {a, b} : \A y \in {a, b} : x <= y
  <2>1. CASE a <= b
    BY <2>1
  <2>2. CASE ~(a <= b)
    BY <2>2
  <2> QED
    BY <2>1, <2>2
<1> QED
  BY <1>1 DEF Min

LEMMA MaxOfTwo ==
    ASSUME NEW a \in Int, NEW b \in Int
    PROVE  Max({a, b}) \in {a, b}
<1>1. \E x \in {a, b} : \A y \in {a, b} : x >= y
  <2>1. CASE a >= b
    BY <2>1
  <2>2. CASE ~(a >= b)
    BY <2>2
  <2> QED
    BY <2>1, <2>2
<1> QED
  BY <1>1 DEF Max

LEMMA AcksSent ==
    ASSUME NEW r, Linked(r), NEW s \in Stream, NEW q, q = AckSent(r, s)
    PROVE  Linked(q) /\ Only(q, r, s) /\ Untold(q.st[s], r.st[s])
<1> DEFINE c == r.st[s].ack_cnt
           k == IF Resolved(r, Dest[s]) THEN Min({c, r.room}) ELSE 0
           owed == r.st[s].owed /\ k = 0
           left == c - k
           t == [r.st[s] EXCEPT !.ack_cnt = left, !.owed = owed]
           acked == [r EXCEPT !.room = @ - k, !.st[s].ack_cnt = @ - k,
                              !.st[s].owed = @ /\ k = 0]
           tried == IF k < c THEN Refused(acked, s) ELSE acked
<1>0. r \in SenderRec /\ r.st[s] \in Tcb /\ r.room \in Int
  BY Unlisted DEF SenderRec
<1>1. k \in Int /\ c \in Int /\ owed \in BOOLEAN /\ left \in Int
  <2>1. c \in Int
    BY <1>0 DEF Tcb
  <2>2. k \in Int
    BY <1>0, <2>1, MinOfTwo
  <2> HIDE DEF k
  <2> QED
    BY <2>1, <2>2
<1>2. q = CASE ~r.st[s].is_wack -> tried
            [] r.st[s].is_wack /\ Sendable(tried, s) ->
                  [SendTCPPacket(tried, s) EXCEPT !.st[s].is_wack = FALSE]
            [] OTHER -> Refused(tried, s)
  BY DEF AckSent
<1> HIDE DEF k
<1>2a. acked = [r EXCEPT !.st = [r.st EXCEPT ![s] = t], !.room = r.room - k]
  BY ZenonT(60), <1>0 DEF SenderRec, Tcb
<1> HIDE DEF owed, left
<1>3. /\ t \in Tcb /\ t.on_control = r.st[s].on_control
      /\ t.on_send = r.st[s].on_send /\ t.on_ack = r.st[s].on_ack
  BY <1>0, <1>1 DEF Tcb
<1>4. Untold(t, r.st[s])
  BY <1>0, <1>1 DEF Untold, Alike, Tcb
<1> HIDE DEF acked, t, c
<1>5. acked = Touch(r, s, t, r.room - k) /\ r.room - k \in Int
  BY <1>0, <1>1, <1>2a DEF Touch
<1>6. Linked(acked) /\ Only(acked, r, s) /\ acked.st[s] = t
  BY ONLY Linked(r), s \in Stream, <1>3, <1>5, Touched
<1>7. acked \in SenderRec
  BY <1>6, Unlisted
<1>8. Linked(tried) /\ Only(tried, acked, s) /\ tried.st[s] = t
  <2>1. CASE k < c
    BY <1>6, <2>1, RefusedOK
  <2>2. CASE ~(k < c)
    BY <1>6, <1>7, <2>2, OnlySame
  <2> QED
    BY <2>1, <2>2
<1> HIDE DEF tried
<1>9. tried \in SenderRec
  BY <1>8, Unlisted
<1>10. Only(tried, r, s)
  BY <1>0, <1>6, <1>7, <1>8, <1>9, OnlyTwice
<1>11. CASE ~r.st[s].is_wack
  BY <1>2, <1>4, <1>8, <1>10, <1>11
<1>12. CASE r.st[s].is_wack /\ Sendable(tried, s)
  <2> DEFINE p == SendTCPPacket(tried, s)
             u == [p.st[s] EXCEPT !.is_wack = FALSE]
  <2>1. Linked(p) /\ Only(p, tried, s) /\ p.st[s] = [tried.st[s] EXCEPT !.owed = FALSE]
    BY <1>8, PacketSent
  <2>2. q = [p EXCEPT !.st[s].is_wack = FALSE]
    BY <1>2, <1>12
  <2> HIDE DEF p
  <2>3. Linked(p) /\ p \in SenderRec /\ p.st[s] \in Tcb
    BY <2>1, Unlisted
  <2>4. /\ u \in Tcb /\ u.on_control = p.st[s].on_control
        /\ u.on_send = p.st[s].on_send /\ u.on_ack = p.st[s].on_ack
    BY <2>3 DEF Tcb
  <2>5. Untold(u, t)
    BY <1>3, <1>8, <2>1 DEF Untold, Alike, Tcb
  <2>6. q = Touch(p, s, u, p.room) /\ p.room \in Int
    BY <2>2, <2>3 DEF Touch, SenderRec
  <2> HIDE DEF u
  <2>7. Linked(q) /\ Only(q, p, s) /\ q.st[s] = u
    BY ONLY <2>3, <2>4, <2>6, s \in Stream, Touched
  <2>8. Only(q, r, s)
    BY <1>0, <1>9, <1>10, <2>1, <2>3, <2>7, OnlyTwice, Unlisted
  <2> QED
    BY <1>4, <2>5, <2>7, <2>8, UntoldTwice
<1>13. CASE r.st[s].is_wack /\ ~Sendable(tried, s)
  <2>1. q = Refused(tried, s)
    BY <1>2, <1>13
  <2>2. Linked(q) /\ Only(q, tried, s) /\ q.st[s] = t
    BY <1>8, <2>1, RefusedOK
  <2>3. Only(q, r, s)
    BY <1>0, <1>9, <1>10, <2>2, OnlyTwice, Unlisted
  <2> QED
    BY <1>4, <2>2, <2>3
<1> QED
  BY <1>11, <1>12, <1>13

LEMMA AckCleared ==
    ASSUME NEW x \in Tcb, NEW t, t = [x EXCEPT !.ack_cnt = 0, !.is_wack = FALSE]
    PROVE  /\ t \in Tcb /\ Untold(t, x) /\ t.on_control = x.on_control
           /\ t.on_send = x.on_send /\ t.on_ack = x.on_ack
<1> DEFINE none == 0  no == FALSE
<1>1. none \in Int /\ no \in BOOLEAN /\ t = [x EXCEPT !.ack_cnt = none, !.is_wack = no]
  OBVIOUS
<1> HIDE DEF none, no
<1>2. /\ t \in Tcb /\ t.on_control = x.on_control
      /\ t.on_send = x.on_send /\ t.on_ack = x.on_ack
  BY ONLY x \in Tcb, <1>1 DEF Tcb
<1>3. Untold(t, x)
  BY ONLY x \in Tcb, <1>1 DEF Tcb, Untold, Alike
<1> QED
  BY <1>2, <1>3

\* One stream of WriteTCPACKList.
LEMMA AckStepped ==
    ASSUME NEW r, Linked(r), NEW s \in Stream, Sound(r.st[s]), r.st[s].state # "FREED",
           NEW q, q = AckStep(r, s)
    PROVE  Linked(q) /\ Only(q, r, s) /\ Kin(q.st[s], r.st[s])
<1> DEFINE acks == r.st[s].state \in {"ESTABLISHED", "CLOSE_WAIT", "FIN_WAIT_1", "FIN_WAIT_2"}
           sent == AckSent(r, s)
           off == RemoveFromACKList(r, s)
           cleared == [off EXCEPT !.st[s].ack_cnt = 0, !.st[s].is_wack = FALSE]
           done == CASE ~acks -> cleared
                     [] acks /\ (sent.st[s].ack_cnt > 0 \/ sent.st[s].is_wack) -> sent
                     [] OTHER -> RemoveFromACKList(sent, s)
<1>0. r \in SenderRec /\ r.st[s] \in Tcb
  BY Unlisted
<1>1. q = ReleaseControl(done, s, done.st[s].on_send)
  BY DEF AckStep
<1>2. Linked(sent) /\ Only(sent, r, s) /\ Untold(sent.st[s], r.st[s])
  BY AcksSent
<1>3. Linked(off) /\ Only(off, r, s) /\ off.st[s] = [r.st[s] EXCEPT !.on_ack = FALSE]
  BY AckUnlisted
<1> HIDE DEF sent, off
<1>4. sent \in SenderRec /\ sent.st[s] \in Tcb /\ off \in SenderRec /\ off.st[s] \in Tcb
      /\ Linked(off)
  BY <1>2, <1>3, Unlisted
<1>5. Linked(done) /\ Only(done, r, s) /\ Untold(done.st[s], r.st[s])
  <2>1. CASE ~acks
    <3> DEFINE t == [off.st[s] EXCEPT !.ack_cnt = 0, !.is_wack = FALSE]
    <3>1. /\ t \in Tcb /\ t.on_control = off.st[s].on_control
          /\ t.on_send = off.st[s].on_send /\ t.on_ack = off.st[s].on_ack
      BY <1>4, AckCleared
    <3>2. Untold(t, r.st[s])
      <4>1. Untold(t, off.st[s])
        BY <1>4, AckCleared
      <4>2. Untold(off.st[s], r.st[s])
        BY <1>0, <1>3 DEF Untold, Alike, Tcb
      <4> HIDE DEF t
      <4> QED
        BY <4>1, <4>2, UntoldTwice
    <3>3. done = Touch(off, s, t, off.room) /\ off.room \in Int
      BY <1>4, <2>1 DEF Touch, SenderRec
    <3> HIDE DEF t, done
    <3>4. Linked(done) /\ Only(done, off, s) /\ done.st[s] = t
      BY ONLY <1>4, <3>1, <3>3, s \in Stream, Touched
    <3> QED
      BY <1>0, <1>3, <1>4, <3>2, <3>4, OnlyTwice, Unlisted
  <2>2. CASE acks /\ (sent.st[s].ack_cnt > 0 \/ sent.st[s].is_wack)
    BY <1>2, <2>2
  <2>3. CASE acks /\ ~(sent.st[s].ack_cnt > 0 \/ sent.st[s].is_wack)
    <3>1. done = RemoveFromACKList(sent, s)
      BY <2>3
    <3> HIDE DEF done
    <3>2. Linked(done) /\ Only(done, sent, s) /\ done.st[s] = [sent.st[s] EXCEPT !.on_ack = FALSE]
      BY <1>2, <3>1, AckUnlisted
    <3>3. Untold(done.st[s], sent.st[s])
      BY <1>4, <3>2 DEF Untold, Alike, Tcb
    <3> QED
      BY <1>0, <1>2, <1>4, <3>2, <3>3, OnlyTwice, UntoldTwice, Unlisted
  <2> QED
    BY <2>1, <2>2, <2>3
<1> HIDE DEF done
<1>6. done \in SenderRec /\ done.st[s] \in Tcb /\ done.st[s].on_send \in BOOLEAN
  BY <1>5, Unlisted DEF Tcb
<1>7. Linked(q) /\ Only(q, done, s) /\ Kin(q.st[s], done.st[s])
  BY <1>1, <1>5, <1>6, Released
<1>8. Kin(q.st[s], r.st[s])
  BY <1>5, <1>7 DEF Kin, Untold, Alike
<1> QED
  BY <1>0, <1>5, <1>6, <1>7, <1>8, OnlyTwice, Unlisted

-----------------------------------------------------------------------------
(* FlushTCPSendingBuffer.                                                  *)

\* Induction: what is not so for all numbers is first not so for one.
LEMMA Least ==
    ASSUME NEW T, T \subseteq Nat, T # {}
    PROVE  \E n \in T : \A k \in T : n <= k
<1>1. PICK n \in T : \A k \in T : ~(<<k, n>> \in OpToRel(<, Nat))
  BY NatLessThanWellFounded, WFMin, Zenon
<1>2. \A k \in T : ~(k < n)
  BY <1>1, Zenon DEF OpToRel
<1> QED
  BY <1>2

LEMMA FlushedIs ==
    ASSUME NEW r, NEW s, r.st[s].unsent \in Nat
    PROVE  /\ Flushed(r, s) \in 0 .. r.st[s].unsent
           /\ \A k \in 0 .. Flushed(r, s) - 1 : FlushPasses(r, s, k)
<1> DEFINE u == r.st[s].unsent
           S == {n \in 0 .. u : \A k \in 0 .. n - 1 : FlushPasses(r, s, k)}
           T == {u - n : n \in S}
<1>1. S \subseteq 0 .. u /\ 0 \in S
  OBVIOUS
<1>2. T \subseteq Nat /\ T # {}
  <2> HIDE DEF S
  <2>1. u - 0 \in T /\ \A n \in S : u - n \in Nat
    BY <1>1
  <2> QED
    BY <2>1
<1>3. PICK l \in T : \A k \in T : l <= k
  <2> HIDE DEF T
  <2> QED
    BY <1>2, Least
<1>4. PICK n \in S : l = u - n
  BY <1>3
<1>5. \A k \in S : k <= n
  <2> HIDE DEF S
  <2> TAKE k \in S
  <2>1. u - k \in T /\ n \in Int /\ k \in Int
    BY <1>1, <1>4
  <2>2. u - n <= u - k
    <3> HIDE DEF T
    <3> QED
      BY <1>3, <1>4, <2>1
  <2> QED
    BY <2>1, <2>2
<1>6. Max(S) \in S
  <2> HIDE DEF S
  <2> QED
    BY <1>4, <1>5 DEF Max
<1>7. Flushed(r, s) = Max(S)
  BY DEF Flushed
<1> QED
  BY <1>6, <1>7

\* The loop does not end at the window: a second segment is compared with all
\* that is in flight.
LEMMA FlushTakesAll ==
    ASSUME NEW r, NEW s, r.st[s] \in Tcb, r.st[s].peer_wnd > 1, FlushEnds(r, s)
    PROVE  Flushed(r, s) = r.st[s].unsent
<1> DEFINE n == Flushed(r, s)  w == r.st[s].peer_wnd  f == r.st[s].flight
<1>1. r.st[s].unsent \in Nat /\ w \in Nat /\ f \in Nat
  BY DEF Tcb
<1>2. n \in 0 .. r.st[s].unsent /\ \A k \in 0 .. n - 1 : FlushPasses(r, s, k)
  BY <1>1, FlushedIs
<1>3. ~(n >= w)
  <2> SUFFICES ASSUME n >= w PROVE FALSE
    OBVIOUS
  <2>1. w - 1 \in 0 .. n - 1
    BY <1>1, <1>2
  <2> HIDE DEF n
  <2>2. FlushPasses(r, s, w - 1)
    BY <1>2, <2>1
  <2>3. f + (w - 1) + 1 <= w - (w - 1)
    BY <2>2 DEF FlushPasses
  <2> QED
    BY <1>1, <2>3
<1> QED
  BY <1>3 DEF FlushEnds

\* n segments of t were sent.
Moved(u, t, n) ==
    /\ u.state = t.state /\ u.unsent = t.unsent - n /\ u.flight = t.flight + n
    /\ u.peer_wnd = t.peer_wnd /\ u.on_send = t.on_send /\ u.out = t.out

AfterFlush(t, n) ==
    [t EXCEPT !.unsent = t.unsent - n, !.flight = t.flight + n,
              !.owed = t.owed /\ n = 0]

FlushBy(r, s, n) ==
    [r EXCEPT !.st[s] = [r.st[s] EXCEPT !.unsent = @ - n, !.flight = @ + n,
                                        !.owed = @ /\ n = 0],
              !.room = @ - n]

LEMMA FlushTouches ==
    ASSUME NEW r \in SenderRec, NEW s \in Stream, NEW n
    PROVE  FlushBy(r, s, n) = Touch(r, s, AfterFlush(r.st[s], n), r.room - n)
<1> DEFINE t == AfterFlush(r.st[s], n)
           room == r.room - n
<1>1. FlushBy(r, s, n) = [r EXCEPT !.st[s] = t, !.room = room]
  BY DEF FlushBy, AfterFlush
<1> HIDE DEF t, room
<1>2. [r EXCEPT !.st[s] = t, !.room = room] = Touch(r, s, t, room)
  BY DEF Touch, SenderRec
<1>3. FlushBy(r, s, n) = Touch(r, s, t, room)
  BY <1>1, <1>2
<1> QED
  BY <1>3 DEF t, room

LEMMA FlushedOK ==
    ASSUME NEW r, Linked(r), NEW s \in Stream, NEW q, q = FlushSent(r, s)
    PROVE  Linked(q) /\ Only(q, r, s) /\ Moved(q.st[s], r.st[s], Flushed(r, s))
<1> DEFINE n == Flushed(r, s)
           unsent == r.st[s].unsent - n
           flight == r.st[s].flight + n
           owed == r.st[s].owed /\ n = 0
           room == r.room - n
           t == [r.st[s] EXCEPT !.unsent = unsent, !.flight = flight, !.owed = owed]
<1>0. r \in SenderRec /\ r.st[s] \in Tcb /\ r.room \in Int
  BY Unlisted DEF SenderRec
<1>1. n \in Nat /\ unsent \in Nat /\ flight \in Nat /\ owed \in BOOLEAN /\ room \in Int
  <2>1. r.st[s].unsent \in Nat /\ r.st[s].flight \in Nat
    BY <1>0 DEF Tcb
  <2>2. n \in 0 .. r.st[s].unsent
    BY <2>1, FlushedIs
  <2> HIDE DEF n
  <2> QED
    BY <1>0, <2>1, <2>2
<1>2. q = Touch(r, s, t, room)
  <2>1. q = FlushBy(r, s, n) /\ t = AfterFlush(r.st[s], n)
    BY DEF FlushSent, FlushBy, AfterFlush
  <2> HIDE DEF n, t
  <2> QED
    BY <1>0, <2>1, FlushTouches
<1> HIDE DEF n, owed, room
<1>3. /\ t.state = r.st[s].state /\ t.unsent = unsent /\ t.flight = flight
      /\ t.peer_wnd = r.st[s].peer_wnd /\ t.out = r.st[s].out
      /\ t.on_send = r.st[s].on_send
  BY <1>0 DEF Tcb
<1>4. Moved(t, r.st[s], n)
  BY <1>3 DEF Moved
<1> HIDE DEF unsent, flight
<1>5. /\ t \in Tcb /\ t.on_control = r.st[s].on_control
      /\ t.on_send = r.st[s].on_send /\ t.on_ack = r.st[s].on_ack
  BY <1>0, <1>1 DEF Tcb
<1> HIDE DEF t
<1>6. Linked(q) /\ Only(q, r, s) /\ q.st[s] = t
  BY ONLY Linked(r), s \in Stream, <1>1, <1>2, <1>5, Touched
<1> QED
  BY <1>4, <1>6 DEF n

\* Some segments of t were sent and it is still on the send list.
LEMMA MovedSound ==
    ASSUME NEW t \in Tcb, NEW u \in Tcb, NEW n \in 0 .. t.unsent,
           Sound(t), t.state # "FREED", Moved(u, t, n),
           t.on_send
    PROVE  Sound(u)
<1>1. t.unsent \in Nat /\ t.flight \in Nat /\ n \in Nat /\ u.unsent \in Nat
  BY DEF Tcb
<1>2. Queued(t) => Queued(u)
  BY <1>1 DEF Moved, Queued, DataStates
<1> QED
  BY <1>2 DEF Sound, Moved

\* The loop took all that t had to send: it may leave the send list.
LEMMA MovedAll ==
    ASSUME NEW t \in Tcb, NEW u \in Tcb, NEW v \in Tcb, Sound(t), t.state # "FREED",
           Moved(u, t, t.unsent), v = [u EXCEPT !.on_send = FALSE]
    PROVE  Sound(v) /\ v.state = t.state
<1>1. t.unsent \in Nat /\ t.flight \in Nat /\ u.unsent \in Nat
  BY DEF Tcb
<1>2. /\ v.unsent = 0 /\ v.state = t.state /\ v.flight = t.flight + t.unsent
      /\ v.peer_wnd = t.peer_wnd /\ v.out = t.out
  BY <1>1 DEF Moved, Tcb
<1>3. Queued(t) => Queued(v)
  BY <1>1, <1>2 DEF Queued, DataStates
<1> QED
  BY <1>2, <1>3 DEF Sound

LEMMA WasPutBack ==
    ASSUME NEW r, Linked(r), NEW s \in Stream, r.st[s].on_send,
           NEW q, q = PutBack(r, s)
    PROVE  Linked(q) /\ Only(q, r, s) /\ q.st[s] = r.st[s]
<1> DEFINE off == Off(r.send_list, s)
           l == Append(off, s)
<1>1. r \in SenderRec /\ r.st[s] \in Tcb /\ r.send_list \in Seq(Stream)
  BY Unlisted
<1>2. s \in OnSend(r) /\ OnList(r.send_list, OnSend(r))
  BY DEF OnSend, Linked
<1>3. off \in Seq(Stream) /\ OnList(off, OnSend(r) \ {s})
  BY <1>1, <1>2, OffOn
<1>4. q = Listed(r, s, r.st[s], r.control_list, l, r.ack_list)
  BY <1>1 DEF PutBack, Listed, SenderRec
<1> HIDE DEF off
<1>5. s \notin OnSend(r) \ {s}
  OBVIOUS
<1>6. l \in Seq(Stream) /\ OnList(l, (OnSend(r) \ {s}) \cup {s})
  <2> DEFINE S == OnSend(r) \ {s}
  <2> HIDE DEF S
  <2>1. OnList(off, S) /\ s \notin S
    BY <1>3, <1>5 DEF S
  <2>2. l \in Seq(Stream) /\ OnList(l, S \cup {s})
    BY <1>3, <2>1, AppendOn
  <2> QED
    BY <2>2 DEF S
<1>7. (OnSend(r) \ {s}) \cup {s} = With(OnSend(r), s, r.st[s].on_send)
  BY <1>2 DEF With
<1> HIDE DEF l
<1>8. OnList(l, With(OnSend(r), s, r.st[s].on_send))
  BY <1>6, <1>7
<1> DEFINE t == r.st[s]
<1>9. /\ t \in Tcb /\ r.control_list \in Seq(Stream) /\ r.ack_list \in Seq(Stream)
      /\ OnList(r.control_list, With(OnControl(r), s, t.on_control))
      /\ OnList(l, With(OnSend(r), s, t.on_send))
      /\ OnList(r.ack_list, With(OnAck(r), s, t.on_ack))
      /\ q = Listed(r, s, t, r.control_list, l, r.ack_list)
  BY <1>1, <1>4, <1>8, Unlisted
<1> HIDE DEF t
<1>10. Linked(q) /\ Only(q, r, s) /\ q.st[s] = t
  BY <1>6, <1>9, Relinked
<1> QED
  BY <1>10 DEF t

LEMMA RefusedFlush ==
    ASSUME NEW r, Linked(r), NEW s \in Stream, NEW late, NEW q, q = FlushRefused(r, s, late)
    PROVE  /\ Linked(q) /\ Only(q, r, s)
           /\ Moved(q.st[s], r.st[s], Flushed(r, s))
<1> DEFINE sent == FlushSent(r, s)
           n == Flushed(r, s)
<1>1. Linked(sent) /\ Only(sent, r, s) /\ Moved(sent.st[s], r.st[s], n)
  BY FlushedOK
<1>2. q \in {EnqueueACK(sent, s, "wack"), sent, Refused(sent, s)}
  BY DEF FlushRefused
<1> HIDE DEF sent, n
<1>3. r \in SenderRec /\ sent \in SenderRec
  BY <1>1, Unlisted
<1>4. Linked(q) /\ Only(q, sent, s) /\ Untold(q.st[s], sent.st[s])
  <2>1. CASE q = EnqueueACK(sent, s, "wack")
    BY <1>1, <2>1, Enqueued
  <2>2. CASE q = sent
    BY <1>1, <1>3, <2>2, OnlySame DEF Untold, Alike
  <2>3. CASE q = Refused(sent, s)
    BY <1>1, <2>3, RefusedOK DEF Untold, Alike
  <2> QED
    BY <1>2, <2>1, <2>2, <2>3
<1>5. Only(q, r, s)
  BY <1>1, <1>3, <1>4, OnlyTwice, Unlisted
<1>6. Moved(q.st[s], r.st[s], n)
  BY <1>1, <1>4 DEF Moved, Untold, Alike
<1> QED
  BY <1>4, <1>5, <1>6 DEF n

\* A stream that was stepped is as it was before or was destroyed.
Steady(u, t) == u.state = t.state \/ (u = Freed /\ t.state = "CLOSED_RSVD")

LEMMA KinSteady ==
    ASSUME NEW t, NEW u, Kin(u, t)
    PROVE  Steady(u, t)
BY DEF Kin, Steady, Alike

\* One stream of WriteTCPDataList.
LEMMA DataStepped ==
    ASSUME NEW r, Linked(r), NEW s \in Stream, Sound(r.st[s]), r.st[s].on_send,
           NEW late, NEW q, q = DataStep(r, s, late).m
    PROVE  /\ Linked(q) /\ Only(q, r, s)
           /\ Sound(q.st[s]) /\ Steady(q.st[s], r.st[s])
<1> DEFINE t == r.st[s]
           n == Flushed(r, s)
           sends == t.state \in {"ESTABLISHED", "CLOSE_WAIT", "FIN_WAIT_1", "LAST_ACK"}
           held == t.state = "ESTABLISHED" /\ t.on_control
           flush == IF sends THEN FlushSent(r, s) ELSE r
           left == RemoveFromSendList(flush, s)
           cnt == Max({0, left.st[s].ack_cnt - n})
           piggy == IF sends THEN [left EXCEPT !.st[s].ack_cnt = Max({0, @ - n})] ELSE left
<1>0. r \in SenderRec /\ t \in Tcb /\ t.state # "FREED"
  BY Unlisted, FlagsAlive
<1>1. t.unsent \in Nat /\ n \in 0 .. t.unsent
  BY <1>0, FlushedIs DEF Tcb
<1>2. CASE sends /\ held
  <2>1. q = PutBack(r, s)
    BY <1>2 DEF DataStep
  <2> QED
    BY <2>1, WasPutBack DEF Steady
<1>3. CASE sends /\ ~held /\ ~FlushDone(r, s)
  <2> DEFINE p == FlushRefused(r, s, late)
  <2>1. Linked(p) /\ Only(p, r, s) /\ Moved(p.st[s], t, n)
    BY RefusedFlush
  <2>2. q = PutBack(p, s)
    BY <1>3 DEF DataStep
  <2> HIDE DEF p, n
  <2>3. p.st[s].on_send /\ p.st[s].state = t.state
    BY <2>1 DEF Moved
  <2>4. p \in SenderRec /\ p.st[s] \in Tcb
    BY <2>1, Unlisted
  <2>5. Sound(p.st[s])
    BY <1>0, <1>1, <2>1, <2>4, MovedSound
  <2>6. Linked(q) /\ Only(q, p, s) /\ q.st[s] = p.st[s]
    BY <2>1, <2>2, <2>3, WasPutBack
  <2>7. Only(q, r, s)
    BY <1>0, <2>1, <2>4, <2>6, OnlyTwice, Unlisted
  <2> QED
    BY <2>3, <2>5, <2>6, <2>7 DEF Steady
<1>4. CASE ~(sends /\ held) /\ ~(sends /\ ~held /\ ~FlushDone(r, s))
  <2>1. q = ReleaseControl(piggy, s, piggy.st[s].on_ack)
    BY <1>4 DEF DataStep
  <2>2. Linked(flush) /\ Only(flush, r, s)
    BY <1>0, FlushedOK, OnlySame
  <2>3. /\ Linked(left) /\ Only(left, flush, s)
        /\ left.st[s] = [flush.st[s] EXCEPT !.on_send = FALSE]
    BY <2>2, SendUnlisted
  <2>3a. Linked(left)
    BY <2>3
  <2>4. flush \in SenderRec /\ flush.st[s] \in Tcb
    BY <2>2, Unlisted
  <2>5. left \in SenderRec /\ left.st[s] \in Tcb /\ Only(left, r, s)
    BY <1>0, <2>2, <2>3, <2>4, OnlyTwice, Unlisted
  <2> HIDE DEF left
  <2>6. Sound(left.st[s]) /\ left.st[s].state = t.state
    <3>1. CASE sends
      <4>1. FlushEnds(r, s) /\ Moved(flush.st[s], t, n)
        BY <1>4, <3>1, FlushedOK DEF FlushDone
      <4>2. CASE WindowsOpen
        <5>1. t.peer_wnd > 1
          BY <1>0, <3>1, <4>2 DEF Sound, Queued, DataStates, WindowsOpen
        <5>2. n = t.unsent
          BY <1>0, <4>1, <5>1, FlushTakesAll
        <5>3. Moved(flush.st[s], t, t.unsent)
          BY <4>1, <5>2
        <5> HIDE DEF flush, t, n
        <5> QED
          BY ZenonT(60), <1>0, <2>3, <2>4, <2>5, <5>3, MovedAll DEF t
      <4>3. CASE ~WindowsOpen
        <5>1. left.st[s].state = t.state
          BY <2>3, <2>4, <4>1 DEF Moved, Tcb
        <5> QED
          BY <1>0, <4>3, <5>1 DEF Sound
      <4> QED
        BY <4>2, <4>3
    <3>2. CASE ~sends
      <4>1. left.st[s] = [t EXCEPT !.on_send = FALSE]
        BY <2>3, <3>2
      <4>2. /\ left.st[s].state = t.state /\ left.st[s].unsent = t.unsent
            /\ left.st[s].flight = t.flight /\ left.st[s].out = t.out
            /\ left.st[s].peer_wnd = t.peer_wnd
        BY <1>0, <4>1 DEF Tcb
      <4> QED
        BY <1>0, <3>2, <4>2 DEF Sound, Queued, DataStates
    <3> QED
      BY <3>1, <3>2
  <2>7. /\ Linked(piggy) /\ Only(piggy, left, s)
        /\ Untold(piggy.st[s], left.st[s])
    <3>1. CASE sends
      <4> DEFINE u == [left.st[s] EXCEPT !.ack_cnt = cnt]
      <4>1. cnt \in Int
        <5>1. left.st[s].ack_cnt - n \in Int
          BY <1>1, <2>5 DEF Tcb
        <5> QED
          BY <5>1, MaxOfTwo
      <4>2. piggy = [left EXCEPT !.st[s].ack_cnt = cnt]
        BY <2>5, <3>1
      <4> HIDE DEF cnt, piggy
      <4>3. /\ u \in Tcb /\ u.on_control = left.st[s].on_control
            /\ u.on_send = left.st[s].on_send /\ u.on_ack = left.st[s].on_ack
        BY <2>5, <4>1 DEF Tcb
      <4>4. Untold(u, left.st[s])
        BY <2>5 DEF Untold, Alike, Tcb
      <4>5. piggy = Touch(left, s, u, left.room) /\ left.room \in Int
        BY <2>5, <4>2 DEF Touch, SenderRec
      <4> HIDE DEF u
      <4>6. Linked(piggy) /\ Only(piggy, left, s) /\ piggy.st[s] = u
        BY ONLY <2>3a, <4>3, <4>5, s \in Stream, Touched
      <4> QED
        BY <4>4, <4>6
    <3>2. CASE ~sends
      BY <2>3, <2>5, <3>2, OnlySame DEF Untold, Alike
    <3> QED
      BY <3>1, <3>2
  <2> HIDE DEF piggy
  <2>8. piggy \in SenderRec /\ piggy.st[s] \in Tcb /\ piggy.st[s].on_ack \in BOOLEAN
    BY <2>7, Unlisted DEF Tcb
  <2>9. Linked(q) /\ Only(q, piggy, s) /\ Kin(q.st[s], piggy.st[s])
    BY <2>1, <2>7, <2>8, Released
  <2>10. q \in SenderRec /\ q.st[s] \in Tcb /\ Only(q, r, s)
    BY <1>0, <2>5, <2>7, <2>8, <2>9, OnlyTwice, Unlisted
  <2>11. Sound(piggy.st[s]) /\ piggy.st[s].state = t.state
    BY <1>0, <2>5, <2>6, <2>7, <2>8, UntoldSound
  <2>12. Sound(q.st[s]) /\ Steady(q.st[s], piggy.st[s])
    BY <1>0, <2>8, <2>9, <2>10, <2>11, KinSound, KinSteady
  <2> QED
    BY <2>9, <2>10, <2>11, <2>12 DEF Steady
<1> QED
  BY <1>2, <1>3, <1>4

-----------------------------------------------------------------------------
(* The streams whose close or reset is delayed.                            *)

Connected == {"ESTABLISHED", "CLOSE_WAIT"}

DelayedOf(r) == ToSet(r.closeq_int) \cup ToSet(r.resetq_int)

\* The two queues hold different streams, each once, which are connected.
DelaysAgree(r) ==
    /\ OnList(r.closeq_int, ToSet(r.closeq_int))
    /\ OnList(r.resetq_int, ToSet(r.resetq_int))
    /\ ToSet(r.closeq_int) \cap ToSet(r.resetq_int) = {}
    /\ \A s \in DelayedOf(r) : r.st[s].state \in Connected

Good(r) ==
    /\ Linked(r) /\ DelaysAgree(r)
    /\ \A s \in Stream : Sound(r.st[s])

\* A step that changes one stream only.
LEMMA OnlyGood ==
    ASSUME NEW r, Good(r), NEW s \in Stream, NEW q, Linked(q), Only(q, r, s),
           Sound(q.st[s]), s \in DelayedOf(r) => q.st[s].state \in Connected
    PROVE  Good(q)
<1>1. r \in SenderRec /\ q \in SenderRec
  BY Unlisted DEF Good
<1>2. /\ \A u \in Stream \ {s} : q.st[u] = r.st[u]
      /\ q.closeq_int = r.closeq_int /\ q.resetq_int = r.resetq_int
  BY <1>1, OnlyIs
<1>3. DelayedOf(q) = DelayedOf(r) /\ DelayedOf(r) \subseteq Stream
  BY <1>1, <1>2 DEF DelayedOf, SenderRec, ToSet
<1>4. \A u \in DelayedOf(q) : q.st[u].state \in Connected
  BY <1>2, <1>3 DEF Good, DelaysAgree
<1>5. DelaysAgree(q)
  BY <1>2, <1>4 DEF Good, DelaysAgree
<1> QED
  BY <1>2, <1>5 DEF Good

LEMMA SteadyGood ==
    ASSUME NEW r, Good(r), NEW s \in Stream, NEW q, Linked(q), Only(q, r, s),
           Sound(q.st[s]), Steady(q.st[s], r.st[s])
    PROVE  Good(q)
<1>1. s \in DelayedOf(r) => q.st[s].state \in Connected
  BY DEF Good, DelaysAgree, Steady, Connected
<1> QED
  BY <1>1, OnlyGood

LEMMA KinGood ==
    ASSUME NEW r, Good(r), NEW s \in Stream, r.st[s].state # "FREED",
           NEW q, Linked(q), Only(q, r, s), Kin(q.st[s], r.st[s])
    PROVE  Good(q)
<1>1. r.st[s] \in Tcb /\ q.st[s] \in Tcb /\ Sound(r.st[s])
  BY Unlisted DEF Good
<1>2. Sound(q.st[s]) /\ Steady(q.st[s], r.st[s])
  BY <1>1, KinSound, KinSteady
<1> QED
  BY <1>2, SteadyGood

LEMMA TailOn ==
    ASSUME NEW list \in Seq(Stream), NEW S, OnList(list, S), list # <<>>
    PROVE  /\ Tail(list) \in Seq(Stream) /\ OnList(Tail(list), S \ {Head(list)})
           /\ Head(list) \in S /\ S \subseteq Stream
<1> DEFINE l == Tail(list)
<1>1. /\ l \in Seq(Stream) /\ Len(l) = Len(list) - 1 /\ Len(list) \in Nat \ {0}
      /\ \A i \in 1 .. Len(l) : l[i] = list[i + 1]
      /\ Head(list) = list[1]
  OBVIOUS
<1> HIDE DEF l
<1>2. \A i, j \in 1 .. Len(l) : l[i] = l[j] => i = j
  <2> TAKE i, j \in 1 .. Len(l)
  <2>1. i + 1 \in 1 .. Len(list) /\ j + 1 \in 1 .. Len(list)
    BY <1>1
  <2> QED
    BY SMTT(40), <1>1, <2>1, OnListIs
<1>3. \A x \in S \ {list[1]} : \E i \in 1 .. Len(l) : l[i] = x
  <2> TAKE x \in S \ {list[1]}
  <2>1. PICK i \in 1 .. Len(list) : list[i] = x
    BY OnListIs
  <2>2. i - 1 \in 1 .. Len(l) /\ l[i - 1] = x
    BY <1>1, <2>1
  <2> QED
    BY <2>2
<1>4. \A i \in 1 .. Len(l) : l[i] \in S \ {list[1]}
  <2> TAKE i \in 1 .. Len(l)
  <2>1. i + 1 \in 1 .. Len(list) /\ i + 1 # 1 /\ 1 \in 1 .. Len(list)
    BY <1>1
  <2> QED
    BY <1>1, <2>1, OnListIs
<1>5. OnList(l, S \ {list[1]})
  <2> DEFINE R == S \ {list[1]}
  <2>1. /\ \A x \in R : \E i \in 1 .. Len(l) : l[i] = x
        /\ \A i \in 1 .. Len(l) : l[i] \in R
    BY <1>3, <1>4
  <2> HIDE DEF R
  <2>2. OnList(l, R)
    BY SMTT(40), <1>1, <1>2, <2>1, IsOnList
  <2> QED
    BY <2>2 DEF R
<1>6. 1 \in 1 .. Len(list)
  BY <1>1
<1> QED
  BY <1>1, <1>5, <1>6, OnListIs DEF l

LEMMA CloseQueued ==
    ASSUME NEW r, Good(r), NEW l \in Seq(Stream), OnList(l, ToSet(l)),
           ToSet(l) \cap ToSet(r.resetq_int) = {},
           \A s \in ToSet(l) : r.st[s].state \in Connected,
           NEW q, q = [r EXCEPT !.closeq_int = l]
    PROVE  Good(q)
<1>1. r \in SenderRec
  BY DEF Good, Linked
<1>2. /\ q \in SenderRec /\ q.st = r.st /\ q.closeq_int = l
      /\ q.resetq_int = r.resetq_int /\ q.control_list = r.control_list
      /\ q.send_list = r.send_list /\ q.ack_list = r.ack_list
  BY <1>1 DEF SenderRec
<1>3. Linked(q)
  BY <1>2 DEF Good, Linked, OnControl, OnSend, OnAck
<1>4. DelaysAgree(q)
  BY <1>2 DEF Good, DelaysAgree, DelayedOf
<1> QED
  BY <1>2, <1>3, <1>4 DEF Good

LEMMA ResetQueued ==
    ASSUME NEW r, Good(r), NEW l \in Seq(Stream), OnList(l, ToSet(l)),
           ToSet(l) \cap ToSet(r.closeq_int) = {},
           \A s \in ToSet(l) : r.st[s].state \in Connected,
           NEW q, q = [r EXCEPT !.resetq_int = l]
    PROVE  Good(q)
<1>1. r \in SenderRec
  BY DEF Good, Linked
<1>2. /\ q \in SenderRec /\ q.st = r.st /\ q.resetq_int = l
      /\ q.closeq_int = r.closeq_int /\ q.control_list = r.control_list
      /\ q.send_list = r.send_list /\ q.ack_list = r.ack_list
  BY <1>1 DEF SenderRec
<1>3. Linked(q)
  BY <1>2 DEF Good, Linked, OnControl, OnSend, OnAck
<1>4. DelaysAgree(q)
  BY <1>2 DEF Good, DelaysAgree, DelayedOf
<1> QED
  BY <1>2, <1>3, <1>4 DEF Good

LEMMA Longer ==
    ASSUME NEW list \in Seq(Stream), OnList(list, ToSet(list)),
           NEW s \in Stream, s \notin ToSet(list), NEW l, l = Append(list, s)
    PROVE  l \in Seq(Stream) /\ OnList(l, ToSet(l)) /\ ToSet(l) = ToSet(list) \cup {s}
<1>1. l \in Seq(Stream) /\ OnList(l, ToSet(list) \cup {s})
  BY AppendOn
<1> QED
  BY <1>1 DEF OnList

LEMMA Shorter ==
    ASSUME NEW list \in Seq(Stream), OnList(list, ToSet(list)), list # <<>>,
           NEW l, l = Tail(list)
    PROVE  /\ l \in Seq(Stream) /\ OnList(l, ToSet(l))
           /\ ToSet(l) = ToSet(list) \ {Head(list)} /\ Head(list) \in ToSet(list)
           /\ Head(list) \in Stream
<1>1. /\ l \in Seq(Stream) /\ OnList(l, ToSet(list) \ {Head(list)})
      /\ Head(list) \in ToSet(list) /\ ToSet(list) \subseteq Stream
  BY TailOn
<1> QED
  BY <1>1 DEF OnList

\* A connected stream whose request is not delayed.
Free(r, s) == s \in Stream \ DelayedOf(r) /\ r.st[s].state \in Connected

LEMMA CloseDelays ==
    ASSUME NEW r, Good(r), NEW s, Free(r, s),
           NEW q, q = [r EXCEPT !.closeq_int = Append(@, s)]
    PROVE  Good(q)
<1> DEFINE l == Append(r.closeq_int, s)
<1>1. r \in SenderRec /\ r.closeq_int \in Seq(Stream)
  BY DEF Good, Linked, SenderRec
<1>2. /\ OnList(r.closeq_int, ToSet(r.closeq_int)) /\ s \in Stream
      /\ s \notin ToSet(r.closeq_int)
  BY DEF Good, DelaysAgree, Free, DelayedOf
<1>3. q = [r EXCEPT !.closeq_int = l]
  OBVIOUS
<1>4. l \in Seq(Stream) /\ OnList(l, ToSet(l)) /\ ToSet(l) = ToSet(r.closeq_int) \cup {s}
  BY <1>1, <1>2, Longer
<1> HIDE DEF l
<1>5. /\ ToSet(l) \cap ToSet(r.resetq_int) = {}
      /\ \A u \in ToSet(l) : r.st[u].state \in Connected
  BY <1>4 DEF Good, DelaysAgree, Free, DelayedOf
<1> QED
  BY <1>3, <1>4, <1>5, CloseQueued

LEMMA ResetDelays ==
    ASSUME NEW r, Good(r), NEW s, Free(r, s),
           NEW q, q = [r EXCEPT !.resetq_int = Append(@, s)]
    PROVE  Good(q)
<1> DEFINE l == Append(r.resetq_int, s)
<1>1. r \in SenderRec /\ r.resetq_int \in Seq(Stream)
  BY DEF Good, Linked, SenderRec
<1>2. /\ OnList(r.resetq_int, ToSet(r.resetq_int)) /\ s \in Stream
      /\ s \notin ToSet(r.resetq_int)
  BY DEF Good, DelaysAgree, Free, DelayedOf
<1>3. q = [r EXCEPT !.resetq_int = l]
  OBVIOUS
<1>4. l \in Seq(Stream) /\ OnList(l, ToSet(l)) /\ ToSet(l) = ToSet(r.resetq_int) \cup {s}
  BY <1>1, <1>2, Longer
<1> HIDE DEF l
<1>5. /\ ToSet(l) \cap ToSet(r.closeq_int) = {}
      /\ \A u \in ToSet(l) : r.st[u].state \in Connected
  BY <1>4 DEF Good, DelaysAgree, Free, DelayedOf
<1> QED
  BY <1>3, <1>4, <1>5, ResetQueued

\* The first of a queue is taken.
LEMMA CloseTaken ==
    ASSUME NEW r, Good(r), r.closeq_int # <<>>, NEW s, s = Head(r.closeq_int),
           NEW q, q = [r EXCEPT !.closeq_int = Tail(@)]
    PROVE  Good(q) /\ Free(q, s) /\ q.st = r.st /\ q.closeq_int = Tail(r.closeq_int)
<1> DEFINE l == Tail(r.closeq_int)
<1>1. r \in SenderRec /\ r.closeq_int \in Seq(Stream)
  BY DEF Good, Linked, SenderRec
<1>2. OnList(r.closeq_int, ToSet(r.closeq_int))
  BY DEF Good, DelaysAgree
<1>3. q = [r EXCEPT !.closeq_int = l]
  OBVIOUS
<1>4. /\ l \in Seq(Stream) /\ OnList(l, ToSet(l))
      /\ ToSet(l) = ToSet(r.closeq_int) \ {s} /\ s \in ToSet(r.closeq_int)
      /\ s \in Stream
  BY <1>1, <1>2, Shorter
<1>5. q.st = r.st /\ q.closeq_int = l /\ q.resetq_int = r.resetq_int
  BY <1>1, <1>3 DEF SenderRec
<1> HIDE DEF l
<1>6. /\ ToSet(l) \cap ToSet(r.resetq_int) = {}
      /\ \A u \in ToSet(l) : r.st[u].state \in Connected
  BY <1>4 DEF Good, DelaysAgree, DelayedOf
<1>7. Good(q)
  BY <1>3, <1>4, <1>6, CloseQueued
<1>8. Free(q, s)
  BY <1>4, <1>5 DEF Good, DelaysAgree, Free, DelayedOf
<1> QED
  BY <1>5, <1>7, <1>8 DEF l

LEMMA ResetTaken ==
    ASSUME NEW r, Good(r), r.resetq_int # <<>>, NEW s, s = Head(r.resetq_int),
           NEW q, q = [r EXCEPT !.resetq_int = Tail(@)]
    PROVE  Good(q) /\ Free(q, s) /\ q.st = r.st /\ q.resetq_int = Tail(r.resetq_int)
<1> DEFINE l == Tail(r.resetq_int)
<1>1. r \in SenderRec /\ r.resetq_int \in Seq(Stream)
  BY DEF Good, Linked, SenderRec
<1>2. OnList(r.resetq_int, ToSet(r.resetq_int))
  BY DEF Good, DelaysAgree
<1>3. q = [r EXCEPT !.resetq_int = l]
  OBVIOUS
<1>4. /\ l \in Seq(Stream) /\ OnList(l, ToSet(l))
      /\ ToSet(l) = ToSet(r.resetq_int) \ {s} /\ s \in ToSet(r.resetq_int)
      /\ s \in Stream
  BY <1>1, <1>2, Shorter
<1>5. q.st = r.st /\ q.resetq_int = l /\ q.closeq_int = r.closeq_int
  BY <1>1, <1>3 DEF SenderRec
<1> HIDE DEF l
<1>6. /\ ToSet(l) \cap ToSet(r.closeq_int) = {}
      /\ \A u \in ToSet(l) : r.st[u].state \in Connected
  BY <1>4 DEF Good, DelaysAgree, DelayedOf
<1>7. Good(q)
  BY <1>3, <1>4, <1>6, ResetQueued
<1>8. Free(q, s)
  BY <1>4, <1>5 DEF Good, DelaysAgree, Free, DelayedOf
<1> QED
  BY <1>5, <1>7, <1>8 DEF l

Restate(r, s, state) == [r EXCEPT !.st[s].state = state]

LEMMA Restated ==
    ASSUME NEW r, Linked(r), NEW s \in Stream, NEW state \in State,
           NEW q, q = Restate(r, s, state)
    PROVE  /\ Linked(q) /\ Only(q, r, s)
           /\ q.st[s] = [r.st[s] EXCEPT !.state = state]
<1> DEFINE t == [r.st[s] EXCEPT !.state = state]
<1>1. r \in SenderRec /\ r.st[s] \in Tcb
  BY Unlisted
<1>2. /\ t \in Tcb /\ t.on_control = r.st[s].on_control
      /\ t.on_send = r.st[s].on_send /\ t.on_ack = r.st[s].on_ack
  BY <1>1 DEF Tcb
<1>3. q = Touch(r, s, t, r.room) /\ r.room \in Int
  BY <1>1 DEF Touch, SenderRec, Restate
<1> HIDE DEF t
<1>4. Linked(q) /\ Only(q, r, s) /\ q.st[s] = t
  BY ONLY Linked(r), s \in Stream, <1>2, <1>3, Touched
<1> QED
  BY <1>4 DEF t

\* The stream enters a state and gets a control packet.
LEMMA Entered ==
    ASSUME NEW r, Good(r), NEW s \in Stream, NEW state \in State \ {"FREED"},
           s \in DelayedOf(r) => state \in Connected,
           Sound([r.st[s] EXCEPT !.state = state]),
           NEW q, q = AddtoControlList(Restate(r, s, state), s)
    PROVE  /\ Good(q) /\ q.closeq_int = r.closeq_int /\ q.resetq_int = r.resetq_int
<1> DEFINE p == Restate(r, s, state)
<1>1. Linked(r) /\ state \in State
  BY DEF Good
<1>2. r \in SenderRec /\ r.st[s] \in Tcb
  BY <1>1, Unlisted
<1>3. Linked(p) /\ Only(p, r, s) /\ p.st[s] = [r.st[s] EXCEPT !.state = state]
  BY <1>1, Restated
<1>4. p \in SenderRec /\ p.st[s].state # "FREED"
  BY <1>2, <1>3, Unlisted DEF Tcb
<1> HIDE DEF p
<1>5. Good(p)
  <2>1. p.st[s].state = state /\ Sound(p.st[s])
    BY <1>2, <1>3 DEF Tcb
  <2> QED
    BY <1>3, <2>1, OnlyGood
<1>6. Linked(q) /\ Only(q, p, s) /\ Kin(q.st[s], p.st[s])
  BY <1>3, ControlAdded DEF p
<1>7. Good(q)
  BY <1>4, <1>5, <1>6, KinGood
<1> QED
  BY <1>2, <1>3, <1>4, <1>6, <1>7, OnlyIs, Unlisted

LEMMA ClosingAdded ==
    ASSUME NEW r, Good(r), NEW s, Free(r, s),
           NEW q, q = AddtoControlList(ToClosing(r, s), s)
    PROVE  Good(q) /\ q.closeq_int = r.closeq_int /\ q.resetq_int = r.resetq_int
<1> DEFINE state == Closing(r.st[s].state)
<1>1. s \in Stream /\ s \notin DelayedOf(r)
  BY DEF Free
<1>2. r \in SenderRec /\ r.st[s] \in Tcb /\ Sound(r.st[s])
  BY <1>1, Unlisted DEF Good
<1>3. state \in {"FIN_WAIT_1", "LAST_ACK"}
  BY DEF Free, Connected, Closing
<1>4. ToClosing(r, s) = Restate(r, s, state)
  BY <1>2 DEF ToClosing, Restate, SenderRec
<1> HIDE DEF state
<1>5. Sound([r.st[s] EXCEPT !.state = state])
  BY <1>2, <1>3 DEF Free, Connected, Sound, Queued, DataStates, Tcb
<1>6. state \in State \ {"FREED"}
  BY <1>3 DEF State
<1> QED
  BY <1>1, <1>4, <1>5, <1>6, Entered

\* A request of the reset queue, or a stream taken from resetq_int.
LEMMA ResetRequested ==
    ASSUME NEW r, Good(r), NEW s, Free(r, s), NEW q, q = ResetRequest(r, s)
    PROVE  /\ Good(q)
           /\ q.resetq_int \in {r.resetq_int, Append(r.resetq_int, s)}
<1> DEFINE t == r.st[s]
<1>1. s \in Stream /\ s \notin DelayedOf(r) /\ t.state \in Connected
  BY DEF Free
<1>2. r \in SenderRec /\ t \in Tcb /\ Sound(t)
  BY <1>1, Unlisted DEF Good
<1>3. CASE t.on_control \/ t.on_send \/ t.on_ack
  <2>1. q = [r EXCEPT !.resetq_int = Append(@, s)]
    BY <1>3 DEF ResetRequest
  <2> QED
    BY <1>2, <2>1, ResetDelays DEF SenderRec
<1>4. CASE ~(t.on_control \/ t.on_send \/ t.on_ack)
  <2>1. q = AddtoControlList(Restate(r, s, "CLOSED_RSVD"), s)
    BY <1>1, <1>4 DEF ResetRequest, Restate, Connected
  <2> DEFINE u == [r.st[s] EXCEPT !.state = "CLOSED_RSVD"]
  <2>2. /\ u.state = "CLOSED_RSVD" /\ u.unsent = t.unsent /\ u.flight = t.flight
        /\ u.out = t.out /\ u.on_send = t.on_send
    BY <1>2 DEF Tcb
  <2>3. t.unsent \in Nat /\ t.flight \in Nat
    BY <1>2 DEF Tcb
  <2>4. Sound(u)
    <3> HIDE DEF u
    <3> QED
      BY <1>1, <1>2, <1>4, <2>2, <2>3 DEF Sound, Queued, DataStates, Connected
  <2>5. "CLOSED_RSVD" \in State \ {"FREED"}
    BY DEF State
  <2> QED
    BY <1>1, <2>1, <2>4, <2>5, Entered
<1> QED
  BY <1>3, <1>4

LEMMA ResetStepped ==
    ASSUME NEW r, Good(r), r.resetq_int # <<>>, NEW s, s = Head(r.resetq_int),
           NEW q, q = ResetDelayed(r, s)
    PROVE  /\ Good(q)
           /\ q.resetq_int \in {Tail(r.resetq_int), Append(Tail(r.resetq_int), s)}
<1> DEFINE p == [r EXCEPT !.resetq_int = Tail(@)]
<1>1. Good(p) /\ Free(p, s) /\ p.resetq_int = Tail(r.resetq_int)
  BY ResetTaken
<1>2. q = ResetRequest(p, s)
  BY DEF ResetDelayed
<1> HIDE DEF p
<1> QED
  BY <1>1, <1>2, ResetRequested

\* A stream of closeq_int.
LEMMA CloseStepped ==
    ASSUME NEW r, Good(r), r.closeq_int # <<>>, NEW s, s = Head(r.closeq_int),
           NEW q, q = CloseDelayed(r, s)
    PROVE  /\ Good(q)
           /\ q.closeq_int \in {Tail(r.closeq_int), Append(Tail(r.closeq_int), s)}
<1> DEFINE p == [r EXCEPT !.closeq_int = Tail(@)]
<1>1. Good(p) /\ Free(p, s) /\ p.st = r.st /\ p.closeq_int = Tail(r.closeq_int)
  BY CloseTaken
<1>2. p \in SenderRec
  BY <1>1 DEF Good, Linked
<1>3. CASE r.st[s].on_control
  <2>1. q = [p EXCEPT !.closeq_int = Append(@, s)]
    BY <1>3 DEF CloseDelayed
  <2> HIDE DEF p
  <2> QED
    BY <1>1, <1>2, <2>1, CloseDelays DEF SenderRec
<1>4. CASE ~r.st[s].on_control
  <2>1. q = AddtoControlList(ToClosing(p, s), s)
    BY <1>1, <1>4 DEF CloseDelayed, Free, Connected
  <2> HIDE DEF p
  <2> QED
    BY <1>1, <2>1, ClosingAdded
<1> QED
  BY <1>3, <1>4

\* A request of the close queue.
LEMMA CloseRequested ==
    ASSUME NEW r, Good(r), NEW s, Free(r, s), NEW q, q = CloseRequest(r, s)
    PROVE  Good(q)
<1> DEFINE t == r.st[s]
<1>1. s \in Stream /\ s \notin DelayedOf(r) /\ t.state \in Connected
  BY DEF Free
<1>2. Linked(r) /\ r \in SenderRec /\ t \in Tcb /\ Sound(t)
  BY <1>1, Unlisted DEF Good
<1>3. CASE t.on_control
  <2>1. q = [r EXCEPT !.closeq_int = Append(@, s)]
    BY <1>3 DEF CloseRequest
  <2> QED
    BY <2>1, CloseDelays
<1>4. CASE ~t.on_control /\ (t.on_send \/ t.on_ack)
  <2> DEFINE state == Closing(t.state)
             yes == TRUE
             u == [t EXCEPT !.state = state, !.control_list_waiting = yes]
  <2>1. state \in {"FIN_WAIT_1", "LAST_ACK"} /\ yes \in BOOLEAN /\ yes
    BY <1>1 DEF Connected, Closing
  <2>2. q = [r EXCEPT !.st[s].state = Closing(@), !.st[s].control_list_waiting = yes]
    BY <1>2, <1>4 DEF CloseRequest, ToClosing, SenderRec
  <2>2a. q = [r EXCEPT !.st[s].state = state, !.st[s].control_list_waiting = yes]
    BY <2>2
  <2> HIDE DEF state, yes
  <2>2b. [r EXCEPT !.st[s].state = state, !.st[s].control_list_waiting = yes]
         = Touch(r, s, u, r.room)
    BY <1>2 DEF Touch, SenderRec
  <2>3. q = Touch(r, s, u, r.room) /\ r.room \in Int
    BY <1>2, <2>2a, <2>2b DEF SenderRec
  <2>4. /\ u \in Tcb /\ u.on_control = t.on_control
        /\ u.on_send = t.on_send /\ u.on_ack = t.on_ack
    BY <1>2, <2>1 DEF Tcb, State
  <2>5. Sound(u)
    BY <1>1, <1>2, <2>1 DEF Connected, Sound, Queued, DataStates, Tcb
  <2> HIDE DEF u
  <2>6. Linked(q) /\ Only(q, r, s) /\ q.st[s] = u
    BY <1>1, <1>2, <2>3, <2>4, Touched
  <2> QED
    BY <1>1, <2>5, <2>6, OnlyGood
<1>5. CASE ~t.on_control /\ ~(t.on_send \/ t.on_ack)
  <2>1. q = AddtoControlList(ToClosing(r, s), s)
    BY <1>5 DEF CloseRequest
  <2> QED
    BY <2>1, ClosingAdded
<1> QED
  BY <1>3, <1>4, <1>5

-----------------------------------------------------------------------------
(* The loops of a round.                                                   *)

Queues == {"closeq_int", "resetq_int"}
Lists == {"control_list", "ack_list", "send_list"}

Flag(loop, t) ==
    CASE loop = "control_list" -> t.on_control
      [] loop = "ack_list" -> t.on_ack
      [] loop = "send_list" -> t.on_send

\* The queue begins with what the list has after k.
Begins(queue, list, k) ==
    /\ Len(queue) >= Len(list) - k
    /\ \A i \in 1 .. Len(list) - k : queue[i] = list[k + i]

\* What the loop finds after the first k streams of its list.
Ahead(loop, x, list, k) ==
    /\ loop \in Queues => Begins(x[loop], list, k)
    /\ loop \in Lists => \A j \in k + 1 .. Len(list) : Flag(loop, x.st[list[j]])

LEMMA NextOf ==
    ASSUME NEW queue \in Seq(Stream), NEW list \in Seq(Stream), NEW k \in 1 .. Len(list),
           Begins(queue, list, k - 1)
    PROVE  queue # <<>> /\ Head(queue) = list[k]
<1>1. Len(list) \in Nat /\ Len(queue) \in Nat /\ k \in Nat
  OBVIOUS
<1>2. Len(queue) >= 1 /\ queue[1] = list[k]
  BY <1>1 DEF Begins
<1> QED
  BY <1>2

LEMMA BeginsNext ==
    ASSUME NEW queue \in Seq(Stream), NEW list \in Seq(Stream), NEW k \in 1 .. Len(list),
           Begins(queue, list, k - 1), NEW s \in Stream,
           NEW q, q \in {Tail(queue), Append(Tail(queue), s)}
    PROVE  Begins(q, list, k)
<1>1. Len(list) \in Nat /\ Len(queue) \in Nat /\ k \in Nat
  OBVIOUS
<1>2. queue # <<>>
  BY NextOf
<1> DEFINE tail == Tail(queue)
<1>3. /\ tail \in Seq(Stream) /\ Len(tail) = Len(queue) - 1
      /\ \A i \in 1 .. Len(tail) : tail[i] = queue[i + 1]
  BY <1>2
<1> HIDE DEF tail
<1>4. /\ Len(q) >= Len(tail) /\ Len(q) \in Nat
      /\ \A i \in 1 .. Len(tail) : q[i] = tail[i]
  <2>1. q \in {tail, Append(tail, s)}
    BY DEF tail
  <2>2. CASE q = tail
    BY <1>3, <2>2
  <2>3. CASE q = Append(tail, s)
    BY <1>3, <2>3
  <2> QED
    BY <2>1, <2>2, <2>3
<1>5. Len(q) >= Len(list) - k
  BY <1>1, <1>3, <1>4 DEF Begins
<1>6. ASSUME NEW i \in 1 .. Len(list) - k
      PROVE  q[i] = list[k + i]
  <2>1. i + 1 \in 1 .. Len(list) - (k - 1) /\ i \in 1 .. Len(tail)
    BY <1>1, <1>3 DEF Begins
  <2>2. queue[i + 1] = list[(k - 1) + (i + 1)]
    BY <2>1 DEF Begins
  <2>3. (k - 1) + (i + 1) = k + i
    BY <1>1
  <2> QED
    BY <1>3, <1>4, <2>1, <2>2, <2>3
<1> QED
  BY <1>5, <1>6 DEF Begins

LEMMA FlagsNext ==
    ASSUME NEW list \in Seq(Stream), IsInjective(list), NEW k \in 1 .. Len(list),
           NEW loop \in Lists, NEW x \in SenderRec, NEW q \in SenderRec,
           Ahead(loop, x, list, k - 1), Only(q, x, list[k])
    PROVE  Ahead(loop, q, list, k)
<1>1. Len(list) \in Nat /\ k \in Nat /\ DOMAIN list = 1 .. Len(list)
  OBVIOUS
<1>2. ASSUME NEW j \in k + 1 .. Len(list)
      PROVE  Flag(loop, q.st[list[j]])
  <2>1. j \in 1 .. Len(list) /\ j # k /\ j \in (k - 1) + 1 .. Len(list)
    BY <1>1
  <2>2. list[j] # list[k] /\ list[j] \in Stream /\ list[k] \in Stream
    BY <1>1, <2>1 DEF IsInjective
  <2>3. q.st[list[j]] = x.st[list[j]]
    BY <2>2, OnlyIs
  <2> QED
    BY <2>1, <2>3 DEF Ahead
<1> QED
  BY <1>2 DEF Ahead, Lists, Queues

Loops == Queues \cup Lists

\* One step of a loop.
LEMMA LoopStepped ==
    ASSUME NEW loop \in Loops, NEW x, Good(x), NEW list \in Seq(Stream), IsInjective(list),
           NEW k \in 1 .. Len(list), Ahead(loop, x, list, k - 1), NEW late,
           NEW q, q = LoopStep(loop, x, list[k], late).m
    PROVE  Good(q) /\ Ahead(loop, q, list, k)
<1> DEFINE s == list[k]
<1>1. s \in Stream /\ k \in (k - 1) + 1 .. Len(list)
  OBVIOUS
<1>2. Linked(x) /\ x \in SenderRec /\ x.st[s] \in Tcb /\ Sound(x.st[s])
  BY <1>1, Unlisted DEF Good
<1> HIDE DEF s
<1>3. CASE loop = "closeq_int"
  <2>1. Begins(x.closeq_int, list, k - 1) /\ x.closeq_int \in Seq(Stream)
    BY <1>2, <1>3 DEF Ahead, Queues, SenderRec
  <2>2. x.closeq_int # <<>> /\ s = Head(x.closeq_int)
    BY <2>1, NextOf DEF s
  <2>3. q = CloseDelayed(x, s)
    BY <1>3 DEF LoopStep, s
  <2>4. Good(q) /\ q.closeq_int \in {Tail(x.closeq_int), Append(Tail(x.closeq_int), s)}
    BY <2>2, <2>3, CloseStepped
  <2>5. Begins(q.closeq_int, list, k)
    BY <1>1, <2>1, <2>4, BeginsNext
  <2> QED
    BY <1>3, <2>4, <2>5 DEF Ahead, Lists
<1>4. CASE loop = "resetq_int"
  <2>1. Begins(x.resetq_int, list, k - 1) /\ x.resetq_int \in Seq(Stream)
    BY <1>2, <1>4 DEF Ahead, Queues, SenderRec
  <2>2. x.resetq_int # <<>> /\ s = Head(x.resetq_int)
    BY <2>1, NextOf DEF s
  <2>3. q = ResetDelayed(x, s)
    BY <1>4 DEF LoopStep, s
  <2>4. Good(q) /\ q.resetq_int \in {Tail(x.resetq_int), Append(Tail(x.resetq_int), s)}
    BY <2>2, <2>3, ResetStepped
  <2>5. Begins(q.resetq_int, list, k)
    BY <1>1, <2>1, <2>4, BeginsNext
  <2> QED
    BY <1>4, <2>4, <2>5 DEF Ahead, Lists
<1>5. CASE loop = "control_list"
  <2>1. x.st[s].on_control
    BY <1>1, <1>5 DEF Ahead, Lists, Flag, s
  <2>2. x.st[s].state # "FREED"
    BY <1>2, <2>1, FlagsAlive
  <2>3. q = ControlStep(x, s).m
    BY <1>5 DEF LoopStep, s
  <2>4. Linked(q) /\ Only(q, x, s) /\ Kin(q.st[s], x.st[s])
    BY <1>1, <1>2, <2>3, ControlStepped
  <2>5. Good(q)
    BY <1>1, <2>2, <2>4, KinGood
  <2> QED
    BY <1>1, <1>2, <1>5, <2>4, <2>5, FlagsNext, Unlisted DEF Lists, s
<1>6. CASE loop = "ack_list"
  <2>1. x.st[s].on_ack
    BY <1>1, <1>6 DEF Ahead, Lists, Flag, s
  <2>2. x.st[s].state # "FREED"
    BY <1>2, <2>1, FlagsAlive
  <2>3. q = AckStep(x, s)
    BY <1>6 DEF LoopStep, s
  <2>4. Linked(q) /\ Only(q, x, s) /\ Kin(q.st[s], x.st[s])
    BY <1>1, <1>2, <2>2, <2>3, AckStepped
  <2>5. Good(q)
    BY <1>1, <2>2, <2>4, KinGood
  <2> QED
    BY <1>1, <1>2, <1>6, <2>4, <2>5, FlagsNext, Unlisted DEF Lists, s
<1>7. CASE loop = "send_list"
  <2>1. x.st[s].on_send
    BY <1>1, <1>7 DEF Ahead, Lists, Flag, s
  <2>3. q = DataStep(x, s, late).m
    BY <1>7 DEF LoopStep, s
  <2>4. /\ Linked(q) /\ Only(q, x, s)
        /\ Sound(q.st[s]) /\ Steady(q.st[s], x.st[s])
    BY <1>1, <1>2, <2>1, <2>3, DataStepped
  <2>5. Good(q)
    BY <1>1, <2>4, SteadyGood
  <2> QED
    BY <1>1, <1>2, <1>7, <2>4, <2>5, FlagsNext, Unlisted DEF Lists, s
<1> QED
  BY <1>3, <1>4, <1>5, <1>6, <1>7 DEF Loops, Queues, Lists

Start(r) == [m |-> r, go |-> TRUE]

Walks(loop, w, s, late) == IF w.go THEN LoopStep(loop, w.m, s, late) ELSE w

\* f is the loop's recursive function up to n.
Runs(f, n, loop, r, list, late) ==
    f = [k \in 0 .. n |-> IF k = 0 THEN Start(r) ELSE Walks(loop, f[k - 1], list[k], late)]

\* There is such a function.
LEMMA WalkRuns ==
    ASSUME NEW loop, NEW r, NEW list, NEW late, NEW n \in Nat
    PROVE  \E f : Runs(f, n, loop, r, list, late)
<1> DEFINE T == {k \in Nat : ~ \E f : Runs(f, k, loop, r, list, late)}
<1>1. SUFFICES ASSUME T # {} PROVE FALSE
  OBVIOUS
<1>2. PICK k \in T : \A j \in T : k <= j
  <2> HIDE DEF T
  <2>1. T \subseteq Nat
    BY DEF T
  <2> QED
    BY <1>1, <2>1, Least
<1>3. Runs([i \in 0 .. 0 |-> Start(r)], 0, loop, r, list, late)
  BY DEF Runs
<1>4. k # 0 /\ k \in Nat /\ k - 1 \in Nat
  BY <1>2, <1>3
<1>5. PICK f : Runs(f, k - 1, loop, r, list, late)
  BY <1>2, <1>4
<1> DEFINE last == Walks(loop, f[k - 1], list[k], late)
           g == [i \in 0 .. k |-> IF i = k THEN last ELSE f[i]]
<1> HIDE DEF last
<1>6. \A i \in 0 .. k :
        g[i] = IF i = 0 THEN Start(r) ELSE Walks(loop, g[i - 1], list[i], late)
  <2> SUFFICES ASSUME NEW i \in 0 .. k
               PROVE  g[i] = IF i = 0 THEN Start(r)
                             ELSE Walks(loop, g[i - 1], list[i], late)
    OBVIOUS
  <2>1. CASE i = k
    BY <2>1, <1>4 DEF last
  <2>2. CASE i # k
    BY <2>2, <1>4, <1>5 DEF Runs
  <2> QED
    BY <2>1, <2>2
<1>7. Runs(g, k, loop, r, list, late)
  BY <1>6 DEF Runs
<1> QED
  BY <1>2, <1>7

LEMMA WalkIs ==
    ASSUME NEW loop, NEW r, NEW late, NEW list, list = r[loop], Len(list) \in Nat
    PROVE  \E f : Runs(f, Len(list), loop, r, list, late)
                  /\ Walk(loop, r, late) = f[Len(list)].m
<1> DEFINE walked == CHOOSE f : f = [k \in 0 .. Len(list) |->
                        IF k = 0 THEN [m |-> r, go |-> TRUE]
                        ELSE LET w == f[k - 1]
                             IN  IF w.go THEN LoopStep(loop, w.m, list[k], late) ELSE w]
<1>1. Walk(loop, r, late) = walked[Len(list)].m
  BY DEF Walk
<1>2. walked = CHOOSE f : Runs(f, Len(list), loop, r, list, late)
  BY DEF Runs, Start, Walks
<1>3. Runs(walked, Len(list), loop, r, list, late)
  <2> HIDE DEF walked
  <2> QED
    BY <1>2, WalkRuns, Zenon
<1> QED
  BY <1>1, <1>3

\* A loop keeps what every one of its steps keeps.
LEMMA Walked ==
    ASSUME NEW loop \in Loops, NEW r, Good(r), NEW late, NEW q, q = Walk(loop, r, late)
    PROVE  Good(q)
<1> DEFINE list == r[loop]
<1>1. r \in SenderRec /\ Linked(r)
  BY DEF Good, Linked
<1>2. list \in Seq(Stream) /\ Len(list) \in Nat
  BY <1>1 DEF SenderRec, Loops, Queues, Lists
<1>3. IsInjective(list)
  BY DEF Loops, Queues, Lists, Good, DelaysAgree, Linked, OnList
<1>4. Ahead(loop, r, list, 0)
  <2>1. CASE loop \in Queues
    <3>1. Begins(list, list, 0)
      <4> HIDE DEF list
      <4> QED
        BY <1>2 DEF Begins
    <3> QED
      BY <2>1, <3>1 DEF Ahead, Queues, Lists
  <2>2. CASE loop \in Lists
    <3>1. \A j \in 1 .. Len(list) : Flag(loop, r.st[list[j]])
      <4>1. CASE loop = "control_list"
        BY <1>1, <1>2, <4>1, OnListIs DEF Linked, OnControl, Flag
      <4>2. CASE loop = "ack_list"
        BY <1>1, <1>2, <4>2, OnListIs DEF Linked, OnAck, Flag
      <4>3. CASE loop = "send_list"
        BY <1>1, <1>2, <4>3, OnListIs DEF Linked, OnSend, Flag
      <4> QED
        BY <2>2, <4>1, <4>2, <4>3 DEF Lists
    <3> QED
      BY <1>2, <2>2, <3>1 DEF Ahead, Queues, Lists
  <2> QED
    BY <2>1, <2>2 DEF Loops
<1>5. PICK f : /\ Runs(f, Len(list), loop, r, list, late)
               /\ q = f[Len(list)].m
  BY <1>2, WalkIs
<1> HIDE DEF list
<1> DEFINE Holds(k) == Good(f[k].m) /\ (f[k].go => Ahead(loop, f[k].m, list, k))
           T == {k \in 0 .. Len(list) : ~Holds(k)}
<1>6. Holds(0)
  BY <1>2, <1>4, <1>5 DEF Runs, Start
<1>7. ASSUME NEW k \in 1 .. Len(list), Holds(k - 1) PROVE Holds(k)
  <2> DEFINE w == f[k - 1]
  <2>1. f[k] = IF w.go THEN LoopStep(loop, w.m, list[k], late) ELSE w
    BY <1>2, <1>5 DEF Runs, Walks
  <2>2. Good(w.m) /\ (w.go => Ahead(loop, w.m, list, k - 1))
    BY <1>7
  <2> HIDE DEF w
  <2>3. CASE w.go
    BY <1>2, <1>3, <2>1, <2>2, <2>3, LoopStepped
  <2>4. CASE ~w.go
    BY <2>1, <2>2, <2>4
  <2> QED
    BY <2>3, <2>4
<1>8. T = {}
  <2> SUFFICES ASSUME T # {} PROVE FALSE
    OBVIOUS
  <2>1. PICK n \in T : \A k \in T : n <= k
    <3>1. T \subseteq Nat
      BY <1>2
    <3> HIDE DEF T
    <3> QED
      BY <3>1, Least
  <2>2. n \in 0 .. Len(list) /\ ~Holds(n)
    BY <2>1
  <2>3. n \in 1 .. Len(list) /\ n - 1 \in 0 .. Len(list)
    BY <1>2, <1>6, <2>2
  <2>4. Holds(n - 1)
    <3>1. n - 1 \notin T
      BY <2>1, <2>3
    <3> HIDE DEF Holds
    <3> QED
      BY <2>3, <3>1
  <2> HIDE DEF Holds
  <2> QED
    BY <1>7, <2>2, <2>3, <2>4
<1>9. Holds(Len(list))
  <2> HIDE DEF Holds
  <2> QED
    BY <1>2, <1>8
<1> QED
  BY <1>5, <1>9

LEMMA RoundGood ==
    ASSUME NEW r, Good(r), NEW late,
           NEW q, q = [WritePacketsToChunks(HandleDelayed(r, late), late)
                           EXCEPT !.room = Room]
    PROVE  Good(q)
<1> DEFINE w == WritePacketsToChunks(HandleDelayed(r, late), late)
<1>1. Good(w)
  <2> DEFINE a == Walk("closeq_int", r, late)
             b == Walk("resetq_int", a, late)
             c == Walk("control_list", b, late)
             d == Walk("ack_list", c, late)
  <2>1. Good(a)
    BY Walked DEF Loops, Queues
  <2> HIDE DEF a
  <2>2. Good(b)
    BY <2>1, Walked DEF Loops, Queues
  <2> HIDE DEF b
  <2>3. Good(c)
    BY <2>2, Walked DEF Loops, Lists
  <2> HIDE DEF c
  <2>4. Good(d)
    BY <2>3, Walked DEF Loops, Lists
  <2> HIDE DEF d
  <2>5. Good(Walk("send_list", d, late))
    BY <2>4, Walked DEF Loops, Lists
  <2> QED
    BY <2>5 DEF WritePacketsToChunks, HandleDelayed, a, b, c, d
<1> HIDE DEF w
<1>2. w \in SenderRec /\ Room \in Int /\ q = [w EXCEPT !.room = Room]
  BY <1>1, SenderAssumption DEF Good, Linked, w
<1>3. /\ q \in SenderRec /\ q.st = w.st /\ q.closeq_int = w.closeq_int
      /\ q.resetq_int = w.resetq_int /\ q.control_list = w.control_list
      /\ q.send_list = w.send_list /\ q.ack_list = w.ack_list
  BY <1>2 DEF SenderRec
<1>4. Linked(q)
  BY <1>1, <1>3 DEF Good, Linked, OnControl, OnSend, OnAck
<1>5. DelaysAgree(q)
  BY <1>1, <1>3 DEF Good, DelaysAgree, DelayedOf
<1> QED
  BY <1>1, <1>3, <1>4, <1>5 DEF Good

-----------------------------------------------------------------------------
(* The actions.                                                            *)

\* A step that changes the record of one stream, and not its flags.
LEMMA Retouched ==
    ASSUME NEW r, Good(r), NEW s \in Stream, NEW t \in Tcb,
           t.on_control = r.st[s].on_control, t.on_send = r.st[s].on_send,
           t.on_ack = r.st[s].on_ack, Sound(t),
           s \in DelayedOf(r) => t.state \in Connected,
           NEW q, q = Touch(r, s, t, r.room)
    PROVE  Good(q) /\ Linked(q) /\ Only(q, r, s) /\ q.st[s] = t
<1>1. Linked(r) /\ r.room \in Int
  BY DEF Good, Linked, SenderRec
<1>2. Linked(q) /\ Only(q, r, s) /\ q.st[s] = t
  BY <1>1, Touched
<1> QED
  BY <1>2, OnlyGood

LEMMA NotDelayed ==
    ASSUME Good(m), NEW s \in Stream, ~Delayed(s)
    PROVE  s \notin DelayedOf(m)
<1>1. m.closeq_int \in Seq(Stream) /\ m.resetq_int \in Seq(Stream)
  BY DEF Good, Linked, SenderRec
<1>2. /\ DOMAIN m.closeq_int = 1 .. Len(m.closeq_int)
      /\ DOMAIN m.resetq_int = 1 .. Len(m.resetq_int)
  BY <1>1
<1> QED
  BY <1>2 DEF Delayed, Contains, DelayedOf, ToSet

LEMMA UsableFree ==
    ASSUME Good(m), NEW s \in Stream, Usable(s)
    PROVE  Free(m, s)
BY NotDelayed DEF Usable, Free, Connected

LEMMA ConnectGood ==
    ASSUME Good(m), NEW s \in Stream, Connect(s)
    PROVE  Good(m')
<1> DEFINE t == m.st[s]
           u == [m.st[s] EXCEPT !.state = "SYN_SENT"]
<1>1. m \in SenderRec /\ t \in Tcb /\ Sound(t) /\ t.state = "CLOSED"
  BY Unlisted DEF Good, Connect
<1>2. m' = AddtoControlList(Restate(m, s, "SYN_SENT"), s)
  BY DEF Connect, Restate
<1>3. s \notin DelayedOf(m) /\ "SYN_SENT" \in State \ {"FREED"}
  BY <1>1 DEF Good, DelaysAgree, Connected, State
<1>4. /\ u.state = "SYN_SENT" /\ u.unsent = t.unsent /\ u.flight = t.flight
      /\ u.out = t.out
  BY <1>1 DEF Tcb
<1>5. t.unsent \in Nat /\ t.flight \in Nat
  BY <1>1 DEF Tcb
<1>6. Sound(u)
  <2> HIDE DEF u
  <2> QED
    BY <1>1, <1>4, <1>5 DEF Sound, Queued, DataStates
<1> QED
  BY <1>2, <1>3, <1>6, Entered

LEMMA WriteGood ==
    ASSUME Good(m), NEW s \in Stream, Write(s)
    PROVE  Good(m')
<1> DEFINE t == m.st[s]
           unsent == t.unsent + 1
           wrote == t.wrote + 1
           u == [m.st[s] EXCEPT !.unsent = unsent, !.wrote = wrote]
           p == [m EXCEPT !.st[s].unsent = unsent, !.st[s].wrote = wrote]
<1>1. m \in SenderRec /\ t \in Tcb /\ Sound(t) /\ Linked(m)
  BY Unlisted DEF Good
<1>2. Free(m, s)
  BY UsableFree DEF Write
<1>3. m' = AddtoSendList(p, s)
  BY DEF Write
<1>4. unsent \in Nat /\ wrote \in Nat
  BY <1>1 DEF Tcb
<1> HIDE DEF unsent, wrote
<1>5. /\ u \in Tcb /\ u.on_control = t.on_control /\ u.on_send = t.on_send
      /\ u.on_ack = t.on_ack
  BY <1>1, <1>4 DEF Tcb
<1>6. p = Touch(m, s, u, m.room) /\ m.room \in Int
  BY <1>1 DEF Touch, SenderRec
<1>7. /\ u.state = t.state /\ u.flight = t.flight /\ u.out = t.out
      /\ u.peer_wnd = t.peer_wnd
  BY <1>1 DEF Tcb
<1> HIDE DEF u, p
<1>8. Linked(p) /\ Only(p, m, s) /\ p.st[s] = u
  BY <1>1, <1>5, <1>6, Touched
<1>9. Linked(m') /\ Only(m', p, s) /\ m'.st[s] = [u EXCEPT !.on_send = TRUE]
  BY <1>3, <1>8, SendListed
<1>10. Only(m', m, s)
  BY <1>1, <1>8, <1>9, OnlyTwice, Unlisted
<1>11. /\ m'.st[s].state = t.state /\ m'.st[s].flight = t.flight /\ m'.st[s].out = t.out
       /\ m'.st[s].peer_wnd = t.peer_wnd /\ m'.st[s].on_send
  BY <1>5, <1>7, <1>9 DEF Tcb
<1>12. Sound(m'.st[s]) /\ m'.st[s].state \in Connected
  BY <1>1, <1>2, <1>11 DEF Sound, Queued, DataStates, Free, Connected
<1> QED
  BY <1>9, <1>10, <1>12, OnlyGood

LEMMA CloseGood ==
    ASSUME Good(m), NEW s \in Stream, Close(s)
    PROVE  Good(m')
<1>1. Free(m, s) /\ m' = CloseRequest(m, s)
  BY UsableFree DEF Close
<1> QED
  BY <1>1, CloseRequested

LEMMA AbortGood ==
    ASSUME Good(m), NEW s \in Stream, Abort(s)
    PROVE  Good(m')
<1>1. Free(m, s) /\ m' = ResetRequest(m, s)
  BY UsableFree DEF Abort
<1> QED
  BY <1>1, ResetRequested

\* A stream that is not delayed is destroyed.
LEMMA DestroyedGood ==
    ASSUME NEW r, Good(r), NEW s \in Stream, s \notin DelayedOf(r),
           NEW q, q = DestroyTCPStream(r, s)
    PROVE  Good(q)
<1>1. Linked(q) /\ Only(q, r, s) /\ q.st[s] = Freed
  BY Destroyed DEF Good
<1> QED
  BY <1>1, FreedSound, OnlyGood

LEMMA DestroyGood ==
    ASSUME Good(m), NEW s \in Stream, Destroy(s)
    PROVE  Good(m')
<1>1. s \notin DelayedOf(m)
  BY DEF Good, DelaysAgree, Connected, Destroy
<1> QED
  BY <1>1, DestroyedGood DEF Destroy

LEMMA PeerDataGood ==
    ASSUME Good(m), NEW s \in Stream, NEW opt, PeerData(s, opt)
    PROVE  Good(m')
<1> DEFINE t == m.st[s]
           yes == TRUE
           u == [m.st[s] EXCEPT !.owed = yes]
           p == [m EXCEPT !.st[s].owed = yes]
<1>1. m \in SenderRec /\ t \in Tcb /\ Sound(t) /\ Linked(m) /\ t.state # "FREED"
  BY Unlisted DEF Good, PeerData
<1>2. m' = EnqueueACK(p, s, opt) /\ yes \in BOOLEAN
  BY DEF PeerData
<1> HIDE DEF yes
<1>3. /\ u \in Tcb /\ u.on_control = t.on_control /\ u.on_send = t.on_send
      /\ u.on_ack = t.on_ack
  BY <1>1, <1>2 DEF Tcb
<1>4. Untold(u, t)
  BY <1>1 DEF Untold, Alike, Tcb
<1>5. p = Touch(m, s, u, m.room)
  BY <1>1 DEF Touch, SenderRec
<1>6. Sound(u) /\ u.state = t.state
  BY <1>1, <1>3, <1>4, UntoldSound
<1> HIDE DEF u, p
<1>7. s \in DelayedOf(m) => u.state \in Connected
  BY <1>6 DEF Good, DelaysAgree
<1>8. Good(p) /\ Linked(p) /\ Only(p, m, s) /\ p.st[s] = u
  BY <1>3, <1>5, <1>6, <1>7, Retouched
<1>9. Linked(m') /\ Only(m', p, s) /\ Untold(m'.st[s], p.st[s])
  BY <1>2, <1>8, Enqueued
<1>10. m'.st[s] \in Tcb
  BY <1>9, Unlisted
<1>11. Sound(m'.st[s]) /\ m'.st[s].state = u.state
  BY <1>1, <1>3, <1>6, <1>8, <1>9, <1>10, UntoldSound
<1> QED
  BY <1>8, <1>9, <1>11, SteadyGood DEF Steady

LEMMA PeerFinGood ==
    ASSUME Good(m), NEW s \in Stream, PeerFin(s)
    PROVE  Good(m')
<1> DEFINE t == m.st[s]
           u == [m.st[s] EXCEPT !.state = "CLOSE_WAIT"]
<1>1. m \in SenderRec /\ t \in Tcb /\ Sound(t) /\ t.state = "ESTABLISHED"
  BY Unlisted DEF Good, PeerFin
<1>2. m' = AddtoControlList(Restate(m, s, "CLOSE_WAIT"), s)
  BY DEF PeerFin, Restate
<1>3. "CLOSE_WAIT" \in Connected /\ "CLOSE_WAIT" \in State \ {"FREED"}
  BY DEF Connected, State
<1>4. /\ u.state = "CLOSE_WAIT" /\ u.unsent = t.unsent /\ u.flight = t.flight
      /\ u.out = t.out /\ u.peer_wnd = t.peer_wnd /\ u.on_send = t.on_send
  BY <1>1 DEF Tcb
<1>5. t.unsent \in Nat /\ t.flight \in Nat
  BY <1>1 DEF Tcb
<1>6. Sound(u)
  <2> HIDE DEF u
  <2> QED
    BY <1>1, <1>4, <1>5 DEF Sound, Queued, DataStates
<1> QED
  BY <1>2, <1>3, <1>6, Entered

\* Everything sent is acknowledged.
AckedTcb(t, wnd) ==
    [t EXCEPT !.flight = 0, !.out = "none", !.nrtx = 0, !.peer_wnd = wnd]

LEMMA AckedIs ==
    ASSUME NEW t \in Tcb, NEW wnd \in Windows, NEW u, u = AckedTcb(t, wnd)
    PROVE  /\ u \in Tcb /\ u.on_control = t.on_control /\ u.on_send = t.on_send
           /\ u.on_ack = t.on_ack /\ u.state = t.state /\ u.unsent = t.unsent
           /\ u.flight = 0 /\ u.out = "none" /\ u.peer_wnd = wnd
<1> DEFINE no == 0  none == "none"
<1>1. no \in Nat /\ none \in {"none", "SYN", "FIN"} /\ wnd \in Nat
  BY SenderAssumption
<1>2. u = [t EXCEPT !.flight = no, !.out = none, !.nrtx = no, !.peer_wnd = wnd]
  BY DEF AckedTcb
<1> HIDE DEF no, none
<1>3. /\ u \in Tcb /\ u.on_control = t.on_control /\ u.on_send = t.on_send
      /\ u.on_ack = t.on_ack /\ u.state = t.state /\ u.unsent = t.unsent
      /\ u.flight = no /\ u.out = none /\ u.peer_wnd = wnd
  BY ZenonT(60), <1>1, <1>2 DEF Tcb
<1> QED
  BY <1>3 DEF no, none

LEMMA AckedTouches ==
    ASSUME NEW r \in SenderRec, NEW s \in Stream, NEW wnd
    PROVE  [r EXCEPT !.st[s].flight = 0, !.st[s].out = "none",
                     !.st[s].nrtx = 0, !.st[s].peer_wnd = wnd]
           = Touch(r, s, AckedTcb(r.st[s], wnd), r.room)
<1> DEFINE no == 0  none == "none"
           t == [r.st[s] EXCEPT !.flight = no, !.out = none, !.nrtx = no,
                                !.peer_wnd = wnd]
<1> HIDE DEF no, none
<1>1. [r EXCEPT !.st[s].flight = no, !.st[s].out = none,
                !.st[s].nrtx = no, !.st[s].peer_wnd = wnd]
      = [r EXCEPT !.st = [r.st EXCEPT ![s] = t]]
  BY ZenonT(60) DEF SenderRec, Tcb
<1> HIDE DEF t
<1>2. [r EXCEPT !.st = [r.st EXCEPT ![s] = t]] = Touch(r, s, t, r.room)
  BY DEF Touch, SenderRec
<1>3. t = AckedTcb(r.st[s], wnd)
  BY DEF t, no, none, AckedTcb
<1> QED
  BY <1>1, <1>2, <1>3 DEF no, none

LEMMA PeerAckGood ==
    ASSUME Good(m), NEW s \in Stream, NEW wnd \in Windows, PeerAck(s, wnd)
    PROVE  Good(m')
<1> DEFINE t == m.st[s]
           u == AckedTcb(t, wnd)
           acked == [m EXCEPT !.st[s].flight = 0, !.st[s].out = "none",
                              !.st[s].nrtx = 0, !.st[s].peer_wnd = wnd]
           fin == t.out = "FIN" /\ t.unsent = 0
<1>1. m \in SenderRec /\ t \in Tcb /\ Sound(t)
  BY Unlisted DEF Good
<1>2. t.state # "FREED"
  BY <1>1, FreedIs DEF PeerAck, Outstanding, Sound
<1>3. acked = Touch(m, s, u, m.room)
  BY <1>1, AckedTouches
<1>4. m' = CASE t.state = "SYN_SENT" ->
                    AddtoControlList([acked EXCEPT !.st[s].state = "ESTABLISHED"], s)
             [] t.state = "FIN_WAIT_1" /\ fin ->
                    [acked EXCEPT !.st[s].state = "FIN_WAIT_2"]
             [] t.state = "LAST_ACK" /\ fin -> DestroyTCPStream(acked, s)
             [] OTHER -> acked
  BY DEF PeerAck
<1>5. /\ u \in Tcb /\ u.on_control = t.on_control /\ u.on_send = t.on_send
      /\ u.on_ack = t.on_ack /\ u.state = t.state /\ u.unsent = t.unsent
      /\ u.flight = 0 /\ u.out = "none" /\ u.peer_wnd = wnd
  BY <1>1, AckedIs
<1> HIDE DEF acked, u
<1>6. Sound(u)
  BY <1>1, <1>2, <1>5 DEF Sound, Queued, DataStates
<1>7. s \in DelayedOf(m) => t.state \in Connected
  BY DEF Good, DelaysAgree
<1>8. Good(acked) /\ Only(acked, m, s) /\ acked.st[s] = u
  BY <1>1, <1>3, <1>5, <1>6, <1>7, Retouched
<1>9. acked \in SenderRec /\ Linked(acked) /\ DelayedOf(acked) = DelayedOf(m)
  <2>1. acked \in SenderRec
    BY <1>8 DEF Good, Linked
  <2> QED
    BY <1>1, <1>8, <2>1, OnlyIs DEF Good, DelayedOf
<1>10. CASE t.state = "SYN_SENT"
  <2> DEFINE v == [acked.st[s] EXCEPT !.state = "ESTABLISHED"]
  <2>1. m' = AddtoControlList(Restate(acked, s, "ESTABLISHED"), s)
    BY <1>4, <1>10 DEF Restate
  <2>2. /\ v.state = "ESTABLISHED" /\ v.unsent = u.unsent /\ v.flight = u.flight
        /\ v.out = u.out /\ v.peer_wnd = u.peer_wnd /\ v.on_send = u.on_send
    BY <1>5, <1>8 DEF Tcb
  <2>3. t.unsent \in Nat
    BY <1>1 DEF Tcb
  <2>4. Sound(v)
    <3> HIDE DEF v
    <3> QED
      BY <1>1, <1>5, <1>10, <2>2, <2>3 DEF Sound, Queued, DataStates
  <2>5. "ESTABLISHED" \in Connected /\ "ESTABLISHED" \in State \ {"FREED"}
    BY DEF Connected, State
  <2> QED
    BY <1>8, <2>1, <2>4, <2>5, Entered
<1>11. CASE t.state = "FIN_WAIT_1" /\ fin
  <2>1. m' = Restate(acked, s, "FIN_WAIT_2")
    BY <1>4, <1>11 DEF Restate
  <2>2. "FIN_WAIT_2" \in State
    BY DEF State
  <2>3. /\ Linked(m') /\ Only(m', acked, s)
        /\ m'.st[s] = [acked.st[s] EXCEPT !.state = "FIN_WAIT_2"]
    BY <1>9, <2>1, <2>2, Restated
  <2> DEFINE v == m'.st[s]
  <2>4. /\ v.state = "FIN_WAIT_2" /\ v.unsent = u.unsent /\ v.flight = u.flight
        /\ v.out = u.out
    BY <1>5, <1>8, <2>3 DEF Tcb
  <2>5. Sound(v)
    <3> HIDE DEF v
    <3> QED
      BY <1>1, <1>5, <1>11, <2>4 DEF Sound, Queued, DataStates
  <2>6. s \notin DelayedOf(acked)
    BY <1>7, <1>9, <1>11 DEF Connected
  <2> QED
    BY <1>8, <2>3, <2>5, <2>6, OnlyGood
<1>12. CASE t.state = "LAST_ACK" /\ fin
  <2>1. m' = DestroyTCPStream(acked, s)
    BY <1>4, <1>12
  <2>2. s \notin DelayedOf(acked)
    BY <1>7, <1>9, <1>12 DEF Connected
  <2> QED
    BY <1>8, <2>1, <2>2, DestroyedGood
<1>13. CASE /\ t.state # "SYN_SENT" /\ ~(t.state = "FIN_WAIT_1" /\ fin)
            /\ ~(t.state = "LAST_ACK" /\ fin)
  <2>1. m' = acked
    BY <1>4, <1>13
  <2> QED
    BY <1>8, <2>1
<1> QED
  BY <1>10, <1>11, <1>12, <1>13

\* What was sent is to be sent again.
BackTcb(t) ==
    [t EXCEPT !.unsent = t.unsent + t.flight, !.flight = 0, !.out = "none",
              !.nrtx = t.nrtx + 1]

LEMMA BackIs ==
    ASSUME NEW t \in Tcb, NEW u, u = BackTcb(t)
    PROVE  /\ u \in Tcb /\ u.on_control = t.on_control /\ u.on_send = t.on_send
           /\ u.on_ack = t.on_ack /\ u.state = t.state
           /\ u.unsent = t.unsent + t.flight
           /\ u.flight = 0 /\ u.out = "none" /\ u.peer_wnd = t.peer_wnd
<1> DEFINE no == 0  none == "none"  all == t.unsent + t.flight  n == t.nrtx + 1
<1>1. no \in Nat /\ none \in {"none", "SYN", "FIN"} /\ all \in Nat /\ n \in Nat
  BY DEF Tcb
<1>2. u = [t EXCEPT !.unsent = all, !.flight = no, !.out = none, !.nrtx = n]
  BY DEF BackTcb
<1> HIDE DEF no, none, all, n
<1>3. /\ u \in Tcb /\ u.on_control = t.on_control /\ u.on_send = t.on_send
      /\ u.on_ack = t.on_ack /\ u.state = t.state /\ u.unsent = all
      /\ u.flight = no /\ u.out = none /\ u.peer_wnd = t.peer_wnd
  BY ZenonT(60), <1>1, <1>2 DEF Tcb
<1> QED
  BY <1>3 DEF no, none, all

LEMMA BackTouches ==
    ASSUME NEW r \in SenderRec, NEW s \in Stream
    PROVE  [r EXCEPT !.st[s].unsent = @ + r.st[s].flight, !.st[s].flight = 0,
                     !.st[s].out = "none", !.st[s].nrtx = @ + 1]
           = Touch(r, s, BackTcb(r.st[s]), r.room)
<1> DEFINE no == 0  none == "none"
           all == r.st[s].unsent + r.st[s].flight  n == r.st[s].nrtx + 1
           t == [r.st[s] EXCEPT !.unsent = all, !.flight = no, !.out = none, !.nrtx = n]
<1>0. [r EXCEPT !.st[s].unsent = @ + r.st[s].flight, !.st[s].flight = 0,
                !.st[s].out = "none", !.st[s].nrtx = @ + 1]
      = [r EXCEPT !.st[s].unsent = all, !.st[s].flight = no,
                  !.st[s].out = none, !.st[s].nrtx = n]
  OBVIOUS
<1> HIDE DEF no, none, all, n
<1>1. [r EXCEPT !.st[s].unsent = all, !.st[s].flight = no,
                !.st[s].out = none, !.st[s].nrtx = n]
      = [r EXCEPT !.st = [r.st EXCEPT ![s] = t]]
  BY ZenonT(60) DEF SenderRec, Tcb
<1> HIDE DEF t
<1>2. [r EXCEPT !.st = [r.st EXCEPT ![s] = t]] = Touch(r, s, t, r.room)
  BY DEF Touch, SenderRec
<1>3. t = BackTcb(r.st[s])
  BY DEF t, no, none, all, n, BackTcb
<1> QED
  BY <1>0, <1>1, <1>2, <1>3

LEMMA HandleRTOGood ==
    ASSUME Good(m), NEW s \in Stream, HandleRTO(s)
    PROVE  Good(m')
<1> DEFINE t == m.st[s]
           u == BackTcb(t)
           back == [m EXCEPT !.st[s].unsent = @ + t.flight, !.st[s].flight = 0,
                             !.st[s].out = "none", !.st[s].nrtx = @ + 1]
           more == t.unsent + t.flight > 0
           off == RemoveFromControlList(back, s)
           waits == [off EXCEPT !.st[s].control_list_waiting = TRUE]
           data == t.state \in {"ESTABLISHED", "CLOSE_WAIT"}
           fins == t.state \in {"FIN_WAIT_1", "LAST_ACK"} /\ more
<1>1. m \in SenderRec /\ t \in Tcb /\ Sound(t) /\ Linked(m)
  BY Unlisted DEF Good
<1>2. t.state # "FREED" /\ t.state # "CLOSED_RSVD"
  <2>1. Outstanding(t) /\ t.state # "CLOSED_RSVD"
    BY Zenon DEF HandleRTO
  <2> QED
    BY <1>1, <2>1, FreedIs DEF Outstanding, Sound
<1>3. t.unsent \in Nat /\ t.flight \in Nat /\ t.nrtx \in Nat /\ MaxRtx \in Nat
  BY <1>1, SenderAssumption DEF Tcb
<1>4. /\ t.nrtx < MaxRtx \/ ~Delayed(s)
      /\ m' = CASE t.nrtx >= MaxRtx -> DestroyTCPStream(m, s)
                [] t.nrtx < MaxRtx /\ data -> AddtoSendList(back, s)
                [] t.nrtx < MaxRtx /\ fins -> AddtoSendList(waits, s)
                [] OTHER -> AddtoControlList(back, s)
  BY Zenon DEF HandleRTO
<1>5. /\ u \in Tcb /\ u.on_control = t.on_control /\ u.on_send = t.on_send
      /\ u.on_ack = t.on_ack /\ u.state = t.state /\ u.unsent = t.unsent + t.flight
      /\ u.flight = 0 /\ u.out = "none" /\ u.peer_wnd = t.peer_wnd
  BY <1>1, BackIs
<1>6. back = Touch(m, s, u, m.room) /\ m.room \in Int
  BY <1>1, BackTouches DEF SenderRec
<1>7. s \in DelayedOf(m) => t.state \in Connected
  BY DEF Good, DelaysAgree
<1> HIDE DEF u, back
<1>8. Linked(back) /\ Only(back, m, s) /\ back.st[s] = u
  BY <1>1, <1>5, <1>6, Touched
<1>9. back \in SenderRec
  BY <1>8 DEF Linked
<1>10. ASSUME NEW p, Linked(p), Only(p, m, s), NEW v \in Tcb, p.st[s] = v,
              v.state = t.state, v.unsent = u.unsent, v.flight = 0, v.out = "none",
              v.peer_wnd = t.peer_wnd, data \/ fins, m' = AddtoSendList(p, s)
       PROVE  Good(m')
  <2>1. Linked(m') /\ Only(m', p, s) /\ m'.st[s] = [v EXCEPT !.on_send = TRUE]
    BY <1>10, SendListed
  <2>2. Only(m', m, s)
    BY <1>1, <1>10, <2>1, OnlyTwice, Unlisted
  <2>3. /\ m'.st[s].state = t.state /\ m'.st[s].flight = 0 /\ m'.st[s].out = "none"
        /\ m'.st[s].peer_wnd = t.peer_wnd /\ m'.st[s].on_send
    BY <1>10, <2>1 DEF Tcb
  <2>4. Sound(m'.st[s])
    BY <1>1, <1>2, <1>10, <2>3 DEF Sound, Queued, DataStates
  <2> QED
    BY <1>7, <2>1, <2>2, <2>3, <2>4, OnlyGood
<1>11. CASE t.nrtx >= MaxRtx
  <2>1. m' = DestroyTCPStream(m, s)
    BY <1>3, <1>4, <1>11
  <2>2. s \notin DelayedOf(m)
    BY <1>3, <1>4, <1>11, NotDelayed
  <2> QED
    BY <2>1, <2>2, DestroyedGood
<1>12. CASE t.nrtx < MaxRtx /\ data
  <2>1. m' = AddtoSendList(back, s)
    BY <1>3, <1>4, <1>12
  <2> QED
    BY <1>5, <1>8, <1>10, <1>12, <2>1
<1>13. CASE t.nrtx < MaxRtx /\ fins
  <2>1. m' = AddtoSendList(waits, s)
    BY <1>3, <1>4, <1>13
  <2>2. Linked(off) /\ Only(off, back, s) /\ off.st[s] = [u EXCEPT !.on_control = FALSE]
    BY <1>8, ControlUnlisted
  <2> HIDE DEF off
  <2>3. off \in SenderRec /\ off.st[s] \in Tcb /\ Only(off, m, s) /\ Linked(off)
    BY <1>1, <1>8, <1>9, <2>2, OnlyTwice, Unlisted
  <2> DEFINE yes == TRUE
             v == [off.st[s] EXCEPT !.control_list_waiting = yes]
  <2>4. yes \in BOOLEAN /\ waits = [off EXCEPT !.st[s].control_list_waiting = yes]
    OBVIOUS
  <2> HIDE DEF yes, waits
  <2>5. /\ v \in Tcb /\ v.on_control = off.st[s].on_control
        /\ v.on_send = off.st[s].on_send /\ v.on_ack = off.st[s].on_ack
    BY <2>3, <2>4 DEF Tcb
  <2>6. waits = Touch(off, s, v, off.room) /\ off.room \in Int
    BY <2>3, <2>4 DEF Touch, SenderRec
  <2>7. /\ v.state = t.state /\ v.unsent = u.unsent /\ v.flight = 0 /\ v.out = "none"
        /\ v.peer_wnd = t.peer_wnd
    BY <1>5, <2>2, <2>3 DEF Tcb
  <2> HIDE DEF v
  <2>8. Linked(waits) /\ Only(waits, off, s) /\ waits.st[s] = v
    BY ONLY <2>3, <2>5, <2>6, s \in Stream, Touched
  <2>9. Only(waits, m, s)
    BY <1>1, <2>3, <2>8, OnlyTwice, Unlisted
  <2> QED
    BY <1>10, <1>13, <2>1, <2>5, <2>7, <2>8, <2>9
<1>14. CASE t.nrtx < MaxRtx /\ ~data /\ ~fins
  <2>1. m' = AddtoControlList(back, s)
    BY <1>3, <1>4, <1>14
  <2>2. WindowsOpen => t.unsent + t.flight = 0
    BY <1>1, <1>2, <1>3, <1>14 DEF Sound, Queued, DataStates
  <2>3. Sound(u)
    BY <1>1, <1>2, <1>3, <1>5, <2>2 DEF Sound, Queued, DataStates
  <2>4. Good(back)
    BY <1>5, <1>7, <1>8, <2>3, OnlyGood
  <2>5. Linked(m') /\ Only(m', back, s) /\ Kin(m'.st[s], back.st[s])
    BY <1>8, <2>1, ControlAdded
  <2>6. back.st[s].state # "FREED"
    BY <1>2, <1>5, <1>8
  <2> QED
    BY <2>4, <2>5, <2>6, KinGood
<1> QED
  BY <1>3, <1>11, <1>12, <1>13, <1>14

\* A step of the hosts, or of the ARP timer.
LEMMA ArpGood ==
    ASSUME NEW r, Good(r), NEW table \in SUBSET Addr, NEW list \in SUBSET Addr,
           NEW wire \in SUBSET Addr, NEW lost \in Int,
           NEW q, q = [r EXCEPT !.arp_table = table, !.arp_list = list,
                                !.arp_wire = wire, !.lost = lost]
    PROVE  Good(q)
<1>1. r \in SenderRec
  BY DEF Good, Linked
<1>2. /\ q \in SenderRec /\ q.st = r.st /\ q.closeq_int = r.closeq_int
      /\ q.resetq_int = r.resetq_int /\ q.control_list = r.control_list
      /\ q.send_list = r.send_list /\ q.ack_list = r.ack_list
  BY <1>1 DEF SenderRec
<1>3. Linked(q)
  BY <1>2 DEF Good, Linked, OnControl, OnSend, OnAck
<1>4. DelaysAgree(q)
  BY <1>2 DEF Good, DelaysAgree, DelayedOf
<1> QED
  BY <1>2, <1>3, <1>4 DEF Good

LEMMA HostsGood ==
    ASSUME Good(m), NEW a \in Addr,
           HostReplies(a) \/ ArpLost(a) \/ HostAsks(a) \/ ArpTimesOut(a)
    PROVE  Good(m')
<1>1. /\ m \in SenderRec
      /\ m.arp_table \in SUBSET Addr /\ m.arp_list \in SUBSET Addr
      /\ m.arp_wire \in SUBSET Addr /\ m.lost \in Int
  BY DEF Good, Linked, SenderRec
<1>2. CASE HostReplies(a)
  <2> DEFINE table == m.arp_table \cup {a}
             list == m.arp_list \ {a}
             wire == m.arp_wire \ {a}
  <2>1. m' = [m EXCEPT !.arp_table = table, !.arp_list = list,
                       !.arp_wire = wire, !.lost = m.lost]
    BY <1>1, <1>2 DEF HostReplies, ProcessARPReply, RegisterARPEntry, SenderRec
  <2>2. table \in SUBSET Addr /\ list \in SUBSET Addr /\ wire \in SUBSET Addr
    BY <1>1
  <2> HIDE DEF table, list, wire
  <2> QED
    BY <1>1, <2>1, <2>2, ArpGood
<1>3. CASE ArpLost(a)
  <2> DEFINE wire == m.arp_wire \ {a}
             lost == m.lost + 1
  <2>1. m' = [m EXCEPT !.arp_table = m.arp_table, !.arp_list = m.arp_list,
                       !.arp_wire = wire, !.lost = lost]
    BY <1>1, <1>3 DEF ArpLost, SenderRec
  <2>2. wire \in SUBSET Addr /\ lost \in Int
    BY <1>1
  <2> HIDE DEF wire, lost
  <2> QED
    BY <1>1, <2>1, <2>2, ArpGood
<1>4. CASE HostAsks(a)
  <2> DEFINE table == m.arp_table \cup {a}
  <2>1. m' = [m EXCEPT !.arp_table = table, !.arp_list = m.arp_list,
                       !.arp_wire = m.arp_wire, !.lost = m.lost]
    BY <1>1, <1>4 DEF HostAsks, ProcessARPRequest, RegisterARPEntry, SenderRec
  <2>2. table \in SUBSET Addr
    BY <1>1
  <2> HIDE DEF table
  <2> QED
    BY <1>1, <2>1, <2>2, ArpGood
<1>5. CASE ArpTimesOut(a)
  <2> DEFINE list == m.arp_list \ {a}
  <2>1. m' = [m EXCEPT !.arp_table = m.arp_table, !.arp_list = list,
                       !.arp_wire = m.arp_wire, !.lost = m.lost]
    BY <1>1, <1>5 DEF ArpTimesOut, ARPTimer, SenderRec
  <2>2. list \in SUBSET Addr
    BY <1>1
  <2> HIDE DEF list
  <2> QED
    BY <1>1, <2>1, <2>2, ArpGood
<1> QED
  BY <1>2, <1>3, <1>4, <1>5

-----------------------------------------------------------------------------
(* The theorems.                                                           *)

SenderInv == Good(m)

LEMMA InitGood == Init => SenderInv
<1> SUFFICES ASSUME Init PROVE Good(m)
  BY DEF SenderInv
<1>1. PICK known \in SUBSET Addr :
        m = [st |-> [s \in Stream |-> Idle], closeq_int |-> <<>>, resetq_int |-> <<>>,
             control_list |-> <<>>, ack_list |-> <<>>, send_list |-> <<>>,
             room |-> Room, arp_table |-> known, arp_list |-> {}, arp_wire |-> {},
             lost |-> 0]
  <2>1. setup.known \in SUBSET Addr
    BY SenderAssumption DEF Init
  <2> QED
    BY <2>1 DEF Init
<1>2. /\ Idle \in Tcb /\ Idle.state = "CLOSED" /\ Idle.unsent = 0 /\ Idle.flight = 0
      /\ Idle.out = "none" /\ ~Idle.on_control /\ ~Idle.on_send /\ ~Idle.on_ack
  BY DEF Idle, Tcb, State
<1>3. Sound(Idle)
  BY <1>2 DEF Sound, Queued, DataStates
<1> HIDE DEF Idle
<1>4. /\ m.st = [s \in Stream |-> Idle] /\ m.closeq_int = <<>> /\ m.resetq_int = <<>>
      /\ m.control_list = <<>> /\ m.ack_list = <<>> /\ m.send_list = <<>>
  BY <1>1
<1>5. m \in SenderRec
  BY <1>1, <1>2, SenderAssumption DEF SenderRec
<1>6. OnControl(m) = {} /\ OnSend(m) = {} /\ OnAck(m) = {}
  BY <1>2, <1>4 DEF OnControl, OnSend, OnAck
<1>7. OnList(<<>>, {}) /\ ToSet(<<>>) = {}
  BY DEF OnList, IsInjective, ToSet
<1>8. Linked(m)
  BY <1>4, <1>5, <1>6, <1>7 DEF Linked
<1>9. DelaysAgree(m)
  BY <1>4, <1>7 DEF DelaysAgree, DelayedOf
<1> QED
  BY <1>3, <1>4, <1>8, <1>9 DEF Good

LEMMA NextGood == SenderInv /\ [Next]_vars => SenderInv'
<1> SUFFICES ASSUME Good(m), [Next]_vars PROVE Good(m')
  BY DEF SenderInv
<1>1. ASSUME NEW late \in BOOLEAN, Round(late) PROVE Good(m')
  BY <1>1, RoundGood DEF Round
<1>2. CASE Step
  <2>1. ASSUME NEW s \in Stream,
               \/ Connect(s) \/ Write(s) \/ Close(s) \/ Destroy(s) \/ Abort(s)
               \/ PeerFin(s) \/ HandleRTO(s)
        PROVE  Good(m')
    BY <2>1, ConnectGood, WriteGood, CloseGood, DestroyGood, AbortGood, PeerFinGood,
       HandleRTOGood
  <2>2. ASSUME NEW s \in Stream, NEW opt \in {"now", "agg"}, PeerData(s, opt)
        PROVE  Good(m')
    BY <2>2, PeerDataGood
  <2>3. ASSUME NEW s \in Stream, NEW wnd \in Windows, PeerAck(s, wnd)
        PROVE  Good(m')
    BY <2>3, PeerAckGood
  <2>4. ASSUME NEW a \in Addr,
               HostReplies(a) \/ ArpLost(a) \/ HostAsks(a) \/ ArpTimesOut(a)
        PROVE  Good(m')
    BY <2>4, HostsGood
  <2> QED
    BY <1>2, <2>1, <2>2, <2>3, <2>4 DEF Step
<1>3. CASE UNCHANGED vars
  BY <1>3 DEF vars
<1> QED
  BY <1>1, <1>2, <1>3 DEF Next

\* The inductive invariant: the record is well formed, the lists agree with the
\* flags, a destroyed stream keeps nothing, the delayed streams are connected
\* and in one queue, once, and, for windows of more than one segment, what a
\* stream has sent and has to send fits its state.
THEOREM SenderInvariant == Spec => []SenderInv
<1> QED
  BY InitGood, NextGood, PTL DEF Spec

\* A list holds a stream once, exactly if the stream's flag says so, however the
\* three writers, the delayed requests and the handlers interleave
\* (TAILQ_REMOVE in tcp_out.c).
THEOREM ListsAlwaysAgree == Spec => []ListsAgree
<1>1. SenderInv => ListsAgree
  BY DEF SenderInv, Good, Linked, OnControl, OnSend, OnAck, Sound, ListsAgree
<1> QED
  BY <1>1, SenderInvariant, PTL

\* If every window is of two segments or more, no FIN is sent while data waits
\* to be sent (SendControlPacket).
THEOREM FinIsAfterData == WindowsOpen => (Spec => []FinAfterData)
<1> SUFFICES ASSUME WindowsOpen PROVE Spec => []FinAfterData
  OBVIOUS
<1>1. SenderInv => FinAfterData
  BY DEF SenderInv, Good, Sound, Queued, FinAfterData
<1> QED
  BY <1>1, SenderInvariant, PTL

\* If every window is of two segments or more, data that is not sent is on the
\* send list: WriteTCPDataList takes no stream off it too early.
THEOREM UnsentIsAlwaysQueued == WindowsOpen => (Spec => []UnsentIsQueued)
<1> SUFFICES ASSUME WindowsOpen PROVE Spec => []UnsentIsQueued
  OBVIOUS
<1>1. SenderInv => UnsentIsQueued
  BY DEF SenderInv, Good, Sound, Queued, UnsentIsQueued
<1> QED
  BY <1>1, SenderInvariant, PTL
=============================================================================
