----------------------------- MODULE RecvBuffer -----------------------------
(***************************************************************************)
(* The receive buffer of one direction of a connection: tcp_rb.c with its  *)
(* callers, ProcessTCPPayload (tcp_in.c) in the mTCP thread, mtcp_recv      *)
(* (api.c) in the application thread of an end host, and mtcp_peek and      *)
(* mtcp_ppeek (mos_api.c) in the callbacks of a monitor.                    *)
(*                                                                         *)
(* Bytes have logical offsets 0, 1, ... in the peer's stream.  The buffer  *)
(* holds the window head .. head + Length - 1; offset o is cell o % Length *)
(* of a ring that is made of segments of Unit bytes.  frags lists the      *)
(* ranges that were received; pile is how far they were consumed, and what *)
(* lies between head and pile is given up only when room is needed.        *)
(*                                                                         *)
(* The build disables resizing (DISABLE_DYN_RESIZE), so metalen = len,     *)
(* corr = 0 and no fragment is marked empty.                               *)
(***************************************************************************)
EXTENDS Integers, Sequences, SequencesExt, FiniteSetsExt

CONSTANTS Unit,          \* UNITBUFSIZE
          Segments,      \* rb->lbufsegs
          Modulus,       \* 2^32, of sequence numbers
          InitialWindow, \* TCP_INITIAL_WINDOW
          MaxPayload,    \* the longest payload
          MaxOffset,     \* bound on the stream's length
          MaxRead,       \* the longest read of an application
          Value,         \* contents a byte of a given offset can have
          Modes,         \* users of the buffer, of {"stream", "monitor"}
          Overlap        \* rb->overlap, "FIRST" or "LAST"

Length == Unit * Segments

ASSUME RecvBufferAssumption ==
    /\ {Unit, Segments, MaxPayload, MaxOffset, MaxRead} \subseteq Nat \ {0}
    /\ Modulus >= 2 * Length + MaxPayload
    /\ Modes \subseteq {"stream", "monitor"} /\ Overlap \in {"FIRST", "LAST"}

VARIABLES rb,            \* the tcprb_t: head, pile, frags, and the cells
          rcv_nxt,       \* as an offset
          rcv_wnd,
          pkt,           \* the payload ProcessTCPPayload works on, if any
          peek_offset,   \* of the monitor
          user,          \* who uses the buffer and whether it was closed
          received       \* what the buffer is to hold, by offset

vars == <<rb, rcv_nxt, rcv_wnd, pkt, peek_offset, user, received>>

Offset == 0 .. MaxOffset - 1
Unknown == "unknown"     \* of an offset: not received
Blank == <<"blank">>     \* of a cell: not written yet
Stray == <<"stray">>     \* of a cell: from outside the payload or the segment
Byte == (Offset \X Value) \cup {Blank, Stray}
NoPacket == <<>>

Init ==
    /\ rb = [head |-> 0, pile |-> 0, frags |-> <<>>,
             cells |-> [c \in 0 .. Length - 1 |-> Blank]]
    /\ rcv_nxt = 0 /\ rcv_wnd = InitialWindow /\ pkt = NoPacket
    /\ peek_offset = 0
    /\ user \in [mode : Modes, closed : {FALSE}]
    /\ received = [o \in Offset |-> Unknown]
-----------------------------------------------------------------------------
(* Offsets and cells.                                                      *)

\* A sequence number as the least offset of that number in or after the window.
seq2loff(r, seq) == Min({seq + k * Modulus : k \in 0 .. 2} \cap {o \in Nat : o >= r.head})

\* The code's -1 for an offset outside the window: no caller passes one.
loff2boff(off) == off % Length

Ints(a, b) == [i \in 1 .. b - a + 1 |-> a + i - 1]

\* The cells buf_read and buf_write go through for len bytes at off: to the end
\* of the last segment and on from the first one if the range wraps, and
\* otherwise up to the cell before the last offset.  A range whose two ends
\* are in one segment is taken to lie in it.
Cells(off, len) ==
    LET from == loff2boff(off)
        to == loff2boff(off + len)
    IN  IF from > to THEN Ints(from, Length - 1) \o Ints(0, to - 1)
        ELSE IF from \div Unit = to \div Unit THEN Ints(from, from + len - 1)
        ELSE Ints(from, to - 1)

\* A cell of that range that is not in the segment the copy started in.
Outside(off, len, c) ==
    LET from == loff2boff(off)
    IN  /\ from <= loff2boff(off + len)
        /\ from \div Unit = loff2boff(off + len) \div Unit
        /\ c \div Unit # from \div Unit

buf_read(r, off, len) ==
    [i \in 1 .. len |->
        LET c == Cells(off, len)[i]
        IN  IF Outside(off, len, c) THEN Stray ELSE r.cells[c]]

\* bytes[i] is the i-th byte after the start of the copy.
buf_write(cells, off, len, bytes) ==
    [c \in DOMAIN cells |->
        IF \E i \in 1 .. len : Cells(off, len)[i] = c /\ ~Outside(off, len, c)
        THEN bytes[CHOOSE i \in 1 .. len : Cells(off, len)[i] = c]
        ELSE cells[c]]
-----------------------------------------------------------------------------
(* tcp_rb.c on the fragments.                                              *)

Frag(h, t) == [head |-> h, tail |-> t]

\* The first fragment holds the next bytes to consume.
Contiguous(r) == r.frags # <<>> /\ r.frags[1].head = r.head

tcprb_cflen(r) == IF Contiguous(r) THEN r.frags[1].tail - r.pile ELSE 0

\* Mutant of Window: what waits to be read is not subtracted.
WindowWhole(r) == Length

\* The window ProcessTCPPayload and CopyToUser advertise.
Window(r) == Length - tcprb_cflen(r)

tcprb_setpile(r, new) ==
    IF new \in r.head .. r.head + Length /\ Contiguous(r) /\ new <= r.frags[1].tail
    THEN [r EXCEPT !.pile = new] ELSE r

\* Give up at most len bytes at the head, none that was not consumed.
tcprb_ffhead(r, len) ==
    IF len <= 0 \/ ~Contiguous(r) THEN r
    ELSE LET cflen == r.frags[1].tail - r.head
             ff == Min({len, cflen, r.pile - r.head})
         IN  [r EXCEPT !.head = @ + ff,
                       !.frags = IF ff = cflen THEN Tail(@)
                                 ELSE ReplaceAt(@, 1, Frag(r.head + ff, @[1].tail))]

\* Mutant of tcprb_fflen: only a payload longer than the window counts.
tcprb_fflen_len(r, len, off) ==
    IF off < r.head \/ off >= r.pile + Length \/ off + len < r.pile \/ ~Contiguous(r)
    THEN 0 ELSE Max({0, Min({len - Length, r.pile - r.head})})

\* How many bytes tcprb_pwrite would give up for a payload, or 0.
tcprb_fflen(r, len, off) ==
    IF off < r.head \/ off >= r.pile + Length \/ off + len < r.pile \/ ~Contiguous(r)
    THEN 0 ELSE Max({0, Min({off + len - (r.head + Length), r.pile - r.head})})

\* frags_insert: before the first fragment with a greater head.
frags_insert(frags, f) ==
    LET later == {i \in 1 .. Len(frags) : frags[i].head > f.head}
    IN  IF later = {} THEN Append(frags, f) ELSE InsertAt(frags, Min(later), f)

\* Mutant of Extend: two fragments that meet are not merged.
ExtendUnmerged(frags, j, len) ==
    LET tail == frags[j].tail
        n == IF j < Len(frags) THEN Min({frags[j + 1].head - tail, len}) ELSE len
    IN  [frags |-> ReplaceAt(frags, j, Frag(frags[j].head, tail + n)), wrlen |-> n]

\* Fragment j grows by up to len bytes, as far as the next one, with which it
\* is merged if they meet.
Extend(frags, j, len) ==
    LET tail == frags[j].tail
        last == j = Len(frags)
        n == IF last THEN len ELSE Min({frags[j + 1].head - tail, len})
    IN  [frags |-> IF ~last /\ tail + n = frags[j + 1].head
                   THEN RemoveAt(ReplaceAt(frags, j,
                            Frag(frags[j].head, frags[j + 1].tail)), j + 1)
                   ELSE ReplaceAt(frags, j, Frag(frags[j].head, tail + n)),
         wrlen |-> n]

\* Mutant of KeepsOld: the policy is not asked.
KeepsOldNever(skip) == FALSE

\* Bytes that were received before are written again by the policy LAST only.
KeepsOld(skip) == skip /\ Overlap = "FIRST"

\* One round of tcprb_pwrite's loop: w.uoff bytes of the len bytes at off are
\* done.  The first fragment that reaches the next byte holds it already
\* (skip), ends there, or begins later in the range; otherwise the range
\* becomes a new fragment.
Round(w, off, len, bytes) ==
    LET pos == off + w.uoff
        reach == {j \in w.f .. Len(w.frags) : w.frags[j].tail >= pos}
        j == Min(reach)
        new == reach = {} \/ w.frags[j].head > off + len
        skip == ~new /\ w.frags[j].head <= pos /\ w.frags[j].tail > pos
        step ==
            IF new THEN [frags |-> frags_insert(w.frags, Frag(off, off + len)),
                         wrlen |-> len]
            ELSE IF skip THEN [frags |-> w.frags, wrlen |-> w.frags[j].tail - pos]
            ELSE IF w.frags[j].tail = pos THEN Extend(w.frags, j, len - w.uoff)
            ELSE [frags |-> ReplaceAt(w.frags, j, Frag(pos, w.frags[j].tail)),
                  wrlen |-> w.frags[j].head - pos]
    IN  [frags |-> step.frags, f |-> IF new THEN 1 ELSE j,
         uoff |-> w.uoff + step.wrlen,
         cells |-> IF KeepsOld(skip) THEN w.cells
                   ELSE buf_write(w.cells, pos, step.wrlen,
                                  [i \in 1 .. step.wrlen |-> bytes[w.uoff + i]])]

\* What tcprb_pwrite refuses (-1), and what it takes for written.
Refused(r, off) == off < r.head \/ off >= r.pile + Length
AlreadyWritten(r, off, len) == off + len < r.pile

\* How far the payload reaches beyond the window.
Overrun(r, off, len) == off + len - (r.head + Length)

\* tcprb_pwrite of a payload of olen bytes v at off.
tcprb_pwrite(r, olen, off, v) ==
    IF Refused(r, off) \/ AlreadyWritten(r, off, olen) THEN r
    ELSE LET ff == Overrun(r, off, olen)
             moved == tcprb_ffhead(r, ff)
             len == IF ff > 0 THEN olen - (ff - (moved.head - r.head)) ELSE olen
             bytes == [i \in 1 .. MaxPayload + Length |->
                         IF i <= olen THEN <<off + i - 1, v>> ELSE Stray]
             start == [frags |-> moved.frags, f |-> 1, uoff |-> 0,
                       cells |-> moved.cells]
             w[n \in 0 .. len] ==
                IF n = 0 THEN start
                ELSE IF w[n - 1].uoff >= len THEN w[n - 1]
                ELSE Round(w[n - 1], off, len, bytes)
         IN  [moved EXCEPT !.frags = w[len].frags, !.cells = w[len].cells]

FragAt(r, off) ==
    {i \in 1 .. Len(r.frags) : off >= r.frags[i].head /\ off < r.frags[i].tail}

\* Mutant of PeekLen: the fragment's end is not looked at.
PeekLenAll(r, len, off) == len

\* How much tcprb_ppeek copies.
PeekLen(r, len, off) == Min({len, r.frags[Min(FragAt(r, off))].tail - off})

\* tcprb_ppeek where there is a fragment.
tcprb_ppeek(r, len, off) == buf_read(r, off, PeekLen(r, len, off))
-----------------------------------------------------------------------------
(* The mTCP thread: ProcessTCPPayload.                                     *)

\* The checks before the lock.  Of a payload that fails them nothing is kept.
CheckPayload(t, n, v) ==
    /\ pkt = NoPacket
    /\ t + n >= rcv_nxt /\ t + n <= rcv_nxt + rcv_wnd
    /\ pkt' = [t |-> t, len |-> n, v |-> v]
    /\ UNCHANGED <<rb, rcv_nxt, rcv_wnd, peek_offset, user, received>>

\* What is to be in the buffer after payload p was written to r with the result
\* s: every byte of p that fits into the window, over or under older ones.
Expected(r, s, p) ==
    LET off == seq2loff(r, p.t % Modulus)
        taken == ~Refused(r, off) /\ ~AlreadyWritten(r, off, p.len)
    IN  [o \in Offset |->
            IF o < s.head THEN Unknown
            ELSE IF taken /\ o \in off .. Min({off + p.len, s.head + Length}) - 1
                    /\ (received[o] = Unknown \/ Overlap = "LAST")
            THEN p.v ELSE received[o]]

\* A monitor without an end host consumes as it goes.
Piled == IF user.mode = "monitor"
         THEN tcprb_setpile(rb, rb.pile + tcprb_cflen(rb)) ELSE rb

\* ProcessTCPPayload calls back with MOS_ON_ERROR before the payload in hand
\* displaces bytes that the monitor has not peeked.
Outrun ==
    /\ user.mode = "monitor" /\ pkt # NoPacket
    /\ LET fflen == tcprb_fflen(Piled, pkt.len, seq2loff(rb, pkt.t % Modulus))
       IN  fflen > 0 /\ peek_offset < rb.head + fflen

\* The rest, under read_lock.  A closed stream discards what it receives.
StorePayload ==
    /\ pkt # NoPacket
    /\ LET before == Piled
           written == tcprb_pwrite(before, pkt.len,
                                   seq2loff(before, pkt.t % Modulus), pkt.v)
           cftail == written.pile + tcprb_cflen(written)
           after == IF user.closed THEN tcprb_setpile(written, cftail) ELSE written
       IN  /\ rb' = after
           /\ rcv_nxt' = Max({rcv_nxt, cftail})
           /\ rcv_wnd' = Window(after)
           /\ received' = Expected(before, after, pkt)
    /\ pkt' = NoPacket
    /\ UNCHANGED <<peek_offset, user>>
-----------------------------------------------------------------------------
(* The readers.                                                            *)

Reading == user = [mode |-> "stream", closed |-> FALSE]

\* mtcp_recv: CopyToUser, under read_lock.
CopyToUser(n) ==
    /\ Reading /\ FragAt(rb, rb.pile) # {}
    /\ rb' = tcprb_setpile(rb, rb.pile + Len(tcprb_ppeek(rb, n, rb.pile)))
    /\ rcv_wnd' = Window(rb')
    /\ UNCHANGED <<rcv_nxt, pkt, peek_offset, user, received>>

\* mtcp_close, when the mTCP thread takes the stream to FIN_WAIT_1: nobody
\* reads any more.
Close ==
    /\ Reading /\ pkt = NoPacket
    /\ user' = [user EXCEPT !.closed = TRUE]
    /\ UNCHANGED <<rb, rcv_nxt, rcv_wnd, pkt, peek_offset, received>>

\* A monitor calls mtcp_peek and mtcp_ppeek in a callback, that of a packet that
\* was processed or that of an outrun.
InCallback == user.mode = "monitor" /\ (pkt = NoPacket \/ Outrun)

\* mtcp_peek: bytes that were given up are skipped.  The call with nothing
\* left to peek ends the process and is not made here.
mtcp_peek(n) ==
    /\ InCallback
    /\ \/ /\ FragAt(rb, peek_offset) # {}
          /\ peek_offset' = peek_offset + Len(tcprb_ppeek(rb, n, peek_offset))
       \/ peek_offset < rb.head /\ peek_offset' = rb.head
    /\ UNCHANGED <<rb, rcv_nxt, rcv_wnd, pkt, user, received>>

\* The offsets that can be read from now: CopyToUser and PeekForUser read at
\* pile, mtcp_peek at peek_offset and mtcp_ppeek anywhere.  PeekForUser and
\* mtcp_ppeek change nothing and are no actions.
ReadOffsets ==
    {off \in Offset : /\ FragAt(rb, off) # {}
                      /\ (Reading /\ off = rb.pile) \/ InCallback}

Packets ==
    \/ \E n \in 1 .. MaxPayload, v \in Value :
          \E t \in 0 .. MaxOffset - n : CheckPayload(t, n, v)
    \/ StorePayload

Reads ==
    \/ Close
    \/ \E n \in 1 .. MaxRead :
          CopyToUser(n) \/ mtcp_peek(n)

Next == Packets \/ Reads

Spec == Init /\ [][Next]_vars
-----------------------------------------------------------------------------
(* Properties.                                                             *)

Covered(r) == UNION {f.head .. f.tail - 1 : f \in Range(r.frags)}

\* Types; fragments lie in the window, and so does what was consumed.
TypeOK ==
    /\ rb.head \in 0 .. MaxOffset /\ rb.pile \in rb.head .. rb.head + Length
    /\ rb.frags \in Seq([head : Nat, tail : Nat])
    /\ Covered(rb) \subseteq rb.head .. rb.head + Length - 1
    /\ rb.cells \in [0 .. Length - 1 -> Byte]
    /\ rcv_nxt \in 0 .. MaxOffset /\ rcv_wnd \in 0 .. Max({InitialWindow, Length})
    /\ peek_offset \in 0 .. MaxOffset
    /\ received \in [Offset -> Value \cup {Unknown}]

\* The list of fragments is the set of bytes received: in order, disjoint,
\* never adjacent, and every byte that was accepted and not given up is in
\* one of them, in whatever order and with whatever overlap they came.
Reassembled ==
    /\ \A i \in 1 .. Len(rb.frags) : rb.frags[i].head < rb.frags[i].tail
    /\ \A i \in 1 .. Len(rb.frags) - 1 : rb.frags[i].tail < rb.frags[i + 1].head
    /\ Covered(rb) = {o \in Offset : received[o] # Unknown}

\* The cells hold what was received, after wrapping round and with copies of
\* old bytes that differ: no write for one offset hits the cell of another.
ContentIntact ==
    \A o \in Covered(rb) : rb.cells[loff2boff(o)] = <<o, received[o]>>

\* A payload that passed the check against rcv_wnd is stored to its last byte,
\* although the check is made before the lock is taken, and the window counts
\* room that is only made now by moving head.  It does not hold of the first
\* window, TCP_INITIAL_WINDOW, which may be larger than the buffer, nor of a
\* payload that begins before head.
AcceptedIsStored ==
    [][pkt # NoPacket /\ pkt' = NoPacket /\ pkt.t >= rb.head /\ rcv_wnd <= Length =>
          pkt.t .. pkt.t + pkt.len - 1 \subseteq Covered(rb')]_vars

\* No byte is taken from a monitor that has not peeked it unless MOS_ON_ERROR
\* was raised for this payload: tcprb_fflen foretells what tcprb_ffhead does.
OutrunIsAnnounced ==
    [][user.mode = "monitor" /\ rb'.head > rb.head /\ peek_offset < rb'.head
          => Outrun]_vars

\* Whatever mtcp_recv, mtcp_peek and mtcp_ppeek can read now are the bytes
\* received at these offsets.  mtcp_recv "copies entire data": this holds as
\* long as a read is shorter than the buffer.
ReadIntact ==
    \A off \in ReadOffsets, n \in 1 .. MaxRead :
        LET bytes == tcprb_ppeek(rb, n, off)
        IN  \A i \in 1 .. Len(bytes) :
                bytes[i] = <<off + i - 1, received[off + i - 1]>>
=============================================================================
