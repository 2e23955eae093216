# mOS/mTCP: a TLA+ model of the networking stack

mOS is a user-level TCP stack with monitoring for middleboxes. On every core
run an application thread, which calls the socket API (`core/src/api.c`), and
an mTCP thread, which turns packets, timers and the application's requests into
TCP (`core/src/core.c`). The two share memory and, in the default build, hardly
any locks. This directory holds TLA+ modules for the parts in which that can go
wrong, TLC configurations that check them on small instances, and TLAPS proofs
for arbitrary instances.

Paths below are relative to `src/core/src/` unless they begin with `src/`.

The model is of the default build: `NDEBUG` is defined (`Makefile.in`), so an
assert is a claim and not a stop; `LOCK_STREAM_QUEUE` is FALSE,
`TRY_SEND_BEFORE_QUEUE`, `ACK_PIGGYBACK`, `RECOVERY_AFTER_LOSS` and
`SELECTIVE_WRITE_EVENT_NOTIFY` are TRUE, SACK and
`BE_RESILIENT_TO_PACKET_DROP` are off, `NEWEV` (`scalable_event.c` instead of
`event_callback.c`) and `DISABLE_DYN_RESIZE` (`tcp_rb.h`) are defined.

## 1. Inventory

| Component | State | Operations | Talks to | Hard parts | What makes it correct |
|---|---|---|---|---|---|
| Stream queues (`tcp_stream_queue.c`) | ring of pointers, `_head`, `_tail` | `StreamEnqueue`, `StreamDequeue` | both threads, one on each side | no lock; one free slot tells full from empty | a bounded FIFO; slot written is never the slot read; everything enqueued comes out |
| TCP input (`tcp_in.c`) | `state`, `snd_una`, `snd_nxt`, send buffer, `dup_acks` | one handler per TCP state, `ProcessACK`, `ProcessRST`, `ValidateSequence` | output lists, timers, event poll | delayed, repeated, overtaken segments; state read by the other thread | acknowledged FIN means acknowledged data; asserts hold |
| TCP output (`tcp_out.c`) | control, send and ACK list, `control_list_waiting`, `is_fin_sent` | `AddtoControlList`, `SendControlPacket`, `FlushTCPSendingBuffer`, `WriteTCP*List` | the device, timers | a FIN waits for data and acks that leave by two lists; all streams share the lists; the window, the device or a missing address stops a packet | FIN is last; flags and lists agree; what is owed is sent |
| Timers (`timer.c`) | RTO wheel, timewait list, timeout list, `nrtx` | `AddtoRTOList`, `HandleRTO`, three expiry checks, `UpdateRetransmissionTimer` | lists of the sender, event poll | the two lists share `timer_link`; the wheel is rewound and caught up while timeouts are handled | a stream is on one list; timeouts are handled, not early; what is unacknowledged is sent again; retries end |
| Streams (`tcp_stream.c`, `tcp.c`) | the stream record, the flow table | `CreateTCPStream`, `DestroyTCPStream`, `Raise*Event` | everything | queues may hold a stream that was destroyed | destroyed once, and only when nobody refers to it |
| Socket API (`api.c`) | sockets, `socket->stream` | `mtcp_connect`, `accept`, `read`, `write`, `close`, `abort` | the queues | the state is read, a decision taken, and the request queued without a lock | a closed stream is released; a close is graceful |
| Main loop (`core.c`) | the queues of the core | `RunMainLoop`, `HandleApplicationCalls`, `WritePacketsToChunks`, `FlushEpollEvents` | everything | the queues are drained one after another while the application fills them | the FIN number counts all data written |
| Event poll (`eventpoll.c`) | three event queues, `socket->epoll`, `socket->events`, `waiting` | `mtcp_epoll_ctl`, `mtcp_epoll_wait`, `AddEpollEvent`, `FlushEpollEvents` | both threads | `socket->events` has no lock; full queues drop; wakeup racing with sleep | marks and queues agree; nobody sleeps on a ready socket |
| Send buffer (`tcp_send_buffer.c`) | chunk, `head_seq`, `len` | `SBPut`, `SBRemove` | input, output, API | compaction at the end of the chunk | bytes stay in order and inside the chunk |
| Receive buffer (`tcp_rb.c`) | segments, fragments, buffer list | `tcprb_pwrite`, `tcprb_ppeek`, `tcprb_cflush` | input, API, monitors | overlap, out of order, wrap | equals the set of bytes received |
| Monitoring (`scalable_event.c`, `key_value_store.c`, `mos_api.c`) | paired streams, event trees with reference counts, the store of trees | callbacks, `mtcp_define_event`, `mtcp_register_callback`, `mtcp_cb_stop`, `mtcp_settimer` | input, sockets | callbacks change what is being walked; trees are shared by id; segments are lost on either side of the middlebox | a tree lives as long as it is pointed to; a socket has the callbacks it registered; the pair of streams is true of the two hosts and ends with them |
| Pipes (`pipe.c`) | ring, one lock, one condition | `PipeRead`, `PipeWrite`, `PipeClose` | two application threads, event poll | blocking, close while blocked | FIFO of bytes, no lost wakeup |
| Sockets (`socket.c`), addresses (`addr_pool.c`), flow table (`fhash.c`), pools (`memory_mgt.c`) | free lists and tables | allocate, free, look up | all | two threads | nothing allocated twice, nothing lost |
| ARP, routing, ICMP, Ethernet, IP (`arp.c`, `ip_*.c`, `eth_*.c`, `icmp.c`) | ARP table and request list | request, reply, timeout | output | lost requests, answer racing timeout | a packet that waits for an address is sent |
| Packet I/O (`dpdk_module.c`, `netmap_module.c`, `pcap_module.c`), logger, configuration, packet filter | driver buffers, files | I/O | - | - | outside TLC's reach |

`PROJECT.json` lists the same parts with their status, and under `hazards` the
lines at which something can go wrong that a test would hardly reach.

## 2. Modules

### StreamQueue, BoundedQueue

`StreamQueue` is `tcp_stream_queue.c`, one step per access to shared memory.
`head`, `tail` and `q` are `_head`, `_tail` and `_q`; `enq` and `deq` are the
program counters and locals of the two sides. The fields are volatile and the
build is for x86, where stores become visible in order, so interleaving the
accesses is the right memory model. `tcp_sb_queue.c` and `tcp_rb_frag_queue.c`
are the same text with another element type.

`BoundedQueue` is what the queue promises: a sequence of at most `Capacity`
entries to which one side appends and from which the other takes. `full` and
`empty` are answers about the moment at which the other side's index was read,
because the answer may be old when it is returned. `StreamQueue` implements it
under the mapping from the slots between `head` and `tail` to the sequence
(`ImplementsBoundedQueue`).

### TcpOps, TcpRecv, TcpStream

One end-host stream, from creation to destruction.

`TcpOps` (lists, control packets, timers) and `TcpRecv` (the handlers of
`tcp_in.c`) are operators from the record of the stream before a call to the
record after it, named as the C functions. Its fields:

| Field | Code |
|---|---|
| `state`, `have_reset`, `snd_nxt`, `socket` | the fields of `tcp_stream`; `socket` says whether the pointer is non-null |
| `active` | the stream was created by `mtcp_connect` |
| `on_control`, `on_send`, `on_ack`, `control_waiting` | membership of the sender's lists, `control_list_waiting` |
| `on_rto`, `on_timewait`, `on_timeout`, `nrtx` | `on_rto_idx >= 0`, `on_timewait_list`, `on_timeout_list`, `nrtx` |
| `sndbuf`, `head`, `len`, `snd_una`, `fss`, `is_fin_sent` | the send buffer exists, `head_seq`, `len`, and fields of `sndvar` |
| `queued`, `destroyq` | queues between the threads that hold the stream; how often the destroy queue does |
| `wire` | sequence numbers that were ever sent, so that the peer acknowledges only these |
| `actions`, `out` | `MOS_ACT_*` of the packet in hand; the control packet this step sent |
| `freed`, `bad` | the stream was destroyed; which assert, null or freed pointer was met |

Sequence numbers count units of data: 0 is the SYN, data starts at 1. Windows
admit everything, RTT and congestion control are left out, and the peer's
sequence numbers are reduced to how they compare with `rcv_nxt`: `old`, `next`,
`ahead`, and `zero` for the RST with sequence number 0. A failure in `Fatal`
ends the model's account of the stream (`Crashed`).

`TcpStream` has the actions. `app` is the application thread: calls that read
the state and act on it later are two actions each (`CloseBegin`/`CloseEnd`,
`AbortBegin`/`AbortEnd`, `WriteCopy`/`WriteWake`). `phase` is the position of
the mTCP thread in `RunMainLoop`: received packets, expired timers, the queues
of `HandleApplicationCalls` one by one, then the three `WriteTCP*List`. Every
phase is an action, so the application runs between any two of them. The peer
(`Segments`) acknowledges only what was sent without a gap and sends nothing new
after its FIN; the network repeats, delays and loses. `tx` is whether the device
takes a packet (`EthernetOutput` returns a buffer).

### Arp, Sender

`Sender` has the streams of one `struct mtcp_sender`: `m.control_list`,
`m.ack_list` and `m.send_list` are sequences, served in the order of
`WritePacketsToChunks`, with the breaks, re-insertions and flags of the three
`WriteTCP*List`. A stream is reduced to what decides whether it may send:
`unsent` and `flight` are the data after and before `snd_nxt`, `out` is an
unacknowledged SYN or FIN, `owed` is set by received data and cleared by any
packet of the stream. Data and windows count segments. `FlushTCPSendingBuffer`
is `Flushed` (how many packets pass its tests; the window shrinks with what is
sent and is compared with all that is in flight), `FlushSent` (what that leaves),
`FlushEnds` (the loop breaks) and `FlushRefused` (it returns -3 or -2). `m.room` is
what the device still takes in this round. A loop over a list is `Walk`, a recursive
function: `LoopStep` for each stream of the list as it is when the loop begins, until
the loop breaks. `Round` is a round of the main loop with `closeq_int`,
`resetq_int` and the three lists; requests, segments and timeouts are actions
between rounds. `Arp` are operators on the same record: the table, the
requests in progress (`g_arpm.list`) and those on the wire. `Setups` are the
instances: what the users of each stream do (`does`), how much data they write
(`data`), and which addresses are known at first (`known`).

`TcpStream` has everything that happens to one stream and no other stream;
`Sender` has what streams do to each other. Congestion control is left out of
both.

### RtoWheel

The `rto_hashstore` with its slots, `rto_now_idx` and `rto_now_ts`; timestamps
are modulo `W` and differences are signed. `phase` is the main loop: packets in,
`CheckRtmTimeout`, packets out. The check is a walk: `Slots` is the top of its
loop, `Fire` handles the next stream of the slot (`walk`), which may put itself
on the wheel again, `Enough` is the exit by `thresh`, `Advance` the step to the
next slot. `Tick` lets up to `MaxGap` ticks pass between rounds. `armed` is the
`ts_rto` that put a stream into its slot.

### MonitorFlow

A monitored flow: two hosts, and in the middlebox the pair of streams that
`UpdateMonitor` moves with every packet, first the sender's
(`UpdatePassiveSendTCPContext`), then the receiver's (`UpdateRecvTCPContext`
with its handlers, named as in `tcp_in.c`). A packet is lost before the
middlebox, lost behind it, or arrives (`Emit`); hosts send data, FINs, ACKs and
resets, keep what comes out of order (`rcvd`) and repeat what they do not know to
have arrived. `ProcessTCPPayload` has the window test (`Admitted`, against `rcv_wnd`), the
ring of `Rcvbuf` bytes, which takes a byte by giving up what is before `pile`
(`Fits`), and the window that is left afterwards (`Window`); `have` is what was ever stored,
since a monitor reads it before it is overwritten or is told (`RecvBuffer` has the ring's cells).
`Flight` is how much a host keeps in flight, `TCP_INITIAL_WINDOW` the first `rcv_wnd`.
Streams end by `HandleMonitorStream`, by the timewait check and by the idle check;
`mtcp_cb_stop` ends the monitoring of a side (`StopMon`). `Setups` are the instances: how much each
host sends (`data`), `tcp_tw_interval` (`tw`) and the sides whose monitoring may be stopped
(`stoppable`). `idle`, the hosts and their counters are the reference against which the
streams are judged.

### EventPoll

`eventpoll.c` with the functions that raise events and the calls that consume
what they announce. `epoll` and `events` are the two fields of a socket; `avail`
is what there is to read, accept or write. `|=` and `&=` on `socket->events` are
a load and a store (`MtcpAddBegin`/`MtcpAddEnd`, `AppAddBegin`/`AppAddEnd`,
`FetchBegin`/`FetchEnd`), because the threads hold no common lock there: the
mTCP thread adds without `epoll_lock`. A registration stores `socket->epoll`
(`Registers`), which the mTCP thread sees from then on; only then, and without a lock,
does the application look at what is pending, one kind of event after the other
(`RaisePendingStreamEvents`), and add it. Sockets get their connection (`open`) before or after
that. `Setups` are the instances: the listening sockets, the size of the queues
and what the application does: register sockets that are open already, as accepted
ones are (`late`), take less than there is (`partial`).

### RecvBuffer

`tcp_rb.c` and what calls it: `ProcessTCPPayload` in two steps, because the
window is tested before `read_lock` is taken (`CheckPayload`, `StorePayload`),
`CopyToUser`, `mtcp_peek` and the close. `rb` holds `head`, `pile`, the
fragments as pairs of offsets and the cells of the ring. Offsets grow for ever,
sequence numbers are offsets modulo `Modulus` and `seq2loff` turns one into
the other. A byte is its offset and one of the values it may carry, so that a
retransmission with other contents can be told apart; `received` is the
reference: for every offset the contents the policy keeps. `buf_read` and
`buf_write` go through the segments as the macro does, with the case of a range
that begins and ends in one segment. A user is an end host (`stream`) or a
monitor (`monitor`).

### EventTree

`scalable_event.c` with `key_value_store.c`, and the life of a monitor's sockets
(`AddMonitorStreamSockets`, `FreeMonStream`, `mtcp_cb_stop`). `m.trees` are the
`stree_t` with id, count and nodes, `m.store` is `ev_store`, `ptr` are the
pointers of the sockets by hook point, `walk` is `HandleCb` in the middle of
a tree. A tree's id, an exclusive or of hashes in the code, is the set of its
pairs of event and callback: hashes do not collide here. A node is the path of
events that leads to it. Callbacks run in the middle of a walk and call
`mtcp_register_callback` and `mtcp_cb_stop` on any socket. The code holds no reference to the
tree it walks: once a call has destroyed it the model stops (`Crashed`). `asked` is the
reference: the pairs each pointer should hold. `stree_inc_ref` and `stree_dec_ref`
take how often each tree is counted or given up, so that the calls for all hook
points of a socket, one after another in the code, are one operator.

Left out: de-registration, which `UnregCb` refuses in every call (see below);
events of `mtcp_alloc_event`, which are not entered
into the table of events, and `mtcp_raise_event`, whose key nobody inserts.

### Pipe

`pipe.c`, one step for what a call tests before the lock, one for what it does
under it, one for what it reads after it. `pc` says where each thread is;
`wait` is `pthread_cond_wait`, from which a signal, or POSIX's spurious wakeup,
leads back to the test of the buffer. A non-blocking end may be registered with
epoll, whose queue is here the set of marked events (`EventPoll` has the queues).

### MC modules

The MC modules extend the modules, so that TLC evaluates their assumptions,
and define symmetries; the `.cfg` files give the constants.

## 3. Runs

Passing runs:

| Run | Properties | What it shows |
|---|---|---|
| `stream_queue` | `TypeOK`, `DequeueAsserted`, `StoreMissesReader`, `ImplementsBoundedQueue`, `EveryStreamDelivered` | The ring is a FIFO of `Capacity` entries through several wraps, and a dequeuer that keeps polling gets every stream. Three streams, two slots: full, empty and wrapped states all occur. |
| `tcp_life` | `TimerLinkExclusive`, `GracefulCloseDelivers`, `FinIsLast`, `RetransmissionArmed` | A client's or a server's stream that writes two units, reads, closes or aborts, against a peer that acknowledges, repeats, opens simultaneously, closes and resets, with fast retransmission, timeouts and a full accept queue. Every unit on the wire that is not acknowledged stays in line or keeps its timer, wherever a timeout or a fast retransmission took `snd_nxt` (the FIN is `FinPending`'s). Late copies of the handshake and overtaken acknowledgements would refute the last property; for the first three they are covered by the proofs. |
| `tcp_close` | `FinPending`, `ClosedIsReleased` | An owed FIN is always on a list or a timer. Once the peer, which has sent no RST, is silent, every stream the application let go of is destroyed, except in FIN_WAIT_2, which has no timer in this code. |
| `sender` | `ListsAgree`, `FinAfterData`, `UnsentIsQueued`, `ControlIsSent`, `DataIsSent`, `OwedIsAcked` | Two streams, a device with room for two packets a round, lost ARP requests, retransmission and giving up, delayed closes and resets. In one setup the addresses of the hosts are not known yet; one stream writes, the other one receives. In the other one both write three segments to hosts whose addresses are known, one closes and one gets a FIN: both are on the send list, the window of two stops the first while the second waits, the device is full in the middle of a flush, and a stream is put back behind the other. Lists and flags agree, a FIN comes after the data, unsent data is not forgotten, and SYNs, FINs, data and ACKs to hosts that are up are sent. |
| `timers` | `SlotIsTime`, `NeverEarly`, `LateByTurns` | Two connections on a wheel of four slots, with backoff to a whole turn, skipped ticks and walks that are cut short: index and time of the wheel do not part, a timeout of less than a turn is not handled early, and none is lost. |
| `monitor` | `DataIsSeen`, `StateIsTrue`, `OverIsReleased`, `EndIsReal` | Every pattern of loss before and behind the middlebox, both orders of closing and the simultaneous one, resets, timewait and idle checks, In one setup a flow of a byte each way, whose server's side may be no longer monitored, in the other five bytes from one side past a ring of four, two of them in flight, lost and overtaken on either side: the monitor's window admits all that the host keeps, through gaps and wraps of the ring. |
| `epoll` | `MarkedIsQueued`, `NoSleepOnReady`, `ReadyIsReported` | Both threads add and fetch, with a full queue, partial reads and late registration, during which data arrives: a mark never outlives its event (with one kind of event per socket). An application that registers before it connects, so that it never adds an event itself, and takes all there is, is never left asleep, and every ready socket is reported, with queues that have room for its events. |
| `recv_buffer` | `Reassembled`, `ContentIntact`, `ReadIntact`, `AcceptedIsStored`, `OutrunIsAnnounced` | Payloads that overlap, repeat, leave gaps and wrap: fragments are exactly what was received, the cells hold it, reads return it, what the window admitted is stored, and a monitor is told before bytes it has not read are overwritten. |
| `event_trees` | `RefIsHolders`, `CallbacksAsRegistered` | Trees shared between a listener and its flows, found by id, copied, taken apart and freed, with a store that is full: counts and callbacks stay right, also when callbacks register and stop. |
| `pipe` | `RingInOrder`, `NobodyWaitsInVain`, `FreedUnused`, `WrittenIsRead`, `EndIsReported` | One reader and one writer, each blocking or not: bytes in order, no lost wakeup, no use after the last close, and a non-blocking reader learns of the end. |

Runs in which TLC shows that the code does not do what it or its
documentation says (`findings` quotes the lines):

| Run | Property | Shortest story |
|---|---|---|
| `tcp_closing_control` | `ClosingSendsFinOrAck` | Both sides close; `case TCP_ST_CLOSING` lacks its `break`, falls into CLOSED_RSVD, sends a RST and destroys. |
| `sender_blocked` | `ControlIsSent` | Connect to a host that does not answer ARP, then to one that does: the first SYN stays at the head of the control list, `WriteTCPControlList` stops there in every round, and the second SYN is not sent although its address is known. |

Further configurations are not runs of the project. Each states what the passing
runs have to leave out (a peer, a size or a habit) and is refuted by TLC; `MCX*.cfg`
belongs to the module `MCX` whose name it begins with:

| Configuration | Property | Shortest story |
|---|---|---|
| `MCTcpStreamFlush.cfg` | `SequenceIsValid` | Three acknowledgements that newer ones overtook count as duplicates, and `snd_nxt` is set before the send buffer (`tcp_in.c:413`), which `tcp_out.c:447` calls invalid and asserts not to happen. |
| `MCTcpStreamEarlyFin.cfg` | `FinFollowsData` | `mtcp_write` copies; the send queue is drained; the wakeup and `mtcp_close` are queued; the close queue is drained: the FIN leaves before the data (then failure `flush_past_end`). |
| `MCTcpStreamDup.cfg` | `ClosedIsReleased` | Three duplicates in FIN_WAIT_1 pull `snd_nxt` below the FIN; when the data is acknowledged the timer is stopped, and the lost FIN is never sent again. |
| `MCTcpStreamReset.cfg` | `ClosedIsReleased` | A RST between `CloseStreamSocket` reading the state (`api.c:1229`) and the request being handled leaves the stream to nobody. |
| `MCEventPollAccept.cfg` | `ConnectionIsReported` | `mtcp_accept` adds a listening socket's event again (`api.c:893`) while the mTCP thread does so too: two copies; the second one's fetch takes off the mark of a third event, which is then found invalid, and the application sleeps with a connection waiting. |
| `MCSenderWindow.cfg` | `DataIsSent` | The window closes to one segment after a larger one: `FlushTCPSendingBuffer` sends what fits, breaks and returns a positive number (`tcp_out.c:475`); `WriteTCPDataList` takes the stream off the list with data left, and no acknowledgement puts it back. |
| `MCMonitorFlowRing.cfg` | `NewDataIsStored` | A monitor's ring of two with two bytes in flight: after a gap has closed the window is smaller than what the host accepts, the payload is dropped (`tcp_in.c:570`) and not sent again. |
| `MCMonitorFlowStop.cfg` | `OtherSideStays` | The monitoring of the client's side is stopped; its `last_active_ts`, the only one the idle check looks at (`timer.c:508`), stands still, and an active flow is dropped. |
| `MCRecvBufferFull.cfg` | `ReadIntact` | A read of a whole full buffer from inside a segment begins and ends in the same cell: `tcp_rb.c:322` takes it for a range inside one segment and copies from beyond it. |
| `MCEventTreeWalk.cfg` | `WalkedTreeLives` | A callback stops the monitoring of, or registers with, the only socket that holds the tree being walked (`scalable_event.c:915`): the tree is destroyed under `HandleCb`. |

The models reach more places where the code parts with what one would expect
of it. They are no runs of their own:

- `UnregCb` looks for the event and finds the node without a callback that
  `create_spine` puts above the one that has it: every de-registration returns
  -1 (`scalable_event.c:571`), although one "can dynamically de-register the
  event callback handler" (`src/docs/man/mtcp_register_callback:102`).
- The RTO wheel is late by a turn of 2048 ms with a single connection: when
  its SYN is sent again inside `CheckRtmTimeout` the wheel is empty and is
  rewound to the new timeout (`timer.c:34`), and the end of the loop steps
  past that slot (`timer.c:428`). A stream with a shorter timeout than the first
  one's is put behind the wheel as well. `LateByTurns` bounds this. A timeout of
  2048 ms or more wraps and is handled early: the test for it is compiled out
  (`timer.c:50`), and `rto_list[RTO_HASH]`, meant for these, is never used.
- A peer that sends data in every round keeps our FIN waiting: it waits for
  `on_ack`, is tried before the ACK list is served, and stops the
  control list behind it (`tcp_out.c:607`). In `sender` no stream both receives
  data and closes.
- The probe of `tcp_out.c:490` is sent for a small window and not for none. The 64th
  pending ACK wraps `ack_cnt` to 0 (`tcp_out.c:958`).
- `HandleRTO` destroys a stream that waits on `closeq_int` or `resetq_int`,
  which keep the pointer (`timer.c:210`); `AddtoControlList` reads the stream
  after `SendControlPacket` has sent its RST and destroyed it. Both are left out
  of `Sender`.
- A monitor in SYN_RCVD, because the ACK of the handshake was lost before it,
  takes no FIN from a segment without payload (`tcp_in.c:1341`): the flow stays
  until `tcp_timeout`. `OverIsReleased` excepts streams that missed a FIN.
- A stopped side never reaches the state the timewait check waits for. Of
  `MOS_SIDE_BOTH`, which `mtcp_api.h:251` offers, `RemoveMonitorEvents` knows nothing: it
  compares the side with the other two values only.
- When both streams of a flow are on the timewait list, `CheckTimewaitExpire`
  destroys both and goes on with the second (`timer.c:454`), freed memory that
  still says it is not on the list. When `AttachServerTCPStream` fails, the
  destroyed stream is used (`tcp.c:327`). With `tcp_timeout = -1` streams enter
  the timeout list (`tcp_out.c:1026`) and are freed without leaving it
  (`tcp_stream.c:820`). An active flow at the front of that list keeps the idle
  ones behind it (`timer.c:527`).
- A full connect queue makes `mtcp_connect` enqueue to the destroy queue, and
  `mtcp_close` of the socket enqueues again (failure `double_destroy`).
- With fast retransmission, overtaken duplicates or a late copy of the handshake an
  owed FIN may lose its timer, see `MCTcpStreamDup.cfg`. `FinPending` and `ClosedIsReleased`
  therefore belong to `tcp_close`, whose peer does none of these and does not reset.
- A RST in ESTABLISHED leaves the stream on the RTO wheel, so `HandleRTO` meets a
  state it calls "not implemented" (`timer.c:316`, failure `rto_state`).
  A late SYN/ACK in ESTABLISHED sets `snd_nxt` before the send buffer (failure `flush_seq`).
- A simultaneous open brings a client to SYN_RCVD, whose handler uses
  `mtcp->listener`, null in a client (`tcp_in.c:860`, failure `null_listener`);
  `mtcp_abort` before the connect queue is drained makes the mTCP thread exit
  (`core.c:567`, failure `connect_exit`); `mtcp_accept` without a free socket
  forgets the stream (`api.c:876`).
- With IN and OUT on one socket an unlocked update of `socket->events` is lost
  and the application sleeps with room in its send buffer. An event of a socket that is
  registered while data arrives is queued by both threads, as in `MCEventPollAccept.cfg`, and a
  listening socket that is registered when a connection already waits is not reported. The run `epoll` has one kind of
  event per socket, and its liveness is stated for streams (`Careful`).
- With the policy LAST the rest of a payload is written over old data beyond the
  fragment and beyond the payload; `recv_buffer` has the default, FIRST.
- Registering an event twice toggles the tree's id (`Again`).
- A blocking reader of a pipe that sleeps when the writer closes sleeps for ever,
  and so does a blocking writer when the reader closes.

### Bounds

| Bound | Value | Why it is enough |
|---|---|---|
| `Capacity`, streams of the ring | 2, 3 | full, empty, one entry and wrap in each slot; the proofs hold for all |
| `MaxData` of `TcpStream` | 2; 1 in `tcp_close` | a unit that is acknowledged or sent again before another one, and one that suffices for every order of data, FIN and acknowledgement; the proofs of the safety properties hold for all |
| `MaxRtx`, `MaxSynRetry` | 2, 1 | retrying, the last retry and giving up; the code has 16 and 7 |
| `MaxSndNxt` (`Capped`) | `MaxData + 3` | a FIN sent again without a timeout moves `snd_nxt` one further each time, without end in the code |
| `size`, `MaxEvents`, `MaxAvail` of `EventPoll` | 1 or 2, 1, 2 | two sockets of which one is not fetched, a full queue, something left after a partial read |
| `Room`, `Windows` of `Sender` | 2, {2} | a device that is full in the middle of a list; a third segment that the window stops while two are in flight; the proofs hold for all, two of them for windows of two segments and more |
| `MaxLost`, `MaxRtx`, `MaxAcks` of `Sender` | 1, 1, 1 | one lost request or answer, one retransmission and the giving up, one pending ACK |
| `Setups` of `Sender` | one stream writes a segment, closes and is closed and one receives and aborts; two streams write three segments each, one closes and one is closed | the first uses the control, ACK and send list, the second has both streams on the send list; see above for receiving and closing |
| `RTO_HASH`, `W`, `Estimates`, `MaxBackoff` | 4, 32, {1, 2}, 1 | timeouts from one slot to a whole turn; time wraps after eight turns; the proofs hold for all, those about time if a timeout is short against `W` |
| `MaxGap`, `Thresh`, `MaxRtx` of `RtoWheel` | 1, 2, 1 | idle and busy rounds; two streams of one slot, and a third firing that is put off |
| `Setups`, `Timeout` of `MonitorFlow` | (1, 1) with `tw` 0 and 1 and a server's side that may be stopped, (5, 0) with `tw` 1; 2 | each direction has data and a FIN, with both settings of `tcp_tw_interval`; a gap that is filled later, and a ring that wraps; the proofs hold for all |
| `Flight`, `Rcvbuf`, `TCP_INITIAL_WINDOW` | 2, 4, 5 | a byte out of order, two in flight are half of the ring, and a first window larger than the ring, as 14600 is than 8192; the proof holds for all with `Spacious` |
| `Unit`, `Segments` | 2, 2 | ranges inside a segment, across two and wrapped |
| `MaxOffset`, `Modulus`, `MaxPayload` | 12, 11, 3 | the ring and the sequence numbers both wrap; a payload covers two fragments and the gap between them |
| `InitialWindow` | 6, more than the buffer's 4 | as 14600 is more than 8192 |
| `MaxRead` | 3 | all reads but that of a full buffer, see `MCRecvBufferFull.cfg` |
| `Streams`, `Hooks`, `MaxUde`, `MaxCalls` | 1, 2, 2, 3 | a tree shared by listener and flow, one below another event, a third registration on a shared, a private and a found tree; the proofs hold for all |
| `Entries` | 1 | the store is full at once; the code has room for many more |
| `Size`, `MaxLen`, `MaxData` of `Pipe` | 2, 3, 5 | a call longer than the buffer, several wraps; the proofs hold for all |

`CHECK_DEADLOCK FALSE` is set for event poll, where an application that
registered nothing may wait for ever; for the receive buffer, whose stream
has a bounded length; for the pipe, where both ends may be closed; and for the
monitored flow, whose hosts may be done. All others check for deadlock.

### Fairness

- The ring: each side finishes the call it is in, and the dequeuer polls, as the
  mTCP thread does in every round.
- `TcpStream`: weak fairness of the loop (it never blocks) and of the second
  halves of the calls; strong fairness of an armed timer's expiry, because the
  loop passes the timers phase again and again with the clock moving on; strong
  fairness of the writers with `tx` TRUE: the device is not full for ever.
- `Sender`: rounds go on (weak fairness of `Round`). A host that is up
  acknowledges what is outstanding, again and again as long as there is some
  (strong fairness of `Acknowledged`: retransmission, which is left to `TcpStream`,
  makes a lost segment or acknowledgement come again). It answers requests, and old
  requests leave the list, as `ARPTimer` sees to; these are stated as `[]<>` of the
  state they lead to, which is what weak fairness of the actions gives, since losses
  are finitely many. Hosts that are down owe nothing.
- `EventPoll`: the mTCP thread finishes `AddEpollEvent` and comes round to
  `FlushEpollEvents`; the latter strongly, since the mutex is released again and
  again and is eventually granted. The application finishes a registration or another
  call it is in (`AddCalls`) and is an event loop that goes on (`EventLoop`, strongly,
  for the same mutex).
- `Pipe`: a thread finishes the call it is in, and the reader is a loop that
  reads or waits for events; nothing is assumed of the writer's calls, of closing
  or of registering.

Beyond that no fairness is assumed of the peer, of arrivals or of the application's choice
to connect, write, close or abort.

## 4. Proofs

`StreamQueueProofs` holds for every `Capacity > 0`, every set of streams and a
`NULL` outside it:

- `TypeCorrect`: `Spec => []TypeOK`, inductive by itself;
- `Invariance`: the inductive invariant `IInv`. Of `TypeOK` it adds that the
  slots from `_head` up to `_tail` hold streams (`LiveHoldsStreams`), and what
  each side knows at each program counter (`EnqInv`, `DeqInv`): the enqueuer's
  old copy of `_head` is behind the real one by dequeued slots only, so "not
  full" stays true until it publishes, and the dequeuer's "not empty" stays true
  until it advances;
- `DequeueAssertHolds` and `StoreNeverRaces` follow from it;
- `Refinement`: `Spec => ImplementsBoundedQueue`, the safety part of the
  abstract queue: `EnqPublish` appends (`PublishAppends`), `DeqAdvance` takes
  the head (`AdvanceRemoves`), everything else leaves the sequence alone
  (`QueueUntouched`).

`TcpStreamProofs` holds for every amount of data, every limit
of retries, and all segments and calls:

- `TimerLinkSafe` (`TimerLinkExclusive`) from `TimerInvariant`. That no timer link is in two lists would be inductive by
  itself: `AddtoRTOList` and `AddtoTimewaitList` are safe wherever they are called.
  That the timer runs for what lies between `snd_una` and `snd_nxt`, which the proofs
  below need, is not. It is stopped without a look at `snd_nxt` when the
  handshake ends, and left alone when nothing leaves the send buffer. `TimersOK`
  therefore says what was sent before the handshake ends, that `snd_una` is not
  behind `head` after it, and that no close request, waiting FIN or second SYN
  reaches the control list during it.
- `FinComesLast` (`FinIsLast`) and `GracefulClose` (`GracefulCloseDelivers`) from
  `CloseInvariant`. `CloseRequest` computes `fss` in one thread from a buffer the
  other fills. `CloseOK` relates `state`, `fss`, `head`, `len`, `snd_nxt` and `wire`;
  `CloseInv` adds what the application may still do: it lets go of the socket
  before it asks for the FIN, and a stream is handed to it once.

- `FinIsPending` (`FinPending`) from `PendInvariant`, if the peer's segments come in
  order (`Orderly`: no late copy of the handshake, no fourth equal acknowledgement).
  That a list or the timer has the FIN is not inductive: `UpdateRetransmissionTimer`
  goes by `snd_nxt > snd_una` and would stop a timer that only the FIN needs. `PendInv`
  therefore relates `snd_nxt` to what the peer can have received (`Reached`): a stream
  that relies on its timer has `snd_nxt` beyond everything the peer can acknowledge
  (`Beyond`). That is so when the FIN goes out because the stream has left the send
  list, and a stream that is not on it misses at most one number (`Level`): either all
  data was sent, or what was not sent again lies behind a gap on the wire. The proof
  uses `CloseInv` (nothing is written after the FIN is due) and `TimerInv` (nothing but
  the SYN was sent before the handshake ends). The hypothesis is needed: with any one
  of `LATESYN`, `DUP3` and `LATE3` TLC finds a state without `FinPending`.
- `DataIsResent` (`RetransmissionArmed` in the states after the handshake, `Carrying`
  and `Owing`), under the same hypothesis, from both invariants. `snd_nxt` is not a
  measure of what was sent, since timeouts take it back: what is on the wire and lies
  before `snd_nxt` has its timer (`Armed`), what lies behind it is on the send list
  (`Level`), and behind the buffer there is the FIN only (`FinOnly`). With fast
  retransmission (`DUP3`), and for the states of the handshake, it is checked in
  `tcp_life`.

The invariants are stated of any record of a stream, every operator of `TcpOps`
and `TcpRecv` has a lemma on what it does to them, and the proof of a step follows
`Next`. TLC agreed with `PendInv` before it was proved: 780 thousand states, with two
units of data and both orders of opening and closing.

`RtoWheelProofs` holds for every number of streams and slots (`WheelAssumption`):
`WheelInvariant` and `SlotsAreTimes` (`SlotIsTime`). The latter is not inductive:
`AddtoRTOList` rewinds the wheel when `rto_list_cnt` is 0, which is harmless only
if nothing waits then. `WheelOK` says that count, lists and `on_rto_idx` agree
(`Counted`, `Listed`, `Marked`, `Once`, `Buried`), so that 0 means empty, and
`WheelInv` that the walk, whose streams `HandleRTO` moves, is at a stream that is
on its list. Congruences are kept as "whole turns apart" (`Cong`).

`TimeoutsAreHandled` (`LateByTurns`) and `NobodyIsEarly` (`NeverEarly`) are about
time itself and follow from `TimeInvariant`:

- the wheel's mark is never more than `MaxRto + 1` ahead of the present, never more
  than `MaxGap` behind it, and after a check ahead of it (`Low`); the first stream on an
  empty wheel is what sets it ahead (`AddtoRTOList`);
- a stream's slot lies at most `Turns` turns behind the stream's timeout and its
  timeout at most its `rto` ahead (`InTime`); a stream is put behind the walk that
  handles it, so the walk does not meet it again before its time;
- `rto` stays between 1 and `MaxRto` (`RtoOK`): before the handshake it is doubled and
  after it an estimate is shifted, `1 << n` being the recursive function `Power`.

They have two hypotheses. `TimeIsLong`: half of `W` is more than the turns and the gap,
so that a signed difference tells the past from the future; the run has it, and so
does the code with 32 bits and `RTO_HASH` 3000. And no step of the behaviour is
`Enough` (`[][~Enough]_vars`), the exit by `thresh`: a walk that is cut short in every
round falls behind without bound. For rounds that are cut short both properties are
checked within the bounds on firings (`MaxRtx`, `Thresh`) only.

`SenderProofs` holds for every set of streams and hosts, every device, window and
bound: `SenderInvariant` and `ListsAlwaysAgree` (`ListsAgree`), and, if every window is
of two segments or more (`WindowsOpen`), `FinIsAfterData` (`FinAfterData`) and
`UnsentIsAlwaysQueued` (`UnsentIsQueued`). With a window of one segment or none a stream
does leave the send list with data to send: `WriteTCPDataList` looks at what
`FlushTCPSendingBuffer` returned, not at what is left (`tcp_out.c:475`).
The invariant is in parts. `Linked` is the lists and their flags,
which every operator keeps by itself. What a stream has sent and has to send must fit
its state (`Sound`), or a handler would take a stream off the list that another still
needs there. `DelaysAgree` is about `closeq_int` and `resetq_int`: who is in them is
connected and in one of them, once, or a FIN would be asked for twice. Every operator
has a lemma on each part, in terms of what it may do to a stream (`Kin`, `Untold`,
`Moved`). A loop takes streams off the list it walks and puts them back at its end:
that it keeps the invariant is shown for the prefix of the list it has seen, with
`Ahead` for the streams it has still to come to, and the first prefix for which it
would fail is refuted (`Least`).

`MonitorFlowProofs` holds for every amount of data, timeout and timewait interval:
`StatesAreTrue` (`StateIsTrue`), `NothingIsMissed` (`DataIsSeen`), `NothingOutlives`
(`OverIsReleased`) and the action property `EndsAreReal` (`EndIsReal`), all from
`FlowInvariant`. The invariant says of the hosts what TCP makes of them, and of each
stream how it relates to both hosts: what its state claims, what its FIN and its
receive buffer are, and how far it may lag behind. `NothingIsMissed` has the hypothesis
`Spacious` in its formula: hosts keep at most half of the ring, and no more than the first
window, in flight. Then a window that a closing gap has narrowed still admits all that
the host may send next; without it the monitor drops bytes
(`MCMonitorFlowRing.cfg`). `EndsAreReal` is about flows of which the client's side is
monitored, whether or not the server's is; `last_active_ts` of the client's stream is all
the idle check looks at (`MCMonitorFlowStop.cfg` has the others).

`EventPollProofs` holds for every number of sockets, every setup and `maxevents`:

- `QueuesFit` (`TypeOK`): nothing is stored beyond a queue, although the test for
  room and the store are two steps and two of the queues have no lock;
- `MarksAreQueued` (`MarkedIsQueued`), if there is one kind of event per socket
  (`OneKind`): with two, a store of `socket->events` by one thread undoes the
  other's, see above;
- `NoSleep` (`NoSleepOnReady`), if in addition the queues have room for all events
  (`Fits`): a full queue drops, and nobody raises the event again. The application
  registers a socket before it connects it (`Careful`), so the look at what is pending,
  which has no lock, finds nothing to add (`LooksEarly`), and only the mTCP thread adds
  (`OnlyMtcpAdds`): the second copy of an event, whose fetch loses another, needs two
  threads that add (`MCEventPollAccept.cfg`).

`PipeProofs` holds for every size and every length of calls: `TypeCorrect`,
`BytesInOrder` (`RingInOrder`) for any number of threads, and `NobodyWaits`
(`NobodyWaitsInVain`) and `FreeIsSafe` (`FreedUnused`) for one thread per end
(`OneThreadPerEnd`): `pthread_cond_signal` wakes one thread, and a close does not
look for other users of its end. `WaitInv` says for each program counter what makes
the thread's turn come.

`EventTreeProofs` holds for every number of flows, hook points, events and callbacks
and every `KVS_ENTRIES`, also 0:

- `TypeCorrect`: the types, and a store of at most `Entries` entries;
- `TreesAreHeld`, the inductive invariant: a tree counts its holders, what nobody
  holds is free (hence there is always a free tree, as there is one tree more than
  pointers), the store leads to trees that are held and have the id (or a
  tree found by its id could be a destroyed one), a socket that does not exist holds
  nothing, and a walk is over nodes of its tree for as long as somebody holds it: a
  callback may have it destroyed (`Crashed`);
- `CountsAreHolders` (`RefIsHolders`) from it;
- `CallbacksAreNamed` (`CallbacksAsRegistered`), if no event is registered twice with
  one socket and hook point (`~Again`, see above). The strengthening (`NamesOK`) is
  that a tree's id is the set of its pairs, and that a node without a callback is of
  a path on which no event comes twice: the node that gets the callback, on whose
  path its event does come twice, is then never one that `Inherit` finds already.

Hypotheses of theorems are properties of the instance (`OneKind`, `Fits`,
`OneThreadPerEnd`, `~Again`, `WindowsOpen`, `TimeIsLong`, `Orderly`, `Spacious`), each with instances that have
it, the run's among them; only `[][~Enough]_vars` is a property of the behaviour.

Recursive functions (`Walk`, `Power`) are proved about without an induction theorem:
that the set of arguments for which a fact fails has a least element (`Least`, from
`WFMin` of `WellFoundedInduction`) needs no operator as a parameter.

Only model-checked:

- liveness (`EveryStreamDelivered`, `ClosedIsReleased`, `ControlIsSent`, `DataIsSent`,
  `OwedIsAcked`, `ReadyIsReported`, `WrittenIsRead`, `EndIsReported`), which the prover
  does not reach;
- `RecvBuffer`: what the cells hold after `buf_write` has gone through the segments
  is a fact about every length of a payload and every size of a segment. It would take
  the argument by least counterexample for each of the loops over segments and
  fragments, and is not done;
- `NeverEarly` and `LateByTurns` in behaviours with rounds that stop at
  `max_concurrency`, see above;
- `RetransmissionArmed` with fast retransmission, and in SYN_SENT and SYN_RCVD;
- the two runs that expect a violation, of course.

## 5. Not modelled

Congestion control and RTT estimation; contents of packets; options and
addresses of sockets; the order of several flows on the timeout list; user
timers; embedded monitors (a monitor on an end host's own stream); the memory
pools; start and shutdown; gratuitous ARP, ICMP and routing; the drivers;
configuration; the packet filter; the sample applications. `PROJECT.json` gives
the reason for each.

The stack itself is the twenty thousand lines of `core/src/*.c`, of which the
modules stand for about a third; what is left there is mostly drivers,
configuration, header building, statistics and dumps. The repository also
carries libpcap's filter compiler (`core/src/bpf`), lighttpd and other
applications (`src/samples`), five times as much. They are other programs, which
use the stack or are used by it through a narrow interface, and are not
modelled.

Smaller hazards without a model: `dup_acks` wraps after 255 duplicates
(`tcp_in.c:386`), and as `peer_wnd` is set before `ProcessACK` compares it, window
updates count as duplicates; `MOS_EPOLL_CTL_MOD` of an unregistered socket
unlocks a mutex it does not hold (`eventpoll.c:309`); a failing `mtcp_peek` ends
the process (`mos_api.c:295`); the pool of segments may be empty
(`tcp_rb.c:116`); the forest of event definitions has no lock
(`scalable_event.c:764`); a closed pipe end's socket may be allocated again while
the other end still raises events on it (`pipe.c:404`); `ARPTimer` is said to
retransmit and only forgets (`arp.c:317`).

## 6. Plan

Theorems to come: for `RecvBuffer` first what does not need the cells (`pile`, `head` and
the fragments agree), then the cells; `LateByTurns` with `Enough`, the number of firings
as a parameter; a refinement of `EventPoll` to a set of pending events.

Modules to come: `SendBuffer`, the offsets and compaction of
`tcp_send_buffer.c`; `Resources`, composed of `SocketMap`, `AddrPool` and
`FlowTable`: what `mtcp_connect`, `mtcp_accept` and the destruction of a stream
allocate and give back, with both threads; several flows on the timeout list;
thread start and shutdown.
