----------------------------- MODULE EventTree ------------------------------
(***************************************************************************)
(* The callbacks of monitoring sockets: scalable_event.c with the key-     *)
(* value store of key_value_store.c, and what creates, stops and frees a   *)
(* monitor's sockets (tcp_stream.c, mos_api.c, socket.c).                  *)
(*                                                                         *)
(* A socket has one pointer per hook point to a tree of events.  Trees are *)
(* shared: a tree has an id, the exclusive or of the hashes of its pairs   *)
(* of event and callback, and a socket that registers a callback looks for *)
(* a tree of the resulting id before it makes one.  Here the id is the set *)
(* of pairs and the exclusive or their symmetric difference, as if hashes  *)
(* never collided.                                                         *)
(*                                                                         *)
(* A node is the path of events to it from the root.  create_spine gives   *)
(* an event two nodes: one on the way to it, without a callback, and below *)
(* it one of the same event that has the callback.                         *)
(***************************************************************************)
EXTENDS Integers, Sequences, SequencesExt, FiniteSetsExt

CONSTANTS Listener,     \* the passive monitoring socket
          Streams,      \* sockets of MOS_SOCK_MONITOR_STREAM_ACTIVE
          Hooks,        \* hook points
          NumBev,       \* number of built-in events
          Banned,       \* the built-in events that a hook point does not have
          Filter,       \* filter functions
          MaxUde,       \* bound on user-defined events
          Callback,     \* callback functions
          Entries,      \* KVS_ENTRIES
          MaxCalls,     \* bound on calls of mtcp_register_callback
          Again         \* do callers register an event that has a callback?

Null == 0        \* of a pointer to a tree
None == "none"   \* of a callback
Socket == Streams \cup {Listener}
Side == {"cli", "svr"}
Builtin == 0 .. NumBev - 1          \* by the number of their bit
Event == 0 .. NumBev + MaxUde - 1   \* and the user-defined ones after them
Slot == Socket \X Hooks
TreeObj == 1 .. Cardinality(Slot) + 1

ASSUME EventTreeAssumption ==
    /\ IsFiniteSet(Streams) /\ IsFiniteSet(Hooks)
    /\ Listener \notin Streams /\ "rcv" \in Hooks /\ NumBev \in Nat \ {0}
    /\ {MaxUde, Entries, MaxCalls} \subseteq Nat /\ Again \in BOOLEAN
    /\ Banned \in [Hooks -> SUBSET Builtin] /\ None \notin Callback

VARIABLES udes,   \* the user-defined events in order: filter, parent and the
                  \* events from the root, parent by parent
          m,      \* memory: the trees and the store
          ptr,    \* stree_pre_rcv and its like, by socket and hook point
          mon,    \* client_mon and server_mon, by socket
          open,   \* the streams' sockets that exist
          walk,   \* what HandleCb is doing
          calls,  \* number of calls so far
          asked   \* what each pointer is to hold, as pairs

vars == <<udes, m, ptr, mon, open, walk, calls, asked>>

Dead == [id |-> {}, ref |-> 0, nodes |-> <<>>]
Idle == [tree |-> Null, sock |-> Listener, todo |-> {}, running |-> None]

Init ==
    /\ udes = <<>>
    /\ m = [trees |-> [t \in TreeObj |-> Dead], store |-> <<>>]
    /\ ptr = [s \in Slot |-> Null]
    /\ mon = [s \in Socket |-> IF s = Listener THEN Side ELSE {}]
    /\ open = {} /\ walk = Idle /\ calls = 0
    /\ asked = [s \in Slot |-> {}]
-----------------------------------------------------------------------------
(* The forest of definitions.                                              *)

Defined == Builtin \cup {NumBev + k - 1 : k \in 1 .. Len(udes)}
Ude(ev) == udes[ev - NumBev + 1]

\* The events from the root to ev.
PathTo(ev) == IF ev \in Builtin THEN <<ev>> ELSE Ude(ev).path

\* mtcp_define_event: the event of this filter below ev, made if need be.
mtcp_define_event(ev, ft) ==
    /\ walk = Idle /\ ev \in Defined /\ Len(udes) < MaxUde
    /\ \A k \in DOMAIN udes : <<udes[k].parent, udes[k].ft>> # <<ev, ft>>
    /\ udes' = Append(udes, [parent |-> ev, ft |-> ft,
                             path |-> Append(PathTo(ev), NumBev + Len(udes))])
    /\ UNCHANGED <<m, ptr, mon, open, walk, calls, asked>>

\* The bits of an event's number among those of the built-in events: its own
\* for a built-in one, those of its index for a user-defined one.
Bits(ev) ==
    IF ev \in Builtin THEN {ev}
    ELSE {b \in Builtin : ((ev - NumBev) \div 2^b) % 2 = 1}

\* mtcp_register_callback's test of the hook point, on the parent's number if
\* the event is user-defined.
HookAllowed(ev, h) ==
    Bits(IF ev \in Builtin THEN ev ELSE Ude(ev).parent) \cap Banned[h] = {}
-----------------------------------------------------------------------------
(* The store and the trees.  mm is the memory a function works on.         *)

\* kvs_insert does nothing when the store is full, and its caller does not ask.
kvs_insert(mm, id, t) ==
    IF id \in DOMAIN mm.store \/ Cardinality(DOMAIN mm.store) >= Entries THEN mm
    ELSE [mm EXCEPT !.store = [i \in DOMAIN @ \cup {id} |-> IF i = id THEN t ELSE @[i]]]

kvs_remove(mm, ids) ==
    [mm EXCEPT !.store = [i \in DOMAIN @ \ ids |-> @[i]]]

\* n says how often each tree is counted or given up: once, or once for each
\* hook point of a socket that has it.
Once(t) == [x \in TreeObj |-> IF x = t THEN 1 ELSE 0]
Each(s) == [x \in TreeObj |-> Cardinality({h \in Hooks : ptr[<<s, h>>] = x})]

\* Mutant of stree_inc_ref: a shared tree is not counted.
stree_inc_ref_lost(mm, n) == mm

stree_inc_ref(mm, n) ==
    [mm EXCEPT !.trees = [t \in TreeObj |-> [mm.trees[t] EXCEPT !.ref = @ + n[t]]]]

\* stree_dec_ref with stree_destroy
stree_dec_ref(mm, n) ==
    LET gone == {t \in TreeObj : n[t] > 0 /\ mm.trees[t].ref = n[t]}
    IN  [kvs_remove(mm, {mm.trees[t].id : t \in gone}) EXCEPT
            !.trees = [t \in TreeObj |-> IF t \in gone THEN Dead
                                         ELSE [mm.trees[t] EXCEPT !.ref = @ - n[t]]]]

\* The nodes from the root to ev and the one with the callback below it.
create_spine(ev, cb) ==
    LET path == PathTo(ev)
    IN  [p \in {SubSeq(path, 1, n) : n \in 1 .. Len(path)} \cup {Append(path, ev)}
            |-> IF Len(p) > Len(path) THEN cb ELSE None]

\* Both ways to inherit from a tree keep the old callback of a node that is
\* in both.
Inherit(nodes, spine) ==
    [p \in DOMAIN nodes \cup DOMAIN spine |->
        IF p \in DOMAIN nodes THEN nodes[p] ELSE spine[p]]

\* Mutant of Reusable: the nodes are taken from a tree that others use.
ReusableAlways(ref) == TRUE

\* Case 2.1 of RegCb takes the nodes from the old tree, case 2.2 copies them.
Reusable(ref) == ref = 1

\* RegCb on the tree t: the memory and the tree after it.
RegCb(mm, t, ev, cb) ==
    LET old == IF t = Null THEN Dead ELSE mm.trees[t]
        pair == {<<ev, cb>>}
        nid == (old.id \cup pair) \ (old.id \cap pair)
    IN  IF nid \in DOMAIN mm.store
        THEN [m |-> stree_inc_ref(stree_dec_ref(mm, Once(t)), Once(mm.store[nid])),
              t |-> mm.store[nid]]
        ELSE LET n == CHOOSE x \in TreeObj : mm.trees[x] = Dead
                 spine == create_spine(ev, cb)
                 left == IF t # Null /\ Reusable(old.ref)
                         THEN Restrict(old.nodes, DOMAIN old.nodes \cap DOMAIN spine)
                         ELSE old.nodes
                 trees == [x \in TreeObj |->
                             IF x = n THEN [id |-> nid, ref |-> 1,
                                            nodes |-> Inherit(old.nodes, spine)]
                             ELSE IF x = t THEN [old EXCEPT !.nodes = left]
                             ELSE mm.trees[x]]
             IN  [m |-> stree_dec_ref(kvs_insert([mm EXCEPT !.trees = trees], nid, n), Once(t)),
                  t |-> n]
-----------------------------------------------------------------------------
(* The sockets.                                                            *)

\* AddMonitorStreamSockets: a new flow's socket takes over the pointers.
AddMonitorStreamSockets(s) ==
    /\ walk = Idle /\ s \in Streams \ open
    /\ open' = open \cup {s}
    /\ m' = stree_inc_ref(m, Each(Listener))
    /\ ptr' = [x \in Slot |-> IF x[1] = s THEN ptr[<<Listener, x[2]>>] ELSE ptr[x]]
    /\ asked' = [x \in Slot |-> IF x[1] = s THEN asked[<<Listener, x[2]>>] ELSE asked[x]]
    /\ mon' = [mon EXCEPT ![s] = mon[Listener]]
    /\ UNCHANGED <<udes, walk, calls>>

\* All of a socket's pointers are given up.
Release(s) ==
    /\ m' = stree_dec_ref(m, Each(s))
    /\ ptr' = [x \in Slot |-> IF x[1] = s THEN Null ELSE ptr[x]]
    /\ asked' = [x \in Slot |-> IF x[1] = s THEN {} ELSE asked[x]]

\* The end of the flow: DestroyMonitorStreamSocket, FreeSocket, FreeMonStream.
FreeMonStream(s) ==
    /\ walk = Idle /\ s \in open
    /\ open' = open \ {s} /\ Release(s)
    /\ mon' = [mon EXCEPT ![s] = {}]
    /\ UNCHANGED <<udes, walk, calls>>

\* mtcp_setsockopt(MOS_STOP_MON) takes the socket "which is given as a parameter
\* in callback functions": what a callback does to its socket leaves the tree
\* that HandleCb walks in place.  Nothing in the code holds it.
Live == {t \in TreeObj : m.trees[t] # Dead}
WalkedTreeLives == walk = Idle \/ walk.tree \in Live

\* Who may call: anyone between packets, during a packet the callback that
\* runs; on any socket.
Calls(s) ==
    /\ WalkedTreeLives /\ s \in open \cup {Listener}
    /\ walk = Idle \/ walk.running # None

\* mtcp_register_callback with a callback.
mtcp_register_callback(s, h, ev, cb) ==
    /\ Calls(s) /\ calls < MaxCalls /\ ev \in Defined /\ HookAllowed(ev, h)
    /\ Again \/ \A c \in Callback : <<ev, c>> \notin asked[<<s, h>>]
    /\ LET r == RegCb(m, ptr[<<s, h>>], ev, cb)
       IN  m' = r.m /\ ptr' = [ptr EXCEPT ![<<s, h>>] = r.t]
    /\ asked' = [asked EXCEPT ![<<s, h>>] = @ \cup {<<ev, cb>>}]
    /\ calls' = calls + 1
    /\ UNCHANGED <<udes, mon, open, walk>>

\* mtcp_cb_stop: RemoveMonitorEvents, which asks stree_pre_rcv for all three.
\* The flow's own status_mgmt is not modelled.
mtcp_cb_stop(s, side) ==
    /\ Calls(s)
    /\ mon' = [mon EXCEPT ![s] = @ \ {side}]
    /\ IF mon'[s] = {} /\ ptr[<<s, "rcv">>] # Null
       THEN Release(s) ELSE UNCHANGED <<m, ptr, asked>>
    /\ UNCHANGED <<udes, open, walk, calls>>
-----------------------------------------------------------------------------
(* A packet raises built-in events: HandleCallback and HandleCb.           *)

HandleCallback(s, h, side, events) ==
    /\ walk = Idle /\ s \in open /\ side \in mon[s] /\ ptr[<<s, h>>] # Null
    /\ LET t == ptr[<<s, h>>]
           todo == {p \in DOMAIN m.trees[t].nodes : p[1] \in events}
       IN  todo # {} /\ walk' = [tree |-> t, sock |-> s, todo |-> todo, running |-> None]
    /\ UNCHANGED <<udes, m, ptr, mon, open, calls, asked>>

\* The walk visits a node after those above it.  A filter that is not passed
\* ends it below the node; a callback is called.
Visit(p, passed) ==
    /\ walk # Idle /\ walk.running = None /\ p \in walk.todo /\ WalkedTreeLives
    /\ \A q \in walk.todo : q # p => ~IsPrefix(q, p)
    /\ passed \/ Last(p) \notin Builtin
    /\ LET rest == walk.todo \ (IF passed THEN {p} ELSE {q \in walk.todo : IsPrefix(p, q)})
           cb == IF passed THEN m.trees[walk.tree].nodes[p] ELSE None
       IN  walk' = IF rest = {} /\ cb = None THEN Idle
                   ELSE [walk EXCEPT !.todo = rest, !.running = cb]
    /\ UNCHANGED <<udes, m, ptr, mon, open, calls, asked>>

CallbackReturns ==
    /\ walk.running # None /\ WalkedTreeLives
    /\ walk' = IF walk.todo = {} THEN Idle ELSE [walk EXCEPT !.running = None]
    /\ UNCHANGED <<udes, m, ptr, mon, open, calls, asked>>

\* The code goes on in memory that was freed, and the model does not.
Crashed == ~WalkedTreeLives /\ UNCHANGED vars

Next ==
    \/ \E ev \in Event, ft \in Filter : mtcp_define_event(ev, ft)
    \/ \E s \in Streams : AddMonitorStreamSockets(s) \/ FreeMonStream(s)
    \/ \E s \in Socket :
          \/ \E side \in Side : mtcp_cb_stop(s, side)
          \/ \E h \in Hooks, ev \in Event, cb \in Callback :
                mtcp_register_callback(s, h, ev, cb)
    \/ \E s \in Streams, h \in Hooks, side \in Side, events \in SUBSET Builtin \ {{}} :
          HandleCallback(s, h, side, events)
    \/ \E p \in walk.todo, passed \in BOOLEAN : Visit(p, passed)
    \/ CallbackReturns
    \/ Crashed

Spec == Init /\ [][Next]_vars
-----------------------------------------------------------------------------
(* Properties.                                                             *)

Holders(t) == {s \in Slot : ptr[s] = t}
CallbacksOf(t) ==
    IF t = Null THEN {}
    ELSE {<<Last(p), m.trees[t].nodes[p]>> :
            p \in {q \in DOMAIN m.trees[t].nodes : m.trees[t].nodes[q] # None}}

IsTree(o) ==
    /\ o = [id |-> o.id, ref |-> o.ref, nodes |-> o.nodes]
    /\ o.id \subseteq Event \X Callback /\ o.ref \in Nat
    /\ DOMAIN o.nodes \subseteq Seq(Event)
    /\ o.nodes \in [DOMAIN o.nodes -> Callback \cup {None}]

\* Types; the store never has more entries than it has room for.
TypeOK ==
    /\ udes \in Seq([parent : Event, ft : Filter, path : Seq(Event)])
    /\ m = [trees |-> m.trees, store |-> m.store]
    /\ m.trees = [t \in TreeObj |-> m.trees[t]] /\ \A t \in TreeObj : IsTree(m.trees[t])
    /\ m.store \in [DOMAIN m.store -> TreeObj] /\ Cardinality(DOMAIN m.store) <= Entries
    /\ ptr \in [Slot -> TreeObj \cup {Null}] /\ mon \in [Socket -> SUBSET Side]
    /\ open \subseteq Streams /\ calls \in 0 .. MaxCalls
    /\ asked \in [Slot -> SUBSET (Event \X Callback)]
    /\ walk.tree \in TreeObj \cup {Null} /\ walk.running \in Callback \cup {None}

\* A tree lives as long as a socket points to it, and its count is the number
\* of these pointers, whoever shares it at whatever hook points.
RefIsHolders ==
    /\ \A t \in Live : m.trees[t].ref = Cardinality(Holders(t)) /\ Holders(t) # {}
    /\ \A s \in Slot : ptr[s] = Null \/ ptr[s] \in Live

\* A socket has the callbacks it registered or inherited and no other, however
\* trees are found, shared, copied or taken apart for other sockets.
CallbacksAsRegistered == \A s \in Slot : CallbacksOf(ptr[s]) = asked[s]
=============================================================================
