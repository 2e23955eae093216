-------------------------- MODULE EventTreeProofs ---------------------------
(***************************************************************************)
(* Proofs about the shared trees of callbacks, for every number of         *)
(* sockets, hook points, events and callbacks and every size of the store. *)
(*                                                                         *)
(* The properties lean on each other: a count is right only if the store   *)
(* never leads to a tree that was destroyed, a tree found by its id has    *)
(* the right callbacks only if the id says which callbacks it has, and a   *)
(* new node is not shadowed by an old one only if paths of events never    *)
(* repeat an event.  MemOK has the first kind of facts, NamesOK the rest.  *)
(***************************************************************************)
EXTENDS EventTree, FiniteSetTheorems, SequenceTheorems, TLAPS

\* The slots that hold each tree.
Hold(pp) == [t \in TreeObj |-> {x \in Slot : pp[x] = t}]

\* The memory is well formed.
Memory(mm) ==
    /\ mm = [trees |-> mm.trees, store |-> mm.store]
    /\ mm.trees = [t \in TreeObj |-> mm.trees[t]]
    /\ \A t \in TreeObj : IsTree(mm.trees[t])
    /\ mm.store = [i \in DOMAIN mm.store |-> mm.store[i]]
    /\ IsFiniteSet(DOMAIN mm.store) /\ Cardinality(DOMAIN mm.store) <= Entries

\* The store leads to trees that are held and have the id.
StoreOK(mm, H) ==
    \A i \in DOMAIN mm.store :
        /\ mm.store[i] \in TreeObj /\ H[mm.store[i]] # {}
        /\ mm.trees[mm.store[i]].id = i

\* A tree counts its holders; what nobody holds is free.
CountsOK(mm, H) ==
    \A t \in TreeObj : /\ mm.trees[t].ref = Cardinality(H[t])
                       /\ H[t] = {} => mm.trees[t] = Dead

MemOK(mm, H) == Memory(mm) /\ StoreOK(mm, H) /\ CountsOK(mm, H)
-----------------------------------------------------------------------------
(* Sets and records.                                                       *)

LEMMA SlotFinite == IsFiniteSet(Slot) /\ Cardinality(Slot) \in Nat
<1>1. IsFiniteSet(Socket)
  BY EventTreeAssumption, FS_AddElement DEF Socket
<1>2. IsFiniteSet(Hooks)
  BY EventTreeAssumption
<1>3. IsFiniteSet(Slot)
  BY <1>1, <1>2, FS_Product DEF Slot
<1> QED
  BY <1>3, FS_CardinalityType

\* Families of holders are finite.
LEMMA HeldFinite ==
    ASSUME NEW S \in SUBSET Slot
    PROVE  /\ IsFiniteSet(S) /\ Cardinality(S) \in Nat
           /\ Cardinality(S) = 0 <=> S = {}
<1>1. IsFiniteSet(S)
  BY SlotFinite, FS_Subset
<1> QED
  BY <1>1, FS_CardinalityType, FS_EmptySet

LEMMA DeadTree == IsTree(Dead) /\ Dead.ref = 0 /\ Dead.id = {}
<1>1. <<>> \in [{} -> Callback \cup {None}] /\ DOMAIN <<>> = {}
  OBVIOUS
<1>2. /\ Dead = [id |-> {}, ref |-> 0, nodes |-> <<>>]
      /\ Dead.id = {} /\ Dead.ref = 0 /\ Dead.nodes = <<>>
  BY DEF Dead
<1> QED
  BY <1>1, <1>2 DEF IsTree

\* The count of a tree is changed.
LEMMA Recount ==
    ASSUME NEW o, IsTree(o), NEW k \in Nat, NEW p, p = [o EXCEPT !.ref = k]
    PROVE  IsTree(p) /\ p.ref = k /\ p.id = o.id /\ p.nodes = o.nodes
<1>1. p = [id |-> o.id, ref |-> k, nodes |-> o.nodes]
  BY DEF IsTree
<1>2. p.ref = k /\ p.id = o.id /\ p.nodes = o.nodes
  BY <1>1
<1> QED
  BY <1>1, <1>2 DEF IsTree

LEMMA DeadRecount ==
    ASSUME NEW p, p = [Dead EXCEPT !.ref = 0]
    PROVE  p = Dead
BY DEF Dead

\* A slot of a new tree: there are more trees than slots.
LEMMA FreeTree ==
    ASSUME NEW pp \in [Slot -> TreeObj \cup {Null}]
    PROVE  \E t \in TreeObj : Hold(pp)[t] = {}
<1> SUFFICES ASSUME \A t \in TreeObj : Hold(pp)[t] # {}
             PROVE  FALSE
  OBVIOUS
<1> DEFINE c == Cardinality(Slot)
<1>1. c \in Nat /\ TreeObj = 1 .. c + 1
  BY SlotFinite DEF TreeObj
<1> HIDE DEF c
<1>2. IsFiniteSet(TreeObj) /\ Cardinality(TreeObj) = c + 1
  <2>1. 1 \in Int /\ c + 1 \in Int /\ ~(1 > c + 1) /\ (c + 1) - 1 + 1 = c + 1
    BY <1>1
  <2> QED
    BY <1>1, <2>1, FS_Interval
<1> DEFINE f == [t \in TreeObj |-> CHOOSE x \in Slot : pp[x] = t]
<1>3. \A t \in TreeObj : f[t] \in Slot /\ pp[f[t]] = t
  BY DEF Hold
<1>4. f \in [TreeObj -> Slot]
  BY <1>3
<1> HIDE DEF f
<1>5. Cardinality(Slot) < Cardinality(TreeObj)
  BY <1>1, <1>2 DEF c
<1>6. PICK x, y \in TreeObj : x # y /\ f[x] = f[y]
  BY <1>2, <1>4, <1>5, SlotFinite, FS_PigeonHole
<1> QED
  BY <1>3, <1>6

-----------------------------------------------------------------------------
(* Counting and giving up.                                                 *)

\* Trees that somebody holds, H, are held by n more, in G.
Grows(H, G, n) ==
    \A t \in TreeObj : /\ Cardinality(G[t]) = Cardinality(H[t]) + n[t]
                       /\ n[t] > 0 => H[t] # {}
                       /\ H[t] # {} => G[t] # {}

LEMMA IncOK ==
    ASSUME NEW mm, NEW H \in [TreeObj -> SUBSET Slot], MemOK(mm, H),
           NEW G \in [TreeObj -> SUBSET Slot], NEW n \in [TreeObj -> Nat],
           Grows(H, G, n), NEW q, q = stree_inc_ref(mm, n)
    PROVE  /\ MemOK(q, G) /\ q.store = mm.store
           /\ \A t \in TreeObj : /\ q.trees[t].id = mm.trees[t].id
                                 /\ q.trees[t].nodes = mm.trees[t].nodes
<1> DEFINE o(t) == [mm.trees[t] EXCEPT !.ref = @ + n[t]]
           f == [t \in TreeObj |-> o(t)]
<1>1. Memory(mm) /\ StoreOK(mm, H) /\ CountsOK(mm, H)
  BY DEF MemOK
<1>2. ASSUME NEW t \in TreeObj
      PROVE  /\ IsTree(o(t)) /\ o(t).ref = Cardinality(G[t])
             /\ o(t).id = mm.trees[t].id /\ o(t).nodes = mm.trees[t].nodes
             /\ G[t] = {} => o(t) = Dead
  <2>1. IsTree(mm.trees[t]) /\ mm.trees[t].ref = Cardinality(H[t])
    BY <1>1 DEF Memory, CountsOK
  <2>. /\ Cardinality(G[t]) = Cardinality(H[t]) + n[t]
       /\ n[t] > 0 => H[t] # {}
       /\ H[t] # {} => G[t] # {}
    BY DEF Grows
  <2>2. mm.trees[t].ref \in Nat /\ n[t] \in Nat
    BY <2>1 DEF IsTree
  <2>3. PICK k \in Nat : k = mm.trees[t].ref + n[t]
    BY <2>2
  <2>4. o(t) = [mm.trees[t] EXCEPT !.ref = k]
    BY <2>3
  <2>5. /\ IsTree(o(t)) /\ o(t).ref = k
        /\ o(t).id = mm.trees[t].id /\ o(t).nodes = mm.trees[t].nodes
    <3> HIDE DEF o
    <3> QED
      BY <2>1, <2>4, Recount
  <2>6. k = Cardinality(G[t])
    BY <2>1, <2>3
  <2>7. G[t] = {} => o(t) = Dead
    <3> SUFFICES ASSUME G[t] = {} PROVE o(t) = Dead
      OBVIOUS
    <3>1. k = 0
      BY <2>6, FS_EmptySet
    <3>2. mm.trees[t] = Dead
      BY <1>1 DEF CountsOK
    <3>3. o(t) = [Dead EXCEPT !.ref = 0]
      BY <2>4, <3>1, <3>2
    <3> QED
      BY <3>3, DeadRecount
  <2> QED
    BY <2>5, <2>6, <2>7
<1>3. q = [trees |-> f, store |-> mm.store]
  <2>1. q = [mm EXCEPT !.trees = f]
    BY DEF stree_inc_ref
  <2> HIDE DEF f
  <2> QED
    BY <1>1, <2>1 DEF Memory
<1>4. \A t \in TreeObj : f[t] = o(t)
  OBVIOUS
<1>5. f = [t \in TreeObj |-> f[t]]
  OBVIOUS
<1> HIDE DEF f, o
<1>6. q.trees = f /\ q.store = mm.store
  BY <1>3
<1>7. Memory(q)
  BY <1>1, <1>2, <1>3, <1>4, <1>5, <1>6 DEF Memory
<1>8. StoreOK(q, G)
  BY <1>1, <1>2, <1>4, <1>6 DEF StoreOK, Grows
<1>9. CountsOK(q, G)
  BY <1>2, <1>4, <1>6 DEF CountsOK
<1> QED
  BY <1>2, <1>4, <1>6, <1>7, <1>8, <1>9 DEF MemOK

\* Some holders give up their trees; a tree is destroyed with the last.
LEMMA DecOK ==
    ASSUME NEW mm, NEW H \in [TreeObj -> SUBSET Slot], MemOK(mm, H),
           NEW G \in [TreeObj -> SUBSET Slot], NEW n \in [TreeObj -> Nat],
           \A t \in TreeObj : Cardinality(H[t]) = Cardinality(G[t]) + n[t],
           NEW q, q = stree_dec_ref(mm, n)
    PROVE  /\ MemOK(q, G) /\ DOMAIN q.store \subseteq DOMAIN mm.store
           /\ \A t \in TreeObj : G[t] # {} =>
                  /\ q.trees[t].id = mm.trees[t].id
                  /\ q.trees[t].nodes = mm.trees[t].nodes
           /\ \A i \in DOMAIN mm.store :
                  /\ i \in DOMAIN q.store => q.store[i] = mm.store[i]
                  /\ i \notin DOMAIN q.store =>
                         \E t \in TreeObj : mm.trees[t].id = i /\ n[t] > 0
<1> DEFINE gone == {t \in TreeObj : n[t] > 0 /\ mm.trees[t].ref = n[t]}
           ids == {mm.trees[t].id : t \in gone}
           o(t) == IF t \in gone THEN Dead ELSE [mm.trees[t] EXCEPT !.ref = @ - n[t]]
           f == [t \in TreeObj |-> o(t)]
           g == [i \in DOMAIN mm.store \ ids |-> mm.store[i]]
<1>1. Memory(mm) /\ StoreOK(mm, H) /\ CountsOK(mm, H)
  BY DEF MemOK
<1>2. ASSUME NEW t \in TreeObj
      PROVE  /\ IsTree(o(t)) /\ o(t).ref = Cardinality(G[t])
             /\ G[t] # {} => /\ o(t).id = mm.trees[t].id
                             /\ o(t).nodes = mm.trees[t].nodes
             /\ G[t] = {} => o(t) = Dead
             /\ t \in gone <=> (G[t] = {} /\ H[t] # {})
  <2>1. IsTree(mm.trees[t]) /\ mm.trees[t].ref = Cardinality(H[t])
    BY <1>1 DEF Memory, CountsOK
  <2>2. /\ mm.trees[t].ref \in Nat /\ n[t] \in Nat
        /\ Cardinality(G[t]) \in Nat /\ Cardinality(H[t]) \in Nat
        /\ Cardinality(G[t]) = 0 <=> G[t] = {}
        /\ Cardinality(H[t]) = 0 <=> H[t] = {}
        /\ Cardinality(H[t]) = Cardinality(G[t]) + n[t]
    BY <2>1, HeldFinite DEF IsTree
  <2>3. t \in gone <=> (G[t] = {} /\ H[t] # {})
    BY <2>1, <2>2
  <2>4. CASE t \in gone
    <3>1. o(t) = Dead /\ G[t] = {}
      BY <2>3, <2>4
    <3>2. Cardinality(G[t]) = 0
      BY <2>2, <3>1
    <3> QED
      BY <2>3, <3>1, <3>2, DeadTree
  <2>5. CASE t \notin gone
    <3>1. PICK k \in Nat : k = mm.trees[t].ref - n[t]
      BY <2>1, <2>2
    <3>2. o(t) = [mm.trees[t] EXCEPT !.ref = k]
      BY <2>5, <3>1
    <3>3. k = Cardinality(G[t])
      BY <2>1, <2>2, <3>1
    <3> HIDE DEF o
    <3>4. /\ IsTree(o(t)) /\ o(t).ref = k
          /\ o(t).id = mm.trees[t].id /\ o(t).nodes = mm.trees[t].nodes
      BY <2>1, <3>2, Recount
    <3>5. G[t] = {} => o(t) = Dead
      <4> SUFFICES ASSUME G[t] = {} PROVE o(t) = Dead
        OBVIOUS
      <4>1. H[t] = {} /\ k = 0
        BY <2>2, <2>3, <2>5, <3>3
      <4>2. mm.trees[t] = Dead
        BY <1>1, <4>1 DEF CountsOK
      <4>3. o(t) = [Dead EXCEPT !.ref = 0]
        BY <3>2, <4>1, <4>2
      <4> QED
        BY <4>3, DeadRecount
    <3> QED
      BY <2>3, <3>3, <3>4, <3>5
  <2> QED
    BY <2>4, <2>5
<1>3. q = [trees |-> f, store |-> g]
  <2>1. kvs_remove(mm, ids) = [mm EXCEPT !.store = g]
    BY DEF kvs_remove
  <2>2. q = [kvs_remove(mm, ids) EXCEPT !.trees = f]
    BY DEF stree_dec_ref
  <2> HIDE DEF f, g, ids
  <2>3. kvs_remove(mm, ids) = [trees |-> mm.trees, store |-> g]
    BY <1>1, <2>1 DEF Memory
  <2> QED
    BY <2>2, <2>3
<1>4. \A t \in TreeObj : f[t] = o(t)
  OBVIOUS
<1>5. f = [t \in TreeObj |-> f[t]]
  OBVIOUS
<1>6. /\ DOMAIN g = DOMAIN mm.store \ ids /\ g = [i \in DOMAIN g |-> g[i]]
      /\ \A i \in DOMAIN g : g[i] = mm.store[i]
  OBVIOUS
<1>7. \A i \in ids : \E t \in TreeObj : mm.trees[t].id = i /\ n[t] > 0
  OBVIOUS
<1>8. \A t \in TreeObj : G[t] = {} /\ H[t] # {} => mm.trees[t].id \in ids
  BY <1>2
<1> HIDE DEF f, g, o, gone, ids
<1>9. q.trees = f /\ q.store = g
  BY <1>3
<1>10. Memory(q)
  <2>1. IsFiniteSet(DOMAIN g) /\ Cardinality(DOMAIN g) <= Entries
    <3>1. DOMAIN g \subseteq DOMAIN mm.store
      BY <1>6
    <3>2. IsFiniteSet(DOMAIN mm.store) /\ Cardinality(DOMAIN mm.store) <= Entries
      BY <1>1 DEF Memory
    <3>3. /\ IsFiniteSet(DOMAIN g) /\ Cardinality(DOMAIN g) <= Cardinality(DOMAIN mm.store)
      BY <3>1, <3>2, FS_Subset
    <3>4. Cardinality(DOMAIN g) \in Nat /\ Cardinality(DOMAIN mm.store) \in Nat /\ Entries \in Nat
      BY <3>2, <3>3, FS_CardinalityType, EventTreeAssumption
    <3> QED
      BY <3>2, <3>3, <3>4
  <2> QED
    BY <1>2, <1>3, <1>4, <1>5, <1>6, <1>9, <2>1 DEF Memory
<1>11. StoreOK(q, G)
  <2> SUFFICES ASSUME NEW i \in DOMAIN g
               PROVE  /\ g[i] \in TreeObj /\ G[g[i]] # {} /\ f[g[i]].id = i
    BY <1>9 DEF StoreOK
  <2>1. /\ g[i] \in TreeObj /\ H[g[i]] # {} /\ mm.trees[g[i]].id = i /\ i \notin ids
    BY <1>1, <1>6 DEF StoreOK
  <2>2. G[g[i]] # {}
    BY <1>8, <2>1
  <2> QED
    BY <1>2, <1>4, <2>1, <2>2
<1>12. CountsOK(q, G)
  BY <1>2, <1>4, <1>9 DEF CountsOK
<1> QED
  BY <1>2, <1>4, <1>6, <1>7, <1>9, <1>10, <1>11, <1>12 DEF MemOK

-----------------------------------------------------------------------------
(* Pointers.                                                               *)

LEMMA HoldType ==
    ASSUME NEW pp
    PROVE  /\ Hold(pp) \in [TreeObj -> SUBSET Slot]
           /\ \A t \in TreeObj : Hold(pp)[t] = {x \in Slot : pp[x] = t}
BY DEF Hold

LEMMA NullTree == Null \notin TreeObj
BY SlotFinite DEF Null, TreeObj

\* Slot x takes the tree t, or none, instead of the one it has.
Put(pp, x, t) == [pp EXCEPT ![x] = t]

LEMMA Redirect ==
    ASSUME NEW pp \in [Slot -> TreeObj \cup {Null}], NEW x \in Slot,
           NEW t \in TreeObj \cup {Null}
    PROVE  /\ Put(pp, x, t) \in [Slot -> TreeObj \cup {Null}]
           /\ \A u \in TreeObj :
                  /\ u = t => Hold(Put(pp, x, t))[u] = Hold(pp)[u] \cup {x}
                  /\ u # t => Hold(Put(pp, x, t))[u] = Hold(pp)[u] \ {x}
<1> DEFINE qq == Put(pp, x, t)
<1>1. \A y \in Slot : qq[y] = IF y = x THEN t ELSE pp[y]
  BY DEF Put
<1>2. qq \in [Slot -> TreeObj \cup {Null}]
  BY DEF Put
<1> HIDE DEF qq
<1>3. ASSUME NEW u \in TreeObj
      PROVE  /\ u = t => Hold(qq)[u] = Hold(pp)[u] \cup {x}
             /\ u # t => Hold(qq)[u] = Hold(pp)[u] \ {x}
  <2>1. /\ \A y : y \in Hold(qq)[u] <=> y \in Slot /\ qq[y] = u
        /\ \A y : y \in Hold(pp)[u] <=> y \in Slot /\ pp[y] = u
    BY DEF Hold
  <2>2. CASE u = t
    <3>1. \A y : y \in Hold(qq)[u] <=> y \in Hold(pp)[u] \cup {x}
      BY <1>1, <2>1, <2>2
    <3> QED
      BY <2>2, <3>1
  <2>3. CASE u # t
    <3>1. \A y : y \in Hold(qq)[u] <=> y \in Hold(pp)[u] \ {x}
      BY <1>1, <2>1, <2>3
    <3> QED
      BY <2>3, <3>1
  <2> QED
    BY <2>2, <2>3
<1> QED
  BY <1>2, <1>3 DEF qq

\* One slot gives up its tree.
LEMMA DropOne ==
    ASSUME NEW pp \in [Slot -> TreeObj \cup {Null}], NEW x \in Slot
    PROVE  /\ Put(pp, x, Null) \in [Slot -> TreeObj \cup {Null}]
           /\ Once(pp[x]) \in [TreeObj -> Nat]
           /\ \A u \in TreeObj : Hold(Put(pp, x, Null))[u] = Hold(pp)[u] \ {x}
           /\ \A u \in TreeObj : Cardinality(Hold(pp)[u]) =
                  Cardinality(Hold(Put(pp, x, Null))[u]) + Once(pp[x])[u]
<1> DEFINE qq == Put(pp, x, Null)
<1>0. /\ qq \in [Slot -> TreeObj \cup {Null}]
      /\ \A u \in TreeObj : Hold(qq)[u] = Hold(pp)[u] \ {x}
  BY NullTree, Redirect
<1> HIDE DEF qq
<1>2. Once(pp[x]) \in [TreeObj -> Nat]
  BY DEF Once
<1>3. ASSUME NEW u \in TreeObj
      PROVE  Cardinality(Hold(pp)[u]) = Cardinality(Hold(qq)[u]) + Once(pp[x])[u]
  <2>2. Hold(pp)[u] \in SUBSET Slot
    BY HoldType
  <2>3. IsFiniteSet(Hold(pp)[u]) /\ Cardinality(Hold(pp)[u]) \in Nat
    BY <2>2, HeldFinite
  <2>4. Cardinality(Hold(qq)[u]) =
            IF x \in Hold(pp)[u] THEN Cardinality(Hold(pp)[u]) - 1 ELSE Cardinality(Hold(pp)[u])
    BY <1>0, <2>3, FS_RemoveElement
  <2>5. x \in Hold(pp)[u] <=> u = pp[x]
    BY HoldType
  <2>6. Once(pp[x])[u] = IF u = pp[x] THEN 1 ELSE 0
    BY DEF Once
  <2> QED
    BY <2>3, <2>4, <2>5, <2>6
<1> QED
  BY <1>0, <1>2, <1>3 DEF qq

\* One slot without a tree takes one.
LEMMA TakeOne ==
    ASSUME NEW pp \in [Slot -> TreeObj \cup {Null}], NEW x \in Slot, pp[x] = Null,
           NEW t \in TreeObj, Hold(pp)[t] # {}
    PROVE  /\ Once(t) \in [TreeObj -> Nat]
           /\ Grows(Hold(pp), Hold(Put(pp, x, t)), Once(t))
<1> DEFINE qq == Put(pp, x, t)
<1>0. /\ qq \in [Slot -> TreeObj \cup {Null}]
      /\ \A u \in TreeObj : /\ u = t => Hold(qq)[u] = Hold(pp)[u] \cup {x}
                            /\ u # t => Hold(qq)[u] = Hold(pp)[u] \ {x}
  BY Redirect
<1> HIDE DEF qq
<1>2. Once(t) \in [TreeObj -> Nat]
  BY DEF Once
<1>3. ASSUME NEW u \in TreeObj
      PROVE  /\ Cardinality(Hold(qq)[u]) = Cardinality(Hold(pp)[u]) + Once(t)[u]
             /\ Hold(pp)[u] # {} => Hold(qq)[u] # {}
             /\ Once(t)[u] > 0 => u = t
  <2>1. x \notin Hold(pp)[u]
    BY NullTree, HoldType
  <2>2. /\ u = t => Hold(qq)[u] = Hold(pp)[u] \cup {x}
        /\ u # t => Hold(qq)[u] = Hold(pp)[u]
    BY <1>0, <2>1
  <2>3. Hold(pp)[u] \in SUBSET Slot
    BY HoldType
  <2>4. IsFiniteSet(Hold(pp)[u]) /\ Cardinality(Hold(pp)[u]) \in Nat
    BY <2>3, HeldFinite
  <2>5. Cardinality(Hold(pp)[u] \cup {x}) = Cardinality(Hold(pp)[u]) + 1
    BY <2>1, <2>4, FS_AddElement
  <2>6. Once(t)[u] = IF u = t THEN 1 ELSE 0
    BY DEF Once
  <2>7. CASE u = t
    BY <2>2, <2>4, <2>5, <2>6, <2>7
  <2>8. CASE u # t
    <3>1. Once(t)[u] = 0 /\ Hold(qq)[u] = Hold(pp)[u]
      BY <2>2, <2>6, <2>8
    <3>2. Cardinality(Hold(qq)[u]) = Cardinality(Hold(pp)[u]) + Once(t)[u]
      BY <2>4, <3>1
    <3>3. ~(Once(t)[u] > 0)
      BY <3>1
    <3> QED
      BY <3>1, <3>2, <3>3
  <2> QED
    BY <2>7, <2>8
<1> QED
  BY <1>2, <1>3 DEF qq, Grows

\* A tree that is nobody's is made for slot x, and the nodes of t may be taken
\* from it; the id is entered if there is room.
Given(H, n, x) == [H EXCEPT ![n] = {x}]
Make(mm, n, o, t, p) ==
    [u \in TreeObj |-> IF u = n THEN o ELSE IF u = t THEN p ELSE mm.trees[u]]
Enter(mm, f, id, n) == kvs_insert([mm EXCEPT !.trees = f], id, n)
Keeps(mm, H, t, p) ==
    t # Null => /\ IsTree(p) /\ p.ref = mm.trees[t].ref
                /\ p.id = mm.trees[t].id /\ H[t] # {}

LEMMA NewOK ==
    ASSUME NEW mm, NEW H \in [TreeObj -> SUBSET Slot], MemOK(mm, H),
           NEW n \in TreeObj, H[n] = {}, NEW x \in Slot,
           NEW o, IsTree(o), o.ref = 1, o.id \notin DOMAIN mm.store,
           NEW t \in TreeObj \cup {Null}, t # n,
           NEW p, Keeps(mm, H, t, p), NEW f, f = Make(mm, n, o, t, p),
           NEW q, q = Enter(mm, f, o.id, n)
    PROVE  MemOK(q, Given(H, n, x)) /\ q.trees = f
<1>1. Memory(mm) /\ StoreOK(mm, H) /\ CountsOK(mm, H)
  BY DEF MemOK
<1> DEFINE s1 == [i \in DOMAIN mm.store \cup {o.id} |-> IF i = o.id THEN n ELSE mm.store[i]]
           G == Given(H, n, x)
           r == [mm EXCEPT !.trees = f]
<1>2. r = [trees |-> f, store |-> mm.store] /\ r.store = mm.store /\ r.trees = f
  BY <1>1 DEF Memory
<1>3. \/ q = r
      \/ /\ q = [r EXCEPT !.store = s1]
         /\ ~(Cardinality(DOMAIN mm.store) >= Entries)
  BY <1>2 DEF kvs_insert, Enter
<1>4. /\ \A u \in TreeObj : f[u] = IF u = n THEN o ELSE IF u = t THEN p ELSE mm.trees[u]
      /\ f = [u \in TreeObj |-> f[u]]
  BY DEF Make
<1>5. ASSUME NEW u \in TreeObj
      PROVE  /\ IsTree(f[u]) /\ f[u].ref = Cardinality(G[u])
             /\ G[u] = {} => f[u] = Dead
             /\ u # n => G[u] = H[u] /\ f[u].id = mm.trees[u].id
  <2>1. CASE u = n
    <3>1. G[u] = {x} /\ f[u] = o
      BY <1>4, <2>1 DEF Given
    <3> QED
      BY <2>1, <3>1, FS_Singleton
  <2>2. CASE u # n /\ u = t
    <3>1. G[u] = H[u] /\ f[u] = p /\ u # Null
      BY <1>4, <2>2, NullTree DEF Given
    <3> QED
      BY <1>1, <2>2, <3>1 DEF CountsOK, Keeps
  <2>3. CASE u # n /\ u # t
    <3>1. G[u] = H[u] /\ f[u] = mm.trees[u]
      BY <1>4, <2>3 DEF Given
    <3> QED
      BY <1>1, <3>1 DEF CountsOK, Memory
  <2> QED
    BY <2>1, <2>2, <2>3
<1>6. G[n] = {x} /\ f[n] = o
  BY <1>4 DEF Given
<1>7. \A i \in DOMAIN mm.store :
         /\ mm.store[i] \in TreeObj /\ mm.store[i] # n
         /\ G[mm.store[i]] # {} /\ f[mm.store[i]].id = i
  BY <1>1, <1>5 DEF StoreOK
<1> HIDE DEF r, G
<1>8. CASE q = r
  <2>1. q.trees = f /\ q.store = mm.store
    BY <1>2, <1>8
  <2>2. Memory(q)
    BY <1>1, <1>2, <1>4, <1>5, <1>8, <2>1 DEF Memory
  <2>3. StoreOK(q, G)
    BY <1>7, <2>1 DEF StoreOK
  <2>4. CountsOK(q, G)
    BY <1>5, <2>1 DEF CountsOK
  <2> QED
    BY <2>1, <2>2, <2>3, <2>4 DEF MemOK, G
<1>9. CASE q = [r EXCEPT !.store = s1] /\ ~(Cardinality(DOMAIN mm.store) >= Entries)
  <2>1. /\ DOMAIN s1 = DOMAIN mm.store \cup {o.id} /\ s1 = [i \in DOMAIN s1 |-> s1[i]]
        /\ \A i \in DOMAIN s1 : s1[i] = IF i = o.id THEN n ELSE mm.store[i]
    OBVIOUS
  <2> HIDE DEF s1
  <2>2. q = [trees |-> f, store |-> s1]
    BY <1>2, <1>9
  <2>3. q.trees = f /\ q.store = s1
    BY ONLY <2>2
  <2>4. IsFiniteSet(DOMAIN s1) /\ Cardinality(DOMAIN s1) <= Entries
    <3>1. IsFiniteSet(DOMAIN mm.store)
      BY <1>1 DEF Memory
    <3>2. Cardinality(DOMAIN mm.store) \in Nat /\ Entries \in Nat
      BY <3>1, FS_CardinalityType, EventTreeAssumption
    <3>3. IsFiniteSet(DOMAIN s1) /\ Cardinality(DOMAIN s1) = Cardinality(DOMAIN mm.store) + 1
      BY <2>1, <3>1, FS_AddElement
    <3> QED
      BY <1>9, <3>2, <3>3
  <2>5. Memory(q)
    BY <1>1, <1>4, <1>5, <2>1, <2>2, <2>3, <2>4 DEF Memory
  <2>6. StoreOK(q, G)
    <3> SUFFICES ASSUME NEW i \in DOMAIN s1
                 PROVE  s1[i] \in TreeObj /\ G[s1[i]] # {} /\ f[s1[i]].id = i
      BY <2>3 DEF StoreOK
    <3>1. CASE i = o.id
      BY <1>6, <2>1, <3>1
    <3>2. CASE i # o.id
      BY <1>7, <2>1, <3>2
    <3> QED
      BY <3>1, <3>2
  <2>7. CountsOK(q, G)
    BY <1>5, <2>3 DEF CountsOK
  <2> QED
    BY <2>3, <2>5, <2>6, <2>7 DEF MemOK, G
<1> QED
  BY <1>3, <1>8, <1>9

-----------------------------------------------------------------------------
(* Registering a callback.                                                 *)

\* A tree is found in the store, and it is not the one the slot has.
Found(mm, i, v) == i \in DOMAIN mm.store /\ v = mm.store[i]

LEMMA RegFound ==
    ASSUME NEW mm, NEW pp \in [Slot -> TreeObj \cup {Null}], MemOK(mm, Hold(pp)),
           NEW x \in Slot, NEW i, NEW v, Found(mm, i, v), v # pp[x],
           NEW q, q = stree_inc_ref(stree_dec_ref(mm, Once(pp[x])), Once(v))
    PROVE  /\ v \in TreeObj /\ Hold(pp)[v] # {} /\ mm.trees[v].id = i
           /\ MemOK(q, Hold(Put(pp, x, v)))
           /\ \A u \in TreeObj : Hold(Put(pp, x, v))[u] # {} =>
                  /\ q.trees[u].id = mm.trees[u].id
                  /\ q.trees[u].nodes = mm.trees[u].nodes
<1> DEFINE d == stree_dec_ref(mm, Once(pp[x]))
           p1 == Put(pp, x, Null)
           p2 == Put(pp, x, v)
<1>0. x \in Slot
  OBVIOUS
<1>1. v \in TreeObj /\ Hold(pp)[v] # {} /\ mm.trees[v].id = i
  BY DEF MemOK, StoreOK, Found
<1>2. /\ p1 \in [Slot -> TreeObj \cup {Null}] /\ Once(pp[x]) \in [TreeObj -> Nat]
      /\ \A u \in TreeObj : Cardinality(Hold(pp)[u]) =
             Cardinality(Hold(p1)[u]) + Once(pp[x])[u]
  BY DropOne
<1>3. p1[x] = Null /\ Put(p1, x, v) = p2
  BY DEF Put
<1>4. /\ \A u \in TreeObj : Hold(p1)[u] = Hold(pp)[u] \ {x}
      /\ \A u \in TreeObj : u # v => Hold(p2)[u] = Hold(pp)[u] \ {x}
  <2>1. \A u \in TreeObj : Hold(p1)[u] = Hold(pp)[u] \ {x}
    BY DropOne
  <2>2. \A u \in TreeObj : u # v => Hold(p2)[u] = Hold(pp)[u] \ {x}
    BY <1>1, Redirect
  <2> QED
    BY <2>1, <2>2
<1>5. Hold(p1)[v] # {}
  <2>1. x \notin Hold(pp)[v]
    BY <1>1, HoldType
  <2> QED
    BY <1>1, <1>4, <2>1
<1> HIDE DEF p1, p2, d
<1>6. Hold(pp) \in [TreeObj -> SUBSET Slot] /\ Hold(p1) \in [TreeObj -> SUBSET Slot]
      /\ Hold(p2) \in [TreeObj -> SUBSET Slot]
  BY HoldType
<1>7. /\ MemOK(d, Hold(p1))
      /\ \A u \in TreeObj : Hold(p1)[u] # {} =>
             d.trees[u].id = mm.trees[u].id /\ d.trees[u].nodes = mm.trees[u].nodes
  <2> DEFINE N == Once(pp[x])
  <2>1. d = stree_dec_ref(mm, N)
    BY DEF d
  <2>2. /\ N \in [TreeObj -> Nat]
        /\ \A u \in TreeObj : Cardinality(Hold(pp)[u]) = Cardinality(Hold(p1)[u]) + N[u]
    BY <1>2
  <2> HIDE DEF N
  <2> QED
    BY <1>6, <2>1, <2>2, DecOK
<1>8. Once(v) \in [TreeObj -> Nat] /\ Grows(Hold(p1), Hold(p2), Once(v))
  BY ONLY <1>0, <1>1, <1>2, <1>3, <1>5, TakeOne
<1>9. /\ MemOK(q, Hold(p2))
      /\ \A u \in TreeObj : q.trees[u].id = d.trees[u].id /\ q.trees[u].nodes = d.trees[u].nodes
  <2>1. q = stree_inc_ref(d, Once(v))
    BY DEF d
  <2> QED
    BY ONLY <1>6, <1>7, <1>8, <2>1, IncOK
<1>10. \A u \in TreeObj : Hold(p2)[u] # {} => Hold(p1)[u] # {}
  BY <1>4, <1>5
<1>11. \A u \in TreeObj : Hold(p2)[u] # {} =>
          q.trees[u].id = mm.trees[u].id /\ q.trees[u].nodes = mm.trees[u].nodes
  BY <1>7, <1>9, <1>10
<1> QED
  BY <1>1, <1>9, <1>11 DEF p2

\* A tree is made.  The old one keeps its nodes if others hold it.
Spares(mm, t, p) == t # Null => p.ref = 1 \/ p.nodes = mm.trees[t].nodes

LEMMA RegNew ==
    ASSUME NEW mm, NEW pp \in [Slot -> TreeObj \cup {Null}], MemOK(mm, Hold(pp)),
           NEW x \in Slot, NEW n \in TreeObj, mm.trees[n] = Dead,
           NEW o, IsTree(o), o.ref = 1, o.id \notin DOMAIN mm.store,
           NEW p, Keeps(mm, Hold(pp), pp[x], p),
           Spares(mm, pp[x], p),
           NEW q, q = stree_dec_ref(Enter(mm, Make(mm, n, o, pp[x], p), o.id, n), Once(pp[x]))
    PROVE  /\ MemOK(q, Hold(Put(pp, x, n)))
           /\ q.trees[n].id = o.id /\ q.trees[n].nodes = o.nodes
           /\ \A u \in TreeObj : u # n /\ Hold(Put(pp, x, n))[u] # {} =>
                  /\ q.trees[u].id = mm.trees[u].id
                  /\ q.trees[u].nodes = mm.trees[u].nodes
           /\ Hold(pp)[n] = {}
<1> DEFINE t == pp[x]
           f == Make(mm, n, o, t, p)
           k == Enter(mm, f, o.id, n)
           p1 == Put(pp, x, Null)
           p2 == Put(pp, x, n)
           H == Hold(pp)
           H1 == Given(H, n, x)
           G == Hold(p2)
           N == Once(t)
<1>1. H \in [TreeObj -> SUBSET Slot] /\ G \in [TreeObj -> SUBSET Slot]
  BY HoldType
<1>2. t \in TreeObj \cup {Null}
  OBVIOUS
<1>3. H[n] = {}
  <2>1. mm.trees[n].ref = Cardinality(H[n]) /\ mm.trees[n].ref = 0
    BY DeadTree DEF MemOK, CountsOK
  <2> QED
    BY <1>1, <2>1, HeldFinite
<1>4. t # Null => x \in H[t]
  BY HoldType
<1>5. t # n
  BY <1>3, <1>4, NullTree
<1>6. /\ N \in [TreeObj -> Nat]
      /\ \A u \in TreeObj : Cardinality(H[u]) = Cardinality(Hold(p1)[u]) + N[u]
  BY DropOne
<1>7. \A u \in TreeObj : /\ Hold(p1)[u] = H[u] \ {x}
                         /\ u # n => G[u] = H[u] \ {x}
                         /\ u = n => G[u] = H[u] \cup {x}
  BY NullTree, Redirect
<1>8. N[n] = 0 /\ G[n] = {x} /\ \A u \in TreeObj : N[u] = IF u = t THEN 1 ELSE 0
  <2>1. \A u \in TreeObj : N[u] = IF u = t THEN 1 ELSE 0
    BY DEF Once
  <2> QED
    BY <1>3, <1>5, <1>7, <2>1
<1>9. H1 \in [TreeObj -> SUBSET Slot]
  BY <1>1 DEF Given
<1>10. H1[n] = {x} /\ \A u \in TreeObj : u # n => H1[u] = H[u]
  BY <1>1 DEF Given
<1>11. q = stree_dec_ref(k, N)
  OBVIOUS
<1>12. k = Enter(mm, f, o.id, n) /\ f = Make(mm, n, o, t, p)
  OBVIOUS
<1>13. MemOK(mm, H)
  OBVIOUS
<1>14. Keeps(mm, H, t, p)
  OBVIOUS
<1>15. t # Null => p.ref = 1 \/ p.nodes = mm.trees[t].nodes
  BY DEF Spares
<1> HIDE DEF t, f, k, p1, p2, H, G, N
<1>16. MemOK(k, H1) /\ k.trees = f
  <2>1. IsTree(o) /\ o.ref = 1 /\ o.id \notin DOMAIN mm.store
    OBVIOUS
  <2>2. MemOK(k, Given(H, n, x)) /\ k.trees = f
    BY ONLY <1>1, <1>2, <1>3, <1>5, <1>12, <1>13, <1>14, <2>1, NewOK
  <2> QED
    BY <2>2
<1> HIDE DEF H1
<1>17. \A u \in TreeObj : Cardinality(H1[u]) = Cardinality(G[u]) + N[u]
  <2> SUFFICES ASSUME NEW u \in TreeObj PROVE Cardinality(H1[u]) = Cardinality(G[u]) + N[u]
    OBVIOUS
  <2>1. Cardinality(G[u]) \in Nat
    BY <1>1, HeldFinite
  <2>2. CASE u = n
    <3>1. H1[u] = G[u] /\ N[u] = 0
      BY <1>8, <1>10, <2>2
    <3> QED
      BY <2>1, <3>1
  <2>3. CASE u # n
    BY <1>6, <1>7, <1>10, <2>3
  <2> QED
    BY <2>2, <2>3
<1>18. /\ MemOK(q, G)
       /\ \A u \in TreeObj : G[u] # {} =>
              q.trees[u].id = k.trees[u].id /\ q.trees[u].nodes = k.trees[u].nodes
  BY <1>1, <1>6, <1>9, <1>11, <1>16, <1>17, DecOK
<1>19. f[n] = o /\ \A u \in TreeObj : u # n => f[u] = IF u = t THEN p ELSE mm.trees[u]
  BY <1>12 DEF Make
<1>20. ASSUME NEW u \in TreeObj, u # n, G[u] # {}
       PROVE  q.trees[u].id = mm.trees[u].id /\ q.trees[u].nodes = mm.trees[u].nodes
  <2>1. q.trees[u].id = f[u].id /\ q.trees[u].nodes = f[u].nodes
    BY <1>16, <1>18, <1>20
  <2>2. CASE u # t
    BY <1>19, <1>20, <2>1, <2>2
  <2>3. CASE u = t
    <3>1. f[u] = p /\ t # Null
      BY <1>19, <1>20, <2>3, NullTree
    <3>2. p.ref # 1
      <4>1. Cardinality(H[u]) = Cardinality(G[u]) + 1
        BY <1>8, <1>10, <1>17, <1>20, <2>3
      <4>2. Cardinality(G[u]) \in Nat /\ Cardinality(G[u]) # 0
        BY <1>1, <1>20, HeldFinite
      <4>3. mm.trees[u].ref = Cardinality(H[u])
        BY <1>13 DEF MemOK, CountsOK
      <4> QED
        BY <1>14, <2>3, <3>1, <4>1, <4>2, <4>3 DEF Keeps
    <3> QED
      BY <1>14, <1>15, <2>1, <2>3, <3>1, <3>2 DEF Keeps
  <2> QED
    BY <2>2, <2>3
<1> QED
  BY <1>3, <1>8, <1>16, <1>18, <1>19, <1>20 DEF G, p2, H

OldTree(mm, t) == IF t = Null THEN Dead ELSE mm.trees[t]
NewId(id, ev, cb) == (id \cup {<<ev, cb>>}) \ (id \cap {<<ev, cb>>})
IsNodes(f) == DOMAIN f \subseteq Seq(Event) /\ f \in [DOMAIN f -> Callback \cup {None}]

LEMMA NewIdFact ==
    ASSUME NEW id, NEW ev, NEW cb
    PROVE  /\ NewId(id, ev, cb) # id
           /\ id \subseteq Event \X Callback /\ ev \in Event /\ cb \in Callback
                 => NewId(id, ev, cb) \subseteq Event \X Callback
           /\ <<ev, cb>> \notin id => NewId(id, ev, cb) = id \cup {<<ev, cb>>}
BY DEF NewId

LEMMA InheritNodes ==
    ASSUME NEW f, NEW g, IsNodes(f), IsNodes(g)
    PROVE  IsNodes(Inherit(f, g))
<1>1. /\ DOMAIN Inherit(f, g) = DOMAIN f \cup DOMAIN g
      /\ \A p \in DOMAIN f \cup DOMAIN g :
            Inherit(f, g)[p] = IF p \in DOMAIN f THEN f[p] ELSE g[p]
      /\ Inherit(f, g) = [p \in DOMAIN f \cup DOMAIN g |-> Inherit(f, g)[p]]
  BY DEF Inherit
<1>2. \A p \in DOMAIN f \cup DOMAIN g : Inherit(f, g)[p] \in Callback \cup {None}
  BY <1>1 DEF IsNodes
<1>3. Inherit(f, g) \in [DOMAIN f \cup DOMAIN g -> Callback \cup {None}]
  BY <1>1, <1>2
<1> QED
  BY <1>1, <1>3 DEF IsNodes

LEMMA TreeNodes ==
    ASSUME NEW o, IsTree(o), NEW g, IsNodes(g), NEW p, p = [o EXCEPT !.nodes = g]
    PROVE  IsTree(p) /\ p.ref = o.ref /\ p.id = o.id /\ p.nodes = g /\ IsNodes(o.nodes)
<1>1. p = [id |-> o.id, ref |-> o.ref, nodes |-> g]
  BY DEF IsTree
<1>2. p.ref = o.ref /\ p.id = o.id /\ p.nodes = g
  BY <1>1
<1> QED
  BY <1>1, <1>2 DEF IsTree, IsNodes

\* What remains of an old tree's nodes.
LEMMA RestNodes ==
    ASSUME NEW f, IsNodes(f), NEW S
    PROVE  IsNodes(Restrict(f, DOMAIN f \cap S))
BY DEF Restrict, IsNodes

LEMMA MakeTree ==
    ASSUME NEW id, id \subseteq Event \X Callback, NEW g, IsNodes(g),
           NEW o, o = [id |-> id, ref |-> 1, nodes |-> g]
    PROVE  IsTree(o) /\ o.ref = 1 /\ o.id = id /\ o.nodes = g
<1>1. o.ref = 1 /\ o.id = id /\ o.nodes = g
  OBVIOUS
<1> QED
  BY <1>1 DEF IsTree, IsNodes

\* What RegCb does on the tree of slot x.
RegDone(mm, pp, x, ev, cb, q, v) ==
    /\ v \in TreeObj /\ MemOK(q, Hold(Put(pp, x, v)))
    /\ q.trees[v].id = NewId(OldTree(mm, pp[x]).id, ev, cb)
    /\ \A u \in TreeObj : Hold(pp)[u] # {} /\ Hold(Put(pp, x, v))[u] # {} =>
          /\ q.trees[u].id = mm.trees[u].id
          /\ q.trees[u].nodes = mm.trees[u].nodes
    /\ \/ Hold(pp)[v] # {}
       \/ q.trees[v].nodes = Inherit(OldTree(mm, pp[x]).nodes, create_spine(ev, cb))

LEMMA RegOK ==
    ASSUME NEW mm, NEW pp \in [Slot -> TreeObj \cup {Null}], MemOK(mm, Hold(pp)),
           NEW x \in Slot, NEW ev \in Event, NEW cb \in Callback,
           IsNodes(create_spine(ev, cb)),
           NEW q, q = RegCb(mm, pp[x], ev, cb).m, NEW v, v = RegCb(mm, pp[x], ev, cb).t
    PROVE  RegDone(mm, pp, x, ev, cb, q, v)
<1> DEFINE t == pp[x]
           old == OldTree(mm, t)
           nid == NewId(old.id, ev, cb)
           spine == create_spine(ev, cb)
<1>1. t \in TreeObj \cup {Null}
  OBVIOUS
<1>2. /\ IsTree(old) /\ (t # Null => old = mm.trees[t] /\ x \in Hold(pp)[t])
  <2>1. t # Null => x \in Hold(pp)[t]
    BY HoldType
  <2> QED
    BY <1>1, <2>1, DeadTree DEF OldTree, MemOK, Memory
<1>3. nid \subseteq Event \X Callback /\ nid # old.id
  <2>1. old.id \subseteq Event \X Callback
    BY <1>2 DEF IsTree
  <2> HIDE DEF old
  <2> QED
    BY <2>1, NewIdFact
<1>4. CASE nid \in DOMAIN mm.store
  <2> DEFINE w == mm.store[nid]
             d == stree_inc_ref(stree_dec_ref(mm, Once(t)), Once(w))
  <2>1. RegCb(mm, t, ev, cb) = [m |-> d, t |-> w]
    <3> HIDE DEF d
    <3>1. nid = (old.id \cup {<<ev, cb>>}) \ (old.id \cap {<<ev, cb>>})
      BY DEF NewId
    <3>2. old = IF t = Null THEN Dead ELSE mm.trees[t]
      BY DEF OldTree
    <3> QED
      BY <1>4, <3>1, <3>2 DEF RegCb, d
  <2>2. q = d /\ v = w
    <3> HIDE DEF d, w
    <3> QED
      BY <2>1
  <2>3. w # t
    <3>1. w \in TreeObj /\ mm.trees[w].id = nid
      BY <1>4 DEF MemOK, StoreOK
    <3> QED
      BY <1>2, <1>3, <3>1, NullTree
  <2> HIDE DEF nid
  <2>4. /\ w \in TreeObj /\ Hold(pp)[w] # {} /\ mm.trees[w].id = nid
        /\ MemOK(q, Hold(Put(pp, x, w)))
        /\ \A u \in TreeObj : Hold(Put(pp, x, w))[u] # {} =>
              q.trees[u].id = mm.trees[u].id /\ q.trees[u].nodes = mm.trees[u].nodes
    <3>1. q = stree_inc_ref(stree_dec_ref(mm, Once(pp[x])), Once(w))
      BY <2>2
    <3>2. MemOK(mm, Hold(pp)) /\ x \in Slot /\ pp \in [Slot -> TreeObj \cup {Null}]
      OBVIOUS
    <3>3. Found(mm, nid, w) /\ w # pp[x]
      BY <1>4, <2>3 DEF Found
    <3> HIDE DEF w
    <3> QED
      BY ONLY <3>1, <3>2, <3>3, RegFound
  <2>5. x \in Hold(Put(pp, x, w))[w]
    BY <2>4, Redirect
  <2>6. q.trees[w].id = nid
    BY <2>4, <2>5
  <2> QED
    BY <2>2, <2>4, <2>6 DEF RegDone, nid
<1>5. CASE nid \notin DOMAIN mm.store
  <2> DEFINE n == CHOOSE u \in TreeObj : mm.trees[u] = Dead
             left == IF t # Null /\ Reusable(old.ref)
                     THEN Restrict(old.nodes, DOMAIN old.nodes \cap DOMAIN spine)
                     ELSE old.nodes
             o == [id |-> nid, ref |-> 1, nodes |-> Inherit(old.nodes, spine)]
             p == [old EXCEPT !.nodes = left]
             d == stree_dec_ref(Enter(mm, Make(mm, n, o, t, p), nid, n), Once(t))
  <2>1. n \in TreeObj /\ mm.trees[n] = Dead
    <3>1. PICK u \in TreeObj : Hold(pp)[u] = {}
      BY FreeTree
    <3>2. mm.trees[u] = Dead
      BY <3>1 DEF MemOK, CountsOK
    <3> QED
      BY <3>2
  <2>2. RegCb(mm, t, ev, cb) = [m |-> d, t |-> n]
    <3>1. nid = (old.id \cup {<<ev, cb>>}) \ (old.id \cap {<<ev, cb>>})
      BY DEF NewId
    <3>2. old = IF t = Null THEN Dead ELSE mm.trees[t]
      BY DEF OldTree
    <3>3. d = stree_dec_ref(kvs_insert([mm EXCEPT !.trees =
                 [u \in TreeObj |-> IF u = n THEN o ELSE IF u = t THEN p ELSE mm.trees[u]]],
                 nid, n), Once(t))
      BY DEF Enter, Make
    <3> HIDE DEF d
    <3> QED
      BY <1>5, <3>1, <3>2, <3>3 DEF RegCb
  <2>3. IsNodes(old.nodes)
    BY <1>2 DEF IsTree, IsNodes
  <2>4. /\ IsNodes(left)
        /\ t # Null => old.ref = 1 \/ left = old.nodes
    BY <2>3, RestNodes DEF Reusable
  <2>5. IsTree(p) /\ p.ref = old.ref /\ p.id = old.id /\ p.nodes = left
    <3> HIDE DEF left, old
    <3> QED
      BY <1>2, <2>4, TreeNodes
  <2>6. IsTree(o) /\ o.ref = 1 /\ o.id = nid /\ o.nodes = Inherit(old.nodes, spine)
    <3>1. IsNodes(Inherit(old.nodes, spine))
      BY <2>3, InheritNodes
    <3> DEFINE g == Inherit(old.nodes, spine)
    <3> HIDE DEF g, nid
    <3>2. o = [id |-> nid, ref |-> 1, nodes |-> g]
      BY DEF g
    <3>3. IsNodes(g)
      BY <3>1 DEF g
    <3> HIDE DEF o
    <3>4. IsTree(o) /\ o.ref = 1 /\ o.id = nid /\ o.nodes = g
      BY <1>3, <3>2, <3>3, MakeTree
    <3> QED
      BY <3>4 DEF g
  <2>7. Keeps(mm, Hold(pp), t, p)
    BY <1>2, <2>5 DEF Keeps
  <2>8. Spares(mm, t, p)
    BY <1>2, <2>4, <2>5 DEF Spares
  <2> HIDE DEF d
  <2>9. q = d /\ v = n
    BY <2>2
  <2>10. d = stree_dec_ref(Enter(mm, Make(mm, n, o, pp[x], p), o.id, n), Once(pp[x]))
    BY <2>6 DEF d
  <2>11. o.id \notin DOMAIN mm.store
    BY <1>5, <2>6
  <2> HIDE DEF o, p, n, left, nid
  <2>12. /\ MemOK(q, Hold(Put(pp, x, n)))
         /\ q.trees[n].id = o.id /\ q.trees[n].nodes = o.nodes
         /\ \A u \in TreeObj : u # n /\ Hold(Put(pp, x, n))[u] # {} =>
              q.trees[u].id = mm.trees[u].id /\ q.trees[u].nodes = mm.trees[u].nodes
         /\ Hold(pp)[n] = {}
    <3>1. q = stree_dec_ref(Enter(mm, Make(mm, n, o, pp[x], p), o.id, n), Once(pp[x]))
      BY <2>9, <2>10
    <3>2. MemOK(mm, Hold(pp)) /\ x \in Slot /\ pp \in [Slot -> TreeObj \cup {Null}]
      OBVIOUS
    <3> QED
      BY ONLY <2>1, <2>6, <2>7, <2>8, <2>11, <3>1, <3>2, RegNew
  <2> QED
    BY <2>1, <2>6, <2>9, <2>12 DEF RegDone, nid
<1> QED
  BY <1>4, <1>5

-----------------------------------------------------------------------------
(* All pointers of a socket at once.                                       *)

\* Slots of one socket, added to slots of others.
Apart(S, s, A) == \A h \in A : <<s, h>> \notin S
Joined(S, s, A) == S \cup ({s} \X A)

LEMMA AddSlots ==
    ASSUME NEW S, IsFiniteSet(S), NEW s, NEW A, IsFiniteSet(A),
           Apart(S, s, A), NEW T, T = Joined(S, s, A)
    PROVE  /\ Cardinality(A) \in Nat /\ (Cardinality(A) > 0 => A # {})
           /\ Cardinality(T) = Cardinality(S) + Cardinality(A)
<1> DEFINE B == {s} \X A
<1>1. IsFiniteSet(A) /\ Cardinality(A) \in Nat
  BY FS_CardinalityType
<1>2. IsFiniteSet({s}) /\ Cardinality({s}) = 1
  BY FS_Singleton
<1>3. IsFiniteSet(B) /\ Cardinality(B) = Cardinality({s}) * Cardinality(A)
  BY <1>1, <1>2, FS_Product
<1>4. Cardinality(B) = Cardinality(A)
  BY <1>1, <1>2, <1>3
<1>5. IsFiniteSet(S) /\ Cardinality(S) \in Nat
  BY FS_CardinalityType
<1>6. S \cap B = {}
  BY DEF Apart
<1>7. Cardinality(S \cup B) = Cardinality(S) + Cardinality(B) - Cardinality(S \cap B)
  BY <1>3, <1>5, FS_Union
<1>8. Cardinality(S \cap B) = 0
  BY <1>6, FS_EmptySet
<1>9. Cardinality(A) > 0 => A # {}
  BY FS_EmptySet
<1> HIDE DEF B
<1>10. Cardinality(S \cup B) = Cardinality(S) + Cardinality(A)
  BY <1>1, <1>4, <1>5, <1>7, <1>8
<1> QED
  BY <1>1, <1>9, <1>10 DEF B, Joined

LEMMA SlotIs == \A x \in Slot : /\ x = <<x[1], x[2]>> /\ x[1] \in Socket /\ x[2] \in Hooks
BY DEF Slot

HooksOf(pp, s, u) == {h \in Hooks : pp[<<s, h>>] = u}
CountOf(pp, s) == [u \in TreeObj |-> Cardinality(HooksOf(pp, s, u))]
Copied(pp, s) == [x \in Slot |-> IF x[1] = s THEN pp[<<Listener, x[2]>>] ELSE pp[x]]
Cleared(pp, s) == [x \in Slot |-> IF x[1] = s THEN Null ELSE pp[x]]

\* A new socket takes over the listener's pointers.
LEMMA CopyOK ==
    ASSUME NEW pp \in [Slot -> TreeObj \cup {Null}], NEW s \in Streams,
           \A h \in Hooks : pp[<<s, h>>] = Null
    PROVE  /\ Copied(pp, s) \in [Slot -> TreeObj \cup {Null}]
           /\ CountOf(pp, Listener) \in [TreeObj -> Nat]
           /\ Grows(Hold(pp), Hold(Copied(pp, s)), CountOf(pp, Listener))
<1> DEFINE qq == Copied(pp, s)
           N == CountOf(pp, Listener)
<1>1. s \in Socket /\ Listener \in Socket /\ s # Listener
  BY EventTreeAssumption DEF Socket
<1>2. qq \in [Slot -> TreeObj \cup {Null}]
  <2>1. \A x \in Slot : <<Listener, x[2]>> \in Slot
    BY <1>1, SlotIs DEF Slot
  <2> QED
    BY <2>1 DEF Copied
<1>3. ASSUME NEW u \in TreeObj
      PROVE  /\ N[u] \in Nat
             /\ Cardinality(Hold(qq)[u]) = Cardinality(Hold(pp)[u]) + N[u]
             /\ N[u] > 0 => Hold(pp)[u] # {}
             /\ Hold(pp)[u] # {} => Hold(qq)[u] # {}
  <2> DEFINE A == HooksOf(pp, Listener, u)
  <2>1. A \in SUBSET Hooks /\ \A h \in Hooks : h \in A <=> pp[<<Listener, h>>] = u
    BY DEF HooksOf
  <2>2. N[u] = Cardinality(A)
    BY DEF CountOf
  <2> HIDE DEF A
  <2>3. Hold(pp)[u] \in SUBSET Slot /\ \A x : x \in Hold(pp)[u] <=> x \in Slot /\ pp[x] = u
    BY HoldType
  <2>4. \A x : x \in Hold(qq)[u] <=> x \in Slot /\ qq[x] = u
    BY HoldType
  <2>5. \A x \in Slot : qq[x] = IF x[1] = s THEN pp[<<Listener, x[2]>>] ELSE pp[x]
    BY DEF Copied
  <2>6. \A h \in Hooks : <<s, h>> \in Slot /\ <<Listener, h>> \in Slot
    BY <1>1 DEF Slot
  <2>7. \A h \in A : <<s, h>> \notin Hold(pp)[u]
    BY <2>1, <2>3, NullTree
  <2> HIDE DEF qq
  <2>8. Hold(qq)[u] = Hold(pp)[u] \cup ({s} \X A)
    <3>1. ASSUME NEW x \in Slot, x[1] = s
          PROVE  x \in Hold(qq)[u] <=> x \in Hold(pp)[u] \cup ({s} \X A)
      <4>1. x = <<s, x[2]>> /\ x[2] \in Hooks
        BY <3>1, SlotIs
      <4>2. x \notin Hold(pp)[u]
        BY <2>3, <4>1, NullTree
      <4>3. x \in Hold(qq)[u] <=> x[2] \in A
        BY <2>1, <2>4, <2>5, <3>1, <4>1
      <4> QED
        BY <4>1, <4>2, <4>3
    <3>2. ASSUME NEW x \in Slot, x[1] # s
          PROVE  x \in Hold(qq)[u] <=> x \in Hold(pp)[u] \cup ({s} \X A)
      <4>1. x \notin {s} \X A
        BY <3>2
      <4> QED
        BY <2>3, <2>4, <2>5, <3>2, <4>1
    <3>3. \A x \in Hold(qq)[u] \cup Hold(pp)[u] \cup ({s} \X A) : x \in Slot
      <4>1. {s} \X A \subseteq Slot
        BY <1>1, <2>1 DEF Slot
      <4> QED
        BY <2>3, <2>4, <4>1
    <3> QED
      BY <3>1, <3>2, <3>3
  <2>9. /\ Cardinality(A) \in Nat /\ (Cardinality(A) > 0 => A # {})
        /\ Cardinality(Hold(qq)[u]) = Cardinality(Hold(pp)[u]) + Cardinality(A)
    <3> DEFINE S == Hold(pp)[u]
               T == Hold(qq)[u]
    <3>1. T = Joined(S, s, A) /\ Apart(S, s, A)
      BY <2>3, <2>7, <2>8 DEF Joined, Apart
    <3>2. IsFiniteSet(A) /\ IsFiniteSet(S)
      BY <2>1, <2>3, EventTreeAssumption, SlotFinite, FS_Subset
    <3> HIDE DEF S, T
    <3>3. /\ Cardinality(A) \in Nat /\ (Cardinality(A) > 0 => A # {})
          /\ Cardinality(T) = Cardinality(S) + Cardinality(A)
      BY ONLY <3>1, <3>2, AddSlots
    <3> QED
      BY <3>3 DEF S, T
  <2>10. A # {} => Hold(pp)[u] # {}
    BY <2>1, <2>3, <2>6
  <2> HIDE DEF N
  <2> QED
    BY <2>2, <2>8, <2>9, <2>10
<1>4. N \in [TreeObj -> Nat]
  <2>1. N = [u \in TreeObj |-> N[u]]
    BY DEF CountOf
  <2> HIDE DEF N
  <2> QED
    BY <1>3, <2>1
<1> QED
  BY <1>2, <1>3, <1>4 DEF Grows

\* All of a socket's pointers are given up.
LEMMA ClearOK ==
    ASSUME NEW pp \in [Slot -> TreeObj \cup {Null}], NEW s \in Socket
    PROVE  /\ Cleared(pp, s) \in [Slot -> TreeObj \cup {Null}]
           /\ CountOf(pp, s) \in [TreeObj -> Nat]
           /\ \A u \in TreeObj : Cardinality(Hold(pp)[u]) =
                  Cardinality(Hold(Cleared(pp, s))[u]) + CountOf(pp, s)[u]
<1> DEFINE qq == Cleared(pp, s)
           N == CountOf(pp, s)
<1>1. qq \in [Slot -> TreeObj \cup {Null}]
  BY DEF Cleared
<1>2. ASSUME NEW u \in TreeObj
      PROVE  /\ N[u] \in Nat
             /\ Cardinality(Hold(pp)[u]) = Cardinality(Hold(qq)[u]) + N[u]
  <2> DEFINE A == HooksOf(pp, s, u)
             S == Hold(qq)[u]
             T == Hold(pp)[u]
  <2>1. A \in SUBSET Hooks /\ \A h \in Hooks : h \in A <=> pp[<<s, h>>] = u
    BY DEF HooksOf
  <2>2. N[u] = Cardinality(A)
    BY DEF CountOf
  <2> HIDE DEF A
  <2>3. /\ T \in SUBSET Slot /\ S \in SUBSET Slot
        /\ \A x : x \in T <=> x \in Slot /\ pp[x] = u
        /\ \A x : x \in S <=> x \in Slot /\ qq[x] = u
    BY HoldType
  <2>4. \A x \in Slot : qq[x] = IF x[1] = s THEN Null ELSE pp[x]
    BY DEF Cleared
  <2> HIDE DEF qq, S, T
  <2>5. {s} \X A \subseteq Slot
    BY <2>1 DEF Slot
  <2>6. T = Joined(S, s, A)
    <3>1. ASSUME NEW x \in Slot, x[1] = s
          PROVE  x \in T <=> x \in S \cup ({s} \X A)
      <4>1. x = <<s, x[2]>> /\ x[2] \in Hooks
        BY <3>1, SlotIs
      <4>2. x \notin S
        BY <2>3, <2>4, <3>1, NullTree
      <4>3. x \in T <=> x[2] \in A
        BY <2>1, <2>3, <4>1
      <4> QED
        BY <4>1, <4>2, <4>3
    <3>2. ASSUME NEW x \in Slot, x[1] # s
          PROVE  x \in T <=> x \in S \cup ({s} \X A)
      <4>1. x \notin {s} \X A
        BY <3>2
      <4> QED
        BY <2>3, <2>4, <3>2, <4>1
    <3> QED
      BY <2>3, <2>5, <3>1, <3>2 DEF Joined
  <2>7. Apart(S, s, A)
    <3> SUFFICES ASSUME NEW h \in A PROVE <<s, h>> \notin S
      BY DEF Apart
    <3>1. <<s, h>> \in Slot /\ <<s, h>>[1] = s
      BY <2>1 DEF Slot
    <3> QED
      BY <2>3, <2>4, <3>1, NullTree
  <2>8. IsFiniteSet(A) /\ IsFiniteSet(S)
    BY <2>1, <2>3, EventTreeAssumption, SlotFinite, FS_Subset
  <2>9. Cardinality(A) \in Nat /\ Cardinality(T) = Cardinality(S) + Cardinality(A)
    BY ONLY <2>6, <2>7, <2>8, AddSlots
  <2> HIDE DEF N
  <2> QED
    BY <2>2, <2>9 DEF S, T
<1>3. N \in [TreeObj -> Nat]
  <2>1. N = [u \in TreeObj |-> N[u]]
    BY DEF CountOf
  <2> HIDE DEF N
  <2> QED
    BY <1>2, <2>1
<1> QED
  BY <1>1, <1>2, <1>3

LEMMA EachIs == \A s : Each(s) = CountOf(ptr, s)
BY DEF Each, CountOf, HooksOf

-----------------------------------------------------------------------------
(* Paths of events.                                                        *)

\* No event of a path comes again.
Up(p) == \A i \in 1 .. Len(p) - 1 : p[i] < p[i + 1]
IsPath(p, ev) == p \in Seq(Event) /\ Len(p) > 0 /\ p[Len(p)] = ev /\ Up(p)

UdesOK ==
    /\ udes \in Seq([parent : Event, ft : Filter, path : Seq(Event)])
    /\ Len(udes) <= MaxUde
    /\ \A k \in 1 .. Len(udes) : IsPath(udes[k].path, NumBev + k - 1)

LEMMA EventNat == /\ NumBev \in Nat \ {0} /\ MaxUde \in Nat /\ Event \subseteq Nat
                  /\ Builtin \subseteq Event
BY EventTreeAssumption DEF Event, Builtin

\* The last two nodes of a spine are of the same event, the others are not.
LEMMA UpFacts ==
    ASSUME NEW p \in Seq(Event), NEW ev \in Event, IsPath(p, ev)
    PROVE  /\ Append(p, ev) \in Seq(Event) /\ Last(Append(p, ev)) = ev
           /\ ~Up(Append(p, ev)) /\ Len(Append(p, ev)) > Len(p)
           /\ \A n \in 1 .. Len(p) : SubSeq(p, 1, n) \in Seq(Event) /\ Up(SubSeq(p, 1, n))
                                     /\ Len(SubSeq(p, 1, n)) = n
           /\ \A e \in Event : ev < e => IsPath(Append(p, e), e)
<1>1. Len(p) \in Nat /\ Len(p) > 0 /\ p[Len(p)] = ev
  BY DEF IsPath
<1>2. \A e \in Event : /\ Append(p, e) \in Seq(Event) /\ Len(Append(p, e)) = Len(p) + 1
                       /\ \A i \in 1 .. Len(p) : Append(p, e)[i] = p[i]
                       /\ Append(p, e)[Len(p) + 1] = e
  OBVIOUS
<1>3. Last(Append(p, ev)) = ev
  BY <1>2 DEF Last
<1>4. ~Up(Append(p, ev))
  <2>1. Len(p) \in 1 .. Len(Append(p, ev)) - 1
    BY <1>1, <1>2
  <2>2. Append(p, ev)[Len(p)] = ev /\ Append(p, ev)[Len(p) + 1] = ev /\ ~(ev < ev)
    BY <1>1, <1>2, EventNat
  <2> QED
    BY <2>1, <2>2 DEF Up
<1>5. ASSUME NEW n \in 1 .. Len(p)
      PROVE  SubSeq(p, 1, n) \in Seq(Event) /\ Up(SubSeq(p, 1, n)) /\ Len(SubSeq(p, 1, n)) = n
  <2>1. /\ SubSeq(p, 1, n) \in Seq(Event) /\ Len(SubSeq(p, 1, n)) = n
        /\ \A i \in 1 .. n : SubSeq(p, 1, n)[i] = p[i]
    BY <1>1
  <2>2. \A i \in 1 .. Len(p) - 1 : p[i] < p[i + 1]
    BY DEF IsPath, Up
  <2> QED
    BY <1>1, <2>1, <2>2 DEF Up
<1>6. ASSUME NEW e \in Event, ev < e
      PROVE  IsPath(Append(p, e), e)
  <2>1. \A i \in 1 .. Len(p) - 1 : p[i] < p[i + 1]
    BY DEF IsPath, Up
  <2>2. Up(Append(p, e))
    <3> SUFFICES ASSUME NEW i \in 1 .. Len(p) PROVE Append(p, e)[i] < Append(p, e)[i + 1]
      BY <1>1, <1>2 DEF Up
    <3>1. CASE i = Len(p)
      BY <1>1, <1>2, <1>6, <3>1
    <3>2. CASE i # Len(p)
      <4>1. i \in 1 .. Len(p) - 1 /\ i + 1 \in 1 .. Len(p)
        BY <1>1, <3>2
      <4> QED
        BY <1>2, <2>1, <4>1
    <3> QED
      BY <3>1, <3>2
  <2> QED
    BY <1>1, <1>2, <2>2 DEF IsPath
<1> QED
  BY <1>1, <1>2, <1>3, <1>4, <1>5, <1>6

LEMMA PathToIs ==
    ASSUME UdesOK, NEW ev \in Defined
    PROVE  ev \in Event /\ IsPath(PathTo(ev), ev) /\ ev < NumBev + Len(udes)
<1>1. Len(udes) \in Nat /\ Len(udes) <= MaxUde
  BY DEF UdesOK
<1>2. CASE ev \in Builtin
  <2>1. PathTo(ev) = <<ev>> /\ ev \in Event
    BY <1>2, EventNat DEF PathTo
  <2>2. <<ev>> \in Seq(Event) /\ Len(<<ev>>) = 1 /\ <<ev>>[1] = ev
    BY <2>1
  <2>3. ev < NumBev + Len(udes)
    BY <1>1, <1>2, EventNat DEF Builtin
  <2> QED
    BY <2>1, <2>2, <2>3 DEF IsPath, Up
<1>3. CASE ev \notin Builtin
  <2>1. PICK k \in 1 .. Len(udes) : ev = NumBev + k - 1
    BY <1>3 DEF Defined
  <2>2. ev - NumBev + 1 = k
    BY <2>1, EventNat
  <2>3. PathTo(ev) = udes[k].path
    BY <1>3, <2>2 DEF PathTo, Ude
  <2>4. ev \in Event /\ ev < NumBev + Len(udes)
    BY <1>1, <2>1, EventNat DEF Event
  <2> QED
    BY <2>1, <2>3, <2>4 DEF UdesOK
<1> QED
  BY <1>2, <1>3

-----------------------------------------------------------------------------
(* The callbacks of a tree.                                                *)

Pairs(nodes) == {<<Last(p), nodes[p]>> : p \in {q \in DOMAIN nodes : nodes[q] # None}}

\* The id says which callbacks the nodes have, and a node without a callback
\* is of a path.
Named(o) ==
    /\ Pairs(o.nodes) = o.id
    /\ \A p \in DOMAIN o.nodes : o.nodes[p] = None => Up(p)

LEMMA SpineIs ==
    ASSUME UdesOK, NEW ev \in Defined, NEW cb \in Callback
    PROVE  \E top \in Seq(Event) :
              /\ ~Up(top) /\ Last(top) = ev /\ top \in DOMAIN create_spine(ev, cb)
              /\ create_spine(ev, cb)[top] = cb
              /\ \A p \in DOMAIN create_spine(ev, cb) :
                    /\ p \in Seq(Event)
                    /\ p # top => Up(p) /\ create_spine(ev, cb)[p] = None
              /\ IsNodes(create_spine(ev, cb))
<1> DEFINE path == PathTo(ev)
           top == Append(path, ev)
           low == {SubSeq(path, 1, n) : n \in 1 .. Len(path)}
           f == create_spine(ev, cb)
<1>1. IsPath(path, ev) /\ ev \in Event /\ path \in Seq(Event)
  BY PathToIs DEF IsPath
<1> HIDE DEF path
<1>2. /\ top \in Seq(Event) /\ Last(top) = ev /\ ~Up(top) /\ Len(top) > Len(path)
      /\ \A n \in 1 .. Len(path) : /\ SubSeq(path, 1, n) \in Seq(Event)
                                   /\ Up(SubSeq(path, 1, n)) /\ Len(SubSeq(path, 1, n)) = n
  BY <1>1, UpFacts
<1>3. Len(path) \in Nat
  BY <1>1
<1>4. \A p \in low : p \in Seq(Event) /\ Up(p) /\ ~(Len(p) > Len(path))
  <2> SUFFICES ASSUME NEW n \in 1 .. Len(path)
               PROVE  LET p == SubSeq(path, 1, n)
                      IN  p \in Seq(Event) /\ Up(p) /\ ~(Len(p) > Len(path))
    BY Zenon
  <2>1. Len(SubSeq(path, 1, n)) = n /\ ~(n > Len(path))
    BY <1>2, <1>3
  <2> QED
    BY <1>2, <2>1
<1>5. f = [p \in low \cup {top} |-> IF Len(p) > Len(path) THEN cb ELSE None]
  BY DEF create_spine, path
<1> HIDE DEF f, low, top
<1>6. DOMAIN f = low \cup {top} /\ f[top] = cb /\ \A p \in low : f[p] = None
  BY <1>2, <1>4, <1>5
<1>7. \A p \in DOMAIN f : p \in Seq(Event) /\ (p # top => Up(p) /\ f[p] = None)
  BY <1>2, <1>4, <1>6
<1>8. f \in [low \cup {top} -> Callback \cup {None}]
  BY <1>5
<1>9. IsNodes(f)
  BY <1>6, <1>7, <1>8 DEF IsNodes
<1> QED
  BY <1>2, <1>6, <1>7, <1>9 DEF f

LEMMA InheritNamed ==
    ASSUME NEW o, IsTree(o), Named(o), UdesOK, NEW ev \in Defined, NEW cb \in Callback,
           \A c \in Callback : <<ev, c>> \notin o.id,
           NEW g, g = Inherit(o.nodes, create_spine(ev, cb))
    PROVE  Pairs(g) = o.id \cup {<<ev, cb>>} /\ \A p \in DOMAIN g : g[p] = None => Up(p)
<1> DEFINE f == o.nodes
           s == create_spine(ev, cb)
<1>1. PICK top \in Seq(Event) :
          /\ ~Up(top) /\ Last(top) = ev /\ top \in DOMAIN s /\ s[top] = cb
          /\ \A p \in DOMAIN s : p # top => Up(p) /\ s[p] = None
  BY SpineIs
<1>2. cb # None
  BY EventTreeAssumption
<1>3. \A p \in DOMAIN f : f[p] \in Callback \cup {None}
  BY DEF IsTree
<1>4. Pairs(f) = o.id /\ \A p \in DOMAIN f : f[p] = None => Up(p)
  BY DEF Named
<1>5. top \notin DOMAIN f
  <2> SUFFICES ASSUME top \in DOMAIN f PROVE FALSE
    OBVIOUS
  <2>1. f[top] # None /\ f[top] \in Callback
    BY <1>1, <1>3, <1>4
  <2>2. <<Last(top), f[top]>> \in Pairs(f)
    BY <2>1 DEF Pairs
  <2> QED
    BY <1>1, <1>4, <2>1, <2>2
<1>6. /\ DOMAIN g = DOMAIN f \cup DOMAIN s
      /\ \A p \in DOMAIN g : g[p] = IF p \in DOMAIN f THEN f[p] ELSE s[p]
  BY DEF Inherit
<1> HIDE DEF f, s
<1>7. \A p \in DOMAIN g : g[p] = None => Up(p)
  BY <1>1, <1>2, <1>4, <1>6
<1>8. Pairs(g) = Pairs(f) \cup {<<ev, cb>>}
  <2>1. Pairs(g) \subseteq Pairs(f) \cup {<<ev, cb>>}
    <3> SUFFICES ASSUME NEW p \in DOMAIN g, g[p] # None
                 PROVE  <<Last(p), g[p]>> \in Pairs(f) \cup {<<ev, cb>>}
      BY DEF Pairs
    <3>1. CASE p \in DOMAIN f
      BY <1>6, <3>1 DEF Pairs
    <3>2. CASE p \notin DOMAIN f
      <4>1. p = top /\ g[p] = cb
        BY <1>1, <1>6, <3>2
      <4> QED
        BY <1>1, <4>1
    <3> QED
      BY <3>1, <3>2
  <2>2. Pairs(f) \subseteq Pairs(g)
    BY <1>6 DEF Pairs
  <2>3. <<ev, cb>> \in Pairs(g)
    <3>1. top \in DOMAIN g /\ g[top] = cb /\ g[top] # None
      BY <1>1, <1>2, <1>5, <1>6
    <3> QED
      BY <1>1, <3>1 DEF Pairs
  <2> QED
    BY <2>1, <2>2, <2>3
<1> QED
  BY <1>4, <1>7, <1>8

-----------------------------------------------------------------------------
(* The invariant.                                                          *)

\* A socket that does not exist has no trees.
SockOK ==
    /\ ptr \in [Slot -> TreeObj \cup {Null}] /\ open \subseteq Streams
    /\ \A s \in Streams \ open, h \in Hooks : ptr[<<s, h>>] = Null

\* A walk is over nodes of its tree, as long as somebody holds that.
Walking ==
    /\ walk = [tree |-> walk.tree, sock |-> walk.sock, todo |-> walk.todo,
               running |-> walk.running]
    /\ walk.tree \in TreeObj
    /\ Hold(ptr)[walk.tree] # {} => walk.todo \subseteq DOMAIN m.trees[walk.tree].nodes
    /\ walk.running \in Callback \cup {None}
WalkOK == walk = Idle \/ Walking

SafeInv == UdesOK /\ SockOK /\ MemOK(m, Hold(ptr)) /\ WalkOK

\* asked is what the ids say, and the ids are right.
NamesOK ==
    /\ asked = [x \in Slot |-> asked[x]]
    /\ \A x \in Slot : asked[x] = OldTree(m, ptr[x]).id
    /\ \A t \in TreeObj : Hold(ptr)[t] # {} => Named(m.trees[t])

\* In the trees that are still held nothing changes.
Unchanged(q, mm, H) ==
    \A t \in TreeObj : H[t] # {} => /\ q.trees[t].id = mm.trees[t].id
                                    /\ q.trees[t].nodes = mm.trees[t].nodes

LEMMA IdleIs == /\ Idle.tree = Null /\ Idle.running = None /\ Idle.todo = {}
                /\ Idle = [tree |-> Null, sock |-> Listener, todo |-> {}, running |-> None]
BY DEF Idle

LEMMA Initial == Init => SafeInv /\ NamesOK
<1> SUFFICES ASSUME Init PROVE SafeInv /\ NamesOK
  OBVIOUS
<1>1. UdesOK
  <2>1. <<>> \in Seq([parent : Event, ft : Filter, path : Seq(Event)]) /\ Len(<<>>) = 0
    OBVIOUS
  <2> QED
    BY <2>1, EventNat DEF Init, UdesOK
<1>2. SockOK
  BY DEF Init, SockOK, Slot, Socket
<1>3. \A t \in TreeObj : Hold(ptr)[t] = {}
  BY NullTree DEF Init, Hold
<1>4. m.trees = [t \in TreeObj |-> Dead] /\ m.store = <<>>
      /\ m = [trees |-> m.trees, store |-> m.store]
  BY DEF Init
<1>5. DOMAIN m.store = {} /\ m.store = [i \in DOMAIN m.store |-> m.store[i]]
  BY <1>4
<1>6. Memory(m)
  <2>1. IsFiniteSet(DOMAIN m.store) /\ Cardinality(DOMAIN m.store) = 0
    BY <1>5, FS_EmptySet
  <2> QED
    BY <1>4, <1>5, <2>1, DeadTree, EventTreeAssumption DEF Memory
<1>7. MemOK(m, Hold(ptr))
  <2>1. \A t \in TreeObj : m.trees[t] = Dead /\ m.trees[t].ref = 0
    BY <1>4, DeadTree
  <2> QED
    BY <1>3, <1>5, <1>6, <2>1, FS_EmptySet DEF MemOK, StoreOK, CountsOK
<1>8. WalkOK
  BY DEF Init, WalkOK
<1>9. NamesOK
  <2>1. \A x \in Slot : asked[x] = {} /\ ptr[x] = Null
    BY DEF Init
  <2>2. asked = [x \in Slot |-> asked[x]]
    BY DEF Init
  <2> QED
    BY <1>3, <2>1, <2>2, DeadTree DEF NamesOK, OldTree
<1> QED
  BY <1>1, <1>2, <1>7, <1>8, <1>9 DEF SafeInv

LEMMA AddStep ==
    ASSUME SafeInv, NEW s \in Streams, AddMonitorStreamSockets(s)
    PROVE  SafeInv' /\ (NamesOK => NamesOK')
<1>1. /\ ptr \in [Slot -> TreeObj \cup {Null}] /\ \A h \in Hooks : ptr[<<s, h>>] = Null
      /\ UdesOK /\ MemOK(m, Hold(ptr)) /\ open \subseteq Streams
  BY DEF SafeInv, SockOK, AddMonitorStreamSockets
<1>2. /\ walk = Idle /\ walk' = walk /\ udes' = udes /\ open' = open \cup {s}
      /\ ptr' = Copied(ptr, s)
      /\ asked' = [x \in Slot |-> IF x[1] = s THEN asked[<<Listener, x[2]>>] ELSE asked[x]]
  BY DEF AddMonitorStreamSockets, Copied
<1>3. m' = stree_inc_ref(m, CountOf(ptr, Listener))
  BY EachIs DEF AddMonitorStreamSockets
<1>4. /\ ptr' \in [Slot -> TreeObj \cup {Null}]
      /\ CountOf(ptr, Listener) \in [TreeObj -> Nat]
      /\ Grows(Hold(ptr), Hold(ptr'), CountOf(ptr, Listener))
  BY <1>1, <1>2, CopyOK
<1>5. Hold(ptr) \in [TreeObj -> SUBSET Slot] /\ Hold(ptr') \in [TreeObj -> SUBSET Slot]
  BY HoldType
<1>6. /\ MemOK(m', Hold(ptr'))
      /\ \A t \in TreeObj : m'.trees[t].id = m.trees[t].id /\ m'.trees[t].nodes = m.trees[t].nodes
  BY ONLY <1>1, <1>3, <1>4, <1>5, IncOK
<1>7. \A x \in Slot : ptr'[x] = IF x[1] = s THEN ptr[<<Listener, x[2]>>] ELSE ptr[x]
  BY <1>2 DEF Copied
<1>8. SockOK'
  <2>1. \A u \in Streams \ open', h \in Hooks : ptr'[<<u, h>>] = Null
    <3> SUFFICES ASSUME NEW u \in Streams \ open', NEW h \in Hooks PROVE ptr'[<<u, h>>] = Null
      OBVIOUS
    <3>1. <<u, h>> \in Slot /\ u # s /\ u \in Streams \ open
      BY <1>2 DEF Slot, Socket
    <3>2. ptr[<<u, h>>] = Null
      BY <3>1 DEF SafeInv, SockOK
    <3> QED
      BY <1>7, <3>1, <3>2
  <2> QED
    BY <1>1, <1>2, <1>4, <2>1 DEF SockOK
<1>9. SafeInv'
  BY <1>1, <1>2, <1>6, <1>8 DEF SafeInv, WalkOK, UdesOK
<1>10. ASSUME NamesOK PROVE NamesOK'
  <2>1. ASSUME NEW x \in Slot PROVE asked'[x] = OldTree(m', ptr'[x]).id
    <3> DEFINE y == IF x[1] = s THEN <<Listener, x[2]>> ELSE x
    <3>1. y \in Slot
      BY SlotIs DEF Slot, Socket
    <3>2. asked'[x] = asked[y] /\ ptr'[x] = ptr[y]
      BY <1>2, <1>7
    <3> HIDE DEF y
    <3>3. asked[y] = OldTree(m, ptr[y]).id /\ ptr[y] \in TreeObj \cup {Null}
      BY <1>1, <1>10, <3>1 DEF NamesOK
    <3> QED
      BY <1>6, <3>2, <3>3 DEF OldTree
  <2>2. ASSUME NEW t \in TreeObj, Hold(ptr')[t] # {} PROVE Named(m'.trees[t])
    <3>1. Hold(ptr)[t] # {}
      <4>1. PICK x \in Slot : ptr'[x] = t
        BY <2>2, HoldType
      <4>2. \E y \in Slot : ptr[y] = t
        <5>1. <<Listener, x[2]>> \in Slot
          BY SlotIs DEF Slot, Socket
        <5> QED
          BY <1>7, <4>1, <5>1
      <4> QED
        BY <4>2, HoldType
    <3> QED
      BY <1>6, <1>10, <3>1 DEF NamesOK, Named
  <2>3. asked' = [x \in Slot |-> asked'[x]]
    BY <1>2
  <2> QED
    BY <2>1, <2>2, <2>3 DEF NamesOK
<1> QED
  BY <1>9, <1>10

LEMMA ReleaseStep ==
    ASSUME SafeInv, NEW s \in Socket, Release(s)
    PROVE  /\ ptr' \in [Slot -> TreeObj \cup {Null}] /\ MemOK(m', Hold(ptr'))
           /\ \A x \in Slot : ptr'[x] = IF x[1] = s THEN Null ELSE ptr[x]
           /\ Unchanged(m', m, Hold(ptr'))
           /\ NamesOK => NamesOK'
<1>1. ptr \in [Slot -> TreeObj \cup {Null}] /\ MemOK(m, Hold(ptr))
  BY DEF SafeInv, SockOK
<1>2. /\ ptr' = Cleared(ptr, s)
      /\ asked' = [x \in Slot |-> IF x[1] = s THEN {} ELSE asked[x]]
  BY DEF Release, Cleared
<1>3. m' = stree_dec_ref(m, CountOf(ptr, s))
  BY EachIs DEF Release
<1>4. /\ ptr' \in [Slot -> TreeObj \cup {Null}] /\ CountOf(ptr, s) \in [TreeObj -> Nat]
      /\ \A u \in TreeObj : Cardinality(Hold(ptr)[u]) =
             Cardinality(Hold(ptr')[u]) + CountOf(ptr, s)[u]
  BY <1>1, <1>2, ClearOK
<1>5. Hold(ptr) \in [TreeObj -> SUBSET Slot] /\ Hold(ptr') \in [TreeObj -> SUBSET Slot]
  BY HoldType
<1>6. /\ MemOK(m', Hold(ptr'))
      /\ \A t \in TreeObj : Hold(ptr')[t] # {} =>
            m'.trees[t].id = m.trees[t].id /\ m'.trees[t].nodes = m.trees[t].nodes
  BY ONLY <1>1, <1>3, <1>4, <1>5, DecOK
<1>7. \A x \in Slot : ptr'[x] = IF x[1] = s THEN Null ELSE ptr[x]
  BY <1>2 DEF Cleared
<1>8. ASSUME NamesOK PROVE NamesOK'
  <2>1. ASSUME NEW x \in Slot PROVE asked'[x] = OldTree(m', ptr'[x]).id
    <3>1. CASE x[1] = s
      BY <1>2, <1>7, <3>1, DeadTree DEF OldTree
    <3>2. CASE x[1] # s
      <4>1. asked'[x] = asked[x] /\ ptr'[x] = ptr[x]
        BY <1>2, <1>7, <3>2
      <4>2. asked[x] = OldTree(m, ptr[x]).id /\ ptr[x] \in TreeObj \cup {Null}
        BY <1>1, <1>8 DEF NamesOK
      <4>3. ptr[x] # Null => Hold(ptr')[ptr[x]] # {}
        BY <4>1, <4>2, HoldType
      <4> QED
        BY <1>6, <4>1, <4>2, <4>3 DEF OldTree
    <3> QED
      BY <3>1, <3>2
  <2>2. ASSUME NEW t \in TreeObj, Hold(ptr')[t] # {} PROVE Named(m'.trees[t])
    <3>1. PICK x \in Slot : ptr'[x] = t
      BY <2>2, HoldType
    <3>2. ptr[x] = t
      BY <1>7, <3>1, NullTree
    <3>3. Hold(ptr)[t] # {}
      BY <3>2, HoldType
    <3> QED
      BY <1>6, <1>8, <2>2, <3>3 DEF NamesOK, Named
  <2>3. asked' = [x \in Slot |-> asked'[x]]
    BY <1>2
  <2> QED
    BY <2>1, <2>2, <2>3 DEF NamesOK
<1> QED
  BY <1>4, <1>6, <1>7, <1>8 DEF Unchanged

\* What is walked and not destroyed has a holder.
LEMMA WalkedIsHeld ==
    ASSUME SafeInv, WalkedTreeLives, walk # Idle
    PROVE  Walking /\ Hold(ptr)[walk.tree] # {}
<1>1. Walking /\ walk.tree \in Live
  BY DEF SafeInv, WalkOK, WalkedTreeLives
<1>2. walk.tree \in TreeObj /\ m.trees[walk.tree] # Dead
  BY <1>1 DEF Live
<1> QED
  BY <1>1, <1>2 DEF SafeInv, MemOK, CountsOK

\* A call on a socket leaves the nodes of the walked tree as they are or takes
\* the tree's last holder away.
LEMMA WalkStep ==
    ASSUME SafeInv, NEW s \in Socket, Calls(s), walk' = walk, open' = open,
           ptr' \in [Slot -> TreeObj \cup {Null}],
           \A x \in Slot : x[1] # s => ptr'[x] = ptr[x],
           \A t \in TreeObj : Hold(ptr)[t] # {} /\ Hold(ptr')[t] # {} =>
               m'.trees[t].nodes = m.trees[t].nodes
    PROVE  WalkOK' /\ SockOK'
<1>1. WalkOK'
  <2>1. CASE walk = Idle
    BY <2>1 DEF WalkOK
  <2>2. CASE walk # Idle
    <3>1. Walking /\ Hold(ptr)[walk.tree] # {}
      BY <2>2, WalkedIsHeld DEF Calls
    <3> QED
      BY <3>1 DEF WalkOK, Walking
  <2> QED
    BY <2>1, <2>2
<1>2. SockOK'
  <2>1. ptr \in [Slot -> TreeObj \cup {Null}] /\ open \subseteq Streams
    BY DEF SafeInv, SockOK
  <2>2. ASSUME NEW u \in Streams \ open, NEW h \in Hooks PROVE ptr'[<<u, h>>] = Null
    <3>1. u # s
      BY EventTreeAssumption DEF Calls
    <3>2. <<u, h>> \in Slot /\ <<u, h>>[1] = u
      BY DEF Slot, Socket
    <3>3. ptr[<<u, h>>] = Null
      BY DEF SafeInv, SockOK
    <3> QED
      BY <3>1, <3>2, <3>3
  <2> QED
    BY <2>1, <2>2 DEF SockOK
<1> QED
  BY <1>1, <1>2

LEMMA FreeStep ==
    ASSUME SafeInv, NEW s \in Streams, FreeMonStream(s)
    PROVE  SafeInv' /\ (NamesOK => NamesOK')
<1>1. s \in Socket /\ Release(s) /\ walk = Idle /\ walk' = walk /\ udes' = udes
      /\ open' = open \ {s}
  BY DEF FreeMonStream, Socket
<1>2. /\ ptr' \in [Slot -> TreeObj \cup {Null}] /\ MemOK(m', Hold(ptr'))
      /\ \A x \in Slot : ptr'[x] = IF x[1] = s THEN Null ELSE ptr[x]
      /\ NamesOK => NamesOK'
  BY <1>1, ReleaseStep
<1>3. SockOK'
  <2>1. open' \subseteq Streams
    BY <1>1 DEF SafeInv, SockOK
  <2>2. ASSUME NEW u \in Streams \ open', NEW h \in Hooks PROVE ptr'[<<u, h>>] = Null
    <3>1. <<u, h>> \in Slot /\ <<u, h>>[1] = u
      BY DEF Slot, Socket
    <3>2. u = s \/ ptr[<<u, h>>] = Null
      BY <1>1 DEF SafeInv, SockOK
    <3> QED
      BY <1>2, <3>1, <3>2
  <2> QED
    BY <1>2, <2>1, <2>2 DEF SockOK
<1> QED
  BY <1>1, <1>2, <1>3 DEF SafeInv, WalkOK, UdesOK

LEMMA StopStep ==
    ASSUME SafeInv, NEW s \in Socket, NEW side \in Side, mtcp_cb_stop(s, side)
    PROVE  SafeInv' /\ (NamesOK => NamesOK')
<1>1. Calls(s) /\ walk' = walk /\ udes' = udes /\ open' = open
  BY DEF mtcp_cb_stop
<1>2. CASE Release(s)
  <2>1. /\ ptr' \in [Slot -> TreeObj \cup {Null}] /\ MemOK(m', Hold(ptr'))
        /\ \A x \in Slot : ptr'[x] = IF x[1] = s THEN Null ELSE ptr[x]
        /\ Unchanged(m', m, Hold(ptr'))
        /\ NamesOK => NamesOK'
    BY <1>2, ReleaseStep
  <2>2. /\ \A x \in Slot : x[1] # s => ptr'[x] = ptr[x]
        /\ \A t \in TreeObj : Hold(ptr)[t] # {} /\ Hold(ptr')[t] # {} =>
               m'.trees[t].nodes = m.trees[t].nodes
    BY <2>1 DEF Unchanged
  <2>3. WalkOK' /\ SockOK'
    BY <1>1, <2>1, <2>2, WalkStep
  <2> QED
    BY <1>1, <2>1, <2>3 DEF SafeInv, UdesOK
<1>3. CASE UNCHANGED <<m, ptr, asked>>
  BY <1>1, <1>3 DEF SafeInv, UdesOK, SockOK, WalkOK, Walking, NamesOK
<1> QED
  BY <1>2, <1>3 DEF mtcp_cb_stop

LEMMA RegisterStep ==
    ASSUME SafeInv, NEW s \in Socket, NEW h \in Hooks, NEW ev \in Event,
           NEW cb \in Callback, mtcp_register_callback(s, h, ev, cb)
    PROVE  SafeInv' /\ (NamesOK /\ ~Again => NamesOK')
<1> DEFINE x == <<s, h>>
           v == RegCb(m, ptr[x], ev, cb).t
<1>1. /\ Calls(s) /\ walk' = walk /\ udes' = udes /\ open' = open /\ ev \in Defined
      /\ ptr' = Put(ptr, x, v) /\ m' = RegCb(m, ptr[x], ev, cb).m
      /\ asked' = [asked EXCEPT ![x] = @ \cup {<<ev, cb>>}]
      /\ Again \/ \A c \in Callback : <<ev, c>> \notin asked[x]
  BY DEF mtcp_register_callback, Put
<1>2. /\ x \in Slot /\ ptr \in [Slot -> TreeObj \cup {Null}]
      /\ MemOK(m, Hold(ptr)) /\ UdesOK
  BY DEF Slot, SafeInv, SockOK
<1>3. IsNodes(create_spine(ev, cb))
  BY <1>1, <1>2, SpineIs
<1>4. v = RegCb(m, ptr[x], ev, cb).t
  OBVIOUS
<1>5. x[1] = s
  OBVIOUS
<1> HIDE DEF v, x
<1>6. RegDone(m, ptr, x, ev, cb, m', v)
  BY ONLY <1>1, <1>2, <1>3, <1>4, ev \in Event, cb \in Callback, RegOK
<1>7. /\ v \in TreeObj /\ MemOK(m', Hold(ptr'))
      /\ m'.trees[v].id = NewId(OldTree(m, ptr[x]).id, ev, cb)
      /\ \A u \in TreeObj : Hold(ptr)[u] # {} /\ Hold(ptr')[u] # {} =>
            m'.trees[u].id = m.trees[u].id /\ m'.trees[u].nodes = m.trees[u].nodes
      /\ Hold(ptr)[v] # {} \/ m'.trees[v].nodes =
             Inherit(OldTree(m, ptr[x]).nodes, create_spine(ev, cb))
  BY <1>1, <1>6 DEF RegDone
<1>8. /\ ptr' \in [Slot -> TreeObj \cup {Null}]
      /\ \A y \in Slot : ptr'[y] = IF y = x THEN v ELSE ptr[y]
  BY <1>1, <1>2, <1>7 DEF Put
<1>9. \A y \in Slot : y[1] # s => ptr'[y] = ptr[y]
  BY <1>5, <1>8
<1>10. WalkOK' /\ SockOK'
  BY <1>1, <1>7, <1>8, <1>9, WalkStep
<1>11. SafeInv'
  BY <1>1, <1>2, <1>7, <1>10 DEF SafeInv, UdesOK
<1>12. ASSUME NamesOK, ~Again PROVE NamesOK'
  <2> DEFINE old == OldTree(m, ptr[x])
  <2>1. /\ asked[x] = old.id /\ \A c \in Callback : <<ev, c>> \notin old.id
        /\ IsTree(old) /\ Named(old)
    <3>1. asked[x] = old.id
      BY <1>2, <1>12 DEF NamesOK
    <3>2. \A c \in Callback : <<ev, c>> \notin old.id
      BY <1>1, <1>12, <3>1
    <3>3. CASE ptr[x] = Null
      <4>1. old = Dead
        BY <3>3 DEF OldTree
      <4>2. Named(Dead)
        <5>1. DOMAIN Dead.nodes = {} /\ Dead.id = {}
          BY DEF Dead
        <5> QED
          BY <5>1 DEF Named, Pairs
      <4> QED
        BY <3>1, <3>2, <4>1, <4>2, DeadTree
    <3>4. CASE ptr[x] # Null
      <4>1. ptr[x] \in TreeObj /\ old = m.trees[ptr[x]] /\ Hold(ptr)[ptr[x]] # {}
        BY <1>2, <3>4, HoldType DEF OldTree
      <4> QED
        BY <1>2, <1>12, <3>1, <3>2, <4>1 DEF NamesOK, MemOK, Memory
    <3> QED
      BY <3>3, <3>4
  <2>2. m'.trees[v].id = old.id \cup {<<ev, cb>>}
    <3> HIDE DEF old
    <3>1. m'.trees[v].id = NewId(old.id, ev, cb)
      BY <1>7 DEF old
    <3> QED
      BY <2>1, <3>1, NewIdFact
  <2>3. Hold(ptr)[v] = {} => Named(m'.trees[v])
    <3> SUFFICES ASSUME Hold(ptr)[v] = {} PROVE Named(m'.trees[v])
      OBVIOUS
    <3> DEFINE g == m'.trees[v].nodes
    <3>1. g = Inherit(old.nodes, create_spine(ev, cb))
      BY <1>7
    <3> HIDE DEF g, old
    <3>2. Pairs(g) = old.id \cup {<<ev, cb>>} /\ \A p \in DOMAIN g : g[p] = None => Up(p)
      BY <1>1, <1>2, <2>1, <3>1, InheritNamed
    <3> QED
      BY <2>2, <3>2 DEF Named, g
  <2>4. ASSUME NEW y \in Slot PROVE asked'[y] = OldTree(m', ptr'[y]).id
    <3>1. CASE y = x
      <4>1. ptr'[y] = v /\ v # Null /\ asked'[y] = asked[x] \cup {<<ev, cb>>}
        BY <1>1, <1>2, <1>7, <1>8, <1>12, <3>1, NullTree DEF NamesOK
      <4> QED
        BY <2>1, <2>2, <4>1 DEF OldTree
    <3>2. CASE y # x
      <4>1. ptr'[y] = ptr[y] /\ asked'[y] = asked[y]
        BY <1>1, <1>8, <1>12, <3>2 DEF NamesOK
      <4>2. asked[y] = OldTree(m, ptr[y]).id /\ ptr[y] \in TreeObj \cup {Null}
        BY <1>2, <1>12 DEF NamesOK
      <4>3. ptr[y] # Null => Hold(ptr)[ptr[y]] # {} /\ Hold(ptr')[ptr[y]] # {}
        BY <4>1, <4>2, HoldType
      <4> QED
        BY <1>7, <4>1, <4>2, <4>3 DEF OldTree
    <3> QED
      BY <3>1, <3>2
  <2>5. ASSUME NEW t \in TreeObj, Hold(ptr')[t] # {} PROVE Named(m'.trees[t])
    <3>1. CASE Hold(ptr)[t] # {}
      BY <1>7, <1>12, <2>5, <3>1 DEF NamesOK, Named
    <3>2. CASE Hold(ptr)[t] = {}
      <4>1. PICK y \in Slot : ptr'[y] = t
        BY <2>5, HoldType
      <4>2. t = v
        BY <1>8, <3>2, <4>1, HoldType
      <4> QED
        BY <2>3, <3>2, <4>2
    <3> QED
      BY <3>1, <3>2
  <2>6. asked' = [y \in Slot |-> asked'[y]]
    BY <1>1, <1>12 DEF NamesOK
  <2> QED
    BY <2>4, <2>5, <2>6 DEF NamesOK
<1> QED
  BY <1>11, <1>12

LEMMA DefineStep ==
    ASSUME SafeInv, NEW ev \in Event, NEW ft \in Filter, mtcp_define_event(ev, ft)
    PROVE  SafeInv' /\ (NamesOK => NamesOK')
<1> DEFINE e == NumBev + Len(udes)
           p == Append(PathTo(ev), e)
           r == [parent |-> ev, ft |-> ft, path |-> p]
<1>1. /\ ev \in Defined /\ Len(udes) < MaxUde /\ udes' = Append(udes, r)
      /\ UNCHANGED <<m, ptr, open, walk, asked>>
  BY DEF mtcp_define_event
<1>2. UdesOK
  BY DEF SafeInv
<1>3. Len(udes) \in Nat /\ udes \in Seq([parent : Event, ft : Filter, path : Seq(Event)])
  BY <1>2 DEF UdesOK
<1>4. e \in Event
  BY <1>1, <1>3, EventNat DEF Event
<1>5. IsPath(p, e)
  <2>1. IsPath(PathTo(ev), ev) /\ ev < e /\ PathTo(ev) \in Seq(Event)
    BY <1>1, <1>2, PathToIs DEF IsPath
  <2> HIDE DEF e
  <2> QED
    BY <1>4, <2>1, UpFacts
<1>6. r \in [parent : Event, ft : Filter, path : Seq(Event)] /\ r.path = p
  BY <1>5 DEF IsPath
<1> HIDE DEF r, p
<1>7. UdesOK'
  <2>1. /\ udes' \in Seq([parent : Event, ft : Filter, path : Seq(Event)])
        /\ Len(udes') = Len(udes) + 1 /\ udes'[Len(udes) + 1] = r
        /\ \A k \in 1 .. Len(udes) : udes'[k] = udes[k]
    BY <1>1, <1>3, <1>6
  <2>2. Len(udes') <= MaxUde
    BY <1>1, <1>3, <2>1, EventNat
  <2>3. ASSUME NEW k \in 1 .. Len(udes') PROVE IsPath(udes'[k].path, NumBev + k - 1)
    <3>1. CASE k = Len(udes) + 1
      <4>1. NumBev + k - 1 = e
        BY <1>3, <3>1, EventNat
      <4> HIDE DEF e
      <4> QED
        BY <1>5, <1>6, <2>1, <3>1, <4>1
    <3>2. CASE k # Len(udes) + 1
      <4>1. k \in 1 .. Len(udes)
        BY <1>3, <2>1, <3>2
      <4> QED
        BY <1>2, <2>1, <4>1 DEF UdesOK
    <3> QED
      BY <3>1, <3>2
  <2> QED
    BY <2>1, <2>2, <2>3 DEF UdesOK
<1> QED
  BY <1>1, <1>7 DEF SafeInv, SockOK, WalkOK, Walking, NamesOK

\* A packet's events, filters and the ends of callbacks move the walk only.
LEMMA WalkingStep ==
    ASSUME SafeInv,
           \/ \E s \in Streams, h \in Hooks, side \in Side, events \in SUBSET Builtin \ {{}} :
                 HandleCallback(s, h, side, events)
           \/ \E p \in walk.todo, passed \in BOOLEAN : Visit(p, passed)
           \/ CallbackReturns
    PROVE  SafeInv' /\ (NamesOK => NamesOK') /\ UNCHANGED <<m, ptr, mon, open, calls, asked>>
<1>1. UNCHANGED <<udes, m, ptr, mon, open, calls, asked>>
  BY DEF HandleCallback, Visit, CallbackReturns
<1>2. ASSUME NEW s \in Streams, NEW h \in Hooks, NEW side \in Side,
             NEW events \in SUBSET Builtin \ {{}}, HandleCallback(s, h, side, events)
      PROVE  WalkOK'
  <2> DEFINE t == ptr[<<s, h>>]
             todo == {p \in DOMAIN m.trees[t].nodes : p[1] \in events}
  <2>1. /\ s \in open /\ t # Null
        /\ walk' = [tree |-> t, sock |-> s, todo |-> todo, running |-> None]
    BY <1>2 DEF HandleCallback
  <2>2. <<s, h>> \in Slot
    BY DEF Slot, Socket
  <2>3. t \in TreeObj /\ Hold(ptr)[t] # {}
    BY <2>1, <2>2, HoldType DEF SafeInv, SockOK
  <2>4. todo \subseteq DOMAIN m.trees[t].nodes
    OBVIOUS
  <2> HIDE DEF todo, t
  <2>5. /\ walk'.tree = t /\ walk'.sock = s /\ walk'.todo = todo /\ walk'.running = None
    BY <2>1
  <2> QED
    BY <1>1, <2>1, <2>3, <2>4, <2>5 DEF WalkOK, Walking
<1>3. ASSUME NEW p \in walk.todo, NEW passed \in BOOLEAN, Visit(p, passed)
      PROVE  WalkOK'
  <2> DEFINE rest == walk.todo \ (IF passed THEN {p} ELSE {q \in walk.todo : IsPrefix(p, q)})
             cb == IF passed THEN m.trees[walk.tree].nodes[p] ELSE None
  <2>1. /\ walk # Idle
        /\ walk' = IF rest = {} /\ cb = None THEN Idle
                   ELSE [walk EXCEPT !.todo = rest, !.running = cb]
    BY <1>3 DEF Visit
  <2>2. Walking /\ Hold(ptr)[walk.tree] # {}
    BY <1>3, <2>1, WalkedIsHeld DEF Visit
  <2>3. rest \subseteq walk.todo
    OBVIOUS
  <2>4. cb \in Callback \cup {None}
    <3>1. IsTree(m.trees[walk.tree]) /\ p \in DOMAIN m.trees[walk.tree].nodes
      BY <2>2 DEF SafeInv, MemOK, Memory, Walking
    <3> QED
      BY <3>1 DEF IsTree
  <2> HIDE DEF rest, cb
  <2>5. CASE walk' = Idle
    BY <2>5 DEF WalkOK
  <2>6. CASE walk' = [walk EXCEPT !.todo = rest, !.running = cb]
    <3>1. walk' = [tree |-> walk.tree, sock |-> walk.sock, todo |-> rest, running |-> cb]
      BY <2>2, <2>6 DEF Walking
    <3>2. /\ walk'.tree = walk.tree /\ walk'.sock = walk.sock
          /\ walk'.todo = rest /\ walk'.running = cb
      BY <3>1
    <3>3. Walking'
      BY <1>1, <2>2, <2>3, <2>4, <3>1, <3>2 DEF Walking
    <3> QED
      BY <3>3 DEF WalkOK
  <2> QED
    BY <2>1, <2>5, <2>6
<1>4. ASSUME CallbackReturns
      PROVE  WalkOK'
  <2>1. /\ walk.running # None
        /\ walk' = IF walk.todo = {} THEN Idle ELSE [walk EXCEPT !.running = None]
    BY <1>4 DEF CallbackReturns
  <2>2. Walking
    BY <1>4, <2>1, IdleIs, WalkedIsHeld DEF CallbackReturns
  <2>3. CASE walk' = Idle
    BY <2>3 DEF WalkOK
  <2>4. CASE walk' = [walk EXCEPT !.running = None]
    <3>1. walk' = [tree |-> walk.tree, sock |-> walk.sock, todo |-> walk.todo, running |-> None]
      BY <2>2, <2>4 DEF Walking
    <3>2. /\ walk'.tree = walk.tree /\ walk'.sock = walk.sock
          /\ walk'.todo = walk.todo /\ walk'.running = None
      BY <3>1
    <3>3. Walking'
      BY <1>1, <2>2, <3>1, <3>2 DEF Walking
    <3> QED
      BY <3>3 DEF WalkOK
  <2> QED
    BY <2>1, <2>3, <2>4
<1>5. WalkOK'
  BY <1>2, <1>3, <1>4
<1> QED
  BY <1>1, <1>5 DEF SafeInv, UdesOK, SockOK, NamesOK

LEMMA Step ==
    ASSUME SafeInv, [Next]_vars
    PROVE  SafeInv' /\ (NamesOK /\ ~Again => NamesOK')
<1>1. ASSUME NEW ev \in Event, NEW ft \in Filter, mtcp_define_event(ev, ft)
      PROVE  SafeInv' /\ (NamesOK => NamesOK')
  BY <1>1, DefineStep
<1>2. ASSUME NEW s \in Streams, AddMonitorStreamSockets(s) \/ FreeMonStream(s)
      PROVE  SafeInv' /\ (NamesOK => NamesOK')
  BY <1>2, AddStep, FreeStep
<1>3. ASSUME NEW s \in Socket, NEW side \in Side, mtcp_cb_stop(s, side)
      PROVE  SafeInv' /\ (NamesOK => NamesOK')
  BY <1>3, StopStep
<1>4. ASSUME NEW s \in Socket, NEW h \in Hooks, NEW ev \in Event, NEW cb \in Callback,
             mtcp_register_callback(s, h, ev, cb)
      PROVE  SafeInv' /\ (NamesOK /\ ~Again => NamesOK')
  BY <1>4, RegisterStep
<1>5. ASSUME \/ \E s \in Streams, h \in Hooks, side \in Side, events \in SUBSET Builtin \ {{}} :
                   HandleCallback(s, h, side, events)
             \/ \E p \in walk.todo, passed \in BOOLEAN : Visit(p, passed)
             \/ CallbackReturns
      PROVE  SafeInv' /\ (NamesOK => NamesOK')
  BY <1>5, WalkingStep
<1>6. ASSUME Crashed \/ UNCHANGED vars
      PROVE  SafeInv' /\ (NamesOK => NamesOK')
  BY <1>6 DEF Crashed, vars, SafeInv, UdesOK, SockOK, WalkOK, Walking, NamesOK
<1> QED
  BY <1>1, <1>2, <1>3, <1>4, <1>5, <1>6 DEF Next

-----------------------------------------------------------------------------
(* Theorems.                                                               *)

\* The memory, the pointers, the paths and the walk are well formed in every
\* reachable state: what a tree counts is who holds it, what nobody holds is
\* free, the store leads to trees of the id it was asked for, and a walk is
\* over nodes that are there until a callback has its tree destroyed.
THEOREM TreesAreHeld == Spec => []SafeInv
<1>1. Init => SafeInv
  BY Initial
<1>2. SafeInv /\ [Next]_vars => SafeInv'
  BY Step
<1> QED
  BY <1>1, <1>2, PTL DEF Spec

\* With every size of the store, the reference count of a tree of callbacks is
\* the number of the pointers to it, and no pointer leads to a destroyed tree.
THEOREM CountsAreHolders == Spec => []RefIsHolders
<1>1. SafeInv => RefIsHolders
  <2> SUFFICES ASSUME SafeInv PROVE RefIsHolders
    OBVIOUS
  <2>1. /\ \A t \in TreeObj : /\ m.trees[t].ref = Cardinality(Hold(ptr)[t])
                              /\ Hold(ptr)[t] = {} => m.trees[t] = Dead
        /\ ptr \in [Slot -> TreeObj \cup {Null}]
    BY DEF SafeInv, SockOK, MemOK, CountsOK
  <2>2. \A t \in TreeObj : Hold(ptr)[t] = Holders(t)
    BY DEF Hold, Holders
  <2>3. ASSUME NEW t \in Live PROVE m.trees[t].ref = Cardinality(Holders(t)) /\ Holders(t) # {}
    BY <2>1, <2>2 DEF Live
  <2>4. ASSUME NEW t \in TreeObj, Hold(ptr)[t] # {} PROVE t \in Live
    <3>1. Cardinality(Hold(ptr)[t]) # 0
      BY <2>4, HoldType, HeldFinite
    <3>2. m.trees[t] # Dead
      BY <2>1, <3>1, DeadTree
    <3> QED
      BY <3>2 DEF Live
  <2>5. ASSUME NEW x \in Slot PROVE ptr[x] = Null \/ ptr[x] \in Live
    <3>1. ptr[x] # Null => ptr[x] \in TreeObj /\ Hold(ptr)[ptr[x]] # {}
      BY <2>1, HoldType
    <3> QED
      BY <2>4, <3>1
  <2> QED
    BY <2>3, <2>5 DEF RefIsHolders
<1> QED
  BY <1>1, TreesAreHeld, PTL

\* A socket has the callbacks it registered or inherited and no other, if no
\* event is registered twice with one socket and hook point.  (If it is, the
\* exclusive or of RegCb takes the old callback out of the id while the nodes
\* keep it.)
THEOREM CallbacksAreNamed == ~Again => (Spec => []CallbacksAsRegistered)
<1> SUFFICES ASSUME ~Again PROVE Spec => []CallbacksAsRegistered
  OBVIOUS
<1>1. Init => SafeInv /\ NamesOK
  BY Initial
<1>2. SafeInv /\ NamesOK /\ [Next]_vars => SafeInv' /\ NamesOK'
  BY Step
<1>3. SafeInv /\ NamesOK => CallbacksAsRegistered
  <2> SUFFICES ASSUME SafeInv, NamesOK, NEW x \in Slot
               PROVE  CallbacksOf(ptr[x]) = asked[x]
    BY DEF CallbacksAsRegistered
  <2>1. asked[x] = OldTree(m, ptr[x]).id
    BY DEF NamesOK
  <2>2. CASE ptr[x] = Null
    BY <2>1, <2>2, DeadTree DEF CallbacksOf, OldTree
  <2>3. CASE ptr[x] # Null
    <3>1. ptr[x] \in TreeObj /\ Hold(ptr)[ptr[x]] # {}
      BY <2>3, HoldType DEF SafeInv, SockOK
    <3>2. Pairs(m.trees[ptr[x]].nodes) = m.trees[ptr[x]].id
      BY <3>1 DEF NamesOK, Named
    <3>3. CallbacksOf(ptr[x]) = Pairs(m.trees[ptr[x]].nodes)
      BY <2>3 DEF CallbacksOf, Pairs
    <3> QED
      BY <2>1, <2>3, <3>2, <3>3 DEF OldTree
  <2> QED
    BY <2>2, <2>3
<1> QED
  BY <1>1, <1>2, <1>3, PTL DEF Spec

\* The types; in particular the store never has more entries than KVS_ENTRIES.
TypeRest == /\ mon \in [Socket -> SUBSET Side] /\ calls \in 0 .. MaxCalls
            /\ asked \in [Slot -> SUBSET (Event \X Callback)]

LEMMA RestStep ==
    ASSUME TypeRest, [Next]_vars
    PROVE  TypeRest'
<1>1. ASSUME NEW s \in Streams, AddMonitorStreamSockets(s)
      PROVE  TypeRest'
  <2>1. /\ asked' = [x \in Slot |-> IF x[1] = s THEN asked[<<Listener, x[2]>>] ELSE asked[x]]
        /\ mon' = [mon EXCEPT ![s] = mon[Listener]] /\ calls' = calls
    BY <1>1 DEF AddMonitorStreamSockets
  <2>2. \A x \in Slot : <<Listener, x[2]>> \in Slot
    BY SlotIs DEF Slot, Socket
  <2>3. Listener \in Socket
    BY DEF Socket
  <2> QED
    BY <2>1, <2>2, <2>3 DEF TypeRest
<1>2. ASSUME NEW s \in Streams, FreeMonStream(s)
      PROVE  TypeRest'
  <2>1. /\ asked' = [x \in Slot |-> IF x[1] = s THEN {} ELSE asked[x]]
        /\ mon' = [mon EXCEPT ![s] = {}] /\ calls' = calls
    BY <1>2 DEF FreeMonStream, Release
  <2> QED
    BY <2>1 DEF TypeRest
<1>3. ASSUME NEW s \in Socket, NEW side \in Side, mtcp_cb_stop(s, side)
      PROVE  TypeRest'
  <2>1. /\ \/ asked' = [x \in Slot |-> IF x[1] = s THEN {} ELSE asked[x]]
           \/ asked' = asked
        /\ mon' = [mon EXCEPT ![s] = @ \ {side}] /\ calls' = calls
    BY <1>3 DEF mtcp_cb_stop, Release
  <2>2. mon' \in [Socket -> SUBSET Side]
    BY <2>1 DEF TypeRest
  <2>3. asked' \in [Slot -> SUBSET (Event \X Callback)]
    BY <2>1 DEF TypeRest
  <2> QED
    BY <2>1, <2>2, <2>3 DEF TypeRest
<1>4. ASSUME NEW s \in Socket, NEW h \in Hooks, NEW ev \in Event, NEW cb \in Callback,
             mtcp_register_callback(s, h, ev, cb)
      PROVE  TypeRest'
  <2>1. /\ asked' = [asked EXCEPT ![<<s, h>>] = @ \cup {<<ev, cb>>}]
        /\ calls' = calls + 1 /\ calls < MaxCalls /\ mon' = mon
    BY <1>4 DEF mtcp_register_callback
  <2>2. calls' \in 0 .. MaxCalls
    BY <2>1, EventTreeAssumption DEF TypeRest
  <2>3. asked' \in [Slot -> SUBSET (Event \X Callback)]
    <3>1. <<s, h>> \in Slot /\ <<ev, cb>> \in Event \X Callback
      BY DEF Slot
    <3> QED
      BY <2>1, <3>1 DEF TypeRest
  <2> QED
    BY <2>1, <2>2, <2>3 DEF TypeRest
<1>5. CASE UNCHANGED <<mon, calls, asked>>
  BY <1>5 DEF TypeRest
<1>6. CASE Crashed \/ UNCHANGED vars
  BY <1>6 DEF Crashed, vars, TypeRest
<1> QED
  BY <1>1, <1>2, <1>3, <1>4, <1>5, <1>6
     DEF Next, mtcp_define_event, HandleCallback, Visit, CallbackReturns

THEOREM TypeCorrect == Spec => []TypeOK
<1>1. Init => SafeInv /\ TypeRest
  <2>1. Init => TypeRest
    BY EventTreeAssumption DEF Init, TypeRest, Side
  <2> QED
    BY <2>1, Initial
<1>2. SafeInv /\ TypeRest /\ [Next]_vars => SafeInv' /\ TypeRest'
  BY Step, RestStep
<1>3. SafeInv /\ TypeRest => TypeOK
  <2> SUFFICES ASSUME SafeInv, TypeRest PROVE TypeOK
    OBVIOUS
  <2>1. m.store \in [DOMAIN m.store -> TreeObj]
    BY DEF SafeInv, MemOK, Memory, StoreOK
  <2>2. walk.tree \in TreeObj \cup {Null} /\ walk.running \in Callback \cup {None}
    BY IdleIs DEF SafeInv, WalkOK, Walking
  <2> QED
    BY <2>1, <2>2 DEF TypeOK, TypeRest, SafeInv, UdesOK, SockOK, MemOK, Memory
<1> QED
  BY <1>1, <1>2, <1>3, PTL DEF Spec
=============================================================================
