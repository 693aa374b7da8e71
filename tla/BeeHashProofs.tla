----------------------------- MODULE BeeHashProofs -----------------------------
(***************************************************************************)
(* The hash table implements a map, for every set of rows, every hash and  *)
(* every sequence of primes: THEOREM Implements.  Every search in it ends, *)
(* a resize is done in time, and a flush leaves nothing: the theorems at   *)
(* the end.                                                                *)
(*                                                                         *)
(* The invariant behind the first, IInv: every key that is in a table can  *)
(* be reached, all slots of its chain before it being dirty, and is there  *)
(* once; the shadow has the nodes of the slots that were copied, and no    *)
(* node that is not in the table.  Behind the others, CountInv: what the   *)
(* counters stand for, and how far they are while a table is copied; and   *)
(* FlushInv: what a flush has left behind it.                              *)
(***************************************************************************)
EXTENDS BeeHash, FiniteSetTheorems, WellFoundedInduction, TLAPS

\* A table as a value.
Typed(t) ==
    /\ t = [n |-> t.n, node |-> t.node, dirty |-> t.dirty,
            size |-> t.size, n_dirty |-> t.n_dirty]
    /\ t.n \in Sizes
    /\ t.node \in [Slots(t) -> Nodes \cup {None}]

\* The slots of the chain of a key that is in the table are dirty before it.
Reached(t) ==
    \A p, j \in Slots(t) :
        /\ t.node[p] # None
        /\ Probe(t.n, t.node[p].key, j) = p
        => \A l \in 0..(j - 1) : Probe(t.n, t.node[p].key, l) \in t.dirty

\* A key is in the table once.
Once(t) ==
    \A p, q \in Slots(t) :
        t.node[p] # None /\ t.node[q] # None /\ t.node[p].key = t.node[q].key
        => p = q

Sound(t) == Typed(t) /\ Reached(t) /\ Once(t)

-----------------------------------------------------------------------------
(* Least elements, sizes and keys.                                         *)

\* A set of naturals has a least element.
LEMMA LeastIsLeast ==
    ASSUME NEW S \in SUBSET Nat, S # {}
    PROVE  Least(S) \in S /\ \A i \in S : Least(S) <= i
<1> DEFINE R == OpToRel(<, Nat)
<1>1. IsWellFoundedOn(R, Nat)
  BY NatLessThanWellFounded
<1>2. \A a, b \in Nat : a < b => <<a, b>> \in R
  <2> SUFFICES ASSUME NEW a \in Nat, NEW b \in Nat, a < b PROVE <<a, b>> \in R
    OBVIOUS
  <2>1. <<a, b>> \in Nat \X Nat /\ <<a, b>>[1] = a /\ <<a, b>>[2] = b
    OBVIOUS
  <2> QED BY <2>1, Zenon DEF OpToRel
<1> HIDE DEF R
<1>3. PICK x \in S : \A y \in S : ~ (<<y, x>> \in R)
  BY <1>1, WFMin
<1>4. \A y \in S : ~(y < x)
  BY <1>2, <1>3
<1>5. \A y \in S : x <= y
  BY <1>4
<1> QED BY <1>5 DEF Least

\* A table has a first slot.
LEMMA SizesAreNaturals == \A n \in Sizes : n \in Nat /\ n > 1
<1>1. \A p \in DOMAIN Primes : Primes[p] \in Nat \ {0, 1}
  BY PrimesAssumption
<1> QED BY <1>1 DEF Sizes

\* Nodes have rows, and keys of them.
LEMMA NodesAreNodes ==
    \A node \in Nodes : node.key \in Keys /\ node.row \in Rows /\ node # None
BY NoneAssumption DEF Nodes, Keys

\* A chain goes through slots, and through each of them once.
LEMMA ProbesAreSlots ==
    ASSUME NEW n \in Sizes, NEW k \in Keys
    PROVE  /\ \A j \in Nat : Probe(n, k, j) \in 0..(n - 1)
           /\ \A i \in 0..(n - 1) : \E j \in 0..(n - 1) : Probe(n, k, j) = i
           /\ \A i, j \in 0..(n - 1) : Probe(n, k, i) = Probe(n, k, j) => i = j
<1>1. n \in Nat /\ n > 1
  BY SizesAreNaturals
<1>2. Hash[k] \in Nat
  BY HashAssumption
<1>3. Hash[k] % n \in Nat /\ Hash[k] % (n - 1) \in Nat
  BY <1>1, <1>2
<1>4. ASSUME NEW j \in Nat
      PROVE  (Hash[k] % n) + j * (1 + (Hash[k] % (n - 1))) \in Nat
  <2>1. j * (1 + (Hash[k] % (n - 1))) \in Nat
    BY <1>3
  <2> QED BY <1>3, <2>1
<1>5. ASSUME NEW a \in Nat PROVE a % n \in 0..(n - 1)
  BY <1>1
<1>6. \A j \in Nat : Probe(n, k, j) \in 0..(n - 1)
  BY <1>4, <1>5 DEF Probe
<1> QED BY <1>6, ProbesAssumption

-----------------------------------------------------------------------------
(* One table.                                                              *)

\* mh_find and mh_get find a key if and only if it is in the table.
LEMMA FindIsRight ==
    ASSUME NEW t, Sound(t), NEW k \in Keys, Stops(t, k) # {}
    PROVE  \/ Find(t, k) = t.n /\ \A i \in Slots(t) : ~Holds(t, k, i)
           \/ Find(t, k) \in Slots(t) /\ Holds(t, k, Find(t, k))
<1> DEFINE j == Least(Stops(t, k))
           i == Probe(t.n, k, j)
<1>1. t.n \in Sizes /\ t.n \in Nat /\ t.n > 1 /\ Slots(t) \subseteq Nat
  BY SizesAreNaturals DEF Sound, Typed, Slots
<1>2. j \in Stops(t, k) /\ \A m \in Stops(t, k) : j <= m
  <2>1. Stops(t, k) \in SUBSET Nat
    BY <1>1 DEF Stops
  <2> QED BY <2>1, LeastIsLeast
<1>3. j \in Slots(t) /\ j \in Nat /\ i \in Slots(t)
  BY <1>1, <1>2, ProbesAreSlots DEF Stops, Slots
<1>4. Find(t, k) = IF Holds(t, k, i) THEN i ELSE t.n
  BY DEF Find
<1> HIDE DEF i
<1>5. CASE Holds(t, k, i)
  BY <1>3, <1>4, <1>5
<1>6. CASE ~Holds(t, k, i)
  <2>1. i \notin t.dirty
    BY <1>2, <1>6 DEF Stops, i
  <2>2. ASSUME NEW p \in Slots(t), Holds(t, k, p)
        PROVE  FALSE
    <3>1. PICK m \in Slots(t) : Probe(t.n, k, m) = p
      BY <1>1, ProbesAreSlots DEF Slots
    <3>2. t.node[p] # None /\ t.node[p].key = k
      BY <2>2 DEF Holds
    <3>3. \A l \in 0..(m - 1) : Probe(t.n, k, l) \in t.dirty
      BY <3>1, <3>2 DEF Sound, Reached
    <3>4. m \in Stops(t, k)
      BY <3>1, <2>2 DEF Stops
    <3>5. j <= m
      BY <3>4, <1>2
    <3>6. CASE j = m
      BY <3>6, <3>1, <2>2, <1>6 DEF i
    <3>7. CASE j # m
      <4>1. j \in 0..(m - 1)
        BY <3>5, <3>7, <1>3, <1>1 DEF Slots
      <4> QED BY <4>1, <3>3, <2>1 DEF i
    <3> QED BY <3>6, <3>7
  <2> QED BY <2>2, <1>4, <1>6
<1> QED BY <1>5, <1>6

\* put_slot returns the slot that holds the key, or a free one if none does;
\* the chain before that slot is dirty, once the slots it passed are marked.
LEMMA PutSlotIsRight ==
    ASSUME NEW t, Sound(t), NEW k \in Keys, Takes(t, k) # {}
    PROVE  /\ PutSlot(t, k) \in Slots(t)
           /\ t.node[PutSlot(t, k)] = None \/ Holds(t, k, PutSlot(t, k))
           /\ \A p \in Slots(t) : Holds(t, k, p) => p = PutSlot(t, k)
           /\ \A j \in Slots(t) : Probe(t.n, k, j) = PutSlot(t, k) =>
                \A l \in 0..(j - 1) :
                    Probe(t.n, k, l) \in t.dirty \cup Passed(t, k)
<1> DEFINE f == Least(Takes(t, k))
           D == Duplicates(t, k)
           x == PutSlot(t, k)
<1>1. t.n \in Sizes /\ t.n \in Nat /\ t.n > 1 /\ Slots(t) \subseteq Nat
  BY SizesAreNaturals DEF Sound, Typed, Slots
<1>2. f \in Takes(t, k) /\ \A m \in Takes(t, k) : f <= m
  <2>1. Takes(t, k) \in SUBSET Nat
    BY <1>1 DEF Takes
  <2> QED BY <2>1, LeastIsLeast
<1>3. f \in Slots(t) /\ f \in Nat /\ Probe(t.n, k, f) \in Slots(t)
  BY <1>1, <1>2, ProbesAreSlots DEF Takes, Slots
<1>4. /\ D = {} => x = Probe(t.n, k, f)
      /\ D # {} => x = Probe(t.n, k, Least(D))
  BY DEF PutSlot
<1>5. /\ Passed(t, k) = {Probe(t.n, k, j) : j \in 0..(f - 1)}
      /\ D = {j \in (f + 1)..(t.n - 1) :
                /\ Holds(t, k, Probe(t.n, k, j))
                /\ \A l \in f..(j - 1) : Probe(t.n, k, l) \in t.dirty}
  BY DEF Passed, Duplicates
<1> HIDE DEF f, D, x
<1>6. D # {} => Least(D) \in D
  <2>1. D \in SUBSET Nat
    BY <1>5, <1>3, <1>1
  <2> QED BY <2>1, LeastIsLeast
<1>7. \A j \in D : j \in Slots(t) /\ j \in Nat /\ j > f
  BY <1>5, <1>3, <1>1 DEF Slots
\* The probe the slot is found with.
<1>8. PICK m \in Slots(t) :
        /\ x = Probe(t.n, k, m)
        /\ m >= f
        /\ \A l \in f..(m - 1) : Probe(t.n, k, l) \in t.dirty
        /\ D # {} => Holds(t, k, x)
        /\ D = {} => m = f
  <2>1. CASE D = {}
    <3>1. \A l \in f..(f - 1) : FALSE
      BY <1>3
    <3> QED BY <2>1, <3>1, <1>3, <1>4
  <2>2. CASE D # {}
    <3>1. PICK m \in D : x = Probe(t.n, k, m)
      BY <2>2, <1>4, <1>6
    <3>2. /\ Holds(t, k, Probe(t.n, k, m))
          /\ \A l \in f..(m - 1) : Probe(t.n, k, l) \in t.dirty
      BY <1>5
    <3>3. m \in Slots(t) /\ m >= f
      BY <1>7, <1>3
    <3> QED BY <2>2, <3>1, <3>2, <3>3
  <2> QED BY <2>1, <2>2
<1>9. x \in Slots(t)
  BY <1>8, <1>1, ProbesAreSlots DEF Slots
<1>10. t.node[x] = None \/ Holds(t, k, x)
  <2>1. CASE D = {}
    BY <2>1, <1>8, <1>2 DEF Takes
  <2> QED BY <2>1, <1>8
<1>11. ASSUME NEW p \in Slots(t), Holds(t, k, p)
       PROVE  p = x
  <2>1. PICK q \in Slots(t) : Probe(t.n, k, q) = p
    BY <1>1, ProbesAreSlots DEF Slots
  <2>2. t.node[p] # None /\ t.node[p].key = k
    BY <1>11 DEF Holds
  <2>3. q \in Takes(t, k)
    BY <2>1, <1>11 DEF Takes
  <2>4. f <= q
    BY <2>3, <1>2
  <2>5. \A l \in 0..(q - 1) : Probe(t.n, k, l) \in t.dirty
    BY <2>1, <2>2 DEF Sound, Reached
  <2>6. CASE Holds(t, k, x)
    BY <2>6, <1>9, <1>11, <2>2 DEF Sound, Once, Holds
  <2>7. CASE ~Holds(t, k, x)
    <3>1. D = {} /\ x = Probe(t.n, k, f)
      BY <2>7, <1>8
    <3>2. q # f
      BY <3>1, <2>1, <1>11, <2>7
    <3>3. q \in (f + 1)..(t.n - 1)
      BY <2>4, <3>2, <1>3, <1>1 DEF Slots
    <3>4. \A l \in f..(q - 1) : Probe(t.n, k, l) \in t.dirty
      BY <2>5, <1>3, <3>3
    <3>5. q \in D
      BY <3>3, <3>4, <2>1, <1>11, <1>5
    <3> QED BY <3>1, <3>5
  <2> QED BY <2>6, <2>7
<1>12. ASSUME NEW j \in Slots(t), Probe(t.n, k, j) = x, NEW l \in 0..(j - 1)
       PROVE  Probe(t.n, k, l) \in t.dirty \cup Passed(t, k)
  <2>1. j = m
    BY <1>12, <1>8, <1>1, ProbesAreSlots DEF Slots
  <2>2. l \in 0..(f - 1) \/ l \in f..(m - 1)
    BY <2>1, <1>3, <1>8, <1>1 DEF Slots
  <2> QED BY <2>2, <1>5, <1>8
<1> QED BY <1>9, <1>10, <1>11, <1>12 DEF x

\* What a put makes of a table.
Filled(t, u, node) ==
    LET x == PutSlot(t, node.key)
    IN  /\ u = [n |-> u.n, node |-> u.node, dirty |-> u.dirty,
                size |-> u.size, n_dirty |-> u.n_dirty]
        /\ u.n = t.n
        /\ u.node = [t.node EXCEPT ![x] = node]
        /\ u.dirty = t.dirty \cup Passed(t, node.key)

LEMMA PutsFill ==
    ASSUME NEW t, Typed(t), NEW node
    PROVE  Filled(t, Stored(t, node), node) /\ Filled(t, Copied(t, node), node)
<1> DEFINE x == PutSlot(t, node.key)
           d == t.dirty \cup Passed(t, node.key)
           a == Stored(t, node)
           b == Copied(t, node)
<1>1. a = [n |-> t.n, node |-> [t.node EXCEPT ![x] = node], dirty |-> d,
           size |-> IF t.node[x] = None THEN t.size + 1 ELSE t.size,
           n_dirty |-> IF t.node[x] = None /\ x \notin d
                       THEN t.n_dirty + 1 ELSE t.n_dirty]
  BY DEF Stored, x, d, a
<1>2. b = [n |-> t.n, node |-> [t.node EXCEPT ![x] = node], dirty |-> d,
           size |-> t.size, n_dirty |-> t.n_dirty + 1]
  BY DEF Copied, x, d, b
<1> HIDE DEF x, d, a, b
<1>3. a = [n |-> a.n, node |-> a.node, dirty |-> a.dirty,
           size |-> a.size, n_dirty |-> a.n_dirty]
      /\ a.n = t.n /\ a.node = [t.node EXCEPT ![x] = node] /\ a.dirty = d
  BY <1>1
<1>4. b = [n |-> b.n, node |-> b.node, dirty |-> b.dirty,
           size |-> b.size, n_dirty |-> b.n_dirty]
      /\ b.n = t.n /\ b.node = [t.node EXCEPT ![x] = node] /\ b.dirty = d
  BY <1>2
<1> QED BY <1>3, <1>4 DEF Filled, a, b, x, d

\* A put takes the slot of its key or a free one, and leaves the other keys
\* where they are.
LEMMA FilledIsSound ==
    ASSUME NEW t, Sound(t), NEW node \in Nodes, Takes(t, node.key) # {},
           NEW u, Filled(t, u, node)
    PROVE  /\ Sound(u)
           /\ Slots(u) = Slots(t)
           /\ \E x \in Slots(t) :
                /\ u.node[x] = node
                /\ t.node[x] # None => t.node[x].key = node.key
                /\ \A p \in Slots(t) : p # x =>
                    /\ u.node[p] = t.node[p]
                    /\ t.node[p] # None => t.node[p].key # node.key
<1> DEFINE k == node.key
           x == PutSlot(t, node.key)
<1>1. t.n \in Sizes /\ t.n \in Nat /\ t.n > 1 /\ Slots(t) \subseteq Nat
  BY SizesAreNaturals DEF Sound, Typed, Slots
<1>2. k \in Keys /\ node # None
  BY NodesAreNodes
<1>3. /\ x \in Slots(t)
      /\ t.node[x] = None \/ Holds(t, k, x)
      /\ \A p \in Slots(t) : Holds(t, k, p) => p = x
      /\ \A j \in Slots(t) : Probe(t.n, k, j) = x =>
            \A l \in 0..(j - 1) : Probe(t.n, k, l) \in t.dirty \cup Passed(t, k)
  BY <1>2, PutSlotIsRight
<1>4. /\ u = [n |-> u.n, node |-> u.node, dirty |-> u.dirty,
              size |-> u.size, n_dirty |-> u.n_dirty]
      /\ u.n = t.n
      /\ u.node = [t.node EXCEPT ![x] = node]
      /\ u.dirty = t.dirty \cup Passed(t, k)
  BY DEF Filled
<1> HIDE DEF x
<1>5. Slots(u) = Slots(t)
  BY <1>4 DEF Slots
<1>6. t.node \in [Slots(t) -> Nodes \cup {None}]
  BY DEF Sound, Typed
<1>7. u.node[x] = node /\ \A p \in Slots(t) : p # x => u.node[p] = t.node[p]
  BY <1>3, <1>4, <1>6
<1>8. \A p \in Slots(t) : p # x /\ t.node[p] # None => t.node[p].key # k
  BY <1>3 DEF Holds
<1>9. Typed(u)
  BY <1>1, <1>3, <1>4, <1>5, <1>6 DEF Typed
<1>10. Once(u)
  BY <1>2, <1>3, <1>5, <1>7, <1>8 DEF Once, Sound
<1>11. Reached(u)
  <2> SUFFICES ASSUME NEW p \in Slots(t), NEW j \in Slots(t), u.node[p] # None,
                      Probe(t.n, u.node[p].key, j) = p, NEW l \in 0..(j - 1)
               PROVE  Probe(t.n, u.node[p].key, l) \in u.dirty
    BY <1>4, <1>5 DEF Reached
  <2>1. CASE p = x
    BY <2>1, <1>3, <1>4, <1>7
  <2>2. CASE p # x
    <3>1. u.node[p] = t.node[p]
      BY <2>2, <1>7
    <3>2. Probe(t.n, t.node[p].key, l) \in t.dirty
      BY <3>1 DEF Sound, Reached
    <3> QED BY <3>1, <3>2, <1>4
  <2> QED BY <2>1, <2>2
<1>12. t.node[x] # None => t.node[x].key = k
  BY <1>3 DEF Holds
<1> QED BY <1>3, <1>5, <1>7, <1>8, <1>9, <1>10, <1>11, <1>12 DEF Sound

\* A delete frees a slot and leaves the others as they are.
LEMMA FreedIsSound ==
    ASSUME NEW t, Sound(t), NEW x \in Slots(t)
    PROVE  /\ Sound(Freed(t, x))
           /\ Slots(Freed(t, x)) = Slots(t)
           /\ Freed(t, x).n = t.n
           /\ Freed(t, x).node[x] = None
           /\ \A p \in Slots(t) : p # x => Freed(t, x).node[p] = t.node[p]
<1> DEFINE u == Freed(t, x)
<1>1. t.n \in Nat /\ x # t.n
  BY SizesAreNaturals DEF Sound, Typed, Slots
<1>2. /\ u = [n |-> u.n, node |-> u.node, dirty |-> u.dirty,
              size |-> u.size, n_dirty |-> u.n_dirty]
      /\ u.n = t.n
      /\ u.node = [t.node EXCEPT ![x] = None]
      /\ u.dirty = t.dirty
  BY <1>1 DEF Freed, Sound, Typed
<1> HIDE DEF u
<1>3. t.node \in [Slots(t) -> Nodes \cup {None}]
  BY DEF Sound, Typed
<1>4. Slots(u) = Slots(t)
  BY <1>2 DEF Slots
<1>5. u.node[x] = None /\ \A p \in Slots(t) : p # x => u.node[p] = t.node[p]
  BY <1>2, <1>3
<1>6. Typed(u)
  BY <1>2, <1>3, <1>4 DEF Typed, Sound
<1>7. Once(u)
  BY <1>4, <1>5 DEF Once, Sound
<1>8. Reached(u)
  BY <1>2, <1>4, <1>5 DEF Reached, Sound
<1> QED BY <1>2, <1>4, <1>5, <1>6, <1>7, <1>8 DEF Sound, u

-----------------------------------------------------------------------------
(* The map of a table.                                                     *)

LEMMA RowOfSound ==
    ASSUME NEW t, Sound(t), NEW k \in Keys
    PROVE  /\ \A i \in Slots(t) : Holds(t, k, i) => RowOf(t, k) = t.node[i].row
           /\ (\A i \in Slots(t) : ~Holds(t, k, i)) => RowOf(t, k) = None
<1>1. ASSUME NEW i \in Slots(t), Holds(t, k, i)
      PROVE  RowOf(t, k) = t.node[i].row
  <2>1. ASSUME NEW p \in Slots(t), Holds(t, k, p) PROVE p = i
    BY <1>1, <2>1 DEF Holds, Sound, Once
  <2>2. (CHOOSE p \in Slots(t) : Holds(t, k, p)) = i
    BY <1>1, <2>1
  <2> QED BY <1>1, <2>2 DEF RowOf
<1>2. (\A i \in Slots(t) : ~Holds(t, k, i)) => RowOf(t, k) = None
  BY DEF RowOf
<1> QED BY <1>1, <1>2

\* Two tables with the same nodes are the same map.
LEMMA SameNodesSameRows ==
    ASSUME NEW t, Sound(t), NEW u, Sound(u), NEW k \in Keys,
           \A p \in Slots(t) : t.node[p] # None /\ t.node[p].key = k =>
                \E q \in Slots(u) : u.node[q] = t.node[p],
           \A q \in Slots(u) : u.node[q] # None /\ u.node[q].key = k =>
                \E p \in Slots(t) : t.node[p] = u.node[q]
    PROVE  RowOf(t, k) = RowOf(u, k)
<1>1. CASE \E p \in Slots(t) : Holds(t, k, p)
  <2>1. PICK p \in Slots(t) : Holds(t, k, p)
    BY <1>1
  <2>2. PICK q \in Slots(u) : u.node[q] = t.node[p]
    BY <2>1 DEF Holds
  <2>3. Holds(u, k, q)
    BY <2>1, <2>2 DEF Holds
  <2> QED BY <2>1, <2>2, <2>3, RowOfSound
<1>2. CASE \A p \in Slots(t) : ~Holds(t, k, p)
  <2>1. \A q \in Slots(u) : ~Holds(u, k, q)
    BY <1>2 DEF Holds
  <2> QED BY <1>2, <2>1, RowOfSound
<1> QED BY <1>1, <1>2

\* A put changes the row of its key.
LEMMA FilledRows ==
    ASSUME NEW t, Sound(t), NEW node \in Nodes, Takes(t, node.key) # {},
           NEW u, Filled(t, u, node), NEW k \in Keys
    PROVE  RowOf(u, k) = IF k = node.key THEN node.row ELSE RowOf(t, k)
<1>1. PICK x \in Slots(t) :
        /\ u.node[x] = node
        /\ t.node[x] # None => t.node[x].key = node.key
        /\ \A p \in Slots(t) : p # x =>
            /\ u.node[p] = t.node[p]
            /\ t.node[p] # None => t.node[p].key # node.key
  BY FilledIsSound
<1>2. Sound(u) /\ Slots(u) = Slots(t)
  BY FilledIsSound
<1>3. CASE k = node.key
  <2>1. Holds(u, k, x)
    BY <1>1, <1>3, NodesAreNodes DEF Holds
  <2> QED BY <2>1, <1>1, <1>2, <1>3, RowOfSound
<1>4. CASE k # node.key
  <2>1. \A p \in Slots(t) : t.node[p] # None /\ t.node[p].key = k =>
            \E q \in Slots(u) : u.node[q] = t.node[p]
    BY <1>1, <1>2, <1>4
  <2>2. \A q \in Slots(u) : u.node[q] # None /\ u.node[q].key = k =>
            \E p \in Slots(t) : t.node[p] = u.node[q]
    BY <1>1, <1>2, <1>4
  <2>3. RowOf(t, k) = RowOf(u, k)
    BY <2>1, <2>2, <1>2, SameNodesSameRows
  <2> QED BY <2>3, <1>4
<1> QED BY <1>3, <1>4

\* A delete takes a key out of the map.
LEMMA FreedRows ==
    ASSUME NEW t, Sound(t), NEW key \in Keys, NEW x \in Slots(t),
           Holds(t, key, x), NEW k \in Keys
    PROVE  RowOf(Freed(t, x), k) = IF k = key THEN None ELSE RowOf(t, k)
<1> DEFINE u == Freed(t, x)
<1>1. /\ Sound(u) /\ Slots(u) = Slots(t) /\ u.node[x] = None
      /\ \A p \in Slots(t) : p # x => u.node[p] = t.node[p]
  BY FreedIsSound
<1> HIDE DEF u
<1>2. \A p \in Slots(t) : p # x /\ t.node[p] # None => t.node[p].key # key
  BY DEF Sound, Once, Holds
<1>3. CASE k = key
  <2>1. \A i \in Slots(u) : ~Holds(u, k, i)
    BY <1>1, <1>2, <1>3 DEF Holds
  <2> QED BY <2>1, <1>1, <1>3, RowOfSound DEF u
<1>4. CASE k # key
  <2>1. \A p \in Slots(t) : t.node[p] # None /\ t.node[p].key = k =>
            \E q \in Slots(u) : u.node[q] = t.node[p]
    BY <1>1, <1>4 DEF Holds
  <2>2. \A q \in Slots(u) : u.node[q] # None /\ u.node[q].key = k =>
            \E p \in Slots(t) : t.node[p] = u.node[q]
    BY <1>1, <1>4
  <2>3. RowOf(t, k) = RowOf(u, k)
    BY <2>1, <2>2, <1>1, SameNodesSameRows
  <2> QED BY <2>3, <1>4 DEF u
<1> QED BY <1>3, <1>4

-----------------------------------------------------------------------------
(* A table and its shadow.                                                 *)

\* The shadow u has the nodes of the slots of t before done, and no others
\* than t has.
Agree(t, u, done) ==
    /\ \A p \in Slots(t) : p < done /\ t.node[p] # None =>
            \E q \in Slots(u) : u.node[q] = t.node[p]
    /\ \A q \in Slots(u) : u.node[q] # None =>
            \E p \in Slots(t) : t.node[p] = u.node[q]

LEMMA FillBoth ==
    ASSUME NEW t, Sound(t), NEW u, Sound(u), NEW done \in Nat,
           Agree(t, u, done), NEW node \in Nodes,
           Takes(t, node.key) # {}, Takes(u, node.key) # {},
           NEW v, Filled(t, v, node), NEW w, Filled(u, w, node)
    PROVE  Agree(v, w, done)
<1>1. PICK x \in Slots(t) :
        /\ v.node[x] = node
        /\ t.node[x] # None => t.node[x].key = node.key
        /\ \A p \in Slots(t) : p # x =>
            /\ v.node[p] = t.node[p]
            /\ t.node[p] # None => t.node[p].key # node.key
  BY FilledIsSound
<1>2. PICK y \in Slots(u) :
        /\ w.node[y] = node
        /\ u.node[y] # None => u.node[y].key = node.key
        /\ \A q \in Slots(u) : q # y =>
            /\ w.node[q] = u.node[q]
            /\ u.node[q] # None => u.node[q].key # node.key
  BY FilledIsSound
<1>3. Slots(v) = Slots(t) /\ Slots(w) = Slots(u)
  BY FilledIsSound
<1>4. ASSUME NEW p \in Slots(t), p < done, v.node[p] # None
      PROVE  \E q \in Slots(u) : w.node[q] = v.node[p]
  <2>1. CASE p = x
    BY <2>1, <1>1, <1>2
  <2>2. CASE p # x
    <3>1. PICK q \in Slots(u) : u.node[q] = t.node[p]
      BY <2>2, <1>1, <1>4 DEF Agree
    <3>2. q # y
      BY <3>1, <2>2, <1>1, <1>2, <1>4
    <3> QED BY <3>1, <3>2, <2>2, <1>1, <1>2
  <2> QED BY <2>1, <2>2
<1>5. ASSUME NEW q \in Slots(u), w.node[q] # None
      PROVE  \E p \in Slots(t) : v.node[p] = w.node[q]
  <2>1. CASE q = y
    BY <2>1, <1>1, <1>2
  <2>2. CASE q # y
    <3>1. PICK p \in Slots(t) : t.node[p] = u.node[q]
      BY <2>2, <1>2, <1>5 DEF Agree
    <3>2. p # x
      BY <3>1, <2>2, <1>1, <1>2, <1>5
    <3> QED BY <3>1, <3>2, <2>2, <1>1, <1>2
  <2> QED BY <2>1, <2>2
<1> QED BY <1>3, <1>4, <1>5 DEF Agree

\* The node of the next slot is copied.
LEMMA FillShadow ==
    ASSUME NEW t, Sound(t), NEW u, Sound(u), NEW done \in Slots(t),
           Agree(t, u, done), t.node[done] # None,
           Takes(u, t.node[done].key) # {}, NEW w, Filled(u, w, t.node[done])
    PROVE  Agree(t, w, done + 1)
<1> DEFINE node == t.node[done]
<1>0. /\ node \in Nodes /\ Slots(t) \subseteq Nat
      /\ Takes(u, node.key) # {} /\ Filled(u, w, node)
  BY SizesAreNaturals DEF Sound, Typed, Slots
<1>a. node = t.node[done]
  OBVIOUS
<1> HIDE DEF node
<1>1. PICK y \in Slots(u) :
        /\ w.node[y] = node
        /\ u.node[y] # None => u.node[y].key = node.key
        /\ \A q \in Slots(u) : q # y =>
            /\ w.node[q] = u.node[q]
            /\ u.node[q] # None => u.node[q].key # node.key
  BY <1>0, FilledIsSound
<1>2. Slots(w) = Slots(u)
  BY <1>0, FilledIsSound
<1>3. ASSUME NEW p \in Slots(t), p < done + 1, t.node[p] # None
      PROVE  \E q \in Slots(u) : w.node[q] = t.node[p]
  <2>1. CASE p = done
    BY <2>1, <1>1, <1>a
  <2>2. CASE p # done
    <3>1. p < done
      BY <2>2, <1>0, <1>3
    <3>2. PICK q \in Slots(u) : u.node[q] = t.node[p]
      BY <3>1, <1>3 DEF Agree
    <3>3. t.node[p].key # node.key
      BY <2>2, <1>3, <1>a DEF Sound, Once
    <3> QED BY <3>2, <3>3, <1>1, <1>3
  <2> QED BY <2>1, <2>2
<1>4. ASSUME NEW q \in Slots(u), w.node[q] # None
      PROVE  \E p \in Slots(t) : t.node[p] = w.node[q]
  BY <1>1, <1>4, <1>a DEF Agree
<1> QED BY <1>2, <1>3, <1>4 DEF Agree

\* A key is deleted from both.
LEMMA FreeBoth ==
    ASSUME NEW t, Sound(t), NEW u, Sound(u), NEW done \in Nat,
           Agree(t, u, done), NEW key \in Keys,
           NEW x \in Slots(t), Holds(t, key, x),
           Stops(u, key) # {}
    PROVE  /\ Sound(Freed(u, Find(u, key)))
           /\ Agree(Freed(t, x), Freed(u, Find(u, key)), done)
<1> DEFINE v == Freed(t, x)
           y == Find(u, key)
           w == Freed(u, y)
<1>1. /\ Slots(v) = Slots(t) /\ v.node[x] = None
      /\ \A p \in Slots(t) : p # x => v.node[p] = t.node[p]
  BY FreedIsSound
<1>2. \A p \in Slots(t) : p # x /\ t.node[p] # None => t.node[p].key # key
  BY DEF Sound, Once, Holds
<1>3. /\ Sound(w) /\ Slots(w) = Slots(u)
      /\ \A q \in Slots(u) :
            \/ w.node[q] = u.node[q] /\ (u.node[q] # None => u.node[q].key # key)
            \/ w.node[q] = None /\ u.node[q] # None /\ u.node[q].key = key
  <2>1. CASE y = u.n /\ \A i \in Slots(u) : ~Holds(u, key, i)
    <3>1. w = u
      BY <2>1 DEF Freed
    <3> QED BY <3>1, <2>1 DEF Holds
  <2>2. CASE y \in Slots(u) /\ Holds(u, key, y)
    <3>1. /\ Sound(w) /\ Slots(w) = Slots(u) /\ w.node[y] = None
          /\ \A q \in Slots(u) : q # y => w.node[q] = u.node[q]
      BY <2>2, FreedIsSound
    <3>2. \A q \in Slots(u) : q # y /\ u.node[q] # None => u.node[q].key # key
      BY <2>2 DEF Sound, Once, Holds
    <3> QED BY <3>1, <3>2, <2>2 DEF Holds
  <2> QED BY <2>1, <2>2, FindIsRight
<1> HIDE DEF v, w, y
<1>4. ASSUME NEW p \in Slots(t), p < done, v.node[p] # None
      PROVE  \E q \in Slots(u) : w.node[q] = v.node[p]
  <2>1. p # x /\ v.node[p] = t.node[p] /\ t.node[p].key # key
    BY <1>1, <1>2, <1>4
  <2>2. PICK q \in Slots(u) : u.node[q] = t.node[p]
    BY <2>1, <1>4 DEF Agree
  <2> QED BY <2>1, <2>2, <1>3
<1>5. ASSUME NEW q \in Slots(u), w.node[q] # None
      PROVE  \E p \in Slots(t) : v.node[p] = w.node[q]
  <2>1. w.node[q] = u.node[q] /\ u.node[q].key # key
    BY <1>3, <1>5
  <2>2. PICK p \in Slots(t) : t.node[p] = u.node[q]
    BY <2>1, <1>5 DEF Agree
  <2>3. p # x
    BY <2>1, <2>2 DEF Holds
  <2> QED BY <2>1, <2>2, <2>3, <1>1
<1> QED BY <1>1, <1>3, <1>4, <1>5 DEF Agree, v, w, y

LEMMA NewIsSound ==
    ASSUME NEW n \in Sizes, NEW size
    PROVE  /\ Sound(NewTable(n, size))
           /\ Slots(NewTable(n, size)) = 0..(n - 1)
           /\ \A i \in 0..(n - 1) : NewTable(n, size).node[i] = None
BY DEF NewTable, Sound, Typed, Reached, Once, Slots

LEMMA SizedIsSound ==
    ASSUME NEW t, Sound(t), NEW size
    PROVE  LET u == [t EXCEPT !.size = size]
           IN  Sound(u) /\ u.node = t.node /\ Slots(u) = Slots(t)
<1> DEFINE u == [t EXCEPT !.size = size]
<1>1. /\ u = [n |-> u.n, node |-> u.node, dirty |-> u.dirty,
              size |-> u.size, n_dirty |-> u.n_dirty]
      /\ u.n = t.n /\ u.node = t.node /\ u.dirty = t.dirty
  BY DEF Sound, Typed
<1> HIDE DEF u
<1> QED BY <1>1 DEF Sound, Typed, Reached, Once, Slots, u

-----------------------------------------------------------------------------
(* The invariant.                                                          *)

\* How far the shadow is filled.
FilledTo == IF loop # None THEN loop.at ELSE position

CallNames == {"put", "store", "delete"}

\* Both tables are sound and agree; a loop that has not begun has a batch
\* before it, so that it does not pause where it started.
IInv ==
    /\ Sound(h)
    /\ calls \in Seq([name : CallNames, node : Nodes])
    /\ position \in 0..h.n
    /\ loop # None =>
        /\ loop \in [at : Nat, left : Nat]
        /\ loop.at <= h.n
        /\ loop.at + loop.left > 0
    /\ Resizing => Sound(s) /\ Agree(h, s, FilledTo)

LEMMA InitIInv == Init => IInv
<1> SUFFICES ASSUME Init PROVE IInv
  OBVIOUS
<1>1. Primes[1] \in Sizes
  BY PrimesAssumption DEF Sizes
<1>2. Sound(h) /\ h.n = Primes[1] /\ h.n \in Nat
  BY <1>1, NewIsSound, SizesAreNaturals DEF Init, NewTable
<1> QED BY <1>2 DEF Init, IInv, Resizing

\* The node the next call is about.
LEMMA HeadCall ==
    ASSUME IInv, calls # <<>>
    PROVE  /\ Head(calls).node \in Nodes
           /\ Head(calls).node.key \in Keys
           /\ Head(calls).node.row \in Rows
           /\ Tail(calls) \in Seq([name : CallNames, node : Nodes])
<1> DEFINE C == [name : CallNames, node : Nodes]
<1>1. calls \in Seq(C)
  BY DEF IInv
<1> HIDE DEF C
<1>2. Head(calls) \in C /\ Tail(calls) \in Seq(C)
  BY <1>1
<1>3. Head(calls).node \in Nodes
  BY <1>2 DEF C
<1> QED BY <1>2, <1>3, NodesAreNodes DEF C

\* What every step needs of the sizes.
LEMMA TableSizes ==
    ASSUME IInv
    PROVE  /\ h.n \in Nat /\ h.n > 1 /\ Slots(h) = 0..(h.n - 1)
           /\ \A i \in Slots(h) : h.node[i] # None => h.node[i] \in Nodes
BY SizesAreNaturals DEF IInv, Sound, Typed, Slots

LEMMA PutGrowsStep ==
    ASSUME IInv, PutGrows
    PROVE  IInv' /\ UNCHANGED <<h, got>>
<1>1. /\ Calling("put")
      /\ Grows \/ position > 0
      /\ Grows => Larger(h.n) # {}
      /\ loop' = [at |-> position, left |-> Batch]
      /\ calls' = <<Call("store", Head(calls).node)>> \o Tail(calls)
      /\ s' = IF Grows THEN NewTable(Least(Larger(h.n)), h.size) ELSE s
      /\ UNCHANGED <<h, position, got>>
  BY DEF PutGrows, Loops
<1>2. calls # <<>> /\ loop = None
  BY <1>1 DEF Calling
<1>3. h.n \in Nat /\ position \in 0..h.n
  BY TableSizes DEF IInv
<1>4. loop' \in [at : Nat, left : Nat] /\ loop' # None
  BY <1>1, <1>3, BatchAssumption, NoneAssumption
<1>5. calls' \in Seq([name : CallNames, node : Nodes])
  <2>1. Call("store", Head(calls).node) \in [name : CallNames, node : Nodes]
    BY <1>2, HeadCall DEF Call, CallNames
  <2> QED BY <2>1, <1>1, <1>2, HeadCall
<1>6. Sound(s') /\ Agree(h, s', position)
  <2>1. CASE Grows
    <3>1. Larger(h.n) \in SUBSET Nat /\ Larger(h.n) \subseteq Sizes
      BY SizesAreNaturals DEF Larger
    <3>2. Least(Larger(h.n)) \in Sizes
      BY <3>1, <1>1, <2>1, LeastIsLeast
    <3>3. /\ Sound(s') /\ \A i \in Slots(s') : s'.node[i] = None
      BY <3>2, <2>1, <1>1, NewIsSound
    <3>4. position = 0
      BY <2>1 DEF Grows
    <3> QED BY <3>3, <3>4, TableSizes DEF Agree
  <2>2. CASE ~Grows
    BY <2>2, <1>1, <1>2 DEF IInv, Resizing, FilledTo
  <2> QED BY <2>1, <2>2
<1>7. loop'.at = position /\ loop'.left = Batch /\ Batch > 0
  BY <1>1, BatchAssumption
<1> QED BY <1>1, <1>3, <1>4, <1>5, <1>6, <1>7, BatchAssumption
        DEF IInv, Resizing, FilledTo

LEMMA StoreStep ==
    ASSUME IInv, Store
    PROVE  /\ IInv'
           /\ \E k \in Keys, r \in Rows :
                \A key \in Keys :
                    RowOf(h', key) = IF key = k THEN r ELSE RowOf(h, key)
           /\ UNCHANGED got
<1> DEFINE node == Head(calls).node
<1>1. /\ loop = None /\ calls # <<>>
      /\ \A t \in Tables : PutEnds(t, node.key)
      /\ h' = Stored(h, node)
      /\ s' = IF position > 0 THEN Stored(s, node) ELSE s
      /\ calls' = Tail(calls)
      /\ UNCHANGED <<position, loop, got>>
  BY DEF Store, Calling
<1>2. node \in Nodes /\ node.key \in Keys /\ node.row \in Rows
  BY <1>1, HeadCall
<1> HIDE DEF node
<1>3. Sound(h) /\ h \in Tables /\ Takes(h, node.key) # {}
  BY <1>1 DEF IInv, Tables, PutEnds
<1>4. Filled(h, h', node)
  BY <1>1, <1>3, PutsFill DEF Sound
<1>5. Sound(h') /\ h'.n = h.n
  BY <1>2, <1>3, <1>4, FilledIsSound DEF Filled
<1>6. \A key \in Keys :
        RowOf(h', key) = IF key = node.key THEN node.row ELSE RowOf(h, key)
  BY <1>2, <1>3, <1>4, FilledRows
<1>7. Resizing' => Sound(s') /\ Agree(h', s', FilledTo')
  <2> SUFFICES ASSUME Resizing' PROVE Sound(s') /\ Agree(h', s', FilledTo')
    OBVIOUS
  <2>1. position > 0 /\ FilledTo' = position /\ FilledTo = position /\ Resizing
    BY <1>1 DEF Resizing, FilledTo
  <2>2. Sound(s) /\ Agree(h, s, position) /\ s \in Tables /\ position \in Nat
    BY <2>1, TableSizes DEF IInv, Tables
  <2>3. Takes(s, node.key) # {} /\ s' = Stored(s, node)
    BY <2>1, <2>2, <1>1 DEF PutEnds
  <2>4. Filled(s, s', node)
    BY <2>2, <2>3, PutsFill DEF Sound
  <2>5. Sound(s')
    BY <2>2, <2>3, <2>4, <1>2, FilledIsSound
  <2>6. Agree(h', s', position)
    BY <2>2, <2>3, <2>4, <1>2, <1>3, <1>4, FillBoth
  <2> QED BY <2>1, <2>5, <2>6
<1>8. IInv'
  BY <1>1, <1>5, <1>7, HeadCall DEF IInv
<1> QED BY <1>1, <1>2, <1>6, <1>8

LEMMA DeleteStep ==
    ASSUME IInv, Delete
    PROVE  /\ IInv'
           /\ \/ h' = h
              \/ \E k \in Keys : \A key \in Keys :
                    RowOf(h', key) = IF key = k THEN None ELSE RowOf(h, key)
           /\ UNCHANGED got
<1> DEFINE k == Head(calls).node.key
           x == Find(h, k)
<1>1. /\ loop = None /\ calls # <<>>
      /\ \A t \in Tables : Stops(t, k) # {}
      /\ h' = Freed(h, x)
      /\ UNCHANGED <<position, got>>
      /\ \/ x # h.n /\ position > 0 /\ s' = Freed(s, Find(s, k))
            /\ loop' = [at |-> position, left |-> Batch] /\ calls' = Tail(calls)
         \/ (x = h.n \/ ~(position > 0)) /\ calls' = Tail(calls)
            /\ s' = s /\ loop' = loop
  BY DEF Delete, Calling, Loops
<1>2. k \in Keys
  BY <1>1, HeadCall
<1> HIDE DEF k, x
<1>3. Sound(h) /\ h \in Tables /\ Stops(h, k) # {} /\ position \in 0..h.n
  BY <1>1 DEF IInv, Tables
<1>4. h.n \in Nat /\ calls' \in Seq([name : CallNames, node : Nodes])
  BY <1>1, HeadCall, TableSizes
<1>5. CASE x = h.n
  <2>1. h' = h
    BY <1>1, <1>5 DEF Freed
  <2>2. s' = s /\ loop' = loop
    BY <1>1, <1>5
  <2>3. Resizing' = Resizing /\ FilledTo' = FilledTo
    BY <2>2, <1>1 DEF Resizing, FilledTo
  <2>4. IInv'
    BY <2>1, <2>2, <2>3, <1>1, <1>4 DEF IInv
  <2> QED BY <2>1, <2>4, <1>1
<1>6. CASE x # h.n
  <2>1. x \in Slots(h) /\ Holds(h, k, x)
    BY <1>2, <1>3, <1>6, FindIsRight DEF x
  <2>2. Sound(h') /\ h'.n = h.n
    BY <2>1, <1>1, <1>3, FreedIsSound
  <2>3. \A key \in Keys :
            RowOf(h', key) = IF key = k THEN None ELSE RowOf(h, key)
    BY <2>1, <1>1, <1>2, <1>3, FreedRows
  <2>4. CASE position > 0
    <3>1. /\ s' = Freed(s, Find(s, k))
          /\ loop' = [at |-> position, left |-> Batch]
      BY <1>1, <1>6, <2>4
    <3>2. Sound(s) /\ Agree(h, s, position) /\ s \in Tables /\ position \in Nat
      BY <1>1, <1>3, <1>4, <2>4 DEF IInv, Resizing, FilledTo, Tables
    <3>3. Stops(s, k) # {}
      BY <3>2, <1>1
    <3>4. Sound(s') /\ Agree(h', s', position)
      BY <3>1, <3>2, <3>3, <2>1, <1>1, <1>2, <1>3, FreeBoth
    <3>5. loop' \in [at : Nat, left : Nat] /\ loop' # None
      BY <3>1, <3>2, BatchAssumption, NoneAssumption
    <3>6. FilledTo' = position
      BY <3>1, <3>5 DEF FilledTo
    <3>7. loop'.at = position /\ loop'.at + loop'.left > 0
      BY <3>1, <3>2, <2>4, BatchAssumption
    <3>8. IInv'
      BY <3>4, <3>5, <3>6, <3>7, <2>2, <1>1, <1>3, <1>4 DEF IInv
    <3> QED BY <3>8, <2>3, <1>1, <1>2
  <2>5. CASE ~(position > 0)
    <3>1. loop' = None /\ position' = position
      BY <1>1, <2>5
    <3>2. IInv'
      BY <3>1, <2>2, <2>5, <1>1, <1>3, <1>4 DEF IInv, Resizing
    <3> QED BY <3>2, <2>3, <1>1, <1>2
  <2> QED BY <2>4, <2>5
<1> QED BY <1>5, <1>6

LEMMA CopySlotStep ==
    ASSUME IInv, CopySlot
    PROVE  IInv' /\ UNCHANGED <<h, got>>
<1>1. /\ loop # None /\ loop.at < h.n /\ loop.left > 0
      /\ h.node[loop.at] # None => PutEnds(s, h.node[loop.at].key)
      /\ s' = IF h.node[loop.at] = None THEN s ELSE Copied(s, h.node[loop.at])
      /\ loop' = [at |-> loop.at + 1, left |-> loop.left - 1]
      /\ UNCHANGED <<h, position, calls, got>>
  BY DEF CopySlot
<1>2. /\ loop.at \in Nat /\ loop.left \in Nat
      /\ h.n \in Nat /\ loop.at \in Slots(h)
      /\ Sound(h) /\ Sound(s) /\ Agree(h, s, loop.at)
  BY <1>1, TableSizes DEF IInv, Resizing, FilledTo
<1>3. /\ loop' \in [at : Nat, left : Nat] /\ loop' # None
      /\ loop'.at = loop.at + 1 /\ loop'.left = loop.left - 1
  BY <1>1, <1>2, NoneAssumption
<1>4. Sound(s') /\ Agree(h, s', loop.at + 1)
  <2>1. CASE h.node[loop.at] = None
    <3>1. \A p \in Slots(h) : p < loop.at + 1 => p < loop.at \/ p = loop.at
      BY <1>2, TableSizes
    <3> QED BY <3>1, <2>1, <1>1, <1>2 DEF Agree
  <2>2. CASE h.node[loop.at] # None
    <3> DEFINE node == h.node[loop.at]
    <3>1. node \in Nodes /\ Takes(s, node.key) # {}
      BY <2>2, <1>1, <1>2, TableSizes DEF PutEnds
    <3>2. Filled(s, s', node)
      BY <2>2, <1>1, <1>2, PutsFill DEF Sound
    <3>3. Sound(s')
      <4> HIDE DEF node
      <4> QED BY <3>1, <3>2, <1>2, FilledIsSound
    <3>4. Agree(h, s', loop.at + 1)
      BY <2>2, <3>1, <3>2, <1>2, FillShadow
    <3> QED BY <3>3, <3>4
  <2> QED BY <2>1, <2>2
<1>5. FilledTo' = loop.at + 1
  BY <1>3 DEF FilledTo
<1> QED BY <1>1, <1>2, <1>3, <1>4, <1>5 DEF IInv

LEMMA PauseStep ==
    ASSUME IInv, Pause
    PROVE  IInv' /\ UNCHANGED <<h, got>>
<1>1. /\ loop # None /\ loop.at < h.n /\ loop.left = 0
      /\ position' = loop.at /\ loop' = None
      /\ UNCHANGED <<h, s, calls, got>>
  BY DEF Pause
<1>2. loop.at \in 0..h.n /\ Sound(s) /\ Agree(h, s, loop.at)
  BY <1>1, TableSizes DEF IInv, Resizing, FilledTo
<1>3. FilledTo' = loop.at
  BY <1>1 DEF FilledTo
<1> QED BY <1>1, <1>2, <1>3 DEF IInv

LEMMA SwapStep ==
    ASSUME IInv, Swap
    PROVE  /\ IInv'
           /\ \A k \in Keys : RowOf(h', k) = RowOf(h, k)
           /\ UNCHANGED got
<1>1. /\ loop # None /\ loop.at = h.n
      /\ h' = [s EXCEPT !.size = h.size]
      /\ position' = 0 /\ loop' = None
      /\ UNCHANGED <<calls, got>>
  BY DEF Swap
<1>2. Sound(h) /\ Sound(s) /\ Agree(h, s, h.n)
  BY <1>1 DEF IInv, Resizing, FilledTo
<1>3. Sound(h') /\ h'.node = s.node /\ Slots(h') = Slots(s)
  BY <1>1, <1>2, SizedIsSound
<1>4. h'.n \in Nat
  BY <1>3, SizesAreNaturals DEF Sound, Typed
<1>5. IInv'
  BY <1>1, <1>3, <1>4 DEF IInv, Resizing
<1>6. \A p \in Slots(h) : p < h.n
  BY TableSizes
<1>7. ASSUME NEW k \in Keys PROVE RowOf(h', k) = RowOf(h, k)
  <2>1. \A p \in Slots(h) : h.node[p] # None /\ h.node[p].key = k =>
            \E q \in Slots(h') : h'.node[q] = h.node[p]
    BY <1>2, <1>3, <1>6 DEF Agree
  <2>2. \A q \in Slots(h') : h'.node[q] # None /\ h'.node[q].key = k =>
            \E p \in Slots(h) : h.node[p] = h'.node[q]
    BY <1>2, <1>3 DEF Agree
  <2> QED BY <2>1, <2>2, <1>2, <1>3, SameNodesSameRows
<1> QED BY <1>1, <1>5, <1>7

\* Calls for the two keys of a row are calls.
LEMMA RowCalls ==
    ASSUME NEW r \in Rows, NEW name \in CallNames
    PROVE  /\ Call(name, ByName(r)) \in [name : CallNames, node : Nodes]
           /\ Call(name, ByNumber(r)) \in [name : CallNames, node : Nodes]
BY DEF Call, ByName, ByNumber, Nodes

LEMMA AddRowStep ==
    ASSUME IInv, NEW r \in Rows, AddRow(r)
    PROVE  IInv' /\ UNCHANGED <<h, got>>
<1> DEFINE C == [name : CallNames, node : Nodes]
<1>1. /\ calls' = <<Call("put", ByName(r)), Call("put", ByNumber(r))>>
      /\ UNCHANGED <<h, s, position, loop, got>>
  BY DEF AddRow
<1>2. Call("put", ByName(r)) \in C /\ Call("put", ByNumber(r)) \in C
  BY RowCalls DEF CallNames
<1> HIDE DEF C
<1>3. calls' \in Seq(C)
  BY <1>1, <1>2
<1> QED BY <1>1, <1>3 DEF IInv, C, Resizing, FilledTo

LEMMA VisitStep ==
    ASSUME IInv, NEW from, NEW n, Visit(from, n)
    PROVE  IInv' /\ UNCHANGED <<h, got>>
<1> DEFINE C == [name : CallNames, node : Nodes]
           nodes == {i \in Slots(h) : i >= from /\ h.node[i] # None}
           r == h.node[Least(nodes)].row
<1>1. /\ calls' = IF nodes = {} THEN <<>>
                  ELSE <<Call("delete", ByNumber(r)), Call("delete", ByName(r))>>
      /\ UNCHANGED <<h, s, position, loop, got>>
  BY DEF Visit
<1>2. nodes # {} => r \in Rows
  <2>1. nodes \in SUBSET Nat
    BY TableSizes
  <2>2. nodes # {} => Least(nodes) \in nodes
    BY <2>1, LeastIsLeast
  <2>3. nodes # {} => h.node[Least(nodes)] \in Nodes
    BY <2>2, TableSizes
  <2> QED BY <2>3, NodesAreNodes
<1> HIDE DEF r, nodes
<1>3. r \in Rows => /\ Call("delete", ByNumber(r)) \in C
                    /\ Call("delete", ByName(r)) \in C
  BY RowCalls DEF CallNames
<1> HIDE DEF C
<1>4. calls' \in Seq(C)
  BY <1>1, <1>2, <1>3
<1> QED BY <1>1, <1>4 DEF IInv, C, Resizing, FilledTo

LEMMA LookStep ==
    ASSUME IInv, NEW k \in Keys, Look(k)
    PROVE  IInv' /\ UNCHANGED h /\ got' = RowOf(h, k)
<1>1. /\ Stops(h, k) # {}
      /\ got' = IF Find(h, k) = h.n THEN None ELSE h.node[Find(h, k)].row
      /\ UNCHANGED <<h, s, position, calls, loop>>
  BY DEF Look
<1>2. IInv'
  BY <1>1 DEF IInv, Resizing, FilledTo
<1>3. Sound(h) /\ h.n \notin Slots(h)
  BY TableSizes DEF IInv
<1>4. got' = RowOf(h, k)
  BY <1>1, <1>3, FindIsRight, RowOfSound
<1> QED BY <1>1, <1>2, <1>4

-----------------------------------------------------------------------------
(* The theorem.                                                            *)

MapOf(t) == [k \in Keys |-> RowOf(t, k)]

\* A step of the table, as the map sees it.
MapStep ==
    \/ MapOf(h') = MapOf(h) /\ UNCHANGED got
    \/ \E k \in Keys, r \in Rows :
        MapOf(h') = [MapOf(h) EXCEPT ![k] = r] /\ UNCHANGED got
    \/ \E k \in Keys :
        MapOf(h') = [MapOf(h) EXCEPT ![k] = None] /\ UNCHANGED got
    \/ \E k \in Keys :
        MapOf(h') = MapOf(h) /\ got' = MapOf(h)[k]

LEMMA EveryStep ==
    ASSUME IInv, [Next]_vars
    PROVE  IInv' /\ MapStep
<1>1. CASE PutGrows
  BY <1>1, PutGrowsStep DEF MapStep
<1>2. CASE Store
  <2>1. PICK k \in Keys, r \in Rows : \A key \in Keys :
            RowOf(h', key) = IF key = k THEN r ELSE RowOf(h, key)
    BY <1>2, StoreStep
  <2>2. MapOf(h') = [MapOf(h) EXCEPT ![k] = r]
    BY <2>1 DEF MapOf
  <2> QED BY <2>2, <1>2, StoreStep DEF MapStep
<1>3. CASE Delete
  <2>1. CASE h' = h
    BY <2>1, <1>3, DeleteStep DEF MapStep
  <2>2. CASE h' # h
    <3>1. PICK k \in Keys : \A key \in Keys :
            RowOf(h', key) = IF key = k THEN None ELSE RowOf(h, key)
      BY <1>3, <2>2, DeleteStep
    <3>2. MapOf(h') = [MapOf(h) EXCEPT ![k] = None]
      BY <3>1 DEF MapOf
    <3> QED BY <3>2, <1>3, DeleteStep DEF MapStep
  <2> QED BY <2>1, <2>2
<1>4. CASE CopySlot
  BY <1>4, CopySlotStep DEF MapStep
<1>5. CASE Pause
  BY <1>5, PauseStep DEF MapStep
<1>6. CASE Swap
  BY <1>6, SwapStep DEF MapStep, MapOf
<1>7. CASE \E r \in Rows : AddRow(r)
  BY <1>7, AddRowStep DEF MapStep
<1>8. CASE \E k \in Keys : Look(k)
  <2>1. PICK k \in Keys : Look(k)
    BY <1>8
  <2>2. IInv' /\ h' = h /\ got' = MapOf(h)[k]
    BY <2>1, LookStep DEF MapOf
  <2> QED BY <2>2 DEF MapStep
<1>9. CASE Flush
  <2>1. Visit(0, h.n) \/ Visit(iter.at + 1, iter.of)
    BY <1>9 DEF Flush
  <2> QED BY <2>1, VisitStep DEF MapStep
<1>10. CASE UNCHANGED vars
  BY <1>10 DEF vars, IInv, Resizing, FilledTo, MapStep
<1> QED BY <1>1, <1>2, <1>3, <1>4, <1>5, <1>6, <1>7, <1>8, <1>9, <1>10 DEF Next

\* The hash table implements the map (IsMap), for every set of rows, every hash
\* and every sequence of sizes: mh_put, mh_find, mh_del and mh_resize of
\* mhash.h, in every order the schema cache calls them.
THEOREM Implements == Spec => IsMap
<1>1. Init => Map!Init
  <2> SUFFICES ASSUME Init PROVE Map!Init
    OBVIOUS
  <2>1. Primes[1] \in Sizes /\ Primes[1] \in Nat
    BY PrimesAssumption, SizesAreNaturals DEF Sizes
  <2>2. \A k \in Keys : RowOf(h, k) = None
    BY <2>1 DEF Init, NewTable, RowOf, Holds, Slots
  <2> QED BY <2>2 DEF Init, Map!Init
<1>2. IInv /\ [Next]_vars => [Map!Next]_(Map!mapVars)
  <2> SUFFICES ASSUME IInv, [Next]_vars PROVE [Map!Next]_(Map!mapVars)
    OBVIOUS
  <2>1. MapStep
    BY EveryStep
  <2> QED BY <2>1 DEF MapStep, MapOf, Map!Next, Map!Put, Map!Delete, Map!Get, Map!mapVars
<1>3. IInv /\ [Next]_vars => IInv'
  BY EveryStep
<1> QED BY <1>1, <1>2, <1>3, InitIInv, PTL DEF Spec, IsMap, Map!Spec

-----------------------------------------------------------------------------
(* Counting.                                                               *)

Occupied(t) == {i \in Slots(t) : t.node[i] # None}

\* The counters of a table are naturals, and n_dirty is not below the slots that
\* are used.
Counted(t) ==
    /\ t.size \in Nat /\ t.n_dirty \in Nat
    /\ t.dirty \subseteq Slots(t)
    /\ Cardinality(Used(t)) <= t.n_dirty

\* How many slots there are.
LEMMA SlotsAreFinite ==
    ASSUME NEW t, t.n \in Sizes
    PROVE  /\ IsFiniteSet(Slots(t)) /\ Cardinality(Slots(t)) = t.n
           /\ \A S \in SUBSET Slots(t) :
                /\ IsFiniteSet(S) /\ Cardinality(S) \in Nat
                /\ Cardinality(S) < t.n => \E i \in Slots(t) : i \notin S
<1>1. t.n \in Nat /\ t.n > 1
  BY SizesAreNaturals
<1>2. IsFiniteSet(Slots(t)) /\ Cardinality(Slots(t)) = t.n
  BY <1>1, FS_Interval DEF Slots
<1>3. ASSUME NEW S \in SUBSET Slots(t)
      PROVE  /\ IsFiniteSet(S) /\ Cardinality(S) \in Nat
             /\ Cardinality(S) < t.n => \E i \in Slots(t) : i \notin S
  <2>1. IsFiniteSet(S)
    BY <1>2, FS_Subset
  <2>2. Cardinality(S) \in Nat
    BY <2>1, FS_CardinalityType
  <2>3. CASE \A i \in Slots(t) : i \in S
    <3>1. S = Slots(t)
      BY <2>3
    <3> QED BY <2>1, <2>2, <3>1, <1>1, <1>2
  <2> QED BY <2>1, <2>2, <2>3
<1> QED BY <1>2, <1>3

LEMMA UsedAreSlots ==
    ASSUME NEW t, Counted(t), t.n \in Sizes
    PROVE  /\ Used(t) \subseteq Slots(t) /\ Occupied(t) \subseteq Used(t)
           /\ IsFiniteSet(Used(t)) /\ IsFiniteSet(Occupied(t))
           /\ Cardinality(Used(t)) \in Nat /\ Cardinality(Occupied(t)) \in Nat
           /\ Cardinality(Occupied(t)) <= Cardinality(Used(t))
<1>1. Used(t) \subseteq Slots(t) /\ Occupied(t) \subseteq Used(t)
  BY DEF Used, Occupied
<1>2. /\ IsFiniteSet(Used(t)) /\ IsFiniteSet(Occupied(t))
      /\ Cardinality(Used(t)) \in Nat /\ Cardinality(Occupied(t)) \in Nat
  <2>1. Occupied(t) \subseteq Slots(t)
    BY DEF Occupied
  <2> QED BY <1>1, <2>1, SlotsAreFinite
<1>3. Cardinality(Occupied(t)) <= Cardinality(Used(t))
  BY <1>1, <1>2, FS_Subset
<1> QED BY <1>1, <1>2, <1>3

\* A chain passes slots of other keys.
LEMMA PassedAreOccupied ==
    ASSUME NEW t, Sound(t), NEW k \in Keys, Takes(t, k) # {}
    PROVE  \A i \in Passed(t, k) : i \in Slots(t) /\ t.node[i] # None
<1>1. t.n \in Sizes /\ t.n \in Nat /\ t.n > 1 /\ Slots(t) = 0..(t.n - 1)
  BY SizesAreNaturals DEF Sound, Typed, Slots
<1>2. /\ Least(Takes(t, k)) \in Takes(t, k)
      /\ \A m \in Takes(t, k) : Least(Takes(t, k)) <= m
  <2>1. Takes(t, k) \in SUBSET Nat
    BY <1>1 DEF Takes
  <2> QED BY <2>1, LeastIsLeast
<1>3. ASSUME NEW j \in 0..(Least(Takes(t, k)) - 1)
      PROVE  Probe(t.n, k, j) \in Slots(t) /\ t.node[Probe(t.n, k, j)] # None
  <2>1. Least(Takes(t, k)) \in Slots(t)
    BY <1>2 DEF Takes
  <2>2. j \in Slots(t) /\ j \in Nat /\ j < Least(Takes(t, k))
    BY <2>1, <1>1
  <2>3. j \notin Takes(t, k)
    BY <2>1, <2>2, <1>1, <1>2
  <2> QED BY <2>2, <2>3, <1>1, ProbesAreSlots DEF Takes
<1> QED BY <1>3 DEF Passed

\* A put takes at most one slot more.
LEMMA FilledUses ==
    ASSUME NEW t, Sound(t), Counted(t), NEW node \in Nodes, Takes(t, node.key) # {},
           NEW u, Filled(t, u, node)
    PROVE  LET x == PutSlot(t, node.key)
           IN  /\ u.dirty \subseteq Slots(u)
               /\ Used(u) = Used(t) \cup {x} /\ Occupied(u) = Occupied(t) \cup {x}
               /\ Cardinality(Used(u)) =
                    Cardinality(Used(t)) + (IF x \in Used(t) THEN 0 ELSE 1)
               /\ Cardinality(Occupied(u)) =
                    Cardinality(Occupied(t)) + (IF t.node[x] # None THEN 0 ELSE 1)
<1> DEFINE x == PutSlot(t, node.key)
           P == Passed(t, node.key)
<1>1. node.key \in Keys /\ node # None
  BY NodesAreNodes
<1>2. x \in Slots(t)
  BY <1>1, PutSlotIsRight
<1>3. \A i \in P : i \in Slots(t) /\ t.node[i] # None
  BY <1>1, PassedAreOccupied
<1>4. /\ u.n = t.n /\ Slots(u) = Slots(t)
      /\ u.node = [t.node EXCEPT ![x] = node]
      /\ u.dirty = t.dirty \cup P
  BY DEF Filled, Slots
<1>5. t.node \in [Slots(t) -> Nodes \cup {None}] /\ t.n \in Sizes
  BY DEF Sound, Typed
<1> HIDE DEF x, P
<1>6. \A i \in Slots(t) : u.node[i] # None <=> i = x \/ t.node[i] # None
  BY <1>1, <1>2, <1>4, <1>5
<1>7. Used(u) = Used(t) \cup {x} /\ Occupied(u) = Occupied(t) \cup {x}
  BY <1>2, <1>3, <1>4, <1>6 DEF Used, Occupied
<1>8. IsFiniteSet(Used(t)) /\ IsFiniteSet(Occupied(t))
      /\ Cardinality(Used(t)) \in Nat /\ Cardinality(Occupied(t)) \in Nat
  BY <1>5, UsedAreSlots
<1>9. Cardinality(Used(t) \cup {x}) =
        IF x \in Used(t) THEN Cardinality(Used(t)) ELSE Cardinality(Used(t)) + 1
  BY <1>8, FS_AddElement
<1>10. Cardinality(Occupied(t) \cup {x}) =
        IF x \in Occupied(t) THEN Cardinality(Occupied(t))
                             ELSE Cardinality(Occupied(t)) + 1
  BY <1>8, FS_AddElement
<1>11. x \in Occupied(t) <=> t.node[x] # None
  BY <1>2 DEF Occupied
<1>12. u.dirty \subseteq Slots(u)
  BY <1>3, <1>4 DEF Counted
<1> QED BY <1>7, <1>8, <1>9, <1>10, <1>11, <1>12 DEF x

\* A slot is used that is occupied or dirty; what is passed is used already.
LEMMA StoredCounts ==
    ASSUME NEW t, Sound(t), Counted(t), NEW node \in Nodes, Takes(t, node.key) # {}
    PROVE  LET u     == Stored(t, node)
               fresh == \A p \in Slots(t) : ~Holds(t, node.key, p)
           IN  /\ Counted(u)
               /\ u.n_dirty = t.n_dirty \/ u.n_dirty = t.n_dirty + 1
               /\ u.size = t.size + (IF fresh THEN 1 ELSE 0)
               /\ Cardinality(Occupied(u)) =
                    Cardinality(Occupied(t)) + (IF fresh THEN 1 ELSE 0)
<1> DEFINE x == PutSlot(t, node.key)
           u == Stored(t, node)
           P == Passed(t, node.key)
           fresh == \A p \in Slots(t) : ~Holds(t, node.key, p)
<1>1. node.key \in Keys /\ node # None
  BY NodesAreNodes
<1>2. /\ x \in Slots(t)
      /\ t.node[x] = None \/ Holds(t, node.key, x)
      /\ \A p \in Slots(t) : Holds(t, node.key, p) => p = x
  BY <1>1, PutSlotIsRight
<1>3. \A i \in P : i \in Slots(t) /\ t.node[i] # None
  BY <1>1, PassedAreOccupied
<1>4. fresh <=> t.node[x] = None
  BY <1>2 DEF Holds
<1>5. /\ u.size = IF t.node[x] = None THEN t.size + 1 ELSE t.size
      /\ u.n_dirty = IF t.node[x] = None /\ x \notin t.dirty \cup P
                     THEN t.n_dirty + 1 ELSE t.n_dirty
  BY DEF Stored
<1>6. Filled(t, u, node)
  BY PutsFill DEF Sound
<1>7. /\ u.dirty \subseteq Slots(u)
      /\ Cardinality(Used(u)) =
            Cardinality(Used(t)) + (IF x \in Used(t) THEN 0 ELSE 1)
      /\ Cardinality(Occupied(u)) =
            Cardinality(Occupied(t)) + (IF t.node[x] # None THEN 0 ELSE 1)
  BY <1>6, FilledUses
<1>8. t.size \in Nat /\ t.n_dirty \in Nat /\ Cardinality(Used(t)) <= t.n_dirty
  BY DEF Counted
<1>9. Cardinality(Used(t)) \in Nat
  BY UsedAreSlots DEF Sound, Typed
<1> HIDE DEF x, u, P, fresh
<1>10. x \in Used(t) <=> t.node[x] # None \/ x \in t.dirty
  BY <1>2 DEF Used
<1>11. t.node[x] = None => (x \notin t.dirty \cup P <=> x \notin Used(t))
  BY <1>3, <1>10
<1>12. Cardinality(Used(u)) <= u.n_dirty
  <2>1. CASE x \in Used(t)
    <3>1. Cardinality(Used(u)) = Cardinality(Used(t))
      BY <1>7, <1>9, <2>1
    <3> QED BY <3>1, <1>5, <1>8, <1>9
  <2>2. CASE x \notin Used(t)
    <3>1. u.n_dirty = t.n_dirty + 1
      BY <2>2, <1>5, <1>10, <1>11
    <3> QED BY <3>1, <2>2, <1>7, <1>8, <1>9
  <2> QED BY <2>1, <2>2
<1>13. Counted(u)
  BY <1>5, <1>7, <1>8, <1>12 DEF Counted
<1>14. u.n_dirty = t.n_dirty \/ u.n_dirty = t.n_dirty + 1
  BY <1>5
<1>15. u.size = t.size + (IF fresh THEN 1 ELSE 0)
  BY <1>4, <1>5, <1>8
<1>16. Cardinality(Occupied(u)) =
        Cardinality(Occupied(t)) + (IF fresh THEN 1 ELSE 0)
  BY <1>4, <1>7
<1> QED BY <1>13, <1>14, <1>15, <1>16, Zenon DEF u, fresh

LEMMA CopiedCounts ==
    ASSUME NEW t, Sound(t), Counted(t), NEW node \in Nodes, Takes(t, node.key) # {}
    PROVE  /\ Counted(Copied(t, node))
           /\ Copied(t, node).n_dirty = t.n_dirty + 1
           /\ Copied(t, node).size = t.size
<1> DEFINE x == PutSlot(t, node.key)
           u == Copied(t, node)
<1>1. u.n_dirty = t.n_dirty + 1 /\ u.size = t.size
  BY DEF Copied
<1>2. Filled(t, u, node)
  BY PutsFill DEF Sound
<1>3. /\ u.dirty \subseteq Slots(u)
      /\ Cardinality(Used(u)) =
            Cardinality(Used(t)) + (IF x \in Used(t) THEN 0 ELSE 1)
  BY <1>2, FilledUses
<1>4. t.size \in Nat /\ t.n_dirty \in Nat /\ Cardinality(Used(t)) <= t.n_dirty
  BY DEF Counted
<1>5. Cardinality(Used(t)) \in Nat
  BY UsedAreSlots DEF Sound, Typed
<1> HIDE DEF x, u
<1>6. Cardinality(Used(u)) <= u.n_dirty
  BY <1>1, <1>3, <1>4, <1>5
<1> QED BY <1>1, <1>3, <1>4, <1>6 DEF Counted, u

\* A slot that is freed stays used if it is dirty.
LEMMA FreedCounts ==
    ASSUME NEW t, Sound(t), Counted(t), NEW x \in Slots(t), t.node[x] # None,
           t.size > 0
    PROVE  /\ Counted(Freed(t, x))
           /\ Freed(t, x).n_dirty <= t.n_dirty
           /\ Freed(t, x).size = t.size - 1
           /\ Cardinality(Occupied(Freed(t, x))) = Cardinality(Occupied(t)) - 1
<1> DEFINE u == Freed(t, x)
<1>1. t.n \in Sizes /\ t.n \in Nat /\ x # t.n
  BY SizesAreNaturals DEF Sound, Typed, Slots
<1>2. /\ u.dirty = t.dirty /\ u.size = t.size - 1
      /\ u.n_dirty = IF x \in t.dirty THEN t.n_dirty ELSE t.n_dirty - 1
  BY <1>1 DEF Freed, Sound, Typed
<1>3. /\ Slots(u) = Slots(t) /\ u.node[x] = None
      /\ \A p \in Slots(t) : p # x => u.node[p] = t.node[p]
  BY FreedIsSound
<1> HIDE DEF u
<1>4. /\ IsFiniteSet(Used(t)) /\ IsFiniteSet(Occupied(t))
      /\ Cardinality(Used(t)) \in Nat /\ Cardinality(Occupied(t)) \in Nat
  BY <1>1, UsedAreSlots
<1>5. Occupied(u) = Occupied(t) \ {x} /\ x \in Occupied(t)
  BY <1>3 DEF Occupied
<1>6. Cardinality(Occupied(u)) = Cardinality(Occupied(t)) - 1
  BY <1>4, <1>5, FS_RemoveElement
<1>7. t.size \in Nat /\ t.n_dirty \in Nat /\ Cardinality(Used(t)) <= t.n_dirty
      /\ t.dirty \subseteq Slots(t)
  BY DEF Counted
<1>8. u.n_dirty \in Nat /\ u.n_dirty <= t.n_dirty /\ Cardinality(Used(u)) <= u.n_dirty
  <2>1. CASE x \in t.dirty
    <3>1. Used(u) = Used(t)
      BY <2>1, <1>2, <1>3 DEF Used
    <3> QED BY <2>1, <3>1, <1>2, <1>7
  <2>2. CASE x \notin t.dirty
    <3>1. Used(u) = Used(t) \ {x} /\ x \in Used(t)
      BY <2>2, <1>2, <1>3 DEF Used
    <3>2. Cardinality(Used(u)) = Cardinality(Used(t)) - 1
          /\ Cardinality(Used(u)) \in Nat
      <4>1. IsFiniteSet(Used(u))
        BY <3>1, <1>4, FS_RemoveElement
      <4> QED BY <4>1, <3>1, <1>4, FS_RemoveElement, FS_CardinalityType
    <3> QED BY <2>2, <3>2, <1>2, <1>4, <1>7
  <2> QED BY <2>1, <2>2
<1>9. Counted(u)
  BY <1>2, <1>3, <1>7, <1>8 DEF Counted
<1> QED BY <1>2, <1>6, <1>8, <1>9 DEF u

\* What is in one table is in the other.
LEMMA NoFewerNodes ==
    ASSUME NEW t, Sound(t), NEW u, Sound(u),
           \A p \in Slots(t) : t.node[p] # None =>
                \E q \in Slots(u) : u.node[q] = t.node[p]
    PROVE  Cardinality(Occupied(t)) <= Cardinality(Occupied(u))
<1> DEFINE f == [p \in Occupied(t) |-> CHOOSE q \in Slots(u) : u.node[q] = t.node[p]]
<1>1. IsFiniteSet(Occupied(u))
  <2>1. u.n \in Sizes /\ Occupied(u) \subseteq Slots(u)
    BY DEF Sound, Typed, Occupied
  <2> QED BY <2>1, SlotsAreFinite
<1>2. \A p \in Occupied(t) : f[p] \in Slots(u) /\ u.node[f[p]] = t.node[p]
  BY DEF Occupied
<1>3. f \in [Occupied(t) -> Occupied(u)]
  BY <1>2 DEF Occupied
<1>4. \A p, q \in Occupied(t) : f[p] = f[q] => p = q
  <2>1. \A p, q \in Occupied(t) : f[p] = f[q] => t.node[p] = t.node[q]
    BY <1>2
  <2> QED BY <2>1 DEF Occupied, Sound, Once
<1> HIDE DEF f
<1>5. f \in Injection(Occupied(t), Occupied(u))
  BY <1>3, <1>4 DEF Injection, IsInjective
<1> QED BY <1>1, <1>5, FS_Injection

LEMMA SameNodesSameSize ==
    ASSUME NEW t, Sound(t), NEW u, Sound(u), Agree(t, u, t.n)
    PROVE  Cardinality(Occupied(t)) = Cardinality(Occupied(u))
<1>1. t.n \in Nat /\ \A p \in Slots(t) : p < t.n
  BY SizesAreNaturals DEF Sound, Typed, Slots
<1>2. Cardinality(Occupied(t)) <= Cardinality(Occupied(u))
  BY <1>1, NoFewerNodes DEF Agree
<1>3. Cardinality(Occupied(u)) <= Cardinality(Occupied(t))
  BY NoFewerNodes DEF Agree
<1>4. Cardinality(Occupied(t)) \in Nat /\ Cardinality(Occupied(u)) \in Nat
  <2>1. t.n \in Sizes /\ Occupied(t) \subseteq Slots(t)
        /\ u.n \in Sizes /\ Occupied(u) \subseteq Slots(u)
    BY DEF Sound, Typed, Occupied
  <2> QED BY <2>1, SlotsAreFinite
<1> QED BY <1>2, <1>3, <1>4

-----------------------------------------------------------------------------
(* How much room a resize needs.                                           *)

LEMMA UpperIsBelow ==
    ASSUME NEW n \in Sizes
    PROVE  UpperBound(n) \in Nat /\ UpperBound(n) < n /\ 10 * UpperBound(n) <= 7 * n
<1>1. n \in Nat /\ n > 1
  BY SizesAreNaturals
<1> QED BY <1>1 DEF UpperBound

\* The table: a batch is copied with every put, and three tenths of the slots are
\* left when copying begins.
LEMMA TableHasRoom ==
    ASSUME NEW n \in Sizes, NEW d \in Nat, NEW p \in Nat, p < n,
           Batch * (d - UpperBound(n)) <= p
    PROVE  d < n
<1> SUFFICES ASSUME d >= n PROVE FALSE
  BY SizesAreNaturals
<1>1. n \in Nat /\ Batch \in Nat /\ Batch * 3 >= 10
  BY SizesAreNaturals, BatchAssumption
<1>2. UpperBound(n) \in Nat /\ 10 * UpperBound(n) <= 7 * n
  BY UpperIsBelow
<1> DEFINE e == d - UpperBound(n)
<1>3. e \in Nat /\ 10 * e >= 3 * n
  BY <1>1, <1>2
<1>4. Batch * e <= p
  OBVIOUS
<1> HIDE DEF e
<1>5. (3 * Batch) * e >= 10 * e
  <2> DEFINE b == 3 * Batch
  <2>1. b \in Nat /\ b >= 10
    BY <1>1
  <2> HIDE DEF b
  <2>2. b * e >= 10 * e
    BY <2>1, <1>3
  <2> QED BY <2>2 DEF b
<1>6. 3 * (Batch * e) = (3 * Batch) * e
  BY <1>1, <1>3
<1>7. Batch * e \in Nat
  BY <1>1, <1>3
<1> QED BY <1>1, <1>3, <1>4, <1>5, <1>6, <1>7

\* The shadow: a put may count twice, as a node that is put and that is copied.
LEMMA ShadowHasRoom ==
    ASSUME NEW m \in Sizes, NEW n \in Sizes, m < n, NEW d \in Nat, NEW p \in Nat,
           p < m, Batch * (d - UpperBound(m)) <= 2 * p
    PROVE  d < UpperBound(n)
<1>1. m \in Nat /\ n \in Nat /\ Batch \in Nat /\ Batch > 0
  BY SizesAreNaturals, BatchAssumption
<1>2. UpperBound(m) \in Nat /\ UpperBound(n) \in Nat
  BY UpperIsBelow
<1> DEFINE e == d - UpperBound(m)
           g == UpperBound(n) - UpperBound(m)
<1>3. e \in Int /\ g \in Int /\ Batch * e <= 2 * p /\ 2 * (m - 1) < Batch * g
  BY <1>1, <1>2, GrowthAssumption
<1>4. (d < UpperBound(n)) <=> e < g
  BY <1>2
<1> HIDE DEF e, g
<1>5. Batch * e \in Int /\ Batch * g \in Int
  BY <1>1, <1>3
<1>6. Batch * e < Batch * g
  BY <1>1, <1>3, <1>5
<1>7. e < g
  <2> SUFFICES ASSUME e >= g PROVE FALSE
    BY <1>3
  <2>1. Batch * e >= Batch * g
    BY <1>1, <1>3
  <2> QED BY <2>1, <1>5, <1>6
<1> QED BY <1>4, <1>7

\* One more.
LEMMA OneMore ==
    ASSUME NEW a \in Int, NEW b \in Int, NEW k \in Nat, a <= b + k
    PROVE  Batch * a \in Int /\ Batch * a <= Batch * b + Batch * k
<1>1. Batch \in Nat
  BY BatchAssumption
<1>2. Batch * (b + k) = Batch * b + Batch * k
  BY <1>1
<1>3. Batch * a <= Batch * (b + k)
  BY <1>1
<1> QED BY <1>1, <1>2, <1>3

-----------------------------------------------------------------------------
(* The counters while a table is copied.                                   *)

\* The nodes of a table from a slot on.
Remaining(t, from) == {i \in Slots(t) : i >= from /\ t.node[i] # None}

\* The counters of the table t, its shadow u and the nodes R that have still to
\* be copied, when done slots are copied with the puts there have been: a batch
\* with every put, which adds a node to each table, and a dirty slot to each; in
\* the shadow another, if that node comes to be copied.
Bounded(t, u, R, done) ==
    /\ t.n < u.n
    /\ t.size <= u.size
    /\ Batch * (u.size - UpperBound(t.n)) <= done
    /\ Batch * (t.n_dirty - UpperBound(t.n)) <= done
    /\ Batch * (u.n_dirty + Cardinality(R) - UpperBound(t.n)) <= 2 * done

\* What the lemmas below need of the numbers.
LEMMA BoundedNumbers ==
    ASSUME NEW t, Sound(t), Counted(t), NEW f \in Nat
    PROVE  /\ t.size \in Nat /\ t.n_dirty \in Nat
           /\ UpperBound(t.n) \in Nat
           /\ IsFiniteSet(Remaining(t, f)) /\ Cardinality(Remaining(t, f)) \in Nat
<1>1. t.n \in Sizes /\ Remaining(t, f) \subseteq Slots(t)
  BY DEF Sound, Typed, Remaining
<1> QED BY <1>1, SlotsAreFinite, UpperIsBelow DEF Counted

\* A multiple of Batch that does not grow.
LEMMA NoMore ==
    ASSUME NEW a \in Int, NEW b \in Int, a <= b, NEW d \in Int, NEW e \in Int,
           Batch * b <= d, d <= e
    PROVE  Batch * a <= e
<1>1. Batch * a \in Int /\ Batch * a <= Batch * b + Batch * 0
  BY OneMore
<1>2. Batch \in Nat /\ Batch * 0 = 0 /\ Batch * b \in Int
  BY BatchAssumption
<1> QED BY <1>1, <1>2

\* One that grows by k.
LEMMA SomeMore ==
    ASSUME NEW a \in Int, NEW b \in Int, NEW k \in Nat, a <= b + k, NEW d \in Int,
           Batch * b <= d
    PROVE  Batch * a <= d + Batch * k
<1>1. Batch * a \in Int /\ Batch * a <= Batch * b + Batch * k
  BY OneMore
<1>2. Batch * k \in Int /\ Batch * b \in Int
  BY BatchAssumption
<1> QED BY <1>1, <1>2

\* The bounds are as good for fewer nodes and more puts.
LEMMA BoundedLater ==
    ASSUME NEW t, Sound(t), Counted(t), NEW u, Counted(u), NEW f \in Nat,
           NEW d \in Int, NEW e \in Int, d <= e,
           Bounded(t, u, Remaining(t, f), d)
    PROVE  Bounded(t, u, Remaining(t, f), e)
<1> DEFINE R == Remaining(t, f)
<1>1. /\ t.size \in Nat /\ t.n_dirty \in Nat /\ UpperBound(t.n) \in Nat
      /\ Cardinality(R) \in Nat /\ u.size \in Nat /\ u.n_dirty \in Nat
  BY BoundedNumbers DEF Counted
<1> HIDE DEF R
<1>2. Batch * (u.size - UpperBound(t.n)) <= e
  BY <1>1, NoMore DEF Bounded
<1>3. Batch * (t.n_dirty - UpperBound(t.n)) <= e
  BY <1>1, NoMore DEF Bounded
<1>4. Batch * (u.n_dirty + Cardinality(R) - UpperBound(t.n)) <= 2 * e
  <2>1. Batch * (u.n_dirty + Cardinality(R) - UpperBound(t.n)) <= 2 * d
    BY DEF Bounded, R
  <2> QED BY <2>1, <1>1, NoMore
<1> QED BY <1>2, <1>3, <1>4 DEF Bounded, R

\* A put while the table is copied.
LEMMA StoredBounded ==
    ASSUME NEW t, Sound(t), Counted(t), NEW u, Sound(u), Counted(u),
           NEW f \in Nat, Agree(t, u, f), NEW node \in Nodes,
           Takes(t, node.key) # {}, Takes(u, node.key) # {},
           NEW d \in Int, Bounded(t, u, Remaining(t, f), d)
    PROVE  Bounded(Stored(t, node), Stored(u, node),
                   Remaining(Stored(t, node), f), d + Batch)
<1> DEFINE v == Stored(t, node)
           w == Stored(u, node)
           R == Remaining(t, f)
           Q == Remaining(v, f)
           k == node.key
           ub == UpperBound(t.n)
<1>1. /\ Counted(v)
      /\ v.n_dirty = t.n_dirty \/ v.n_dirty = t.n_dirty + 1
      /\ v.size = t.size + (IF \A p \in Slots(t) : ~Holds(t, k, p) THEN 1 ELSE 0)
  BY StoredCounts
<1>2. /\ Counted(w)
      /\ w.n_dirty = u.n_dirty \/ w.n_dirty = u.n_dirty + 1
      /\ w.size = u.size + (IF \A p \in Slots(u) : ~Holds(u, k, p) THEN 1 ELSE 0)
  BY StoredCounts
<1>3. Filled(t, v, node) /\ Filled(u, w, node)
  BY PutsFill DEF Sound
<1>4. Sound(v) /\ Slots(v) = Slots(t) /\ v.n = t.n /\ w.n = u.n
  BY <1>3, FilledIsSound DEF Filled
<1>5. PICK x \in Slots(t) : \A p \in Slots(t) : p # x => v.node[p] = t.node[p]
  BY <1>3, FilledIsSound
<1>6. (\A p \in Slots(t) : ~Holds(t, k, p)) => \A p \in Slots(u) : ~Holds(u, k, p)
  BY DEF Agree, Holds
<1>7. /\ t.size \in Nat /\ t.n_dirty \in Nat /\ ub \in Nat
      /\ u.size \in Nat /\ u.n_dirty \in Nat
      /\ IsFiniteSet(R) /\ Cardinality(R) \in Nat
      /\ IsFiniteSet(Q) /\ Cardinality(Q) \in Nat
  BY <1>1, <1>4, BoundedNumbers
<1>8. Cardinality(Q) <= Cardinality(R) + 1
  <2>1. Q \subseteq R \cup {x}
    BY <1>4, <1>5 DEF Remaining
  <2> HIDE DEF Q, R
  <2>2. /\ IsFiniteSet(R \cup {x})
        /\ Cardinality(R \cup {x}) =
            IF x \in R THEN Cardinality(R) ELSE Cardinality(R) + 1
    BY <1>7, FS_AddElement
  <2>3. Cardinality(Q) <= Cardinality(R \cup {x})
    BY <2>1, <2>2, FS_Subset
  <2> QED BY <2>2, <2>3, <1>7
<1>9. /\ t.n < u.n /\ t.size <= u.size
      /\ Batch * (u.size - ub) <= d
      /\ Batch * (t.n_dirty - ub) <= d
      /\ Batch * (u.n_dirty + Cardinality(R) - ub) <= 2 * d
  BY DEF Bounded
<1>10. Batch \in Nat /\ Batch * 1 = Batch /\ Batch * 2 = 2 * Batch
  BY BatchAssumption
<1> HIDE DEF v, w, R, Q, k, ub
<1>11. v.size <= w.size /\ w.size \in Nat /\ w.size <= u.size + 1
  BY <1>1, <1>2, <1>6, <1>7, <1>9
<1>12. v.n_dirty \in Nat /\ w.n_dirty \in Nat
  BY <1>1, <1>2, <1>7
<1>13. Batch * (w.size - ub) <= d + Batch * 1
  <2>1. w.size - ub <= (u.size - ub) + 1 /\ w.size - ub \in Int /\ u.size - ub \in Int
    BY <1>7, <1>11
  <2> QED BY <2>1, <1>9, SomeMore
<1>14. Batch * (v.n_dirty - ub) <= d + Batch * 1
  <2>1. /\ v.n_dirty - ub <= (t.n_dirty - ub) + 1
        /\ v.n_dirty - ub \in Int /\ t.n_dirty - ub \in Int
    BY <1>1, <1>7, <1>12
  <2> QED BY <2>1, <1>9, SomeMore
<1>15. Batch * (w.n_dirty + Cardinality(Q) - ub) <= 2 * d + Batch * 2
  <2>1. /\ w.n_dirty + Cardinality(Q) - ub <= (u.n_dirty + Cardinality(R) - ub) + 2
        /\ w.n_dirty + Cardinality(Q) - ub \in Int
        /\ u.n_dirty + Cardinality(R) - ub \in Int
        /\ 2 * d \in Int
    BY <1>2, <1>7, <1>8, <1>12
  <2> QED BY <2>1, <1>9, SomeMore
<1>16. /\ Batch * (w.size - ub) <= d + Batch
       /\ Batch * (v.n_dirty - ub) <= d + Batch
  BY <1>10, <1>13, <1>14
<1>17. Batch * (w.n_dirty + Cardinality(Q) - ub) <= 2 * (d + Batch)
  BY <1>10, <1>15
<1>18. UpperBound(v.n) = ub
  BY <1>4 DEF ub
<1> HIDE DEF Bounded
<1>19. Bounded(v, w, Q, d + Batch)
  BY <1>4, <1>9, <1>11, <1>16, <1>17, <1>18 DEF Bounded
<1> QED BY <1>19 DEF v, w, Q

\* A node is copied: one more counts in the shadow, one less remains.
LEMMA CopiedBounded ==
    ASSUME NEW t, Sound(t), Counted(t), NEW u, Sound(u), Counted(u),
           NEW f \in Slots(t), t.node[f] # None,
           Takes(u, t.node[f].key) # {},
           NEW d \in Int, Bounded(t, u, Remaining(t, f), d)
    PROVE  Bounded(t, Copied(u, t.node[f]), Remaining(t, f + 1), d)
<1> DEFINE w == Copied(u, t.node[f])
           R == Remaining(t, f)
           Q == Remaining(t, f + 1)
<1>1. f \in Nat /\ Slots(t) \subseteq Nat /\ t.node[f] \in Nodes
  BY SizesAreNaturals DEF Sound, Typed, Slots
<1>2. w.n_dirty = u.n_dirty + 1 /\ w.size = u.size
  BY <1>1, CopiedCounts
<1>3. w.n = u.n
  BY DEF Copied
<1>4. IsFiniteSet(R)
  BY <1>1, BoundedNumbers
<1>5. Q = R \ {f} /\ f \in R
  BY <1>1 DEF Remaining
<1>6. Cardinality(Q) = Cardinality(R) - 1 /\ Cardinality(R) \in Nat
  <2> HIDE DEF Q, R
  <2> QED BY <1>4, <1>5, FS_RemoveElement, FS_CardinalityType
<1>7. u.n_dirty \in Nat
  BY DEF Counted
<1> HIDE DEF w, Q
<1>8. w.n_dirty + Cardinality(Q) = u.n_dirty + Cardinality(R)
  BY <1>2, <1>6, <1>7
<1>9. Batch * (u.n_dirty + Cardinality(R) - UpperBound(t.n)) <= 2 * d
  BY DEF Bounded
<1>10. Batch * (w.n_dirty + Cardinality(Q) - UpperBound(t.n)) <= 2 * d
  <2>1. UpperBound(t.n) \in Nat /\ w.n_dirty \in Nat /\ Cardinality(Q) \in Int
    BY <1>1, <1>2, <1>6, <1>7, BoundedNumbers
  <2>2. w.n_dirty + Cardinality(Q) - UpperBound(t.n)
            = u.n_dirty + Cardinality(R) - UpperBound(t.n)
    BY <2>1, <1>6, <1>7, <1>8
  <2> QED BY <2>2, <1>9
<1> HIDE DEF R
<1>11. /\ t.n < w.n /\ t.size <= w.size
       /\ Batch * (w.size - UpperBound(t.n)) <= d
       /\ Batch * (t.n_dirty - UpperBound(t.n)) <= d
  BY <1>2, <1>3, Zenon DEF Bounded
<1>12. Bounded(t, w, Q, d)
  BY <1>10, <1>11, Zenon DEF Bounded
<1> QED BY <1>12 DEF w, Q

\* A delete while the table is copied.
LEMMA FreedBounded ==
    ASSUME NEW t, Sound(t), Counted(t), t.size = Cardinality(Occupied(t)),
           NEW u, Sound(u), Counted(u), NEW f \in Nat,
           NEW key \in Keys, NEW x \in Slots(t), Holds(t, key, x),
           Stops(u, key) # {},
           NEW d \in Int, Bounded(t, u, Remaining(t, f), d)
    PROVE  /\ Counted(Freed(t, x)) /\ Counted(Freed(u, Find(u, key)))
           /\ Freed(t, x).size = Cardinality(Occupied(Freed(t, x)))
           /\ Bounded(Freed(t, x), Freed(u, Find(u, key)),
                      Remaining(Freed(t, x), f), d)
<1> DEFINE v == Freed(t, x)
           y == Find(u, key)
           w == Freed(u, y)
           R == Remaining(t, f)
           Q == Remaining(v, f)
           ub == UpperBound(t.n)
<1>1. t.node[x] # None
  BY DEF Holds
<1>2. t.size > 0
  <2>1. x \in Occupied(t)
    BY <1>1 DEF Occupied
  <2>2. IsFiniteSet(Occupied(t)) /\ Cardinality(Occupied(t)) \in Nat
    BY UsedAreSlots DEF Sound, Typed
  <2>3. Cardinality(Occupied(t)) # 0
    BY <2>1, <2>2, FS_EmptySet
  <2> QED BY <2>2, <2>3
<1>3. /\ Counted(v) /\ v.n_dirty <= t.n_dirty /\ v.size = t.size - 1
      /\ Cardinality(Occupied(v)) = Cardinality(Occupied(t)) - 1
  BY <1>1, <1>2, FreedCounts
<1>4. /\ Sound(v) /\ Slots(v) = Slots(t) /\ v.n = t.n /\ v.node[x] = None
      /\ \A p \in Slots(t) : p # x => v.node[p] = t.node[p]
  BY FreedIsSound
<1>5. /\ t.n < u.n /\ t.size <= u.size
      /\ Batch * (u.size - ub) <= d
      /\ Batch * (t.n_dirty - ub) <= d
      /\ Batch * (u.n_dirty + Cardinality(R) - ub) <= 2 * d
  BY DEF Bounded
<1>6. /\ t.size \in Nat /\ t.n_dirty \in Nat /\ ub \in Nat
      /\ u.size \in Nat /\ u.n_dirty \in Nat
      /\ IsFiniteSet(R) /\ Cardinality(R) \in Nat
      /\ IsFiniteSet(Q) /\ Cardinality(Q) \in Nat
  BY <1>3, <1>4, BoundedNumbers DEF Counted
<1>7. /\ Counted(w) /\ w.n = u.n /\ w.n_dirty <= u.n_dirty
      /\ w.size <= u.size /\ u.size - 1 <= w.size
  <2>1. CASE y = u.n
    <3>1. w = u
      BY <2>1 DEF Freed
    <3> QED BY <3>1, <1>6
  <2>2. CASE y \in Slots(u) /\ Holds(u, key, y)
    <3>1. u.node[y] # None /\ u.size > 0
      BY <2>2, <1>2, <1>5, <1>6 DEF Holds
    <3>2. Counted(w) /\ w.n_dirty <= u.n_dirty /\ w.size = u.size - 1
      BY <2>2, <3>1, FreedCounts
    <3>3. w.n = u.n
      BY <2>2, FreedIsSound
    <3> QED BY <3>2, <3>3, <1>6
  <2> QED BY <2>1, <2>2, FindIsRight
<1>8. Cardinality(Q) <= Cardinality(R)
  <2>1. Q \subseteq R
    BY <1>4 DEF Remaining
  <2> HIDE DEF Q, R
  <2> QED BY <2>1, <1>6, FS_Subset
<1>9. v.n_dirty \in Nat /\ w.n_dirty \in Nat /\ w.size \in Nat
  BY <1>3, <1>7 DEF Counted
<1>10. v.size <= w.size
  BY <1>3, <1>5, <1>6, <1>7, <1>9
<1> HIDE DEF v, w, y, R, Q, ub
<1>11. Batch * (w.size - ub) <= d
  BY <1>5, <1>6, <1>7, <1>9, NoMore
<1>12. Batch * (v.n_dirty - ub) <= d
  BY <1>3, <1>5, <1>6, <1>9, NoMore
<1>13. Batch * (w.n_dirty + Cardinality(Q) - ub) <= 2 * d
  <2>1. w.n_dirty + Cardinality(Q) - ub <= u.n_dirty + Cardinality(R) - ub
    BY <1>6, <1>7, <1>8, <1>9
  <2> QED BY <2>1, <1>5, <1>6, <1>9, NoMore
<1>14. UpperBound(v.n) = ub
  BY <1>4 DEF ub
<1>15. Bounded(v, w, Q, d)
  BY <1>4, <1>5, <1>7, <1>10, <1>11, <1>12, <1>13, <1>14, Zenon DEF Bounded
<1>16. v.size = Cardinality(Occupied(v))
  BY <1>3
<1> QED BY <1>3, <1>7, <1>15, <1>16 DEF v, w, y, Q

\* Copying begins: nothing is counted in the shadow, and no more remains to be
\* copied than the table has nodes, nor has it more than it has slots in use.
LEMMA NewBounded ==
    ASSUME NEW t, Sound(t), Counted(t), t.size = Cardinality(Occupied(t)),
           t.n_dirty <= UpperBound(t.n), NEW n \in Sizes, t.n < n
    PROVE  /\ Counted(NewTable(n, t.size))
           /\ Bounded(t, NewTable(n, t.size), Remaining(t, 0), 0)
<1> DEFINE u == NewTable(n, t.size)
           ub == UpperBound(t.n)
<1>1. u.n = n /\ u.size = t.size /\ u.n_dirty = 0 /\ u.dirty = {}
  BY DEF NewTable
<1>2. Used(u) = {}
  BY NewIsSound, <1>1 DEF Used, Slots
<1>3. Cardinality(Used(u)) = 0
  BY <1>2, FS_EmptySet
<1>4. t.size \in Nat /\ t.n_dirty \in Nat /\ ub \in Nat
  BY BoundedNumbers
<1>5. Cardinality(Occupied(t)) <= t.n_dirty
  <2>1. /\ Cardinality(Used(t)) \in Nat /\ Cardinality(Occupied(t)) \in Nat
        /\ Cardinality(Occupied(t)) <= Cardinality(Used(t))
    BY UsedAreSlots DEF Sound, Typed
  <2> QED BY <2>1, <1>4 DEF Counted
<1>6. Remaining(t, 0) = Occupied(t)
  BY SizesAreNaturals DEF Remaining, Occupied, Sound, Typed, Slots
<1> HIDE DEF u, ub
<1>7. Counted(u)
  BY <1>1, <1>3, <1>4 DEF Counted
<1>8. \A a \in Int : a <= 0 => Batch * a <= 0
  <2>1. Batch * 0 = 0
    BY BatchAssumption
  <2> QED BY <2>1, NoMore
<1>9. /\ t.size - ub \in Int /\ t.size - ub <= 0
      /\ t.n_dirty - ub \in Int /\ t.n_dirty - ub <= 0
  BY <1>4, <1>5 DEF ub
<1>10. /\ Batch * (u.size - ub) <= 0
       /\ Batch * (t.n_dirty - ub) <= 0
  BY <1>1, <1>8, <1>9
<1>11. u.n_dirty + Cardinality(Remaining(t, 0)) - ub = t.size - ub
  BY <1>1, <1>4, <1>6
<1>12. Batch * (u.n_dirty + Cardinality(Remaining(t, 0)) - ub) <= 2 * 0
  BY <1>8, <1>9, <1>11
<1>13. t.n < u.n /\ t.size <= u.size
  BY <1>1, <1>4
<1>14. Bounded(t, u, Remaining(t, 0), 0)
  BY <1>10, <1>12, <1>13 DEF Bounded, ub
<1> QED BY <1>7, <1>14 DEF u

-----------------------------------------------------------------------------
(* The invariant of the counters.                                          *)

\* A put that has begun, and how many slots are copied with those that are done.
Pending == calls # <<>> /\ Head(calls).name = "store"
StoresDone == IF Pending /\ loop = None THEN position - Batch ELSE position

\* The table is not dirtier than the density allows, and less dirty when a node
\* is put without copying; while it is copied, the counters are bounded by the
\* slots that are copied.  Only the call that comes next can have begun.
CountInv ==
    /\ \A t \in Tables : Counted(t)
    /\ h.size = Cardinality(Occupied(h))
    /\ position < h.n
    /\ loop # None => /\ loop.left <= Batch
                      /\ loop.at + loop.left = position + Batch
    /\ Resizing => Bounded(h, s, Remaining(h, FilledTo), StoresDone)
    /\ ~Resizing => /\ h.n_dirty <= UpperBound(h.n)
                    /\ Pending => h.n_dirty < UpperBound(h.n)
    /\ \A c \in DOMAIN calls : c > 1 => calls[c].name # "store"

\* What the steps need of the state.
LEMMA CountFacts ==
    ASSUME IInv, CountInv
    PROVE  /\ Sound(h) /\ Counted(h) /\ h.n \in Nat /\ h.n \in Sizes
           /\ UpperBound(h.n) \in Nat /\ UpperBound(h.n) < h.n
           /\ position \in Nat /\ StoresDone \in Int /\ FilledTo \in Nat
           /\ StoresDone <= position
           /\ Batch \in Nat /\ Batch > 0
           /\ Resizing => Sound(s) /\ Counted(s) /\ s.n \in Sizes
<1>1. Sound(h) /\ Counted(h) /\ h.n \in Nat /\ h.n \in Sizes /\ position \in Nat
  BY TableSizes DEF IInv, CountInv, Tables, Sound, Typed
<1>2. Batch \in Nat /\ Batch > 0
  BY BatchAssumption
<1>3. StoresDone \in Int /\ StoresDone <= position /\ FilledTo \in Nat
  BY <1>1, <1>2 DEF StoresDone, FilledTo, IInv
<1>4. Resizing => Sound(s) /\ Counted(s) /\ s.n \in Sizes
  BY DEF IInv, CountInv, Tables, Sound, Typed
<1> QED BY <1>1, <1>2, <1>3, <1>4, UpperIsBelow

\* The calls that are left when one is done.
LEMMA TailCalls ==
    ASSUME IInv, CountInv, calls # <<>>, calls' = Tail(calls)
    PROVE  /\ ~Pending'
           /\ \A c \in DOMAIN calls' : c > 1 => calls'[c].name # "store"
<1> DEFINE C == [name : CallNames, node : Nodes]
<1>1. calls \in Seq(C)
  BY DEF IInv
<1>2. \A c \in DOMAIN calls : c > 1 => calls[c].name # "store"
  BY DEF CountInv
<1> HIDE DEF C
<1>3. /\ DOMAIN calls = 1..Len(calls) /\ Len(calls) \in Nat
      /\ DOMAIN calls' = 1..(Len(calls) - 1)
      /\ \A c \in DOMAIN calls' : c + 1 \in DOMAIN calls /\ calls'[c] = calls[c + 1]
  BY <1>1
<1>4. \A c \in DOMAIN calls' : calls'[c].name # "store"
  BY <1>2, <1>3
<1>5. calls' # <<>> => 1 \in DOMAIN calls' /\ Head(calls') = calls'[1]
  BY <1>1, <1>3
<1> QED BY <1>4, <1>5 DEF Pending

LEMMA InitCount == Init => CountInv
<1> SUFFICES ASSUME Init PROVE CountInv
  OBVIOUS
<1>1. Primes[1] \in Sizes
  BY PrimesAssumption DEF Sizes
<1>2. /\ h = NewTable(Primes[1], 0) /\ position = 0 /\ calls = <<>> /\ loop = None
  BY DEF Init
<1>3. /\ h.n = Primes[1] /\ h.size = 0 /\ h.n_dirty = 0 /\ h.dirty = {}
      /\ \A i \in Slots(h) : h.node[i] = None
  BY <1>1, <1>2, NewIsSound DEF NewTable, Slots
<1>4. Used(h) = {} /\ Occupied(h) = {}
  BY <1>3 DEF Used, Occupied
<1>5. Counted(h) /\ h.size = Cardinality(Occupied(h))
  BY <1>3, <1>4, FS_EmptySet DEF Counted
<1>6. h.n \in Nat /\ h.n > 1 /\ UpperBound(h.n) \in Nat
  BY <1>1, <1>3, SizesAreNaturals, UpperIsBelow
<1> QED BY <1>2, <1>3, <1>5, <1>6 DEF CountInv, Resizing, Tables, Pending

LEMMA PutGrowsCounts ==
    ASSUME IInv, CountInv, PutGrows
    PROVE  CountInv'
<1>1. /\ calls # <<>> /\ Head(calls).name = "put" /\ loop = None
      /\ Grows \/ position > 0
      /\ Grows => Larger(h.n) # {}
      /\ loop' = [at |-> position, left |-> Batch]
      /\ calls' = <<Call("store", Head(calls).node)>> \o Tail(calls)
      /\ s' = IF Grows THEN NewTable(Least(Larger(h.n)), h.size) ELSE s
      /\ UNCHANGED <<h, position>>
  BY DEF PutGrows, Loops, Calling
<1>2. /\ Sound(h) /\ Counted(h) /\ h.n \in Nat /\ h.n \in Sizes /\ position \in Nat
      /\ Batch \in Nat
  BY CountFacts
<1>3. /\ loop' # None /\ loop'.at = position /\ loop'.left = Batch
      /\ FilledTo' = position /\ StoresDone' = position /\ Resizing'
  <2>1. loop' # None /\ loop'.at = position /\ loop'.left = Batch
    BY <1>1, <1>2, NoneAssumption
  <2> QED BY <2>1, <1>1 DEF FilledTo, StoresDone, Resizing
<1>4. /\ Counted(s')
      /\ Bounded(h, s', Remaining(h, position), position)
  <2>1. CASE Grows
    <3>1. position = 0 /\ ~Resizing
      BY <2>1, <1>1 DEF Grows, Resizing
    <3>2. h.n_dirty <= UpperBound(h.n) /\ h.size = Cardinality(Occupied(h))
      BY <3>1 DEF CountInv
    <3>3. Least(Larger(h.n)) \in Larger(h.n)
      <4>1. Larger(h.n) \in SUBSET Nat
        BY SizesAreNaturals DEF Larger
      <4> QED BY <4>1, <2>1, <1>1, LeastIsLeast
    <3>4. Least(Larger(h.n)) \in Sizes /\ h.n < Least(Larger(h.n))
      BY <3>3, <1>2, SizesAreNaturals DEF Larger
    <3> QED BY <3>1, <3>2, <3>4, <2>1, <1>1, <1>2, NewBounded
  <2>2. CASE ~Grows
    <3>1. s' = s /\ Resizing /\ FilledTo = position /\ StoresDone = position
      BY <2>2, <1>1 DEF Resizing, FilledTo, StoresDone, Pending
    <3> QED BY <3>1 DEF CountInv, Tables
  <2> QED BY <2>1, <2>2
<1>5. \A c \in DOMAIN calls' : c > 1 => calls'[c].name # "store"
  <2> DEFINE C == [name : CallNames, node : Nodes]
             T == Tail(calls)
  <2>1. calls \in Seq(C)
    BY DEF IInv
  <2>2. Call("store", Head(calls).node) \in C
    BY <1>1, HeadCall DEF Call, CallNames
  <2> HIDE DEF C
  <2>3. /\ DOMAIN calls = 1..Len(calls) /\ Len(calls) \in Nat /\ T \in Seq(C)
        /\ Len(T) = Len(calls) - 1
        /\ \A c \in 1..Len(T) : T[c] = calls[c + 1]
    BY <2>1, <1>1
  <2> HIDE DEF T
  <2>4. /\ DOMAIN calls' = 1..Len(calls)
        /\ \A c \in 2..Len(calls) : calls'[c] = T[c - 1]
    BY <2>2, <2>3, <1>1 DEF T
  <2>5. \A c \in 2..Len(calls) : calls'[c] = calls[c]
    BY <2>3, <2>4
  <2> QED BY <2>3, <2>4, <2>5 DEF CountInv
<1>6. \A t \in Tables' : Counted(t)
  BY <1>1, <1>2, <1>4 DEF Tables
<1>7. h' = h /\ position' = position
  BY <1>1
<1>8. (h.size = Cardinality(Occupied(h)) /\ position < h.n)'
  BY <1>7 DEF CountInv, Occupied, Slots
<1>9. (Resizing => Bounded(h, s, Remaining(h, FilledTo), StoresDone))'
  BY <1>3, <1>4, <1>7
<1> QED BY <1>2, <1>3, <1>5, <1>6, <1>7, <1>8, <1>9 DEF CountInv

LEMMA StoreCounts ==
    ASSUME IInv, CountInv, Store
    PROVE  CountInv'
<1> DEFINE node == Head(calls).node
<1>1. /\ loop = None /\ calls # <<>>
      /\ \A t \in Tables : PutEnds(t, node.key)
      /\ h' = Stored(h, node)
      /\ s' = IF position > 0 THEN Stored(s, node) ELSE s
      /\ calls' = Tail(calls)
      /\ UNCHANGED <<position, loop>>
  BY DEF Store, Calling
<1>a. \/ Head(calls).name = "store"
      \/ Head(calls).name = "put" /\ ~Grows /\ position = 0
  BY DEF Store, Calling
<1>2. node \in Nodes
  BY <1>1, HeadCall
<1> HIDE DEF node
<1>3. /\ Sound(h) /\ Counted(h) /\ h.n \in Nat /\ UpperBound(h.n) \in Nat
      /\ position \in Nat /\ Batch \in Nat /\ h \in Tables
      /\ h.size = Cardinality(Occupied(h)) /\ position < h.n
      /\ Takes(h, node.key) # {}
  BY <1>1, CountFacts DEF CountInv, Tables, PutEnds
<1>4. /\ Counted(h') /\ h'.n = h.n
      /\ h'.n_dirty = h.n_dirty \/ h'.n_dirty = h.n_dirty + 1
      /\ h'.size = Cardinality(Occupied(h'))
  <2>1. h'.n = h.n
    BY <1>1 DEF Stored
  <2> QED BY <2>1, <1>1, <1>2, <1>3, StoredCounts
<1>5. /\ ~Pending'
      /\ \A c \in DOMAIN calls' : c > 1 => calls'[c].name # "store"
  BY <1>1, TailCalls
<1>6. StoresDone' = position /\ Resizing' = Resizing /\ FilledTo' = position
  BY <1>1, <1>5 DEF StoresDone, Resizing, FilledTo
<1>7. Resizing' => /\ Counted(s')
                   /\ Bounded(h', s', Remaining(h', position), position)
  <2> SUFFICES ASSUME Resizing'
               PROVE  /\ Counted(s')
                      /\ Bounded(h', s', Remaining(h', position), position)
    OBVIOUS
  <2>1. position > 0 /\ Resizing /\ FilledTo = position
    BY <1>1, <1>6 DEF Resizing, FilledTo
  <2>2. StoresDone = position - Batch
    BY <2>1, <1>1, <1>a, <1>3 DEF StoresDone, Pending
  <2>3. /\ Sound(s) /\ Counted(s) /\ s \in Tables /\ Agree(h, s, position)
        /\ Bounded(h, s, Remaining(h, position), position - Batch)
    BY <2>1, <2>2, CountFacts DEF IInv, CountInv, Tables
  <2>4. Takes(s, node.key) # {} /\ s' = Stored(s, node)
    BY <2>1, <2>3, <1>1 DEF PutEnds
  <2>5. Counted(s')
    BY <2>3, <2>4, <1>2, StoredCounts
  <2>6. position - Batch \in Int /\ (position - Batch) + Batch = position
    BY <1>3
  <2>7. Bounded(h', s', Remaining(h', position), (position - Batch) + Batch)
    BY <2>3, <2>4, <2>6, <1>1, <1>2, <1>3, StoredBounded
  <2> QED BY <2>5, <2>6, <2>7
<1>8. ~Resizing' => h'.n_dirty <= UpperBound(h'.n)
  <2> SUFFICES ASSUME ~Resizing' PROVE h'.n_dirty <= UpperBound(h'.n)
    OBVIOUS
  <2>1. h.n_dirty \in Nat
    BY <1>3 DEF Counted
  <2>2. h.n_dirty < UpperBound(h.n)
    BY <2>1, <1>1, <1>a, <1>3, <1>6 DEF CountInv, Pending, Grows
  <2> QED BY <2>1, <2>2, <1>3, <1>4
<1>9. \A t \in Tables' : Counted(t)
  BY <1>4, <1>7 DEF Tables
<1>10. position' = position /\ loop' = None
  BY <1>1
<1>11. (Resizing => Bounded(h, s, Remaining(h, FilledTo), StoresDone))'
  BY <1>6, <1>7
<1>12. position' < h'.n
  BY <1>3, <1>4, <1>10
<1> QED BY <1>4, <1>5, <1>8, <1>9, <1>10, <1>11, <1>12 DEF CountInv

LEMMA DeleteCounts ==
    ASSUME IInv, CountInv, Delete
    PROVE  CountInv'
<1> DEFINE k == Head(calls).node.key
           x == Find(h, k)
<1>1. /\ loop = None /\ calls # <<>> /\ Head(calls).name = "delete"
      /\ \A t \in Tables : Stops(t, k) # {}
      /\ h' = Freed(h, x) /\ position' = position
      /\ calls' = Tail(calls)
      /\ \/ x # h.n /\ position > 0 /\ s' = Freed(s, Find(s, k))
            /\ loop' = [at |-> position, left |-> Batch]
         \/ (x = h.n \/ ~(position > 0)) /\ s' = s /\ loop' = loop
  BY DEF Delete, Calling, Loops
<1>2. k \in Keys
  BY <1>1, HeadCall
<1> HIDE DEF k, x
<1>3. /\ Sound(h) /\ Counted(h) /\ h.n \in Nat /\ UpperBound(h.n) \in Nat
      /\ position \in Nat /\ Batch \in Nat /\ h \in Tables
      /\ h.size = Cardinality(Occupied(h)) /\ position < h.n
  BY CountFacts DEF CountInv, Tables
<1>4. /\ ~Pending'
      /\ \A c \in DOMAIN calls' : c > 1 => calls'[c].name # "store"
  BY <1>1, TailCalls
<1>5. StoresDone = position /\ StoresDone' = position
  BY <1>1, <1>4 DEF StoresDone, Pending
<1>6. CASE x = h.n
  <2>1. h' = h /\ s' = s /\ loop' = None
    BY <1>1, <1>6 DEF Freed
  <2>2. Resizing' = Resizing /\ FilledTo' = FilledTo
    BY <2>1, <1>1 DEF Resizing, FilledTo
  <2>3. (\A t \in Tables : Counted(t))'
    BY <2>1, <2>2 DEF CountInv, Tables
  <2>4. (h.size = Cardinality(Occupied(h)) /\ position < h.n)'
    BY <2>1, <1>1, <1>3 DEF Occupied, Slots
  <2>5. (Resizing => Bounded(h, s, Remaining(h, FilledTo), StoresDone))'
    BY <2>1, <2>2, <1>5 DEF CountInv
  <2>6. (~Resizing => h.n_dirty <= UpperBound(h.n))'
    BY <2>1, <2>2 DEF CountInv
  <2> QED BY <2>1, <2>3, <2>4, <2>5, <2>6, <1>4 DEF CountInv
<1>7. CASE x # h.n
  <2>1. x \in Slots(h) /\ Holds(h, k, x)
    BY <1>1, <1>2, <1>3, <1>7, FindIsRight DEF x
  <2>2. h'.n = h.n
    BY <2>1, <1>1, <1>3, FreedIsSound
  <2>3. CASE position > 0
    <3>1. s' = Freed(s, Find(s, k)) /\ loop' = [at |-> position, left |-> Batch]
      BY <2>3, <1>1, <1>7
    <3>2. Resizing /\ FilledTo = position
      BY <2>3, <1>1 DEF Resizing, FilledTo
    <3>3. /\ Sound(s) /\ Counted(s) /\ s \in Tables
          /\ Bounded(h, s, Remaining(h, position), position)
      BY <3>2, <1>5, CountFacts DEF CountInv, Tables
    <3>4. /\ Counted(h') /\ Counted(s') /\ h'.size = Cardinality(Occupied(h'))
          /\ Bounded(h', s', Remaining(h', position), position)
      BY <3>1, <3>3, <2>1, <1>1, <1>2, <1>3, FreedBounded
    <3>5. loop' # None /\ loop'.at = position /\ loop'.left = Batch
      BY <3>1, <1>3, NoneAssumption
    <3>6. Resizing' /\ FilledTo' = position
      BY <3>5 DEF Resizing, FilledTo
    <3>7. (\A t \in Tables : Counted(t))'
      BY <3>4 DEF Tables
    <3>8. (Resizing => Bounded(h, s, Remaining(h, FilledTo), StoresDone))'
      BY <3>4, <3>6, <1>5
    <3> QED BY <3>4, <3>5, <3>6, <3>7, <3>8, <2>2, <1>1, <1>3, <1>4 DEF CountInv
  <2>4. CASE ~(position > 0)
    <3>1. loop' = None /\ ~Resizing /\ ~Resizing'
      BY <2>4, <1>1 DEF Resizing
    <3>2. h.node[x] # None
      BY <2>1 DEF Holds
    <3>3. h.size > 0
      <4>1. x \in Occupied(h)
        BY <3>2, <2>1 DEF Occupied
      <4>2. IsFiniteSet(Occupied(h)) /\ Cardinality(Occupied(h)) \in Nat
        BY <1>3, UsedAreSlots DEF Sound, Typed
      <4>3. Cardinality(Occupied(h)) # 0
        BY <4>1, <4>2, FS_EmptySet
      <4> QED BY <4>2, <4>3, <1>3
    <3>4. /\ Counted(h') /\ h'.n_dirty <= h.n_dirty
          /\ h'.size = Cardinality(Occupied(h'))
      BY <3>2, <3>3, <2>1, <1>1, <1>3, FreedCounts
    <3>5. h'.n_dirty <= UpperBound(h'.n)
      <4>1. h.n_dirty <= UpperBound(h.n) /\ h.n_dirty \in Nat /\ h'.n_dirty \in Nat
        BY <3>1, <3>4, <1>3 DEF CountInv, Counted
      <4> QED BY <4>1, <3>4, <2>2, <1>3
    <3>6. (\A t \in Tables : Counted(t))'
      BY <3>1, <3>4 DEF Tables
    <3> QED BY <3>1, <3>4, <3>5, <3>6, <2>2, <1>1, <1>3, <1>4 DEF CountInv
  <2> QED BY <2>3, <2>4
<1> QED BY <1>6, <1>7

LEMMA CopySlotCounts ==
    ASSUME IInv, CountInv, CopySlot
    PROVE  CountInv'
<1>1. /\ loop # None /\ loop.at < h.n /\ loop.left > 0
      /\ h.node[loop.at] # None => PutEnds(s, h.node[loop.at].key)
      /\ s' = IF h.node[loop.at] = None THEN s ELSE Copied(s, h.node[loop.at])
      /\ loop' = [at |-> loop.at + 1, left |-> loop.left - 1]
      /\ UNCHANGED <<h, position, calls>>
  BY DEF CopySlot
<1>2. /\ loop.at \in Nat /\ loop.left \in Nat /\ loop.at \in Slots(h)
      /\ h.n \in Nat /\ Sound(h) /\ Counted(h) /\ Sound(s) /\ Counted(s)
      /\ position \in Nat /\ Batch \in Nat
      /\ loop.left <= Batch /\ loop.at + loop.left = position + Batch
  BY <1>1, TableSizes, CountFacts DEF IInv, CountInv, Resizing
<1>3. /\ loop' # None /\ loop'.at = loop.at + 1 /\ loop'.left = loop.left - 1
  BY <1>1, <1>2, NoneAssumption
<1>4. /\ StoresDone = position /\ StoresDone' = position
      /\ FilledTo = loop.at /\ FilledTo' = loop.at + 1
      /\ Resizing /\ Resizing'
  BY <1>1, <1>3 DEF StoresDone, FilledTo, Resizing
<1>5. Bounded(h, s, Remaining(h, loop.at), position)
  BY <1>4 DEF CountInv
<1>6. Counted(s') /\ Bounded(h, s', Remaining(h, loop.at + 1), position)
  <2>1. CASE h.node[loop.at] = None
    <3>1. Remaining(h, loop.at + 1) = Remaining(h, loop.at)
      BY <2>1, <1>2, TableSizes DEF Remaining
    <3> QED BY <3>1, <2>1, <1>1, <1>2, <1>5
  <2>2. CASE h.node[loop.at] # None
    <3>1. s' = Copied(s, h.node[loop.at])
      BY <2>2, <1>1
    <3>2. h.node[loop.at] \in Nodes /\ Takes(s, h.node[loop.at].key) # {}
      BY <2>2, <1>1, <1>2, TableSizes DEF PutEnds
    <3>3. Counted(s')
      BY <3>1, <3>2, <1>2, CopiedCounts
    <3>4. Bounded(h, s', Remaining(h, loop.at + 1), position)
      BY <3>1, <3>2, <2>2, <1>2, <1>5, CopiedBounded
    <3> QED BY <3>3, <3>4
  <2> QED BY <2>1, <2>2
<1>7. h' = h /\ position' = position /\ calls' = calls
  BY <1>1
<1>8. (\A t \in Tables : Counted(t))'
  BY <1>2, <1>6, <1>7 DEF Tables
<1>9. (Resizing => Bounded(h, s, Remaining(h, FilledTo), StoresDone))'
  BY <1>4, <1>6, <1>7
<1>10. (h.size = Cardinality(Occupied(h)) /\ position < h.n)'
  BY <1>7 DEF CountInv, Occupied, Slots
<1>11. loop'.left <= Batch /\ loop'.at + loop'.left = position' + Batch
  BY <1>2, <1>3, <1>7
<1>12. (\A c \in DOMAIN calls : c > 1 => calls[c].name # "store")'
  BY <1>7 DEF CountInv
<1> QED BY <1>4, <1>8, <1>9, <1>10, <1>11, <1>12 DEF CountInv

LEMMA PauseCounts ==
    ASSUME IInv, CountInv, Pause
    PROVE  CountInv'
<1>1. /\ loop # None /\ loop.at < h.n /\ loop.left = 0
      /\ position' = loop.at /\ loop' = None
      /\ UNCHANGED <<h, s, calls>>
  BY DEF Pause
<1>2. /\ loop.at \in Nat /\ h.n \in Nat /\ Sound(h) /\ Counted(h)
      /\ Sound(s) /\ Counted(s) /\ position \in Nat /\ Batch \in Nat /\ Batch > 0
      /\ loop.at + loop.left = position + Batch
  BY <1>1, CountFacts DEF IInv, CountInv, Resizing
<1>3. loop.at = position + Batch
  BY <1>1, <1>2
<1>4. /\ StoresDone = position /\ FilledTo = loop.at /\ FilledTo' = loop.at
      /\ StoresDone' = position \/ StoresDone' = position + Batch
      /\ Resizing /\ Resizing'
  BY <1>1, <1>2, <1>3 DEF StoresDone, FilledTo, Resizing
<1>5. Bounded(h, s, Remaining(h, loop.at), position)
  BY <1>4 DEF CountInv
<1>6. Bounded(h, s, Remaining(h, loop.at), StoresDone')
  <2>1. StoresDone' \in Int /\ position <= StoresDone'
    BY <1>2, <1>4
  <2> QED BY <2>1, <1>2, <1>5, BoundedLater
<1>7. h' = h /\ s' = s /\ calls' = calls
  BY <1>1
<1>8. (\A t \in Tables : Counted(t))'
  BY <1>2, <1>7 DEF Tables
<1>9. (Resizing => Bounded(h, s, Remaining(h, FilledTo), StoresDone))'
  BY <1>4, <1>6, <1>7
<1>10. (h.size = Cardinality(Occupied(h)) /\ position < h.n)'
  BY <1>1, <1>7 DEF CountInv, Occupied, Slots
<1>11. (\A c \in DOMAIN calls : c > 1 => calls[c].name # "store")'
  BY <1>7 DEF CountInv
<1> QED BY <1>1, <1>4, <1>8, <1>9, <1>10, <1>11 DEF CountInv

LEMMA SwapCounts ==
    ASSUME IInv, CountInv, Swap
    PROVE  CountInv' /\ h'.n > h.n
<1>1. /\ loop # None /\ loop.at = h.n
      /\ h' = [s EXCEPT !.size = h.size]
      /\ position' = 0 /\ loop' = None
      /\ calls' = calls
  BY DEF Swap
<1>2. /\ Sound(h) /\ Counted(h) /\ h.n \in Nat /\ h.n \in Sizes
      /\ Sound(s) /\ Counted(s) /\ s.n \in Sizes /\ position \in Nat
      /\ position < h.n /\ h.size = Cardinality(Occupied(h))
      /\ Agree(h, s, h.n) /\ UpperBound(h.n) \in Nat
  BY <1>1, CountFacts DEF IInv, CountInv, Resizing, FilledTo
<1>3. Bounded(h, s, Remaining(h, h.n), position)
  BY <1>1 DEF CountInv, Resizing, FilledTo, StoresDone
<1>4. Sound(h') /\ h'.node = s.node /\ Slots(h') = Slots(s)
  BY <1>1, <1>2, SizedIsSound
<1>5. /\ h'.n = s.n /\ h'.dirty = s.dirty /\ h'.size = h.size
      /\ h'.n_dirty = s.n_dirty
  <2>1. s = [n |-> s.n, node |-> s.node, dirty |-> s.dirty,
             size |-> s.size, n_dirty |-> s.n_dirty]
    BY <1>2 DEF Sound, Typed
  <2> QED BY <2>1, <1>1
<1>6. Used(h') = Used(s) /\ Occupied(h') = Occupied(s)
  BY <1>4, <1>5 DEF Used, Occupied
<1>7. h'.size = Cardinality(Occupied(h'))
  BY <1>2, <1>5, <1>6, SameNodesSameSize
<1>8. Counted(h')
  BY <1>2, <1>4, <1>5, <1>6 DEF Counted
<1>9. h'.n_dirty < UpperBound(h'.n)
  <2>1. /\ h.n < s.n
        /\ Batch * (s.n_dirty + Cardinality(Remaining(h, h.n)) - UpperBound(h.n))
                <= 2 * position
    BY <1>3 DEF Bounded
  <2>2. Remaining(h, h.n) = {}
    BY <1>2 DEF Remaining, Slots
  <2>3. Cardinality(Remaining(h, h.n)) = 0 /\ s.n_dirty \in Nat
    BY <2>2, <1>2, FS_EmptySet DEF Counted
  <2>4. s.n_dirty + Cardinality(Remaining(h, h.n)) - UpperBound(h.n)
            = s.n_dirty - UpperBound(h.n)
    BY <2>3, <1>2
  <2>5. Batch * (s.n_dirty - UpperBound(h.n)) <= 2 * position
    BY <2>1, <2>4
  <2>6. s.n_dirty < UpperBound(s.n)
    BY <2>1, <2>3, <2>5, <1>2, ShadowHasRoom
  <2> QED BY <2>6, <1>5
<1>10. h'.n \in Nat /\ h'.n > 1 /\ UpperBound(h'.n) \in Nat /\ h'.n_dirty \in Nat
  BY <1>2, <1>5, SizesAreNaturals, UpperIsBelow DEF Counted
<1>11. h'.n > h.n
  BY <1>3, <1>5 DEF Bounded
<1>12. ~Resizing'
  BY <1>1 DEF Resizing
<1>13. (\A t \in Tables : Counted(t))'
  BY <1>8, <1>12 DEF Tables
<1>14. (\A c \in DOMAIN calls : c > 1 => calls[c].name # "store")'
  BY <1>1 DEF CountInv
<1> QED BY <1>1, <1>7, <1>9, <1>10, <1>11, <1>12, <1>13, <1>14 DEF CountInv

\* The table is left as it is, and no put has begun before or after.
LEMMA IdleCounts ==
    ASSUME IInv, CountInv, UNCHANGED <<h, s, position, loop>>,
           ~Pending \/ calls' = calls, ~Pending' \/ calls' = calls,
           \A c \in DOMAIN calls' : c > 1 => calls'[c].name # "store"
    PROVE  CountInv'
<1>1. h' = h /\ s' = s /\ position' = position /\ loop' = loop /\ Pending' = Pending
  BY DEF Pending
<1>2. Resizing' = Resizing /\ FilledTo' = FilledTo /\ StoresDone' = StoresDone
  BY <1>1 DEF Resizing, FilledTo, StoresDone
<1>3. (\A t \in Tables : Counted(t))'
  BY <1>1, <1>2 DEF CountInv, Tables
<1>4. (h.size = Cardinality(Occupied(h)) /\ position < h.n)'
  BY <1>1 DEF CountInv, Occupied, Slots
<1>5. (Resizing => Bounded(h, s, Remaining(h, FilledTo), StoresDone))'
  BY <1>1, <1>2 DEF CountInv
<1>6. (~Resizing => h.n_dirty <= UpperBound(h.n)
                    /\ (Pending => h.n_dirty < UpperBound(h.n)))'
  BY <1>1, <1>2 DEF CountInv
<1>7. (loop # None => loop.left <= Batch
                      /\ loop.at + loop.left = position + Batch)'
  BY <1>1 DEF CountInv
<1> QED BY <1>3, <1>4, <1>5, <1>6, <1>7 DEF CountInv

\* The calls of a row are not puts that have begun.
LEMMA RowCallsCount ==
    ASSUME NEW a, NEW b, a # "store", b # "store", NEW m, NEW n,
           calls' = <<>> \/ calls' = <<Call(a, m), Call(b, n)>>
    PROVE  /\ ~Pending'
           /\ \A c \in DOMAIN calls' : c > 1 => calls'[c].name # "store"
<1>1. CASE calls' = <<>>
  BY <1>1 DEF Pending
<1>2. CASE calls' = <<Call(a, m), Call(b, n)>>
  <2>1. Call(a, m).name = a /\ Call(b, n).name = b
    BY DEF Call
  <2>2. DOMAIN calls' = {1, 2} /\ calls'[1].name = a /\ calls'[2].name = b
        /\ Head(calls') = calls'[1]
    BY <2>1, <1>2
  <2> QED BY <2>2 DEF Pending
<1> QED BY <1>1, <1>2

LEMMA CountStep ==
    ASSUME IInv, CountInv, [Next]_vars
    PROVE  CountInv'
<1>1. CASE PutGrows
  BY <1>1, PutGrowsCounts
<1>2. CASE Store
  BY <1>2, StoreCounts
<1>3. CASE Delete
  BY <1>3, DeleteCounts
<1>4. CASE CopySlot
  BY <1>4, CopySlotCounts
<1>5. CASE Pause
  BY <1>5, PauseCounts
<1>6. CASE Swap
  BY <1>6, SwapCounts
<1>7. ASSUME NEW r \in Rows, AddRow(r) PROVE CountInv'
  <2>1. /\ calls = <<>>
        /\ calls' = <<Call("put", ByName(r)), Call("put", ByNumber(r))>>
        /\ UNCHANGED <<h, s, position, loop>>
    BY <1>7 DEF AddRow, Free, Idle
  <2>2. ~Pending
    BY <2>1 DEF Pending
  <2>3. /\ ~Pending'
        /\ \A c \in DOMAIN calls' : c > 1 => calls'[c].name # "store"
    BY <2>1, RowCallsCount
  <2> QED BY <2>1, <2>2, <2>3, IdleCounts
<1>8. ASSUME NEW k \in Keys, Look(k) PROVE CountInv'
  <2>1. calls' = calls /\ UNCHANGED <<h, s, position, loop>>
    BY <1>8 DEF Look
  <2> QED BY <2>1, IdleCounts DEF CountInv
<1>9. ASSUME NEW from, NEW n, Idle, Visit(from, n) PROVE CountInv'
  <2>1. /\ calls = <<>>
        /\ UNCHANGED <<h, s, position, loop>>
        /\ \/ calls' = <<>>
           \/ \E r : calls' = <<Call("delete", ByNumber(r)),
                                Call("delete", ByName(r))>>
    BY <1>9 DEF Visit, Idle
  <2>2. ~Pending
    BY <2>1 DEF Pending
  <2>3. PICK r : \/ calls' = <<>>
                 \/ calls' = <<Call("delete", ByNumber(r)), Call("delete", ByName(r))>>
    BY <2>1
  <2>4. \A a, b : calls' = <<>> \/ calls' = <<Call("delete", a), Call("delete", b)>> =>
            /\ ~Pending'
            /\ \A c \in DOMAIN calls' : c > 1 => calls'[c].name # "store"
    BY RowCallsCount
  <2>5. /\ ~Pending'
        /\ \A c \in DOMAIN calls' : c > 1 => calls'[c].name # "store"
    BY <2>3, <2>4
  <2> QED BY <2>1, <2>2, <2>5, IdleCounts
<1>10. CASE UNCHANGED vars
  <2>1. calls' = calls /\ UNCHANGED <<h, s, position, loop>>
    BY <1>10 DEF vars
  <2> QED BY <2>1, IdleCounts DEF CountInv
<1>11. CASE Flush
  BY <1>9, <1>11 DEF Flush, Free
<1> QED BY <1>1, <1>2, <1>3, <1>4, <1>5, <1>6, <1>7, <1>8, <1>10, <1>11 DEF Next

-----------------------------------------------------------------------------
(* What the counters are for.                                              *)

\* Of the table, of its shadow and of both: fewer slots count as dirty than there
\* are, and in the shadow fewer than would make it grow.
LEMMA RoomOfTable ==
    ASSUME IInv, CountInv
    PROVE  h.n_dirty < h.n
<1>1. /\ h.n \in Sizes /\ h.n \in Nat /\ h.n_dirty \in Nat /\ UpperBound(h.n) \in Nat
      /\ UpperBound(h.n) < h.n /\ position \in Nat /\ position < h.n
      /\ StoresDone \in Int /\ StoresDone <= position
  BY CountFacts DEF CountInv, Counted
<1>2. CASE Resizing
  <2>1. Batch * (h.n_dirty - UpperBound(h.n)) <= StoresDone
    BY <1>2 DEF CountInv, Bounded
  <2>2. Batch * (h.n_dirty - UpperBound(h.n)) <= position
    BY <2>1, <1>1, NoMore
  <2> QED BY <2>2, <1>1, TableHasRoom
<1>3. CASE ~Resizing
  BY <1>1, <1>3 DEF CountInv
<1> QED BY <1>2, <1>3

LEMMA RoomOfShadow ==
    ASSUME IInv, CountInv, Resizing
    PROVE  /\ s.n_dirty < UpperBound(s.n) /\ s.size < UpperBound(s.n)
           /\ UpperBound(s.n) < s.n
<1>1. /\ h.n \in Sizes /\ s.n \in Sizes /\ UpperBound(h.n) \in Nat
      /\ position \in Nat /\ position < h.n /\ s.size \in Nat /\ s.n_dirty \in Nat
      /\ StoresDone \in Int /\ StoresDone <= position
      /\ Cardinality(Remaining(h, FilledTo)) \in Nat
  BY CountFacts, BoundedNumbers DEF CountInv, Counted
<1>2. /\ h.n < s.n
      /\ Batch * (s.size - UpperBound(h.n)) <= StoresDone
      /\ Batch * (s.n_dirty + Cardinality(Remaining(h, FilledTo)) - UpperBound(h.n))
            <= 2 * StoresDone
  BY DEF CountInv, Bounded
<1>3. /\ 2 * StoresDone <= 2 * position /\ 2 * StoresDone \in Int
      /\ StoresDone <= 2 * position
  BY <1>1
<1>4. Batch * (s.size - UpperBound(h.n)) <= 2 * position
  BY <1>1, <1>2, <1>3, NoMore
<1>5. Batch * (s.n_dirty - UpperBound(h.n)) <= 2 * position
  <2>1. /\ s.n_dirty - UpperBound(h.n) <=
                s.n_dirty + Cardinality(Remaining(h, FilledTo)) - UpperBound(h.n)
        /\ s.n_dirty - UpperBound(h.n) \in Int
        /\ s.n_dirty + Cardinality(Remaining(h, FilledTo)) - UpperBound(h.n) \in Int
    BY <1>1
  <2> QED BY <2>1, <1>1, <1>2, <1>3, NoMore
<1>6. s.size < UpperBound(s.n) /\ s.n_dirty < UpperBound(s.n)
  BY <1>1, <1>2, <1>4, <1>5, ShadowHasRoom
<1> QED BY <1>1, <1>6, UpperIsBelow

LEMMA CountsEnd ==
    ASSUME IInv, CountInv
    PROVE  ChainsEnd
<1>1. h.n_dirty < h.n
  BY RoomOfTable
<1>2. Resizing => s.n_dirty < s.n
  <2> SUFFICES ASSUME Resizing PROVE s.n_dirty < s.n
    OBVIOUS
  <2>1. s.n_dirty \in Nat /\ s.n \in Nat /\ UpperBound(s.n) \in Nat
    BY CountFacts, SizesAreNaturals, UpperIsBelow DEF Counted
  <2>2. s.n_dirty < UpperBound(s.n) /\ UpperBound(s.n) < s.n
    BY RoomOfShadow
  <2> QED BY <2>1, <2>2
<1>3. h.size = Cardinality({i \in Slots(h) : h.node[i] # None})
  BY DEF CountInv, Occupied
<1>4. \A t \in Tables : Cardinality(Used(t)) <= t.n_dirty
  BY DEF CountInv, Counted
<1> QED BY <1>1, <1>2, <1>3, <1>4 DEF ChainsEnd, Tables

LEMMA CountsLeaveRoom ==
    ASSUME IInv, CountInv
    PROVE  Room
<1>1. h.size < h.n
  <2>1. /\ Sound(h) /\ Counted(h) /\ h.n \in Nat /\ h.n \in Sizes
        /\ h.size = Cardinality(Occupied(h))
    BY CountFacts DEF CountInv
  <2>2. /\ Cardinality(Used(h)) \in Nat /\ Cardinality(Occupied(h)) \in Nat
        /\ Cardinality(Occupied(h)) <= Cardinality(Used(h))
    BY <2>1, UsedAreSlots
  <2> QED BY <2>1, <2>2, RoomOfTable DEF Counted
<1>2. position > 0 => s.size < s.n /\ s.n_dirty < UpperBound(s.n)
  <2> SUFFICES ASSUME position > 0 PROVE s.size < s.n /\ s.n_dirty < UpperBound(s.n)
    OBVIOUS
  <2>1. Resizing
    BY DEF Resizing
  <2>2. s.size \in Nat /\ s.n \in Nat /\ UpperBound(s.n) \in Nat
    BY <2>1, CountFacts, SizesAreNaturals, UpperIsBelow DEF Counted
  <2> QED BY <2>1, <2>2, RoomOfShadow
<1> QED BY <1>1, <1>2 DEF Room

\* Every search of every key ends in every table, at a free slot that is not
\* dirty if not before: the loops of mh_find and put_slot return.
SearchesEnd ==
    \A t \in Tables, k \in Keys : Stops(t, k) # {} /\ PutEnds(t, k)

LEMMA CountsEndSearches ==
    ASSUME IInv, CountInv
    PROVE  SearchesEnd
<1> SUFFICES ASSUME NEW t \in Tables, NEW k \in Keys
             PROVE  Stops(t, k) # {} /\ PutEnds(t, k)
  BY DEF SearchesEnd
<1>1. Sound(t) /\ Counted(t) /\ t.n \in Sizes /\ t.n \in Nat
  BY SizesAreNaturals DEF Tables, IInv, CountInv, Sound, Typed
<1>2. Cardinality(Used(t)) <= t.n_dirty /\ t.n_dirty < t.n
  BY CountsEnd DEF ChainsEnd
<1>3. Used(t) \subseteq Slots(t) /\ Cardinality(Used(t)) \in Nat /\ t.n_dirty \in Nat
  BY <1>1, UsedAreSlots DEF Counted
<1>4. PICK i \in Slots(t) : i \notin Used(t)
  BY <1>1, <1>2, <1>3, SlotsAreFinite
<1>5. t.node[i] = None /\ i \notin t.dirty
  BY <1>4 DEF Used
<1>6. PICK j \in Slots(t) : Probe(t.n, k, j) = i
  BY <1>1, <1>4, ProbesAreSlots DEF Slots
<1>7. Stops(t, k) # {}
  BY <1>5, <1>6 DEF Stops
<1>8. Takes(t, k) # {}
  BY <1>5, <1>6 DEF Takes
<1>9. i \notin Passed(t, k)
  BY <1>1, <1>5, <1>8, PassedAreOccupied
<1> QED BY <1>5, <1>7, <1>8, <1>9 DEF PutEnds

-----------------------------------------------------------------------------
(* The flush.                                                              *)

\* A flush only deletes.  As long as the table is the one it started in, nothing
\* is left before the slot it is at, and what is in that slot will be deleted.
FlushInv ==
    iter # None =>
        /\ iter \in [at : Nat, of : Sizes] /\ iter.of <= h.n
        /\ \A c \in DOMAIN calls : calls[c].name = "delete"
        /\ iter.of = h.n =>
            \A i \in Slots(h) : i <= iter.at /\ h.node[i] # None =>
                /\ i = iter.at
                /\ \E c \in DOMAIN calls : calls[c].node.key = h.node[i].key

\* Calls are numbered from 1.
LEMMA FirstCall ==
    ASSUME IInv, calls # <<>>
    PROVE  /\ 1 \in DOMAIN calls /\ Head(calls) = calls[1]
           /\ DOMAIN Tail(calls) \subseteq Nat
           /\ \A c \in DOMAIN Tail(calls) :
                c + 1 \in DOMAIN calls /\ Tail(calls)[c] = calls[c + 1]
           /\ \A c \in DOMAIN calls :
                c # 1 => /\ c - 1 \in DOMAIN Tail(calls)
                         /\ Tail(calls)[c - 1] = calls[c]
<1> DEFINE C == [name : CallNames, node : Nodes]
<1>1. calls \in Seq(C)
  BY DEF IInv
<1> HIDE DEF C
<1>2. /\ DOMAIN calls = 1..Len(calls) /\ Len(calls) \in Nat /\ Len(calls) > 0
      /\ DOMAIN Tail(calls) = 1..(Len(calls) - 1)
      /\ \A c \in 1..(Len(calls) - 1) : Tail(calls)[c] = calls[c + 1]
      /\ Head(calls) = calls[1]
  BY <1>1
<1> HIDE DEF C
<1> QED BY <1>2

\* A flush puts nothing.
LEMMA PutsOutsideFlush ==
    ASSUME IInv, FlushInv, iter # None, calls # <<>>
    PROVE  Head(calls).name = "delete"
BY FirstCall DEF FlushInv

LEMMA DeleteFlush ==
    ASSUME IInv, FlushInv, Delete
    PROVE  FlushInv'
<1> DEFINE k == Head(calls).node.key
           x == Find(h, k)
<1>1. /\ calls # <<>> /\ Stops(h, k) # {}
      /\ h' = Freed(h, x) /\ calls' = Tail(calls) /\ iter' = iter
  BY DEF Delete, Calling, Loops, Tables
<1>2. k \in Keys /\ Sound(h) /\ k = calls[1].node.key
  BY <1>1, HeadCall, FirstCall DEF IInv
<1> HIDE DEF k, x
<1>3. \/ x = h.n /\ \A i \in Slots(h) : ~Holds(h, k, i)
      \/ x \in Slots(h) /\ Holds(h, k, x)
  BY <1>1, <1>2, FindIsRight DEF x
\* What is left in the table was in it, under another key.
<1>4. /\ h'.n = h.n /\ Slots(h') = Slots(h)
      /\ \A i \in Slots(h) : h'.node[i] # None =>
            h'.node[i] = h.node[i] /\ h.node[i].key # k
  <2>1. CASE x = h.n /\ \A i \in Slots(h) : ~Holds(h, k, i)
    <3>1. h' = h
      BY <2>1, <1>1 DEF Freed
    <3> QED BY <3>1, <2>1 DEF Holds
  <2>2. CASE x \in Slots(h) /\ Holds(h, k, x)
    <3>1. /\ h'.n = h.n /\ Slots(h') = Slots(h) /\ h'.node[x] = None
          /\ \A p \in Slots(h) : p # x => h'.node[p] = h.node[p]
      BY <2>2, <1>1, <1>2, FreedIsSound
    <3>2. \A p \in Slots(h) : p # x /\ h.node[p] # None => h.node[p].key # k
      BY <2>2, <1>2 DEF Sound, Once, Holds
    <3> QED BY <3>1, <3>2
  <2> QED BY <2>1, <2>2, <1>3
<1> SUFFICES ASSUME iter # None PROVE FlushInv'
  BY <1>1 DEF FlushInv
<1>5. \A c \in DOMAIN calls' : calls'[c].name = "delete"
  BY <1>1, FirstCall DEF FlushInv
<1>6. ASSUME iter.of = h.n, NEW i \in Slots(h), i <= iter.at, h'.node[i] # None
      PROVE  /\ i = iter.at
             /\ \E c \in DOMAIN calls' : calls'[c].node.key = h'.node[i].key
  <2>1. h.node[i] # None /\ h'.node[i] = h.node[i] /\ h.node[i].key # k
    BY <1>4, <1>6
  <2>2. PICK c \in DOMAIN calls : calls[c].node.key = h.node[i].key
    BY <2>1, <1>6 DEF FlushInv
  <2>3. c # 1
    BY <2>1, <2>2, <1>2
  <2>4. c - 1 \in DOMAIN calls' /\ calls'[c - 1] = calls[c]
    BY <2>3, <1>1, FirstCall
  <2>5. i = iter.at
    BY <2>1, <1>6 DEF FlushInv
  <2> QED BY <2>1, <2>2, <2>4, <2>5
<1> QED BY <1>1, <1>4, <1>5, <1>6 DEF FlushInv

\* The first node from a slot on is visited, when nothing is left before it.
LEMMA VisitFlush ==
    ASSUME IInv, NEW from \in Nat, NEW n \in Sizes, n <= h.n, Visit(from, n),
           n = h.n => \A i \in Slots(h) : i < from => h.node[i] = None
    PROVE  /\ FlushInv'
           /\ n = h.n /\ iter' = None => \A i \in Slots(h) : h.node[i] = None
<1> DEFINE nodes == {i \in Slots(h) : i >= from /\ h.node[i] # None}
           a == Least(nodes)
           r == h.node[a].row
<1>1. /\ iter' = IF nodes = {} THEN None ELSE [at |-> a, of |-> n]
      /\ calls' = IF nodes = {} THEN <<>>
                  ELSE <<Call("delete", ByNumber(r)), Call("delete", ByName(r))>>
      /\ h' = h
  BY DEF Visit
<1>2. Slots(h) \subseteq Nat /\ \A i \in Slots(h) : h.node[i] # None => h.node[i] \in Nodes
  BY TableSizes
<1>3. nodes # {} => a \in nodes /\ \A i \in nodes : a <= i
  <2>1. nodes \in SUBSET Nat
    BY <1>2
  <2> QED BY <2>1, LeastIsLeast
<1>4. nodes = {} => \A i \in Slots(h) : i >= from => h.node[i] = None
  OBVIOUS
<1>5. nodes # {} => a \in Slots(h) /\ a >= from /\ h.node[a] # None
  BY <1>3
<1>6. nodes # {} =>
        \A i \in Slots(h) : i >= from /\ h.node[i] # None => a <= i
  BY <1>3
<1> HIDE DEF nodes, a
<1>7. CASE nodes = {}
  <2>1. iter' = None
    BY <1>1, <1>7
  <2>2. n = h.n => \A i \in Slots(h) : h.node[i] = None
    BY <1>2, <1>4, <1>7
  <2> QED BY <2>1, <2>2 DEF FlushInv
<1>8. CASE nodes # {}
  <2>1. /\ iter' = [at |-> a, of |-> n]
        /\ calls' = <<Call("delete", ByNumber(r)), Call("delete", ByName(r))>>
        /\ a \in Slots(h) /\ a \in Nat /\ h.node[a] \in Nodes
    BY <1>1, <1>2, <1>5, <1>8
  <2>2. /\ iter' # None /\ iter' \in [at : Nat, of : Sizes]
        /\ iter'.at = a /\ iter'.of = n
    <3>1. iter' \in [at : Nat, of : Sizes] /\ iter' \in [at : Nat, of : Nat]
      BY <2>1, SizesAreNaturals
    <3> QED BY <3>1, <2>1, NoneAssumption
  <2>3. /\ DOMAIN calls' = {1, 2}
        /\ calls'[1].name = "delete" /\ calls'[2].name = "delete"
        /\ calls'[1].node.key = r.number /\ calls'[2].node.key = r.name
    <3>1. /\ Call("delete", ByNumber(r)).name = "delete"
          /\ Call("delete", ByNumber(r)).node.key = r.number
          /\ Call("delete", ByName(r)).name = "delete"
          /\ Call("delete", ByName(r)).node.key = r.name
      BY DEF Call, ByNumber, ByName
    <3> HIDE DEF r
    <3> QED BY <3>1, <2>1
  <2>4. h.node[a].key = r.number \/ h.node[a].key = r.name
    BY <2>1 DEF Nodes
  <2>5. ASSUME n = h.n, NEW i \in Slots(h), i <= a, h.node[i] # None
        PROVE  i = a /\ \E c \in DOMAIN calls' : calls'[c].node.key = h.node[i].key
    <3>1. i >= from
      BY <2>5, <1>2
    <3>2. i = a
      BY <3>1, <2>1, <2>5, <1>2, <1>6, <1>8
    <3> QED BY <3>2, <2>3, <2>4
  <2> QED BY <2>2, <2>3, <2>5, <1>1 DEF FlushInv
<1> QED BY <1>7, <1>8

\* A step of the flush, and what it leaves when it ends.
LEMMA FlushStep ==
    ASSUME IInv, FlushInv, Flush
    PROVE  /\ FlushInv'
           /\ iter # None /\ iter' = None /\ iter.of = h.n =>
                \A i \in Slots(h) : h.node[i] = None
<1>1. h.n \in Sizes /\ h.n \in Nat /\ Slots(h) \subseteq Nat
  BY TableSizes DEF IInv, Sound, Typed
<1>2. CASE Free /\ Visit(0, h.n)
  <2>1. iter = None /\ Visit(0, h.n)
    BY <1>2 DEF Free
  <2>2. \A i \in Slots(h) : i < 0 => h.node[i] = None
    BY <1>1
  <2> QED BY <2>1, <2>2, <1>1, VisitFlush
<1>3. CASE Idle /\ iter # None /\ Visit(iter.at + 1, iter.of)
  <2>1. /\ iter \in [at : Nat, of : Sizes] /\ iter.of <= h.n /\ calls = <<>>
        /\ Visit(iter.at + 1, iter.of)
    BY <1>3 DEF FlushInv, Idle
  <2>2. iter.at + 1 \in Nat /\ iter.of \in Sizes /\ DOMAIN calls = {}
    BY <2>1
  <2>3. iter.of = h.n =>
            \A i \in Slots(h) : i <= iter.at => h.node[i] = None
    BY <2>2, <1>3 DEF FlushInv
  <2>4. iter.of = h.n =>
            \A i \in Slots(h) : i < iter.at + 1 => h.node[i] = None
    BY <2>1, <2>3, <1>1
  <2>5. /\ FlushInv'
        /\ iter.of = h.n /\ iter' = None => \A i \in Slots(h) : h.node[i] = None
    BY <2>1, <2>2, <2>4, VisitFlush
  <2> QED BY <2>5
<1> QED BY <1>2, <1>3 DEF Flush

\* The other steps leave the iteration alone; one that swaps the tables ends what
\* is claimed of it.
LEMMA EveryFlushStep ==
    ASSUME IInv, CountInv, FlushInv, [Next]_vars
    PROVE  /\ FlushInv'
           /\ iter # None /\ iter' = None /\ iter.of = h.n =>
                \A i \in Slots(h') : h'.node[i] = None
<1>1. CASE PutGrows
  BY <1>1, PutsOutsideFlush DEF PutGrows, Calling, FlushInv
<1>2. CASE Store
  BY <1>2, PutsOutsideFlush DEF Store, Calling, FlushInv
<1>3. CASE Delete
  BY <1>3, DeleteFlush DEF Delete
<1>4. CASE CopySlot
  BY <1>4 DEF CopySlot, FlushInv
<1>5. CASE Pause
  BY <1>5 DEF Pause, FlushInv
<1>6. CASE Swap
  <2>1. h'.n > h.n /\ h.n \in Nat /\ iter' = iter /\ calls' = calls /\ h'.n \in Nat
    <3>1. h'.n > h.n /\ h.n \in Nat /\ iter' = iter /\ calls' = calls
      BY <1>6, SwapCounts, TableSizes DEF Swap
    <3>2. h'.n \in Nat
      BY <1>6, SwapStep, SizesAreNaturals DEF IInv, Sound, Typed
    <3> QED BY <3>1, <3>2
  <2>2. iter # None => iter.of \in Nat /\ iter.of <= h.n
    BY SizesAreNaturals DEF FlushInv
  <2>3. iter # None => iter'.of <= h'.n /\ iter'.of # h'.n
    BY <2>1, <2>2
  <2> QED BY <2>1, <2>3 DEF FlushInv
<1>7. ASSUME NEW r \in Rows, AddRow(r)
      PROVE  iter = None /\ iter' = None
  BY <1>7 DEF AddRow, Free
<1>8. ASSUME NEW k \in Keys, Look(k)
      PROVE  iter = None /\ iter' = None
  BY <1>8 DEF Look, Free
<1>9. CASE Flush
  <2>1. h' = h
    BY <1>9 DEF Flush, Visit
  <2> QED BY <2>1, <1>9, FlushStep
<1>10. CASE UNCHANGED vars
  BY <1>10 DEF vars, FlushInv
<1>11. iter = None /\ iter' = None => FlushInv'
  BY DEF FlushInv
<1> QED BY <1>1, <1>2, <1>3, <1>4, <1>5, <1>6, <1>7, <1>8, <1>9, <1>10, <1>11
        DEF Next

-----------------------------------------------------------------------------
(* The invariant as a whole, and what follows from it.                     *)

HashInv ==
    /\ IInv
    /\ CountInv
    /\ FlushInv
    /\ got \in Rows \cup {None}

LEMMA HashTyped == HashInv => TypeOK
<1> SUFFICES ASSUME HashInv PROVE TypeOK
  OBVIOUS
<1>1. ASSUME NEW t \in Tables
      PROVE  /\ t.n \in Sizes
             /\ t.node \in [Slots(t) -> Nodes \cup {None}]
             /\ t.dirty \subseteq Slots(t)
             /\ t.size \in Nat
             /\ t.n_dirty \in Nat
  <2>1. Sound(t) /\ Counted(t)
    BY DEF HashInv, IInv, CountInv, Tables
  <2> QED BY <2>1 DEF Sound, Typed, Counted
<1>2. position \in Slots(h)
  BY TableSizes, CountFacts DEF HashInv, CountInv
<1>3. calls \in Seq([name : {"put", "store", "delete"}, node : Nodes])
  BY DEF HashInv, IInv, CallNames
<1>4. loop \in {None} \cup [at : 0..h.n, left : 0..Batch]
  <2> SUFFICES ASSUME loop # None PROVE loop \in [at : 0..h.n, left : 0..Batch]
    OBVIOUS
  <2>1. /\ loop \in [at : Nat, left : Nat] /\ loop.at <= h.n /\ loop.left <= Batch
        /\ h.n \in Nat /\ Batch \in Nat
    BY CountFacts DEF HashInv, IInv, CountInv
  <2>2. loop.at \in 0..h.n /\ loop.left \in 0..Batch
    BY <2>1
  <2> QED BY <2>1, <2>2
<1>5. iter \in {None} \cup [at : Nat, of : Sizes]
  BY DEF HashInv, FlushInv
<1> QED BY <1>1, <1>2, <1>3, <1>4, <1>5 DEF TypeOK, HashInv

LEMMA InitHash == Init => HashInv
BY InitIInv, InitCount DEF Init, HashInv, FlushInv

LEMMA HashStep == HashInv /\ [Next]_vars => HashInv'
<1> SUFFICES ASSUME HashInv, [Next]_vars PROVE HashInv'
  OBVIOUS
<1>1. IInv' /\ CountInv' /\ FlushInv'
  BY EveryStep, CountStep, EveryFlushStep DEF HashInv
<1>2. got' \in Rows \cup {None}
  <2>1. CASE got' = got
    BY <2>1 DEF HashInv
  <2>2. ASSUME NEW k \in Keys, Look(k) PROVE got' \in Rows \cup {None}
    <3>1. /\ Stops(h, k) # {} /\ Sound(h)
          /\ got' = IF Find(h, k) = h.n THEN None ELSE h.node[Find(h, k)].row
      BY <2>2 DEF Look, HashInv, IInv
    <3>2. Find(h, k) # h.n => Find(h, k) \in Slots(h) /\ h.node[Find(h, k)] # None
      BY <3>1, FindIsRight DEF Holds
    <3>3. Find(h, k) # h.n => h.node[Find(h, k)] \in Nodes
      BY <3>2, TableSizes DEF HashInv
    <3> QED BY <3>1, <3>3, NodesAreNodes
  <2>3. got' = got \/ \E k \in Keys : Look(k)
    BY DEF Next, vars, PutGrows, Store, Delete, CopySlot, Pause, Swap, AddRow,
           Flush, Visit
  <2> QED BY <2>1, <2>2, <2>3
<1> QED BY <1>1, <1>2 DEF HashInv

\* The inductive invariant of the hash table: its nodes, its counters, the flush.
THEOREM HashInvariant == Spec => []HashInv
BY InitHash, HashStep, PTL DEF Spec

\* The tables, the position of the resize loop, the calls and the iteration are
\* what their types in mhash.h allow, in every state: the counters are not
\* negative (they are unsigned), and the resize position stays in the table.
THEOREM TypeCorrect == Spec => []TypeOK
BY HashInvariant, HashTyped, PTL

\* Every table has a slot that is neither used nor dirty, the counter n_dirty of
\* put_slot, mh_put and mh_del is not below the slots it stands for, and the
\* counter size is exact: with every hash, every sequence of primes that grows as
\* __ac_prime_list does, and every batch of at least 1 / (1 - MH_DENSITY) slots.
THEOREM ChainsAlwaysEnd == Spec => []ChainsEnd
<1>1. HashInv => ChainsEnd
  BY CountsEnd DEF HashInv
<1> QED BY <1>1, HashInvariant, PTL

\* No table is full when mh_put puts a node into it, and the shadow never becomes
\* so dirty that mh_put would have to resize it, while it is being filled.
THEOREM RoomAlways == Spec => []Room
<1>1. HashInv => Room
  BY CountsLeaveRoom DEF HashInv
<1> QED BY <1>1, HashInvariant, PTL

\* The loops of mh_find and put_slot, which have no bound, return: for every key,
\* in the table and in its shadow, in every state.
THEOREM SearchesAlwaysEnd == Spec => []SearchesEnd
<1>1. HashInv => SearchesEnd
  BY CountsEndSearches DEF HashInv
<1> QED BY <1>1, HashInvariant, PTL

\* schema_space_free and schema_index_free leave nothing in a table, unless their
\* own deletes finish a resize of it.
THEOREM FlushAlwaysEmpties == Spec => FlushEmpties
<1>1. HashInv /\ [Next]_vars =>
        [(iter # None /\ iter' = None /\ iter.of = h.n) =>
            \A i \in Slots(h) : h.node[i] = None]_vars
  <2> SUFFICES ASSUME HashInv, [Next]_vars, iter # None, iter' = None, iter.of = h.n
               PROVE  \A i \in Slots(h) : h.node[i] = None
    OBVIOUS
  <2>1. Flush
    BY DEF HashInv, Next, vars, PutGrows, Store, Delete, CopySlot, Pause, Swap,
           AddRow, Look, Free
  <2> QED BY <2>1, FlushStep DEF HashInv
<1> QED BY <1>1, HashInvariant, PTL DEF Spec, FlushEmpties
===============================================================================
