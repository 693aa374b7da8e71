-------------------------------- MODULE BeeHash --------------------------------
(***************************************************************************)
(* The hash table under the schema cache, one for the spaces and one for   *)
(* the indexes of every space.  Collisions are resolved by double hashing; *)
(* a slot a chain runs through is marked dirty, and a chain ends at a slot *)
(* that is not.  A table that has become too dirty grows step by step: a   *)
(* shadow with more slots is filled, a batch of slots with every put and   *)
(* delete, and then takes the place of the table.                          *)
(*                                                                         *)
(* The caller is the schema cache.  It adds a row under two keys, its name *)
(* and then its number; it looks a key up; and it flushes the table,       *)
(* deleting both keys of every node the iteration visits.  There is one    *)
(* thread: the loop over the slots of a batch is split into steps only so  *)
(* that each is a small one.                                               *)
(*                                                                         *)
(* What a slot held before it was freed is never read, and not kept.       *)
(***************************************************************************)
EXTENDS Integers, Sequences, FiniteSets

CONSTANTS
    Rows,       \* rows of the catalog, each with the key of its number and name
    Hash,       \* the hash of every key
    Primes,     \* the numbers of slots a table can have, in order
    Batch,      \* slots copied with one put or delete
    None        \* an empty slot, no row

VARIABLES
    h,          \* the table
    s,          \* its shadow, or None
    position,   \* h->resize_position: 0, or how far the shadow is filled
    calls,      \* the puts and deletes the caller has still to make
    loop,       \* the resize loop that runs, or None
    iter,       \* the slot the flush is at, and (history) how many slots the
                \* table had when it started; or None
    got         \* the row the last lookup found, or None

vars == <<h, s, position, calls, loop, iter, got>>

Keys  == {r.number : r \in Rows} \cup {r.name : r \in Rows}
Sizes == {Primes[p] : p \in DOMAIN Primes}
Slots(t) == 0..(t.n - 1)

\* A node is a row, under one of its keys.
Nodes == {[key |-> r.number, row |-> r] : r \in Rows}
            \cup {[key |-> r.name, row |-> r] : r \in Rows}

\* MH_DENSITY of the slots.
UpperBound(n) == (n * 7) \div 10

\* The slot a chain of k comes to after j collisions.
Probe(n, k, j) == ((Hash[k] % n) + j * (1 + (Hash[k] % (n - 1)))) % n

ASSUME HashAssumption == Hash \in [Keys -> Nat]
ASSUME PrimesAssumption ==
    /\ Primes \in Seq(Nat \ {0, 1})
    /\ Len(Primes) > 0
    /\ \A p \in 2..Len(Primes) : Primes[p - 1] < Primes[p]
\* A chain goes through every slot once: the numbers are prime.
ASSUME ProbesAssumption ==
    \A n \in Sizes, k \in Keys :
        /\ \A i \in 0..(n - 1) : \E j \in 0..(n - 1) : Probe(n, k, j) = i
        /\ \A i, j \in 0..(n - 1) : Probe(n, k, i) = Probe(n, k, j) => i = j
\* "Minimal batch must be greater or equal to 1 / (1 - f)".
ASSUME BatchAssumption == Batch \in Nat /\ Batch * 3 >= 10
\* The next prime is so much larger that what is put while a table is copied has
\* room in the next one.  All numbers of __ac_prime_list do, with any batch that
\* the code takes (256, or more if the table has more than 2^26 slots).
ASSUME GrowthAssumption ==
    \A m, n \in Sizes : m < n =>
        2 * (m - 1) < Batch * (UpperBound(n) - UpperBound(m))
ASSUME NoneAssumption == None \notin Rows \cup Nodes \cup [at : Nat, left : Nat]
                                   \cup [at : Nat, of : Nat]

-----------------------------------------------------------------------------
(* One table.                                                              *)

NewTable(n, size) ==
    [n |-> n, node |-> [i \in 0..(n - 1) |-> None], dirty |-> {},
     size |-> size, n_dirty |-> 0]

Least(S) == CHOOSE j \in S : \A i \in S : j <= i

Holds(t, k, i) == t.node[i] # None /\ t.node[i].key = k

\* Where a search for k stops: at k, or at the end of the chain.
Stops(t, k) ==
    {j \in Slots(t) :
        \/ Holds(t, k, Probe(t.n, k, j))
        \/ Probe(t.n, k, j) \notin t.dirty}

\* mh_find and mh_get: the slot of k, or t.n.  A search that stops nowhere does
\* not return.
Find(t, k) ==
    LET i == Probe(t.n, k, Least(Stops(t, k)))
    IN  IF Holds(t, k, i) THEN i ELSE t.n

\* put_slot.  The chain runs through the slots of other keys up to the first
\* slot that is free or holds k; those it runs through become dirty.
Takes(t, k) ==
    {j \in Slots(t) :
        LET i == Probe(t.n, k, j) IN t.node[i] = None \/ Holds(t, k, i)}
Passed(t, k) == {Probe(t.n, k, j) : j \in 0..(Least(Takes(t, k)) - 1)}
\* Down the chain from there, while it is dirty: another slot that holds k.
Duplicates(t, k) ==
    LET first == Least(Takes(t, k))
    IN  {j \in (first + 1)..(t.n - 1) :
            /\ Holds(t, k, Probe(t.n, k, j))
            /\ \A l \in first..(j - 1) : Probe(t.n, k, l) \in t.dirty}
PutSlot(t, k) ==
    LET first == Least(Takes(t, k))
    IN  IF Duplicates(t, k) = {}
        THEN Probe(t.n, k, first)
        ELSE Probe(t.n, k, Least(Duplicates(t, k)))

\* The loop down the chain ends too.
PutEnds(t, k) ==
    /\ Takes(t, k) # {}
    /\ \/ Holds(t, k, PutSlot(t, k))
       \/ Slots(t) \ (t.dirty \cup Passed(t, k)) # {}

\* The end of mh_put: a new node, or another in the place of an old one.
Stored(t, node) ==
    LET x     == PutSlot(t, node.key)
        dirty == t.dirty \cup Passed(t, node.key)
        new   == t.node[x] = None
    IN  [n |-> t.n, node |-> [t.node EXCEPT ![x] = node], dirty |-> dirty,
         size |-> IF new THEN t.size + 1 ELSE t.size,
         n_dirty |-> IF new /\ x \notin dirty THEN t.n_dirty + 1 ELSE t.n_dirty]

\* The body of the resize loop: a node is copied into the shadow, and counted
\* even if a put has already brought it there.
Copied(t, node) ==
    LET x == PutSlot(t, node.key)
    IN  [n |-> t.n, node |-> [t.node EXCEPT ![x] = node],
         dirty |-> t.dirty \cup Passed(t, node.key),
         size |-> t.size, n_dirty |-> t.n_dirty + 1]

\* Variant: what was not found is counted too.
FreedUnchecked(t, x) ==
    [t EXCEPT !.node = [i \in Slots(t) |-> IF i = x THEN None ELSE @[i]],
              !.size = @ - 1,
              !.n_dirty = IF x \in t.dirty THEN @ ELSE @ - 1]

\* Variant: a slot that is free again is no longer dirty.
FreedClean(t, x) ==
    IF x = t.n THEN t
    ELSE [t EXCEPT !.node[x] = None,
                   !.size = @ - 1,
                   !.n_dirty = @ - 1,
                   !.dirty = @ \ {x}]

\* mh_del: the slot is free, and stays dirty if it was.
Freed(t, x) ==
    IF x = t.n THEN t
    ELSE [t EXCEPT !.node[x] = None,
                   !.size = @ - 1,
                   !.n_dirty = IF x \in t.dirty THEN @ ELSE @ - 1]

-----------------------------------------------------------------------------
(* The table and its shadow.                                               *)

Call(name, node) == [name |-> name, node |-> node]

\* mh_new.
Init ==
    /\ h = NewTable(Primes[1], 0)
    /\ s = None
    /\ position = 0
    /\ calls = <<>>
    /\ loop = None
    /\ iter = None
    /\ got = None

\* A shadow is filled by a loop that runs, or has paused.
Resizing == loop # None \/ position > 0
Tables == {h} \cup (IF Resizing THEN {s} ELSE {})

Calling(name) == calls # <<>> /\ Head(calls).name = name /\ loop = None

\* The resize loop runs from a slot on; the call waits for it.
Loops(from, then) ==
    /\ loop' = [at |-> from, left |-> Batch]
    /\ calls' = then

Larger(n) == {m \in Sizes : m > n}

\* Variant: the table grows when every slot is dirty.
GrowsLate == position = 0 /\ h.n_dirty >= h.n
Grows == position = 0 /\ h.n_dirty >= UpperBound(h.n)

\* mh_put, while the table is resized or when that has to start: a batch of
\* slots is copied first.  (A table with no free slot would not be put to:
\* see Room.)
PutGrows ==
    /\ Calling("put")
    /\ Grows \/ position > 0
    /\ Grows => Larger(h.n) # {}            \* bound: the last prime
    /\ Loops(position, <<Call("store", Head(calls).node)>> \o Tail(calls))
    /\ s' = IF Grows THEN NewTable(Least(Larger(h.n)), h.size) ELSE s
    /\ UNCHANGED <<h, position, iter, got>>

\* The rest of mh_put: the node goes into the shadow too.
Store ==
    /\ \/ Calling("store")
       \/ Calling("put") /\ ~Grows /\ position = 0
    /\ \A t \in Tables : PutEnds(t, Head(calls).node.key)
    /\ h' = Stored(h, Head(calls).node)
    /\ s' = IF position > 0 THEN Stored(s, Head(calls).node) ELSE s
    /\ calls' = Tail(calls)
    /\ UNCHANGED <<position, loop, iter, got>>

\* Variant: the shadow is not told.
DeleteHere ==
    /\ Calling("delete")
    /\ LET x == Find(h, Head(calls).node.key)
       IN  /\ h' = Freed(h, x)
           /\ IF x # h.n /\ position > 0
              THEN Loops(position, Tail(calls))
              ELSE calls' = Tail(calls) /\ UNCHANGED loop
    /\ UNCHANGED <<s, position, iter, got>>

\* mh_find and mh_del: what is found is deleted from the shadow too, and a
\* batch is copied.
Delete ==
    /\ Calling("delete")
    /\ \A t \in Tables : Stops(t, Head(calls).node.key) # {}
    /\ LET key == Head(calls).node.key
           x   == Find(h, key)
       IN  /\ h' = Freed(h, x)
           /\ IF x # h.n /\ position > 0
              THEN /\ s' = Freed(s, Find(s, key))
                   /\ Loops(position, Tail(calls))
              ELSE /\ calls' = Tail(calls)
                   /\ UNCHANGED <<s, loop>>
    /\ UNCHANGED <<position, iter, got>>

\* mh_resize: one slot, ...
CopySlot ==
    /\ loop # None /\ loop.at < h.n /\ loop.left > 0
    /\ h.node[loop.at] # None => PutEnds(s, h.node[loop.at].key)
    /\ s' = IF h.node[loop.at] = None THEN s ELSE Copied(s, h.node[loop.at])
    /\ loop' = [at |-> loop.at + 1, left |-> loop.left - 1]
    /\ UNCHANGED <<h, position, calls, iter, got>>

\* ... the end of a batch, ...
Pause ==
    /\ loop # None /\ loop.at < h.n /\ loop.left = 0
    /\ position' = loop.at
    /\ loop' = None
    /\ UNCHANGED <<h, s, calls, iter, got>>

\* ... and of the table: the shadow takes its place.
Swap ==
    /\ loop # None /\ loop.at = h.n
    /\ h' = [s EXCEPT !.size = h.size]
    /\ s' = None
    /\ position' = 0
    /\ loop' = None
    /\ UNCHANGED <<calls, iter, got>>

-----------------------------------------------------------------------------
(* The caller.                                                             *)

Idle == calls = <<>> /\ loop = None
Free == Idle /\ iter = None

ByNumber(r) == [key |-> r.number, row |-> r]
ByName(r)   == [key |-> r.name, row |-> r]

\* schema_add_space and schema_add_index: the name first.
AddRow(r) ==
    /\ Free
    /\ calls' = <<Call("put", ByName(r)), Call("put", ByNumber(r))>>
    /\ UNCHANGED <<h, s, position, loop, iter, got>>

\* bee_schema_get_sid_by_string and the like: one mh_find.
Look(k) ==
    /\ Free
    /\ Stops(h, k) # {}
    /\ LET x == Find(h, k) IN got' = IF x = h.n THEN None ELSE h.node[x].row
    /\ UNCHANGED <<h, s, position, calls, loop, iter>>

\* mh_foreach: the first node from a slot on, in the table as it is now.  The
\* body deletes what is under the keys of its row, the number first.
Visit(from, n) ==
    LET nodes == {i \in Slots(h) : i >= from /\ h.node[i] # None}
    IN  /\ iter' = IF nodes = {} THEN None ELSE [at |-> Least(nodes), of |-> n]
        /\ calls' = IF nodes = {} THEN <<>>
                    ELSE LET r == h.node[Least(nodes)].row
                         IN  <<Call("delete", ByNumber(r)),
                               Call("delete", ByName(r))>>
        /\ UNCHANGED <<h, s, position, loop, got>>

\* Variant: the loop steps over the node after the one it visited.
FlushSkips ==
    \/ Free /\ Visit(0, h.n)
    \/ Idle /\ iter # None /\ Visit(iter.at + 2, iter.of)

\* schema_space_free and schema_index_free.
Flush ==
    \/ Free /\ Visit(0, h.n)
    \/ Idle /\ iter # None /\ Visit(iter.at + 1, iter.of)

Next ==
    \/ PutGrows
    \/ Store
    \/ Delete
    \/ CopySlot
    \/ Pause
    \/ Swap
    \/ \E r \in Rows : AddRow(r)
    \/ \E k \in Keys : Look(k)
    \/ Flush

Spec == Init /\ [][Next]_vars

-----------------------------------------------------------------------------
(* What the table promises.                                                *)

RowOf(t, k) ==
    IF \E i \in Slots(t) : Holds(t, k, i)
    THEN t.node[CHOOSE i \in Slots(t) : Holds(t, k, i)].row
    ELSE None

Map == INSTANCE BeeMap
    WITH map <- [k \in Keys |-> RowOf(h, k)], got <- got

\* Every step of the table is a put, a delete or a lookup of a map, or changes
\* nothing of it: chains that share slots, slots that are used again, copying
\* and swapping lose no key, keep no deleted one and invent none.
IsMap == Map!Spec

Used(t) == {i \in Slots(t) : t.node[i] # None \/ i \in t.dirty}

TypeOK ==
    /\ \A t \in Tables :
        /\ t.n \in Sizes
        /\ t.node \in [Slots(t) -> Nodes \cup {None}]
        /\ t.dirty \subseteq Slots(t)
        /\ t.size \in Nat
        /\ t.n_dirty \in Nat
    /\ position \in Slots(h)
    /\ calls \in Seq([name : {"put", "store", "delete"}, node : Nodes])
    /\ loop \in {None} \cup [at : 0..h.n, left : 0..Batch]
    /\ iter \in {None} \cup [at : Nat, of : Sizes]
    /\ got \in Rows \cup {None}

\* Why every search ends: a table, and the shadow in it, has a slot that is neither
\* used nor dirty, although the table is filled on while it is resized; the counter
\* that starts the resize is never below the slots it stands for, and the counter of
\* nodes is exact.  (mh_find and put_slot loop without a bound.)
ChainsEnd ==
    /\ \A t \in Tables :
        /\ Cardinality(Used(t)) <= t.n_dirty
        /\ t.n_dirty < t.n
    /\ h.size = Cardinality({i \in Slots(h) : h.node[i] # None})

\* A put always finds room: no table is full, and the shadow never has to grow
\* itself while it is filled (its own shadow would be the shadow).
Room ==
    /\ h.size < h.n
    /\ position > 0 /\ (Calling("store") \/ Calling("put")) =>
        /\ s.size < s.n
        /\ s.n_dirty < UpperBound(s.n)

\* README.md:223, Bee::flushSchema: "Remove the cached space/index schema that
\* was queried from the client".  Nothing is left in the table after a flush,
\* although it deletes two nodes, before and after the one it is at, for each it
\* visits; also if the table is being resized.  Unless these deletes finish the
\* resize: the loop then goes on at the same slot of another table, and misses
\* what is before.
FlushEmpties ==
    [][(iter # None /\ iter' = None /\ iter.of = h.n) =>
            \A i \in Slots(h) : h.node[i] = None]_vars
===============================================================================
