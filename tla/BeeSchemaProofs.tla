---------------------------- MODULE BeeSchemaProofs ----------------------------
(***************************************************************************)
(* The schema cache, for every catalog, every number of rows and every     *)
(* order a flush visits the nodes in: what can be reached is allocated     *)
(* (NoDangling), nothing is freed twice (FreedOnce), and, unless a name    *)
(* has the bytes of a number, what a name stands for was told or due since *)
(* the last flush that no resize disturbed (SinceFlush), the nodes are a   *)
(* cache of names and numbers (IsCache), and a flush frees all that no     *)
(* replacement or resize lost (NothingLost).                               *)
(***************************************************************************)
EXTENDS BeeSchema, TLAPS

\* The key a node is put under.
SpaceNodeKey(v) ==
    IF v.by = "name" THEN rows[v.id].name ELSE Bytes[rows[v.id].sno]
IndexNodeKey(w) ==
    IF w.by = "name" THEN irows[w.id].name ELSE Bytes[irows[w.id].num]

\* A space node is under its key, and what it needs is there.
SpacesInv ==
    \A k \in Keys : spaces[k] # None =>
        /\ rows[spaces[k].id] # None
        /\ SpaceNodeKey(spaces[k]) = k
        /\ memory[Block("space", spaces[k].id, spaces[k].by)] = "live"
        /\ memory[Block("space", spaces[k].id, "string")] = "live"
        /\ memory[Block("space", spaces[k].id, "table")] = "live"

\* So is an index node, which is in one table only.
TablesInv ==
    /\ \A i \in Ids, k \in Keys : tables[i][k] # None =>
        /\ irows[tables[i][k].id] # None
        /\ IndexNodeKey(tables[i][k]) = k
        /\ memory[Block("index", tables[i][k].id, tables[i][k].by)] = "live"
        /\ memory[Block("index", tables[i][k].id, "string")] = "live"
    /\ \A i, j \in Ids, k, l \in Keys :
        /\ tables[i][k] # None /\ tables[j][l] # None
        /\ tables[i][k].id = tables[j][l].id
        => i = j

\* The space that is visited can no longer be reached, and what is still to be
\* freed of it is there.
FlushInv ==
    flush.at = "indexes" =>
        /\ flush.id \in Ids
        /\ memory[Block("space", flush.id, "table")] = "live"
        /\ \A v \in flush.nodes : memory[Block("space", v.id, v.by)] = "live"
        /\ \A k \in Keys : spaces[k] # None =>
            spaces[k].id # flush.id /\ spaces[k] \notin flush.nodes

IInv == TypeOK /\ FreedOnce /\ SpacesInv /\ TablesInv /\ FlushInv

-----------------------------------------------------------------------------
(* Lemmas.                                                                 *)

LEMMA KeysAreKeys ==
    \A r \in Row : /\ r.name \in Names /\ r.name \in Keys
                   /\ r.sno \in SpaceNos /\ Bytes[r.sno] \in Keys
                   /\ r.num \in IndexNos /\ Bytes[r.num] \in Keys
                   /\ r # None
BY NoneAssumption DEF Row, Keys

LEMMA NodesAreNodes ==
    \A v \in Nodes : v.id \in Ids /\ v.by \in {"name", "number"} /\ v # None
BY NoneAssumption DEF Nodes

LEMMA BlocksAreBlocks ==
    ASSUME NEW of \in {"space", "index"}, NEW id \in Ids,
           NEW part \in {"name", "number", "string", "table"}
    PROVE  /\ Block(of, id, part) \in Blocks
           /\ \A of2, id2, part2 : Block(of, id, part) = Block(of2, id2, part2)
                => of = of2 /\ id = id2 /\ part = part2
<1>1. Block(of, id, part) \in Blocks
  BY DEF Block, Blocks
<1>2. ASSUME NEW of2, NEW id2, NEW part2,
             Block(of, id, part) = Block(of2, id2, part2)
      PROVE  of = of2 /\ id = id2 /\ part = part2
  <2>1. /\ Block(of, id, part).of = of /\ Block(of2, id2, part2).of = of2
        /\ Block(of, id, part).id = id /\ Block(of2, id2, part2).id = id2
        /\ Block(of, id, part).part = part /\ Block(of2, id2, part2).part = part2
    BY DEF Block
  <2> QED BY <2>1, <1>2
<1> QED BY <1>1, <1>2

\* Freeing what is live frees it, and nothing else.
LEMMA FreeingLive ==
    ASSUME NEW mem \in [Blocks -> {"unused", "live", "freed", "wild"}],
           \A b \in Blocks : mem[b] # "wild",
           NEW B, \A b \in B : mem[b] = "live"
    PROVE  /\ Freed(mem, B) \in [Blocks -> {"unused", "live", "freed", "wild"}]
           /\ \A b \in Blocks : Freed(mem, B)[b] # "wild"
           /\ \A b \in Blocks : b \notin B => Freed(mem, B)[b] = mem[b]
BY DEF Freed

\* Allocating keeps what is live.
LEMMA AllocatingIsSafe ==
    ASSUME IInv, NEW of \in {"space", "index"}, NEW id \in Ids
    PROVE  /\ Allocated(of, id) \in [Blocks -> {"unused", "live", "freed", "wild"}]
           /\ \A b \in Blocks : Allocated(of, id)[b] # "wild"
           /\ \A b \in Blocks : memory[b] = "live" => Allocated(of, id)[b] = "live"
           /\ \A part \in Parts[of] : Allocated(of, id)[Block(of, id, part)] = "live"
<1>1. memory \in [Blocks -> {"unused", "live", "freed", "wild"}]
  BY DEF IInv, TypeOK
<1>2. \A b \in Blocks : memory[b] # "wild"
  BY DEF IInv, FreedOnce
<1>3. \A part \in Parts[of] : Block(of, id, part) \in Blocks
  BY BlocksAreBlocks DEF Parts
<1>4. \A part : /\ Block(of, id, part).of = of
                /\ Block(of, id, part).id = id
                /\ Block(of, id, part).part = part
  BY DEF Block
<1> QED BY <1>1, <1>2, <1>3, <1>4 DEF Allocated

-----------------------------------------------------------------------------
(* The steps.                                                              *)

LEMMA InitIInv == Init => IInv
<1> SUFFICES ASSUME Init PROVE IInv
  OBVIOUS
<1>1. TypeOK
  BY DEF Init, TypeOK, NoTable, NoFlush, Nodes, Blocks, NoRows
<1>2. FreedOnce
  BY DEF Init, FreedOnce
<1>3. SpacesInv /\ TablesInv /\ FlushInv
  BY DEF Init, SpacesInv, TablesInv, FlushInv, NoTable, NoFlush
<1> QED BY <1>1, <1>2, <1>3 DEF IInv

\* What TypeOK says of the parts.
LEMMA Types ==
    ASSUME TypeOK
    PROVE  /\ \A k \in Keys : spaces[k] # None => spaces[k] \in Nodes
           /\ \A i \in Ids : rows[i] # None => rows[i] \in Row
           /\ \A i \in Ids, k \in Keys : tables[i][k] # None => tables[i][k] \in Nodes
           /\ \A i \in Ids : irows[i] # None => irows[i] \in Row
           /\ memory \in [Blocks -> {"unused", "live", "freed", "wild"}]
           /\ Told.spaces \subseteq Row /\ Told.indexes \subseteq Row
BY CatalogsAssumption DEF TypeOK, Told, And

\* Two puts into a table.
LEMMA AddedNodes ==
    ASSUME NEW table \in [Keys -> Nodes \cup {None}], NEW r \in Row,
           NEW key \in Keys, NEW id \in Ids
    PROVE  LET new == Added(table, key, r, id)
           IN  /\ new \in [Keys -> Nodes \cup {None}]
               /\ \A k \in Keys :
                    \/ new[k] = table[k] /\ k # key /\ k # r.name
                    \/ k = key /\ new[k] = [id |-> id, by |-> "number"]
                    \/ k = r.name /\ new[k] = [id |-> id, by |-> "name"]
BY KeysAreKeys DEF Added, Nodes

LEMMA AddSpaceStep ==
    ASSUME IInv, NEW r \in Told.spaces, AddSpace(r)
    PROVE  IInv'
<1>1. PICK id \in Fresh(rows, Ids) :
        /\ spaces' = Added(spaces, SpaceKey(r), r, id)
        /\ rows' = [rows EXCEPT ![id] = r]
        /\ memory' = Allocated("space", id)
  BY DEF AddSpace
<1>2. /\ flush.at = "no" /\ lost' \in BOOLEAN
      /\ UNCHANGED <<catalog, late, tables, irows, flush, seen>>
  BY DEF AddSpace
<1>3. id \in Ids /\ rows[id] = None /\ r \in Row /\ SpaceKey(r) \in Keys
  BY Types, KeysAreKeys, IdsAssumption DEF IInv, Fresh, SpaceKey
<1>4. /\ memory' \in [Blocks -> {"unused", "live", "freed", "wild"}]
      /\ \A b \in Blocks : memory'[b] # "wild"
      /\ \A b \in Blocks : memory[b] = "live" => memory'[b] = "live"
      /\ \A part \in Parts["space"] : memory'[Block("space", id, part)] = "live"
  BY <1>1, <1>3, AllocatingIsSafe
<1>5. /\ spaces' \in [Keys -> Nodes \cup {None}]
      /\ \A k \in Keys :
            \/ spaces'[k] = spaces[k] /\ k # SpaceKey(r) /\ k # r.name
            \/ k = SpaceKey(r) /\ spaces'[k] = [id |-> id, by |-> "number"]
            \/ k = r.name /\ spaces'[k] = [id |-> id, by |-> "name"]
  <2>1. spaces \in [Keys -> Nodes \cup {None}]
    BY DEF IInv, TypeOK
  <2>2. spaces' = Added(spaces, SpaceKey(r), r, id)
    BY <1>1
  <2> QED BY ONLY <2>1, <2>2, <1>3, AddedNodes
<1>6. /\ rows' \in [Ids -> Row \cup {None}] /\ rows'[id] = r
      /\ \A i \in Ids : rows[i] # None => rows'[i] = rows[i]
  BY <1>1, <1>3 DEF IInv, TypeOK
<1>8. TypeOK'
  BY <1>2, <1>4, <1>5, <1>6 DEF IInv, TypeOK
<1>9. SpacesInv'
  <2> SUFFICES ASSUME NEW k \in Keys, spaces'[k] # None
               PROVE  /\ rows'[spaces'[k].id] # None
                      /\ SpaceNodeKey(spaces[k])' = k
                      /\ memory'[Block("space", spaces'[k].id, spaces'[k].by)] = "live"
                      /\ memory'[Block("space", spaces'[k].id, "string")] = "live"
                      /\ memory'[Block("space", spaces'[k].id, "table")] = "live"
    BY DEF SpacesInv
  <2>1. CASE spaces'[k] = spaces[k]
    <3>1. spaces[k] \in Nodes
      BY <2>1, Types DEF IInv
    <3>2. /\ Block("space", spaces[k].id, spaces[k].by) \in Blocks
          /\ Block("space", spaces[k].id, "string") \in Blocks
          /\ Block("space", spaces[k].id, "table") \in Blocks
          /\ spaces[k].id \in Ids
      BY <3>1, NodesAreNodes, BlocksAreBlocks
    <3>3. rows'[spaces[k].id] = rows[spaces[k].id]
      BY <2>1, <3>2, <1>6 DEF IInv, SpacesInv
    <3> QED BY <2>1, <3>2, <3>3, <1>4 DEF IInv, SpacesInv, SpaceNodeKey
  <2>2. CASE k = SpaceKey(r) /\ spaces'[k] = [id |-> id, by |-> "number"]
    <3>1. spaces'[k].id = id /\ spaces'[k].by = "number"
      BY <2>2
    <3> QED BY <2>2, <3>1, <1>3, <1>4, <1>6, NoneAssumption
            DEF SpaceNodeKey, SpaceKey, Parts
  <2>3. CASE k = r.name /\ spaces'[k] = [id |-> id, by |-> "name"]
    <3>1. spaces'[k].id = id /\ spaces'[k].by = "name"
      BY <2>3
    <3> QED BY <2>3, <3>1, <1>3, <1>4, <1>6, NoneAssumption
            DEF SpaceNodeKey, Parts
  <2> QED BY <2>1, <2>2, <2>3, <1>5
<1>10. TablesInv'
  <2>1. \A i \in Ids, k \in Keys : tables[i][k] # None =>
            /\ Block("index", tables[i][k].id, tables[i][k].by) \in Blocks
            /\ Block("index", tables[i][k].id, "string") \in Blocks
    BY Types, NodesAreNodes, BlocksAreBlocks DEF IInv
  <2> QED BY <2>1, <1>2, <1>4 DEF IInv, TablesInv, IndexNodeKey
<1> QED BY <1>2, <1>4, <1>8, <1>9, <1>10 DEF IInv, FreedOnce, FlushInv

LEMMA AddIndexStep ==
    ASSUME IInv, NEW r \in Told.indexes, AddIndex(r)
    PROVE  IInv'
<1> DEFINE at == spaces[SpaceKey(r)].id
<1>1. PICK id \in Fresh(irows, IndexIds) :
        /\ tables' = [tables EXCEPT ![at] = Added(tables[at], IndexKey(r), r, id)]
        /\ irows' = [irows EXCEPT ![id] = r]
        /\ memory' = Allocated("index", id)
  BY DEF AddIndex
<1>2. /\ flush.at = "no"
      /\ spaces[SpaceKey(r)] # None
      /\ lost' \in BOOLEAN
      /\ UNCHANGED <<catalog, late, spaces, rows, flush, seen>>
  BY DEF AddIndex
<1>3. /\ id \in Ids /\ irows[id] = None /\ r \in Row
      /\ SpaceKey(r) \in Keys /\ IndexKey(r) \in Keys
  BY Types, KeysAreKeys, IdsAssumption DEF IInv, Fresh, SpaceKey, IndexKey
<1>4. at \in Ids
  BY <1>2, <1>3, Types, NodesAreNodes DEF IInv
<1> HIDE DEF at
<1>5. /\ memory' \in [Blocks -> {"unused", "live", "freed", "wild"}]
      /\ \A b \in Blocks : memory'[b] # "wild"
      /\ \A b \in Blocks : memory[b] = "live" => memory'[b] = "live"
      /\ \A part \in Parts["index"] : memory'[Block("index", id, part)] = "live"
  BY <1>1, <1>3, AllocatingIsSafe
<1>6. /\ tables' \in [Ids -> [Keys -> Nodes \cup {None}]]
      /\ \A i \in Ids, k \in Keys :
            \/ tables'[i][k] = tables[i][k]
            \/ i = at /\ k = IndexKey(r)
               /\ tables'[i][k] = [id |-> id, by |-> "number"]
            \/ i = at /\ k = r.name
               /\ tables'[i][k] = [id |-> id, by |-> "name"]
  <2>1. tables[at] \in [Keys -> Nodes \cup {None}]
    BY <1>4 DEF IInv, TypeOK
  <2> DEFINE new == Added(tables[at], IndexKey(r), r, id)
  <2>2. /\ new \in [Keys -> Nodes \cup {None}]
        /\ \A k \in Keys :
            \/ new[k] = tables[at][k] /\ k # IndexKey(r) /\ k # r.name
            \/ k = IndexKey(r) /\ new[k] = [id |-> id, by |-> "number"]
            \/ k = r.name /\ new[k] = [id |-> id, by |-> "name"]
    BY <2>1, <1>3, AddedNodes
  <2> HIDE DEF new
  <2>3. tables' = [tables EXCEPT ![at] = new]
    BY <1>1 DEF new
  <2> QED BY <2>2, <2>3, <1>4 DEF IInv, TypeOK
<1>7. /\ irows' \in [Ids -> Row \cup {None}] /\ irows'[id] = r
      /\ \A i \in Ids : irows[i] # None => irows'[i] = irows[i]
  BY <1>1, <1>3 DEF IInv, TypeOK
<1>9. TypeOK'
  BY <1>2, <1>5, <1>6, <1>7 DEF IInv, TypeOK
<1>10. SpacesInv'
  <2>1. \A k \in Keys : spaces[k] # None =>
            /\ Block("space", spaces[k].id, spaces[k].by) \in Blocks
            /\ Block("space", spaces[k].id, "string") \in Blocks
            /\ Block("space", spaces[k].id, "table") \in Blocks
    BY Types, NodesAreNodes, BlocksAreBlocks DEF IInv
  <2> QED BY <2>1, <1>2, <1>5 DEF IInv, SpacesInv, SpaceNodeKey
\* The id of an index node that was there is not the new one.
<1>11. \A i \in Ids, k \in Keys : tables[i][k] # None =>
            tables[i][k].id # id /\ tables[i][k].id \in Ids
  BY <1>3, Types, NodesAreNodes DEF IInv, TablesInv
<1>12. \A i \in Ids, k \in Keys : tables'[i][k] # None =>
            \/ tables'[i][k] = tables[i][k] /\ tables'[i][k].id # id
            \/ i = at /\ tables'[i][k].id = id
  BY <1>6, <1>11
<1>13. \A i, j \in Ids, k, l \in Keys :
            /\ tables'[i][k] # None /\ tables'[j][l] # None
            /\ tables'[i][k].id = tables'[j][l].id
            => i = j
  BY <1>12 DEF IInv, TablesInv
<1>14. ASSUME NEW i \in Ids, NEW k \in Keys, tables'[i][k] # None
       PROVE  /\ irows'[tables'[i][k].id] # None
              /\ IndexNodeKey(tables[i][k])' = k
              /\ memory'[Block("index", tables'[i][k].id, tables'[i][k].by)] = "live"
              /\ memory'[Block("index", tables'[i][k].id, "string")] = "live"
  <2>1. CASE tables'[i][k] = tables[i][k]
    <3>1. tables[i][k] \in Nodes
      BY <2>1, <1>14, Types DEF IInv
    <3>2. /\ Block("index", tables[i][k].id, tables[i][k].by) \in Blocks
          /\ Block("index", tables[i][k].id, "string") \in Blocks
          /\ tables[i][k].id \in Ids
      BY <3>1, NodesAreNodes, BlocksAreBlocks
    <3>3. irows'[tables[i][k].id] = irows[tables[i][k].id]
      BY <2>1, <1>14, <3>2, <1>7 DEF IInv, TablesInv
    <3> QED BY <2>1, <1>14, <3>2, <3>3, <1>5 DEF IInv, TablesInv, IndexNodeKey
  <2>2. CASE k = IndexKey(r) /\ tables'[i][k] = [id |-> id, by |-> "number"]
    <3>1. tables'[i][k].id = id /\ tables'[i][k].by = "number"
      BY <2>2
    <3> QED BY <2>2, <3>1, <1>3, <1>5, <1>7, NoneAssumption
            DEF IndexNodeKey, IndexKey, Parts
  <2>3. CASE k = r.name /\ tables'[i][k] = [id |-> id, by |-> "name"]
    <3>1. tables'[i][k].id = id /\ tables'[i][k].by = "name"
      BY <2>3
    <3> QED BY <2>3, <3>1, <1>3, <1>5, <1>7, NoneAssumption
            DEF IndexNodeKey, Parts
  <2> QED BY <2>1, <2>2, <2>3, <1>6
<1>15. TablesInv'
  BY <1>13, <1>14 DEF TablesInv
<1> QED BY <1>2, <1>5, <1>9, <1>10, <1>15 DEF IInv, FreedOnce, FlushInv

\* The nodes under the two keys of a row, and the table without them.
LEMMA PairNodes ==
    ASSUME NEW table \in [Keys -> Nodes \cup {None}], NEW r \in Row,
           NEW key \in Keys
    PROVE  /\ Pair(table, key, r) \subseteq Nodes
           /\ \A v \in Pair(table, key, r) :
                \E k \in {key, r.name} : k \in Keys /\ table[k] = v
           /\ Without(table, key, r) \in [Keys -> Nodes \cup {None}]
           /\ \A k \in Keys : Without(table, key, r)[k] # None =>
                /\ k # key /\ k # r.name
                /\ Without(table, key, r)[k] = table[k]
BY KeysAreKeys DEF Pair, Without

LEMMA VisitSpaceStep ==
    ASSUME IInv, NEW k \in Keys, VisitSpace(k)
    PROVE  IInv'
<1> DEFINE v == spaces[k]
           r == rows[spaces[k].id]
           B == {Block("space", v.id, "string")}
           P == Pair(spaces, SpaceKey(r), r)
<1>1. /\ flush.at = "spaces" /\ spaces[k] # None
      /\ spaces' = Without(spaces, SpaceKey(r), r)
      /\ memory' = Freed(memory, B)
      /\ \E swapped \in MaySwap(SpaceHash) :
            flush' = [at |-> "indexes", id |-> v.id, nodes |-> P,
                      swapped |-> swapped]
      /\ UNCHANGED <<catalog, late, rows, tables, irows, seen, lost>>
  BY DEF VisitSpace
<1>2. v \in Nodes /\ v.id \in Ids /\ v.by \in {"name", "number"}
  BY <1>1, Types, NodesAreNodes DEF IInv
<1>3. r \in Row /\ r.name \in Keys /\ SpaceKey(r) \in Keys
  BY <1>1, <1>2, Types, KeysAreKeys DEF IInv, SpacesInv, SpaceKey
<1>4. spaces \in [Keys -> Nodes \cup {None}]
  BY DEF IInv, TypeOK
<1> HIDE DEF P
<1>5. /\ P \subseteq Nodes
      /\ \A w \in P : \E l \in {SpaceKey(r), r.name} : l \in Keys /\ spaces[l] = w
      /\ spaces' \in [Keys -> Nodes \cup {None}]
      /\ \A l \in Keys : spaces'[l] # None =>
            l # SpaceKey(r) /\ l # r.name /\ spaces'[l] = spaces[l]
  BY <1>1, <1>3, <1>4, PairNodes DEF P
\* What is left is of other rows.
<1>6. ASSUME NEW l \in Keys, spaces'[l] # None
      PROVE  spaces'[l] = spaces[l] /\ spaces[l].id # v.id /\ spaces[l] \notin P
  <2>1. l # SpaceKey(r) /\ l # r.name /\ spaces'[l] = spaces[l]
    BY <1>5, <1>6
  <2>2. SpaceNodeKey(spaces[l]) = l
    BY <1>6, <2>1 DEF IInv, SpacesInv
  <2>3. spaces[l].id # v.id
    BY <2>1, <2>2 DEF SpaceNodeKey, SpaceKey
  <2>4. spaces[l] \notin P
    <3> SUFFICES ASSUME spaces[l] \in P PROVE FALSE
      OBVIOUS
    <3>1. PICK m \in {SpaceKey(r), r.name} : m \in Keys /\ spaces[m] = spaces[l]
      BY <1>5
    <3>2. SpaceNodeKey(spaces[m]) = m
      BY <3>1, <1>6, <2>1 DEF IInv, SpacesInv
    <3> QED BY <3>1, <3>2, <2>1, <2>2
  <2> QED BY <2>1, <2>3, <2>4
<1>7. /\ memory' \in [Blocks -> {"unused", "live", "freed", "wild"}]
      /\ \A b \in Blocks : memory'[b] # "wild"
      /\ \A b \in Blocks : b \notin B => memory'[b] = memory[b]
  <2>1. \A b \in B : memory[b] = "live"
    BY <1>1 DEF IInv, SpacesInv
  <2>2. /\ memory \in [Blocks -> {"unused", "live", "freed", "wild"}]
        /\ \A b \in Blocks : memory[b] # "wild"
    BY DEF IInv, TypeOK, FreedOnce
  <2>3. memory' = Freed(memory, B)
    BY <1>1
  <2> HIDE DEF B
  <2> QED BY <2>1, <2>2, <2>3, FreeingLive
<1>8. \A of \in {"space", "index"}, id \in Ids,
        part \in {"name", "number", "string", "table"} :
        ~(of = "space" /\ id = v.id /\ part = "string") =>
            memory'[Block(of, id, part)] = memory[Block(of, id, part)]
  BY <1>2, <1>7, BlocksAreBlocks
<1>9. /\ flush'.at = "indexes" /\ flush'.id = v.id /\ flush'.nodes = P
      /\ flush' \in [at : {"no", "spaces", "indexes"}, id : Ids \cup {None},
                     nodes : SUBSET Nodes, swapped : SUBSET (Ids \cup {SpaceHash})]
  <2>1. PICK swapped \in MaySwap(SpaceHash) :
            flush' = [at |-> "indexes", id |-> v.id, nodes |-> P,
                      swapped |-> swapped]
    BY <1>1
  <2>2. swapped \subseteq Ids \cup {SpaceHash}
    BY <2>1 DEF MaySwap, IInv, TypeOK
  <2> QED BY <2>1, <2>2, <1>2, <1>5
<1>10. TypeOK'
  BY <1>1, <1>2, <1>5, <1>7, <1>9 DEF IInv, TypeOK
<1>11. SpacesInv'
  <2> SUFFICES ASSUME NEW l \in Keys, spaces'[l] # None
               PROVE  /\ rows'[spaces'[l].id] # None
                      /\ SpaceNodeKey(spaces[l])' = l
                      /\ memory'[Block("space", spaces'[l].id, spaces'[l].by)] = "live"
                      /\ memory'[Block("space", spaces'[l].id, "string")] = "live"
                      /\ memory'[Block("space", spaces'[l].id, "table")] = "live"
    BY DEF SpacesInv
  <2>1. spaces'[l] = spaces[l] /\ spaces[l].id # v.id
    BY <1>6
  <2>2. spaces[l].id \in Ids /\ spaces[l].by \in {"name", "number"}
    BY <2>1, Types, NodesAreNodes DEF IInv
  <2> DEFINE u == spaces[l]
  <2>3. /\ rows[u.id] # None /\ SpaceNodeKey(u) = l
        /\ memory[Block("space", u.id, u.by)] = "live"
        /\ memory[Block("space", u.id, "string")] = "live"
        /\ memory[Block("space", u.id, "table")] = "live"
    BY <1>6, <2>1 DEF IInv, SpacesInv
  <2>4. /\ memory'[Block("space", u.id, u.by)] = memory[Block("space", u.id, u.by)]
        /\ memory'[Block("space", u.id, "string")] = memory[Block("space", u.id, "string")]
        /\ memory'[Block("space", u.id, "table")] = memory[Block("space", u.id, "table")]
    BY <2>1, <2>2, <1>8
  <2>5. SpaceNodeKey(spaces[l])' = SpaceNodeKey(u)
    BY <2>1, <1>1 DEF SpaceNodeKey
  <2> QED BY <2>1, <2>3, <2>4, <2>5, <1>1
<1>12. TablesInv'
  <2>1. ASSUME NEW i \in Ids, NEW l \in Keys, tables'[i][l] # None
        PROVE  /\ irows'[tables'[i][l].id] # None
               /\ IndexNodeKey(tables[i][l])' = l
               /\ memory'[Block("index", tables'[i][l].id, tables'[i][l].by)] = "live"
               /\ memory'[Block("index", tables'[i][l].id, "string")] = "live"
    <3> DEFINE u == tables[i][l]
    <3>1. tables' = tables /\ irows' = irows /\ u # None
      BY <1>1, <2>1
    <3>2. u.id \in Ids /\ u.by \in {"name", "number"}
      BY <3>1, Types, NodesAreNodes DEF IInv
    <3>3. /\ irows[u.id] # None /\ IndexNodeKey(u) = l
          /\ memory[Block("index", u.id, u.by)] = "live"
          /\ memory[Block("index", u.id, "string")] = "live"
      BY <3>1 DEF IInv, TablesInv
    <3>4. /\ memory'[Block("index", u.id, u.by)] = memory[Block("index", u.id, u.by)]
          /\ memory'[Block("index", u.id, "string")] = memory[Block("index", u.id, "string")]
      BY <3>2, <1>8
    <3>5. IndexNodeKey(tables[i][l])' = IndexNodeKey(u)
      BY <3>1 DEF IndexNodeKey
    <3> QED BY <3>1, <3>3, <3>4, <3>5
  <2>2. \A i, j \in Ids, l, m \in Keys :
            /\ tables'[i][l] # None /\ tables'[j][m] # None
            /\ tables'[i][l].id = tables'[j][m].id
            => i = j
    BY <1>1 DEF IInv, TablesInv
  <2> QED BY <2>1, <2>2 DEF TablesInv
<1>13. FlushInv'
  <2>1. memory'[Block("space", v.id, "table")] = "live"
    BY <1>1, <1>2, <1>8 DEF IInv, SpacesInv
  <2>2. \A w \in P : memory'[Block("space", w.id, w.by)] = "live"
    <3> SUFFICES ASSUME NEW w \in P PROVE memory'[Block("space", w.id, w.by)] = "live"
      OBVIOUS
    <3>1. PICK l \in Keys : spaces[l] = w
      BY <1>5
    <3>2. w \in Nodes /\ w.id \in Ids /\ w.by \in {"name", "number"} /\ w # None
      BY <1>5, NodesAreNodes
    <3> QED BY <3>1, <3>2, <1>8 DEF IInv, SpacesInv
  <2> QED BY <2>1, <2>2, <1>2, <1>6, <1>9 DEF FlushInv
<1> QED BY <1>7, <1>10, <1>11, <1>12, <1>13 DEF IInv, FreedOnce

LEMMA VisitIndexStep ==
    ASSUME IInv, NEW k \in Keys, VisitIndex(k)
    PROVE  IInv'
<1> DEFINE at == flush.id
           T  == tables[at]
           v  == T[k]
           r  == irows[v.id]
           P  == Pair(T, IndexKey(r), r)
           W  == Without(T, IndexKey(r), r)
           B  == {Block("index", v.id, "string")} \cup NodeBlocks("index", P)
<1>1. /\ flush.at = "indexes" /\ v # None
      /\ tables' = [tables EXCEPT ![at] = W]
      /\ memory' = Freed(memory, B)
      /\ \E swapped \in MaySwap(at) : flush' = [flush EXCEPT !.swapped = swapped]
      /\ UNCHANGED <<catalog, late, spaces, rows, irows, seen, lost>>
  BY DEF VisitIndex
<1>2. at \in Ids /\ T \in [Keys -> Nodes \cup {None}]
  BY <1>1 DEF IInv, TypeOK
<1>3. v \in Nodes /\ v.id \in Ids /\ v.by \in {"name", "number"}
  BY <1>1, <1>2, NodesAreNodes
<1>4. r \in Row /\ r.name \in Keys /\ IndexKey(r) \in Keys
  <2>1. irows[v.id] # None
    BY <1>1, <1>2 DEF IInv, TablesInv
  <2> QED BY <2>1, <1>3, Types, KeysAreKeys DEF IInv, IndexKey
<1>5. /\ P \subseteq Nodes
      /\ \A w \in P : \E l \in {IndexKey(r), r.name} : l \in Keys /\ T[l] = w
      /\ W \in [Keys -> Nodes \cup {None}]
      /\ \A l \in Keys : W[l] # None =>
            l # IndexKey(r) /\ l # r.name /\ W[l] = T[l]
  <2> HIDE DEF T, r
  <2> QED BY <1>2, <1>4, PairNodes
<1> HIDE DEF P, W
\* The tables after the step.
<1>6. /\ tables' \in [Ids -> [Keys -> Nodes \cup {None}]]
      /\ \A i \in Ids, l \in Keys : tables'[i][l] # None =>
            /\ tables'[i][l] = tables[i][l]
            /\ i = at => l # IndexKey(r) /\ l # r.name
  <2> HIDE DEF at, r
  <2>1. tables \in [Ids -> [Keys -> Nodes \cup {None}]]
    BY DEF IInv, TypeOK
  <2> USE DEF T
  <2> QED BY <2>1, <1>1, <1>2, <1>5
\* The nodes that are freed are in this table, under the keys of the row.
<1>7. \A w \in P : /\ w \in Nodes /\ w.id \in Ids /\ w.by \in {"name", "number"}
                   /\ \E l \in {IndexKey(r), r.name} :
                        l \in Keys /\ tables[at][l] = w /\ w # None
  BY <1>5, NodesAreNodes
<1>8. ASSUME NEW i \in Ids, NEW l \in Keys, tables'[i][l] # None
      PROVE  tables[i][l].id # v.id /\ tables[i][l] \notin P
  <2>1. tables'[i][l] = tables[i][l] /\ (i = at => l # IndexKey(r) /\ l # r.name)
    BY <1>6, <1>8
  <2>2. IndexNodeKey(tables[i][l]) = l /\ tables[i][l] # None
    BY <1>8, <2>1 DEF IInv, TablesInv
  <2>3. CASE i = at
    <3>1. l # IndexKey(r) /\ l # r.name
      BY <2>1, <2>3
    <3>2. tables[i][l].id # v.id
      BY <3>1, <2>2 DEF IndexNodeKey, IndexKey
    <3>3. tables[i][l] \notin P
      <4> SUFFICES ASSUME tables[i][l] \in P PROVE FALSE
        OBVIOUS
      <4>1. PICK m \in {IndexKey(r), r.name} : m \in Keys /\ tables[at][m] = tables[i][l]
        BY <1>7
      <4>2. IndexNodeKey(tables[at][m]) = m
        BY <4>1, <2>2, <1>2 DEF IInv, TablesInv
      <4> QED BY <4>1, <4>2, <3>1, <2>2
    <3> QED BY <3>2, <3>3
  <2>4. CASE i # at
    <3>1. \A m \in Keys : tables[at][m] # None => tables[at][m].id # tables[i][l].id
      BY <2>2, <2>4, <1>2 DEF IInv, TablesInv
    <3>2. tables[i][l].id # v.id
      BY <3>1, <1>1
    <3>3. tables[i][l] \notin P
      BY <3>1, <1>7
    <3> QED BY <3>2, <3>3
  <2> QED BY <2>3, <2>4
<1>9. /\ memory' \in [Blocks -> {"unused", "live", "freed", "wild"}]
      /\ \A b \in Blocks : memory'[b] # "wild"
      /\ \A b \in Blocks : b \notin B => memory'[b] = memory[b]
  <2>1. memory[Block("index", v.id, "string")] = "live"
    BY <1>1, <1>2 DEF IInv, TablesInv
  <2>2. \A w \in P : memory[Block("index", w.id, w.by)] = "live"
    BY <1>2, <1>7 DEF IInv, TablesInv
  <2>3. \A b \in B : memory[b] = "live"
    BY <2>1, <2>2 DEF NodeBlocks
  <2>4. /\ memory \in [Blocks -> {"unused", "live", "freed", "wild"}]
        /\ \A b \in Blocks : memory[b] # "wild"
    BY DEF IInv, TypeOK, FreedOnce
  <2>5. memory' = Freed(memory, B)
    BY <1>1
  <2> HIDE DEF B
  <2> QED BY <2>3, <2>4, <2>5, FreeingLive
\* A block of a space, or of a node that is left, is not among them.
<1>10. \A id \in Ids, part \in {"name", "number", "string", "table"} :
            memory'[Block("space", id, part)] = memory[Block("space", id, part)]
  <2>1. \A id, part : Block("space", id, part).of = "space"
    BY DEF Block
  <2>2. \A b \in B : b.of = "index"
    BY DEF NodeBlocks, Block
  <2> QED BY <2>1, <2>2, <1>9, BlocksAreBlocks
<1>11. \A u \in Nodes : u.id # v.id /\ u \notin P =>
            /\ memory'[Block("index", u.id, u.by)] = memory[Block("index", u.id, u.by)]
            /\ memory'[Block("index", u.id, "string")] = memory[Block("index", u.id, "string")]
  <2> SUFFICES ASSUME NEW u \in Nodes, u.id # v.id, u \notin P
               PROVE  /\ memory'[Block("index", u.id, u.by)] = memory[Block("index", u.id, u.by)]
                      /\ memory'[Block("index", u.id, "string")] = memory[Block("index", u.id, "string")]
    OBVIOUS
  <2>1. u.id \in Ids /\ u.by \in {"name", "number"}
    BY NodesAreNodes
  <2>2. \A w \in P : w.id # u.id \/ w.by # u.by
    BY <1>7 DEF Nodes
  <2>3. Block("index", u.id, u.by) \notin B
    BY <2>1, <2>2, BlocksAreBlocks DEF NodeBlocks
  <2>4. Block("index", u.id, "string") \notin B
    <3>1. \A w \in P : w.by # "string"
      BY <1>7
    <3> QED BY <3>1, <2>1, BlocksAreBlocks DEF NodeBlocks
  <2> QED BY <2>1, <2>3, <2>4, <1>9, BlocksAreBlocks
<1>16. /\ flush'.at = flush.at /\ flush'.id = at /\ flush'.nodes = flush.nodes
       /\ flush' \in [at : {"no", "spaces", "indexes"}, id : Ids \cup {None},
                      nodes : SUBSET Nodes, swapped : SUBSET (Ids \cup {SpaceHash})]
  <2>1. PICK swapped \in MaySwap(at) : flush' = [flush EXCEPT !.swapped = swapped]
    BY <1>1
  <2>2. swapped \subseteq Ids \cup {SpaceHash}
    BY <2>1, <1>2 DEF MaySwap, IInv, TypeOK
  <2> QED BY <2>1, <2>2 DEF IInv, TypeOK
<1>12. TypeOK'
  BY <1>1, <1>2, <1>6, <1>9, <1>16 DEF IInv, TypeOK
<1>13. SpacesInv'
  <2>1. \A l \in Keys : spaces[l] # None =>
            spaces[l].id \in Ids /\ spaces[l].by \in {"name", "number"}
    BY Types, NodesAreNodes DEF IInv
  <2>2. ASSUME NEW l \in Keys, spaces'[l] # None
        PROVE  /\ rows'[spaces'[l].id] # None
               /\ SpaceNodeKey(spaces[l])' = l
               /\ memory'[Block("space", spaces'[l].id, spaces'[l].by)] = "live"
               /\ memory'[Block("space", spaces'[l].id, "string")] = "live"
               /\ memory'[Block("space", spaces'[l].id, "table")] = "live"
    <3> DEFINE u == spaces[l]
    <3>1. spaces' = spaces /\ rows' = rows /\ u # None
      BY <1>1, <2>2
    <3>2. /\ rows[u.id] # None /\ SpaceNodeKey(u) = l
          /\ memory[Block("space", u.id, u.by)] = "live"
          /\ memory[Block("space", u.id, "string")] = "live"
          /\ memory[Block("space", u.id, "table")] = "live"
      BY <3>1 DEF IInv, SpacesInv
    <3>3. /\ memory'[Block("space", u.id, u.by)] = "live"
          /\ memory'[Block("space", u.id, "string")] = "live"
          /\ memory'[Block("space", u.id, "table")] = "live"
      BY <3>1, <3>2, <2>1, <1>10
    <3>4. SpaceNodeKey(spaces[l])' = SpaceNodeKey(u)
      BY <3>1 DEF SpaceNodeKey
    <3> QED BY <3>1, <3>2, <3>3, <3>4
  <2> QED BY <2>2 DEF SpacesInv
<1>14. TablesInv'
  <2>1. ASSUME NEW i \in Ids, NEW l \in Keys, tables'[i][l] # None
        PROVE  /\ irows'[tables'[i][l].id] # None
               /\ IndexNodeKey(tables[i][l])' = l
               /\ memory'[Block("index", tables'[i][l].id, tables'[i][l].by)] = "live"
               /\ memory'[Block("index", tables'[i][l].id, "string")] = "live"
    <3> DEFINE u == tables[i][l]
    <3>1. tables'[i][l] = u /\ u # None /\ irows' = irows
      BY <1>1, <1>6, <2>1
    <3>2. u \in Nodes /\ u.id # v.id /\ u \notin P
      BY <2>1, <3>1, <1>8, Types DEF IInv
    <3>3. /\ irows[u.id] # None /\ IndexNodeKey(u) = l
          /\ memory[Block("index", u.id, u.by)] = "live"
          /\ memory[Block("index", u.id, "string")] = "live"
      BY <3>1 DEF IInv, TablesInv
    <3>4. /\ memory'[Block("index", u.id, u.by)] = "live"
          /\ memory'[Block("index", u.id, "string")] = "live"
      BY <3>2, <3>3, <1>11
    <3>5. IndexNodeKey(tables[i][l])' = IndexNodeKey(u)
      BY <3>1 DEF IndexNodeKey
    <3> QED BY <3>1, <3>3, <3>4, <3>5
  <2>2. \A i, j \in Ids, l, m \in Keys :
            /\ tables'[i][l] # None /\ tables'[j][m] # None
            /\ tables'[i][l].id = tables'[j][m].id
            => i = j
    BY <1>6 DEF IInv, TablesInv
  <2> QED BY <2>1, <2>2 DEF TablesInv
<1>15. FlushInv'
  <2>1. memory'[Block("space", at, "table")] = "live"
    BY <1>1, <1>2, <1>10 DEF IInv, FlushInv
  <2>2. \A w \in flush.nodes : memory'[Block("space", w.id, w.by)] = "live"
    <3>1. \A w \in flush.nodes : w.id \in Ids /\ w.by \in {"name", "number"}
      BY NodesAreNodes DEF IInv, TypeOK
    <3>2. \A w \in flush.nodes : memory[Block("space", w.id, w.by)] = "live"
      BY <1>1 DEF IInv, FlushInv
    <3> QED BY <3>1, <3>2, <1>10
  <2> QED BY <2>1, <2>2, <1>1, <1>2, <1>16 DEF IInv, FlushInv
<1> QED BY <1>9, <1>12, <1>13, <1>14, <1>15 DEF IInv, FreedOnce

LEMMA SpaceDoneStep == ASSUME IInv, SpaceDone PROVE IInv'
<1> DEFINE B == {Block("space", flush.id, "table")}
                    \cup NodeBlocks("space", flush.nodes)
<1>1. /\ flush.at = "indexes" /\ lost' \in BOOLEAN
      /\ memory' = Freed(memory, B)
      /\ flush' = [NoFlush EXCEPT !.at = "spaces", !.swapped = flush.swapped]
      /\ UNCHANGED <<catalog, late, spaces, rows, tables, irows, seen>>
  BY DEF SpaceDone
<1>2. /\ flush.id \in Ids
      /\ \A w \in flush.nodes : /\ w \in Nodes /\ w # None
                                /\ w.id \in Ids /\ w.by \in {"name", "number"}
  BY <1>1, NodesAreNodes DEF IInv, TypeOK
<1>3. /\ memory' \in [Blocks -> {"unused", "live", "freed", "wild"}]
      /\ \A b \in Blocks : memory'[b] # "wild"
      /\ \A b \in Blocks : b \notin B => memory'[b] = memory[b]
  <2>1. \A b \in B : memory[b] = "live"
    BY <1>1 DEF IInv, FlushInv, NodeBlocks
  <2>2. /\ memory \in [Blocks -> {"unused", "live", "freed", "wild"}]
        /\ \A b \in Blocks : memory[b] # "wild"
    BY DEF IInv, TypeOK, FreedOnce
  <2>3. memory' = Freed(memory, B)
    BY <1>1
  <2> HIDE DEF B
  <2> QED BY <2>1, <2>2, <2>3, FreeingLive
<1>4. /\ flush'.at = "spaces"
      /\ flush' \in [at : {"no", "spaces", "indexes"}, id : Ids \cup {None},
                     nodes : SUBSET Nodes, swapped : SUBSET (Ids \cup {SpaceHash})]
  BY <1>1 DEF NoFlush, IInv, TypeOK
<1>5. TypeOK'
  BY <1>1, <1>3, <1>4 DEF IInv, TypeOK
<1>6. ASSUME NEW l \in Keys, spaces'[l] # None
      PROVE  /\ rows'[spaces'[l].id] # None
             /\ SpaceNodeKey(spaces[l])' = l
             /\ memory'[Block("space", spaces'[l].id, spaces'[l].by)] = "live"
             /\ memory'[Block("space", spaces'[l].id, "string")] = "live"
             /\ memory'[Block("space", spaces'[l].id, "table")] = "live"
  <2> DEFINE u == spaces[l]
  <2>1. spaces' = spaces /\ rows' = rows /\ u # None
    BY <1>1, <1>6
  <2>2. u \in Nodes /\ u.id \in Ids /\ u.by \in {"name", "number"}
    BY <2>1, Types, NodesAreNodes DEF IInv
  <2>3. u.id # flush.id /\ u \notin flush.nodes
    BY <2>1, <1>1 DEF IInv, FlushInv
  <2>4. \A w \in flush.nodes : w.id # u.id \/ w.by # u.by
    BY <2>2, <2>3, <1>2 DEF Nodes
  <2>5. Block("space", u.id, u.by) \notin B
    BY <2>2, <2>3, <2>4, BlocksAreBlocks DEF NodeBlocks
  <2>6. Block("space", u.id, "string") \notin B /\ Block("space", u.id, "table") \notin B
    <3>1. \A w \in flush.nodes : w.by # "string" /\ w.by # "table"
      BY <1>2
    <3> QED BY <3>1, <2>2, <2>3, BlocksAreBlocks DEF NodeBlocks
  <2>7. /\ rows[u.id] # None /\ SpaceNodeKey(u) = l
        /\ memory[Block("space", u.id, u.by)] = "live"
        /\ memory[Block("space", u.id, "string")] = "live"
        /\ memory[Block("space", u.id, "table")] = "live"
    BY <2>1 DEF IInv, SpacesInv
  <2>8. /\ memory'[Block("space", u.id, u.by)] = "live"
        /\ memory'[Block("space", u.id, "string")] = "live"
        /\ memory'[Block("space", u.id, "table")] = "live"
    BY <2>2, <2>5, <2>6, <2>7, <1>3, BlocksAreBlocks
  <2>9. SpaceNodeKey(spaces[l])' = SpaceNodeKey(u)
    BY <2>1 DEF SpaceNodeKey
  <2> QED BY <2>1, <2>7, <2>8, <2>9
<1>7. SpacesInv'
  BY <1>6 DEF SpacesInv
<1>8. ASSUME NEW i \in Ids, NEW l \in Keys, tables'[i][l] # None
      PROVE  /\ irows'[tables'[i][l].id] # None
             /\ IndexNodeKey(tables[i][l])' = l
             /\ memory'[Block("index", tables'[i][l].id, tables'[i][l].by)] = "live"
             /\ memory'[Block("index", tables'[i][l].id, "string")] = "live"
  <2> DEFINE u == tables[i][l]
  <2>1. tables' = tables /\ irows' = irows /\ u # None
    BY <1>1, <1>8
  <2>2. u.id \in Ids /\ u.by \in {"name", "number"}
    BY <2>1, Types, NodesAreNodes DEF IInv
  <2>3. /\ irows[u.id] # None /\ IndexNodeKey(u) = l
        /\ memory[Block("index", u.id, u.by)] = "live"
        /\ memory[Block("index", u.id, "string")] = "live"
    BY <2>1 DEF IInv, TablesInv
  <2>4. \A b \in B : b.of = "space"
    BY DEF NodeBlocks, Block
  <2>5. \A part : Block("index", u.id, part).of = "index"
    BY DEF Block
  <2>6. /\ memory'[Block("index", u.id, u.by)] = "live"
        /\ memory'[Block("index", u.id, "string")] = "live"
    BY <2>2, <2>3, <2>4, <2>5, <1>3, BlocksAreBlocks
  <2>7. IndexNodeKey(tables[i][l])' = IndexNodeKey(u)
    BY <2>1 DEF IndexNodeKey
  <2> QED BY <2>1, <2>3, <2>6, <2>7
<1>9. TablesInv'
  <2>1. \A i, j \in Ids, l, m \in Keys :
            /\ tables'[i][l] # None /\ tables'[j][m] # None
            /\ tables'[i][l].id = tables'[j][m].id
            => i = j
    BY <1>1 DEF IInv, TablesInv
  <2> QED BY <2>1, <1>8 DEF TablesInv
<1> QED BY <1>3, <1>4, <1>5, <1>7, <1>9 DEF IInv, FreedOnce, FlushInv

\* A step that changes no node, no row and no block.
LEMMA CacheUnchanged ==
    ASSUME IInv, TypeOK', UNCHANGED <<spaces, rows, tables, irows, memory>>,
           flush' = flush \/ flush'.at # "indexes"
    PROVE  IInv'
<1>1. SpacesInv'
  BY DEF IInv, SpacesInv, SpaceNodeKey
<1>2. TablesInv'
  BY DEF IInv, TablesInv, IndexNodeKey
<1>3. FlushInv'
  BY DEF IInv, FlushInv
<1> QED BY <1>1, <1>2, <1>3 DEF IInv, FreedOnce

LEMMA NextIInv == IInv /\ [Next]_vars => IInv'
<1> SUFFICES ASSUME IInv, [Next]_vars PROVE IInv'
  OBVIOUS
<1>1. ASSUME NEW c \in Catalogs, Change(c) PROVE IInv'
  <2>1. TypeOK'
    BY <1>1 DEF IInv, TypeOK, Change
  <2> QED BY <2>1, <1>1, CacheUnchanged DEF Change
<1>10. ASSUME NEW c \in Catalogs, FallsDue(c) PROVE IInv'
  <2>1. And(late, c) \in [spaces : SUBSET Row, indexes : SUBSET Row]
    BY CatalogsAssumption DEF And, IInv, TypeOK
  <2>2. TypeOK'
    BY <1>10, <2>1 DEF IInv, TypeOK, FallsDue
  <2> QED BY <2>2, <1>10, CacheUnchanged DEF FallsDue
<1>11. CASE NothingDue
  <2>1. TypeOK'
    BY <1>11 DEF IInv, TypeOK, NothingDue, NoRows
  <2> QED BY <2>1, <1>11, CacheUnchanged DEF NothingDue
<1>2. ASSUME NEW r \in Told.spaces, AddSpace(r) PROVE IInv'
  BY <1>2, AddSpaceStep
<1>3. ASSUME NEW r \in Told.indexes, AddIndex(r) PROVE IInv'
  BY <1>3, AddIndexStep
<1>4. CASE FlushBegins
  <2>1. /\ flush'.at = "spaces"
        /\ flush' \in [at : {"no", "spaces", "indexes"}, id : Ids \cup {None},
                       nodes : SUBSET Nodes, swapped : SUBSET (Ids \cup {SpaceHash})]
    BY <1>4 DEF FlushBegins, NoFlush
  <2>2. TypeOK'
    BY <1>4, <2>1 DEF IInv, TypeOK, FlushBegins
  <2> QED BY <2>1, <2>2, <1>4, CacheUnchanged DEF FlushBegins
<1>5. ASSUME NEW k \in Keys, VisitSpace(k) PROVE IInv'
  BY <1>5, VisitSpaceStep
<1>6. ASSUME NEW k \in Keys, VisitIndex(k) PROVE IInv'
  BY <1>6, VisitIndexStep
<1>7. CASE SpaceDone
  BY <1>7, SpaceDoneStep
<1>8. CASE FlushEnds
  <2>1. /\ flush'.at = "no"
        /\ flush' \in [at : {"no", "spaces", "indexes"}, id : Ids \cup {None},
                       nodes : SUBSET Nodes, swapped : SUBSET (Ids \cup {SpaceHash})]
    BY <1>8 DEF FlushEnds, Over, NoFlush
  <2>2. TypeOK'
    BY <1>8, <2>1 DEF IInv, TypeOK, FlushEnds, Over
  <2> QED BY <2>1, <2>2, <1>8, CacheUnchanged DEF FlushEnds, Over
<1>9. CASE UNCHANGED vars
  <2>1. TypeOK'
    BY <1>9 DEF IInv, TypeOK, vars
  <2> QED BY <2>1, <1>9, CacheUnchanged DEF vars
<1> QED BY <1>1, <1>2, <1>3, <1>4, <1>5, <1>6, <1>7, <1>8, <1>9, <1>10, <1>11
        DEF Next

THEOREM Invariance == Spec => []IInv
<1>1. Init => IInv
  BY InitIInv
<1>2. IInv /\ [Next]_vars => IInv'
  BY NextIInv
<1> QED BY <1>1, <1>2, PTL DEF Spec

-----------------------------------------------------------------------------
(* The theorems.                                                           *)

LEMMA IInvNoDangling == IInv => NoDangling
<1> SUFFICES ASSUME IInv PROVE NoDangling
  OBVIOUS
<1>1. \A i \in Ids : \A w \in {tables[i][k] : k \in Keys} \ {None} :
        Live("index", w.id, {w.by, "string"})
  BY DEF IInv, TablesInv, Live
<1>2. \A v \in {spaces[k] : k \in Keys} \ {None} :
        v.id \in Ids /\ Live("space", v.id, {v.by, "string", "table"})
  <2>1. \A k \in Keys : spaces[k] # None => spaces[k].id \in Ids
    BY Types, NodesAreNodes DEF IInv
  <2> QED BY <2>1 DEF IInv, SpacesInv, Live
<1>3. flush.at = "indexes" =>
        /\ flush.id \in Ids
        /\ Live("space", flush.id, {"table"})
        /\ \A v \in flush.nodes : Live("space", v.id, {v.by})
  BY DEF IInv, FlushInv, Live
<1> QED BY <1>1, <1>2, <1>3 DEF NoDangling

\* Whatever was added, replaced and deleted before, and wherever a flush is
\* (schema_space_free, schema_index_free): every node that can be reached, its
\* string and its table are allocated.
THEOREM NoDanglingHolds == Spec => []NoDangling
<1>1. IInv => NoDangling
  BY IInvNoDangling
<1> QED BY <1>1, Invariance, PTL

\* No block is freed twice: the two nodes of a row, the string they share and
\* the table they share, for any order of visits.
THEOREM FreedOnceHolds == Spec => []FreedOnce
<1>1. IInv => FreedOnce
  BY DEF IInv
<1> QED BY <1>1, Invariance, PTL

\* The variables have their types in every reachable state.
THEOREM TypeCorrect == Spec => []TypeOK
<1>1. IInv => TypeOK
  BY DEF IInv
<1> QED BY <1>1, Invariance, PTL
-----------------------------------------------------------------------------
(* What a name stands for.                                                 *)

\* No name has the bytes of a number.
NamesAreNotNumbers == \A n \in SpaceNos \cup IndexNos : Bytes[n] \notin Names

\* The rows that can be found, in the table of the spaces or in a table that is
\* reached from there, were told or due since the last flush, and a table has
\* the indexes of one space.
SeenInv ==
    /\ Told.spaces \subseteq seen.spaces
    /\ Told.indexes \subseteq seen.indexes
    /\ \A k \in Keys : spaces[k] # None =>
        /\ rows[spaces[k].id] \in seen.spaces
        /\ \A l \in Keys : tables[spaces[k].id][l] # None =>
            irows[tables[spaces[k].id][l].id] \in seen.indexes
    /\ \A i \in Ids, l \in Keys : tables[i][l] # None =>
        /\ rows[i] # None
        /\ irows[tables[i][l].id].sno = rows[i].sno

LEMMA InitSeen == Init => SeenInv
BY DEF Init, SeenInv, NoTable, Told, And, NoRows

\* The node under the bytes of a number is a node of the space of that number,
\* and the node under a name one of that name.
LEMMA NodeOfNumber ==
    ASSUME IInv, NamesAreNotNumbers, NEW n \in SpaceNos, spaces[Bytes[n]] # None
    PROVE  rows[spaces[Bytes[n]].id] \in Row /\ rows[spaces[Bytes[n]].id].sno = n
<1> DEFINE v == spaces[Bytes[n]]
<1>1. Bytes[n] \in Keys /\ Bytes[n] \notin Names
  BY DEF Keys, NamesAreNotNumbers
<1>2. /\ v \in Nodes /\ v.id \in Ids /\ rows[v.id] # None
      /\ SpaceNodeKey(v) = Bytes[n]
  BY <1>1, Types, NodesAreNodes DEF IInv, SpacesInv
<1>3. rows[v.id] \in Row
  BY <1>2, Types DEF IInv
<1>4. rows[v.id].name \in Names /\ rows[v.id].sno \in SpaceNos
  BY <1>3, KeysAreKeys
<1>5. Bytes[rows[v.id].sno] = Bytes[n]
  BY <1>1, <1>2, <1>4 DEF SpaceNodeKey
<1> QED BY <1>3, <1>4, <1>5, BytesAssumption

LEMMA AddSpaceSeen ==
    ASSUME IInv, SeenInv, NEW r \in Told.spaces, AddSpace(r)
    PROVE  SeenInv'
<1>1. PICK id \in Fresh(rows, Ids) :
        /\ spaces' = Added(spaces, SpaceKey(r), r, id)
        /\ rows' = [rows EXCEPT ![id] = r]
  BY DEF AddSpace
<1>2. UNCHANGED <<catalog, late, tables, irows, seen>>
  BY DEF AddSpace
<1>3. id \in Ids /\ rows[id] = None /\ r \in Row /\ SpaceKey(r) \in Keys
  BY Types, KeysAreKeys, IdsAssumption DEF IInv, Fresh, SpaceKey
<1>4. /\ rows'[id] = r
      /\ \A i \in Ids : rows[i] # None => rows'[i] = rows[i]
  BY <1>1, <1>3 DEF IInv, TypeOK
<1>5. ASSUME NEW k \in Keys, spaces'[k] # None
      PROVE  \/ spaces'[k].id = id
             \/ spaces[k] # None /\ spaces'[k] = spaces[k]
  <2>1. \/ spaces'[k] = spaces[k]
        \/ spaces'[k] = [id |-> id, by |-> "number"]
        \/ spaces'[k] = [id |-> id, by |-> "name"]
    <3>1. spaces \in [Keys -> Nodes \cup {None}]
      BY DEF IInv, TypeOK
    <3>2. spaces' = Added(spaces, SpaceKey(r), r, id)
      BY <1>1
    <3> QED BY <3>1, <3>2, <1>3, AddedNodes
  <2> QED BY <2>1, <1>5
<1>6. ASSUME NEW k \in Keys, spaces'[k] # None
      PROVE  /\ rows'[spaces'[k].id] \in seen'.spaces
             /\ \A l \in Keys : tables'[spaces'[k].id][l] # None =>
                    irows'[tables'[spaces'[k].id][l].id] \in seen'.indexes
  <2>1. CASE spaces'[k].id = id
    <3>1. \A l \in Keys : tables[id][l] = None
      BY <1>3 DEF SeenInv
    <3>2. r \in seen.spaces
      BY DEF SeenInv
    <3> QED BY <2>1, <3>1, <3>2, <1>2, <1>4
  <2>2. CASE spaces[k] # None /\ spaces'[k] = spaces[k]
    <3>1. spaces[k].id \in Ids /\ rows[spaces[k].id] # None
      BY <2>2, Types, NodesAreNodes DEF IInv, SpacesInv
    <3> QED BY <2>2, <3>1, <1>2, <1>4 DEF SeenInv
  <2> QED BY <2>1, <2>2, <1>5, <1>6
<1>7. \A i \in Ids, l \in Keys : tables'[i][l] # None =>
        rows'[i] # None /\ irows'[tables'[i][l].id].sno = rows'[i].sno
  BY <1>2, <1>4 DEF SeenInv
<1> QED BY <1>2, <1>6, <1>7 DEF SeenInv, Told

LEMMA AddIndexSeen ==
    ASSUME IInv, SeenInv, NamesAreNotNumbers,
           NEW r \in Told.indexes, AddIndex(r)
    PROVE  SeenInv'
<1> DEFINE at == spaces[SpaceKey(r)].id
<1>1. PICK id \in Fresh(irows, IndexIds) :
        /\ tables' = [tables EXCEPT ![at] = Added(@, IndexKey(r), r, id)]
        /\ irows' = [irows EXCEPT ![id] = r]
  BY DEF AddIndex
<1>2. spaces[SpaceKey(r)] # None /\ UNCHANGED <<catalog, late, spaces, rows, seen>>
  BY DEF AddIndex
<1>3. /\ id \in Ids /\ irows[id] = None /\ r \in Row /\ r \in seen.indexes
      /\ IndexKey(r) \in Keys /\ SpaceKey(r) \in Keys /\ r.sno \in SpaceNos
  BY Types, KeysAreKeys, IdsAssumption DEF IInv, Fresh, IndexKey, SpaceKey, SeenInv
\* The table is that of the space of the row.
<1>4. at \in Ids /\ rows[at] # None /\ rows[at].sno = r.sno
  <2>1. at \in Ids /\ rows[at] # None
    BY <1>2, <1>3, Types, NodesAreNodes DEF IInv, SpacesInv
  <2> QED BY <2>1, <1>2, <1>3, NodeOfNumber DEF SpaceKey
<1> HIDE DEF at
<1>5. /\ irows'[id] = r
      /\ \A i \in Ids : irows[i] # None => irows'[i] = irows[i]
  BY <1>1, <1>3 DEF IInv, TypeOK
<1>6. ASSUME NEW i \in Ids, NEW l \in Keys, tables'[i][l] # None
      PROVE  \/ i = at /\ tables'[i][l].id = id
             \/ /\ tables[i][l] # None /\ tables'[i][l] = tables[i][l]
                /\ irows'[tables'[i][l].id] = irows[tables[i][l].id]
  <2>1. tables[at] \in [Keys -> Nodes \cup {None}]
    BY <1>4 DEF IInv, TypeOK
  <2>2. i # at => tables'[i][l] = tables[i][l]
    BY <1>1 DEF IInv, TypeOK
  <2>3. i = at => tables'[i] = Added(tables[at], IndexKey(r), r, id)
    BY <1>1, <1>4 DEF IInv, TypeOK
  <2>4. \/ tables'[i][l] = tables[i][l]
        \/ i = at /\ tables'[i][l] = [id |-> id, by |-> "number"]
        \/ i = at /\ tables'[i][l] = [id |-> id, by |-> "name"]
    BY <2>1, <2>2, <2>3, <1>3, AddedNodes
  <2>5. ASSUME tables'[i][l] = tables[i][l]
        PROVE  irows'[tables[i][l].id] = irows[tables[i][l].id]
    <3>1. tables[i][l].id \in Ids /\ irows[tables[i][l].id] # None
      BY <2>5, <1>6, Types, NodesAreNodes DEF IInv, TablesInv
    <3> QED BY <3>1, <1>5
  <2> QED BY <2>4, <2>5, <1>6
<1>7. ASSUME NEW k \in Keys, spaces[k] # None
      PROVE  /\ rows[spaces[k].id] \in seen.spaces
             /\ \A l \in Keys : tables'[spaces[k].id][l] # None =>
                    irows'[tables'[spaces[k].id][l].id] \in seen.indexes
  <2>1. spaces[k].id \in Ids
    BY <1>7, Types, NodesAreNodes DEF IInv
  <2> QED BY <2>1, <1>3, <1>5, <1>6, <1>7 DEF SeenInv
<1>8. \A i \in Ids, l \in Keys : tables'[i][l] # None =>
        rows[i] # None /\ irows'[tables'[i][l].id].sno = rows[i].sno
  BY <1>4, <1>5, <1>6 DEF SeenInv
<1> QED BY <1>2, <1>7, <1>8 DEF SeenInv, Told

\* A step that adds nothing, to a cache from which nodes may be taken.
LEMMA LessSeen ==
    ASSUME SeenInv, UNCHANGED <<rows, irows>>,
           Told'.spaces \subseteq seen'.spaces, Told'.indexes \subseteq seen'.indexes,
           seen.spaces \subseteq seen'.spaces, seen.indexes \subseteq seen'.indexes,
           \A k \in Keys : spaces'[k] # None => spaces'[k] = spaces[k],
           \A i \in Ids, l \in Keys :
                tables'[i][l] # None => tables'[i][l] = tables[i][l],
           \A k \in Keys : spaces[k] # None => spaces[k].id \in Ids
    PROVE  SeenInv'
<1>1. ASSUME NEW k \in Keys, spaces'[k] # None
      PROVE  /\ rows[spaces'[k].id] \in seen'.spaces
             /\ \A l \in Keys : tables'[spaces'[k].id][l] # None =>
                    irows[tables'[spaces'[k].id][l].id] \in seen'.indexes
  BY <1>1 DEF SeenInv
<1>2. \A i \in Ids, l \in Keys : tables'[i][l] # None =>
        rows[i] # None /\ irows[tables'[i][l].id].sno = rows[i].sno
  BY DEF SeenInv
<1> QED BY <1>1, <1>2 DEF SeenInv

LEMMA NextSeen ==
    ASSUME IInv, SeenInv, NamesAreNotNumbers, [Next]_vars
    PROVE  SeenInv'
<1>1. \A k \in Keys : spaces[k] # None => spaces[k].id \in Ids
  BY Types, NodesAreNodes DEF IInv
\* What is told stays seen.
<1>2. UNCHANGED <<catalog, late, seen>> =>
        /\ Told'.spaces \subseteq seen'.spaces /\ Told'.indexes \subseteq seen'.indexes
        /\ seen.spaces \subseteq seen'.spaces /\ seen.indexes \subseteq seen'.indexes
  BY DEF SeenInv, Told
<1>3. ASSUME NEW c \in Catalogs, Change(c) \/ FallsDue(c) PROVE SeenInv'
  <2>1. /\ UNCHANGED <<spaces, rows, tables, irows>>
        /\ seen'.spaces = seen.spaces \cup c.spaces
        /\ seen'.indexes = seen.indexes \cup c.indexes
        /\ Told'.spaces \subseteq Told.spaces \cup c.spaces
        /\ Told'.indexes \subseteq Told.indexes \cup c.indexes
    BY <1>3 DEF Change, FallsDue, Told, And
  <2> QED BY <2>1, <1>1, LessSeen DEF SeenInv
<1>4. CASE NothingDue
  <2>1. /\ UNCHANGED <<spaces, rows, tables, irows, seen>>
        /\ Told'.spaces \subseteq Told.spaces /\ Told'.indexes \subseteq Told.indexes
    BY <1>4 DEF NothingDue, NoRows, Told, And
  <2> QED BY <2>1, <1>1, LessSeen DEF SeenInv
<1>5. ASSUME NEW r \in Told.spaces, AddSpace(r) PROVE SeenInv'
  BY <1>5, AddSpaceSeen
<1>6. ASSUME NEW r \in Told.indexes, AddIndex(r) PROVE SeenInv'
  BY <1>6, AddIndexSeen
<1>7. ASSUME NEW k \in Keys, VisitSpace(k) PROVE SeenInv'
  <2>1. /\ spaces' = Without(spaces, SpaceKey(rows[spaces[k].id]), rows[spaces[k].id])
        /\ UNCHANGED <<catalog, late, rows, tables, irows, seen>>
    BY <1>7 DEF VisitSpace
  <2>2. \A l \in Keys : spaces'[l] # None => spaces'[l] = spaces[l]
    BY <2>1 DEF Without
  <2> QED BY <2>1, <2>2, <1>1, <1>2, LessSeen
<1>8. ASSUME NEW k \in Keys, VisitIndex(k) PROVE SeenInv'
  <2>1. PICK key, r : tables' = [tables EXCEPT ![flush.id] = Without(@, key, r)]
    BY <1>8 DEF VisitIndex
  <2>2. UNCHANGED <<catalog, late, spaces, rows, irows, seen>>
    BY <1>8 DEF VisitIndex
  <2>3. \A i \in Ids, l \in Keys :
            tables'[i][l] # None => tables'[i][l] = tables[i][l]
    BY <2>1 DEF Without, IInv, TypeOK
  <2> QED BY <2>2, <2>3, <1>1, <1>2, LessSeen
<1>9. CASE FlushBegins \/ SpaceDone \/ UNCHANGED vars
  <2>1. UNCHANGED <<catalog, late, spaces, rows, tables, irows, seen>>
    BY <1>9 DEF FlushBegins, SpaceDone, vars
  <2> QED BY <2>1, <1>1, <1>2, LessSeen
<1>10. CASE FlushEnds /\ SpaceHash \in flush.swapped
  <2>1. UNCHANGED <<catalog, late, spaces, rows, tables, irows, seen>>
    BY <1>10 DEF FlushEnds, Over
  <2> QED BY <2>1, <1>1, <1>2, LessSeen
\* A flush that no resize disturbed has left nothing.
<1>11. CASE FlushEnds /\ SpaceHash \notin flush.swapped
  <2>1. /\ spaces = NoTable /\ seen' = Told
        /\ UNCHANGED <<catalog, late, spaces, rows, tables, irows>>
    BY <1>11 DEF FlushEnds, Over
  <2>2. (\A k \in Keys : spaces'[k] = None) /\ Told' = Told
    BY <2>1 DEF NoTable, Told
  <2> QED BY <2>1, <2>2 DEF SeenInv
<1> QED BY <1>3, <1>4, <1>5, <1>6, <1>7, <1>8, <1>9, <1>10, <1>11 DEF Next

LEMMA SeenIsSince ==
    ASSUME IInv, SeenInv, NamesAreNotNumbers
    PROVE  SinceFlush
<1>1. ASSUME NEW n \in Names, Sid(n) # NoId
      PROVE  \E r \in seen.spaces : r.name = n /\ r.sno = Sid(n)
  <2> DEFINE v == spaces[n]
  <2>1. n \in Keys /\ v # None /\ Sid(n) = rows[v.id].sno
    BY <1>1 DEF Sid, Keys
  <2>2. v \in Nodes /\ v.id \in Ids /\ rows[v.id] # None /\ SpaceNodeKey(v) = n
    BY <2>1, Types, NodesAreNodes DEF IInv, SpacesInv
  <2>3. rows[v.id].sno \in SpaceNos
    BY <2>2, Types, KeysAreKeys DEF IInv
  <2>4. rows[v.id].name = n
    BY <2>2, <2>3 DEF SpaceNodeKey, NamesAreNotNumbers
  <2> QED BY <2>1, <2>4 DEF SeenInv
<1>2. ASSUME NEW s \in SpaceNos, NEW n \in Names, Iid(s, n) # NoId
      PROVE  [sno |-> s, num |-> Iid(s, n), name |-> n] \in seen.indexes
  <2> DEFINE at == spaces[Bytes[s]].id
             w  == tables[at][n]
             r  == irows[w.id]
  <2>1. /\ n \in Keys /\ Bytes[s] \in Keys
        /\ spaces[Bytes[s]] # None /\ w # None /\ Iid(s, n) = r.num
    BY <1>2 DEF Iid, Keys
  <2>2. at \in Ids /\ rows[at].sno = s
    BY <2>1, NodeOfNumber, Types, NodesAreNodes DEF IInv
  <2>3. /\ w \in Nodes /\ w.id \in Ids /\ r # None /\ IndexNodeKey(w) = n
        /\ r \in seen.indexes /\ r.sno = s
    BY <2>1, <2>2, Types, NodesAreNodes DEF IInv, TablesInv, SeenInv
  <2>4. r \in Row
    BY <2>3, Types DEF IInv
  <2>5. r.num \in IndexNos
    BY <2>4, KeysAreKeys
  <2>6. r.name = n
    BY <2>3, <2>5 DEF IndexNodeKey, NamesAreNotNumbers
  <2>7. r = [sno |-> s, num |-> Iid(s, n), name |-> n]
    <3> HIDE DEF r, w, at
    <3> QED BY <2>1, <2>3, <2>4, <2>6 DEF Row
  <2> QED BY <2>3, <2>7
<1> QED BY <1>1, <1>2 DEF SinceFlush

\* What the cache answers for a name (bee_schema_get_sid_by_string,
\* bee_schema_get_iid_by_string) is what a row said that the server had, or that
\* an answer brought or was to bring, since the last flush in which no resize of
\* the spaces ended, whatever rows replaced each other, unless a name has the
\* bytes of a number.
THEOREM SinceFlushHolds == NamesAreNotNumbers => (Spec => []SinceFlush)
<1> SUFFICES ASSUME NamesAreNotNumbers PROVE Spec => []SinceFlush
  OBVIOUS
<1>1. Init => SeenInv
  BY InitSeen
<1>2. IInv /\ SeenInv /\ [Next]_vars => SeenInv'
  BY NextSeen
<1>3. IInv /\ SeenInv => SinceFlush
  BY SeenIsSince
<1> QED BY <1>1, <1>2, <1>3, Invariance, PTL DEF Spec

-----------------------------------------------------------------------------
(* The nodes are a cache of names and numbers.                             *)

\* What is put under a name and under a number stays apart.
LEMMA AddedLooks ==
    ASSUME NamesAreNotNumbers, NEW table \in [Keys -> Nodes \cup {None}],
           NEW m \in SpaceNos \cup IndexNos, NEW r \in Row, NEW id \in Ids,
           NEW new, new = Added(table, Bytes[m], r, id)
    PROVE  /\ \A n \in Names :
                new[n] = IF n = r.name THEN [id |-> id, by |-> "name"]
                         ELSE table[n]
           /\ \A l \in SpaceNos \cup IndexNos :
                new[Bytes[l]] = IF l = m THEN [id |-> id, by |-> "number"]
                                ELSE table[Bytes[l]]
<1>1. r.name \in Keys /\ Bytes[m] \in Keys /\ r.name \in Names
  BY DEF Keys, Row
<1>2. \A n \in Names : n \in Keys /\ n # Bytes[m]
  BY DEF Keys, NamesAreNotNumbers
<1>3. \A l \in SpaceNos \cup IndexNos :
        Bytes[l] \in Keys /\ Bytes[l] # r.name /\ (Bytes[l] = Bytes[m] <=> l = m)
  BY <1>1, BytesAssumption DEF Keys, NamesAreNotNumbers
<1> QED BY <1>1, <1>2, <1>3 DEF Added

CacheInv == IInv /\ SeenInv

NoNames == [n \in Names |-> NoId]

\* The number a name stands for, and that of an index, were read from a row that
\* stays where it is.
LEMMA Looks ==
    ASSUME CacheInv, NEW k \in Keys, spaces[k] # None
    PROVE  /\ spaces[k].id \in Ids /\ rows[spaces[k].id] # None
           /\ \A l \in Keys : tables[spaces[k].id][l] # None =>
                tables[spaces[k].id][l].id \in Ids
                /\ irows[tables[spaces[k].id][l].id] # None
BY Types, NodesAreNodes DEF CacheInv, IInv, SpacesInv, TablesInv

LEMMA AddSpaceCaches ==
    ASSUME CacheInv, NamesAreNotNumbers, NEW r \in Told.spaces, AddSpace(r)
    PROVE  Contents' = [sid   |-> [n \in Names |-> IF n = r.name THEN r.sno ELSE Sid(n)],
                        known |-> Contents.known \cup {r.sno},
                        iid   |-> [s \in SpaceNos |-> IF s = r.sno THEN NoNames
                                                      ELSE Contents.iid[s]]]
<1>1. PICK id \in Fresh(rows, Ids) :
        /\ spaces' = Added(spaces, Bytes[r.sno], r, id)
        /\ rows' = [rows EXCEPT ![id] = r]
  BY DEF AddSpace, SpaceKey
<1>2. UNCHANGED <<tables, irows>>
  BY DEF AddSpace
<1>3. /\ id \in Ids /\ rows[id] = None /\ r \in Row
      /\ r.sno \in SpaceNos /\ r.name \in Names
      /\ spaces \in [Keys -> Nodes \cup {None}]
  BY Types, KeysAreKeys, IdsAssumption DEF CacheInv, IInv, Fresh, TypeOK
<1>4. /\ rows'[id] = r
      /\ \A i \in Ids : rows[i] # None => rows'[i] = rows[i]
  BY <1>1, <1>3 DEF CacheInv, IInv, TypeOK
<1>5. /\ \A n \in Names :
            spaces'[n] = IF n = r.name THEN [id |-> id, by |-> "name"]
                         ELSE spaces[n]
      /\ \A s \in SpaceNos :
            spaces'[Bytes[s]] = IF s = r.sno THEN [id |-> id, by |-> "number"]
                                ELSE spaces[Bytes[s]]
  BY <1>1, <1>3, AddedLooks
<1>6. \A v \in {[id |-> id, by |-> "name"], [id |-> id, by |-> "number"]} :
        v # None /\ v.id = id
  BY <1>3, NodesAreNodes DEF Nodes
<1>7. \A n \in Names : Sid(n)' = IF n = r.name THEN r.sno ELSE Sid(n)
  <2> TAKE n \in Names
  <2>1. CASE n = r.name
    BY <2>1, <1>4, <1>5, <1>6 DEF Sid
  <2>2. CASE n # r.name
    <3>1. n \in Keys /\ spaces'[n] = spaces[n]
      BY <2>2, <1>5 DEF Keys
    <3> QED BY <2>2, <3>1, <1>4, Looks DEF Sid
  <2> QED BY <2>1, <2>2
<1>8. {s \in SpaceNos : spaces'[Bytes[s]] # None}
        = {s \in SpaceNos : spaces[Bytes[s]] # None} \cup {r.sno}
  BY <1>3, <1>5, <1>6
<1>9. \A s \in SpaceNos, n \in Names :
        Iid(s, n)' = IF s = r.sno THEN NoId ELSE Iid(s, n)
  <2> TAKE s \in SpaceNos, n \in Names
  <2>1. CASE s = r.sno
    <3>1. spaces'[Bytes[s]] # None /\ spaces'[Bytes[s]].id = id
      BY <2>1, <1>5, <1>6
    <3>2. tables'[id][n] = None
      BY <1>2, <1>3 DEF CacheInv, SeenInv, Keys
    <3> QED BY <2>1, <3>1, <3>2 DEF Iid
  <2>2. CASE s # r.sno
    <3>1. spaces'[Bytes[s]] = spaces[Bytes[s]]
      BY <2>2, <1>5
    <3> QED BY <2>2, <3>1, <1>2 DEF Iid
  <2> QED BY <2>1, <2>2
<1>10. \A s \in SpaceNos :
        [n \in Names |-> Iid(s, n)'] = IF s = r.sno THEN NoNames ELSE Contents.iid[s]
  BY <1>9 DEF NoNames, Contents
<1> QED BY <1>7, <1>8, <1>10 DEF Contents

LEMMA AddIndexCaches ==
    ASSUME CacheInv, NamesAreNotNumbers, NEW r \in Told.indexes, AddIndex(r)
    PROVE  /\ r.sno \in Contents.known
           /\ Contents' = [Contents EXCEPT !.iid =
                [s \in SpaceNos |-> [n \in Names |->
                    IF s = r.sno /\ n = r.name THEN r.num ELSE Iid(s, n)]]]
<1> DEFINE at == spaces[Bytes[r.sno]].id
<1>1. PICK id \in Fresh(irows, IndexIds) :
        /\ tables' = [tables EXCEPT ![at] = Added(@, Bytes[r.num], r, id)]
        /\ irows' = [irows EXCEPT ![id] = r]
  BY DEF AddIndex, SpaceKey, IndexKey
<1>2. spaces[Bytes[r.sno]] # None /\ UNCHANGED <<spaces, rows>>
  BY DEF AddIndex, SpaceKey
<1>3. /\ id \in Ids /\ irows[id] = None /\ r \in Row
      /\ r.sno \in SpaceNos /\ r.num \in IndexNos /\ r.name \in Names
      /\ \A s \in SpaceNos : Bytes[s] \in Keys
  BY Types, KeysAreKeys, IdsAssumption DEF CacheInv, IInv, Fresh, Keys
<1>4. at \in Ids /\ tables[at] \in [Keys -> Nodes \cup {None}]
  BY <1>2, <1>3, Looks DEF CacheInv, IInv, TypeOK
<1>5. /\ irows'[id] = r
      /\ \A i \in Ids : irows[i] # None => irows'[i] = irows[i]
  BY <1>1, <1>3 DEF CacheInv, IInv, TypeOK
\* No other space has this table.
<1>6. ASSUME NEW s \in SpaceNos, spaces[Bytes[s]] # None, spaces[Bytes[s]].id = at
      PROVE  s = r.sno
  BY <1>2, <1>3, <1>6, NodeOfNumber DEF CacheInv
<1> HIDE DEF at
<1>7. /\ \A i \in Ids : i # at => tables'[i] = tables[i]
      /\ \A n \in Names :
            tables'[at][n] = IF n = r.name THEN [id |-> id, by |-> "name"]
                             ELSE tables[at][n]
  <2>1. tables'[at] = Added(tables[at], Bytes[r.num], r, id)
    BY <1>1, <1>4 DEF CacheInv, IInv, TypeOK
  <2>2. \A i \in Ids : i # at => tables'[i] = tables[i]
    BY <1>1 DEF CacheInv, IInv, TypeOK
  <2>3. \A n \in Names :
            tables'[at][n] = IF n = r.name THEN [id |-> id, by |-> "name"]
                             ELSE tables[at][n]
    <3> DEFINE old == tables[at]
               new == tables'[at]
    <3>1. old \in [Keys -> Nodes \cup {None}] /\ new = Added(old, Bytes[r.num], r, id)
      BY <1>4, <2>1
    <3> HIDE DEF old, new
    <3>2. r.num \in SpaceNos \cup IndexNos /\ r \in Row /\ id \in Ids
      BY <1>3
    <3>3. /\ \A n \in Names :
                new[n] = IF n = r.name THEN [id |-> id, by |-> "name"] ELSE old[n]
          /\ \A l \in SpaceNos \cup IndexNos :
                new[Bytes[l]] = IF l = r.num THEN [id |-> id, by |-> "number"]
                                ELSE old[Bytes[l]]
      BY <3>1, <3>2, AddedLooks
    <3> QED BY <3>3 DEF old, new
  <2> QED BY <2>1, <2>2, <2>3
<1>8. [id |-> id, by |-> "name"] # None
  BY <1>3, NodesAreNodes DEF Nodes
<1>9. \A s \in SpaceNos, n \in Names :
        Iid(s, n)' = IF s = r.sno /\ n = r.name THEN r.num ELSE Iid(s, n)
  <2> TAKE s \in SpaceNos, n \in Names
  <2> DEFINE v == spaces[Bytes[s]]
  <2>1. CASE s = r.sno /\ n = r.name
    <3>1. v # None /\ v.id = at
      BY <2>1, <1>2 DEF at
    <3>2. tables'[at][n] # None /\ tables'[at][n].id = id
      BY <2>1, <1>7, <1>8
    <3> QED BY <2>1, <3>1, <3>2, <1>2, <1>5 DEF Iid
  <2>2. CASE ~(s = r.sno /\ n = r.name) /\ v # None
    <3>1. n \in Keys /\ v.id \in Ids
      BY <2>2, <1>3, Looks DEF Keys
    <3>2. tables'[v.id][n] = tables[v.id][n]
      BY <2>2, <3>1, <1>6, <1>7
    <3>3. tables[v.id][n] # None =>
            irows'[tables[v.id][n].id] = irows[tables[v.id][n].id]
      BY <2>2, <3>1, <1>3, <1>5, Looks
    <3> QED BY <2>2, <3>2, <3>3, <1>2 DEF Iid
  <2>3. CASE ~(s = r.sno /\ n = r.name) /\ v = None
    BY <2>3, <1>2 DEF Iid
  <2> QED BY <2>1, <2>2, <2>3
<1>10. \A n \in Names : Sid(n)' = Sid(n)
  BY <1>2 DEF Sid
<1> DEFINE iid == [s \in SpaceNos |-> [n \in Names |->
                    IF s = r.sno /\ n = r.name THEN r.num ELSE Iid(s, n)]]
<1>11. [s \in SpaceNos |-> [n \in Names |-> Iid(s, n)']] = iid
  BY <1>9
<1>12. [n \in Names |-> Sid(n)'] = [n \in Names |-> Sid(n)]
  BY <1>10
<1>13. r.sno \in Contents.known
  BY <1>2, <1>3 DEF Contents
<1> HIDE DEF iid
<1>14. Contents' = [Contents EXCEPT !.iid = iid]
  <2> DEFINE sid == [n \in Names |-> Sid(n)]
             known == {s \in SpaceNos : spaces[Bytes[s]] # None}
  <2>1. Contents'.sid = sid /\ Contents'.known = known /\ Contents'.iid = iid
    BY <1>2, <1>11, <1>12 DEF Contents
  <2>2. Contents' = [sid |-> Contents'.sid, known |-> Contents'.known,
                     iid |-> Contents'.iid]
    BY DEF Contents
  <2>3. Contents = [sid |-> sid, known |-> known, iid |-> Contents.iid]
    BY DEF Contents
  <2> HIDE DEF sid, known
  <2>4. [Contents EXCEPT !.iid = iid] = [sid |-> sid, known |-> known, iid |-> iid]
    BY <2>3
  <2> QED BY <2>1, <2>2, <2>4
<1> QED BY <1>13, <1>14 DEF iid

\* Nodes are taken from the table of the spaces: what they stood for is forgotten.
LEMMA LessCached ==
    ASSUME UNCHANGED <<rows, tables, irows>>,
           \A k \in Keys : spaces'[k] \in {spaces[k], None}
    PROVE  Cache!Forget
<1> DEFINE names == {n \in Names : spaces'[n] = None}
           numbers == {s \in SpaceNos : spaces'[Bytes[s]] = None}
<1>1. /\ \A n \in Names : n \in Keys
      /\ \A s \in SpaceNos : Bytes[s] \in Keys
  BY DEF Keys
<1>2. \A n \in Names : Sid(n)' = IF n \in names THEN NoId ELSE Sid(n)
  BY <1>1 DEF Sid
<1>3. \A s \in SpaceNos, n \in Names :
        Iid(s, n)' = IF s \in numbers THEN NoId ELSE Iid(s, n)
  BY <1>1 DEF Iid
<1>4. {s \in SpaceNos : spaces'[Bytes[s]] # None}
        = {s \in SpaceNos : spaces[Bytes[s]] # None} \ numbers
  BY <1>1
<1>5. names \in SUBSET Names /\ numbers \in SUBSET SpaceNos
  OBVIOUS
<1> HIDE DEF names, numbers
<1>6. Contents'.sid = [n \in Names |-> IF n \in names THEN NoId ELSE Contents.sid[n]]
  BY <1>2 DEF Contents
<1>7. Contents'.known = Contents.known \ numbers
  BY <1>4 DEF Contents
<1>8. Contents'.iid = [s \in SpaceNos |-> IF s \in numbers THEN NoNames
                                         ELSE Contents.iid[s]]
  <2>1. \A s \in SpaceNos :
            [n \in Names |-> Iid(s, n)'] = IF s \in numbers THEN NoNames
                                          ELSE [n \in Names |-> Iid(s, n)]
    BY <1>3 DEF NoNames
  <2> QED BY <2>1 DEF Contents
<1>9. Contents' = [sid |-> Contents'.sid, known |-> Contents'.known,
                   iid |-> Contents'.iid]
  BY DEF Contents
<1> QED BY <1>5, <1>6, <1>7, <1>8, <1>9
        DEF Cache!Forget, Cache!NoTable, Cache!NoId, NoId, NoNames

LEMMA NextCaches ==
    ASSUME CacheInv, NamesAreNotNumbers, [Next]_vars, Contents' # Contents
    PROVE  Cache!Next
<1>1. ASSUME UNCHANGED <<spaces, rows, tables, irows>> PROVE FALSE
  BY <1>1 DEF Contents, Sid, Iid
<1>2. /\ ~(UNCHANGED vars) /\ ~(\E c \in Catalogs : Change(c) \/ FallsDue(c))
      /\ ~NothingDue /\ ~FlushBegins /\ ~SpaceDone /\ ~FlushEnds
  BY <1>1 DEF vars, Change, FallsDue, NothingDue, FlushBegins, SpaceDone, FlushEnds,
              Over
\* The table whose nodes are visited can no longer be reached.
<1>3. ASSUME NEW k \in Keys, VisitIndex(k) PROVE FALSE
  <2>1. /\ flush.at = "indexes" /\ UNCHANGED <<spaces, rows, irows>>
        /\ \E table : tables' = [tables EXCEPT ![flush.id] = table]
    BY <1>3 DEF VisitIndex
  <2>2. \A l \in Keys : spaces[l] # None =>
            spaces[l].id \in Ids /\ spaces[l].id # flush.id
    BY <2>1, Looks DEF CacheInv, IInv, FlushInv
  <2>3. \A l \in Keys : spaces[l] # None => tables'[spaces[l].id] = tables[spaces[l].id]
    BY <2>1, <2>2 DEF CacheInv, IInv, TypeOK
  <2>4. \A n \in Names : Sid(n)' = Sid(n)
    BY <2>1 DEF Sid
  <2>5. \A s \in SpaceNos, n \in Names : Iid(s, n)' = Iid(s, n)
    <3>1. \A s \in SpaceNos : Bytes[s] \in Keys
      BY DEF Keys
    <3> QED BY <3>1, <2>1, <2>3 DEF Iid
  <2>6. [n \in Names |-> Sid(n)'] = [n \in Names |-> Sid(n)]
    BY <2>4
  <2>7. [s \in SpaceNos |-> [n \in Names |-> Iid(s, n)']]
            = [s \in SpaceNos |-> [n \in Names |-> Iid(s, n)]]
    BY <2>5
  <2>8. Contents' = Contents
    BY <2>1, <2>6, <2>7 DEF Contents
  <2> QED BY <2>8
<1>4. ASSUME NEW k \in Keys, VisitSpace(k) PROVE Cache!Next
  <2>1. /\ UNCHANGED <<rows, tables, irows>>
        /\ \E key, r : spaces' = Without(spaces, key, r)
    BY <1>4 DEF VisitSpace
  <2>2. \A l \in Keys : spaces'[l] \in {spaces[l], None}
    BY <2>1 DEF Without
  <2> QED BY <2>1, <2>2, LessCached DEF Cache!Next
<1>5. ASSUME NEW r \in Told.spaces, AddSpace(r) PROVE Cache!Next
  <2>1. r \in Row /\ r \in Cache!CacheRow /\ r.name \in Names /\ r.sno \in SpaceNos
    BY Types, KeysAreKeys DEF CacheInv, IInv, Row, Cache!CacheRow
  <2>2. [Contents.sid EXCEPT ![r.name] = r.sno]
            = [n \in Names |-> IF n = r.name THEN r.sno ELSE Sid(n)]
    BY <2>1 DEF Contents
  <2>3. [Contents.iid EXCEPT ![r.sno] = NoNames]
            = [s \in SpaceNos |-> IF s = r.sno THEN NoNames ELSE Contents.iid[s]]
    BY <2>1 DEF Contents
  <2>4. Cache!NoTable = NoNames
    BY DEF Cache!NoTable, Cache!NoId, NoNames, NoId
  <2>5. Cache!AddSpace(r)
    BY <2>2, <2>3, <2>4, <1>5, AddSpaceCaches DEF Cache!AddSpace
  <2> QED BY <2>1, <2>5 DEF Cache!Next
<1>6. ASSUME NEW r \in Told.indexes, AddIndex(r) PROVE Cache!Next
  <2>1. r \in Row /\ r \in Cache!CacheRow /\ r.name \in Names /\ r.sno \in SpaceNos
    BY Types, KeysAreKeys DEF CacheInv, IInv, Row, Cache!CacheRow
  <2> DEFINE iid == [s \in SpaceNos |-> [n \in Names |->
                        IF s = r.sno /\ n = r.name THEN r.num ELSE Iid(s, n)]]
  <2>2. [Contents.iid EXCEPT ![r.sno][r.name] = r.num] = iid
    BY <2>1 DEF Contents
  <2>3. r.sno \in Contents.known /\ Contents' = [Contents EXCEPT !.iid = iid]
    BY <1>6, AddIndexCaches
  <2> HIDE DEF iid
  <2>4. [Contents EXCEPT !.iid[r.sno][r.name] = r.num] = [Contents EXCEPT !.iid = iid]
    BY <2>2 DEF Contents
  <2>5. Cache!AddIndex(r)
    BY <2>3, <2>4 DEF Cache!AddIndex
  <2> QED BY <2>1, <2>5 DEF Cache!Next
<1> QED BY <1>2, <1>3, <1>4, <1>5, <1>6 DEF Next

\* BeeSchema implements BeeCache: the nodes of bee_schema_add_spaces and
\* bee_schema_add_indexes, whatever they replace, and bee_schema_flush, in
\* whatever order it visits them and whatever it leaves, are a cache of names and
\* numbers, unless a name has the bytes of a number.
THEOREM ImplementsCache == NamesAreNotNumbers => (Spec => IsCache)
<1> SUFFICES ASSUME NamesAreNotNumbers PROVE Spec => IsCache
  OBVIOUS
<1>1. Init => Contents = Cache!Empty
  <2> SUFFICES ASSUME Init PROVE Contents = Cache!Empty
    OBVIOUS
  <2>1. \A k \in Keys : spaces[k] = None
    BY DEF Init, NoTable
  <2>2. \A s \in SpaceNos : Bytes[s] \in Keys /\ spaces[Bytes[s]] = None
    BY <2>1 DEF Keys
  <2>3. \A n \in Names : Sid(n) = NoId
    BY <2>1 DEF Sid, Keys
  <2>4. \A s \in SpaceNos, n \in Names : Iid(s, n) = NoId
    BY <2>2 DEF Iid
  <2> QED BY <2>1, <2>2, <2>3, <2>4
          DEF Contents, NoId, Cache!Empty, Cache!NoTable, Cache!NoId
<1>2. Init => Cache!Init
  BY <1>1 DEF Cache!Init
<1>3. Init => SeenInv
  BY InitSeen
<1>4. IInv /\ SeenInv /\ [Next]_vars => SeenInv'
  BY NextSeen
<1>5. IInv /\ SeenInv /\ [Next]_vars => [Cache!Next]_Contents
  BY NextCaches DEF CacheInv
<1> QED BY <1>2, <1>3, <1>4, <1>5, Invariance, PTL DEF Spec, IsCache, Cache!Spec
-----------------------------------------------------------------------------
(* Nothing is lost.                                                        *)

Node(id, by) == [id |-> id, by |-> by]
BlockParts == {"name", "number", "string", "table"}

\* Both nodes of a row are there.
SpaceThere(i) ==
    /\ rows[i] # None
    /\ spaces[rows[i].name] = Node(i, "name")
    /\ spaces[SpaceKey(rows[i])] = Node(i, "number")
IndexThere(s, i) ==
    /\ irows[i] # None
    /\ tables[s][irows[i].name] = Node(i, "name")
    /\ tables[s][IndexKey(irows[i])] = Node(i, "number")

\* The space whose indexes are flushed.
Visited(i) == flush.at = "indexes" /\ flush.id = i

\* As long as nothing is lost, a live block is of a row both nodes of which
\* are there, or of the space that is visited and no longer its string; and an
\* index is in the table of one of these.
Accounted ==
    /\ \A i \in Ids, part \in BlockParts :
        memory[Block("space", i, part)] = "live" =>
            SpaceThere(i) \/ (Visited(i) /\ part # "string")
    /\ \A i \in Ids, part \in BlockParts :
        memory[Block("index", i, part)] = "live" =>
            part # "table" /\ \E s \in Ids :
                IndexThere(s, i) /\ (SpaceThere(s) \/ Visited(s))
    /\ flush.at = "indexes" =>
        {Node(flush.id, "name"), Node(flush.id, "number")} \subseteq flush.nodes

LostInv == IInv /\ (~lost => Accounted)

LEMMA InitAccounted == Init => Accounted
<1>1. \A of \in {"space", "index"}, i \in Ids, part \in BlockParts :
        Block(of, i, part) \in Blocks
  BY BlocksAreBlocks DEF BlockParts
<1> QED BY <1>1 DEF Init, Accounted, NoFlush

LEMMA TwoNodes ==
    /\ \A i, by : Node(i, by).id = i /\ Node(i, by).by = by
    /\ \A i \in Ids : Node(i, "name") # None /\ Node(i, "number") # None
    /\ \A v \in Nodes : v = Node(v.id, v.by)
BY NoneAssumption DEF Node, Nodes

\* A row that is there is found under no other key.
LEMMA TheirKeys ==
    ASSUME IInv
    PROVE  /\ \A i \in Ids : rows[i] # None =>
                rows[i] \in Row /\ rows[i].name \in Keys /\ SpaceKey(rows[i]) \in Keys
           /\ \A i \in Ids : irows[i] # None =>
                irows[i] \in Row /\ irows[i].name \in Keys /\ IndexKey(irows[i]) \in Keys
BY Types, KeysAreKeys DEF IInv, SpaceKey, IndexKey

\* A step that changes no node and no block, and begins or ends no visit.
LEMMA AccountUnchanged ==
    ASSUME Accounted, UNCHANGED <<spaces, rows, tables, irows, memory>>,
           flush' = flush \/ (flush.at # "indexes" /\ flush'.at # "indexes")
    PROVE  Accounted'
BY DEF Accounted, SpaceThere, IndexThere, Visited

\* Nothing is lost by a step after which nothing is.
LEMMA StillNotLost ==
    ASSUME NEW was, NEW is, NEW loses, is = (was \/ loses), ~is
    PROVE  ~loses
OBVIOUS

LEMMA AddSpaceAccounted ==
    ASSUME IInv, Accounted, NamesAreNotNumbers,
           NEW r \in Told.spaces, AddSpace(r), ~lost'
    PROVE  Accounted'
<1>1. PICK id \in Fresh(rows, Ids) :
        /\ spaces' = Added(spaces, SpaceKey(r), r, id)
        /\ rows' = [rows EXCEPT ![id] = r]
        /\ memory' = Allocated("space", id)
  BY DEF AddSpace
<1>2. /\ flush.at = "no" /\ UNCHANGED <<tables, irows, flush>>
      /\ ~Replaces(spaces, SpaceKey(r), r)
  BY StillNotLost, Zenon DEF AddSpace
<1>3. id \in Ids /\ rows[id] = None /\ r \in Row
      /\ r.name \in Keys /\ SpaceKey(r) \in Keys /\ r.name # SpaceKey(r) /\ r # None
  BY Types, KeysAreKeys, IdsAssumption DEF IInv, Fresh, SpaceKey, NamesAreNotNumbers
<1>4. spaces[r.name] = None /\ spaces[SpaceKey(r)] = None
  BY <1>2 DEF Replaces
<1>5. /\ spaces'[r.name] = Node(id, "name") /\ spaces'[SpaceKey(r)] = Node(id, "number")
      /\ \A k \in Keys : spaces[k] # None => spaces'[k] = spaces[k]
  BY <1>1, <1>3, <1>4 DEF IInv, TypeOK, Added, Node
<1>6. rows'[id] = r /\ \A i \in Ids : i # id => rows'[i] = rows[i]
  BY <1>1, <1>3 DEF IInv, TypeOK
<1>7. SpaceThere(id)'
  BY <1>3, <1>5, <1>6 DEF SpaceThere, SpaceKey
<1>8. ASSUME NEW i \in Ids, SpaceThere(i) PROVE SpaceThere(i)'
  <2>1. i # id /\ rows'[i] = rows[i]
    BY <1>3, <1>6, <1>8 DEF SpaceThere
  <2>2. rows[i].name \in Keys /\ SpaceKey(rows[i]) \in Keys
    BY <1>8, TheirKeys DEF SpaceThere
  <2>3. spaces[rows[i].name] # None /\ spaces[SpaceKey(rows[i])] # None
    BY <1>8, TwoNodes DEF SpaceThere
  <2> QED BY <2>1, <2>2, <2>3, <1>5, <1>8 DEF SpaceThere, SpaceKey
<1>9. \A of \in {"space", "index"}, i \in Ids, part \in BlockParts :
        ~(of = "space" /\ i = id) =>
            memory'[Block(of, i, part)] = memory[Block(of, i, part)]
  <2>1. \A of, i, part : Block(of, i, part).of = of /\ Block(of, i, part).id = i
    BY DEF Block
  <2>2. \A of \in {"space", "index"}, i \in Ids, part \in BlockParts :
            Block(of, i, part) \in Blocks
    BY BlocksAreBlocks DEF BlockParts
  <2> QED BY <1>1, <2>1, <2>2 DEF Allocated
<1>10. \A i \in Ids, s \in Ids : IndexThere(s, i) => IndexThere(s, i)'
  BY <1>2 DEF IndexThere
<1>11. \A i \in Ids : ~Visited(i) /\ ~Visited(i)'
  BY <1>2 DEF Visited
<1> QED BY <1>2, <1>7, <1>8, <1>9, <1>10, <1>11 DEF Accounted

LEMMA AddIndexAccounted ==
    ASSUME IInv, Accounted, NamesAreNotNumbers,
           NEW r \in Told.indexes, AddIndex(r), ~lost'
    PROVE  Accounted'
<1> PICK at : at = spaces[SpaceKey(r)].id
  OBVIOUS
<1>1. PICK id \in Fresh(irows, IndexIds) :
        /\ tables' = [tables EXCEPT ![at] = Added(tables[at], IndexKey(r), r, id)]
        /\ irows' = [irows EXCEPT ![id] = r]
        /\ memory' = Allocated("index", id)
  BY DEF AddIndex
<1>2. /\ flush.at = "no" /\ UNCHANGED <<spaces, rows, flush>>
      /\ spaces[SpaceKey(r)] # None
      /\ ~Replaces(tables[at], IndexKey(r), r)
  BY StillNotLost, Zenon DEF AddIndex
<1>3. id \in Ids /\ irows[id] = None /\ r \in Row /\ SpaceKey(r) \in Keys
      /\ r.name \in Keys /\ IndexKey(r) \in Keys /\ r.name # IndexKey(r) /\ r # None
  BY Types, KeysAreKeys, IdsAssumption DEF IInv, Fresh, SpaceKey, IndexKey, NamesAreNotNumbers
<1>4. \A i \in Ids : ~Visited(i) /\ ~Visited(i)'
  BY <1>2 DEF Visited
<1>5. at \in Ids /\ SpaceThere(at)
  <2>1. at \in Ids
    BY <1>2, <1>3, Types, NodesAreNodes DEF IInv
  <2>2. memory[Block("space", at, "string")] = "live"
    BY <1>2, <1>3 DEF IInv, SpacesInv
  <2> QED BY <2>1, <2>2, <1>4 DEF Accounted, BlockParts
<1>6. tables[at][r.name] = None /\ tables[at][IndexKey(r)] = None
  BY <1>2 DEF Replaces
<1>7. /\ tables'[at][r.name] = Node(id, "name")
      /\ tables'[at][IndexKey(r)] = Node(id, "number")
      /\ \A s \in Ids, k \in Keys : tables[s][k] # None => tables'[s][k] = tables[s][k]
  <2> DEFINE new == Added(tables[at], IndexKey(r), r, id)
  <2>1. tables[at] \in [Keys -> Nodes \cup {None}]
        /\ tables \in [Ids -> [Keys -> Nodes \cup {None}]]
    BY <1>5 DEF IInv, TypeOK
  <2>2. /\ new[r.name] = Node(id, "name") /\ new[IndexKey(r)] = Node(id, "number")
        /\ \A k \in Keys : tables[at][k] # None => new[k] = tables[at][k]
    BY <1>3, <1>6, <2>1 DEF Added, Node
  <2> HIDE DEF new
  <2>3. tables' = [tables EXCEPT ![at] = new]
    BY <1>1 DEF new
  <2> QED BY <2>1, <2>2, <2>3, <1>5
<1>8. irows'[id] = r /\ \A i \in Ids : i # id => irows'[i] = irows[i]
  BY <1>1, <1>3 DEF IInv, TypeOK
<1>9. IndexThere(at, id)'
  <2>1. irows'[id] = r /\ r # None
    BY <1>3, <1>8
  <2> QED BY <2>1, <1>7 DEF IndexThere, IndexKey
<1>10. ASSUME NEW s \in Ids, NEW i \in Ids, IndexThere(s, i)
       PROVE  IndexThere(s, i)'
  <2>1. i # id /\ irows'[i] = irows[i]
    BY <1>3, <1>8, <1>10 DEF IndexThere
  <2>2. irows[i].name \in Keys /\ IndexKey(irows[i]) \in Keys
    BY <1>10, TheirKeys DEF IndexThere
  <2>3. tables[s][irows[i].name] # None /\ tables[s][IndexKey(irows[i])] # None
    BY <1>10, TwoNodes DEF IndexThere
  <2> QED BY <2>1, <2>2, <2>3, <1>7, <1>10 DEF IndexThere, IndexKey
<1>11. \A i \in Ids : SpaceThere(i) => SpaceThere(i)'
  BY <1>2 DEF SpaceThere
<1>12. /\ \A of \in {"space", "index"}, i \in Ids, part \in BlockParts :
            ~(of = "index" /\ i = id) =>
                memory'[Block(of, i, part)] = memory[Block(of, i, part)]
       /\ memory'[Block("index", id, "table")] = memory[Block("index", id, "table")]
  <2>1. \A of, i, part : /\ Block(of, i, part).of = of /\ Block(of, i, part).id = i
                         /\ Block(of, i, part).part = part
    BY DEF Block
  <2>2. \A of \in {"space", "index"}, i \in Ids, part \in BlockParts :
            Block(of, i, part) \in Blocks
    BY BlocksAreBlocks DEF BlockParts
  <2>3. "table" \in BlockParts /\ "table" \notin Parts["index"]
    BY DEF BlockParts, Parts
  <2> QED BY <1>1, <1>3, <2>1, <2>2, <2>3 DEF Allocated
<1>13. ASSUME NEW i \in Ids, NEW part \in BlockParts,
              memory'[Block("index", i, part)] = "live"
       PROVE  part # "table" /\ \E s \in Ids :
                IndexThere(s, i)' /\ (SpaceThere(s)' \/ Visited(s)')
  <2>1. CASE i = id
    <3>1. part # "table"
      <4> SUFFICES ASSUME part = "table" PROVE FALSE
        OBVIOUS
      <4>1. memory[Block("index", id, "table")] = "live"
        BY <2>1, <1>12, <1>13
      <4> QED BY <4>1, <1>3 DEF Accounted, BlockParts
    <3> QED BY <2>1, <3>1, <1>5, <1>9, <1>11
  <2>2. CASE i # id
    <3>1. memory[Block("index", i, part)] = "live"
      BY <2>2, <1>12, <1>13
    <3> QED BY <3>1, <1>4, <1>10, <1>11 DEF Accounted
  <2> QED BY <2>1, <2>2
<1> QED BY <1>2, <1>4, <1>11, <1>12, <1>13 DEF Accounted

\* The other nodes are of other rows, so they stay.
LEMMA VisitSpaceAccounted ==
    ASSUME IInv, Accounted, NEW k \in Keys, VisitSpace(k)
    PROVE  Accounted'
<1> DEFINE id == spaces[k].id
           r  == rows[id]
<1>1. /\ flush.at = "spaces" /\ spaces[k] # None
      /\ spaces' = Without(spaces, SpaceKey(r), r)
      /\ memory' = Freed(memory, {Block("space", id, "string")})
      /\ \E swapped :
            flush' = [at |-> "indexes", id |-> id,
                      nodes |-> Pair(spaces, SpaceKey(r), r), swapped |-> swapped]
      /\ UNCHANGED <<rows, tables, irows>>
  BY DEF VisitSpace
<1>2. id \in Ids /\ SpaceThere(id)
  <2>1. id \in Ids
    BY <1>1, Types, NodesAreNodes DEF IInv
  <2>2. memory[Block("space", id, "string")] = "live"
    BY <1>1 DEF IInv, SpacesInv
  <2> QED BY <2>1, <2>2 DEF Accounted, BlockParts
<1> HIDE DEF id
<1>3. /\ flush'.at = "indexes" /\ flush'.id = id
      /\ {Node(id, "name"), Node(id, "number")} \subseteq flush'.nodes
  BY <1>1, <1>2, TwoNodes DEF Pair, SpaceThere
<1>4. ASSUME NEW i \in Ids, SpaceThere(i), i # id PROVE SpaceThere(i)'
  <2>1. rows[i].name \in Keys /\ SpaceKey(rows[i]) \in Keys
    BY <1>4, TheirKeys DEF SpaceThere
  <2>2. rows[i].name \notin {SpaceKey(r), r.name}
        /\ SpaceKey(rows[i]) \notin {SpaceKey(r), r.name}
    BY <1>2, <1>4, TwoNodes DEF SpaceThere
  <2> QED BY <1>1, <1>4, <2>1, <2>2 DEF SpaceThere, SpaceKey, Without
<1>5. /\ \A of \in {"space", "index"}, i \in Ids, part \in BlockParts :
            memory'[Block(of, i, part)] = "live" =>
                memory[Block(of, i, part)] = "live"
      /\ memory'[Block("space", id, "string")] # "live"
  <2>1. \A of \in {"space", "index"}, i \in Ids, part \in BlockParts :
            Block(of, i, part) \in Blocks
    BY BlocksAreBlocks DEF BlockParts
  <2> QED BY <1>1, <1>2, <2>1 DEF Freed, BlockParts
<1>6. \A i \in Ids : SpaceThere(i) => SpaceThere(i)' \/ Visited(i)'
  BY <1>3, <1>4 DEF Visited
<1>7. \A s, i \in Ids : IndexThere(s, i) => IndexThere(s, i)'
  BY <1>1 DEF IndexThere
<1>8. \A i \in Ids : ~Visited(i)
  BY <1>1 DEF Visited
<1>9. ASSUME NEW i \in Ids, NEW part \in BlockParts,
             memory'[Block("space", i, part)] = "live"
      PROVE  SpaceThere(i)' \/ (Visited(i)' /\ part # "string")
  <2>1. SpaceThere(i)
    BY <1>5, <1>8, <1>9 DEF Accounted
  <2>2. CASE i = id
    BY <2>2, <1>3, <1>5, <1>9 DEF Visited
  <2>3. CASE i # id
    BY <2>1, <2>3, <1>4
  <2> QED BY <2>2, <2>3
<1>10. ASSUME NEW i \in Ids, NEW part \in BlockParts,
              memory'[Block("index", i, part)] = "live"
       PROVE  part # "table" /\ \E s \in Ids :
                IndexThere(s, i)' /\ (SpaceThere(s)' \/ Visited(s)')
  BY <1>5, <1>6, <1>7, <1>8, <1>10 DEF Accounted
<1> QED BY <1>3, <1>9, <1>10 DEF Accounted

LEMMA VisitIndexAccounted ==
    ASSUME IInv, Accounted, NEW k \in Keys, VisitIndex(k)
    PROVE  Accounted'
<1> DEFINE at == flush.id
           id == tables[at][k].id
           r  == irows[id]
           P  == Pair(tables[at], IndexKey(r), r)
           B  == {Block("index", id, "string")} \cup NodeBlocks("index", P)
<1>1. /\ flush.at = "indexes" /\ tables[at][k] # None
      /\ tables' = [tables EXCEPT ![at] = Without(@, IndexKey(r), r)]
      /\ memory' = Freed(memory, B)
      /\ \E swapped : flush' = [flush EXCEPT !.swapped = swapped]
      /\ UNCHANGED <<spaces, rows, irows>>
  BY DEF VisitIndex
<1>10. UNCHANGED <<flush.at, flush.id, flush.nodes>>
  BY <1>1 DEF IInv, TypeOK
<1>2. at \in Ids /\ id \in Ids /\ tables[at] \in [Keys -> Nodes \cup {None}]
      /\ tables \in [Ids -> [Keys -> Nodes \cup {None}]]
  BY <1>1, Types, NodesAreNodes DEF IInv, TypeOK
\* Both nodes of the row are in this table.
<1>3. IndexThere(at, id)
  <2>1. memory[Block("index", id, "string")] = "live"
    BY <1>1, <1>2 DEF IInv, TablesInv
  <2>2. PICK s \in Ids : IndexThere(s, id)
    BY <2>1, <1>2 DEF Accounted, BlockParts
  <2>3. irows[id].name \in Keys /\ tables[s][irows[id].name] # None
        /\ tables[s][irows[id].name].id = id
    <3>1. irows[id] # None /\ tables[s][irows[id].name] = Node(id, "name")
      BY <2>2 DEF IndexThere
    <3>2. irows[id].name \in Keys
      BY <3>1, <1>2, TheirKeys
    <3>3. Node(id, "name") # None /\ Node(id, "name").id = id
      BY ONLY <1>2, TwoNodes
    <3> QED BY ONLY <3>1, <3>2, <3>3
  <2>4. s = at
    <3>1. \A i, j \in Ids, l, m \in Keys :
            /\ tables[i][l] # None /\ tables[j][m] # None
            /\ tables[i][l].id = tables[j][m].id
            => i = j
      BY DEF IInv, TablesInv
    <3>2. \E l \in Keys : tables[s][l] # None /\ tables[s][l].id = id
      BY <2>3
    <3>3. tables[at][k] # None /\ tables[at][k].id = id /\ at \in Ids
      BY <1>1, <1>2
    <3> HIDE DEF at, id
    <3> QED BY ONLY <3>1, <3>2, <3>3, k \in Keys, s \in Ids
  <2> QED BY <2>2, <2>4
<1> HIDE DEF at, id
<1>4. Block("index", id, "name") \in B /\ Block("index", id, "number") \in B
  <2>1. Node(id, "name") \in P /\ Node(id, "number") \in P
    BY <1>2, <1>3, TwoNodes DEF IndexThere, Pair
  <2>2. Block("index", Node(id, "name").id, Node(id, "name").by) \in B
        /\ Block("index", Node(id, "number").id, Node(id, "number").by) \in B
    BY <2>1, <1>2, TwoNodes DEF NodeBlocks
  <2> QED BY <2>2, TwoNodes
<1>5. /\ \A of \in {"space", "index"}, i \in Ids, part \in BlockParts :
            memory'[Block(of, i, part)] = "live" =>
                memory[Block(of, i, part)] = "live"
      /\ \A part \in {"name", "number", "string"} :
            memory'[Block("index", id, part)] # "live"
  <2> HIDE DEF P
  <2>1. \A of \in {"space", "index"}, i \in Ids, part \in BlockParts :
            Block(of, i, part) \in Blocks
    BY BlocksAreBlocks DEF BlockParts
  <2>2. \A part \in {"name", "number", "string"} :
            Block("index", id, part) \in B /\ part \in BlockParts
    BY <1>4 DEF BlockParts
  <2>3. memory' = Freed(memory, B)
    BY <1>1
  <2> HIDE DEF B
  <2> QED BY <2>1, <2>2, <2>3, <1>2 DEF Freed
<1>6. ASSUME NEW s \in Ids, NEW i \in Ids, IndexThere(s, i), i # id
      PROVE  IndexThere(s, i)'
  <2>1. irows[i].name \in Keys /\ IndexKey(irows[i]) \in Keys
    BY <1>6, TheirKeys DEF IndexThere
  <2>2. CASE s = at
    <3>1. irows[i].name \notin {IndexKey(r), r.name}
          /\ IndexKey(irows[i]) \notin {IndexKey(r), r.name}
      BY <1>3, <1>6, <2>2, TwoNodes DEF IndexThere
    <3>2. \A l \in Keys : l \notin {IndexKey(r), r.name} =>
            tables'[s][l] = tables[s][l]
      BY <1>1, <1>2, <2>2 DEF Without
    <3> QED BY <1>1, <1>6, <2>1, <3>1, <3>2 DEF IndexThere, IndexKey
  <2>3. CASE s # at
    <3>1. tables'[s] = tables[s]
      BY <1>1, <1>2, <2>3
    <3> QED BY <1>1, <1>6, <3>1 DEF IndexThere
  <2> QED BY <2>2, <2>3
<1>7. /\ \A i \in Ids : SpaceThere(i) => SpaceThere(i)'
      /\ \A i \in Ids : Visited(i) => Visited(i)'
  BY <1>1, <1>10 DEF SpaceThere, Visited
<1>8. ASSUME NEW i \in Ids, NEW part \in BlockParts,
             memory'[Block("index", i, part)] = "live"
      PROVE  part # "table" /\ \E s \in Ids :
                IndexThere(s, i)' /\ (SpaceThere(s)' \/ Visited(s)')
  <2>1. part # "table" /\ \E s \in Ids :
            IndexThere(s, i) /\ (SpaceThere(s) \/ Visited(s))
    BY <1>5, <1>8 DEF Accounted
  <2>2. i # id
    BY <2>1, <1>5, <1>8 DEF BlockParts
  <2> QED BY <2>1, <2>2, <1>6, <1>7
<1>9. ASSUME NEW i \in Ids, NEW part \in BlockParts,
             memory'[Block("space", i, part)] = "live"
      PROVE  SpaceThere(i)' \/ (Visited(i)' /\ part # "string")
  BY <1>5, <1>7, <1>9 DEF Accounted
<1> QED BY <1>1, <1>8, <1>9, <1>10 DEF Accounted

LEMMA SpaceDoneAccounted ==
    ASSUME IInv, Accounted, SpaceDone, ~lost'
    PROVE  Accounted'
<1> DEFINE B == {Block("space", flush.id, "table")} \cup NodeBlocks("space", flush.nodes)
<1>0. tables[flush.id] = NoTable
  <2>1. PICK resizing \in BOOLEAN :
            lost' = (lost \/ resizing \/ tables[flush.id] # NoTable)
    BY DEF SpaceDone
  <2> QED BY <2>1, Zenon
<1>1. /\ flush.at = "indexes" /\ tables[flush.id] = NoTable
      /\ memory' = Freed(memory, B)
      /\ flush'.at = "spaces"
      /\ UNCHANGED <<spaces, rows, tables, irows>>
  BY <1>0 DEF SpaceDone, NoFlush
<1>2. flush.id \in Ids
  BY <1>1 DEF IInv, TypeOK
<1>3. Block("space", flush.id, "name") \in B /\ Block("space", flush.id, "number") \in B
  <2>1. Node(flush.id, "name") \in flush.nodes \ {None}
        /\ Node(flush.id, "number") \in flush.nodes \ {None}
    BY <1>1, <1>2, TwoNodes DEF Accounted
  <2>2. Block("space", Node(flush.id, "name").id, Node(flush.id, "name").by) \in B
        /\ Block("space", Node(flush.id, "number").id, Node(flush.id, "number").by) \in B
    BY <2>1 DEF NodeBlocks
  <2> QED BY <2>2, TwoNodes
<1>4. /\ \A of \in {"space", "index"}, i \in Ids, part \in BlockParts :
            memory'[Block(of, i, part)] = "live" =>
                memory[Block(of, i, part)] = "live"
      /\ \A part \in {"name", "number", "table"} :
            memory'[Block("space", flush.id, part)] # "live"
  <2>1. \A of \in {"space", "index"}, i \in Ids, part \in BlockParts :
            Block(of, i, part) \in Blocks
    BY BlocksAreBlocks DEF BlockParts
  <2>2. \A part \in {"name", "number", "table"} :
            Block("space", flush.id, part) \in B /\ part \in BlockParts
    BY <1>3 DEF BlockParts
  <2>3. memory' = Freed(memory, B)
    BY <1>1
  <2> HIDE DEF B
  <2> QED BY <2>1, <2>2, <2>3, <1>2 DEF Freed
<1>5. /\ \A i \in Ids : SpaceThere(i) => SpaceThere(i)'
      /\ \A s, i \in Ids : IndexThere(s, i) => IndexThere(s, i)'
      /\ \A i \in Ids : Visited(i) => i = flush.id
  BY <1>1 DEF SpaceThere, IndexThere, Visited
<1>6. ASSUME NEW i \in Ids, NEW part \in BlockParts,
             memory'[Block("space", i, part)] = "live"
      PROVE  SpaceThere(i)'
  <2>1. SpaceThere(i) \/ (Visited(i) /\ part # "string")
    BY <1>4, <1>6 DEF Accounted
  <2>2. ~(Visited(i) /\ part # "string")
    BY <1>4, <1>5, <1>6 DEF BlockParts
  <2> QED BY <2>1, <2>2, <1>5
\* Its table is empty.
<1>7. \A i \in Ids : ~IndexThere(flush.id, i)
  <2>1. \A i \in Ids : irows[i] # None => tables[flush.id][irows[i].name] = None
    BY <1>1, TheirKeys DEF NoTable
  <2> QED BY <2>1, TwoNodes DEF IndexThere
<1>8. ASSUME NEW i \in Ids, NEW part \in BlockParts,
             memory'[Block("index", i, part)] = "live"
      PROVE  part # "table" /\ \E s \in Ids :
                IndexThere(s, i)' /\ (SpaceThere(s)' \/ Visited(s)')
  <2>1. part # "table" /\ \E s \in Ids :
            IndexThere(s, i) /\ (SpaceThere(s) \/ Visited(s))
    BY <1>4, <1>8 DEF Accounted
  <2> QED BY <2>1, <1>5, <1>7
<1> QED BY <1>1, <1>6, <1>8 DEF Accounted

LEMMA NextAccounted ==
    ASSUME IInv, Accounted, NamesAreNotNumbers, [Next]_vars, ~lost'
    PROVE  Accounted'
<1>1. CASE \E c \in Catalogs : Change(c) \/ FallsDue(c)
  BY <1>1, AccountUnchanged DEF Change, FallsDue
<1>10. CASE NothingDue
  BY <1>10, AccountUnchanged DEF NothingDue
<1>2. CASE \E r \in Told.spaces : AddSpace(r)
  BY <1>2, AddSpaceAccounted
<1>3. CASE \E r \in Told.indexes : AddIndex(r)
  BY <1>3, AddIndexAccounted
<1>4. CASE FlushBegins
  BY <1>4, AccountUnchanged DEF FlushBegins, NoFlush
<1>5. CASE \E k \in Keys : VisitSpace(k)
  BY <1>5, VisitSpaceAccounted
<1>6. CASE \E k \in Keys : VisitIndex(k)
  BY <1>6, VisitIndexAccounted
<1>7. CASE SpaceDone
  BY <1>7, SpaceDoneAccounted
<1>8. CASE FlushEnds
  BY <1>8, AccountUnchanged DEF FlushEnds, Over, NoFlush
<1>9. CASE UNCHANGED vars
  BY <1>9, AccountUnchanged DEF vars
<1> QED BY <1>1, <1>2, <1>3, <1>4, <1>5, <1>6, <1>7, <1>8, <1>9, <1>10 DEF Next

\* What is lost stays lost.
LEMMA LostStays == IInv /\ [Next]_vars => (lost => lost')
<1> SUFFICES ASSUME [Next]_vars, lost = TRUE PROVE lost'
  BY Zenon DEF IInv, TypeOK
<1>1. ASSUME lost' = lost PROVE lost'
  BY <1>1
<1>2. ASSUME NEW loses, lost' = (lost \/ loses) PROVE lost'
  BY <1>2, Zenon
<1>3. CASE \E r \in Told.spaces : AddSpace(r)
  BY <1>2, <1>3, Zenon DEF AddSpace
<1>4. CASE \E r \in Told.indexes : AddIndex(r)
  BY <1>2, <1>4, Zenon DEF AddIndex
<1>5. CASE SpaceDone
  BY <1>2, <1>5, Zenon DEF SpaceDone
<1> QED BY <1>1, <1>3, <1>4, <1>5
        DEF Next, vars, Change, FallsDue, NothingDue, FlushBegins, VisitSpace,
            VisitIndex, FlushEnds, Over

\* Unless a node was replaced, or a table was deleted in the middle of a resize or
\* swapped while its nodes were visited, a flush frees every block of the cache
\* (schema_space_free, schema_index_free), if no name has the bytes of a number.
THEOREM NothingLostHolds == NamesAreNotNumbers => (Spec => []NothingLost)
<1> SUFFICES ASSUME NamesAreNotNumbers PROVE Spec => []NothingLost
  OBVIOUS
<1>1. Init => LostInv
  BY InitIInv, InitAccounted DEF LostInv
<1>2. LostInv /\ [Next]_vars => LostInv'
  BY NextIInv, NextAccounted, LostStays DEF LostInv
<1>3. LostInv => NothingLost
  <2> SUFFICES ASSUME LostInv, flush.at = "no", spaces = NoTable, ~lost,
                      NEW b \in Blocks, memory[b] = "live"
               PROVE  FALSE
    BY DEF NothingLost
  <2>1. PICK of \in {"space", "index"}, i \in Ids, part \in BlockParts :
            b = Block(of, i, part)
    BY DEF Blocks, Block, BlockParts
  <2>2. Accounted
    BY DEF LostInv
  <2>3. PICK s \in Ids : SpaceThere(s)
    BY <2>1, <2>2 DEF Accounted, Visited
  <2>4. rows[s].name \in Keys
    BY <2>3, TheirKeys DEF SpaceThere, LostInv
  <2> QED BY <2>3, <2>4, TwoNodes DEF SpaceThere, NoTable
<1> QED BY <1>1, <1>2, <1>3, PTL DEF Spec
================================================================================
