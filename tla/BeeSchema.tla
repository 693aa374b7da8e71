------------------------------- MODULE BeeSchema -------------------------------
(***************************************************************************)
(* The schema cache as it is in memory.  A row of the server becomes two   *)
(* nodes, one under the bytes of its name and one under the bytes of its   *)
(* number, which share the string of the name and (of a space) the table   *)
(* of its indexes.  A flush visits the nodes of a table one by one and     *)
(* deletes both keys of the row it is at, first of the spaces and within   *)
(* each space of the indexes.                                              *)
(*                                                                         *)
(* The hash tables are maps here (see BeeHash, which implements them) and  *)
(* are visited in any order.  What BeeHash does not show is a table that   *)
(* is swapped while it is visited: a deletion goes on with a resize, and   *)
(* may end it; nodes of the new table in slots the visit has passed are    *)
(* then not visited.  Memory is a set of blocks, and one that was freed is *)
(* not allocated again, so that a stale pointer is recognisable.           *)
(*                                                                         *)
(* The catalog on the server changes at any time.  The rows that reach the *)
(* cache are of the catalog as it is then, or of an answer that was due    *)
(* when a lookup asked: one that gave up left its answer on the stream,    *)
(* and the next caches what it reads without asking whose it is.           *)
(***************************************************************************)
EXTENDS Integers, FiniteSets

CONSTANTS
    Names,      \* names of spaces and of indexes, as keys
    SpaceNos,   \* numbers of spaces
    IndexNos,   \* numbers of indexes
    Bytes,      \* the key of every number: four bytes, maybe those of a name
    Catalogs,   \* what the server may have: rows of spaces and of indexes
    Ids,        \* bound: rows of spaces that are ever added
    IndexIds,   \* bound: rows of indexes that are
    None        \* nothing under a key, no row

Row  == [sno : SpaceNos, num : IndexNos, name : Names]
Keys == Names \cup {Bytes[n] : n \in SpaceNos \cup IndexNos}

ASSUME NumbersAssumption == SpaceNos \subseteq Nat /\ IndexNos \subseteq Nat
ASSUME IdsAssumption == IndexIds \subseteq Ids
ASSUME BytesAssumption ==
    \A m, n \in SpaceNos \cup IndexNos : Bytes[m] = Bytes[n] => m = n
ASSUME CatalogsAssumption ==
    Catalogs \subseteq [spaces : SUBSET Row, indexes : SUBSET Row]
ASSUME NoneAssumption == None \notin Row \cup [id : Ids, by : {"name", "number"}]

VARIABLES
    catalog,    \* the rows the server has
    late,       \* the rows of answers that are due on the stream
    spaces,     \* schema->space_hash: the node under every key
    rows,       \* the row every space value was made of
    tables,     \* the index_hash of every space value
    irows,      \* the row every index value was made of
    memory,     \* the state of every block
    flush,      \* the flush that runs
    seen,       \* history: the rows the server had, or that were due, since
                \* the last flush in which no resize of the spaces ended
    lost        \* history: no pointer leads to some block any more

vars == <<catalog, late, spaces, rows, tables, irows, memory, flush, seen, lost>>

\* A value has two nodes; the one under the number is a copy of the other.
Nodes == [id : Ids, by : {"name", "number"}]
NoTable == [k \in Keys |-> None]

\* The table of the spaces, among those of their indexes.
SpaceHash == None

NoRows == [spaces |-> {}, indexes |-> {}]
And(c, d) == [spaces  |-> c.spaces \cup d.spaces,
              indexes |-> c.indexes \cup d.indexes]

\* struct schema_space_value and struct schema_index_value: what is allocated
\* for a row.
Parts == [space |-> {"name", "number", "string", "table"},
          index |-> {"name", "number", "string"}]
Blocks == [of : {"space", "index"}, id : Ids,
           part : {"name", "number", "string", "table"}]
Block(of, id, part) == [of |-> of, id |-> id, part |-> part]
NodeBlocks(of, nodes) == {Block(of, v.id, v.by) : v \in nodes \ {None}}

Allocated(of, id) ==
    [b \in Blocks |-> IF b.of = of /\ b.id = id /\ b.part \in Parts[of]
                      THEN "live" ELSE memory[b]]
Freed(mem, blocks) ==
    [b \in Blocks |-> IF b \notin blocks THEN mem[b]
                      ELSE IF mem[b] = "live" THEN "freed" ELSE "wild"]

\* The two keys of a row.
SpaceKey(r) == Bytes[r.sno]
IndexKey(r) == Bytes[r.num]

\* Where the flush is, the nodes of the space it is at, and the tables that were
\* swapped while they were visited.
NoFlush == [at |-> "no", id |-> None, nodes |-> {}, swapped |-> {}]

Init ==
    /\ catalog \in Catalogs
    /\ late = NoRows
    /\ spaces = NoTable
    /\ rows = [i \in Ids |-> None]
    /\ tables = [i \in Ids |-> NoTable]
    /\ irows = [i \in Ids |-> None]
    /\ memory = [b \in Blocks |-> "unused"]
    /\ flush = NoFlush
    /\ seen = catalog
    /\ lost = FALSE

-----------------------------------------------------------------------------
(* Adding rows.                                                            *)

\* The server changes a space or an index.
Change(c) ==
    /\ flush.at = "no"
    /\ catalog' = c
    /\ seen' = And(seen, c)
    /\ UNCHANGED <<late, spaces, rows, tables, irows, memory, flush, lost>>

\* An answer is due that nobody waits for: a lookup gave up, before the server
\* had read the request or after.
FallsDue(c) ==
    /\ flush.at = "no"
    /\ late' = And(late, c)
    /\ seen' = And(seen, c)
    /\ UNCHANGED <<catalog, spaces, rows, tables, irows, memory, flush, lost>>

\* What was due has been read, or the stream was closed.
NothingDue ==
    /\ flush.at = "no"
    /\ late' = NoRows
    /\ UNCHANGED <<catalog, spaces, rows, tables, irows, memory, flush, seen, lost>>

\* A row that a lookup, or authentication, may be answered.
Told == And(catalog, late)

\* Variant: a name that is there stays as it is.
AddedFirst(table, key, r, id) ==
    [[table EXCEPT ![r.name] = IF @ = None THEN [id |-> id, by |-> "name"] ELSE @]
        EXCEPT ![key] = [id |-> id, by |-> "number"]]

\* Two puts: the name first, then the number.  What they replace is not asked
\* for, and not freed.
Added(table, key, r, id) ==
    [[table EXCEPT ![r.name] = [id |-> id, by |-> "name"]]
        EXCEPT ![key] = [id |-> id, by |-> "number"]]
Replaces(table, key, r) == table[r.name] # None \/ table[key] # None

\* The value that is allocated next.
Fresh(values, ids) ==
    {i \in ids : values[i] = None /\ \A j \in ids : values[j] = None => i <= j}

\* schema_add_space.
AddSpace(r) ==
    /\ flush.at = "no"
    /\ \E id \in Fresh(rows, Ids) :
        /\ spaces' = Added(spaces, SpaceKey(r), r, id)
        /\ rows' = [rows EXCEPT ![id] = r]
        /\ memory' = Allocated("space", id)
    /\ lost' = (lost \/ Replaces(spaces, SpaceKey(r), r))
    /\ UNCHANGED <<catalog, late, tables, irows, flush, seen>>

\* schema_add_index: the space has to be there, under its number.
AddIndex(r) ==
    /\ flush.at = "no"
    /\ spaces[SpaceKey(r)] # None
    /\ LET space == spaces[SpaceKey(r)].id
       IN  /\ \E id \in Fresh(irows, IndexIds) :
               /\ tables' = [tables EXCEPT
                               ![space] = Added(@, IndexKey(r), r, id)]
               /\ irows' = [irows EXCEPT ![id] = r]
               /\ memory' = Allocated("index", id)
           /\ lost' = (lost \/ Replaces(tables[space], IndexKey(r), r))
    /\ UNCHANGED <<catalog, late, spaces, rows, flush, seen>>

-----------------------------------------------------------------------------
(* Flushing.                                                               *)

\* Variant: the node that was not found is among them.
PairUnchecked(table, key, r) == {table[key], table[r.name]}
\* Variant: the node under the name is not freed.
PairOfNumber(table, key, r) == {table[key]} \ {None}
\* Variant: only the number is deleted.
WithoutNumber(table, key, r) == [table EXCEPT ![key] = None]

\* The nodes under the two keys of a row, and the table without them.
Pair(table, key, r) == {table[key], table[r.name]} \ {None}
Without(table, key, r) ==
    [k \in Keys |-> IF k \in {key, r.name} THEN None ELSE table[k]]

\* bee_schema_flush: the first node is visited next.
FlushBegins ==
    /\ flush.at = "no"
    /\ flush' = [NoFlush EXCEPT !.at = "spaces"]
    /\ UNCHANGED <<catalog, late, spaces, rows, tables, irows, memory, seen, lost>>

\* A deletion from a table that is visited goes on with its resize, if puts have
\* started one, and may end it, which swaps the table.
MaySwap(table) == {flush.swapped, flush.swapped \cup {table}}

\* schema_space_free, one round: both keys of the row are deleted, the string
\* is freed, and the table of the indexes is next.
VisitSpace(k) ==
    /\ flush.at = "spaces" /\ spaces[k] # None
    /\ LET id == spaces[k].id
           r  == rows[id]
       IN  /\ spaces' = Without(spaces, SpaceKey(r), r)
           /\ memory' = Freed(memory, {Block("space", id, "string")})
           /\ \E swapped \in MaySwap(SpaceHash) :
               flush' = [at |-> "indexes", id |-> id,
                         nodes |-> Pair(spaces, SpaceKey(r), r),
                         swapped |-> swapped]
    /\ UNCHANGED <<catalog, late, rows, tables, irows, seen, lost>>

\* schema_index_free, one round.
VisitIndex(k) ==
    /\ flush.at = "indexes" /\ tables[flush.id][k] # None
    /\ LET table == tables[flush.id]
           id    == table[k].id
           r     == irows[id]
       IN  /\ tables' = [tables EXCEPT ![flush.id] = Without(@, IndexKey(r), r)]
           /\ memory' = Freed(memory,
                {Block("index", id, "string")}
                    \cup NodeBlocks("index", Pair(table, IndexKey(r), r)))
    /\ \E swapped \in MaySwap(flush.id) :
        flush' = [flush EXCEPT !.swapped = swapped]
    /\ UNCHANGED <<catalog, late, spaces, rows, irows, seen, lost>>

\* No index is left, or those that are were not visited: the table and then the
\* nodes of the space are freed; the indexes that are left are not, nor are the
\* arrays of a resize that goes on.
SpaceDone ==
    /\ flush.at = "indexes"
    /\ tables[flush.id] = NoTable \/ flush.id \in flush.swapped
    /\ memory' = Freed(memory, {Block("space", flush.id, "table")}
                                    \cup NodeBlocks("space", flush.nodes))
    /\ \E resizing \in BOOLEAN :
        /\ flush.id \in flush.swapped => ~resizing
        /\ lost' = (lost \/ resizing \/ tables[flush.id] # NoTable)
    /\ flush' = [NoFlush EXCEPT !.at = "spaces", !.swapped = flush.swapped]
    /\ UNCHANGED <<catalog, late, spaces, rows, tables, irows, seen>>

\* The flush is over, and what was there before it is forgotten.
Over ==
    /\ flush' = NoFlush
    /\ seen' = IF SpaceHash \in flush.swapped THEN seen ELSE Told
    /\ UNCHANGED <<catalog, late, spaces, rows, tables, irows, memory, lost>>

\* Variant: some nodes are not visited, whatever happened to the table.
FlushEndsEarly ==
    /\ flush.at = "spaces"
    /\ Over

\* No space is left, or those that are were not visited.
FlushEnds ==
    /\ flush.at = "spaces"
    /\ spaces = NoTable \/ SpaceHash \in flush.swapped
    /\ Over

Next ==
    \/ \E c \in Catalogs : Change(c) \/ FallsDue(c)
    \/ NothingDue
    \/ \E r \in Told.spaces : AddSpace(r)
    \/ \E r \in Told.indexes : AddIndex(r)
    \/ FlushBegins
    \/ \E k \in Keys : VisitSpace(k) \/ VisitIndex(k)
    \/ SpaceDone
    \/ FlushEnds

Spec == Init /\ [][Next]_vars

-----------------------------------------------------------------------------
(* What the cache answers.                                                 *)

NoId == -1

\* bee_schema_get_sid_by_string.
Sid(name) == IF spaces[name] = None THEN NoId ELSE rows[spaces[name].id].sno

\* bee_schema_get_iid_by_string.
Iid(sno, name) ==
    IF spaces[Bytes[sno]] = None THEN NoId
    ELSE LET node == tables[spaces[Bytes[sno]].id][name]
         IN  IF node = None THEN NoId ELSE irows[node.id].num

-----------------------------------------------------------------------------
(* What the cache promises.                                                *)

Live(of, id, parts) == \A part \in parts : memory[Block(of, id, part)] = "live"

TypeOK ==
    /\ catalog \in Catalogs
    /\ late \in [spaces : SUBSET Row, indexes : SUBSET Row]
    /\ spaces \in [Keys -> Nodes \cup {None}]
    /\ rows \in [Ids -> Row \cup {None}]
    /\ tables \in [Ids -> [Keys -> Nodes \cup {None}]]
    /\ irows \in [Ids -> Row \cup {None}]
    /\ memory \in [Blocks -> {"unused", "live", "freed", "wild"}]
    /\ flush \in [at : {"no", "spaces", "indexes"}, id : Ids \cup {None},
                  nodes : SUBSET Nodes, swapped : SUBSET (Ids \cup {SpaceHash})]
    /\ flush.at = "indexes" => flush.id \in Ids
    /\ lost \in BOOLEAN

\* What can be reached is allocated, at every step of a flush too: a node that
\* is found, the string its key points into, the table of its indexes, and the
\* nodes in that.  The two nodes of a row can be replaced, deleted and visited
\* apart from each other, and free what they share only once.
NoDangling ==
    /\ \A v \in {spaces[k] : k \in Keys} \ {None} :
        /\ Live("space", v.id, {v.by, "string", "table"})
        /\ \A w \in {tables[v.id][k] : k \in Keys} \ {None} :
            Live("index", w.id, {w.by, "string"})
    /\ flush.at = "indexes" =>
        /\ Live("space", flush.id, {"table"})
        /\ \A v \in flush.nodes : Live("space", v.id, {v.by})
        /\ \A w \in {tables[flush.id][k] : k \in Keys} \ {None} :
            Live("index", w.id, {w.by, "string"})

\* Nothing is freed twice, or without having been allocated.
FreedOnce == \A b \in Blocks : memory[b] # "wild"

\* A flush frees everything, unless a node was replaced, or the table of a space
\* was deleted while it was resized or after it was swapped under the visit.
NothingLost ==
    flush.at = "no" /\ spaces = NoTable /\ ~lost =>
        \A b \in Blocks : memory[b] # "live"

\* A name stands for a row the server had since the last flush, or had told in
\* an answer that was due then or since: no older row is found, if no resize of
\* the table of the spaces ended in that flush.
SinceFlush ==
    flush.at = "no" =>
        /\ \A n \in Names : Sid(n) # NoId =>
            \E r \in seen.spaces : r.name = n /\ r.sno = Sid(n)
        /\ \A s \in SpaceNos, n \in Names : Iid(s, n) # NoId =>
            [sno |-> s, num |-> Iid(s, n), name |-> n] \in seen.indexes

\* What the cache answers, as the abstract cache has it.
Contents ==
    [sid   |-> [n \in Names |-> Sid(n)],
     known |-> {s \in SpaceNos : spaces[Bytes[s]] # None},
     iid   |-> [s \in SpaceNos |-> [n \in Names |-> Iid(s, n)]]]

Cache == INSTANCE BeeCache WITH cache <- Contents

\* If no name has the bytes of a number, the nodes are a cache of names and
\* numbers: a row replaces what its name and its number stood for, and nothing
\* else, and a flush only forgets.
IsCache == Cache!Spec
================================================================================
