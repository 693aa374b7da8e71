----------------------------- MODULE BeeArguments -----------------------------
(***************************************************************************)
(* From the arguments of a method to the fields of its request (bee.c).    *)
(* An argument that is not given is Nil: no method tells the two apart.    *)
(* Tuples and ops are arrays, procedures strings and the offset a number:  *)
(* PHP refuses a call that gives them another type before the method runs. *)
(* What the schema cache and its lookups say of a name is a constant here; *)
(* it is what BeeClient and BeeSchema are about.                           *)
(***************************************************************************)
EXTENDS BeeMsgpack

CONSTANTS
    Word,       \* 2^32: the numbers of a request, and PHP's int
    SpaceNos,   \* the numbers of the spaces that have a name
    IndexNos,   \* the numbers of the indexes that have a name
    LookupLimit, \* 4096: as many rows a lookup asks for
    Logins,     \* whom the script logs in: names, with a scramble or Nil for none
    Upper       \* toupper, for the names of iterators that are used

ASSUME WordAssumption ==
    /\ Word \in Nat /\ Word > 64 /\ Word <= LongMax /\ (LongMax + 1) % Word = 0
    /\ \A name \in DOMAIN SpaceNos : SpaceNos[name] \in 0..Word - 1
    /\ \A name \in DOMAIN IndexNos : IndexNos[name] \in 0..Word - 1

RequestType ==
    [lookup |-> 1, auth |-> 7,
     select |-> 1, insert |-> 2, replace |-> 3, update |-> 4, delete |-> 5,
     call |-> 6, eval |-> 8, upsert |-> 9, ping |-> 64]

Field ==
    [space |-> 16, index |-> 17, limit |-> 18, offset |-> 19, iterator |-> 20,
     key |-> 32, tuple |-> 33, function |-> 34, username |-> 35, expression |-> 39,
     ops |-> 40]

IteratorType ==
    [EQ |-> 0, REQ |-> 1, ALL |-> 2, LT |-> 3, LE |-> 4, GE |-> 5, GT |-> 6,
     BITS_ALL_SET |-> 7, BITSET_ALL_SET |-> 7,
     BITS_ANY_SET |-> 8, BITSET_ANY_SET |-> 8,
     BITS_ALL_NOT_SET |-> 9, BITSET_ALL_NOT_SET |-> 9,
     OVERLAPS |-> 10, NEIGHBOR |-> 11]

\* An argument is good, or the method returns FALSE: with an exception or not.
Good(v) == [v |-> v, err |-> "no"]
Bad(err) == [v |-> Nil, err |-> err]
IsGood(arg) == arg.err = "no"

\* The first argument that is bad decides.
ErrOf(args) ==
    LET bad == SelectInSeq(args, LAMBDA arg : ~IsGood(arg))
    IN  IF bad = 0 THEN "no" ELSE args[bad].err

-----------------------------------------------------------------------------
(* Numbers and keys.                                                       *)

\* A long that becomes a uint32_t.
Number(n) == Long(n % Word)

\* The caller takes -1 for FAILURE.
Numbered(n) == IF n % Word = Word - 1 THEN Bad("silent") ELSE Good(Number(n))

\* get_spaceno_by_name and get_indexno_by_name.
Named(nos, name) ==
    IF Is(name, "str") /\ name.str \in DOMAIN nos THEN Good(Number(nos[name.str]))
    ELSE Bad("exception")
SpaceNo(v) == IF Is(v, "int") THEN Numbered(v.int) ELSE Named(SpaceNos, v)
IndexNo(v) ==
    IF Is(v, "nil") THEN Good(Number(0))
    ELSE IF Is(v, "int") THEN Numbered(v.int) ELSE Named(IndexNos, v)

LimitNo(v) ==
    IF Is(v, "nil") THEN Good(Number(LongMax - 1))
    ELSE IF Is(v, "int") THEN Good(Number(v.int)) ELSE Bad("exception")

\* pack_key.
PackKey(v, select) ==
    IF Is(v, "array") THEN v
    ELSE IF select /\ Is(v, "nil") THEN EmptyArr ELSE ListOf(<<v>>)

\* is_iterator_all, and convert_iterator.  A type it does not know is read as a
\* string: the first byte of an array is never a letter, and the address in any
\* other type's place none that can be read.
NoKey(v) == Is(v, "nil") \/ (Is(v, "array") /\ Count(v) = 0)
ConvertIterator(v, all) ==
    IF Is(v, "nil") THEN Good(Number(IteratorType[IF all THEN "ALL" ELSE "EQ"]))
    ELSE IF Is(v, "int") THEN Numbered(v.int)
    ELSE IF Is(v, "str") /\ v.str \in DOMAIN Upper /\ Upper[v.str] \in DOMAIN IteratorType
    THEN Good(Number(IteratorType[Upper[v.str]]))
    ELSE Bad("exception")

-----------------------------------------------------------------------------
(* Operations of an update.                                                *)

\* zend_hash_find, and a look at the type.
HasOf(op, name, type) == Has(op, Str(name)) /\ Is(At(op, Str(name)), type)
Serializable(v) == ~Is(v, "object")

\* Variant: the other fields are found by their place.
OpArgsByPlace(op, names) == [i \in DOMAIN names |-> op.array[i][2]]

\* What the list that is sent has of the operation.
OpArgs(op, names) == [i \in DOMAIN names |-> At(op, Str(names[i]))]

\* The signs of operations are one byte long.
Signs == {":", "+", "-", "&", "|", "^", "#", "=", "!"}
ASSUME SignsAssumption == \A sign \in Signs : Len(sign) = 1

\* bee_update_verify_op.
VerifyOp(op) ==
    LET sign == At(op, Str("op")).str
    IN  IF ~(Is(op, "array") /\ IsHash(op)) THEN Bad("exception")
        ELSE IF ~(HasOf(op, "op", "str") /\ Len(sign) = 1 /\ HasOf(op, "field", "int"))
        THEN Bad("exception")
        ELSE IF /\ sign = ":" /\ Count(op) = 5
                /\ HasOf(op, "offset", "int") /\ HasOf(op, "length", "int")
                /\ HasOf(op, "list", "str")
        THEN Good(ListOf(OpArgs(op, <<"op", "field", "offset", "length", "list">>)))
        ELSE IF /\ Count(op) = 3
                /\ \/ sign \in {"+", "-", "&", "|", "^", "#"} /\ HasOf(op, "arg", "int")
                   \/ /\ sign \in {"=", "!"}
                      /\ Has(op, Str("arg")) /\ Serializable(At(op, Str("arg")))
        THEN Good(ListOf(OpArgs(op, <<"op", "field", "arg">>)))
        ELSE Bad("exception")

\* bee_update_verify_args.  A list that has a hole is found in the loop.
VerifyArgs(ops) ==
    IF Is(ops, "array") /\ ~IsHash(ops) /\ (\A i \in 1..Count(ops) :
            Has(ops, Long(i - 1)) /\ IsGood(VerifyOp(At(ops, Long(i - 1)))))
    THEN Good(ListOf([i \in 1..Count(ops) |-> VerifyOp(At(ops, Long(i - 1))).v]))
    ELSE Bad("exception")

-----------------------------------------------------------------------------
(* The fields of each method's request, in the order they are written.     *)

Request(err, fields) == [err |-> err, fields |-> fields]

SelectRequest(c) ==
    LET limit == LimitNo(c.limit)
        space == SpaceNo(c.space)
        index == IndexNo(c.index)
        iter  == ConvertIterator(c.iterator, NoKey(c.key))
    IN  Request(ErrOf(<<limit, space, index, iter>>),
                <<<<"space", space.v>>, <<"index", index.v>>,
                  <<"offset", Number(c.offset)>>, <<"limit", limit.v>>,
                  <<"iterator", iter.v>>, <<"key", PackKey(c.key, TRUE)>>>>)

\* insert and replace.
StoreRequest(c) ==
    LET space == SpaceNo(c.space)
    IN  Request(space.err, <<<<"space", space.v>>, <<"tuple", c.tuple>>>>)

DeleteRequest(c) ==
    LET space == SpaceNo(c.space)
        index == IndexNo(c.index)
    IN  Request(ErrOf(<<space, index>>),
                <<<<"space", space.v>>, <<"index", index.v>>,
                  <<"key", PackKey(c.key, FALSE)>>>>)

UpdateRequest(c) ==
    LET space == SpaceNo(c.space)
        index == IndexNo(c.index)
        ops   == VerifyArgs(c.ops)
    IN  Request(ErrOf(<<space, index, ops>>),
                <<<<"space", space.v>>, <<"index", index.v>>,
                  <<"key", PackKey(c.key, FALSE)>>, <<"tuple", ops.v>>>>)

UpsertRequest(c) ==
    LET space == SpaceNo(c.space)
        ops   == VerifyArgs(c.ops)
    IN  Request(ErrOf(<<space, ops>>),
                <<<<"space", space.v>>, <<"tuple", c.tuple>>, <<"ops", ops.v>>>>)

\* call and eval.
RunRequest(c, field) ==
    Request("no", <<<<field, c.proc>>, <<"tuple", PackKey(c.args, TRUE)>>>>)

\* The requests the extension has of its own are records with their fields.
RequestOf(c) ==
    CASE c.method = "ping"                  -> Request("no", <<>>)
      [] c.method = "select"                -> SelectRequest(c)
      [] c.method \in {"insert", "replace"} -> StoreRequest(c)
      [] c.method = "delete"                -> DeleteRequest(c)
      [] c.method = "update"                -> UpdateRequest(c)
      [] c.method = "upsert"                -> UpsertRequest(c)
      [] c.method = "call"                  -> RunRequest(c, "function")
      [] c.method = "eval"                  -> RunRequest(c, "expression")
      [] c.method \in {"lookup", "auth"}    -> Request("no", c.fields)

Parameters ==
    [ping   |-> {},
     select |-> {"space", "index", "key", "limit", "offset", "iterator"},
     insert |-> {"space", "tuple"}, replace |-> {"space", "tuple"},
     delete |-> {"space", "index", "key"},
     update |-> {"space", "index", "key", "ops"},
     upsert |-> {"space", "tuple", "ops"},
     call   |-> {"proc", "args"}, eval |-> {"proc", "args"}]

\* A call has the method's arguments, of the types PHP lets pass.
IsCall(c) ==
    /\ c.method \in DOMAIN Parameters
    /\ DOMAIN c = {"method"} \cup Parameters[c.method]
    /\ \A p \in DOMAIN c \ {"method", "offset"} : c[p] \in Values
    /\ \A p \in DOMAIN c \cap {"tuple", "ops"} : Is(c[p], "array")
    /\ "proc" \in DOMAIN c => Is(c.proc, "str")
    /\ "offset" \in DOMAIN c => c.offset \in Int
    /\ IsGood(RequestOf(c)) => \A f \in ToSet(RequestOf(c).fields) : f[2] \in Values

-----------------------------------------------------------------------------
(* The requests of the extension's own (tp.h): names that are looked up in *)
(* the server's spaces of spaces and indexes, and authentication.          *)

SPACE_SPACE == 281
SPACE_INDEX == 289
INDEX_NAME == 2

Lookup(space, index, key) ==
    [method |-> "lookup",
     fields |-> <<<<"space", Number(space)>>, <<"index", Number(index)>>,
                  <<"offset", Number(0)>>, <<"limit", Number(LookupLimit)>>,
                  <<"key", ListOf(key)>>>>]
Auth(login) ==
    [method |-> "auth",
     fields |-> <<<<"username", login.user>>,
                  <<"tuple", IF Is(login.scramble, "nil") THEN EmptyArr
                             ELSE ListOf(<<Str(""), login.scramble>>)>>>>]

\* What a call may look up: its space, and then its index.  A select that has no
\* good limit does not get there.
LooksUp(c) ==
    "space" \in DOMAIN c /\ (c.method = "select" => IsGood(LimitNo(c.limit)))
LooksUpSpace(c) == LooksUp(c) /\ Is(c.space, "str")
LooksUpIndex(c) ==
    /\ LooksUp(c) /\ "index" \in DOMAIN c /\ Is(c.index, "str")
    /\ IsGood(SpaceNo(c.space))
Lookups(c) ==
    (IF LooksUpSpace(c) THEN {Lookup(SPACE_SPACE, INDEX_NAME, <<c.space>>)} ELSE {})
        \cup (IF LooksUpIndex(c)
              THEN {Lookup(SPACE_INDEX, INDEX_NAME, <<SpaceNo(c.space).v, c.index>>)}
              ELSE {})

\* Every space and every index, asked for behind an authentication.
AllSpaces == Lookup(SPACE_SPACE, 0, <<>>)
AllIndexes == Lookup(SPACE_INDEX, 0, <<>>)
===============================================================================
