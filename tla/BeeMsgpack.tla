------------------------------ MODULE BeeMsgpack ------------------------------
(***************************************************************************)
(* PHP values to msgpack and back (bee_msgpack.c).  A value is a record    *)
(* with one field that says what it is; an array has the pairs in order    *)
(* and the next index PHP would use.  Bytes are a sequence of items, each  *)
(* with what it says and how many bytes it takes: an item of an array or a *)
(* map only says how many elements follow.                                 *)
(*                                                                         *)
(* Arrays that contain themselves are left out: nApplyCount cuts them off  *)
(* alike where they are counted and where they are packed.                 *)
(***************************************************************************)
EXTENDS Integers, SequencesExt, FiniteSetsExt, Functions

CONSTANTS
    UintSteps,  \* the largest numbers that take 1, 2, 3 and 5 bytes
    IntSteps,   \* ... and the smallest, negated
    StrSteps,   \* the longest strings with 1, 2 and 3 bytes before them
    SeqSteps,   \* the longest arrays and maps with 1 and 3 bytes
    LongMax,    \* LONG_MAX: larger numbers become negative
    Numeric,    \* what the strings that PHP takes for indexes stand for
    Depth       \* the values a script has, and how deep each of them nests

ASSUME StepsAssumption ==
    /\ UintSteps \in [1..4 -> Nat] /\ IntSteps \in [1..4 -> Nat]
    /\ StrSteps \in [1..3 -> Nat] /\ SeqSteps \in [1..2 -> Nat]
    /\ LongMax \in Nat

-----------------------------------------------------------------------------
(* PHP's values and arrays.                                                *)

Nil == [nil |-> TRUE]
Bool(b) == [bool |-> b]
Long(n) == [int |-> n]
Dbl(d) == [double |-> d]
Str(s) == [str |-> s]
Arr(pairs, next) == [array |-> pairs, next |-> next]
Object == [object |-> TRUE]     \* any value that msgpack has nothing for

Values == DOMAIN Depth
Longs == -LongMax - 1..LongMax
Texts == {s \in STRING : Len(s) \in Nat}
Index == [int : Longs] \cup [str : Texts]
Scalars ==
    {Nil, Object} \cup [bool : BOOLEAN] \cup [int : Longs] \cup [double : Int]
        \cup [str : Texts]

\* An array has no key twice, and is deeper than what is in it.
IsArray(v) ==
    /\ v \in [array : Seq(Index \X Values), next : Nat]
    /\ \A i, j \in DOMAIN v.array : v.array[i][1] = v.array[j][1] => i = j
    /\ \A i \in DOMAIN v.array : Depth[v.array[i][2]] < Depth[v]
    /\ Depth[Nil] < Depth[v]

ASSUME ValuesAssumption ==
    /\ Depth \in [Values -> Nat] /\ Nil \in Values
    /\ \A v \in Values : v \in Scalars \/ IsArray(v)

Is(v, type) == type \in DOMAIN v
EmptyArr == Arr(<<>>, 0)
Count(arr) == Len(arr.array)
ArrayKeys(arr) == {pair[1] : pair \in ToSet(arr.array)}

\* zend_hash_find and zend_hash_index_find.
Has(arr, key) == key \in ArrayKeys(arr)
At(arr, key) == (CHOOSE pair \in ToSet(arr.array) : pair[1] = key)[2]

\* zend_hash_update and zend_hash_index_update: an index that is taken keeps
\* its place, and a negative one does not count for the next.
Put(arr, key, v) ==
    Arr(IF Has(arr, key)
        THEN [i \in DOMAIN arr.array |->
                IF arr.array[i][1] = key THEN <<key, v>> ELSE arr.array[i]]
        ELSE Append(arr.array, <<key, v>>),
        IF Is(key, "int") /\ key.int >= arr.next THEN key.int + 1 ELSE arr.next)

\* add_next_index_zval, and an array() of values.
Push(arr, v) == Put(arr, Long(arr.next), v)
ListOf(values) == FoldLeft(Push, EmptyArr, values)

-----------------------------------------------------------------------------
(* Bytes.                                                                  *)

Item(says, bytes) == [says |-> says, bytes |-> bytes]

\* mp_sizeof_uint, _int, _str, _array and _map; the encoders take as many.
Class(steps, n) == 1 + Cardinality({i \in DOMAIN steps : steps[i] < n})
UintBytes(n) == <<1, 2, 3, 5, 9>>[Class(UintSteps, n)]
IntBytes(n) == <<1, 2, 3, 5, 9>>[Class(IntSteps, -n)]
StrBytes(len) == len + <<1, 2, 3, 5>>[Class(StrSteps, len)]
SeqBytes(len) == <<1, 3, 5>>[Class(SeqSteps, len)]

\* php_mp_is_hash: not indexed from 0 to the number of elements, without a hole
\* as far as the next index shows it.
IsHash(arr) ==
    \/ Count(arr) # arr.next
    \/ \E key \in ArrayKeys(arr) : ~Is(key, "int")

\* What php_mp_pack_array_recursively finds at the indexes below the number of
\* elements.
Elements(arr) ==
    [i \in 1..Count(arr) |->
        IF Has(arr, Long(i - 1)) THEN At(arr, Long(i - 1)) ELSE Nil]

\* php_mp_sizeof.
SizeofLong(n) == IF n >= 0 THEN UintBytes(n) ELSE IntBytes(n)
SizeofString(s) == StrBytes(Len(s))

SizeofIndex(key) == IF Is(key, "int") THEN SizeofLong(key.int) ELSE SizeofString(key.str)
\* Variant: as if every array were a list.
SizeofHashAsList(arr, sizeof) ==
    SeqBytes(Count(arr)) + SumFunction([i \in 1..Count(arr) |-> sizeof[Elements(arr)[i]]])
SizeofHash(arr, sizeof) ==
    SeqBytes(Count(arr)) + SumFunction([i \in 1..Count(arr) |->
        SizeofIndex(arr.array[i][1]) + sizeof[arr.array[i][2]]])
SizeofArray(arr, sizeof) ==
    SeqBytes(Count(arr)) + SumFunction([i \in 1..Count(arr) |-> sizeof[Elements(arr)[i]]])
Sizeof[v \in Values] ==
    CASE Is(v, "array")  -> IF IsHash(v) THEN SizeofHash(v, Sizeof)
                            ELSE SizeofArray(v, Sizeof)
      [] Is(v, "int")    -> SizeofLong(v.int)
      [] Is(v, "double") -> 9
      [] Is(v, "str")    -> SizeofString(v.str)
      [] OTHER           -> 1

\* php_mp_pack.
PackNil == <<Item(Nil, 1)>>
\* Variant: mp_encode_uint for every number.
PackLongUnsigned(n) ==
    <<Item(Long(IF n < 0 THEN n + 2 * (LongMax + 1) ELSE n), SizeofLong(n))>>
PackLong(n) == <<Item(Long(n), SizeofLong(n))>>
PackString(s) == <<Item(Str(s), SizeofString(s))>>
PackList(len) == <<Item([list |-> len], SeqBytes(len))>>
PackMap(len) == <<Item([map |-> len], SeqBytes(len))>>

PackIndex(key) == IF Is(key, "int") THEN PackLong(key.int) ELSE PackString(key.str)
PackHash(arr, pack) ==
    PackMap(Count(arr)) \o FlattenSeq([i \in 1..Count(arr) |->
        PackIndex(arr.array[i][1]) \o pack[arr.array[i][2]]])
PackArray(arr, pack) ==
    PackList(Count(arr)) \o FlattenSeq([i \in 1..Count(arr) |-> pack[Elements(arr)[i]]])
Pack[v \in Values] ==
    CASE Is(v, "array")  -> IF IsHash(v) THEN PackHash(v, Pack) ELSE PackArray(v, Pack)
      [] Is(v, "int")    -> PackLong(v.int)
      [] Is(v, "double") -> <<Item(v, 9)>>
      [] Is(v, "bool")   -> <<Item(v, 1)>>
      [] Is(v, "str")    -> PackString(v.str)
      [] OTHER           -> PackNil

-----------------------------------------------------------------------------
(* And back: the value that starts at an item, and where the next starts.  *)
(* err is "no"; "exception"; or "silent", where nothing but FAILURE is     *)
(* returned.                                                               *)

Unpacked(v, next) == [v |-> v, next |-> next, err |-> "no"]
Failed(err) == [v |-> Nil, next |-> 0, err |-> err]

\* Variant: what a long does not hold is the largest.
AsLongClipped(n) == IF n > LongMax THEN LongMax ELSE n

\* An unsigned number of 64 bits in a long.
AsLong(n) == IF n > LongMax THEN n - 2 * (LongMax + 1) ELSE n

\* add_assoc_zval_ex: a string that looks like an index is one.
Symbol(s) == IF s \in DOMAIN Numeric THEN Long(Numeric[s]) ELSE Str(s)

\* php_mp_unpack_array and php_mp_unpack_map: unpack says what is at an item.
UnpackElement(acc, unpack) ==
    LET e == unpack[acc.next]
    IN  IF acc.err # "no" THEN acc
        ELSE IF e.err # "no" THEN e ELSE Unpacked(Push(acc.v, e.v), e.next)
UnpackArray(n, from, unpack) ==
    FoldLeft(LAMBDA acc, i : UnpackElement(acc, unpack),
             Unpacked(EmptyArr, from), [i \in 1..n |-> i])

\* The key is looked at when its value has been unpacked.
UnpackPair(acc, unpack) ==
    LET key   == unpack[acc.next]
        value == unpack[key.next]
        put   == IF Is(key.v, "str") THEN Symbol(key.v.str) ELSE key.v
    IN  IF acc.err # "no" THEN acc
        ELSE IF key.err # "no" THEN key
        ELSE IF value.err # "no" THEN value
        ELSE IF ~Is(put, "int") /\ ~Is(put, "str") THEN Failed("exception")
        ELSE Unpacked(Put(acc.v, put, value.v), value.next)
UnpackMap(n, from, unpack) ==
    FoldLeft(LAMBDA acc, i : UnpackPair(acc, unpack),
             Unpacked(EmptyArr, from), [i \in 1..n |-> i])

\* php_mp_unpack.
Unpack(items, from) ==
    LET unpack[k \in DOMAIN items] ==
            LET says == items[k].says
            IN  CASE Is(says, "list")  -> UnpackArray(says.list, k + 1, unpack)
                  [] Is(says, "map")   -> UnpackMap(says.map, k + 1, unpack)
                  [] Is(says, "int")   -> Unpacked(Long(AsLong(says.int)), k + 1)
                  [] Is(says, "bin")   -> Unpacked(Str(says.bin), k + 1)
                  [] Is(says, "float") -> Unpacked(Dbl(says.float), k + 1)
                  [] Is(says, "ext")   -> Failed("silent")
                  [] OTHER             -> Unpacked(says, k + 1)
    IN  unpack[from]

-----------------------------------------------------------------------------
(* What the server reads, from the last item to the first: the item of a   *)
(* list or a map takes the values behind it, and a size takes all that is  *)
(* left, which is a request.  Values are trees, whose lists and maps have  *)
(* their elements.                                                         *)

Nothing == [trees |-> <<>>, bytes |-> 0, requests |-> <<>>]

\* How many values the item takes, and what it makes of them.
Takes(says) ==
    CASE Is(says, "list") -> says.list
      [] Is(says, "map")  -> 2 * says.map
      [] OTHER            -> 0
Tree(says, trees) ==
    CASE Is(says, "list") -> [list |-> SubSeq(trees, 1, says.list)]
      [] Is(says, "map")  -> [map |-> [i \in 1..says.map |->
                                       <<trees[2 * i - 1], trees[2 * i]>>]]
      [] OTHER            -> says

ReadItem(item, read) ==
    IF Is(item.says, "size")
    THEN [trees    |-> <<>>,
          bytes    |-> 0,
          requests |-> <<[size  |-> item.says.size,
                          bytes |-> read.bytes,
                          trees |-> read.trees]>> \o read.requests]
    ELSE [read EXCEPT
            !.trees = <<Tree(item.says, @)>> \o SubSeq(@, Takes(item.says) + 1, Len(@)),
            !.bytes = @ + item.bytes]
Read(items, behind) == FoldRight(ReadItem, items, behind)

-----------------------------------------------------------------------------
(* What is meant, without a byte.                                          *)

\* A PHP array whose keys are the numbers from 0 is a list, whatever order they
\* were set in.  Any other is a map.
IsList(arr) == ArrayKeys(arr) = {Long(i) : i \in 0..Count(arr) - 1}

Means[v \in Values] ==
    CASE Is(v, "array") ->
            IF IsList(v)
            THEN [list |-> [i \in 1..Count(v) |-> Means[At(v, Long(i - 1))]]]
            ELSE [map |-> [i \in 1..Count(v) |->
                            <<v.array[i][1], Means[v.array[i][2]]>>]]
      [] Is(v, "object")  -> Nil
      [] OTHER            -> v

\* No array in the value is a list to php_mp_is_hash and a map to PHP, or the
\* other way round: what negative keys can lead to.
NotMistaken[v \in Values] ==
    Is(v, "array") =>
        /\ IsHash(v) <=> ~IsList(v)
        /\ \A i \in DOMAIN v.array : NotMistaken[v.array[i][2]]
===============================================================================
