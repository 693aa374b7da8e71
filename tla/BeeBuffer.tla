------------------------------ MODULE BeeBuffer ------------------------------
(***************************************************************************)
(* obj->value, the one buffer of a connection, and obj->tps, a cursor that *)
(* lookups and authentication encode with.  Requests are appended behind   *)
(* len; a batch of the cursor is written from the start, behind its own    *)
(* position, and only then becomes the contents.  Both grow the buffer,    *)
(* which may move it.  A write that ends outside of the buffer leaves      *)
(* nothing to be said of the program: the model stops at it.               *)
(*                                                                         *)
(* What the bytes are is left to BeeRequests: here they are counted.       *)
(***************************************************************************)
EXTENDS Integers

CONSTANTS
    Sizes,          \* bytes of one item of a request, and of an answer
    Requests,       \* bytes of a whole request
    GreetingSize,   \* GREETING_SIZE, 128
    StartSize,      \* SMART_STR_START_SIZE of PHP ...
    Prealloc,       \* ... and SMART_STR_PREALLOC
    MaxBatch,       \* bound: no item is encoded behind a batch as long
    MaxLen          \* bound: no request is encoded behind as many bytes

ASSUME SizesAssumption == Sizes \subseteq Nat /\ Requests \subseteq Nat
ASSUME AllocAssumption ==
    GreetingSize \in Nat /\ StartSize \in Nat /\ Prealloc \in Nat \ {0}
ASSUME BoundsAssumption == MaxBatch \in Nat /\ MaxLen \in Nat

VARIABLES
    len,      \* obj->value->len
    a,        \* obj->value->a, the bytes that are allocated
    cur,      \* obj->tps: is s the buffer, the position p, is e its end
    step,     \* what the running method does
    left,     \* bytes its encoder has still to write
    written   \* where the last write ended

vars == <<len, a, cur, step, left, written>>

\* __construct.
FirstAlloc ==
    IF GreetingSize < StartSize THEN StartSize ELSE GreetingSize + Prealloc
Init ==
    /\ len = 0 /\ a = FirstAlloc
    /\ cur = [here |-> TRUE, p |-> 0, told |-> TRUE]
    /\ step = "idle" /\ left = 0 /\ written = 0

-----------------------------------------------------------------------------
(* Growing.                                                                *)

\* Variant: the bytes that are there are not counted.
RoomOfEmpty(n) == a > n

\* smart_string_ensure and bee_tp_reserve compute alike.
Room(n) == a > len + n
Needed(n) == IF len + n > 2 * a THEN len + n ELSE 2 * a
Alloc(n) == len + Needed(n) + Prealloc

\* Reallocating may move the buffer, and the cursor is not told.
Ensure(n) ==
    IF Room(n) THEN UNCHANGED <<a, cur>>
    ELSE /\ a' = Alloc(n)
         /\ \E moved \in BOOLEAN : cur' = [cur EXCEPT !.here = @ /\ ~moved]

-----------------------------------------------------------------------------
(* Requests, encoded behind what the buffer holds (php_tp_encode_...).     *)

EncodeBegins(n) ==
    /\ step = "idle" /\ len < MaxLen
    /\ Ensure(n)
    /\ step' = "encode" /\ left' = n
    /\ UNCHANGED <<len, written>>

\* Variant: more is written than was counted.
EncodeItemUncounted(n) ==
    /\ step = "encode" /\ left > 0
    /\ Ensure(n)
    /\ written' = len + n /\ len' = len + n /\ left' = left - n
    /\ UNCHANGED step

EncodeItem(n) ==
    /\ step = "encode" /\ n <= left
    /\ Ensure(n)
    /\ written' = len + n /\ len' = len + n /\ left' = left - n
    /\ UNCHANGED step

\* Variant: the length is not reset.
SendSucceedsKeeping(next) == step' = next /\ UNCHANGED len

\* bee_stream_send.
SendSucceeds(next) == step' = next /\ len' = 0
SendFails(bytes) == step' = "idle" /\ len' = bytes

EncodeEnds ==
    /\ step = "encode" /\ left = 0
    /\ SendSucceeds("recv") \/ SendFails(len)
    /\ UNCHANGED <<a, cur, left, written>>

\* bee_step_recv: the answer is read behind the contents, and parsed from the
\* start.
Recv(n) ==
    /\ step = "recv"
    /\ Ensure(n)
    /\ written' = len + n
    /\ len' = 0 /\ step' = "idle"
    /\ UNCHANGED left

RecvFails ==
    /\ step = "recv"
    /\ len' = 0 /\ step' = "idle"
    /\ UNCHANGED <<a, cur, left, written>>

-----------------------------------------------------------------------------
(* Batches, written over what the buffer holds.                            *)

\* Variant: the cursor goes on where it is.
BatchBeginsStale ==
    /\ step = "idle"
    /\ cur' = [cur EXCEPT !.p = 0]
    /\ step' = "batch"
    /\ UNCHANGED <<len, a, left, written>>

\* bee_tp_update.
BatchBegins ==
    /\ step = "idle"
    /\ cur' = [here |-> TRUE, p |-> 0, told |-> TRUE]
    /\ step' = "batch"
    /\ UNCHANGED <<len, a, left, written>>

\* tp_unused: e is where the buffer ends, or anywhere.
Unused(n) == cur.told => cur.p + n <= a
Used(n) == cur.told => cur.p + n > a

\* The item is written at the position, in the buffer or outside.
Put(n) ==
    /\ written' = cur.p + n
    /\ step' = IF cur.p + n <= a' THEN "batch" ELSE "overrun"

\* tp_ensure finds room for the item.
BatchItem(n) ==
    /\ step = "batch" /\ cur.p < MaxBatch
    /\ Unused(n)
    /\ cur' = [cur EXCEPT !.p = @ + n]
    /\ UNCHANGED <<len, a, left>>
    /\ Put(n)

\* It finds none.  bee_tp_reserve asks for room behind the contents, not behind
\* the position, and never says how large the buffer is: e is then anywhere,
\* and where the size that it does not say reads -1 the item is left out.
BatchItemGrows(n) ==
    /\ step = "batch" /\ cur.p < MaxBatch
    /\ Used(n)
    /\ a' = IF Room(n) THEN a ELSE Alloc(n)
    /\ \/ /\ cur' = [here |-> TRUE, p |-> cur.p + n, told |-> FALSE]
          /\ Put(n)
       \/ /\ cur' = [here |-> TRUE, p |-> cur.p, told |-> FALSE]
          /\ UNCHANGED <<step, written>>
    /\ UNCHANGED <<len, left>>

\* The batch becomes the contents, the cursor is flushed (bee_tp_flush).
BatchEnds ==
    /\ step = "batch" /\ cur.p > 0
    /\ SendSucceeds("answer") \/ SendFails(cur.p)
    /\ cur' = [cur EXCEPT !.p = 0]
    /\ UNCHANGED <<a, left, written>>

\* An answer to a batch is read to the start of the buffer; authentication
\* reads three.
Answer(n) ==
    /\ step = "answer"
    /\ Ensure(n)
    /\ written' = n
    /\ step' \in {"answer", "idle"}
    /\ UNCHANGED <<len, left>>

AnswerFails ==
    /\ step = "answer"
    /\ step' = "idle"
    /\ UNCHANGED <<len, a, cur, left, written>>

Next ==
    \/ \E n \in Requests : EncodeBegins(n)
    \/ \E n \in Sizes : EncodeItem(n) \/ Recv(n) \/ Answer(n)
    \/ \E n \in Sizes : BatchItem(n) \/ BatchItemGrows(n)
    \/ EncodeEnds \/ RecvFails
    \/ BatchBegins \/ BatchEnds \/ AnswerFails

Spec == Init /\ [][Next]_vars

-----------------------------------------------------------------------------
(* What the buffer promises.                                               *)

Steps == {"idle", "encode", "recv", "batch", "answer", "overrun"}
TypeOK ==
    /\ len \in Nat /\ a \in Nat /\ left \in Nat /\ written \in Nat
    /\ cur \in [here : BOOLEAN, p : Nat, told : BOOLEAN]
    /\ step \in Steps

\* Requests behind what failed writes have left, and answers before and behind
\* it, end inside of what is allocated (smart_string_ensure).  So does a batch
\* until it has outgrown the buffer that it began in: only then, when room was
\* asked for behind len (bee_tp_reserve), it may be written outside.
Fits == written > a => step = "overrun" /\ ~cur.told

\* While a batch is written the cursor is in the buffer, although requests and
\* answers move it from under the cursor (bee_tp_update comes first).
CursorHere == step = "batch" => cur.here

\* The answer that is read behind the contents is the one parsed from the start
\* of the buffer: nothing of the request is left in front of it.
ParsedIsRead == step = "recv" => len = 0
===============================================================================
