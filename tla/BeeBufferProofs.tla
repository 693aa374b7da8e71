--------------------------- MODULE BeeBufferProofs ---------------------------
(***************************************************************************)
(* The buffer, for all sizes: requests and answers fit, the cursor is in   *)
(* the buffer whenever it writes, and a batch fits until it has outgrown   *)
(* the buffer it began in.                                                 *)
(***************************************************************************)
EXTENDS BeeBuffer, TLAPS

\* What an encoder has ensured is there until it has written it.
Ensured == step = "encode" => a > len + left
\* The contents are shorter than the buffer, and empty while answers are read.
Contents ==
    /\ step \in {"recv", "answer"} => len = 0
    /\ step = "batch" => cur.here

IInv == TypeOK /\ Ensured /\ Contents

LEMMA FirstAllocNat == FirstAlloc \in Nat
BY AllocAssumption DEF FirstAlloc

LEMMA InitIInv == Init => IInv /\ Fits
BY FirstAllocNat
   DEF Init, IInv, TypeOK, Ensured, Contents, Fits, Steps

\* Growing makes room, and forgets nothing of the cursor but where it is.
LEMMA EnsureGrows ==
    ASSUME TypeOK, NEW n \in Nat, Ensure(n)
    PROVE  /\ a' \in Nat /\ a' >= a /\ a' > len + n
           /\ cur' \in [here : BOOLEAN, p : Nat, told : BOOLEAN] /\ cur'.p = cur.p
<1>1. len \in Nat /\ a \in Nat /\ cur \in [here : BOOLEAN, p : Nat, told : BOOLEAN]
  BY DEF TypeOK
<1>2. CASE Room(n)
  BY <1>1, <1>2 DEF Ensure, Room
<1>3. CASE ~Room(n)
  <2>1. a' = Alloc(n)
    BY <1>3 DEF Ensure
  <2>2. PICK moved \in BOOLEAN : cur' = [cur EXCEPT !.here = @ /\ ~moved]
    BY <1>3 DEF Ensure
  <2>3. a' \in Nat /\ a' >= a /\ a' > len + n
    BY <1>1, <2>1, AllocAssumption DEF Alloc, Needed
  <2>4. cur.here \in BOOLEAN /\ (cur.here /\ ~moved) \in BOOLEAN
    BY <1>1
  <2>5. cur' \in [here : BOOLEAN, p : Nat, told : BOOLEAN] /\ cur'.p = cur.p
    BY <1>1, <2>2, <2>4
  <2> QED BY <2>3, <2>5
<1> QED BY <1>2, <1>3

-----------------------------------------------------------------------------
(* The steps.                                                              *)

LEMMA EncodeBeginsStep ==
    ASSUME IInv, NEW n \in Nat, EncodeBegins(n)
    PROVE  IInv' /\ (Fits => Fits')
<1>1. /\ a' \in Nat /\ a' >= a /\ a' > len + n
      /\ cur' \in [here : BOOLEAN, p : Nat, told : BOOLEAN] /\ cur'.p = cur.p
  BY EnsureGrows DEF IInv, EncodeBegins
<1>2. step = "idle" /\ step' = "encode" /\ left' = n /\ len' = len /\ written' = written
  BY DEF EncodeBegins
<1> QED BY <1>1, <1>2
        DEF IInv, TypeOK, Ensured, Contents, Fits, Steps

LEMMA EncodeItemStep ==
    ASSUME IInv, NEW n \in Nat, EncodeItem(n)
    PROVE  IInv' /\ Fits'
<1>1. /\ a' \in Nat /\ a' >= a /\ a' > len + n
      /\ cur' \in [here : BOOLEAN, p : Nat, told : BOOLEAN] /\ cur'.p = cur.p
  BY EnsureGrows DEF IInv, EncodeItem
<1>2. /\ step = "encode" /\ n <= left /\ step' = step
      /\ written' = len + n /\ len' = len + n /\ left' = left - n
  BY DEF EncodeItem
<1> QED BY <1>1, <1>2
        DEF IInv, TypeOK, Ensured, Contents, Fits, Steps

LEMMA EncodeEndsStep ==
    ASSUME IInv, EncodeEnds
    PROVE  IInv' /\ (Fits => Fits')
<1>1. /\ a' = a /\ cur' = cur /\ left' = left /\ written' = written
      /\ step = "encode"
      /\ \/ step' = "recv" /\ len' = 0
         \/ step' = "idle" /\ len' = len
  BY DEF EncodeEnds, SendSucceeds, SendFails
<1> QED BY <1>1
        DEF IInv, TypeOK, Ensured, Contents, Fits, Steps

LEMMA RecvStep ==
    ASSUME IInv, NEW n \in Nat, Recv(n)
    PROVE  IInv' /\ Fits'
<1>1. /\ a' \in Nat /\ a' >= a /\ a' > len + n
      /\ cur' \in [here : BOOLEAN, p : Nat, told : BOOLEAN] /\ cur'.p = cur.p
  BY EnsureGrows DEF IInv, Recv
<1>2. written' = len + n /\ len' = 0 /\ step' = "idle" /\ left' = left
  BY DEF Recv
<1> QED BY <1>1, <1>2
        DEF IInv, TypeOK, Ensured, Contents, Fits, Steps

LEMMA AnswerStep ==
    ASSUME IInv, NEW n \in Nat, Answer(n)
    PROVE  IInv' /\ Fits'
<1>1. /\ a' \in Nat /\ a' >= a /\ a' > len + n
      /\ cur' \in [here : BOOLEAN, p : Nat, told : BOOLEAN] /\ cur'.p = cur.p
  BY EnsureGrows DEF IInv, Answer
<1>2. /\ step = "answer" /\ step' \in {"answer", "idle"}
      /\ written' = n /\ len' = len /\ left' = left
  BY DEF Answer
<1> QED BY <1>1, <1>2
        DEF IInv, TypeOK, Ensured, Contents, Fits, Steps

LEMMA FailsStep ==
    ASSUME IInv, RecvFails \/ AnswerFails
    PROVE  IInv' /\ (Fits => Fits')
<1>1. /\ a' = a /\ cur' = cur /\ left' = left /\ written' = written
      /\ step \in {"recv", "answer"} /\ step' = "idle" /\ len' \in {0, len}
  BY DEF RecvFails, AnswerFails
<1> QED BY <1>1
        DEF IInv, TypeOK, Ensured, Contents, Fits, Steps

LEMMA BatchBeginsStep ==
    ASSUME IInv, BatchBegins
    PROVE  IInv' /\ (Fits => Fits')
<1>1. /\ a' = a /\ len' = len /\ left' = left /\ written' = written
      /\ step = "idle" /\ step' = "batch" /\ cur' = [here |-> TRUE, p |-> 0, told |-> TRUE]
  BY DEF BatchBegins
<1>2. cur'.here /\ cur'.p = 0 /\ cur' \in [here : BOOLEAN, p : Nat, told : BOOLEAN]
  BY <1>1 DEF IInv, TypeOK
<1> QED BY <1>1, <1>2
        DEF IInv, TypeOK, Ensured, Contents, Fits, Steps

LEMMA BatchItemStep ==
    ASSUME IInv, NEW n \in Nat, BatchItem(n)
    PROVE  IInv' /\ Fits'
<1>1. /\ step = "batch" /\ a' = a /\ len' = len /\ left' = left
      /\ cur' = [cur EXCEPT !.p = @ + n]
      /\ written' = cur.p + n
      /\ step' = IF cur.p + n <= a' THEN "batch" ELSE "overrun"
  BY DEF BatchItem, Put
<1>2. /\ len \in Nat /\ a \in Nat /\ left \in Nat
      /\ cur \in [here : BOOLEAN, p : Nat, told : BOOLEAN] /\ cur.here
  BY <1>1 DEF IInv, TypeOK, Contents
<1>3. /\ cur' \in [here : BOOLEAN, p : Nat, told : BOOLEAN]
      /\ cur'.p = cur.p + n /\ cur'.here /\ cur'.told = cur.told
  BY <1>1, <1>2
<1>4. cur.told => cur.p + n <= a
  BY DEF BatchItem, Unused
<1>5. written' > a' => step' = "overrun" /\ ~cur'.told
  BY <1>1, <1>2, <1>3, <1>4
<1> QED BY <1>1, <1>2, <1>3, <1>5
        DEF IInv, TypeOK, Ensured, Contents, Fits, Steps

LEMMA BatchItemGrowsStep ==
    ASSUME IInv, NEW n \in Nat, BatchItemGrows(n)
    PROVE  IInv' /\ (Fits => Fits')
<1>1. /\ step = "batch" /\ len' = len /\ left' = left
      /\ a' = IF Room(n) THEN a ELSE Alloc(n)
  BY DEF BatchItemGrows
<1>2. /\ len \in Nat /\ a \in Nat /\ left \in Nat
      /\ cur \in [here : BOOLEAN, p : Nat, told : BOOLEAN] /\ cur.here
  BY <1>1 DEF IInv, TypeOK, Contents
<1>3. a' \in Nat /\ a' >= a
  BY <1>1, <1>2, AllocAssumption DEF Alloc, Needed
<1>4. CASE /\ cur' = [here |-> TRUE, p |-> cur.p + n, told |-> FALSE]
           /\ Put(n)
  <2>1. cur'.here /\ ~cur'.told /\ cur' \in [here : BOOLEAN, p : Nat, told : BOOLEAN]
    BY <1>2, <1>4
  <2>2. /\ written' = cur.p + n /\ step' \in {"batch", "overrun"}
        /\ written' > a' => step' = "overrun"
    BY <1>2, <1>3, <1>4 DEF Put
  <2> QED BY <1>1, <1>2, <1>3, <2>1, <2>2
          DEF IInv, TypeOK, Ensured, Contents, Fits, Steps
<1>5. CASE /\ cur' = [here |-> TRUE, p |-> cur.p, told |-> FALSE]
           /\ UNCHANGED <<step, written>>
  <2>1. cur'.here /\ ~cur'.told /\ cur' \in [here : BOOLEAN, p : Nat, told : BOOLEAN]
    BY <1>2, <1>5
  <2> QED BY <1>1, <1>2, <1>3, <1>5, <2>1
          DEF IInv, TypeOK, Ensured, Contents, Fits, Steps
<1> QED BY <1>4, <1>5 DEF BatchItemGrows

LEMMA BatchEndsStep ==
    ASSUME IInv, BatchEnds
    PROVE  IInv' /\ (Fits => Fits')
<1>1. /\ a' = a /\ left' = left /\ written' = written
      /\ cur' = [cur EXCEPT !.p = 0] /\ step = "batch"
      /\ \/ step' = "answer" /\ len' = 0
         \/ step' = "idle" /\ len' = cur.p
  BY DEF BatchEnds, SendSucceeds, SendFails
<1>2. cur' \in [here : BOOLEAN, p : Nat, told : BOOLEAN] /\ cur'.p = 0 /\ cur.p \in Nat
  BY <1>1 DEF IInv, TypeOK
<1> QED BY <1>1, <1>2
        DEF IInv, TypeOK, Ensured, Contents, Fits, Steps

LEMMA NextStep ==
    IInv /\ [Next]_vars => IInv' /\ (Fits => Fits')
<1> SUFFICES ASSUME IInv, [Next]_vars
             PROVE  IInv' /\ (Fits => Fits')
  OBVIOUS
<1>1. ASSUME NEW n \in Requests, EncodeBegins(n)
      PROVE  IInv' /\ (Fits => Fits')
  BY <1>1, SizesAssumption, EncodeBeginsStep
<1>2. ASSUME NEW n \in Sizes, EncodeItem(n) \/ Recv(n) \/ Answer(n)
      PROVE  IInv' /\ (Fits => Fits')
  BY <1>2, SizesAssumption, EncodeItemStep, RecvStep, AnswerStep
<1>8. ASSUME NEW n \in Sizes, BatchItem(n) \/ BatchItemGrows(n)
      PROVE  IInv' /\ (Fits => Fits')
  BY <1>8, SizesAssumption, BatchItemStep, BatchItemGrowsStep
<1>3. CASE EncodeEnds
  BY <1>3, EncodeEndsStep
<1>4. CASE RecvFails \/ AnswerFails
  BY <1>4, FailsStep
<1>5. CASE BatchBegins
  BY <1>5, BatchBeginsStep
<1>6. CASE BatchEnds
  BY <1>6, BatchEndsStep
<1>7. CASE UNCHANGED vars
  BY <1>7 DEF vars, IInv, TypeOK, Ensured, Contents, Fits
<1> QED BY <1>1, <1>2, <1>3, <1>4, <1>5, <1>6, <1>7, <1>8 DEF Next

-----------------------------------------------------------------------------
(* The theorems.                                                           *)

THEOREM Invariance == Spec => []IInv
<1>1. Init => IInv
  BY InitIInv
<1>2. IInv /\ [Next]_vars => IInv'
  BY NextStep
<1> QED BY <1>1, <1>2, PTL DEF Spec

\* The variables keep their types: nothing is counted below zero, however long
\* requests, answers and batches are.
THEOREM TypeCorrect == Spec => []TypeOK
<1>1. IInv => TypeOK
  BY DEF IInv
<1> QED BY <1>1, Invariance, PTL

\* Requests and answers of any sizes are written inside of the buffer
\* (smart_string_ensure), and batches until they have outgrown it and
\* bee_tp_reserve was asked for room.
THEOREM FitsHolds == Spec => []Fits
<1>1. Init => Fits
  BY InitIInv
<1>2. IInv /\ Fits /\ [Next]_vars => Fits'
  BY NextStep
<1> QED BY <1>1, <1>2, Invariance, PTL DEF Spec

\* The cursor writes into the buffer that is there, wherever growing has moved
\* it (bee_tp_update).
THEOREM CursorHereHolds == Spec => []CursorHere
<1>1. IInv => CursorHere
  BY DEF IInv, Contents, CursorHere
<1> QED BY <1>1, Invariance, PTL

\* The answer to a request is parsed from where it was read to (bee_stream_send
\* empties the buffer, bee_step_recv reads behind what it holds).
THEOREM ParsedIsReadHolds == Spec => []ParsedIsRead
<1>1. IInv => ParsedIsRead
  BY DEF IInv, Contents, ParsedIsRead
<1> QED BY <1>1, Invariance, PTL
===============================================================================
