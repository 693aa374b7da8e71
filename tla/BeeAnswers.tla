------------------------------ MODULE BeeAnswers ------------------------------
(***************************************************************************)
(* What the server writes, value by value, and what the two parsers of the *)
(* extension take from it: bee_step_recv, which is in BeeRequests, and     *)
(* php_tp_response, which the lookups and authentication use instead.      *)
(***************************************************************************)
EXTENDS BeeRequests

\* A value, as a tree whose lists and maps have their elements, in bytes.
RECURSIVE Write(_)
Write(w) ==
    CASE Is(w, "list") ->
            FoldLeft(LAMBDA items, v : items \o Write(v), PackList(Len(w.list)), w.list)
      [] Is(w, "map") ->
            FoldLeft(LAMBDA items, pair : items \o Write(pair[1]) \o Write(pair[2]),
                     PackMap(Len(w.map)), w.map)
      [] Is(w, "int")                 -> PackLong(w.int)
      [] Is(w, "str")                 -> PackString(w.str)
      [] Is(w, "nil") \/ Is(w, "bool") -> <<Item(w, 1)>>
      [] OTHER                        -> <<Item(w, 9)>>

-----------------------------------------------------------------------------
(* php_tp_response: the pairs of the header, then those of the body.       *)

HeaderStep(acc, pair) ==
    IF acc.bad \/ ~Is(pair[1], "int") \/ ~Is(pair[2], "int")
    THEN [acc EXCEPT !.bad = TRUE]
    ELSE [acc EXCEPT !.code = IF pair[1].int = CODE THEN pair[2].int ELSE @,
                     !.sync = IF pair[1].int = SYNC THEN pair[2].int ELSE @]

\* Variant: what is not looked for is refused, not passed over.
BodyStepRefuses(acc, pair) ==
    LET key == pair[1].int
    IN  IF acc.bad \/ key \notin {ERROR, DATA}
                   \/ (key = ERROR /\ ~Is(pair[2], "str"))
                   \/ (key = DATA /\ ~Is(pair[2], "list"))
        THEN [acc EXCEPT !.bad = TRUE]
        ELSE [acc EXCEPT !.code = IF key = ERROR THEN @ % ErrorBit ELSE @,
                         !.error = IF key = ERROR THEN pair[2] ELSE @,
                         !.data = IF key = DATA THEN pair[2] ELSE @]

BodyStep(acc, pair) ==
    LET key == pair[1].int
    IN  IF acc.bad \/ (key = ERROR /\ ~Is(pair[2], "str"))
                   \/ (key = DATA /\ ~Is(pair[2], "list"))
        THEN [acc EXCEPT !.bad = TRUE]
        ELSE [acc EXCEPT !.code = IF key = ERROR THEN @ % ErrorBit ELSE @,
                         !.error = IF key = ERROR THEN pair[2] ELSE @,
                         !.data = IF key = DATA THEN pair[2] ELSE @]

Response(items) ==
    LET trees  == Read(items, Nothing).trees
        start  == [bad |-> FALSE, code |-> 0, sync |-> 0, error |-> Nil, data |-> Nil]
        header == FoldLeft(HeaderStep, start, trees[1].map)
    IN  IF header.bad \/ ~Is(trees[2], "map") THEN [header EXCEPT !.bad = TRUE]
        ELSE FoldLeft(BodyStep, header, trees[2].map)

-----------------------------------------------------------------------------
(* Properties.                                                             *)

\* A PHP value that shows all of an answer: every element of a list under its
\* number, every value of a map under its key, every bit of a number.
RECURSIVE Shows(_, _)
Shows(v, w) ==
    CASE Is(w, "list") ->
            /\ Is(v, "array") /\ Count(v) = Len(w.list)
            /\ \A i \in DOMAIN w.list :
                Has(v, Long(i - 1)) /\ Shows(At(v, Long(i - 1)), w.list[i])
      [] Is(w, "map") ->
            /\ Is(v, "array") /\ Count(v) = Len(w.map)
            /\ \A i \in DOMAIN w.map :
                LET key == IF Is(w.map[i][1], "str") THEN Symbol(w.map[i][1].str)
                           ELSE w.map[i][1]
                IN  Has(v, key) /\ Shows(At(v, key), w.map[i][2])
      [] Is(w, "int")   -> Is(v, "int") /\ (v.int - w.int) % (2 * (LongMax + 1)) = 0
      [] Is(w, "bin")   -> v = Str(w.bin)
      [] Is(w, "float") -> v = Dbl(w.float)
      [] OTHER          -> v = w

\* Nothing in a map that PHP's arrays have no key for, and no type unknown.
RECURSIVE Expressible(_)
Expressible(w) ==
    CASE Is(w, "list") -> \A i \in DOMAIN w.list : Expressible(w.list[i])
      [] Is(w, "map")  -> \A i \in DOMAIN w.map :
            /\ Is(w.map[i][1], "int") \/ Is(w.map[i][1], "str")
            /\ Expressible(w.map[i][2])
      [] OTHER -> ~Is(w, "ext")

\* A method returns all of the data of its answer; or FALSE, if there is none, a
\* value has no place in PHP, or the server says why.  When the counter of the
\* process has passed what a header holds, every answer is refused.
AnswerShown ==
    answer # None =>
    LET body   == [p \in {pair[1].int : pair \in ToSet(answer.body)} |->
                    (CHOOSE pair \in ToSet(answer.body) : pair[1].int = p)[2]]
    IN  IF sync >= Word
        THEN result.v = Bool(FALSE) /\ ~Is(result.raised, "server")
        ELSE IF answer.code # 0
        THEN result = Raised(ByServer(answer.code % ErrorBit, body[ERROR]))
        ELSE IF ~Expressible([map |-> answer.body])
        THEN result.v = Bool(FALSE)
        ELSE IF call.method = "ping" THEN result = Returned(Bool(TRUE))
        ELSE IF DATA \notin DOMAIN body THEN result = Raised(ByClient)
        ELSE Is(result.raised, "nil") /\ Shows(result.v, body[DATA])

\* The parser of the lookups takes from an answer what the methods take from it:
\* the sync, the error, the data.
ParsersAgree ==
    answer # None =>
    LET r == Response(Wire(answer, sync % Word))
    IN  /\ ~r.bad /\ r.sync = sync % Word
        /\ (sync < Word /\ (r.code # 0 \/ Is(result.raised, "server"))) =>
            result = Raised(ByServer(r.code, r.error))
        /\ (Is(result.raised, "nil") /\ Is(result.v, "array")) => Shows(result.v, r.data)

===============================================================================
