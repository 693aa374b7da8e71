----------------------------- MODULE BeeRequests -----------------------------
(***************************************************************************)
(* What the methods write and what they make of the answer: the encoders   *)
(* and the parser of bee_proto.c, bee_step_recv, and BEE_RETURN_DATA.      *)
(* Any call may connect and authenticate, or look a name up, before it has *)
(* a request of its own: both are encoded over what waits in the buffer.   *)
(* The stream is whole, and the server answers what it was asked; short    *)
(* reads, late answers, and what a write that fails has delivered all the  *)
(* same are in BeeClient.                                                  *)
(***************************************************************************)
EXTENDS BeeArguments

CONSTANTS
    Calls,      \* records with the method and its arguments
    Syncs,      \* where the counter of the process may be
    Answers,    \* what each of the calls may be answered: records with a code and
                \* the map of a body
    SchemaId,   \* what the server says in every header
    ErrorBit,   \* 2^15: the bit of an error's code
    Fails,      \* bound: the calls that may fail before their request is written
    MaxWaiting, \* bound: as many requests of failed writes are in the buffer
    Written(_)  \* how the server writes a value

ASSUME BoundsAssumption == MaxWaiting \in Nat /\ Fails \subseteq Calls
\* bound: an index that is named is looked up in a space below 2^31.  A greater
\* number, which no space has, is negative in get_indexno_by_name.
ASSUME CallsAssumption ==
    /\ \A c \in Calls : IsCall(c)
    /\ \A c \in Calls : LooksUpIndex(c) => 2 * SpaceNo(c.space).v.int < Word
    /\ Syncs \subseteq 0..LongMax
    /\ DOMAIN Answers = Calls

\* The requests of the extension's own.
Own ==
    {Auth(login) : login \in Logins} \cup {AllSpaces, AllIndexes}
        \cup UNION {Lookups(c) : c \in Calls}
ASSUME OwnAssumption == \A q \in Own : \A f \in ToSet(q.fields) : f[2] \in Values

VARIABLES
    call,       \* the running call, or the last one
    sync,       \* the sync of its request
    buffer,     \* obj->value, with the requests that could not be sent
    arrived,    \* what a write that got through has sent for the running call
    received,   \* the requests it makes of that
    unsent,     \* (history) the calls, and requests of its own, that are in the buffer
    answer,     \* what it has answered to the last call
    result      \* what the method has returned, and the exception

vars == <<call, sync, buffer, arrived, received, unsent, answer, result>>

CODE == 0
SYNC == 1
SCHEMA_ID == 5
DATA == 48
ERROR == 49

None == [none |-> TRUE]     \* no call, no answer, nothing that is asked for

Raised(what) == [v |-> Bool(FALSE), raised |-> what]
Returned(v) == [v |-> v, raised |-> Nil]
ByClient == [client |-> TRUE]
ByNetwork == [network |-> TRUE]     \* no connection, or no good answer to a lookup
                                    \* or an authentication
ByServer(code, text) == [server |-> <<code, text>>]
FailedWith(err) == Raised(IF err = "exception" THEN ByClient ELSE Nil)

Init ==
    /\ call = None /\ sync = 0 /\ buffer = <<>> /\ arrived = <<>>
    /\ received = <<>> /\ unsent = <<>> /\ answer = None /\ result = Returned(Nil)

-----------------------------------------------------------------------------
(* Encoders: the size is counted first, then the fields are packed.        *)

\* The counter of the process is a long, and a uint32_t in a header: of as many
\* bytes as it needs, or of five in the requests of tp.h (tp_reqid).
OnWire(s) == [bytes |-> SizeofLong(s % Word), items |-> PackLong(s % Word)]
Fixed(s) == [bytes |-> 5, items |-> <<Item(Long(s % Word), 5)>>]

SizeofHeader(type, sent) ==
    SeqBytes(2) + SizeofLong(CODE) + SizeofLong(type) + SizeofLong(SYNC) + sent.bytes
SizeofBody(fields) ==
    SeqBytes(Len(fields)) + SumFunction([i \in DOMAIN fields |->
        SizeofLong(Field[fields[i][1]]) + Sizeof[fields[i][2]]])

PackHeader(size, type, sent) ==
    <<Item([size |-> size], 5)>> \o PackMap(2) \o PackLong(CODE) \o PackLong(type)
        \o PackLong(SYNC) \o sent.items
PackBody(fields) ==
    PackMap(Len(fields)) \o FlattenSeq([i \in DOMAIN fields |->
        PackLong(Field[fields[i][1]]) \o Pack[fields[i][2]]])

Encode(type, sent, fields) ==
    PackHeader(SizeofHeader(type, sent) + SizeofBody(fields), type, sent) \o PackBody(fields)
EncodePing(sent) ==
    PackHeader(SizeofHeader(RequestType.ping, sent), RequestType.ping, sent)
EncodeOwn(q, s) == Encode(RequestType[q.method], Fixed(s), q.fields)

\* What is written before the request of a call: one lookup, or three requests
\* at once.
LookupBatches(c, s) ==
    {[items |-> EncodeOwn(q, s), calls |-> <<q>>] : q \in Lookups(c)}
AuthBatches(s) ==
    {[items |-> EncodeOwn(Auth(login), s) \o EncodeOwn(AllSpaces, s + 1)
                    \o EncodeOwn(AllIndexes, s + 2),
      calls |-> <<Auth(login), AllSpaces, AllIndexes>>] : login \in Logins}

-----------------------------------------------------------------------------
(* Answers.                                                                *)

Wire(a, s) ==
    Written([map |-> <<<<Long(CODE), Long(a.code)>>, <<Long(SYNC), Long(s)>>,
                       <<Long(SCHEMA_ID), Long(SchemaId)>>>>])
        \o Written([map |-> a.body])

\* BEE_RETURN_DATA.
ReturnData(body) ==
    IF Has(body, Long(DATA)) THEN Returned(At(body, Long(DATA))) ELSE Raised(ByClient)

\* bee_step_recv: the header and the body are both unpacked before either is
\* looked at.  It fails, or has the body.
Failure(r) == [failure |-> r]
Recv(items, s) ==
    LET header == Unpack(items, 1)
        body   == Unpack(items, header.next)
        code   == At(header.v, Long(CODE)).int
    IN  IF header.err # "no" THEN Failure(FailedWith(header.err))
        ELSE IF ~Is(header.v, "array") THEN Failure(FailedWith("silent"))
        ELSE IF body.err # "no" THEN Failure(FailedWith(body.err))
        ELSE IF Has(header.v, Long(SYNC)) /\ At(header.v, Long(SYNC)) # Long(s)
        THEN Failure(Raised(ByClient))
        ELSE IF ~Has(header.v, Long(CODE)) THEN Failure(Raised(ByClient))
        ELSE IF code = 0 THEN [body |-> body.v]
        ELSE Failure(Raised(ByServer(code % ErrorBit, At(body.v, Long(ERROR)))))

-----------------------------------------------------------------------------
(* What the server makes of the bytes.                                     *)

\* The requests one behind the other, each behind its size.
InFrames(read) ==
    /\ read.trees = <<>>
    /\ \A i \in DOMAIN read.requests :
        read.requests[i].size = read.requests[i].bytes
Framed(items) == InFrames(Read(items, Nothing))

\* One request: its type, and its fields whatever their order.
AsAsked(trees) ==
    LET type == CHOOSE pair \in ToSet(trees[1].map) : pair[1] = Long(CODE)
    IN  [type   |-> type[2].int,
         fields |-> IF Len(trees) = 1 THEN {} ELSE ToSet(trees[2].map)]
Understood(items) ==
    LET read == Read(items, Nothing)
    IN  IF InFrames(read)
        THEN [i \in DOMAIN read.requests |-> AsAsked(read.requests[i].trees)]
        ELSE None

-----------------------------------------------------------------------------
(* The methods.  A write that fails returns FALSE without an exception and *)
(* leaves the request in the buffer.                                       *)

Asks(c) ==
    /\ c \in Calls /\ arrived = <<>>
    /\ call' = c /\ answer' = None

\* What a request is encoded behind.  What waited is gone if the call has
\* authenticated or looked a name up: both start at the front of the buffer.
Waiting == {[items |-> buffer, calls |-> unsent], [items |-> <<>>, calls |-> <<>>]}
Keeps(waits) == buffer' = waits.items /\ unsent' = waits.calls

Refuses(c, err) ==
    /\ Asks(c) /\ err # "no"
    /\ result' = FailedWith(err)
    /\ \E waits \in Waiting : Keeps(waits)
    /\ UNCHANGED <<sync, arrived, received>>

\* What is written, behind what waits, and what becomes of it.
Writes(items, calls) ==
    \/ /\ arrived' = items /\ received' = Understood(items)
       /\ buffer' = <<>> /\ unsent' = <<>>
       /\ UNCHANGED result
    \/ /\ Len(calls) <= MaxWaiting /\ Last(calls) \in Fails
       /\ buffer' = items /\ unsent' = calls
       /\ result' = FailedWith("silent")
       /\ UNCHANGED <<arrived, received>>

\* Variant: a request goes out before those that wait.
SendsNewFirst(c, s, package) ==
    /\ Asks(c)
    /\ sync' = s
    /\ \E waits \in Waiting :
        Writes(package \o waits.items, Append(waits.calls, c))

Sends(c, s, package) ==
    /\ Asks(c)
    /\ sync' = s
    /\ \E waits \in Waiting :
        Writes(waits.items \o package, Append(waits.calls, c))

Requests(c, request) ==
    \/ Refuses(c, request.err)
    \/ request.err = "no" /\ \E s \in Syncs :
        Sends(c, s, Encode(RequestType[c.method], OnWire(s), request.fields))

Of(method) == {c \in Calls : c.method = method}

Ping    == \E c \in Of("ping"), s \in Syncs : Sends(c, s, EncodePing(OnWire(s)))
Select  == \E c \in Of("select")  : Requests(c, SelectRequest(c))
Insert  == \E c \in Of("insert")  : Requests(c, StoreRequest(c))
Replace == \E c \in Of("replace") : Requests(c, StoreRequest(c))
Delete  == \E c \in Of("delete")  : Requests(c, DeleteRequest(c))
Call    == \E c \in Of("call")    : Requests(c, RunRequest(c, "function"))
Eval    == \E c \in Of("eval")    : Requests(c, RunRequest(c, "expression"))
Update  == \E c \in Of("update")  : Requests(c, UpdateRequest(c))
Upsert  == \E c \in Of("upsert")  : Requests(c, UpsertRequest(c))

\* The call ends before it has a request: the server could not be reached, has not
\* let the object in, or has not said what was looked up, with an exception; or a
\* request of the extension's own could not be written, without one, and is left
\* in the buffer.
GivesUp(c) ==
    /\ Asks(c) /\ c \in Fails
    /\ \/ /\ \E waits \in Waiting : Keeps(waits)
          /\ result' = Raised(ByNetwork)
       \/ /\ \E s \in Syncs : \E batch \in AuthBatches(s) \cup LookupBatches(c, s) :
                Len(batch.calls) <= MaxWaiting /\ Keeps(batch)
          /\ result' = FailedWith("silent")
    /\ UNCHANGED <<sync, arrived, received>>

\* connect, reconnect and authenticate, which returns nothing.
Connects ==
    /\ arrived = <<>> /\ call' = None /\ answer' = None
    /\ \/ /\ \E waits \in Waiting : Keeps(waits)
          /\ result' \in {Returned(Bool(TRUE)), Returned(Nil), Raised(ByNetwork)}
       \/ /\ \E s \in Syncs : \E batch \in AuthBatches(s) :
                Len(batch.calls) <= MaxWaiting /\ Keeps(batch)
          /\ result' \in {FailedWith("silent"), Returned(Nil)}
    /\ UNCHANGED <<sync, arrived, received>>

\* ping returns TRUE, whatever there is in the body.
Answered ==
    /\ arrived # <<>>
    /\ \E a \in Answers[call] :
        /\ answer' = a
        /\ LET outcome == Recv(Wire(a, sync % Word), sync)
           IN  result' = IF "failure" \in DOMAIN outcome THEN outcome.failure
                         ELSE IF call.method = "ping" THEN Returned(Bool(TRUE))
                         ELSE ReturnData(outcome.body)
    /\ arrived' = <<>> /\ received' = <<>>
    /\ UNCHANGED <<call, sync, buffer, unsent>>

Next ==
    \/ Answered \/ Connects \/ \E c \in Calls : GivesUp(c)
    \/ Ping \/ Select \/ Insert \/ Replace \/ Delete
    \/ Call \/ Eval \/ Update \/ Upsert

Spec == Init /\ [][Next]_vars
-----------------------------------------------------------------------------
(* What a call asks for, in the words of the README.                       *)

\* An operation has the fields of its kind, and no other.
HasFields(op, names) == ArrayKeys(op) = {Str(name) : name \in names}
IsOperation(op) ==
    /\ Is(op, "array") /\ HasOf(op, "op", "str") /\ HasOf(op, "field", "int")
    /\ \/ /\ At(op, Str("op")) = Str(":")
          /\ HasFields(op, {"op", "field", "offset", "length", "list"})
          /\ HasOf(op, "offset", "int") /\ HasOf(op, "length", "int")
          /\ HasOf(op, "list", "str")
       \/ /\ At(op, Str("op")).str \in {"+", "-", "&", "^", "|", "#"}
          /\ HasFields(op, {"op", "field", "arg"}) /\ HasOf(op, "arg", "int")
       \/ /\ At(op, Str("op")).str \in {"=", "!"}
          /\ HasFields(op, {"op", "field", "arg"}) /\ ~HasOf(op, "arg", "object")

OperationMeant(op) ==
    [list |-> [i \in 1..Count(op) |-> Means[At(op, Str(
        (IF Count(op) = 5 THEN <<"op", "field", "offset", "length", "list">>
         ELSE <<"op", "field", "arg">>)[i]))]]]

NumberMeant(v, nos) ==
    CASE Is(v, "int") /\ v.int \in 0..Word - 2   -> v
      [] Is(v, "str") /\ v.str \in DOMAIN nos   -> Long(nos[v.str])
      [] OTHER                                  -> None

KeyMeant(v) == IF Is(v, "array") THEN Means[v] ELSE [list |-> <<Means[v]>>]

\* What a parameter means, or None if it means nothing.
ParameterMeant(c, p) ==
    CASE p \in {"key", "args"} ->
            IF Is(c[p], "nil") /\ c.method \in {"select", "call", "eval"}
            THEN [list |-> <<>>] ELSE KeyMeant(c[p])
      [] p \in {"proc", "tuple"} -> Means[c[p]]
      [] p = "space" -> NumberMeant(c.space, SpaceNos)
      [] p = "index" ->
            IF Is(c.index, "nil") THEN Long(0) ELSE NumberMeant(c.index, IndexNos)
      [] p = "limit" ->
            IF Is(c.limit, "nil") THEN Long(Word - 2)
            ELSE IF Is(c.limit, "int") THEN c.limit ELSE None
      [] p = "offset" -> Long(c.offset)
      [] p = "iterator" ->
            IF Is(c.iterator, "nil")
            THEN Long(IF NoKey(c.key) THEN IteratorType.ALL ELSE IteratorType.EQ)
            ELSE IF Is(c.iterator, "int")
            THEN NumberMeant(c.iterator, <<>>)
            ELSE IF Is(c.iterator, "str") /\ c.iterator.str \in DOMAIN Upper
                    /\ Upper[c.iterator.str] \in DOMAIN IteratorType
            THEN Long(IteratorType[Upper[c.iterator.str]]) ELSE None
      [] p = "ops" ->
            IF Is(c.ops, "array") /\ IsList(c.ops)
               /\ \A i \in 1..Count(c.ops) : IsOperation(At(c.ops, Long(i - 1)))
            THEN [list |-> [i \in 1..Count(c.ops) |->
                                OperationMeant(At(c.ops, Long(i - 1)))]]
            ELSE None

\* The field of the request a parameter goes to.
FieldOf(c, p) ==
    Field[CASE p = "proc" -> IF c.method = "call" THEN "function" ELSE "expression"
            [] p = "args" -> "tuple"
            [] p = "ops"  -> IF c.method = "update" THEN "tuple" ELSE "ops"
            [] OTHER      -> p]

Meant(c) ==
    LET parameters == DOMAIN c \ {"method"}
    IN  IF \E p \in parameters : ParameterMeant(c, p) = None THEN None
        ELSE [type   |-> RequestType[c.method],
              fields |-> {<<Long(FieldOf(c, p)), ParameterMeant(c, p)>> : p \in parameters}]

\* Where the numbers that are asked for fit in those of a request, and no array
\* of a request is mistaken for a list or a map, a method asks for what it means.
NumbersFit ==
    \A c \in Calls :
        /\ \A p \in DOMAIN c \cap {"space", "index", "iterator"} :
            Is(c[p], "int") => c[p].int \in -1..Word - 1
        /\ "limit" \in DOMAIN c /\ Is(c.limit, "int") => c.limit.int \in 0..Word - 1
        /\ "offset" \in DOMAIN c => c.offset \in 0..Word - 1
NoneMistaken ==
    /\ \A c \in Calls :
        /\ IsGood(RequestOf(c)) =>
            \A f \in ToSet(RequestOf(c).fields) : NotMistaken[f[2]]
        /\ "ops" \in DOMAIN c /\ IsList(c.ops) => ~IsHash(c.ops)
    /\ \A q \in Own : \A f \in ToSet(q.fields) : NotMistaken[f[2]]

\* What is written before a call's request, or by the methods that connect.
AuthMessages == {<<Auth(login), AllSpaces, AllIndexes>> : login \in Logins}
Batches ==
    [c \in Calls \cup {None} |->
        AuthMessages \cup (IF c = None THEN {} ELSE {<<q>> : q \in Lookups(c)})]

\* An own request asks for what its fields say.
OwnMeant(q) ==
    [type   |-> RequestType[q.method],
     fields |-> {<<Long(Field[f[1]]), Means[f[2]]>> : f \in ToSet(q.fields)}]
Meaning == [q \in Calls \cup Own |-> IF q \in Own THEN OwnMeant(q) ELSE Meant(q)]
Unreached == result.raised = ByNetwork

Messages == INSTANCE BeeMessages WITH unreached <- Unreached

-----------------------------------------------------------------------------
(* Properties.                                                             *)

\* No number is packed that a long does not hold, no item is without a byte,
\* and what a call has returned goes with the exception.
TypeOK ==
    /\ call \in Calls \cup {None} /\ answer \in (UNION Range(Answers)) \cup {None}
    /\ \A items \in {buffer, arrived} : \A i \in DOMAIN items :
        /\ items[i].bytes > 0
        /\ Is(items[i].says, "int") => items[i].says.int \in -LongMax - 1..LongMax
    /\ Len(Read(buffer, Nothing).requests) = Len(unsent) /\ Len(unsent) <= MaxWaiting
    /\ ~Is(result.raised, "nil") => result.v = Bool(FALSE)

\* The size in front of every request is the number of bytes behind it, however
\* deep its values are: what counts the bytes and what packs them agree
\* (php_mp_sizeof and php_mp_pack, php_tp_sizeof_... and php_tp_encode_...).
AnnouncedSize == Framed(buffer) /\ Framed(arrived)

\* What the server reads is what the calls asked for, in the order they were made,
\* behind at most the lookup or the authentication that could not be written
\* before them, and nothing else; what could not be written is written again whole
\* or is lost whole; and a call that asks for something is not refused.
IsMessages == Messages!Spec

-----------------------------------------------------------------------------
(* What the documentation says and the code does not do.                   *)

FieldArrived(p) ==
    (CHOOSE f \in Last(received).fields : f[1] = Long(FieldOf(call, p)))[2]

\* README.md: "<serializable> - any simple type which converts to MsgPack
\* (scalar/array)".  Every value of an array is in the tuple that is sent.
ValuesKept ==
    (arrived # <<>> /\ call.method = "insert") =>
    LET w == FieldArrived("tuple")
        sent == IF Is(w, "list") THEN ToSet(w.list) ELSE {pair[2] : pair \in ToSet(w.map)}
    IN  \A pair \in ToSet(call.tuple.array) : Means[pair[2]] \in sent
===============================================================================
