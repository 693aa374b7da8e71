------------------------------ MODULE BeeClient ------------------------------
(***************************************************************************)
(* One Bee object with a connection of its own: the methods of bee.c, run  *)
(* one at a time by a PHP script, against a server that may be slow, may   *)
(* answer out of order and may go away.                                    *)
(*                                                                         *)
(* A method is a sequence of steps named by pc.  The steps that only wait  *)
(* for the network (open, send, read) are separate actions, so that the    *)
(* server's answers, its disappearance and the client's timeouts fall      *)
(* between any two of them.  A read may time out at any moment: whatever   *)
(* the server has written by then may still be on its way.                 *)
(***************************************************************************)
EXTENDS Integers, SequencesExt

CONSTANTS
    Names,        \* names of spaces and of indexes
    SpaceNos,     \* numbers of spaces
    IndexNos,     \* numbers of indexes, and of the owners of spaces
    None,         \* no such argument, no request
    Spaces,       \* rows of _vspace on the server
    Indexes,      \* rows of _vindex on the server
    SpaceArgs,    \* what the script passes as space ...
    IndexArgs,    \* ... as index ...
    Passwords,    \* ... and whether it gives a password
    RetryCount,   \* bee.retry_count
    SyncWidth,    \* a sync number travels modulo this (2^32 in the code)
    MaxSync       \* bound: no call starts once sync_counter has reached it

Row == [sno : SpaceNos, num : IndexNos, name : Names]

ASSUME NumbersAssumption == SpaceNos \subseteq Nat /\ IndexNos \subseteq Nat
ASSUME NamesAssumption ==
    /\ Names \cap (SpaceNos \cup IndexNos \cup {None}) = {}
    /\ None \notin SpaceNos \cup IndexNos
ASSUME CatalogAssumption == Spaces \subseteq Row /\ Indexes \subseteq Row
ASSUME ArgsAssumption ==
    /\ SpaceArgs \subseteq Names \cup SpaceNos
    /\ IndexArgs \subseteq Names \cup IndexNos \cup {None}
    /\ Passwords \subseteq BOOLEAN
ASSUME RetryAssumption == RetryCount \in Nat \ {0}
ASSUME WidthAssumption == SyncWidth \in Nat \ {0} /\ MaxSync \in Nat

VARIABLES
    pc,        \* the step the running method is at, "idle" between methods
    frame,     \* its arguments and local variables
    result,    \* what the last method returned: see Results
    passwd,    \* obj->passwd is set
    sync,      \* BEE_G(sync_counter)
    wbuf,      \* obj->value: the requests between 0 and len
    cache,     \* obj->schema
    stream,    \* obj->stream is open
    peer,      \* the server still serves this stream
    todo,      \* requests the server has received here and not answered, each
               \* as often as it was received
    torn,      \* the server waits for the rest of a request cut in two
    inbox,     \* what the server wrote here and the client has not read
    tainted,   \* history: on this stream a read gave up and left it open, a
               \* failed write came through in part, or requests an earlier
               \* send had failed to write were sent along
    dirty,     \* history: ... on this or an earlier one, since the last flush
    written    \* history: sync numbers of the requests of successful writes

method == <<pc, frame, result>>
object == <<passwd, sync, wbuf, cache>>
net    == <<stream, peer, todo, torn, inbox>>
taint  == <<tainted, dirty>>
vars   == <<method, object, net, taint, written>>

-----------------------------------------------------------------------------
(* The schema cache.  A space is kept under its name and under its number; *)
(* only the node under the number is asked for indexes.                    *)

NoId    == -1
NoTable == [n \in Names |-> NoId]
Empty   == [sid   |-> NoTable,
            known |-> {},
            iid   |-> [s \in SpaceNos |-> NoTable]]

SchemaType ==
    [sid   : [Names -> SpaceNos \cup {NoId}],
     known : SUBSET SpaceNos,
     iid   : [SpaceNos -> [Names -> IndexNos \cup {NoId}]]]

\* bee_schema_add_spaces: a row replaces both nodes, and the number's node
\* starts with no index at all.
AddSpaces(c, rows) ==
    [sid   |-> [n \in Names |->
                  IF \E r \in rows : r.name = n
                  THEN (CHOOSE r \in rows : r.name = n).sno ELSE c.sid[n]],
     known |-> c.known \cup {r.sno : r \in rows},
     iid   |-> [s \in SpaceNos |->
                  IF \E r \in rows : r.sno = s THEN NoTable ELSE c.iid[s]]]

\* bee_schema_add_indexes, for rows whose space is cached: see Parsed.
AddIndexes(c, rows) ==
    [c EXCEPT !.iid = [s \in SpaceNos |-> [n \in Names |->
        IF \E r \in rows : r.sno = s /\ r.name = n
        THEN (CHOOSE r \in rows : r.sno = s /\ r.name = n).num
        ELSE c.iid[s][n]]]]

-----------------------------------------------------------------------------
(* Requests and what the server writes back.                               *)

Kinds == {"data", "auth", "space", "index", "spaces", "indexes"}
Request == [sync : Nat, kind : Kinds, sno : SpaceNos \cup {None},
            name : Names \cup {None}]
Req(s, k, no, n) == [sync |-> s, kind |-> k, sno |-> no, name |-> n]
Ask(s, k) == Req(s, k, None, None)

\* The sync field is a uint32_t on the wire.
Wire(s) == IF s < SyncWidth THEN s ELSE s % SyncWidth

\* The DATA field of the server's answer; the tuples a request on a user
\* space returns are not rows of the two system spaces.
RowsFor(q) ==
    CASE q.kind = "space"   -> {r \in Spaces : r.name = q.name}
      [] q.kind = "index"   -> {r \in Indexes : r.sno = q.sno /\ r.name = q.name}
      [] q.kind = "spaces"  -> Spaces
      [] q.kind = "indexes" -> Indexes
      [] OTHER              -> {}

\* A message in the stream: the greeting, a whole answer, or what is left of
\* a message once a read has taken part of it.
Part == {"greeting", "answer", "junk"}
Message == [part : Part, to : Request \cup {None}, ok : BOOLEAN]
Greeting == [part |-> "greeting", to |-> None, ok |-> TRUE]
Junk == [part |-> "junk", to |-> None, ok |-> TRUE]
Answer(q, ok) == [part |-> "answer", to |-> q, ok |-> ok]

\* TRUE or data; TRUE from close; FALSE with no exception; an exception, the
\* one that says the schema could not be parsed being told apart.
Results == {"running", "true", "closed", "silent", "exception", "schema"}
Calls == {"none", "request", "authenticate", "connect", "reconnect"}
Steps == {"idle", "demand", "eof", "open", "sleep", "greet", "auth", "auth_recv",
          "method", "space", "space_recv", "index", "index_recv",
          "request", "recv"}
Returns == {"eof", "method", "return"}
\* The other arguments: a limit of the wrong type is found before the names
\* are looked up, a wrong iterator or update operation after.
Args == {"good", "limit", "late"}

\* op, space, index and args are the method and its arguments; space becomes
\* the number once it is resolved.  then is where __bee_connect and
\* __bee_authenticate return to, count the connection attempts left, batch
\* the authentication answers still to read, ok that none was refused yet,
\* own the request sent.
Frame == [op : Calls, space : SpaceArgs \cup SpaceNos \cup {None},
          index : IndexArgs \cup {None}, args : Args,
          then : Returns, count : 0..RetryCount, batch : 0..3, ok : BOOLEAN,
          own : Request \cup {None}]
NewFrame(op, space, index, args) ==
    [op |-> op, space |-> space, index |-> index, args |-> args,
     then |-> "return", count |-> 0, batch |-> 0, ok |-> TRUE, own |-> None]
NoFrame == NewFrame("none", None, None, "good")

TypeOK ==
    /\ pc \in Steps /\ frame \in Frame /\ result \in Results
    /\ passwd \in BOOLEAN /\ sync \in Nat
    /\ wbuf \in Seq(Request) /\ cache \in SchemaType
    /\ stream \in BOOLEAN /\ peer \in BOOLEAN /\ torn \in BOOLEAN
    /\ todo \in Seq(Request) /\ inbox \in Seq(Message)
    /\ tainted \in BOOLEAN /\ dirty \in BOOLEAN
    /\ written \subseteq Nat

\* __construct: nothing is connected yet.
Init ==
    /\ pc = "idle" /\ frame = NoFrame /\ result = "true"
    /\ passwd \in Passwords /\ sync = 0 /\ wbuf = <<>> /\ cache = Empty
    /\ stream = FALSE /\ peer = FALSE /\ todo = <<>> /\ torn = FALSE
    /\ inbox = <<>>
    /\ tainted = FALSE /\ dirty = FALSE
    /\ written = {}

-----------------------------------------------------------------------------
(* The stream.                                                             *)

\* What may be left of the inbox after a read that stopped early ...
Cut(q) == {q} \cup (IF q = <<>> THEN {} ELSE {<<Junk>> \o Tail(q)})
\* ... and after one whose length was taken from the middle of a message.
Rest(q) == UNION {Cut(SubSeq(q, k, Len(q))) : k \in 1..Len(q) + 1}

Aligned == inbox # <<>> /\ Head(inbox).part = "answer"
Misaligned == inbox # <<>> /\ Head(inbox).part # "answer"

Close ==
    /\ stream' = FALSE /\ peer' = FALSE /\ todo' = <<>> /\ torn' = FALSE
    /\ inbox' = <<>> /\ tainted' = FALSE

Taint == tainted' = TRUE /\ dirty' = TRUE

\* The request_timeout expires, or the stream ends, inside a message.
ShortRead ==
    /\ inbox' \in IF Misaligned THEN Rest(inbox) ELSE Cut(inbox)
    /\ UNCHANGED <<stream, peer, todo, torn>>
\* Five bytes of something that is not a length, and as many as they say.
GarbageRead ==
    /\ Misaligned
    /\ inbox' \in Rest(inbox)
    /\ UNCHANGED <<stream, peer, todo, torn>>
\* The length and the whole answer.
WholeRead ==
    /\ Aligned
    /\ inbox' = Tail(inbox)
    /\ UNCHANGED <<stream, peer, todo, torn>>

\* Whole requests reach the server, and the beginning of one more if cut.  A
\* server that waits for the rest of an earlier one takes what comes for it;
\* what comes after that rest it understands.
Arrives(reqs, cut) ==
    \/ ~peer /\ UNCHANGED <<todo, torn>>
    \/ peer /\ ~torn /\ todo' = todo \o reqs /\ torn' = cut
    \/ /\ peer /\ torn
       /\ \E k \in 2..Len(reqs) + 1 : todo' = todo \o SubSeq(reqs, k, Len(reqs))
       /\ torn' \in {cut, TRUE}

\* Variant: the buffer is not reset after a write.
SendSucceedsKeeping(reqs) ==
    /\ wbuf' = reqs
    /\ written' = written \cup {q.sync : q \in Range(reqs)}
    /\ Arrives(reqs, FALSE)
    /\ UNCHANGED <<stream, peer, inbox>>

\* bee_stream_send: the bytes are gone, whether or not anyone is listening.
SendSucceeds(reqs) ==
    /\ wbuf' = <<>>
    /\ written' = written \cup {q.sync : q \in Range(reqs)}
    /\ Arrives(reqs, FALSE)
    /\ UNCHANGED <<stream, peer, inbox>>

\* ... and when a write is short or times out, the stream stays open and the
\* whole buffer is kept, though the server may be up and have received the
\* first requests of it.  One that is cut in two counts as received if the
\* bytes of a later write are to complete it.
SendFails(reqs) ==
    /\ wbuf' = reqs
    /\ \E n \in 0..Len(reqs), cut \in BOOLEAN :
          (n = Len(reqs) => cut) /\ Arrives(SubSeq(reqs, 1, n), cut)
    /\ tainted' = (tainted \/ <<todo, torn>>' # <<todo, torn>>)
    /\ UNCHANGED <<stream, peer, inbox, written>>

-----------------------------------------------------------------------------
(* Entering and leaving a method.                                          *)

Goto(step) == pc' = step /\ UNCHANGED result
Return(r) == pc' = "idle" /\ result' = r /\ frame' = NoFrame

MayStart == pc = "idle" /\ sync < MaxSync

StartRequest(space, index, args) ==
    /\ MayStart
    /\ pc' = "demand" /\ result' = "running"
    /\ frame' = NewFrame("request", space, index, args)
    /\ UNCHANGED <<object, net, taint, written>>

Ping == StartRequest(None, None, "good")
CallProc == StartRequest(None, None, "good")
Eval == StartRequest(None, None, "good")
Insert == \E s \in SpaceArgs : StartRequest(s, None, "good")
Replace == \E s \in SpaceArgs : StartRequest(s, None, "good")
Upsert == \E s \in SpaceArgs, a \in {"good", "late"} : StartRequest(s, None, a)
Delete == \E s \in SpaceArgs, i \in IndexArgs : StartRequest(s, i, "good")
Select == \E s \in SpaceArgs, i \in IndexArgs, a \in Args :
              StartRequest(s, i, a)
Update == \E s \in SpaceArgs, i \in IndexArgs, a \in {"good", "late"} :
              StartRequest(s, i, a)

Authenticate ==
    /\ MayStart
    /\ passwd' \in Passwords
    /\ pc' = "demand" /\ result' = "running"
    /\ frame' = NewFrame("authenticate", None, None, "good")
    /\ UNCHANGED <<sync, wbuf, cache, net, taint, written>>

Opening(f, k) ==
    /\ pc' = "open"
    /\ frame' = [f EXCEPT !.then = k, !.count = RetryCount]

Connect ==
    /\ MayStart
    /\ IF stream THEN Return("true")
       ELSE /\ Opening(NewFrame("connect", None, None, "good"), "return")
            /\ result' = "running"
    /\ UNCHANGED <<object, net, taint, written>>

Reconnect ==
    /\ MayStart
    /\ Close
    /\ Opening(NewFrame("reconnect", None, None, "good"), "return")
    /\ result' = "running"
    /\ UNCHANGED <<object, dirty, written>>

FlushSchema ==
    /\ MayStart
    /\ Return("true")
    /\ cache' = Empty /\ dirty' = tainted
    /\ UNCHANGED <<passwd, sync, wbuf, net, tainted, written>>

CloseMethod ==
    /\ MayStart
    /\ Return("closed")
    /\ UNCHANGED <<object, net, taint, written>>

-----------------------------------------------------------------------------
(* BEE_CONNECT_ON_DEMAND and __bee_connect.                                *)

Demand ==
    /\ pc = "demand"
    /\ IF stream THEN pc' = "eof" /\ UNCHANGED frame ELSE Opening(frame, "eof")
    /\ UNCHANGED <<result, object, net, taint, written>>

\* The end of the stream shows once everything before it has been read and
\* the server's FIN has arrived.
EofSeen ==
    /\ pc = "eof" /\ ~peer /\ inbox = <<>>
    /\ Close /\ Opening(frame, "method")
    /\ UNCHANGED <<result, object, dirty, written>>

EofNotSeen ==
    /\ pc = "eof"
    /\ Goto("method")
    /\ UNCHANGED <<frame, object, net, taint, written>>

\* Variant: the attempts are not counted.
OpenFailsUncounted ==
    /\ pc = "open"
    /\ IF frame.count = 0 THEN Return("exception")
       ELSE Goto("sleep") /\ UNCHANGED frame
    /\ UNCHANGED <<object, net, taint, written>>

OpenFails ==
    /\ pc = "open"
    /\ IF frame.count = 1 THEN Return("exception")
       ELSE Goto("sleep") /\ frame' = [frame EXCEPT !.count = @ - 1]
    /\ UNCHANGED <<object, net, taint, written>>

\* bee.retry_sleep passes.
RetrySleep ==
    /\ pc = "sleep"
    /\ Goto("open")
    /\ UNCHANGED <<frame, object, net, taint, written>>

OpenSucceeds ==
    /\ pc = "open"
    /\ Goto("greet") /\ frame' = [frame EXCEPT !.count = 0]
    /\ stream' = TRUE /\ peer' = TRUE /\ todo' = <<>> /\ torn' = FALSE
    /\ inbox' = <<Greeting>> /\ tainted' = FALSE
    /\ UNCHANGED <<object, dirty, written>>

\* Where a successful __bee_connect or __bee_authenticate returns to.
Connected ==
    IF frame.then = "return" THEN Return("true")
    ELSE Goto(frame.then) /\ frame' = [frame EXCEPT !.batch = 0]

\* The number of bytes read is compared with -1, which a short read never is.
ReadGreeting ==
    /\ pc = "greet"
    /\ \/ inbox # <<>> /\ inbox' = Tail(inbox) /\ UNCHANGED taint
       \/ inbox' \in Cut(inbox) /\ Taint
    /\ IF passwd THEN Goto("auth") /\ UNCHANGED frame ELSE Connected
    /\ UNCHANGED <<object, stream, peer, todo, torn, written>>

-----------------------------------------------------------------------------
(* Schema rows in an answer.                                               *)

\* The rows that reach the cache when an answer to q is parsed as rows of
\* one of the two system spaces, and whether the parser is satisfied.  An
\* answer of the other kind passes as far as its tuples look alike.
Parsed(q, kinds, addable) ==
    LET all == RowsFor(q) IN
    {p \in [rows : SUBSET (all \cap addable), good : BOOLEAN] :
        /\ p.good => p.rows = all /\ q.kind # "auth"
        /\ q.kind \in kinds /\ all \subseteq addable => p.good}

ParsedSpaces(q) == Parsed(q, {"space", "spaces"}, Row)
ParsedIndexes(q) ==
    Parsed(q, {"index", "indexes"}, {r \in Row : r.sno \in cache.known})

-----------------------------------------------------------------------------
(* __bee_authenticate: three requests in one write, three answers matched  *)
(* by sync.                                                                *)

AuthBatch ==
    <<Ask(sync, "auth"), Ask(sync + 1, "spaces"), Ask(sync + 2, "indexes")>>

AuthSend ==
    /\ pc = "auth"
    /\ cache' = Empty
    /\ sync' = sync + 3
    /\ \/ /\ SendSucceeds(AuthBatch) /\ UNCHANGED tainted
          /\ Goto("auth_recv") /\ frame' = [frame EXCEPT !.batch = 3, !.ok = TRUE]
       \/ SendFails(AuthBatch) /\ Return("silent")
    /\ dirty' = tainted'
    /\ UNCHANGED passwd

AuthShortRead ==
    /\ pc = "auth_recv"
    /\ ShortRead /\ Taint
    /\ Return("exception")
    /\ UNCHANGED <<object, written>>

\* Variant: the loop is left at the first refused answer.
NextAnswerUnlessRefused(ok) ==
    IF ~ok THEN Return("exception")
    ELSE IF frame.batch > 1
    THEN /\ Goto("auth_recv")
         /\ frame' = [frame EXCEPT !.batch = @ - 1, !.ok = ok]
    ELSE Connected

\* The loop reads every answer, also after one of them was refused.
NextAnswer(ok) ==
    IF frame.batch > 1
    THEN /\ Goto("auth_recv")
         /\ frame' = [frame EXCEPT !.batch = @ - 1, !.ok = ok]
    ELSE IF ok THEN Connected ELSE Return("exception")

AuthGarbage ==
    /\ pc = "auth_recv"
    /\ GarbageRead
    /\ NextAnswer(FALSE)
    /\ UNCHANGED <<object, taint, written>>

AuthWire == Wire(Head(inbox).to.sync)

\* Not looked at, refused, or the answer to the AUTH request itself.
AuthNoRows ==
    /\ pc = "auth_recv"
    /\ WholeRead
    /\ frame.ok /\ Head(inbox).ok =>
          AuthWire \notin {Wire(sync - 2), Wire(sync - 1)}
    /\ NextAnswer(frame.ok /\ Head(inbox).ok)
    /\ UNCHANGED <<object, taint, written>>

\* Variant: the two schema answers are mixed up.
AuthSpacesMixedUp ==
    /\ pc = "auth_recv" /\ frame.ok
    /\ WholeRead /\ Head(inbox).ok
    /\ AuthWire = Wire(sync - 1)
    /\ \E p \in ParsedSpaces(Head(inbox).to) :
          cache' = AddSpaces(cache, p.rows) /\ NextAnswer(p.good)
    /\ UNCHANGED <<passwd, sync, wbuf, taint, written>>

AuthSpaces ==
    /\ pc = "auth_recv" /\ frame.ok
    /\ WholeRead /\ Head(inbox).ok
    /\ AuthWire = Wire(sync - 2)
    /\ \E p \in ParsedSpaces(Head(inbox).to) :
          cache' = AddSpaces(cache, p.rows) /\ NextAnswer(p.good)
    /\ UNCHANGED <<passwd, sync, wbuf, taint, written>>

AuthIndexes ==
    /\ pc = "auth_recv" /\ frame.ok
    /\ WholeRead /\ Head(inbox).ok
    /\ AuthWire = Wire(sync - 1) /\ AuthWire # Wire(sync - 2)
    /\ \E p \in ParsedIndexes(Head(inbox).to) :
          cache' = AddIndexes(cache, p.rows) /\ NextAnswer(p.good)
    /\ UNCHANGED <<passwd, sync, wbuf, taint, written>>

-----------------------------------------------------------------------------
(* The body of a request method.                                           *)

Dispatch ==
    /\ pc = "method" /\ frame.args # "limit"
    /\ IF frame.op = "authenticate"
       THEN Goto("auth") /\ frame' = [frame EXCEPT !.then = "return"]
       ELSE /\ Goto(IF frame.space = None THEN "request" ELSE "space")
            /\ UNCHANGED frame
    /\ UNCHANGED <<object, net, taint, written>>

Sid(c, space) == IF space \in Names THEN c.sid[space] ELSE space
Iid(c, space, index) ==
    IF space \in c.known THEN c.iid[space][index] ELSE NoId

Resolved(no) == Goto("index") /\ frame' = [frame EXCEPT !.space = no]

SpaceKnown ==
    /\ pc = "space" /\ Sid(cache, frame.space) # NoId
    /\ Resolved(Sid(cache, frame.space))
    /\ UNCHANGED <<object, net, taint, written>>

IndexKnown ==
    /\ pc = "index"
    /\ frame.index \in Names => Iid(cache, frame.space, frame.index) # NoId
    /\ Goto("request") /\ UNCHANGED frame
    /\ UNCHANGED <<object, net, taint, written>>

\* Variant: the counter is read, not counted up.
SendLookupUncounted(q, step) ==
    /\ \/ SendSucceeds(<<q>>) /\ Goto(step) /\ UNCHANGED <<frame, tainted>>
       \/ SendFails(<<q>>) /\ Return("silent")
    /\ dirty' = (dirty \/ tainted')
    /\ UNCHANGED <<passwd, sync, cache>>

\* A lookup is encoded over whatever the buffer held.
SendLookup(q, step) ==
    /\ sync' = sync + 1
    /\ \/ SendSucceeds(<<q>>) /\ Goto(step) /\ UNCHANGED <<frame, tainted>>
       \/ SendFails(<<q>>) /\ Return("silent")
    /\ dirty' = (dirty \/ tainted')
    /\ UNCHANGED <<passwd, cache>>

SpaceLookup ==
    /\ pc = "space" /\ Sid(cache, frame.space) = NoId
    /\ SendLookup(Req(sync, "space", None, frame.space), "space_recv")

IndexLookup ==
    /\ pc = "index" /\ frame.index \in Names
    /\ Iid(cache, frame.space, frame.index) = NoId
    /\ SendLookup(Req(sync, "index", frame.space, frame.index), "index_recv")

\* Nothing is closed when the answer does not come, or makes no sense.
LookupFails ==
    /\ pc \in {"space_recv", "index_recv"}
    /\ \/ ShortRead /\ Taint
       \/ GarbageRead /\ UNCHANGED taint
       \/ WholeRead /\ ~Head(inbox).ok /\ UNCHANGED taint
    /\ Return("exception")
    /\ UNCHANGED <<object, written>>

\* Variant: the second look into the cache is not checked.
SpaceAnswerUnchecked ==
    /\ pc = "space_recv"
    /\ WholeRead /\ Head(inbox).ok
    /\ \E p \in ParsedSpaces(Head(inbox).to) :
          /\ cache' = AddSpaces(cache, p.rows)
          /\ IF ~p.good THEN Return("schema")
             ELSE Resolved(Sid(cache', frame.space))
    /\ UNCHANGED <<passwd, sync, wbuf, taint, written>>

\* The answer is taken for this lookup's without a look at its sync.
SpaceAnswer ==
    /\ pc = "space_recv"
    /\ WholeRead /\ Head(inbox).ok
    /\ \E p \in ParsedSpaces(Head(inbox).to) :
          /\ cache' = AddSpaces(cache, p.rows)
          /\ IF ~p.good THEN Return("schema")
             ELSE IF Sid(cache', frame.space) = NoId THEN Return("exception")
             ELSE Resolved(Sid(cache', frame.space))
    /\ UNCHANGED <<passwd, sync, wbuf, taint, written>>

IndexAnswer ==
    /\ pc = "index_recv"
    /\ WholeRead /\ Head(inbox).ok
    /\ \E p \in ParsedIndexes(Head(inbox).to) :
          /\ cache' = AddIndexes(cache, p.rows)
          /\ IF ~p.good THEN Return("schema")
             ELSE IF Iid(cache', frame.space, frame.index) = NoId
             THEN Return("exception")
             ELSE Goto("request") /\ UNCHANGED frame
    /\ UNCHANGED <<passwd, sync, wbuf, taint, written>>

\* select's own check, convert_iterator, bee_update_verify_args.
BadArguments ==
    /\ \/ pc = "method" /\ frame.args = "limit"
       \/ pc = "request" /\ frame.args = "late"
    /\ Return("exception")
    /\ UNCHANGED <<object, net, taint, written>>

\* A request is encoded after whatever the buffer holds.
SendRequest ==
    /\ pc = "request" /\ frame.args # "late"
    /\ sync' = sync + 1
    /\ LET q == Req(sync, "data", frame.space, None) IN
       \/ /\ SendSucceeds(Append(wbuf, q))
          /\ Goto("recv") /\ frame' = [frame EXCEPT !.own = q]
          /\ tainted' = (tainted \/ wbuf # <<>>)
       \/ SendFails(Append(wbuf, q)) /\ Return("silent")
    /\ dirty' = (dirty \/ tainted')
    /\ UNCHANGED <<passwd, cache>>

-----------------------------------------------------------------------------
(* bee_step_recv                                                           *)

Received(r) == Return(r) /\ wbuf' = <<>> /\ UNCHANGED <<passwd, sync, cache>>
RecvWire == Wire(Head(inbox).to.sync)

\* Variant: the stream is kept.
RecvClosesNot ==
    /\ pc = "recv"
    /\ Received("exception")
    /\ UNCHANGED <<net, taint, written>>

\* error_con: no length, no msgpack, or somebody else's answer.
RecvCloses ==
    /\ pc = "recv"
    /\ Close
    /\ Received("exception")
    /\ UNCHANGED <<dirty, written>>

\* error: the body did not come in time, or is not what it should be.
RecvKeeps ==
    /\ pc = "recv"
    /\ \/ Aligned /\ inbox' = <<Junk>> \o Tail(inbox)
       \/ Misaligned /\ inbox' \in Rest(inbox)
    /\ Taint
    /\ Received("exception")
    /\ UNCHANGED <<stream, peer, todo, torn, written>>

RecvRefused ==
    /\ pc = "recv"
    /\ WholeRead /\ RecvWire = frame.own.sync /\ ~Head(inbox).ok
    /\ Received("exception")
    /\ UNCHANGED <<taint, written>>

\* Variant: the answer's sync is not looked at ...
RecvOkAnySync ==
    /\ pc = "recv"
    /\ WholeRead /\ Head(inbox).ok
    /\ Received("true")
    /\ UNCHANGED <<taint, written>>
\* ... or is compared with a sync truncated to the width of the wire.
RecvOkTruncated ==
    /\ pc = "recv"
    /\ WholeRead /\ RecvWire = Wire(frame.own.sync) /\ Head(inbox).ok
    /\ Received("true")
    /\ UNCHANGED <<taint, written>>

RecvOk ==
    /\ pc = "recv"
    /\ WholeRead /\ RecvWire = frame.own.sync /\ Head(inbox).ok
    /\ Received("true")
    /\ UNCHANGED <<taint, written>>

-----------------------------------------------------------------------------
(* The server.                                                             *)

\* Requests of one connection may be answered in any order.
ServerAnswers ==
    /\ \E i \in DOMAIN todo, ok \in BOOLEAN :
          /\ inbox' = Append(inbox, Answer(todo[i], ok))
          /\ todo' = RemoveAt(todo, i)
    /\ UNCHANGED <<method, object, stream, peer, torn, taint, written>>

\* With or without a last message, on finding what is no request.
ServerLeaves ==
    /\ peer
    /\ peer' = FALSE /\ todo' = <<>> /\ torn' = FALSE
    /\ \/ UNCHANGED inbox
       \/ torn /\ inbox' = Append(inbox, Junk)
    /\ UNCHANGED <<method, object, stream, taint, written>>

-----------------------------------------------------------------------------
Script ==
    \/ Ping \/ CallProc \/ Eval \/ Insert \/ Replace \/ Upsert \/ Delete
    \/ Select \/ Update \/ Authenticate \/ Connect \/ Reconnect
    \/ FlushSchema \/ CloseMethod

Client ==
    \/ Demand \/ EofSeen \/ EofNotSeen
    \/ OpenFails \/ RetrySleep \/ OpenSucceeds \/ ReadGreeting
    \/ AuthSend \/ AuthShortRead \/ AuthGarbage \/ AuthNoRows \/ AuthSpaces
    \/ AuthIndexes
    \/ Dispatch \/ SpaceKnown \/ SpaceLookup \/ LookupFails \/ SpaceAnswer
    \/ IndexKnown \/ IndexLookup \/ IndexAnswer
    \/ BadArguments \/ SendRequest
    \/ RecvCloses \/ RecvKeeps \/ RecvRefused \/ RecvOk

Server == ServerAnswers \/ ServerLeaves

Next == Script \/ Client \/ Server

Spec == Init /\ [][Next]_vars

\* A method runs to its end: every wait of the client is bounded by
\* bee.timeout or bee.request_timeout.  Nothing is assumed of the script or
\* of the server.
FairSpec == Spec /\ WF_vars(Client)

-----------------------------------------------------------------------------
(* Properties.                                                             *)

\* A request method succeeds only with the server's answer to the request it
\* sent itself, whatever late, stale or foreign answers the stream delivers
\* (the sync check of bee_step_recv).
OwnAnswer == [][pc = "recv" /\ result' = "true" => Head(inbox).to = frame.own]_vars

\* Between methods an open stream carries no answer that the next method
\* could take for its own, unless the stream is tainted: any other path that
\* leaves the stream open has read all the answers it asked for (error_con
\* in bee_step_recv, the loop of __bee_authenticate), and a write that fails
\* with nothing received leaves nothing to be answered.
InSync == pc = "idle" /\ stream /\ ~tainted => inbox = <<>> /\ todo = <<>>

\* The server does not receive a second time a request of a write that
\* succeeded: nothing of it stays in the buffer that lookups write over and
\* requests are appended to (bee_stream_send resets its length).
NotSentAgain ==
    [][\A i \in Len(todo) + 1..Len(todo') : todo'[i].sync \notin written]_vars

\* What the schema cache says of a name is what the server says of it, as
\* long as no stream was tainted since the last flush (lookups match answers
\* to requests by their place in the stream only).
CacheTruth ==
    ~dirty =>
      /\ \A n \in Names : cache.sid[n] # NoId =>
            \E r \in Spaces : r.name = n /\ r.sno = cache.sid[n]
      /\ \A s \in SpaceNos, n \in Names : cache.iid[s][n] # NoId =>
            [sno |-> s, num |-> cache.iid[s][n], name |-> n] \in Indexes

\* Every method returns, whatever the server does and however often the
\* connection has to be made again (bee.retry_count bounds the attempts).
CallReturns == (pc # "idle") ~> (pc = "idle")

\* The most steps the client has left before the running method returns: by
\* where connecting or authenticating comes back to, or else by pc.  An
\* attempt to connect may be followed by a sleep, the last one that succeeds
\* by the greeting, the three requests in one write and three answers; with
\* a stream, a request is preceded by the two lookups.
OpenSteps == 2 * RetryCount + 4
StepsFrom ==
    [idle |-> 0, return |-> 0, recv |-> 1, request |-> 2, index_recv |-> 3,
     index |-> 4, space_recv |-> 5, space |-> 6, method |-> 7,
     eof |-> OpenSteps + 8, demand |-> 2 * OpenSteps + 9]
StepsOf(step, f) ==
    CASE step = "sleep"     -> StepsFrom[f.then] + 2 * f.count + 5
      [] step = "open"      -> StepsFrom[f.then] + 2 * f.count + 4
      [] step = "greet"     -> StepsFrom[f.then] + 5
      [] step = "auth"      -> StepsFrom[f.then] + 4
      [] step = "auth_recv" -> StepsFrom[f.then] + f.batch
      [] OTHER              -> StepsFrom[step]
StepsLeft == StepsOf(pc, frame)

\* Every step of the client brings the running method nearer to its end:
\* however connecting, authenticating, looking names up and failing follow
\* one another, no step is taken again without end (bee.retry_count, the
\* three answers of __bee_authenticate, one reconnect after a seen end).
ComesNearer == [][Client => StepsLeft' < StepsLeft]_vars

-----------------------------------------------------------------------------
(* What the documentation says and the code does not do.                   *)

\* "Explicitly close a connection" (README.md:210): once close has returned
\* there is no open stream (close returns TRUE and does nothing).
CloseCloses == result = "closed" => ~stream

\* "We can reconnect and everything will be ok" (test/AssertTest.php:30): a
\* request that gave up on an answer leaves no stream behind on which the
\* next one meets that answer (of all reads only the one of a request's own
\* length closes it).
NoLateAnswer ==
    [][(pc \in {"space_recv", "index_recv", "recv"}) /\ ~tainted
       /\ result' = "exception" /\ stream' => inbox' = <<>> /\ todo' = <<>>]_vars

\* space: String or Number, index: String or Number (README.md:253): the
\* server's row for the index a request names is accepted, also when the
\* space was given as a number (schema_add_index wants the space cached).
NamedIndexAccepted ==
    [][pc = "index_recv" /\ ~tainted => result' # "schema"]_vars
=============================================================================
