--------------------------- MODULE BeeClientProofs ----------------------------
(***************************************************************************)
(* Theorems about BeeClient, for every catalog, every set of arguments,    *)
(* every script, every width of the sync field and every bound: its types, *)
(* that every step is nearer to the end of the method, and what the sync   *)
(* numbers are good for.                                                   *)
(***************************************************************************)
EXTENDS BeeClientSession, TLAPS

-----------------------------------------------------------------------------
(* What the operators of the model return.                                 *)

\* The empty schema cache is a schema cache (bee_schema_new, _flush).
LEMMA EmptyType == Empty \in SchemaType
BY SMT DEF Empty, NoTable, SchemaType, NoId

\* Parsing rows of _vspace into a schema cache yields a schema cache.
LEMMA AddSpacesType ==
    ASSUME NEW c \in SchemaType, NEW rows \in SUBSET Row
    PROVE  AddSpaces(c, rows) \in SchemaType
<1>1. ASSUME NEW n \in Names, \E r \in rows : r.name = n
      PROVE  (CHOOSE r \in rows : r.name = n).sno \in SpaceNos
  <2>1. (CHOOSE r \in rows : r.name = n) \in rows
    BY <1>1
  <2> QED BY <2>1 DEF Row
<1>2. {r.sno : r \in rows} \subseteq SpaceNos
  BY DEF Row
<1>3. NoTable \in [Names -> IndexNos \cup {NoId}]
  BY DEF NoTable
<1> QED BY <1>1, <1>2, <1>3 DEF AddSpaces, SchemaType

\* Parsing rows of _vindex into a schema cache yields a schema cache.
LEMMA AddIndexesType ==
    ASSUME NEW c \in SchemaType, NEW rows \in SUBSET Row
    PROVE  AddIndexes(c, rows) \in SchemaType
<1>1. ASSUME NEW s \in SpaceNos, NEW n \in Names,
             \E r \in rows : r.sno = s /\ r.name = n
      PROVE  (CHOOSE r \in rows : r.sno = s /\ r.name = n).num \in IndexNos
  <2>1. (CHOOSE r \in rows : r.sno = s /\ r.name = n) \in rows
    BY <1>1
  <2> QED BY <2>1 DEF Row
<1> DEFINE number(s, n) ==
             IF \E r \in rows : r.sno = s /\ r.name = n
             THEN (CHOOSE r \in rows : r.sno = s /\ r.name = n).num
             ELSE c.iid[s][n]
<1>2. ASSUME NEW s \in SpaceNos, NEW n \in Names
      PROVE  number(s, n) \in IndexNos \cup {NoId}
  BY <1>1 DEF SchemaType
<1>3. AddIndexes(c, rows)
        = [c EXCEPT !.iid = [s \in SpaceNos |-> [n \in Names |-> number(s, n)]]]
  BY DEF AddIndexes
<1> HIDE DEF number
<1>4. [s \in SpaceNos |-> [n \in Names |-> number(s, n)]]
        \in [SpaceNos -> [Names -> IndexNos \cup {NoId}]]
  BY <1>2
<1> QED BY <1>3, <1>4 DEF SchemaType

\* Whatever is parsed from an answer consists of rows.
LEMMA ParsedRows ==
    ASSUME NEW q, NEW p \in ParsedSpaces(q) \cup ParsedIndexes(q)
    PROVE  p.rows \in SUBSET Row /\ p.good \in BOOLEAN
BY DEF ParsedSpaces, ParsedIndexes, Parsed

\* What a read leaves in the inbox are messages.
LEMMA CutType ==
    ASSUME NEW q \in Seq(Message)
    PROVE  Cut(q) \subseteq Seq(Message)
<1>1. Junk \in Message
  BY DEF Junk, Message, Part
<1>2. ASSUME q # <<>> PROVE <<Junk>> \o Tail(q) \in Seq(Message)
  BY <1>1, <1>2
<1> QED BY <1>2 DEF Cut

LEMMA RestType ==
    ASSUME NEW q \in Seq(Message)
    PROVE  Rest(q) \subseteq Seq(Message)
<1>1. ASSUME NEW k \in 1..Len(q) + 1
      PROVE  SubSeq(q, k, Len(q)) \in Seq(Message)
  BY <1>1
<1> QED BY <1>1, CutType DEF Rest

\* The requests of a sequence without one of them.
LEMMA Removed ==
    ASSUME NEW t \in Seq(Request), NEW i \in DOMAIN t
    PROVE  /\ t[i] \in Request
           /\ RemoveAt(t, i) \in Seq(Request)
           /\ Len(RemoveAt(t, i)) = Len(t) - 1
           /\ \A j \in DOMAIN RemoveAt(t, i) :
                /\ j < i => j \in DOMAIN t /\ RemoveAt(t, i)[j] = t[j]
                /\ j >= i => j + 1 \in DOMAIN t /\ RemoveAt(t, i)[j] = t[j + 1]
<1> DEFINE a == SubSeq(t, 1, i - 1)
           b == SubSeq(t, i + 1, Len(t))
<1>1. i \in Nat /\ 1 <= i /\ i <= Len(t) /\ Len(t) \in Nat /\ t[i] \in Request
  OBVIOUS
<1>2. /\ a \in Seq(Request) /\ Len(a) = i - 1
      /\ \A j \in 1..Len(a) : a[j] = t[j]
  BY <1>1
<1>3. /\ b \in Seq(Request) /\ Len(b) = Len(t) - i
      /\ \A j \in 1..Len(b) : b[j] = t[j + i]
  BY <1>1
<1>4. RemoveAt(t, i) = a \o b
  BY DEF RemoveAt
<1> HIDE DEF a, b
<1>5. /\ a \o b \in Seq(Request) /\ Len(a \o b) = Len(t) - 1
      /\ \A j \in 1..Len(a \o b) :
            (a \o b)[j] = IF j <= Len(a) THEN a[j] ELSE b[j - Len(a)]
  BY <1>1, <1>2, <1>3
<1>6. ASSUME NEW j \in DOMAIN (a \o b), j < i
      PROVE  j \in DOMAIN t /\ (a \o b)[j] = t[j]
  BY <1>1, <1>2, <1>5, <1>6
<1>7. ASSUME NEW j \in DOMAIN (a \o b), j >= i
      PROVE  j + 1 \in DOMAIN t /\ (a \o b)[j] = t[j + 1]
  <2>1. j \in 1..Len(t) - 1 /\ j > Len(a) /\ j - Len(a) \in 1..Len(b)
    BY <1>1, <1>2, <1>3, <1>5, <1>7
  <2>2. (a \o b)[j] = b[j - Len(a)]
    BY <1>2, <1>5, <1>7, <2>1
  <2>3. b[j - Len(a)] = t[j - Len(a) + i]
    BY <1>3, <2>1
  <2>4. j - Len(a) + i = j + 1 /\ j + 1 \in 1..Len(t)
    BY <1>1, <1>2, <2>1
  <2> QED BY <2>2, <2>3, <2>4
<1> QED BY <1>1, <1>4, <1>5, <1>6, <1>7

\* got is a run of the requests in reqs, from the one after place k on.
Run(got, reqs, k) ==
    /\ got \in Seq(Request) /\ k + Len(got) <= Len(reqs)
    /\ \A i \in 1..Len(got) : got[i] = reqs[k + i]

\* Whether a write succeeds or fails, the server gets a run of its requests.
LEMMA ArrivesRun ==
    ASSUME todo \in Seq(Request), torn \in BOOLEAN,
           NEW reqs \in Seq(Request), NEW cut \in BOOLEAN, Arrives(reqs, cut)
    PROVE  /\ torn' \in BOOLEAN
           /\ \E k \in Nat, got \in Seq(Request) :
                 Run(got, reqs, k) /\ todo' = todo \o got
<1>1. ASSUME todo' = todo
      PROVE  \E k \in Nat, got \in Seq(Request) :
                Run(got, reqs, k) /\ todo' = todo \o got
  <2>1. <<>> \in Seq(Request) /\ Run(<<>>, reqs, 0) /\ todo' = todo \o <<>>
    BY <1>1 DEF Run
  <2> QED BY <2>1
<1>2. CASE ~peer /\ UNCHANGED <<todo, torn>>
  BY <1>1, <1>2
<1>3. CASE peer /\ ~torn /\ todo' = todo \o reqs /\ torn' = cut
  <2>1. Run(reqs, reqs, 0)
    BY DEF Run
  <2> QED BY <1>3, <2>1
<1>4. ASSUME NEW k \in 2..Len(reqs) + 1,
             todo' = todo \o SubSeq(reqs, k, Len(reqs)), torn' \in {cut, TRUE}
      PROVE  /\ torn' \in BOOLEAN
             /\ \E j \in Nat, got \in Seq(Request) :
                   Run(got, reqs, j) /\ todo' = todo \o got
  <2> DEFINE got == SubSeq(reqs, k, Len(reqs))
  <2>1. /\ got \in Seq(Request) /\ Len(got) = Len(reqs) + 1 - k
        /\ \A i \in 1..Len(got) : got[i] = reqs[k - 1 + i]
    BY <1>4
  <2>2. k - 1 \in Nat /\ k - 1 + Len(got) <= Len(reqs)
    BY <1>4, <2>1
  <2>3. todo' = todo \o got
    BY <1>4
  <2> HIDE DEF got
  <2>4. Run(got, reqs, k - 1)
    BY <2>1, <2>2 DEF Run
  <2> QED BY <1>4, <2>1, <2>2, <2>3, <2>4
<1> QED BY <1>2, <1>3, <1>4 DEF Arrives

LEMMA SendRun ==
    ASSUME todo \in Seq(Request), torn \in BOOLEAN, NEW reqs \in Seq(Request),
           SendSucceeds(reqs) \/ SendFails(reqs)
    PROVE  /\ torn' \in BOOLEAN
           /\ \E k \in Nat, got \in Seq(Request) :
                 Run(got, reqs, k) /\ todo' = todo \o got
<1>1. CASE SendSucceeds(reqs)
  BY <1>1, ArrivesRun DEF SendSucceeds
<1>2. CASE SendFails(reqs)
  <2>1. PICK n \in 0..Len(reqs), cut \in BOOLEAN : Arrives(SubSeq(reqs, 1, n), cut)
    BY <1>2 DEF SendFails
  <2> DEFINE some == SubSeq(reqs, 1, n)
  <2>2. /\ some \in Seq(Request) /\ Len(some) = n /\ n <= Len(reqs)
        /\ \A i \in 1..Len(some) : some[i] = reqs[i]
    BY <2>1
  <2>3. Arrives(some, cut)
    BY <2>1
  <2> HIDE DEF some
  <2>4. torn' \in BOOLEAN
    BY <2>2, <2>3, ArrivesRun
  <2>5. PICK k \in Nat, got \in Seq(Request) : Run(got, some, k) /\ todo' = todo \o got
    BY <2>2, <2>3, ArrivesRun
  <2>6. Run(got, reqs, k)
    <3>1. got \in Seq(Request) /\ Len(got) \in Nat /\ k + Len(got) <= Len(some)
      BY <2>5 DEF Run
    <3>2. \A i \in 1..Len(got) : got[i] = some[k + i] /\ k + i \in 1..Len(some)
      BY <2>2, <2>5, <3>1 DEF Run
    <3> QED BY <2>2, <3>1, <3>2 DEF Run
  <2> QED BY <2>4, <2>5, <2>6, Zenon
<1> QED BY <1>1, <1>2

LEMMA EmptyBuffer == Range(<<>>) = {}
BY DEF Range

LEMMA RunRange ==
    ASSUME NEW reqs \in Seq(Request), NEW k \in Nat, NEW got, Run(got, reqs, k)
    PROVE  Range(got) \subseteq Range(reqs)
BY DEF Run, Range

LEMMA Concatenated ==
    ASSUME NEW t \in Seq(Request), NEW u \in Seq(Request)
    PROVE  /\ t \o u \in Seq(Request) /\ Len(t \o u) = Len(t) + Len(u)
           /\ \A i \in DOMAIN (t \o u) :
                 \/ i \in DOMAIN t /\ (t \o u)[i] = t[i]
                 \/ /\ i > Len(t) /\ i - Len(t) \in DOMAIN u
                    /\ (t \o u)[i] = u[i - Len(t)]
           /\ Range(t \o u) \subseteq Range(t) \cup Range(u)
<1>1. t \o u \in Seq(Request) /\ Len(t \o u) = Len(t) + Len(u)
  OBVIOUS
<1>2. ASSUME NEW i \in DOMAIN (t \o u)
      PROVE  \/ i \in DOMAIN t /\ (t \o u)[i] = t[i]
             \/ /\ i > Len(t) /\ i - Len(t) \in DOMAIN u
                /\ (t \o u)[i] = u[i - Len(t)]
  BY <1>2
<1> HIDE DEF Range
<1>3. Range(t \o u) \subseteq Range(t) \cup Range(u)
  BY <1>2, Zenon DEF Range
<1> QED BY <1>1, <1>2, <1>3

\* What the server has received after a write, it had before or is in the write.
LEMMA SendRange ==
    ASSUME todo \in Seq(Request), torn \in BOOLEAN, NEW reqs \in Seq(Request),
           SendSucceeds(reqs) \/ SendFails(reqs)
    PROVE  /\ todo' \in Seq(Request)
           /\ Range(todo') \subseteq Range(todo) \cup Range(reqs)
<1>1. PICK k \in Nat, got \in Seq(Request) : Run(got, reqs, k) /\ todo' = todo \o got
  BY SendRun
<1>2. Range(got) \subseteq Range(reqs)
  BY <1>1, RunRange
<1> QED BY <1>1, <1>2, Concatenated

-----------------------------------------------------------------------------
(* Type correctness.  TypeOK is not inductive: an attempt is subtracted    *)
(* only while there is one left, an answer counted off only while one is   *)
(* due, and a request encoded only once its space is a number.             *)

LocalOK ==
    /\ pc \in {"open", "sleep"} => frame.count > 0
    /\ pc = "auth_recv" => frame.batch > 0
    /\ pc \in {"space", "space_recv"} => frame.space \in SpaceArgs \cup SpaceNos
    /\ pc \in {"index", "index_recv"} => frame.space \in SpaceNos
    /\ pc = "request" => frame.space \in SpaceNos \cup {None}

\* The same conjuncts, in the groups of variables that actions disturb.
MethodOK == pc \in Steps /\ frame \in Frame /\ result \in Results /\ LocalOK
ObjectOK ==
    passwd \in BOOLEAN /\ sync \in Nat /\ wbuf \in Seq(Request) /\ cache \in SchemaType
NetOK ==
    /\ stream \in BOOLEAN /\ peer \in BOOLEAN /\ torn \in BOOLEAN
    /\ todo \in Seq(Request) /\ inbox \in Seq(Message)
TaintOK == tainted \in BOOLEAN /\ dirty \in BOOLEAN
WrittenOK == written \subseteq Nat

Typed == MethodOK /\ ObjectOK /\ NetOK /\ TaintOK /\ WrittenOK

LEMMA TypedImpliesTypeOK == Typed => TypeOK
BY Zenon DEF Typed, TypeOK, MethodOK, ObjectOK, NetOK, TaintOK, WrittenOK

LEMMA UnchangedTyped ==
    ASSUME Typed
    PROVE  /\ UNCHANGED method => MethodOK'
           /\ UNCHANGED object => ObjectOK'
           /\ UNCHANGED net => NetOK'
           /\ UNCHANGED taint => TaintOK'
           /\ UNCHANGED written => WrittenOK'
<1>1. UNCHANGED method => MethodOK'
  BY DEF Typed, method, MethodOK, LocalOK
<1>2. UNCHANGED object => ObjectOK'
  BY DEF Typed, object, ObjectOK
<1>3. UNCHANGED net => NetOK'
  BY DEF Typed, net, NetOK
<1>4. UNCHANGED taint => TaintOK'
  BY DEF Typed, taint, TaintOK
<1>5. UNCHANGED written => WrittenOK'
  BY DEF Typed, WrittenOK
<1> QED BY <1>1, <1>2, <1>3, <1>4, <1>5

LEMMA NewFrameType ==
    ASSUME NEW op \in Calls, NEW s \in SpaceArgs \cup {None},
           NEW i \in IndexArgs \cup {None}, NEW a \in Args
    PROVE  NewFrame(op, s, i, a) \in Frame
BY RetryAssumption DEF NewFrame, Frame, Returns

LEMMA NoFrameType == NoFrame \in Frame
BY NewFrameType DEF NoFrame, Calls, Args

LEMMA InitTyped == Init => Typed
<1> SUFFICES ASSUME Init PROVE Typed
  OBVIOUS
<1>1. MethodOK
  BY NoFrameType DEF Init, MethodOK, LocalOK, Steps, Results
<1>2. wbuf \in Seq(Request) /\ inbox \in Seq(Message) /\ todo \in Seq(Request)
  BY DEF Init
<1>3. ObjectOK
  BY <1>2, EmptyType, ArgsAssumption DEF Init, ObjectOK
<1>4. NetOK
  BY <1>2 DEF Init, NetOK
<1>5. TaintOK /\ WrittenOK
  BY DEF Init, TaintOK, WrittenOK
<1> QED BY <1>1, <1>3, <1>4, <1>5 DEF Typed

\* Leaving a method, entering one, connecting, and the steps in between.
LEMMA ReturnTyped == ASSUME NEW r \in Results, Return(r) PROVE MethodOK'
BY NoFrameType DEF Return, Steps, LocalOK, MethodOK

LEMMA OpeningTyped ==
    ASSUME NEW f \in Frame, NEW k \in Returns, Opening(f, k), result' \in Results
    PROVE  MethodOK'
<1>1. RetryCount \in 0..RetryCount /\ RetryCount > 0
  BY RetryAssumption
<1>2. frame' \in Frame
  BY <1>1 DEF Opening, Frame
<1>3. frame'.count = RetryCount
  BY DEF Opening, Frame
<1> QED BY <1>1, <1>2, <1>3 DEF Opening, Steps, LocalOK, MethodOK

LEMMA CloseTyped ==
    ASSUME TaintOK, Close, UNCHANGED dirty
    PROVE  NetOK' /\ TaintOK'
<1>1. <<>> \in Seq(Message) /\ <<>> \in Seq(Request)
  OBVIOUS
<1>2. NetOK'
  BY <1>1 DEF Close, NetOK
<1>3. TaintOK'
  BY DEF Close, TaintOK
<1> QED BY <1>2, <1>3

LEMMA StartRequestTyped ==
    ASSUME Typed,
           NEW s \in SpaceArgs \cup {None}, NEW i \in IndexArgs \cup {None},
           NEW a \in Args, StartRequest(s, i, a)
    PROVE  Typed'
<1>1. frame' \in Frame
  BY NewFrameType DEF StartRequest, Calls
<1>2. MethodOK'
  BY <1>1 DEF StartRequest, MethodOK, LocalOK, Steps, Results
<1>3. UNCHANGED <<object, net, taint, written>>
  BY DEF StartRequest
<1> QED BY <1>2, <1>3, UnchangedTyped DEF Typed

LEMMA ScriptTyped == ASSUME Typed, Script PROVE Typed'
<1>1. CASE Ping \/ CallProc \/ Eval
  BY <1>1, StartRequestTyped DEF Ping, CallProc, Eval, Args
<1>2. CASE Insert \/ Replace \/ Upsert
  BY <1>2, StartRequestTyped DEF Insert, Replace, Upsert, Args
<1>3. CASE Delete \/ Select \/ Update
  BY <1>3, StartRequestTyped DEF Delete, Select, Update, Args
<1>4. CASE Authenticate
  <2>1. frame' \in Frame
    BY <1>4, NewFrameType DEF Authenticate, Calls, Args
  <2>2. MethodOK'
    BY <1>4, <2>1 DEF Authenticate, MethodOK, LocalOK, Steps, Results
  <2>3. ObjectOK'
    BY <1>4, ArgsAssumption DEF Authenticate, Typed, ObjectOK
  <2>4. UNCHANGED <<net, taint, written>>
    BY <1>4 DEF Authenticate
  <2> QED BY <2>2, <2>3, <2>4, UnchangedTyped DEF Typed
<1>5. CASE Connect
  <2>1. CASE stream
    <3>1. MethodOK'
      BY <1>5, <2>1, ReturnTyped DEF Connect, Results
    <3> QED BY <1>5, <3>1, UnchangedTyped DEF Connect, Typed
  <2>2. CASE ~stream
    <3>1. NewFrame("connect", None, None, "good") \in Frame
      BY NewFrameType DEF Calls, Args
    <3>2. MethodOK'
      BY <1>5, <2>2, <3>1, OpeningTyped DEF Connect, Returns, Results
    <3> QED BY <1>5, <3>2, UnchangedTyped DEF Connect, Typed
  <2> QED BY <2>1, <2>2
<1>6. CASE Reconnect
  <2>1. NewFrame("reconnect", None, None, "good") \in Frame
    BY NewFrameType DEF Calls, Args
  <2>2. MethodOK'
    BY <1>6, <2>1, OpeningTyped DEF Reconnect, Returns, Results
  <2>3. NetOK' /\ TaintOK'
    BY <1>6, CloseTyped DEF Reconnect, Typed
  <2> QED BY <1>6, <2>2, <2>3, UnchangedTyped DEF Reconnect, Typed
<1>7. CASE FlushSchema
  <2>1. MethodOK'
    BY <1>7, ReturnTyped DEF FlushSchema, Results
  <2>2. ObjectOK' /\ TaintOK'
    BY <1>7, EmptyType DEF FlushSchema, Typed, ObjectOK, TaintOK
  <2> QED BY <1>7, <2>1, <2>2, UnchangedTyped DEF FlushSchema, Typed
<1>8. CASE CloseMethod
  <2>1. MethodOK'
    BY <1>8, ReturnTyped DEF CloseMethod, Results
  <2> QED BY <1>8, <2>1, UnchangedTyped DEF CloseMethod, Typed
<1> QED BY <1>1, <1>2, <1>3, <1>4, <1>5, <1>6, <1>7, <1>8 DEF Script

LEMMA ServerTyped == ASSUME Typed, Server PROVE Typed'
<1>1. CASE ServerAnswers
  <2>1. PICK i \in DOMAIN todo, ok \in BOOLEAN :
           inbox' = Append(inbox, Answer(todo[i], ok)) /\ todo' = RemoveAt(todo, i)
    BY <1>1 DEF ServerAnswers
  <2>2. todo[i] \in Request /\ todo' \in Seq(Request)
    BY <2>1, Removed DEF Typed, NetOK
  <2>3. Answer(todo[i], ok) \in Message
    BY <2>2 DEF Answer, Message, Part
  <2>4. inbox' \in Seq(Message)
    BY <2>1, <2>3 DEF Typed, NetOK
  <2>5. NetOK'
    BY <1>1, <2>2, <2>4 DEF ServerAnswers, Typed, NetOK
  <2> QED BY <1>1, <2>5, UnchangedTyped DEF ServerAnswers, Typed
<1>2. CASE ServerLeaves
  <2>1. Junk \in Message /\ <<>> \in Seq(Request)
    BY DEF Junk, Message, Part
  <2>2. inbox' \in Seq(Message)
    BY <1>2, <2>1 DEF ServerLeaves, Typed, NetOK
  <2>3. NetOK'
    BY <1>2, <2>1, <2>2 DEF ServerLeaves, Typed, NetOK
  <2> QED BY <1>2, <2>3, UnchangedTyped DEF ServerLeaves, Typed
<1> QED BY <1>1, <1>2 DEF Server

\* What the stream does to the types.
LEMMA ReadTyped ==
    ASSUME Typed, ShortRead \/ GarbageRead \/ WholeRead
    PROVE  NetOK'
<1>1. CASE ShortRead
  BY <1>1, CutType, RestType DEF ShortRead, Typed, NetOK
<1>2. CASE GarbageRead
  BY <1>2, RestType DEF GarbageRead, Typed, NetOK
<1>3. CASE WholeRead
  BY <1>3 DEF WholeRead, Aligned, Typed, NetOK
<1> QED BY <1>1, <1>2, <1>3

LEMMA SendTyped ==
    ASSUME Typed, NEW reqs \in Seq(Request), SendSucceeds(reqs) \/ SendFails(reqs)
    PROVE  /\ wbuf' \in Seq(Request) /\ NetOK' /\ WrittenOK'
           /\ SendFails(reqs) => tainted' \in BOOLEAN
<1>0. todo' \in Seq(Request) /\ torn' \in BOOLEAN
  BY SendRun, SendRange DEF Typed, NetOK
<1>1. Range(reqs) \subseteq Request
  BY DEF Range
<1>2. {q.sync : q \in Range(reqs)} \subseteq Nat
  BY <1>1 DEF Request
<1>5. SendFails(reqs) => tainted' \in BOOLEAN
  BY Zenon DEF SendFails
<1>3. CASE SendSucceeds(reqs)
  <2>1. wbuf' \in Seq(Request)
    BY <1>3 DEF SendSucceeds
  <2>2. NetOK'
    BY <1>0, <1>3 DEF SendSucceeds, Typed, NetOK
  <2>3. WrittenOK'
    BY <1>3, <1>2 DEF SendSucceeds, Typed, WrittenOK
  <2> QED BY <1>5, <2>1, <2>2, <2>3
<1>4. CASE SendFails(reqs)
  <2>1. wbuf' \in Seq(Request)
    BY <1>4 DEF SendFails
  <2>2. NetOK'
    BY <1>0, <1>4 DEF SendFails, Typed, NetOK
  <2>3. WrittenOK'
    BY <1>4 DEF SendFails, Typed, WrittenOK
  <2> QED BY <1>5, <2>1, <2>2, <2>3
<1> QED BY <1>3, <1>4

LEMMA TaintTyped == Taint => TaintOK'
BY DEF Taint, TaintOK

LEMMA ConnectedTyped ==
    ASSUME Typed, Connected
    PROVE  MethodOK'
<1>1. CASE frame.then = "return"
  BY <1>1, ReturnTyped DEF Connected, Results
<1>2. CASE frame.then # "return"
  <2>1. frame \in Frame /\ frame.then \in {"eof", "method"}
    BY <1>2 DEF Typed, MethodOK, Frame, Returns
  <2>2. frame' \in Frame
    BY <1>2, <2>1 DEF Connected, Frame
  <2> QED BY <1>2, <2>1, <2>2
          DEF Connected, Goto, Typed, MethodOK, LocalOK, Steps
<1> QED BY <1>1, <1>2

LEMMA NextAnswerTyped ==
    ASSUME Typed, pc = "auth_recv", NEW ok \in BOOLEAN, NextAnswer(ok)
    PROVE  MethodOK'
<1>1. frame \in Frame /\ frame.batch \in 0..3
  BY DEF Typed, MethodOK, Frame
<1>2. CASE frame.batch > 1
  <2>1. frame.batch - 1 \in 0..3 /\ frame.batch - 1 > 0
    BY <1>1, <1>2
  <2>2. frame' = [frame EXCEPT !.batch = frame.batch - 1, !.ok = ok]
    BY <1>2 DEF NextAnswer
  <2>3. frame' \in Frame /\ frame'.batch > 0
    BY <1>1, <2>1, <2>2 DEF Frame
  <2> QED BY <1>2, <2>3
          DEF NextAnswer, Goto, Typed, MethodOK, LocalOK, Steps
<1>3. CASE ~(frame.batch > 1) /\ ok
  BY <1>3, ConnectedTyped DEF NextAnswer
<1>4. CASE ~(frame.batch > 1) /\ ~ok
  BY <1>4, ReturnTyped DEF NextAnswer, Results
<1> QED BY <1>2, <1>3, <1>4

LEMMA LookupTyped ==
    ASSUME Typed, NEW q \in Request, NEW step \in {"space_recv", "index_recv"},
           SendLookup(q, step),
           step = "space_recv" => frame.space \in SpaceArgs \cup SpaceNos,
           step = "index_recv" => frame.space \in SpaceNos
    PROVE  Typed'
<1>1. <<q>> \in Seq(Request)
  OBVIOUS
<1>2. wbuf' \in Seq(Request) /\ NetOK' /\ WrittenOK'
  BY <1>1, SendTyped DEF SendLookup
<1>3. ObjectOK'
  BY <1>2 DEF SendLookup, Typed, ObjectOK
<1>4. MethodOK'
  <2>1. CASE Goto(step) /\ UNCHANGED frame
    BY <2>1 DEF Goto, Typed, MethodOK, LocalOK, Steps
  <2>2. CASE Return("silent")
    BY <2>2, ReturnTyped DEF Results
  <2> QED BY <2>1, <2>2 DEF SendLookup
<1>5. TaintOK'
  <2>1. tainted' \in BOOLEAN
    BY <1>1, SendTyped DEF SendLookup, Typed, TaintOK
  <2> QED BY <2>1 DEF SendLookup, TaintOK
<1> QED BY <1>2, <1>3, <1>4, <1>5 DEF Typed

LEMMA ResolvedTyped ==
    ASSUME Typed, NEW no \in SpaceNos, Resolved(no)
    PROVE  MethodOK'
<1>1. frame \in Frame
  BY DEF Typed, MethodOK
<1>2. frame' \in Frame /\ frame'.space = no
  BY <1>1 DEF Resolved, Frame
<1> QED BY <1>2 DEF Resolved, Goto, Typed, MethodOK, LocalOK, Steps

\* A name is looked up in the cache, a number stands for itself.
LEMMA SidType ==
    ASSUME NEW c \in SchemaType, NEW space \in SpaceArgs \cup SpaceNos,
           Sid(c, space) # NoId
    PROVE  Sid(c, space) \in SpaceNos
BY ArgsAssumption DEF Sid, SchemaType

\* Connecting and reading the greeting.
LEMMA ConnectingTyped ==
    ASSUME Typed,
           Demand \/ EofSeen \/ EofNotSeen \/ OpenFails \/ RetrySleep
             \/ OpenSucceeds \/ ReadGreeting
    PROVE  Typed'
<1>f. frame \in Frame /\ result \in Results
  BY DEF Typed, MethodOK
<1>1. CASE Demand
  <2>1. MethodOK'
    <3>1. CASE stream
      BY <1>1, <3>1 DEF Demand, Typed, MethodOK, LocalOK, Steps
    <3>2. CASE ~stream
      BY <1>1, <3>2, <1>f, OpeningTyped DEF Demand, Returns
    <3> QED BY <3>1, <3>2
  <2> QED BY <1>1, <2>1, UnchangedTyped DEF Demand, Typed
<1>2. CASE EofSeen
  <2>1. MethodOK'
    BY <1>2, <1>f, OpeningTyped DEF EofSeen, Returns
  <2>2. NetOK' /\ TaintOK'
    BY <1>2, CloseTyped DEF EofSeen, Typed
  <2> QED BY <1>2, <2>1, <2>2, UnchangedTyped DEF EofSeen, Typed
<1>3. CASE EofNotSeen
  <2>1. MethodOK'
    BY <1>3 DEF EofNotSeen, Goto, Typed, MethodOK, LocalOK, Steps
  <2> QED BY <1>3, <2>1, UnchangedTyped DEF EofNotSeen, Typed
<1>4. CASE OpenFails
  <2>1. MethodOK'
    <3>1. CASE frame.count = 1
      BY <1>4, <3>1, ReturnTyped DEF OpenFails, Results
    <3>2. CASE frame.count # 1
      <4>1. frame.count \in 0..RetryCount /\ frame.count > 0
        BY <1>4, <1>f DEF OpenFails, Typed, MethodOK, LocalOK, Frame
      <4>2. frame.count - 1 \in 0..RetryCount /\ frame.count - 1 > 0
        BY <4>1, <3>2, RetryAssumption
      <4>3. frame' = [frame EXCEPT !.count = frame.count - 1]
        BY <1>4, <3>2 DEF OpenFails
      <4>4. frame' \in Frame /\ frame'.count > 0
        BY <4>2, <4>3, <1>f DEF Frame
      <4> QED BY <1>4, <3>2, <4>4, <1>f
              DEF OpenFails, Goto, MethodOK, LocalOK, Steps
    <3> QED BY <3>1, <3>2
  <2> QED BY <1>4, <2>1, UnchangedTyped DEF OpenFails, Typed
<1>5. CASE OpenSucceeds
  <2>1. frame' \in Frame
    BY <1>5, <1>f, RetryAssumption DEF OpenSucceeds, Frame
  <2>2. MethodOK'
    BY <1>5, <2>1, <1>f DEF OpenSucceeds, Goto, MethodOK, LocalOK, Steps
  <2>3. inbox' \in Seq(Message)
    <3>1. Greeting \in Message
      BY DEF Greeting, Message, Part
    <3>2. <<Greeting>> \in Seq(Message)
      BY <3>1
    <3> QED BY <1>5, <3>2 DEF OpenSucceeds
  <2>4. NetOK'
    <3>1. <<>> \in Seq(Request)
      OBVIOUS
    <3> QED BY <1>5, <2>3, <3>1 DEF OpenSucceeds, NetOK
  <2>5. TaintOK'
    BY <1>5 DEF OpenSucceeds, Typed, TaintOK
  <2> QED BY <1>5, <2>2, <2>4, <2>5, UnchangedTyped DEF OpenSucceeds, Typed
<1>6. CASE ReadGreeting
  <2>1. MethodOK'
    <3>1. CASE passwd
      BY <1>6, <3>1, <1>f DEF ReadGreeting, Goto, MethodOK, LocalOK, Steps
    <3>2. CASE ~passwd
      BY <1>6, <3>2, ConnectedTyped DEF ReadGreeting
    <3> QED BY <3>1, <3>2
  <2>2. NetOK' /\ TaintOK'
    <3>1. CASE inbox # <<>> /\ inbox' = Tail(inbox) /\ UNCHANGED taint
      <4>1. inbox' \in Seq(Message)
        BY <3>1 DEF Typed, NetOK
      <4>2. NetOK'
        BY <4>1, <1>6 DEF ReadGreeting, Typed, NetOK
      <4> QED BY <4>2, <3>1, UnchangedTyped DEF Typed
    <3>2. CASE inbox' \in Cut(inbox) /\ Taint
      <4>1. NetOK'
        BY <3>2, <1>6, CutType DEF ReadGreeting, Typed, NetOK
      <4> QED BY <3>2, <4>1, TaintTyped
    <3> QED BY <1>6, <3>1, <3>2 DEF ReadGreeting
  <2> QED BY <1>6, <2>1, <2>2, UnchangedTyped DEF ReadGreeting, Typed
<1>7. CASE RetrySleep
  <2>1. MethodOK'
    BY <1>7 DEF RetrySleep, Goto, Typed, MethodOK, LocalOK, Steps
  <2> QED BY <1>7, <2>1, UnchangedTyped DEF RetrySleep, Typed
<1> QED BY <1>1, <1>2, <1>3, <1>4, <1>5, <1>6, <1>7

\* The three requests of __bee_authenticate and their answers.
LEMMA AuthTyped ==
    ASSUME Typed,
           AuthSend \/ AuthShortRead \/ AuthGarbage \/ AuthNoRows \/ AuthSpaces
             \/ AuthIndexes
    PROVE  Typed'
<1>f. frame \in Frame /\ result \in Results /\ frame.ok \in BOOLEAN
  BY DEF Typed, MethodOK, Frame
<1>c. cache \in SchemaType
  BY DEF Typed, ObjectOK
<1>1. CASE AuthSend
  <2>1. AuthBatch \in Seq(Request)
    <3>1. /\ Ask(sync, "auth") \in Request
          /\ Ask(sync + 1, "spaces") \in Request
          /\ Ask(sync + 2, "indexes") \in Request
      BY DEF Ask, Req, Request, Kinds, Typed, ObjectOK
    <3> QED BY <3>1 DEF AuthBatch
  <2>2. wbuf' \in Seq(Request) /\ NetOK' /\ WrittenOK'
    BY <1>1, <2>1, SendTyped DEF AuthSend
  <2>3. ObjectOK'
    BY <1>1, <2>2, EmptyType DEF AuthSend, Typed, ObjectOK
  <2>4. TaintOK'
    <3>1. tainted' \in BOOLEAN
      BY <1>1, <2>1, SendTyped DEF AuthSend, Typed, TaintOK
    <3> QED BY <1>1, <3>1 DEF AuthSend, TaintOK
  <2>5. MethodOK'
    <3>1. CASE Goto("auth_recv") /\ frame' = [frame EXCEPT !.batch = 3, !.ok = TRUE]
      <4>1. frame' \in Frame /\ frame'.batch = 3
        <5>1. 3 \in 0..3
          OBVIOUS
        <5> QED BY <3>1, <5>1, <1>f DEF Frame
      <4> QED BY <3>1, <4>1, <1>f DEF Goto, MethodOK, LocalOK, Steps
    <3>2. CASE Return("silent")
      BY <3>2, ReturnTyped DEF Results
    <3> QED BY <1>1, <3>1, <3>2 DEF AuthSend
  <2> QED BY <2>2, <2>3, <2>4, <2>5 DEF Typed
<1>2. CASE AuthShortRead
  <2>1. MethodOK'
    BY <1>2, ReturnTyped DEF AuthShortRead, Results
  <2>2. NetOK' /\ TaintOK'
    BY <1>2, ReadTyped, TaintTyped DEF AuthShortRead
  <2> QED BY <1>2, <2>1, <2>2, UnchangedTyped DEF AuthShortRead, Typed
<1>3. CASE AuthGarbage
  <2>1. MethodOK'
    BY <1>3, NextAnswerTyped DEF AuthGarbage
  <2>2. NetOK'
    BY <1>3, ReadTyped DEF AuthGarbage
  <2> QED BY <1>3, <2>1, <2>2, UnchangedTyped DEF AuthGarbage, Typed
<1>4. CASE AuthNoRows
  <2>1. Head(inbox).ok \in BOOLEAN
    <3>1. inbox \in Seq(Message) /\ inbox # <<>>
      BY <1>4 DEF AuthNoRows, WholeRead, Aligned, Typed, NetOK
    <3>2. Head(inbox) \in Message
      BY <3>1
    <3> QED BY <3>2 DEF Message
  <2>2. (frame.ok /\ Head(inbox).ok) \in BOOLEAN
    BY <2>1, <1>f
  <2>3. MethodOK'
    BY <1>4, <2>2, NextAnswerTyped DEF AuthNoRows
  <2>4. NetOK'
    BY <1>4, ReadTyped DEF AuthNoRows
  <2> QED BY <1>4, <2>3, <2>4, UnchangedTyped DEF AuthNoRows, Typed
<1>5. CASE AuthSpaces
  <2>1. PICK p \in ParsedSpaces(Head(inbox).to) :
           cache' = AddSpaces(cache, p.rows) /\ NextAnswer(p.good)
    BY <1>5 DEF AuthSpaces
  <2>2. p.rows \in SUBSET Row /\ p.good \in BOOLEAN
    BY ParsedRows
  <2>3. MethodOK'
    BY <1>5, <2>1, <2>2, NextAnswerTyped DEF AuthSpaces
  <2>4. cache' \in SchemaType
    BY <2>1, <2>2, <1>c, AddSpacesType
  <2>5. ObjectOK'
    BY <1>5, <2>4 DEF AuthSpaces, Typed, ObjectOK
  <2>6. NetOK'
    BY <1>5, ReadTyped DEF AuthSpaces
  <2> QED BY <1>5, <2>3, <2>5, <2>6, UnchangedTyped DEF AuthSpaces, Typed
<1>6. CASE AuthIndexes
  <2>1. PICK p \in ParsedIndexes(Head(inbox).to) :
           cache' = AddIndexes(cache, p.rows) /\ NextAnswer(p.good)
    BY <1>6 DEF AuthIndexes
  <2>2. p.rows \in SUBSET Row /\ p.good \in BOOLEAN
    BY ParsedRows
  <2>3. MethodOK'
    BY <1>6, <2>1, <2>2, NextAnswerTyped DEF AuthIndexes
  <2>4. cache' \in SchemaType
    BY <2>1, <2>2, <1>c, AddIndexesType
  <2>5. ObjectOK'
    BY <1>6, <2>4 DEF AuthIndexes, Typed, ObjectOK
  <2>6. NetOK'
    BY <1>6, ReadTyped DEF AuthIndexes
  <2> QED BY <1>6, <2>3, <2>5, <2>6, UnchangedTyped DEF AuthIndexes, Typed
<1> QED BY <1>1, <1>2, <1>3, <1>4, <1>5, <1>6

\* Resolving names and sending the request.
LEMMA BodyTyped ==
    ASSUME Typed,
           Dispatch \/ SpaceKnown \/ SpaceLookup \/ LookupFails \/ SpaceAnswer
             \/ IndexKnown \/ IndexLookup \/ IndexAnswer \/ BadArguments
             \/ SendRequest
    PROVE  Typed'
<1>f. frame \in Frame /\ result \in Results
  BY DEF Typed, MethodOK
<1>c. cache \in SchemaType /\ wbuf \in Seq(Request) /\ sync \in Nat
  BY DEF Typed, ObjectOK
<1>1. CASE Dispatch
  <2>1. MethodOK'
    <3>1. CASE frame.op = "authenticate"
      <4>1. frame' \in Frame
        BY <1>1, <3>1, <1>f DEF Dispatch, Frame, Returns
      <4> QED BY <1>1, <3>1, <4>1, <1>f
              DEF Dispatch, Goto, MethodOK, LocalOK, Steps
    <3>2. CASE frame.op # "authenticate"
      <4>1. frame.space \in SpaceArgs \cup SpaceNos \cup {None}
        BY <1>f DEF Frame
      <4> QED BY <1>1, <3>2, <4>1, <1>f
              DEF Dispatch, Goto, MethodOK, LocalOK, Steps
    <3> QED BY <3>1, <3>2
  <2> QED BY <1>1, <2>1, UnchangedTyped DEF Dispatch, Typed
<1>2. CASE SpaceKnown
  <2>1. frame.space \in SpaceArgs \cup SpaceNos
    BY <1>2 DEF SpaceKnown, Typed, MethodOK, LocalOK
  <2>2. MethodOK'
    BY <1>2, <2>1, <1>c, SidType, ResolvedTyped DEF SpaceKnown
  <2> QED BY <1>2, <2>2, UnchangedTyped DEF SpaceKnown, Typed
<1>3. CASE SpaceLookup
  <2>1. frame.space \in SpaceArgs \cup SpaceNos
    BY <1>3 DEF SpaceLookup, Typed, MethodOK, LocalOK
  <2>2. frame.space \in Names
    BY <1>3, <2>1, ArgsAssumption, NumbersAssumption
    DEF SpaceLookup, Sid, NoId
  <2>3. Req(sync, "space", None, frame.space) \in Request
    BY <2>2, <1>c DEF Req, Request, Kinds
  <2> QED BY <1>3, <2>1, <2>3, LookupTyped DEF SpaceLookup
<1>4. CASE LookupFails
  <2>1. MethodOK'
    BY <1>4, ReturnTyped DEF LookupFails, Results
  <2>2. NetOK'
    BY <1>4, ReadTyped DEF LookupFails
  <2>3. TaintOK'
    BY <1>4, TaintTyped, UnchangedTyped DEF LookupFails
  <2> QED BY <1>4, <2>1, <2>2, <2>3, UnchangedTyped DEF LookupFails, Typed
<1>5. CASE SpaceAnswer
  <2>1. PICK p \in ParsedSpaces(Head(inbox).to) :
          /\ cache' = AddSpaces(cache, p.rows)
          /\ IF ~p.good THEN Return("schema")
             ELSE IF Sid(cache', frame.space) = NoId THEN Return("exception")
             ELSE Resolved(Sid(cache', frame.space))
    BY <1>5 DEF SpaceAnswer
  <2>2. cache' \in SchemaType
    BY <2>1, <1>c, ParsedRows, AddSpacesType
  <2>3. frame.space \in SpaceArgs \cup SpaceNos
    BY <1>5 DEF SpaceAnswer, Typed, MethodOK, LocalOK
  <2>4. MethodOK'
    <3>1. CASE Return("schema") \/ Return("exception")
      BY <3>1, ReturnTyped DEF Results
    <3>2. CASE /\ Sid(cache', frame.space) # NoId
               /\ Resolved(Sid(cache', frame.space))
      BY <3>2, <2>2, <2>3, SidType, ResolvedTyped
    <3> QED BY <2>1, <3>1, <3>2
  <2>5. ObjectOK'
    BY <1>5, <2>2 DEF SpaceAnswer, Typed, ObjectOK
  <2>6. NetOK'
    BY <1>5, ReadTyped DEF SpaceAnswer
  <2> QED BY <1>5, <2>4, <2>5, <2>6, UnchangedTyped DEF SpaceAnswer, Typed
<1>6. CASE IndexKnown
  <2>1. MethodOK'
    BY <1>6, <1>f DEF IndexKnown, Goto, Typed, MethodOK, LocalOK, Steps
  <2> QED BY <1>6, <2>1, UnchangedTyped DEF IndexKnown, Typed
<1>7. CASE IndexLookup
  <2>1. frame.space \in SpaceNos
    BY <1>7 DEF IndexLookup, Typed, MethodOK, LocalOK
  <2>2. Req(sync, "index", frame.space, frame.index) \in Request
    BY <1>7, <2>1, <1>c DEF IndexLookup, Req, Request, Kinds
  <2> QED BY <1>7, <2>1, <2>2, LookupTyped DEF IndexLookup
<1>8. CASE IndexAnswer
  <2>1. PICK p \in ParsedIndexes(Head(inbox).to) :
          /\ cache' = AddIndexes(cache, p.rows)
          /\ IF ~p.good THEN Return("schema")
             ELSE IF Iid(cache', frame.space, frame.index) = NoId
             THEN Return("exception")
             ELSE Goto("request") /\ UNCHANGED frame
    BY <1>8 DEF IndexAnswer
  <2>2. cache' \in SchemaType
    BY <2>1, <1>c, ParsedRows, AddIndexesType
  <2>3. frame.space \in SpaceNos
    BY <1>8 DEF IndexAnswer, Typed, MethodOK, LocalOK
  <2>4. MethodOK'
    <3>1. CASE Return("schema") \/ Return("exception")
      BY <3>1, ReturnTyped DEF Results
    <3>2. CASE Goto("request") /\ UNCHANGED frame
      BY <3>2, <2>3, <1>f DEF Goto, MethodOK, LocalOK, Steps
    <3> QED BY <2>1, <3>1, <3>2
  <2>5. ObjectOK'
    BY <1>8, <2>2 DEF IndexAnswer, Typed, ObjectOK
  <2>6. NetOK'
    BY <1>8, ReadTyped DEF IndexAnswer
  <2> QED BY <1>8, <2>4, <2>5, <2>6, UnchangedTyped DEF IndexAnswer, Typed
<1>9. CASE BadArguments
  <2>1. MethodOK'
    BY <1>9, ReturnTyped DEF BadArguments, Results
  <2> QED BY <1>9, <2>1, UnchangedTyped DEF BadArguments, Typed
<1>10. CASE SendRequest
  <2> DEFINE q == Req(sync, "data", frame.space, None)
  <2>1. q \in Request
    BY <1>10, <1>c DEF SendRequest, Req, Request, Kinds, Typed, MethodOK, LocalOK
  <2>2. Append(wbuf, q) \in Seq(Request)
    BY <2>1, <1>c
  <2> HIDE DEF q
  <2>3. SendSucceeds(Append(wbuf, q)) \/ SendFails(Append(wbuf, q))
    BY <1>10 DEF SendRequest, q
  <2>4. wbuf' \in Seq(Request) /\ NetOK' /\ WrittenOK'
    BY <2>2, <2>3, SendTyped
  <2>5. ObjectOK'
    BY <1>10, <2>4 DEF SendRequest, Typed, ObjectOK
  <2>6. TaintOK'
    <3>1. dirty' = (dirty \/ tainted')
      BY <1>10 DEF SendRequest
    <3>2. tainted' \in BOOLEAN
      <4>1. tainted' = (tainted \/ wbuf # <<>>) \/ SendFails(Append(wbuf, q))
        BY <1>10 DEF SendRequest, q
      <4> QED BY <2>2, <2>3, <4>1, SendTyped
    <3> QED BY <3>1, <3>2 DEF TaintOK
  <2>7. MethodOK'
    <3>1. CASE Goto("recv") /\ frame' = [frame EXCEPT !.own = q]
      <4>1. frame' \in Frame
        BY <3>1, <2>1, <1>f DEF Frame
      <4> QED BY <3>1, <4>1, <1>f DEF Goto, MethodOK, LocalOK, Steps
    <3>2. CASE Return("silent")
      BY <3>2, ReturnTyped DEF Results
    <3> QED BY <1>10, <3>1, <3>2 DEF SendRequest, q
  <2> QED BY <2>4, <2>5, <2>6, <2>7 DEF Typed
<1> QED BY <1>1, <1>2, <1>3, <1>4, <1>5, <1>6, <1>7, <1>8, <1>9, <1>10

\* Waiting for the answer in bee_step_recv.
LEMMA RecvTyped ==
    ASSUME Typed, RecvCloses \/ RecvKeeps \/ RecvRefused \/ RecvOk
    PROVE  Typed'
<1>1. ASSUME NEW r \in Results, Received(r)
      PROVE  MethodOK' /\ ObjectOK'
  <2>1. MethodOK'
    BY <1>1, ReturnTyped DEF Received
  <2>2. <<>> \in Seq(Request)
    OBVIOUS
  <2>3. ObjectOK'
    BY <1>1, <2>2 DEF Received, Typed, ObjectOK
  <2> QED BY <2>1, <2>3
<1>2. CASE RecvCloses
  <2>1. NetOK' /\ TaintOK'
    BY <1>2, CloseTyped DEF RecvCloses, Typed
  <2> QED BY <1>1, <1>2, <2>1, UnchangedTyped DEF RecvCloses, Typed, Results
<1>3. CASE RecvKeeps
  <2>1. inbox' \in Seq(Message)
    <3>1. CASE Aligned /\ inbox' = <<Junk>> \o Tail(inbox)
      BY <3>1, CutType DEF Cut, Aligned, Typed, NetOK
    <3>2. CASE Misaligned /\ inbox' \in Rest(inbox)
      BY <3>2, RestType DEF Typed, NetOK
    <3> QED BY <1>3, <3>1, <3>2 DEF RecvKeeps
  <2>2. NetOK'
    BY <1>3, <2>1 DEF RecvKeeps, Typed, NetOK
  <2> QED BY <1>1, <1>3, <2>2, TaintTyped, UnchangedTyped
          DEF RecvKeeps, Typed, Results
<1>4. CASE RecvRefused
  <2>1. NetOK'
    BY <1>4, ReadTyped DEF RecvRefused
  <2> QED BY <1>1, <1>4, <2>1, UnchangedTyped DEF RecvRefused, Typed, Results
<1>5. CASE RecvOk
  <2>1. NetOK'
    BY <1>5, ReadTyped DEF RecvOk
  <2> QED BY <1>1, <1>5, <2>1, UnchangedTyped DEF RecvOk, Typed, Results
<1> QED BY <1>2, <1>3, <1>4, <1>5

LEMMA NextTyped == Typed /\ [Next]_vars => Typed'
<1> SUFFICES ASSUME Typed, [Next]_vars PROVE Typed'
  OBVIOUS
<1>1. CASE Client
  BY <1>1, ConnectingTyped, AuthTyped, BodyTyped, RecvTyped DEF Client
<1>2. CASE UNCHANGED vars
  BY <1>2, UnchangedTyped DEF vars, Typed
<1> QED BY <1>1, <1>2, ScriptTyped, ServerTyped DEF Next

\* The types hold in every run, for every catalog and every script.
THEOREM TypeCorrect == Spec => []TypeOK
<1>1. Spec => []Typed
  BY InitTyped, NextTyped, PTL DEF Spec
<1> QED BY <1>1, TypedImpliesTypeOK, PTL

-----------------------------------------------------------------------------
(* Every method comes to its end: the steps left (StepsLeft) go down with  *)
(* every step of the client.  They are a natural number because of Typed,  *)
(* and it is Typed too that an attempt, or an answer of a batch, which is  *)
(* counted off was still to come.                                          *)

\* What StepsOf says, step by step.
LEMMA StepsOfValues ==
    ASSUME NEW f
    PROVE  /\ StepsOf("sleep", f) = StepsFrom[f.then] + 2 * f.count + 5
           /\ StepsOf("open", f) = StepsFrom[f.then] + 2 * f.count + 4
           /\ StepsOf("greet", f) = StepsFrom[f.then] + 5
           /\ StepsOf("auth", f) = StepsFrom[f.then] + 4
           /\ StepsOf("auth_recv", f) = StepsFrom[f.then] + f.batch
           /\ StepsOf("idle", f) = 0 /\ StepsOf("recv", f) = 1
           /\ StepsOf("request", f) = 2 /\ StepsOf("index_recv", f) = 3
           /\ StepsOf("index", f) = 4 /\ StepsOf("space_recv", f) = 5
           /\ StepsOf("space", f) = 6 /\ StepsOf("method", f) = 7
           /\ StepsOf("eof", f) = OpenSteps + 8
           /\ StepsOf("demand", f) = 2 * OpenSteps + 9
BY DEF StepsOf, StepsFrom

\* ... and what is left where connecting and authenticating come back to.
LEMMA StepsFromValues ==
    /\ StepsFrom["return"] = 0 /\ StepsFrom["method"] = 7
    /\ StepsFrom["eof"] = OpenSteps + 8
    /\ OpenSteps = 2 * RetryCount + 4 /\ RetryCount \in Nat
    /\ \A k \in Returns : StepsFrom[k] \in Nat
BY RetryAssumption DEF StepsFrom, OpenSteps, Returns

\* No method takes more than 4 * bee.retry_count + 17 steps of the client,
\* and it has returned when none is left.
StepsInRange ==
    StepsLeft \in 0..(4 * RetryCount + 17) /\ (StepsLeft = 0 <=> pc = "idle")

LEMMA TypedStepsInRange == Typed => StepsInRange
<1> SUFFICES ASSUME Typed PROVE StepsInRange
  OBVIOUS
<1>1. /\ frame.then \in Returns /\ frame.count \in 0..RetryCount
      /\ frame.batch \in 0..3 /\ pc \in Steps
      /\ pc \in {"open", "sleep"} => frame.count > 0
      /\ pc = "auth_recv" => frame.batch > 0
  BY DEF Typed, MethodOK, LocalOK, Frame
<1>2. frame.count \in Int /\ frame.batch \in Int /\ RetryCount \in Nat
  BY <1>1, StepsFromValues
<1>3. StepsFrom[frame.then] \in 0..(2 * RetryCount + 12)
  BY <1>1, <1>2, StepsFromValues DEF Returns
<1>4. CASE pc \in {"open", "sleep", "greet", "auth", "auth_recv"}
  BY <1>1, <1>2, <1>3, <1>4, StepsOfValues DEF StepsInRange, StepsLeft
<1>5. CASE pc \notin {"open", "sleep", "greet", "auth", "auth_recv"}
  BY <1>1, <1>2, <1>5, StepsOfValues, StepsFromValues
     DEF StepsInRange, StepsLeft, Steps
<1> QED BY <1>4, <1>5

\* Returning, at whatever step, leaves nothing to do.
LEMMA ReturnNearer ==
    ASSUME Typed, pc # "idle", NEW r, Return(r)
    PROVE  StepsLeft' < StepsLeft
<1>1. StepsLeft' = 0
  BY StepsOfValues DEF StepsLeft, Return
<1>2. StepsLeft \in Nat /\ StepsLeft # 0
  BY TypedStepsInRange DEF StepsInRange
<1> QED BY <1>1, <1>2

\* So does coming back from connecting or from authenticating ...
LEMMA ConnectedNearer ==
    ASSUME Typed, pc \in {"greet", "auth_recv"}, Connected
    PROVE  StepsLeft' < StepsLeft
<1>1. CASE frame.then = "return"
  BY <1>1, ReturnNearer DEF Connected
<1>2. CASE frame.then # "return"
  <2>1. frame.then \in {"eof", "method"} /\ frame.batch \in 0..3
    BY <1>2 DEF Typed, MethodOK, Frame, Returns
  <2>2. pc = "auth_recv" => frame.batch > 0
    BY DEF Typed, MethodOK, LocalOK
  <2>3. StepsLeft > StepsFrom[frame.then]
    BY <2>1, <2>2, StepsOfValues, StepsFromValues DEF StepsLeft, Returns
  <2>4. pc' = frame.then
    BY <1>2 DEF Connected, Goto
  <2>5. StepsLeft' = StepsFrom[frame.then]
    BY <2>1, <2>4, StepsOfValues, StepsFromValues DEF StepsLeft
  <2> QED BY <2>3, <2>5
<1> QED BY <1>1, <1>2

\* ... and an answer of the batch, the last one and the others.
LEMMA NextAnswerNearer ==
    ASSUME Typed, pc = "auth_recv", NEW ok \in BOOLEAN, NextAnswer(ok)
    PROVE  StepsLeft' < StepsLeft
<1>1. CASE frame.batch > 1
  <2>1. frame \in Frame /\ frame.batch \in 0..3 /\ frame.then \in Returns
    BY DEF Typed, MethodOK, Frame
  <2>2. frame' = [frame EXCEPT !.batch = frame.batch - 1, !.ok = ok]
    BY <1>1 DEF NextAnswer
  <2>3. frame'.batch = frame.batch - 1 /\ frame'.then = frame.then
    BY <2>1, <2>2 DEF Frame
  <2>4. pc' = "auth_recv"
    BY <1>1 DEF NextAnswer, Goto
  <2>5. StepsLeft' = StepsFrom[frame.then] + (frame.batch - 1)
    BY <2>3, <2>4, StepsOfValues DEF StepsLeft
  <2>6. StepsLeft = StepsFrom[frame.then] + frame.batch
    BY StepsOfValues DEF StepsLeft
  <2> QED BY <2>1, <2>5, <2>6, StepsFromValues
<1>2. CASE ~(frame.batch > 1) /\ ok
  BY <1>2, ConnectedNearer DEF NextAnswer
<1>3. CASE ~(frame.batch > 1) /\ ~ok
  BY <1>3, ReturnNearer DEF NextAnswer
<1> QED BY <1>1, <1>2, <1>3

\* Starting to connect sets what is left to every attempt and to what comes
\* after them.
LEMMA OpeningSteps ==
    ASSUME NEW f \in Frame, NEW k \in Returns, Opening(f, k)
    PROVE  StepsLeft' = StepsFrom[k] + OpenSteps
<1>1. pc' = "open" /\ frame'.then = k /\ frame'.count = RetryCount
  BY DEF Opening, Frame
<1>2. StepsLeft' = StepsFrom[k] + 2 * RetryCount + 4
  BY <1>1, StepsOfValues DEF StepsLeft
<1> QED BY <1>2, StepsFromValues

LEMMA ConnectingNearer ==
    ASSUME Typed,
           Demand \/ EofSeen \/ EofNotSeen \/ OpenFails \/ RetrySleep
             \/ OpenSucceeds \/ ReadGreeting
    PROVE  StepsLeft' < StepsLeft
<1>f. /\ frame \in Frame /\ frame.then \in Returns
      /\ frame.count \in 0..RetryCount
      /\ pc \in {"open", "sleep"} => frame.count > 0
  BY DEF Typed, MethodOK, LocalOK, Frame
<1>n. /\ RetryCount \in Nat /\ OpenSteps \in Nat
      /\ frame.count \in Nat /\ StepsFrom[frame.then] \in Nat
  BY <1>f, StepsFromValues
<1>1. CASE Demand
  <2>1. StepsLeft = 2 * OpenSteps + 9
    BY <1>1, StepsOfValues DEF Demand, StepsLeft
  <2>2. CASE stream
    <3>1. StepsLeft' = OpenSteps + 8
      BY <1>1, <2>2, StepsOfValues DEF Demand, StepsLeft
    <3> QED BY <2>1, <3>1, <1>n
  <2>3. CASE ~stream
    <3>1. StepsLeft' = StepsFrom["eof"] + OpenSteps
      BY <1>1, <2>3, <1>f, OpeningSteps DEF Demand, Returns
    <3> QED BY <2>1, <3>1, <1>n, StepsFromValues
  <2> QED BY <2>2, <2>3
<1>2. CASE EofSeen
  <2>1. StepsLeft = OpenSteps + 8
    BY <1>2, StepsOfValues DEF EofSeen, StepsLeft
  <2>2. StepsLeft' = StepsFrom["method"] + OpenSteps
    BY <1>2, <1>f, OpeningSteps DEF EofSeen, Returns
  <2> QED BY <2>1, <2>2, <1>n, StepsFromValues
<1>3. CASE EofNotSeen
  <2>1. StepsLeft = OpenSteps + 8 /\ StepsLeft' = 7
    BY <1>3, StepsOfValues DEF EofNotSeen, Goto, StepsLeft
  <2> QED BY <2>1, <1>n
<1>4. CASE OpenFails
  <2>1. CASE frame.count = 1
    BY <1>4, <2>1, ReturnNearer DEF OpenFails
  <2>2. CASE frame.count # 1
    <3>1. frame' = [frame EXCEPT !.count = frame.count - 1] /\ pc' = "sleep"
      BY <1>4, <2>2 DEF OpenFails, Goto
    <3>2. frame'.count = frame.count - 1 /\ frame'.then = frame.then
      BY <3>1, <1>f DEF Frame
    <3>3. StepsLeft' = StepsFrom[frame.then] + 2 * (frame.count - 1) + 5
      BY <3>1, <3>2, StepsOfValues DEF StepsLeft
    <3>4. StepsLeft = StepsFrom[frame.then] + 2 * frame.count + 4
      BY <1>4, StepsOfValues DEF OpenFails, StepsLeft
    <3> QED BY <3>3, <3>4, <1>n
  <2> QED BY <2>1, <2>2
<1>5. CASE RetrySleep
  <2>1. /\ StepsLeft = StepsFrom[frame.then] + 2 * frame.count + 5
        /\ StepsLeft' = StepsFrom[frame.then] + 2 * frame.count + 4
    BY <1>5, StepsOfValues DEF RetrySleep, Goto, StepsLeft
  <2> QED BY <2>1, <1>n
<1>6. CASE OpenSucceeds
  <2>1. pc' = "greet" /\ frame'.then = frame.then
    BY <1>6, <1>f DEF OpenSucceeds, Goto, Frame
  <2>2. StepsLeft' = StepsFrom[frame.then] + 5
    BY <2>1, StepsOfValues DEF StepsLeft
  <2>3. StepsLeft = StepsFrom[frame.then] + 2 * frame.count + 4
    BY <1>6, StepsOfValues DEF OpenSucceeds, StepsLeft
  <2>4. frame.count > 0
    BY <1>6, <1>f DEF OpenSucceeds
  <2> QED BY <2>2, <2>3, <2>4, <1>n
<1>7. CASE ReadGreeting
  <2>1. CASE passwd
    <3>1. /\ StepsLeft = StepsFrom[frame.then] + 5
          /\ StepsLeft' = StepsFrom[frame.then] + 4
      BY <1>7, <2>1, StepsOfValues DEF ReadGreeting, Goto, StepsLeft
    <3> QED BY <3>1, <1>n
  <2>2. CASE ~passwd
    BY <1>7, <2>2, ConnectedNearer DEF ReadGreeting
  <2> QED BY <2>1, <2>2
<1> QED BY <1>1, <1>2, <1>3, <1>4, <1>5, <1>6, <1>7

LEMMA AuthNearer ==
    ASSUME Typed,
           AuthSend \/ AuthShortRead \/ AuthGarbage \/ AuthNoRows \/ AuthSpaces
             \/ AuthIndexes
    PROVE  StepsLeft' < StepsLeft
<1>f. frame \in Frame /\ frame.then \in Returns /\ frame.ok \in BOOLEAN
  BY DEF Typed, MethodOK, Frame
<1>1. CASE AuthSend
  <2>1. CASE Return("silent")
    BY <1>1, <2>1, ReturnNearer DEF AuthSend
  <2>2. CASE /\ Goto("auth_recv")
             /\ frame' = [frame EXCEPT !.batch = 3, !.ok = TRUE]
    <3>1. frame'.batch = 3 /\ frame'.then = frame.then
      BY <2>2, <1>f DEF Frame
    <3>2. StepsLeft' = StepsFrom[frame.then] + 3
      BY <2>2, <3>1, StepsOfValues DEF Goto, StepsLeft
    <3>3. StepsLeft = StepsFrom[frame.then] + 4
      BY <1>1, StepsOfValues DEF AuthSend, StepsLeft
    <3> QED BY <3>2, <3>3, <1>f, StepsFromValues
  <2> QED BY <1>1, <2>1, <2>2 DEF AuthSend
<1>2. CASE AuthShortRead
  BY <1>2, ReturnNearer DEF AuthShortRead
<1>3. CASE AuthGarbage
  BY <1>3, NextAnswerNearer DEF AuthGarbage
<1>4. CASE AuthNoRows
  <2>1. (frame.ok /\ Head(inbox).ok) \in BOOLEAN
    OBVIOUS
  <2> QED BY <1>4, <2>1, NextAnswerNearer DEF AuthNoRows
<1>5. CASE AuthSpaces
  <2>1. PICK p \in ParsedSpaces(Head(inbox).to) : NextAnswer(p.good)
    BY <1>5 DEF AuthSpaces
  <2> QED BY <1>5, <2>1, ParsedRows, NextAnswerNearer DEF AuthSpaces
<1>6. CASE AuthIndexes
  <2>1. PICK p \in ParsedIndexes(Head(inbox).to) : NextAnswer(p.good)
    BY <1>6 DEF AuthIndexes
  <2> QED BY <1>6, <2>1, ParsedRows, NextAnswerNearer DEF AuthIndexes
<1> QED BY <1>1, <1>2, <1>3, <1>4, <1>5, <1>6

LEMMA BodyNearer ==
    ASSUME Typed,
           Dispatch \/ SpaceKnown \/ SpaceLookup \/ LookupFails \/ SpaceAnswer
             \/ IndexKnown \/ IndexLookup \/ IndexAnswer
             \/ BadArguments \/ SendRequest
    PROVE  StepsLeft' < StepsLeft
<1>f. frame \in Frame
  BY DEF Typed, MethodOK
<1>1. CASE Dispatch
  <2>1. StepsLeft = 7
    BY <1>1, StepsOfValues DEF Dispatch, StepsLeft
  <2>2. CASE frame.op = "authenticate"
    <3>1. frame'.then = "return" /\ pc' = "auth"
      BY <1>1, <2>2, <1>f DEF Dispatch, Goto, Frame
    <3>2. StepsLeft' = 4
      BY <3>1, StepsOfValues, StepsFromValues DEF StepsLeft
    <3> QED BY <2>1, <3>2
  <2>3. CASE frame.op # "authenticate"
    BY <1>1, <2>1, <2>3, StepsOfValues DEF Dispatch, Goto, StepsLeft
  <2> QED BY <2>2, <2>3
<1>2. CASE SpaceKnown
  BY <1>2, StepsOfValues DEF SpaceKnown, Resolved, Goto, StepsLeft
<1>3. CASE SpaceLookup
  <2>1. CASE Return("silent")
    BY <1>3, <2>1, ReturnNearer DEF SpaceLookup
  <2>2. CASE Goto("space_recv")
    BY <1>3, <2>2, StepsOfValues DEF SpaceLookup, Goto, StepsLeft
  <2> QED BY <1>3, <2>1, <2>2 DEF SpaceLookup, SendLookup
<1>4. CASE LookupFails
  BY <1>4, ReturnNearer DEF LookupFails
<1>5. CASE SpaceAnswer
  <2>1. PICK p \in ParsedSpaces(Head(inbox).to) :
          IF ~p.good THEN Return("schema")
          ELSE IF Sid(cache', frame.space) = NoId THEN Return("exception")
          ELSE Resolved(Sid(cache', frame.space))
    BY <1>5 DEF SpaceAnswer
  <2>2. CASE Resolved(Sid(cache', frame.space))
    BY <1>5, <2>2, StepsOfValues DEF SpaceAnswer, Resolved, Goto, StepsLeft
  <2>3. CASE Return("schema") \/ Return("exception")
    BY <1>5, <2>3, ReturnNearer DEF SpaceAnswer
  <2> QED BY <2>1, <2>2, <2>3
<1>6. CASE IndexKnown
  BY <1>6, StepsOfValues DEF IndexKnown, Goto, StepsLeft
<1>7. CASE IndexLookup
  <2>1. CASE Return("silent")
    BY <1>7, <2>1, ReturnNearer DEF IndexLookup
  <2>2. CASE Goto("index_recv")
    BY <1>7, <2>2, StepsOfValues DEF IndexLookup, Goto, StepsLeft
  <2> QED BY <1>7, <2>1, <2>2 DEF IndexLookup, SendLookup
<1>8. CASE IndexAnswer
  <2>1. PICK p \in ParsedIndexes(Head(inbox).to) :
          IF ~p.good THEN Return("schema")
          ELSE IF Iid(cache', frame.space, frame.index) = NoId
          THEN Return("exception")
          ELSE Goto("request") /\ UNCHANGED frame
    BY <1>8 DEF IndexAnswer
  <2>2. CASE Goto("request")
    BY <1>8, <2>2, StepsOfValues DEF IndexAnswer, Goto, StepsLeft
  <2>3. CASE Return("schema") \/ Return("exception")
    BY <1>8, <2>3, ReturnNearer DEF IndexAnswer
  <2> QED BY <2>1, <2>2, <2>3
<1>9. CASE BadArguments
  BY <1>9, ReturnNearer DEF BadArguments
<1>10. CASE SendRequest
  <2>1. CASE Return("silent")
    BY <1>10, <2>1, ReturnNearer DEF SendRequest
  <2>2. CASE Goto("recv")
    BY <1>10, <2>2, StepsOfValues DEF SendRequest, Goto, StepsLeft
  <2> QED BY <1>10, <2>1, <2>2 DEF SendRequest
<1> QED BY <1>1, <1>2, <1>3, <1>4, <1>5, <1>6, <1>7, <1>8, <1>9, <1>10

LEMMA RecvNearer ==
    ASSUME Typed, RecvCloses \/ RecvKeeps \/ RecvRefused \/ RecvOk
    PROVE  StepsLeft' < StepsLeft
<1>1. pc = "recv" /\ \E r \in Results : Return(r)
  BY DEF RecvCloses, RecvKeeps, RecvRefused, RecvOk, Received, Results
<1> QED BY <1>1, ReturnNearer

\* A method takes a bounded number of steps of its own, for every
\* bee.retry_count, whatever the server does.
THEOREM MethodsBounded == Spec => []StepsInRange
<1>1. Spec => []Typed
  BY InitTyped, NextTyped, PTL DEF Spec
<1> QED BY <1>1, TypedStepsInRange, PTL

\* Every step of the client brings the running method nearer to its end: no
\* path through connecting, authenticating, the lookups and their failures
\* comes back to where it was.  What is left of CallReturns is that a method
\* which has not returned can take a step.
THEOREM AlwaysNearer == Spec => ComesNearer
<1>1. Spec => []Typed
  BY InitTyped, NextTyped, PTL DEF Spec
<1>2. Typed /\ [Next]_vars => [Client => StepsLeft' < StepsLeft]_vars
  BY ConnectingNearer, AuthNearer, BodyNearer, RecvNearer DEF Client
<1> QED BY <1>1, <1>2, PTL DEF Spec, ComesNearer

-----------------------------------------------------------------------------
(* What the sync numbers are good for: a request succeeds with its own     *)
(* answer, and none is sent again once a write of it has succeeded.        *)

\* sync_counter is above every number it has given out; while a method waits
\* for an answer, the newest number is its own; what is still in the buffer
\* was in no write that succeeded.
SyncInv ==
    /\ Out \subseteq Request
    /\ \A q \in Out : q.sync < sync
    /\ pc = "recv" =>
          /\ frame.own \in Request /\ frame.own.sync = sync - 1
          /\ \A q \in Out : q.sync = sync - 1 => q = frame.own
    /\ \A s \in written : s < sync
    /\ \A q \in Range(wbuf) : q.sync < sync /\ q.sync \notin written

\* A result is there only once the method has returned.
Running == pc # "idle" => result = "running"

Inv == Typed /\ Running /\ SyncInv

-----------------------------------------------------------------------------
(* What is left of the inbox holds no answer it did not hold before.       *)

LEMMA TailAnswers ==
    ASSUME NEW b \in Seq(Message), b # <<>>
    PROVE  Tail(b) \in Seq(Message) /\ Answers(Tail(b)) \subseteq Answers(b)
<1>1. Tail(b) \in Seq(Message) /\ DOMAIN Tail(b) = 1..Len(b) - 1
  OBVIOUS
<1>2. ASSUME NEW i \in DOMAIN Tail(b)
      PROVE  i + 1 \in DOMAIN b /\ Tail(b)[i] = b[i + 1]
  BY <1>1
<1> QED BY <1>1, <1>2 DEF Answers

LEMMA CutAnswers ==
    ASSUME NEW b \in Seq(Message), NEW c \in Cut(b)
    PROVE  Answers(c) \subseteq Answers(b)
<1>1. CASE c = b
  BY <1>1
<1>2. CASE b # <<>> /\ c = <<Junk>> \o Tail(b)
  <2>1. Tail(b) \in Seq(Message) /\ DOMAIN Tail(b) = 1..Len(b) - 1
    BY <1>2
  <2>2. Junk \in Message /\ Junk.part # "answer"
    BY DEF Junk, Message, Part
  <2>3. ASSUME NEW i \in DOMAIN c, c[i].part = "answer"
        PROVE  i \in DOMAIN b /\ c[i] = b[i]
    <3>1. DOMAIN c = 1..Len(b) /\ c[1] = Junk
      BY <1>2, <2>1, <2>2
    <3>2. i # 1
      BY <2>2, <2>3, <3>1
    <3>3. i - 1 \in DOMAIN Tail(b) /\ c[i] = Tail(b)[i - 1]
      BY <1>2, <2>1, <2>2, <3>1, <3>2
    <3> QED BY <1>2, <3>1, <3>3
  <2> QED BY <2>3 DEF Answers
<1> QED BY <1>1, <1>2 DEF Cut

LEMMA RestAnswers ==
    ASSUME NEW b \in Seq(Message), NEW c \in Rest(b)
    PROVE  Answers(c) \subseteq Answers(b)
<1>1. PICK k \in 1..Len(b) + 1 : c \in Cut(SubSeq(b, k, Len(b)))
  BY DEF Rest
<1> DEFINE d == SubSeq(b, k, Len(b))
<1>2. d \in Seq(Message)
  BY <1>1
<1>3. Answers(c) \subseteq Answers(d)
  BY <1>1, <1>2, CutAnswers
<1>4. ASSUME NEW i \in DOMAIN d
      PROVE  k + i - 1 \in DOMAIN b /\ d[i] = b[k + i - 1]
  BY <1>1, <1>4
<1>5. Answers(d) \subseteq Answers(b)
  <2> HIDE DEF d
  <2> QED BY <1>4 DEF Answers
<1> QED BY <1>3, <1>5

LEMMA AppendAnswers ==
    ASSUME NEW b \in Seq(Message), NEW q \in Request, NEW ok \in BOOLEAN
    PROVE  Answers(Append(b, Answer(q, ok))) \subseteq Answers(b) \cup {q}
<1> DEFINE m == Answer(q, ok)
           c == Append(b, m)
<1>1. m \in Message /\ m.to = q
  BY DEF Answer, Message, Part
<1> HIDE DEF m
<1>2. DOMAIN c = 1..Len(b) + 1 /\ c[Len(b) + 1] = m
  BY <1>1
<1>3. ASSUME NEW i \in DOMAIN c, i # Len(b) + 1
      PROVE  i \in DOMAIN b /\ c[i] = b[i]
  BY <1>1, <1>2, <1>3
<1> HIDE DEF c
<1>4. Answers(c) \subseteq Answers(b) \cup {q}
  BY <1>1, <1>2, <1>3 DEF Answers
<1> QED BY <1>4 DEF c, m

LEMMA NoAnswers == Answers(<<>>) = {} /\ Answers(<<Greeting>>) = {}
BY DEF Answers, Greeting

LEMMA JunkAnswers ==
    ASSUME NEW b \in Seq(Message)
    PROVE  Answers(Append(b, Junk)) \subseteq Answers(b)
<1>1. Junk \in Message /\ Junk.part # "answer"
  BY DEF Junk, Message, Part
<1>2. \A i \in DOMAIN Append(b, Junk) :
         \/ Append(b, Junk)[i] = Junk
         \/ i \in DOMAIN b /\ Append(b, Junk)[i] = b[i]
  BY <1>1
<1> QED BY <1>1, <1>2 DEF Answers

LEMMA ReadAnswers ==
    ASSUME Typed, ShortRead \/ GarbageRead \/ WholeRead
    PROVE  Out' \subseteq Out
<1>1. inbox \in Seq(Message)
  BY DEF Typed, NetOK
<1>2. todo' = todo
  BY DEF ShortRead, GarbageRead, WholeRead
<1>3. Answers(inbox') \subseteq Answers(inbox)
  <2>1. CASE ShortRead
    BY <1>1, <2>1, CutAnswers, RestAnswers DEF ShortRead
  <2>2. CASE GarbageRead
    BY <1>1, <2>2, RestAnswers DEF GarbageRead
  <2>3. CASE WholeRead
    BY <1>1, <2>3, TailAnswers DEF WholeRead, Aligned
  <2> QED BY <2>1, <2>2, <2>3
<1> QED BY <1>2, <1>3 DEF Out

\* A remainder is no larger than the number.
LEMMA WireBound == ASSUME NEW s \in Nat PROVE Wire(s) \in Nat /\ Wire(s) <= s
<1>1. CASE s < SyncWidth
  BY <1>1 DEF Wire
<1>2. CASE ~(s < SyncWidth)
  <2>1. s % SyncWidth \in 0..SyncWidth - 1
    BY WidthAssumption
  <2> QED BY <1>2, <2>1, WidthAssumption DEF Wire
<1> QED BY <1>1, <1>2

-----------------------------------------------------------------------------
(* The invariant.  A step either sends, and then it numbers what it sends, *)
(* or it only takes away from what is outstanding.                         *)

Quiet ==
    /\ sync' = sync /\ written' = written /\ Range(wbuf') \subseteq Range(wbuf)
    /\ Out' \subseteq Out

LEMMA QuietSync ==
    ASSUME SyncInv, Quiet, pc' # "recv" \/ (pc' = pc /\ frame' = frame)
    PROVE  SyncInv'
BY DEF SyncInv, Quiet

\* Requests with numbers from sync on, written or kept in the buffer.
LEMMA SendSync ==
    ASSUME Inv, NEW reqs \in Seq(Request), NEW n \in Nat, n >= sync, sync' = n,
           \A q \in Range(reqs) : q.sync < n /\ q.sync \notin written,
           SendSucceeds(reqs) \/ SendFails(reqs)
    PROVE  /\ Out' \subseteq Out \cup Range(reqs)
           /\ pc' # "recv" => SyncInv'
<1>n. sync \in Nat /\ \A s \in written : s \in Nat
  BY DEF Inv, Typed, ObjectOK, WrittenOK
<1>r. Range(reqs) \subseteq Request
  BY DEF Range
<1>o. \A q \in Out : q \in Request /\ q.sync \in Nat
  BY DEF Inv, SyncInv, Request
<1>1. Out' \subseteq Out \cup Range(reqs)
  <2>1. Range(todo') \subseteq Range(todo) \cup Range(reqs)
    BY SendRange DEF Inv, Typed, NetOK
  <2>2. inbox' = inbox
    BY DEF SendSucceeds, SendFails
  <2> QED BY <2>1, <2>2 DEF Out
<1>2. \A q \in Out' : q \in Request /\ q.sync < sync'
  BY <1>1, <1>n, <1>r, <1>o DEF Inv, SyncInv
<1>3. CASE SendSucceeds(reqs)
  <2>1. \A s \in written' : s < sync'
    BY <1>3, <1>n DEF SendSucceeds, Inv, SyncInv
  <2>2. Range(wbuf') = {}
    BY <1>3, EmptyBuffer DEF SendSucceeds
  <2> QED BY <1>1, <1>2, <2>1, <2>2 DEF SyncInv
<1>4. CASE SendFails(reqs)
  <2>1. \A s \in written' : s < sync'
    BY <1>4, <1>n DEF SendFails, Inv, SyncInv
  <2>2. wbuf' = reqs /\ written' = written
    BY <1>4 DEF SendFails
  <2> QED BY <1>1, <1>2, <2>1, <2>2 DEF SyncInv
<1> QED BY <1>3, <1>4

LEMMA InitSync == Init => SyncInv
BY NoAnswers, EmptyBuffer DEF Init, SyncInv, Out

LEMMA ScriptQuiet == ASSUME Inv, Script PROVE Quiet /\ pc' # "recv"
<1>1. pc' # "recv" /\ sync' = sync /\ wbuf' = wbuf /\ written' = written
  <2>1. CASE Ping \/ CallProc \/ Eval \/ Insert \/ Replace \/ Upsert
               \/ Delete \/ Select \/ Update
    BY <2>1 DEF Ping, CallProc, Eval, Insert, Replace, Upsert, Delete, Select,
                Update, StartRequest, object
  <2>2. CASE Authenticate \/ Connect \/ Reconnect \/ FlushSchema \/ CloseMethod
    BY <2>2 DEF Authenticate, Connect, Reconnect, FlushSchema, CloseMethod,
                Opening, Return, object
  <2> QED BY <2>1, <2>2 DEF Script
<1>2. Out' \subseteq Out
  <2>1. CASE Ping \/ CallProc \/ Eval \/ Insert \/ Replace \/ Upsert
               \/ Delete \/ Select \/ Update
    BY <2>1 DEF Ping, CallProc, Eval, Insert, Replace, Upsert, Delete, Select,
                Update, StartRequest, net, Out
  <2>2. CASE Authenticate \/ Connect \/ FlushSchema \/ CloseMethod
    BY <2>2 DEF Authenticate, Connect, FlushSchema, CloseMethod, net, Out
  <2>3. CASE Reconnect
    BY <2>3, NoAnswers, EmptyBuffer DEF Reconnect, Close, Out
  <2> QED BY <2>1, <2>2, <2>3 DEF Script
<1> QED BY <1>1, <1>2 DEF Quiet

LEMMA ServerQuiet == ASSUME Inv, Server PROVE Quiet /\ UNCHANGED <<pc, frame>>
<1>1. UNCHANGED <<pc, frame, sync, wbuf, written>>
  BY DEF Server, ServerAnswers, ServerLeaves, method, object
<1>2. Out' \subseteq Out
  <2>1. CASE ServerAnswers
    <3>1. PICK i \in DOMAIN todo, ok \in BOOLEAN :
             inbox' = Append(inbox, Answer(todo[i], ok)) /\ todo' = RemoveAt(todo, i)
      BY <2>1 DEF ServerAnswers
    <3>2. inbox \in Seq(Message) /\ todo \in Seq(Request) /\ todo[i] \in Request
      BY <3>1, Removed DEF Inv, Typed, NetOK
    <3>3. Answers(inbox') \subseteq Answers(inbox) \cup {todo[i]}
      BY <3>1, <3>2, AppendAnswers
    <3>4. Range(todo') \subseteq Range(todo) /\ todo[i] \in Range(todo)
      <4>1. \A j \in DOMAIN todo' :
               \/ j \in DOMAIN todo /\ todo'[j] = todo[j]
               \/ j + 1 \in DOMAIN todo /\ todo'[j] = todo[j + 1]
        BY <3>1, <3>2, Removed
      <4> QED BY <3>1, <4>1 DEF Range
    <3> QED BY <3>3, <3>4 DEF Out
  <2>2. CASE ServerLeaves
    <3>1. inbox \in Seq(Message)
      BY DEF Inv, Typed, NetOK
    <3>2. Answers(inbox') \subseteq Answers(inbox)
      BY <2>2, <3>1, JunkAnswers DEF ServerLeaves
    <3>3. Range(todo') = {}
      BY <2>2, EmptyBuffer DEF ServerLeaves
    <3> QED BY <3>2, <3>3 DEF Out
  <2> QED BY <2>1, <2>2 DEF Server
<1> QED BY <1>1, <1>2 DEF Quiet

LEMMA ConnectingQuiet ==
    ASSUME Inv,
           Demand \/ EofSeen \/ EofNotSeen \/ OpenFails \/ RetrySleep
             \/ OpenSucceeds \/ ReadGreeting
    PROVE  Quiet /\ pc' # "recv"
<1>1. sync' = sync /\ wbuf' = wbuf /\ written' = written
  BY DEF Demand, EofSeen, EofNotSeen, OpenFails, RetrySleep,
         OpenSucceeds, ReadGreeting, object
<1>2. pc' # "recv"
  <2>1. CASE Demand \/ EofSeen \/ EofNotSeen \/ OpenFails \/ RetrySleep
               \/ OpenSucceeds
    BY <2>1 DEF Demand, EofSeen, EofNotSeen, OpenFails, RetrySleep,
       OpenSucceeds, Opening,
                Return, Goto
  <2>2. CASE ReadGreeting
    <3>1. frame.then \in Returns
      BY DEF Inv, Typed, MethodOK, Frame
    <3> QED BY <2>2, <3>1 DEF ReadGreeting, Connected, Return, Goto, Returns
  <2> QED BY <2>1, <2>2
<1>3. Out' \subseteq Out
  <2>1. CASE Demand \/ EofNotSeen \/ OpenFails \/ RetrySleep
    BY <2>1 DEF Demand, EofNotSeen, OpenFails, RetrySleep, net, Out
  <2>2. CASE EofSeen \/ OpenSucceeds
    BY <2>2, NoAnswers, EmptyBuffer DEF EofSeen, Close, OpenSucceeds, Out
  <2>3. CASE ReadGreeting
    <3>1. inbox \in Seq(Message)
      BY DEF Inv, Typed, NetOK
    <3> QED BY <2>3, <3>1, TailAnswers, CutAnswers DEF ReadGreeting, Out
  <2> QED BY <2>1, <2>2, <2>3
<1> QED BY <1>1, <1>2, <1>3 DEF Quiet

LEMMA AuthSendSync == ASSUME Inv, AuthSend PROVE SyncInv'
<1>1. sync \in Nat /\ \A s \in written : s < sync
  BY DEF Inv, SyncInv, Typed, ObjectOK
<1>2. /\ Ask(sync, "auth") \in Request
      /\ Ask(sync + 1, "spaces") \in Request
      /\ Ask(sync + 2, "indexes") \in Request
  BY <1>1 DEF Ask, Req, Request, Kinds
<1>3. /\ AuthBatch \in Seq(Request)
      /\ Range(AuthBatch) = {Ask(sync, "auth"), Ask(sync + 1, "spaces"),
                             Ask(sync + 2, "indexes")}
  BY <1>2 DEF AuthBatch, Range
<1>4. \A q \in Range(AuthBatch) : q.sync \in {sync, sync + 1, sync + 2}
  BY <1>3 DEF Ask, Req
<1>5. \A q \in Range(AuthBatch) : q.sync < sync + 3 /\ q.sync \notin written
  BY <1>1, <1>4
<1>6. pc' # "recv" /\ sync' = sync + 3
  BY DEF AuthSend, Goto, Return
<1>7. sync + 3 \in Nat /\ sync + 3 >= sync
  BY <1>1
<1>8. SendSucceeds(AuthBatch) \/ SendFails(AuthBatch)
  BY DEF AuthSend
<1> QED BY <1>3, <1>5, <1>6, <1>7, <1>8, SendSync

LEMMA AuthQuiet ==
    ASSUME Inv,
           AuthShortRead \/ AuthGarbage \/ AuthNoRows \/ AuthSpaces \/ AuthIndexes
    PROVE  Quiet /\ pc' # "recv"
<1>1. sync' = sync /\ wbuf' = wbuf /\ written' = written
  BY DEF AuthShortRead, AuthGarbage, AuthNoRows, AuthSpaces, AuthIndexes, object
<1>2. Out' \subseteq Out
  BY ReadAnswers DEF Inv, AuthShortRead, AuthGarbage, AuthNoRows, AuthSpaces,
                     AuthIndexes
<1>3. pc' # "recv"
  <2>1. ASSUME NEW ok, NextAnswer(ok) PROVE pc' # "recv"
    <3>1. frame.then \in Returns
      BY DEF Inv, Typed, MethodOK, Frame
    <3> QED BY <2>1, <3>1 DEF NextAnswer, Connected, Goto, Return, Returns
  <2> QED BY <2>1 DEF AuthShortRead, AuthGarbage, AuthNoRows, AuthSpaces,
                      AuthIndexes, Return
<1> QED BY <1>1, <1>2, <1>3 DEF Quiet

LEMMA LookupSync ==
    ASSUME Inv, NEW q \in Request, q.sync = sync,
           NEW step \in {"space_recv", "index_recv"}, SendLookup(q, step)
    PROVE  SyncInv'
<1>1. sync \in Nat /\ \A s \in written : s < sync
  BY DEF Inv, SyncInv, Typed, ObjectOK
<1>2. <<q>> \in Seq(Request) /\ Range(<<q>>) = {q}
  BY DEF Range
<1>3. pc' # "recv" /\ sync' = sync + 1
  BY DEF SendLookup, Goto, Return
<1>4. sync + 1 \in Nat /\ sync + 1 >= sync
  BY <1>1
<1>5. \A r \in Range(<<q>>) : r.sync < sync + 1 /\ r.sync \notin written
  BY <1>1, <1>2
<1>6. SendSucceeds(<<q>>) \/ SendFails(<<q>>)
  BY DEF SendLookup
<1> QED BY <1>2, <1>3, <1>4, <1>5, <1>6, SendSync

LEMMA SendRequestSync == ASSUME Inv, SendRequest PROVE SyncInv'
<1> DEFINE q == Req(sync, "data", frame.space, None)
           reqs == Append(wbuf, q)
<1>1. /\ sync \in Nat /\ wbuf \in Seq(Request)
      /\ \A s \in written : s < sync
      /\ \A r \in Range(wbuf) : r.sync < sync /\ r.sync \notin written
  BY DEF Inv, SyncInv, Typed, ObjectOK
<1>2. q \in Request /\ q.sync = sync
  BY <1>1 DEF SendRequest, Req, Request, Kinds, Inv, Typed, MethodOK, LocalOK
<1>a. \/ /\ SendSucceeds(reqs)
         /\ Goto("recv") /\ frame' = [frame EXCEPT !.own = q]
      \/ SendFails(reqs) /\ Return("silent")
  BY DEF SendRequest
<1>s. sync' = sync + 1
  BY DEF SendRequest
<1> HIDE DEF q
<1>3. reqs \in Seq(Request) /\ Range(reqs) = Range(wbuf) \cup {q}
  <2>1. reqs \in Seq(Request) /\ DOMAIN reqs = 1..Len(wbuf) + 1
    BY <1>1, <1>2
  <2>2. \A i \in DOMAIN wbuf : i \in DOMAIN reqs /\ reqs[i] = wbuf[i]
    BY <1>1, <1>2
  <2>3. \A i \in DOMAIN reqs : i \in DOMAIN wbuf \/ reqs[i] = q
    BY <1>1, <1>2
  <2>4. Len(wbuf) + 1 \in DOMAIN reqs /\ reqs[Len(wbuf) + 1] = q
    BY <1>1, <1>2
  <2> HIDE DEF reqs
  <2> QED BY <2>1, <2>2, <2>3, <2>4 DEF Range
<1> HIDE DEF reqs
<1>4. \A r \in Range(wbuf) : r \in Request /\ r.sync \in Nat
  <2>1. \A i \in DOMAIN wbuf : wbuf[i] \in Request
    BY <1>1
  <2>2. \A r \in Request : r.sync \in Nat
    BY DEF Request
  <2> QED BY <2>1, <2>2 DEF Range
<1>5. \A r \in Range(reqs) : r.sync < sync + 1 /\ r.sync \notin written
  BY <1>1, <1>2, <1>3, <1>4
<1>6. sync + 1 \in Nat /\ sync + 1 >= sync
  BY <1>1
<1>7. Out' \subseteq Out \cup Range(reqs) /\ (pc' # "recv" => SyncInv')
  BY <1>3, <1>5, <1>6, <1>a, <1>s, SendSync
<1>8. CASE SendSucceeds(reqs) /\ Goto("recv") /\ frame' = [frame EXCEPT !.own = q]
  <2>1. frame'.own = q
    BY <1>8 DEF Inv, Typed, MethodOK, Frame
  <2>2. \A r \in Out : r \in Request /\ r.sync < sync /\ r.sync \in Nat
    BY DEF Inv, SyncInv, Request
  <2>3. \A r \in Out' : r \in Request /\ r.sync < sync'
                         /\ (r.sync = sync' - 1 => r = q)
    BY <1>1, <1>2, <1>3, <1>4, <1>s, <1>7, <2>2
  <2>4. \A s \in written' : s < sync'
    BY <1>8, <1>1, <1>5, <1>s DEF SendSucceeds, Inv, Typed, WrittenOK
  <2>5. Range(wbuf') = {}
    BY <1>8, EmptyBuffer DEF SendSucceeds
  <2>6. sync = sync' - 1
    BY <1>1, <1>s
  <2> QED BY <1>2, <1>7, <2>1, <2>3, <2>4, <2>5, <2>6 DEF SyncInv
<1>9. CASE Return("silent")
  BY <1>7, <1>9 DEF Return
<1> QED BY <1>a, <1>8, <1>9

LEMMA BodyQuiet ==
    ASSUME Inv,
           Dispatch \/ SpaceKnown \/ IndexKnown \/ BadArguments \/ LookupFails
             \/ SpaceAnswer \/ IndexAnswer
    PROVE  Quiet /\ pc' # "recv"
<1>1. CASE Dispatch \/ SpaceKnown \/ IndexKnown \/ BadArguments
  <2>1. UNCHANGED <<sync, wbuf, written>> /\ pc' # "recv"
    BY <1>1 DEF Dispatch, SpaceKnown, IndexKnown, BadArguments, Resolved, Goto,
                Return, object
  <2>2. Out' = Out
    BY <1>1 DEF Dispatch, SpaceKnown, IndexKnown, BadArguments, net, Out
  <2> QED BY <2>1, <2>2 DEF Quiet
<1>2. CASE LookupFails \/ SpaceAnswer \/ IndexAnswer
  <2>1. UNCHANGED <<sync, wbuf, written>> /\ pc' # "recv"
    BY <1>2 DEF LookupFails, SpaceAnswer, IndexAnswer, Resolved, Goto, Return,
                object
  <2>2. Out' \subseteq Out
    BY <1>2, ReadAnswers DEF Inv, LookupFails, SpaceAnswer, IndexAnswer
  <2> QED BY <2>1, <2>2 DEF Quiet
<1> QED BY <1>1, <1>2

LEMMA LookupRequests ==
    ASSUME Inv, SpaceLookup \/ IndexLookup
    PROVE  \E q \in Request, step \in {"space_recv", "index_recv"} :
              /\ q.sync = sync /\ SendLookup(q, step)
              /\ pc \in {"space", "index"}
<1>1. sync \in Nat /\ frame \in Frame /\ LocalOK
  BY DEF Inv, Typed, ObjectOK, MethodOK
<1>2. CASE SpaceLookup
  <2>1. frame.space \in Names
    BY <1>1, <1>2, ArgsAssumption, NumbersAssumption
    DEF SpaceLookup, Sid, NoId, LocalOK
  <2>2. Req(sync, "space", None, frame.space) \in Request
    BY <1>1, <2>1 DEF Req, Request, Kinds
  <2> QED BY <1>2, <2>2 DEF SpaceLookup, Req
<1>3. CASE IndexLookup
  <2>1. Req(sync, "index", frame.space, frame.index) \in Request
    BY <1>1, <1>3 DEF IndexLookup, LocalOK, Req, Request, Kinds
  <2> QED BY <1>3, <2>1 DEF IndexLookup, Req
<1> QED BY <1>2, <1>3

LEMMA LookupsSync == ASSUME Inv, SpaceLookup \/ IndexLookup PROVE SyncInv'
BY LookupRequests, LookupSync

LEMMA RecvQuiet ==
    ASSUME Inv, RecvCloses \/ RecvKeeps \/ RecvRefused \/ RecvOk
    PROVE  Quiet /\ pc' # "recv"
<1>1. sync' = sync /\ written' = written /\ pc' # "recv" /\ wbuf' = <<>>
  BY DEF RecvCloses, RecvKeeps, RecvRefused, RecvOk, Received, Return
<1>2. inbox \in Seq(Message)
  BY DEF Inv, Typed, NetOK
<1>3. Out' \subseteq Out
  <2>1. CASE RecvCloses
    BY <2>1, NoAnswers, EmptyBuffer DEF RecvCloses, Close, Out
  <2>2. CASE RecvKeeps
    <3>1. inbox' \in Cut(inbox) \/ inbox' \in Rest(inbox)
      BY <2>2 DEF RecvKeeps, Aligned, Cut
    <3> QED BY <2>2, <3>1, <1>2, CutAnswers, RestAnswers DEF RecvKeeps, Out
  <2>3. CASE RecvRefused \/ RecvOk
    BY <2>3, ReadAnswers DEF Inv, RecvRefused, RecvOk
  <2> QED BY <2>1, <2>2, <2>3
<1> QED BY <1>1, <1>3, EmptyBuffer DEF Quiet

LEMMA NextRunning == Running /\ [Next]_vars => Running'
<1> SUFFICES ASSUME Running, [Next]_vars PROVE Running'
  OBVIOUS
<1>1. ASSUME NEW r, Return(r) PROVE Running'
  BY <1>1 DEF Return, Running
<1>2. ASSUME pc # "idle", UNCHANGED result PROVE Running'
  BY <1>2 DEF Running
<1>3. CASE Script
  <2>1. CASE Ping \/ CallProc \/ Eval \/ Insert \/ Replace \/ Upsert
               \/ Delete \/ Select \/ Update
    BY <2>1 DEF Ping, CallProc, Eval, Insert, Replace, Upsert, Delete, Select,
                Update, StartRequest, Running
  <2>2. CASE Authenticate \/ Connect \/ Reconnect \/ FlushSchema \/ CloseMethod
    BY <2>2, <1>1 DEF Authenticate, Connect, Reconnect, FlushSchema,
                      CloseMethod, Running
  <2> QED BY <1>3, <2>1, <2>2 DEF Script
<1>4. CASE Client
  <2>1. CASE Demand \/ EofSeen \/ EofNotSeen \/ OpenFails \/ RetrySleep
               \/ OpenSucceeds \/ ReadGreeting
    BY <2>1, <1>1, <1>2 DEF Demand, EofSeen, EofNotSeen, OpenFails,
       RetrySleep, OpenSucceeds, ReadGreeting, Connected, Goto
  <2>2. CASE AuthSend \/ AuthShortRead \/ AuthGarbage \/ AuthNoRows
               \/ AuthSpaces \/ AuthIndexes
    <3>1. ASSUME pc = "auth_recv", NEW ok, NextAnswer(ok) PROVE Running'
      BY <3>1, <1>1, <1>2 DEF NextAnswer, Connected, Goto
    <3> QED BY <2>2, <3>1, <1>1, <1>2 DEF AuthSend, AuthShortRead, AuthGarbage,
               AuthNoRows, AuthSpaces, AuthIndexes, Goto
  <2>3. CASE Dispatch \/ SpaceKnown \/ SpaceLookup \/ LookupFails
               \/ SpaceAnswer \/ IndexKnown \/ IndexLookup \/ IndexAnswer
               \/ BadArguments \/ SendRequest
    BY <2>3, <1>1, <1>2 DEF Dispatch, SpaceKnown, SpaceLookup, SendLookup,
       LookupFails, SpaceAnswer, IndexKnown, IndexLookup, IndexAnswer,
       BadArguments, SendRequest, Resolved, Goto
  <2>4. CASE RecvCloses \/ RecvKeeps \/ RecvRefused \/ RecvOk
    BY <2>4, <1>1 DEF RecvCloses, RecvKeeps, RecvRefused, RecvOk, Received
  <2> QED BY <1>4, <2>1, <2>2, <2>3, <2>4 DEF Client
<1>5. CASE Server \/ UNCHANGED vars
  BY <1>5 DEF Server, ServerAnswers, ServerLeaves, vars, method, Running
<1> QED BY <1>3, <1>4, <1>5 DEF Next

LEMMA NextSync == Inv /\ [Next]_vars => Inv'
<1> SUFFICES ASSUME Inv, [Next]_vars PROVE Inv'
  OBVIOUS
<1>1. Typed' /\ Running'
  BY NextTyped, NextRunning DEF Inv
<1>2. CASE UNCHANGED vars
  <2>1. UNCHANGED <<pc, frame, sync, wbuf, todo, inbox, written>>
    BY <1>2 DEF vars, method, object, net
  <2> QED BY <1>1, <2>1, QuietSync DEF Inv, Out, Quiet
<1>3. CASE AuthSend \/ SpaceLookup \/ IndexLookup \/ SendRequest
  BY <1>1, <1>3, AuthSendSync, LookupsSync, SendRequestSync DEF Inv
<1>4. CASE Client /\ ~AuthSend /\ ~SpaceLookup /\ ~IndexLookup /\ ~SendRequest
  BY <1>1, <1>4, ConnectingQuiet, AuthQuiet, BodyQuiet, RecvQuiet, QuietSync
  DEF Client, Inv
<1>5. CASE Script \/ Server
  BY <1>1, <1>5, ScriptQuiet, ServerQuiet, QuietSync DEF Inv
<1> QED BY <1>1, <1>2, <1>3, <1>4, <1>5 DEF Next

LEMMA InvHolds == Spec => []Inv
<1>1. Init => Inv
  <2>1. Init => Running
    BY DEF Init, Running
  <2> QED BY <2>1, InitTyped, InitSync DEF Inv
<1> QED BY <1>1, NextSync, PTL DEF Spec

-----------------------------------------------------------------------------
(* Theorems.                                                               *)

\* An answer is accepted only if its number is the method's own, and then it
\* is the answer to the method's own request: no other request that could
\* still be answered here has that number, even where the wire truncates it.
LEMMA OwnAnswerStep ==
    Inv /\ [Next]_vars
      => (pc = "recv" /\ result' = "true" => Head(inbox).to = frame.own)
<1> SUFFICES ASSUME Inv, [Next]_vars, pc = "recv", result' = "true"
             PROVE  Head(inbox).to = frame.own
  OBVIOUS
<1>1. CASE RecvOk
  <2>1. inbox \in Seq(Message) /\ inbox # <<>> /\ inbox[1].part = "answer"
    BY <1>1 DEF RecvOk, WholeRead, Aligned, Inv, Typed, NetOK
  <2>2. 1 \in DOMAIN inbox /\ Head(inbox) = inbox[1]
    BY <2>1
  <2>3. Head(inbox).to \in Out
    BY <2>1, <2>2 DEF Out, Answers
  <2>4. /\ Head(inbox).to \in Request
        /\ Head(inbox).to.sync \in Nat
        /\ Head(inbox).to.sync < sync
    BY <2>3 DEF Inv, SyncInv, Request
  <2>5. Wire(Head(inbox).to.sync) = sync - 1
    BY <1>1 DEF RecvOk, RecvWire, Inv, SyncInv
  <2>6. sync \in Nat
    BY DEF Inv, Typed, ObjectOK
  <2>7. Head(inbox).to.sync = sync - 1
    BY <2>4, <2>5, <2>6, WireBound
  <2> QED BY <2>3, <2>7 DEF Inv, SyncInv
<1>2. CASE RecvCloses \/ RecvKeeps \/ RecvRefused
  BY <1>2 DEF RecvCloses, RecvKeeps, RecvRefused, Received, Return
<1>3. CASE Server \/ UNCHANGED vars
  BY <1>3 DEF Server, ServerAnswers, ServerLeaves, vars, method, Inv, Running
<1>4. pc \notin {"idle", "demand", "eof", "open", "sleep", "greet", "auth", "auth_recv",
                 "method", "space", "space_recv", "index", "index_recv", "request"}
  OBVIOUS
<1>5. ~Script
  BY <1>4 DEF Script, Ping, CallProc, Eval, Insert, Replace, Upsert, Delete,
     Select, Update, Authenticate, Connect, Reconnect, FlushSchema,
     CloseMethod, StartRequest, MayStart
<1>6. Client => RecvCloses \/ RecvKeeps \/ RecvRefused \/ RecvOk
  BY <1>4 DEF Client, Demand, EofSeen, EofNotSeen, OpenFails, RetrySleep,
     OpenSucceeds,
     ReadGreeting, AuthSend, AuthShortRead, AuthGarbage, AuthNoRows, AuthSpaces,
     AuthIndexes, Dispatch, SpaceKnown, SpaceLookup, LookupFails, SpaceAnswer,
     IndexKnown, IndexLookup, IndexAnswer, BadArguments, SendRequest
<1> QED BY <1>1, <1>2, <1>3, <1>5, <1>6 DEF Next

\* Every request method that succeeds does so with its own answer, whatever
\* was left on the stream and whatever the width of the sync field.
THEOREM OwnAnswerHolds == Spec => OwnAnswer
<1>1. Inv /\ [Next]_vars
        => [pc = "recv" /\ result' = "true" => Head(inbox).to = frame.own]_vars
  BY OwnAnswerStep
<1> QED BY <1>1, InvHolds, PTL DEF Spec, OwnAnswer

\* What a step adds to the requests the server has received was not written
\* before: it is numbered now, or was kept after a write that failed.
LEMMA NotSentAgainStep ==
    Inv /\ [Next]_vars
      => \A i \in Len(todo) + 1..Len(todo') : todo'[i].sync \notin written
<1> SUFFICES ASSUME Inv, [Next]_vars, NEW i \in Len(todo) + 1..Len(todo')
             PROVE  todo'[i].sync \notin written
  OBVIOUS
<1>1. /\ sync \in Nat /\ wbuf \in Seq(Request) /\ \A s \in written : s < sync
      /\ todo \in Seq(Request) /\ torn \in BOOLEAN /\ Len(todo) \in Nat
  BY DEF Inv, SyncInv, Typed, ObjectOK, NetOK
<1>2. ASSUME NEW reqs \in Seq(Request), SendSucceeds(reqs) \/ SendFails(reqs)
      PROVE  todo'[i] \in Range(reqs)
  <2>1. PICK k \in Nat, got \in Seq(Request) :
           Run(got, reqs, k) /\ todo' = todo \o got
    BY <1>1, <1>2, SendRun
  <2>2. i \in DOMAIN (todo \o got) /\ i \notin DOMAIN todo
    BY <1>1, <2>1, Concatenated
  <2>3. i - Len(todo) \in DOMAIN got /\ todo'[i] = got[i - Len(todo)]
    BY <1>1, <2>1, <2>2, Concatenated
  <2>4. todo'[i] \in Range(got)
    BY <2>3 DEF Range
  <2> QED BY <2>1, <2>4, RunRange
<1>3. CASE AuthSend
  <2>1. /\ Ask(sync, "auth") \in Request
        /\ Ask(sync + 1, "spaces") \in Request
        /\ Ask(sync + 2, "indexes") \in Request
    BY <1>1 DEF Ask, Req, Request, Kinds
  <2>2. /\ AuthBatch \in Seq(Request)
        /\ Range(AuthBatch) = {Ask(sync, "auth"), Ask(sync + 1, "spaces"),
                               Ask(sync + 2, "indexes")}
    BY <2>1 DEF AuthBatch, Range
  <2>3. todo'[i] \in Range(AuthBatch)
    BY <1>2, <1>3, <2>2 DEF AuthSend
  <2>4. todo'[i].sync \in {sync, sync + 1, sync + 2}
    BY <2>2, <2>3 DEF Ask, Req
  <2> QED BY <1>1, <2>4
<1>4. ASSUME NEW q \in Request, q.sync = sync, NEW step, SendLookup(q, step)
      PROVE  todo'[i].sync \notin written
  <2>1. <<q>> \in Seq(Request) /\ Range(<<q>>) = {q}
    BY DEF Range
  <2>2. todo'[i] = q
    BY <1>2, <1>4, <2>1 DEF SendLookup
  <2> QED BY <1>1, <1>4, <2>2
<1>5. CASE SpaceLookup \/ IndexLookup
  BY <1>1, <1>4, <1>5, LookupRequests
<1>6. CASE SendRequest
  <2> DEFINE own == Req(sync, "data", frame.space, None)
  <2>1. own \in Request /\ own.sync = sync
    BY <1>1, <1>6 DEF SendRequest, Req, Request, Kinds, Inv, Typed, MethodOK, LocalOK
  <2>2. SendSucceeds(Append(wbuf, own)) \/ SendFails(Append(wbuf, own))
    BY <1>6 DEF SendRequest
  <2> HIDE DEF own
  <2>3. Append(wbuf, own) \in Seq(Request)
    BY <1>1, <2>1
  <2>4. todo'[i] \in Range(Append(wbuf, own))
    BY <1>2, <2>2, <2>3
  <2>5. todo'[i] \in Range(wbuf) \/ todo'[i] = own
    BY <1>1, <2>4 DEF Range
  <2> QED BY <1>1, <2>1, <2>5 DEF Inv, SyncInv
<1>7. ASSUME todo' = todo \/ todo' = <<>> \/ Len(todo') = Len(todo) - 1 PROVE FALSE
  BY <1>1, <1>7
<1>8. ~Script
  BY <1>7 DEF Script, Ping, CallProc, Eval, Insert, Replace, Upsert, Delete,
     Select, Update, Authenticate, Connect, Reconnect, FlushSchema,
     CloseMethod, StartRequest, net, Close
<1>9. Client => AuthSend \/ SpaceLookup \/ IndexLookup \/ SendRequest
  BY <1>7 DEF Client, Demand, EofSeen, EofNotSeen, OpenFails, RetrySleep,
     OpenSucceeds,
     ReadGreeting, AuthShortRead, AuthGarbage, AuthNoRows, AuthSpaces,
     AuthIndexes, Dispatch, SpaceKnown, LookupFails, SpaceAnswer,
     IndexKnown, IndexAnswer, BadArguments, RecvCloses, RecvKeeps, RecvRefused,
     RecvOk, ShortRead, GarbageRead, WholeRead, Close, net
<1>10. ~ServerAnswers
  <2> SUFFICES ASSUME ServerAnswers PROVE FALSE
    OBVIOUS
  <2>1. PICK j \in DOMAIN todo : todo' = RemoveAt(todo, j)
    BY DEF ServerAnswers
  <2> QED BY <1>1, <1>7, <2>1, Removed
<1>11. ~ServerLeaves /\ ~UNCHANGED vars
  BY <1>7 DEF ServerLeaves, vars, net
<1> QED BY <1>3, <1>5, <1>6, <1>8, <1>9, <1>10, <1>11 DEF Next, Server

\* No request of a write that succeeded reaches the server again, whatever
\* failed before or after it.
THEOREM NotSentAgainHolds == Spec => NotSentAgain
<1>1. Inv /\ [Next]_vars
        => [\A i \in Len(todo) + 1..Len(todo') : todo'[i].sync \notin written]_vars
  BY NotSentAgainStep
<1> QED BY <1>1, InvHolds, PTL DEF Spec, NotSentAgain
===============================================================================
