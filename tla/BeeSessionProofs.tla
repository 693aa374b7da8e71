--------------------------- MODULE BeeSessionProofs ---------------------------
(***************************************************************************)
(* Theorems about BeeClient, for every catalog and every script: it leaves *)
(* nothing on a stream it keeps (InSync), what it reads into the schema    *)
(* cache is what it asked for (CacheTruth), and it implements BeeSession   *)
(* (whatever the stream does, a call succeeds with the answer to its own   *)
(* request, which no other call is answered and no later write has in it). *)
(***************************************************************************)
EXTENDS BeeClientProofs

\* The steps at which no answer is awaited.
Resting == {"idle", "demand", "eof", "method", "space", "index", "request",
            "auth"}

AllAnswers == \A i \in DOMAIN inbox : inbox[i].part = "answer"
Pending == Len(inbox) + Len(todo)

\* A stream that is not tainted carries as many answers as the method still
\* means to read, and nothing else.
Balanced ==
    /\ pc \in Resting => inbox = <<>> /\ todo = <<>>
    /\ pc = "greet" => inbox = <<Greeting>> /\ todo = <<>>
    /\ pc \in {"recv", "space_recv", "index_recv"} => AllAnswers /\ Pending <= 1
    /\ pc = "auth_recv" => AllAnswers /\ Pending <= frame.batch

StreamInv ==
    /\ pc \in {"open", "sleep"} => ~stream
    /\ torn => tainted
    /\ stream /\ ~tainted => Balanced

CleanInv == Typed /\ StreamInv

LEMMA CleanImpliesInSync == CleanInv => InSync
BY DEF CleanInv, StreamInv, Balanced, Resting, InSync

LEMMA InitStream == Init => StreamInv
BY DEF Init, StreamInv

-----------------------------------------------------------------------------
(* The kinds of steps.                                                     *)

LEMMA StaysResting ==
    ASSUME StreamInv, pc \in Resting, pc' \in Resting, UNCHANGED net,
           UNCHANGED tainted
    PROVE  StreamInv'
BY DEF StreamInv, Balanced, Resting, net

LEMMA NoStream ==
    ASSUME StreamInv, ~stream', UNCHANGED torn, tainted => tainted'
    PROVE  StreamInv'
BY DEF StreamInv

LEMMA Closes ==
    ASSUME Close
    PROVE  StreamInv'
BY DEF StreamInv, Close

LEMMA Taints ==
    ASSUME pc' \notin {"open", "sleep"}, Taint
    PROVE  StreamInv'
BY DEF StreamInv, Taint

LEMMA ReadKeeps ==
    ASSUME ShortRead \/ GarbageRead \/ WholeRead
    PROVE  UNCHANGED <<stream, torn, todo>>
BY DEF ShortRead, GarbageRead, WholeRead

\* Where only answers are, a read is a read of one answer.
LEMMA NoGarbage ==
    ASSUME Typed, AllAnswers, GarbageRead
    PROVE  FALSE
<1>1. inbox \in Seq(Message) /\ inbox # <<>> /\ Head(inbox).part # "answer"
  BY DEF GarbageRead, Misaligned, Typed, NetOK
<1>2. 1 \in DOMAIN inbox /\ Head(inbox) = inbox[1]
  BY <1>1
<1> QED BY <1>1, <1>2 DEF AllAnswers

LEMMA OneFewer ==
    ASSUME Typed, AllAnswers, WholeRead
    PROVE  /\ AllAnswers' /\ todo' = todo
           /\ Pending \in Nat /\ Pending' \in Nat /\ Pending' = Pending - 1
<1>1. inbox \in Seq(Message) /\ inbox # <<>> /\ inbox' = Tail(inbox) /\ todo' = todo
  BY DEF WholeRead, Aligned, Typed, NetOK
<1>2. /\ inbox' \in Seq(Message) /\ Len(inbox) \in Nat
      /\ Len(inbox') = Len(inbox) - 1 /\ Len(inbox') \in Nat
  BY <1>1
<1>3. ASSUME NEW i \in DOMAIN inbox'
      PROVE  i + 1 \in DOMAIN inbox /\ inbox'[i] = inbox[i + 1]
  BY <1>1
<1>4. Len(todo) \in Nat
  BY DEF Typed, NetOK
<1>5. AllAnswers'
  BY <1>3 DEF AllAnswers
<1> QED BY <1>1, <1>2, <1>4, <1>5 DEF Pending

LEMMA NonePending ==
    ASSUME NEW b \in Seq(Message), NEW t \in Seq(Request), Len(b) + Len(t) <= 0
    PROVE  b = <<>> /\ t = <<>>
<1>1. Len(b) \in Nat /\ Len(t) \in Nat
  OBVIOUS
<1>2. Len(b) = 0 /\ Len(t) = 0
  BY <1>1
<1> QED BY <1>2

\* The last answer is read, and the stream is at rest again.
LEMMA ReadsLast ==
    ASSUME Typed, StreamInv, WholeRead, UNCHANGED tainted, Typed',
           stream /\ ~tainted => AllAnswers /\ Pending <= 1,
           pc' \in Resting
    PROVE  StreamInv'
<1>1. UNCHANGED <<stream, torn>>
  BY ReadKeeps
<1>2. ASSUME stream', ~tainted' PROVE inbox' = <<>> /\ todo' = <<>>
  <2>1. AllAnswers /\ Pending <= 1
    BY <1>1, <1>2
  <2>2. Pending' <= 0
    BY <2>1, OneFewer
  <2>3. inbox' \in Seq(Message) /\ todo' \in Seq(Request)
    BY DEF Typed, NetOK
  <2> QED BY <2>2, <2>3, NonePending DEF Pending
<1> QED BY <1>1, <1>2 DEF StreamInv, Balanced, Resting

\* Requests are sent on a stream at rest.  A write that fails leaves nothing
\* to be answered, or taints it.
LEMMA SendStream ==
    ASSUME CleanInv, pc \in Resting, NEW reqs \in Seq(Request),
           (SendSucceeds(reqs) /\ (tainted => tainted')) \/ SendFails(reqs)
    PROVE  /\ UNCHANGED <<stream, inbox>> /\ (torn' => tainted')
           /\ tainted => tainted'
           /\ stream /\ ~tainted =>
                /\ AllAnswers' /\ Pending' <= Len(reqs) /\ inbox' = <<>>
                /\ SendFails(reqs) /\ ~tainted' => todo' = <<>>
<1>1. UNCHANGED <<stream, inbox>>
  BY DEF SendSucceeds, SendFails
<1>2. todo \in Seq(Request) /\ torn \in BOOLEAN /\ (torn => tainted)
  BY DEF CleanInv, Typed, NetOK, StreamInv
<1>3. SendFails(reqs)
        => (tainted => tainted') /\ (~tainted' => UNCHANGED <<todo, torn>>)
  BY DEF SendFails
<1>4. SendSucceeds(reqs) => (torn' => torn)
  BY <1>2 DEF SendSucceeds, Arrives
<1>5. ASSUME stream, ~tainted
      PROVE  /\ AllAnswers' /\ Pending' <= Len(reqs) /\ inbox' = <<>>
             /\ SendFails(reqs) /\ ~tainted' => todo' = <<>>
  <2>1. inbox = <<>> /\ todo = <<>>
    BY <1>5 DEF CleanInv, StreamInv, Balanced
  <2>2. AllAnswers' /\ inbox' = <<>> /\ Len(inbox') = 0
    BY <1>1, <2>1 DEF AllAnswers
  <2>3. PICK k \in Nat, got \in Seq(Request) :
           Run(got, reqs, k) /\ todo' = todo \o got
    BY <1>2, SendRun
  <2>4. todo' = got
    BY <2>1, <2>3
  <2>5. Len(got) \in Nat /\ Len(reqs) \in Nat /\ Len(got) <= Len(reqs)
    BY <2>3 DEF Run
  <2> QED BY <1>3, <2>1, <2>2, <2>4, <2>5 DEF Pending
<1> QED BY <1>1, <1>2, <1>3, <1>4, <1>5

-----------------------------------------------------------------------------
(* One lemma per part of the next-state relation.                          *)

LEMMA ScriptStream == ASSUME StreamInv, Script PROVE StreamInv'
<1>1. CASE Ping \/ CallProc \/ Eval \/ Insert \/ Replace \/ Upsert
             \/ Delete \/ Select \/ Update \/ Authenticate
  <2>1. pc = "idle" /\ pc' = "demand" /\ UNCHANGED <<net, tainted>>
    BY <1>1 DEF Ping, CallProc, Eval, Insert, Replace, Upsert, Delete, Select,
                Update, Authenticate, StartRequest, MayStart, taint
  <2> QED BY <2>1, StaysResting DEF Resting
<1>2. CASE FlushSchema \/ CloseMethod \/ (Connect /\ stream)
  <2>1. pc = "idle" /\ pc' = "idle" /\ UNCHANGED <<net, tainted>>
    BY <1>2 DEF FlushSchema, CloseMethod, Connect, MayStart, Return, taint
  <2> QED BY <2>1, StaysResting DEF Resting
<1>3. CASE Connect /\ ~stream
  BY <1>3, NoStream DEF Connect, net, taint
<1>4. CASE Reconnect
  BY <1>4, Closes DEF Reconnect
<1> QED BY <1>1, <1>2, <1>3, <1>4 DEF Script

LEMMA ServerStream == ASSUME CleanInv, Server PROVE StreamInv'
<1>1. UNCHANGED <<pc, frame, stream, tainted>>
  BY DEF Server, ServerAnswers, ServerLeaves, method, taint
<1>2. /\ pc \in Steps /\ inbox \in Seq(Message) /\ todo \in Seq(Request)
      /\ Len(inbox) \in Nat /\ Len(todo) \in Nat /\ StreamInv
  BY DEF CleanInv, Typed, MethodOK, NetOK
<1>3. CASE ServerAnswers
  <2>1. PICK i \in DOMAIN todo, ok \in BOOLEAN :
           /\ inbox' = Append(inbox, Answer(todo[i], ok))
           /\ todo' = RemoveAt(todo, i)
    BY <1>3 DEF ServerAnswers
  <2> DEFINE m == Answer(todo[i], ok)
  <2>2. m \in Message /\ m.part = "answer"
    BY <1>2, <2>1 DEF Answer, Message, Part
  <2>3. Len(todo') = Len(todo) - 1
    BY <1>2, <2>1, Removed
  <2>4. inbox' = Append(inbox, m)
    BY <2>1
  <2> HIDE DEF m
  <2>5. ASSUME stream, ~tainted PROVE Balanced'
    <3>1. todo # <<>> /\ Balanced
      BY <1>2, <2>1, <2>5 DEF StreamInv
    <3>2. AllAnswers => AllAnswers'
      <4>1. \A j \in DOMAIN inbox' :
               inbox'[j] = m \/ (j \in DOMAIN inbox /\ inbox'[j] = inbox[j])
        BY <1>2, <2>2, <2>4
      <4> QED BY <2>2, <4>1 DEF AllAnswers
    <3>3. Len(inbox') = Len(inbox) + 1
      BY <1>2, <2>2, <2>4
    <3>4. Pending' = Pending
      BY <1>2, <2>3, <3>3 DEF Pending
    <3> QED BY <1>1, <3>1, <3>2, <3>4 DEF Balanced
  <2> QED BY <1>1, <1>2, <1>3, <2>5 DEF StreamInv, ServerAnswers
<1>4. CASE ServerLeaves
  <2>1. ~tainted => inbox' = inbox
    BY <1>2, <1>4 DEF ServerLeaves, StreamInv
  <2>2. todo' = <<>> /\ Len(todo') = 0 /\ ~torn'
    BY <1>4 DEF ServerLeaves
  <2>3. ~tainted => Pending' <= Pending /\ Pending \in Nat /\ Pending' \in Nat
    BY <1>2, <2>1, <2>2 DEF Pending
  <2>4. ASSUME stream, ~tainted PROVE Balanced'
    <3>1. Balanced
      BY <1>2, <2>4 DEF StreamInv
    <3>2. AllAnswers => AllAnswers'
      BY <2>1, <2>4 DEF AllAnswers
    <3>3. frame \in Frame /\ frame.batch \in Nat
      BY DEF CleanInv, Typed, MethodOK, Frame
    <3> QED BY <1>1, <2>1, <2>2, <2>3, <2>4, <3>1, <3>2, <3>3 DEF Balanced
  <2> QED BY <1>1, <1>2, <2>2, <2>4 DEF StreamInv
<1> QED BY <1>3, <1>4 DEF Server

LEMMA ConnectedRests == ASSUME Typed, Connected PROVE pc' \in Resting
<1>1. frame.then \in Returns
  BY DEF Typed, MethodOK, Frame
<1> QED BY <1>1 DEF Connected, Goto, Return, Returns, Resting

LEMMA ConnectingStream ==
    ASSUME CleanInv,
           Demand \/ EofSeen \/ EofNotSeen \/ OpenFails \/ RetrySleep
             \/ OpenSucceeds \/ ReadGreeting
    PROVE  StreamInv'
<1>1. StreamInv /\ inbox \in Seq(Message)
  BY DEF CleanInv, Typed, NetOK
<1>2. CASE Demand
  <2>1. CASE stream
    BY <1>1, <1>2, <2>1, StaysResting DEF Demand, Resting, taint
  <2>2. CASE ~stream
    BY <1>1, <1>2, <2>2, NoStream DEF Demand, net, taint
  <2> QED BY <2>1, <2>2
<1>3. CASE EofSeen
  BY <1>3, Closes DEF EofSeen
<1>4. CASE EofNotSeen
  BY <1>1, <1>4, StaysResting DEF EofNotSeen, Goto, Resting, taint
<1>5. CASE OpenFails \/ RetrySleep
  BY <1>1, <1>5, NoStream DEF OpenFails, RetrySleep, StreamInv, net, taint
<1>6. CASE OpenSucceeds
  BY <1>6 DEF OpenSucceeds, Goto, StreamInv, Balanced, Resting
<1>7. CASE ReadGreeting
  <2>1. UNCHANGED <<stream, todo, torn>> /\ pc = "greet"
    BY <1>7 DEF ReadGreeting
  <2>2. pc' \in Resting
    BY <1>7, ConnectedRests DEF ReadGreeting, Goto, CleanInv, Resting
  <2>3. CASE Taint
    BY <2>2, <2>3, Taints DEF Resting
  <2>4. CASE inbox # <<>> /\ inbox' = Tail(inbox) /\ UNCHANGED taint
    <3>1. ASSUME stream, ~tainted PROVE inbox' = <<>> /\ todo' = <<>>
      BY <1>1, <2>1, <2>4, <3>1 DEF StreamInv, Balanced
    <3> QED BY <1>1, <2>1, <2>2, <2>4, <3>1
            DEF StreamInv, Balanced, Resting, taint
  <2> QED BY <1>7, <2>3, <2>4 DEF ReadGreeting
<1> QED BY <1>2, <1>3, <1>4, <1>5, <1>6, <1>7

LEMMA AuthStream ==
    ASSUME CleanInv, Typed',
           AuthSend \/ AuthShortRead \/ AuthGarbage \/ AuthNoRows \/ AuthSpaces
             \/ AuthIndexes
    PROVE  StreamInv'
<1>1. Typed /\ StreamInv /\ frame \in Frame /\ frame.batch \in 0..3
  BY DEF CleanInv, Typed, MethodOK, Frame
<1>2. CASE AuthSend
  <2>1. AuthBatch \in Seq(Request) /\ Len(AuthBatch) = 3
    <3>1. /\ Ask(sync, "auth") \in Request
          /\ Ask(sync + 1, "spaces") \in Request
          /\ Ask(sync + 2, "indexes") \in Request
      BY DEF Ask, Req, Request, Kinds, CleanInv, Typed, ObjectOK
    <3> QED BY <3>1 DEF AuthBatch
  <2>2. pc \in Resting
    BY <1>2 DEF AuthSend, Resting
  <2>3. CASE /\ SendSucceeds(AuthBatch) /\ Goto("auth_recv") /\ UNCHANGED tainted
             /\ frame' = [frame EXCEPT !.batch = 3, !.ok = TRUE]
    <3>1. frame'.batch = 3 /\ pc' = "auth_recv"
      BY <1>1, <2>3 DEF Goto, Frame
    <3> QED BY <1>1, <2>1, <2>2, <2>3, <3>1, SendStream
            DEF StreamInv, Balanced, Resting
  <2>4. CASE SendFails(AuthBatch) /\ Return("silent")
    BY <1>1, <2>1, <2>2, <2>4, SendStream
    DEF Return, StreamInv, Balanced, Resting
  <2> QED BY <1>2, <2>3, <2>4 DEF AuthSend
<1>3. CASE AuthShortRead
  BY <1>3, Taints DEF AuthShortRead, Return
<1>4. ASSUME NEW ok, NextAnswer(ok)
      PROVE  \/ pc' = "auth_recv" /\ frame'.batch = frame.batch - 1
             \/ pc' \in Resting /\ frame.batch <= 1
  <2>1. CASE frame.batch > 1
    BY <1>1, <1>4, <2>1 DEF NextAnswer, Goto, Frame
  <2>2. CASE ~(frame.batch > 1)
    BY <1>1, <1>4, <2>2, ConnectedRests DEF NextAnswer, Return, Resting
  <2> QED BY <2>1, <2>2
<1>5. ASSUME NEW ok, NextAnswer(ok), pc = "auth_recv", WholeRead,
             UNCHANGED tainted
      PROVE  StreamInv'
  <2>1. stream /\ ~tainted => AllAnswers /\ Pending <= frame.batch
    BY <1>1, <1>5 DEF StreamInv, Balanced
  <2>2. CASE pc' \in Resting /\ frame.batch <= 1
    <3>1. stream /\ ~tainted => AllAnswers /\ Pending <= 1
      BY <1>1, <1>5, <2>1, <2>2, OneFewer
    <3> QED BY <1>1, <1>5, <2>2, <3>1, ReadsLast
  <2>3. CASE pc' = "auth_recv" /\ frame'.batch = frame.batch - 1
    <3>1. UNCHANGED <<stream, torn>>
      BY <1>5, ReadKeeps
    <3>2. ASSUME stream, ~tainted
          PROVE  AllAnswers' /\ Pending' <= frame'.batch
      BY <1>1, <1>5, <2>1, <2>3, <3>2, OneFewer
    <3> QED BY <1>1, <1>5, <2>3, <3>1, <3>2 DEF StreamInv, Balanced, Resting
  <2> QED BY <1>4, <1>5, <2>2, <2>3
<1>6. CASE AuthGarbage
  <2>1. ~(stream /\ ~tainted)
    BY <1>1, <1>6, NoGarbage DEF AuthGarbage, StreamInv, Balanced
  <2>2. pc' \notin {"open", "sleep"}
    BY <1>4, <1>6 DEF AuthGarbage, Resting
  <2> QED BY <1>1, <1>6, <2>1, <2>2, ReadKeeps DEF AuthGarbage, StreamInv, taint
<1>7. CASE AuthNoRows
  BY <1>5, <1>7 DEF AuthNoRows, taint
<1>8. CASE AuthSpaces
  BY <1>5, <1>8 DEF AuthSpaces, taint
<1>9. CASE AuthIndexes
  BY <1>5, <1>9 DEF AuthIndexes, taint
<1> QED BY <1>2, <1>3, <1>6, <1>7, <1>8, <1>9

LEMMA LookupStream ==
    ASSUME CleanInv, NEW q \in Request, pc \in Resting,
           NEW step \in {"space_recv", "index_recv"}, SendLookup(q, step)
    PROVE  StreamInv'
<1>1. <<q>> \in Seq(Request) /\ Len(<<q>>) = 1
  OBVIOUS
<1>2. StreamInv
  BY DEF CleanInv
<1>3. CASE SendSucceeds(<<q>>) /\ Goto(step) /\ UNCHANGED tainted
  BY <1>1, <1>2, <1>3, SendStream DEF Goto, StreamInv, Balanced, Resting
<1>4. CASE SendFails(<<q>>) /\ Return("silent")
  BY <1>1, <1>2, <1>4, SendStream DEF Return, StreamInv, Balanced, Resting
<1> QED BY <1>3, <1>4 DEF SendLookup

LEMMA SendRequestStream == ASSUME CleanInv, SendRequest PROVE StreamInv'
<1> DEFINE q == Req(sync, "data", frame.space, None)
<1>1. wbuf \in Seq(Request) /\ StreamInv /\ pc \in Resting
  BY DEF CleanInv, Typed, ObjectOK, SendRequest, Resting
<1>2. q \in Request
  BY DEF SendRequest, Req, Request, Kinds, CleanInv, Typed, MethodOK, ObjectOK, LocalOK
<1>a. \/ /\ SendSucceeds(Append(wbuf, q)) /\ Goto("recv")
         /\ tainted' = (tainted \/ wbuf # <<>>)
      \/ SendFails(Append(wbuf, q)) /\ Return("silent")
  BY DEF SendRequest
<1> HIDE DEF q
<1>3. Append(wbuf, q) \in Seq(Request) /\ (wbuf = <<>> => Len(Append(wbuf, q)) = 1)
  BY <1>1, <1>2
<1>4. CASE SendSucceeds(Append(wbuf, q)) /\ Goto("recv") /\ wbuf = <<>>
             /\ tainted' = tainted
  BY <1>1, <1>3, <1>4, SendStream DEF Goto, StreamInv, Balanced, Resting
<1>5. CASE SendSucceeds(Append(wbuf, q)) /\ Goto("recv") /\ tainted'
  BY <1>1, <1>3, <1>5, SendStream DEF Goto, StreamInv
<1>6. CASE SendFails(Append(wbuf, q)) /\ Return("silent")
  BY <1>1, <1>3, <1>6, SendStream DEF Return, StreamInv, Balanced, Resting
<1>7. tainted \in BOOLEAN
  BY DEF CleanInv, Typed, TaintOK
<1> QED BY <1>a, <1>4, <1>5, <1>6, <1>7

LEMMA BodyStream ==
    ASSUME CleanInv, Typed',
           Dispatch \/ SpaceKnown \/ SpaceLookup \/ LookupFails \/ SpaceAnswer
             \/ IndexKnown \/ IndexLookup \/ IndexAnswer \/ BadArguments
             \/ SendRequest
    PROVE  StreamInv'
<1>1. Typed /\ StreamInv /\ sync \in Nat /\ frame \in Frame /\ LocalOK
  BY DEF CleanInv, Typed, ObjectOK, MethodOK
<1>2. CASE Dispatch \/ SpaceKnown \/ IndexKnown \/ BadArguments
  <2>1. pc \in Resting /\ pc' \in Resting /\ UNCHANGED <<net, tainted>>
    BY <1>2 DEF Dispatch, SpaceKnown, IndexKnown, BadArguments, Resolved, Goto,
                Return, Resting, taint
  <2> QED BY <1>1, <2>1, StaysResting
<1>3. ASSUME pc \in {"space_recv", "index_recv"}, WholeRead, UNCHANGED taint,
             pc' \in Resting
      PROVE  StreamInv'
  BY <1>1, <1>3, ReadsLast DEF StreamInv, Balanced, taint
<1>4. CASE SpaceAnswer \/ IndexAnswer
  <2>1. pc' \in Resting
    BY <1>4 DEF SpaceAnswer, IndexAnswer, Resolved, Goto, Return, Resting
  <2> QED BY <1>3, <1>4, <2>1 DEF SpaceAnswer, IndexAnswer
<1>5. CASE LookupFails
  <2>1. pc' = "idle" /\ pc \in {"space_recv", "index_recv"}
    BY <1>5 DEF LookupFails, Return
  <2>2. CASE ShortRead /\ Taint
    BY <2>1, <2>2, Taints
  <2>3. CASE GarbageRead /\ UNCHANGED taint
    <3>1. ~(stream /\ ~tainted)
      BY <1>1, <2>1, <2>3, NoGarbage DEF StreamInv, Balanced
    <3> QED BY <1>1, <2>1, <2>3, <3>1, ReadKeeps DEF StreamInv, taint
  <2>4. CASE WholeRead /\ UNCHANGED taint
    BY <1>3, <2>1, <2>4 DEF Resting
  <2> QED BY <1>5, <2>2, <2>3, <2>4 DEF LookupFails
<1>6. CASE SpaceLookup
  <2>1. frame.space \in Names
    BY <1>1, <1>6, ArgsAssumption, NumbersAssumption
    DEF SpaceLookup, Sid, NoId, LocalOK
  <2>2. Req(sync, "space", None, frame.space) \in Request
    BY <1>1, <2>1 DEF Req, Request, Kinds
  <2> QED BY <1>6, <2>2, LookupStream DEF SpaceLookup, Resting
<1>7. CASE IndexLookup
  <2>1. Req(sync, "index", frame.space, frame.index) \in Request
    BY <1>1, <1>7 DEF IndexLookup, LocalOK, Req, Request, Kinds
  <2> QED BY <1>7, <2>1, LookupStream DEF IndexLookup, Resting
<1> QED BY <1>2, <1>4, <1>5, <1>6, <1>7, SendRequestStream

LEMMA RecvStream ==
    ASSUME CleanInv, Typed', RecvCloses \/ RecvKeeps \/ RecvRefused \/ RecvOk
    PROVE  StreamInv'
<1>1. Typed /\ StreamInv
  BY DEF CleanInv
<1>2. CASE RecvCloses
  BY <1>2, Closes DEF RecvCloses
<1>3. CASE RecvKeeps
  BY <1>3, Taints DEF RecvKeeps, Received, Return
<1>4. CASE RecvRefused \/ RecvOk
  <2>1. pc = "recv" /\ pc' = "idle" /\ WholeRead /\ UNCHANGED tainted
    BY <1>4 DEF RecvRefused, RecvOk, Received, Return, taint
  <2> QED BY <1>1, <2>1, ReadsLast DEF StreamInv, Balanced, Resting
<1> QED BY <1>2, <1>3, <1>4

LEMMA NextStream == CleanInv /\ [Next]_vars => CleanInv'
<1> SUFFICES ASSUME CleanInv, [Next]_vars PROVE CleanInv'
  OBVIOUS
<1>1. Typed' /\ StreamInv
  BY NextTyped DEF CleanInv
<1>2. CASE UNCHANGED vars
  BY <1>1, <1>2 DEF vars, method, net, taint, StreamInv, Balanced, AllAnswers,
                    Pending, CleanInv
<1>3. CASE Client
  BY <1>1, <1>3, ConnectingStream, AuthStream, BodyStream, RecvStream
  DEF Client, CleanInv
<1> QED BY <1>1, <1>2, <1>3, ScriptStream, ServerStream DEF Next, CleanInv

\* Between methods an open stream that is not tainted is empty in both
\* directions, whatever the server did.
THEOREM InSyncHolds == Spec => []InSync
<1>1. Init => CleanInv
  BY InitTyped, InitStream DEF CleanInv
<1>2. Spec => []CleanInv
  BY <1>1, NextStream, PTL DEF Spec
<1> QED BY <1>2, CleanImpliesInSync, PTL

-----------------------------------------------------------------------------
(* The schema cache.  What is read into it answers a request for schema     *)
(* rows, since nothing else is outstanding on a stream that no read has     *)
(* given up on.                                                             *)

SaysTrue(c) ==
    /\ \A n \in Names : c.sid[n] # NoId =>
          \E r \in Spaces : r.name = n /\ r.sno = c.sid[n]
    /\ \A s \in SpaceNos, n \in Names : c.iid[s][n] # NoId =>
          [sno |-> s, num |-> c.iid[s][n], name |-> n] \in Indexes

CacheInv == CacheTruth /\ (tainted => dirty)

\* Nothing comes or goes without a stream.
Shut == ~stream => ~peer /\ todo = <<>> /\ inbox = <<>>

\* The steps at which an answer with rows is awaited, and what may come.
Awaiting == {"space_recv", "index_recv", "auth_recv"}
Expected ==
    ~tainted =>
      /\ pc = "space_recv" => \A q \in Out : q.kind = "space"
      /\ pc = "index_recv" => \A q \in Out : q.kind = "index"
      /\ pc = "auth_recv" => \A q \in Out :
            \/ q.kind = "auth"
            \/ q.kind = "spaces" /\ q.sync = sync - 2
            \/ q.kind = "indexes" /\ q.sync = sync - 1

LookInv == Inv /\ CleanInv /\ Shut /\ Expected /\ CacheInv

LEMMA TruthOfCache == CacheTruth <=> (~dirty => SaysTrue(cache))
BY DEF CacheTruth, SaysTrue

LEMMA EmptySaysTrue == SaysTrue(Empty)
BY DEF SaysTrue, Empty, NoTable

LEMMA AddSpacesTrue ==
    ASSUME NEW c \in SchemaType, SaysTrue(c), NEW rows \in SUBSET Spaces
    PROVE  SaysTrue(AddSpaces(c, rows))
<1> DEFINE a == AddSpaces(c, rows)
<1>1. ASSUME NEW n \in Names, a.sid[n] # NoId
      PROVE  \E r \in Spaces : r.name = n /\ r.sno = a.sid[n]
  <2>1. CASE \E r \in rows : r.name = n
    <3>1. /\ (CHOOSE r \in rows : r.name = n) \in rows
          /\ (CHOOSE r \in rows : r.name = n).name = n
      BY <2>1
    <3>2. a.sid[n] = (CHOOSE r \in rows : r.name = n).sno
      BY <2>1 DEF AddSpaces
    <3> QED BY <3>1, <3>2
  <2>2. CASE ~(\E r \in rows : r.name = n)
    <3>1. a.sid[n] = c.sid[n]
      BY <2>2 DEF AddSpaces
    <3> QED BY <1>1, <3>1 DEF SaysTrue
  <2> QED BY <2>1, <2>2
<1>2. ASSUME NEW s \in SpaceNos, NEW n \in Names, a.iid[s][n] # NoId
      PROVE  [sno |-> s, num |-> a.iid[s][n], name |-> n] \in Indexes
  <2>1. a.iid[s] = NoTable \/ a.iid[s] = c.iid[s]
    BY DEF AddSpaces
  <2>2. a.iid[s] = c.iid[s]
    BY <1>2, <2>1 DEF NoTable
  <2> QED BY <1>2, <2>2 DEF SaysTrue
<1> HIDE DEF a
<1> QED BY <1>1, <1>2 DEF SaysTrue, a

LEMMA AddIndexesTrue ==
    ASSUME NEW c \in SchemaType, SaysTrue(c), NEW rows \in SUBSET Indexes
    PROVE  SaysTrue(AddIndexes(c, rows))
<1> DEFINE a == AddIndexes(c, rows)
           of(s, n) == CHOOSE r \in rows : r.sno = s /\ r.name = n
<1>1. a.sid = c.sid
  BY DEF AddIndexes, SchemaType
<1>2. ASSUME NEW s \in SpaceNos, NEW n \in Names, a.iid[s][n] # NoId
      PROVE  [sno |-> s, num |-> a.iid[s][n], name |-> n] \in Indexes
  <2>1. CASE \E r \in rows : r.sno = s /\ r.name = n
    <3>1. of(s, n) \in rows /\ of(s, n).sno = s /\ of(s, n).name = n
      BY <2>1
    <3>2. a.iid[s][n] = of(s, n).num
      BY <2>1 DEF AddIndexes, SchemaType
    <3>3. of(s, n) \in Row
      BY <3>1, CatalogAssumption
    <3> HIDE DEF of, a
    <3>4. of(s, n) = [sno |-> s, num |-> a.iid[s][n], name |-> n]
      BY <3>1, <3>2, <3>3 DEF Row
    <3> QED BY <3>1, <3>4
  <2>2. CASE ~(\E r \in rows : r.sno = s /\ r.name = n)
    <3>1. a.iid[s][n] = c.iid[s][n]
      BY <2>2 DEF AddIndexes, SchemaType
    <3> QED BY <1>2, <3>1 DEF SaysTrue
  <2> QED BY <2>1, <2>2
<1> HIDE DEF a
<1> QED BY <1>1, <1>2 DEF SaysTrue, a

\* The rows of an answer, when it answers a request for rows of this space or
\* for no rows at all.
LEMMA SpaceRows ==
    ASSUME NEW q, q.kind \in {"space", "spaces", "auth"}, NEW p \in ParsedSpaces(q)
    PROVE  p.rows \in SUBSET Spaces
<1>1. RowsFor(q) \subseteq Spaces
  BY DEF RowsFor
<1> QED BY <1>1 DEF ParsedSpaces, Parsed

LEMMA IndexRows ==
    ASSUME NEW q, q.kind \in {"index", "indexes", "auth"},
           NEW p \in ParsedIndexes(q)
    PROVE  p.rows \in SUBSET Indexes
<1>1. RowsFor(q) \subseteq Indexes
  BY DEF RowsFor
<1> QED BY <1>1 DEF ParsedIndexes, Parsed

-----------------------------------------------------------------------------
(* The steps, one part of the invariant at a time.                         *)

LEMMA ShutRead ==
    ASSUME Shut, ShortRead \/ GarbageRead \/ WholeRead
    PROVE  Shut'
BY DEF Shut, ShortRead, GarbageRead, WholeRead, Misaligned, Aligned, Cut

LEMMA ShutSend ==
    ASSUME Shut, NEW reqs, SendSucceeds(reqs) \/ SendFails(reqs)
    PROVE  Shut'
BY DEF Shut, SendSucceeds, SendFails, Arrives

LEMMA NextShut == ASSUME Shut, Next PROVE Shut'
<1>1. CASE \/ Ping \/ CallProc \/ Eval \/ Insert \/ Replace \/ Upsert \/ Delete
           \/ Select \/ Update \/ Authenticate \/ Connect \/ FlushSchema
           \/ CloseMethod
  <2>1. UNCHANGED net
    BY <1>1 DEF Ping, CallProc, Eval, Insert, Replace, Upsert, Delete, Select,
                Update, Authenticate, StartRequest, Connect, FlushSchema,
                CloseMethod
  <2> QED BY <2>1 DEF Shut, net
<1>2. CASE \/ Demand \/ EofNotSeen \/ OpenFails \/ RetrySleep \/ Dispatch
           \/ SpaceKnown \/ IndexKnown \/ BadArguments
  <2>1. UNCHANGED net
    BY <1>2 DEF Demand, EofNotSeen, OpenFails, RetrySleep, Dispatch, SpaceKnown,
                IndexKnown, BadArguments
  <2> QED BY <2>1 DEF Shut, net
<1>3. CASE Reconnect \/ EofSeen \/ RecvCloses \/ OpenSucceeds
  BY <1>3 DEF Reconnect, EofSeen, RecvCloses, OpenSucceeds, Close, Shut
<1>4. CASE ReadGreeting
  BY <1>4 DEF ReadGreeting, Cut, Shut
<1>5. CASE \/ AuthShortRead \/ AuthGarbage \/ AuthNoRows \/ AuthSpaces
           \/ AuthIndexes \/ LookupFails \/ SpaceAnswer \/ IndexAnswer
           \/ RecvRefused \/ RecvOk
  <2>1. ShortRead \/ GarbageRead \/ WholeRead
    BY <1>5 DEF AuthShortRead, AuthGarbage, AuthNoRows, AuthSpaces, AuthIndexes,
                LookupFails, SpaceAnswer, IndexAnswer, RecvRefused, RecvOk
  <2> QED BY <2>1, ShutRead
<1>6. CASE AuthSend \/ SpaceLookup \/ IndexLookup \/ SendRequest
  <2>1. \E reqs : SendSucceeds(reqs) \/ SendFails(reqs)
    BY <1>6 DEF AuthSend, SpaceLookup, IndexLookup, SendLookup, SendRequest
  <2> QED BY <2>1, ShutSend
<1>7. CASE RecvKeeps
  BY <1>7 DEF RecvKeeps, Aligned, Misaligned, Shut
<1>8. CASE Server
  BY <1>8 DEF Server, ServerAnswers, ServerLeaves, Shut
<1> QED BY <1>1, <1>2, <1>3, <1>4, <1>5, <1>6, <1>7, <1>8
        DEF Next, Script, Client

LEMMA NothingOut ==
    ASSUME LookInv, pc \in Resting, ~tainted
    PROVE  Out = {}
<1>1. todo = <<>> /\ inbox = <<>>
  BY DEF LookInv, CleanInv, StreamInv, Balanced, Shut
<1> QED BY <1>1, NoAnswers, EmptyBuffer DEF Out

LEMMA ElsewhereExpected == ASSUME pc' \notin Awaiting PROVE Expected'
BY DEF Expected, Awaiting

\* What may be answered after a write was before it, or is in it.
LEMMA SentOut ==
    ASSUME Inv, NEW reqs \in Seq(Request), SendSucceeds(reqs) \/ SendFails(reqs)
    PROVE  Out' \subseteq Out \cup Range(reqs)
<1>1. Range(todo') \subseteq Range(todo) \cup Range(reqs)
  BY SendRange DEF Inv, Typed, NetOK
<1>2. inbox' = inbox
  BY DEF SendSucceeds, SendFails
<1> QED BY <1>1, <1>2 DEF Out

LEMMA LookupIsRequest ==
    ASSUME Inv
    PROVE  /\ SpaceLookup => Req(sync, "space", None, frame.space) \in Request
           /\ IndexLookup => Req(sync, "index", frame.space, frame.index) \in Request
<1>1. sync \in Nat /\ frame \in Frame /\ LocalOK
  BY DEF Inv, Typed, ObjectOK, MethodOK
<1>2. SpaceLookup => frame.space \in Names
  BY <1>1, ArgsAssumption, NumbersAssumption DEF SpaceLookup, Sid, NoId, LocalOK
<1>3. IndexLookup => frame.space \in SpaceNos /\ frame.index \in Names
  BY <1>1 DEF IndexLookup, LocalOK
<1> QED BY <1>1, <1>2, <1>3 DEF Req, Request, Kinds

LEMMA NextExpected == ASSUME LookInv, Next PROVE Expected'
<1>1. Inv /\ Expected /\ sync \in Nat /\ inbox \in Seq(Message)
  BY DEF LookInv, Inv, Typed, ObjectOK, NetOK
<1>2. ASSUME pc' = pc, sync' = sync, tainted' = tainted, Out' \subseteq Out
      PROVE  Expected'
  BY <1>1, <1>2 DEF Expected
<1>3. CASE Script
  <2>1. pc' \notin Awaiting
    <3>1. CASE Ping \/ CallProc \/ Eval \/ Insert \/ Replace \/ Upsert
                 \/ Delete \/ Select \/ Update
      BY <3>1 DEF Ping, CallProc, Eval, Insert, Replace, Upsert, Delete, Select,
                  Update, StartRequest, Awaiting
    <3>2. CASE Authenticate \/ Connect \/ Reconnect \/ FlushSchema \/ CloseMethod
      BY <3>2 DEF Authenticate, Connect, Reconnect, FlushSchema, CloseMethod,
                  Opening, Return, Awaiting
    <3> QED BY <1>3, <3>1, <3>2 DEF Script
  <2> QED BY <2>1, ElsewhereExpected
<1>4. CASE Server
  <2>1. Quiet /\ UNCHANGED <<pc, frame, sync, tainted>>
    BY <1>1, <1>4, ServerQuiet
    DEF Server, ServerAnswers, ServerLeaves, object, taint
  <2> QED BY <1>2, <2>1 DEF Quiet
<1>5. ASSUME Connected PROVE pc' \notin Awaiting
  BY <1>1, <1>5, ConnectedRests DEF Inv, Resting, Awaiting
<1>6. CASE \/ Demand \/ EofSeen \/ EofNotSeen \/ OpenFails \/ RetrySleep
           \/ OpenSucceeds \/ ReadGreeting \/ AuthShortRead
           \/ Dispatch \/ SpaceKnown \/ IndexKnown \/ BadArguments \/ SendRequest
           \/ LookupFails \/ SpaceAnswer \/ IndexAnswer
           \/ RecvCloses \/ RecvKeeps \/ RecvRefused \/ RecvOk
  <2>1. pc' \notin Awaiting
    <3>1. CASE \/ Demand \/ EofSeen \/ EofNotSeen \/ OpenFails \/ RetrySleep
               \/ OpenSucceeds \/ ReadGreeting \/ AuthShortRead
      BY <1>5, <3>1 DEF Demand, EofSeen, EofNotSeen, OpenFails, RetrySleep,
         OpenSucceeds, ReadGreeting, AuthShortRead, Opening, Goto, Return, Awaiting
    <3>2. CASE \/ Dispatch \/ SpaceKnown \/ IndexKnown \/ BadArguments
               \/ SendRequest \/ LookupFails \/ SpaceAnswer \/ IndexAnswer
      BY <3>2 DEF Dispatch, SpaceKnown, IndexKnown, BadArguments, SendRequest,
         LookupFails, SpaceAnswer, IndexAnswer, Resolved, Goto, Return, Awaiting
    <3>3. CASE RecvCloses \/ RecvKeeps \/ RecvRefused \/ RecvOk
      BY <3>3 DEF RecvCloses, RecvKeeps, RecvRefused, RecvOk, Received, Return,
         Awaiting
    <3> QED BY <1>6, <3>1, <3>2, <3>3
  <2> QED BY <2>1, ElsewhereExpected
<1>7. CASE AuthGarbage \/ AuthNoRows \/ AuthSpaces \/ AuthIndexes
  <2>1. pc = "auth_recv" /\ sync' = sync /\ tainted' = tainted
        /\ Out' \subseteq Out
    BY <1>1, <1>7, ReadAnswers DEF Inv, AuthGarbage, AuthNoRows, AuthSpaces,
       AuthIndexes, object, taint
  <2>2. ASSUME NEW ok, NextAnswer(ok) PROVE pc' \notin Awaiting \/ pc' = pc
    BY <1>5, <2>1, <2>2 DEF NextAnswer, Goto, Return, Awaiting
  <2>3. pc' \notin Awaiting \/ pc' = pc
    BY <1>7, <2>2 DEF AuthGarbage, AuthNoRows, AuthSpaces, AuthIndexes
  <2> QED BY <1>2, <2>1, <2>3, ElsewhereExpected
<1>8. CASE AuthSend
  <2>1. CASE Return("silent")
    BY <2>1, ElsewhereExpected DEF Return, Awaiting
  <2>2. CASE SendSucceeds(AuthBatch) /\ Goto("auth_recv") /\ UNCHANGED tainted
    <3>1. SUFFICES ASSUME ~tainted PROVE Expected'
      BY <2>2 DEF Expected
    <3>2. Out = {} /\ sync' = sync + 3 /\ pc' = "auth_recv"
      BY <1>8, <2>2, <3>1, NothingOut DEF AuthSend, Resting, Goto
    <3>3. /\ AuthBatch \in Seq(Request)
          /\ Range(AuthBatch) = {Ask(sync, "auth"), Ask(sync + 1, "spaces"),
                                 Ask(sync + 2, "indexes")}
      <4>1. /\ Ask(sync, "auth") \in Request
            /\ Ask(sync + 1, "spaces") \in Request
            /\ Ask(sync + 2, "indexes") \in Request
        BY <1>1 DEF Ask, Req, Request, Kinds
      <4> QED BY <4>1 DEF AuthBatch, Range
    <3>4. Out' \subseteq Range(AuthBatch)
      BY <1>1, <2>2, <3>2, <3>3, SentOut
    <3>5. \A q \in Out' : \/ q.kind = "auth"
                          \/ q.kind = "spaces" /\ q.sync = sync' - 2
                          \/ q.kind = "indexes" /\ q.sync = sync' - 1
      BY <1>1, <3>2, <3>3, <3>4 DEF Ask, Req
    <3> QED BY <3>2, <3>5 DEF Expected
  <2> QED BY <1>8, <2>1, <2>2 DEF AuthSend
<1>9. ASSUME NEW q \in Request, NEW step, pc \in Resting, SendLookup(q, step)
      PROVE  \/ pc' \notin Awaiting
             \/ pc' = step /\ (~tainted' => Out' \subseteq {q})
  <2>1. CASE Return("silent")
    BY <2>1 DEF Return, Awaiting
  <2>2. CASE SendSucceeds(<<q>>) /\ Goto(step) /\ UNCHANGED tainted
    <3>1. <<q>> \in Seq(Request) /\ Range(<<q>>) = {q}
      BY DEF Range
    <3>2. ~tainted' => Out = {}
      BY <1>9, <2>2, NothingOut
    <3> QED BY <1>1, <2>2, <3>1, <3>2, SentOut DEF Goto
  <2> QED BY <1>9, <2>1, <2>2 DEF SendLookup
<1>10. CASE SpaceLookup
  <2> DEFINE q == Req(sync, "space", None, frame.space)
  <2>1. \/ pc' \notin Awaiting
        \/ pc' = "space_recv" /\ (~tainted' => Out' \subseteq {q})
    BY <1>1, <1>9, <1>10, LookupIsRequest DEF SpaceLookup, Resting
  <2>2. q.kind = "space"
    BY DEF Req
  <2> QED BY <2>1, <2>2, ElsewhereExpected DEF Expected
<1>11. CASE IndexLookup
  <2> DEFINE q == Req(sync, "index", frame.space, frame.index)
  <2>1. \/ pc' \notin Awaiting
        \/ pc' = "index_recv" /\ (~tainted' => Out' \subseteq {q})
    BY <1>1, <1>9, <1>11, LookupIsRequest DEF IndexLookup, Resting
  <2>2. q.kind = "index"
    BY DEF Req
  <2> QED BY <2>1, <2>2, ElsewhereExpected DEF Expected
<1> QED BY <1>3, <1>4, <1>6, <1>7, <1>8, <1>10, <1>11 DEF Next, Client

-----------------------------------------------------------------------------
(* The two answers with rows of an authentication are told apart by their   *)
(* sync numbers, if these can be told apart on the wire.                    *)

LEMMA MultiplesApart ==
    ASSUME NEW w \in Nat, w > 1, NEW a \in Int, NEW b \in Int
    PROVE  w * b # w * a + 1
<1> SUFFICES ASSUME w * b = w * a + 1 PROVE FALSE
  OBVIOUS
<1>1. w * (b - a) = w * b - w * a /\ w * (a - b) = w * a - w * b
  BY SMTT(20)
<1>2. b > a
  <2>1. b <= a => w * (a - b) >= 0
    BY SMTT(20)
  <2> QED BY <1>1, <2>1
<1>3. w * (b - a) >= w
  BY <1>2, SMTT(20)
<1> QED BY <1>1, <1>3

LEMMA NextRemainder ==
    ASSUME NEW w \in Nat, w > 1, NEW s \in Nat
    PROVE  s % w # (s + 1) % w
<1> DEFINE a == s \div w
           b == (s + 1) \div w
           r == s % w
<1>1. a \in Int /\ r \in Int /\ s = w * a + r
  BY SMTT(20)
<1>2. b \in Int /\ s + 1 = w * b + ((s + 1) % w)
  BY SMTT(20)
<1> SUFFICES ASSUME (s + 1) % w = r PROVE FALSE
  OBVIOUS
<1>3. s + 1 = w * b + r
  BY <1>2
<1> HIDE DEF a, b, r
<1>4. w * a \in Int /\ w * b \in Int
  BY <1>1, <1>2
<1>5. w * b = w * a + 1
  BY <1>1, <1>3, <1>4
<1> QED BY <1>1, <1>2, <1>5, MultiplesApart

LEMMA WireApart ==
    ASSUME SyncWidth > 1, NEW s \in Nat
    PROVE  Wire(s) # Wire(s - 1)
<1>1. \A n \in Nat : Wire(n) = n % SyncWidth
  <2> TAKE n \in Nat
  <2>1. n < SyncWidth => n % SyncWidth = n
    BY WidthAssumption, SMTT(20)
  <2> QED BY <2>1 DEF Wire
<1>2. CASE s = 0
  <2>1. Wire(s) = 0 /\ Wire(s - 1) = -1
    BY <1>2, WidthAssumption DEF Wire
  <2> QED BY <2>1
<1>3. CASE s # 0
  <2>1. s - 1 \in Nat /\ (s - 1) + 1 = s
    BY <1>3
  <2>2. (s - 1) % SyncWidth # ((s - 1) + 1) % SyncWidth
    BY <2>1, NextRemainder, WidthAssumption
  <2> QED BY <1>1, <2>1, <2>2
<1> QED BY <1>2, <1>3

-----------------------------------------------------------------------------
(* What the cache says.                                                     *)

LEMMA SameCache ==
    ASSUME CacheInv, cache' = cache,
           \/ dirty' = dirty /\ (tainted' => tainted)
           \/ dirty' = (dirty \/ tainted')
           \/ Taint
    PROVE  CacheInv'
BY TruthOfCache DEF CacheInv, CacheTruth, Taint

LEMMA FlushedCache ==
    ASSUME cache' = Empty, dirty' = tainted'
    PROVE  CacheInv'
BY EmptySaysTrue DEF CacheInv, CacheTruth, SaysTrue

\* An answer that is read whole answers what was outstanding.
LEMMA HeadIsOut ==
    ASSUME Typed, WholeRead
    PROVE  Head(inbox).to \in Out
<1>1. inbox \in Seq(Message) /\ inbox # <<>> /\ Head(inbox).part = "answer"
  BY DEF Typed, NetOK, WholeRead, Aligned
<1>2. 1 \in DOMAIN inbox /\ Head(inbox) = inbox[1]
  BY <1>1
<1> QED BY <1>1, <1>2 DEF Out, Answers

LEMMA ReadSpaces ==
    ASSUME LookInv, UNCHANGED taint,
           ~tainted => Head(inbox).to.kind \in {"space", "spaces", "auth"},
           NEW p \in ParsedSpaces(Head(inbox).to),
           cache' = AddSpaces(cache, p.rows)
    PROVE  CacheInv'
<1>1. /\ cache \in SchemaType /\ dirty' = dirty /\ tainted' = tainted
      /\ tainted => dirty
      /\ ~dirty => SaysTrue(cache)
  BY TruthOfCache DEF LookInv, Inv, Typed, ObjectOK, CacheInv, taint
<1>2. ~dirty => SaysTrue(cache')
  BY <1>1, SpaceRows, AddSpacesTrue
<1> QED BY <1>1, <1>2 DEF CacheInv, CacheTruth, SaysTrue

LEMMA ReadIndexes ==
    ASSUME LookInv, UNCHANGED taint,
           ~tainted => Head(inbox).to.kind \in {"index", "indexes", "auth"},
           NEW p \in ParsedIndexes(Head(inbox).to),
           cache' = AddIndexes(cache, p.rows)
    PROVE  CacheInv'
<1>1. /\ cache \in SchemaType /\ dirty' = dirty /\ tainted' = tainted
      /\ tainted => dirty
      /\ ~dirty => SaysTrue(cache)
  BY TruthOfCache DEF LookInv, Inv, Typed, ObjectOK, CacheInv, taint
<1>2. ~dirty => SaysTrue(cache')
  BY <1>1, IndexRows, AddIndexesTrue
<1> QED BY <1>1, <1>2 DEF CacheInv, CacheTruth, SaysTrue

LEMMA RowsCache ==
    ASSUME SyncWidth > 1, LookInv,
           SpaceAnswer \/ IndexAnswer \/ AuthSpaces \/ AuthIndexes
    PROVE  CacheInv'
<1> DEFINE q == Head(inbox).to
<1>1. WholeRead /\ Typed /\ Expected /\ UNCHANGED taint
  BY DEF SpaceAnswer, IndexAnswer, AuthSpaces, AuthIndexes, LookInv, Inv, taint
<1>2. q \in Out /\ q \in Request /\ sync \in Nat
  BY <1>1, HeadIsOut DEF LookInv, Inv, SyncInv, Typed, ObjectOK
<1>3. CASE SpaceAnswer
  <2>1. ~tainted => q.kind = "space"
    BY <1>1, <1>2, <1>3 DEF SpaceAnswer, Expected
  <2> QED BY <1>1, <1>3, <2>1, ReadSpaces DEF SpaceAnswer
<1>4. CASE IndexAnswer
  <2>1. ~tainted => q.kind = "index"
    BY <1>1, <1>2, <1>4 DEF IndexAnswer, Expected
  <2> QED BY <1>1, <1>4, <2>1, ReadIndexes DEF IndexAnswer
<1>5. CASE AuthSpaces
  <2>1. ASSUME ~tainted, q.kind = "indexes", q.sync = sync - 1 PROVE FALSE
    <3>1. sync - 1 \in Nat /\ (sync - 1) - 1 = sync - 2
      BY <1>2, <2>1 DEF Request
    <3>2. Wire(sync - 1) = Wire(sync - 2)
      BY <1>5, <2>1 DEF AuthSpaces, AuthWire
    <3> QED BY <3>1, <3>2, WireApart
  <2>2. ~tainted => q.kind \in {"spaces", "auth"}
    BY <1>1, <1>2, <1>5, <2>1 DEF AuthSpaces, Expected
  <2> QED BY <1>1, <1>5, <2>2, ReadSpaces DEF AuthSpaces
<1>6. CASE AuthIndexes
  <2>1. ~tainted => q.kind \in {"indexes", "auth"}
    BY <1>1, <1>2, <1>6 DEF AuthIndexes, AuthWire, Expected
  <2> QED BY <1>1, <1>6, <2>1, ReadIndexes DEF AuthIndexes
<1> QED BY <1>3, <1>4, <1>5, <1>6

LEMMA NextCache == ASSUME SyncWidth > 1, LookInv, Next PROVE CacheInv'
<1>1. CacheInv
  BY DEF LookInv
<1>2. CASE Script
  <2>1. CASE FlushSchema
    BY <2>1, FlushedCache DEF FlushSchema
  <2>2. CASE \/ Ping \/ CallProc \/ Eval \/ Insert \/ Replace \/ Upsert
             \/ Delete \/ Select \/ Update
    <3>1. cache' = cache /\ dirty' = dirty /\ tainted' = tainted
      BY <2>2 DEF Ping, CallProc, Eval, Insert, Replace, Upsert, Delete, Select,
                  Update, StartRequest, object, taint
    <3> QED BY <1>1, <3>1, SameCache
  <2>3. CASE Authenticate \/ Connect \/ Reconnect \/ CloseMethod
    <3>1. cache' = cache /\ dirty' = dirty /\ (tainted' => tainted)
      BY <2>3 DEF Authenticate, Connect, Reconnect, CloseMethod, Close, object,
                  taint
    <3> QED BY <1>1, <3>1, SameCache
  <2> QED BY <1>2, <2>1, <2>2, <2>3 DEF Script
<1>3. CASE Server
  <2>1. cache' = cache /\ dirty' = dirty /\ tainted' = tainted
    BY <1>3 DEF Server, ServerAnswers, ServerLeaves, object, taint
  <2> QED BY <1>1, <2>1, SameCache
<1>4. CASE \/ Demand \/ EofSeen \/ EofNotSeen \/ OpenFails \/ RetrySleep
           \/ OpenSucceeds \/ ReadGreeting \/ AuthShortRead \/ AuthGarbage
           \/ AuthNoRows
  <2>1. cache' = cache
    BY <1>4 DEF Demand, EofSeen, EofNotSeen, OpenFails, RetrySleep, OpenSucceeds,
                ReadGreeting, AuthShortRead, AuthGarbage, AuthNoRows, object
  <2>2. (dirty' = dirty /\ (tainted' => tainted)) \/ Taint
    BY <1>4 DEF Demand, EofSeen, EofNotSeen, OpenFails, RetrySleep, OpenSucceeds,
                ReadGreeting, AuthShortRead, AuthGarbage, AuthNoRows, Close, taint
  <2> QED BY <1>1, <2>1, <2>2, SameCache
<1>5. CASE AuthSend
  BY <1>5, FlushedCache DEF AuthSend
<1>6. CASE \/ Dispatch \/ SpaceKnown \/ SpaceLookup \/ LookupFails \/ IndexKnown
           \/ IndexLookup \/ BadArguments \/ SendRequest
  <2>1. cache' = cache
    BY <1>6 DEF Dispatch, SpaceKnown, SpaceLookup, LookupFails, IndexKnown,
                IndexLookup, BadArguments, SendRequest, SendLookup, object
  <2>2. \/ dirty' = dirty /\ (tainted' => tainted)
        \/ dirty' = (dirty \/ tainted')
        \/ Taint
    BY <1>6 DEF Dispatch, SpaceKnown, SpaceLookup, LookupFails, IndexKnown,
                IndexLookup, BadArguments, SendRequest, SendLookup, taint
  <2> QED BY <1>1, <2>1, <2>2, SameCache
<1>7. CASE RecvCloses \/ RecvKeeps \/ RecvRefused \/ RecvOk
  <2>1. cache' = cache /\ ((dirty' = dirty /\ (tainted' => tainted)) \/ Taint)
    BY <1>7 DEF RecvCloses, RecvKeeps, RecvRefused, RecvOk, Received, Close, taint
  <2> QED BY <1>1, <2>1, SameCache
<1> QED BY <1>2, <1>3, <1>4, <1>5, <1>6, <1>7, RowsCache DEF Next, Client

LEMMA NextLook ==
    ASSUME SyncWidth > 1
    PROVE  LookInv /\ [Next]_vars => LookInv'
<1> SUFFICES ASSUME LookInv, [Next]_vars PROVE LookInv'
  OBVIOUS
<1>1. Inv' /\ CleanInv'
  BY NextSync, NextStream DEF LookInv
<1>2. CASE Next
  BY <1>1, <1>2, NextShut, NextExpected, NextCache DEF LookInv
<1>3. CASE UNCHANGED vars
  <2>1. UNCHANGED <<pc, sync, cache, stream, peer, todo, inbox, tainted, dirty>>
    BY <1>3 DEF vars, method, object, net, taint
  <2>2. CacheInv' /\ Shut'
    BY <2>1, SameCache DEF LookInv, Shut
  <2>3. Expected'
    BY <2>1 DEF LookInv, Expected, Out, Answers
  <2> QED BY <1>1, <2>2, <2>3 DEF LookInv
<1> QED BY <1>2, <1>3

\* What the schema cache says of a name is what the server says of it, as long
\* as no stream was tainted since the last flush, if two numbers in a row differ
\* on the wire.
THEOREM CacheTruthHolds == SyncWidth > 1 => (Spec => []CacheTruth)
<1> SUFFICES ASSUME SyncWidth > 1 PROVE Spec => []CacheTruth
  OBVIOUS
<1>1. Init => LookInv
  <2> SUFFICES ASSUME Init PROVE LookInv
    OBVIOUS
  <2>1. Inv /\ CleanInv
    BY InitTyped, InitSync, InitStream DEF Init, Inv, CleanInv, Running
  <2>2. Shut /\ Expected /\ CacheInv
    BY EmptySaysTrue DEF Init, Shut, Expected, CacheInv, CacheTruth, SaysTrue
  <2> QED BY <2>1, <2>2 DEF LookInv
<1>2. LookInv /\ [Next]_vars => LookInv'
  BY NextLook
<1>3. LookInv => CacheTruth
  BY DEF LookInv, CacheInv
<1> QED BY <1>1, <1>2, <1>3, PTL DEF Spec

-----------------------------------------------------------------------------
(* The session.                                                            *)

\* The places of a request among those received, and of its answers.
InTodo(q, t) == {i \in DOMAIN t : t[i] = q}
InBox(q, b) == {i \in DOMAIN b : b[i].part = "answer" /\ b[i].to = q}

\* A request has one place at most.
Single(q, t, b) ==
    /\ \A i, j \in InTodo(q, t) : i = j
    /\ \A i, j \in InBox(q, b) : i = j
    /\ InTodo(q, t) = {} \/ InBox(q, b) = {}

\* The request a method waits for was received once at most, since the write
\* it was in was the first, and is answered once at most.
OwnOnce == pc = "recv" => Single(frame.own, todo, inbox)

LEMMA AppendBox ==
    ASSUME NEW b \in Seq(Message), NEW m \in Message, NEW q
    PROVE  /\ InBox(q, Append(b, m)) \subseteq InBox(q, b) \cup {Len(b) + 1}
           /\ ~(m.part = "answer" /\ m.to = q) => InBox(q, Append(b, m)) = InBox(q, b)
<1> DEFINE c == Append(b, m)
<1>1. DOMAIN c = 1..Len(b) + 1 /\ c[Len(b) + 1] = m
  OBVIOUS
<1>2. \A i \in DOMAIN b : i \in DOMAIN c /\ c[i] = b[i]
  OBVIOUS
<1>3. \A i \in DOMAIN c : i \in DOMAIN b \/ i = Len(b) + 1
  BY <1>1
<1> HIDE DEF c
<1>4. ASSUME NEW i \in InBox(q, c) PROVE i \in InBox(q, b) \/ i = Len(b) + 1
  BY <1>2, <1>3 DEF InBox
<1>5. InBox(q, b) \subseteq InBox(q, c)
  BY <1>2 DEF InBox
<1>6. (m.part = "answer" /\ m.to = q) \/ Len(b) + 1 \notin InBox(q, c)
  BY <1>1 DEF InBox
<1>7. InBox(q, c) \subseteq InBox(q, b) \cup {Len(b) + 1}
  BY <1>4
<1>8. ~(m.part = "answer" /\ m.to = q) => InBox(q, c) = InBox(q, b)
  BY <1>4, <1>5, <1>6
<1> QED BY <1>7, <1>8 DEF c

LEMMA AnsweredSingle ==
    ASSUME NEW q, NEW t \in Seq(Request), NEW b \in Seq(Message), Single(q, t, b),
           NEW i \in DOMAIN t, NEW ok \in BOOLEAN
    PROVE  Single(q, RemoveAt(t, i), Append(b, Answer(t[i], ok)))
<1> DEFINE u == RemoveAt(t, i)
           m == Answer(t[i], ok)
           c == Append(b, m)
<1>1. /\ u \in Seq(Request) /\ i \in Nat
      /\ \A j \in DOMAIN u :
            /\ j < i => j \in DOMAIN t /\ u[j] = t[j]
            /\ j >= i => j + 1 \in DOMAIN t /\ u[j] = t[j + 1]
  BY Removed
<1>2. m \in Message /\ m.to = t[i]
  BY DEF Answer, Message, Part
<1>3. /\ InBox(q, c) \subseteq InBox(q, b) \cup {Len(b) + 1}
      /\ t[i] # q => InBox(q, c) = InBox(q, b)
  BY <1>2, AppendBox
<1> HIDE DEF u, m, c
<1>4. ASSUME NEW j \in InTodo(q, u)
      PROVE  /\ j \in Nat
             /\ j < i => j \in InTodo(q, t)
             /\ j >= i => j + 1 \in InTodo(q, t)
  BY <1>1 DEF InTodo
<1>5. ASSUME t[i] = q PROVE Single(q, u, c)
  <2>1. i \in InTodo(q, t) /\ InBox(q, b) = {}
    BY <1>5 DEF InTodo, Single
  <2>2. ASSUME NEW j \in InTodo(q, u) PROVE FALSE
    <3>1. j < i \/ j >= i
      BY <1>1, <1>4
    <3> QED BY <1>1, <1>4, <2>1, <3>1 DEF Single
  <2>3. InTodo(q, u) = {}
    BY <2>2
  <2>4. InBox(q, c) \subseteq {Len(b) + 1}
    BY <1>3, <2>1
  <2> QED BY <2>3, <2>4 DEF Single
<1>6. ASSUME t[i] # q PROVE Single(q, u, c)
  <2>1. InBox(q, c) = InBox(q, b)
    BY <1>3, <1>6
  <2>2. ASSUME NEW j \in InTodo(q, u), NEW k \in InTodo(q, u) PROVE j = k
    <3>1. /\ j \in Nat /\ k \in Nat /\ i \in Nat
          /\ j < i \/ j >= i
          /\ k < i \/ k >= i
      BY <1>1, <1>4
    <3>2. i \notin InTodo(q, t)
      BY <1>6 DEF InTodo
    <3> QED BY <1>4, <3>1, <3>2 DEF Single
  <2>3. InTodo(q, t) = {} => InTodo(q, u) = {}
    BY <1>1, <1>4
  <2> QED BY <2>1, <2>2, <2>3 DEF Single
<1> QED BY <1>5, <1>6 DEF u, m, c

\* The request encoded last has one place in its write, and in what the server
\* receives of it.
LEMMA SentSingle ==
    ASSUME NEW q, NEW reqs \in Seq(Request), NEW t \in Seq(Request),
           NEW b \in Seq(Message), NEW k \in Nat, NEW got, Run(got, reqs, k),
           \A i \in DOMAIN reqs : i < Len(reqs) => reqs[i] # q,
           q \notin Range(t), q \notin Answers(b)
    PROVE  Single(q, t \o got, b)
<1>1. got \in Seq(Request) /\ Len(got) \in Nat /\ Len(t) \in Nat
      /\ Len(reqs) \in Nat /\ k + Len(got) <= Len(reqs)
  BY DEF Run
<1>2. InBox(q, b) = {}
  BY DEF InBox, Answers
<1>3. ASSUME NEW i \in InTodo(q, t \o got) PROVE i = Len(t) + Len(got)
  <2>1. i \in DOMAIN (t \o got) /\ (t \o got)[i] = q
    BY DEF InTodo
  <2>2. ~(i \in DOMAIN t /\ (t \o got)[i] = t[i])
    BY <2>1 DEF Range
  <2>3. /\ i > Len(t) /\ i - Len(t) \in DOMAIN got
        /\ (t \o got)[i] = got[i - Len(t)]
    BY <1>1, <2>1, <2>2, Concatenated
  <2> DEFINE j == i - Len(t)
  <2>4. i \in Nat /\ j \in 1..Len(got) /\ got[j] = q
    BY <1>1, <2>1, <2>3
  <2>5. i = Len(t) + j
    BY <1>1, <2>4
  <2> HIDE DEF j
  <2>6. reqs[k + j] = q /\ k + j \in DOMAIN reqs
    BY <1>1, <2>4 DEF Run
  <2>7. ~(k + j < Len(reqs))
    BY <2>6
  <2>8. j \in Nat /\ j <= Len(got) /\ k + j >= Len(reqs)
    BY <1>1, <2>4, <2>6, <2>7
  <2>9. j = Len(got)
    BY <1>1, <2>8
  <2> QED BY <2>5, <2>9
<1> QED BY <1>2, <1>3 DEF Single

LEMMA RequestOnce ==
    ASSUME Inv, SendRequest, pc' = "recv"
    PROVE  OwnOnce'
<1> DEFINE q == Req(sync, "data", frame.space, None)
           reqs == Append(wbuf, q)
<1>1. /\ sync \in Nat /\ wbuf \in Seq(Request) /\ todo \in Seq(Request)
      /\ inbox \in Seq(Message) /\ torn \in BOOLEAN
      /\ \A r \in Range(wbuf) : r.sync < sync
      /\ \A r \in Out : r.sync < sync
  BY DEF Inv, SyncInv, Typed, ObjectOK, NetOK
<1>2. q \in Request /\ q.sync = sync
  BY <1>1 DEF SendRequest, Req, Request, Kinds, Inv, Typed, MethodOK, LocalOK
<1>3. SendSucceeds(reqs) /\ frame' = [frame EXCEPT !.own = q]
  BY DEF SendRequest, Return
<1>4. frame'.own = q /\ inbox' = inbox
  BY <1>3 DEF SendSucceeds, Inv, Typed, MethodOK, Frame
<1> HIDE DEF q
<1>5. /\ reqs \in Seq(Request) /\ Len(reqs) = Len(wbuf) + 1
      /\ \A i \in DOMAIN reqs : i < Len(reqs) => i \in DOMAIN wbuf /\ reqs[i] = wbuf[i]
  BY <1>1, <1>2
<1> HIDE DEF reqs
<1>6. q \notin Range(wbuf) /\ q \notin Out
  BY <1>1, <1>2
<1>7. \A i \in DOMAIN reqs : i < Len(reqs) => reqs[i] # q
  BY <1>5, <1>6 DEF Range
<1>8. PICK k \in Nat, got \in Seq(Request) :
         Run(got, reqs, k) /\ todo' = todo \o got
  BY <1>1, <1>3, <1>5, SendRun
<1>9. q \notin Range(todo) /\ q \notin Answers(inbox)
  BY <1>6 DEF Out
<1>10. Single(q, todo \o got, inbox)
  BY <1>1, <1>5, <1>7, <1>8, <1>9, SentSingle
<1> QED BY <1>4, <1>8, <1>10 DEF OwnOnce

LEMMA NextOnce == Inv /\ OwnOnce /\ [Next]_vars => OwnOnce'
<1> SUFFICES ASSUME Inv, OwnOnce, [Next]_vars, pc' = "recv" PROVE OwnOnce'
  BY DEF OwnOnce
<1>1. inbox \in Seq(Message) /\ todo \in Seq(Request)
  BY DEF Inv, Typed, NetOK
<1>2. CASE ServerAnswers
  <2>1. UNCHANGED <<pc, frame>>
    BY <1>2 DEF ServerAnswers, method
  <2>2. PICK i \in DOMAIN todo, ok \in BOOLEAN :
           /\ inbox' = Append(inbox, Answer(todo[i], ok))
           /\ todo' = RemoveAt(todo, i)
    BY <1>2 DEF ServerAnswers
  <2> QED BY <1>1, <2>1, <2>2, AnsweredSingle DEF OwnOnce
<1>3. CASE ServerLeaves
  <2>1. UNCHANGED <<pc, frame>> /\ todo' = <<>>
    BY <1>3 DEF ServerLeaves, method
  <2>2. Junk \in Message /\ Junk.part # "answer"
    BY DEF Junk, Message, Part
  <2>3. InBox(frame.own, inbox') = InBox(frame.own, inbox)
    BY <1>1, <1>3, <2>2, AppendBox DEF ServerLeaves
  <2>4. InTodo(frame.own, <<>>) = {}
    BY DEF InTodo
  <2> QED BY <2>1, <2>3, <2>4 DEF OwnOnce, Single
<1>4. CASE UNCHANGED vars
  BY <1>4 DEF vars, method, net, OwnOnce
<1>5. CASE Script
  BY <1>5 DEF Script, Ping, CallProc, Eval, Insert, Replace, Upsert, Delete,
     Select, Update, Authenticate, Connect, Reconnect, FlushSchema,
     CloseMethod, StartRequest, Opening, Return
<1>6. CASE Client
  <2>1. SendRequest
    <3>1. CASE RecvCloses \/ RecvKeeps \/ RecvRefused \/ RecvOk
      BY <3>1, RecvQuiet
    <3>2. CASE \/ Dispatch \/ SpaceKnown \/ IndexKnown \/ BadArguments
               \/ LookupFails \/ SpaceAnswer \/ IndexAnswer
      BY <3>2, BodyQuiet
    <3>3. CASE \/ Demand \/ EofSeen \/ EofNotSeen \/ OpenFails \/ RetrySleep
               \/ OpenSucceeds \/ ReadGreeting
      BY <3>3, ConnectingQuiet
    <3>4. CASE \/ AuthShortRead \/ AuthGarbage \/ AuthNoRows \/ AuthSpaces
               \/ AuthIndexes
      BY <3>4, AuthQuiet
    <3>5. ~AuthSend
      BY DEF AuthSend, Goto, Return
    <3>6. ~SpaceLookup /\ ~IndexLookup
      BY DEF SpaceLookup, IndexLookup, SendLookup, Goto, Return
    <3> QED BY <1>6, <3>1, <3>2, <3>3, <3>4, <3>5, <3>6 DEF Client
  <2> QED BY <2>1, RequestOnce
<1> QED BY <1>2, <1>3, <1>4, <1>5, <1>6 DEF Next, Server

LEMMA OnceHolds == Spec => []OwnOnce
<1>1. Init => OwnOnce
  BY DEF Init, OwnOnce
<1> QED BY <1>1, NextOnce, InvHolds, PTL DEF Spec

-----------------------------------------------------------------------------
(* Every step of the client is a step of the session.                      *)

LEMMA SessionStarts == Init => Session!SessionInit
BY NoAnswers, EmptyBuffer
DEF Init, Session!SessionInit, Session!Outcomes, Session!Nothing, Outcome, Out

LEMMA QuietOpen ==
    ASSUME Quiet PROVE {q.sync : q \in Out'} \subseteq {q.sync : q \in Out}
BY DEF Quiet

LEMMA ScriptBegins == ASSUME Inv, Script PROVE Session!Begin
<1>1. Quiet /\ pc' # "recv"
  BY ScriptQuiet
<1>2. pc = "idle"
  BY DEF Script, Ping, CallProc, Eval, Insert, Replace, Upsert, Delete,
     Select, Update, Authenticate, Connect, Reconnect, FlushSchema,
     CloseMethod, StartRequest, MayStart
<1> QED BY <1>1, <1>2, QuietOpen
        DEF Session!Begin, Session!Outcomes, Outcome, Quiet

LEMMA QuietProceeds ==
    ASSUME Quiet, pc \notin {"idle", "recv"}, pc' # "recv"
    PROVE  Session!Proceed \/ Session!Finish
BY QuietOpen DEF Session!Proceed, Session!Finish, Session!Outcomes,
   Session!Nothing, Outcome, Quiet

LEMMA StutterProceeds ==
    ASSUME Quiet, UNCHANGED <<pc, frame, result>> PROVE Session!Proceed
BY QuietOpen DEF Session!Proceed, Outcome, Quiet

\* What is written is numbered anew or was kept after a write that failed, and
\* what is received is one or the other.
LEMMA SendIssues ==
    ASSUME Inv, Inv', NEW reqs \in Seq(Request), NEW n \in Nat, n > sync,
           sync' = n, \A q \in Range(reqs) : q.sync < n /\ q.sync \notin written,
           SendSucceeds(reqs) \/ SendFails(reqs), pc \notin {"idle", "recv"}
    PROVE  Session!Issue
<1>1. sync \in Nat
  BY DEF Inv, Typed, ObjectOK
<1>2. Out' \subseteq Out \cup Range(reqs)
  BY SentOut
<1>3. written' \subseteq 0..sync' - 1
  <2>1. written' \subseteq Nat /\ \A s \in written' : s < sync'
    BY DEF Inv, SyncInv, Typed, WrittenOK
  <2> QED BY <2>1
<1>4. written \subseteq written'
  BY DEF SendSucceeds, SendFails
<1>5. \A q \in Range(reqs) : q.sync \in Nat
  <2>1. Range(reqs) \subseteq Request
    BY DEF Range
  <2> QED BY <2>1 DEF Request
<1>6. {q.sync : q \in Out'}
        \subseteq {q.sync : q \in Out} \cup (0..sync' - 1 \ written)
  BY <1>1, <1>2, <1>5
<1> QED BY <1>1, <1>3, <1>4, <1>6 DEF Session!Issue, Session!Nothing

LEMMA AuthPrepares == ASSUME Inv, Inv', AuthSend PROVE Session!Prepare
<1>1. sync \in Nat /\ \A s \in written : s < sync
  BY DEF Inv, SyncInv, Typed, ObjectOK
<1>2. /\ AuthBatch \in Seq(Request)
      /\ Range(AuthBatch) = {Ask(sync, "auth"), Ask(sync + 1, "spaces"),
                             Ask(sync + 2, "indexes")}
  <2>1. /\ Ask(sync, "auth") \in Request
        /\ Ask(sync + 1, "spaces") \in Request
        /\ Ask(sync + 2, "indexes") \in Request
    BY <1>1 DEF Ask, Req, Request, Kinds
  <2> QED BY <2>1 DEF AuthBatch, Range
<1>3. \A q \in Range(AuthBatch) : q.sync \in {sync, sync + 1, sync + 2}
  BY <1>2 DEF Ask, Req
<1>4. \A q \in Range(AuthBatch) : q.sync < sync + 3 /\ q.sync \notin written
  BY <1>1, <1>3
<1>5. sync + 3 \in Nat /\ sync + 3 > sync
  BY <1>1
<1>6. Session!Issue
  BY <1>2, <1>4, <1>5, SendIssues DEF AuthSend
<1>7. CASE Goto("auth_recv")
  BY <1>6, <1>7 DEF AuthSend, Goto, Session!Prepare, Outcome
<1>8. CASE Return("silent")
  BY <1>6, <1>8 DEF AuthSend, Return, Session!Prepare, Outcome
<1> QED BY <1>7, <1>8 DEF AuthSend

LEMMA LookupPrepares ==
    ASSUME Inv, Inv', NEW q \in Request, q.sync = sync, pc \in {"space", "index"},
           NEW step \in {"space_recv", "index_recv"}, SendLookup(q, step)
    PROVE  Session!Prepare
<1>1. sync \in Nat /\ \A s \in written : s < sync
  BY DEF Inv, SyncInv, Typed, ObjectOK
<1>2. <<q>> \in Seq(Request) /\ Range(<<q>>) = {q}
  BY DEF Range
<1>3. \A r \in Range(<<q>>) : r.sync < sync + 1 /\ r.sync \notin written
  BY <1>1, <1>2
<1>4. sync + 1 \in Nat /\ sync + 1 > sync
  BY <1>1
<1>5. Session!Issue
  BY <1>2, <1>3, <1>4, SendIssues DEF SendLookup
<1>6. CASE Goto(step)
  BY <1>5, <1>6 DEF Goto, Session!Prepare, Outcome
<1>7. CASE Return("silent")
  BY <1>5, <1>7 DEF Return, Session!Prepare, Outcome
<1> QED BY <1>6, <1>7 DEF SendLookup

LEMMA LookupsPrepare ==
    ASSUME Inv, Inv', SpaceLookup \/ IndexLookup PROVE Session!Prepare
BY LookupRequests, LookupPrepares

LEMMA RequestAsks ==
    ASSUME Inv, Inv', SendRequest PROVE Session!Ask \/ Session!Prepare
<1> DEFINE q == Req(sync, "data", frame.space, None)
           reqs == Append(wbuf, q)
<1>1. /\ sync \in Nat /\ wbuf \in Seq(Request)
      /\ \A s \in written : s < sync
      /\ \A r \in Range(wbuf) : r.sync < sync /\ r.sync \notin written
  BY DEF Inv, SyncInv, Typed, ObjectOK
<1>2. q \in Request /\ q.sync = sync
  BY <1>1 DEF SendRequest, Req, Request, Kinds, Inv, Typed, MethodOK, LocalOK
<1>3. /\ pc = "request" /\ sync' = sync + 1
      /\ \/ /\ SendSucceeds(reqs)
            /\ Goto("recv") /\ frame' = [frame EXCEPT !.own = q]
         \/ SendFails(reqs) /\ Return("silent")
  BY DEF SendRequest
<1> HIDE DEF q
<1>4. reqs \in Seq(Request) /\ Range(reqs) = Range(wbuf) \cup {q}
  <2>1. reqs \in Seq(Request) /\ DOMAIN reqs = 1..Len(wbuf) + 1
    BY <1>1, <1>2
  <2>2. \A i \in DOMAIN wbuf : i \in DOMAIN reqs /\ reqs[i] = wbuf[i]
    BY <1>1, <1>2
  <2>3. \A i \in DOMAIN reqs : i \in DOMAIN wbuf \/ reqs[i] = q
    BY <1>1, <1>2
  <2>4. Len(wbuf) + 1 \in DOMAIN reqs /\ reqs[Len(wbuf) + 1] = q
    BY <1>1, <1>2
  <2> HIDE DEF reqs
  <2> QED BY <2>1, <2>2, <2>3, <2>4 DEF Range
<1> HIDE DEF reqs
<1>5. \A r \in Range(reqs) : r.sync < sync + 1 /\ r.sync \notin written
  <2>1. \A r \in Range(wbuf) : r.sync \in Nat
    <3>1. Range(wbuf) \subseteq Request
      BY <1>1 DEF Range
    <3> QED BY <3>1 DEF Request
  <2> QED BY <1>1, <1>2, <1>4, <2>1
<1>6. sync + 1 \in Nat /\ sync + 1 > sync
  BY <1>1
<1>7. Session!Issue
  BY <1>3, <1>4, <1>5, <1>6, SendIssues
<1>8. CASE SendSucceeds(reqs) /\ Goto("recv") /\ frame' = [frame EXCEPT !.own = q]
  <2>1. frame'.own = q
    BY <1>8 DEF Inv, Typed, MethodOK, Frame
  <2>2. sync \in written'
    BY <1>2, <1>4, <1>8 DEF SendSucceeds
  <2>3. pc' = "recv" /\ Outcome' = Outcome
    BY <1>3, <1>8 DEF Goto, Outcome
  <2>4. sync' - 1 = sync
    BY <1>1, <1>3
  <2> QED BY <1>1, <1>2, <1>3, <1>7, <2>1, <2>2, <2>3, <2>4 DEF Session!Ask
<1>9. CASE Return("silent")
  BY <1>3, <1>7, <1>9 DEF Return, Session!Prepare, Outcome
<1> QED BY <1>3, <1>8, <1>9

LEMMA RecvEnds ==
    ASSUME Inv, OwnOnce, RecvCloses \/ RecvKeeps \/ RecvRefused \/ RecvOk
    PROVE  Session!Succeed \/ Session!Fail
<1>1. Quiet /\ pc = "recv" /\ pc' = "idle"
  BY RecvQuiet DEF RecvCloses, RecvKeeps, RecvRefused, RecvOk, Received, Return
<1>2. frame.own.sync = sync - 1 /\ frame.own.sync \in Nat
  BY <1>1 DEF Inv, SyncInv, Request
<1>3. CASE RecvCloses \/ RecvKeeps \/ RecvRefused
  <2>1. result' = "exception"
    BY <1>3 DEF RecvCloses, RecvKeeps, RecvRefused, Received, Return
  <2> QED BY <1>1, <1>2, <2>1, QuietOpen
          DEF Session!Fail, Session!Nothing, Outcome, Quiet
<1>4. CASE RecvOk
  <2>1. /\ result' = "true" /\ inbox' = Tail(inbox) /\ todo' = todo
        /\ inbox # <<>> /\ Head(inbox).part = "answer"
    BY <1>4 DEF RecvOk, Received, Return, WholeRead, Aligned
  <2>2. Head(inbox).to = frame.own
    BY <1>1, <1>4, <2>1, OwnAnswerStep DEF Next, Client
  <2>3. inbox \in Seq(Message) /\ Head(inbox) = inbox[1] /\ 1 \in DOMAIN inbox
    BY <2>1 DEF Inv, Typed, NetOK
  <2>4. Single(frame.own, todo, inbox) /\ 1 \in InBox(frame.own, inbox)
    BY <1>1, <2>1, <2>2, <2>3 DEF OwnOnce, InBox
  <2>5. frame.own \in Out /\ frame.own \notin Out'
    <3>1. frame.own \in Out
      BY <2>4 DEF InBox, Out, Answers
    <3>2. frame.own \notin Range(todo)
      BY <2>4 DEF Single, InTodo, Range
    <3>3. ASSUME NEW i \in DOMAIN Tail(inbox)
          PROVE  i \in Nat /\ i # 0 /\ i + 1 \in DOMAIN inbox
                   /\ Tail(inbox)[i] = inbox[i + 1]
      BY <2>1, <2>3
    <3>4. ASSUME NEW i \in DOMAIN Tail(inbox), Tail(inbox)[i].part = "answer",
                 Tail(inbox)[i].to = frame.own
          PROVE  FALSE
      <4>1. i + 1 \in InBox(frame.own, inbox)
        BY <3>3, <3>4 DEF InBox
      <4>2. i + 1 = 1
        BY <2>4, <4>1 DEF Single
      <4> QED BY <3>3, <4>2
    <3>5. frame.own \notin Answers(Tail(inbox))
      BY <3>4 DEF Answers
    <3> QED BY <2>1, <3>1, <3>2, <3>5 DEF Out
  <2>6. frame.own.sync \notin {q.sync : q \in Out'}
    BY <1>1, <1>2, <2>5 DEF Inv, SyncInv, Quiet
  <2>7. frame.own.sync \in {q.sync : q \in Out}
    BY <2>5
  <2> QED BY <1>1, <2>1, <2>6, <2>7, QuietOpen
          DEF Session!Succeed, Session!Nothing, Outcome, Quiet
<1> QED BY <1>3, <1>4

LEMMA NextSession ==
    Inv /\ Inv' /\ OwnOnce /\ [Next]_vars
      => [Session!SessionNext]_(Session!svars)
<1> SUFFICES ASSUME Inv, Inv', OwnOnce, [Next]_vars PROVE Session!SessionNext
  OBVIOUS
<1>1. CASE Script
  BY <1>1, ScriptBegins DEF Session!SessionNext
<1>2. CASE Server
  <2>1. UNCHANGED result
    BY <1>2 DEF Server, ServerAnswers, ServerLeaves, method
  <2> QED BY <1>2, <2>1, ServerQuiet, StutterProceeds DEF Session!SessionNext
<1>3. CASE UNCHANGED vars
  <2>1. Quiet /\ UNCHANGED <<pc, frame, result>>
    BY <1>3 DEF vars, method, object, net, Quiet, Out
  <2> QED BY <2>1, StutterProceeds DEF Session!SessionNext
<1>4. CASE AuthSend \/ SpaceLookup \/ IndexLookup \/ SendRequest
  BY <1>4, AuthPrepares, LookupsPrepare, RequestAsks DEF Session!SessionNext
<1>5. CASE RecvCloses \/ RecvKeeps \/ RecvRefused \/ RecvOk
  BY <1>5, RecvEnds DEF Session!SessionNext
<1>6. CASE Demand \/ EofSeen \/ EofNotSeen \/ OpenFails \/ RetrySleep
             \/ OpenSucceeds
             \/ ReadGreeting
  <2>1. pc \notin {"idle", "recv"}
    BY <1>6 DEF Demand, EofSeen, EofNotSeen, OpenFails, RetrySleep,
       OpenSucceeds,
                ReadGreeting
  <2> QED BY <1>6, <2>1, ConnectingQuiet, QuietProceeds DEF Session!SessionNext
<1>7. CASE AuthShortRead \/ AuthGarbage \/ AuthNoRows \/ AuthSpaces
             \/ AuthIndexes
  <2>1. pc = "auth_recv"
    BY <1>7 DEF AuthShortRead, AuthGarbage, AuthNoRows, AuthSpaces, AuthIndexes
  <2> QED BY <1>7, <2>1, AuthQuiet, QuietProceeds DEF Session!SessionNext
<1>8. CASE Dispatch \/ SpaceKnown \/ IndexKnown \/ BadArguments \/ LookupFails
             \/ SpaceAnswer \/ IndexAnswer
  <2>1. pc \notin {"idle", "recv"}
    BY <1>8 DEF Dispatch, SpaceKnown, IndexKnown, BadArguments, LookupFails,
                SpaceAnswer, IndexAnswer
  <2> QED BY <1>8, <2>1, BodyQuiet, QuietProceeds DEF Session!SessionNext
<1> QED BY <1>1, <1>2, <1>3, <1>4, <1>5, <1>6, <1>7, <1>8 DEF Next, Client

\* The client implements the session, for every catalog, every script, every
\* width of the sync field and every number of attempts: what bee_stream_send,
\* the lookups and bee_step_recv make of any stream is a call that succeeds
\* with the answer to its own request, which no other call is answered and
\* which, once a write of it has succeeded, no later write has in it.
THEOREM ClientIsSession == Spec => Promise
BY SessionStarts, NextSession, InvHolds, OnceHolds, PTL
DEF Spec, Promise, Session!SessionSpec

===============================================================================
