---------------------------- MODULE MCBeeRequests ----------------------------
(***************************************************************************)
(* BeeRequests with numbers scaled down: 2^10 for 2^32 and 2^12 for 2^63,  *)
(* and every step of the sizes of msgpack within reach.  Calls vary one    *)
(* argument at a time around a plain one.                                  *)
(***************************************************************************)
EXTENDS BeeAnswers

MCUintSteps == <<127, 255, 511, 1023>>
MCIntSteps  == <<32, 128, 256, 512>>
MCStrSteps  == <<3, 5, 7>>
MCSeqSteps  == <<1, 3>>
MCNumeric   == [n \in {"1"} |-> 1]
MCSpaceNos  == [n \in {"test"} |-> 300]
MCIndexNos  == [n \in {"isec"} |-> 1]
MCUpper     == [n \in {"eq", "Req", "bits_all_set", "neighbor", "oevrlps"} |->
    CASE n = "eq" -> "EQ" [] n = "Req" -> "REQ" [] n = "neighbor" -> "NEIGHBOR"
      [] n = "bits_all_set" -> "BITS_ALL_SET" [] OTHER -> "OEVRLPS"]
MCSyncs     == {1023}          \* the last a header holds: of the three requests of an
                               \* authentication, two are beyond it
MCLogins    == {[user |-> Str("test"), scramble |-> Str("scramble")],
                [user |-> Str("guest"), scramble |-> Nil]}

\* PHP's arrays: array($v, ...), and array($k => $v, ...).
S(s) == Str(s)
L(values) == ListOf(values)
A(pairs) == FoldLeft(LAMBDA arr, pair : Put(arr, pair[1], pair[2]), EmptyArr, pairs)
N(n) == Long(n)

MCTuples == {
    EmptyArr,
    L(<<N(128)>>), L(<<N(256)>>), L(<<N(-33)>>), L(<<N(-513)>>), L(<<N(2048)>>),
    L(<<S("some"), S("somethin"), Nil, Bool(TRUE), Dbl(0)>>),
    L(<<L(<<N(1), EmptyArr>>), A(<<<<S("lol"), L(<<N(600)>>)>>>>)>>),
    L(<<Object>>),
    A(<<<<N(2), S("maria")>>, <<N(5), S("db")>>>>),        \* MsgPackTest.php
    A(<<<<N(1), S("b")>>, <<N(0), S("a")>>>>),              \* a list, set backwards
    A(<<<<N(0), S("a")>>, <<S("lol"), N(1)>>>>),
    A(<<<<N(0), N(1)>>, <<N(1), N(2)>>, <<S("lol"), N(3)>>>>),
    A(<<<<N(-1), S("a")>>>>)}

MCKeys == {Nil, EmptyArr, N(1), S("hello"), L(<<N(1), S("hello")>>),
           A(<<<<S("id"), N(1)>>>>), A(<<<<N(1), N(7)>>>>)}

Op(sign, arg) == A(<<<<S("field"), N(1)>>, <<S("op"), S(sign)>>, <<S("arg"), arg>>>>)
Splice(list) == A(<<<<S("field"), N(1)>>, <<S("op"), S(":")>>, <<S("offset"), N(0)>>,
                    <<S("length"), N(2)>>, <<S("list"), list>>>>)
MCOps == {
    EmptyArr,
    L(<<Op("+", N(16)), Op("=", L(<<N(98)>>))>>), L(<<Op("!", Nil), Splice(S("x"))>>),
    L(<<Op("+", Dbl(1))>>), L(<<Op("=", Object)>>), L(<<Op("?", N(1))>>),
    L(<<Op("==", N(1))>>), L(<<Splice(N(1))>>), L(<<Op("#", N(1)), N(1)>>),
    L(<<L(<<N(1)>>)>>), A(<<<<S("a"), Op("+", N(1))>>>>),
    L(<<Put(Op("+", N(16)), S("more"), N(1))>>),
    L(<<A(<<<<S("op"), S("=")>>, <<S("arg"), N(1)>>>>)>>),
    L(<<A(<<<<S("op"), S("=")>>, <<S("field"), N(1)>>, <<S("args"), N(1)>>>>)>>),
    A(<<<<N(-1), Op("+", N(1))>>, <<N(1), Op("-", N(1))>>>>)}

PlainSelect == [method |-> "select", space |-> S("test"), key |-> Nil, index |-> Nil,
                limit |-> Nil, offset |-> 0, iterator |-> Nil]
PlainUpdate == [method |-> "update", space |-> N(512), key |-> N(1), ops |-> EmptyArr,
                index |-> Nil]
PlainUpsert == [method |-> "upsert", space |-> N(512), tuple |-> EmptyArr, ops |-> EmptyArr]
PlainDelete == [method |-> "delete", space |-> N(300), key |-> N(1), index |-> S("isec")]
Store(method, space, tuple) == [method |-> method, space |-> space, tuple |-> tuple]
Run(method, proc, args) == [method |-> method, proc |-> S(proc), args |-> args]

\* One call of each method: they are given every answer.
MCFewCalls ==
    {[method |-> "ping"], PlainSelect, Store("insert", N(128), L(<<N(1)>>)),
     Store("replace", N(128), L(<<N(-513)>>)), PlainDelete,
     [PlainUpdate EXCEPT !.ops = L(<<Op("+", N(16))>>)],
     [PlainUpdate EXCEPT !.ops = L(<<N(1)>>)],
     PlainUpsert, Run("call", "test_2", Nil), Run("eval", "return", N(1))}

MCCalls ==
    {[method |-> "ping"]}
    \cup {[PlainSelect EXCEPT !.space = v] : v \in {S("test"), S("none"), N(0), N(-1), Nil}}
    \cup {[PlainSelect EXCEPT !.key = v] : v \in MCKeys}
    \cup {[PlainSelect EXCEPT !.index = v] : v \in {S("isec"), S("none"), N(300), N(-1), Dbl(1)}}
    \cup {[PlainSelect EXCEPT !.limit = v] : v \in {N(0), N(1023), S("1")}}
    \cup {[PlainSelect EXCEPT !.offset = 100, !.limit = N(300)]}
    \cup {[PlainSelect EXCEPT !.key = N(1), !.iterator = v] :
            v \in {Nil, N(3), N(-1), S("eq"), S("Req"), S("bits_all_set"), S("neighbor"),
                   S("oevrlps"), EmptyArr}}
    \cup {Store("insert", N(128), v) : v \in MCTuples}
    \cup {Store("replace", v, L(<<N(1)>>)) : v \in {S("test"), S("none"), N(1)}}
    \cup {[PlainDelete EXCEPT !.key = v] : v \in MCKeys}
    \cup {[PlainUpdate EXCEPT !.ops = v] : v \in MCOps}
    \cup {[PlainUpdate EXCEPT !.key = v] : v \in {Nil, L(<<N(1), S("hello")>>)}}
    \cup {[PlainUpsert EXCEPT !.ops = v] : v \in
            {EmptyArr, L(<<Op("!", Nil), Splice(S("x"))>>), L(<<Op("=", Object)>>)}}
    \cup {Run("call", "test_2", v) : v \in MCKeys}
    \cup {Run("eval", "return", v) : v \in {Nil, L(<<N(3), N(4)>>)}}
    \cup MCFewCalls

\* A call that may fail: it looks its space and its index up.
MCFails == {[PlainSelect EXCEPT !.index = S("isec")]}

\* A tuple whose keys start below 0.
MCNegativeCalls ==
    {Store("insert", N(128), v) : v \in
        MCTuples \cup {A(<<<<N(-1), S("a")>>, <<N(1), S("b")>>>>)}}

Data(values) == [code |-> 0, body |-> <<<<N(DATA), [list |-> values]>>>>]
MCAllAnswers == {
    Data(<<>>),
    Data(<<[list |-> <<N(1), S("hello"), N(-5), Nil, Bool(FALSE)>>]>>),
    Data(<<[list |-> <<[list |-> <<>>], [float |-> 1], [double |-> 1], [bin |-> "raw"]>>]>>),
    Data(<<N(4095), N(4096), N(8191)>>),
    Data(<<[map |-> <<<<S("megusta"), [list |-> <<N(1)>>]>>, <<S("1"), N(7)>>,
                      <<N(-1), Nil>>>>]>>),
    Data(<<N(1), [map |-> <<<<[list |-> <<N(1)>>], N(1)>>>>]>>),
    Data(<<[map |-> <<<<[float |-> 1], N(1)>>>>]>>),
    Data(<<[map |-> <<<<Bool(TRUE), N(1)>>>>]>>),
    Data(<<N(1), [list |-> <<[ext |-> 1], N(2)>>]>>),
    [code |-> 0, body |-> <<>>],
    [code |-> 0, body |-> <<<<N(50), [list |-> <<N(1)>>]>>, <<N(DATA), [list |-> <<N(1)>>]>>>>],
    [code |-> 512 + 3, body |-> <<<<N(ERROR), S("Tuple found")>>>>],
    [code |-> 512 + 3, body |-> <<<<N(50), N(9)>>, <<N(ERROR), S("Tuple found")>>>>]}
MCAnswers ==
    [c \in MCCalls |->
        IF c \in MCFewCalls THEN MCAllAnswers ELSE {Data(<<>>)}]
MCPlainAnswers == [c \in MCNegativeCalls |-> {Data(<<>>)}]

\* The arguments of the calls, the fields of their requests, and what is in them.
RECURSIVE Below(_), Deep(_)
Below(v) ==
    {v} \cup (IF Is(v, "array") THEN UNION {Below(pair[2]) : pair \in ToSet(v.array)} ELSE {})
Deep(v) ==
    IF Is(v, "array") THEN 1 + Max({Deep(pair[2]) : pair \in ToSet(v.array)} \cup {0}) ELSE 0
DepthOver(calls) ==
    LET arguments == UNION {{c[p] : p \in DOMAIN c \ {"method", "offset"}} : c \in calls}
        fields == {f[2] : f \in UNION {ToSet(RequestOf(c).fields) : c \in calls \cup Own}}
    IN  [v \in UNION {Below(v) : v \in arguments \cup fields \cup {Nil}} |-> Deep(v)]
MCDepth == DepthOver(MCCalls)
MCNegativeDepth == DepthOver(MCNegativeCalls)

\* What the refinement of BeeMessages is proved from holds of these calls.
ASSUME CallsFit == Calls = MCCalls => NumbersFit /\ NoneMistaken
==============================================================================
