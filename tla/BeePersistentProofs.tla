-------------------------- MODULE BeePersistentProofs --------------------------
(***************************************************************************)
(* Who owns connections and streams, proved for any number of objects,     *)
(* connections and streams and any parameters.                             *)
(***************************************************************************)
EXTENDS BeePersistent, TLAPS

\* What an object points to was allocated; an object that is not persistent
\* has a private connection, a persistent one never has.
ObjectsOK ==
    \A o \in Objects : objects[o] # NoObject =>
        /\ objects[o].conn \in Conns
        /\ conns[objects[o].conn].state # "unused"
        /\ conns[objects[o].conn].of \in Params
        /\ IF objects[o].persistent THEN objects[o].conn \notin Private
           ELSE objects[o].conn \in Private

\* A connection has the parameters it was made with, no stream that was not
\* opened, and no id but of its own server and login; a private one has none.
ConnsOK ==
    \A c \in Conns :
        /\ conns[c].state = "live" => conns[c].of \in Params
        /\ conns[c].stream # None => streams[conns[c].stream].state # "unused"
        /\ conns[c].sid # None =>
              /\ conns[c].persistent
              /\ conns[c].sid.server = conns[c].of.server
              /\ conns[c].sid.login = conns[c].of.login

\* The id of an open stream names the server it goes to.
StreamsOK ==
    \A s \in Open(streams) : streams[s].id # None =>
        streams[s].id.server = streams[s].server

Owned == PoolOwns /\ PrivateOwned
Inv == TypeOK /\ ObjectsOK /\ ConnsOK /\ StreamsOK /\ Owned /\ RightStream
       /\ LostToTwin

-----------------------------------------------------------------------------
(* Keys and ids.                                                           *)

\* Different parameters have different keys, and no search finds a key that
\* was registered.
LEMMA KeysDiffer ==
    ASSUME NEW p \in Params, NEW q \in Params
    PROVE  /\ RegisterKey(p) \in Keys /\ FindKey(p) \in Keys
           /\ RegisterKey(p) = RegisterKey(q) => p = q
           /\ FindKey(p) # RegisterKey(q)
BY DEF RegisterKey, FindKey, Key, Keys, Reported

LEMMA IdType ==
    ASSUME NEW p \in Params, NEW x \in Suffixes
    PROVE  /\ StreamId(p, x) \in Ids /\ StreamId(p, x) # None
           /\ StreamId(p, x).server = p.server /\ StreamId(p, x).login = p.login
<1>1. p.server \in Servers /\ p.login \in Logins
  BY DEF Servers, Logins
<1>2. StreamId(p, x) \in Ids
  BY <1>1 DEF StreamId, Ids
<1> QED BY <1>2, PointersAssumption DEF StreamId

LEMMA ParamType ==
    ASSUME NEW p \in Params
    PROVE  p \in Ids /\ p # None /\ p.suffix \in Suffixes /\ p.server \in Servers
BY ParamsAssumption, PointersAssumption DEF Servers, Suffixes

\* So a search never succeeds: the list holds registered keys only.
LEMMA NeverFound ==
    ASSUME Inv, NEW p \in Params PROVE pool[FindKey(p)] = None
<1>1. FindKey(p) \in Keys
  BY KeysDiffer
<1>2. ASSUME pool[FindKey(p)] # None PROVE FALSE
  <2>1. /\ pool[FindKey(p)] \in Live
        /\ RegisterKey(conns[pool[FindKey(p)]].of) = FindKey(p)
    BY <1>1, <1>2 DEF Inv, Owned, PoolOwns
  <2>2. conns[pool[FindKey(p)]].of \in Params
    BY <2>1 DEF Inv, ConnsOK, Live
  <2> QED BY <2>1, <2>2, KeysDiffer
<1> QED BY <1>2

-----------------------------------------------------------------------------
(* Streams.                                                                *)

\* What happens to streams between a state and the next: s is as before, or
\* was closed, for which it had an id or was the stream the step may close.
Kept(s, mine, before, after) ==
    \/ after[s] = before[s]
    \/ /\ before[s].state = "open"
       /\ after[s] = [before[s] EXCEPT !.state = "closed"]
       /\ before[s].id # None \/ s = mine

SidOK(conn) ==
    conn.sid # None => /\ conn.persistent
                       /\ conn.sid.server = conn.of.server
                       /\ conn.sid.login = conn.of.login

NamesServer(ss) ==
    \A s \in Open(ss) : ss[s].id # None => ss[s].id.server = ss[s].server

LEMMA ShutKeeps ==
    ASSUME NEW ss \in [Streams -> StreamType], NEW which,
           NEW mine, \A s \in which : s \in Open(ss) /\ (ss[s].id # None \/ s = mine),
           NamesServer(ss)
    PROVE  /\ Shut(which, ss) \in [Streams -> StreamType]
           /\ \A s \in Streams : Kept(s, mine, ss, Shut(which, ss))
           /\ \A s \in which : s \notin Open(Shut(which, ss))
           /\ NamesServer(Shut(which, ss))
BY DEF Shut, Open, Kept, NamesServer, StreamType

\* A connection without a stream may have got one in r: one that was found
\* under an id of its server and login, or a new one.
Gains(conn, ss, r) ==
    /\ r.conn \in ConnType /\ r.streams \in [Streams -> StreamType]
    /\ r.conn.state = conn.state /\ r.conn.of = conn.of
    /\ r.conn.persistent = conn.persistent
    /\ SidOK(r.conn) /\ NamesServer(r.streams)
    /\ \A s \in Streams : s # r.conn.stream => Kept(s, None, ss, r.streams)
    /\ r.conn.stream # None =>
          LET s == r.conn.stream IN
          /\ s \in Open(r.streams)
          /\ r.streams[s].server = conn.of.server
          /\ IF conn.persistent
             THEN r.streams[s].id # None /\ r.streams[s].id.login = conn.of.login
             ELSE r.streams[s].id = None
          /\ \/ ss[s].state = "unused"
             \/ r.streams[s] = ss[s] /\ ss[s].id # None

LEMMA ConnectedGains ==
    ASSUME NEW conn \in ConnType, NEW ss \in [Streams -> StreamType],
           conn.of \in Params, conn.stream = None, SidOK(conn),
           NamesServer(ss), NEW r \in Connected(conn, ss)
    PROVE  Gains(conn, ss, r)
<1> DEFINE x == StreamId(conn.of, None)
<1>1. /\ x \in Ids /\ x # None
      /\ x.server = conn.of.server /\ x.login = conn.of.login
      /\ conn.of.server \in Servers
  BY IdType, ParamType DEF Suffixes
<1> HIDE DEF x
\* A stream that is found.
<1>2. ASSUME NEW sid \in Ids, sid # None, sid.server = conn.of.server,
             sid.login = conn.of.login, conn.persistent, NEW s \in Under(sid, ss),
             r = [conn |-> [conn EXCEPT !.sid = sid, !.stream = s], streams |-> ss]
      PROVE  Gains(conn, ss, r)
  <2>1. /\ r.conn \in ConnType /\ r.streams = ss
        /\ r.conn.state = conn.state /\ r.conn.of = conn.of
        /\ r.conn.persistent = conn.persistent
        /\ SidOK(r.conn) /\ r.conn.stream = s
        /\ s \in Open(ss) /\ ss[s].id = sid
    BY <1>2 DEF Under, Open, SidOK, ConnType
  <2>2. ss[s].server = conn.of.server
    BY <1>2, <2>1 DEF NamesServer
  <2>3. \A t \in Streams : Kept(t, None, ss, ss)
    BY DEF Kept
  <2> QED BY <1>2, <2>1, <2>2, <2>3 DEF Gains
<1>3. ASSUME r \in Opened(conn, ss) PROVE Gains(conn, ss, r)
  <2> DEFINE sid  == IF conn.persistent THEN x ELSE None
             here == [conn EXCEPT !.sid = sid]
             left == Shut(Under(sid, ss), ss)
             new  == [state |-> "open", id |-> sid, server |-> conn.of.server]
  <2>1. /\ left \in [Streams -> StreamType] /\ NamesServer(left)
        /\ \A s \in Streams : Kept(s, None, ss, left)
    <3>1. \A s \in Under(sid, ss) : s \in Open(ss) /\ (ss[s].id # None \/ s = None)
      BY DEF Under
    <3> QED BY <3>1, ShutKeeps
  <2>2. here \in ConnType /\ SidOK(here) /\ here.stream = None
        /\ here.state = conn.state /\ here.of = conn.of
        /\ here.persistent = conn.persistent
    BY <1>1 DEF ConnType, SidOK
  <2>3. new \in StreamType
    BY <1>1 DEF StreamType
  <2>4. ASSUME NEW s \in Under(sid, ss),
               r = [conn |-> [here EXCEPT !.stream = s], streams |-> ss]
        PROVE  Gains(conn, ss, r)
    <3>1. conn.persistent /\ sid = x
      BY <2>4 DEF Under
    <3>2. r = [conn |-> [conn EXCEPT !.sid = x, !.stream = s], streams |-> ss]
      BY <2>4, <3>1 DEF ConnType
    <3>3. s \in Under(x, ss)
      BY <3>1
    <3> HIDE DEF sid, here, left, new
    <3> QED BY <1>1, <1>2, <3>1, <3>2, <3>3
  <2>5. CASE r = [conn |-> here, streams |-> left]
    <3>1. r.conn = here /\ r.streams = left
      BY <2>5
    <3> HIDE DEF here, left
    <3> QED BY <2>1, <2>2, <3>1 DEF Gains
  <2>6. ASSUME NEW s \in Streams, ss[s].state = "unused",
               r = [conn |-> [here EXCEPT !.stream = s],
                    streams |-> [left EXCEPT ![s] = new]]
        PROVE  Gains(conn, ss, r)
    <3>1. sid # None => sid.server = conn.of.server /\ sid.login = conn.of.login
      BY <1>1
    <3>2. conn.persistent <=> sid # None
      BY <1>1
    <3>3. new.id = sid /\ new.server = conn.of.server /\ new.state = "open"
      OBVIOUS
    <3>4. s # None
      BY PointersAssumption
    <3> HIDE DEF sid, here, left, new
    <3>5. r.conn \in ConnType /\ r.streams \in [Streams -> StreamType]
      BY <2>1, <2>2, <2>3, <2>6 DEF ConnType
    <3>6. /\ r.conn.stream = s /\ r.conn.state = conn.state
          /\ r.conn.of = conn.of /\ r.conn.persistent = conn.persistent
          /\ r.conn.sid = here.sid
      BY <2>2, <2>6 DEF ConnType
    <3>7. SidOK(r.conn)
      BY <2>2, <3>6 DEF SidOK
    <3>8. r.streams[s] = new /\ \A t \in Streams \ {s} : r.streams[t] = left[t]
      BY <2>1, <2>6
    <3>9. NamesServer(r.streams)
      BY <2>1, <3>1, <3>3, <3>8 DEF NamesServer, Open
    <3>10. \A t \in Streams : t # s => Kept(t, None, ss, r.streams)
      BY <2>1, <3>8 DEF Kept
    <3>11. s \in Open(r.streams)
      BY <3>3, <3>8 DEF Open
    <3>12. /\ r.streams[s].server = conn.of.server
           /\ IF conn.persistent
              THEN r.streams[s].id # None
                   /\ r.streams[s].id.login = conn.of.login
              ELSE r.streams[s].id = None
      BY <3>1, <3>2, <3>3, <3>8
    <3>13. ss[s].state = "unused"
      BY <2>6
    <3>14. \A t \in Streams : t # r.conn.stream => Kept(t, None, ss, r.streams)
      BY <3>6, <3>10
    <3> QED BY ONLY <3>5, <3>6, <3>7, <3>9, <3>11, <3>12, <3>13, <3>14 DEF Gains
  <2> QED
    <3>1. \/ \E s \in Under(sid, ss) :
                r = [conn |-> [here EXCEPT !.stream = s], streams |-> ss]
          \/ r = [conn |-> here, streams |-> left]
          \/ \E s \in {t \in Streams : ss[t].state = "unused"} :
                r = [conn |-> [here EXCEPT !.stream = s],
                     streams |-> [left EXCEPT ![s] = new]]
      BY <1>3 DEF Opened, x
    <3> HIDE DEF sid, here, left, new
    <3> QED BY <2>4, <2>5, <2>6, <3>1
<1>4. CASE r \notin Opened(conn, ss)
  <2> DEFINE sid == IF conn.sid = None THEN x ELSE conn.sid
  <2>1. PICK s \in Under(sid, ss) : conn.persistent
             /\ r = [conn |-> [conn EXCEPT !.sid = sid, !.stream = s],
                     streams |-> ss]
    BY <1>4 DEF Connected, x
  <2>2. sid \in Ids /\ sid # None /\ sid.server = conn.of.server
        /\ sid.login = conn.of.login
    BY <1>1 DEF SidOK, ConnType
  <2> HIDE DEF sid
  <2> QED BY <1>2, <2>1, <2>2
<1> QED BY <1>3, <1>4

-----------------------------------------------------------------------------
(* Steps.                                                                  *)

LEMMA InvInit == Init => Inv
<1> SUFFICES ASSUME Init PROVE Inv
  OBVIOUS
<1> USE DEF Init
<1>1. TypeOK
  BY DEF TypeOK, ObjectType, ConnType, StreamType, NoObject, NoConn, NoStream
<1>2. Live = {} /\ Private = {} /\ Open(streams) = {}
  BY DEF Live, Private, Open, NoConn, NoStream
<1>3. \A o \in Objects : objects[o] = NoObject
  OBVIOUS
<1>4. ConnsOK
  BY DEF ConnsOK, NoConn
<1>5. PoolOwns /\ PrivateOwned
  BY <1>2, <1>3 DEF PoolOwns, PrivateOwned
<1> QED
  BY <1>1, <1>2, <1>3, <1>4, <1>5
  DEF Inv, Owned, ObjectsOK, StreamsOK, RightStream, LostToTwin

\* A connection of the list, or private, is live and allocated; the stream of
\* a persistent one has an id.
LEMMA LiveFacts ==
    ASSUME Inv, NEW c \in Live
    PROVE  /\ c \in Conns /\ c # None /\ conns[c] \in ConnType
           /\ conns[c].of \in Params /\ SidOK(conns[c])
           /\ conns[c].persistent <=> c \notin Private
<1>1. c \in Conns /\ conns[c].state = "live"
  BY DEF Live
<1>2. conns[c] \in ConnType
  BY <1>1 DEF Inv, TypeOK
<1>3. c # None
  BY <1>1, PointersAssumption
<1> QED BY <1>1, <1>2, <1>3 DEF Inv, ConnsOK, SidOK, Private, ConnType

\* What bee_stream_close closes: streams with an id, or the connection's own.
LEMMA HeldFacts ==
    ASSUME Inv, NEW c \in Live, Sound(c), NEW s \in Held(conns[c], streams)
    PROVE  /\ s \in Open(streams)
           /\ conns[c].persistent => streams[s].id # None
           /\ streams[s].id # None \/ s = conns[c].stream
<1>1. CASE conns[c].stream # None
  <2>1. s = conns[c].stream /\ s \in Open(streams)
    BY <1>1 DEF Held, Sound
  <2>2. conns[c].persistent => streams[s].id # None
    BY <2>1 DEF Inv, RightStream
  <2> QED BY <2>1, <2>2
<1>2. CASE conns[c].stream = None
  BY <1>2 DEF Held, Under
<1> QED BY <1>1, <1>2

\* The connection of c gets a stream, after its own may have been closed.
LEMMA GainsKeeps ==
    ASSUME Inv, NEW c \in Live, NEW conn \in ConnType,
           NEW ss \in [Streams -> StreamType],
           conn.state = "live", conn.of = conns[c].of,
           conn.persistent = conns[c].persistent,
           conn.stream = None, SidOK(conn), NamesServer(ss),
           \A s \in Streams : Kept(s, conns[c].stream, streams, ss),
           conns[c].stream # None => conns[c].stream \notin Open(ss),
           NEW r, Gains(conn, ss, r),
           conns' = [conns EXCEPT ![c] = r.conn], streams' = r.streams,
           UNCHANGED <<objects, pool>>
    PROVE  Inv'
<1> DEFINE mine == conns[c].stream
           found == r.conn.stream
<1>1. /\ c \in Conns /\ c # None /\ conns[c] \in ConnType
      /\ conns[c].of \in Params /\ conns[c].state = "live"
      /\ conns[c].persistent <=> c \notin Private
  BY LiveFacts DEF Live
<1>2. /\ r.conn \in ConnType /\ r.streams \in [Streams -> StreamType]
      /\ r.conn.state = "live" /\ r.conn.of = conns[c].of
      /\ r.conn.persistent = conns[c].persistent
      /\ SidOK(r.conn) /\ NamesServer(r.streams)
      /\ \A s \in Streams : s # found => Kept(s, None, ss, r.streams)
      /\ found # None =>
            /\ found \in Open(r.streams)
            /\ r.streams[found].server = conns[c].of.server
            /\ IF conns[c].persistent
               THEN r.streams[found].id # None
                    /\ r.streams[found].id.login = conns[c].of.login
               ELSE r.streams[found].id = None
            /\ \/ ss[found].state = "unused"
               \/ r.streams[found] = ss[found] /\ ss[found].id # None
  BY DEF Gains, found
<1> HIDE DEF mine, found
<1>3. TypeOK
  BY DEF Inv
<1>4. TypeOK'
  BY <1>1, <1>2, <1>3 DEF TypeOK
<1>5. /\ conns'[c] = r.conn
      /\ \A d \in Conns \ {c} : conns'[d] = conns[d]
      /\ \A d \in Conns : /\ conns'[d].state = conns[d].state
                          /\ conns'[d].of = conns[d].of
                          /\ conns'[d].persistent = conns[d].persistent
  BY <1>1, <1>2, <1>3 DEF TypeOK
<1>6. Live' = Live /\ Private' = Private
  BY <1>5 DEF Live, Private
\* Streams that were opened before this step.
<1>7. \A s \in Streams : streams[s].state # "unused" =>
          Kept(s, mine, streams, streams')
  <2> SUFFICES ASSUME NEW s \in Streams, streams[s].state # "unused"
               PROVE  Kept(s, mine, streams, streams')
    OBVIOUS
  <2>1. streams[s] \in StreamType /\ s # None
    BY <1>3, PointersAssumption DEF TypeOK
  <2>2. Kept(s, mine, streams, ss)
    BY DEF mine
  <2>3. ss[s].state # "unused"
    BY <2>1, <2>2 DEF Kept, StreamType
  <2>4. CASE s = found
    <3>1. streams'[s] = ss[s] /\ ss[s].state = "open"
      BY <1>2, <2>1, <2>3, <2>4 DEF Open
    <3> QED BY <2>1, <2>2, <3>1 DEF Kept, StreamType
  <2>5. CASE s # found
    <3>1. Kept(s, None, ss, streams')
      BY <1>2, <2>5
    <3> QED BY <2>1, <2>2, <3>1 DEF Kept, StreamType
  <2> QED BY <2>4, <2>5
<1>8. \A s \in Open(streams') : s # found => streams'[s] = streams[s]
  <2> SUFFICES ASSUME NEW s \in Open(streams'), s # found
               PROVE  streams'[s] = streams[s]
    OBVIOUS
  <2>1. s \in Streams /\ streams'[s].state = "open"
    BY DEF Open
  <2>2. streams[s] \in StreamType /\ ss[s] \in StreamType
    BY <1>3, <2>1 DEF TypeOK
  <2>3. Kept(s, mine, streams, ss) /\ Kept(s, None, ss, streams')
    BY <1>2, <2>1 DEF mine
  <2> QED BY <2>1, <2>2, <2>3 DEF Kept, StreamType
<1>9. found # None =>
         /\ found \in Open(streams') /\ found \in Streams
         /\ \/ streams[found].state = "unused"
            \/ streams'[found] = streams[found] /\ streams'[found].id # None
  <2> SUFFICES ASSUME found # None
               PROVE  /\ found \in Open(streams') /\ found \in Streams
                      /\ \/ streams[found].state = "unused"
                         \/ /\ streams'[found] = streams[found]
                            /\ streams'[found].id # None
    OBVIOUS
  <2>1. found \in Open(streams') /\ found \in Streams /\ streams'[found].state = "open"
    BY <1>2 DEF Open
  <2>2. streams[found] \in StreamType /\ Kept(found, mine, streams, ss)
    BY <1>3, <2>1 DEF TypeOK, mine
  <2> QED BY <1>2, <2>1, <2>2 DEF Kept, StreamType
\* A stream of a private connection stays its own.
<1>10. mine # None => mine \notin Open(streams')
  <2> SUFFICES ASSUME mine # None, mine \in Open(streams') PROVE FALSE
    OBVIOUS
  <2>1. mine \in Streams /\ streams'[mine].state = "open"
    BY DEF Open
  <2>2. streams[mine].state # "unused"
    BY <1>1 DEF Inv, ConnsOK, mine
  <2>3. ss[mine].state # "open" /\ Kept(mine, mine, streams, ss)
    BY <2>1 DEF Open, mine
  <2>4. ss[mine].state # "unused" /\ ss[mine] \in StreamType
    BY <1>3, <2>1, <2>2, <2>3 DEF Kept, TypeOK, StreamType
  <2>5. CASE mine = found
    BY <1>2, <2>3, <2>4, <2>5, <2>1
  <2>6. CASE mine # found
    <3>1. Kept(mine, None, ss, streams')
      BY <1>2, <2>1, <2>6
    <3> QED BY <2>1, <2>3, <3>1, PointersAssumption DEF Kept
  <2> QED BY <2>5, <2>6
<1>11. \A d \in Conns : conns[d].stream # None =>
          conns[d].stream \in Streams /\ streams[conns[d].stream].state # "unused"
  BY <1>3 DEF TypeOK, ConnType, Inv, ConnsOK
<1>12. ObjectsOK'
  <2>1. ObjectsOK /\ objects' = objects
    BY DEF Inv
  <2> QED BY <1>5, <1>6, <2>1 DEF ObjectsOK
<1>13. ConnsOK'
  <2> SUFFICES ASSUME NEW d \in Conns
               PROVE  /\ conns'[d].state = "live" => conns'[d].of \in Params
                      /\ conns'[d].stream # None =>
                            streams'[conns'[d].stream].state # "unused"
                      /\ SidOK(conns'[d])
    BY DEF ConnsOK, SidOK
  <2>1. CASE d = c
    BY <1>1, <1>2, <1>5, <1>9, <2>1 DEF Open, found
  <2>2. CASE d # c
    <3>1. conns'[d] = conns[d]
      BY <1>5, <2>2
    <3>2. /\ conns[d].state = "live" => conns[d].of \in Params
          /\ SidOK(conns[d])
      BY DEF Inv, ConnsOK, SidOK
    <3>3. conns[d].stream # None => streams'[conns[d].stream].state # "unused"
      <4> SUFFICES ASSUME conns[d].stream # None
                   PROVE  streams'[conns[d].stream].state # "unused"
        OBVIOUS
      <4>1. Kept(conns[d].stream, mine, streams, streams')
        BY <1>7, <1>11
      <4>2. streams[conns[d].stream] \in StreamType
        BY <1>3, <1>11 DEF TypeOK
      <4> QED BY <1>11, <4>1, <4>2 DEF Kept, StreamType
    <3> QED BY <3>1, <3>2, <3>3
  <2> QED BY <2>1, <2>2
<1>14. StreamsOK'
  BY <1>2 DEF StreamsOK, NamesServer
<1>15. PoolOwns'
  <2>1. PoolOwns
    BY DEF Inv, Owned
  <2>2. \A d \in Live : d \in Conns
    BY DEF Live
  <2> QED BY <1>5, <1>6, <2>1, <2>2 DEF PoolOwns
<1>16. PrivateOwned
  BY DEF Inv, Owned
<1>17. PrivateOwned'
  <2>1. \A d \in Private : \E o \in Objects : objects[o].conn = d
    BY <1>16 DEF PrivateOwned
  <2>2. ASSUME NEW d \in Private, conns'[d].stream # None
        PROVE  /\ conns'[d].stream \in Open(streams')
               /\ streams'[conns'[d].stream].id = None
    <3>1. CASE d = c
      BY <1>1, <1>2, <1>5, <2>2, <3>1 DEF found
    <3>2. CASE d # c
      <4>1. conns'[d] = conns[d] /\ d \in Live
        BY <1>5, <3>2 DEF Private, Live
      <4>2. /\ conns[d].stream \in Open(streams)
            /\ streams[conns[d].stream].id = None
        BY <1>16, <2>2, <4>1 DEF PrivateOwned
      <4>3. conns[d].stream # mine
        <5>1. PICK e \in Private : /\ conns[e].stream = conns[d].stream
                  /\ \A f \in Live \ {e} : conns[f].stream # conns[d].stream
          BY <1>16, <4>2 DEF PrivateOwned
        <5> QED BY <3>2, <4>1, <5>1 DEF mine
      <4>4. Kept(conns[d].stream, mine, streams, streams')
        BY <1>7, <1>11, <2>2, <4>1 DEF Live
      <4>5. streams'[conns[d].stream] = streams[conns[d].stream]
        BY <4>2, <4>3, <4>4 DEF Kept
      <4> QED BY <4>1, <4>2, <4>5 DEF Open
    <3> QED BY <3>1, <3>2
  <2>3. \A o \in Objects : objects[o] # NoObject /\ ~objects[o].persistent =>
          /\ objects[o].conn \in Private
          /\ \A q \in Objects \ {o} : objects[q].conn # objects[o].conn
    BY <1>16 DEF PrivateOwned
  <2>4. ASSUME NEW s \in Open(streams'), streams'[s].id = None
        PROVE  \E d \in Private : /\ conns'[d].stream = s
                                 /\ \A e \in Live \ {d} : conns'[e].stream # s
    <3>1. s \in Streams /\ s # None
      BY PointersAssumption DEF Open
    <3>2. CASE s = found
      <4>1. c \in Private /\ streams[s].state = "unused"
        BY <1>1, <1>2, <1>9, <2>4, <3>1, <3>2
      <4>2. \A e \in Live \ {c} : conns'[e].stream # s
        BY <1>5, <1>11, <3>1, <4>1 DEF Live
      <4> QED BY <1>5, <3>2, <4>1, <4>2 DEF found
    <3>3. CASE s # found
      <4>1. streams'[s] = streams[s] /\ s \in Open(streams)
        BY <1>8, <2>4, <3>3 DEF Open
      <4>2. PICK d \in Private : /\ conns[d].stream = s
                                /\ \A e \in Live \ {d} : conns[e].stream # s
        BY <1>16, <2>4, <4>1 DEF PrivateOwned
      <4>3. d # c
        BY <1>10, <2>4, <3>1, <4>2 DEF mine
      <4>4. conns'[d].stream = s
        BY <1>5, <4>2, <4>3 DEF Private, Live
      <4>5. \A e \in Live \ {d} : conns'[e].stream # s
        BY <1>5, <3>3, <4>2 DEF Live, found
      <4> QED BY <4>4, <4>5
    <3> QED BY <3>2, <3>3
  <2> QED BY <1>6, <2>1, <2>2, <2>3, <2>4 DEF PrivateOwned
<1>18. RightStream'
  <2> SUFFICES ASSUME NEW d \in Live, conns'[d].stream \in Open(streams')
               PROVE  /\ streams'[conns'[d].stream].server = conns'[d].of.server
                      /\ conns'[d].persistent =>
                            /\ streams'[conns'[d].stream].id # None
                            /\ streams'[conns'[d].stream].id.login
                                  = conns'[d].of.login
    BY <1>6 DEF RightStream
  <2>1. conns'[d].stream \in Streams /\ conns'[d].stream # None /\ d \in Conns
    BY PointersAssumption DEF Open, Live
  <2>2. CASE d = c
    BY <1>2, <1>5, <2>1, <2>2 DEF found
  <2>3. CASE d # c
    <3> DEFINE s == conns[d].stream
    <3>1. conns'[d] = conns[d]
      BY <1>5, <2>1, <2>3
    <3>2. s \in Streams /\ streams[s].state # "unused"
      BY <1>11, <2>1, <3>1
    <3>3. Kept(s, mine, streams, streams') /\ streams'[s].state = "open"
      BY <1>7, <3>1, <3>2 DEF Open
    <3>4. streams[s] \in StreamType
      BY <1>3, <3>2 DEF TypeOK
    <3>5. streams'[s] = streams[s]
      BY <3>3, <3>4 DEF Kept, StreamType
    <3>6. s \in Open(streams)
      BY <3>2, <3>3, <3>5 DEF Open
    <3> QED BY <3>1, <3>5, <3>6 DEF Inv, RightStream
  <2> QED BY <2>2, <2>3
<1>19. LostToTwin'
  <2>1. LostToTwin /\ ObjectsOK /\ objects' = objects
    BY DEF Inv
  <2>2. \A d \in Live : d \in Conns
    BY DEF Live
  <2> QED BY <1>5, <1>6, <2>1, <2>2 DEF LostToTwin, ObjectsOK
<1> QED BY <1>4, <1>12, <1>13, <1>14, <1>15, <1>17, <1>18, <1>19 DEF Inv, Owned

LEMMA ObjectFacts ==
    ASSUME Inv, NEW o \in Objects, objects[o] # NoObject
    PROVE  /\ objects[o] \in ObjectType /\ objects[o].conn \in Conns
           /\ objects[o].conn # None
           /\ objects[o].persistent \in BOOLEAN
           /\ IF objects[o].persistent THEN objects[o].conn \notin Private
              ELSE objects[o].conn \in Private
BY PointersAssumption DEF Inv, TypeOK, ObjectsOK, ObjectType

LEMMA ConnectKeeps ==
    ASSUME Inv, NEW o \in Objects, Connect(o) PROVE Inv'
<1> DEFINE c == objects[o].conn
<1>1. /\ c \in Live /\ conns[c].stream = None
      /\ \E r \in Connected(conns[c], streams) :
            conns' = [conns EXCEPT ![c] = r.conn] /\ streams' = r.streams
      /\ UNCHANGED <<objects, pool>>
  BY ObjectFacts DEF Connect, Usable, Sound, Live
<1> HIDE DEF c
<1>2. PICK r \in Connected(conns[c], streams) :
            conns' = [conns EXCEPT ![c] = r.conn] /\ streams' = r.streams
  BY <1>1
<1>3. /\ conns[c] \in ConnType /\ SidOK(conns[c]) /\ conns[c].state = "live"
      /\ streams \in [Streams -> StreamType] /\ NamesServer(streams)
  BY <1>1, LiveFacts DEF Inv, TypeOK, StreamsOK, NamesServer, Live
<1>4. \A s \in Streams : Kept(s, conns[c].stream, streams, streams)
  BY DEF Kept
<1>5. Gains(conns[c], streams, r)
  BY <1>1, <1>2, <1>3, LiveFacts, ConnectedGains
<1> QED BY <1>1, <1>2, <1>3, <1>4, <1>5, GainsKeeps

\* bee_stream_close leaves a connection without a stream.
ClosedFacts(c, conn, left) ==
    /\ conn \in ConnType /\ conn.state = "live" /\ conn.of = conns[c].of
    /\ conn.persistent = conns[c].persistent /\ conn.stream = None
    /\ SidOK(conn)
    /\ left \in [Streams -> StreamType] /\ NamesServer(left)
    /\ \A s \in Streams : Kept(s, conns[c].stream, streams, left)
    /\ conns[c].stream # None => conns[c].stream \notin Open(left)

LEMMA CloseFacts ==
    ASSUME Inv, NEW c \in Live, Sound(c)
    PROVE  ClosedFacts(c, Closed(conns[c]), Shut(Held(conns[c], streams), streams))
<1> DEFINE conn == Closed(conns[c])
           left == Shut(Held(conns[c], streams), streams)
<1>1. /\ conns[c] \in ConnType /\ conns[c].state = "live"
      /\ streams \in [Streams -> StreamType] /\ NamesServer(streams)
  BY LiveFacts DEF Inv, TypeOK, StreamsOK, NamesServer, Live
<1>2. /\ conn \in ConnType /\ conn.state = "live" /\ conn.of = conns[c].of
      /\ conn.persistent = conns[c].persistent /\ conn.stream = None
      /\ SidOK(conn)
  BY <1>1 DEF Closed, ConnType, SidOK
<1>3. \A s \in Held(conns[c], streams) :
          s \in Open(streams) /\ (streams[s].id # None \/ s = conns[c].stream)
  BY HeldFacts
<1>4. conns[c].stream # None => conns[c].stream \in Held(conns[c], streams)
  BY DEF Held
<1>5. /\ left \in [Streams -> StreamType] /\ NamesServer(left)
      /\ \A s \in Streams : Kept(s, conns[c].stream, streams, left)
      /\ \A s \in Held(conns[c], streams) : s \notin Open(left)
  BY <1>1, <1>3, ShutKeeps
<1> HIDE DEF conn, left
<1>6. ClosedFacts(c, conn, left)
  BY <1>2, <1>4, <1>5 DEF ClosedFacts
<1> QED BY <1>6 DEF conn, left

LEMMA ReconnectKeeps ==
    ASSUME Inv, NEW o \in Objects, Reconnect(o) PROVE Inv'
<1> DEFINE c    == objects[o].conn
           conn == Closed(conns[c])
           left == Shut(Held(conns[c], streams), streams)
<1>1. /\ c \in Live /\ Sound(c)
      /\ \E r \in Connected(conn, left) :
            conns' = [conns EXCEPT ![c] = r.conn] /\ streams' = r.streams
      /\ UNCHANGED <<objects, pool>>
  BY ObjectFacts DEF Reconnect, Usable, Sound, Live
<1> HIDE DEF c
<1>2. ClosedFacts(c, conn, left)
  BY <1>1, CloseFacts
<1> HIDE DEF conn, left
<1>3. PICK r \in Connected(conn, left) :
            conns' = [conns EXCEPT ![c] = r.conn] /\ streams' = r.streams
  BY <1>1
<1>4. conn \in ConnType /\ left \in [Streams -> StreamType] /\ conn.of \in Params
  BY <1>1, <1>2, LiveFacts DEF ClosedFacts
<1>5. Gains(conn, left, r)
  BY <1>2, <1>4, ConnectedGains DEF ClosedFacts
<1> QED BY <1>1, <1>2, <1>3, <1>4, <1>5, GainsKeeps DEF ClosedFacts

LEMMA CloseOnErrorKeeps ==
    ASSUME Inv, NEW o \in Objects, CloseOnError(o) PROVE Inv'
<1> DEFINE c    == objects[o].conn
           conn == Closed(conns[c])
           left == Shut(Held(conns[c], streams), streams)
           r    == [conn |-> conn, streams |-> left]
<1>1. /\ c \in Live /\ Sound(c)
      /\ conns' = [conns EXCEPT ![c] = conn] /\ streams' = left
      /\ UNCHANGED <<objects, pool>>
  BY ObjectFacts DEF CloseOnError, Usable, Sound, Live
<1> HIDE DEF c
<1>2. ClosedFacts(c, conn, left)
  BY <1>1, CloseFacts
<1> HIDE DEF conn, left
<1>3. \A s \in Streams : Kept(s, None, left, left)
  BY DEF Kept
<1>4. r.conn = conn /\ r.streams = left
  OBVIOUS
<1>5. conn \in ConnType /\ left \in [Streams -> StreamType]
  BY <1>2 DEF ClosedFacts
<1> HIDE DEF r
<1>6. Gains(conn, left, r)
  BY <1>2, <1>3, <1>4 DEF Gains, ClosedFacts
<1> QED BY <1>1, <1>2, <1>4, <1>5, <1>6, GainsKeeps DEF ClosedFacts

\* A connection that was just made.
LEMMA NewType ==
    ASSUME NEW p \in Params, NEW persistent \in BOOLEAN
    PROVE  /\ New(p, persistent) \in ConnType /\ SidOK(New(p, persistent))
           /\ New(p, persistent).state = "live" /\ New(p, persistent).of = p
           /\ New(p, persistent).persistent = persistent
           /\ New(p, persistent).stream = None
           /\ New(p, persistent).sid = None <=> ~persistent
<1>1. /\ StreamId(p, p.suffix) \in Ids /\ StreamId(p, p.suffix) # None
      /\ StreamId(p, p.suffix).server = p.server
      /\ StreamId(p, p.suffix).login = p.login
  BY IdType, ParamType
<1> QED BY <1>1 DEF New, ConnType, SidOK

\* An allocation meets no pointer: objects and the list hold other
\* connections.
LEMMA UnusedFacts ==
    ASSUME Inv, NEW c \in Unused
    PROVE  /\ c \in Conns /\ c # None /\ c \notin Live
           /\ \A o \in Objects : objects[o].conn # c
           /\ \A k \in Keys : pool[k] # c
<1>1. c \in Conns /\ c # None /\ c \notin Live /\ conns[c].state = "unused"
  BY PointersAssumption DEF Unused, Live
<1>2. ASSUME NEW o \in Objects PROVE objects[o].conn # c
  <2>1. CASE objects[o] = NoObject
    BY <1>1, <2>1 DEF NoObject
  <2>2. CASE objects[o] # NoObject
    BY <1>1, <2>2 DEF Inv, ObjectsOK
  <2> QED BY <2>1, <2>2
<1>3. ASSUME NEW k \in Keys PROVE pool[k] # c
  BY <1>1 DEF Inv, Owned, PoolOwns
<1> QED BY <1>1, <1>2, <1>3

LEMMA ConstructPrivateKeeps ==
    ASSUME Inv, NEW o \in Objects, NEW p \in Params, ConstructPrivate(o, p)
    PROVE  Inv'
<1>1. PICK c \in Unused :
          /\ objects' = [objects EXCEPT ![o] = [conn |-> c, persistent |-> FALSE]]
          /\ conns' = [conns EXCEPT ![c] = New(p, FALSE)]
  BY DEF ConstructPrivate
<1>2. /\ UNCHANGED <<pool, streams>> /\ objects[o] = NoObject
      /\ objects[o].conn = None
  BY DEF ConstructPrivate, NoObject
<1>3. /\ c \in Conns /\ c # None /\ c \notin Live
      /\ \A q \in Objects : objects[q].conn # c
      /\ \A k \in Keys : pool[k] # c
  BY UnusedFacts
<1> DEFINE conn == New(p, FALSE)
<1>4. /\ conn \in ConnType /\ SidOK(conn) /\ conn.state = "live" /\ conn.of = p
      /\ conn.persistent = FALSE /\ conn.stream = None
  BY NewType
<1> HIDE DEF conn
<1>5. TypeOK
  BY DEF Inv
<1>6. /\ conns'[c] = conn /\ \A d \in Conns \ {c} : conns'[d] = conns[d]
      /\ objects'[o] = [conn |-> c, persistent |-> FALSE]
      /\ \A q \in Objects \ {o} : objects'[q] = objects[q]
  BY <1>1, <1>3, <1>5 DEF TypeOK, conn
<1>7. /\ [conn |-> c, persistent |-> FALSE] \in ObjectType
      /\ [conn |-> c, persistent |-> FALSE] # NoObject
  BY <1>3 DEF ObjectType, NoObject
<1>8. TypeOK'
  BY <1>1, <1>2, <1>4, <1>5, <1>7 DEF TypeOK, conn
<1>9. Live' = Live \cup {c} /\ Private' = Private \cup {c} /\ c \notin Private
  BY <1>3, <1>4, <1>6 DEF Live, Private
<1>10. ObjectsOK'
  <2> SUFFICES ASSUME NEW q \in Objects, objects'[q] # NoObject
               PROVE  /\ objects'[q].conn \in Conns
                      /\ conns'[objects'[q].conn].state # "unused"
                      /\ conns'[objects'[q].conn].of \in Params
                      /\ IF objects'[q].persistent
                         THEN objects'[q].conn \notin Private'
                         ELSE objects'[q].conn \in Private'
    BY DEF ObjectsOK
  <2>1. CASE q = o
    BY <1>3, <1>4, <1>6, <1>9, <2>1
  <2>2. CASE q # o
    <3>1. objects'[q] = objects[q] /\ objects[q].conn # c
      BY <1>3, <1>6, <2>2
    <3>2. ObjectsOK
      BY DEF Inv
    <3> QED BY <1>6, <1>9, <3>1, <3>2 DEF ObjectsOK
  <2> QED BY <2>1, <2>2
<1>11. ConnsOK'
  <2>1. ConnsOK
    BY DEF Inv
  <2>2. ASSUME NEW d \in Conns
        PROVE  /\ conns'[d].state = "live" => conns'[d].of \in Params
               /\ conns'[d].stream # None =>
                     streams[conns'[d].stream].state # "unused"
               /\ SidOK(conns'[d])
    BY <1>4, <1>6, <2>1 DEF ConnsOK, SidOK
  <2> QED BY <1>2, <2>2 DEF ConnsOK, SidOK
<1>12. StreamsOK'
  BY <1>2 DEF Inv, StreamsOK
<1>13. PoolOwns'
  <2>1. PoolOwns
    BY DEF Inv, Owned
  <2>2. \A d \in Live : conns'[d] = conns[d]
    BY <1>3, <1>6 DEF Live
  <2>3. Live' \ Private' = Live \ Private
    BY <1>3, <1>9
  <2> QED BY <1>2, <2>1, <2>2, <2>3 DEF PoolOwns
<1>14. PrivateOwned'
  <2>1. PrivateOwned
    BY DEF Inv, Owned
  <2>2. \A d \in Live : conns'[d] = conns[d] /\ d # c /\ d # None
    BY <1>3, <1>6, PointersAssumption DEF Live
  <2>3. ASSUME NEW d \in Private'
        PROVE  /\ \E q \in Objects : objects'[q].conn = d
               /\ conns'[d].stream # None =>
                     /\ conns'[d].stream \in Open(streams')
                     /\ streams'[conns'[d].stream].id = None
    <3>1. CASE d = c
      BY <1>4, <1>6, <3>1
    <3>2. CASE d # c
      <4>1. d \in Private /\ d \in Live
        BY <1>9, <2>3, <3>2 DEF Private
      <4>2. PICK q \in Objects : objects[q].conn = d
        BY <2>1, <4>1 DEF PrivateOwned
      <4>3. objects'[q].conn = d
        BY <1>2, <1>6, <2>2, <4>1, <4>2
      <4> QED BY <1>2, <2>1, <2>2, <4>1, <4>3 DEF PrivateOwned
    <3> QED BY <3>1, <3>2
  <2>4. ASSUME NEW q \in Objects, objects'[q] # NoObject, ~objects'[q].persistent
        PROVE  /\ objects'[q].conn \in Private'
               /\ \A u \in Objects \ {q} : objects'[u].conn # objects'[q].conn
    <3>1. CASE q = o
      BY <1>3, <1>6, <1>9, <3>1
    <3>2. CASE q # o
      <4>1. /\ objects'[q] = objects[q] /\ objects[q].conn \in Private
            /\ \A u \in Objects \ {q} : objects[u].conn # objects[q].conn
        BY <1>6, <2>1, <2>4, <3>2 DEF PrivateOwned
      <4> QED BY <1>3, <1>6, <1>9, <4>1
    <3> QED BY <3>1, <3>2
  <2>5. ASSUME NEW s \in Open(streams), streams[s].id = None
        PROVE  \E d \in Private' : /\ conns'[d].stream = s
                                  /\ \A e \in Live' \ {d} : conns'[e].stream # s
    <3>1. PICK d \in Private : /\ conns[d].stream = s
                              /\ \A e \in Live \ {d} : conns[e].stream # s
      BY <2>1, <2>5 DEF PrivateOwned
    <3>2. s # None /\ d \in Live
      BY PointersAssumption DEF Open, Private
    <3> QED BY <1>4, <1>6, <1>9, <2>2, <3>1, <3>2
  <2> QED BY <1>2, <2>3, <2>4, <2>5 DEF PrivateOwned
<1>15. RightStream'
  <2>1. \A d \in Live : conns'[d] = conns[d]
    BY <1>3, <1>6 DEF Live
  <2>2. conns'[c].stream \notin Open(streams)
    BY <1>4, <1>6, PointersAssumption DEF Open
  <2> QED BY <1>2, <1>9, <2>1, <2>2 DEF Inv, RightStream
<1>16. LostToTwin'
  <2>1. LostToTwin
    BY DEF Inv
  <2>2. \A d \in Live : conns'[d] = conns[d] /\ d # c
    BY <1>3, <1>6 DEF Live
  <2>3. ASSUME NEW q \in Objects, objects'[q] # NoObject,
               objects'[q].conn \notin Live'
        PROVE  \E d \in Live' \ Private' :
                  conns'[d].of = conns'[objects'[q].conn].of
    <3>1. q # o /\ objects'[q] = objects[q]
      BY <1>6, <1>9, <2>3
    <3>2. objects[q].conn \notin Live /\ objects[q].conn \in Conns \ {c}
      BY <1>3, <1>9, <2>3, <3>1, ObjectFacts
    <3> QED BY <1>6, <1>9, <2>1, <2>2, <2>3, <3>1, <3>2 DEF LostToTwin
  <2> QED BY <2>3 DEF LostToTwin
<1> QED BY <1>8, <1>10, <1>11, <1>12, <1>13, <1>14, <1>15, <1>16 DEF Inv, Owned

LEMMA DropPersistentKeeps ==
    ASSUME Inv, NEW o \in Objects, Drop(o), objects[o].persistent
    PROVE  Inv'
<1>1. /\ objects[o] # NoObject
      /\ objects' = [objects EXCEPT ![o] = NoObject]
      /\ UNCHANGED <<conns, streams, pool>>
  BY DEF Drop
<1>2. TypeOK /\ ObjectsOK /\ PrivateOwned /\ LostToTwin
  BY DEF Inv, Owned
<1>3. /\ objects'[o] = NoObject
      /\ \A q \in Objects \ {o} : objects'[q] = objects[q]
  BY <1>1, <1>2 DEF TypeOK
<1>4. NoObject \in ObjectType /\ NoObject.conn = None
  BY DEF NoObject, ObjectType
<1>5. TypeOK'
  BY <1>1, <1>2, <1>4 DEF TypeOK
<1>6. Live' = Live /\ Private' = Private
  BY <1>1 DEF Live, Private
<1>7. ObjectsOK' /\ LostToTwin'
  BY <1>1, <1>2, <1>3, <1>6 DEF ObjectsOK, LostToTwin
<1>8. ConnsOK' /\ StreamsOK' /\ RightStream' /\ PoolOwns'
  BY <1>1, <1>6 DEF Inv, Owned, ConnsOK, StreamsOK, RightStream, PoolOwns
<1>9. PrivateOwned'
  <2>1. ASSUME NEW d \in Private PROVE \E q \in Objects : objects'[q].conn = d
    <3>1. PICK q \in Objects : objects[q].conn = d
      BY <1>2 DEF PrivateOwned
    <3>2. q # o
      BY <1>1, <3>1, ObjectFacts
    <3> QED BY <1>3, <3>1, <3>2
  <2>2. ASSUME NEW q \in Objects, objects'[q] # NoObject, ~objects'[q].persistent
        PROVE  /\ objects'[q].conn \in Private
               /\ \A u \in Objects \ {q} : objects'[u].conn # objects'[q].conn
    <3>1. q # o /\ objects'[q] = objects[q]
      BY <1>3, <2>2
    <3>2. /\ objects[q].conn \in Private /\ objects[q].conn # None
          /\ \A u \in Objects \ {q} : objects[u].conn # objects[q].conn
      BY <1>2, <2>2, <3>1, ObjectFacts DEF PrivateOwned
    <3> QED BY <1>3, <1>4, <3>1, <3>2
  <2>3. /\ \A d \in Private : conns[d].stream # None =>
              /\ conns[d].stream \in Open(streams)
              /\ streams[conns[d].stream].id = None
        /\ \A s \in Open(streams) : streams[s].id = None =>
              \E d \in Private : /\ conns[d].stream = s
                                /\ \A e \in Live \ {d} : conns[e].stream # s
    BY <1>2 DEF PrivateOwned
  <2> QED BY <1>1, <1>6, <2>1, <2>2, <2>3 DEF PrivateOwned
<1> QED BY <1>5, <1>7, <1>8, <1>9 DEF Inv, Owned

\* The connection goes with its only object, and the stream with it.
LEMMA DropPrivateKeeps ==
    ASSUME Inv, NEW o \in Objects, Drop(o), ~objects[o].persistent
    PROVE  Inv'
<1> DEFINE c    == objects[o].conn
           mine == conns[c].stream
<1>1. /\ objects[o] # NoObject
      /\ objects' = [objects EXCEPT ![o] = NoObject]
      /\ conns' = [conns EXCEPT ![c] = Freed(conns[c])]
      /\ streams' = Shut(Held(conns[c], streams), streams)
      /\ UNCHANGED pool
  BY DEF Drop
<1>2. /\ TypeOK /\ ObjectsOK /\ ConnsOK /\ StreamsOK /\ PoolOwns /\ PrivateOwned
      /\ RightStream /\ LostToTwin
  BY DEF Inv, Owned
<1>3. /\ c \in Conns /\ c # None /\ c \in Private /\ c \in Live
      /\ conns[c] \in ConnType /\ conns[c].sid = None
      /\ \A q \in Objects \ {o} : objects[q].conn # c
  BY <1>1, <1>2, ObjectFacts
     DEF Private, Live, TypeOK, ConnsOK, PrivateOwned
<1>4. Held(conns[c], streams) = IF mine # None THEN {mine} ELSE {}
  BY <1>3 DEF Held, Under
<1>5. mine # None => mine \in Open(streams)
  BY <1>2, <1>3 DEF PrivateOwned
<1> HIDE DEF c, mine
<1>6. /\ streams' \in [Streams -> StreamType] /\ NamesServer(streams')
      /\ \A s \in Streams : Kept(s, mine, streams, streams')
  <2>1. streams \in [Streams -> StreamType] /\ NamesServer(streams)
    BY <1>2 DEF TypeOK, StreamsOK, NamesServer
  <2>2. \A s \in Held(conns[c], streams) :
            s \in Open(streams) /\ (streams[s].id # None \/ s = mine)
    BY <1>4, <1>5
  <2> QED BY <1>1, <2>1, <2>2, ShutKeeps
<1>7. /\ mine \notin Open(streams')
      /\ \A s \in Streams : s # mine => streams'[s] = streams[s]
  <2>1. \A s \in Streams : streams'[s] = IF s = mine THEN
                 [streams[s] EXCEPT !.state = "closed"] ELSE streams[s]
    BY <1>1, <1>4, PointersAssumption DEF Shut
  <2>2. \A s \in Streams : streams[s] \in StreamType
    BY <1>2 DEF TypeOK
  <2> QED BY <2>1, <2>2 DEF Open, StreamType
<1>8. /\ conns'[c] = Freed(conns[c])
      /\ \A d \in Conns \ {c} : conns'[d] = conns[d]
      /\ objects'[o] = NoObject
      /\ \A q \in Objects \ {o} : objects'[q] = objects[q]
  BY <1>1, <1>2, <1>3 DEF TypeOK
<1>9. /\ Freed(conns[c]) \in ConnType /\ Freed(conns[c]).state = "freed"
      /\ Freed(conns[c]).stream = None /\ Freed(conns[c]).sid = None
      /\ Freed(conns[c]).of = conns[c].of
  BY <1>3 DEF Freed, Closed, ConnType
<1>10. NoObject \in ObjectType /\ NoObject.conn = None
  BY DEF NoObject, ObjectType
<1>11. TypeOK'
  BY <1>1, <1>2, <1>3, <1>6, <1>9, <1>10 DEF TypeOK
<1>12. Live' = Live \ {c} /\ Private' = Private \ {c}
  BY <1>3, <1>8, <1>9 DEF Live, Private
<1>13. ObjectsOK'
  <2> SUFFICES ASSUME NEW q \in Objects, objects'[q] # NoObject
               PROVE  /\ objects'[q].conn \in Conns
                      /\ conns'[objects'[q].conn].state # "unused"
                      /\ conns'[objects'[q].conn].of \in Params
                      /\ IF objects'[q].persistent
                         THEN objects'[q].conn \notin Private'
                         ELSE objects'[q].conn \in Private'
    BY DEF ObjectsOK
  <2>1. q # o /\ objects'[q] = objects[q] /\ objects[q].conn # c
    BY <1>3, <1>8
  <2> QED BY <1>2, <1>8, <1>12, <2>1 DEF ObjectsOK
<1>14. ConnsOK'
  <2> SUFFICES ASSUME NEW d \in Conns
               PROVE  /\ conns'[d].state = "live" => conns'[d].of \in Params
                      /\ conns'[d].stream # None =>
                            streams'[conns'[d].stream].state # "unused"
                      /\ SidOK(conns'[d])
    BY DEF ConnsOK, SidOK
  <2>1. CASE d = c
    BY <1>8, <1>9, <2>1 DEF SidOK
  <2>2. CASE d # c
    <3>1. conns'[d] = conns[d]
      BY <1>8, <2>2
    <3>2. conns[d].stream # None => conns[d].stream \in Streams
      BY <1>2 DEF TypeOK, ConnType
    <3>3. \A s \in Streams : streams[s].state # "unused" =>
                            streams'[s].state # "unused"
      BY <1>2, <1>6 DEF Kept, TypeOK, StreamType
    <3> QED BY <1>2, <3>1, <3>2, <3>3 DEF ConnsOK, SidOK
  <2> QED BY <2>1, <2>2
<1>15. StreamsOK'
  BY <1>6 DEF StreamsOK, NamesServer
<1>16. PoolOwns'
  <2>1. Live' \ Private' = Live \ Private
    BY <1>3, <1>12
  <2>2. \A d \in Live \ Private : conns'[d] = conns[d]
    BY <1>3, <1>8 DEF Live
  <2> QED BY <1>1, <1>2, <2>1, <2>2 DEF PoolOwns
<1>17. PrivateOwned'
  <2>1. ASSUME NEW d \in Private'
        PROVE  /\ \E q \in Objects : objects'[q].conn = d
               /\ conns'[d].stream # None =>
                     /\ conns'[d].stream \in Open(streams')
                     /\ streams'[conns'[d].stream].id = None
    <3>1. d \in Private /\ d # c /\ conns'[d] = conns[d] /\ d \in Live
      BY <1>8, <1>12 DEF Private, Live
    <3>2. PICK q \in Objects : objects[q].conn = d
      BY <1>2, <3>1 DEF PrivateOwned
    <3>3. objects'[q].conn = d
      BY <1>8, <3>1, <3>2 DEF c
    <3>4. ASSUME conns[d].stream # None
          PROVE  /\ conns[d].stream \in Open(streams')
                 /\ streams'[conns[d].stream].id = None
      <4>1. /\ conns[d].stream \in Open(streams)
            /\ streams[conns[d].stream].id = None
        BY <1>2, <3>1, <3>4 DEF PrivateOwned
      <4>2. conns[d].stream # mine
        <5>1. PICK e \in Private : /\ conns[e].stream = conns[d].stream
                  /\ \A f \in Live \ {e} : conns[f].stream # conns[d].stream
          BY <1>2, <4>1 DEF PrivateOwned
        <5> QED BY <1>3, <3>1, <5>1 DEF mine
      <4> QED BY <1>7, <4>1, <4>2 DEF Open
    <3> QED BY <3>1, <3>3, <3>4
  <2>2. ASSUME NEW q \in Objects, objects'[q] # NoObject, ~objects'[q].persistent
        PROVE  /\ objects'[q].conn \in Private'
               /\ \A u \in Objects \ {q} : objects'[u].conn # objects'[q].conn
    <3>1. q # o /\ objects'[q] = objects[q] /\ objects[q].conn # c
      BY <1>3, <1>8, <2>2
    <3>2. /\ objects[q].conn \in Private /\ objects[q].conn # None
          /\ \A u \in Objects \ {q} : objects[u].conn # objects[q].conn
      BY <1>2, <2>2, <3>1, ObjectFacts DEF PrivateOwned
    <3> QED BY <1>8, <1>10, <1>12, <3>1, <3>2
  <2>3. ASSUME NEW s \in Open(streams'), streams'[s].id = None
        PROVE  \E d \in Private' : /\ conns'[d].stream = s
                                  /\ \A e \in Live' \ {d} : conns'[e].stream # s
    <3>1. s \in Streams /\ s # mine /\ streams'[s] = streams[s] /\ s \in Open(streams)
      BY <1>7 DEF Open
    <3>2. PICK d \in Private : /\ conns[d].stream = s
                              /\ \A e \in Live \ {d} : conns[e].stream # s
      BY <1>2, <2>3, <3>1 DEF PrivateOwned
    <3>3. d # c
      BY <3>1, <3>2 DEF mine
    <3>4. d \in Private' /\ \A e \in Live' : conns'[e] = conns[e] /\ e \in Live
      BY <1>8, <1>12, <3>2, <3>3 DEF Live
    <3>5. d \in Live'
      BY <3>4 DEF Private
    <3> QED BY <3>2, <3>4, <3>5
  <2> QED BY <2>1, <2>2, <2>3 DEF PrivateOwned
<1>18. RightStream'
  <2> SUFFICES ASSUME NEW d \in Live', conns'[d].stream \in Open(streams')
               PROVE  /\ streams'[conns'[d].stream].server = conns'[d].of.server
                      /\ conns'[d].persistent =>
                            /\ streams'[conns'[d].stream].id # None
                            /\ streams'[conns'[d].stream].id.login
                                  = conns'[d].of.login
    BY DEF RightStream
  <2>1. d \in Live /\ conns'[d] = conns[d]
    BY <1>8, <1>12 DEF Live
  <2>2. conns[d].stream \in Streams /\ conns[d].stream # mine
    BY <1>7, <2>1 DEF Open
  <2>3. /\ streams'[conns[d].stream] = streams[conns[d].stream]
        /\ conns[d].stream \in Open(streams)
    BY <1>7, <2>1, <2>2 DEF Open
  <2> QED BY <1>2, <2>1, <2>3 DEF RightStream
<1>19. LostToTwin'
  <2>1. Live' \ Private' = Live \ Private
    BY <1>3, <1>12
  <2>2. ASSUME NEW q \in Objects, objects'[q] # NoObject,
               objects'[q].conn \notin Live'
        PROVE  \E d \in Live \ Private :
                  conns'[d].of = conns'[objects'[q].conn].of
    <3>1. q # o /\ objects'[q] = objects[q] /\ objects[q].conn # c
      BY <1>3, <1>8, <2>2
    <3>2. objects[q].conn \notin Live /\ objects[q].conn \in Conns
      BY <1>12, <2>2, <3>1, ObjectFacts
    <3>3. PICK d \in Live \ Private : conns[d].of = conns[objects[q].conn].of
      BY <1>2, <2>2, <3>1, <3>2 DEF LostToTwin
    <3>4. conns'[d] = conns[d] /\ conns'[objects[q].conn] = conns[objects[q].conn]
      BY <1>3, <1>8, <3>1, <3>2, <3>3 DEF Live
    <3> QED BY <3>1, <3>3, <3>4
  <2> QED BY <2>1, <2>2 DEF LostToTwin
<1> QED BY <1>11, <1>13, <1>14, <1>15, <1>16, <1>17, <1>18, <1>19 DEF Inv, Owned

\* The entry that is replaced was made with the same parameters.
LEMMA ConstructPersistentKeeps ==
    ASSUME Inv, NEW o \in Objects, NEW p \in Params, ConstructPersistent(o, p)
    PROVE  Inv'
<1> DEFINE k   == RegisterKey(p)
           old == pool[k]
           gone == IF old = None THEN {} ELSE {old}
           conn == New(p, TRUE)
<1>1. PICK c \in Unused :
          /\ objects' = [objects EXCEPT ![o] = [conn |-> c, persistent |-> TRUE]]
          /\ pool' = [pool EXCEPT ![k] = c]
          /\ IF old = None
             THEN conns' = [conns EXCEPT ![c] = conn] /\ UNCHANGED streams
             ELSE /\ Sound(old)
                  /\ conns' = [conns EXCEPT ![c] = conn, ![old] = Freed(@)]
                  /\ streams' = Shut(Held(conns[old], streams), streams)
  <2>1. pool[FindKey(p)] = None
    BY NeverFound
  <2> QED BY <2>1 DEF ConstructPersistent
<1>2. objects[o] = NoObject /\ NoObject.conn = None
  BY DEF ConstructPersistent, NoObject
<1>3. /\ c \in Conns /\ c # None /\ c \notin Live
      /\ \A q \in Objects : objects[q].conn # c
      /\ \A j \in Keys : pool[j] # c
  BY UnusedFacts
<1>4. /\ conn \in ConnType /\ SidOK(conn) /\ conn.state = "live" /\ conn.of = p
      /\ conn.persistent = TRUE /\ conn.stream = None
  BY NewType
<1>5. /\ TypeOK /\ ObjectsOK /\ ConnsOK /\ StreamsOK /\ PoolOwns /\ PrivateOwned
      /\ RightStream /\ LostToTwin
  BY DEF Inv, Owned
<1>6. k \in Keys
  BY KeysDiffer
<1>7. old # None => /\ old \in Live \ Private /\ old \in Conns /\ old # c
                    /\ conns[old] \in ConnType /\ conns[old].of = p
  <2> SUFFICES ASSUME old # None
               PROVE  /\ old \in Live \ Private /\ old \in Conns /\ old # c
                      /\ conns[old] \in ConnType /\ conns[old].of = p
    OBVIOUS
  <2>1. old \in Live \ Private /\ RegisterKey(conns[old].of) = k
    BY <1>5, <1>6 DEF PoolOwns
  <2>2. old \in Conns /\ conns[old] \in ConnType /\ conns[old].of \in Params
    BY <2>1, LiveFacts
  <2>3. conns[old].of = p
    BY <2>1, <2>2, KeysDiffer
  <2> QED BY <1>3, <2>1, <2>2, <2>3
\* Only streams with an id are closed.
<1>8. /\ streams' \in [Streams -> StreamType] /\ NamesServer(streams')
      /\ \A s \in Streams : Kept(s, None, streams, streams')
  <2>1. streams \in [Streams -> StreamType] /\ NamesServer(streams)
    BY <1>5 DEF TypeOK, StreamsOK, NamesServer
  <2>2. CASE old = None
    <3>1. streams' = streams
      BY <1>1, <2>2
    <3> HIDE DEF old
    <3> QED BY <2>1, <3>1 DEF Kept
  <2>3. CASE old # None
    <3>1. Sound(old) /\ old \in Live /\ conns[old].persistent
      BY <1>1, <1>7, <2>3, LiveFacts
    <3>2. \A s \in Held(conns[old], streams) :
              s \in Open(streams) /\ (streams[s].id # None \/ s = None)
      BY <3>1, HeldFacts
    <3>3. streams' = Shut(Held(conns[old], streams), streams)
      BY <1>1, <2>3
    <3> HIDE DEF old
    <3>4. /\ Shut(Held(conns[old], streams), streams) \in [Streams -> StreamType]
          /\ NamesServer(Shut(Held(conns[old], streams), streams))
          /\ \A s \in Streams :
                Kept(s, None, streams, Shut(Held(conns[old], streams), streams))
      BY <2>1, <3>2, ShutKeeps
    <3> QED BY <3>3, <3>4
  <2> QED BY <2>2, <2>3
<1> HIDE DEF k, old, conn
<1>9. \A s \in Open(streams') : s \in Open(streams) /\ streams'[s] = streams[s]
  <2> SUFFICES ASSUME NEW s \in Open(streams')
               PROVE  s \in Open(streams) /\ streams'[s] = streams[s]
    OBVIOUS
  <2>1. s \in Streams /\ streams'[s].state = "open" /\ streams[s] \in StreamType
    BY <1>5 DEF Open, TypeOK
  <2> QED BY <1>8, <2>1 DEF Kept, Open, StreamType
<1>10. /\ conns'[c] = conn
       /\ old # None => conns'[old] = Freed(conns[old])
       /\ \A d \in Conns \ ({c} \cup gone) : conns'[d] = conns[d]
  BY <1>1, <1>3, <1>5, <1>7 DEF TypeOK
<1>11. old # None => /\ Freed(conns[old]) \in ConnType
                     /\ Freed(conns[old]).state = "freed"
                     /\ Freed(conns[old]).stream = None
                     /\ Freed(conns[old]).sid = None
                     /\ Freed(conns[old]).of = p
  BY <1>7 DEF Freed, Closed, ConnType
<1>12. /\ objects'[o] = [conn |-> c, persistent |-> TRUE]
       /\ \A q \in Objects \ {o} : objects'[q] = objects[q]
       /\ pool'[k] = c /\ \A j \in Keys \ {k} : pool'[j] = pool[j]
  BY <1>1, <1>5, <1>6 DEF TypeOK
<1>13. /\ [conn |-> c, persistent |-> TRUE] \in ObjectType
       /\ [conn |-> c, persistent |-> TRUE] # NoObject
  BY <1>3 DEF ObjectType, NoObject
<1>14. conns' \in [Conns -> ConnType]
  BY <1>1, <1>4, <1>5, <1>7, <1>11 DEF TypeOK
<1>15. TypeOK'
  BY <1>1, <1>3, <1>5, <1>6, <1>8, <1>13, <1>14 DEF TypeOK
<1>16. /\ Live' = (Live \cup {c}) \ gone /\ Private' = Private
       /\ \A d \in Private : d \notin gone /\ d # c /\ d \in Conns
  BY <1>3, <1>4, <1>7, <1>10, <1>11 DEF Live, Private
<1>17. ObjectsOK'
  <2> SUFFICES ASSUME NEW q \in Objects, objects'[q] # NoObject
               PROVE  /\ objects'[q].conn \in Conns
                      /\ conns'[objects'[q].conn].state # "unused"
                      /\ conns'[objects'[q].conn].of \in Params
                      /\ IF objects'[q].persistent
                         THEN objects'[q].conn \notin Private'
                         ELSE objects'[q].conn \in Private'
    BY DEF ObjectsOK
  <2>1. CASE q = o
    BY <1>3, <1>4, <1>10, <1>12, <1>16, <2>1
  <2>2. CASE q # o
    <3>1. objects'[q] = objects[q] /\ objects[q].conn # c
      BY <1>3, <1>12, <2>2
    <3>2. /\ objects[q].conn \in Conns
          /\ conns'[objects[q].conn].state # "unused"
          /\ conns'[objects[q].conn].of \in Params
      BY <1>5, <1>10, <1>11, <3>1 DEF ObjectsOK
    <3> QED BY <1>5, <1>16, <3>1, <3>2 DEF ObjectsOK
  <2> QED BY <2>1, <2>2
<1>18. ConnsOK'
  <2> SUFFICES ASSUME NEW d \in Conns
               PROVE  /\ conns'[d].state = "live" => conns'[d].of \in Params
                      /\ conns'[d].stream # None =>
                            streams'[conns'[d].stream].state # "unused"
                      /\ SidOK(conns'[d])
    BY DEF ConnsOK, SidOK
  <2>1. CASE d = c
    BY <1>4, <1>10, <2>1
  <2>2. CASE d \in gone
    BY <1>10, <1>11, <2>2 DEF SidOK
  <2>3. CASE d # c /\ d \notin gone
    <3>1. conns'[d] = conns[d]
      BY <1>10, <2>3
    <3>2. conns[d].stream # None => conns[d].stream \in Streams
      BY <1>5 DEF TypeOK, ConnType
    <3>3. \A s \in Streams : streams[s].state # "unused" =>
                            streams'[s].state # "unused"
      BY <1>5, <1>8 DEF Kept, TypeOK, StreamType
    <3> QED BY <1>5, <3>1, <3>2, <3>3 DEF ConnsOK, SidOK
  <2> QED BY <2>1, <2>2, <2>3
<1>19. StreamsOK'
  BY <1>8 DEF StreamsOK, NamesServer
<1>20. PoolOwns'
  <2>1. ASSUME NEW j \in Keys, pool'[j] # None
        PROVE  /\ pool'[j] \in Live' \ Private'
               /\ RegisterKey(conns'[pool'[j]].of) = j
    <3>1. CASE j = k
      BY <1>4, <1>7, <1>10, <1>12, <1>16, <3>1 DEF k
    <3>2. CASE j # k
      <4>1. /\ pool'[j] = pool[j] /\ pool[j] # c
            /\ pool[j] \in Live \ Private /\ pool[j] \in Conns
            /\ RegisterKey(conns[pool[j]].of) = j
        BY <1>3, <1>5, <1>12, <2>1, <3>2 DEF PoolOwns, Live
      <4>2. pool[j] \notin gone
        BY <1>7, <3>2, <4>1 DEF k
      <4> QED BY <1>10, <1>16, <4>1, <4>2
    <3> QED BY <3>1, <3>2
  <2>2. ASSUME NEW d \in Live' \ Private' PROVE \E j \in Keys : pool'[j] = d
    <3>1. CASE d = c
      BY <1>6, <1>12, <3>1
    <3>2. CASE d # c
      <4>1. d \in Live \ Private /\ d \notin gone
        BY <1>16, <3>2
      <4>2. PICK j \in Keys : pool[j] = d
        BY <1>5, <4>1 DEF PoolOwns
      <4>3. j # k
        BY <4>1, <4>2, LiveFacts DEF old
      <4> QED BY <1>12, <4>2, <4>3
    <3> QED BY <3>1, <3>2
  <2> QED BY <2>1, <2>2 DEF PoolOwns
<1>21. PrivateOwned'
  <2>1. \A d \in Private : conns'[d] = conns[d] /\ d \in Live /\ d # None
    BY <1>10, <1>16, PointersAssumption DEF Private
  <2>2. ASSUME NEW d \in Private
        PROVE  /\ \E q \in Objects : objects'[q].conn = d
               /\ conns'[d].stream # None =>
                     /\ conns'[d].stream \in Open(streams')
                     /\ streams'[conns'[d].stream].id = None
    <3>1. PICK q \in Objects : objects[q].conn = d
      BY <1>5 DEF PrivateOwned
    <3>2. objects'[q].conn = d
      BY <1>2, <1>12, <2>1, <3>1
    <3>3. ASSUME conns[d].stream # None
          PROVE  /\ conns[d].stream \in Open(streams')
                 /\ streams'[conns[d].stream].id = None
      <4>1. /\ conns[d].stream \in Open(streams) /\ conns[d].stream \in Streams
            /\ streams[conns[d].stream].id = None
        BY <1>5, <3>3 DEF PrivateOwned, Open
      <4>2. Kept(conns[d].stream, None, streams, streams')
        BY <1>8, <4>1
      <4> QED BY <3>3, <4>1, <4>2 DEF Kept, Open
    <3> QED BY <2>1, <3>2, <3>3
  <2>3. ASSUME NEW q \in Objects, objects'[q] # NoObject, ~objects'[q].persistent
        PROVE  /\ objects'[q].conn \in Private
               /\ \A u \in Objects \ {q} : objects'[u].conn # objects'[q].conn
    <3>1. q # o /\ objects'[q] = objects[q]
      BY <1>12, <2>3
    <3>2. /\ objects[q].conn \in Private
          /\ \A u \in Objects \ {q} : objects[u].conn # objects[q].conn
      BY <1>5, <2>3, <3>1 DEF PrivateOwned
    <3> QED BY <1>3, <1>12, <3>1, <3>2
  <2>4. ASSUME NEW s \in Open(streams'), streams'[s].id = None
        PROVE  \E d \in Private : /\ conns'[d].stream = s
                                 /\ \A e \in Live' \ {d} : conns'[e].stream # s
    <3>1. PICK d \in Private : /\ conns[d].stream = s
                              /\ \A e \in Live \ {d} : conns[e].stream # s
      BY <1>5, <1>9, <2>4 DEF PrivateOwned
    <3>2. s # None
      BY PointersAssumption DEF Open
    <3>3. \A e \in Live' : e # c => e \in Live /\ conns'[e] = conns[e]
      BY <1>10, <1>16 DEF Live
    <3> QED BY <1>4, <1>10, <2>1, <3>1, <3>2, <3>3
  <2> QED BY <1>16, <2>2, <2>3, <2>4 DEF PrivateOwned
<1>22. RightStream'
  <2> SUFFICES ASSUME NEW d \in Live', conns'[d].stream \in Open(streams')
               PROVE  /\ streams'[conns'[d].stream].server = conns'[d].of.server
                      /\ conns'[d].persistent =>
                            /\ streams'[conns'[d].stream].id # None
                            /\ streams'[conns'[d].stream].id.login
                                  = conns'[d].of.login
    BY DEF RightStream
  <2>1. d # c
    BY <1>4, <1>10, PointersAssumption DEF Open
  <2>2. d \in Live /\ conns'[d] = conns[d]
    BY <1>10, <1>16, <2>1 DEF Live
  <2>3. /\ streams'[conns[d].stream] = streams[conns[d].stream]
        /\ conns[d].stream \in Open(streams)
    BY <1>9, <2>2
  <2> QED BY <1>5, <2>2, <2>3 DEF RightStream
<1>23. LostToTwin'
  <2> SUFFICES ASSUME NEW q \in Objects, objects'[q] # NoObject,
                      objects'[q].conn \notin Live'
               PROVE  \E d \in Live' \ Private' :
                         conns'[d].of = conns'[objects'[q].conn].of
    BY DEF LostToTwin
  <2>1. c \in Live' \ Private' /\ conns'[c].of = p
    BY <1>3, <1>4, <1>7, <1>10, <1>16
  <2>2. /\ q # o /\ objects'[q] = objects[q] /\ objects[q].conn # c
        /\ objects[q].conn \in Conns
    BY <1>3, <1>12, <2>1, ObjectFacts
  <2>3. CASE objects[q].conn \in gone
    BY <1>10, <1>11, <2>1, <2>2, <2>3
  <2>4. CASE objects[q].conn \notin gone
    <3>1. /\ conns'[objects[q].conn] = conns[objects[q].conn]
          /\ objects[q].conn \notin Live
      BY <1>10, <1>16, <2>2, <2>4
    <3>2. PICK d \in Live \ Private : conns[d].of = conns[objects[q].conn].of
      BY <1>5, <2>2, <3>1 DEF LostToTwin
    <3>3. CASE d \in gone
      BY <1>7, <2>1, <2>2, <3>1, <3>2, <3>3
    <3>4. CASE d \notin gone
      <4>1. d \in Live' \ Private' /\ conns'[d] = conns[d]
        BY <1>3, <1>10, <1>16, <3>2, <3>4 DEF Live
      <4> QED BY <2>2, <3>1, <3>2, <4>1
    <3> QED BY <3>3, <3>4
  <2> QED BY <2>3, <2>4
<1> QED BY <1>15, <1>17, <1>18, <1>19, <1>20, <1>21, <1>22, <1>23 DEF Inv, Owned

LEMMA InvStep == Inv /\ [Next]_vars => Inv'
<1> SUFFICES ASSUME Inv, [Next]_vars PROVE Inv'
  OBVIOUS
<1>1. ASSUME NEW o \in Objects, NEW p \in Params,
             ConstructPrivate(o, p) \/ ConstructPersistent(o, p)
      PROVE  Inv'
  BY <1>1, ConstructPrivateKeeps, ConstructPersistentKeeps
<1>2. ASSUME NEW o \in Objects, Drop(o) PROVE Inv'
  BY <1>2, DropPersistentKeeps, DropPrivateKeeps
<1>3. ASSUME NEW o \in Objects, Connect(o) \/ Reconnect(o) \/ CloseOnError(o)
      PROVE  Inv'
  BY <1>3, ConnectKeeps, ReconnectKeeps, CloseOnErrorKeeps
<1>4. CASE UNCHANGED vars
  BY <1>4
  DEF vars, Inv, Owned, TypeOK, ObjectsOK, ConnsOK, StreamsOK, PoolOwns,
      PrivateOwned, RightStream, LostToTwin, Live, Private
<1> QED BY <1>1, <1>2, <1>3, <1>4 DEF Next

-----------------------------------------------------------------------------
(* Theorems.                                                               *)

\* In every run the invariant holds.
THEOREM Invariant == Spec => []Inv
BY InvInit, InvStep, PTL DEF Spec

\* Pointers of objects, connections and the list lead to what they should.
THEOREM TypesHold == Spec => []TypeOK
<1>1. Inv => TypeOK
  BY DEF Inv
<1> QED BY <1>1, Invariant, PTL

\* persistent_list holds each persistent connection that is not freed, and
\* nothing else, however sessions follow one another: __construct frees what
\* it replaces, bee_object_free frees only what is not in the list.
THEOREM PoolOwnsHolds == Spec => []PoolOwns
<1>1. Inv => PoolOwns
  BY DEF Inv, Owned
<1> QED BY <1>1, Invariant, PTL

\* A connection that is not persistent, and its stream, belong to one object
\* and last as long as it does, whatever happens to persistent ones.
THEOREM PrivateOwnedHolds == Spec => []PrivateOwned
<1>1. Inv => PrivateOwned
  BY DEF Inv, Owned
<1> QED BY <1>1, Invariant, PTL

\* A stream found under an id, with or without its suffix, goes to the server
\* of the connection that finds it, and was opened for the same login.
THEOREM RightStreamHolds == Spec => []RightStream
<1>1. Inv => RightStream
  BY DEF Inv
<1> QED BY <1>1, Invariant, PTL

\* Only an object made with the same parameters takes an object's connection
\* away: register keys keep different parameters apart.
THEOREM LostToTwinHolds == Spec => []LostToTwin
<1>1. Inv => LostToTwin
  BY DEF Inv
<1> QED BY <1>1, Invariant, PTL
=============================================================================
