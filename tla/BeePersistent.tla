----------------------------- MODULE BeePersistent -----------------------------
(***************************************************************************)
(* Persistent connections: the Bee objects of a PHP process, the           *)
(* connections they point to, the streams those point to, and the two      *)
(* kinds of entries of PHP's persistent_list, connections and streams.     *)
(* A script makes objects (calling __construct once for each), uses them   *)
(* and drops them; a session ends when its last object is dropped.         *)
(*                                                                         *)
(* Nothing is said of what travels on a stream (see BeeClient): a method   *)
(* is one step here, and only decides whether the stream is opened, found  *)
(* or closed.  Memory that is freed is not used again, so that a pointer   *)
(* to it stays recognisable; a method that would follow one is not started *)
(* (what it would do is undefined).                                        *)
(***************************************************************************)
EXTENDS Integers

CONSTANTS
    Objects,    \* objects the script can hold at a time
    Params,     \* what it passes to __construct: server, login and suffix
    Settings,   \* values of bee.persistent
    Conns,      \* connections that are ever allocated
    Streams,    \* streams that are ever opened
    None        \* a null pointer, no persistent id, no suffix

VARIABLES
    objects,    \* t_obj->obj and t_obj->is_persistent
    conns,      \* the fields of a bee_connection that say which stream it has
    pool,       \* the connections in persistent_list, by key
    streams     \* PHP's streams; one with an id is in persistent_list

vars == <<objects, conns, pool, streams>>

Servers  == {p.server : p \in Params}
Logins   == {p.login : p \in Params}
Suffixes == {p.suffix : p \in Params} \cup {None}
Ids      == [server : Servers, login : Logins, suffix : Suffixes]

ASSUME ParamsAssumption == Params \subseteq Ids
ASSUME PointersAssumption == None \notin Conns \cup Streams \cup Ids
ASSUME SettingsAssumption == Settings \subseteq BOOLEAN

-----------------------------------------------------------------------------
(* Keys and ids.                                                           *)

\* persistent_id makes a string of the parameters and reports a length: with
\* the final NUL if there is no suffix, without it if there is one.
Reported(p) == IF p.suffix = None THEN 1 ELSE 0

\* A key of persistent_list is that string up to a length, counted from its
\* last byte: -1 is short of the "]", 1 includes the NUL.
Keys == [of : Params, upto : -1..1]
Key(p, n) == [of |-> p, upto |-> n]

\* __construct searches the list with the length as it is reported ...
FindKey(p) == Key(p, Reported(p))
\* Variant: the suffix is not part of the key.
RegisterKeyUnsuffixed(p) ==
    Key(CHOOSE q \in Params : q.server = p.server /\ q.login = p.login,
        Reported(p) - 1)
\* ... and adds to it with one byte less.
RegisterKey(p) == Key(p, Reported(p) - 1)

\* Variant: the port is not part of the id.
StreamIdOfLogin(p, suffix) ==
    [server |-> None, login |-> p.login, suffix |-> suffix]
\* The id under which PHP keeps a stream.
StreamId(p, suffix) ==
    [server |-> p.server, login |-> p.login, suffix |-> suffix]

NoObject == [conn |-> None, persistent |-> FALSE]
NoConn == [state |-> "unused", of |-> None, persistent |-> FALSE,
           stream |-> None, sid |-> None]
NoStream == [state |-> "unused", id |-> None, server |-> None]

Init ==
    /\ objects = [o \in Objects |-> NoObject]
    /\ conns = [c \in Conns |-> NoConn]
    /\ pool = [k \in Keys |-> None]
    /\ streams = [s \in Streams |-> NoStream]

-----------------------------------------------------------------------------
(* Streams.  A connection and the streams, before and after.               *)

Open(ss) == {s \in Streams : ss[s].state = "open"}
Under(id, ss) == {s \in Open(ss) : id # None /\ ss[s].id = id}
Shut(which, ss) ==
    [s \in Streams |->
        IF s \in which THEN [ss[s] EXCEPT !.state = "closed"] ELSE ss[s]]

\* bee_stream_close: without a stream, the one under the id is closed.
Held(conn, ss) ==
    IF conn.stream # None THEN {conn.stream} ELSE Under(conn.sid, ss)
Closed(conn) == [conn EXCEPT !.stream = None, !.sid = None]

\* The loop of __bee_connect.  The suffix was not kept, so that the id has
\* none.  PHP gives back the stream under the id, or finds it dead, closes it
\* and opens another, unless that fails.
Opened(conn, ss) ==
    LET sid  == IF conn.persistent THEN StreamId(conn.of, None) ELSE None
        here == [conn EXCEPT !.sid = sid]
        left == Shut(Under(sid, ss), ss)
    IN  {[conn |-> [here EXCEPT !.stream = s], streams |-> ss] :
            s \in Under(sid, ss)}
        \cup {[conn |-> here, streams |-> left]}
        \cup {[conn |-> [here EXCEPT !.stream = s],
               streams |-> [left EXCEPT ![s] =
                  [state |-> "open", id |-> sid, server |-> conn.of.server]]] :
              s \in {t \in Streams : ss[t].state = "unused"}}

\* __bee_connect: a stream under the connection's id is taken as it is.
Connected(conn, ss) ==
    LET sid == IF conn.sid = None THEN StreamId(conn.of, None) ELSE conn.sid
    IN  IF conn.persistent /\ Under(sid, ss) # {}
        THEN {[conn |-> [conn EXCEPT !.sid = sid, !.stream = s],
               streams |-> ss] : s \in Under(sid, ss)}
        ELSE Opened(conn, ss)

-----------------------------------------------------------------------------
(* Objects.                                                                *)

\* What a method of o follows is there.
Sound(c) ==
    /\ conns[c].state = "live"
    /\ conns[c].stream # None => conns[c].stream \in Open(streams)
Usable(o) == objects[o] # NoObject /\ Sound(objects[o].conn)

Unused == {c \in Conns : conns[c].state = "unused"}

New(p, persistent) ==
    [state |-> "live", of |-> p, persistent |-> persistent, stream |-> None,
     sid |-> IF persistent THEN StreamId(p, p.suffix) ELSE None]
\* bee_connection_free
Freed(conn) == [Closed(conn) EXCEPT !.state = "freed"]

\* bee.persistent is off and no suffix is given.
ConstructPrivate(o, p) ==
    /\ FALSE \in Settings /\ p.suffix = None
    /\ objects[o] = NoObject
    /\ \E c \in Unused :
          /\ objects' = [objects EXCEPT ![o] = [conn |-> c, persistent |-> FALSE]]
          /\ conns' = [conns EXCEPT ![c] = New(p, FALSE)]
    /\ UNCHANGED <<pool, streams>>

\* The new entry replaces one of the same key, and PHP destroys what is
\* replaced.
ConstructPersistent(o, p) ==
    /\ TRUE \in Settings \/ p.suffix # None
    /\ objects[o] = NoObject
    /\ LET found == pool[FindKey(p)]
           old   == pool[RegisterKey(p)]
       IN  IF found # None
           THEN /\ objects' = [objects EXCEPT
                      ![o] = [conn |-> found, persistent |-> TRUE]]
                /\ UNCHANGED <<conns, pool, streams>>
           ELSE \E c \in Unused :
                /\ objects' = [objects EXCEPT
                      ![o] = [conn |-> c, persistent |-> TRUE]]
                /\ pool' = [pool EXCEPT ![RegisterKey(p)] = c]
                /\ IF old = None
                   THEN conns' = [conns EXCEPT ![c] = New(p, TRUE)]
                        /\ UNCHANGED streams
                   ELSE /\ Sound(old)
                        /\ conns' = [conns EXCEPT ![c] = New(p, TRUE),
                                                  ![old] = Freed(@)]
                        /\ streams' = Shut(Held(conns[old], streams), streams)

\* connect, or the first request of an object.
Connect(o) ==
    /\ Usable(o)
    /\ LET c == objects[o].conn IN
       /\ conns[c].stream = None
       /\ \E r \in Connected(conns[c], streams) :
             conns' = [conns EXCEPT ![c] = r.conn] /\ streams' = r.streams
    /\ UNCHANGED <<objects, pool>>

\* Variant: the old stream is forgotten.
ReconnectForgetting(o) ==
    /\ Usable(o)
    /\ LET c == objects[o].conn IN
       \E r \in Connected(Closed(conns[c]), streams) :
             conns' = [conns EXCEPT ![c] = r.conn] /\ streams' = r.streams
    /\ UNCHANGED <<objects, pool>>

\* reconnect, or a request that finds its stream at the end.
Reconnect(o) ==
    /\ Usable(o)
    /\ LET c    == objects[o].conn
           left == Shut(Held(conns[c], streams), streams) IN
       \E r \in Connected(Closed(conns[c]), left) :
             conns' = [conns EXCEPT ![c] = r.conn] /\ streams' = r.streams
    /\ UNCHANGED <<objects, pool>>

\* A request that cannot make sense of its answer (error_con).
CloseOnError(o) ==
    /\ Usable(o)
    /\ LET c == objects[o].conn IN
       /\ conns[c].stream # None
       /\ conns' = [conns EXCEPT ![c] = Closed(@)]
       /\ streams' = Shut(Held(conns[c], streams), streams)
    /\ UNCHANGED <<objects, pool>>

\* Variant: the connection is freed whether or not it is persistent.
DropAlways(o) ==
    /\ objects[o] # NoObject
    /\ objects' = [objects EXCEPT ![o] = NoObject]
    /\ LET c == objects[o].conn IN
             /\ conns' = [conns EXCEPT ![c] = Freed(@)]
             /\ streams' = Shut(Held(conns[c], streams), streams)
    /\ UNCHANGED pool

\* bee_object_free: a persistent connection stays.
Drop(o) ==
    /\ objects[o] # NoObject
    /\ objects' = [objects EXCEPT ![o] = NoObject]
    /\ LET c == objects[o].conn IN
       IF objects[o].persistent THEN UNCHANGED <<conns, streams>>
       ELSE /\ conns' = [conns EXCEPT ![c] = Freed(@)]
            /\ streams' = Shut(Held(conns[c], streams), streams)
    /\ UNCHANGED pool

Next ==
    \/ \E o \in Objects, p \in Params :
          ConstructPrivate(o, p) \/ ConstructPersistent(o, p)
    \/ \E o \in Objects :
          Connect(o) \/ Reconnect(o) \/ CloseOnError(o) \/ Drop(o)

Spec == Init /\ [][Next]_vars

-----------------------------------------------------------------------------
(* Properties.                                                             *)

Live == {c \in Conns : conns[c].state = "live"}
Private == {c \in Live : ~conns[c].persistent}

ObjectType == [conn : Conns \cup {None}, persistent : BOOLEAN]
ConnType == [state : {"unused", "live", "freed"}, of : Params \cup {None},
             persistent : BOOLEAN, stream : Streams \cup {None},
             sid : Ids \cup {None}]
StreamType == [state : {"unused", "open", "closed"}, id : Ids \cup {None},
               server : Servers \cup {None}]

TypeOK ==
    /\ objects \in [Objects -> ObjectType]
    /\ conns \in [Conns -> ConnType]
    /\ pool \in [Keys -> Conns \cup {None}]
    /\ streams \in [Streams -> StreamType]

\* persistent_list holds the persistent connections that are not freed, each
\* once, and nothing else: none leaks, none is freed twice (php_bee_dtor and
\* bee_object_free divide the work).
PoolOwns ==
    /\ \A k \in Keys : pool[k] # None =>
          pool[k] \in Live \ Private /\ RegisterKey(conns[pool[k]].of) = k
    /\ \A c \in Live \ Private : \E k \in Keys : pool[k] = c

\* A connection that is not persistent belongs to one object, its stream to
\* it alone, and both are there as long as the object is, whatever becomes
\* of persistent ones; when the object goes, they go.
PrivateOwned ==
    /\ \A c \in Private :
          /\ \E o \in Objects : objects[o].conn = c
          /\ conns[c].stream # None =>
                /\ conns[c].stream \in Open(streams)
                /\ streams[conns[c].stream].id = None
    /\ \A o \in Objects : objects[o] # NoObject /\ ~objects[o].persistent =>
          /\ objects[o].conn \in Private
          /\ \A q \in Objects \ {o} : objects[q].conn # objects[o].conn
    /\ \A s \in Open(streams) : streams[s].id = None =>
          \E c \in Private : /\ conns[c].stream = s
                             /\ \A d \in Live \ {c} : conns[d].stream # s

\* A stream that is found, and not opened, goes to the server of the
\* connection that finds it, and was opened for its login (the id of
\* persistent_id says both).
RightStream ==
    \A c \in Live : conns[c].stream \in Open(streams) =>
        LET s == streams[conns[c].stream] IN
        /\ s.server = conns[c].of.server
        /\ conns[c].persistent =>
              s.id # None /\ s.id.login = conns[c].of.login

\* An object loses its connection only to one made with the same parameters:
\* keys keep different parameters apart (register key of __construct).
LostToTwin ==
    \A o \in Objects : objects[o] # NoObject /\ objects[o].conn \notin Live =>
        \E c \in Live \ Private : conns[c].of = conns[objects[o].conn].of

-----------------------------------------------------------------------------
(* What the documentation says and the code does not do.                   *)

\* "don't close connections between sessions" (README.md:85): the first object
\* of a session closes no stream that an earlier session left (__construct
\* does not find the connection it has registered, and destroys it).
KeptBetweenSessions ==
    [][(\A o \in Objects : objects[o] = NoObject)
         => Open(streams) \subseteq Open(streams')]_vars
=============================================================================
