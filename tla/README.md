# bee-php: a TLA+ model of the PHP connector

The repository is a PHP extension written in C: a client of the Bee database,
whose protocol is a stream of length-prefixed msgpack messages with a sync
number in every request and answer. PHP runs one method of an object at a time;
what makes the code hard is everything that happens to the stream in between:
answers that come late, out of order or not at all, reads and writes that fail
half way, a server that goes away, and the state an object carries from one call
to the next (the stream, the value buffer, the sync counter, the schema cache).

Paths in this file are relative to the root of the repository.

## 1. Inventory

| component | state | operations | talks to |
|---|---|---|---|
| client (`src/bee.c`) | `bee_connection`: stream, value buffer, `tps`, schema, user and password, greeting and salt; the global `sync_counter` | the methods of class `Bee`; `__bee_connect`, `__bee_reconnect`, `__bee_authenticate`, `get_spaceno_by_name`, `get_indexno_by_name`, `bee_step_recv` | all below, by calls |
| persistent connections (`src/bee.c:153-172`, `:266-313`, `:1064-1155`) | PHP's `persistent_list` of connections, PHP's list of persistent streams | `__construct`, destruction, `connect`, `reconnect` | client, network |
| network (`src/bee_network.c`) | one `php_stream` | open (with options and timeouts), read, write, close | PHP streams |
| schema cache (`src/bee_schema.c`) | a hash table of spaces, in each one of indexes, every row under its number and its name | add spaces, add indexes, look up, flush, delete | hash table, msgpack |
| hash table (`src/third_party/mhash.h`) | slots, a shadow table while it is resized step by step | put, find, delete, iterate | - |
| protocol (`src/bee_proto.c`) | - | size and encode each request, parse the header and body of an answer | msgpack |
| msgpack (`src/bee_msgpack.c`) | - | PHP values to bytes and back, size before encoding | - |
| request buffer (`src/bee_tp.c`) | position and end of a batch in the value buffer | reserve, flush, update | `tp.h` |
| update operations, iterators, keys (`src/bee.c:514-791`) | - | check and normalise what the script passes | - |
| module setup (`src/bee.c:121-137`, `:918-1034`) | ini entries, globals, constants, classes | start, request start, shutdown | PHP |
| vendored code (`msgpuck`, `tp`, `sha1`, `base64`, `PMurHash`) | - | - | - |

How a call runs. A request method (ping, select, insert, ...) connects if there
is no stream, reconnects if the stream is at its end, resolves the names of its
space and index (a lookup is a request of its own, written and read at once,
whose answer goes into the schema cache), encodes the request after whatever the
value buffer holds, writes the buffer, and reads one answer, which it accepts
only if it carries the request's sync number. Authentication writes three
requests at once and reads three answers, told apart by sync number.

What is hard, and what makes it correct (each hazard, with its line and its
property, is listed in `PROJECT.json`):

- client and network: a request succeeds only with its own answer; a stream that
  stays open is empty unless a read gave up on it, or a write that failed came
  through in part; a request of a write that succeeded is never written again;
  every method returns;
- schema cache: what it says of a name is what the server says, although lookups
  do not look at sync numbers, and cache an answer that is late;
- persistent connections: an object's connection is live as long as the object
  is, or an object of the same parameters took its place; a stream found again
  under an id is the stream of the same server and user; nothing is freed twice
  or never;
- schema cache, in memory: the two nodes of a row share a string and a table,
  can be replaced apart from each other, and are freed once;
- hash table: it is a map at every step of a resize, every search ends, and a
  flush, which deletes from the table it iterates over, leaves nothing;
- request buffer: growing moves the bytes under a cursor that must follow, and
  makes room for all but a batch that outgrows the buffer;
- protocol and msgpack: the size counted before encoding is the size encoded,
  what the server reads is what was asked for, and what a method returns is all
  of the answer;
- update operations: what is accepted is what the server understands.

## 2. Plan

| order | module | models | status |
|---|---|---|---|
| 1 | `BeeClient` | an object with a connection of its own, its stream and the server | done |
| 2 | `BeeSession` | what an object promises, with no stream at all (abstract) | done |
| 3 | `BeeClientSession` | that 1 implements 2 | done |
| 4 | `BeeClientProofs`, `BeeSessionProofs` | theorems about 1 and 3 | done |
| 5 | `BeePersistent`, `BeePersistentProofs` | several objects, the lists of connections and of streams, sessions that begin and end | done |
| 6 | `BeeMap`, `BeeHash`, `BeeHashProofs` | the hash table with its incremental resize, as the schema cache uses it; implements a map | done |
| 7 | `BeeCache`, `BeeSchema`, `BeeSchemaProofs` | the nodes of the schema cache and their memory, a catalog that changes; implements a cache of names and numbers | done |
| 8 | `BeeBuffer`, `BeeBufferProofs` | value buffer and `tp`: reserve, batches, sizes | done |
| 9 | `BeeMsgpack`, `BeeArguments`, `BeeMessages`, `BeeRequests`, `BeeAnswers` | values, arguments, requests and answers of every method, and the second parser; implements a list of messages | done |
| 10 | `BeeRecursion`, `BeeRequestsProofs` | that recursive functions exist; theorems about 9 | done |

The modules stack: `BeeRequests` takes the calls apart that `BeeClient` starts,
`BeeBuffer` counts the bytes that both write, `BeeSchema` is the cache that
`BeeClient` has as a function, `BeeHash` the table that `BeeSchema` has as one.
Where two modules model the same code at two levels, an abstract module states
what they have in common: `BeeCache` (a `PROPERTY` of `MCBeeSchema`; the cache
inside `BeeClient` is that function of names and numbers) and `BeeMap`.

What is left: a second `__construct` of one object.

## 3. The core: `BeeClient`

| variable | code |
|---|---|
| `pc`, `frame`, `result` | where the running method is, its arguments and locals, what it returned |
| `passwd` | `obj->passwd` is set |
| `sync` | `BEE_G(sync_counter)` |
| `wbuf` | `obj->value`: the requests between 0 and `len` |
| `cache` | `obj->schema` as a function of names and numbers |
| `stream` | `obj->stream` is open |
| `peer`, `todo`, `torn`, `inbox` | the other end: still there; requests received and not answered, each as often as it was received; it waits for the rest of a request cut in two; what it wrote and the client has not read |
| `tainted`, `dirty`, `written` | history, read by no action: on this stream a read gave up and left it open, a failed write came through in part, or requests of earlier failed writes were sent along; this has happened since the last flush of the cache; sync numbers of the requests of successful writes |

Every method of class `Bee` is an action that starts it, and every wait for the
network ends a step: the server's answers, its disappearance and the timeout fall
between any two steps.

| actions | code |
|---|---|
| `Ping`, `CallProc`, `Eval`, `Insert`, `Replace`, `Upsert`, `Delete`, `Select`, `Update` | the request methods: parse parameters, fetch the object |
| `Authenticate`, `Connect`, `Reconnect`, `FlushSchema`, `CloseMethod` | the other methods |
| `Demand`, `EofSeen`, `EofNotSeen` | `BEE_CONNECT_ON_DEMAND`: connect, or reconnect at the end of the stream |
| `OpenFails`, `RetrySleep`, `OpenSucceeds`, `ReadGreeting` | the loop of `__bee_connect` and the greeting |
| `AuthSend`, `AuthShortRead`, `AuthGarbage`, `AuthNoRows`, `AuthSpaces`, `AuthIndexes` | `__bee_authenticate`: one write, three reads |
| `SpaceKnown`, `SpaceLookup`, `SpaceAnswer`, `IndexKnown`, `IndexLookup`, `IndexAnswer`, `LookupFails` | `get_spaceno_by_name`, `get_indexno_by_name` |
| `BadArguments` | a limit of the wrong type (found before the lookups), an iterator or update operation (after them) |
| `SendRequest` | encode after the buffer's contents, write |
| `RecvOk`, `RecvRefused`, `RecvKeeps`, `RecvCloses` | `bee_step_recv`: success, an error of the server, `error` (the stream stays), `error_con` (it is closed) |
| `ServerAnswers`, `ServerLeaves` | the server, from how the client uses it: answers in any order, never unasked |

What is abstracted, and why it does not hide what the properties speak of:

- A message is a greeting, a whole answer, or junk: what is left of a message
  after a read took part of it. A read that starts in junk takes an arbitrary
  stretch of what follows, and is never taken for a valid answer: that the bytes
  of a tuple happen to spell a well-formed answer with the right sync number is
  outside the model.
- The server is well-formed and its catalog is constant. An answer is a success
  or an error, chosen freely.
- A write that fails (`SendFails`) is short or times out, which closes nothing:
  the stream stays open, the server may stay, and a prefix of the requests may have
  reached it, the last of them cut in two (`torn`). Those that came whole may be
  answered on the open stream, and are sent again from the start of the buffer
  with the next request. A server that waits for the rest of a request takes what
  comes next for it (`Arrives`): any number of the requests of the next write are
  swallowed, and what follows is understood or is torn again, or the server leaves
  with a last message. That bytes of several writes happen to spell a request of
  another kind is outside the model.
- A name is never confused with a number. `bee.retry_count` is at least one
  (`RetryAssumption`).
- An answer to a request on a user space carries no rows of a system space; an
  answer of the wrong kind is parsed as far as its tuples look alike (`Parsed`).

`BeeSession` says the same without stream, buffer or cache: one call at a time;
a call issues numbers; a request that could not be sent may reach the server all
the same, and again with a later call; one that was sent reaches it no more. A call
that waits for an answer of its own (`own`) succeeds only while that answer is
outstanding, and takes it off what later calls can meet. `BeeClientSession` gives the
mapping: `own` is the sync number `bee_step_recv` waits for, `sent` the numbers of
the requests of successful writes, `open` those of the requests still to be answered
or answered and not yet read.

## 4. Persistent connections: `BeePersistent`

| variable | code |
|---|---|
| `objects` | `bee_object`: `obj`, `is_persistent` |
| `conns` | `bee_connection`: allocated, live or freed; the parameters of `__construct`; `stream` and `persistent_id` |
| `pool` | the connections in PHP's `persistent_list`, by key |
| `streams` | PHP's streams: open or closed, the persistent id, the server they go to |

| actions | code |
|---|---|
| `ConstructPrivate`, `ConstructPersistent` | `__construct` without and with persistence (`bee.persistent`, which a script may change, or a suffix): search the list, allocate, register, destroy what the new entry replaces |
| `Connect`, `Reconnect` | the methods, and the first request of an object or one that finds its stream at the end: a stream under the connection's id is used as it is, or PHP finds it dead and opens another, or opening fails |
| `CloseOnError` | `error_con` of `bee_step_recv` |
| `Drop` | the script lets go of an object: `bee_object_free` |

A session ends when its last object is dropped. What a stream carries is the
matter of `BeeClient`; here a method only opens, finds or closes, and the login is
the one of `__construct` (`orig_login`, of which the id of a stream is made):
`authenticate`, which changes the user of an open stream, is not here. Freed memory
is not allocated again, so that a stale pointer can be told; a method that would
follow one (the object lost its connection, or the connection its stream) is not
started, since what it does is undefined. Keys and ids are records of parameters
instead of strings: names that contain brackets or dashes so placed that two
different parameters spell one string are left out. What is modelled of their
strings is their length, because `__construct` searches with one length and
registers with another.

## 5. The hash table: `BeeHash`

| variable | code |
|---|---|
| `h`, `s` | the table and `h->shadow`: slots (`p`), dirty bits (`b`), `n_buckets`, `n_dirty`, `size` |
| `position` | `h->resize_position` |
| `loop` | `i` and `batch` of the loop in `mh_resize` |
| `calls`, `iter` | what the caller has still to call: the two puts of a row, the two deletes of one round of a flush; `pos` of `mh_foreach` |
| `got` | the row the last lookup found |

| actions | code |
|---|---|
| `AddRow`, `Look`, `Flush` | the callers in `bee_schema.c`: `schema_add_space`, `bee_schema_get_sid_by_string`, `schema_space_free` |
| `PutGrows`, `Store` | `mh_put`, with `mh_start_resize` |
| `Delete` | `mh_find` and `mh_del`, with `mh_del_resize` |
| `CopySlot`, `Pause`, `Swap` | the loop of `mh_resize`: a slot, the end of a batch, the end of the table |

A search, whose loop has no bound in C, is the least number of collisions at which
it stops; an action that searches has as a guard that it does stop, so a search that
would not end shows as a deadlock (deadlock is checked) and as a violation of
`ChainsEnd`; both are proved not to happen (section 10). The bytes a freed slot
keeps are left out: `mh_del_resize` reads them while they are still those of the
key.

## 6. The schema cache in memory: `BeeSchema`

| variable | code |
|---|---|
| `spaces`, `tables` | `space_hash`, and the `index_hash` of every space: the node under every key |
| `rows`, `irows` | the number and name in every value |
| `memory` | every block (the node under the name, the node under the number, the string, the table): unused, live, freed, or freed again |
| `flush` | where `schema_space_free` and `schema_index_free` are, and the nodes `sv1`, `sv2` |
| `catalog` | the server's spaces and indexes, which change |
| `late` | the rows of answers that are due on the stream although the lookup that asked for them gave up |
| `seen`, `lost` | history, read by no action: the rows the server had, or that were due, since the last flush in which no resize of the spaces ended; no pointer leads to some block any more |

| actions | code |
|---|---|
| `AddSpace`, `AddIndex` | `schema_add_space`, `schema_add_index`: allocate two nodes, put both |
| `FlushBegins`, `VisitSpace`, `VisitIndex`, `SpaceDone`, `FlushEnds` | `bee_schema_flush`: one round of a loop each |
| `Change` | the server |
| `FallsDue`, `NothingDue` | a lookup gives up without closing the stream (`bee.c:816-826`); what was due has been read, or the stream was closed |

The rows that are added are those of the catalog, or of an answer that is due
(`Told`): a lookup caches whatever answer comes next, also one from before a flush.

A table is a map here, visited in any order. It is visited completely unless a
deletion of the visit ends a resize that puts have started, which swaps the table
(`MaySwap`; `mhash.h:352-354`, `:453-456`): nodes of the new table in slots the
visit has passed are then missed, and `SpaceDone` and `FlushEnds` may come while
some are left. Whether a table is being resized, and so may be swapped, is left
open here. The space whose table of indexes was swapped is freed with
that table: the indexes that are left, and the arrays of a resize that still goes
on, are lost. Spaces that are left after a flush are found as before.

The key of a number is its four bytes; `Bytes` may give a number the bytes of a
name. A flush visits a row by whichever of its nodes is still there, deletes what is
under its two keys, and these may be nodes of other rows: `NoDangling` and
`FreedOnce` say that this never frees what is reachable and never frees twice,
`NothingLost` that a flush frees a cache wholly of which nothing was lost: no node
was replaced (nothing else points to it) and no table deleted in mid-resize or after
a swap. `SinceFlush` says what a row that is found can be: one the server had, or
had told in an answer that was due, since the last flush that missed nothing.

## 7. The value buffer: `BeeBuffer`

`len` and `a` are those of `obj->value`, `cur` is `obj->tps` (is `s` the buffer
as it is now, the position, the end), `step` is what the running method does,
`left` what its encoder has still to write, `written` where the last write ended.
`EncodeBegins`, `EncodeItem`, `EncodeEnds` are the encoders of `bee_proto.c` and
the write; `Recv`, `RecvFails` are `bee_step_recv`; `BatchBegins`, `BatchItem`,
`BatchItemGrows`, `BatchEnds`, `Answer`, `AnswerFails` are a lookup or the
authentication batch, which are encoded with `tp.h` and whose answers are read to
the start of the buffer. Reallocation may move the buffer.

`tp_ensure` compares the item with what is left up to `e` (`Unused`, `Used`). When
nothing is, `bee_tp_reserve` asks for room behind `len`, which is 0 or what a failed
write has left, and not behind the position of the batch (`bee_tp.c:15`), and never
sets the size from which `tp_ensure` computes `e`: from then on `e` is anywhere
(`told` is FALSE), so that the next item is written without a further look, or room
is asked for again, or, where the size that is not set reads -1, the item is left
out. A batch whose names and login are long can so be written outside of the
buffer; the step is then `overrun`, at which the model stops, since what the program
does from there on is undefined. `Fits` says that this is the only write that may
end outside: one of a batch after it has outgrown the buffer it began in. The first
allocation of the code is 256 bytes, which hold the batches of logins and names
of ordinary length. `MaxBatch` bounds only after how many bytes of a batch another
item is begun, not how long it is.

## 8. Requests and answers: `BeeMsgpack`, `BeeArguments`, `BeeRequests`, `BeeAnswers`

`BeeMsgpack` has PHP's values and arrays (pairs in order, and the next index), and
bytes as a sequence of items, each with what it says and how many bytes it takes.
`Pack`, `Sizeof` and `Unpack` are `php_mp_pack`, `php_mp_sizeof` and
`php_mp_unpack`, each translated by itself, since their agreement is what is
checked. `BeeArguments` is what the methods do with arguments before they encode:
numbers that lose their upper half, names, keys (`pack_key`), iterators,
operations (`bee_update_verify_op`). `BeeRequests` has the encoders, the parser of
the methods (`bee_step_recv`), one action for each method, and the server's reading
of the bytes (`Understood`): what it reads is a number of requests, each behind its
size, if the bytes behind each size are as many as it says (`Framed`), and of each
request its header and body. `Read` reads from the last item to the first, where
the item of a list or a map finds the values behind it already read. `BeeAnswers`
has how the server writes an answer, the parser of the lookups (`php_tp_response`),
and the properties of what is returned.

A write may fail, which leaves the request in the buffer (`unsent` is history: the
calls whose requests are there). The next request is written behind it, unless the
call, whatever its method, has found the stream at its end and authenticated, or
has looked a name up (`Waiting`): both are encoded from the start of the
buffer. Such a request of the extension's own (`Own`: `Auth`, `Lookup`, `AllSpaces`,
`AllIndexes` of `BeeArguments`) may fail to be written too, then waits in place of what
was there, and is sent along with the next request: by a call that does not come to
its request (`GivesUp`) or by `connect`, `reconnect` and `authenticate`
(`Connects`). A call gives up as well, with an exception, where the server is not
reached or its answer is not good (`ByNetwork`). What it writes and reads when that
succeeds is in `BeeClient`, and so is what a write that fails delivers: here it
delivers nothing, and the server reads what the writes that get through have in them.
Of a sync the header carries 32 bits (`OnWire`; five bytes always in the requests
of `tp.h`, `Fixed`).

`BeeMessages` says the same with no byte: the server receives the meaning of the
calls, in order, behind at most the lookup or the authentication that could not be
sent before them; what waits is sent along whole or is lost whole; and a call that
means nothing is refused. `Meant` gives the
meaning in the words of the README (the operations of an update, a key that is a
scalar or an array, an index that is 0 if it is not given), without any function
of the encoders. What it takes from the code rather than from the README is
named here: a limit that is not given is sent as `LONG_MAX - 1` modulo 2^32, the
numbers -1 and 2^32 - 1 are refused, any number is an iterator, and a request of the
extension's own means what its fields say.

The values a script has are the domain of `Depth`, which gives each of them how deep
it nests: an array is deeper than what is in it (`ValuesAssumption`), so `Pack`,
`Sizeof` and `Means` are functions on a set of values of any depth. `IsCall` says
what a call is: a method and its parameters, of the types PHP lets pass. Where an index
is named, `CallsAssumption` has its space below 2^31: a larger number, which no space
has, is negative in `get_indexno_by_name`.
`MCBeeRequests` takes the depth of every value of its calls from the value itself;
how the server writes an answer is the constant `Written`, given by `BeeAnswers`.

Numbers are scaled down so that every step of the lengths of msgpack, and every
width, is within reach: `Word` stands for 2^32, `LongMax` for `LONG_MAX`. Calls
vary one argument at a time around a plain call of each method, because a
request is the concatenation of its arguments; `requests` has about 100 of them. An
iterator that is neither a number, a string nor null raises an exception and is
then read as a string; the model has the case where that is harmless (an array).
Limits and offsets are `long` in the methods and `uint32_t` in the encoders: the
calls of the model ask for what fits, and a limit of 2^32 is sent as 0 (`NumbersFit`
states what fits, `NoneMistaken` that `php_mp_is_hash` takes no array of a request
for what PHP does not take it for; `MCBeeRequests` assumes both of the calls of
`requests`, and TLC evaluates it).

## 9. Runs

`MCBeeClient` is one catalog: a space known by name and number, with one index
of another name. `MCBeePersistent` has two servers, two logins and two suffixes,
and lets every object choose `bee.persistent`; objects, connections and streams
are interchangeable (`SYMMETRY`, used by `persistent`). `CHECK_DEADLOCK FALSE`
for `BeeClient`, `BeePersistent` and `BeeBuffer`, because the script may stop
calling, and because `MaxSync`, the connections there are to allocate, or `MaxLen`
end every behaviour. Deadlock is checked for `BeeHash`, `BeeSchema` and
`BeeRequests`.

| run | what it shows | bounds | states |
|---|---|---|---|
| `client` | answers are matched to their requests (`OwnAnswer`), nothing is sent twice (`NotSentAgain`), open streams are clean (`InSync`), the cache is true (`CacheTruth`) | with and without a password; the space by name, the index by name or none; calls start while fewer than 3 numbers are given out (`MaxSync`); the sync field wraps at once (`SyncWidth` 2); a failing write delivers any prefix of its requests | 3.4 million |
| `client_live` | every method returns (`CallReturns`); every step of the client brings it nearer to its end (`ComesNearer`); every step is a step of the session (`Promise`) | with and without a password; the space by name or number; two connection attempts; `MaxSync` 2 | 0.45 million |
| `persistent` | who owns connections and streams (`PoolOwns`, `PrivateOwned`), that a stream that is found is the right one (`RightStream`), that a connection is lost only to an object of the same parameters (`LostToTwin`) | 2 objects at a time, 3 connections, 3 streams, 4 parameters | 29 thousand |
| `hash` | the table is a map at every step (`IsMap`); searches end (`ChainsEnd`); the shadow never has to grow (`Room`); a flush leaves nothing (`FlushEmpties`); counters never fall below zero (`TypeOK`) | 5 rows of 6 keys, tables of 3, 11 and 23 slots, batches of 4 slots | 0.2 million |
| `schema` | names stand for what was told since the last flush that missed nothing (`SinceFlush`), as the abstract cache says (`IsCache`); nothing reachable is freed (`NoDangling`), nothing twice (`FreedOnce`), nothing leaks but what was replaced or left in a table that was swapped or resized (`NothingLost`) | 2 names, 2 spaces, 2 indexes, 2 catalogs, each of which may be due late; 3 rows of spaces and 2 of indexes are ever added; any table may be swapped in any flush | 0.5 million |
| `buffer` | a batch is written into the buffer that there is (`CursorHere`), an answer is parsed where it was read (`ParsedIsRead`), every write ends inside but that of a batch which outgrew its buffer (`Fits`) | items of 1, 4 and 9 bytes, requests up to 13, a first allocation of 7, batches up to 20 bytes and an item | 117 thousand |
| `requests` | the size in front is the size behind (`AnnouncedSize`); the server is sent what was asked for, in order (`IsMessages`); a method returns all of its answer (`AnswerShown`), the parsers agree (`ParsersAgree`) | every method, one argument at a time; 13 answers to a call of each method; up to 3 requests that wait; one call, which looks up its space and its index, may fail; two logins, with and without a password | 4.8 thousand |
| `kept_between_sessions` | violated: the first object of a session closes the stream the last one left (`README.md:85`) | as `persistent`, always on | - |
| `close_closes` | violated: `close` closes nothing (`README.md:210`) | names and numbers, `MaxSync` 3 | - |
| `late_answer` | violated: a lookup or a body read that gives up leaves its answer to the next request (`test/AssertTest.php:30`) | names and numbers, `MaxSync` 3 | - |
| `index_of_numbered_space` | violated: an index by name of a space by number is refused (`README.md:253`) | names and numbers, `MaxSync` 3 | - |
| `negative_key` | violated: a value under a negative key is lost (`README.md:426`) | the tuples of `requests` and one more | - |

Why the bounds are enough. What a call can do wrong needs something left by an
earlier one: an unread answer, an unsent request, a cached row. Three numbers
allow a lookup that gives up, its late answer, and two requests that meet it, or
two failed writes and the request that carries them. With a password a batch
takes three numbers, which a call in the run can follow, and what is left of one
batch can meet the next. Two numbers are enough for a call of two requests (a
lookup and what it is for) and for what a first call leaves to a second one,
which is what `client_live` adds, with spaces by number and attempts that fail.
A write that fails with a prefix delivered, the request that carries the rest, and
one that meets an answer to either are three again.
The width of the sync field matters only when it is smaller than the counter, as
it is in `client`. One space and one index are enough to confuse their rows; a
second of each would add names that are never compared with these.

For `persistent`, two objects are an owner and another; three connections are
two of one kind and one of another, and let an entry be replaced while both
objects hold one; three streams are one each, or one opened again.

For `hash`, eleven slots are the second size of the code; the keys collide wholly
or in part of a chain, two rows have the number of one and the name of another, and
the table is filled past its bound, resized, flushed and filled again. A batch of
256 slots copies a table of up to 256 at once; the tables of 769 slots and more,
which a script with about 270 spaces or indexes needs, pause between batches,
which is scaled down to batches of 4 of 11 slots. `FlushEmpties` leaves out the
flush whose deletes finish a resize that was under way: it goes on at the same
slot of the table that takes the place of the old one, and misses the nodes
before. What the cache is then is in `BeeSchema` (`swapped`). For `schema`, three
rows are one and two that replace its name, its number, or both; a fourth would
replace again. Two rows of indexes are one that is replaced, in one table or in the
tables of two spaces. Two catalogs are what the server has and what was due from
before. The run gives no number the bytes
of a name (`README.md:277` names a space `test`, whose bytes are also the number
1953719668, and the cache does not tell the two apart); `NoDangling` and
`FreedOnce` do not need that, and are proved without. For `buffer`, sizes lie on
both sides of the first allocation and of its double. For `requests`, three
requests that wait are an authentication, which is three at once, or a lookup and
requests behind it. The counter is at 1023, the last number a header holds, so that
two of the three requests of an authentication are beyond it.

Fairness. Only `client_live` assumes any: `WF_vars(Client)`. A method that
runs is never blocked for ever: opening is bounded by `bee.timeout`, every read
and write by `bee.request_timeout`, everything else is computation. Nothing is
assumed of the script, which need not call again, or of the server, which need
not answer or stay.

The five violations are disagreements between the code and what its
documentation or tests say; the statements in `PROJECT.json` quote both. One more
is in the model without a run of its own: a write that fails makes its method
return FALSE without an exception (`Writes` of `BeeRequests`, `bee.c:147`), where
`README.md:272` says "False and raises `Exception` on error".

## 10. Proofs

All theorems are about the `Spec` of a module, for every value of the constants
that satisfies its assumptions. For `BeeClient`: any catalog, any arguments of
the script, any number of attempts, any width of the sync field, any number of
calls. For `BeePersistent`: any number of objects, connections and streams, any
parameters. For `BeeHash`: any hash; any sequence of sizes of which `ProbesAssumption`
says what primes are for and `GrowthAssumption` how fast it grows; any batch of at
least 1 / (1 - `MH_DENSITY`) slots (`BatchAssumption`, a comment of
`mh_start_resize`). For `BeeSchema`: any catalogs, names and bytes of numbers.
For `BeeBuffer`: any sizes. For `BeeRequests`: any calls, any values of any depth, any
names, any answers and any way the server writes them; the lengths at which msgpack
takes another byte are any natural numbers (`StepsAssumption`), and a word is any
number that divides the numbers of a long, has room for the codes of the protocol
and holds the numbers of the spaces and indexes (`WordAssumption`: 2^32 and 2^63 - 1
in the code). `SignsAssumption` says that the strings `:`, `+` and so on are one
byte long, which the prover does not compute.

| theorem | module | says |
|---|---|---|
| `TypeCorrect` | `BeeClientProofs` | `TypeOK` is an invariant |
| `OwnAnswerHolds` | `BeeClientProofs` | `OwnAnswer` |
| `NotSentAgainHolds` | `BeeClientProofs` | `NotSentAgain` |
| `InSyncHolds` | `BeeSessionProofs` | `InSync`: a stream that is not tainted is empty between methods |
| `CacheTruthHolds` | `BeeSessionProofs` | `CacheTruth`, if two numbers in a row differ on the wire (`SyncWidth > 1`) |
| `ClientIsSession` | `BeeSessionProofs` | `Promise`: `BeeClient` implements `BeeSession` |
| `TypesHold`, `PoolOwnsHolds`, `PrivateOwnedHolds`, `RightStreamHolds`, `LostToTwinHolds` | `BeePersistentProofs` | the invariants of the run `persistent` |
| `AlwaysNearer` | `BeeClientProofs` | `ComesNearer`: a method never runs in a circle |
| `MethodsBounded` | `BeeClientProofs` | a method takes at most 4 * `bee.retry_count` + 17 steps of its own, and has returned when none is left |
| `Implements` | `BeeHashProofs` | `IsMap`: `BeeHash` implements `BeeMap` |
| `TypeCorrect`, `ChainsAlwaysEnd`, `RoomAlways` | `BeeHashProofs` | `TypeOK`, `ChainsEnd`, `Room` |
| `SearchesAlwaysEnd` | `BeeHashProofs` | every search of every key in every table ends (`SearchesEnd`): the guards that say so block nothing |
| `FlushAlwaysEmpties` | `BeeHashProofs` | `FlushEmpties` |
| `TypeCorrect`, `NoDanglingHolds`, `FreedOnceHolds` | `BeeSchemaProofs` | the invariants `TypeOK`, `NoDangling`, `FreedOnce` |
| `SinceFlushHolds` | `BeeSchemaProofs` | `SinceFlush`, if no name has the bytes of a number (`NamesAreNotNumbers`) |
| `ImplementsCache` | `BeeSchemaProofs` | `IsCache`: `BeeSchema` implements `BeeCache`, under the same condition |
| `NothingLostHolds` | `BeeSchemaProofs` | `NothingLost`, under the same condition |
| `TypeCorrect`, `FitsHolds`, `CursorHereHolds`, `ParsedIsReadHolds` | `BeeBufferProofs` | `TypeOK`, `Fits` (for batches of any length), `CursorHere`, `ParsedIsRead` |
| `InvInvariant` | `BeeRequestsProofs` | what is in the buffer, and what was written of it, are the requests of calls, one behind the other |
| `AnnouncedSizeInvariant`, `TypeOKInvariant` | `BeeRequestsProofs` | `AnnouncedSize`, `TypeOK` |
| `Implements` | `BeeRequestsProofs` | `IsMessages`: `BeeRequests` implements `BeeMessages`, if `NumbersFit` and `NoneMistaken` |

- `Typed` strengthens `TypeOK` by what the locals are at each step (`LocalOK`):
  while attempts are made there is one left to make, while the batch is read
  there is an answer left to read, once a space is resolved it is a number.
  Without these the counters could fall below zero and a name could be sent.
- `StepsLeft` is the most steps the client has before the running method returns. It
  is counted backwards along the longest path: where connecting comes back to
  (`then`: before the check for the end of the stream, after it, or the script), and
  on top of that two steps for every attempt left, the greeting, the write and the
  answers of the batch. That it is a natural number and goes down where an attempt
  or an answer is counted off follows from `Typed`. What `CallReturns` says beyond
  `ComesNearer` is that some step can be taken, by fairness and `ENABLED`; the
  prover has neither, and the run `client_live` checks it.
- `SyncInv` says what sync numbers are good for: the counter is above every number
  given out; while a call waits, the newest number is its own and no other
  outstanding request has it; what may be answered was written, what is still in the
  buffer was not, or not in a write that succeeded. A number on the wire is at most
  the number itself (`WireBound`), so an answer whose truncated number equals the
  newest number is the answer to the newest request: this is why the width does not
  matter.
- `Balanced` (in `BeeSessionProofs`) counts: on a stream that is not tainted, which
  no failed write has reached in part (`torn` implies it is tainted), the requests
  still to be answered and the answers still to be read are together as many as
  the method at this step is about to read (none between calls, one after a
  lookup or request, `batch` in the middle of authentication).
- `LookInv` (in `BeeSessionProofs`) says what the answers on a clean stream
  are about. Without a stream nothing comes or goes (`Shut`); on a clean one the
  outstanding requests are those the method at this step made (`Expected`), and at
  rest there are none, by `Balanced`; a tainted stream makes the cache dirty. So an
  answer whose rows are cached is an answer to the lookup that caches them, and says
  what the server said. The two answers of authentication that carry rows are told
  apart by their numbers, which are consecutive: this is where `SyncWidth > 1` is
  needed (with one value the rows of indexes could be taken for rows of spaces).
- `OwnOnce` (in `BeeSessionProofs`) says that the request a method waits for was
  received once at most and is answered once at most. Other requests may be received
  twice, by a write that fails and by the one that follows; the own request of a
  call that waits was in one write only, the one that succeeded. This is what lets a
  successful call close its number for ever. Each step of the client is then shown
  to be a step of the session: quiet steps proceed or finish, writes prepare or ask,
  whatever prefix they deliver, `RecvOk` succeeds, the other ends of `bee_step_recv`
  fail.
- `Inv` (in `BeePersistentProofs`) joins the four properties, which need one
  another, with what pointers lead to: an object to a connection of its own kind
  (`ObjectsOK`), a connection to a stream that was opened and an id of its own
  server and login (`ConnsOK`), an id to its server (`StreamsOK`). Two lemmas
  carry the argument: register keys of different parameters differ and no search
  key equals a register key (`KeysDiffer`), so that the list never yields a
  connection (`NeverFound`) and only a twin is replaced; and closing or connecting
  on behalf of one connection changes only streams that have an id, its own, and
  new ones (`Kept`, `Gains`), which is what keeps private connections apart.

- `IInv` of `BeeHashProofs` has `Sound` of the table and of its shadow (a key is
  in one slot, and every slot its chain runs through before that is dirty), and
  `Agree`: every node of the slots that have been copied (up to `FilledTo`) is in
  the shadow, and every node of the shadow is in the table. Without the first a
  search could stop short of its key, without the second a swap could lose or
  revive one.
- `CountInv` (in `BeeHashProofs`) says how far the counters can be. In one table,
  `n_dirty` is not below the slots that hold a node or are dirty (`Counted`): a put
  takes at most one that was free, because a chain passes slots of other keys only.
  While the table is copied, a batch of slots is copied with every put, so there
  were at most `position / batch` puts (`StoresDone`), each of which adds at most one
  to the counters of the table and two to what the shadow counts, or will count when
  the rest is copied (`Bounded`): the node that is put, and the same node when the
  loop comes to it, which `mh_resize` counts again. Deletes add nothing and copy a
  batch too. So the table stays below its slots if three tenths of them are enough
  for the puts (`BatchAssumption`, `TableHasRoom`), and the shadow below its density
  if the next prime has room for twice the puts (`GrowthAssumption`,
  `ShadowHasRoom`). Of the primes of `mhash.h` every pair satisfies this with the
  256 slots of the code.
- `FlushInv` (in `BeeHashProofs`) says that a flush has left nothing before the slot
  it is at, and that the node in that slot is under a key it is about to delete, as
  long as the table is the one it started in. A larger table (`SwapCounts`) ends the
  claim, as it does in `FlushEmpties`.
- `IInv` of `BeeSchemaProofs` joins `TypeOK` and `FreedOnce` with what the tables
  (`SpacesInv`, `TablesInv`) and the flush (`FlushInv`) lead to: a node that can
  be found is under a key of its row, live, and its string too; an index node is in
  one table only; and a space whose indexes are being flushed, with the nodes taken
  out for it, cannot be found any more. `NoDangling` follows. That a round deletes
  both keys of its row at once is what keeps the other node from being visited.
- `SeenInv` (in `BeeSchemaProofs`) says that the rows that can be found were on the
  server or due since the last flush in which the table of the spaces was not
  swapped, as are all rows that may be told, and that a table holds the indexes of
  one space. After such a flush there is nothing to be found.
  With the keys of `SpacesInv` and `TablesInv` it gives `SinceFlush`. A name with
  the bytes of a number would find the row of the number, hence the hypothesis.
- `ImplementsCache` rests on the same two: a node that is put under a name and a
  number changes what these two stand for and nothing else, because the keys of
  other rows differ, and a table that is new is not the table of a space that can be
  found. Each visit of a flush forgets the names and numbers whose nodes it takes out,
  and a flush that misses nodes forgets less.
- `Accounted` (in `BeeSchemaProofs`) says whom a live block belongs to as long as
  nothing is lost: a row both nodes of which are there, or the space that is being
  visited, and an index is in the table of one of these. A row whose name is its own
  number in bytes would replace its own node while it is added, and lose it.
- `IInv` of `BeeBufferProofs` says that room which was ensured is there until it
  is used (`Ensured`), and that the buffer is empty while answers are read and the
  cursor in it while a batch is encoded (`Contents`). Each step then keeps `Fits`:
  requests and answers because they ensured their room, an item of a batch because
  it fits before `e`, unless `e` is anywhere.

- `Pack`, `Sizeof`, `Means` and the folds of the library (`SumFunction`, `FlattenSeq`,
  `FoldLeft`, `FoldRight`) are recursive functions, of which nothing is known before
  it is shown that there are such functions. `Recursion` (in `BeeRecursion`) shows it
  for any definition whose value at a point depends only on points of lower rank:
  `Approximations` defines the function up to a rank, `Agree` says that any two of
  these have the same values, and the function takes from each the values it
  reaches. `BeeRecursion` has the definition as a constant operator, and each
  function instantiates the module with its own. Induction is by the least
  counterexample (`NatSet`, `Upwards`, `Downwards`), so that no induction theorem of
  the library is needed.
- `Adds(items, ws, n)` (in `BeeRequestsProofs`) says that reading items in front of
  whatever has been read adds the trees `ws` and `n` bytes. Items behind items add
  both (`AddsBoth`), and the item of a list or a map makes one tree of what follows
  it (`AddsList`, `AddsMap`). `AllPacked` is then proved by induction on the depth:
  the items of a value are one tree, of as many bytes as `Sizeof` counts, and the tree
  is what the value means (`Means`) where none of its arrays is mistaken
  (`NotMistaken`). That `php_mp_sizeof` and `php_mp_pack` ask `php_mp_is_hash` about
  the same array, and put the same elements in the same order, is what the two cases
  (`PackedList`, `PackedMap`) come down to.
- `Holds(items, frames)` says that reading finds these requests; a package of an
  encoder is one, behind its own size (`Packaged`), and one more can be put behind
  others (`CarriesMore`); a lookup is one request and an authentication three
  (`LookupCarries`, `AuthCarries`). `Inv` says that the buffer carries exactly the
  requests in `unsent`, of calls and of the extension's own, and that what has
  arrived carries those of some calls.
  `AnnouncedSize` and `TypeOK` follow, with no further hypothesis: a mistaken array is
  still framed, and a limit that loses its upper half is still counted right.
- For `IsMessages`, what each method makes of each parameter has to be what the
  parameter means (`Renders`, `ArgRenders`), or both have to be nothing; `Aligned`
  says that the fields of a request are the parameters of its call, for each method.
  An operation of an update is the longest case: what `bee_update_verify_op` looks up
  by name in a map of 3 or 5 elements is the list of its fields and no other
  (`KeysAre` counts keys; `OpVerified`), and the list of all of them is complete
  although holes are only found in the loop (`ListHas`, `OpsRenders`).
  What a call is encoded behind is what the messages have waiting, or nothing
  (`WaitingMessages`); a call that gives up, and one that only connects, leave that or
  their own batch (`GivesUpImplements`, `ConnectsImplements`), whose fields mean what
  they say (`OwnAskedMeant`).
  The two hypotheses are needed. `NumbersFit`: a number of 2^32 or more is sent as
  another one (`bee.c:1350`). `NoneMistaken`: the run `negative_key` has an array that
  is not sent as what it means. Both are stated of the calls, not of what the methods
  make of them, but for the arrays that are packed, which are those of the request.

Only model-checked: `CallReturns` (liveness under fairness; its variant is proved to
go down, see above), `AnswerShown` and `ParsersAgree` (they speak of what the two
parsers take from what the server writes, by definitions that recur through the
values of an answer, in `BeeAnswers`), and the five violations. Every property a
theorem states is checked by a run too, but for `SearchesEnd`, for which the guards
of `BeeHash`, with the check for deadlock, and `ChainsEnd` stand in the run, and for
`StepsInRange`, without which `ComesNearer` would not end a method.

## 11. Not modelled

- `BeePersistent`: a second `__construct` of one object, `authenticate`, the end of
  the PHP process, and what follows from a pointer to freed memory.
- `BeeClient`: `bee.retry_count` below one, and the salt and scramble of
  authentication (a function of the password and the greeting, without state).
- Schema: rows that do not parse and memory that runs out, whose error paths free
  what was never set; what leaks is only noted (`lost`).
- Values: arrays that contain themselves, and reference counts (the list
  `bee_update_verify_args` builds is never freed).
- `php_tp_encode_auth` of `bee_proto.c` and `mh_clear`, `mh_reserve`, `mh_random`
  and the statistics of `mhash.h`, which nothing calls.
- Module setup, which PHP runs once and which only registers; the vendored
  encoders and hashes, which are pure functions of third parties; the test
  harness (`lib/`, `test-run.py`), which is not part of the extension.
