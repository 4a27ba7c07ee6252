# A verification of snet

snet is a header-only network library on epoll: TCP connections that several
threads may use, workers that run event loops, a listener, a connector that
reconnects, timers, a pipe protocol, a small HTTP server with its parser and
encoder, and the queues these rest on.  This directory
holds TLA+ models of its parts, TLC configurations that check them on small
instances, and TLAPS proofs of the properties that matter most for every value of
the constants.

`tlc -config X.cfg M` checks a run of `PROJECT.json`, `tlapm M_proofs.tla` the
proofs.  `PROJECT.json` maps each definition to the lines it models.

## 1. Inventory

| Part | State | Operations | Who calls it |
|---|---|---|---|
| TCP connection (`tcp_connection.h`) | `conn_status`, `conn_sd`, `send_buffer` under `write_mutex`, `read_buffer` | `msend`, `do_send`, `close`, `do_close`, `on_ready`, `do_read`, `process_event` | any thread sends and closes; the worker does the rest |
| Epoll worker (`epoll_worker.h`) | epoll set, task list, timers | `run`, `add_event`, `mod_event`, `del_event`, `post_task`, `stop` | its own thread; `mod_event` by any |
| Listener (`tcp_listener.h`) | listening socket, `tcp_workers`, next index | `process_event` (accept), `get_worker`, `broadcast`, `stop` | `listen_worker`; the application |
| Factory (`tcp_factory.h`) | `connection_map` | `create`, `remove_connection` | listener, connector, posted tasks |
| Connector (`tcp_connector.h`) | `need_reconnect` | `connect`; the connection's `do_connect`, `enable_reconnect` | application, timer |
| Timers (`heap_timer.h`, `min_heap.h`) | heap, map of ids | `start_timer`, `stop_timer`, `restart_timer`, `timer_loop` | worker, handlers, other threads |
| Loop buffer (`loop_buffer.h`) | two counters, array | `push`, `pop`, `read`, `commit`, `wait`, `clear` | producers, one consumer |
| Notify queue (`notify_queue.h`) | `m_data`, `m_cache` | `push`, `process` | producers, one consumer |
| Pipe (`pipe/`) | `pipe_map`, sessions | handshake, heartbeat, messages | workers, application |
| HTTP server (`http/`) | router map, decoder | `handle_data`, `call`, `write` | workers, handlers |
| `http_parser.h` | state, header state, counters, marks | `http_parser_execute`, `http_parser_parse_url` | decoder |
| HTTP decoder, encoder, messages | fields of one message | the parser's callbacks; `encode`, `set_content`, `add_header` | connections, application |
| NetUrl (`net_url.h`) | protocol, host, port, parameters | constructors, `parse`, `set`, `encode` | listener, connector, application |

Connections call their worker (`mod_event`, `post_task`), the worker calls back
through raw pointers kept in the epoll set, and the factory owns the objects.
What makes this hard: `conn_status`, `conn_sd` and `epoll_events` are shared
without a lock; epoll is edge triggered; descriptor numbers are used again by
other threads; errors are handled half way (a descriptor closed and its number
kept); a parser keeps half-read texts over calls and counts them late; the heap and
the map of the timers have separate locks; the ring buffer is read without its lock.  `PROJECT.json`
lists these hazards line by line.

## 2. Modules

| Module | Models | Composition |
|---|---|---|
| `TcpConnection` | one connection, its worker, application threads, the kernel | refines `TcpStream`; proofs in `TcpConnection_proofs` |
| `TcpStream` | abstract: a byte stream with an end | |
| `TcpRead` | `do_read`, `process_data`, `handle_package` on a stream cut anywhere | proofs in `TcpRead_proofs` |
| `TcpServer` | listener, factory, workers, connections, descriptor numbers | proofs in `TcpServer_proofs` |
| `TcpReconnect` | an outgoing connection, attempts, timer, losses, data left in its buffer | proofs in `TcpReconnect_proofs` |
| `MinHeap`, `HeapTimer` | the heap as functions; the timers that use it | `HeapTimer` extends `MinHeap`; proofs about both in `HeapTimer_proofs` |
| `LoopBuffer` | the ring buffer | proofs in `Queues_proofs` |
| `NotifyQueue` | the swap queue | proofs in `Queues_proofs` |
| `Pipe` | handshake and heartbeats of several clients and a server | proofs in `Services_proofs` |
| `Http` | one connection of the HTTP server with its decoder and routers | proofs in `Services_proofs` |
| `HttpChars`, `HttpParserUrl` | character classes; the parsers of URLs and hosts, as functions | |
| `HttpCodec` | `HttpEncoder` and `HttpDecoder`'s callbacks, as functions | extends `HttpParserUrl` |
| `HttpParser` | `http_parser_execute`, byte by byte, called with a stream cut anywhere | extends `HttpCodec`: the decoder's callbacks are driven by the parser, on the encoder's output; proofs in `HttpParser_proofs` |
| `NetUrl` | URL objects, their parsing and encoding | extends `HttpChars` |
| `MC*` | instances for TLC | |

One action is one access to state that another thread can see; code between two
such accesses belongs to the action before or after it.  Definitions have the
names of the functions they model, with a suffix for a part (`do_close_del`).
Operators introduced by a comment `Mutant:` are plausible mistakes; each property
is violated when the definition named in `PROJECT.json` is replaced by one.

`TcpConnection`.  `conn_status`, `conn_sd`, `send_buffer` and `write_mutex` are the
members of the class.  `fd` says what the descriptor number names in the process,
`reg`, `reg_out` and `queued` are the epoll entry, `inflight` the kernel's send
buffer, `pushed` and `accepted` are history.  `mod_event` fails when the number is
not registered and then closes it, as the code does.  A thread that touches
somebody else's descriptor goes to the label `bad`.  `UseSpec` is `Spec` with an initial
choice, `alone`, of whether the worker's callbacks are the only users.

`TcpServer`.  Connections have cids in order of creation.  `poll` and `batch` hold
handlers, the raw pointers of the code, and `connection_map` is the owner.  Numbers
in `Fds` are used again as soon as they are closed.  `tcp_workers` is chosen
initially from `Deployments`: several workers, or none besides `listen_worker`.
`broadcast` walks the map without a lock and is considered in the latter only.

`TcpRead`.  Packages have a header of two bytes, the second of which is the length,
and `read_buffer` has five; a header cut in two leaves the length undefined, as a
cut through `PipeMsgHead::length` does.

`TcpReconnect`.  Each `socket()` gives a new number, so that a number names an
attempt; that a `conn_sd` kept after a failed attempt may become the number of
somebody else's socket is outside the module.  `do_connect` has three steps, after
each of which the other thread may run: `socket()` with `inet_pton`, `::connect`, and
`add_event`.  In between `conn_sd` is a socket that is not registered, which `close()` or a
`do_send` of the application closes through `mod_event`.  `process_event` is one action here; `TcpConnection` has its steps.  Of
`send_buffer` only `pending`, whether it is empty, is kept: `msend`, `do_send` and a
full socket decide by it who sends.  `do_read` and `do_send` act on `conn_sd`, which
after an early timer is not the socket whose event is handled.

`HeapTimer`.  `top`, the test, `pop`, the test of `stopped` and the handler are
separate actions, time passes between any two, handlers and other threads start,
stop and restart timers.  In `MinHeap` a sift is given by the
indices it visits (`Visited`, the least set that is closed under going to the parent,
or to the smaller child) and by the place on them where the node belongs.  The
threads that use the timers are chosen initially from `Deployments`; `Alone` is the
one in which only handlers do.

`Http`.  A request is three units, so that a segment can end inside the URL, after
the headers or with the body; the decoder's result for a segment is one of the
set `parse_request`.  `told` are the requests whose URL `parse_url` gets, `complete` those
with `on_headers_complete`.  `http_path` is a view into `request_url`, which every call of
`parse_url` assigns: when a URL follows that is cut off or refused, the path may read
as anything.  A request may begin with a byte that begins no method, of which
`http_parser_execute` takes none, and a segment that begins inside a request may be taken
for anything.  `http_parser` is represented by what its callbacks get (it has a
module of its own).  Routers are given initially; `global_router` is never consulted
by the code.

`HttpParser`.  One action is one `case` of the switch for one byte, or one byte of
the loops inside `s_header_field` and `s_header_value`; `pc` says whether the code is
at the head of the loop over the buffer, in the switch, in an inner loop, or between
calls.  Where the caller's buffer ends is chosen lazily: at any byte `end_of_data`
may happen, which flushes the marks and ends the call.  `mark` holds the positions
of the `*_mark` pointers, `on` what the callbacks said, with the pieces of one text
joined.  A stream of `MCHttpParser` is built from messages, and what the callbacks
have to say is built from the same messages independently of the parser.
`max_header_size` (160 for 80 kB) and `ULLONG_MAX` (255 for 2^64 - 1) are constants;
the overflow test is the code's.  Streams with `snet` are the encoder's output, given
to the parser in one call with the decoder's callbacks, as `HttpDecoder` does.  In
`HttpParserUrl` a field is an offset and a length modulo `FieldSize` (2^16), as in
`field_data`; no URL of the instance is that long.

`Pipe`.  `duet` are the clients that are remote pipes of the server's own `TcpPipe`
(`PIPE_DUET_MODE`): `add_remote_pipe` puts their session into the `pipe_map` in which their
handshake is looked up.  A session is a number, its index in `pipe_id`.

`NotifyQueue` and `Pipe` call their parts `QueueInit`, `PipeNext` and so on, because a
proof module extends each of them together with another component.

`NetUrl`.  `parse` is a function of the string with its fold over the parameters,
and what it leaves behind when `std::stoi` throws; `encode` is the set of strings for
the orders of an `unordered_map`.  Ports are taken modulo `PortSize`, and numbers above
`IntMax` throw.

## 3. Runs

| Run | Instance | Shows |
|---|---|---|
| `connection_safety` | 2 application threads, 2 sends, 1 arrival, socket of 2 bytes, symmetric; and, with more sends and arrivals, callbacks only | `StreamIntegrity`, `NoLostWakeup`, `OpenOwnsSocket`, `NeverReopened`, refinement `ByteStream`; `AloneSafe` for callbacks only |
| `connection_liveness` | 1 application thread, fair | `SendCompletes`, `CloseCompletes` |
| `ring` | 2 producers, 4 bytes, counters modulo 8, pushes up to 2 | `Fifo`, `RoomAfterWait` |
| `timers` | handlers only: 3 timers, time up to 4, fair; with another thread: 2 timers, time up to 3 | `HeapSound`, `MapSound`, `DueFires` for handlers only; `StopIsFinal` for both |
| `read_framing` | 2 packages of up to 6 bytes in a buffer of 5, 3 kinds of `handle_package`, fair | `Framing`, `PartialIsDrained`, `ReadReturns` |
| `server` | 2 clients, 2 numbers, no or 2 workers, 2 events per wait, 1 broadcast, fair | `HandlerAlive`, `EntryMatches`, `Accounted`, `FinNoticed`, `EveryoneOpens`, `StopCompletes` |
| `reconnect` | 1 failure at any step, 2 losses, 1 call each of `close()` and `msend`, 1 full socket, 1 early timer, fair | `OneSocket`, `EndsForGood`, `Reconnects`, `LeftIsSent` |
| `notify_queue` | 3 items, 2 exceptions, fair | `NothingLost`, `PushIsAnswered` |
| `pipe` | 2 clients, each in a process of its own or in the server's, 2 ids, 3 sessions, fair | `Agreement`, `HandshakeCompletes`, `WireFallsSilent` |
| `http` | 2 requests, 2 paths, malformed URLs, bytes that begin no method, fair | `OneAnswer`, `RightRequest`, `ConnectionEnds` |
| `http_parser` | about a hundred streams: requests and responses of every form and method, every error, heads at the limit, messages of the encoder; cut anywhere | `Delivered`, `HeadBounded`, `Asserts`, `RoundTrip` |
| `net_url` | every string of up to 5 characters of `a9:-?=&` after `://`, parts, `set`, a second `parse`; ports modulo 20 | `Reparsed` |

Why the bounds are enough.  Two application threads and the worker give every
pair of racing calls with a third party that finishes or fails; two sends into a
socket of two bytes give partial sends, EAGAIN and a hand-over between threads.
In the ring a push of two bytes crosses the end of the array and the counters
wrap in every run through it.  Three timers make a heap with two children.  Two
packages with a buffer of five give whole, coalesced, split and oversized ones.
Two connections on two workers with numbers used at once again give every pair of
accept, event, close and removal.  Twelve attempts are more than the failures,
losses, closes and early timers can use up.  The streams of `http_parser` reach every
case and every error of the switch; a cut at every byte, and at any number of them,
puts each state at the end and at the start of a buffer.  Five characters after
`://` give a host with a port and a parameter, and every pair of delimiters.

Deadlock is checked where a part never stops (`ring`, `notify_queue`, `net_url`) and in
`http_parser`, where a stream that is done only stutters.  Elsewhere it
is off because the part may stop: bounded calls are used up, a connection is
idle or closed, a server has stopped.

Fairness.  The operating system runs threads that can run, `write_mutex` is
released after a few steps, and handlers return.  `epoll_wait` comes back because
the timer descriptor fires.  The peer reads what it is sent (`connection_liveness`).
The reconnect timer fires and attempts fail finitely often (`reconnect`).  No
fairness is assumed of clients, of `close()` calls or of losses.

## 4. Proofs

Every theorem is proved for all values of the constants that satisfy the named
`ASSUME`s of the module: threads are distinct, `Free` is no thread, bounds are natural
numbers, sizes are not zero.  No assumption bounds a number of threads, connections,
messages or bytes.  Where a theorem has a hypothesis of its own it is named below.

Each proof module has the same shape.  The parts of an inductive invariant `Inv` are
defined first, with a comment on each; TLC has checked every one of them on the
instance of the component's run before it was proved.  Then come one lemma per action,
with a step for each conjunct that the action can disturb, and the theorems, which
follow from `Inv`.

`TcpConnection_proofs`.

* `TypeCorrect`: one lemma per group of actions.
* `Ownership`, `OpenOwns`, `Reopening`.  `OpenOwnsSocket` is not inductive: `on_ready`
  opens a connection that it found idle two steps earlier, and a failing
  `mod_event` closes the descriptor whatever `conn_status` says.  `OwnershipInv` adds
  that until `do_close` begins the socket is the connection's and no `mod_event`
  fails, and that `do_close` begins only when the connection cannot be found idle or
  open any more.
* `StreamSafe`: `StreamIntegrity` is inductive relative to `TypeOK`; the lemmas are about
  prefixes and about what `unsent` leaves in the buffer.
* `Refinement`: every step of `TcpConnection` is a push, a transmission, the end, or a
  stutter of `TcpStream`; the transmission case uses `StreamIntegrity`.
* `WakeupKept`: `NoLostWakeup` needs `OwnershipInv`, so that each `mod_event` of an open
  connection acts on its own entry, and `FreshInv`: when `on_ready` opens the connection
  nothing was pushed, also if it overwrites another thread's CLOSING.
* `DescriptorAlone`: `AloneSafe` of `UseSpec`.  `AloneInv` follows the end of the
  connection step by step: `del_event` empties the epoll set while the number is still
  the connection's.  It needs `OwnershipInv`, and that the other threads stay idle.

`TcpRead_proofs`: `PackagesAsSent` and `NoSleepOnHalfPackage`, for packages with any
contents, any cut into segments and any `read_buffer` that holds a header
(`SizeAssumption`; `StreamAssumption` says that bodies are sequences of numbers).
`TypeInv` bounds `readPos` and `read_buffer_pos`; `Stream` says that what was delivered,
what is left in the buffer, the socket and the wire make up all packages; `OneByOne`
and `PartialIsDrained` are then inductive with them.  The step that matters is
`CutIsPackage`: a handler that frames sees the header that the peer wrote, because
`Stream` puts the rest of the buffer where the next package begins.  The lemmas up to
`FlattenPrefix` are about `FlattenSeq` of sequences of any length.  They are inductions,
which the library's theorems do not give here; each looks at the shortest prefix that
would be a counterexample, which exists by `Least`.

`TcpServer_proofs`: `ServerHandlerAlive`, `ServerEntryMatches`, `ServerAccounted`, for any
number of workers, numbers and connections, and any size of a batch.  None of the
three is inductive: that the handler of an event is alive depends on who may remove it.
`Inv` says that an epoll entry, an event of the batch and the connection a worker is
busy with belong to that worker (`EntryInv`, `BatchInv`, `BusyInv`); that a removal is
posted by that worker after the last entry is gone, and runs after the batch
(`TaskInv`); and that the connection the listener is filling in is in the map with a
socket of its own until `add_event` (`AcceptInv`, `SocketInv`).  `WorkersAssumption` says
that a deployment is a sequence of threads other than `listen_worker`.

`TcpReconnect_proofs`: `ReconnectOneSocket` and `ReconnectEndsForGood`.  `TurnInv` adds to
`OneSocket` why no second socket is made before the first one's event was handled: a
registered socket of a connection that is not open has its event queued, or `close()`
is about to queue one.  `ConnectInv` says what `do_connect` has made so far and that it runs
on one thread at a time.  `OnceInv` does the same for connections that do not reconnect.
The `early` in `TurnInv` is the property's own: a timer that fires before the event of
the last attempt really makes two sockets.

`HeapTimer_proofs`.  The first half is about `MinHeap`: for a vector of any length with
any keys, `Inserted` and `PoppedHeap` show that `heap_insert` and `heap_pop` keep the
order of the heap and neither lose nor double a node; `UpPath` and `DownPath` say which
indices a sift visits, which replaces an induction over the sift.  Then:
`TimerStopIsFinal` for all threads, `TimerMapSound` and `TimerHeapSound` for the deployment
in which only handlers use the timers (the properties say so themselves).  `ReachInv` is
the half of `MapSound` that a running timer's id leads to it.  `PlaceInv`
says where each running timer is between `top`, `pop`, the handler and `insert`;
`CallInv` and `IdInv` keep two calls from having the same new node or id.

`Queues_proofs`, ring: `LoopBufferFifo` and `LoopBufferRoomAfterWait`, for any size of the
buffer and any word that it divides, under `OneWriter`: the buffer has its mutex, or one
producer, which is how it may be used, since pushes of two threads without the
mutex are a data race.  `RingInv` ties each byte of the queue to its place in the array,
`WriteInv` says what a push has copied before and after the end of the array, `ReadInv`
that the handler's view are the first bytes of the queue.  The lemmas `Moves`, `Counts`,
`Pushed`, `Popped` and `Disjoint` are the arithmetic of counters that wrap.

`Services_proofs`, HTTP: `HttpOneAnswer` and `HttpRightRequest`.  `OutInv` to `ClosedInv` give, for each
place in `handle_data`, the answers that can have been written and the results of the
handler that fit them; `PathInv` ties the path between the decoder and the call to a
request of the segment, or to a URL that was put over it (`Overwritten`).  `Decoded` is
the argument: if `parse_url` was called last for a request whose head is complete and
has a path, the view shows that path.

`Services_proofs`, pipe: `PipeAgreement`.  `Agreement` speaks of ready clients only; the invariant
adds the messages on their way: a question has the client's id (`AskInv`), and an answer
to an id that was known is sent after the session was bound (`AnswerInv`, `BoundInv`).
`AddSession` is about `pipe_map` for both ways in which a session gets into it.

`Queues_proofs`, queue: `NoPushLost`, with an invariant that relates the items owed to
`m_data`, `m_cache` and the rest of the walk.

`HttpParser_proofs`: `ParserHeadBounded` and `ParserAsserts`, for streams of any bytes cut
into calls anywhere, any answer of `on_headers_complete`, any `max_header_size`, and any
`ULLONG_MAX` above 15, so that a single hexadecimal digit is never the length that means
none.  `StreamsAssumption` says that streams are sequences.  Neither property is
inductive.  `CountInv`: in a head that is not a trailer `nread` is at least the number of
bytes since `on_message_begin`, of which one more is known at the switch than at the head
of the loop, and inside the loops over names and values only the bytes up to the first
one.  `MarkInv`: a mark is set only in the states that read its text; with it the mark
that a buffer's end finds is the only one.  `BodyInv`: what each state of a body knows of
`F_CHUNKED`, of a fresh count and of the bytes that are missing.  `ValueInv`: the states
of a header's name are left at the first byte of its value.  There is one lemma for
each `case` that reads a text or a body, and `PlainActions` for the sixteen that do
neither.

Model-checked only:

* Liveness and everything else under fairness, which is outside the prover's reach.
* `Delivered` and `RoundTrip` of `HttpParser` and `Reparsed` of `NetUrl`.  They compare what
  the parsers deliver with texts that the instance builds independently of them
  (`says`, `decodes`, the parts of a URL).  For all streams they would need a grammar of
  HTTP and URLs and an induction over the text, and `Streams` is a constant without any.

`TypeOK` is part of every inductive invariant, and so proved, in the modules that have
proofs.

## 5. What the models show about the code

* The byte stream is safe under every interleaving, also across a reused
  descriptor number; but an application thread inside `msend` or `close` while the
  worker runs `do_close` can reach a number that belongs to somebody else.
  `DescriptorSafe` therefore holds for callbacks only.
* Two application threads can lose a `close()` (EPOLLOUT armed by one, disarmed by
  the other); the connection then closes at its next event.
* `do_close` drops unsent data, so an HTTP answer that the kernel does not take at
  once is cut off.  A request split over segments is answered by 404, and of several
  requests in one segment only the last is answered.  If the last one's URL is cut off
  by the end of the segment or refused, the path that is looked up is a view into a
  string that was assigned meanwhile: it shows bytes of the other URL or freed memory.
  Bytes whose first begins no method are neither answered nor do they close the
  connection.
* A package that does not fit into `read_buffer` makes `do_read` call itself for ever
  with a `handle_package` that asks for more.
* Every disconnect of a reconnecting connection leaves a descriptor open, and so
  does every attempt with an address that `inet_pton` refuses.
* When other threads use the timers, `timer_loop` can pop a timer that it did not
  look at, which is lost.  A restarted timer loses its id.  A one-shot timer whose
  handler returned true stays in `timer_nodes`, and `restart_timer` sets it again.
* What is left in `send_buffer` at a disconnect is sent on the next connection, which
  so may begin in the middle of a message.  If the reconnect timer fires before the
  last attempt's event was handled, two sockets are registered; an event of the older
  one can open the connection on a `conn_sd` that is not registered any more, and data
  that does not fit into the socket then waits for ever (`LeftIsSent` excludes this).
* `mpush` stops at an empty first argument and drops the others.  A producer of the
  ring that is between the test of `wait`'s predicate and blocking misses `commit`'s
  notification.  A pipe server calls through a null `user_session` for a message that
  is neither handshake nor heartbeat.
* The parser delivers the same events however a stream is cut.  The bytes of a
  message's trailers count towards the limit of the next head.  A TAB in a list of
  `Connection` tokens is not skipped.  A value that is folded over several lines
  comes in one piece for each, which `HttpDecoder` keeps as several headers, and of
  a body that comes in pieces it keeps the last.
* `http_method_string` writes PATCH as TRACE, which `RoundTrip` therefore leaves out.
* `NetUrl::parse` reads `a=b=c` as `ac=b` and `a&b=c` as `c=b`; the grammar in its comment
  allows `=` in a value.  A port above 65535 becomes another port, one that is no
  number throws and leaves protocol and host behind.
* A connection whose `add_event` failed stays in `connection_map`.
* A pipe client is told that it is ready although its id is unknown to the server.
  In duet mode a remote pipe replaces a local one with the same id, and its own
  session is the one that both ends make ready.
* A path or query of a URL of 2^16 bytes or more is found at a wrong place, because
  `field_data` has 16 bits.

## 6. Not modelled

* The HTTP client: `HttpClient` calls `add_connection` of the connector with arguments
  for which there is no overload, so it cannot be instantiated.  `http_url.h` is used
  there only.
* `string_view.h`, a replacement for the standard class; logging and compatibility
  headers; the sample programs.
* Of `http_parser.h`: `http_parser_pause`, `http_body_is_final`, `http_parser_version`, and
  callbacks that fail, other than `on_headers_complete`; snet has none of them.
* Mime types and `HttpQueryParameter`; `get`, `has` and `dump` of `NetUrl`, with the
  conversions of `TypeCaster` (that for `bool` compares the text before it was made
  lower case).
* Socket options, failures of `bind` and `listen`, the one-second granularity of the
  timer descriptor.
* The lifetime of a reconnecting connection whose timer still runs, and descriptor
  numbers that the kernel gives to others between two of its attempts.
* Data races that are undefined behaviour (`pipe_map`, `broadcast` with workers) are
  excluded by the guards.

## 7. Plan

Every part that has behaviour of its own has a model, and the safety properties of the
runs have theorems, other than `Delivered`, `RoundTrip` and `Reparsed`.  What could follow:

1. Compositions: `Pipe` on connections that reconnect; `TcpRead` on the bytes that a
   reconnect leaves in `read_buffer`.
2. An abstract queue that `LoopBuffer` implements, and an abstract set of timers for
   `HeapTimer`.
3. Proofs: these refinements, and a grammar of messages for which `Delivered` can be
   proved of every stream.
