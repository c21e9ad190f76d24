# libwebserver: specifications, model checking and proofs

libwebserver is a small C++ library for HTTP servers.  A *listener* thread
accepts connections and deals them out, round robin, to *servers*; every server
has a poll object (epoll or kqueue) and is driven by a *worker* thread of the
application, which polls, lets the library read, parse and write, and answers
the parsed requests.  This directory holds TLA+ models of that program, the TLC
configurations that check them, and proofs that TLAPS checks.

## 1. The system

| part | source | state | operations | interacts with |
|---|---|---|---|---|
| poll object | `lib/io/poll_epoll.*`, `poll_kqueue.*`, `poll.h` | `table_` (mask per descriptor), the kernel's interest list, `events_`/`waiting_events_` | `Open`, `Close`, `Insert*`, `Remove*`, `DoPoll`, `Perform` | called by the listener (registration) and by its server's worker; calls `Event*` handlers |
| connection | `lib/webserver/baseconnection.*`, `httpconnection.*`, `lib/io/event.h`, `lib/sockets/socket.*` | `state_`, `fd_`, `buffer_`, `incoming_`, `outgoing_`, `is_persistent_`, `buffer_has_bad_data_` | constructors, `Initialize`, `EventRead/Write/Error`, `SendMessage`, `GetMessages`, `Close`, destructor | its server's sets and poll; the parser; the counters |
| server | `lib/webserver/server.*` | `connections_`, `activity_`, `poll_`, `mutex_`, static limits, `servers_count_` | `NewConnection`, `DeleteConnection`, `ActivityOn`, `GetActiveConnection`, `Perform`, `CreateListener`, `Constructor_`, `~Server` | listener, connections, worker, status thread |
| listener | `lib/webserver/baselistener.*`, `listener.*` | `handlers_`, `current_handler_`, its own poll and socket | `AddHandler`, `Open`, `Close`, `EventRead`, `Run` | creates connections on its own thread |
| messages | `lib/webserver/incominghttpmessage.*`, `outgoinghttpmessage.*`, `message.*`, `httptypes.h` | the parsed or serialised message | `Deserialize*`, `Serialize`, factories | buffer of the connection |
| counters | `lib/webserver/status.*` | request counters, latency and rate accumulators, snapshot | `IncomingRequest`, `ServedRequest`, `Run`, `Calculate*` | called by every worker, read by its own thread |
| threads | `lib/threads/*` | `should_stop_`, `is_stopped_`, `start_requested_`, a condition with its mutex | `Start`, `Stop`, `Join`, `Wrapper_`, `Wait`, `Broadcast`; singleton | everybody |
| strings | `lib/cstring/*` | `string_`, `length_`, `reserved_` | `Reserve`, `Append*`, `Erase`, `Clear`, `AdjustLength`, `UrlDecode`, conversions | buffers and messages |
| clock | `lib/clock/*` | time values, the hour shift | arithmetic, conversions, timers | status, messages, logs |
| demo | `demos/helloworld/*` | worker threads, `Scheduler` singleton | `main`, signal handler, `Scheduler::Run`, `HttpWorker::Process_` | drives the library |
| addresses | `lib/sockets/socketaddress.*` | `hostname_`, `ip_`, `port_` | comparison, order, resolution, conversion | listener, outgoing connections |
| logger | `lib/logger/*` | `message_`, `priority_`, `count_` | `_append`, destructor | log4cpp |
| helpers | `lib/base/*` | none | splitting, joining, trimming, encoding, formats; containers, pointers, exceptions, files | everybody |

What is hard here: two threads touch one server (the listener registers while
the worker polls, reads and closes); the lifetime of a connection is a count of
four kinds of `shared_ptr`; `::close()` gives a descriptor number back to the
kernel, which may hand it out at once to another thread; the poll's entries are
raw pointers into the heap; exceptions that no thread catches end the process;
sizes are unsigned and wrap; the counters are written by all workers and reset
by another thread; threads are stopped and joined by flags.

What makes the parts correct:

* poll: `table_` and the kernel's list agree; what they point to is alive;
* connection: a closing connection stays closing, gives everything back before
  its number is free, and is destroyed; a connected one is never deaf;
* server: the sets are sound sets, the limit holds, no parsed request is lost;
* listener: the round robin stays in range, a connection goes to one server;
* messages: the parser consumes exactly one message and terminates;
* counters: nothing counted is lost;
* threads: stop is not lost, join returns and returns only after the run;
* strings: the bookkeeping never claims more than was allocated.

`PROJECT.json` lists the same parts under `components` and every hazard at its
line under `hazards`.

## 2. Plan

Done:

1. `PollEPoll`, `ServerCore`, `ServerCoreProofs`: the life of connections under
   the listener and the workers, with its inductive invariant.
2. `ConnectionService`, `ServerCoreService`: what this amounts to for a user of
   the library, checked, and proved (in `ServerCoreProofs`) to be implemented.
3. `CString`, `CStringUse`, `CStringProofs`: the buffer, its sizes, its text, and what
   searching it answers.
4. `HttpTypes`, `IncomingMessage`, `OutgoingMessage`, `ReadPath`, `ReadProofs`:
   from bytes to messages and back.
5. `DemoLife`, `DemoLifeProofs`: threads, start, stop, join and signals.
6. `Status`, `StatusProofs`: the counters all workers share.
7. `StartUp`, `StartUpProofs`: a listener opened with retries, servers added while
   it accepts, stop and destruction.
8. `PollKQueue`, `ReplyPath`: the other back end, and which reply answers which
   request.
9. `OutgoingConnection`, `OutgoingProofs`: a connection the program opens, with
   the failures of every call; owners, back ends and replies.
10. `SocketAddress`, `Clock`, `CStringSearch`, `Conversions`, `TextHelpers`,
    `Logger`: the parts that stand alone, put together by `Library`.
    `CStringProofs`, `LibraryProofs`.

Left: `CloseAsked` is about one server; the same for connections of several servers
needs nothing new in the model and a larger instance.

## 3. Modules

| module | models | extends or instantiates |
|---|---|---|
| `PollEPoll` | one epoll object | |
| `ServerCore` | listener, servers, workers, connections | `PollEPoll` |
| `ConnectionService` | the service a connection gets (abstract) | |
| `ServerCoreService` | the refinement mapping | `ServerCore`, instance of `ConnectionService` |
| `CString` | a string and its operations | |
| `CStringUse` | one string under every sequence of operations | `CString` |
| `CStringSearch` | what reads a string: search, comparison, hash, numbers | `CStringUse` |
| `Conversions` | numbers to text in any base, `strlcpy`, `strlcat`, `substr` | `CStringSearch` |
| `HttpTypes` | the tokens of HTTP and `ToString` | |
| `IncomingMessage` | the parser | `HttpTypes` |
| `OutgoingMessage` | the serialiser | `HttpTypes` |
| `ReadPath` | `EventRead` and the parse loop over a stream | both |
| `DemoLife` | the threads from `main()` to `exit` | |
| `Status` | `WebserverStatus` | |
| `StartUp` | `CreateListener`, `AddHandler`, the listener's thread from start to end | |
| `PollKQueue` | one kqueue object | |
| `ReplyPath` | one server's thread: requests, replies, persistence | instances of `PollKQueue`, `PollEPoll` |
| `OutgoingConnection` | the constructor that connects, on a third thread | `ReplyPath` |
| `SocketAddress` | addresses | |
| `Clock` | arithmetic on times | |
| `TextHelpers` | `string_helpers.h`, `istring.h`, `c_format.cpp` | `CStringSearch` |
| `Logger` | the log appenders | |
| `Library` | the parts that stand alone, in behaviours of their own | `Conversions`, `TextHelpers`, `Clock`, `Logger` |
| `MC...` | values for TLC | |
| `...Proofs` | theorems (section 7) | |

### PollEPoll

Operators on a record with `table`, `ctl` (the interest list: `data.ptr` and
mask per descriptor), `events` (the entries `Perform()` has not reached) and
`fault` (an exception was thrown; the rest of the C++ function does not run).
Each operator is one method of `PollEPoll`.  `epoll_ctl` and `epoll_wait` are
external and modelled from how the code uses them: a second ADD fails, as does
a MOD or DEL of what is not there; EPOLLERR is reported unasked.  A write to
`table_` behind its end is left without effect in the model.

### ServerCore

One listener thread and one worker per server.  A member of `Conns` is a heap
address, so "the object at this address was destroyed and another one lives
there now" can be expressed; `state[c] = "FREE"` means that none lives there.

| state | code |
|---|---|
| `open` | the descriptors of connections open in the process |
| `state`, `desc`, `handler`, `incoming`, `outgoing` | `Event::state_`, `Event::fd_`, `handler_`, the sizes of the two queues |
| `connections`, `activity`, `poll` | the members of `Server` |
| `wpc`, `event`, `ret` | where a worker is in `Perform()`/`Process_()`, the local `event` of `Perform()` with the bits of its entry, where `Close()` returns to |
| `lpc`, `lconn`, `current` | where the listener is in `HttpConnection::Create`, its `shared_ptr`, `current_handler_` |
| `process` | "running", or which exception or access ended it ("poll_threw": one of a poll object) |

Every `L...` action is a step of the listener, every `W...` action one of a
worker.  The steps are cut where the other side can interfere: around the
server's mutex, around the calls on the poll object, before `SetState`, before
`::close()` and where a `shared_ptr` goes.  Inside such a step the code touches
only what belongs to its own thread.  The number of messages is all that is
kept of the queues, since what happens to a connection depends on no more.

The remaining abstraction: `EventRead` yields any number of requests, an
`InternalError` from `Erase`, or a failure; a peer decides which.  Registration
by `Initialize` is one step: the worker ignores an INACTIVE connection, so
between its `epoll_ctl` calls nothing else is observable.  When `SetOptions_` has
failed the object has no descriptor, and the registration of -1 throws (`Enrol`):
nobody catches it, and the process ends.  `OnlyBadFdThrows` says that this is the
one exception of a poll object that does.

### ConnectionService and ServerCoreService

The service in ten short actions, without poll objects, sets, threads or
reference counts: a connection is accepted under a number nobody else has,
refused or admitted within the server's limit, asked and answered while it is
served and never after; it leaves, gives its number back and only then goes.
`ServerCoreService` maps `state_` to a phase and counts the queues of CONNECTED
connections only.  `ImplementsService` is the instance's `Spec`: run `one`
checks it, `ServerCoreProofs` proves it.  A reply to bad data and a reply to a
request look alike here.

### CString and CStringUse

A string is its block (`alloc`, `cells`), `length_`, `reserved_` and a count of
writes behind the block.  Sizes are `size_t`: sums and differences wrap at
`SizeMax + 1`.  `malloc`ed bytes are `Junk`; `realloc` keeps what fits.
`CStringUse` applies the operations in any order, and `DoEventRead` is the use
`BaseConnection::EventRead` makes of them: reserve, let `recv()` write at
`End()`, take it in with `AdjustLength`.  `text` is what the string should hold.
An assigned empty text leaves the old bytes in place (`operator=` only moves
`length_` to `reserved_`), which is what `stale` records: C functions still see
the old text.

Two uses are left out.  No argument is the string itself: `s = s` loses the text, since
`operator=` sets `length_` to 0 before `Append` reads it, and an `Append` of the own
text may read a block that `realloc` has moved; the library does neither.  And `Erase`
is applied to a string with a block only: without one even `Erase(0, 0)` writes its NUL
through a null `string_`; the library erases in `buffer_` only, which has a block from
its construction on.

A byte is its number, so that `strtol`, `tolower`, order and hash work on what
the code works on; `Junk` is a number no byte has.

### HttpTypes, IncomingMessage, OutgoingMessage, ReadPath

A message is a sequence of tokens: a run of characters that the parser compares
as a whole (a method with its blank, `" HTTP/1."`, `": "`, a header name) is one
token, everything else one token per character, and CR and LF are tokens of
their own, so that a stream can be cut between them.  `IncomingMessage` has one
operator per `Deserialize...` function and per loop in it; a result is "done",
"incomplete" (`false`), "throws" or "hangs" (the loop does not move).  A numeral is one
token too: a digit, or a minus sign and a number up to 20, which `strtoul` negates as
an `unsigned long` is, so that sums of lengths wrap at `Word` as a `size_t` does.
`OutgoingMessage` has the constructors' and setters' effect on a message and
`Serialize` with the length it allocates.  In `ReadPath` peers send messages of
this library, and of others, back to back; the network cuts the stream anywhere
and a read may yield nothing, whereupon `EventRead` clears the buffer
(`dropped`).  `outcome` is "running" until the worker is lost: "hangs" in the header
loop, "repeats" in the loop of `ProcessEventRead_` (a message that ends at 0, which
`Erase(0, 0)` leaves in front, is taken for ever), or "erase_threw".  `LostOnlyTo` says
which texts can do that, and that no others do:

* a header with a line that has no key (`Stuck`): the empty line of a message without
  headers, a line that begins with a bare CR, or one with empty keys only (`: `) before
  its CR;
* a `Content-Length` that wraps the end of the message to exactly 0;
* a GET that announces more content than has arrived.

The parser looks for the protocol of a GET or POST in all that follows, not in the
line: a line without one is refused, but when the next message arrives it is taken
together with that.  Nor does it doubt a length: one that is larger than the message
takes from the next, and one that wraps to less than the header leaves the rest of the
header to be parsed as a message.  `Clean` sets such streams apart (every message up
to the next one names its protocol and has what it announces, `Honest`), and
`ProtocolComes` is the one way in which bad data stops being bad.  `Whole`,
`Headerless`, `Strange` and `Unfinished` say of a text without a parser what kind of
message it is, and `OwnTexts` that a message of this library is what `Serialize`
makes; every message of the run but those in `Odd` is of one of the kinds
(`MessagesKnown`, which TLC evaluates), and most of the proofs are about any messages
of these kinds.  `Odd` has three lengths that wrap and two header lines without a key.
`NothingInvented` is about streams in which an empty read has dropped bytes, so that a
read may begin in the middle of a message. It claims something only where every
message of the stream is `Honest` (`AllHonest`): without one of their protocols, a
line of which the beginning was lost can borrow the protocol of a later message
although all that was taken so far had one.

### DemoLife

Each `Thread<>` object has its three flags and `at`, the place of its thread in
`Wrapper_`; `main`, `run` and `frame` are the places of `main()`, of
`Scheduler::Run()` and of `signal_handler` on every thread.  One step is one
store or load of a flag.  The flags are plain `bool`s, so the order of the
stores is an assumption: program order, or neighbours merged into one, which is
what compilers do with two adjacent stores and what x86 keeps.  `OnObject` ends
the process as "undefined" when a thread touches an object that was freed.

### Status

One step per operation on an atomic; `http_served_[code]++` is a load and a
store.  `served`, `timed`, `rates` and `collected` are no state of the code: they
keep what was handed in and what `Run()` has taken.  A window of 60, 300 or 900 seconds is the constant `Windows`.  The
averages are integers; the window of latencies works as those of the rates and
is left out.

### StartUp

`main` is the place of the application's thread in `CreateListener`,
`BaseListener::Open`, `Server::Create`, `AddHandler` and the end; `thread` that
of the listener's thread in `Run()` and `EventRead`.  `AddHandler` holds a mutex
that `EventRead` does not take, so their steps interleave: `push_back` is one
step with a beginning and an end, between which a reader finds anything, and
`++current_handler_` is a load and a store with a register between them
(`thread.next`).  `current_handler_` starts with what the memory held
(`Leftovers`), for the constructor does not initialise it.  An access to what is
not there ends the process as "undefined"; the named windows in which that can
happen are part of the property `CrashesInWindows`:

* `HalfBuilt`: `Open` throws before `poll_` has a value, and the destructor's
  `Close()` uses it;
* `TooEarly`: a peer connects between `Start()` and the end of the first
  `AddHandler`;
* `Growing`: the vector moves under the thread that reads it or that still uses
  the reference it got.

The application is one that calls `Stop()` and `Join()` before it destroys the
listener, which is what `~Server` does with its member `listener_` (never set).
The demo does not; `DemoLife` has that.  Why a poll object or a server cannot be
made is left out, and so is the resolution of the address.

### PollKQueue

As `PollEPoll`, with one record field for what differs: the kernel keeps
`udata` per descriptor *and filter*, an entry of `events_` is for one filter, and
EV_ADD of a filter that is there is no error.  `Close()` nulls all waiting
entries of the object, which leave `events`.

### ReplyPath

The thread of one server over kqueue, and a listener that hands it connections
at any moment.  What `ServerCore` counts is told apart here:

| state | code |
|---|---|
| `asked` | history: the requests parsed on a connection, each with its method (GET or not) and whether it asks to keep the connection |
| `taken` | how many of them `GetMessages` has handed to `HttpWorker::Process_` |
| `outgoing`, `batch`, `got` | `outgoing_`, the local list of `EventWrite`, and what `WriteStream` has taken; a reply is the number of its request and what it says about the connection |
| `is_persistent`, `bad` | `is_persistent_`, `buffer_has_bad_data_` |
| `kq`, `ep` | the poll object, and an epoll object that gets the same calls |
| `wpc`, `at` | where the thread is, and on which connection |

A reply takes `is_persistent_` when it is made, and the flag is what the last
request parsed has left.  A send may take a part of the reply, which the code
counts as the whole (`Rest`).  `Accept` with `Initialize` is one step here, and so
is `Close()`: their interleavings are the subject of `ServerCore`.

### OutgoingConnection

`app` is the place of an application's thread in `HttpConnection::Create(local,
remote, ...)` and its constructor: socket, options, `connect()`, `select()`,
`NewConnection`, the end of `Initialize`.  The constructor has the descriptor
twice, in the local `fd` and in `Event::fd_`, and closes now one and now the
other.  Two ways in which it ends the process are outcomes in `process`:
"terminated" (`~Socket()` throws while an exception is on its way) and
"stranger_closed" (the local's number was given back before and is closed again
when another thread already has it).  `leaked` are descriptors of constructors
that threw before `SetDescriptor`.

### SocketAddress, Clock, CStringSearch, Conversions, TextHelpers, Logger

One operator per function.  Signed C++ division is written out where an argument
can be negative; an operator named `...Undefined` or `...Throws` says for which
inputs the function has no result.  A text is a sequence of bytes.  DNS and
`inet_aton` are arguments of the operators that call them.  A log line is an
event or "repeated n times"; `LogTells` reads a log back into what was logged.

`Library` gives each part behaviours of its own: a string under every sequence
of operations, a logger under every sequence of events, and, for the functions
without state, one initial state per input.  `MCLibrary` adds the exclusive or of
the hash, whose module the prover cannot read.

## 4. Runs

| run | instance | states | shows |
|---|---|---|---|
| `one` | 1 server admitting 2, 3 addresses, 3 descriptors, 2 messages in flight | 841,508 | the safety of the core under reuse of addresses and numbers, rejection, failure of options (the one way in which a poll object throws); the core implements `ConnectionService` |
| `live` | 1 server admitting 2, 2 addresses, 2 descriptors, fair | 126,577 | closing connections are destroyed, parsed requests are taken |
| `replies` | 1 server admitting 1 or 2, 2 addresses, 2 descriptors, 2 requests, fair | 402,176 | the back ends agree call by call; replies in order, none but those behind another method dropped; one owner per descriptor across three threads; a connection that was asked to close is closed |
| `library` | texts up to 4 bytes, arguments up to 2, a buffer of 2, 6-bit sizes; 5 log events; 7-bit numbers in 7 bases; all texts of 3 bytes to split, to join and to encode, and pairs of them to copy into up to 7 bytes; formats of 3 directives, moments of 3 seconds, shifts of 30 hours | 64,789 | sizes, text, terminator and search of a string after any sequence of operations; the log tells what was logged; the helpers agree with their definitions |
| `read` | 1 or 2 messages of 9 kinds, 3 short ones of 3 kinds, or one of 5 odd kinds alone or with another, cut into chunks of 1, 3 and 40 | 928,512 | the parse loop takes exactly what was sent; what it refuses, and the three texts that lose a worker |
| `life` | 2 workers, 2 signals, fair | 126,872 | flags, joins and order of destruction; a stopped scheduler ends the process or hangs in one of four ways |
| `status` | 2 workers, 2 codes, 2 messages, windows 1, 2, 4, 5 rounds | 348,654 | no rate is lost, windows hold the latest, counts are not made up and nothing is divided by zero |
| `startup` | 3 servers, 7 peers, `current_handler_` holding 0 or 7 | 61,326 | the set-up goes wrong in three windows only, connections go round afterwards, and nothing stays open |
| `freed` | 1 address | | finding 1 |
| `table` | 4 servers of 1 connection, 11 slots, descriptors 9..12 | | finding 2 |
| `bare` | one message without header lines | | finding 3 |
| `lost` | 1 worker, 1 signal | | finding 4 |

Why the bounds are enough.

* Core: the hazards are about who holds what of one connection while one other
  exists or replaces it: the old owner of a number or an address, the new one,
  and one that was rejected meanwhile.  Three addresses over two admitted
  connections give all three at once.  What two servers share, descriptor numbers,
  is covered by the proofs, which are for any number of servers.  `MaxInFlight` bounds
  requests plus replies of a connection; with two, a request can arrive while a
  reply is queued and a queue can be served in part.  `Addresses` is a symmetry:
  no definition distinguishes addresses.  In `table` the descriptors begin at 9
  because the process has others open (standard streams, log files, the
  listening socket, and one epoll descriptor per poll object).
* Replies: two requests on one connection are a pipeline, with a good or bad
  second piece, or one each on two.  Two descriptors let the listener take the
  number that the constructor has just given back while the third thread still
  works with it.  A limit of 1 rejects the outgoing connection next to an accepted
  one.
* Library: numbers of 7 bits, signed and unsigned, include every multiple that the
  doubling of `Div_` overflows on; bases 1 and 36 are the ones refused next to the
  ends of the alphabet; two events of each text and a counter of two overrun it.
* Strings: every operation compares `length_`, `reserved_` and the argument; the
  bounds give each comparison both outcomes, and the difference in `EventRead`
  that wraps is reached since reserve may exceed the buffer length.  `Chars` has
  one hex digit, a blank and the escape.
* Messages: two messages put a boundary into every chunk; chunk 1 stops the
  parser at every token, 40 brings both at once.  Lengths have one digit or wrap;
  `Word` is 65536, since all that counts is that it is far from any sum that does not.
  The lengths that wrap put the end of the message at 0, of a GET (`Never`) and of a
  POST (`Again`), or behind its first line (`Cut`); the lines without a key are a bare CR
  (`Return`) and a colon (`Keyless`).  Each stands alone, or before or behind a POST or
  a line without a protocol.  Three
  short ones (`Few`: an empty reply, a bad method, a line without protocol) are there
  for empty reads: what is left of the first, a second line and a third message can
  together look like one that nobody sent, which two cannot.
* Threads: with two workers one can be past its end while the other has not
  begun; two signals put handlers on two threads, or one into the shut-down.
* Start-up: three servers make the vector move twice and give the race for
  `current_handler_` an index that is neither the first nor the last; seven peers
  allow a few connections during the set-up and two rounds after it.  One value
  of `Leftovers` is a good index and one is none.
* Counters: two workers give every pair of interleaved updates; five rounds wrap
  the largest window.

Deadlock is checked in every run: a terminated process stutters (`Terminated`,
`Over`, `Quiet`, `Done`, `Idle`, `Lost`, `Rest`), and a running one always has a step.

## 5. Fairness

`ServerCore!FairSpec`: every worker with a step and the listener past `accept()`
take one in the end, which is the scheduling of POSIX threads; `DoPoll(1000)`
returns after a second.  Nobody must connect.  A worker in the loop `while
(WriteStream(...) == 0) Yield()` (`Spinning`) need not leave it: whether it does
is up to the peer.  `ClosingIsDestroyed` holds all the same; `RequestTaken` is
stated under `PeersRead`.

`OutgoingConnection!FairSpec`: the worker keeps being scheduled, and an armed
write filter that goes on being asked for is reported at last, since the peer
reads.  Neither the listener nor the application has to do anything.  (The two
conditions are written out in terms of the steps they are about; they are weak
and strong fairness of the worker.)  `CloseAsked` needs no more.

`DemoLife!FairSpec`: every thread with something to do goes on; no signal has to
come.  `StopEndsProcess` says that a stopped scheduler brings the process to its
end or that it hangs in one of four ways, every one of which is reachable:

* `StopLost`: a worker was stopped before its thread cleared the flag;
* `EndMissed`, `RunMissed`: a thread ended between the two reads of `Join()`,
  which the scheduler or `main()` executes;
* `HandlerStuck`: a handler waits for a scheduler that is over.

## 6. Findings

1. `poll_epoll.cpp:80,84` (run `freed`): `Perform()` copies `data.ptr` into the
   local `event` once per entry.  When the error or read branch closes the
   connection, `Close()` zeroes `itr->data.ptr`, but the branches test the local.
   If the worker held the last reference the object is gone.  The comment above
   the branches says that each must check `data.ptr`.
2. `server.cpp:107` (run `table`): the ten extra slots do not protect a process
   with several servers, since `table_` is indexed by process-wide numbers.
3. `incominghttpmessage.cpp` (run `bare`): on a message without header lines the
   header loop stays at the empty line for ever, though its description promises
   true, false or an exception.  A line that begins with a bare CR or holds nothing but
   `: ` does the same (`Return`, `Keyless` in run `read`).
4. `worker.cpp:66` (run `lost`): the new thread resets `should_stop_`, so that
   `Stop()` of a worker whose thread has not begun is lost and the shut-down
   waits for ever.

Also visible in the models, without a sentence of the repository against them:
an empty read drops half a message (`dropped` in `ReadPath`); a GET that
announces content which has not arrived makes `Erase` throw, which no one
catches (`erase_threw`, `WEraseThrows`); a `Content-Length` near 2^64 wraps, so that one
message is taken for ever (`repeats`) or the rest of its header becomes a message
(`Cut`); a connection whose options cannot be set ends the process
(`OnlyBadFdThrows`); two workers can lose an increment of
`http_served_`; the second attained average is divided by the size of the third
window; at the end of `main()` the listener and Status are freed while their
threads run (`process = "undefined"`); an outgoing constructor that fails behind
`SetDescriptor` lets `~Socket()` throw during unwinding, or closes a number a
second time (`process` in `OutgoingConnection`); a reply that was sent in part is
not sent to its end; `operator-` of `HiResClock` is two seconds off when it
borrows (`MinusBorrowsWrong`); the `find` of `istring`'s traits has no value for
"not there", so that its `Tokenize` finds no words; `joined_pair_output` writes the
last pair twice when asked for both; `PairContainerToString` passes one argument
too few and cannot be instantiated; a negative number is written with characters
in front of the alphabet, and `Div_` overflows for signed values in the upper half
(`AlphaUndefined`); `substr` writes its NUL first and then over it; `HasDayChanged` compares the day of the month only; the rolling log
appender writes through the base class that never rolls; a destroyed logger loses
the repetitions it has counted; `Condition` waits without holding the mutex it
passes to `pthread_cond_timedwait`.

## 7. Proofs

TLAPS checks eight modules; nothing in them is assumed but the named assumptions
on constants.

### ServerCoreProofs

For any number of servers, addresses, descriptors and messages `TypeOK`,
`FreeFdIsClean`, `OnlyBadFdThrows`, `NoDanglingRegistration`, `SetKeysSound`,
`NoLostRequest`, `ReplyArmed` and `ClosingIsFinal` hold of `Spec`, under one
assumption: `FdsFit`, every descriptor number has a slot in `table_`.  Run
`table` shows what happens without it.

None of these is inductive alone.  `IInv` adds what they rest on:

* `DescInv`: a descriptor belongs to one live object, and is open;
* `RegInv`: `table_` and the interest list agree slot by slot, and an entry
  belongs to the object that carries the number;
* `EventInv`: what `Perform()` still has to dispatch has not passed
  `PollEPoll::Close`;
* `OwnerInv`: who is in the two sets, and that a closing object is there only
  until `DeleteConnection`;
* `CloseInv`, `UnpolledInv`, `ClosingInv`: the worker inside `Close()`, and who
  still holds a closing object;
* `ListenerInv`: the listener's object on its way;
* `QueueInv`: requests and replies exist on connected objects only, and a wake-up
  for each is in place;
* `FaultInv`: no poll object has thrown, but for the one that `Initialize` gives
  `fd_ = -1`, and no `~Socket()`.

The argument has three layers.  Lemmas about the poll operators (`InsertLemma`,
`RemoveLemma`, `EnrolLemma`, `WithdrawLemma`) say that on a slot that is
consistent and belongs to the caller, the chain of `epoll_ctl` calls succeeds
and sets that slot only.  `SlotOwner` derives this precondition from `IInv`.
One lemma per action then shows that the action preserves every part;
`ExchangeStep` and `EnterCloseStep` are shared by actions of the same shape.

That the core implements `ConnectionService`: `LimitInv` adds to `IInv` that `connections_` is finite and within
`max_connects_`; with `OwnerInv`, which makes a connected connection a member,
`OwnersWithinLimit` proves `ServerOwnsConnected`.  `CoreImplementsService` then
takes one lemma per group of actions (`AcceptShown`, `AdmitShown`, ...), each of
which names the abstract action or shows a stutter.  The interesting cases use
the invariants: `Accept` needs that no live object has the number (`DescInv`),
`Admit` that the served connections of a server are members of its set and so
below the limit, `Go` that a closing object has lost its number before the last
`shared_ptr` goes (`CloseInv`).

### CStringProofs

`SizesCovered` (`Covered`), `RoomToRead` (`ReadFits`), `TextHeld` (`HoldsText`),
`TerminatorHeld` and `SearchHeld` (`SearchAgrees`) for every buffer length and every
width of `size_t`, for `DecodingSpec`: the operations that the library itself applies
and `UrlDecode`, which only an application calls.  The invariant for the sizes is `Covered` with the type of a string and the
bound of the machine: under `UseAssumption` no sum that is meant to be a size wraps,
and the one that does wrap in `EventRead` comes out right modulo `SizeMax + 1`.

`TextInv` adds the contents: the first `length_` cells are `text`, a NUL follows, and
only an assigned empty text leaves old bytes before it (`stale`).  `Carries` is what
an operation must do to keep it; a lemma per operation states the cells it writes
and those it moves.  `realloc`, which keeps what fits, and `Erase`, which moves the
tail with its NUL, are where sizes and contents depend on each other.

`UrlDecode` rewrites the block in place up to its first NUL.  What its recursion
computes is built from that NUL backwards (`DecodesExist`), is a text no longer than
what it reads (`DecodedShape`: an escape takes three bytes and gives one), and depends
on those bytes only (`DecodedSame`), so that the block and the text it should hold
decode to the same.

`EndInv` is about what C functions see: a NUL behind the text unless an empty text
was assigned, some NUL in the block even then, and `stale` only of an empty text.
The last is what makes it inductive: an assignment of nothing moves no byte, and the
next operation that writes any ends the text again (`Ended`, which the lemmas for the
operations carry along).  From the three invariants `SearchRight` takes one conjunct
after the other: `memcmp()` decides by the first difference (`memcmpBelow`; bytes are
numbers by `ByteAssumption`, which the order needs), `strstr()` stops at the length of a
plain text (`PlainEnd`) and so finds what `Occurs` says (`FindsFirst`), and two blocks
with the same bytes up to a NUL have the same hash (`HashOfBytes`), whatever the
operator `SizeXor` is: the prover cannot read the module of the exclusive or, so it is
a constant that `MCLibrary` gives its value.

The second half of the module is about numbers, and about every width of an integer
type at once.  A recursive definition means nothing to the provers before some function
is known to satisfy it, so `RecursExists` builds one by induction over a measure of the
argument (`Induct`, the induction over a named set), `RecursOnce` shows that there is
no other, and `LoopExists` is the case of a loop.  On these rest `DivDivides` (the two
loops of `Div_` keep `quotient * d + remainder = n`, and what is left stays below the
shifted denominator), `DivStaysInside` (where a doubling may leave a signed type),
`DigitsWritten` (`IntToAlpha`, by induction over the number) and `NumbersRight`, which is
`NumberRight` of `HelpersAgree` for every type, value and base.  Its hypotheses: the
bases are values of the type (35 is one for eight bits already), the local array holds
the digits of the type (`DigitsFit`: 21 bytes are enough for 64 bits), and a string of
that size fits `size_t`.  `CopyIsRight` is about `strlcpy` and `strlcat`: what is
written, what is counted and what is left alone, for C strings of any length and any
size, those that end nowhere within it included.

### DemoLifeProofs

For any pool and any number of signals `FreedAfterUse`, `WorkersFirst` and
`SchedulerStopKept`.  `LifeInv` relates the flags to the place of each thread
(`FlagInv`), `main()` to what it has started (`MainInv`), `Scheduler::Run()` to
the workers it has left behind (`RunInv`), and the handler to the flag it waits
for (`StopInv`).  The heart is `FlagInv`: `start_requested_` is set exactly while
there is a thread.  This is why `Join()` may skip `pthread_join()` when the flag
is down, and it holds because the flag is the last that `SetStoppedStatus`
stores.

### StartUpProofs

For any number of servers and peers and any garbage in `current_handler_`,
`CrashesInWindows` and `NothingLeft`.  `StartInv` relates the socket and the poll
object to the places of both threads (`ListenerInv`, `ThreadInv`), and bounds
the index at every step of the increment (`IndexInv`): a value in the register
is at most `handlers_.size()`, since the vector only grows; and when the
comparison comes, `current_handler_` is that value or the 0 of an `AddHandler`
that came between.  This is why the lost reset does no harm.

`GoesRound`: for any number of servers and connections `DealtInTurn`.  The
counting begins at the last `current_handler_ = 0`.  `TurnInv` names the server
that gets the next connection (`Due`), which while `EventRead` increments is in the
register and not in the variable, and says that the counts, read from there on and
around, never fall and rise by at most one.  `Deals` is the step: who is due gets
one more and the next is due.

### LibraryProofs

Addresses: `operator==` reads the name only when there is no address, and `operator<`
compares in another order than it; still the one is an equivalence
(`EqualIsEquivalence`), the other a strict order (`LessIsStrict`), and two
addresses are equivalent in a `std::set` exactly when they are equal
(`OrderMatchesEqual`).  An address survives a `sockaddr_in` unless it is an
unresolved name (`SockAddrRoundTrip`), and `connect()` is never handed the
any-address for a name (`ConnectsToResolved`).

Times, for every length of a second and every width of a word: `DifferenceIsElapsed`,
`PlusAdds`, `PartsRebuild`, `NormalizedIsStart`, `HourBit`, and what is wrong with
`operator-` (`MinusBorrowsWrong`).  The lemmas `Distributes` and `CarryOfSum` hold
the arithmetic that the prover needs help with.

The log, for any messages, priorities and width of `count_`: `LogReadsBack`, that
the log and the pending repetitions read back as what was logged (`LogTells`).
`LogInv` names the last event's line (`LastLine`), says that a "repeated" line stands
below an event of its priority (`RepeatsFollow`), and that the pending count is the
number of events since, unless it has wrapped (`RunCounted`).

The functions without state: `HelpersRight` is `HelpersAgree` for every instance, that
is any letters, delimiters, bases, formats, shifts and widths.  `LibraryAssumption` is
what it needs of them: texts are made of characters (a C string has no NUL in it), the
local array of `AppendDecimal` holds the digits of the type, and times fit a word.  The
invariant is that the input never changes (`Inputs`); what matters is one theorem per
function, each for every input, however long: `FormatsCounted`, `CaseIgnored`,
`BlanksTrimmed`, `WordsAreRight`, `JoinIsRight`, `PairsAreRight`, `EncodeIsRight`, next
to `TimesRight`, `HoursRight` and, in `CStringProofs`, `NumbersRight` and `CopyIsRight`.
Only `JoinIsRight`, `CaseIgnored` and `CopyIsRight` need texts without NUL, the first
because NUL is the separator it joins with.  `CaseIgnored` is about `eq`, `lt` and
`compare` of `istring` (`strncasecmp` stops at a NUL that both texts have), and
`FormatsCounted` about the comparison with `exp_count` too: the right count passes, every
other one aborts.  `WordsAreRight` and `EncodeIsRight` hold for any bytes, which
`Tokenize` and `UrlEncode` all take alike; the text that `UrlDecode` gives back is the
one that was encoded if that had no NUL.

The argument is the same for most.  A definition that recurs over data first gets the
function that satisfies its equation.  Then `SeqInduct`, induction over texts by their
first byte, follows from the induction over a named set of numbers.  Each theorem adds
how its function goes from a text to the text with one byte before it: `TokensMoved`
(the words from a place on are those of the rest), `WordsCons` (a byte that is no
delimiter begins a word or lengthens the first), `DecodesCons` (an escape is read back
as the byte it was written for).  The run over a format is taken from the other end,
since the parser's state depends on what came before (`FormatsCounted`).

### StatusProofs

For any number of workers and rounds and any finite set of codes.  `NoRateLost`:
`RatesConserved`, each timed message is in the counter or in a rate that was taken,
once.

`CountsHold`: `CountsSound`.  `http_served_` makes up nothing though workers store over
each other: what a worker has loaded is less than what was handed in under that code
(`PendingInv`), whoever stores when.  The division is never by zero since `Run()` is
the only one to make the count smaller, after the division.  The total that `Run()`
sums up while workers go on counting is at most the sum of what was served: `TotalInv`
bounds it by the sum over the codes that the loop has passed.  That sum is a function
defined by recursion over the codes; `PartialEquation` shows that it satisfies its
equation and `SumsGrow` that it grows with its terms.

`WindowsKeepLast`: `WindowsRecent`, each window holds the last rates, as many as it
has room for, and the attained window the last that were not zero.  `WindowInv` says
that the position in the largest window is the number of rates kept so far modulo its
size, and that every place holds the last rate stored there (`HoldsLast`); the smaller
windows are read off since the sizes divide each other (`ModOfMod`, `ModNext`,
`ModDiffers`).

### OutgoingProofs

`OneOwner`: for any number of connections and descriptors `DescriptorsOwned`, that
is, listener, worker and constructor never give one number to two objects, never
keep one that is closed and never lose one but in the two named ways
(`leaked`, `process`).  The invariant `OInv` says in `AppInv` what the
constructor's two copies have to do with each other (they are equal except at
`connect()`, where `SetOptions_` may already have given back the one in the
object), in `StateInv` that an object has a number exactly from its birth to its
end, and in `WorkerInv` that a handler runs on a connected object, which the
constructor's never is.  For the latter the poll object must hand out live
objects: an entry is dispatched only if its object still asks for the filter, and
`EventMask_` is empty for one without a number.  `Gone` is the step that `Close()` and a
constructor that fails have in common.

`BackendsEqual`: for any number of connections and descriptors `BackendsStayEqual`,
that is, a kqueue and an epoll object that get the same calls believe and hold the
same of every descriptor, neither throws, and no waiting entry is for a dead object
or an old number.  `BackendsAgree` is not inductive: `EV_DELETE` of a filter and
`EPOLL_CTL_MOD` fail or not according to whom the slot belongs to.  `AInv` adds that
an admitted connection's slot is its own and every other slot is clean, which
`OneOwner`'s invariant is needed for when a number changes hands.  Per call there
is a lemma on each side about the one slot it touches (`KInserts`, `KRemoves`,
`EInserts`, `ERemoves`); from these `EnrolSound`, `ArmSound`, `DisarmSound`,
`WithdrawSound` and `ClosesSound` put together what `Initialize`, `SendMessage`,
`EventWrite`, `Close()` and a bare `::close()` do, and `StaysAgreed`, `GrowsAgreed`
and `ShrinksAgreed` say that no action does anything else to the set of admitted
connections.

`AnswersInOrder` and `DroppedBehindOther`: for any number of connections, any
pipelines and any method of each request, `RepliesInOrder` and `OnlyBehindOther`.
`RInv` carries them through the places where replies are moved: the queue, the local
list of `EventWrite` and what the socket has taken are one sequence of request
numbers that rises (`PlaceInv`), whose last one tells how far the worker is in its
batch (`LastInv`); a reply that says the connection closes is the last (`Told`), which
holds because the worker goes from it to `Close()` and nowhere else.  `OInv` is
needed for the moment in which an address changes its owner: a new object has
neither queue nor history.

### ReadProofs

For any number of messages, any sizes of reads and any empty reads.  `BadNotSkipped`
(`NothingAfterBad`) and `WorkerLost` (`LostOnlyTo`) need no more than that texts are
sequences of tokens; the others assume what `MessagesKnown` has TLC check of the run's
messages: that each is of one of the four kinds (`KnownKinds`), for the pairs that
they are those of the text (`KnownPairs`), for `OnlySentTaken` that no name of a
method stands inside a message (`MethodsLead`), and for `OwnTextFits` that a message
of this library is what `Serialize` makes (`OwnTexts`).  Without such a description of
what a message is there is nothing that the parser could be compared with.

* `MessagesExact` (`TakenExactly`): messages come out whole, in order, once, and as
  soon as they are complete, and the buffer holds the rest;
* `WorkerLost`: whatever a peer sends and however it is cut, the worker is lost to the
  three texts of `LostOnlyTo` only: keyless lines and lengths that wrap included;
* `GoodMessagesKept` (`GoodNeverRefused`), `PairsTold` (`PairsFound`);
* `OnlySentTaken` (`NothingInvented`): whatever an empty read discards, what is taken
  are messages of the peer in their order;
* `OwnTextFits` (`TextFits`): what `Serialize` allocates is what it writes, for
  headers and contents of any length;
* `RoundTrip`: from data that begin with `Serialize(o)` the parser takes just that
  text, and reads the method, the URI and the headers of `o`, among them the length
  that `Serialize` has added; from data that hold only a part of the text it makes no
  other message.  It needs no assumption on the run's messages.  `Readable` says which
  messages can be read back, and each of its conditions is one the code has: no part
  holds what ends it, a reply is an OK with content (an empty one becomes a 204, which
  the parser refuses), a GET has a header (finding 3) and announces no content, the
  text is shorter than `Word`, and lengths have one digit, the bound of the model.
  The lines of a header are five tokens each (`LinesAt`), so the text consists of an
  opening, lines and data (`TextRead`), which makes it `Whole`.

`Whole` is about messages shorter than `Word` that have the content they announce, so
messages whose length wraps and headers with a keyless line behind a good one are of
none of the kinds: what the parser does with those is proved by `WorkerLost` as far as
the worker is lost, and otherwise left to TLC (`Odd` in run `read`).

`TextInv` is the invariant of the two theorems about any messages: bad data is in front
while the flag is set (`BadKept`), and the worker was lost at the text in front of the
buffer or at the message that was pushed last (`LostAt`).  For `LostAt` the header loop
is followed over any data: it stands still only where a line starts, before the header
has ended, at keys that are empty up to a CR.

`ReadInv` adds that the buffer is exactly the part of the stream between the offset of
the first message not taken and the offset up to which was read (`InPlace`).  A step
then is: the buffer with what was read is again such a part (`RunsJoin`), and the loop
of `ProcessEventRead_` makes of it what `StreamTaken` says, which `TakenStream` shows
for the last message first and then for each before it.  One round is `MessageTaken`:
the data at the offset of a message agree with its text as far as they go
(`DataAgrees`), and on such data the parser answers by the kind of the message
(`WholeFound`, `HeaderlessFound`, `StrangeFound`), be the text cut where it may.
Below these are the header loop (`HeadersFound`, a line that has arrived, `LineFound`,
and one that was cut, `LineCut`) and the scans.

`OnlySentTaken` needs an invariant of its own, since `InPlace` ends with the first
dropped byte.  `Gapped` keeps what remains true: the buffer is the stream from some
offset to the one read up to, and the messages taken are some of those that lie
before it, in order (`InOrder`, `Behind`).  If the offset is where a message begins
the loop does what `TakenStream` says; if it is inside one, the buffer begins with a
token that names no method, and the parser throws or waits but takes nothing
(`NothingTaken`), so that nothing is taken again until an empty read has
moved the offset to a boundary.  This is where `MethodsLead` is needed: content that
contains `GET ` can be read as a request.  An empty read moves the offset to where
the stream was read to (`GapDrops`).

The library's induction theorems are out of reach, because they take an
operator as a parameter.  What is needed of them is derived in `Least` and `Induct`
from the fact that the order of the naturals is well-founded, for sets of numbers.
That a loop written as a recursive function satisfies its equation is shown by
building the function from the end of the data backwards, which works since each
round moves (`LineMoves`, `TakeMoves`); a round that did not would be one of
the endless loops that the outcomes "hangs" and "repeats" keep apart.

### Only model-checked

The liveness properties (`ClosingIsDestroyed`, `RequestTaken`, `CloseAsked`,
`StopEndsProcess`), since fairness is out of the prover's reach.  Every other property
of a run that passes is stated by a theorem.

## 8. Not modelled

* What hands over to the system or to the C++ library unchanged: socket options,
  the listing of local addresses, `localtime`, `strftime`, `strtof`, `snprintf` of
  fractions, file operations, random numbers, exceptions, the wrappers of
  containers and pointers.
* `threads::Condition`: all waits of the library are timed and each condition has
  one thread that waits, so a lost wake-up costs a delay and no more.
  `Thread::Detach` is called nowhere.
* The copy of a message into text and the accessors of messages and counters.
* The memory model beyond the order of stores named in section 3.
