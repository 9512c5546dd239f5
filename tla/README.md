# TessesFramework in TLA+

A verification project for TessesFramework, a C++ library with threads and
pools, an event loop with timers, streams, an HTTP/1.1 server and client with
WebSockets, virtual filesystems, a BitTorrent stream and a set of parsers. The
modules model the parts of the library in which several threads, two ends of a
connection, or long sequences of calls meet. TLC checks them on small instances,
and TLAPS proves their invariants for instances of every size.

Paths below are relative to the repository (`src/src/...` is the implementation,
`src/include/...` the headers). `PROJECT.json` holds, in machine-readable form,
the components, the runs, the lines each definition models, the hazards, the
findings, a faulty variant of the model for every property, and the theorems.

Contents: 1. The system. 2. Modules. 3. Runs. 4. Fairness. 5. Proofs.
6. Findings. 7. What is not modelled. 8. How the project grew, and its limits.


## 1. The system

### Threads and scheduling

| component | state | operations | correct when |
|---|---|---|---|
| **Mutex, condition variable** (`Threading/Mutex.cpp`) | an OS object | lock, unlock, wait, timed wait | taken as given |
| **Thread** (`Threading/Thread.cpp`) | `fn` and `hasInvoked` in memory the object owns, read by the new thread | constructor, Detach, Join, destructor | the thread calls its own function once and does not read the object's memory after the constructor returned |
| **ThreadPool** (`Threading/ThreadPool.cpp`) | queue of callbacks, `isRunning`, workers | Schedule, worker loop, destructor | every callback scheduled before the close is called exactly once, in order of scheduling; the destructor returns, unless callbacks reschedule without end, and leaves nobody behind |
| **Event loop, timers** (`TF_Init.cpp`) | `invokings`, two flags, list of weak timer handles | TF_Invoke, TF_Quit, TF_SetIsRunning, signal handler, TF_RunEventLoop, TF_Timer and its setters | invocations run in order; stop requests stop the loop; timers fire while they are on and not when they are off |

### HTTP

| component | state | operations | correct when |
|---|---|---|---|
| **HttpStream** (`Http/HttpStream.cpp`) | framing, chunk size, offset, position, `done` | Read, Write, Close, destructor, on both ends | the reader gets what was written, in order, and can tell a whole body from a shortened one |
| **HttpServer, accepting** (`Http/HttpServer.cpp`, `Streams/NetworkStream.cpp`) | listening socket, accepting thread, one detached thread per connection | StartAccepting, destructor | every connection is taken up; the destructor returns |
| **ServerContext and Process** (`Http/HttpServer.cpp`) | status, headers, `sent`, queue of header interceptors | Process, WriteHeaders, Send..., OpenResponseStream | one head per request, first; a body framed as the head says; an answer to every request |
| **WebSocket sessions** (`Http/HttpServer.cpp`, `Http/HttpClient.cpp`) | stream, mutex, `hasInit`, `closed`, two threads per end | Start, send, ping, close | messages arrive whole and in order; a close ends both ends |
| **Server-sent events** (`Http/HttpServer.cpp`) | list of streams under a mutex | SendEvent, SendServerSentEvents | whoever is registered gets every event once and in order; handlers leave when their client is gone |
| **HTTP client** (`Http/HttpClient.cpp`) | request and response | redirect loop, download, connection set-up | a response is of one server; a download that returns is whole, as far as the framing can tell; what the head announces is sent |
| **Composed servers** (Mountable, Changeable, Route, Callback, Domain, BasicAuth) | tables of servers, some under a mutex | Mount, Unmount, SetServer, Handle | a request runs in the server that was mounted for it, with its path as it came |
| **Reverse proxy** (`Http/HttpReverseProxy.cpp`) | two streams, two copying threads | StreamExchange | not modelled: its upgraded connections cannot be reached (section 7) |
| **File and CGI servers, HTTP utilities** | none over time | listings, child processes, parsing, formatting | not modelled |

### Data and platform

| component | state | status |
|---|---|---|
| **Streams** (`Streams/*.cpp`) | buffers and positions | `TcpServer` is part of HttpServer; lost connections are part of HttpStream and WebSocket; file streams are part of TorrentStream; otherwise not modelled |
| **Mountable filesystem** (`Filesystem/MountableFilesystem.cpp`, `VFS.cpp`) | tree of mounts over other file systems | modelled, but for attributes, locks and reading of links: a file system is found where it was mounted until it is unmounted, listings are complete, what a mount hides is left alone |
| **Other filesystems** (`Filesystem/*.cpp`) | temporary directories, prefixes | not modelled; `LocalFS` is operating system calls |
| **BitTorrent** (`BitTorrent/*.cpp`) | files and the blocks laid over them, a mutex for each file | `TorrentStream` is modelled: a byte is where its offset says, what was written is read back, mutexes are given back; what was written stays (it does not, finding 4) |
| **Lazy** (`include/TessesFramework/Lazy.hpp`) | value, `hasInit`, mutex | modelled: one value is made, however many threads ask for it, and it is freed |
| **Dates** (`Date/Date.cpp`), **Serialization** | values | not modelled: sequential conversions |
| **Text streams, text and console, processes, environment, mail, cryptography, other utilities** | values, or wrappers of system calls | not modelled |
| **Vendored code** (SQLite, date, icubaby, platform_folders) | | not modelled |

### How the parts interact

* `HttpServer::StartAccepting` starts a `Thread` that accepts and, per
  connection, another `Thread` that is detached and destroyed at once: that is
  the pattern `ThreadStart` models, and the reason the handshake matters.
* The detached thread calls `HttpServer::Process`, which builds a
  `ServerContext`, calls the application's handler through `IHttpServer::Handle`,
  and turns exceptions into error pages. The handler may open an `HttpStream`
  on the same connection, hand the connection to a `WSServer`, or stay in
  `SendServerSentEvents` until the client is gone.
* The handler is often a `ChangeableServer` or a `MountableServer`, which look
  the server for the request up under a mutex and run it after the mutex was
  released, while other threads mount and unmount.
* The client's `HttpResponse` writes a request, reads a head, follows
  redirects, and reads the body through `HttpStream`.
* `WSServer` runs the application's `OnOpen` on one thread while `Start` reads
  frames on another; both write to the connection.
* `TF_IsRunning` is cleared by the event loop, by `TF_Quit` and (through
  `isRunningSig`) by a signal, and set either way by `TF_SetIsRunning`; the
  accepting thread asks it before and after every `accept`.
* Timer callbacks and invocations run on the thread of the event loop, outside
  all locks, and may call any of the operations above.

### What is hard here

Threads that share an object whose owner may destroy it; callbacks called after
the lock under which they were chosen was released; copies of shared state that
are used after the state has changed; connections that deliver a part of what
was asked for, or end anywhere; two ends that close at the same time;
destructors that wait for somebody else; handlers that send in any order, or
throw half-way. The list "hazards" of `PROJECT.json` names each with its line
and the properties that would catch it, or says why none does.


## 2. Modules

Conventions. A critical section that does not block is one action. Whatever the
code does outside its locks is a step of its own. An action stands for the whole
handler, or for the whole of it between two points at which it can block.
Variables called history record what happened, for the properties only, and no
guard reads them except to give every invocation or callback its own identity.
Under the heading "Faulty forms" every module keeps variants of its actions
with a plausible mistake in them; no specification uses them, but for each
property there is one that violates it.

### TaskQueue and ThreadPool

`TaskQueue` is the promise: submit, begin the oldest, end, and close only when
nothing waits. It has no threads, no lock and no destructor. `ThreadPool` is the
code. `callbacks`, `isRunning` and each worker's local `fn` are variables;
`threads`, `pc`, `dtor` and `joined` say how far the constructor, the workers
and the destructor have come.

| code | action |
|---|---|
| constructor's loop over `new Thread` | `StartThread(i)`: worker 0 may be looping before worker 1 exists |
| `Schedule` from a client, from a callback | `Schedule(t)`, `ScheduleFromCallback(i, t)`, both with `Push` |
| worker: locked part with work / closed | `Take(i)` / `Exit(i)` |
| `if (fn) fn(i)` | `Call(i)` ... `Return(i)`, or `SkipNull(i)` |
| destructor: locked part that finds the queue empty | `CloseEmpty` |
| `item->Join(); delete item` | `Join`, then `DestroyReturn` |

A worker that finds nothing to do and a destructor that finds something left
both unlock and look again, which changes nothing and is a stuttering step.
Callbacks run at any length and may schedule others and themselves, again and
again, also while the destructor waits; a callback scheduled after the close is
never run (`late`). `Tasks` names the rounds of callbacks that are not over: when
a round has ended its name may stand for another (`NextRound`), so the number of
callbacks is not bounded, and the histories forget a round when its name is
taken again. Callbacks that reschedule for ever keep the first loop of the
destructor (`ThreadPool.cpp:80-88`) spinning, and `DestroyEnds` says so: it
promises an end once running callbacks schedule no more.

The refinement maps `running` to the callbacks that workers hold, and `ended` to
those that were taken and are no longer held. `ThreadPool` implements
`TaskQueue`, with its liveness: what is submitted to an open pool begins, what
begins ends.

### ThreadStart

The handshake of the `Thread` constructor with the thread it creates. All
objects of the owner use one memory cell in turn, which is what an allocator
does with objects that are created and destroyed in a loop. `Allocate`, `Create`
(which may fail: the result of `pthread_create` is not looked at) and
`ConstructorReturns` are the owner's steps, `DetachAndDestroy` and
`JoinAndDestroy` what it does next; `CopyFn`, `Signal`, `CallFn` and `FnReturns`
are the new thread's. `called` sums the functions that each thread called, so a
second call or a call of another object's function changes it.

### EventLoop

`TF_Quit` clears `isRunning`, `TF_SetIsRunning` sets it to whatever its caller
likes, so a quit may be undone before the loop looks; a signal clears the other
flag, which the loop copies in every round. `StopEndsLoop` says what each of the
two promises then.

The loop is one thread that goes through `check`, `copy`, `invoke`, `collect`,
`call` and back. Everybody else (other threads, and the callbacks the loop
calls) may take any action of `Others` at any time. `TF_Timer` is four critical
sections (`Make`, `BuildCallback`, `BuildInterval`, `SetEnabled`) between which
the loop may run; the interval and the enabled flag of a new handle are
uninitialised in the code and arbitrary here. Handles expire when the last
`shared_ptr` goes (`Release`), and `Collect` erases expired ones.

Time is relative: a timer has an age, the time since it was last due, and ages
stop at `MaxAge`, beyond which no interval tells them apart. `lag` is the time
that passes between the reading of the clock in `Update` and its critical
section.

`invokings` is copied by the loop and never emptied (`CopyInvokings`), as in the
code: every invocation runs again in every round. No text in the repository says
that an invocation runs once, so this is a hazard and not a finding.
`InvokeOrder` speaks of the first run of each invocation.

### HttpStream

Both ends of a message body over one connection. The connection is a sequence
of tokens (a byte of the body, a chunk's size line, an empty line). `Write`
follows the three branches of the code; with a Content-Length or with none in
HTTP/1.0 the connection may take a part of what it is given, a chunk is written
whole. `Close` and the destructor both write the final chunk, once. A call of
`Read` is several steps (`ReadCall`, then `ReadBody`, `ReadChunk`, `ReadFirst`,
`ReadSizeLine`, `ReadEmptySize`, `SkipLine`, `ReadNothing`), because each read
of the connection blocks, and may return less than it was asked for. The
connection may be closed after the message or lost at any moment, with any part
of what is on its way. `ReadLine` returns an empty line when the connection is
over, which is why an end and an empty line are the same in `ReadEmptySize` and
`SkipLine`.

### HttpServer

The accepting thread (`check`, `call`, `accept`, `got`), the object (`built`,
`accepting`, `closed`, `connected`, `gone`) and what became of each connection.
`valid` is the descriptor as the class sees it, `listening` the socket as the
operating system does: a socket closed while a thread is inside `accept` goes on
taking connections until that `accept` is over. `reachable` says whether
`TF_ConnectToSelf`, which connects to 127.0.0.1 and the port, leads to this
socket; it does not for a Unix socket or one bound to another address.
`AcceptFails` is `accept` failing for want of descriptors or because the client
went away. `Stop` and `GoOn` are what a signal, `TF_Quit` and `TF_SetIsRunning`
do to the flag the accepting thread asks.

### ServerContext

One request and a handler of up to `MaxCalls` operations. A `ServerContext` is a
record, an operation a function from the record before a call to the record
after it, so that operations can be composed as the code composes them:
`SendStream` calls `OpenResponseStream`, which calls `WriteHeaders`, which calls
the interceptors, and each of them may throw (`threw`). A request is a record of
what `Process` tells apart: the request line, a malformed header, the method and
version, the kind of range, repeated headers, the kind of body. What goes to the
connection is a sequence of tokens, the head with its status, Content-Length and
Transfer-Encoding, pieces of the body with the byte they begin at, the final
chunk. An interceptor passes, stops the loop over the interceptors, changes the
status, answers the request itself, or throws. One that answers calls `SendText`,
whose `WriteHeaders` runs the same loop over the rest of the queue inside the
one it was called from; `CallInterceptors` counts the loops that have not ended,
calls an interceptor (`CallNext`) or ends the innermost loop (`EndLoop`, which
writes the head if there is none and then the text of the answer), after which
the loop around it goes on. So when one interceptor answers and a later one
stops the loop inside, the ones behind it run after the head, and what they
change comes too late. No text of the repository says that this must not be;
`InterceptorsInOrder` says that it happens in no other way.

A suffix range (`bytes=-N`) asks for the last N bytes. The code reads it as the
bytes 0 to N (`HttpServer.cpp:834-840`), and so does the model (`Begin`).
`PartialIsExact` holds such an answer only to what it announces itself; what was
asked for (`AskedFor`) it compares for the ranges that give their first byte.
That suffix ranges are served wrongly is the code's behaviour, and not a finding
only because no comment, test or document of the repository says what they mean.

### WebSocket

A `WSServer` and a `WSClient` with two threads at each end. `start` is `Start`,
`open` is the application's `OnOpen`. An operation that sends takes the mutex
(`Acquire`), writes its frames one by one (`WriteFrame`) and releases it
(`Release`); pongs, echoes and the answer to a close go the same way, on the
thread of `Start`. A write to a peer that is gone may seem to succeed, or throws
with the mutex locked (`WriteThrows`). The server's `close` drops the stream
before it releases the mutex, and a thread that uses it afterwards ends the
process (`UseOfNull`). The head of the 101 answer travels like a frame, because
`ping` and `close` do not wait until it was sent. `Lose` ends the connection
with any part of the bytes on their way, a part of a frame included, which
`Start` then takes for the whole (`Torn`).

### ServerSentEvents

`SendEventRaw` writes an event to the streams of a list, with the list's mutex
held through all writes (`SendEventRaw`, `WriteEvent` for each stream,
`SendReturns`). `SendServerSentEvents` registers the response (`Register`),
polls for the end of the stream (`Poll`) and erases its entry (`Unregister`).
Clients go or stop reading at any moment. Nobody reads from the connection, so
its end is only seen after a write to it failed (`ended`), and is hidden for
ever while the `BufferedStream` above it holds bytes the client sent behind its
request (`ahead`).

### ComposedServers

A `ChangeableServer` in front of a `MountableServer`, with plain servers as
values. A request goes through the lookups (`GetServer`, `Route`, `RouteToRoot`)
and the answers (`PlainAnswers`, `MountedAnswers`, `RootAnswers`) in separate
steps, because the mutexes are released before the found server runs; owners
`Mount`, `Unmount` and `SetServer` in between. Only the newest mount that fits is
asked, then the root. `Mount` takes a string and `Unmount` looks for that very
string, although different strings can be the same path; mount points are
therefore pairs of text and path. `log` is history: the two tables at every
moment, against which `RightServer` compares what a request was given.

### HttpClient

`HttpResponse(HttpRequest&)` and `DownloadToStreamSimple`: a loop over
connections, with the head (`SendHead`), the body (`SendBody`), and the status
line and headers of the answer (`StatusLine`), which lead to another hop
(`Redirect`), to the body (`Accept`), or out of the constructor without a stream
(`NoConnection`, `NoStatusLine`, headers that are none). The server answers when
it likes, with any status line, headers, location and body, cut off anywhere,
but fairness only makes it answer once it has the body that was announced
(`Satisfied`). How a download ends depends on how the body was framed
(`Copied`), as in `HttpStream`: with a length, a body that breaks off throws;
chunked, it throws unless the connection was lost before the first size line,
which is taken for an empty body; without framing the end of the connection is
the end of the body, so a part of it is taken for the whole. Headers that were
cut may lack the length. `statusCode` is not initialised in the code and
arbitrary here, and a relative Location may crash.

### Lazy

Threads call `GetValue` and `HasInit`. The mutex is recursive and locked by
hand, so an initialiser that throws leaves it locked by its own thread, which
may try again while all others wait for ever; the model keeps that (`Unlocked`).
The value is read through the returned reference in a step of its own
(`UseReference`), after the mutex was released. `Destroy` frees it.

### TorrentStream

Blocks at offsets of a torrent, laid over files: `WriteBlockAt` is a loop over
the entries that the block touches (`Path`), for each of which a thread locks
the file, opens it, which empties it (`OpenForWriting`), writes its part
(`Segment`, `WriteSegment`) and unlocks. In a torrent of one file the stream is
closed, and its buffer written, after the mutex was released (`CloseStream`). A
file that cannot be opened throws at the first write, with its mutex locked
(`OpenFails`, `left`); a directory that cannot be made throws before the mutex is
taken (`DirectoryFails`).

Blocks may cross the end of the torrent, begin at it, or begin beyond it. In a
directory `Segment` cuts them at the end of the last entry. A single file cuts
them too (`ToWrite`) and returns at once when nothing is left (`WritePath`); but
when a block begins beyond the end the number of bytes left is negative, and as
a `size_t` near the maximum (`TorrentStream.cpp:47`). `WriteAstray` is what then
happens: the block goes behind the end of the file, then what lies behind the
caller's buffer (`Wild`), as much as can be written before the write throws, with
the mutex locked; where the process dies instead, this is its last step. A
reader of a single file asks it for any bytes, unclamped (`ReadSegment`).

`ReadBlockAt` takes no mutex, stops at a missing file and
leaves in the caller's buffer what a file does not have. Bytes are pairs of the
write they come from and their place in it, so that `Inv` can say where every
byte must be; `last` remembers a write that ran alone, which a later read must
give back.

### The composed instances

Components that keep no state in common share a run: `MCThreads` (ThreadStart,
Lazy, EventLoop), `MCServing` (HttpServer, ServerSentEvents, HttpClient),
`MCHandling` (ServerContext, ComposedServers, WebSocket) and `MCFiles`
(MountableFilesystem, TorrentStream). Each extends one of them and takes the
others as instances; the constants of these are constants of the composed
module too, with their assumptions, so that the theorems of section 5 are about
all their values. The variable `part` says in the initial state which component
moves (`Only`, `OfServer` and the like name its steps); the others stand still,
so the states are the sum of the components' states and not their product, and
nothing that one component does can hide a behaviour of another. The fairness
conditions of the components are joined per thread (a condition on the actions
of thread k of whichever component moves), which for the component that moves is
its own condition. `MCHandling` checks safety only and has none: `Stopped` lets a
session stand still, because a session may stop, while a context or a router
that stops anywhere but at its end is still reported as a deadlock.

### MountableFilesystem

One caller: the class has no lock. The tree of `MountableDirectory` objects is
the function `directories` from the path of each object to its `vfs`; the file
systems below are external, functions from paths to kinds of entries that behave
as `LocalFS` (remove, rename, create_directories and links of the operating
system), whose exceptions change nothing. `GetFS` is the walk to the deepest
object that has a file system, with the path that is left. `Mount` creates the
objects on the way, `Unmount` deletes objects as `myumount` does (`Pruned`). The
operations on files translate the path and pass it on; operations on two paths
do nothing between two file systems. `Listed` is what `EnumeratePaths` yields,
`DeleteDirectoryRecurse` follows the listings, through mounts, and may stop
half-way when a directory holds entries that a mount hides.

`mounts` and `excused` are history. `MountsKept`, a part of `Inv`, says that a
file system stays where it was mounted until it is unmounted, with one exception
the code makes: `Unmount` of a path below a mount deletes the object of the
mount too when it has no other objects below it, even when nothing was mounted
at that path. `Listings` says where a listing is exact, and that it is complete
everywhere; of an ordinary directory the code also lists the mounts of the level
the walk reached. `CreateSymlink` and `CreateHardlink` overwrite the name of the
link with the existing file; a hard link is therefore never created.


## 3. Runs

Safety and liveness of a module are checked in one run where that is quick
enough; those of `WebSocket` are in two. State counts are of distinct states.

| run | instance | states | shows |
|---|---|---|---|
| `MCThreadPool` | 3 workers, 4 callbacks, one of them empty | 55,951 | `FIFO`, `RunOnce`, `CloseDrains`, `DestroyedIsQuiet`; the destructor returns once callbacks schedule no more (`DestroyEnds`); the pool implements `TaskQueue` (`ImplementsTaskQueue`) |
| `MCThreads` | 3 `Thread` objects in turn; or 3 threads and 5 calls of a `Lazy`; or an event loop with 2 invocations and 1 timer with intervals 1 and 2 | 36,536 | `NoUseAfterFree`, `CallsOwnFunction`, `ConstructorEnds`; `OneValue`, `CallsReturn`; `InvokedRuns`, `StopEndsLoop`, `TimerKeepsFiring` |
| `MCEventLoop` | 2 invocations, 2 timers with interval 1, ages to 2 | 707,040 | `InvokeOrder`; in `Inv`: no timer disappears from the handler (`HandlesComplete`), at most one call after a timer was switched off or released (`OneCallAfterOff`) |
| `MCHttpStream` | lengths 0 and 3, chunked, until closed; writes of 1, 2, 4; reads of 1 to 3; 5 bytes | 18,373 | bytes in order, one final chunk (`Inv`); `CleanEndIsComplete` (a clean end is a whole body, and the errors for an incomplete one are justified), `ReadingEnds`, `WholeBodyArrives` |
| `MCHttpStreamChunkEnd` | chunked, writes and reads of 1 and 2, 3 bytes | | violation of `NoFinalChunkMeansClosed`, finding 1 |
| `MCServing` | 3 clients, 2 failures of accept; or 2 subscribers, 2 senders, 2 events; or every kind of body and 3 hops | 114,123 | every connection accounted for, nothing left behind (`Inv`), `RefusedOnlyAtEnd`, `NobodyWaitsForEver`, `DestructorEnds`; no event missed, twice or out of order (`EventsInv`), `NobodyHeldUp`; a response of one hop, downloads whole as far as their framing tells (`ClientInv`), `RequestEnds` |
| `MCHandling` | 21 requests, handlers of 3 calls, 5 kinds of interceptor, 6 sources; or 1 request, 3 mount points, 2 servers and a root, 3 changes; or the session of `MCWebSocket` | 1,022,124 | one head, first, and a body that fits it (`Inv`); `InterceptorsInOrder`, `Answered`, `PartialIsExact`; `RightServer`; messages whole and in order, nothing lost before a close (`SessionInv`) |
| `MCServerContextDuplicates` | the 21 requests | | violation of `DuplicatesRefused`, finding 2 |
| `MCWebSocket` | messages of 2 fragments, the server's OnOpen calls 1 operation and the client's 2, the server echoes | 712,404 | `SessionEnds`, under the fairness of the sessions alone |
| `MCWebSocketLoss` | messages of 1 fragment | | violation of `LossIsTold`, finding 3 |
| `MCFiles` | 2 names, paths of 2 names, 2 file systems to mount, 2 entries; or torrents of 1 and of 3 files, 2 writers, 2 writes of up to 2 bytes, beginning up to 1 byte behind the end, 1 failure | 713,354 | mounts form a tree that ends in file systems and stay until unmounted (`Inv`), `Listings`, `HiddenUntouched`; `BlocksInPlace`, `LocksGivenBack` |
| `MCTorrentStreamTruncates` | the two torrents, 1 writer, 2 writes | | violation of `WrittenStays`, finding 4 |

Why these bounds are enough to meet the interesting cases:

* *ThreadPool.* Three workers let one pop, one run and one leave at a time; four
  callbacks let a callback scheduled by a callback meet one that a client
  scheduled, one that is empty, and one that comes after the close, and each name
  may be used again without end, so a callback can keep the queue from being
  found empty. The theorems of section 5 drop both bounds.
* *ThreadStart.* With three objects a thread that is slow meets the memory of
  the next object and of the one after it. Proved for any number.
* *EventLoop.* Two invocations are needed for an order, two timers for the
  erasing walk over the handles. Starving an interval needs one timer and an
  interval that is longer than a round, which is why `MCThreads` has
  intervals of 1 and 2 and one timer. Ages beyond `MaxAge` are all due.
* *HttpStream.* Writes of 1, 2 and 4 bytes and reads of 1 to 3 put the end of a
  chunk before, at and after the end of the buffer, and the end of a body of
  length 3 before and after the end of a write; two chunks need three bytes, and
  five let a read of three begin in each of their places.
* *HttpServer.* Three clients: one in the accepting thread's hand, one in the
  backlog and one that is being processed. Two failures of accept: one before
  and one after the stop.
* *ServerContext.* Three calls let a handler set something, send, and send
  again. Sources of 4 bytes have a beginning, a middle and an end for ranges;
  the ranges of the requests reach each bound from both sides.
* *WebSocket.* Two fragments let another frame try to get between them; two
  operations of the client are a message or ping before a close; one operation
  of the server is enough for the two closes to cross. The echo adds a third
  sender. A third operation adds states and no new pair of senders.
* *Lazy.* Three threads: one in the initialiser, one that waits for it, one that
  asks `HasInit`; five calls let a thread fail, try again and use the value.
  Proved for any number.
* *ServerSentEvents.* Two subscribers let one be written to while the other
  registers or leaves, two senders let one wait for the other, two events make
  an order.
* *HttpClient.* The third hop meets what the first two left: a stream at its
  end, headers and a status of a redirect.
* *ComposedServers.* One request, because requests share nothing but the tables,
  which three changes turn over between its lookup and its return; the mount
  points include a path twice, as two strings, and a path below it.
* *TorrentStream.* A file of two bytes has a block at its end and one at its
  beginning; files of 1, 0 and 1 bytes have a block across a boundary, one that
  only touches it, and an empty entry. Two writers cross on the same files. Blocks
  of two bytes that begin at the last byte, at the end, and one byte behind it
  are cut, dropped, and written astray; one byte from behind the buffer
  (`MaxStray`) and two tell the same apart.
* *MountableFilesystem.* Two file systems let one be mounted below the other and
  on top of the other; paths of two names are enough for a mount below a mount,
  beside a mount, and below a directory that has none. Two entries are a
  directory and what it holds, which a mount can hide. File systems keep their
  entries while they are not mounted, so one filled at one place appears at
  another. Names and file systems are interchangeable, and TLC uses that.

`CHECK_DEADLOCK FALSE` stands in three runs, whose systems really may stop. In
`MCThreads` a thread of a `Lazy` waits for ever for the mutex after an
initialiser threw in another, a `Thread` constructor waits for ever for a thread
that could not be created, and the objects are destroyed in the end. In
`MCServing` a server whose own connection does not reach it hangs in its
destructor, and a client waits for an answer that need not come. In
`MCWebSocket` an end may wait for ever for the mutex a failed write left locked.
The other modules have an explicit final stuttering step, or go on for ever, and
any other stop would be reported.


## 4. Fairness

* A thread that can go on goes on: weak fairness of each worker, of the
  destructor of the pool, of the started threads, of the event loop, of the
  accepting thread, of `Start`, of a sending operation that `OnOpen` has begun,
  of a call of a `Lazy`, of the handlers and senders of events, and of the
  client of a request. These are OS threads; none of them runs at a priority.
* A thread that asks for a mutex in a loop gets it. The critical sections are
  short and do not block; the loops of the pool ask over and over. In
  `WebSocket` no fairness beyond weak is assumed: the number of sending
  operations is finite, so the mutex is free for good at some point.
* Callbacks, handlers, initialisers and `OnReceive` return. Where they need not,
  they have no fairness: `Processed` (a request may take for ever and nobody
  else may wait for it), `OpenCalls` and the return of `OnOpen`, every action of
  `Others` in the event loop.
* Of the other end of a connection nothing is assumed, but that `HttpStream`'s
  writer is destroyed in the end, as the destructor of a local object is, and
  that a server that has the whole request answers or breaks off. Clients of
  events need not read: `NobodyHeldUp` says what then happens.
* Nobody has to stop, close, destroy or schedule anything.


## 5. Proofs

Every invariant a run checks is also a theorem, for every value of the
constants. The theorems are in seven modules that extend the model, or the
composed instance, they are about; `QueueLemmas` has what several of them need:
facts about sequences as queues and histories, about sets of numbers
(`Least`, `Greatest`, `Interval`), induction over a set of numbers
(`SetInduction`) and the existence of functions that recur (`Recursion`). The
prover cannot use an induction rule whose parameter is a formula; what needs one
(that the parts of a torrent cover a range, how much of a body a sequence of
pieces holds) is proved by naming the set of the numbers for which it holds and
showing that no number is the least outside it. Together the proofs are about
18,000 obligations; `HandlingProofs` and `FilesProofs` take up to ten minutes, the
others less than five.

All theorems are about safety; none uses fairness. Of the composed instances the
theorems speak through their `PartsSpec`, of which the part that a component
does not run leaves its variables alone. Assumptions on constants are the
`ASSUME`s of the modules, which TLC evaluates in every run: that values such as
`None` are not members of the sets they stand outside of, and that bounds,
lengths and sizes are numbers. The page an error makes has at least one byte
(`PageSize`), and of the two ends of a WebSocket not both echo, since two that do
answer each other for ever.

| module | theorems |
|---|---|
| `ThreadPoolProofs` | `TypeCorrect`, `FIFOCorrect`, `RunOnceCorrect`, `CloseDrainsCorrect`, `DestroyedIsQuietCorrect`, `NothingBeginsAfterCloseCorrect`, `Refinement` |
| `ThreadsProofs` | `TypeCorrect`, `NoUseAfterFreeCorrect`, `CallsOwnFunctionCorrect` (ThreadStart); `OneValueCorrect` (Lazy) |
| `EventLoopProofs` | `InvokeOrderCorrect`, `TimersCorrect` |
| `HttpStreamProofs` | `InvCorrect`, `CleanEndCorrect` |
| `ServingProofs` | `InvCorrect`, `RefusedOnlyAtEndCorrect` (HttpServer); `EventsCorrect`; `ClientCorrect` |
| `HandlingProofs` | `ContextCorrect`, `InterceptorsInOrderCorrect`, `AnsweredCorrect`, `PartialIsExactCorrect` (ServerContext); `RightServerCorrect` (ComposedServers); `SessionCorrect` (WebSocket) |
| `FilesProofs` | `MountsCorrect`, `ListingsCorrect`, `HiddenUntouchedCorrect` (MountableFilesystem); `LocksGivenBackCorrect`, `BlocksInPlaceCorrect` (TorrentStream) |

Few of these properties are inductive as they stand. What each proof adds is
what follows.

### ThreadPool, for every `NumThreads` and every set of callbacks

`FIFO` is inductive with the types. `RunOnce` is not: that a worker does not pop
what another already holds needs to know that no callback was pushed twice, and
that whatever a worker holds or has finished was taken from the queue before
(`Whereabouts`, which also says that everything taken is finished, held by a
worker, or empty). `CloseDrains` needs to know which values of `isRunning`,
`dtor`, `threads` and `pc` go together, and that nothing is late before the
close (`Phases`). `DestroyedIsQuiet` needs `JoinedAreDone`, that the workers
below `joined` have left, and `Whereabouts` once more. The inductive invariant
`IInv` is the conjunction of all of these.

`Refinement` says that the safety part of `TaskQueue` is implemented: initial
states map to initial states, every step to a step or a stutter.
`NothingBeginsAfterClose` (no step pops from a closed pool or opens it again) is
proved, and follows in the checked instance from the refinement.

### ThreadStart, for every number of objects

The inductive invariant is `TypeOK`, `CallsOwnFunction` and `Handshake`, which
says where the threads are for each state of the owner: threads of earlier
objects are past the handshake, threads of later ones do not exist, the cell
belongs to the current object while the owner is in the constructor, and
`hasInvoked` is true there exactly when the current thread is past the
handshake. Without the last part an owner that sees a flag left over from an
earlier object could not be excluded.

### Lazy, for every set of threads and every bound on the calls

That only one initialiser runs rests on who holds the mutex (`Held`), and on it
being held from the check of `hasInit` to its assignment (`Made`, `Seen`).

### EventLoop, for every number of invocations, timers and intervals

`InvokeOrderCorrect`: the queue is never emptied, so it is the history of
`TF_Invoke` (`QueueIsHistory`); what ran first is a beginning of it
(`RanFirst`); and the copy the loop runs is a window of it that never starts
past what ran (`Window`). Without the window a copy could skip an invocation.

`TimersCorrect`: the list of handles has every held timer exactly once
(`Handles`), through the erasing walk too; and a timer that the loop will still
call in this round has not been called since it was switched off or released
(`Calls`), so the call it is owed is the only one it can get.

### HttpStream, for every framing, size of writes and reads, and cut

The invariant marks every place between two tokens on the connection with the
number of bytes of the body before it (`Marks`): the marks start at what the
reader has and end at what the writer sent, or before it when the connection was
lost. A size line promises no more than was sent (`Promised`), an empty line
stands behind a chunk or behind the final line (`Lines`), the final line is last
(`FinalLast`) and, unless it was lost, still to be read (`FinalThere`). One
lemma for each change of the connection (tokens taken from its head, a part
kept, a chunk, raw bytes or the final chunk appended) says what it does to the
marks, and one for each action what it does to the rest. `IncompleteMeansClosed`
is part of `CleanEndIsComplete`: of the exceptions that say so, each implies a
connection that is over; the one that does not is finding 1.

### HttpServer, server-sent events and the client

*HttpServer, for every set of clients and any number of failures.* The
accounting of connections needs that the backlog and the accepting thread's hand
never share a connection (`OnePlace`, `InHand`), that the server's own
connection is only there after the destructor made it (`SelfLate`), and
`Closing`: which phases of the owner and the acceptor go together, and that a
closed socket listens only while somebody is inside `accept`. From the last part
follows that nothing waits when the object is gone.

*Events, for any subscribers, senders and number of events.* What a registered
client has been written is what was sent since it was registered, but for the
event that the holder of the mutex is writing: of that one, the clients still in
`rest` lack it and the others have it. The list is what the handlers made it
because it changes only under the same mutex.

*Client, for any number of redirects.* What is in the response (status, headers,
stream) is tied to the hop it came from, and what the head announced to what was
written, for each point the constructor can be at; what a download delivers is
tied to the framing of the answer and to where it broke off.

### ServerContext, for all requests, sources and interceptors and handlers of any length

`ContextIInv` says of the context between two calls that its wire is empty or a
head and a body that fits it, and of an open stream how many bytes of that body
are its own. The operations call each other, so there is a lemma for each that
says what it makes of any context from which a response can start (`Startable`),
and the lemma of `SendStream` uses that of `OpenResponseStream`, and so on down
to the interceptors. Of their loops, `Looping` says what holds between two steps
for any number of loops that have not ended, `LoopSteps` that each step keeps it
and lessens a weight (twice the queue and the open loops), so that the steps
`CallInterceptors` allows are enough for all loops to end.
`InterceptorsInOrder`, `Answered` and `PartialIsExact` follow from the same
invariant; the last needs what the parsing of the range leaves for each kind of
range and every size of the source.

### ComposedServers, for any number of requests, mounts and changes

`RouterIInv` keeps, for each request, that the log has an entry since it came in
which the server it was given was the right one (the newest mount that fits, or
the one in front), and that a request that was not given to a mount has its path
as it came. The log ends with the tables as they are (`LogIsNow`), so what a
request finds at a lookup is in it.

### WebSocket, for fragments, calls and echoes of any number

`SessionIInv` is the largest. Its centre is `Flow`: for each direction one can
go through the frames on their way, from the reader to the writer, and say of
each place between two frames how many messages (`D`) and how many parts of the
next (`I`) have gone by. The reader stands at the first place with what it has
received and put together; the writer at the last, with what it has still to
write (`ToWrite`); and each frame leads from one place to the next. A control
frame may be anywhere; a frame of a message only where the message is, which
holds because who writes has the mutex, and who has not has nothing left to
write. A loss cuts the way at any place, and a torn frame is only ever the last
(`CutOff`). Besides: the call that `Start` makes is there exactly while `Start`
is in it, and the head of the 101 answer comes before the server's frames while
the client connects.

The proof found a flaw of the model: two cases of `ReadData` (a first fragment,
and a fragment that continues nothing) overlapped, so that what a CASE means was
not determined. The cases are disjoint now, as the branches of the code are.

### TorrentStream, for every torrent, and writers, writes and failures of any number

The places of the entries are a recursive function of their lengths; that the
parts of a range cover what of it is in the torrent and do not overlap is proved
first (`PartsCover`, `PartInside`). `Right` says of each byte of a file that it
is at its offset, and, behind the end of the entry, that it is of a block that
began there (`Stray`), or came from behind such a block's buffer; `Got` says the
same of what a reader has. `TorrentIInv` says of a call that is under way which
entries it still goes to, so which it has left behind: a write that runs alone
has filled them (`Alone`), and a read that began after it has got their bytes
(`Reading`). `LocksGivenBack`: a thread that holds the mutex of a file has that
file open and no other, but for files a write to which threw. So who waits for a
mutex waits for a thread that waits for nobody, or for a failed one.

### MountableFilesystem, for any names, depth, number of file systems and entries

`MountsIInv` adds to `Inv` that the entries of every file system form a tree too
(`Trees`). What `GetFS` finds is the deepest object on the way that has a file
system (`Found`), and what a step adds or takes away is what `GetFS` found for
some path (`EntriesReached`): so nothing that a mount hides is reached, by
recursive deletion and by moving included. The attempt to prove an earlier
`HiddenUntouched` failed for a good reason: a directory that is moved over
another replaces what that one held. The property says so now.

### Model-checked only

All liveness properties and the fairness part of `ImplementsTaskQueue` (both
need temporal reasoning about ENABLED, which the prover does not do).


## 6. Findings

1. **HttpStream, `src/src/Http/HttpStream.cpp:118`** (`MCHttpStreamChunkEnd`).
   When one `Read` takes a size line and the whole chunk behind it, the empty
   line after the chunk is not skipped; the next `Read` takes it for a missing
   size line and throws "connection closed before final 0 chunk" on an open
   connection. `WholeBodyArrives` shows that without such a read (`taken`) the
   whole body arrives.
2. **Process, `src/src/Http/HttpServer.cpp:1136`** (`MCServerContextDuplicates`).
   Repeated headers are counted in a map from a name to the list of its values,
   so the count is never above 1, and the answer "There are multiple instances
   of the header" is never sent.
3. **WebSocket, `src/src/Http/HttpServer.cpp:318`** (`MCWebSocketLoss`). A
   connection that ends between two frames ends `Start` without a call of
   `OnClose`, although the example `wsecho.cpp` waits for `OnClose(false)`.
4. **TorrentStream, `src/src/BitTorrent/TorrentStream.cpp:140`** and `:53`
   (`MCTorrentStreamTruncates`). Every `WriteBlockAt` opens its file with mode
   "wb", which empties it. `TorrentStream.hpp` calls the class "an abstract
   stream with explicit offset" (line 42) and the operation "Write a block at
   offset" (line 51); of two blocks written to one file only the second is left,
   behind a hole, and a block that only ends where a file begins empties that
   file too.


## 7. What is not modelled, and what the models leave out

* **ThreadPool.** A callback that throws ends the process. Callbacks that
  reschedule for ever are in the model, and the premise of `DestroyEnds` leaves
  them out, since the destructor then spins (`ThreadPool.cpp:80-88`).
  `NumThreads = 0` (which `hardware_concurrency()` may return,
  `ThreadPool.cpp:88`) is allowed by the theorems and not by `DestroyEnds`: such
  a pool never drains.
* **Lazy.** An initialiser that calls `GetValue` of its own object, which the
  recursive mutex would let in.
* **EventLoop.** Console and platform start-up in the same file. That the queue
  is never emptied (`TF_Init.cpp:267`) and that `TF_Timer` is several critical
  sections (`:175`) are in the model; no text says what should hold instead.
* **HttpStream.** A connection that goes on after a failed write (a send
  timeout) with a part of a chunk on it (`HttpStream.cpp:191`); reads by an
  application after an exception.
* **HttpServer.** The reuse of descriptor numbers: a `TcpServer` closed while
  another thread is about to call `accept` on its number.
* **ServerContext.** Form data, redirects and the calls that only read the
  request. `BodyFitsHead` leaves out handlers whose interceptors answer or throw
  (`HttpServer.cpp:1034`); the model has them. Suffix ranges are served from the
  start of the source, and `PartialIsExact` does not hold them to what was asked
  for (section 2).
* **ServerSentEvents.** The text of an event (fields, and the one newline it ends
  with).
* **HttpClient.** A download that returns need not have the whole body where the
  framing cannot tell (`SuccessIsWhole` lists the cases). TLS and Unix sockets,
  which are other ways to set a connection up; re-use of connections, which the
  code does not do.
* **ComposedServers.** `RouteServer`, `CallbackServer`, `DomainServer` and
  `BasicAuthServer` choose by the request alone and keep no state that changes
  while requests run.
* **WebSocket.** Masks, extended lengths and the check of `Sec-WebSocket-Accept`
  are data. Flow control, so a writer never waits for a reader. A connection
  that is lost without either end noticing. The session after a pong of the
  client, whose mask bit is set and whose mask is missing, was taken apart by
  the server (`garbled`). When `Start` throws it destroys the session while the
  thread of `OnOpen` may still be using it; the model stops that end there
  (`Leave`), and says nothing of what the thread then reads. Calls by the
  application after it called close. A frame written into the middle of the head
  of the 101 answer is taken as written before it.
* **MountableFilesystem.** Attributes, dates, locks, statistics and reading of
  links, which find the file system in the same way; `destRoot`, which only
  `ReadLink` uses. One file system is mounted at one place at a time.
* **TorrentStream.** File systems other than `LocalFS`; `TorrentFile`, which
  converts to and from Bencode. A seek or write that fails after the file was
  opened, but for the one that `WriteAstray` ends with. Blocks of more than 2 GB,
  whose part in a file a directory stream keeps in an `int`
  (`TorrentStream.cpp:134`).
* **Reverse proxy.** The exchange of an upgraded connection is never entered:
  `m_whitelistedupgrades` is never filled, and `WithWhitelistedUpgrade`, which
  would fill it, is declared and not defined. A model of it would be of code
  that no caller can run. What can run copies headers and one body, which are
  HttpStream and HttpClient.
* **Streams.** Each class wraps one system call or one buffer. What the other
  modules meet of them is in those modules: partial reads and writes, failed
  writes, `endOfStream`, the buffer that hides it. Left out: `NetworkStream`
  returning the number of bytes asked for (`NetworkStream.cpp:807`) is a hazard
  for `WriteBlock` with large buffers; `MemoryStream::Write` in the middle
  inserts; `BufferedStream` does not pass on `Shutdown` and timeouts.
* **Mutex and condition variable.** Taken for what the operating system makes of
  them. `Cond::Wait(TimeSpan)` drops the part of a second of its argument; no
  module of the library waits on a condition variable.
* **File and CGI servers, HTTP utilities, text streams, serialization,
  cryptography, dates, mail, console, processes.** Formatting, parsing and
  system calls: sequential, with results that depend on their input alone. What
  can go wrong in them is a matter of characters and bytes, which tests reach
  and which a model would have to repeat.
* **Vendored code** (SQLite, date, icubaby), which is most of the lines of the
  repository.


## 8. How the project grew, and its limits

Threads and pool came first, then the event loop, the two ends of a body, the
accepting server, requests, sessions and mounts; then what the plan had left of
code in which several parties meet: `Lazy`, blocks of a torrent, events,
composed servers, the client, and the proofs beyond those of the threads.

What could be added would be larger instances for the liveness properties, of
which `MCWebSocket` and `MCEventLoop` are near what TLC explores in a few
minutes. For safety the theorems cover what bounds could hide in every component
that is modelled, the action properties of the runs included.
