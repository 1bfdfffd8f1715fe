# MyNetWorkCode in TLA+

`src/lib` is an event-driven network library in C: event loops, one per thread,
a reactor over epoll, a pool of worker threads, growing buffers, TCP
connections and an HTTP server on top of them. The `chap-*` directories are
programs of a networking course. Some of them use the library (chap-27 to
chap-29), others are servers of their own, of which the threaded echo server of
chap-26 has the most interesting concurrency.

The modules here model the core of the library and the programs with state to go
wrong: servers on poll, select, epoll, processes and threads, a heartbeat, a half-close,
a message stream, a file server and UDP. TLC
checks them on small instances. TLAPS proves the safety properties of the event
loop, of the server's hand-over, of a connection with its buffers, of the HTTP parser, of the
chap-26 queue, of the heartbeat, the half-close and the message stream, of the arrays two
servers hand to `poll`, of what the servers send their clients and of what ends them, for every
value of the constants. `PROJECT.json` lists components, runs, mutants,
findings, hazards, theorems, and the source lines of every definition.

## 1. Inventory

### The library (`src/lib`)

| Component | State | Operations | Talks to |
|---|---|---|---|
| Event loop (`event_loop.c`) | mutex, `is_handle_pending`, list `pending_head..pending_tail`, socket pair, `channelMap`, owner thread | `event_loop_{add,remove,update}_channel_event`, `event_loop_handle_pending_channel`, `channel_event_activate`, `event_loop_wakeup`/`handleWakeup`, `event_loop_run` | any thread calls it; it calls the dispatcher and the channels' callbacks |
| Channel map (`channel_map.c`, `utils.c`) | `entries`, `nentries` | `map_init`, `map_make_space` (`map_clear` is never called) | the loop that owns it |
| epoll dispatcher (`epoll_dispatcher.c`) | the kernel's interest set, array of events | `add`, `del`, `update`, `dispatch` (`clear` is never called) | called by its loop, calls `channel_event_activate` |
| poll dispatcher (`poll_dispatcher.c`) | arrays of `pollfd` and channels | the same | its loop; chosen when `config.h` does not define `EPOLL_ENABLE` |
| Channel (`channel.c`) | descriptor, events, callbacks, data | enable and disable the write event | asks for an update |
| Thread pool (`thread_pool.c`, `event_loop_thread.c`) | per-thread mutex, condition, loop; round-robin position | `thread_pool_start`, `thread_pool_get_loop`, `event_loop_thread_start`/`_run` | creates the workers' loops |
| TCP server (`tcp_server.c`, `acceptor.c`) | acceptor, pool, data | `tcp_server_start`, `handle_connection_established` | gives a connection to a worker's loop |
| TCP connection (`tcp_connection.c`) | input and output buffer, channel | `handle_read`, `handle_write`, `handle_connection_closed`, `tcp_connection_send_data`/`_send_buffer`, `_shutdown` | buffers, channel, application callbacks |
| Buffer (`buffer.c`) | array, `readIndex`, `writeIndex`, `total_size` | `make_room`, `buffer_append*`, `buffer_socket_read`, `buffer_read_char`, `buffer_find_CRLF` | one connection |
| HTTP (`http_server.c`, `http_request.c`, `http_response.c`) | `httpRequest`: state, version, headers | `parse_http_request`, `http_onMessage`, `http_request_close_connection` | a connection's buffers, the application's `requestCallback` |
| Reading, client, address and log helpers | none | blocking reads, connect, formatting | - |

The behaviour that is hard to get right, and what has to hold:

- **Requests from other threads.** The acceptor's thread hands a connection to
  a worker's loop by appending to a list under a mutex and writing a byte to a
  socket. The worker walks that list under the same mutex after each batch of
  events. A callback run by the worker can make a request, and then walks the list *inside* the
  dispatch. Correct means: no request lost, doubled or reordered; the worker
  never sleeps in `epoll_wait` on requests; the assert on `is_handle_pending` holds; nobody
  deadlocks.
- **Map, epoll set and sockets change at different times.** The batch of events
  is taken before the callbacks that change the map; the dispatcher closes a
  descriptor on `EPOLLHUP` and tells nobody; the kernel gives the number to the
  next connection. `assert(fd == channel->fd)` reads through a map entry
  that must not be NULL, and `epoll_ctl` failures end the process.
- **Start-up.** Main must not use a loop a worker has not built yet, and its
  wait on a condition must neither miss the signal nor believe a spurious wakeup.
- **Buffers** are compacted in place, enlarged, and filled by `readv` into two
  arrays. No byte may be lost, doubled or swapped.
- **The parser** gets messages cut anywhere and must stand at a request's first byte
  each time it is called, with no header left over from the last one. It decides by two bytes,
  `": "`, where a request ends, and by its asserts whether the process goes on.

### The programs

- **chap-26/thread03.cpp, echo.h**: main pushes descriptors into a ring, a
  fixed set of threads pops and serves them. It has a mutex and one condition. No
  descriptor may be lost or served twice, no thread may sleep beside work.
- **chap-26/thread01.cpp, thread_hello.cpp**: a thread for each client, which
  reads the descriptor through the address of main's local variable;
  unsynchronised counters.
- **chap-21, pollserver.cpp**: one thread, blocking sockets, an array of `pollfd` that the
  scan over it changes.
- **chap-22, nonblockingserver.cpp**: one thread, `select`, a table of buffers indexed by
  descriptor and never cleared, so that a new client inherits what an old one left.
- **chap-23, epoll_server1 to 3**: edge- and level-triggered events. One `accept` for each
  edge, in server 1 one variable for the number of events and the result of `read`, and a
  `write` on a non-blocking socket whose short result is not looked at.
- **chap-25, fork01.cpp**: a child for each client, descriptors held by two processes, a
  SIGCHLD handler that may run between any two statements of the parent.
- **chap-12**: a heartbeat: probes and a timer on one side, delayed answers on
  the other.
- **chap-11**: half-close: answers that are still under way after `shutdown` or `close`.
- **chap-16 with read.c**: messages with a header in a stream that is cut anywhere.
- **mid-homework**: a server that runs `pwd`, `cd` and `ls` in its one directory.
- **chap-6, chap-14**: UDP requests and answers that are lost, copied or reordered, and a
  server that connects its socket to the first client it hears from.
- **chap-27 to chap-29**: echo servers on the library, with 0 or 4 workers.
- **chap-5, chap-7, chap-13, chap-15, chap-17, chap-18, chap-20, chap-30**:
  straight-line demonstrations of a system call.
- **src/headers**: an unfinished C++ port of the loop. Its dispatchers are stubs.

## 2. The modules

```
 PendingQueue  <-- refines --  EventLoop  <- MCEventLoop
      ^                            ^-- EventLoopProofs
      | INSTANCE Loop(i)
 ThreadPool <-- TcpServer  <- MCTcpServer
                   ^-- TcpServerProofs
 Buffer <-- TcpConnection <-- TcpConnectionProofs
 HttpServer <- MCHttpServer
      ^-- HttpServerProofs
 HandOff  <-- refines --  BlockQueue <-- BlockQueueProofs

 EchoService <-- refine -- PollServer, ForkServer, PollLoop
 Sockets <-- the same, EpollServer, SelectServer, ThreadServer
 Programs <- MCPrograms
    |  ^-- ServersProofs (poll, poll dispatcher, epoll; what ends a server; echo)
    |          ^-- StreamsProofs (heartbeat, half-close, message stream, file server, UDP)
    |                  ^-- ClientsProofs (threads, select; all of them together)
    | EXTENDS Heartbeat; INSTANCE: the servers above, HalfClose, MessageStream, FileServer,
    | Datagrams
```

**PendingQueue**: what a loop promises its users. Requests take effect one at a
time, in order, once; nothing but a request changes which channel a descriptor has.

**EventLoop**: one `struct event_loop`, its dispatcher, its owner thread and
any number of callers. A step is what a thread does between two points at which
another can interfere: taking the mutex; the assert, the append and the unlock;
the write of the wakeup byte; one element of the list; one event of the batch.
`pc[Owner]` and `ret` say where the owner is and where it returns to after the list, so the
nested walk from a callback is the same code reached from another place, as in the
source. `entries` and `nentries` are the map, `interest` what epoll polls,
`sock` what the kernel knows of each channel's socket, `batch` the events
not yet dispatched. `crash` records why the process died: the assert, `epoll_ctl`
failing (`error(1, ...)`), or a NULL entry. `FdOf` is a constant that may give one
descriptor to several channels, so `accept` may return any number that is not open.
An update request (type 3) is modelled where the only caller makes it, in TcpConnection.

**ThreadPool, TcpServer**: main starts the workers one by one (mutex and
condition for each, spurious wakeups included), then accepts connections and
gives each to the loop `thread_pool_get_loop` returns. A worker's loop is here
the queue of PendingQueue (`Loop(i)`) with its epoll set. EventLoop shows
that this is what a loop implements. `accept` may fail; main goes on with -1, as the
code does. `SetData` is an action of its own because the connection is in the worker's hands
before main gets to it.

**Buffer**: a `struct buffer` is a record and each function an operator that
returns the buffer it leaves behind, indices and dead bytes included.

**TcpConnection**: a connection in its loop's thread under an application that
echoes, at once or later, all or part of what it has. The kernel takes `room`
bytes. A write that takes nothing returns -1, which the code stores in a `size_t`:
the value is huge, the test `>= 0` holds, and one byte too many is copied, from
one byte before the data. `channel_write_event_enable` then casts the channel's
data, a `tcp_connection`, to an `event_loop`. What the mutex and the flag hold
in that memory depends on its layout, so blocking for ever and the failed
assert are both outcomes. `handle_write` cannot be reached and is not modelled. The client may
reset the connection at any time: a write then fails with ECONNRESET, which goes the way of every other -1
(the code's branch for it is never taken), or with EPIPE, whose SIGPIPE ends the process (`SendKills`).

**HttpServer**: the parser and `http_onMessage` on one connection. The client's bytes
are tokens: a line or a CRLF. A header line without `": "`, such as `Host:x`, is two tokens, its
first two bytes and the rest, because the code takes any line in which it finds no `": "` for the
last one of its request and skips two bytes of it (`ParseLastLine`): the parser then stops inside
the line, and what follows, a status line or not, is parsed as one. A
client sends well-formed requests, any number of them, and may
stop in the middle of one (`WellFormed`). A message ends after any token. A parser
that finds no CRLF goes round its loop for ever, which is a thread without an enabled step.
`crash` says what the process died of: the assert of `process_status_line`; the NULL string of an
HTTP/1.0 request without `Connection`; SIGPIPE, for a response after a shutdown; a response that the kernel does
not take whole (`flush`, see TcpConnection), which any response may be; or the allocator (`heap`). `overrun`
says that a terminator of method, url or version was written one byte behind its block, which
happens at every status line and hits the allocator's own data for some lengths. From then on it may
abort at any step.

**HandOff, BlockQueue**: the promise of a queue of descriptors, and the ring of
chap-26 with its mutex, its condition (spurious wakeups included), main and the
serving threads. An error on one client ends the process (`EchoFails`), as `error(1, ...)` does.
The descriptor is never closed, so a number is accepted once.

**Sockets**: the clients of the echo servers and the kernel's side of their
connections. A client sends byte by byte, half-closes, stops reading, or resets. A byte is
known by its sender, its place and whether it was rotated (`rot13`). `accept` gives
out the lowest free descriptor, so numbers come back. The servers extend this module and use
its `Accept`, `Close` and `Exchange`.

**PollServer, SelectServer, EpollServer, ForkServer, ThreadServer**: one module for
each server of chap-21, chap-22, chap-23, chap-25 and chap-26/thread01. A step is one
system call with the code up to the next one. Where the statement behind a call only stores its
result in the server's own array, as pollserver does after `accept` and clears after `close`, both
are one step: the only thread runs both, and nobody looks at the array between them. A server on a loop keeps the
state of its scan (`ready_number`, the batch, the descriptors still to look at), so that
clients act between its steps. `pc` says how a server ended: `dead` (it called `error`
or died of a signal), `wild` (it left an array). EpollServer has the edges that epoll has not reported
yet, and keeps `n` as the code does. A client in `Stallers` reads slowly: a write to it may take any
part of the chunk (`Taken`), epoll_server1 takes that for success, and the rest of the chunk is gone. A write of none (EAGAIN, EPIPE)
ends it. In ForkServer the handler is a step enabled between any two of
the parent, and SIGCHLD a flag, because signals do not queue. In ThreadServer the thread's
first step reads `fd`, whatever main has put there since.

**PollLoop**: `poll_dispatcher.c` under the loop of `event_loop.c` in a one-thread echo
server: callbacks add and delete slots of the array the scan is in. `pc = "past"` is the
element behind the array. A write that takes a part or none ends in the write event, as in TcpConnection.

**EchoService**: what an echo server promises. Each client is sent the answer to its own
text, in order, nothing twice, nothing before the byte that it answers.

**Heartbeat**: `pingclient.cpp` and `pingserver.cpp` with a clock of ticks. `select`
leaves the rest of its time-out in `tv`, and only `tv_sec` is set again. A line on stdin is never
read, keeps `select` from timing out and so switches the probes off for good.

**HalfClose**: `graceclient.cpp` and `graceserver.cpp`. `fgets` takes lines from descriptor 0 into
stdin's buffer, where `select` does not see them. A `close` with unread answers, or an
answer to a closed socket, resets the connection.

**MessageStream**: `streamclient`, `streamserver`, `readn` and `read_message`. The
network delivers any part of what was written.

**FileServer**: the commands of a client arrive one by one or several in one read, since
the client cuts off the newlines. The directory belongs to the server's process. `pwd_cmd` returns
the address of a local array: the answer to `pwd` is the path or whatever else stands there by then.

**Datagrams**: both UDP servers and their clients. A bag of datagrams in flight, losses,
copies and any order; a connected socket gets ECONNREFUSED. `message` is an array
with its terminator, because the loop of chap-14 does not write one.

**Programs**: a behaviour is that of one program, chosen in `Init`. Its state space is the sum
of theirs, and a program's variables stay as they are while another runs (`Idle`). MCPrograms gives the texts,
scripts and streams of a small instance.

## 3. The runs

| Run | Instance | What it shows |
|---|---|---|
| EventLoop | owner, 2 callers, 4 connections; or owner with a listening socket, 3 connections, no callers | the list is protected (`MutexProtectsList`), wakeups are not lost (`NoLostWakeup`) and their byte is there (`WakeupHasByte`), the process survives (`NoCrash`), map and epoll set agree (`EpollMatchesMap`), only an end of file takes a channel out (`OnlyClosedLeave`), callers return (`CallersReturn`), a callback that makes a request handles the list from inside the dispatch and comes back (`LoopComesBack`), the loop implements PendingQueue with its liveness (`ImplementsQueue`) |
| EventLoopReuse | the same | finding: a stale map entry hides a new connection |
| TcpServer | 2 workers, 4 connections | loops are ready when used, start-up ends, no descriptor is polled twice, events reach the right connection on its own loop, connections are balanced and reach their map |
| TcpServerData | as TcpServer | finding: a message can be dispatched before `data` is set |
| BlockQueue | 2 threads, ring of 3, 5 clients, at most 2 waiting | no descriptor is lost (`NoDescriptorLost`), order and once-only (`ImplementsHandOff`), nobody sleeps beside work (`NoSleeperBesideWork`), a client waits only while all threads are taken (`FreeThreadServes`) |
| BlockQueueFull | the same, 3 waiting | finding: a full ring looks empty |
| HttpServer | streams of up to 3 requests of 7 shapes, or up to 2 with 3 more that have a header line without `": "`, single requests cut short, messages cut everywhere | until such a line comes the parser stays in step (`ParserInStep`) and closes when and only when asked (`CloseHonoured`; the first Connection header counts); a callback answers the first whole request it finds (`NextRequestAnswered`); what a client has to send for each way the process dies (`CrashCauses`) |
| HttpServerPartial | the same | finding: a partial request holds the thread for ever |
| HttpServerPipelined | the same | finding: the second request of a message is not answered until more bytes come |
| TcpConnection | buffer of 3, 4 bytes of room, 9 bytes, a reset at any time | every byte is in one place and in order, indices stay in their arrays |
| TcpConnectionFlush | the same, 5 bytes | finding: after a short write the rest is never sent, although the client reads on |
| Programs | 13 programs, see below | clients are kept apart (`EchoImplemented`, `ClientsKeptApart`) and answered (`Answered`), tables and scans agree (`TablesMatch`), nobody but the listed clients ends a server (`OrderlyClientsHarmless`), children are reaped (`ZombiesReaped`), heartbeat, half-close and message stream keep what they promise (`NoFalseAlarm`, `SilenceBounded`, `ShutdownGetsAnswers`, `MessagesWhole`) |

The properties of *Programs* say what the code does achieve, and name the cases where it does not.

- `EchoImplemented` is the refinement of EchoService by pollserver, fork01 and
  the poll dispatcher's loop. fork01 answers no more than the start of a long line; its
  answer is defined so. epoll_server1 does not implement EchoService: a client that reads slowly
  finds gaps in its answer.
- `ClientsKeptApart` is what remains where clients are mixed up: in chap-22 a client's own
  bytes come after those it inherits; in epoll_server1 (`OwnBytesInOrder`) a client is sent its own bytes in their order, none
  twice, and one that reads at once is sent all that was read of it; in thread01 only the newest connection is sure to have a thread; in
  the file server a client that waits for its answers gets its own, in whatever directory, that to `pwd` perhaps garbled; over UDP an answer
  is the client's own unless the server of chap-14 had another's datagram at its socket when it
  connected, and it is in step unless a datagram was copied. A UDP client waits for ever only for a
  lost datagram or a server that serves another.
- `OrderlyClientsHarmless` lists who may end a server: a reset, a client that does not read (where
  a full socket is an error), more clients than the table holds.
- `Answered` lists who may go unanswered (`Excused`): connections that arrive
  together at epoll_server1 (one `accept` for each edge), events of a batch it ended early
  (`n` overwritten), clients of a full table, everybody while pollserver is blocked in a write. `Owed` is how
  much a client must be sent: all it sent, but by epoll_server1, if it reads slowly, one byte of each
  chunk; that no more is lost than what a write left is all that can be said.

### Bounds, and why they are enough

- *EventLoop.* Two callers race each other and the owner for the mutex. Of the four
  connections two share a descriptor (reuse after close), one lies beyond the
  first size of the map (growth), one is a failed accept. `WakeCap = 2` lets the
  wakeup socket fill up with two callers. `InitialEntries = 4` and `Doublings = 1`
  stand for 32 and as many doublings as descriptors need. More connections repeat these
  cases. The bound on connections is the set itself: each channel is used once.
  The single loop (`kind` in MCEventLoop) is the same model with the channel beyond the first size as
  the listening socket, and with callers that never call.
- *TcpServer.* Two workers suffice for a connection to meet the
  descriptor on the same loop and on another. Four connections go round the pool twice.
- *BlockQueue.* With 5 clients the indices of a ring of 3 wrap. `MaxBacklog`
  bounds the clients accepted and not yet popped; 2 is what the ring can hold.
- *HttpServer.* The shapes differ in version, presence of a `Connection` header
  and its value, and whether a second one follows: all that the code looks at. The lines without
  `": "` leave a rest that is a status line to the parser, one that is not, and none. A stream of one
  request may end after any token. Three requests reach a request after a shutdown.
- *TcpConnection.* With `INIT_BUFFER_SIZE = 3` and 9 bytes a
  buffer is compacted, enlarged and filled through the second array, several times.
- *Programs.* Three clients (two for epoll) and four descriptors: a descriptor is
  given out again while another client is served, and the tables of 3 and 4 slots overflow
  (`INIT_SIZE`, `INIT_POLL_SIZE`; `FD_INIT_SIZE = 6` lies below the highest descriptor). The texts have a line of
  several reads, a line of one byte and no bytes at all; a buffer holds 2. Client 1 may read slowly and stall, client 2 may
  reset, so a third stays orderly. *Heartbeat*: two ticks a second; the sleeps lie below, at and
  above the time of all probes (3 of 3 seconds), and the count of silence ends above both. *HalfClose*: three lines, then
  each way to end. *MessageStream*: fields of 2 bytes; a stream with an empty message, one with a
  message longer than the buffer, one without either. *FileServer*: three clients that go down into
  a directory, out of it, and list from it. *Datagrams*: one loss and one copy, two clients with
  two lines, a long one before a short one, a goodbye.
- Not bounded because assumed not to be reached: 128 events in one batch
  (`MAXEVENTS`) and 128 headers.

`CHECK_DEADLOCK FALSE` is in every configuration, because each system may stop: a
loop with no client waits for ever, a client may stop sending, a process may end. What
must not stop is stated as a liveness property. In EventLoop, where threads could
block each other, `CallersReturn`, `LoopComesBack` and `ImplementsQueue` exclude it.

### Fairness

Threads are scheduled: weak fairness of each thread's own steps. A lock is strongly fair:
a thread that asks for it again and again while others take it and give it back gets
it in the end. A pthread mutex does not promise this, but without it no program with
a mutex has a liveness property. The environment is never fair: no client has to
connect, send, read or leave, `accept` and spurious wakeups need not happen, and `epoll_wait` has
to return only when the wakeup socket holds a byte. In
Programs the server's process (`MainStep`) and each child or thread (`ChildStep`) are weakly
fair: the scheduler runs what can run. Clients are not.
TcpConnectionFlush alone makes the client read, to
show that even then the bytes stay.

## 4. Findings

1. `event_loop.c:97`: on `EPOLLERR`/`EPOLLHUP` the dispatcher closes the descriptor and
   leaves the map entry. A connection that gets the same number on the same loop
   is never polled.
2. `tcp_server.c:154`: `data` is set after the connection was given to its loop.
3. `thread03.cpp:77`: `number` waiting clients make the ring look empty; all are lost.
4. `http_server.c:43`: a request cut by TCP keeps the thread in its loop.
5. `channel.c:21`: enabling the write event uses a `tcp_connection` as an `event_loop`.
6. `http_server.c:102`: of several requests in one message only the first is answered; the comment at
   line 101 says that all the data was processed.

Part of HttpServer, and of the conditions of its properties, without a run of their own: a header line without
`": "`, such as `Host:x`, is taken for the last line of its request (`http_server.c:75`), and the rest of
it is parsed as a status line, where an assert may fail (`Misread`, `CrashCauses`); the terminators of
`process_status_line` behind their blocks (lines 21, 30 and 36); the NULL string at `http_request.c:78`;
SIGPIPE at `http_server.c:111`.

Seen in the programs, and part of their models without a run of their own:
`thread01.cpp:37` (the race for `fd`), `nonblockingserver.cpp:244` (an inherited buffer), `epoll_server1.cpp:140`
(the batch ended early), `epoll_server1.cpp:160` (a short write loses bytes), `tcpserver.cpp:78` (the address of a local
array is returned), `poll_dispatcher.c:159` (the last element), `udpconnectserver.cpp:75` (a failed
`recv` is never seen, because the result is unsigned, and the last message is answered again),
`udpconnectserver.cpp:74` (the end of an older message is answered with a shorter one),
`pingclient.cpp:72` (a typed line stops the probes), `tcpserver.cpp:172` (listing a directory that is not there ends the
server).

## 5. The proofs

Eight modules hold theorems. They assume what the `ASSUME`s of the
models say of the constants (the owner is not a caller, the wakeup channel and the
listeners share no descriptor, the map can grow beyond every descriptor,
there is at least one worker, the ring has at least two elements, the poll dispatcher's array has at
least its own two slots, there are as many descriptors as clients, finitely many, a client of the
HTTP server sends well-formed requests, a client of the file server types one of its commands and
a path, and a line typed at a UDP client is of one of three kinds), and nothing about the
number of threads, connections, descriptors or elements, except where it is named below.

### EventLoopProofs

All seven safety properties of EventLoop's passing run, and the safety part of the refinement.

- *Types.* `TypeCorrect`: `TypeOK` is inductive.
- *The mutex.* `LockInv` adds to `MutexProtectsList` that the cursor stands at
  the head of the list outside the walk. It is inductive with `TypeOK`, and gives
  `MutexCorrect` and `AssertHolds`.
- *Wakeups.* `NoLostWakeup` is inductive with `TypeOK`: whoever makes the list
  non-empty is about to write a byte, or is the owner on its way to the list.
- *Map, epoll set, sockets, requests.* `NoCrash` is far from inductive. The
  invariant is `IInv == TypeOK /\ LockInv /\ MapsAgree`, where `MapsAgree` says
  that a live socket owns its descriptor (`SockInv`); that a map entry lies
  at its own descriptor, below `nentries`, and what is polled has a live entry
  (`MapInv`); that an add request is for a fresh connection and a removal for one that
  is registered, polled and at end of file, which only the owner can have in flight
  and only until its walk is over (`RequestInv`); and that no channel has two
  requests in flight (`DistinctInv`). It is needed because each failure the code
  can die of is decided by a request made many steps before.
  `ProcessSurvives`, `RemovalAfterClose`, `WakeupReadFinds` and `QueueImplemented`
  follow from it.
- *The two tables agree.* `MatchInv` is inductive relative to `IInv`: an open
  channel of the map is polled, one at end of file has its removal under way. With
  `IInv` it gives `MapsMatch`.

### TcpServerProofs

- `LoopsReadyCorrect`: the workers main has gone past are ready (`StartInv`).
- `LoadBalancedCorrect`: there is a number q such that the workers before
  `position` have q + 1 connections and the others q (`BalanceInv`). `LoadBalanced`
  alone is not inductive, because it forgets where the round is.
- `EventsReachOwnerCorrect`, `OneLoopPollsCorrect`: `RouteInv` adds to
  `EventsReachOwner` that a live socket owns its descriptor, that add requests are
  in the list of their connection's own loop, once, and for a connection no map has,
  and that no map has a connection that was not accepted. Without the
  last two a request in a queue could put a second connection in a polled entry.

### BlockQueueProofs

- `NoSleeperCorrect` (finitely many threads): inductive with `TypeOK` alone. It holds
  even when the ring overflows, so that fault loses clients but never threads.
- `NoDescriptorLostCorrect`, `HandOffImplemented` (`MaxBacklog < Number`): the
  invariant says that the elements from front to rear are distinct descriptors not yet
  popped (`ContentInv`) and counts them (`CountInv`): size of the ring plus the
  descriptor in main's hands is the backlog, so `rear` never runs into `front`. The
  assumption is the one the code leaves to its clients. BlockQueueFull shows that the
  property fails without it.

### TcpConnectionProofs

For every initial size of a buffer, room in the kernel and number of bytes. The lemmas on the buffer
come first: `make_room` keeps the unread bytes and leaves the room it was asked for, by copying or by
growing (`MakeRoomKeeps`); `buffer_append` and `buffer_socket_read` put the new bytes after
the unread ones, however `readv` splits them (`AppendAppends`, `SocketReadAppends`); a reader takes the first
(`AdvancedDrops`). `ConnInv` adds to `TypeOK` and `EveryByteOnce` that the output buffer is empty and the write
event off while the thread still runs: without it a second write could pass
bytes that wait. `SendStep` has a case for a refused write, where the byte in front of the data
is copied along, and one for a write of some or all bytes; a byte of the client is never the
`Unset` that `Unsent` leaves out because `EveryByteOnce` says which number it has. A reset changes nothing
that was read, so a write to a reset connection is a refused one.

### HttpServerProofs

For every set of well-formed streams, cut anywhere, with and without header lines that have no `": "`.
Three of the four properties are far from inductive: each speaks of what
the parser has done with whole requests, and it works line by line. `HttpInv` has three parts that hold while the
parser has its place (`crash = "no"` and no line was misread).
`BeginInv`: the end of the last answered request (`Begin`) is 0 or the end of a request, as many requests end
up to it as responses were sent, and up to `readIndex` no other, but the one that is about to be answered.
`PlaceInv`: in state STATUS the parser stands at `Begin` with no headers; in
HEADERS behind the CRLF of a line; in DONE behind a request. `RequestInv`: the version is that of the request's first
line, and the first Connection header of the table is the first Connection line from `Begin` on. So
a header left over from an earlier request would break it, and a parser one CRLF off would break
`PlaceInv` at once. The lemmas before it count the ends of requests below a position.
`BoundInv` bounds the responses by the bytes parsed, and holds for a parser out of its place too: types
need it. `CrashCausesCorrect` has the exact condition on the client's requests for three of the five ways to die,
the assert, SIGPIPE and the NULL string: the assert cannot fail, however the stream is cut, before a line
was misread. It claims nothing for the other two, a response not taken whole and an abort of the allocator,
because nothing that the client sends decides them.

### ServersProofs

- `TablesMatchCorrect`, for pollserver and for the poll dispatcher. `SocketsInv`, which
  all servers on Sockets share: open connections have descriptors, no two of them the same, and
  `accept` finds a free one (`FreshFd`). `PollInv` adds that the slot whose client waits in `write` is in use.
  The dispatcher needs more (`LoopInv`). `ArrayInv` relates array, map, refused connections and accepted ones.
  `ScanInv` says that `ready_number` counts the slots ahead of the scan that poll reported, and
  that a free slot ahead has no `revents`. Without the last part a connection accepted
  during the scan would be put in a slot with the `revents` of its last use, called back for
  nothing, and `ready_number` would run out before the array does.
- `EpollInv`: edges, batch and errors of a batch are of the listener and of open connections. An event
  of a closed one would make the server read a descriptor that belongs to nobody or to the next client.
- `HarmInv` is for the ways to end (`Stopped`). It names for each program the peers that can be the reason (`Why`);
  fork01, epoll_server2 and epoll_server3 have none. Each `...Harmless` lemma shows that
  the descriptor in hand is that of such a peer at the step that ends the server, and `PeersStay` that
  a peer that reset or stalled stays so. ClientsProofs puts them together.
- The echo of pollserver (`PollEcho`) and of the poll dispatcher's loop (`EchoInStep`): a client
  has been sent the answer to what was read from it (`AllAnswered`), except that in pollserver, while its client does not read, the
  rest of the answer is in `buf`. That `buf`, shared by all, holds the bytes of the client waited for is
  what makes a write to the wrong client impossible. `ServiceEchoes` and `ServiceAsked` say which steps are
  steps of EchoService. That the answer to k bytes begins every answer to more is clear when each byte is answered; for fork01
  it is not (`LineStartsGrow`).
- The echo of epoll_server1 (`EpollEcho`). That bytes are sent in order (`OwnBytesInOrder`) is about numbers
  that may have gaps, so the invariant also says that what a client was sent lies below what was read of it: the next chunk begins
  after that. That a client which reads at once is owed nothing follows because only one in `Stallers` is
  ever slow; a chunk of another is left unsent only by the write that ends the server.
- Types of the servers on poll and epoll and of fork01, for `ProgramsTypeCorrect` below. The clients' part (`SocketTypes`) is the
  same for all: one lemma for each call, `accept`, `close`, a read with its write, and one for what
  clients do. `ready_number` never falls below 0: pollserver scans only while it is at
  least 1 (`PollTypes`), the dispatcher only while as many reported slots are ahead (`ScanInv`). In the epoll servers `n` counts events in the
  outer loop and bytes in the inner one, so that its range is both (`EpollTypes`). fork01's parent
  closes the connection it just accepted because `current` is a client between `accept` and `close` (`ForkTypes`).

### StreamsProofs

- `ShutdownGetsAnswersCorrect`, for every script: `LinesInv` counts the lines. While the client has not
  closed, those it wrote are with the server unread, taken and to be answered, on the way back, or printed.
  So the server sees end of file only when it has answered all.
- `MessagesWholeCorrect`, for every list of messages, width of a field, buffer and cut. `StreamInv` says that the
  number of consumed bytes is where the field that the reader takes itself to be in begins, plus what `readn` has
  (`ReaderInv`), and what an end of the reader's loop means (`EndInv`). Where a message begins
  is a recursive function of the list (`Before`). That it satisfies its own equation
  (`BeforeRecurs`) is proved from the existence of a least counterexample.
- `NoFalseAlarmCorrect`, `SilenceBoundedCorrect`, for every period, interval, number of probes, tick and set of
  delays, and `HeartbeatImplemented`, by which they hold in Programs. `HeartbeatInv` adds two parts to
  the types. `SilenceInv`: the silence and what the timer still has to run together stay below the
  keep-alive time, a second that the timer may keep from before, and an interval for each
  probe. `AnswerOwed`: for the probes of a silence a server that is there has sent an answer, has slept since
  the first of them, or is about to read it. Both are needed because neither a false alarm nor
  a long silence is decided by the step that reports it.
- The file server, for every list of commands and every typing ahead. `FilesInv` adds to what is
  promised to patient clients that at most one line of a patient client is ahead of the
  server, that `quit` is the last line and never sent, and that no connection was reset unless somebody was in a
  hurry (`LinesAhead`): otherwise two lines could be read as one command.
- The UDP servers, for every list of lines and any loss, copy and order. What a client hears is decided by datagrams sent
  long before. `UdpSafe` says of every datagram, in flight, at a socket or in the server's array,
  whose line it holds or answers. `Following` says where the client's last line is while it is `InTurn` and nothing was
  copied: at one place (`InOnePlace`), on its way, at the server, in `message` or at the client's
  own socket, and with that text in front (`Recent`; the terminator that chap-14 does not write leaves
  the end of an older message behind it). `Waits` says that it is somewhere unless something was
  lost or `unsent`.
- Types. The counters of the half-closing client are bounded by one another, whoever closed or was
  interrupted: the lines that are unread, held, coming and printed are together at most those written, and those at
  most the commands taken (`HalfTypes`). `readn` never has more than was consumed (`MessageTypes`).

### ClientsProofs

- Threads (chap-26/thread01). `ThreadsInv`: threads serve accepted connections, and the newest has a thread once it
  was created. `BytesInv`: a byte that was read is in one thread's buffer or in its client's `outbox`, once,
  although two threads may read one connection and another none.
- select (chap-22). `TableInv`: the buffers in use are those of open connections under their own descriptors.
  `OrderInv`: what a client was sent, followed by what its buffer still holds, lies in this
  order in its inheritance followed by its own bytes (`Placed`: an increasing choice of places). A
  prefix will not do, because bytes that find the buffer full are dropped. The step that reads appends to both sides, the
  step that sends moves a byte across, and `accept` makes the rest of an old buffer the inheritance.
- `ClientsInv` chooses the invariant of the program that runs, and is inductive because a step is of one
  program and the variables of the others stay. It gives
  `ClientsKeptApartCorrect`, and with `HarmInv` `OrderlyClientsHarmlessCorrect`.
- `EchoImplementedCorrect` is the refinement of EchoService, for every text, line size and number of clients.
  `ForkEcho` says that what a child sent, followed by what it has collected of a line, is the start of every line
  among the bytes it read (`LineStarts`), and that what is collected is as long as the open line, or one more
  than a line may be (`Collected`). `LineStarts` is a recursive function; that there is one
  (`NatRecursion`) is proved as for `Before`. `EchoInv` puts the servers together.
- `ProgramsTypeCorrect`: `TypeOK` of Programs, for every size and script. `TypesInv` chooses the types of the program
  that runs, each with what they need to stay; a step keeps them because `ClientsInv` holds before
  and after it. The select server's buffers are in bounds because what does not fit is dropped (`Fits`), a thread's line
  because it takes a byte only while it has room (`ThreadTypes`). The heartbeat's types come from its own theorem.

## 6. What is checked only

- Liveness (`CallersReturn`, `LoopComesBack`, `StartsServing`,
  `ConnectionsReachLoop`, `FreeThreadServes`, `NextRequestAnswered`, `Answered`, `ZombiesReaped`) and the fairness in the
  refinements: the prover does not reason about fairness and `ENABLED`.
- Nothing else: every invariant and every action property of a passing run is also a theorem, and of the
  refinements the initial states and the steps.

## 7. What is not modelled

- *`readline` of `read.c`*: used by one demonstration (chap-18/samplebuffer03).
- *`tcp_client.c`, `sock_ntop.c`, `log.c`, the set-up of sockets*: I/O and formatting.
- *`handle_write`, `epoll_update`, `poll_update`, `map_clear`, `clear`*: not reached by any program here.
- *The C++ port in `headers`*: the dispatchers are stubs, the static socket pair has no
  definition, and `map_make_space` shifts `nentries` left from 0 for ever, so that the
  loop's constructor would not return. No program starts it.
- *The programs of chap-5, chap-7, chap-13, chap-15, chap-17, chap-18, chap-20, chap-30 and
  thread_hello*: one thread and one descriptor with no state that outlives a call, or a bare
  demonstration of a race. udpconnectclient of chap-14 is its second client with another call.
- Descriptors that closed connections of the library never give back (`tcp_connection.c:8`): the
  models keep them taken; nothing says how many connections a server has to survive.
- In thread01 `thread_run` returns nothing; it is taken to return, as an unoptimised build does.
- Overlong input: `sprintf` into a buffer of the same size, and the terminator one
  past a full buffer (graceserver, streamserver, the UDP programs).
- What the terminators one byte behind their blocks (`http_server.c:21`, 30, 36) do to a neighbouring
  block. HttpServer has two outcomes, no effect and an abort of the allocator; a changed byte in other data of
  the process is not followed.
- HTTP clients that send anything but a status line where one belongs, or reset the connection
  (TcpConnection has resets). A status line without two spaces fails an assert at once.
- Read errors other than a reset, such as ETIMEDOUT. They too go to `error(1, ...)` in the servers of
  chap-21 to chap-26, so that a host that vanishes ends them; `OrderlyClientsHarmless` speaks of
  clients that close, reset or stall.
- The size of the kernel's buffers. A client that reads at once is taken to leave room for a whole chunk of epoll_server1
  (512 bytes); one in `Stallers` does not.
- The steps between `accept` and the store in pollserver's array, and between `close` and its
  clearing: see PollServer in section 2.

## 8. Plan

Done: EventLoop, PendingQueue, ThreadPool, TcpServer, HandOff, BlockQueue, Buffer, TcpConnection,
HttpServer and their proofs; the programs, with proofs of every safety invariant of theirs
and of the refinement of EchoService. No proof is open.

What would extend the models: the programs listed in section 7 that keep state over more than one call, and
the C++ port once its loop can be started.
