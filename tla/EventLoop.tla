----------------------------- MODULE EventLoop ------------------------------
(***************************************************************************)
(* One struct event_loop of src/lib/event_loop.c with its epoll            *)
(* dispatcher: the owner thread that runs event_loop_run, and the threads  *)
(* that hand it channels through event_loop_add_channel_event.             *)
(*                                                                         *)
(* A step is what a thread does between two points at which another thread *)
(* can interfere: taking the mutex, what is done under it, the write to    *)
(* the wakeup socket, one element of the pending list, one epoll event.    *)
(* A request to change the map is a record [type, chan], an element of the *)
(* pending list.                                                           *)
(***************************************************************************)
EXTENDS Integers, Sequences, FiniteSets

CONSTANTS
    Owner,          \* the thread owner_thread_id
    Callers,        \* the other threads: the acceptor of a threaded server
    Channels,       \* every struct channel
    Wake,           \* the channel of socketPair[1]
    Listeners,      \* channels of listening sockets served by this loop
    Fds,            \* descriptors in play
    FdOf,           \* channel->fd
    InitialEntries, \* 32 in map_make_space
    Doublings,      \* bound on how often the map doubles
    WakeCap,        \* bytes the wakeup socket holds before write blocks
    NoThread,       \* the mutex is free
    NoChannel       \* a NULL map entry

Threads == Callers \cup {Owner}

\* Channels of descriptors that are never closed, and the others.
Permanent == {Wake} \cup Listeners
Connections == Channels \ Permanent

\* The sizes map_make_space gives the map.
Capacities == {InitialEntries * 2^k : k \in 0..Doublings}

ASSUME ThreadAssumption == /\ Owner \notin Callers
                           /\ NoThread \notin Callers \cup {Owner}

ASSUME ChannelAssumption ==
    /\ Wake \in Channels
    /\ Listeners \subseteq Channels \ {Wake}
    /\ NoChannel \notin Channels

ASSUME FdAssumption ==
    /\ Fds \subseteq Nat
    /\ FdOf \in [Channels -> Fds \cup {-1}]
    /\ \A c \in Permanent : FdOf[c] # -1
    /\ \A c \in Permanent, d \in Channels : FdOf[c] = FdOf[d] => c = d

ASSUME CapacityAssumption ==
    /\ WakeCap \in Nat \ {0}
    /\ Capacities \subseteq Nat
    /\ \A f \in Fds : \E n \in Capacities : n > f

VARIABLES
    mutex,            \* the thread that holds eventLoop->mutex
    isHandlePending,  \* eventLoop->is_handle_pending
    pending,          \* the list from pending_head to pending_tail
    cursor,           \* place of channelElement in the list being walked
    wake,             \* bytes waiting in the socket pair
    entries,          \* channelMap->entries
    nentries,         \* channelMap->nentries
    interest,         \* descriptors registered with the epoll instance
    sock,             \* each channel's socket
    pc,               \* where each thread is
    req,              \* the request a thread is submitting
    batch,            \* events of the last epoll_wait not yet dispatched
    ret,              \* where the owner continues after the pending list
    crash             \* why the process died, if it did

loopVars == <<mutex, isHandlePending, pending, cursor>>
mapVars == <<entries, nentries, interest>>
vars == <<loopVars, wake, mapVars, sock, pc, req, batch, ret, crash>>

-----------------------------------------------------------------------------
Requests == [type : {"add", "remove"}, chan : Channels]

OwnerSteps == {"setup", "wait", "dispatch", "lock", "append", "lockPending",
               "traverse"}
CallerSteps == {"idle", "lock", "append", "wakeup"}

TypeOK ==
    /\ mutex \in Threads \cup {NoThread}
    /\ isHandlePending \in {0, 1}
    /\ pending \in Seq(Requests)
    /\ cursor \in 1..Len(pending) + 1
    /\ wake \in 0..WakeCap
    /\ entries \in [Fds -> Channels \cup {NoChannel}]
    /\ nentries \in Capacities
    /\ interest \subseteq Fds
    /\ sock \in [Channels -> {"unused", "open", "eof", "closed", "failed"}]
    /\ pc \in [Threads -> OwnerSteps \cup CallerSteps]
    /\ pc[Owner] \in OwnerSteps
    /\ \A t \in Callers : pc[t] \in CallerSteps
    /\ req \in [Threads -> Requests]
    /\ batch \subseteq Fds
    /\ ret \in {"setup", "dispatch", "wait"}
    /\ crash \in {"no", "assert", "epoll_ctl", "null"}

-----------------------------------------------------------------------------
\* Sockets the process holds open.  A connection that reached end of file
\* keeps its descriptor: nothing in the library closes it.
OpenFds == {FdOf[c] : c \in {d \in Channels : sock[d] \in {"open", "eof"}}}

\* An accept that the kernel can answer with channel c's descriptor.
Acceptable(c) == /\ c \in Connections
                 /\ sock[c] = "unused"
                 /\ FdOf[c] \notin OpenFds

AfterAccept(c) == IF FdOf[c] = -1 THEN "failed" ELSE "open"

\* The smallest size of the map that has room for descriptor f.
RoomFor(n, f) == /\ n \in Capacities
                 /\ n > f
                 /\ \A m \in Capacities : m > f => n <= m

\* event_loop_init_with_name has run: the wakeup channel is registered.
Init ==
    /\ mutex = NoThread
    /\ isHandlePending = 0
    /\ pending = <<>>
    /\ cursor = 1
    /\ wake = 0
    /\ entries = [f \in Fds |-> IF f = FdOf[Wake] THEN Wake ELSE NoChannel]
    /\ RoomFor(nentries, FdOf[Wake])
    /\ interest = {FdOf[Wake]}
    /\ sock = [c \in Channels |-> IF c = Wake THEN "open" ELSE "unused"]
    /\ pc = [t \in Threads |-> IF t = Owner THEN "setup" ELSE "idle"]
    /\ req = [t \in Threads |-> [type |-> "add", chan |-> Wake]]
    /\ batch = {}
    /\ ret = "setup"
    /\ crash = "no"

\* Thread t enters event_loop_do_channel_event with request type for c.
Call(t, type, c) ==
    /\ req' = [req EXCEPT ![t] = [type |-> type, chan |-> c]]
    /\ pc' = [pc EXCEPT ![t] = "lock"]

-----------------------------------------------------------------------------
(* event_loop_do_channel_event, by any thread *)

\* The acceptor thread takes a connection and gives it to this loop.
Accept(t, c) ==
    /\ pc[t] = "idle"
    /\ Acceptable(c)
    /\ sock' = [sock EXCEPT ![c] = AfterAccept(c)]
    /\ Call(t, "add", c)
    /\ UNCHANGED <<loopVars, wake, mapVars, batch, ret, crash>>

LockToSubmit(t) ==
    /\ pc[t] = "lock"
    /\ mutex = NoThread
    /\ mutex' = t
    /\ pc' = [pc EXCEPT ![t] = "append"]
    /\ UNCHANGED <<isHandlePending, pending, cursor, wake, mapVars, sock, req,
                   batch, ret, crash>>

\* Faulty: a caller that does not write the wakeup byte.
AppendWithoutWakeup(t) ==
    /\ pc[t] = "append"
    /\ pending' = Append(pending, req[t])
    /\ crash' = IF isHandlePending = 0 THEN "no" ELSE "assert"
    /\ mutex' = NoThread
    /\ pc' = [pc EXCEPT ![t] = IF t = Owner THEN "lockPending" ELSE "idle"]
    /\ UNCHANGED <<isHandlePending, cursor, wake, mapVars, sock, req, batch, ret>>

\* Faulty: the element is linked before pending_head.
AppendAtHead(t) ==
    /\ pc[t] = "append"
    /\ pending' = <<req[t]>> \o pending
    /\ crash' = IF isHandlePending = 0 THEN "no" ELSE "assert"
    /\ mutex' = NoThread
    /\ pc' = [pc EXCEPT ![t] = IF t = Owner THEN "lockPending" ELSE "wakeup"]
    /\ UNCHANGED <<isHandlePending, cursor, wake, mapVars, sock, req, batch, ret>>

\* Faulty: the mutex is still held when the owner goes on to the list.
AppendHoldingLock(t) ==
    /\ pc[t] = "append"
    /\ pending' = Append(pending, req[t])
    /\ crash' = IF isHandlePending = 0 THEN "no" ELSE "assert"
    /\ mutex' = IF t = Owner THEN Owner ELSE NoThread
    /\ pc' = [pc EXCEPT ![t] = IF t = Owner THEN "lockPending" ELSE "wakeup"]
    /\ UNCHANGED <<isHandlePending, cursor, wake, mapVars, sock, req, batch, ret>>

\* The assert, event_loop_channel_buffer_nolock and the unlock.
AppendRequest(t) ==
    /\ pc[t] = "append"
    /\ pending' = Append(pending, req[t])
    /\ crash' = IF isHandlePending = 0 THEN "no" ELSE "assert"
    /\ mutex' = NoThread
    /\ pc' = [pc EXCEPT ![t] = IF t = Owner THEN "lockPending" ELSE "wakeup"]
    /\ UNCHANGED <<isHandlePending, cursor, wake, mapVars, sock, req, batch, ret>>

\* event_loop_wakeup: the write blocks while the socket is full.
WakeUp(t) ==
    /\ pc[t] = "wakeup"
    /\ wake < WakeCap
    /\ wake' = wake + 1
    /\ pc' = [pc EXCEPT ![t] = "idle"]
    /\ UNCHANGED <<loopVars, mapVars, sock, req, batch, ret, crash>>

-----------------------------------------------------------------------------
(* event_loop_handle_pending_channel, by the owner *)

\* Faulty: the list is walked without taking the mutex.
WalkUnlocked ==
    /\ pc[Owner] = "lockPending"
    /\ isHandlePending' = 1
    /\ cursor' = 1
    /\ pc' = [pc EXCEPT ![Owner] = "traverse"]
    /\ UNCHANGED <<mutex, pending, wake, mapVars, sock, req, batch, ret, crash>>

LockPending ==
    /\ pc[Owner] = "lockPending"
    /\ mutex = NoThread
    /\ mutex' = Owner
    /\ isHandlePending' = 1
    /\ cursor' = 1
    /\ pc' = [pc EXCEPT ![Owner] = "traverse"]
    /\ UNCHANGED <<pending, wake, mapVars, sock, req, batch, ret, crash>>

\* The element of the list the owner has come to, and its step to the next.
AtElement(type) == /\ pc[Owner] = "traverse"
                   /\ cursor <= Len(pending)
                   /\ pending[cursor].type = type
ThisChannel == pending[cursor].chan
NextElement ==
    /\ cursor' = cursor + 1
    /\ UNCHANGED <<mutex, isHandlePending, pending, wake, sock, pc, req, batch,
                   ret>>

\* event_loop_handle_pending_add returns early: an invalid descriptor, or a
\* descriptor that already has a channel (the map may have grown first).
IgnoreAdd ==
    LET fd == FdOf[ThisChannel] IN
    /\ AtElement("add")
    /\ \/ fd = -1
       \/ fd \in Fds /\ fd < nentries /\ entries[fd] # NoChannel
    /\ NextElement
    /\ UNCHANGED <<mapVars, crash>>

\* Both exit the process when epoll_ctl fails; epoll_del is given a channel of the map.
epoll_add(fd) ==
    /\ interest' = interest \cup {fd}
    /\ crash' = IF fd \in OpenFds \ interest THEN "no" ELSE "epoll_ctl"
epoll_del(fd) ==
    /\ interest' = interest \ {fd}
    /\ crash' = IF entries[fd] = NoChannel THEN "null"
                ELSE IF fd \in interest THEN "no" ELSE "epoll_ctl"

\* Faulty: a descriptor that has a channel already is taken over.
AddOverwrites ==
    LET fd == FdOf[ThisChannel] IN
    /\ AtElement("add")
    /\ fd \in Fds
    /\ IF fd >= nentries THEN RoomFor(nentries', fd) ELSE nentries' = nentries
    /\ entries' = [entries EXCEPT ![fd] = ThisChannel]
    /\ epoll_add(fd)
    /\ NextElement

\* It stores the channel and calls epoll_add, which exits the process when the descriptor
\* is not open or is registered already.
HandleAdd ==
    LET fd == FdOf[ThisChannel] IN
    /\ AtElement("add")
    /\ fd \in Fds
    /\ fd < nentries => entries[fd] = NoChannel
    /\ IF fd >= nentries THEN RoomFor(nentries', fd) ELSE nentries' = nentries
    /\ entries' = [entries EXCEPT ![fd] = ThisChannel]
    /\ epoll_add(fd)
    /\ NextElement

\* Faulty: the map entry is cleared and epoll is not told.
RemoveFromMapOnly ==
    LET fd == FdOf[ThisChannel] IN
    /\ AtElement("remove")
    /\ fd \in Fds
    /\ fd < nentries
    /\ entries' = [entries EXCEPT ![fd] = NoChannel]
    /\ NextElement
    /\ UNCHANGED <<interest, nentries, crash>>

\* event_loop_handle_pending_remove: epoll_del is given entries[fd].
HandleRemove ==
    LET fd == FdOf[ThisChannel] IN
    /\ AtElement("remove")
    /\ fd \in Fds
    /\ fd < nentries
    /\ entries' = [entries EXCEPT ![fd] = NoChannel]
    /\ epoll_del(fd)
    /\ NextElement
    /\ UNCHANGED nentries

\* Faulty: the place in the dropped list is kept.
FinishKeepsCursor ==
    /\ pc[Owner] = "traverse"
    /\ cursor > Len(pending)
    /\ pending' = <<>>
    /\ isHandlePending' = 0
    /\ mutex' = NoThread
    /\ pc' = [pc EXCEPT ![Owner] = ret]
    /\ UNCHANGED <<cursor, wake, mapVars, sock, req, batch, ret, crash>>

\* Faulty: handling the list also drains the wakeup socket.
FinishDrainsWakeup ==
    /\ pc[Owner] = "traverse"
    /\ cursor > Len(pending)
    /\ pending' = <<>>
    /\ cursor' = 1
    /\ isHandlePending' = 0
    /\ mutex' = NoThread
    /\ wake' = 0
    /\ pc' = [pc EXCEPT ![Owner] = ret]
    /\ UNCHANGED <<mapVars, sock, req, batch, ret, crash>>

\* The list is dropped, the flag cleared and the mutex released.
FinishPending ==
    /\ pc[Owner] = "traverse"
    /\ cursor > Len(pending)
    /\ pending' = <<>>
    /\ cursor' = 1
    /\ isHandlePending' = 0
    /\ mutex' = NoThread
    /\ pc' = [pc EXCEPT ![Owner] = ret]
    /\ UNCHANGED <<wake, mapVars, sock, req, batch, ret, crash>>

-----------------------------------------------------------------------------
(* event_loop_run and epoll_dispatch, by the owner *)

\* tcp_server_start registers the listening socket before the loop runs.
StartListening(c) ==
    /\ pc[Owner] = "setup"
    /\ c \in Listeners
    /\ sock[c] = "unused"
    /\ sock' = [sock EXCEPT ![c] = "open"]
    /\ Call(Owner, "add", c)
    /\ ret' = "setup"
    /\ UNCHANGED <<loopVars, wake, mapVars, batch, crash>>

RunLoop ==
    /\ pc[Owner] = "setup"
    /\ \A c \in Listeners : sock[c] = "open"
    /\ pc' = [pc EXCEPT ![Owner] = "wait"]
    /\ UNCHANGED <<loopVars, wake, mapVars, sock, req, batch, ret, crash>>

\* Descriptors epoll may report.  The wakeup socket is level triggered: it is
\* ready exactly while it holds a byte.  A listening socket is ready while
\* the finite set of channels has one left (the bound on connections).
MayBeReady ==
    {f \in interest : /\ f = FdOf[Wake] => wake > 0
                      /\ f \in {FdOf[l] : l \in Listeners} =>
                             \E c \in Channels : Acceptable(c)}

\* epoll_wait has no timeout; it returns some events, and a byte in the
\* wakeup socket is one of them.
Wait ==
    /\ pc[Owner] = "wait"
    /\ batch' \in SUBSET MayBeReady \ {{}}
    /\ wake > 0 => FdOf[Wake] \in batch'
    /\ pc' = [pc EXCEPT ![Owner] = "dispatch"]
    /\ UNCHANGED <<loopVars, wake, mapVars, sock, req, ret, crash>>

\* channel_event_activate for one event of the batch, which finds c.
Activate(f, c) == /\ pc[Owner] = "dispatch"
                  /\ f \in batch
                  /\ f < nentries
                  /\ entries[f] = c
                  /\ batch' = batch \ {f}

\* Faulty: the byte is left in the socket.
WakeupNotRead(f) ==
    /\ Activate(f, Wake)
    /\ UNCHANGED <<loopVars, wake, mapVars, sock, pc, req, ret, crash>>

\* handleWakeup reads one byte; the read would block on an empty socket.
HandleWakeup(f) ==
    /\ Activate(f, Wake)
    /\ wake > 0
    /\ wake' = wake - 1
    /\ UNCHANGED <<loopVars, mapVars, sock, pc, req, ret, crash>>

\* handle_read got bytes: the message callback makes no request.  The assert
\* before it reads channel->fd: an empty entry is a NULL dereference.
ReadMessage(f, c) ==
    /\ c \in Connections \cup {NoChannel}
    /\ Activate(f, c)
    /\ crash' = IF c = NoChannel THEN "null" ELSE "no"
    /\ UNCHANGED <<loopVars, wake, mapVars, sock, pc, req, ret>>

\* Faulty: the socket is closed before its removal is requested.
CloseThenRemove(f, c) ==
    /\ c \in Connections
    /\ Activate(f, c)
    /\ sock' = [sock EXCEPT ![c] = "closed"]
    /\ interest' = interest \ {f}
    /\ Call(Owner, "remove", c)
    /\ ret' = "dispatch"
    /\ UNCHANGED <<loopVars, wake, entries, nentries, crash>>

\* handle_read got end of file or an error: handle_connection_closed asks for
\* the removal of its own channel.
ReadClosed(f, c) ==
    /\ c \in Connections
    /\ Activate(f, c)
    /\ sock' = [sock EXCEPT ![c] = "eof"]
    /\ Call(Owner, "remove", c)
    /\ ret' = "dispatch"
    /\ UNCHANGED <<loopVars, wake, mapVars, crash>>

\* handle_connection_established on the loop that also serves connections
\* (a thread pool of size 0): the new channel is added from the callback.
AcceptHere(f, l, c) ==
    /\ l \in Listeners
    /\ Activate(f, l)
    /\ Acceptable(c)
    /\ sock' = [sock EXCEPT ![c] = AfterAccept(c)]
    /\ Call(Owner, "add", c)
    /\ ret' = "dispatch"
    /\ UNCHANGED <<loopVars, wake, mapVars, crash>>

\* EPOLLERR or EPOLLHUP on a connection's socket: the dispatcher closes the
\* descriptor, which leaves the epoll set, and keeps the map entry.
Hangup(f) ==
    /\ pc[Owner] = "dispatch"
    /\ f \in batch
    /\ f \notin {FdOf[c] : c \in Permanent}
    /\ batch' = batch \ {f}
    /\ interest' = interest \ {f}
    /\ sock' = [c \in Channels |-> IF FdOf[c] = f /\ sock[c] \in {"open", "eof"}
                                   THEN "closed" ELSE sock[c]]
    /\ UNCHANGED <<loopVars, wake, entries, nentries, pc, req, ret, crash>>

\* The dispatcher returns; event_loop_run handles the pending list.
EndDispatch ==
    /\ pc[Owner] = "dispatch"
    /\ batch = {}
    /\ pc' = [pc EXCEPT ![Owner] = "lockPending"]
    /\ ret' = "wait"
    /\ UNCHANGED <<loopVars, wake, mapVars, sock, req, batch, crash>>

-----------------------------------------------------------------------------
Submission(t) == LockToSubmit(t) \/ AppendRequest(t)

CallerStep(t) == Submission(t) \/ WakeUp(t)

Handling == \/ LockPending \/ FinishPending
            \/ IgnoreAdd \/ HandleAdd \/ HandleRemove

Callback(f) == \/ HandleWakeup(f)
               \/ \E c \in Channels \cup {NoChannel} : ReadMessage(f, c)
               \/ \E c \in Channels : ReadClosed(f, c)
               \/ \E l, c \in Channels : AcceptHere(f, l, c)

OwnerStep == \/ Submission(Owner)
             \/ Handling
             \/ \E c \in Channels : StartListening(c)
             \/ RunLoop \/ Wait \/ EndDispatch
             \/ \E f \in Fds : Callback(f) \/ Hangup(f)

Next == /\ crash = "no"
        /\ \/ OwnerStep
           \/ \E t \in Callers : CallerStep(t)
           \/ \E t \in Callers, c \in Channels : Accept(t, c)

Spec == Init /\ [][Next]_vars

(***************************************************************************)
(* Every thread that can take a step is scheduled in the end.  No peer is  *)
(* obliged to send: epoll_wait must return only for a wakeup byte.  A      *)
(* caller that waits for the mutex gets it although the owner takes it     *)
(* again in every round of a busy loop: strong fairness of the lock.       *)
(***************************************************************************)
OwnerProgress == /\ crash = "no"
                 /\ pc[Owner] = "wait" => wake > 0
                 /\ OwnerStep

CallerProgress(t) == crash = "no" /\ CallerStep(t)
CallerLocks(t) == crash = "no" /\ LockToSubmit(t)

FairSpec == /\ Spec
            /\ WF_vars(OwnerProgress)
            /\ \A t \in Callers : /\ WF_vars(CallerProgress(t))
                                  /\ SF_vars(CallerLocks(t))

-----------------------------------------------------------------------------
(* Properties *)

\* The mutex is held by exactly the thread that is inside one of the two
\* critical sections, and is_handle_pending is set exactly while the owner
\* walks the list: this is what the assert of event_loop_do_channel_event
\* relies on, for every interleaving of callers with nested handling.
InCriticalSection(t) == pc[t] \in {"append", "traverse"}

MutexProtectsList ==
    /\ \A t \in Threads : InCriticalSection(t) <=> mutex = t
    /\ isHandlePending = 1 <=> pc[Owner] = "traverse"

\* The owner never sleeps in epoll_wait on requests nobody will wake it for:
\* while it waits with requests pending there is a byte to read or a caller
\* is about to write one.
NoLostWakeup ==
    pending # <<>> /\ pc[Owner] \in {"setup", "wait"} =>
        wake > 0 \/ \E t \in Callers : pc[t] = "wakeup"

\* handleWakeup's read of a blocking socket always finds its byte: nothing
\* consumes it between epoll_wait and the callback.
WakeupHasByte == FdOf[Wake] \in batch => wake > 0

\* The process survives: the assert holds, epoll_ctl is never given a
\* descriptor it refuses, and no event or removal meets an empty entry,
\* although the map changes between epoll_wait and the callbacks.
NoCrash == crash = "no"

\* The map and the epoll set agree: what is polled has a channel with an open
\* socket, and a channel in the map whose socket is open is polled.
Closing(c) == \/ \E t \in Threads : req[t] = [type |-> "remove", chan |-> c]
                                    /\ pc[t] \in {"lock", "append"}
              \/ \E i \in cursor..Len(pending) :
                     pending[i] = [type |-> "remove", chan |-> c]
Registered(c) == FdOf[c] \in Fds /\ entries[FdOf[c]] = c
EpollMatchesMap ==
    crash = "no" =>
        interest = {FdOf[c] : c \in {d \in Channels :
                       Registered(d) /\ (sock[d] = "open" \/ Closing(d))}}

\* Only its own end of file takes a channel out of the map.
OnlyClosedLeave ==
    [][\A f \in Fds : entries[f] # NoChannel /\ entries'[f] # entries[f] =>
           entries'[f] = NoChannel /\ sock[entries[f]] = "eof"]_vars

\* A thread that hands a channel to the loop gets back to its own work.
CallersReturn == \A t \in Callers : pc[t] # "idle" ~> pc[t] = "idle"

\* Every round of the loop ends: a callback that makes a request, and so
\* handles the list from inside the dispatch, comes back from it.
LoopComesBack == pc[Owner] # "wait" ~> pc[Owner] = "wait"

\* The loop implements the request queue: the part of the list not walked yet
\* is the queue.  Requests take effect once, in order, and in the end.
Unhandled == SubSeq(pending, cursor, Len(pending))

Queue == INSTANCE PendingQueue WITH queue <- Unhandled, table <- entries

ImplementsQueue == Queue!FairSpec

\* "add event read for the new connection" (tcp_connection_new): once its add
\* request was handled, a connection whose socket is open is in the map.
InFlight(c) == \/ \E t \in Threads : /\ pc[t] \in {"lock", "append"}
                                     /\ req[t].chan = c
               \/ \E i \in cursor..Len(pending) : pending[i].chan = c

EveryConnectionPolled ==
    \A c \in Connections : sock[c] = "open" /\ ~InFlight(c) => Registered(c)
=============================================================================
