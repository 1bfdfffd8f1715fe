----------------------------- MODULE TcpServer ------------------------------
(***************************************************************************)
(* A TCPserver with worker threads (src/lib/tcp_server.c): main accepts    *)
(* connections and gives each to a worker's event loop, round robin.       *)
(*                                                                         *)
(* Each worker's loop is the queue of requests PendingQueue promises,      *)
(* which EventLoop implements, together with the descriptors its epoll     *)
(* instance polls.  A message that arrives changes nothing here: what the  *)
(* callbacks do with it is the connection's own state.                     *)
(***************************************************************************)
EXTENDS ThreadPool, Sequences, FiniteSets

CONSTANTS
    Connections,    \* every struct tcp_connection
    Wake,           \* stands for each loop's own wakeup channel
    Fds,            \* descriptors in play
    FdOf,           \* the descriptor accept returned for a connection
    NoChannel       \* a NULL map entry

ASSUME ConnectionAssumption ==
    /\ Wake \notin Connections
    /\ NoChannel \notin Connections \cup {Wake}
    /\ FdOf \in [Connections \cup {Wake} -> Fds \cup {-1}]
    /\ Fds \subseteq Nat
    /\ FdOf[Wake] = -1

NoLoop == -1

VARIABLES
    at,         \* where main is in handle_connection_established
    current,    \* the connection it is setting up
    loopOf,     \* tcpConnection->eventLoop
    hasData,    \* connections whose data is set
    sock,       \* each connection's socket
    queue,      \* each loop's pending requests
    table,      \* each loop's channelMap
    interest    \* descriptors each loop's epoll instance polls

serverVars == <<at, current, loopOf, hasData, sock, queue, table, interest>>
vars == <<poolVars, serverVars>>

Channels == Connections \cup {Wake}
Loop(i) == INSTANCE PendingQueue WITH queue <- queue[i], table <- table[i]

-----------------------------------------------------------------------------
TypeOK ==
    /\ PoolTypeOK
    /\ at \in {"accept", "register", "setData"}
    /\ current \in Channels
    /\ loopOf \in [Connections -> Workers \cup {NoLoop}]
    /\ hasData \subseteq Connections
    /\ sock \in [Connections -> {"unused", "open", "eof", "closed", "failed"}]
    /\ queue \in [Workers -> Seq([type : {"add", "remove"},
                                  chan : Connections])]
    /\ table \in [Workers -> [Fds -> Connections \cup {NoChannel}]]
    /\ interest \in [Workers -> SUBSET Fds]

OpenFds == {FdOf[c] : c \in {d \in Connections : sock[d] \in {"open", "eof"}}}

Init ==
    /\ PoolInit
    /\ at = "accept"
    /\ current = Wake
    /\ loopOf = [c \in Connections |-> NoLoop]
    /\ hasData = {}
    /\ sock = [c \in Connections |-> "unused"]
    /\ queue = [i \in Workers |-> <<>>]
    /\ table = [i \in Workers |-> [f \in Fds |-> NoChannel]]
    /\ interest = [i \in Workers |-> {}]

Start == StartPool /\ UNCHANGED serverVars

-----------------------------------------------------------------------------
(* handle_connection_established, by main *)

\* accept gives some descriptor that is not open, or fails, which main does
\* not notice; the next worker of the pool is chosen.
AcceptConnection(c) ==
    /\ at = "accept"
    /\ sock[c] = "unused"
    /\ FdOf[c] \notin OpenFds
    /\ GetLoop
    /\ sock' = [sock EXCEPT ![c] = IF FdOf[c] = -1 THEN "failed" ELSE "open"]
    /\ loopOf' = [loopOf EXCEPT ![c] = position]
    /\ current' = c
    /\ at' = "register"
    /\ UNCHANGED <<hasData, queue, table, interest>>

\* Faulty: the loop is chosen again for the request.
RegisterWithNextLoop ==
    /\ at = "register"
    /\ queue' = [queue EXCEPT ![position] =
                     Append(@, [type |-> "add", chan |-> current])]
    /\ at' = "setData"
    /\ UNCHANGED <<poolVars, current, loopOf, hasData, sock, table, interest>>

\* Faulty: the channel is never added.
RegisterNothing ==
    /\ at = "register"
    /\ at' = "setData"
    /\ UNCHANGED <<poolVars, current, loopOf, hasData, sock, queue, table,
                   interest>>

\* tcp_connection_new ends with event_loop_add_channel_event.
RegisterConnection ==
    /\ at = "register"
    /\ queue' = [queue EXCEPT ![loopOf[current]] =
                     Append(@, [type |-> "add", chan |-> current])]
    /\ at' = "setData"
    /\ UNCHANGED <<poolVars, current, loopOf, hasData, sock, table, interest>>

\* Only now does main store the server's data in the connection.
SetData ==
    /\ at = "setData"
    /\ hasData' = hasData \cup {current}
    /\ at' = "accept"
    /\ UNCHANGED <<poolVars, current, loopOf, sock, queue, table, interest>>

-----------------------------------------------------------------------------
(* The loop of worker i *)

\* One element of the pending list: map and epoll set change together.
ApplyRequest(i) ==
    LET r == Head(queue[i])
        fd == FdOf[r.chan]
        taken == fd \in Fds /\ table[i][fd] # NoChannel
    IN /\ queue[i] # <<>>
       /\ queue' = [queue EXCEPT ![i] = Tail(@)]
       /\ table' = [table EXCEPT ![i] = Loop(i)!Effect(r, @)]
       /\ interest' = [interest EXCEPT ![i] =
                           IF r.type = "remove" THEN @ \ {fd}
                           ELSE IF taken THEN @ ELSE @ \cup ({fd} \cap Fds)]
       /\ UNCHANGED <<poolVars, at, current, loopOf, hasData, sock>>

\* The loop may take an event of descriptor f, which it gives to c: it has
\* handled the removal its own last callback asked for.
Dispatches(i, f, c) ==
    /\ f \in interest[i]
    /\ table[i][f] = c
    /\ \A k \in 1..Len(queue[i]) : queue[i][k].type # "remove"

\* handle_read meets end of file or an error.
ConnectionClosed(i, f, c) ==
    /\ c \in Connections
    /\ Dispatches(i, f, c)
    /\ sock' = [sock EXCEPT ![c] = "eof"]
    /\ queue' = [queue EXCEPT ![i] =
                     Append(@, [type |-> "remove", chan |-> c])]
    /\ UNCHANGED <<poolVars, at, current, loopOf, hasData, table, interest>>

\* Faulty: the closed descriptor is not taken out of the epoll set.
HangupLeavesPolled(i, f, c) ==
    /\ Dispatches(i, f, c)
    /\ sock' = [d \in Connections |-> IF FdOf[d] = f /\ sock[d] \in {"open", "eof"}
                                      THEN "closed" ELSE sock[d]]
    /\ UNCHANGED <<poolVars, at, current, loopOf, hasData, queue, table, interest>>

\* EPOLLERR or EPOLLHUP: the dispatcher closes the descriptor, nothing more.
Hangup(i, f, c) ==
    /\ Dispatches(i, f, c)
    /\ sock' = [d \in Connections |-> IF FdOf[d] = f /\ sock[d] \in {"open", "eof"}
                                      THEN "closed" ELSE sock[d]]
    /\ interest' = [interest EXCEPT ![i] = @ \ {f}]
    /\ UNCHANGED <<poolVars, at, current, loopOf, hasData, queue, table>>

-----------------------------------------------------------------------------
MainStep == RegisterConnection \/ SetData

Peer == \E i \in Workers, f \in Fds, c \in Connections :
            ConnectionClosed(i, f, c) \/ Hangup(i, f, c)

Next == \/ Start
        \/ \E c \in Connections : AcceptConnection(c)
        \/ MainStep
        \/ \E i \in Workers : ApplyRequest(i)
        \/ Peer

Spec == Init /\ [][Next]_vars

\* Every thread is scheduled; clients connect and leave when they like, and
\* nobody is obliged to wake a condition without a signal.  A worker gets its
\* mutex although main may wake spuriously and take it again and again.
FairSpec ==
    /\ Spec
    /\ WF_vars(StartStep /\ UNCHANGED serverVars)
    /\ WF_vars(MainStep)
    /\ \A i \in Workers : /\ SF_vars(WorkerLock(i) /\ UNCHANGED serverVars)
                          /\ WF_vars(InitLoop(i) /\ UNCHANGED serverVars)
                          /\ WF_vars(ApplyRequest(i))

-----------------------------------------------------------------------------
(* Properties *)

\* thread_pool_get_loop never returns NULL: when main begins to accept, every
\* worker has built its loop, however the threads were scheduled.
LoopsReady == stage = "serve" => ready = Workers

\* The start-up handshake does not lose its signal: main comes to accept.
StartsServing == <>(stage = "serve")

\* No descriptor is polled by two loops, although loops keep entries of
\* descriptors that were closed and given out again.
OneLoopPolls == \A i, j \in Workers : i # j => interest[i] \cap interest[j] = {}

\* The channel an event is given to is that of the connection that owns the
\* descriptor now, and the loop is the connection's own.
EventsReachOwner ==
    \A i \in Workers : \A f \in interest[i] :
        /\ table[i][f] \in Connections
        /\ FdOf[table[i][f]] = f
        /\ loopOf[table[i][f]] = i
        /\ sock[table[i][f]] \in {"open", "eof"}

\* Round robin: the numbers of connections given to two workers never differ
\* by more than one, failed accepts included.
Assigned(i) == Cardinality({c \in Connections : loopOf[c] = i})
LoadBalanced == \A i, j \in Workers : Assigned(i) - Assigned(j) \in -1..1

\* A connection given to a loop gets into its map, unless the descriptor's
\* entry is taken.
ConnectionsReachLoop ==
    \A c \in Connections :
        sock[c] = "open" ~>
            sock[c] # "open" \/ table[loopOf[c]][FdOf[c]] # NoChannel

\* "for callback use: http_server" (tcp_connection.h): the data a message
\* callback finds in its connection was set before.
DataReadyForCallback ==
    \A i \in Workers, f \in Fds, c \in Connections :
        Dispatches(i, f, c) => c \in hasData
=============================================================================
