---------------------------- MODULE EpollServer ----------------------------
(***************************************************************************)
(* The servers of src/chap-23: one thread, non-blocking sockets, epoll.    *)
(* The listening socket is edge-triggered in all of them. Server 1 echoes  *)
(* and is edge-triggered for its clients; 2 and 3 only note that something *)
(* arrived, 2 edge-triggered, 3 level-triggered. Server 1 keeps in n both  *)
(* the number of events and the result of read, and takes a write of a     *)
(* part for one of the whole.                                              *)
(***************************************************************************)
EXTENDS Sockets

CONSTANTS
    which,      \* 1, 2 or 3: epoll_server1, 2, 3
    BUFSIZE     \* bytes a read takes at most

VARIABLES
    pc,         \* "wait", "events", "read", "dead"
    edges,      \* descriptors with an event epoll has not reported yet
    batch,      \* events reported and not yet looked at
    errs,       \* those of them with EPOLLERR or EPOLLHUP
    n, i,       \* as in the code
    socket_fd,
    missed      \* history: events of a batch the loop ended without looking at

epollVars == <<edges, batch, errs, n, i, socket_fd, missed>>
vars == <<sockVars, pc, epollVars>>

Listener == 0

EpollTypeOK ==
    /\ pc \in {"wait", "events", "read", "dead"}
    /\ \A S \in {edges, batch, errs, missed} : S \subseteq Fds \cup {Listener}
    /\ errs \subseteq batch
    /\ n \in (-1 .. Len(Text) + 1) \cup (0 .. BUFSIZE)
    /\ i \in 0 .. Len(Text) + 1
    /\ socket_fd \in Fds \cup {NoFd}

Start ==
    /\ edges = {} /\ batch = {} /\ errs = {} /\ missed = {}
    /\ n = 0 /\ i = 0 /\ socket_fd = NoFd
Init == SocketsInit(Clients) /\ pc = "wait" /\ Start

\* Every arrival, end of file and reset is an edge.
Edges ==
    {Listener : c \in {d \in Clients : link[d] = "none" /\ link'[d] = "waiting"}}
        \cup {fdOf[c] : c \in {d \in Open : sent'[d] # sent[d]
                                    \/ peer'[d] \in {"fin", "rst"} \ {peer[d]}}}

Level == IF which = 3 THEN {fdOf[c] : c \in Open} ELSE {}
Ready(f) == IF f = Listener THEN Waiting # {} ELSE Readable(Owner(f))

EpollWait ==
    LET ready == {f \in edges \cup Level : Ready(f)}
    IN  /\ pc = "wait" /\ ready # {}
        /\ batch' = ready
        /\ errs' = {f \in ready \ {Listener} : peer[Owner(f)] = "rst"}
        /\ edges' = {}
        /\ n' = Cardinality(ready) /\ i' = 0
        /\ missed' = missed \ ready
        /\ pc' = "events"
        /\ UNCHANGED <<sockVars, socket_fd>>

\* The next event of the batch, in the order the kernel chose.
Take(f) ==
    /\ pc = "events" /\ i < n /\ f \in batch
    /\ batch' = batch \ {f}
    /\ errs' = errs \ {f}

CloseOnError ==
    \E f \in errs :
        /\ Take(f)
        /\ Close(Owner(f))
        /\ edges' = edges \ {f}
        /\ i' = i + 1
        /\ UNCHANGED <<pc, n, socket_fd, missed>>

\* One accept for each event. Adding a socket that is readable already is an edge.
AcceptClient ==
    /\ Take(Listener)
    /\ \E c \in Waiting :
        /\ Accept(c)
        /\ edges' = edges \cup {f \in {NewFd} : Readable(c)}
    /\ i' = i + 1
    /\ UNCHANGED <<pc, n, socket_fd, missed>>

TakeClient(f) == f \in batch \ (errs \cup {Listener}) /\ Take(f) /\ socket_fd' = f

\* Server 1 goes on to read, servers 2 and 3 only tell the operator.
ReadClient ==
    /\ \E f \in batch : TakeClient(f)
    /\ pc' = "read"
    /\ UNCHANGED <<sockVars, edges, n, i, missed>>
NoteClient ==
    /\ \E f \in batch : TakeClient(f)
    /\ i' = i + 1
    /\ UNCHANGED <<sockVars, pc, edges, n, missed>>

\* How many of len bytes a write to c may take: a part if c reads slowly or has stopped,
\* and none (EAGAIN, EPIPE) if its socket is full or reset.
Taken(c, len) ==
    CASE peer[c] = "rst" -> {0}
      [] peer[c] = "stalled" -> 0 .. len - 1
      [] OTHER -> IF c \in Stallers THEN 1 .. len ELSE {len}

\* len bytes are read, rotated, and m of them written. Only a write of none is an error.
ReadAndWrite(c, len, m) ==
    LET in == Arriving(c, len)
    IN  /\ n' = len
        /\ Exchange(c, len, [k \in 1 .. m |-> rot13_char(in[k])])
        /\ UNCHANGED <<edges, batch, errs, socket_fd, missed>>

\* Mutant: one read for each edge.
EchoOnce ==
    LET c == Owner(socket_fd)
        len == Min({Unread(c), BUFSIZE})
    IN  /\ pc = "read" /\ Unread(c) > 0
        /\ \E m \in Taken(c, len) :
            ReadAndWrite(c, len, m) /\ pc' = IF m = 0 THEN "dead" ELSE "events"
        /\ i' = i + 1

\* read and write until nothing is left. What a write did not take is lost.
EchoClient ==
    LET c == Owner(socket_fd)
        len == Min({Unread(c), BUFSIZE})
    IN  /\ pc = "read" /\ Unread(c) > 0
        /\ \E m \in Taken(c, len) :
            ReadAndWrite(c, len, m) /\ pc' = IF m = 0 THEN "dead" ELSE pc
        /\ UNCHANGED i

\* Mutant: end of file is taken for an error.
EndReadAsError ==
    /\ pc = "read" /\ Unread(Owner(socket_fd)) = 0
    /\ n' = -1 /\ i' = i + 1
    /\ pc' = IF peer[Owner(socket_fd)] \in {"fin", "rst"} THEN "dead" ELSE "events"
    /\ UNCHANGED <<sockVars, edges, batch, errs, socket_fd, missed>>

\* EAGAIN leaves -1 in n, end of file 0; another error ends the process. After a reset
\* that follows the end of file, read still finds the latter.
EndRead ==
    LET c == Owner(socket_fd)
        ends == [up |-> {"EAGAIN"}, stalled |-> {"EAGAIN"}, fin |-> {"eof"},
                 rst |-> {"eof", "error"}]
    IN  /\ pc = "read" /\ Unread(c) = 0
        /\ \E end \in ends[peer[c]] :
            /\ n' = IF end = "eof" THEN 0 ELSE -1
            /\ pc' = IF end = "error" THEN "dead" ELSE "events"
            /\ IF end = "eof"
               THEN Close(c) /\ edges' = edges \ {socket_fd}
               ELSE UNCHANGED <<sockVars, edges>>
        /\ i' = i + 1
        /\ UNCHANGED <<batch, errs, socket_fd, missed>>

EndBatch ==
    /\ pc = "events" /\ ~(i < n)
    /\ missed' = missed \cup batch
    /\ batch' = {} /\ errs' = {}
    /\ pc' = "wait"
    /\ UNCHANGED <<sockVars, edges, n, i, socket_fd>>

Dispatch == EpollWait \/ CloseOnError \/ AcceptClient \/ EndBatch
Server1 == which = 1 /\ (Dispatch \/ ReadClient \/ EchoClient \/ EndRead)
Server2 == which = 2 /\ (Dispatch \/ NoteClient)
Server3 == which = 3 /\ (Dispatch \/ NoteClient)
Server == Server1 \/ Server2 \/ Server3
Outside ==
    /\ Environment
    /\ edges' = edges \cup Edges
    /\ UNCHANGED <<pc, batch, errs, n, i, socket_fd, missed>>
Next == Server \/ Outside

----------------------------------------------------------------------------

(* Server 1 sends a client only its own bytes, rotated, in order and none  *)
(* twice. A client that reads slowly may find gaps in its answer, where a  *)
(* write took a part; any other is sent every byte that was read of it.    *)
OwnBytesInOrder ==
    \A c \in Clients :
        /\ \A k \in DOMAIN outbox[c] :
                \E m \in 1 .. got[c] : outbox[c][k] = rot13_char(Byte(c, m))
        /\ \A j, k \in DOMAIN outbox[c] : j < k => outbox[c][j].num < outbox[c][k].num
        /\ c \notin Stallers /\ pc # "dead" => Len(outbox[c]) = got[c]
=============================================================================
