---------------------------- MODULE PollServer ----------------------------
(***************************************************************************)
(* src/chap-21/pollserver.cpp: one thread, blocking sockets, a table of    *)
(* pollfd whose slot 0 is the listening socket. A slot's fd is NoFd while  *)
(* it is free. revents is the set of slots the last poll found ready.      *)
(***************************************************************************)
EXTENDS Sockets

CONSTANTS
    INIT_SIZE,      \* slots of event_set
    MAXLINE         \* bytes a read takes at most

VARIABLES
    pc,             \* "wait" (poll), "accept", "scan", "write", "dead" (error or exit)
    event_set,      \* event_set[s]: descriptor of slot s
    revents, ready_number,
    i,              \* slot the scan has reached
    buf             \* bytes read and not yet written

pollVars == <<event_set, revents, ready_number, i, buf>>
vars == <<sockVars, pc, pollVars>>

Slots == 1 .. INIT_SIZE - 1

PollTypeOK ==
    /\ pc \in {"wait", "accept", "scan", "write", "dead"}
    /\ event_set \in [Slots -> Fds \cup {NoFd}]
    /\ revents \subseteq Slots \cup {0}
    /\ ready_number \in 0 .. INIT_SIZE
    /\ i \in 0 .. INIT_SIZE
    /\ buf \in Seq(Bytes)

Start ==
    /\ event_set = [s \in Slots |-> NoFd]
    /\ revents = {} /\ ready_number = 0 /\ i = 0 /\ buf = <<>>
Init == SocketsInit(Clients) /\ pc = "wait" /\ Start

Poll ==
    LET ready == {s \in Slots : event_set[s] # NoFd /\ Readable(Owner(event_set[s]))}
                    \cup {s \in {0} : Waiting # {}}
    IN  /\ pc = "wait" /\ ready # {}
        /\ revents' = ready
        /\ ready_number' = Cardinality(ready)
        /\ i' = 1
        /\ pc' = IF 0 \in ready THEN "accept" ELSE "scan"
        /\ UNCHANGED <<sockVars, event_set, buf>>

\* One ready slot less to handle: back to poll when it was the last.
Handled ==
    /\ ready_number' = ready_number - 1
    /\ pc' = IF ready_number <= 1 THEN "wait" ELSE "scan"

AcceptClient ==
    LET free == {s \in Slots : event_set[s] = NoFd}
    IN  /\ pc = "accept"
        /\ \E c \in Waiting : Accept(c)
        /\ IF free = {}
           THEN pc' = "dead" /\ UNCHANGED <<event_set, ready_number>>
           ELSE event_set' = [event_set EXCEPT ![Min(free)] = NewFd] /\ Handled
        /\ UNCHANGED <<revents, i, buf>>

\* The slots from i on that are in use and that poll found ready.
ToRead == {s \in Slots : s >= i /\ s \in revents /\ event_set[s] # NoFd}

ReadClient ==
    LET s == Min(ToRead)
        c == Owner(event_set[s])
        n == Min({Unread(c), MAXLINE})
    IN  /\ pc = "scan" /\ ToRead # {} /\ Unread(c) > 0
        /\ buf' = Arriving(c, n)
        /\ Exchange(c, n, <<>>)
        /\ i' = s
        /\ pc' = "write"
        /\ UNCHANGED <<event_set, revents, ready_number>>

\* End of file, or ECONNRESET.
CloseClient ==
    LET s == Min(ToRead)
        c == Owner(event_set[s])
    IN  /\ pc = "scan" /\ ToRead # {} /\ Unread(c) = 0
        /\ Close(c)
        /\ event_set' = [event_set EXCEPT ![s] = NoFd]
        /\ i' = s + 1
        /\ Handled
        /\ UNCHANGED <<revents, buf>>

\* The socket is blocking: the write waits for a client that does not read.
WriteClient ==
    LET c == Owner(event_set[i])
    IN  /\ pc = "write" /\ peer[c] # "stalled"
        /\ IF peer[c] = "rst"
           THEN pc' = "dead" /\ UNCHANGED <<sockVars, ready_number, i>>
           ELSE Exchange(c, 0, buf) /\ i' = i + 1 /\ Handled
        /\ buf' = <<>>
        /\ UNCHANGED <<event_set, revents>>

EndScan ==
    /\ pc = "scan" /\ ToRead = {}
    /\ pc' = "wait"
    /\ UNCHANGED <<sockVars, pollVars>>

Server == Poll \/ AcceptClient \/ ReadClient \/ CloseClient \/ WriteClient \/ EndScan
Outside == Environment /\ UNCHANGED <<pc, pollVars>>
Next == Server \/ Outside

----------------------------------------------------------------------------

(* The table holds exactly the open connections, each in one slot, so that *)
(* no descriptor is polled after it was closed and none is forgotten. The  *)
(* statements that accept and store, or close and clear, make one step:    *)
(* main is the only thread, and only poll looks at the whole table.        *)
TableMatches ==
    pc # "dead" => /\ \A c \in Open : \E s \in Slots : event_set[s] = fdOf[c]
                   /\ \A s \in Slots : event_set[s] # NoFd =>
                        \E c \in Open : fdOf[c] = event_set[s]
                   /\ \A s, t \in Slots : event_set[s] = event_set[t] =>
                        s = t \/ event_set[s] = NoFd
=============================================================================
