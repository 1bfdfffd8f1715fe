------------------------------ MODULE PollLoop ------------------------------
(***************************************************************************)
(* src/lib/poll_dispatcher.c under the loop of src/lib/event_loop.c, for   *)
(* the one-thread echo server of chap-27: main's loop owns the listening   *)
(* socket and every connection, and changes the dispatcher's array from    *)
(* the callbacks of a scan over that array. No connection is closed, so a  *)
(* descriptor stays with its client. Slot 0 holds the loop's socket pair,  *)
(* on which one thread never wakes itself, and slot 1 the listening socket.*)
(***************************************************************************)
EXTENDS Sockets

CONSTANT INIT_POLL_SIZE

VARIABLES
    pc,             \* "wait" (poll), "scan", "past" (reads after the array), "dead"
    pollfd,         \* pollfd[s]: fd and revents of slot s (event_set in the code)
    ready_number, i,
    entries,        \* descriptors in the loop's channel map
    reported,       \* history: descriptors that poll reported last
    refused         \* history: descriptors that found no slot

loopVars == <<pollfd, ready_number, i, entries, reported, refused>>
vars == <<sockVars, pc, loopVars>>

Slots == 2 .. INIT_POLL_SIZE - 1
Listener == 0       \* stands for its descriptor

PollLoopTypeOK ==
    /\ pc \in {"wait", "scan", "past", "dead"}
    /\ pollfd \in [1 .. INIT_POLL_SIZE - 1 ->
                    [fd : Fds \cup {Listener, NoFd}, revents : BOOLEAN]]
    /\ ready_number \in 0 .. INIT_POLL_SIZE /\ i \in 0 .. INIT_POLL_SIZE
    /\ entries \subseteq Fds /\ reported \subseteq Fds \cup {Listener}
    /\ refused \subseteq Fds

Start ==
    /\ pollfd = [s \in 1 .. INIT_POLL_SIZE - 1 |->
                    [fd |-> IF s = 1 THEN Listener ELSE NoFd, revents |-> FALSE]]
    /\ ready_number = 0 /\ i = 0
    /\ entries = {} /\ reported = {} /\ refused = {}
Init == SocketsInit(Clients) /\ pc = "wait" /\ Start

Used(s) == pollfd[s].fd # NoFd

\* poll sets revents of every slot. The scan starts only if something is ready.
Poll ==
    LET ready == {s \in DOMAIN pollfd : Used(s) /\
                    IF s = 1 THEN Waiting # {} ELSE Readable(Owner(pollfd[s].fd))}
    IN  /\ pc = "wait" /\ ready # {}
        /\ pollfd' = [s \in DOMAIN pollfd |-> [pollfd[s] EXCEPT !.revents = s \in ready]]
        /\ reported' = {pollfd[s].fd : s \in ready}
        /\ ready_number' = Cardinality(ready)
        /\ i' = 1
        /\ pc' = "scan"
        /\ UNCHANGED <<sockVars, entries, refused>>

\* The slots from i on for which the scan calls back.
Due == {s \in DOMAIN pollfd : s >= i /\ Used(s) /\ pollfd[s].revents}

\* Mutant: ready_number is tested before it is counted down.
HandledLate(s) ==
    /\ ready_number' = ready_number - 1
    /\ i' = s + 1
    /\ pc' = IF ready_number <= 0 THEN "wait" ELSE IF Due' = {} THEN "past" ELSE "scan"
    /\ UNCHANGED reported

\* After a callback the scan goes on as the array is then, until as many slots were ready
\* as poll counted. It finds nothing more before the end of the array: it runs past it.
Handled(s) ==
    /\ ready_number' = ready_number - 1
    /\ i' = s + 1
    /\ pc' = IF ready_number <= 1 THEN "wait" ELSE IF Due' = {} THEN "past" ELSE "scan"
    /\ UNCHANGED reported

\* poll_add: the first free slot; the revents of that slot stay as they are.
poll_add(fd) ==
    LET free == {s \in Slots : ~Used(s)}
    IN  IF free = {}
        THEN refused' = refused \cup {fd} /\ UNCHANGED pollfd
        ELSE pollfd' = [pollfd EXCEPT ![Min(free)].fd = fd] /\ UNCHANGED refused

poll_del(fd) ==
    LET slots == {s \in Slots : pollfd[s].fd = fd}
    IN  pollfd' = IF slots = {} THEN pollfd ELSE [pollfd EXCEPT ![Min(slots)].fd = NoFd]

handle_connection_established ==
    /\ pc = "scan" /\ Due # {} /\ Min(Due) = 1
    /\ \E c \in Waiting : Accept(c)
    /\ entries' = entries \cup {NewFd}
    /\ poll_add(NewFd)
    /\ Handled(1)

\* The application sends back what was read. A write that is not taken whole, a part of it
\* or none, ends in the enabling of the write event, which hangs or aborts.
handle_read ==
    LET s == Min(Due)
        c == Owner(pollfd[s].fd)
        in == Arriving(c, Unread(c))
        Sent(m) == Exchange(c, Unread(c), [k \in 1 .. m |-> rot13_char(in[k])])
    IN  /\ pc = "scan" /\ Due # {} /\ s # 1 /\ Unread(c) > 0
        /\ UNCHANGED <<pollfd, entries, refused>>
        /\ IF peer[c] \in {"stalled", "rst"}
           THEN /\ \E m \in IF peer[c] = "rst" THEN {0} ELSE 0 .. Unread(c) - 1 : Sent(m)
                /\ pc' = "dead"
                /\ UNCHANGED <<ready_number, i, reported>>
           ELSE Sent(Unread(c)) /\ Handled(s)

handle_connection_closed ==
    LET s == Min(Due)
        fd == pollfd[s].fd
    IN  /\ pc = "scan" /\ Due # {} /\ s # 1 /\ Unread(Owner(fd)) = 0
        /\ poll_del(fd)
        /\ entries' = entries \ {fd}
        /\ Handled(s)
        /\ UNCHANGED <<sockVars, refused>>

Server == Poll \/ handle_connection_established \/ handle_read \/ handle_connection_closed
Outside == Environment /\ UNCHANGED <<pc, loopVars>>
Next == Server \/ Outside

----------------------------------------------------------------------------

(* However the callbacks change the array during the scan, the scan calls  *)
(* back exactly for the descriptors that poll has reported and that still  *)
(* have their channel, and so ends inside the array. The array and the map *)
(* agree but for the connections that found the array full.                *)
ScanMatchesPoll ==
    /\ pc # "past"
    /\ pc = "scan" => /\ ready_number = Cardinality(Due)
                      /\ \A s \in Due : pollfd[s].fd \in reported
    /\ entries \ refused = {pollfd[s].fd : s \in {t \in Slots : Used(t)}}
    /\ \A s, t \in Slots : Used(s) /\ pollfd[s].fd = pollfd[t].fd => s = t
=============================================================================
