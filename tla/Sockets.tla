------------------------------ MODULE Sockets ------------------------------
(***************************************************************************)
(* The clients of the echo servers of chap-21 to chap-26 and the kernel's  *)
(* side of their connections, as those servers use it. The servers' own    *)
(* modules extend this one; their accept, read, write and close are the    *)
(* operators at the end.                                                   *)
(*                                                                         *)
(* A client sends the bytes of its text one by one. It may half-close      *)
(* ("fin"), stop reading, so that no more can be written to it ("stalled"),*)
(* or reset the connection ("rst"). A client that may stop reading may     *)
(* also read slowly: a non-blocking write then finds room for a part only, *)
(* a blocking one just takes longer. Bounds: the clients, their texts, and *)
(* who may stall or reset. Clients are numbered in the order in which they *)
(* connect, so the listening queue is the waiting clients by number.       *)
(***************************************************************************)
EXTENDS Integers, Sequences, FiniteSets, FiniteSetsExt

CONSTANTS
    Text,       \* Text[c]: client c's bytes; TRUE stands for one that ends a line
    Fds,        \* the descriptors accept can return
    Stallers,   \* clients that may read slowly or stop reading
    Aborters    \* clients that may reset their connection

Clients == DOMAIN Text
NoFd == -1

ASSUME SocketsAssumption ==
    /\ Text \in Seq(Seq(BOOLEAN))
    /\ Fds \subseteq Nat \ {0} /\ IsFiniteSet(Fds)
    /\ Cardinality(Fds) >= Len(Text)

VARIABLES
    link,       \* link[c]: "none", "waiting" for accept, "open", "closed" by the server
    peer,       \* peer[c]: "up", "stalled", "fin", "rst"
    fdOf,       \* fdOf[c]: the server's descriptor of an open connection
    sent, got,  \* how many bytes c has sent, how many the server has read
    outbox      \* outbox[c]: what the server has written to c

sockVars == <<link, peer, fdOf, sent, got, outbox>>

\* A byte knows its sender, its place in the sender's text and whether it is rotated.
Bytes == [from : Clients, num : Nat, rot : BOOLEAN]
Byte(c, k) == [from |-> c, num |-> k, rot |-> FALSE]
EndsLine(b) == Text[b.from][b.num]
rot13_char(b) == [b EXCEPT !.rot = ~@]

SocketsTypeOK ==
    /\ link \in [Clients -> {"none", "waiting", "open", "closed"}]
    /\ peer \in [Clients -> {"up", "stalled", "fin", "rst"}]
    /\ fdOf \in [Clients -> Fds \cup {NoFd}]
    /\ \A c \in Clients : got[c] \in 0 .. sent[c] /\ sent[c] \in 0 .. Len(Text[c])
    /\ outbox \in [Clients -> Seq(Bytes)]

\* The clients of C come, the others never do.
SocketsInit(C) ==
    /\ link = [c \in Clients |-> IF c \in C THEN "none" ELSE "closed"]
    /\ peer = [c \in Clients |-> "up"]
    /\ fdOf = [c \in Clients |-> NoFd]
    /\ sent = [c \in Clients |-> 0]
    /\ got = [c \in Clients |-> 0]
    /\ outbox = [c \in Clients |-> <<>>]

----------------------------------------------------------------------------
(* The clients. *)

Connected(c) == link[c] \in {"waiting", "open"}

Connect(c) ==
    /\ link[c] = "none"
    /\ \A d \in 1 .. c - 1 : link[d] # "none"
    /\ link' = [link EXCEPT ![c] = "waiting"]
    /\ UNCHANGED <<peer, fdOf, sent, got, outbox>>

Send(c) ==
    /\ Connected(c) /\ peer[c] = "up" /\ sent[c] < Len(Text[c])
    /\ sent' = [sent EXCEPT ![c] = @ + 1]
    /\ UNCHANGED <<link, peer, fdOf, got, outbox>>

Turn(c, from, to) ==
    /\ Connected(c) /\ peer[c] \in from
    /\ peer' = [peer EXCEPT ![c] = to]
    /\ UNCHANGED <<link, fdOf, sent, got, outbox>>

Environment ==
    \E c \in Clients :
        \/ Connect(c)
        \/ Send(c)
        \/ Turn(c, {"up"}, "fin")
        \/ c \in Stallers /\ Turn(c, {"up"}, "stalled")
        \/ c \in Aborters /\ Turn(c, {"up", "fin"}, "rst")

----------------------------------------------------------------------------
(* What the servers' system calls do. *)

Open == {c \in Clients : link[c] = "open"}
Waiting == {c \in Clients : link[c] = "waiting"}
Owner(f) == CHOOSE c \in Open : fdOf[c] = f
Unread(c) == sent[c] - got[c]
Readable(c) == Unread(c) > 0 \/ peer[c] \in {"fin", "rst"}
NewFd == Min(Fds \ {fdOf[c] : c \in Open})

\* accept takes the client that waits longest and gives it the lowest free descriptor.
Accept(c) ==
    /\ c = Min(Waiting)
    /\ link' = [link EXCEPT ![c] = "open"]
    /\ fdOf' = [fdOf EXCEPT ![c] = NewFd]
    /\ UNCHANGED <<peer, sent, got, outbox>>

Close(c) ==
    /\ link' = [link EXCEPT ![c] = "closed"]
    /\ UNCHANGED <<peer, fdOf, sent, got, outbox>>

\* The next n bytes of a client, and the state after they were read and s written back.
Arriving(c, n) == [k \in 1 .. n |-> Byte(c, got[c] + k)]
Exchange(c, n, s) ==
    /\ got' = [got EXCEPT ![c] = @ + n]
    /\ outbox' = [outbox EXCEPT ![c] = @ \o s]
    /\ UNCHANGED <<link, peer, fdOf, sent>>
=============================================================================
