---------------------------- MODULE ForkServer ----------------------------
(***************************************************************************)
(* src/chap-25/fork01.cpp: the parent accepts and forks a child for each   *)
(* client; the child reads byte by byte and echoes each line rotated. Both *)
(* processes hold the connection, which is closed when both have let go.   *)
(* SIGCHLD interrupts the parent anywhere; while its handler runs, further *)
(* ones are held back, and any number of them counts as one.               *)
(***************************************************************************)
EXTENDS Sockets

CONSTANT MAX_LINE           \* bytes of a line the child keeps

VARIABLES
    pc,             \* the parent: "wait" (accept), "fork", "close"
    current,        \* the client it has accepted last
    child,          \* child[c]: "none", "run", "zombie", "reaped"
    outbuf,         \* outbuf[c]: the line c's child is collecting
    sigchld,        \* a SIGCHLD is pending
    handling        \* the parent is in sigchld_handler

forkVars == <<current, child, outbuf, sigchld, handling>>
vars == <<sockVars, pc, forkVars>>

ForkTypeOK ==
    /\ pc \in {"wait", "fork", "close"}
    /\ current \in Clients \cup {NoFd}
    /\ child \in [Clients -> {"none", "run", "zombie", "reaped"}]
    /\ outbuf \in [Clients -> Seq(Bytes)]
    /\ sigchld \in BOOLEAN /\ handling \in BOOLEAN

Start ==
    /\ current = NoFd
    /\ child = [c \in Clients |-> "none"]
    /\ outbuf = [c \in Clients |-> <<>>]
    /\ sigchld = FALSE /\ handling = FALSE
Init == SocketsInit(Clients) /\ pc = "wait" /\ Start

AcceptClient ==
    /\ pc = "wait" /\ ~handling
    /\ \E c \in Waiting : Accept(c) /\ current' = c
    /\ pc' = "fork"
    /\ UNCHANGED <<child, outbuf, sigchld, handling>>

\* The fork may fail: the parent does not tell that from being the parent.
Fork ==
    /\ pc = "fork" /\ ~handling
    /\ child' \in {[child EXCEPT ![current] = "run"], child}
    /\ pc' = "close"
    /\ UNCHANGED <<sockVars, current, outbuf, sigchld, handling>>

\* The parent's copy of the connection has gone: the last one, unless the child runs.
ParentClose ==
    /\ pc = "close" /\ ~handling
    /\ fdOf' = [fdOf EXCEPT ![current] = NoFd]
    /\ link' = IF child[current] = "run" THEN link ELSE [link EXCEPT ![current] = "closed"]
    /\ pc' = "wait"
    /\ UNCHANGED <<peer, sent, got, outbox, forkVars>>

\* Mutant: the handler waits for one child, where the code loops.
HandlerOnce ==
    \/ /\ sigchld /\ ~handling
       /\ sigchld' = FALSE /\ handling' = TRUE
       /\ UNCHANGED child
    \/ /\ handling
       /\ \E c \in Clients : child[c] = "zombie" /\ child' = [child EXCEPT ![c] = "reaped"]
       /\ handling' = FALSE
       /\ UNCHANGED sigchld

Handler ==
    \/ /\ sigchld /\ ~handling
       /\ sigchld' = FALSE /\ handling' = TRUE
       /\ UNCHANGED child
    \/ /\ handling
       /\ \E c \in Clients : child[c] = "zombie" /\ child' = [child EXCEPT ![c] = "reaped"]
       /\ UNCHANGED <<sigchld, handling>>
    \/ /\ handling /\ \A c \in Clients : child[c] # "zombie"
       /\ handling' = FALSE
       /\ UNCHANGED <<child, sigchld>>

sigchld_handler == Handler /\ UNCHANGED <<sockVars, pc, current, outbuf>>

\* Mutant: a long line is not cut.
ChildReadsUncut(c) ==
    LET b == Byte(c, got[c] + 1)
        line == Append(outbuf[c], rot13_char(b))
    IN  /\ child[c] = "run" /\ Unread(c) > 0
        /\ EndsLine(b) => peer[c] # "stalled"
        /\ outbuf' = [outbuf EXCEPT ![c] = IF EndsLine(b) THEN <<>> ELSE line]
        /\ Exchange(c, 1, IF EndsLine(b) /\ peer[c] # "rst" THEN line ELSE <<>>)
        /\ UNCHANGED <<pc, current, child, sigchld, handling>>

\* A byte that ends a line sends it. The send waits for a client that does not read,
\* and its failure is not looked at.
ChildReads(c) ==
    LET b == Byte(c, got[c] + 1)
        line == IF Len(outbuf[c]) <= MAX_LINE
                THEN Append(outbuf[c], rot13_char(b)) ELSE outbuf[c]
    IN  /\ child[c] = "run" /\ Unread(c) > 0
        /\ EndsLine(b) => peer[c] # "stalled"
        /\ outbuf' = [outbuf EXCEPT ![c] = IF EndsLine(b) THEN <<>> ELSE line]
        /\ Exchange(c, 1, IF EndsLine(b) /\ peer[c] # "rst" THEN line ELSE <<>>)
        /\ UNCHANGED <<pc, current, child, sigchld, handling>>

\* End of file or an error: the child exits.
ChildExits(c) ==
    /\ child[c] = "run" /\ Unread(c) = 0 /\ peer[c] \in {"fin", "rst"}
    /\ child' = [child EXCEPT ![c] = "zombie"]
    /\ sigchld' = TRUE
    /\ link' = IF fdOf[c] = NoFd THEN [link EXCEPT ![c] = "closed"] ELSE link
    /\ UNCHANGED <<peer, fdOf, sent, got, outbox, pc, current, outbuf, handling>>

Parent == AcceptClient \/ Fork \/ ParentClose \/ sigchld_handler
Child(c) == ChildReads(c) \/ ChildExits(c)
Outside == Environment /\ UNCHANGED <<pc, forkVars>>
Next == Parent \/ Outside \/ \E c \in Clients : Child(c)
=============================================================================
