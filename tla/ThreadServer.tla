---------------------------- MODULE ThreadServer ----------------------------
(***************************************************************************)
(* src/chap-26/thread01.cpp with echo.h: main accepts and creates a thread *)
(* for each client, to which it passes the address of its variable fd. The *)
(* thread reads that variable when it first runs. No connection is closed, *)
(* so a descriptor stays with its client.                                  *)
(***************************************************************************)
EXTENDS Sockets

CONSTANT MAX_LINE           \* bytes of a line a thread keeps

VARIABLES
    pc,             \* main: "wait" (accept), "create", "dead" (the process has ended)
    fd,             \* main's variable
    thread,         \* thread[c]: "none", "start", "run", "end": the one created for c
    serves,         \* serves[c]: the descriptor that thread has read
    outbuf          \* outbuf[c]: the line that thread is collecting

threadVars == <<fd, thread, serves, outbuf>>
vars == <<sockVars, pc, threadVars>>

ThreadTypeOK ==
    /\ pc \in {"wait", "create", "dead"}
    /\ fd \in Fds \cup {NoFd}
    /\ thread \in [Clients -> {"none", "start", "run", "end"}]
    /\ serves \in [Clients -> Fds \cup {NoFd}]
    /\ \A t \in Clients : outbuf[t] \in Seq(Bytes) /\ Len(outbuf[t]) <= MAX_LINE + 1

Start ==
    /\ fd = NoFd
    /\ thread = [t \in Clients |-> "none"]
    /\ serves = [t \in Clients |-> NoFd]
    /\ outbuf = [t \in Clients |-> <<>>]
Init == SocketsInit(Clients) /\ pc = "wait" /\ Start

AcceptClient ==
    /\ pc = "wait"
    /\ \E c \in Waiting : Accept(c)
    /\ fd' = NewFd
    /\ pc' = "create"
    /\ UNCHANGED <<thread, serves, outbuf>>

\* A failure of pthread_create is not noticed.
CreateThread ==
    /\ pc = "create"
    /\ thread' \in {[thread EXCEPT ![Owner(fd)] = "start"], thread}
    /\ pc' = "wait"
    /\ UNCHANGED <<sockVars, fd, serves, outbuf>>

thread_run(t) ==
    /\ pc # "dead" /\ thread[t] = "start"
    /\ serves' = [serves EXCEPT ![t] = fd]
    /\ thread' = [thread EXCEPT ![t] = "run"]
    /\ UNCHANGED <<sockVars, pc, fd, outbuf>>

\* A byte that ends a line sends it. The send waits for a client that does not read,
\* and its failure is not looked at.
EchoByte(t) ==
    LET c == Owner(serves[t])
        b == Byte(c, got[c] + 1)
        line == IF Len(outbuf[t]) <= MAX_LINE
                THEN Append(outbuf[t], rot13_char(b)) ELSE outbuf[t]
    IN  /\ pc # "dead" /\ thread[t] = "run" /\ Unread(c) > 0
        /\ EndsLine(b) => peer[c] # "stalled"
        /\ outbuf' = [outbuf EXCEPT ![t] = IF EndsLine(b) THEN <<>> ELSE line]
        /\ Exchange(c, 1, IF EndsLine(b) /\ peer[c] # "rst" THEN line ELSE <<>>)
        /\ UNCHANGED <<pc, fd, thread, serves>>

\* End of file ends the thread; a reset ends the process, but reads as end of file when
\* the client had half-closed before or a send has been told of it.
EndEcho(t) ==
    LET c == Owner(serves[t])
    IN  /\ pc # "dead" /\ thread[t] = "run" /\ Unread(c) = 0
        /\ \/ /\ peer[c] \in {"fin", "rst"}
              /\ thread' = [thread EXCEPT ![t] = "end"]
              /\ UNCHANGED pc
           \/ peer[c] = "rst" /\ pc' = "dead" /\ UNCHANGED thread
        /\ UNCHANGED <<sockVars, fd, serves, outbuf>>

Main == AcceptClient \/ CreateThread
Thread(t) == thread_run(t) \/ EchoByte(t) \/ EndEcho(t)
Outside == Environment /\ UNCHANGED <<pc, threadVars>>
Next == Main \/ Outside \/ \E t \in Clients : Thread(t)

----------------------------------------------------------------------------

(* Whatever descriptor the threads find in main's variable, and however    *)
(* two of them share a connection, a client is sent only its own bytes,    *)
(* rotated, and none of them twice.                                        *)
OwnBytesOnce ==
    \A c \in Clients :
        /\ \A k \in DOMAIN outbox[c] :
            outbox[c][k] \in {rot13_char(Byte(c, m)) : m \in 1 .. got[c]}
        /\ \A j, k \in DOMAIN outbox[c] : outbox[c][j] = outbox[c][k] => j = k

(* The connection accepted last has a thread that serves it or that is     *)
(* still to read main's variable, whose address it was given; an earlier   *)
(* one may have none, since the next accept overwrites that variable.      *)
NewestServed ==
    pc = "wait" /\ fd # NoFd /\ thread[Owner(fd)] # "none" =>
        \E t \in Clients : thread[t] = "start" \/ serves[t] = fd
=============================================================================
