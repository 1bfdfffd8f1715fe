--------------------------- MODULE SelectServer ---------------------------
(***************************************************************************)
(* src/chap-22/nonblockingserver.cpp: one thread, select, non-blocking     *)
(* sockets, and a table of buffers indexed by descriptor that is never     *)
(* cleared. Lines are echoed rotated, once their newline has arrived. The  *)
(* length of a buffer's data is its writeIndex.                            *)
(***************************************************************************)
EXTENDS Sockets, SequencesExt

CONSTANTS
    MAX_LINE,       \* size of a buffer
    FD_INIT_SIZE    \* size of the table

VARIABLES
    pc,             \* "wait" (select), "accept", "scan", "wild" (beyond the table)
    buffer,         \* buffer[f]: connect_fd, data, readIndex, readable
    readset, writeset,
    inherited       \* history: what c found in the buffer of its descriptor

selectVars == <<buffer, readset, writeset, inherited>>
vars == <<sockVars, pc, selectVars>>

Table == {f \in Fds : f < FD_INIT_SIZE}

SelectTypeOK ==
    /\ pc \in {"wait", "accept", "scan", "wild"}
    /\ \A f \in Table :
        /\ buffer[f].connect_fd \in {0, f} /\ buffer[f].readable \in BOOLEAN
        /\ buffer[f].data \in Seq(Bytes) /\ Len(buffer[f].data) <= MAX_LINE
        /\ buffer[f].readIndex \in 0 .. Len(buffer[f].data)
    /\ readset \subseteq Table /\ writeset \subseteq Table
    /\ inherited \in [Clients -> Seq(Bytes)]

Start ==
    /\ buffer = [f \in Table |-> [connect_fd |-> 0, data |-> <<>>, readIndex |-> 0,
                                  readable |-> FALSE]]
    /\ readset = {} /\ writeset = {}
    /\ inherited = [c \in Clients |-> <<>>]
Init == SocketsInit(Clients) /\ pc = "wait" /\ Start

Unsent(b) == SubSeq(b.data, b.readIndex + 1, Len(b.data))

Select ==
    LET used == {f \in Table : buffer[f].connect_fd > 0}
        ready == {f \in used : Readable(Owner(f))}
        writable == {f \in used : buffer[f].readable /\ peer[Owner(f)] # "stalled"}
    IN  /\ pc = "wait" /\ (Waiting # {} \/ ready # {} \/ writable # {})
        /\ readset' = ready /\ writeset' = writable
        /\ pc' = IF Waiting # {} THEN "accept" ELSE "scan"
        /\ UNCHANGED <<sockVars, buffer, inherited>>

\* The table has no element FD_INIT_SIZE, but the test lets that descriptor through. It
\* comes before any greater one, for which the server would end with an error.
AcceptClient ==
    LET fd == NewFd
        free == fd < FD_INIT_SIZE /\ buffer[fd].connect_fd = 0
    IN  /\ pc = "accept"
        /\ \E c \in Waiting :
            /\ Accept(c)
            /\ IF free
               THEN /\ buffer' = [buffer EXCEPT ![fd].connect_fd = fd]
                    /\ inherited' = [inherited EXCEPT ![c] = Unsent(buffer[fd])]
               ELSE UNCHANGED <<buffer, inherited>>
        /\ pc' = IF free THEN "scan" ELSE "wild"
        /\ UNCHANGED <<readset, writeset>>

\* Mutant: what arrives is stored without looking at the room that is left.
onSocketReadAll(b, in) ==
    [b EXCEPT !.data = @ \o [k \in DOMAIN in |-> rot13_char(in[k])],
              !.readable = @ \/ \E k \in DOMAIN in : EndsLine(in[k])]

\* The buffer after the bytes in were read: what does not fit is dropped.
onSocketRead(b, in) ==
    LET fits == Min({Len(in), MAX_LINE - Len(b.data)})
    IN  [b EXCEPT !.data = @ \o [k \in 1 .. fits |-> rot13_char(in[k])],
                  !.readable = @ \/ \E k \in DOMAIN in : EndsLine(in[k])]

\* Mutant: readIndex stays after a short write.
onSocketWriteAgain(b, k) ==
    IF k < Len(Unsent(b)) THEN b
    ELSE [b EXCEPT !.data = <<>>, !.readIndex = 0, !.readable = FALSE]

\* The buffer after the kernel took k bytes: it starts anew once all were taken.
onSocketWrite(b, k) ==
    IF k < Len(Unsent(b)) THEN [b EXCEPT !.readIndex = @ + k]
    ELSE [b EXCEPT !.data = <<>>, !.readIndex = 0, !.readable = FALSE]

ToScan == readset \cup writeset
atFd == Min(ToScan)
client == Owner(atFd)
Scanned ==
    /\ readset' = readset \ {atFd} /\ writeset' = writeset \ {atFd}
    /\ UNCHANGED <<pc, inherited>>

\* End of file and errors, noticed when reading or when writing, close the connection.
Lost == \/ atFd \in readset /\ peer[client] \in {"fin", "rst"}
        \/ atFd \in writeset /\ peer[client] = "rst"

CloseClient ==
    LET in == IF atFd \in readset THEN Arriving(client, Unread(client)) ELSE <<>>
    IN  /\ pc = "scan" /\ ToScan # {} /\ Lost
        /\ buffer' = [buffer EXCEPT ![atFd] = [onSocketRead(@, in) EXCEPT !.connect_fd = 0]]
        /\ link' = [link EXCEPT ![client] = "closed"]
        /\ got' = [got EXCEPT ![client] = @ + Len(in)]
        /\ UNCHANGED <<peer, fdOf, sent, outbox>>
        /\ Scanned

\* The kernel takes some of the bytes, and none from a client that does not read.
EchoClient ==
    LET in == IF atFd \in readset THEN Arriving(client, Unread(client)) ELSE <<>>
        b == onSocketRead(buffer[atFd], in)
    IN  /\ pc = "scan" /\ ToScan # {} /\ ~Lost
        /\ \E k \in 0 .. Len(Unsent(b)) :
            /\ IF atFd \in writeset /\ peer[client] # "stalled"
               THEN k > 0 \/ Unsent(b) = <<>>
               ELSE k = 0
            /\ buffer' = [buffer EXCEPT ![atFd] =
                    IF atFd \in writeset THEN onSocketWrite(b, k) ELSE b]
            /\ Exchange(client, Len(in), SubSeq(Unsent(b), 1, k))
        /\ Scanned

EndScan ==
    /\ pc = "scan" /\ ToScan = {}
    /\ pc' = "wait"
    /\ UNCHANGED <<sockVars, selectVars>>

Server == Select \/ AcceptClient \/ CloseClient \/ EchoClient \/ EndScan
Outside == Environment /\ UNCHANGED <<pc, selectVars>>
Next == Server \/ Outside

----------------------------------------------------------------------------

(* A client gets its own bytes, rotated and in the order it sent them, and *)
(* before them only what an earlier client left in the buffer of the same  *)
(* descriptor; nothing twice, however select, partial writes and full      *)
(* buffers cut the stream. The code never empties a buffer at close.       *)
OwnAfterInherited ==
    \A c \in Clients :
        LET own == [k \in 1 .. got[c] |-> rot13_char(Byte(c, k))]
            due == inherited[c] \o own
            place(b) == CHOOSE k \in DOMAIN due : due[k] = b
        IN  /\ \A k \in DOMAIN outbox[c] : outbox[c][k] \in ToSet(due)
            /\ \A j, k \in DOMAIN outbox[c] :
                    j < k => place(outbox[c][j]) < place(outbox[c][k])
=============================================================================
