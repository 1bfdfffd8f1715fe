------------------------------ MODULE Programs ------------------------------
(***************************************************************************)
(* The programs beside the library. A behaviour is one of one program,     *)
(* chosen at the start, so that the state space is the sum of theirs. The  *)
(* echo servers share the clients of Sockets. The other constants are each *)
(* one program's, named as in its module.                                  *)
(***************************************************************************)
EXTENDS Sockets, Heartbeat

CONSTANTS
    INIT_SIZE, MAXLINE,         \* PollServer
    BUFSIZE,                    \* EpollServer
    BufferSize, FD_INIT_SIZE,   \* SelectServer; the first is its MAX_LINE
    LineSize,                   \* MAX_LINE of ForkServer and ThreadServer
    INIT_POLL_SIZE,             \* PollLoop
    Scripts,                    \* HalfClose
    FIELD, BUFFER, Inputs,      \* MessageStream
    Commands,                   \* FileServer
    Typed, MaxLost, MaxCopied   \* Datagrams; the first is its Lines

ASSUME ProgramsAssumption ==
    /\ {INIT_SIZE, MAXLINE, BUFSIZE, BufferSize, FD_INIT_SIZE, LineSize, INIT_POLL_SIZE,
        FIELD} \subseteq Nat \ {0}
    /\ INIT_POLL_SIZE > 1           \* its first two slots are the loop's own
    /\ {BUFFER, MaxLost, MaxCopied} \subseteq Nat
    /\ Scripts \subseteq Seq({"line", "shutdown", "close"}) /\ Scripts # {}
    /\ Inputs \subseteq Seq(Nat) /\ Inputs # {}
    /\ Commands \in Seq(Seq([op : {"pwd", "ls", "other", "quit", "cd", "list"},
                             path : STRING]))
    /\ Typed \in Seq(Seq({"short", "long", "goodbye"}))

VARIABLES
    program,
    pc, ready_number, i, outbuf,                                \* used by several
    event_set, revents, buf,                                    \* PollServer
    edges, batch, errs, n, socket_fd, missed,                   \* EpollServer
    buffer, readset, writeset, inherited,                       \* SelectServer
    current, child, sigchld, handling,                          \* ForkServer
    fd, thread, serves,                                         \* ThreadServer
    pollfd, entries, reported, refused,                         \* PollLoop
    script, arrived, buffered, taken, cli, srv, written,        \* HalfClose
    unread, held, coming, printed, reset,
    lengths, queued, delivered, ended, reading, have, consumed, received,   \* MessageStream
    mode, serving, cwd, broken, conn, gone, typed, took, answers, seen, hurried,  \* FileServer
    kind, at, message, client_addr, served, inbox, flight, failing, user,     \* Datagrams
    asked, mail, heard, lost, copied, unsent, mixed

Poll == INSTANCE PollServer
Select == INSTANCE SelectServer WITH MAX_LINE <- BufferSize
Fork == INSTANCE ForkServer WITH MAX_LINE <- LineSize
Thread == INSTANCE ThreadServer WITH MAX_LINE <- LineSize
Loop == INSTANCE PollLoop
Epoll(which) == INSTANCE EpollServer
Half == INSTANCE HalfClose
Msg == INSTANCE MessageStream
Files == INSTANCE FileServer
Udp == INSTANCE Datagrams WITH Lines <- Typed

EpollNumber == [epoll1 |-> 1, epoll2 |-> 2, epoll3 |-> 3]
Servers == {"poll", "select", "fork", "thread", "loop"} \cup DOMAIN EpollNumber
Programs == Servers \cup {"heartbeat", "halfclose", "messages", "files", "datagrams"}

----------------------------------------------------------------------------
programsVars ==
    <<program, sockVars, pc, heartbeatVars, ready_number, i, outbuf, event_set, revents, buf,
      edges, batch, errs, n, socket_fd, missed, buffer, readset, writeset, inherited,
      current, child, sigchld, handling, fd, thread, serves, pollfd, entries, reported,
      refused, script, arrived, buffered, taken, cli, srv, written, unread, held, coming,
      printed, reset, lengths, queued, delivered, ended, reading, have, consumed, received,
      mode, serving, cwd, broken, conn, gone, typed, took, answers, seen, hurried,
      kind, at, message, client_addr, served, inbox, flight, failing, user, asked, mail,
      heard, lost, copied, unsent, mixed>>

\* What the other programs' modules declare stays as it is in a step of program p.
Idle(p) ==
    /\ UNCHANGED program
    /\ IF p \in Servers THEN TRUE ELSE UNCHANGED <<sockVars, pc>>
    /\ IF p \in {"poll", "loop"} THEN TRUE ELSE UNCHANGED ready_number
    /\ IF p \in {"poll", "loop"} \cup DOMAIN EpollNumber THEN TRUE ELSE UNCHANGED i
    /\ IF p \in {"fork", "thread"} THEN TRUE ELSE UNCHANGED outbuf
    /\ IF p = "poll" THEN TRUE ELSE UNCHANGED <<event_set, revents, buf>>
    /\ IF p \in DOMAIN EpollNumber THEN TRUE
       ELSE UNCHANGED <<edges, batch, errs, n, socket_fd, missed>>
    /\ IF p = "select" THEN TRUE ELSE UNCHANGED <<buffer, readset, writeset, inherited>>
    /\ IF p = "fork" THEN TRUE ELSE UNCHANGED <<current, child, sigchld, handling>>
    /\ IF p = "thread" THEN TRUE ELSE UNCHANGED <<fd, thread, serves>>
    /\ IF p = "loop" THEN TRUE ELSE UNCHANGED <<pollfd, entries, reported, refused>>
    /\ IF p = "heartbeat" THEN TRUE ELSE UNCHANGED heartbeatVars
    /\ IF p = "halfclose" THEN TRUE
       ELSE UNCHANGED <<script, arrived, buffered, taken, cli, srv, written, unread, held,
                        coming, printed, reset>>
    /\ IF p = "messages" THEN TRUE
       ELSE UNCHANGED <<lengths, queued, delivered, ended, reading, have, consumed, received>>
    /\ IF p = "files" THEN TRUE
       ELSE UNCHANGED <<mode, serving, cwd, broken, conn, gone, typed, took, answers, seen,
                        hurried>>
    /\ IF p = "datagrams" THEN TRUE
       ELSE UNCHANGED <<kind, at, message, client_addr, served, inbox, flight, failing,
                        user, asked, mail, heard, lost, copied, unsent, mixed>>

Init ==
    /\ program \in Programs
    /\ SocketsInit(IF program \in DOMAIN EpollNumber THEN {1, 2} ELSE Clients)
    /\ pc = "wait"
    /\ Poll!Start /\ Epoll(1)!Start /\ Select!Start /\ Fork!Start /\ Thread!Start
    /\ Loop!Start /\ Half!Start /\ HeartbeatInit /\ Msg!Start /\ Files!Start /\ Udp!Start
    /\ program # "heartbeat" => sleepingtime = 0 /\ ~stdin
    /\ program # "halfclose" => script = CHOOSE s \in Scripts : TRUE
    /\ program # "messages" => lengths = CHOOSE s \in Inputs : TRUE
    /\ program # "datagrams" => kind = "plain" /\ message[1] = Udp!End

Runs(p) == program = p /\ Idle(p)

\* Steps of the programs themselves.
MainStep ==
    \/ Runs("poll") /\ Poll!Server
    \/ \E p \in DOMAIN EpollNumber : Runs(p) /\ Epoll(EpollNumber[p])!Server
    \/ Runs("select") /\ Select!Server
    \/ Runs("fork") /\ Fork!Parent
    \/ Runs("thread") /\ Thread!Main
    \/ Runs("loop") /\ Loop!Server
ChildStep(c) ==
    \/ Runs("fork") /\ Fork!Child(c)
    \/ Runs("thread") /\ Thread!Thread(c)

Next ==
    \/ MainStep
    \/ \E c \in Clients : ChildStep(c)
    \/ Runs("poll") /\ Poll!Outside
    \/ \E p \in DOMAIN EpollNumber : Runs(p) /\ Epoll(EpollNumber[p])!Outside
    \/ Runs("select") /\ Select!Outside
    \/ Runs("fork") /\ Fork!Outside
    \/ Runs("thread") /\ Thread!Outside
    \/ Runs("loop") /\ Loop!Outside
    \/ Runs("halfclose") /\ Half!Next
    \/ Runs("heartbeat") /\ HeartbeatNext
    \/ Runs("messages") /\ Msg!StreamNext
    \/ Runs("files") /\ Files!FilesNext
    \/ Runs("datagrams") /\ Udp!DatagramsNext

\* Every process and thread that can run does run; clients need not do anything.
ProgramsSpec == Init /\ [][Next]_programsVars
FairSpec ==
    /\ ProgramsSpec
    /\ WF_programsVars(MainStep)
    /\ \A c \in Clients : WF_programsVars(ChildStep(c))
----------------------------------------------------------------------------

TypeOK ==
    /\ program \in Programs /\ SocketsTypeOK
    /\ program = "heartbeat" => HeartbeatTypeOK
    /\ program = "halfclose" => Half!HalfCloseTypeOK
    /\ program = "messages" => Msg!MessageStreamTypeOK
    /\ program = "files" => Files!FilesTypeOK
    /\ program = "datagrams" => Udp!DatagramsTypeOK
    /\ program = "poll" => Poll!PollTypeOK
    /\ program = "select" => Select!SelectTypeOK
    /\ program = "fork" => Fork!ForkTypeOK
    /\ program = "thread" => Thread!ThreadTypeOK
    /\ program = "loop" => Loop!PollLoopTypeOK
    /\ program \in DOMAIN EpollNumber => Epoll(EpollNumber[program])!EpollTypeOK

----------------------------------------------------------------------------
(* The echo servers implement EchoService. *)

Lines(c) == {k \in DOMAIN Text[c] : Text[c][k]}

\* Where the last whole line in c's first k bytes ends.
LinesEnd(c, k) == Max({0} \cup {m \in Lines(c) : m <= k})

\* What fork01 keeps of c's first k bytes: the start of each line.
LineStarts(c) ==
    LET kept[k \in Nat] ==
            IF k = 0 THEN <<>>
            ELSE IF k - LinesEnd(c, k - 1) <= LineSize + 1
            THEN Append(kept[k - 1], rot13_char(Byte(c, k))) ELSE kept[k - 1]
    IN  kept

\* What each server answers to c's first k bytes: fork01 whole lines only.
AnswerTo(c, k) ==
    CASE program = "loop" -> [m \in 1 .. k |-> rot13_char(Byte(c, m))]
      [] program = "fork" -> LineStarts(c)[LinesEnd(c, k)]
      [] OTHER -> [m \in 1 .. k |-> Byte(c, m)]

Echoes == {"poll", "fork", "loop"}
Echo == INSTANCE EchoService WITH
    answer <- [c \in Clients |->
                IF program \in Echoes THEN AnswerTo(c, Len(Text[c])) ELSE <<>>],
    sent <- IF program \in Echoes THEN sent ELSE [c \in Clients |-> 0],
    outbox <- IF program \in Echoes THEN outbox ELSE [c \in Clients |-> <<>>]

(* The poll server, the fork server and the library's poll loop send each  *)
(* client the answer to its own text, in order, without a gap, nothing     *)
(* twice and nothing before it was asked for, although they share one      *)
(* buffer or one array between all clients. The edge-triggered epoll       *)
(* server does not (OwnBytesInOrder).                                      *)
EchoImplemented == Echo!Spec

(* The select server and the thread server mix clients up, in a shared     *)
(* table of buffers and through main's variable. What they send a client   *)
(* is its own, after what the buffer held of an earlier client if any, and *)
(* no byte twice; the thread server has a thread for the newest connection.*)
(* The file server's clients share its directory, never their answers. UDP *)
(* clients hear answers to their own lines, but for the server that takes  *)
(* up what others sent before it connected. The epoll server sends in      *)
(* order what it sends, and leaves a gap only to a client that reads       *)
(* slowly.                                                                 *)
ClientsKeptApart ==
    /\ program = "epoll1" => Epoll(1)!OwnBytesInOrder
    /\ program = "select" => Select!OwnAfterInherited
    /\ program = "thread" => Thread!OwnBytesOnce /\ Thread!NewestServed
    /\ program = "files" => Files!PatientClientsAnswered
    /\ program = "datagrams" => Udp!AnswersOwn /\ Udp!WaitsOnlyForLost

(* The array that a server hands to poll agrees with its connections,      *)
(* while the scan over the array changes it.                               *)
TablesMatch ==
    /\ program = "poll" => Poll!TableMatches
    /\ program = "loop" => Loop!ScanMatchesPoll

----------------------------------------------------------------------------
(* What can go wrong, and through whom. *)

Stopped == pc \in {"dead", "wild", "past"}
Harmful(kinds) == \E c \in Open : peer[c] \in kinds
Overfull ==
    CASE program = "poll" -> \A s \in DOMAIN event_set : event_set[s] # NoFd
      [] program = "select" -> \E c \in Open : fdOf[c] \notin DOMAIN buffer
      [] OTHER -> FALSE

(* A server that serves all clients in one process ends only because one   *)
(* of them reset its connection, because one does not read (the epoll and  *)
(* library servers take a full socket for an error), or because there are  *)
(* more clients than its table has room for. Clients that connect, send    *)
(* and half-close in any order do not end it. Nor do clients that wait for *)
(* their answers end the file server, but by listing what is not there.    *)
OrderlyClientsHarmless ==
    /\ Stopped => \/ Harmful({"rst"})
                  \/ program \in {"epoll1", "loop"} /\ Harmful({"stalled"})
                  \/ Overfull
    /\ program = "files" => Files!PatientClientsHarmless

\* Bytes of answer that c has a right to. The select server cuts a line to what its buffer
\* has room for: one byte at least. So does the epoll server, if c reads slowly, with what
\* it reads at a time.
Owed(c) ==
    CASE program \in Echoes -> Len(AnswerTo(c, sent[c]))
      [] program = "epoll1" /\ c \notin Stallers -> sent[c]
      [] program = "epoll1" /\ c \in Stallers -> (sent[c] + BUFSIZE - 1) \div BUFSIZE
      [] program = "select" -> IF \E k \in Lines(c) : k <= sent[c] THEN 1 ELSE 0
      [] OTHER -> 0

Excused(c) ==
    \/ Stopped \/ peer[c] \in {"stalled", "rst"}
    \/ program = "poll" /\ Harmful({"stalled"})        \* main waits in its write
    \/ program = "select" /\ peer[c] = "fin"           \* closed before the answer is written
    \/ program = "fork" /\ link[c] = "closed"          \* the fork failed
    \/ program = "loop" /\ fdOf[c] \in refused         \* no slot in the array
    \/ /\ program = "epoll1"
       /\ \/ fdOf[c] \in missed                        \* the batch ended too early
          \/ /\ link[c] = "waiting"                    \* one accept for each edge
             /\ c > 1 \/ 0 \in missed

(* A client that has sent a whole line (a byte, where bytes are echoed) is *)
(* answered, whatever the others do, unless one of the listed events keeps *)
(* the server from it.                                                     *)
Answered == []<>(\A c \in Clients : Len(outbox[c]) >= Owed(c) \/ Excused(c))

----------------------------------------------------------------------------
(* Processes and streams. *)

(* Every child of fork01 that ends is reaped, and its connection is closed *)
(* then, although SIGCHLDs that come together count as one and come while  *)
(* the parent is anywhere in its loop, between accept and close too.       *)
ZombiesReaped ==
    []<>(\A c \in Clients :
            child[c] \in {"zombie", "reaped"} => child[c] = "reaped" /\ link[c] = "closed")

(* The client that ends with shutdown sees all its answers, and only close *)
(* makes the server fail: see HalfClose.                                   *)
ShutdownGetsAnswers == program = "halfclose" => Half!ShutdownGetsAnswers

(* The server takes each message as it was sent, wherever the stream was   *)
(* cut, and never a part of one: see MessageStream.                        *)
MessagesWhole == program = "messages" => Msg!MessagesWhole
=============================================================================
