---------------------------- MODULE ClientsProofs ----------------------------
(***************************************************************************)
(* Proofs about what the clients of a server do to each other, for every   *)
(* number of clients, texts and commands: whose bytes a client is sent by  *)
(* a server that mixes its clients up, what may end a server, that the     *)
(* servers that do not mix them up implement EchoService, and the types of *)
(* all programs.                                                           *)
(***************************************************************************)
EXTENDS StreamsProofs

-----------------------------------------------------------------------------
(* Sequences of different bytes *)

Distinct(s) == \A j, k \in DOMAIN s : s[j] = s[k] => j = k
Disjoint(s, t) == \A j \in DOMAIN s, k \in DOMAIN t : s[j] # t[k]

OwnOf(c) == {Rotated(c, m) : m \in 1 .. got[c]}

LEMMA CatMembers ==
    ASSUME NEW S, NEW s \in Seq(S), NEW t \in Seq(S)
    PROVE  \A k \in DOMAIN (s \o t) : \/ \E j \in DOMAIN s : (s \o t)[k] = s[j]
                                      \/ \E j \in DOMAIN t : (s \o t)[k] = t[j]
<1>1. /\ \A k \in 1 .. Len(s) + Len(t) :
            (s \o t)[k] = IF k <= Len(s) THEN s[k] ELSE t[k - Len(s)]
      /\ Len(s) \in Nat /\ Len(t) \in Nat
      /\ DOMAIN s = 1 .. Len(s) /\ DOMAIN t = 1 .. Len(t)
      /\ DOMAIN (s \o t) = 1 .. Len(s) + Len(t)
  OBVIOUS
<1> SUFFICES ASSUME NEW k \in 1 .. Len(s) + Len(t)
             PROVE  \/ \E j \in DOMAIN s : (s \o t)[k] = s[j]
                    \/ \E j \in DOMAIN t : (s \o t)[k] = t[j]
  BY <1>1
<1>2. CASE k <= Len(s)
  BY <1>1, <1>2
<1>3. CASE k > Len(s)
  <2>1. k - Len(s) \in DOMAIN t
    BY <1>1, <1>3
  <2> QED
    BY <1>1, <1>3, <2>1
<1> QED
  BY <1>1, <1>2, <1>3

LEMMA CatDistinct ==
    ASSUME NEW S, NEW s \in Seq(S), NEW t \in Seq(S), Distinct(s), Distinct(t), Disjoint(s, t)
    PROVE  Distinct(s \o t)
<1>1. /\ Len(s) \in Nat /\ Len(t) \in Nat /\ Len(s \o t) = Len(s) + Len(t)
      /\ DOMAIN s = 1 .. Len(s) /\ DOMAIN t = 1 .. Len(t)
      /\ DOMAIN (s \o t) = 1 .. Len(s) + Len(t)
      /\ \A k \in 1 .. Len(s) + Len(t) :
            (s \o t)[k] = IF k <= Len(s) THEN s[k] ELSE t[k - Len(s)]
  OBVIOUS
<1> SUFFICES ASSUME NEW j \in 1 .. Len(s) + Len(t), NEW k \in 1 .. Len(s) + Len(t),
                    (s \o t)[j] = (s \o t)[k]
             PROVE  j = k
  BY <1>1 DEF Distinct
<1>2. CASE j <= Len(s) /\ k <= Len(s)
  BY <1>1, <1>2 DEF Distinct
<1>3. CASE j > Len(s) /\ k > Len(s)
  <2>1. j - Len(s) \in DOMAIN t /\ k - Len(s) \in DOMAIN t
    BY <1>1, <1>3
  <2>2. t[j - Len(s)] = t[k - Len(s)]
    BY <1>1, <1>3
  <2> QED
    BY <1>1, <2>1, <2>2 DEF Distinct
<1>4. CASE j <= Len(s) /\ k > Len(s)
  <2>1. j \in DOMAIN s /\ k - Len(s) \in DOMAIN t /\ s[j] = t[k - Len(s)]
    BY <1>1, <1>4
  <2> QED
    BY <2>1 DEF Disjoint
<1>5. CASE j > Len(s) /\ k <= Len(s)
  <2>1. k \in DOMAIN s /\ j - Len(s) \in DOMAIN t /\ s[k] = t[j - Len(s)]
    BY <1>1, <1>5
  <2> QED
    BY <2>1 DEF Disjoint
<1> QED
  BY <1>1, <1>2, <1>3, <1>4, <1>5

-----------------------------------------------------------------------------
(* The thread per connection server of chap-26 *)

\* Threads serve accepted connections; the last accepted has a thread, unless
\* pthread_create failed.
ThreadsInv ==
    /\ thread \in [Clients -> {"none", "start", "run", "end"}]
    /\ serves \in [Clients -> Fds \cup {NoFd}]
    /\ fd # NoFd => fd \in Accepted
    /\ pc = "create" => fd # NoFd /\ \A c \in Open : fdOf[c] = fd => thread[c] = "none"
    /\ \A t \in Clients :
        /\ thread[t] # "none" => t \in Open /\ fd # NoFd
        /\ thread[t] \in {"run", "end"} => serves[t] \in Accepted
        /\ thread[t] \in {"none", "start"} => outbuf[t] = <<>>
    /\ pc = "wait" => \A c \in Open : fdOf[c] = fd /\ thread[c] # "none" =>
            \E t \in Clients : thread[t] = "start" \/ serves[t] = fd

\* A byte that was read is in one place: with a thread of its connection or
\* sent to the client it came from.
BytesInv ==
    /\ outbox \in [Clients -> Seq(Bytes)] /\ outbuf \in [Clients -> Seq(Bytes)]
    /\ got \in [Clients -> Nat]
    /\ \A c \in Clients : /\ Distinct(outbox[c])
                          /\ \A k \in DOMAIN outbox[c] : outbox[c][k] \in OwnOf(c)
    /\ \A t \in Clients : /\ Distinct(outbuf[t])
                          /\ \A c \in Open : thread[t] \in {"run", "end"} /\ fdOf[c] = serves[t] =>
                                \A k \in DOMAIN outbuf[t] : outbuf[t][k] \in OwnOf(c)
    /\ \A t, u \in Clients : t # u => Disjoint(outbuf[t], outbuf[u])
    /\ \A t, c \in Clients : Disjoint(outbuf[t], outbox[c])

ThreadInv == SocketsInv /\ ThreadsInv /\ BytesInv

LEMMA ThreadInit == Init /\ program = "thread" => ThreadInv
<1> SUFFICES ASSUME Init, program = "thread" PROVE ThreadInv
  OBVIOUS
<1>1. SocketsInit(Clients) /\ pc = "wait" /\ fd = NoFd
      /\ thread = [t \in Clients |-> "none"] /\ serves = [t \in Clients |-> NoFd]
      /\ outbuf = [t \in Clients |-> <<>>]
  <2>1. program \notin DOMAIN EpollNumber /\ NoFd = Thread!NoFd /\ Clients = Thread!Clients
    BY DEF EpollNumber, NoFd, Thread!NoFd, Clients, Thread!Clients
  <2> QED
    BY <2>1 DEF Init, Thread!Start
<1>2. SocketsInv /\ Open = {}
  BY <1>1 DEF SocketsInit, SocketsInv, Open
<1>3. ThreadsInv
  BY <1>1, <1>2 DEF ThreadsInv
<1>4. BytesInv
  <2>1. got = [c \in Clients |-> 0] /\ outbox = [c \in Clients |-> <<>>]
    BY <1>1 DEF SocketsInit
  <2>2. \A c \in Clients : outbox[c] = <<>> /\ outbuf[c] = <<>> /\ DOMAIN <<>> = {}
    BY <1>1, <2>1
  <2> QED
    BY <1>1, <1>2, <2>1, <2>2 DEF BytesInv, Distinct, Disjoint
<1> QED
  BY <1>2, <1>3, <1>4 DEF ThreadInv

\* The bytes do not move, and no thread that has some changes what it serves.
LEMMA ThreadQuiet ==
    ASSUME ThreadInv, SocketsInv', UNCHANGED <<outbox, outbuf, got>>,
           Open \subseteq Open', \A c \in Open : fdOf'[c] = fdOf[c],
           \A t \in Clients : \/ thread'[t] \notin {"run", "end"}
                              \/ outbuf[t] = <<>>
                              \/ thread[t] \in {"run", "end"} /\ serves'[t] = serves[t]
    PROVE  BytesInv'
<1>1. ASSUME NEW t \in Clients, NEW c \in Open',
             thread'[t] \in {"run", "end"}, fdOf'[c] = serves'[t], NEW k \in DOMAIN outbuf[t]
      PROVE  outbuf[t][k] \in OwnOf(c)
  <2>1. outbuf[t] # <<>>
    <3>1. DOMAIN <<>> = {}
      OBVIOUS
    <3> QED
      BY <1>1, <3>1
  <2>2. thread[t] \in {"run", "end"} /\ serves'[t] = serves[t] /\ serves[t] \in Accepted
    BY <1>1, <2>1 DEF ThreadInv, ThreadsInv
  <2>3. PICK d \in Open : fdOf[d] = serves[t]
    BY <2>2 DEF Accepted
  <2>4. c = d
    BY <1>1, <2>2, <2>3 DEF SocketsInv
  <2> QED
    BY <1>1, <2>2, <2>3, <2>4 DEF ThreadInv, BytesInv
<1>2. \A t \in Clients : \A c \in Open' : thread'[t] \in {"run", "end"} /\ fdOf'[c] = serves'[t] =>
          \A k \in DOMAIN outbuf[t] : outbuf[t][k] \in OwnOf(c)
  BY <1>1
<1> QED
  BY <1>2 DEF ThreadInv, BytesInv, OwnOf

LEMMA ThreadAccepts ==
    ASSUME ThreadInv, Thread!AcceptClient
    PROVE  ThreadInv'
<1>1. /\ pc = "wait" /\ pc' = "create" /\ fd' = NewFd
      /\ \E c \in Waiting : Accept(c)
      /\ UNCHANGED <<thread, serves, outbuf>>
  BY DEF Thread!AcceptClient, Thread!Waiting, Waiting, Thread!NewFd, NewFd, Thread!Open, Open,
         Thread!Clients, Clients, Thread!Accept, Accept, Thread!Min, Min
<1>2. PICK c \in Waiting : Accept(c)
  BY <1>1
<1>3. /\ SocketsInv' /\ Open' = Open \cup {c}
      /\ c \notin Open /\ fdOf'[c] = NewFd
      /\ \A d \in Open : fdOf'[d] = fdOf[d]
      /\ NewFd \in Fds /\ \A d \in Open : fdOf[d] # NewFd
  BY <1>2, AcceptKeeps DEF ThreadInv
<1>4. c \in Clients /\ UNCHANGED <<got, outbox>>
  BY <1>2 DEF Waiting, Accept
<1>5. ThreadsInv'
  <2>1. Accepted \subseteq Accepted' /\ NewFd \in Accepted'
    BY <1>3 DEF Accepted
  <2>2. fd' # NoFd /\ fd' \in Accepted'
    BY <1>1, <1>3, <2>1, FdsAreNats
  <2>3. \A d \in Open' : fdOf'[d] = fd' => thread'[d] = "none"
    BY <1>1, <1>3, <1>4 DEF ThreadInv, ThreadsInv
  <2>4. \A t \in Clients :
        /\ thread'[t] # "none" => t \in Open'
        /\ thread'[t] \in {"run", "end"} => serves'[t] \in Accepted'
        /\ thread'[t] \in {"none", "start"} => outbuf'[t] = <<>>
    BY <1>1, <1>3, <2>1 DEF ThreadInv, ThreadsInv
  <2> QED
    BY <1>1, <2>2, <2>3, <2>4 DEF ThreadInv, ThreadsInv
<1>6. BytesInv'
  BY <1>1, <1>3, <1>4, ThreadQuiet DEF ThreadInv, BytesInv
<1> QED
  BY <1>3, <1>5, <1>6 DEF ThreadInv

LEMMA ThreadCreates ==
    ASSUME ThreadInv, Thread!CreateThread
    PROVE  ThreadInv'
<1>1. /\ pc = "create" /\ pc' = "wait" /\ UNCHANGED <<fd, serves, outbuf, link, fdOf, got, outbox>>
      /\ thread' \in {[thread EXCEPT ![Owner(fd)] = "start"], thread}
  BY DEF Thread!CreateThread, Thread!sockVars, Thread!Owner, Owner, Thread!Open, Open,
         Thread!Clients, Clients
<1>2. SocketsInv' /\ Open' = Open /\ Accepted' = Accepted
  BY <1>1, SameConnections DEF ThreadInv, Accepted
<1>3. fd # NoFd /\ \A c \in Open : fdOf[c] = fd => thread[c] = "none"
  BY <1>1 DEF ThreadInv, ThreadsInv
<1>4. PICK c \in Open : fdOf[c] = fd
  BY <1>3 DEF ThreadInv, ThreadsInv, Accepted
<1>5. Owner(fd) = c /\ c \in Clients /\ thread[c] = "none"
  BY <1>3, <1>4, OwnerOf DEF ThreadInv, Open
<1>6. CASE thread' = thread
  <2>1. \A d \in Open' : fdOf'[d] = fd' => thread'[d] = "none"
    BY <1>1, <1>2, <1>3, <1>6
  <2>2. ThreadsInv'
    BY <1>1, <1>2, <1>3, <1>6, <2>1 DEF ThreadInv, ThreadsInv
  <2>3. BytesInv'
    BY <1>1, <1>2, <1>6, ThreadQuiet DEF ThreadInv, ThreadsInv
  <2> QED
    BY <1>2, <2>2, <2>3 DEF ThreadInv
<1>7. CASE thread' = [thread EXCEPT ![c] = "start"]
  <2>1. /\ thread' \in [Clients -> {"none", "start", "run", "end"}] /\ thread'[c] = "start"
        /\ \A t \in Clients : t # c => thread'[t] = thread[t]
    BY <1>5, <1>7 DEF ThreadInv, ThreadsInv
  <2>2. \A t \in Clients :
        /\ thread'[t] # "none" => t \in Open'
        /\ thread'[t] \in {"run", "end"} => serves'[t] \in Accepted'
        /\ thread'[t] \in {"none", "start"} => outbuf'[t] = <<>>
    <3> SUFFICES ASSUME NEW t \in Clients
                 PROVE  /\ thread'[t] # "none" => t \in Open'
                        /\ thread'[t] \in {"run", "end"} => serves'[t] \in Accepted'
                        /\ thread'[t] \in {"none", "start"} => outbuf'[t] = <<>>
      OBVIOUS
    <3>1. CASE t = c
      BY <1>1, <1>2, <1>4, <1>5, <2>1, <3>1 DEF ThreadInv, ThreadsInv
    <3>2. CASE t # c
      BY <1>1, <1>2, <2>1, <3>2 DEF ThreadInv, ThreadsInv
    <3> QED
      BY <3>1, <3>2
  <2>3. ThreadsInv'
    BY <1>1, <1>2, <1>3, <1>5, <2>1, <2>2 DEF ThreadInv, ThreadsInv
  <2>4. BytesInv'
    BY <1>1, <1>2, <1>5, <2>1, ThreadQuiet DEF ThreadInv, ThreadsInv
  <2> QED
    BY <1>2, <2>3, <2>4 DEF ThreadInv
<1> QED
  BY <1>1, <1>5, <1>6, <1>7

LEMMA ThreadRuns ==
    ASSUME ThreadInv, NEW t \in Clients, Thread!thread_run(t) \/ Thread!EndEcho(t)
    PROVE  ThreadInv'
<1>1. UNCHANGED <<fd, outbuf, link, fdOf, got, outbox>> /\ pc # "dead" /\ pc' \in {pc, "dead"}
  BY DEF Thread!thread_run, Thread!EndEcho, Thread!sockVars
<1>2. SocketsInv' /\ Open' = Open /\ Accepted' = Accepted
  BY <1>1, SameConnections DEF ThreadInv, Accepted
<1>3. CASE Thread!thread_run(t)
  <2>1. /\ thread[t] = "start" /\ pc' = pc
        /\ thread' = [thread EXCEPT ![t] = "run"] /\ serves' = [serves EXCEPT ![t] = fd]
    BY <1>3 DEF Thread!thread_run
  <2>2. t \in Open /\ fd \in Accepted /\ fd \in Fds
    <3>1. t \in Open /\ fd \in Accepted
      BY <2>1 DEF ThreadInv, ThreadsInv
    <3> QED
      BY <3>1 DEF ThreadInv, SocketsInv, Accepted
  <2>3. /\ thread' \in [Clients -> {"none", "start", "run", "end"}]
        /\ serves' \in [Clients -> Fds \cup {NoFd}]
        /\ thread'[t] = "run" /\ serves'[t] = fd
        /\ \A u \in Clients : u # t => thread'[u] = thread[u] /\ serves'[u] = serves[u]
    BY <2>1, <2>2 DEF ThreadInv, ThreadsInv
  <2>4. \A u \in Clients :
        /\ thread'[u] # "none" => u \in Open'
        /\ thread'[u] \in {"run", "end"} => serves'[u] \in Accepted'
        /\ thread'[u] \in {"none", "start"} => outbuf'[u] = <<>>
    <3> SUFFICES ASSUME NEW u \in Clients
                 PROVE  /\ thread'[u] # "none" => u \in Open'
                        /\ thread'[u] \in {"run", "end"} => serves'[u] \in Accepted'
                        /\ thread'[u] \in {"none", "start"} => outbuf'[u] = <<>>
      OBVIOUS
    <3>1. CASE u = t
      BY <1>2, <2>2, <2>3, <3>1
    <3>2. CASE u # t
      BY <1>1, <1>2, <2>3, <3>2 DEF ThreadInv, ThreadsInv
    <3> QED
      BY <3>1, <3>2
  <2>5. \A c \in Clients : thread'[c] = "none" <=> thread[c] = "none"
    BY <2>1, <2>3
  <2>6. \E u \in Clients : thread'[u] = "start" \/ serves'[u] = fd'
    BY <1>1, <2>3
  <2>7. pc' = "create" => fd' # NoFd /\ \A c \in Open' : fdOf'[c] = fd' => thread'[c] = "none"
    BY <1>1, <1>2, <2>1, <2>5 DEF ThreadInv, ThreadsInv, Open
  <2>8. ThreadsInv'
    <3>1. \A u \in Clients : thread'[u] # "none" => fd' # NoFd
      BY <1>1, <2>5 DEF ThreadInv, ThreadsInv
    <3>2. fd' # NoFd => fd' \in Accepted'
      BY <1>1, <1>2 DEF ThreadInv, ThreadsInv
    <3> QED
      BY <2>3, <2>4, <2>6, <2>7, <3>1, <3>2 DEF ThreadsInv
  <2>9. BytesInv'
    <3>1. outbuf[t] = <<>>
      BY <2>1 DEF ThreadInv, ThreadsInv
    <3> QED
      BY <1>1, <1>2, <2>3, <3>1, ThreadQuiet DEF ThreadInv, ThreadsInv
  <2> QED
    BY <1>2, <2>8, <2>9 DEF ThreadInv
<1>4. CASE Thread!EndEcho(t)
  <2>1. /\ thread[t] = "run" /\ serves' = serves
        /\ thread' = [thread EXCEPT ![t] = "end"] \/ thread' = thread
    BY <1>4 DEF Thread!EndEcho
  <2>2. /\ thread' \in [Clients -> {"none", "start", "run", "end"}]
        /\ \A u \in Clients : /\ thread'[u] \in {"run", "end"} <=> thread[u] \in {"run", "end"}
                              /\ thread'[u] = "none" <=> thread[u] = "none"
                              /\ thread'[u] = "start" <=> thread[u] = "start"
    BY <2>1 DEF ThreadInv, ThreadsInv
  <2>3. ThreadsInv'
    <3>1. \A u \in Clients :
            /\ thread'[u] # "none" => u \in Open' /\ fd' # NoFd
            /\ thread'[u] \in {"run", "end"} => serves'[u] \in Accepted'
            /\ thread'[u] \in {"none", "start"} => outbuf'[u] = <<>>
      BY <1>1, <1>2, <2>1, <2>2 DEF ThreadInv, ThreadsInv
    <3>2. pc' = "create" => fd' # NoFd /\ \A c \in Open' : fdOf'[c] = fd' => thread'[c] = "none"
      BY <1>1, <1>2, <2>2 DEF ThreadInv, ThreadsInv, Open
    <3>3. pc' = "wait" => \A c \in Open' : fdOf'[c] = fd' /\ thread'[c] # "none" =>
            \E u \in Clients : thread'[u] = "start" \/ serves'[u] = fd'
      BY <1>1, <1>2, <2>1, <2>2 DEF ThreadInv, ThreadsInv, Open
    <3>4. (fd' # NoFd => fd' \in Accepted') /\ serves' \in [Clients -> Fds \cup {NoFd}]
      BY <1>1, <1>2, <2>1 DEF ThreadInv, ThreadsInv
    <3> QED
      BY <2>2, <3>1, <3>2, <3>3, <3>4 DEF ThreadsInv
  <2>4. BytesInv'
    BY <1>1, <1>2, <2>1, <2>2, ThreadQuiet DEF ThreadInv, ThreadsInv
  <2> QED
    BY <1>2, <2>3, <2>4 DEF ThreadInv
<1> QED
  BY <1>3, <1>4

LEMMA ThreadRotates == \A c, m : Thread!rot13_char(Thread!Byte(c, m)) = Rotated(c, m)
<1> SUFFICES ASSUME NEW c, NEW m PROVE Thread!rot13_char(Thread!Byte(c, m)) = Rotated(c, m)
  OBVIOUS
<1>1. Thread!Byte(c, m).rot = FALSE
  BY DEF Thread!Byte
<1>2. (~Thread!Byte(c, m).rot) = TRUE
  BY <1>1
<1>3. Thread!rot13_char(Thread!Byte(c, m)) = [Thread!Byte(c, m) EXCEPT !.rot = TRUE]
  BY <1>2 DEF Thread!rot13_char
<1> QED
  BY <1>3 DEF Thread!Byte, Rotated

LEMMA ThreadEchoes ==
    ASSUME ThreadInv, NEW t \in Clients, Thread!EchoByte(t)
    PROVE  ThreadInv'
<1>0. PICK c \in Open : fdOf[c] = serves[t] /\ Owner(serves[t]) = c
  <2>1. thread[t] = "run"
    BY DEF Thread!EchoByte
  <2>2. PICK c \in Open : fdOf[c] = serves[t]
    BY <2>1 DEF ThreadInv, ThreadsInv, Accepted
  <2> QED
    BY <2>2, OwnerOf DEF ThreadInv
<1>a. PICK new : new = Rotated(c, got[c] + 1)
  OBVIOUS
<1>1. PICK line, X :
        /\ thread[t] = "run" /\ UNCHANGED <<pc, fd, thread, serves, link, fdOf>>
        /\ line \in {outbuf[t], Append(outbuf[t], new)}
        /\ got' = [got EXCEPT ![c] = @ + 1]
        /\ outbox' = [outbox EXCEPT ![c] = @ \o X]
        /\ \/ X \in {line, <<>>} /\ outbuf' = [outbuf EXCEPT ![t] = <<>>]
           \/ X = <<>> /\ outbuf' = [outbuf EXCEPT ![t] = line]
  <2> DEFINE b == Thread!Byte(c, got[c] + 1)
             line == IF Len(outbuf[t]) <= LineSize THEN Append(outbuf[t], new) ELSE outbuf[t]
             X == IF Thread!EndsLine(b) /\ peer[c] # "rst" THEN line ELSE <<>>
  <2>1. Thread!rot13_char(b) = new
    BY <1>a, ThreadRotates
  <2>2. Thread!Owner(serves[t]) = c
    BY <1>0 DEF Thread!Owner, Owner, Thread!Open, Open, Thread!Clients, Clients
  <2>3. /\ thread[t] = "run" /\ UNCHANGED <<pc, fd, thread, serves, link, fdOf>>
        /\ got' = [got EXCEPT ![c] = @ + 1]
        /\ outbox' = [outbox EXCEPT ![c] = @ \o X]
        /\ outbuf' = [outbuf EXCEPT ![t] = IF Thread!EndsLine(b) THEN <<>> ELSE line]
    BY <2>1, <2>2 DEF Thread!EchoByte, Thread!Exchange
  <2>4. \/ X \in {line, <<>>} /\ outbuf' = [outbuf EXCEPT ![t] = <<>>]
        \/ X = <<>> /\ outbuf' = [outbuf EXCEPT ![t] = line]
    BY <2>3
  <2>5. line \in {outbuf[t], Append(outbuf[t], new)}
    OBVIOUS
  <2> QED
    BY <2>3, <2>4, <2>5
<1>2. /\ c \in Clients /\ got[c] \in Nat /\ got \in [Clients -> Nat]
      /\ SocketsInv' /\ Open' = Open /\ Accepted' = Accepted
  <2>1. c \in Clients
    BY DEF Open
  <2>2. SocketsInv' /\ Open' = Open /\ Accepted' = Accepted
    BY <1>1, SameConnections DEF ThreadInv, Accepted
  <2> QED
    BY <2>1, <2>2 DEF ThreadInv, BytesInv
<1>3. new \in Bytes /\ new.from = c /\ new.num = got[c] + 1
  BY <1>a, <1>2 DEF Bytes, Rotated
<1>4. /\ got' \in [Clients -> Nat] /\ got'[c] = got[c] + 1
      /\ \A d \in Clients : d # c => got'[d] = got[d]
  BY <1>1, <1>2 DEF ThreadInv, BytesInv
<1>5. /\ new \in OwnOf(c)'
      /\ \A d \in Clients : new \notin OwnOf(d) /\ OwnOf(d) \subseteq OwnOf(d)'
  <2>2. new \in OwnOf(c)'
    BY <1>a, <1>2, <1>4 DEF OwnOf
  <2>3. ASSUME NEW d \in Clients PROVE new \notin OwnOf(d)
    <3> SUFFICES ASSUME NEW m \in 1 .. got[d], Rotated(d, m) = new PROVE FALSE
      BY DEF OwnOf
    <3>1. d = c /\ m = got[c] + 1
      BY <1>3, <1>a DEF Rotated
    <3> QED
      BY <1>2, <3>1
  <2>4. ASSUME NEW d \in Clients PROVE OwnOf(d) \subseteq OwnOf(d)'
    <3>1. got[d] \in Nat /\ got'[d] \in Nat /\ got[d] <= got'[d]
      <4>1. CASE d = c
        BY <1>2, <1>4, <4>1
      <4>2. CASE d # c
        BY <1>2, <1>4, <4>2
      <4> QED
        BY <4>1, <4>2
    <3> QED
      BY <3>1 DEF OwnOf
  <2> QED
    BY <2>2, <2>3, <2>4
<1>6. /\ line \in Seq(Bytes) /\ Distinct(line)
      /\ \A k \in DOMAIN line : line[k] \in OwnOf(c)'
      /\ \A u \in Clients : u # t => Disjoint(line, outbuf[u]) /\ Disjoint(outbuf[u], line)
      /\ \A d \in Clients : Disjoint(line, outbox[d])
  <2>1. /\ outbuf[t] \in Seq(Bytes) /\ Distinct(outbuf[t])
        /\ \A k \in DOMAIN outbuf[t] : outbuf[t][k] \in OwnOf(c)
    BY <1>0, <1>1, <1>2 DEF ThreadInv, BytesInv
  <2>2. CASE line = outbuf[t]
    BY <1>2, <1>5, <2>1, <2>2 DEF ThreadInv, BytesInv, Disjoint
  <2>3. CASE line = Append(outbuf[t], new)
    <3>1. /\ line \in Seq(Bytes) /\ Len(outbuf[t]) \in Nat
          /\ DOMAIN outbuf[t] = 1 .. Len(outbuf[t])
          /\ DOMAIN line = 1 .. Len(outbuf[t]) + 1 /\ line[Len(outbuf[t]) + 1] = new
          /\ \A k \in 1 .. Len(outbuf[t]) : line[k] = outbuf[t][k]
      BY <1>3, <2>1, <2>3
    <3>2. \A k \in DOMAIN line : line[k] = new \/ \E j \in DOMAIN outbuf[t] : line[k] = outbuf[t][j]
      <4> SUFFICES ASSUME NEW k \in DOMAIN line, line[k] # new
                   PROVE  \E j \in DOMAIN outbuf[t] : line[k] = outbuf[t][j]
        OBVIOUS
      <4>1. k \in 1 .. Len(outbuf[t])
        BY <3>1
      <4> QED
        BY <3>1, <4>1
    <3>3. \A k \in DOMAIN outbuf[t] : outbuf[t][k] # new
      BY <1>2, <1>5, <2>1
    <3>4. Distinct(line)
      <4> SUFFICES ASSUME NEW j \in DOMAIN line, NEW k \in DOMAIN line, line[j] = line[k]
                   PROVE  j = k
        BY DEF Distinct
      <4>1. CASE j = Len(outbuf[t]) + 1 /\ k = Len(outbuf[t]) + 1
        BY <4>1
      <4>2. CASE j \in DOMAIN outbuf[t] /\ k \in DOMAIN outbuf[t]
        BY <2>1, <3>1, <4>2 DEF Distinct
      <4>3. CASE j = Len(outbuf[t]) + 1 /\ k \in DOMAIN outbuf[t]
        BY <3>1, <3>3, <4>3
      <4>4. CASE k = Len(outbuf[t]) + 1 /\ j \in DOMAIN outbuf[t]
        BY <3>1, <3>3, <4>4
      <4> QED
        BY <3>1, <4>1, <4>2, <4>3, <4>4
    <3>5. \A k \in DOMAIN line : line[k] \in OwnOf(c)'
      BY <1>2, <1>5, <2>1, <3>2
    <3>6. ASSUME NEW u \in Clients, NEW k \in DOMAIN outbuf[u], u # t
          PROVE  outbuf[u][k] # new
      <4>1. outbuf[u] # <<>>
        <5>1. DOMAIN <<>> = {}
          OBVIOUS
        <5> QED
          BY <3>6, <5>1
      <4>2. thread[u] \in {"run", "end"} /\ serves[u] \in Accepted
        BY <4>1 DEF ThreadInv, ThreadsInv
      <4>3. PICK d \in Open : fdOf[d] = serves[u]
        BY <4>2 DEF Accepted
      <4>4. outbuf[u][k] \in OwnOf(d) /\ d \in Clients
        BY <3>6, <4>2, <4>3 DEF ThreadInv, BytesInv, Open
      <4> QED
        BY <1>5, <4>4
    <3>7. ASSUME NEW d \in Clients, NEW k \in DOMAIN outbox[d] PROVE outbox[d][k] # new
      BY <1>5 DEF ThreadInv, BytesInv
    <3>8. /\ \A u \in Clients : u # t => Disjoint(outbuf[t], outbuf[u])
          /\ \A d \in Clients : Disjoint(outbuf[t], outbox[d])
      BY DEF ThreadInv, BytesInv
    <3>9. \A u \in Clients : u # t => Disjoint(line, outbuf[u]) /\ Disjoint(outbuf[u], line)
      BY <3>2, <3>6, <3>8 DEF Disjoint
    <3>10. \A d \in Clients : Disjoint(line, outbox[d])
      BY <3>2, <3>7, <3>8 DEF Disjoint
    <3> QED
      BY <3>1, <3>4, <3>5, <3>9, <3>10
  <2> QED
    BY <1>1, <2>2, <2>3
<1>7. /\ Distinct(<<>>) /\ <<>> \in Seq(Bytes)
      /\ \A s : Disjoint(<<>>, s) /\ Disjoint(s, <<>>)
  <2>1. DOMAIN <<>> = {}
    OBVIOUS
  <2> QED
    BY <2>1 DEF Distinct, Disjoint
<1>8. /\ X \in Seq(Bytes) /\ Distinct(X) /\ (X = line \/ X = <<>>)
      /\ \A k \in DOMAIN X : X[k] \in OwnOf(c)'
      /\ \A d \in Clients : Disjoint(outbox[d], X)
  <2>1. CASE X = <<>>
    BY <1>7, <2>1
  <2>2. CASE X = line
    BY <1>6, <2>2 DEF Disjoint
  <2> QED
    BY <1>1, <2>1, <2>2
<1>9. /\ outbox' \in [Clients -> Seq(Bytes)] /\ outbox'[c] = outbox[c] \o X
      /\ \A d \in Clients : d # c => outbox'[d] = outbox[d]
      /\ Distinct(outbox'[c])
      /\ \A k \in DOMAIN outbox'[c] : \/ \E j \in DOMAIN outbox[c] : outbox'[c][k] = outbox[c][j]
                                      \/ \E j \in DOMAIN X : outbox'[c][k] = X[j]
  <2>1. outbox[c] \in Seq(Bytes) /\ Distinct(outbox[c]) /\ outbox \in [Clients -> Seq(Bytes)]
    BY <1>2 DEF ThreadInv, BytesInv
  <2>2. outbox[c] \o X \in Seq(Bytes)
    BY <1>8, <2>1
  <2>3. /\ outbox' \in [Clients -> Seq(Bytes)] /\ outbox'[c] = outbox[c] \o X
        /\ \A d \in Clients : d # c => outbox'[d] = outbox[d]
    BY <1>1, <1>2, <2>1, <2>2
  <2>4. Distinct(outbox[c] \o X)
    BY <1>2, <1>8, <2>1, CatDistinct
  <2>5. \A k \in DOMAIN (outbox[c] \o X) :
            \/ \E j \in DOMAIN outbox[c] : (outbox[c] \o X)[k] = outbox[c][j]
            \/ \E j \in DOMAIN X : (outbox[c] \o X)[k] = X[j]
    <3>1. outbox[c] \in Seq(Bytes) /\ X \in Seq(Bytes)
      BY <1>8, <2>1
    <3>2. \A p, q \in Seq(Bytes) : \A k \in DOMAIN (p \o q) :
            \/ \E j \in DOMAIN p : (p \o q)[k] = p[j]
            \/ \E j \in DOMAIN q : (p \o q)[k] = q[j]
      BY CatMembers
    <3> QED
      BY <3>1, <3>2, Zenon
  <2> QED
    BY <2>3, <2>4, <2>5
<1>10. \A d \in Clients : Distinct(outbox'[d]) /\ \A k \in DOMAIN outbox'[d] : outbox'[d][k] \in OwnOf(d)'
  <2> SUFFICES ASSUME NEW d \in Clients
               PROVE  Distinct(outbox'[d]) /\ \A k \in DOMAIN outbox'[d] : outbox'[d][k] \in OwnOf(d)'
    OBVIOUS
  <2>1. Distinct(outbox[d]) /\ \A k \in DOMAIN outbox[d] : outbox[d][k] \in OwnOf(d)'
    BY <1>5 DEF ThreadInv, BytesInv
  <2>2. CASE d = c
    BY <1>8, <1>9, <2>1, <2>2
  <2>3. CASE d # c
    BY <1>9, <2>1, <2>3
  <2> QED
    BY <2>2, <2>3
<1>11. PICK rest \in Seq(Bytes) :
        /\ (rest = line /\ X = <<>>) \/ rest = <<>>
        /\ outbuf' = [outbuf EXCEPT ![t] = rest]
  BY <1>1, <1>6, <1>7
<1>12. /\ Distinct(rest) /\ \A k \in DOMAIN rest : rest[k] \in OwnOf(c)'
       /\ \A u \in Clients : u # t => Disjoint(rest, outbuf[u]) /\ Disjoint(outbuf[u], rest)
       /\ \A d \in Clients : Disjoint(rest, outbox'[d])
  <2>1. CASE rest = <<>>
    BY <1>7, <2>1
  <2>2. CASE rest = line /\ X = <<>>
    <3>1. DOMAIN X = {}
      BY <2>2
    <3>2. ASSUME NEW d \in Clients PROVE Disjoint(line, outbox'[d])
      <4>1. Disjoint(line, outbox[d])
        BY <1>6
      <4>2. CASE d = c
        BY <1>9, <3>1, <4>1, <4>2 DEF Disjoint
      <4>3. CASE d # c
        BY <1>9, <4>1, <4>3
      <4> QED
        BY <4>2, <4>3
    <3> QED
      BY <1>6, <2>2, <3>2
  <2> QED
    BY <1>11, <2>1, <2>2
<1>13. /\ outbuf' \in [Clients -> Seq(Bytes)] /\ outbuf'[t] = rest
       /\ \A u \in Clients : u # t => outbuf'[u] = outbuf[u]
  BY <1>11 DEF ThreadInv, BytesInv
<1>14. BytesInv'
  <2>1. \A u \in Clients : Distinct(outbuf'[u])
    BY <1>12, <1>13 DEF ThreadInv, BytesInv
  <2>2. ASSUME NEW u \in Clients, NEW d \in Open', thread'[u] \in {"run", "end"},
               fdOf'[d] = serves'[u], NEW k \in DOMAIN outbuf'[u]
        PROVE  outbuf'[u][k] \in OwnOf(d)'
    <3>1. d \in Open /\ thread[u] \in {"run", "end"} /\ fdOf[d] = serves[u] /\ d \in Clients
      BY <1>1, <1>2, <2>2 DEF Open
    <3>2. CASE u = t
      <4>1. d = c
        BY <1>0, <3>1, <3>2 DEF ThreadInv, SocketsInv
      <4> QED
        BY <1>12, <1>13, <2>2, <3>2, <4>1
    <3>3. CASE u # t
      BY <1>5, <1>13, <2>2, <3>1, <3>3 DEF ThreadInv, BytesInv
    <3> QED
      BY <3>2, <3>3
  <2>3. ASSUME NEW u \in Clients, NEW v \in Clients, u # v
        PROVE  Disjoint(outbuf'[u], outbuf'[v])
    <3>1. Disjoint(outbuf[u], outbuf[v])
      BY <2>3 DEF ThreadInv, BytesInv
    <3> QED
      BY <1>12, <1>13, <2>3, <3>1
  <2>4. ASSUME NEW u \in Clients, NEW d \in Clients
        PROVE  Disjoint(outbuf'[u], outbox'[d])
    <3>1. CASE u = t
      BY <1>12, <1>13, <3>1
    <3>2. CASE u # t
      <4>1. Disjoint(outbuf[u], outbox[d]) /\ Disjoint(outbuf[u], X)
        BY <1>6, <1>7, <1>8, <3>2 DEF ThreadInv, BytesInv
      <4>2. CASE d = c
        <5>1. ASSUME NEW j \in DOMAIN outbuf[u], NEW k \in DOMAIN outbox'[c]
              PROVE  outbuf[u][j] # outbox'[c][k]
          <6>1. \/ \E q \in DOMAIN outbox[c] : outbox'[c][k] = outbox[c][q]
                \/ \E q \in DOMAIN X : outbox'[c][k] = X[q]
            BY <1>9
          <6>2. /\ \A q \in DOMAIN outbox[c] : outbuf[u][j] # outbox[c][q]
                /\ \A q \in DOMAIN X : outbuf[u][j] # X[q]
            BY <4>1, <4>2 DEF Disjoint
          <6> QED
            BY <6>1, <6>2
        <5> QED
          BY <1>13, <3>2, <4>2, <5>1 DEF Disjoint
      <4>3. CASE d # c
        BY <1>9, <1>13, <3>2, <4>1, <4>3
      <4> QED
        BY <4>2, <4>3
    <3> QED
      BY <3>1, <3>2
  <2>5. \A u \in Clients : \A d \in Open' : thread'[u] \in {"run", "end"} /\ fdOf'[d] = serves'[u] =>
            \A k \in DOMAIN outbuf'[u] : outbuf'[u][k] \in OwnOf(d)'
    BY <2>2
  <2> QED
    BY <1>4, <1>9, <1>10, <1>13, <2>1, <2>3, <2>4, <2>5 DEF BytesInv
<1>15. ThreadsInv'
  <2>1. \A u \in Clients : thread'[u] \in {"none", "start"} => outbuf'[u] = <<>>
    BY <1>1, <1>13 DEF ThreadInv, ThreadsInv
  <2> QED
    BY <1>1, <1>2, <2>1 DEF ThreadInv, ThreadsInv
<1> QED
  BY <1>2, <1>14, <1>15 DEF ThreadInv

LEMMA ThreadStep ==
    ASSUME ThreadInv,
           \/ Thread!Main \/ \E t \in Clients : Thread!Thread(t)
           \/ Thread!Outside \/ UNCHANGED programsVars
    PROVE  ThreadInv'
<1>1. CASE Thread!Outside \/ UNCHANGED programsVars
  <2>1. UNCHANGED <<pc, fd, thread, serves, outbuf, got, outbox>>
    BY <1>1 DEF Thread!Outside, Thread!threadVars, programsVars, sockVars, Thread!Environment,
                Thread!Connect, Thread!Send, Thread!Turn
  <2>2. SocketsInv' /\ Open' = Open /\ fdOf' = fdOf
    <3>1. CASE Thread!Outside
      <4>1. Environment
        BY <3>1 DEF Thread!Outside, Thread!Environment, Environment, Thread!Connect, Connect,
                    Thread!Send, Send, Thread!Turn, Turn, Thread!Connected, Connected,
                    Thread!Clients, Clients
      <4> QED
        BY <4>1, EnvironmentKeeps DEF ThreadInv
    <3>2. CASE UNCHANGED programsVars
      BY <3>2, SameConnections DEF ThreadInv, programsVars, sockVars
    <3> QED
      BY <1>1, <3>1, <3>2
  <2>3. Accepted' = Accepted
    BY <2>2 DEF Accepted
  <2>4. ThreadsInv'
    BY <2>1, <2>2, <2>3 DEF ThreadInv, ThreadsInv
  <2>5. BytesInv'
    BY <2>1, <2>2, ThreadQuiet DEF ThreadInv, ThreadsInv
  <2> QED
    BY <2>2, <2>4, <2>5 DEF ThreadInv
<1> QED
  BY <1>1, ThreadAccepts, ThreadCreates, ThreadRuns, ThreadEchoes DEF Thread!Main, Thread!Thread

LEMMA ThreadApart == ThreadInv => Thread!OwnBytesOnce /\ Thread!NewestServed
<1> SUFFICES ASSUME ThreadInv PROVE Thread!OwnBytesOnce /\ Thread!NewestServed
  OBVIOUS
<1>1. Thread!Clients = Clients /\ Thread!NoFd = NoFd /\ Thread!Open = Open
      /\ \A f : Thread!Owner(f) = Owner(f)
  BY DEF Thread!Clients, Clients, Thread!NoFd, NoFd, Thread!Open, Open, Thread!Owner, Owner
<1>2. Thread!OwnBytesOnce
  <2>2. \A c \in Clients : OwnOf(c) = {Thread!rot13_char(Thread!Byte(c, m)) : m \in 1 .. got[c]}
    BY ThreadRotates DEF OwnOf
  <2> QED
    BY <1>1, <2>2 DEF Thread!OwnBytesOnce, ThreadInv, BytesInv, Distinct
<1>3. Thread!NewestServed
  <2> SUFFICES ASSUME pc = "wait", fd # NoFd, thread[Owner(fd)] # "none"
               PROVE  \E t \in Clients : thread[t] = "start" \/ serves[t] = fd
    BY <1>1 DEF Thread!NewestServed
  <2>1. PICK c \in Open : fdOf[c] = fd
    BY DEF ThreadInv, ThreadsInv, Accepted
  <2>2. Owner(fd) = c
    BY <2>1, OwnerOf DEF ThreadInv
  <2> QED
    BY <2>1, <2>2 DEF ThreadInv, ThreadsInv
<1> QED
  BY <1>2, <1>3

-----------------------------------------------------------------------------
(* Sequences that keep the order of another *)

\* The elements of s are among those of d, in the order they have there.
Placed(s, d) ==
    \E place \in [DOMAIN s -> DOMAIN d] :
        /\ \A j, k \in DOMAIN s : j < k => place[j] < place[k]
        /\ \A k \in DOMAIN s : s[k] = d[place[k]]

LEMMA PlacedPart ==
    ASSUME NEW S, NEW t \in Seq(S), NEW u \in Seq(S), Len(t) <= Len(u),
           \A k \in 1 .. Len(t) : t[k] = u[k]
    PROVE  Placed(t, u)
<1>1. Len(t) \in Nat /\ Len(u) \in Nat /\ DOMAIN t = 1 .. Len(t) /\ DOMAIN u = 1 .. Len(u)
  OBVIOUS
<1> DEFINE p == [k \in DOMAIN t |-> k]
<1>2. p \in [DOMAIN t -> DOMAIN u] /\ \A k \in DOMAIN t : p[k] = k
  BY <1>1
<1> HIDE DEF p
<1> QED
  BY <1>1, <1>2 DEF Placed

LEMMA PlacedPrefix ==
    ASSUME NEW S, NEW s \in Seq(S), NEW t \in Seq(S), NEW d, Placed(s \o t, d)
    PROVE  Placed(s, d)
<1>1. PICK p \in [DOMAIN (s \o t) -> DOMAIN d] :
        /\ \A j, k \in DOMAIN (s \o t) : j < k => p[j] < p[k]
        /\ \A k \in DOMAIN (s \o t) : (s \o t)[k] = d[p[k]]
  BY DEF Placed
<1>2. DOMAIN s \subseteq DOMAIN (s \o t) /\ \A k \in DOMAIN s : (s \o t)[k] = s[k]
  <2>1. DOMAIN s = 1 .. Len(s) /\ DOMAIN (s \o t) = 1 .. Len(s) + Len(t)
        /\ Len(s) \in Nat /\ Len(t) \in Nat
    BY CatFacts
  <2>2. \A k \in 1 .. Len(s) : (s \o t)[k] = s[k]
    BY CatFacts
  <2> QED
    BY <2>1, <2>2
<1> DEFINE q == [k \in DOMAIN s |-> p[k]]
<1>3. q \in [DOMAIN s -> DOMAIN d] /\ \A k \in DOMAIN s : q[k] = p[k]
  BY <1>1, <1>2
<1>4. (\A j, k \in DOMAIN s : j < k => q[j] < q[k]) /\ \A k \in DOMAIN s : s[k] = d[q[k]]
  <2> HIDE DEF q
  <2> QED
    BY <1>1, <1>2, <1>3
<1> HIDE DEF q
<1> QED
  BY <1>3, <1>4 DEF Placed

LEMMA PlacedCat ==
    ASSUME NEW S, NEW s \in Seq(S), NEW t \in Seq(S), NEW d \in Seq(S), NEW u \in Seq(S),
           Placed(s, d), Placed(t, u)
    PROVE  Placed(s \o t, d \o u)
<1>1. PICK p \in [DOMAIN s -> DOMAIN d] :
        /\ \A j, k \in DOMAIN s : j < k => p[j] < p[k]
        /\ \A k \in DOMAIN s : s[k] = d[p[k]]
  BY DEF Placed
<1>2. PICK q \in [DOMAIN t -> DOMAIN u] :
        /\ \A j, k \in DOMAIN t : j < k => q[j] < q[k]
        /\ \A k \in DOMAIN t : t[k] = u[q[k]]
  BY DEF Placed
<1> DEFINE L == Len(s)
           M == Len(d)
           r == [k \in DOMAIN (s \o t) |-> IF k <= L THEN p[k] ELSE M + q[k - L]]
<1>3. /\ L \in Nat /\ Len(t) \in Nat /\ M \in Nat /\ Len(u) \in Nat
      /\ DOMAIN s = 1 .. L /\ DOMAIN t = 1 .. Len(t)
      /\ DOMAIN d = 1 .. M /\ DOMAIN u = 1 .. Len(u)
      /\ DOMAIN (s \o t) = 1 .. L + Len(t) /\ DOMAIN (d \o u) = 1 .. M + Len(u)
      /\ \A k \in 1 .. L : (s \o t)[k] = s[k]
      /\ \A k \in 1 .. Len(t) : (s \o t)[L + k] = t[k]
      /\ \A k \in 1 .. M : (d \o u)[k] = d[k]
      /\ \A k \in 1 .. Len(u) : (d \o u)[M + k] = u[k]
  BY CatFacts
<1> HIDE DEF L, M
<1>4. \A k \in DOMAIN (s \o t) :
        \/ k \in 1 .. L /\ r[k] = p[k] /\ p[k] \in 1 .. M
        \/ k - L \in 1 .. Len(t) /\ k > L /\ r[k] = M + q[k - L] /\ q[k - L] \in 1 .. Len(u)
  <2> SUFFICES ASSUME NEW k \in 1 .. L + Len(t)
               PROVE  \/ k \in 1 .. L /\ r[k] = p[k] /\ p[k] \in 1 .. M
                      \/ /\ k - L \in 1 .. Len(t) /\ k > L /\ r[k] = M + q[k - L]
                         /\ q[k - L] \in 1 .. Len(u)
    BY <1>3
  <2>1. r[k] = IF k <= L THEN p[k] ELSE M + q[k - L]
    BY <1>3
  <2> HIDE DEF r
  <2>2. CASE k <= L
    BY <1>3, <2>1, <2>2
  <2>3. CASE k > L
    <3>1. k - L \in 1 .. Len(t) /\ ~(k <= L)
      BY <1>3, <2>3
    <3> QED
      BY <1>3, <2>1, <2>3, <3>1
  <2> QED
    BY <1>3, <2>2, <2>3
<1> DEFINE dom == DOMAIN (s \o t)
<1>5. r \in [dom -> DOMAIN (d \o u)]
  <2>1. ASSUME NEW k \in dom PROVE r[k] \in 1 .. M + Len(u)
    <3> HIDE DEF r
    <3>1. CASE k \in 1 .. L /\ r[k] = p[k] /\ p[k] \in 1 .. M
      BY <1>3, <3>1
    <3>2. CASE k - L \in 1 .. Len(t) /\ r[k] = M + q[k - L] /\ q[k - L] \in 1 .. Len(u)
      <4> DEFINE v == q[k - L]
      <4>1. v \in 1 .. Len(u) /\ r[k] = M + v
        BY <3>2
      <4> HIDE DEF v
      <4> QED
        BY <1>3, <4>1
    <3> QED
      BY <1>4, <3>1, <3>2
  <2> QED
    BY <1>3, <2>1
<1> HIDE DEF r
<1>6. ASSUME NEW j \in dom, NEW k \in dom, j < k
      PROVE  r[j] < r[k]
  <2>1. CASE k \in 1 .. L /\ r[k] = p[k]
    <3>1. j \in 1 .. L /\ r[j] = p[j]
      BY <1>3, <1>4, <1>6, <2>1
    <3> QED
      BY <1>1, <1>3, <1>6, <2>1, <3>1
  <2>2. CASE k - L \in 1 .. Len(t) /\ k > L /\ r[k] = M + q[k - L] /\ q[k - L] \in 1 .. Len(u)
    <3>1. CASE j \in 1 .. L /\ r[j] = p[j] /\ p[j] \in 1 .. M
      BY <1>3, <2>2, <3>1
    <3>2. CASE j - L \in 1 .. Len(t) /\ r[j] = M + q[j - L] /\ q[j - L] \in 1 .. Len(u)
      <4>1. j - L < k - L
        BY <1>3, <1>6
      <4>2. q[j - L] < q[k - L]
        BY <1>2, <1>3, <2>2, <3>2, <4>1
      <4> QED
        BY <1>3, <2>2, <3>2, <4>2
    <3> QED
      BY <1>4, <3>1, <3>2
  <2> QED
    BY <1>4, <2>1, <2>2
<1>7. ASSUME NEW k \in dom
      PROVE  (s \o t)[k] = (d \o u)[r[k]]
  <2>1. CASE k \in 1 .. L /\ r[k] = p[k] /\ p[k] \in 1 .. M
    BY <1>1, <1>3, <2>1
  <2>2. CASE k - L \in 1 .. Len(t) /\ k > L /\ r[k] = M + q[k - L] /\ q[k - L] \in 1 .. Len(u)
    <3>1. (s \o t)[L + (k - L)] = t[k - L] /\ L + (k - L) = k
      <4>1. L + (k - L) = k
        BY <1>3
      <4>2. (s \o t)[L + (k - L)] = t[k - L]
        BY <1>3, <2>2
      <4> QED
        BY <4>1, <4>2
    <3>2. t[k - L] = u[q[k - L]]
      BY <1>2, <1>3, <2>2
    <3> QED
      BY <1>3, <2>2, <3>1, <3>2
  <2> QED
    BY <1>4, <2>1, <2>2
<1> HIDE DEF dom
<1>8. DOMAIN (s \o t) = dom
  BY DEF dom
<1> QED
  BY <1>5, <1>6, <1>7, <1>8 DEF Placed

\* Where elements are all different, their place tells the order.
LEMMA PlacedOrder ==
    ASSUME NEW s, NEW d, Placed(s, d), Distinct(d), DOMAIN d \subseteq Nat
    PROVE  /\ \A k \in DOMAIN s : \E m \in DOMAIN d : s[k] = d[m]
           /\ \A j, k \in DOMAIN s : j < k =>
                (CHOOSE m \in DOMAIN d : d[m] = s[j]) < (CHOOSE m \in DOMAIN d : d[m] = s[k])
<1>1. PICK p \in [DOMAIN s -> DOMAIN d] :
        /\ \A j, k \in DOMAIN s : j < k => p[j] < p[k]
        /\ \A k \in DOMAIN s : s[k] = d[p[k]]
  BY DEF Placed
<1>2. \A k \in DOMAIN s : p[k] \in DOMAIN d /\ (CHOOSE m \in DOMAIN d : d[m] = s[k]) = p[k]
  BY <1>1 DEF Distinct
<1> QED
  BY <1>1, <1>2

LEMMA DistinctRest ==
    ASSUME NEW S, NEW s \in Seq(S), NEW t \in Seq(S), Distinct(s \o t)
    PROVE  /\ Distinct(t)
           /\ \A k \in DOMAIN t : \E j \in DOMAIN (s \o t) : t[k] = (s \o t)[j]
<1>1. /\ Len(s) \in Nat /\ Len(t) \in Nat /\ DOMAIN t = 1 .. Len(t)
      /\ DOMAIN (s \o t) = 1 .. Len(s) + Len(t)
      /\ \A k \in 1 .. Len(t) : (s \o t)[Len(s) + k] = t[k]
  BY CatFacts
<1>2. \A k \in DOMAIN t : Len(s) + k \in DOMAIN (s \o t) /\ (s \o t)[Len(s) + k] = t[k]
  BY <1>1
<1>3. Distinct(t)
  <2> SUFFICES ASSUME NEW j \in DOMAIN t, NEW k \in DOMAIN t, t[j] = t[k] PROVE j = k
    BY DEF Distinct
  <2>1. Len(s) + j = Len(s) + k
    BY <1>2 DEF Distinct
  <2> QED
    BY <1>1, <2>1
<1> QED
  BY <1>2, <1>3

LEMMA SubSeqFacts ==
    ASSUME NEW S, NEW d \in Seq(S), NEW j \in 1 .. Len(d) + 1, NEW k \in 0 .. Len(d), j <= k + 1
    PROVE  /\ SubSeq(d, j, k) \in Seq(S) /\ Len(SubSeq(d, j, k)) = k + 1 - j
           /\ \A m \in 1 .. k + 1 - j : SubSeq(d, j, k)[m] = d[j - 1 + m]
<1>1. Len(d) \in Nat /\ \A m \in 1 .. Len(d) : d[m] \in S
  OBVIOUS
<1>2. j \in Int /\ k \in Int /\ \A m \in j .. k : d[m] \in S
  BY <1>1
<1>3. /\ SubSeq(d, j, k) \in Seq(S)
      /\ Len(SubSeq(d, j, k)) = IF j <= k THEN k - j + 1 ELSE 0
      /\ \A m \in 1 .. k - j + 1 : SubSeq(d, j, k)[m] = d[j + m - 1]
  BY <1>2, SubSeqProperties
<1>4. (IF j <= k THEN k - j + 1 ELSE 0) = k + 1 - j /\ k - j + 1 = k + 1 - j
      /\ \A m \in Int : j + m - 1 = j - 1 + m
  BY <1>1, <1>2
<1> QED
  BY <1>3, <1>4

LEMMA RestOfCat ==
    ASSUME NEW S, NEW d \in Seq(S), NEW x \in Seq(S), NEW r \in 0 .. Len(d)
    PROVE  SubSeq(d \o x, r + 1, Len(d \o x)) = SubSeq(d, r + 1, Len(d)) \o x
<1> DEFINE a == SubSeq(d \o x, r + 1, Len(d \o x))
           b == SubSeq(d, r + 1, Len(d))
           L == Len(d)
           X == Len(x)
<1>1. /\ d \o x \in Seq(S) /\ L \in Nat /\ X \in Nat /\ Len(d \o x) = L + X
      /\ \A k \in 1 .. L : (d \o x)[k] = d[k]
      /\ \A k \in 1 .. X : (d \o x)[L + k] = x[k]
  BY CatFacts
<1>2. /\ a \in Seq(S) /\ Len(a) = (L + X) + 1 - (r + 1)
      /\ \A m \in 1 .. (L + X) + 1 - (r + 1) : a[m] = (d \o x)[(r + 1) - 1 + m]
  <2>1. /\ r + 1 \in 1 .. Len(d \o x) + 1 /\ Len(d \o x) \in 0 .. Len(d \o x)
        /\ r + 1 <= Len(d \o x) + 1
    BY <1>1
  <2> HIDE DEF L, X
  <2> QED
    BY <1>1, <2>1, SubSeqFacts
<1>3. /\ b \in Seq(S) /\ Len(b) = L + 1 - (r + 1)
      /\ \A m \in 1 .. L + 1 - (r + 1) : b[m] = d[(r + 1) - 1 + m]
  <2>1. r + 1 \in 1 .. L + 1 /\ L \in 0 .. L /\ r + 1 <= L + 1
    BY <1>1
  <2> QED
    BY <2>1, SubSeqFacts
<1> HIDE DEF a, b
<1>4. /\ b \o x \in Seq(S) /\ Len(b \o x) = Len(b) + X
      /\ \A k \in 1 .. Len(b) : (b \o x)[k] = b[k]
      /\ \A k \in 1 .. X : (b \o x)[Len(b) + k] = x[k]
  <2>1. b \in Seq(S) /\ x \in Seq(S)
    BY <1>3
  <2> QED
    BY <2>1
<1> HIDE DEF L, X
<1>5. r \in Nat /\ r <= L /\ Len(a) = L + X - r /\ Len(b) = L - r /\ Len(b \o x) = L + X - r
  <2>1. r \in 0 .. L
    BY DEF L
  <2> QED
    BY <1>1, <1>2, <1>3, <1>4, <2>1
<1>6. ASSUME NEW m \in 1 .. Len(a) PROVE a[m] = (b \o x)[m]
  <2>1. a[m] = (d \o x)[r + m]
    BY <1>1, <1>2, <1>5
  <2>2. CASE m <= L - r
    <3>1. m \in 1 .. Len(b) /\ r + m \in 1 .. L /\ (r + 1) - 1 + m = r + m
          /\ m \in 1 .. L + 1 - (r + 1)
      BY <1>1, <1>5, <2>2
    <3> QED
      BY <1>1, <1>3, <1>4, <2>1, <3>1
  <2>3. CASE m > L - r
    <3> DEFINE k == m - (L - r)
    <3>1. k \in 1 .. X /\ m = Len(b) + k /\ r + m = L + k
      BY <1>1, <1>5, <2>3
    <3> HIDE DEF k
    <3> QED
      BY <1>1, <1>4, <2>1, <3>1
  <2> QED
    BY <1>1, <1>5, <2>2, <2>3
<1>7. a = b \o x
  BY <1>2, <1>4, <1>5, <1>6, SeqEqual
<1> QED
  BY <1>7 DEF a, b

LEMMA RestInParts ==
    ASSUME NEW S, NEW d \in Seq(S), NEW r \in 0 .. Len(d), NEW k \in 0 .. Len(d) - r
    PROVE  LET u == SubSeq(d, r + 1, Len(d))
           IN  SubSeq(u, 1, k) \o SubSeq(d, (r + k) + 1, Len(d)) = u
<1> DEFINE u == SubSeq(d, r + 1, Len(d))
           a == SubSeq(u, 1, k)
           b == SubSeq(d, (r + k) + 1, Len(d))
           L == Len(d)
<1>1. L \in Nat /\ r \in Nat /\ k \in Nat /\ r + k <= L
  OBVIOUS
<1>2. /\ u \in Seq(S) /\ Len(u) = L - r
      /\ \A m \in 1 .. L - r : u[m] = d[r + m]
  <2>1. r + 1 \in 1 .. L + 1 /\ L \in 0 .. L /\ r + 1 <= L + 1
    BY <1>1
  <2>2. /\ u \in Seq(S) /\ Len(u) = L + 1 - (r + 1)
        /\ \A m \in 1 .. L + 1 - (r + 1) : u[m] = d[(r + 1) - 1 + m]
    BY <2>1, SubSeqFacts
  <2>3. L + 1 - (r + 1) = L - r /\ \A m \in 1 .. L - r : (r + 1) - 1 + m = r + m
    BY <1>1
  <2> HIDE DEF u, L
  <2>4. \A m \in 1 .. L - r : u[m] = d[r + m]
    BY <2>2, <2>3
  <2> QED
    BY <2>2, <2>3, <2>4
<1>3. /\ b \in Seq(S) /\ Len(b) = L - r - k
      /\ \A m \in 1 .. L - r - k : b[m] = d[r + k + m]
  <2>1. (r + k) + 1 \in 1 .. L + 1 /\ L \in 0 .. L /\ (r + k) + 1 <= L + 1
    BY <1>1
  <2>2. /\ b \in Seq(S) /\ Len(b) = L + 1 - ((r + k) + 1)
        /\ \A m \in 1 .. L + 1 - ((r + k) + 1) : b[m] = d[((r + k) + 1) - 1 + m]
    BY <2>1, SubSeqFacts
  <2>3. L + 1 - ((r + k) + 1) = L - r - k /\ \A m \in Int : ((r + k) + 1) - 1 + m = r + k + m
    BY <1>1
  <2> HIDE DEF b, L
  <2> QED
    BY <2>2, <2>3
<1> HIDE DEF u, b
<1>4. /\ a \in Seq(S) /\ Len(a) = k
      /\ \A m \in 1 .. k : a[m] = u[m]
  <2>1. 1 \in 1 .. Len(u) + 1 /\ k \in 0 .. Len(u) /\ 1 <= k + 1
    BY <1>1, <1>2
  <2>2. /\ a \in Seq(S) /\ Len(a) = k + 1 - 1
        /\ \A m \in 1 .. k + 1 - 1 : a[m] = u[1 - 1 + m]
    BY <1>2, <2>1, SubSeqFacts
  <2> HIDE DEF a
  <2> QED
    BY <1>1, <2>2
<1> HIDE DEF a, L
<1>5. /\ a \o b \in Seq(S) /\ Len(a \o b) = L - r
      /\ \A m \in 1 .. k : (a \o b)[m] = a[m]
      /\ \A m \in 1 .. L - r - k : (a \o b)[k + m] = b[m]
  <2>1. /\ a \o b \in Seq(S) /\ Len(a \o b) = Len(a) + Len(b)
        /\ \A m \in 1 .. Len(a) : (a \o b)[m] = a[m]
        /\ \A m \in 1 .. Len(b) : (a \o b)[Len(a) + m] = b[m]
    <3>1. a \in Seq(S) /\ b \in Seq(S)
      BY <1>3, <1>4
    <3> QED
      BY <3>1
  <2>2. Len(a) = k /\ Len(b) = L - r - k /\ k + (L - r - k) = L - r
    BY <1>1, <1>3, <1>4
  <2> DEFINE w == a \o b
  <2> HIDE DEF w
  <2>3. /\ w \in Seq(S) /\ Len(w) = L - r
        /\ \A m \in 1 .. k : w[m] = a[m]
        /\ \A m \in 1 .. L - r - k : w[k + m] = b[m]
    BY <2>1, <2>2 DEF w
  <2> QED
    BY <2>3 DEF w
<1>6. ASSUME NEW m \in 1 .. Len(u) PROVE u[m] = (a \o b)[m]
  <2>1. CASE m <= k
    BY <1>1, <1>4, <1>5, <2>1
  <2>2. CASE m > k
    <3> DEFINE j == m - k
    <3>1. j \in 1 .. L - r - k /\ m = k + j /\ r + m = r + k + j /\ m \in 1 .. L - r
      BY <1>1, <1>2, <2>2
    <3> HIDE DEF j
    <3> QED
      BY <1>2, <1>3, <1>5, <3>1
  <2>3. m \in Nat /\ k \in Nat
    BY <1>1, <1>2
  <2>4. m <= k \/ m > k
    BY <2>3
  <2> QED
    BY <2>1, <2>2, <2>4, Zenon
<1>7. u = a \o b
  BY <1>2, <1>5, <1>6, SeqEqual
<1> QED
  BY <1>7 DEF u, a, b

-----------------------------------------------------------------------------
(* The select server of chap-22 *)

Buffers == [connect_fd : Nat, data : Seq(Bytes), readIndex : Nat, readable : BOOLEAN]
Fits(b) == b \in Buffers /\ b.readIndex <= Len(b.data) /\ Len(b.data) <= BufferSize

SelectTypes ==
    /\ got \in [Clients -> Nat] /\ sent \in [Clients -> Nat]
    /\ \A c \in Clients : got[c] <= sent[c]
    /\ outbox \in [Clients -> Seq(Bytes)] /\ inherited \in [Clients -> Seq(Bytes)]
    /\ buffer \in [Select!Table -> Buffers] /\ \A f \in Select!Table : Fits(buffer[f])

\* The buffers in use are those of open connections.
InUse == {f \in Select!Table : buffer[f].connect_fd # 0}
TableInv ==
    /\ InUse \subseteq Accepted
    /\ \A f \in InUse : buffer[f].connect_fd = f
    /\ readset \cup writeset \subseteq InUse

\* What c has a right to, in this order, and the bytes the server has read of anybody.
Due(c) == inherited[c] \o OwnUpTo(c, got[c])
IsRead(b) == b \in Bytes /\ b.num \in 1 .. got[b.from]

\* A client was given a part of what is due to it, and what its buffer holds comes
\* after that. A client that was not accepted yet has none of all this.
OrderInv ==
    /\ \A f \in Select!Table :
        /\ Distinct(Select!Unsent(buffer[f]))
        /\ \A k \in DOMAIN Select!Unsent(buffer[f]) : IsRead(Select!Unsent(buffer[f])[k])
    /\ \A c \in Clients :
        /\ Distinct(inherited[c])
        /\ \A k \in DOMAIN inherited[c] : inherited[c][k].from # c
        /\ Placed(outbox[c], Due(c))
        /\ link[c] \in {"none", "waiting"} =>
                got[c] = 0 /\ outbox[c] = <<>> /\ inherited[c] = <<>>
    /\ \A c \in Open : fdOf[c] \in InUse =>
            Placed(outbox[c] \o Select!Unsent(buffer[fdOf[c]]), Due(c))

SelectInv == SocketsInv /\ SelectTypes /\ TableInv /\ OrderInv

LEMMA SelectRotates == \A c, m : Select!rot13_char(Select!Byte(c, m)) = Rotated(c, m)
<1> SUFFICES ASSUME NEW c, NEW m PROVE Select!rot13_char(Select!Byte(c, m)) = Rotated(c, m)
  OBVIOUS
<1>1. Select!Byte(c, m).rot = FALSE
  BY DEF Select!Byte
<1>2. (~Select!Byte(c, m).rot) = TRUE
  BY <1>1
<1>3. Select!rot13_char(Select!Byte(c, m)) = [Select!Byte(c, m) EXCEPT !.rot = TRUE]
  BY <1>2 DEF Select!rot13_char
<1> QED
  BY <1>3 DEF Select!Byte, Rotated

\* What m bytes read from c add to a buffer: as many of them as there is room for.
LEMMA ReadAppends ==
    ASSUME NEW b, Fits(b), NEW c \in Clients, got[c] \in Nat, NEW m \in Nat
    PROVE  LET a == Select!onSocketRead(b, Select!Arriving(c, m))
           IN  /\ Fits(a) /\ a.connect_fd = b.connect_fd
               /\ \E x \in Seq(Bytes) :
                    /\ Len(x) <= m /\ \A k \in 1 .. Len(x) : x[k] = Rotated(c, got[c] + k)
                    /\ Select!Unsent(a) = Select!Unsent(b) \o x
<1> DEFINE in == Select!Arriving(c, m)
           room == {Len(in), BufferSize - Len(b.data)}
           fits == Select!Min(room)
           x == [k \in 1 .. fits |-> Select!rot13_char(in[k])]
           read == b.readable \/ \E k \in DOMAIN in : Select!EndsLine(in[k])
           a == Select!onSocketRead(b, in)
<1>0. Len(in) = m /\ DOMAIN in = 1 .. m /\ \A k \in 1 .. m : in[k] = Select!Byte(c, got[c] + k)
  BY DEF Select!Arriving
<1> HIDE DEF in
<1>1. /\ b \in Buffers /\ b.data \in Seq(Bytes) /\ Len(b.data) \in Nat /\ b.readIndex \in Nat
      /\ b.readIndex <= Len(b.data) /\ Len(b.data) <= BufferSize /\ BufferSize \in Nat
      /\ b.readable \in BOOLEAN
  BY ProgramsAssumption DEF Fits, Buffers
<1>2. fits \in Nat /\ fits <= m /\ fits <= BufferSize - Len(b.data)
  <2>1. room \in SUBSET Nat /\ room # {}
    BY <1>0, <1>1
  <2>2. fits = Min(room)
    BY DEF Select!Min, Min
  <2>3. m \in room /\ BufferSize - Len(b.data) \in room
    BY <1>0
  <2> HIDE DEF room, fits
  <2> QED
    BY <2>1, <2>2, <2>3, MinIsLeast
<1>3. a = [b EXCEPT !.data = b.data \o x, !.readable = read]
  BY DEF Select!onSocketRead
<1> HIDE DEF fits, room
<1>4. /\ x \in Seq(Bytes) /\ Len(x) = fits /\ \A k \in 1 .. fits : x[k] = Rotated(c, got[c] + k)
  <2>1. \A k \in 1 .. fits : Select!rot13_char(in[k]) = Rotated(c, got[c] + k)
    BY <1>0, <1>2, SelectRotates
  <2>2. \A k \in 1 .. fits : Rotated(c, got[c] + k) \in Bytes
    BY DEF Rotated, Bytes
  <2> QED
    BY <1>2, <2>1, <2>2
<1> HIDE DEF x
<1>5. /\ b.data \o x \in Seq(Bytes) /\ Len(b.data \o x) = Len(b.data) + Len(x)
  <2> DEFINE d == b.data
  <2>1. d \in Seq(Bytes) /\ x \in Seq(Bytes)
    BY <1>1, <1>4
  <2> HIDE DEF d
  <2>2. d \o x \in Seq(Bytes) /\ Len(d \o x) = Len(d) + Len(x)
    BY <2>1, CatFacts
  <2> QED
    BY <2>2 DEF d
<1>6. read \in BOOLEAN
  BY <1>1
<1> HIDE DEF read
<1>7. /\ a \in Buffers /\ a.data = b.data \o x /\ a.readIndex = b.readIndex
      /\ a.connect_fd = b.connect_fd
  BY <1>1, <1>3, <1>5, <1>6 DEF Buffers
<1>8. Fits(a)
  BY <1>1, <1>2, <1>4, <1>5, <1>7 DEF Fits
<1>9. Select!Unsent(a) = Select!Unsent(b) \o x
  <2>1. b.readIndex \in 0 .. Len(b.data)
    BY <1>1
  <2>2. SubSeq(b.data \o x, b.readIndex + 1, Len(b.data \o x))
            = SubSeq(b.data, b.readIndex + 1, Len(b.data)) \o x
    BY <1>1, <1>4, <2>1, RestOfCat
  <2> QED
    BY <1>7, <2>2 DEF Select!Unsent
<1> QED
  BY <1>2, <1>4, <1>7, <1>8, <1>9 DEF a, in

LEMMA UnsentType ==
    ASSUME NEW b, Fits(b)
    PROVE  /\ Select!Unsent(b) \in Seq(Bytes)
           /\ Len(Select!Unsent(b)) = Len(b.data) - b.readIndex
           /\ Len(Select!Unsent(b)) \in Nat
<1>1. /\ b.data \in Seq(Bytes) /\ Len(b.data) \in Nat /\ b.readIndex \in Nat
      /\ b.readIndex <= Len(b.data)
  BY DEF Fits, Buffers
<1>2. /\ b.readIndex + 1 \in 1 .. Len(b.data) + 1 /\ Len(b.data) \in 0 .. Len(b.data)
      /\ b.readIndex + 1 <= Len(b.data) + 1
  BY <1>1
<1>3. /\ SubSeq(b.data, b.readIndex + 1, Len(b.data)) \in Seq(Bytes)
      /\ Len(SubSeq(b.data, b.readIndex + 1, Len(b.data))) = Len(b.data) + 1 - (b.readIndex + 1)
  BY <1>1, <1>2, SubSeqFacts
<1> QED
  BY <1>1, <1>3 DEF Select!Unsent

\* After a write, what was taken and what is left are what was there.
LEMMA WriteTakes ==
    ASSUME NEW b, Fits(b), NEW k \in 0 .. Len(Select!Unsent(b))
    PROVE  LET a == Select!onSocketWrite(b, k)
               u == Select!Unsent(b)
           IN  /\ Fits(a) /\ a.connect_fd = b.connect_fd
               /\ SubSeq(u, 1, k) \in Seq(Bytes) /\ Select!Unsent(a) \in Seq(Bytes)
               /\ SubSeq(u, 1, k) \o Select!Unsent(a) = u
<1> DEFINE u == Select!Unsent(b)
           a == Select!onSocketWrite(b, k)
<1>1. /\ b \in Buffers /\ b.data \in Seq(Bytes) /\ Len(b.data) \in Nat /\ b.readIndex \in Nat
      /\ b.readIndex <= Len(b.data) /\ Len(b.data) <= BufferSize /\ BufferSize \in Nat
  BY ProgramsAssumption DEF Fits, Buffers
<1>2. u \in Seq(Bytes) /\ Len(u) = Len(b.data) - b.readIndex /\ Len(u) \in Nat
  BY UnsentType
<1>3. k \in Nat /\ k <= Len(u)
  BY <1>2
<1>4. SubSeq(u, 1, k) \in Seq(Bytes) /\ Len(SubSeq(u, 1, k)) = k
      /\ \A m \in 1 .. k : SubSeq(u, 1, k)[m] = u[m]
  <2>1. 1 \in 1 .. Len(u) + 1 /\ k \in 0 .. Len(u) /\ 1 <= k + 1
    BY <1>2, <1>3
  <2>2. /\ SubSeq(u, 1, k) \in Seq(Bytes) /\ Len(SubSeq(u, 1, k)) = k + 1 - 1
        /\ \A m \in 1 .. k + 1 - 1 : SubSeq(u, 1, k)[m] = u[1 - 1 + m]
    BY <1>2, <2>1, SubSeqFacts
  <2> HIDE DEF u
  <2> QED
    BY <1>3, <2>2
<1>5. CASE k < Len(u)
  <2>1. a = [b EXCEPT !.readIndex = b.readIndex + k]
    BY <1>5 DEF Select!onSocketWrite
  <2>2. /\ a \in Buffers /\ a.data = b.data /\ a.readIndex = b.readIndex + k
        /\ a.connect_fd = b.connect_fd
    BY <1>1, <1>3, <2>1 DEF Buffers
  <2>3. Fits(a)
    BY <1>1, <1>2, <1>3, <2>2 DEF Fits
  <2>4. b.readIndex \in 0 .. Len(b.data) /\ k \in 0 .. Len(b.data) - b.readIndex
    BY <1>1, <1>2, <1>3
  <2>5. LET v == SubSeq(b.data, b.readIndex + 1, Len(b.data))
        IN  SubSeq(v, 1, k) \o SubSeq(b.data, (b.readIndex + k) + 1, Len(b.data)) = v
    BY <1>1, <2>4, RestInParts
  <2>6. SubSeq(u, 1, k) \o Select!Unsent(a) = u
    BY <2>2, <2>5 DEF Select!Unsent
  <2>7. Select!Unsent(a) \in Seq(Bytes)
    BY <2>3, UnsentType
  <2> QED
    BY <1>4, <2>2, <2>3, <2>6, <2>7 DEF a, u
<1>6. CASE ~(k < Len(u))
  <2>1. a = [b EXCEPT !.data = <<>>, !.readIndex = 0, !.readable = FALSE]
    BY <1>6 DEF Select!onSocketWrite
  <2> HIDE DEF a
  <2>2. <<>> \in Seq(Bytes) /\ Len(<<>>) = 0
    OBVIOUS
  <2>3. /\ a \in Buffers /\ a.data = <<>> /\ a.readIndex = 0
        /\ a.connect_fd = b.connect_fd
    BY <1>1, <2>1, <2>2 DEF Buffers
  <2>4. Fits(a)
    BY <1>1, <2>2, <2>3 DEF Fits
  <2>5. Select!Unsent(a) \in Seq(Bytes) /\ Len(Select!Unsent(a)) = 0
    BY <2>2, <2>3, <2>4, UnsentType
  <2>6. k = Len(u)
    BY <1>2, <1>3, <1>6
  <2> HIDE DEF u
  <2>7. SubSeq(u, 1, k) = u
    BY <1>2, <1>4, <2>6, SeqEqual
  <2>8. u \o Select!Unsent(a) = u
    <3>1. Select!Unsent(a) = <<>>
      BY <2>5
    <3> QED
      BY <1>2, <3>1
  <2> QED
    BY <1>2, <2>3, <2>4, <2>5, <2>7, <2>8 DEF a, u
<1> QED
  BY <1>5, <1>6

LEMMA PlacedEmpty == \A d : Placed(<<>>, d)
<1> SUFFICES ASSUME NEW d PROVE Placed(<<>>, d)
  OBVIOUS
<1>1. DOMAIN <<>> = {}
  OBVIOUS
<1> DEFINE p == [k \in {} |-> k]
<1>2. p \in [{} -> DOMAIN d]
  OBVIOUS
<1> QED
  BY <1>1, <1>2 DEF Placed

LEMMA OwnBytes ==
    ASSUME NEW c \in Clients, NEW m \in Nat
    PROVE  /\ OwnUpTo(c, m) \in Seq(Bytes) /\ Len(OwnUpTo(c, m)) = m
           /\ \A k \in 1 .. m : OwnUpTo(c, m)[k] = Rotated(c, k)
<1>1. \A k \in 1 .. m : Rotated(c, k) \in Bytes
  BY DEF Rotated, Bytes
<1> QED
  BY <1>1 DEF OwnUpTo

LEMMA SelectInit == Init /\ program = "select" => SelectInv
<1> SUFFICES ASSUME Init, program = "select" PROVE SelectInv
  OBVIOUS
<1> DEFINE empty == [connect_fd |-> 0, data |-> <<>>, readIndex |-> 0, readable |-> FALSE]
<1>1. /\ SocketsInit(Clients) /\ readset = {} /\ writeset = {}
      /\ buffer = [f \in Select!Table |-> empty]
      /\ inherited = [c \in Clients |-> <<>>]
  <2>1. program \notin DOMAIN EpollNumber /\ Clients = Select!Clients
    BY DEF EpollNumber, Clients, Select!Clients
  <2> QED
    BY <2>1 DEF Init, Select!Start
<1>2. SocketsInv /\ Open = {}
  BY <1>1 DEF SocketsInit, SocketsInv, Open
<1>3. got = [c \in Clients |-> 0] /\ sent = [c \in Clients |-> 0]
      /\ outbox = [c \in Clients |-> <<>>]
  BY <1>1 DEF SocketsInit
<1>4. empty \in Buffers /\ Fits(empty) /\ empty.connect_fd = 0
  <2>1. <<>> \in Seq(Bytes) /\ Len(<<>>) = 0
    OBVIOUS
  <2> QED
    BY <2>1, ProgramsAssumption DEF Buffers, Fits
<1>5. Select!Unsent(empty) \in Seq(Bytes) /\ Len(Select!Unsent(empty)) = 0
  <2>1. empty.data = <<>> /\ empty.readIndex = 0 /\ Len(<<>>) = 0
    OBVIOUS
  <2> HIDE DEF empty
  <2> QED
    BY <1>4, <2>1, UnsentType
<1> HIDE DEF empty
<1>6. DOMAIN Select!Unsent(empty) = {}
  BY <1>5
<1>7. SelectTypes
  BY <1>1, <1>3, <1>4 DEF SelectTypes
<1>8. TableInv
  BY <1>1, <1>4 DEF TableInv, InUse
<1>9. OrderInv
  <2>1. \A f \in Select!Table : buffer[f] = empty
    BY <1>1
  <2>2. \A c \in Clients : outbox[c] = <<>> /\ inherited[c] = <<>> /\ got[c] = 0
    BY <1>1, <1>3
  <2>3. DOMAIN <<>> = {}
    OBVIOUS
  <2> QED
    BY <1>2, <1>6, <2>1, <2>2, <2>3, PlacedEmpty DEF OrderInv, Distinct
<1> QED
  BY <1>2, <1>7, <1>8, <1>9 DEF SelectInv

\* Nothing is read, written or accepted.
LEMMA SelectQuiet ==
    ASSUME SelectInv, SocketsInv', Open' = Open, fdOf' = fdOf,
           UNCHANGED <<got, outbox, buffer, inherited>>,
           sent' \in [Clients -> Nat], \A c \in Clients : sent[c] <= sent'[c],
           \A c \in Clients : link'[c] \in {"none", "waiting"} => link[c] \in {"none", "waiting"},
           readset' \cup writeset' \subseteq InUse
    PROVE  SelectInv'
<1>1. Accepted' = Accepted /\ InUse' = InUse /\ Select!Table' = Select!Table
  BY DEF Accepted, InUse, Select!Table
<1>2. SelectTypes'
  BY <1>1 DEF SelectInv, SelectTypes, Fits
<1>3. TableInv'
  BY <1>1 DEF SelectInv, TableInv
<1>4. OrderInv'
  <2>1. Clients' = Clients
    BY DEF Clients
  <2> QED
    BY <1>1, <2>1 DEF SelectInv, OrderInv, Select!Unsent, Due, IsRead
<1> QED
  BY <1>2, <1>3, <1>4 DEF SelectInv

LEMMA SelectAccepts ==
    ASSUME SelectInv, Select!AcceptClient
    PROVE  SelectInv'
<1> DEFINE f == NewFd
           free == f < FD_INIT_SIZE /\ buffer[f].connect_fd = 0
<1>1. PICK c \in Waiting :
        /\ Accept(c)
        /\ IF free
           THEN /\ buffer' = [buffer EXCEPT ![f].connect_fd = f]
                /\ inherited' = [inherited EXCEPT ![c] = Select!Unsent(buffer[f])]
           ELSE UNCHANGED <<buffer, inherited>>
        /\ UNCHANGED <<readset, writeset>>
  BY DEF Select!AcceptClient, Select!Waiting, Waiting, Select!NewFd, NewFd, Select!Open, Open,
         Select!Clients, Clients, Select!Accept, Accept, Select!Min, Min
<1>2. /\ SocketsInv' /\ Open' = Open \cup {c}
      /\ c \notin Open /\ fdOf'[c] = f
      /\ \A d \in Open : fdOf'[d] = fdOf[d]
      /\ f \in Fds /\ \A d \in Open : fdOf[d] # f
  BY <1>1, AcceptKeeps DEF SelectInv
<1>3. c \in Clients /\ link[c] = "waiting" /\ UNCHANGED <<got, sent, outbox>>
      /\ \A d \in Clients : d # c => link'[d] = link[d]
  BY <1>1 DEF Waiting, Accept, SelectInv, SocketsInv
<1>4. link'[c] = "open"
  BY <1>2 DEF Open
<1>5. got[c] = 0 /\ outbox[c] = <<>>
  BY <1>3 DEF SelectInv, OrderInv
<1> HIDE DEF f
<1>6. Accepted' = Accepted \cup {f} /\ f \notin Accepted /\ f \notin InUse
  BY <1>2 DEF Accepted, SelectInv, TableInv
<1>7. CASE ~free
  <2>1. UNCHANGED <<buffer, inherited>>
    BY <1>1, <1>7
  <2>2. InUse' = InUse /\ Select!Table' = Select!Table
    BY <2>1 DEF InUse, Select!Table
  <2>3. SelectTypes'
    BY <1>3, <2>1, <2>2 DEF SelectInv, SelectTypes, Fits
  <2>4. TableInv'
    BY <1>1, <1>6, <2>1, <2>2 DEF SelectInv, TableInv
  <2>5. \A d \in Open' : fdOf'[d] \in InUse' => d \in Open /\ fdOf'[d] = fdOf[d]
    BY <1>2, <1>6, <2>2
  <2>6. OrderInv'
    BY <1>3, <1>4, <2>1, <2>2, <2>5 DEF SelectInv, OrderInv, Select!Unsent, Due, IsRead
  <2> QED
    BY <1>2, <2>3, <2>4, <2>6 DEF SelectInv
<1>8. CASE free
  <2> DEFINE u == Select!Unsent(buffer[f])
  <2>1. f \in Select!Table /\ Fits(buffer[f]) /\ buffer[f] \in Buffers /\ f \in Nat /\ f # 0
    <3>1. f \in Select!Table
      BY <1>2, <1>8 DEF Select!Table
    <3>2. f \in Nat \ {0}
      BY <1>2, SocketsAssumption
    <3> QED
      BY <3>1, <3>2 DEF SelectInv, SelectTypes
  <2>2. /\ buffer' = [buffer EXCEPT ![f].connect_fd = f]
        /\ inherited' = [inherited EXCEPT ![c] = u]
    BY <1>1, <1>8
  <2>3. u \in Seq(Bytes)
    BY <2>1, UnsentType
  <2>4. /\ buffer' \in [Select!Table -> Buffers]
        /\ \A e \in Select!Table : /\ Fits(buffer'[e])
                                   /\ buffer'[e].data = buffer[e].data
                                   /\ buffer'[e].readIndex = buffer[e].readIndex
                                   /\ buffer'[e].connect_fd =
                                        IF e = f THEN f ELSE buffer[e].connect_fd
    BY <2>1, <2>2 DEF SelectInv, SelectTypes, Fits, Buffers
  <2>5. /\ inherited' \in [Clients -> Seq(Bytes)] /\ inherited'[c] = u
        /\ \A d \in Clients : d # c => inherited'[d] = inherited[d]
    <3> HIDE DEF u
    <3> QED
      BY <1>3, <2>2, <2>3 DEF SelectInv, SelectTypes
  <2> HIDE DEF u
  <2>6. InUse' = InUse \cup {f} /\ Select!Table' = Select!Table
    <3>1. Select!Table' = Select!Table
      BY DEF Select!Table
    <3> QED
      BY <2>1, <2>4, <3>1 DEF InUse
  <2>7. SelectTypes'
    BY <1>3, <2>4, <2>5, <2>6 DEF SelectInv, SelectTypes, Fits
  <2>8. TableInv'
    BY <1>1, <1>6, <2>1, <2>4, <2>6 DEF SelectInv, TableInv, InUse
  <2>9. \A e \in Select!Table : Select!Unsent(buffer'[e]) = Select!Unsent(buffer[e])
    BY <2>4 DEF Select!Unsent
  <2>10. \A d \in Clients : d # c => Due(d)' = Due(d)
    BY <1>3, <2>5 DEF Due
  <2>11. Due(c)' \in Seq(Bytes) /\ Placed(<<>> \o u, Due(c)')
    <3> DEFINE none == OwnUpTo(c, 0)
    <3>1. none \in Seq(Bytes) /\ Len(none) = 0
      BY <1>3, OwnBytes
    <3>2. Due(c)' = u \o none
      BY <1>3, <1>5, <2>5 DEF Due
    <3> HIDE DEF none
    <3>3. <<>> \o u \in Seq(Bytes) /\ <<>> \o u = u
      BY <2>3
    <3>4. /\ u \o none \in Seq(Bytes) /\ Len(u \o none) = Len(u) + Len(none)
          /\ \A k \in 1 .. Len(u) : (u \o none)[k] = u[k]
      BY <2>3, <3>1, CatFacts
    <3>5. Len(u) <= Len(u \o none)
      BY <2>3, <3>1, <3>4
    <3>6. Placed(u, u \o none)
      BY <2>3, <3>4, <3>5, PlacedPart
    <3> QED
      BY <3>2, <3>3, <3>4, <3>6
  <2>12. Distinct(u) /\ \A k \in DOMAIN u : u[k].from # c
    <3>1. Distinct(u) /\ \A k \in DOMAIN u : u[k].num \in 1 .. got[u[k].from]
      BY <2>1 DEF SelectInv, OrderInv, IsRead, u
    <3>2. 1 .. got[c] = {}
      BY <1>5
    <3> QED
      BY <3>1, <3>2
  <2>13. OrderInv'
    <3>1. \A e \in Select!Table' :
            /\ Distinct(Select!Unsent(buffer[e]))'
            /\ \A k \in DOMAIN Select!Unsent(buffer[e])' : IsRead(Select!Unsent(buffer[e])[k])'
      BY <1>3, <2>4, <2>6 DEF SelectInv, OrderInv, Select!Unsent, IsRead
    <3>2. \A d \in Clients : d # c =>
            /\ Distinct(inherited[d])'
            /\ (\A k \in DOMAIN inherited[d] : inherited[d][k].from # d)'
            /\ Placed(outbox[d], Due(d))'
            /\ link'[d] \in {"none", "waiting"} =>
                    got'[d] = 0 /\ outbox'[d] = <<>> /\ inherited'[d] = <<>>
      BY <1>3, <2>5, <2>10 DEF SelectInv, OrderInv
    <3>3. /\ Distinct(inherited[c])'
          /\ (\A k \in DOMAIN inherited[c] : inherited[c][k].from # c)'
          /\ Placed(outbox[c], Due(c))'
          /\ link'[c] \notin {"none", "waiting"}
      <4>1. Placed(<<>>, Due(c)')
        BY PlacedEmpty
      <4>2. outbox'[c] = <<>>
        BY <1>3, <1>5
      <4> QED
        BY <1>4, <2>5, <2>12, <4>1, <4>2
    <3>4. ASSUME NEW d \in Open', fdOf'[d] \in InUse'
          PROVE  Placed(outbox[d] \o Select!Unsent(buffer[fdOf[d]]), Due(d))'
      <4>1. CASE d = c
        <5>1. fdOf'[c] = f /\ Select!Unsent(buffer'[f]) = u /\ outbox'[c] = <<>>
          BY <1>2, <1>3, <1>5, <2>1, <2>9 DEF u
        <5>2. Select!Unsent(buffer[fdOf[d]])' = Select!Unsent(buffer'[f])
          BY <4>1, <5>1 DEF Select!Unsent
        <5> QED
          BY <2>11, <4>1, <5>1, <5>2
      <4>2. CASE d # c
        <5>1. d \in Open /\ d \in Clients /\ fdOf'[d] = fdOf[d] /\ fdOf[d] # f
          BY <1>2, <4>2 DEF Open
        <5>2. fdOf[d] \in InUse /\ fdOf[d] \in Select!Table
          BY <2>6, <3>4, <5>1 DEF InUse
        <5>3. Placed(outbox[d] \o Select!Unsent(buffer[fdOf[d]]), Due(d))
          BY <5>1, <5>2 DEF SelectInv, OrderInv
        <5>4. Select!Unsent(buffer[fdOf[d]])' = Select!Unsent(buffer[fdOf[d]])
          BY <2>4, <5>1, <5>2 DEF Select!Unsent
        <5> QED
          BY <1>3, <2>10, <4>2, <5>1, <5>3, <5>4
      <4> QED
        BY <4>1, <4>2
    <3>5. Clients' = Clients
      BY DEF Clients
    <3> QED
      BY <3>1, <3>2, <3>3, <3>4, <3>5 DEF OrderInv
  <2> QED
    BY <1>2, <2>7, <2>8, <2>13 DEF SelectInv
<1> QED
  BY <1>7, <1>8

Follows(o, u, h, v) == Placed(o \o u, h \o v)

LEMMA CatAssociates ==
    \A S : \A p, q, r \in Seq(S) : (p \o q) \o r = p \o (q \o r)
BY ConcatAssociative, SMTT(15)

LEMMA FollowsOn ==
    ASSUME NEW S, NEW o \in Seq(S), NEW u \in Seq(S), NEW x \in Seq(S),
           NEW h \in Seq(S), NEW v \in Seq(S), NEW w \in Seq(S),
           Follows(o, u, h, v), Placed(x, w)
    PROVE  Follows(o, u \o x, h, v \o w)
<1>1. (o \o u) \o x = o \o (u \o x)
  BY CatAssociates, SMTT(15)
<1>2. (h \o v) \o w = h \o (v \o w)
  BY CatAssociates, SMTT(15)
<1>3. o \o u \in Seq(S) /\ h \o v \in Seq(S)
  OBVIOUS
<1>4. Placed((o \o u) \o x, (h \o v) \o w)
  BY <1>3, PlacedCat DEF Follows
<1> QED
  BY <1>1, <1>2, <1>4 DEF Follows

\* What is due to c grows by what is read from c.
LEMMA DueGrows ==
    ASSUME NEW c \in Clients, NEW r \in Nat, NEW m \in Nat,
           NEW h \in Seq(Bytes), NEW o \in Seq(Bytes), NEW u \in Seq(Bytes),
           NEW x \in Seq(Bytes), Placed(o \o u, h \o OwnUpTo(c, r)),
           Len(x) <= m, \A k \in 1 .. Len(x) : x[k] = Rotated(c, r + k)
    PROVE  /\ h \o OwnUpTo(c, r + m) \in Seq(Bytes)
           /\ Placed(o \o (u \o x), h \o OwnUpTo(c, r + m))
<1>1. PICK own : own = OwnUpTo(c, r)
  OBVIOUS
<1>2. PICK all : all = OwnUpTo(c, r + m)
  OBVIOUS
<1>3. PICK new \in Seq(Bytes) :
        Len(new) = m /\ \A k \in 1 .. m : new[k] = Rotated(c, r + k)
  <2>1. \A k \in 1 .. m : Rotated(c, r + k) \in Bytes
    BY DEF Rotated, Bytes
  <2> DEFINE new == [k \in 1 .. m |-> Rotated(c, r + k)]
  <2>2. new \in Seq(Bytes) /\ Len(new) = m
        /\ \A k \in 1 .. m : new[k] = Rotated(c, r + k)
    BY <2>1
  <2> HIDE DEF new
  <2> QED
    BY <2>2
<1>4. /\ own \in Seq(Bytes) /\ Len(own) = r /\ \A k \in 1 .. r : own[k] = Rotated(c, k)
      /\ all \in Seq(Bytes) /\ Len(all) = r + m
      /\ \A k \in 1 .. r + m : all[k] = Rotated(c, k)
  BY <1>1, <1>2, OwnBytes
<1>5. own \o new = all
  <2>1. /\ \A k \in 1 .. Len(own) : all[k] = own[k]
        /\ \A k \in 1 .. Len(new) : all[Len(own) + k] = new[k]
        /\ Len(all) = Len(own) + Len(new)
    <3>1. Len(all) = Len(own) + Len(new)
      BY <1>3, <1>4
    <3>2. \A k \in 1 .. Len(own) : all[k] = own[k]
      BY <1>4
    <3>3. ASSUME NEW k \in 1 .. Len(new) PROVE all[Len(own) + k] = new[k]
      <4>1. new[k] = Rotated(c, r + k) /\ k \in 1 .. m
        BY <1>3
      <4>2. r + k \in 1 .. r + m
        BY <4>1
      <4> QED
        BY <1>4, <4>1, <4>2
    <3> QED
      BY <3>1, <3>2, <3>3
  <2> QED
    BY <1>4, <2>1, CatOfParts
<1>6. Placed(x, new)
  BY <1>3, PlacedPart
<1>7. Placed(o \o (u \o x), h \o (own \o new))
  <2>1. Follows(o, u, h, own)
    BY <1>1 DEF Follows
  <2>2. Follows(o, u \o x, h, own \o new)
    BY <1>3, <1>4, <1>6, <2>1, FollowsOn
  <2> QED
    BY <2>2 DEF Follows
<1>8. h \o all \in Seq(Bytes)
  BY <1>4, CatFacts
<1> QED
  BY <1>2, <1>5, <1>7, <1>8

\* The bytes read from c are none of those read before.
LEMMA FreshBytes ==
    ASSUME NEW c \in Clients, NEW h \in [Clients -> Nat], NEW m \in Nat,
           NEW g, g = [h EXCEPT ![c] = h[c] + m],
           NEW u \in Seq(Bytes), Distinct(u),
           \A k \in DOMAIN u : u[k] \in Bytes /\ u[k].num \in 1 .. h[u[k].from],
           NEW x \in Seq(Bytes), Len(x) <= m,
           \A k \in 1 .. Len(x) : x[k] = Rotated(c, h[c] + k)
    PROVE  /\ Distinct(u \o x)
           /\ \A k \in DOMAIN (u \o x) :
                (u \o x)[k] \in Bytes /\ (u \o x)[k].num \in 1 .. g[(u \o x)[k].from]
<1>1. \A k \in DOMAIN x : k \in 1 .. m /\ x[k] = Rotated(c, h[c] + k)
  OBVIOUS
<1>2. h[c] \in Nat /\ \A k, j : Rotated(c, k) = Rotated(c, j) => k = j
  BY DEF Rotated
<1>3. Distinct(x)
  BY <1>1, <1>2 DEF Distinct
<1>4. Disjoint(u, x)
  <2> SUFFICES ASSUME NEW j \in DOMAIN u, NEW k \in DOMAIN x, u[j] = x[k] PROVE FALSE
    BY DEF Disjoint
  <2>1. u[j].from = c /\ u[j].num = h[c] + k
    BY <1>1 DEF Rotated
  <2>2. u[j].num \in 1 .. h[c]
    BY <2>1
  <2> QED
    BY <1>1, <1>2, <2>1, <2>2
<1>5. Distinct(u \o x)
  BY <1>3, <1>4, CatDistinct
<1>6. ASSUME NEW k \in DOMAIN (u \o x)
      PROVE  (u \o x)[k] \in Bytes /\ (u \o x)[k].num \in 1 .. g[(u \o x)[k].from]
  <2>1. CASE \E j \in DOMAIN u : (u \o x)[k] = u[j]
    <3>1. PICK j \in DOMAIN u : (u \o x)[k] = u[j]
      BY <2>1
    <3>2. u[j] \in Bytes /\ u[j].num \in 1 .. h[u[j].from] /\ u[j].from \in Clients
      BY DEF Bytes
    <3>3. h[u[j].from] <= g[u[j].from] /\ g[u[j].from] \in Nat /\ h[u[j].from] \in Nat
      BY <3>2
    <3> QED
      BY <3>1, <3>2, <3>3
  <2>2. CASE \E j \in DOMAIN x : (u \o x)[k] = x[j]
    <3>1. PICK j \in DOMAIN x : (u \o x)[k] = x[j]
      BY <2>2
    <3>2. j \in 1 .. m /\ x[j] = Rotated(c, h[c] + j) /\ x[j] \in Bytes
      BY <1>1
    <3>3. x[j].from = c /\ x[j].num = h[c] + j /\ g[c] = h[c] + m
      BY <3>2 DEF Rotated
    <3>4. h[c] \in Nat /\ h[c] + j \in 1 .. h[c] + m
      BY <1>2, <3>2
    <3> QED
      BY <3>1, <3>2, <3>3, <3>4
  <2> QED
    BY <2>1, <2>2, CatMembers
<1> QED
  BY <1>5, <1>6

\* A buffer of descriptor f that holds different bytes r, all of them read (h tells how many from whom),
\* which are due after what was sent.
InStep(b, f, r, h, s, due) ==
    /\ Fits(b) /\ b.connect_fd = f
    /\ r = Select!Unsent(b) /\ r \in Seq(Bytes) /\ Distinct(r)
    /\ \A k \in DOMAIN r : r[k] \in Bytes /\ r[k].num \in 1 .. h[r[k].from]
    /\ due \in Seq(Bytes) /\ Placed(s \o r, due)

\* After m bytes were read from c, its buffer is still in step.
LEMMA SelectTakes ==
    ASSUME SelectInv, NEW c \in Open, NEW f \in InUse, fdOf[c] = f, NEW m \in Nat,
           NEW a, a = Select!onSocketRead(buffer[f], Select!Arriving(c, m)),
           NEW v, v = Select!Unsent(a), NEW g, g = [got EXCEPT ![c] = got[c] + m],
           NEW due, due = inherited[c] \o OwnUpTo(c, got[c] + m)
    PROVE  InStep(a, f, v, g, outbox[c], due)
<1>1. PICK b : b = buffer[f]
  OBVIOUS
<1>2. a = Select!onSocketRead(b, Select!Arriving(c, m))
  BY <1>1
<1>3. PICK u : u = Select!Unsent(b)
  OBVIOUS
<1>4. /\ c \in Clients /\ got[c] \in Nat /\ Fits(b) /\ b.connect_fd = f
      /\ outbox[c] \in Seq(Bytes) /\ inherited[c] \in Seq(Bytes)
      /\ got \in [Clients -> Nat]
  BY <1>1 DEF SelectInv, SelectTypes, TableInv, InUse, Open
<1>5. /\ u \in Seq(Bytes) /\ Distinct(u)
      /\ \A k \in DOMAIN u : u[k] \in Bytes /\ u[k].num \in 1 .. got[u[k].from]
      /\ Placed(outbox[c] \o u, inherited[c] \o OwnUpTo(c, got[c]))
  <2>1. u \in Seq(Bytes)
    BY <1>3, <1>4, UnsentType
  <2> QED
    BY <1>1, <1>3, <2>1 DEF SelectInv, OrderInv, IsRead, Due, InUse
<1>6. PICK x \in Seq(Bytes) :
            /\ Len(x) <= m /\ \A k \in 1 .. Len(x) : x[k] = Rotated(c, got[c] + k)
            /\ Select!Unsent(a) = u \o x /\ Fits(a) /\ a.connect_fd = f
  <2>1. LET e == Select!onSocketRead(b, Select!Arriving(c, m))
        IN  /\ Fits(e) /\ e.connect_fd = b.connect_fd
            /\ \E x \in Seq(Bytes) :
                 /\ Len(x) <= m /\ \A k \in 1 .. Len(x) : x[k] = Rotated(c, got[c] + k)
                 /\ Select!Unsent(e) = Select!Unsent(b) \o x
    BY <1>4, ReadAppends
  <2> QED
    BY <1>2, <1>3, <1>4, <2>1
<1>7. Distinct(u \o x) /\ \A k \in DOMAIN (u \o x) :
            (u \o x)[k] \in Bytes /\ (u \o x)[k].num \in 1 .. g[(u \o x)[k].from]
  BY <1>4, <1>5, <1>6, FreshBytes
<1>8. due \in Seq(Bytes) /\ Placed(outbox[c] \o (u \o x), due)
  BY <1>4, <1>5, <1>6, DueGrows
<1>9. u \o x \in Seq(Bytes)
  BY <1>5, CatFacts
<1> QED
  BY <1>6, <1>7, <1>8, <1>9 DEF InStep

LEMMA PlacedSplit ==
    ASSUME NEW S, NEW o \in Seq(S), NEW w \in Seq(S), NEW r \in Seq(S), NEW u, NEW d
    PROVE  w \o r = u /\ Placed(o \o u, d) => Placed((o \o w) \o r, d) /\ Placed(o \o w, d)
<1>1. SUFFICES ASSUME w \o r = u, Placed(o \o u, d)
               PROVE  Placed((o \o w) \o r, d) /\ Placed(o \o w, d)
  OBVIOUS
<1>2. (o \o w) \o r = o \o (w \o r)
  BY ConcatAssociative
<1>3. o \o w \in Seq(S)
  OBVIOUS
<1>4. Placed((o \o w) \o r, d)
  BY <1>1, <1>2
<1> QED
  BY <1>3, <1>4, PlacedPrefix

\* The buffer of c becomes b, after m bytes were read from c and w was written to it.
LEMMA SelectMoves ==
    ASSUME SelectInv, NEW c \in Open, NEW f \in InUse, fdOf[c] = f, NEW m \in Nat,
           got[c] + m <= sent[c], got' = [got EXCEPT ![c] = got[c] + m],
           NEW b, Fits(b), NEW r, r = Select!Unsent(b), Distinct(r),
           \A k \in DOMAIN r : r[k] \in Bytes /\ r[k].num \in 1 .. got'[r[k].from],
           NEW w \in Seq(Bytes), NEW due, due = inherited[c] \o OwnUpTo(c, got[c] + m),
           Placed((outbox[c] \o w) \o r, due), Placed(outbox[c] \o w, due),
           buffer' = [buffer EXCEPT ![f] = b], outbox' = [outbox EXCEPT ![c] = outbox[c] \o w],
           UNCHANGED <<inherited, fdOf, sent>>, SocketsInv',
           \/ link' = link /\ b.connect_fd = f
           \/ link' = [link EXCEPT ![c] = "closed"] /\ b.connect_fd = 0,
           readset' \cup writeset' \subseteq (readset \cup writeset) \ {f}
    PROVE  SelectInv'
<1>1. /\ c \in Clients /\ got[c] \in Nat /\ f \in Select!Table /\ f # 0
      /\ outbox[c] \in Seq(Bytes) /\ inherited[c] \in Seq(Bytes)
      /\ link \in [Clients -> {"none", "waiting", "open", "closed"}]
      /\ got \in [Clients -> Nat] /\ outbox \in [Clients -> Seq(Bytes)]
      /\ buffer \in [Select!Table -> Buffers] /\ Select!Table' = Select!Table
  BY SocketsAssumption DEF SelectInv, SocketsInv, SelectTypes, InUse, Open, Select!Table
<1>3. r \in Seq(Bytes) /\ b \in Buffers
  BY UnsentType DEF Fits
<1>4. outbox[c] \o w \in Seq(Bytes)
  BY <1>1, CatFacts
<1>5. /\ buffer' \in [Select!Table -> Buffers] /\ buffer'[f] = b
      /\ \A e \in Select!Table : e # f => buffer'[e] = buffer[e]
  BY <1>1, <1>3
<1>6. /\ outbox' \in [Clients -> Seq(Bytes)] /\ outbox'[c] = outbox[c] \o w
      /\ \A d \in Clients : d # c => outbox'[d] = outbox[d]
  BY <1>1, <1>4
<1>7. /\ got' \in [Clients -> Nat] /\ got'[c] = got[c] + m
      /\ \A d \in Clients : d # c => got'[d] = got[d]
  BY <1>1
<1>8. SelectTypes'
  <2>1. \A d \in Clients : got'[d] <= sent'[d]
    BY <1>1, <1>7 DEF SelectInv, SelectTypes
  <2>2. \A e \in Select!Table : Fits(buffer'[e])
    BY <1>5 DEF SelectInv, SelectTypes
  <2>3. Clients' = Clients /\ Buffers' = Buffers /\ Bytes' = Bytes
    BY DEF Clients, Buffers, Bytes
  <2> QED
    BY <1>1, <1>5, <1>6, <1>7, <2>1, <2>2, <2>3 DEF SelectInv, SelectTypes, Fits
<1>9. /\ \A d \in Open' : d \in Open /\ (d # c \/ link' = link)
      /\ \A d \in Open : d # c => d \in Open'
      /\ c \in Open' \/ b.connect_fd = 0
  BY <1>1 DEF Open
<1>10. /\ InUse' \subseteq InUse /\ InUse \ {f} \subseteq InUse'
       /\ f \in InUse' <=> b.connect_fd # 0
  BY <1>1, <1>5 DEF InUse
<1>11. TableInv'
  <2>1. ASSUME NEW e \in InUse' PROVE e \in Accepted'
    <3>1. PICK d \in Open : fdOf[d] = e
      BY <1>10, <2>1 DEF SelectInv, TableInv, Accepted
    <3>2. d # c \/ e = f
      BY <3>1
    <3>3. d \in Open'
      BY <1>9, <1>10, <3>1, <3>2
    <3> QED
      BY <3>1, <3>3 DEF Accepted
  <2>2. \A e \in InUse' : buffer'[e].connect_fd = e
    BY <1>5, <1>10 DEF SelectInv, TableInv, InUse
  <2>3. readset' \cup writeset' \subseteq InUse'
    BY <1>10 DEF SelectInv, TableInv
  <2> QED
    BY <2>1, <2>2, <2>3 DEF TableInv
<1>12. \A e \in Select!Table :
          /\ Distinct(Select!Unsent(buffer'[e]))
          /\ \A k \in DOMAIN Select!Unsent(buffer'[e]) :
                /\ Select!Unsent(buffer'[e])[k] \in Bytes
                /\ Select!Unsent(buffer'[e])[k].num \in 1 .. got'[Select!Unsent(buffer'[e])[k].from]
  <2> SUFFICES ASSUME NEW e \in Select!Table
               PROVE  /\ Distinct(Select!Unsent(buffer'[e]))
                      /\ \A k \in DOMAIN Select!Unsent(buffer'[e]) :
                            LET y == Select!Unsent(buffer'[e])[k]
                            IN  y \in Bytes /\ y.num \in 1 .. got'[y.from]
    OBVIOUS
  <2>1. CASE e = f
    BY <1>5, <2>1
  <2>2. CASE e # f
    <3>1. PICK v : v = Select!Unsent(buffer[e])
      OBVIOUS
    <3>2. Distinct(v) /\ \A k \in DOMAIN v : v[k] \in Bytes /\ v[k].num \in 1 .. got[v[k].from]
      BY <3>1 DEF SelectInv, OrderInv, IsRead
    <3>3. \A k \in DOMAIN v : v[k].num \in 1 .. got'[v[k].from]
      <4> SUFFICES ASSUME NEW k \in DOMAIN v PROVE v[k].num \in 1 .. got'[v[k].from]
        OBVIOUS
      <4>1. v[k].from \in Clients /\ v[k].num \in 1 .. got[v[k].from]
        BY <3>2 DEF Bytes
      <4>2. got[v[k].from] <= got'[v[k].from] /\ got[v[k].from] \in Nat /\ got'[v[k].from] \in Nat
        BY <1>1, <1>7, <4>1
      <4> QED
        BY <4>1, <4>2
    <3> QED
      BY <1>5, <2>2, <3>1, <3>2, <3>3
  <2> QED
    BY <2>1, <2>2
<1>14. Placed(outbox'[c] \o r, due) /\ Placed(outbox'[c], due)
  BY <1>6
<1>15. Due(c)' = due /\ \A d \in Clients : d # c => Due(d)' = Due(d)
  BY <1>7 DEF Due
<1>16. \A d \in Clients :
        /\ Distinct(inherited'[d])
        /\ \A k \in DOMAIN inherited'[d] : inherited'[d][k].from # d
        /\ Placed(outbox'[d], Due(d)')
        /\ link'[d] \in {"none", "waiting"} =>
                got'[d] = 0 /\ outbox'[d] = <<>> /\ inherited'[d] = <<>>
  <2> SUFFICES ASSUME NEW d \in Clients
               PROVE  /\ Placed(outbox'[d], Due(d)')
                      /\ link'[d] \in {"none", "waiting"} =>
                            got'[d] = 0 /\ outbox'[d] = <<>> /\ inherited'[d] = <<>>
    BY DEF SelectInv, OrderInv
  <2>1. CASE d = c
    <3>1. link'[c] \in {"open", "closed"}
      BY <1>1 DEF Open
    <3> QED
      BY <1>14, <1>15, <2>1, <3>1
  <2>2. CASE d # c
    BY <1>1, <1>6, <1>7, <1>15, <2>2 DEF SelectInv, OrderInv
  <2> QED
    BY <2>1, <2>2
<1>17. \A d \in Open' : fdOf'[d] \in InUse' =>
            Placed(outbox'[d] \o Select!Unsent(buffer'[fdOf'[d]]), Due(d)')
  <2> SUFFICES ASSUME NEW d \in Open', fdOf[d] \in InUse'
               PROVE  Placed(outbox'[d] \o Select!Unsent(buffer'[fdOf[d]]), Due(d)')
    OBVIOUS
  <2>1. CASE d = c
    BY <1>5, <1>14, <1>15, <2>1
  <2>2. CASE d # c
    <3>1. d \in Open /\ d \in Clients /\ fdOf[d] # f /\ fdOf[d] \in InUse
          /\ fdOf[d] \in Select!Table
      BY <1>9, <1>10, <2>2 DEF SelectInv, SocketsInv, Open, InUse
    <3>2. buffer'[fdOf[d]] = buffer[fdOf[d]] /\ outbox'[d] = outbox[d] /\ Due(d)' = Due(d)
      BY <1>5, <1>6, <1>15, <2>2, <3>1
    <3>3. Placed(outbox[d] \o Select!Unsent(buffer[fdOf[d]]), Due(d))
      BY <3>1 DEF SelectInv, OrderInv
    <3> QED
      BY <3>2, <3>3
  <2> QED
    BY <2>1, <2>2
<1>18. OrderInv'
  <2>1. Clients' = Clients
    BY DEF Clients
  <2> QED
    BY <1>1, <1>12, <1>16, <1>17, <2>1 DEF OrderInv, IsRead, Select!Unsent
<1> QED
  BY <1>8, <1>11, <1>18 DEF SelectInv

\* The descriptor that is scanned next is that of an open connection.
LEMMA SelectScans ==
    ASSUME SelectInv, Select!ToScan # {}
    PROVE  /\ Select!atFd \in InUse /\ Select!atFd \in Select!ToScan
           /\ Select!client \in Open /\ fdOf[Select!client] = Select!atFd
<1>1. Select!ToScan \subseteq InUse /\ InUse \subseteq Accepted
  BY DEF Select!ToScan, SelectInv, TableInv
<1>2. Select!ToScan \in SUBSET Nat
  BY <1>1, FdsAreNats DEF InUse, Select!Table
<1>3. Select!atFd = Min(Select!ToScan)
  BY DEF Select!atFd, Select!Min, Min
<1>4. Select!atFd \in Select!ToScan
  BY <1>2, <1>3, MinIsLeast
<1>5. PICK c \in Open : fdOf[c] = Select!atFd
  BY <1>1, <1>4 DEF Accepted
<1>6. Select!client = Owner(Select!atFd)
  BY DEF Select!client, Select!Owner, Owner, Select!Open, Open, Select!Clients, Clients
<1>7. Owner(Select!atFd) = c
  BY <1>5, OwnerOf DEF SelectInv
<1> QED
  BY <1>1, <1>4, <1>5, <1>6, <1>7

\* What is read at the descriptor that is scanned: all there is, or nothing.
LEMMA SelectArrives ==
    ASSUME SelectInv, NEW c \in Open
    PROVE  \E m \in Nat :
            /\ got[c] + m <= sent[c]
            /\ (IF Select!atFd \in readset THEN Select!Arriving(c, Select!Unread(c)) ELSE <<>>)
                    = Select!Arriving(c, m)
            /\ Len(Select!Arriving(c, m)) = m
<1>1. c \in Clients /\ got[c] \in Nat /\ sent[c] \in Nat /\ got[c] <= sent[c]
  BY DEF SelectInv, SelectTypes, Open
<1>2. \A m \in Nat : Len(Select!Arriving(c, m)) = m
  BY DEF Select!Arriving
<1>3. Select!Unread(c) = sent[c] - got[c] /\ Select!Unread(c) \in Nat
  BY <1>1 DEF Select!Unread
<1>4. Select!Arriving(c, 0) = <<>>
  BY DEF Select!Arriving
<1>5. CASE Select!atFd \in readset
  BY <1>1, <1>2, <1>3, <1>5
<1>6. CASE Select!atFd \notin readset
  <2>1. got[c] + 0 <= sent[c]
    BY <1>1
  <2> QED
    BY <1>2, <1>4, <1>6, <2>1
<1> QED
  BY <1>5, <1>6

LEMMA NothingWritten ==
    ASSUME NEW S, NEW u \in Seq(S)
    PROVE  /\ SubSeq(u, 1, 0) = <<>> /\ <<>> \in Seq(S) /\ <<>> \o u = u /\ u \o <<>> = u
<1> QED
  OBVIOUS

LEMMA SelectCloses ==
    ASSUME SelectInv, Select!CloseClient
    PROVE  SelectInv'
<1>1. PICK f : f = Select!atFd
  OBVIOUS
<1>2. PICK c : c = Select!client
  OBVIOUS
<1>3. Select!ToScan # {}
  BY DEF Select!CloseClient
<1>4. f \in InUse /\ c \in Open /\ fdOf[c] = f
  BY <1>1, <1>2, <1>3, SelectScans
<1>5. PICK m \in Nat :
        /\ got[c] + m <= sent[c]
        /\ (IF Select!atFd \in readset THEN Select!Arriving(c, Select!Unread(c)) ELSE <<>>)
                = Select!Arriving(c, m)
        /\ Len(Select!Arriving(c, m)) = m
  BY <1>4, SelectArrives
<1>6. PICK a : a = Select!onSocketRead(buffer[f], Select!Arriving(c, m))
  OBVIOUS
<1>7. PICK b : b = [a EXCEPT !.connect_fd = 0]
  OBVIOUS
<1>8. /\ buffer' = [buffer EXCEPT ![f] = b]
      /\ link' = [link EXCEPT ![c] = "closed"] /\ got' = [got EXCEPT ![c] = got[c] + m]
      /\ readset' = readset \ {f} /\ writeset' = writeset \ {f}
      /\ UNCHANGED <<fdOf, sent, outbox, inherited>>
  BY <1>1, <1>2, <1>5, <1>6, <1>7 DEF Select!CloseClient, Select!Scanned
<1>9. PICK u : u = Select!Unsent(a)
  OBVIOUS
<1>10. PICK due : due = inherited[c] \o OwnUpTo(c, got[c] + m)
  OBVIOUS
<1>11. PICK g : g = [got EXCEPT ![c] = got[c] + m]
  OBVIOUS
<1>12. /\ Fits(a) /\ a.connect_fd = f /\ u \in Seq(Bytes) /\ Distinct(u)
       /\ \A k \in DOMAIN u : u[k] \in Bytes /\ u[k].num \in 1 .. g[u[k].from]
       /\ due \in Seq(Bytes) /\ Placed(outbox[c] \o u, due)
  <2>1. InStep(a, f, u, g, outbox[c], due)
    BY <1>4, <1>6, <1>9, <1>10, <1>11, SelectTakes
  <2> QED
    BY <2>1 DEF InStep
<1>13. Fits(b) /\ b.connect_fd = 0 /\ Select!Unsent(b) = u
  <2>1. a \in Buffers
    BY <1>12 DEF Fits
  <2>2. b \in Buffers /\ b.data = a.data /\ b.readIndex = a.readIndex /\ b.connect_fd = 0
    BY <1>7, <2>1 DEF Buffers
  <2> QED
    BY <1>9, <1>12, <2>2 DEF Fits, Select!Unsent
<1>14. /\ c \in Clients /\ outbox[c] \in Seq(Bytes) /\ outbox \in [Clients -> Seq(Bytes)]
  BY <1>4 DEF SelectInv, SelectTypes, Open
<1>15. PICK o \in Seq(Bytes) : o = outbox[c]
  BY <1>14
<1>16. o \o <<>> = o /\ <<>> \in Seq(Bytes)
  BY NothingWritten
<1>17. Placed((o \o <<>>) \o u, due) /\ Placed(o \o <<>>, due)
  <2>1. Placed(o \o u, due)
    BY <1>12, <1>15
  <2>2. Placed(o, due)
    BY <1>12, <2>1, PlacedPrefix
  <2> QED
    BY <1>16, <2>1, <2>2
<1>18. outbox' = [outbox EXCEPT ![c] = outbox[c] \o <<>>]
  BY <1>8, <1>14, <1>15, <1>16
<1>19. SocketsInv'
  <2>1. Close(c) \/ (link' = [link EXCEPT ![c] = "closed"] /\ fdOf' = fdOf)
    BY <1>8
  <2>2. Open' = Open \ {c} /\ c \in Clients
    BY <1>4, <1>8 DEF SelectInv, SocketsInv, Open
  <2> QED
    BY <1>8, <2>2 DEF SelectInv, SocketsInv
<1>20. readset' \cup writeset' \subseteq (readset \cup writeset) \ {f}
  BY <1>8
<1>21. got' = g
  BY <1>8, <1>11
<1> QED
  BY <1>4, <1>5, <1>8, <1>10, <1>12, <1>13, <1>15, <1>16, <1>17, <1>18, <1>19, <1>20, <1>21,
     SelectMoves

\* After the read and the write of an echo: what was written, and what is left.
LEMMA EchoWrites ==
    ASSUME NEW a, Fits(a), NEW k \in 0 .. Len(Select!Unsent(a)), NEW on \in BOOLEAN,
           on \/ k = 0, NEW b, b = IF on THEN Select!onSocketWrite(a, k) ELSE a
    PROVE  /\ Fits(b) /\ b.connect_fd = a.connect_fd
           /\ SubSeq(Select!Unsent(a), 1, k) \in Seq(Bytes)
           /\ Select!Unsent(b) \in Seq(Bytes)
           /\ SubSeq(Select!Unsent(a), 1, k) \o Select!Unsent(b) = Select!Unsent(a)
<1>1. CASE on
  BY <1>1, WriteTakes
<1>2. CASE ~on
  <2>1. Select!Unsent(a) \in Seq(Bytes)
    BY UnsentType
  <2>2. /\ SubSeq(Select!Unsent(a), 1, 0) = <<>> /\ <<>> \in Seq(Bytes)
        /\ <<>> \o Select!Unsent(a) = Select!Unsent(a)
    BY <2>1, NothingWritten
  <2> QED
    BY <1>2, <2>1, <2>2
<1> QED
  BY <1>1, <1>2

\* What is left of w \o r after w was written.
LeftOf(w, r, g) ==
    /\ Distinct(r)
    /\ \A k \in DOMAIN r : r[k] \in Bytes /\ r[k].num \in 1 .. g[r[k].from]

LEMMA EchoLeaves ==
    ASSUME NEW w \in Seq(Bytes), NEW r \in Seq(Bytes), NEW u, NEW g
    PROVE  /\ w \o r = u /\ Distinct(u)
           /\ \A k \in DOMAIN u : u[k] \in Bytes /\ u[k].num \in 1 .. g[u[k].from]
           => LeftOf(w, r, g)
<1>1. SUFFICES ASSUME w \o r = u /\ Distinct(u),
                      \A k \in DOMAIN u : u[k] \in Bytes /\ u[k].num \in 1 .. g[u[k].from]
               PROVE  LeftOf(w, r, g)
  OBVIOUS
<1>2. w \o r = u /\ Distinct(u)
  BY <1>1
<1>3. Distinct(r) /\ \A k \in DOMAIN r : \E j \in DOMAIN u : r[k] = u[j]
  <2>1. Distinct(w \o r)
    BY <1>2
  <2>2. Distinct(r) /\ \A k \in DOMAIN r : \E j \in DOMAIN (w \o r) : r[k] = (w \o r)[j]
    BY <2>1, DistinctRest
  <2> QED
    BY <1>2, <2>2
<1> QED
  BY <1>1, <1>3 DEF LeftOf

LEMMA SelectEchoes ==
    ASSUME SelectInv, Select!EchoClient
    PROVE  SelectInv'
<1>1. PICK f : f = Select!atFd
  OBVIOUS
<1>2. PICK c : c = Select!client
  OBVIOUS
<1>3. Select!ToScan # {}
  BY DEF Select!EchoClient
<1>4. f \in InUse /\ c \in Open /\ fdOf[c] = f
  BY <1>1, <1>2, <1>3, SelectScans
<1>5. PICK m \in Nat :
        /\ got[c] + m <= sent[c]
        /\ (IF Select!atFd \in readset THEN Select!Arriving(c, Select!Unread(c)) ELSE <<>>)
                = Select!Arriving(c, m)
        /\ Len(Select!Arriving(c, m)) = m
  BY <1>4, SelectArrives
<1>6. PICK a : a = Select!onSocketRead(buffer[f], Select!Arriving(c, m))
  OBVIOUS
<1>7. PICK u : u = Select!Unsent(a)
  OBVIOUS
<1>8. PICK on \in BOOLEAN : on <=> f \in writeset
  OBVIOUS
<1>9. PICK k \in 0 .. Len(u) :
        /\ on \/ k = 0
        /\ buffer' = [buffer EXCEPT ![f] = IF on THEN Select!onSocketWrite(a, k) ELSE a]
        /\ Select!Exchange(c, m, SubSeq(u, 1, k))
        /\ Select!Scanned
  BY <1>1, <1>2, <1>5, <1>6, <1>7, <1>8 DEF Select!EchoClient
<1>10. PICK b : b = IF on THEN Select!onSocketWrite(a, k) ELSE a
  OBVIOUS
<1>11. PICK w : w = SubSeq(u, 1, k)
  OBVIOUS
<1>12. PICK r : r = Select!Unsent(b)
  OBVIOUS
<1>13. /\ buffer' = [buffer EXCEPT ![f] = b]
       /\ got' = [got EXCEPT ![c] = got[c] + m]
       /\ outbox' = [outbox EXCEPT ![c] = outbox[c] \o w]
       /\ readset' = readset \ {f} /\ writeset' = writeset \ {f}
       /\ UNCHANGED <<link, fdOf, sent, inherited>>
  BY <1>1, <1>9, <1>10, <1>11 DEF Select!Exchange, Select!Scanned
<1>14. PICK due : due = inherited[c] \o OwnUpTo(c, got[c] + m)
  OBVIOUS
<1>15. PICK g : g = [got EXCEPT ![c] = got[c] + m]
  OBVIOUS
<1>16. /\ Fits(a) /\ a.connect_fd = f /\ u \in Seq(Bytes) /\ Distinct(u)
       /\ \A j \in DOMAIN u : u[j] \in Bytes /\ u[j].num \in 1 .. g[u[j].from]
       /\ due \in Seq(Bytes) /\ Placed(outbox[c] \o u, due)
  <2>1. InStep(a, f, u, g, outbox[c], due)
    BY <1>4, <1>6, <1>7, <1>14, <1>15, SelectTakes
  <2> QED
    BY <2>1 DEF InStep
<1>17. /\ Fits(b) /\ b.connect_fd = f /\ w \in Seq(Bytes) /\ r \in Seq(Bytes)
       /\ w \o r = u
  BY <1>7, <1>9, <1>10, <1>11, <1>12, <1>16, EchoWrites
<1>18. outbox[c] \in Seq(Bytes)
  BY <1>4 DEF SelectInv, SelectTypes, Open
<1>19. Placed((outbox[c] \o w) \o r, due) /\ Placed(outbox[c] \o w, due)
  BY <1>16, <1>17, <1>18, PlacedSplit
<1>20. LeftOf(w, r, g)
  <2>1. w \in Seq(Bytes) /\ r \in Seq(Bytes)
    BY <1>17
  <2>2. /\ w \o r = u /\ Distinct(u)
        /\ \A j \in DOMAIN u : u[j] \in Bytes /\ u[j].num \in 1 .. g[u[j].from]
        => LeftOf(w, r, g)
    BY <2>1, EchoLeaves
  <2> QED
    BY <1>16, <1>17, <2>2
<1>21. got' = g
  BY <1>13, <1>15
<1>22. \A j \in DOMAIN r : r[j] \in Bytes /\ r[j].num \in 1 .. got'[r[j].from]
  BY <1>20, <1>21 DEF LeftOf
<1>23. SocketsInv'
  BY <1>13 DEF SelectInv, SocketsInv, Open
<1>24. readset' \cup writeset' \subseteq (readset \cup writeset) \ {f}
  BY <1>13
<1> QED
  BY <1>4, <1>5, <1>12, <1>13, <1>14, <1>17, <1>19, <1>20, <1>22, <1>23, <1>24, SelectMoves DEF LeftOf

\* The connections and what clients sent, after a step in which none was opened or closed.
SelectKept ==
    /\ SocketsInv' /\ Open' = Open /\ fdOf' = fdOf
    /\ sent' \in [Clients -> Nat] /\ \A c \in Clients : sent[c] <= sent'[c]
    /\ \A c \in Clients : link'[c] \in {"none", "waiting"} => link[c] \in {"none", "waiting"}

LEMMA SelectStep ==
    ASSUME SelectInv, Select!Server \/ Select!Outside \/ UNCHANGED programsVars
    PROVE  SelectInv'
<1>1. CASE Select!Outside \/ Select!EndScan \/ UNCHANGED programsVars
  <2>1. UNCHANGED <<got, outbox, buffer, inherited, readset, writeset>>
    BY <1>1 DEF Select!Outside, Select!selectVars, Select!EndScan, Select!sockVars, programsVars,
                sockVars, Select!Environment, Select!Connect, Select!Send, Select!Turn
  <2>2. SelectKept
    <3>1. CASE Select!Outside
      <4>1. Environment
        BY <3>1 DEF Select!Outside, Select!Environment, Environment, Select!Connect, Connect,
                    Select!Send, Send, Select!Turn, Turn, Select!Connected, Connected,
                    Select!Clients, Clients
      <4>2. SocketsInv' /\ Open' = Open /\ fdOf' = fdOf
        BY <4>1, EnvironmentKeeps DEF SelectInv
      <4>3. /\ sent' \in [Clients -> Nat] /\ \A c \in Clients : sent[c] <= sent'[c]
            /\ \A c \in Clients :
                link'[c] \in {"none", "waiting"} => link[c] \in {"none", "waiting"}
        <5>1. sent \in [Clients -> Nat] /\ link \in [Clients -> {"none", "waiting", "open", "closed"}]
          BY DEF SelectInv, SelectTypes, SocketsInv
        <5>2. CASE \E c \in Clients : Send(c)
          BY <5>1, <5>2 DEF Send
        <5>3. CASE \E c \in Clients : Connect(c)
          BY <5>1, <5>3 DEF Connect
        <5>4. CASE sent' = sent /\ link' = link
          BY <5>1, <5>4
        <5> QED
          BY <4>1, <5>2, <5>3, <5>4 DEF Environment, Turn
      <4> QED
        BY <4>2, <4>3 DEF SelectKept
    <3>2. CASE Select!EndScan \/ UNCHANGED programsVars
      <4>1. link' = link /\ fdOf' = fdOf /\ sent' = sent
        BY <3>2 DEF Select!EndScan, Select!sockVars, programsVars, sockVars
      <4>2. SocketsInv' /\ Open' = Open /\ fdOf' = fdOf
        BY <4>1, SameConnections DEF SelectInv
      <4>3. sent' \in [Clients -> Nat] /\ \A c \in Clients : sent[c] <= sent'[c]
        BY <4>1 DEF SelectInv, SelectTypes
      <4> QED
        BY <4>1, <4>2, <4>3 DEF SelectKept
    <3> QED
      BY <1>1, <3>1, <3>2
  <2>3. readset' \cup writeset' \subseteq InUse
    BY <2>1 DEF SelectInv, TableInv
  <2> QED
    BY <2>1, <2>2, <2>3, SelectQuiet DEF SelectKept
<1>2. CASE Select!Select
  <2>1. UNCHANGED <<link, fdOf, sent, got, outbox, buffer, inherited>>
    BY <1>2 DEF Select!Select, Select!sockVars
  <2>2. SocketsInv' /\ Open' = Open /\ fdOf' = fdOf
    BY <2>1, SameConnections DEF SelectInv
  <2>3. sent' \in [Clients -> Nat] /\ \A c \in Clients : sent[c] <= sent'[c]
    BY <2>1 DEF SelectInv, SelectTypes
  <2>4. readset' \cup writeset' \subseteq InUse
    BY <1>2 DEF Select!Select, InUse
  <2> QED
    BY <2>1, <2>2, <2>3, <2>4, SelectQuiet
<1> QED
  BY <1>1, <1>2, SelectAccepts, SelectCloses, SelectEchoes DEF Select!Server

\* What is due to a client is so once: its own bytes, after bytes of others.
LEMMA DueOnce ==
    ASSUME SelectInv, NEW c \in Clients
    PROVE  Distinct(Due(c)) /\ Due(c) \in Seq(Bytes)
<1>1. PICK h : h = inherited[c]
  OBVIOUS
<1>2. PICK own : own = OwnUpTo(c, got[c])
  OBVIOUS
<1>3. /\ h \in Seq(Bytes) /\ Distinct(h) /\ got[c] \in Nat
      /\ \A k \in DOMAIN h : h[k].from # c
  BY <1>1 DEF SelectInv, SelectTypes, OrderInv
<1>4. /\ own \in Seq(Bytes) /\ DOMAIN own = 1 .. got[c]
      /\ \A k \in 1 .. got[c] : own[k] = Rotated(c, k)
  <2>1. own \in Seq(Bytes) /\ Len(own) = got[c]
        /\ \A k \in 1 .. got[c] : own[k] = Rotated(c, k)
    BY <1>2, <1>3, OwnBytes
  <2> QED
    BY <2>1
<1>5. Distinct(own) /\ Disjoint(h, own)
  <2>1. \A j \in DOMAIN own : own[j].from = c /\ own[j].num = j
    <3>1. \A k : Rotated(c, k).from = c /\ Rotated(c, k).num = k
      BY DEF Rotated
    <3> QED
      BY <1>4, <3>1
  <2> QED
    BY <1>3, <2>1 DEF Distinct, Disjoint
<1>6. Distinct(h \o own) /\ h \o own \in Seq(Bytes)
  <2>1. h \in Seq(Bytes) /\ own \in Seq(Bytes) /\ Distinct(h)
    BY <1>3, <1>4
  <2> QED
    BY <1>5, <2>1, CatDistinct, CatFacts
<1> QED
  BY <1>1, <1>2, <1>6 DEF Due

\* o holds what is in due, in that order.
InOrder(o, due) ==
    /\ \A k \in DOMAIN o : o[k] \in Select!ToSet(due)
    /\ \A j, k \in DOMAIN o : j < k =>
            (CHOOSE m \in DOMAIN due : due[m] = o[j]) < (CHOOSE m \in DOMAIN due : due[m] = o[k])

LEMMA SelectApart == SelectInv => Select!OwnAfterInherited
<1> SUFFICES ASSUME SelectInv PROVE Select!OwnAfterInherited
  OBVIOUS
<1>1. ASSUME NEW c \in Clients PROVE InOrder(outbox[c], Due(c))
  <2>1. PICK due : due = Due(c)
    OBVIOUS
  <2>2. PICK o : o = outbox[c]
    OBVIOUS
  <2>3. Placed(o, due) /\ o \in Seq(Bytes) /\ due \in Seq(Bytes) /\ Distinct(due)
    BY <2>1, <2>2, DueOnce DEF SelectInv, SelectTypes, OrderInv
  <2>4. \A k \in DOMAIN o : \E m \in DOMAIN due : o[k] = due[m]
    BY <2>3 DEF Placed
  <2>5. \A k \in DOMAIN o : o[k] \in Select!ToSet(due)
    BY <2>4 DEF Select!ToSet
  <2>6. DOMAIN due \subseteq Nat
    BY <2>3
  <2>7. \A j, k \in DOMAIN o : j < k =>
            (CHOOSE m \in DOMAIN due : due[m] = o[j]) < (CHOOSE m \in DOMAIN due : due[m] = o[k])
    BY <2>3, <2>6, PlacedOrder
  <2> QED
    BY <2>1, <2>2, <2>5, <2>7 DEF InOrder
<1>2. \A c \in Clients :
        [k \in 1 .. got[c] |-> Select!rot13_char(Select!Byte(c, k))] = OwnUpTo(c, got[c])
  BY SelectRotates DEF OwnUpTo
<1>3. \A c \in Clients : InOrder(outbox[c],
            inherited[c] \o [k \in 1 .. got[c] |-> Select!rot13_char(Select!Byte(c, k))])
  BY <1>1, <1>2 DEF Due
<1> QED
  BY <1>3 DEF InOrder, Select!OwnAfterInherited, Select!Clients, Clients

-----------------------------------------------------------------------------
(* What ends the servers that mix their clients up *)

LEMMA ThreadHarmless ==
    ASSUME HarmInv, ThreadInv, program = "thread", program' = program,
           \/ Runs("thread") /\ (Thread!Main \/ \E t \in Clients : Thread!Thread(t))
           \/ Runs("thread") /\ Thread!Outside
           \/ UNCHANGED programsVars
    PROVE  HarmInv'
<1>0. program \notin Endless /\ UNCHANGED <<buffer, event_set>>
  BY ServerNames DEF Runs, Idle, programsVars
<1>1. CASE UNCHANGED programsVars
  <2>1. UNCHANGED <<link, fdOf, peer, pc>>
    BY <1>1 DEF programsVars, sockVars
  <2> QED
    BY <1>0, <2>1, SameConnections, HarmQuiet DEF ThreadInv, HarmInv, PeerInv
<1>2. CASE Thread!Outside
  <2>1. Environment /\ UNCHANGED pc
    BY <1>2 DEF Thread!Outside, Thread!Environment, Environment,
                Thread!Connect, Connect, Thread!Send, Send, Thread!Turn, Turn,
                Thread!Connected, Connected, Thread!Clients, Clients
  <2> QED
    BY <1>0, <2>1, HarmEnvironment DEF ThreadInv
<1>3. CASE Thread!Main
  <2>1. peer' = peer /\ pc' \in {"wait", "create"}
    BY <1>3 DEF Thread!Main, Thread!AcceptClient, Thread!CreateThread, Thread!sockVars,
                Thread!Accept
  <2>2. PeerInv'
    BY <2>1 DEF HarmInv, PeerInv, Clients
  <2> QED
    BY <2>1, <2>2, HarmQuiet
<1>4. ASSUME NEW t \in Clients, Thread!Thread(t)
      PROVE  HarmInv'
  <2>1. UNCHANGED <<link, fdOf, peer>>
    BY <1>4 DEF Thread!Thread, Thread!thread_run, Thread!EchoByte, Thread!EndEcho,
                Thread!sockVars, Thread!Exchange
  <2>2. Open' = Open /\ fdOf' = fdOf /\ PeerInv'
    BY <2>1 DEF HarmInv, PeerInv, Clients, Open
  <2>3. CASE pc' = pc
    BY <1>0, <2>1, <2>2, <2>3, HarmQuiet
  <2>4. CASE pc' # pc
    <3>1. thread[t] = "run" /\ peer[Thread!Owner(serves[t])] = "rst"
      BY <1>4, <2>4 DEF Thread!Thread, Thread!thread_run, Thread!EchoByte, Thread!EndEcho
    <3>2. serves[t] \in Accepted
      BY <3>1 DEF ThreadInv, ThreadsInv
    <3>3. PICK c \in Open : fdOf[c] = serves[t]
      BY <3>2 DEF Accepted
    <3>4. Thread!Owner(serves[t]) = Owner(serves[t])
      BY DEF Thread!Owner, Owner, Thread!Open, Open, Thread!Clients, Clients
    <3>5. Owner(serves[t]) = c
      BY <3>3, OwnerOf DEF ThreadInv
    <3> QED
      BY <1>0, <2>1, <2>2, <3>1, <3>3, <3>4, <3>5, EndsBy
  <2> QED
    BY <2>3, <2>4
<1> QED
  BY <1>1, <1>2, <1>3, <1>4

\* A client whose descriptor is beyond the table.
LEMMA SelectOverruns ==
    ASSUME SelectInv, program = "select", program' = program, Select!AcceptClient,
           pc' = "wild"
    PROVE  Overfull'
<1>1. PICK c \in Waiting : Accept(c)
  BY DEF Select!AcceptClient, Select!Waiting, Waiting, Select!Accept, Accept, Select!NewFd, NewFd,
         Select!Open, Open, Select!Clients, Clients, Select!Min, Min
<1>2. /\ Open' = Open \cup {c} /\ fdOf'[c] = NewFd
      /\ NewFd \in Fds /\ \A d \in Open : fdOf[d] # NewFd
  BY <1>1, AcceptKeeps DEF SelectInv
<1>3. /\ ~(NewFd < FD_INIT_SIZE /\ buffer[NewFd].connect_fd = 0)
      /\ buffer' = buffer
  BY DEF Select!AcceptClient, Select!NewFd, NewFd, Select!Open, Open, Select!Clients, Clients,
         Select!Min, Min
<1>4. NewFd \notin InUse
  BY <1>2 DEF SelectInv, TableInv, Accepted
<1>5. NewFd \notin Select!Table
  BY <1>3, <1>4 DEF InUse, Select!Table
<1>6. DOMAIN buffer' = Select!Table
  BY <1>3 DEF SelectInv, SelectTypes
<1>7. \E d \in Open' : fdOf'[d] \notin DOMAIN buffer'
  BY <1>2, <1>5, <1>6
<1> QED
  BY <1>7 DEF Overfull

LEMMA SelectHarmless ==
    ASSUME HarmInv, SelectInv, program = "select", program' = program,
           \/ Runs("select") /\ Select!Server
           \/ Runs("select") /\ Select!Outside
           \/ UNCHANGED programsVars
    PROVE  HarmInv'
<1>0. program \notin Endless /\ UNCHANGED event_set
  BY ServerNames DEF Runs, Idle, programsVars
<1>1. CASE UNCHANGED programsVars
  <2>1. UNCHANGED <<link, fdOf, peer, pc, buffer>>
    BY <1>1 DEF programsVars, sockVars
  <2> QED
    BY <1>0, <2>1, SameConnections, HarmQuiet DEF SelectInv, HarmInv, PeerInv
<1>2. CASE Select!Outside
  <2>1. Environment /\ UNCHANGED <<pc, buffer>>
    BY <1>2 DEF Select!Outside, Select!selectVars, Select!Environment, Environment,
                Select!Connect, Connect, Select!Send, Send, Select!Turn, Turn,
                Select!Connected, Connected, Select!Clients, Clients
  <2> QED
    BY <1>0, <2>1, HarmEnvironment DEF SelectInv
<1>3. CASE Select!Server
  <2>1. peer' = peer
    BY <1>3 DEF Select!Server, Select!Select, Select!AcceptClient, Select!CloseClient,
                Select!EchoClient, Select!EndScan, Select!sockVars, Select!Accept, Select!Exchange
  <2>2. PeerInv'
    BY <2>1 DEF HarmInv, PeerInv, Clients
  <2>3. pc' \in {"wait", "accept", "scan"} \/ (pc' = "wild" /\ Select!AcceptClient)
    BY <1>3 DEF Select!Server, Select!Select, Select!AcceptClient, Select!CloseClient,
                Select!EchoClient, Select!EndScan, Select!Scanned
  <2>4. CASE pc' \in {"wait", "accept", "scan"}
    BY <2>2, <2>4, HarmQuiet
  <2>5. CASE pc' = "wild" /\ Select!AcceptClient
    BY <1>0, <2>2, <2>5, SelectOverruns DEF HarmInv, Why
  <2> QED
    BY <2>3, <2>4, <2>5
<1> QED
  BY <1>1, <1>2, <1>3

-----------------------------------------------------------------------------
(* Theorems *)

ClientsInv ==
    /\ program = "poll" => PollInv
    /\ program = "loop" => LoopInv
    /\ program = "select" => SelectInv
    /\ program = "thread" => ThreadInv
    /\ program = "files" => FilesInv
    /\ program \in DOMAIN EpollNumber => EpollInv /\ EpollEcho
    /\ program = "datagrams" => UdpInv

LEMMA ClientsStart == Init => ClientsInv
<1> QED
  BY PollInit, LoopInit, SelectInit, ThreadInit, FilesInit, EpollInit, EpollEchoInit, UdpInit
     DEF ClientsInv

LEMMA ClientsStep ==
    ASSUME ClientsInv, [Next]_programsVars
    PROVE  ClientsInv'
<1>1. program' = program
  BY OneProgram
<1>2. CASE program = "poll"
  BY <1>1, <1>2, OneProgram, PollStep, ServerNames DEF ClientsInv
<1>3. CASE program = "loop"
  BY <1>1, <1>3, OneProgram, LoopStep, ServerNames DEF ClientsInv
<1>4. CASE program = "select"
  BY <1>1, <1>4, OneProgram, SelectStep, ServerNames DEF ClientsInv
<1>5. CASE program = "thread"
  BY <1>1, <1>5, OneProgram, ThreadStep, ServerNames DEF ClientsInv
<1>6. CASE program = "files"
  BY <1>1, <1>6, OneProgram, FilesStep, ServerNames DEF ClientsInv
<1>7. CASE program \in DOMAIN EpollNumber
  <2>1. EpollInv /\ EpollEcho
    BY <1>7 DEF ClientsInv
  <2>2. EpollInv' /\ EpollEcho'
    BY <1>7, <2>1, EpollRuns, EpollStep, EpollEchoes
  <2> QED
    BY <1>1, <1>7, <2>2, ServerNames DEF ClientsInv
<1>8. CASE program = "datagrams"
  BY <1>1, <1>8, OneProgram, UdpStep, ServerNames DEF ClientsInv
<1>9. CASE program \notin {"poll", "loop", "select", "thread", "files", "datagrams"}
                         \cup DOMAIN EpollNumber
  BY <1>1, <1>9, ServerNames DEF ClientsInv
<1> QED
  BY <1>2, <1>3, <1>4, <1>5, <1>6, <1>7, <1>8, <1>9

LEMMA ClientsInvariant == ProgramsSpec => []ClientsInv
<1> QED
  BY ClientsStart, ClientsStep, PTL DEF ProgramsSpec

LEMMA HarmStep ==
    ASSUME HarmInv, ClientsInv, ClientsInv', [Next]_programsVars
    PROVE  HarmInv'
<1>1. program' = program
  BY OneProgram
<1>2. DOMAIN EpollNumber = {"epoll1", "epoll2", "epoll3"}
  BY ServerNames
<1>3. /\ program = "poll" => \/ Runs("poll") /\ Poll!Server
                             \/ Runs("poll") /\ Poll!Outside
                             \/ UNCHANGED programsVars
      /\ program = "loop" => \/ Runs("loop") /\ Loop!Server
                             \/ Runs("loop") /\ Loop!Outside
                             \/ UNCHANGED programsVars
      /\ program = "select" => \/ Runs("select") /\ Select!Server
                               \/ Runs("select") /\ Select!Outside
                               \/ UNCHANGED programsVars
      /\ program = "thread" =>
            \/ Runs("thread") /\ (Thread!Main \/ \E t \in Clients : Thread!Thread(t))
            \/ Runs("thread") /\ Thread!Outside
            \/ UNCHANGED programsVars
  BY <1>2 DEF Next, MainStep, ChildStep, Runs
<1>4. CASE program = "poll"
  BY <1>1, <1>3, <1>4, PollHarmless DEF ClientsInv
<1>5. CASE program = "loop"
  BY <1>1, <1>3, <1>5, LoopHarmless DEF ClientsInv
<1>6. CASE program = "select"
  BY <1>1, <1>3, <1>6, SelectHarmless DEF ClientsInv
<1>7. CASE program = "thread"
  BY <1>1, <1>3, <1>7, ThreadHarmless DEF ClientsInv
<1>8. CASE program \in DOMAIN EpollNumber
  <2>1. UNCHANGED <<buffer, event_set>>
    <3>1. CASE UNCHANGED programsVars
      BY <3>1 DEF programsVars
    <3>2. CASE Next
      <4>1. Idle(program)
        BY <3>2 DEF Next, MainStep, ChildStep, Runs
      <4> QED
        BY <1>2, <1>8, <4>1 DEF Idle
    <3> QED
      BY <3>1, <3>2
  <2>2. EpollInv /\ got \in [Clients -> Nat] /\ sent \in [Clients -> Nat]
    BY <1>8 DEF ClientsInv, EpollEcho, EchoCounts
  <2> QED
    BY <1>1, <1>8, <2>1, <2>2, EpollRuns, EpollHarmless
<1>9. CASE program \in {"fork"} \cup (Programs \ Servers)
  BY <1>1, <1>9, EndlessHarmless
<1> QED
  BY <1>2, <1>4, <1>5, <1>6, <1>7, <1>8, <1>9 DEF HarmInv, Programs, Servers

\* A server that serves all its clients in one process ends only because a client reset
\* its connection or does not read, or because its table is full: whatever connects,
\* sends and half-closes, in any order and number, the loops of chap-21 to chap-26 and
\* chap-27 go on. Nor do clients that wait for their answers end the file server, but by
\* listing a directory that is not there.
THEOREM OrderlyClientsHarmlessCorrect == ProgramsSpec => []OrderlyClientsHarmless
<1>1. Init => HarmInv
  BY HarmInit
<1>2. HarmInv /\ ClientsInv /\ ClientsInv' /\ [Next]_programsVars => HarmInv'
  BY HarmStep
<1>3. HarmInv /\ ClientsInv => OrderlyClientsHarmless
  BY DEF HarmInv, ClientsInv, FilesInv, OrderlyClientsHarmless, Why
<1> QED
  BY <1>1, <1>2, <1>3, ClientsInvariant, PTL DEF ProgramsSpec

\* The select server keeps the buffer of a descriptor when it closes the connection. What
\* it sends a client is a part of what it found in that buffer and of the client's own
\* bytes, in this order and none of them twice, however many clients share a descriptor.
\* Threads that find any descriptor in main's variable, and threads that share a
\* connection, send each client its own bytes only and none of them twice. The file server
\* answers a client that waits for its answers once for each of its lines. A UDP client
\* hears the answers to its own lines, in step while no datagram is copied, and waits for
\* ever only for a lost datagram or at a server that is connected to another client. The
\* edge-triggered epoll server sends a client its own bytes in their order, whatever part
\* of each chunk its writes take, and all that it read of a client that reads at once.
THEOREM ClientsKeptApartCorrect == ProgramsSpec => []ClientsKeptApart
<1>1. ClientsInv => ClientsKeptApart
  <2> SUFFICES ASSUME ClientsInv PROVE ClientsKeptApart
    OBVIOUS
  <2>1. program = "select" => Select!OwnAfterInherited
    BY SelectApart DEF ClientsInv
  <2>2. program = "thread" => Thread!OwnBytesOnce /\ Thread!NewestServed
    BY ThreadApart DEF ClientsInv
  <2>3. program = "files" => Files!PatientClientsAnswered
    BY DEF ClientsInv, FilesInv
  <2>4. program = "datagrams" => Udp!AnswersOwn /\ Udp!WaitsOnlyForLost
    BY UdpWaits DEF ClientsInv, UdpInv
  <2>5. program = "epoll1" => Epoll(1)!OwnBytesInOrder
    BY EpollKeepsApart, ServerNames DEF ClientsInv
  <2> QED
    BY <2>1, <2>2, <2>3, <2>4, <2>5 DEF ClientsKeptApart
<1> QED
  BY <1>1, ClientsInvariant, PTL

-----------------------------------------------------------------------------
(* The echo service *)

\* fork01's children collect a line each, and send it when it ends.
Collected(c, k) == IF k - LinesEnd(c, k) <= LineSize THEN k - LinesEnd(c, k) ELSE LineSize + 1
ForkEcho ==
    /\ EchoCounts /\ PeerInv
    /\ outbuf \in [Clients -> Seq(Bytes)]
    /\ \A c \in Clients :
        /\ Len(outbuf[c]) = Collected(c, got[c])
        /\ peer[c] # "rst" => outbox[c] \o outbuf[c] = LineStarts(c)[got[c]]

LEMMA CatAppend ==
    ASSUME NEW S, NEW o \in Seq(S), NEW u \in Seq(S), NEW b \in S
    PROVE  o \o Append(u, b) = Append(o \o u, b)
<1> DEFINE d == Append(o \o u, b)
           t == Append(u, b)
<1>1. /\ t \in Seq(S) /\ Len(t) = Len(u) + 1 /\ Len(u) \in Nat /\ Len(o) \in Nat
      /\ \A j \in 1 .. Len(u) : t[j] = u[j]
      /\ t[Len(u) + 1] = b
  BY AppendFacts
<1>2. /\ o \o u \in Seq(S) /\ Len(o \o u) = Len(o) + Len(u)
      /\ \A j \in 1 .. Len(o) : (o \o u)[j] = o[j]
      /\ \A j \in 1 .. Len(u) : (o \o u)[Len(o) + j] = u[j]
  BY CatFacts
<1>3. PICK r \in Seq(S) :
        /\ r = o \o u /\ Len(r) = Len(o) + Len(u)
        /\ \A j \in 1 .. Len(o) : r[j] = o[j]
        /\ \A j \in 1 .. Len(u) : r[Len(o) + j] = u[j]
  BY <1>2
<1>4. /\ d \in Seq(S) /\ Len(d) = Len(r) + 1
      /\ \A j \in 1 .. Len(r) : d[j] = r[j]
      /\ d[Len(r) + 1] = b
  BY <1>3, AppendFacts
<1> HIDE DEF d, t
<1>5. Len(d) = Len(o) + Len(t) /\ \A j \in 1 .. Len(o) : d[j] = o[j]
  <2>1. Len(d) = Len(o) + Len(t)
    BY <1>1, <1>3, <1>4
  <2>2. ASSUME NEW j \in 1 .. Len(o) PROVE d[j] = o[j]
    <3>1. j \in 1 .. Len(r)
      BY <1>1, <1>3
    <3> QED
      BY <1>3, <1>4, <3>1
  <2> QED
    BY <2>1, <2>2
<1>6. ASSUME NEW j \in 1 .. Len(t) PROVE d[Len(o) + j] = t[j]
  <2>1. CASE j \in 1 .. Len(u)
    <3>1. Len(o) + j \in 1 .. Len(r)
      BY <1>1, <1>3, <2>1
    <3>2. d[Len(o) + j] = r[Len(o) + j]
      BY <1>4, <3>1
    <3> QED
      BY <1>1, <1>3, <2>1, <3>2
  <2>2. CASE j = Len(u) + 1
    <3>1. Len(o) + j = Len(r) + 1
      BY <1>1, <1>3, <2>2
    <3> QED
      BY <1>1, <1>4, <2>2, <3>1
  <2> QED
    BY <1>1, <2>1, <2>2
<1>7. o \o t = d
  BY <1>1, <1>4, <1>5, <1>6, CatOfParts
<1> QED
  BY <1>7 DEF d, t

\* A line u after a child has read c's next byte.
Grown(c, k, u) == IF Len(u) <= LineSize THEN Append(u, Rotated(c, k + 1)) ELSE u

LEMMA LineGrows ==
    ASSUME NEW c \in Clients, NEW k \in Nat, k < Len(Text[c]),
           NEW o \in Seq(Bytes), NEW u \in Seq(Bytes), Len(u) = Collected(c, k)
    PROVE  /\ Grown(c, k, u) \in Seq(Bytes) /\ Grown(c, k, u) # <<>>
           /\ o \o u = LineStarts(c)[k] => o \o Grown(c, k, u) = LineStarts(c)[k + 1]
           /\ IF Text[c][k + 1]
              THEN Collected(c, k + 1) = 0 /\ LinesEnd(c, k + 1) = k + 1
              ELSE Len(Grown(c, k, u)) = Collected(c, k + 1)
<1>0. PICK l : l = Grown(c, k, u)
  OBVIOUS
<1>1. PICK b : b = Rotated(c, k + 1)
  OBVIOUS
<1>2. b \in Bytes
  BY <1>1 DEF Rotated, Bytes
<1>3. LineSize \in Nat \ {0} /\ Len(Text[c]) \in Nat
  BY ProgramsAssumption, SocketsAssumption DEF Clients
<1>4. PICK e \in 0 .. k : e = LinesEnd(c, k)
  BY LinesEndMoves
<1>5. LinesEnd(c, k + 1) = IF Text[c][k + 1] THEN k + 1 ELSE e
  <2>1. k + 1 \in 1 .. Len(Text[c]) /\ (k + 1) - 1 = k
    BY <1>3
  <2> QED
    BY <1>4, <2>1, LinesEndMoves
<1>6. Len(u) = IF k - e <= LineSize THEN k - e ELSE LineSize + 1
  BY <1>4 DEF Collected
<1>7. LineStarts(c)[k + 1] = IF (k + 1) - e <= LineSize + 1
                             THEN Append(LineStarts(c)[k], b) ELSE LineStarts(c)[k]
  BY <1>1, <1>4, LineStartsRecurs
<1>8. Len(u) <= LineSize <=> (k + 1) - e <= LineSize + 1
  BY <1>3, <1>6
<1>9. /\ l \in Seq(Bytes)
      /\ Len(l) = IF Len(u) <= LineSize THEN Len(u) + 1 ELSE Len(u)
  BY <1>0, <1>1, <1>2, AppendFacts DEF Grown
<1>10. l # <<>>
  <2>1. Len(l) # 0
    BY <1>3, <1>6, <1>9
  <2>2. Len(<<>>) = 0
    OBVIOUS
  <2> QED
    BY <2>1, <2>2
<1>11. ASSUME o \o u = LineStarts(c)[k] PROVE o \o l = LineStarts(c)[k + 1]
  <2>1. CASE Len(u) <= LineSize
    <3>1. o \o Append(u, b) = Append(o \o u, b)
      BY <1>2, CatAppend
    <3> QED
      BY <1>0, <1>1, <1>7, <1>8, <1>11, <2>1, <3>1 DEF Grown
  <2>2. CASE ~(Len(u) <= LineSize)
    BY <1>0, <1>7, <1>8, <1>11, <2>2 DEF Grown
  <2> QED
    BY <2>1, <2>2
<1>12. CASE Text[c][k + 1]
  <2>1. LinesEnd(c, k + 1) = k + 1 /\ (k + 1) - (k + 1) = 0 /\ 0 <= LineSize
    BY <1>3, <1>5, <1>12
  <2> QED
    BY <1>0, <1>9, <1>10, <1>11, <1>12, <2>1 DEF Collected
<1>13. CASE ~Text[c][k + 1]
  <2>1. LinesEnd(c, k + 1) = e
    BY <1>5, <1>13
  <2>2. Len(l) = IF (k + 1) - e <= LineSize THEN (k + 1) - e ELSE LineSize + 1
    BY <1>3, <1>6, <1>9
  <2> QED
    BY <1>0, <1>9, <1>10, <1>11, <1>13, <2>1, <2>2 DEF Collected
<1> QED
  BY <1>12, <1>13

LEMMA ForkRuns ==
    ASSUME [Next]_programsVars, program = "fork"
    PROVE  \/ Fork!Parent \/ Fork!Outside \/ \E c \in Clients : Fork!Child(c)
           \/ UNCHANGED programsVars
<1>1. CASE Next
  <2>1. DOMAIN EpollNumber = {"epoll1", "epoll2", "epoll3"}
    BY ServerNames
  <2>2. MainStep => Fork!Parent
    BY <2>1 DEF MainStep, Runs
  <2>3. \A c \in Clients : ChildStep(c) => Fork!Child(c)
    BY DEF ChildStep, Runs
  <2> QED
    BY <1>1, <2>1, <2>2, <2>3 DEF Next, Runs
<1> QED
  BY <1>1

LEMMA ForkStays ==
    ASSUME ForkEcho, program' = program, UNCHANGED <<sent, got, outbox, outbuf>>, PeerInv',
           \A c \in Clients : peer[c] = "rst" => peer'[c] = "rst"
    PROVE  ForkEcho' /\ UNCHANGED Echo!echoVars
<1>1. EchoCounts' /\ UNCHANGED Echo!echoVars
  BY NothingEchoed DEF ForkEcho
<1> QED
  BY <1>1 DEF ForkEcho

LEMMA ForkReads ==
    ASSUME program = "fork", program' = program, ForkEcho, NEW c \in Clients,
           Fork!ChildReads(c)
    PROVE  ForkEcho' /\ (Echo!Next \/ UNCHANGED Echo!echoVars)
<1>1. PICK k \in Nat : k = got[c]
  BY DEF ForkEcho, EchoCounts
<1>2. PICK u \in Seq(Bytes) : u = outbuf[c]
  BY DEF ForkEcho
<1>3. PICK ends : ends = Text[c][k + 1]
  OBVIOUS
<1>4. PICK l : l = Grown(c, k, u)
  OBVIOUS
<1>5. PICK x : x = IF ends /\ peer[c] # "rst" THEN l ELSE <<>>
  OBVIOUS
<1>6. /\ sent[c] - got[c] > 0 /\ UNCHANGED <<peer, sent>>
      /\ outbuf' = [outbuf EXCEPT ![c] = IF ends THEN <<>> ELSE l]
      /\ got' = [got EXCEPT ![c] = @ + 1] /\ outbox' = [outbox EXCEPT ![c] = @ \o x]
  <2>1. PICK b : b = Fork!Byte(c, got[c] + 1)
    OBVIOUS
  <2>2. Fork!EndsLine(b) = ends
    BY <1>1, <1>3, <2>1 DEF Fork!EndsLine, Fork!Byte
  <2>3. Fork!rot13_char(b) = Rotated(c, k + 1)
    BY <1>1, <2>1, RotatedByte DEF Fork!rot13_char, Fork!Byte, rot13_char, Byte
  <2>4. PICK y : y = IF Fork!EndsLine(b) /\ peer[c] # "rst" THEN l ELSE <<>>
    OBVIOUS
  <2>5. y = x
    BY <1>5, <2>2, <2>4
  <2>6. /\ Fork!Unread(c) > 0 /\ Fork!Exchange(c, 1, y)
        /\ outbuf' = [outbuf EXCEPT ![c] = IF Fork!EndsLine(b) THEN <<>> ELSE l]
    BY <1>2, <1>4, <2>1, <2>3, <2>4 DEF Fork!ChildReads, Grown
  <2> QED
    BY <2>2, <2>5, <2>6 DEF Fork!Unread, Fork!Exchange
<1>7. /\ k \in Nat /\ sent[c] \in Nat /\ k + 1 <= sent[c] /\ k < Len(Text[c])
      /\ outbox[c] \in Seq(Bytes) /\ u \in Seq(Bytes) /\ Len(u) = Collected(c, k)
      /\ EchoCounts /\ PeerInv /\ outbox \in [Clients -> Seq(Bytes)]
      /\ outbuf \in [Clients -> Seq(Bytes)]
  <2>1. Len(Text[c]) \in Nat
    BY SocketsAssumption DEF Clients
  <2> QED
    BY <1>1, <1>2, <1>6, <2>1 DEF ForkEcho, EchoCounts
<1>8. /\ l \in Seq(Bytes) /\ l # <<>>
      /\ peer[c] # "rst" => outbox[c] \o l = LineStarts(c)[k + 1]
      /\ IF ends THEN Collected(c, k + 1) = 0 /\ LinesEnd(c, k + 1) = k + 1
         ELSE Len(l) = Collected(c, k + 1)
  <2>1. peer[c] # "rst" => outbox[c] \o u = LineStarts(c)[k]
    BY <1>1, <1>2 DEF ForkEcho
  <2>2. PICK o \in Seq(Bytes) : o = outbox[c]
    BY <1>7
  <2>3. /\ l \in Seq(Bytes) /\ l # <<>>
        /\ o \o u = LineStarts(c)[k] => o \o l = LineStarts(c)[k + 1]
        /\ IF Text[c][k + 1]
           THEN Collected(c, k + 1) = 0 /\ LinesEnd(c, k + 1) = k + 1
           ELSE Len(l) = Collected(c, k + 1)
    <3>1. k < Len(Text[c]) /\ Len(u) = Collected(c, k)
      BY <1>7
    <3> QED
      BY <1>4, <3>1, LineGrows
  <2> QED
    BY <1>3, <2>1, <2>2, <2>3
<1>9. /\ outbox[c] \o x \in Seq(Bytes) /\ outbox[c] \o <<>> = outbox[c]
      /\ outbox' \in [Clients -> Seq(Bytes)] /\ outbox'[c] = outbox[c] \o x
      /\ \A d \in Clients : d # c => outbox'[d] = outbox[d]
  <2>1. x \in Seq(Bytes)
    BY <1>5, <1>8
  <2>2. outbox[c] \o x \in Seq(Bytes) /\ outbox[c] \o <<>> = outbox[c]
    BY <1>7, <2>1, CatFacts
  <2> QED
    BY <1>6, <1>7, <2>2
<1>10. EchoCounts' /\ got'[c] = k + 1 /\ \A d \in Clients : d # c => got'[d] = got[d]
  <2>1. 1 \in Nat /\ got[c] + 1 <= sent[c]
    BY <1>1, <1>7
  <2> QED
    BY <1>1, <1>6, <1>7, <1>9, <2>1, ReadsOn
<1>11. PICK w : w \in Seq(Bytes) /\ w = IF ends THEN <<>> ELSE l
  <2>1. <<>> \in Seq(Bytes)
    OBVIOUS
  <2>2. PICK w : w = IF ends THEN <<>> ELSE l
    OBVIOUS
  <2>3. w \in Seq(Bytes)
    BY <1>8, <2>1, <2>2
  <2> QED
    BY <2>2, <2>3
<1>12. /\ outbuf' \in [Clients -> Seq(Bytes)] /\ outbuf'[c] = w
       /\ \A d \in Clients : d # c => outbuf'[d] = outbuf[d]
  BY <1>6, <1>7, <1>11
<1>13. Len(w) = Collected(c, k + 1)
  BY <1>8, <1>11
<1>14. peer[c] # "rst" => (outbox[c] \o x) \o w = LineStarts(c)[k + 1]
  <2>1. CASE ends /\ peer[c] # "rst"
    <3>1. x = l /\ w = <<>>
      BY <1>5, <1>11, <2>1
    <3>2. \A s \in Seq(Bytes) : s \o <<>> = s
      OBVIOUS
    <3> QED
      BY <1>8, <1>9, <2>1, <3>1, <3>2
  <2>2. CASE ~ends /\ peer[c] # "rst"
    <3>1. x = <<>> /\ w = l
      BY <1>5, <1>11, <2>2
    <3> QED
      BY <1>8, <1>9, <2>2, <3>1
  <2> QED
    BY <2>1, <2>2
<1>15. ForkEcho'
  <2>1. PeerInv'
    BY <1>6, <1>7 DEF PeerInv, Clients
  <2>2. \A d \in Clients : Len(outbuf'[d]) = Collected(d, got'[d])
    BY <1>10, <1>12, <1>13 DEF ForkEcho
  <2>3. \A d \in Clients : peer'[d] # "rst" => outbox'[d] \o outbuf'[d] = LineStarts(d)[got'[d]]
    <3> SUFFICES ASSUME NEW d \in Clients, peer[d] # "rst"
                 PROVE  outbox'[d] \o outbuf'[d] = LineStarts(d)[got'[d]]
      BY <1>6
    <3>1. CASE d = c
      BY <1>9, <1>10, <1>12, <1>14, <3>1
    <3>2. CASE d # c
      BY <1>9, <1>10, <1>12, <3>2 DEF ForkEcho
    <3> QED
      BY <3>1, <3>2
  <2> QED
    BY <1>10, <1>12, <2>1, <2>2, <2>3 DEF ForkEcho
<1>16. CASE ends /\ peer[c] # "rst"
  <2>1. outbox' = [outbox EXCEPT ![c] = @ \o l]
    BY <1>5, <1>6, <1>16
  <2>2. outbox[c] \o l = AnswerTo(c, k + 1)
    BY <1>8, <1>16, AnswerIs
  <2>3. program \in Echoes /\ k + 1 \in Nat
    BY <1>7 DEF Echoes
  <2>4. Echo!Next
    BY <1>6, <1>7, <1>8, <2>1, <2>2, <2>3, ServiceEchoes
  <2> QED
    BY <1>15, <2>4
<1>17. CASE ~(ends /\ peer[c] # "rst")
  <2>1. UNCHANGED outbox
    BY <1>5, <1>6, <1>7, <1>17, AddsNothing
  <2>2. UNCHANGED Echo!echoVars
    BY <1>6, <2>1, ServiceStutters
  <2> QED
    BY <1>15, <2>2
<1> QED
  BY <1>16, <1>17

LEMMA ForkEchoes ==
    ASSUME program = "fork", program' = program, ForkEcho, [Next]_programsVars
    PROVE  ForkEcho' /\ (Echo!Next \/ UNCHANGED Echo!echoVars)
<1>1. CASE UNCHANGED programsVars
  <2>1. UNCHANGED <<peer, sent, got, outbox, outbuf>>
    BY <1>1 DEF programsVars, sockVars
  <2> QED
    BY <2>1, ForkStays DEF ForkEcho, PeerInv
<1>2. CASE Fork!Parent \/ \E c \in Clients : Fork!ChildExits(c)
  <2>1. UNCHANGED <<peer, sent, got, outbox, outbuf>>
    BY <1>2 DEF Fork!Parent, Fork!AcceptClient, Fork!Fork, Fork!ParentClose,
                Fork!sigchld_handler, Fork!ChildExits, Fork!Accept, Fork!sockVars, Fork!forkVars
  <2> QED
    BY <2>1, ForkStays DEF ForkEcho, PeerInv
<1>3. CASE Fork!Outside
  <2>1. Environment /\ UNCHANGED outbuf
    BY <1>3 DEF Fork!Outside, Fork!forkVars, Fork!Environment, Environment,
                Fork!Connect, Connect, Fork!Send, Send, Fork!Turn, Turn,
                Fork!Connected, Connected, Fork!Clients, Clients
  <2>2. PeerInv' /\ \A c \in Clients : peer[c] = "rst" => peer'[c] = "rst"
    BY <2>1, PeersStay DEF ForkEcho
  <2>3. /\ EchoCounts' /\ UNCHANGED <<got, outbox>>
        /\ Echo!Next \/ UNCHANGED Echo!echoVars
    BY <2>1, ServiceAsked DEF ForkEcho, Echoes
  <2> QED
    BY <2>1, <2>2, <2>3 DEF ForkEcho
<1> QED
  BY <1>1, <1>2, <1>3, ForkRuns, ForkReads DEF Fork!Child

-----------------------------------------------------------------------------
(* All of them *)

EchoInv ==
    /\ program = "poll" => PollEcho
    /\ program = "loop" => EchoInStep
    /\ program = "fork" => ForkEcho

LEMMA EchoStart == Init => EchoInv /\ Echo!Init
<1> SUFFICES ASSUME Init PROVE EchoInv /\ Echo!Init
  OBVIOUS
<1>1. /\ sent = [c \in Clients |-> 0] /\ got = [c \in Clients |-> 0]
      /\ outbox = [c \in Clients |-> <<>>] /\ peer = [c \in Clients |-> "up"]
      /\ outbuf = [c \in Clients |-> <<>>] /\ pc # "write"
  BY DEF Init, SocketsInit, Fork!Start, Thread!Start, Fork!Clients, Clients, Thread!Clients
<1>2. EchoCounts
  <2>1. \A c \in Clients : Len(Text[c]) \in Nat
    BY SocketsAssumption DEF Clients
  <2>2. <<>> \in Seq(Bytes)
    OBVIOUS
  <2> QED
    BY <1>1, <2>1, <2>2 DEF EchoCounts
<1>3. ASSUME NEW c \in Clients
      PROVE  /\ program \in {"poll", "loop"} => outbox[c] = AnswerTo(c, got[c])
             /\ Len(outbuf[c]) = Collected(c, got[c])
             /\ outbox[c] \o outbuf[c] = LineStarts(c)[got[c]]
  <2>1. outbox[c] = <<>> /\ outbuf[c] = <<>> /\ got[c] = 0
    BY <1>1
  <2>2. PlainUpTo(c, 0) = <<>> /\ OwnUpTo(c, 0) = <<>>
    BY DEF PlainUpTo, OwnUpTo
  <2>3. LinesEnd(c, 0) = 0 /\ LineSize \in Nat
    BY LinesEndMoves, ProgramsAssumption
  <2>4. Collected(c, 0) = 0
    BY <2>3 DEF Collected
  <2>5. LineStarts(c)[0] = <<>> /\ <<>> \o <<>> = <<>> /\ Len(<<>>) = 0
    BY LineStartsRecurs
  <2> QED
    BY <2>1, <2>2, <2>4, <2>5, AnswerIs
<1>4. outbuf \in [Clients -> Seq(Bytes)] /\ PeerInv
  <2>1. <<>> \in Seq(Bytes)
    OBVIOUS
  <2> QED
    BY <1>1, <2>1 DEF PeerInv
<1>5. EchoInv
  BY <1>1, <1>2, <1>3, <1>4 DEF EchoInv, PollEcho, Holder, EchoInStep, AllAnswered, ForkEcho
<1>6. Echo!Init
  BY <1>1 DEF Echo!Init
<1> QED
  BY <1>5, <1>6

LEMMA EchoStep ==
    ASSUME EchoInv, ClientsInv, ClientsInv', [Next]_programsVars
    PROVE  EchoInv' /\ (Echo!Next \/ UNCHANGED Echo!echoVars)
<1>1. program' = program
  BY OneProgram
<1>2. CASE program = "poll"
  BY <1>1, <1>2, OneProgram, PollEchoes DEF EchoInv, ClientsInv
<1>3. CASE program = "loop"
  BY <1>1, <1>3, OneProgram, LoopEchoes DEF EchoInv, ClientsInv
<1>4. CASE program = "fork"
  BY <1>1, <1>4, ForkEchoes DEF EchoInv
<1>5. CASE program \notin Echoes
  BY <1>1, <1>5, ServiceSleeps DEF EchoInv, Echoes
<1> QED
  BY <1>2, <1>3, <1>4, <1>5 DEF Echoes

\* pollserver, fork01's children and the library's poll loop implement the echo service:
\* whatever clients send, stall and reset in between, each is sent the answer to its own
\* text, in order, without a gap, nothing twice and nothing before the bytes it answers,
\* although one buffer or one array serves all clients. epoll_server1 does not implement
\* it: it loses what a write did not take (ClientsKeptApartCorrect says what it does).
THEOREM EchoImplementedCorrect == ProgramsSpec => EchoImplemented
<1>1. Init => EchoInv /\ Echo!Init
  BY EchoStart
<1>2. EchoInv /\ ClientsInv /\ ClientsInv' /\ [Next]_programsVars
        => EchoInv' /\ [Echo!Next]_Echo!echoVars
  BY EchoStep
<1> QED
  BY <1>1, <1>2, ClientsInvariant, PTL DEF ProgramsSpec, EchoImplemented, Echo!Spec

-----------------------------------------------------------------------------
(* Types *)

\* A thread keeps at most LineSize + 1 bytes of a line.
ThreadTypes ==
    /\ SocketTypes /\ pc \in {"wait", "create", "dead"} /\ fd \in Fds \cup {NoFd}
    /\ \A t \in Clients : Len(outbuf[t]) <= LineSize + 1

LEMMA ThreadTypesInit == Init /\ program = "thread" => ThreadTypes
<1> SUFFICES ASSUME Init, program = "thread" PROVE ThreadTypes
  OBVIOUS
<1>1. /\ pc = "wait" /\ fd = NoFd /\ outbuf = [t \in Clients |-> <<>>]
  BY DEF Init, Thread!Start, NoFd, Thread!NoFd, Clients, Thread!Clients
<1>2. SocketTypes
  BY TypesInit DEF Init
<1>3. LineSize \in Nat /\ Len(<<>>) = 0
  BY ProgramsAssumption
<1> QED
  BY <1>1, <1>2, <1>3 DEF ThreadTypes

LEMMA ThreadTypesEcho ==
    ASSUME ThreadInv, ThreadTypes, NEW t \in Clients, Thread!EchoByte(t)
    PROVE  ThreadTypes'
<1>1. PICK c \in Open : fdOf[c] = serves[t] /\ Owner(serves[t]) = c
  <2>1. thread[t] = "run"
    BY DEF Thread!EchoByte
  <2>2. PICK c \in Open : fdOf[c] = serves[t]
    BY <2>1 DEF ThreadInv, ThreadsInv, Accepted
  <2> QED
    BY <2>2, OwnerOf DEF ThreadInv
<1>2. PICK new : new = Rotated(c, got[c] + 1)
  OBVIOUS
<1>3. PICK l : l = IF Len(outbuf[t]) <= LineSize THEN Append(outbuf[t], new) ELSE outbuf[t]
  OBVIOUS
<1>4. /\ Thread!Unread(c) > 0
      /\ \E y \in {l, <<>>} : Thread!Exchange(c, 1, y)
      /\ \E y \in {l, <<>>} : outbuf' = [outbuf EXCEPT ![t] = y]
      /\ UNCHANGED <<pc, fd>>
  <2> DEFINE b == Thread!Byte(c, got[c] + 1)
  <2>1. Thread!rot13_char(b) = new
    BY <1>2, ThreadRotates
  <2>2. Thread!Owner(serves[t]) = c
    BY <1>1 DEF Thread!Owner, Owner, Thread!Open, Open, Thread!Clients, Clients
  <2> QED
    BY <1>3, <2>1, <2>2 DEF Thread!EchoByte
<1>5. c \in Clients /\ got[c] \in Nat /\ sent[c] \in Nat /\ 1 <= sent[c] - got[c]
  BY <1>4 DEF Open, ThreadTypes, SocketTypes, Thread!Unread
<1>6. outbuf \in [Clients -> Seq(Bytes)] /\ outbuf[t] \in Seq(Bytes)
  BY DEF ThreadInv, BytesInv
<1>7. LineSize \in Nat /\ Len(outbuf[t]) <= LineSize + 1
  BY ProgramsAssumption DEF ThreadTypes
<1>8. new \in Bytes
  BY <1>2, <1>5 DEF Rotated, Bytes
<1>9. l \in Seq(Bytes) /\ Len(l) <= LineSize + 1
  BY <1>3, <1>6, <1>7, <1>8, AppendFacts
<1>10. <<>> \in Seq(Bytes) /\ Len(<<>>) <= LineSize + 1
  BY <1>7
<1>11. SocketTypes'
  <2>1. PICK y \in {l, <<>>} : Exchange(c, 1, y)
    BY <1>4 DEF Thread!Exchange, Exchange
  <2>2. y \in Seq(Bytes) /\ SocketTypes
    BY <1>9, <1>10 DEF ThreadTypes
  <2> QED
    BY <1>5, <2>1, <2>2, TypesExchange
<1>12. \A u \in Clients : Len(outbuf'[u]) <= LineSize + 1
  <2>1. PICK y \in {l, <<>>} : outbuf' = [outbuf EXCEPT ![t] = y]
    BY <1>4
  <2>2. Len(y) <= LineSize + 1
    BY <1>9, <1>10
  <2> QED
    BY <1>6, <2>1, <2>2 DEF ThreadTypes
<1> QED
  BY <1>4, <1>11, <1>12 DEF ThreadTypes, Clients, NoFd

LEMMA ThreadTypesStep ==
    ASSUME ThreadInv, ThreadTypes,
           \/ Thread!Main \/ \E t \in Clients : Thread!Thread(t)
           \/ Thread!Outside \/ UNCHANGED programsVars
    PROVE  ThreadTypes'
<1>1. CASE Thread!AcceptClient
  <2>1. /\ pc' = "create" /\ fd' = NewFd /\ \E c \in Waiting : Accept(c)
        /\ UNCHANGED outbuf
    BY <1>1 DEF Thread!AcceptClient, Thread!Waiting, Waiting, Thread!NewFd, NewFd, Thread!Open,
       Open, Thread!Clients, Clients, Thread!Accept, Accept, Thread!Min, Min
  <2>2. PICK c \in Waiting : Accept(c)
    BY <2>1
  <2>3. SocketTypes' /\ NewFd \in Fds
    BY <2>2, TypesAccept, FreshFd DEF ThreadTypes
  <2> QED
    BY <2>1, <2>3 DEF ThreadTypes, Clients, NoFd
<1>2. CASE Thread!Outside
  <2>1. Environment /\ UNCHANGED <<pc, fd, outbuf>>
    BY <1>2 DEF Thread!Outside, Thread!threadVars, Thread!Environment, Environment,
       Thread!Connect, Connect, Thread!Send, Send, Thread!Turn, Turn, Thread!Connected,
       Connected, Thread!Clients, Clients
  <2>2. SocketTypes'
    BY <2>1, TypesEnvironment DEF ThreadTypes
  <2> QED
    BY <2>1, <2>2 DEF ThreadTypes, Clients, NoFd
<1>3. CASE \/ Thread!CreateThread \/ UNCHANGED programsVars
           \/ \E t \in Clients : Thread!thread_run(t) \/ Thread!EndEcho(t)
  <2>1. /\ UNCHANGED <<link, peer, fdOf, sent, got, outbox, fd, outbuf>>
        /\ pc' \in {pc, "wait", "dead"}
    BY <1>3 DEF Thread!CreateThread, Thread!thread_run, Thread!EndEcho, Thread!sockVars,
       programsVars, sockVars
  <2>2. SocketTypes'
    BY <2>1, TypesStay DEF ThreadTypes
  <2> QED
    BY <2>1, <2>2 DEF ThreadTypes, Clients, NoFd
<1> QED
  BY <1>1, <1>2, <1>3, ThreadTypesEcho DEF Thread!Main, Thread!Thread

LEMMA ThreadTyped ==
    ASSUME ThreadInv, ThreadTypes
    PROVE  SocketsTypeOK /\ Thread!ThreadTypeOK
<1>1. /\ Thread!Clients = Clients /\ Thread!Bytes = Bytes /\ Thread!NoFd = NoFd
  BY DEF Thread!Clients, Clients, Thread!Bytes, Bytes, Thread!NoFd, NoFd
<1>2. \A t \in Clients : outbuf[t] \in Seq(Bytes)
  BY DEF ThreadInv, BytesInv
<1> QED
  BY <1>1, <1>2 DEF ThreadTypes, SocketTypes, ThreadInv, ThreadsInv, Thread!ThreadTypeOK

ScanTypes == SocketTypes /\ pc \in {"wait", "accept", "scan", "wild"}

LEMMA ScanTypesStep ==
    ASSUME SelectInv, SelectInv', ScanTypes,
           Select!Server \/ Select!Outside \/ UNCHANGED programsVars
    PROVE  ScanTypes'
<1>1. CASE Select!Outside
  <2>1. Environment /\ UNCHANGED pc
    BY <1>1 DEF Select!Outside, Select!Environment, Environment, Select!Connect, Connect,
       Select!Send, Send, Select!Turn, Turn, Select!Connected, Connected,
       Select!Clients, Clients
  <2>2. SocketTypes'
    BY <2>1, TypesEnvironment DEF ScanTypes
  <2> QED
    BY <2>1, <2>2 DEF ScanTypes
<1>2. CASE Select!Server \/ UNCHANGED programsVars
  <2>1. UNCHANGED <<peer, sent>> /\ pc' \in {pc, "wait", "accept", "scan", "wild"}
    BY <1>2 DEF Select!Server, Select!Select, Select!AcceptClient, Select!Accept,
       Select!CloseClient, Select!EchoClient, Select!Exchange, Select!Scanned, Select!EndScan,
       Select!sockVars, programsVars, sockVars
  <2>2. /\ link' \in [Clients -> {"none", "waiting", "open", "closed"}]
        /\ fdOf' \in [Clients -> Fds \cup {NoFd}]
        /\ got' \in [Clients -> Nat] /\ sent' \in [Clients -> Nat]
        /\ \A c \in Clients : got'[c] <= sent'[c]
        /\ outbox' \in [Clients -> Seq(Bytes)]
    BY DEF SelectInv, SocketsInv, SelectTypes, Clients, Bytes, NoFd
  <2>3. /\ peer' \in [Clients -> {"up", "stalled", "fin", "rst"}]
        /\ \A c \in Clients : sent'[c] <= Len(Text[c])
    BY <2>1, TextLengths DEF ScanTypes, SocketTypes, SocketsTypeOK
  <2>4. \A c \in Clients : got'[c] \in 0 .. sent'[c] /\ sent'[c] \in 0 .. Len(Text[c])
    BY <2>2, <2>3, TextLengths
  <2> QED
    BY <2>1, <2>2, <2>3, <2>4
       DEF ScanTypes, SocketTypes, SocketsTypeOK, Clients, Bytes, NoFd
<1> QED
  BY <1>1, <1>2

LEMMA ScanTyped ==
    ASSUME SelectInv, ScanTypes
    PROVE  SocketsTypeOK /\ Select!SelectTypeOK
<1>1. /\ Select!Clients = Clients /\ Select!Bytes = Bytes
  BY DEF Select!Clients, Clients, Select!Bytes, Bytes
<1>2. ASSUME NEW f \in Select!Table
      PROVE  /\ buffer[f].connect_fd \in {0, f} /\ buffer[f].readable \in BOOLEAN
             /\ buffer[f].data \in Seq(Bytes) /\ Len(buffer[f].data) <= BufferSize
             /\ buffer[f].readIndex \in 0 .. Len(buffer[f].data)
  <2>1. PICK b : b = buffer[f]
    OBVIOUS
  <2>2. /\ b \in Buffers /\ b.readIndex <= Len(b.data) /\ Len(b.data) <= BufferSize
    BY <2>1 DEF SelectInv, SelectTypes, Fits
  <2>3. b.data \in Seq(Bytes) /\ b.readIndex \in Nat /\ b.readable \in BOOLEAN
    BY <2>2 DEF Buffers
  <2>4. b.connect_fd \in {0, f}
    BY <2>1 DEF SelectInv, TableInv, InUse
  <2>5. b.readIndex \in 0 .. Len(b.data)
    BY <2>2, <2>3
  <2> QED
    BY <2>1, <2>2, <2>3, <2>4, <2>5
<1>3. readset \subseteq Select!Table /\ writeset \subseteq Select!Table
  BY DEF SelectInv, TableInv, InUse
<1>4. inherited \in [Clients -> Seq(Bytes)]
  BY DEF SelectInv, SelectTypes
<1>5. \A s : Select!Len(s) = Len(s)
  BY DEF Select!Len, Len
<1> QED
  BY <1>1, <1>2, <1>3, <1>4, <1>5 DEF ScanTypes, SocketTypes, Select!SelectTypeOK

\* The other programs have no sockets of this kind.
LEMMA OthersType ==
    ASSUME SocketTypes, program \in Programs \ Servers, [Next]_programsVars
    PROVE  SocketTypes'
<1>1. CASE UNCHANGED programsVars
  BY <1>1, TypesStay DEF programsVars, sockVars
<1>2. CASE Next
  <2>1. Idle(program)
    BY <1>2 DEF Next, MainStep, ChildStep, Runs
  <2>2. UNCHANGED sockVars
    BY <2>1 DEF Idle
  <2> QED
    BY <2>2, TypesStay DEF sockVars
<1> QED
  BY <1>1, <1>2

\* The types of each program, with what they need to stay.
TypesInv ==
    /\ program \in Programs
    /\ program \in Programs \ Servers => SocketTypes
    /\ program = "poll" => PollTypes
    /\ program = "loop" => LoopTypes
    /\ program = "select" => ScanTypes
    /\ program = "fork" => ForkTypes
    /\ program = "thread" => ThreadTypes
    /\ program \in DOMAIN EpollNumber => EpollTypes
    /\ program = "halfclose" => HalfTypes
    /\ program = "messages" => MessageTypes

LEMMA TypesStart == Init => TypesInv
<1> SUFFICES ASSUME Init PROVE TypesInv
  OBVIOUS
<1>1. SocketTypes /\ program \in Programs /\ pc = "wait"
  BY TypesInit DEF Init
<1> QED
  BY <1>1, PollTypesInit, LoopTypesInit, ForkTypesInit, ThreadTypesInit, EpollTypesInit,
     HalfTypesInit, MessageTypesInit DEF TypesInv, ScanTypes

LEMMA ProgramNames ==
    /\ DOMAIN EpollNumber = {"epoll1", "epoll2", "epoll3"}
    /\ Servers = {"poll", "select", "fork", "thread", "loop", "epoll1", "epoll2", "epoll3"}
    /\ Programs \ Servers = {"heartbeat", "halfclose", "messages", "files", "datagrams"}
    /\ Programs = Servers \cup (Programs \ Servers)
<1>1. DOMAIN EpollNumber = {"epoll1", "epoll2", "epoll3"}
  BY ServerNames
<1> QED
  BY <1>1 DEF Servers, Programs

LEMMA TypesStep ==
    ASSUME TypesInv, ClientsInv, ClientsInv', [Next]_programsVars
    PROVE  TypesInv'
<1>1. program' = program
  BY OneProgram
<1>2. CASE program = "poll"
  <2>1. PollInv /\ PollInv' /\ PollTypes
    BY <1>1, <1>2 DEF TypesInv, ClientsInv
  <2>2. PollTypes'
    BY <1>2, <2>1, OneProgram, PollTypesStep
  <2> QED
    BY <1>1, <1>2, <2>2, ProgramNames DEF TypesInv, Programs, Servers, EpollNumber
<1>3. CASE program = "loop"
  <2>1. LoopInv /\ LoopTypes
    BY <1>3 DEF TypesInv, ClientsInv
  <2>2. LoopTypes'
    BY <1>3, <2>1, OneProgram, LoopTypesStep
  <2> QED
    BY <1>1, <1>3, <2>2, ProgramNames DEF TypesInv, Programs, Servers, EpollNumber
<1>4. CASE program = "select"
  <2>1. SelectInv /\ SelectInv' /\ ScanTypes
    BY <1>1, <1>4 DEF TypesInv, ClientsInv
  <2>2. ScanTypes'
    BY <1>4, <2>1, OneProgram, ScanTypesStep
  <2> QED
    BY <1>1, <1>4, <2>2, ProgramNames DEF TypesInv, Programs, Servers, EpollNumber
<1>5. CASE program = "fork"
  <2>1. ForkTypes'
    BY <1>5, ForkRuns, ForkTypesStep DEF TypesInv
  <2> QED
    BY <1>1, <1>5, <2>1, ProgramNames DEF TypesInv, Programs, Servers, EpollNumber
<1>6. CASE program = "thread"
  <2>1. ThreadInv /\ ThreadTypes
    BY <1>6 DEF TypesInv, ClientsInv
  <2>2. ThreadTypes'
    BY <1>6, <2>1, OneProgram, ThreadTypesStep
  <2> QED
    BY <1>1, <1>6, <2>2, ProgramNames DEF TypesInv, Programs, Servers, EpollNumber
<1>7. CASE program \in DOMAIN EpollNumber
  <2>1. EpollInv /\ EpollTypes
    BY <1>7 DEF TypesInv, ClientsInv
  <2>2. EpollTypes'
    BY <1>7, <2>1, EpollRuns, EpollTypesStep
  <2> QED
    BY <1>1, <1>7, <2>2, ProgramNames DEF TypesInv, Programs, Servers, EpollNumber
<1>8. CASE program \in Programs \ Servers
  <2>1. SocketTypes'
    BY <1>8, OthersType DEF TypesInv
  <2>2. program = "halfclose" => HalfTypes'
    BY OneProgram, HalfTypesStep DEF TypesInv
  <2>3. program = "messages" => MessageTypes'
    BY OneProgram, MessageTypesStep DEF TypesInv
  <2> QED
    BY <1>1, <1>8, <2>1, <2>2, <2>3, ProgramNames DEF TypesInv, Programs, Servers, EpollNumber
<1> QED
  BY <1>2, <1>3, <1>4, <1>5, <1>6, <1>7, <1>8, ProgramNames DEF TypesInv

LEMMA TypesShow ==
    ASSUME TypesInv, ClientsInv, HeartbeatTypeOK
    PROVE  TypeOK
<1>1. CASE program \in Programs \ Servers
  <2>1. SocketsTypeOK
    BY <1>1 DEF TypesInv, SocketTypes
  <2>2. program = "files" => Files!FilesTypeOK
    BY DEF ClientsInv, FilesInv, FilesTypes
  <2>3. program = "datagrams" => Udp!DatagramsTypeOK
    BY UdpTyped DEF ClientsInv, UdpInv, UdpSafe
  <2>4. program = "halfclose" => Half!HalfCloseTypeOK
    BY HalfTyped DEF TypesInv
  <2>5. program = "messages" => Msg!MessageStreamTypeOK
    BY MessageTyped DEF TypesInv
  <2> QED
    BY <1>1, <2>1, <2>2, <2>3, <2>4, <2>5, ProgramNames DEF TypeOK
<1>2. CASE program = "poll"
  <2>1. SocketsTypeOK /\ Poll!PollTypeOK
    BY <1>2 DEF TypesInv, PollTypes, SocketTypes
  <2> QED
    BY <1>2, <2>1, ProgramNames DEF TypeOK, TypesInv
<1>3. CASE program = "loop"
  <2>1. SocketsTypeOK /\ Loop!PollLoopTypeOK
    BY <1>3, LoopTyped DEF TypesInv, ClientsInv
  <2> QED
    BY <1>3, <2>1, ProgramNames DEF TypeOK, TypesInv
<1>4. CASE program = "select"
  <2>1. SocketsTypeOK /\ Select!SelectTypeOK
    BY <1>4, ScanTyped DEF TypesInv, ClientsInv
  <2> QED
    BY <1>4, <2>1, ProgramNames DEF TypeOK, TypesInv
<1>5. CASE program = "fork"
  <2>1. SocketsTypeOK /\ Fork!ForkTypeOK
    BY <1>5 DEF TypesInv, ForkTypes, SocketTypes
  <2> QED
    BY <1>5, <2>1, ProgramNames DEF TypeOK, TypesInv
<1>6. CASE program = "thread"
  <2>1. SocketsTypeOK /\ Thread!ThreadTypeOK
    BY <1>6, ThreadTyped DEF TypesInv, ClientsInv
  <2> QED
    BY <1>6, <2>1, ProgramNames DEF TypeOK, TypesInv
<1>7. CASE program \in DOMAIN EpollNumber
  <2>1. SocketsTypeOK /\ Epoll(EpollNumber[program])!EpollTypeOK
    BY <1>7, EpollTyped DEF TypesInv, ClientsInv
  <2> QED
    BY <1>7, <2>1, ProgramNames DEF TypeOK, TypesInv
<1> QED
  BY <1>1, <1>2, <1>3, <1>4, <1>5, <1>6, <1>7, ProgramNames DEF TypesInv

\* Every variable of every program keeps its type, whatever clients, processes and network do:
\* a server has read no more of a client than it sent, the scans of poll and epoll count down
\* to 0 and stay within their arrays, the select server's buffers and a thread's line hold no
\* more than their size, graceclient's lines are never more than the commands it took, and
\* readn never has more than the stream.
THEOREM ProgramsTypeCorrect == ProgramsSpec => []TypeOK
<1>1. Init => TypesInv
  BY TypesStart
<1>2. TypesInv /\ ClientsInv /\ ClientsInv' /\ [Next]_programsVars => TypesInv'
  BY TypesStep
<1>3. TypesInv /\ ClientsInv /\ HeartbeatTypeOK => TypeOK
  BY TypesShow
<1> QED
  BY <1>1, <1>2, <1>3, ClientsInvariant, HeartbeatImplemented, HeartbeatTypeCorrect, PTL
     DEF ProgramsSpec
=============================================================================
