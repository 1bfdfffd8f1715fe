---------------------------- MODULE ServersProofs ----------------------------
(***************************************************************************)
(* Proofs about the echo servers, for every number of clients, texts,      *)
(* slots and descriptors: an array handed to poll agrees with the          *)
(* connections while a scan over it changes both; what may end a server;   *)
(* steps of the poll servers are steps of EchoService; what the            *)
(* edge-triggered epoll server sends is its client's own.                  *)
(***************************************************************************)
EXTENDS Programs, FiniteSetTheorems, SequenceTheorems, WellFoundedInduction, TLAPS

-----------------------------------------------------------------------------
(* Numbers and finite sets *)

\* A nonempty set of naturals has a least element.
LEMMA LeastNat ==
    ASSUME NEW T \in SUBSET Nat, T # {}
    PROVE  \E k \in T : \A m \in T : k <= m
<1> DEFINE R == StrictSubsetOrdering(Nat)
           U == {0 .. k : k \in T}
<1>1. IsWellFoundedOn(R, FiniteSubsetsOf(Nat))
  BY FS_StrictSubsetOrderingWellFounded
<1>2. U \subseteq FiniteSubsetsOf(Nat) /\ U # {}
  <2>1. \A k \in T : IsFiniteSet(0 .. k) /\ 0 .. k \subseteq Nat
    BY FS_Interval
  <2> QED
    BY <2>1 DEF FiniteSubsetsOf
<1>3. \E x \in U : \A y \in U : ~(<<y, x>> \in R)
  <2> HIDE DEF R, U
  <2> QED
    BY <1>1, <1>2, WFMin
<1>4. PICK k \in T : \A m \in T : ~(<<0 .. m, 0 .. k>> \in R)
  BY <1>3
<1>5. \A m \in T : ~(m < k)
  <2> SUFFICES ASSUME NEW m \in T, m < k PROVE <<0 .. m, 0 .. k>> \in R
    BY <1>4
  <2>1. 0 .. m \subseteq 0 .. k /\ k \notin 0 .. m /\ k \in 0 .. k
    OBVIOUS
  <2> QED
    BY <2>1 DEF StrictSubsetOrdering
<1> QED
  BY <1>5

LEMMA NatInduct ==
    ASSUME NEW T, 0 \in T, \A k \in Nat : k \in T => k + 1 \in T
    PROVE  Nat \subseteq T
<1> SUFFICES ASSUME Nat \ T # {} PROVE FALSE
  OBVIOUS
<1>1. PICK k \in Nat \ T : \A m \in Nat \ T : k <= m
  BY LeastNat
<1>2. k # 0 /\ k - 1 \in Nat /\ ~(k <= k - 1) /\ (k - 1) + 1 = k
  BY <1>1
<1> QED
  BY <1>1, <1>2

LEMMA MinIsLeast ==
    ASSUME NEW T \in SUBSET Nat, T # {}
    PROVE  Min(T) \in T /\ \A m \in T : Min(T) <= m
<1> QED
  BY LeastNat DEF Min

LEMMA ImageIsFinite ==
    ASSUME NEW S, IsFiniteSet(S), NEW f
    PROVE  /\ IsFiniteSet({f[x] : x \in S})
           /\ Cardinality({f[x] : x \in S}) <= Cardinality(S)
<1> DEFINE g == [x \in S |-> f[x]]
<1>1. g \in Surjection(S, {f[x] : x \in S})
  BY DEF Surjection
<1> QED
  BY <1>1, FS_Surjection

-----------------------------------------------------------------------------
(* Sequences *)

\* s begins with t.
StartsWith(s, t) == Len(t) <= Len(s) /\ \A b \in 1 .. Len(t) : s[b] = t[b]

LEMMA CatFacts ==
    ASSUME NEW S, NEW s \in Seq(S), NEW t \in Seq(S)
    PROVE  /\ s \o t \in Seq(S) /\ Len(s) \in Nat /\ Len(t) \in Nat
           /\ Len(s \o t) = Len(s) + Len(t)
           /\ DOMAIN s = 1 .. Len(s) /\ DOMAIN t = 1 .. Len(t)
           /\ DOMAIN (s \o t) = 1 .. Len(s) + Len(t)
           /\ \A k \in 1 .. Len(s) : (s \o t)[k] = s[k]
           /\ \A k \in 1 .. Len(t) : (s \o t)[Len(s) + k] = t[k]
<1> QED
  OBVIOUS

LEMMA CatOfParts ==
    ASSUME NEW S, NEW s \in Seq(S), NEW t \in Seq(S), NEW d \in Seq(S),
           Len(d) = Len(s) + Len(t),
           \A k \in 1 .. Len(s) : d[k] = s[k],
           \A k \in 1 .. Len(t) : d[Len(s) + k] = t[k]
    PROVE  s \o t = d
<1>1. /\ s \o t \in Seq(S) /\ Len(s) \in Nat /\ Len(t) \in Nat
      /\ Len(s \o t) = Len(s) + Len(t)
      /\ \A k \in 1 .. Len(s) : (s \o t)[k] = s[k]
      /\ \A k \in 1 .. Len(t) : (s \o t)[Len(s) + k] = t[k]
  BY CatFacts
<1>2. ASSUME NEW k \in 1 .. Len(s) + Len(t) PROVE (s \o t)[k] = d[k]
  <2>1. CASE k <= Len(s)
    BY <1>1, <2>1
  <2>2. CASE k > Len(s)
    <3> DEFINE j == k - Len(s)
    <3>1. j \in 1 .. Len(t) /\ k = Len(s) + j
      BY <1>1, <2>2
    <3> HIDE DEF j
    <3> QED
      BY <1>1, <3>1
  <2>3. k <= Len(s) \/ k > Len(s)
    BY <1>1
  <2> QED
    BY <2>1, <2>2, <2>3, Zenon
<1> QED
  BY <1>1, <1>2, SeqEqual

-----------------------------------------------------------------------------
(* Connections and descriptors *)

\* Open connections have descriptors of their own.
SocketsInv ==
    /\ link \in [Clients -> {"none", "waiting", "open", "closed"}]
    /\ fdOf \in [Clients -> Fds \cup {NoFd}]
    /\ \A c \in Open : fdOf[c] \in Fds
    /\ \A c, d \in Open : fdOf[c] = fdOf[d] => c = d

LEMMA FdsAreNats == Fds \subseteq Nat /\ NoFd \notin Fds /\ Clients \subseteq Nat
<1> QED
  BY SocketsAssumption DEF NoFd, Clients

\* There is a descriptor for a client that waits, and accept returns a free one.
LEMMA FreshFd ==
    ASSUME Waiting # {}
    PROVE  NewFd \in Fds /\ \A c \in Open : fdOf[c] # NewFd
<1> DEFINE used == {fdOf[c] : c \in Open}
<1>1. IsFiniteSet(Clients) /\ Cardinality(Clients) = Len(Text) /\ Len(Text) \in Nat
  <2>1. Clients = 1 .. Len(Text) /\ Len(Text) \in Nat
    BY SocketsAssumption DEF Clients
  <2>2. \A r \in Nat : IsFiniteSet(1 .. r) /\ Cardinality(1 .. r) = r
    BY FS_Interval
  <2> QED
    BY <2>1, <2>2
<1>2. Open \subseteq Clients /\ Open # Clients
  BY DEF Open, Waiting
<1>3. IsFiniteSet(Open) /\ Cardinality(Open) < Len(Text) /\ Cardinality(Open) \in Nat
  BY <1>1, <1>2, FS_Subset, FS_CardinalityType
<1>4. IsFiniteSet(used) /\ Cardinality(used) <= Cardinality(Open) /\ Cardinality(used) \in Nat
  BY <1>3, ImageIsFinite, FS_CardinalityType
<1>5. IsFiniteSet(Fds) /\ Cardinality(Fds) >= Len(Text) /\ Cardinality(Fds) \in Nat
  BY SocketsAssumption, FS_CardinalityType
<1>6. Fds \ used # {}
  <2> SUFFICES ASSUME Fds \subseteq used PROVE FALSE
    OBVIOUS
  <2>1. Cardinality(Fds) <= Cardinality(used)
    BY <1>4, FS_Subset
  <2> HIDE DEF used
  <2> QED
    BY <1>1, <1>3, <1>4, <1>5, <2>1
<1>7. NewFd \in Fds \ used
  BY <1>6, FdsAreNats, MinIsLeast DEF NewFd
<1> QED
  BY <1>7

LEMMA AcceptKeeps ==
    ASSUME SocketsInv, NEW c \in Waiting, Accept(c)
    PROVE  /\ SocketsInv' /\ Open' = Open \cup {c}
           /\ c \notin Open /\ fdOf'[c] = NewFd
           /\ \A d \in Open : fdOf'[d] = fdOf[d]
           /\ NewFd \in Fds /\ \A d \in Open : fdOf[d] # NewFd
<1>1. NewFd \in Fds /\ \A d \in Open : fdOf[d] # NewFd
  BY FreshFd
<1>2. c \in Clients /\ c \notin Open
  BY DEF Waiting, Open
<1>3. /\ link' = [link EXCEPT ![c] = "open"]
      /\ fdOf' = [fdOf EXCEPT ![c] = NewFd]
  BY DEF Accept
<1>4. Open' = Open \cup {c}
  BY <1>2, <1>3 DEF SocketsInv, Open
<1>5. fdOf'[c] = NewFd /\ \A d \in Open : fdOf'[d] = fdOf[d]
  BY <1>2, <1>3 DEF SocketsInv, Open
<1>6. /\ link' \in [Clients -> {"none", "waiting", "open", "closed"}]
      /\ fdOf' \in [Clients -> Fds \cup {NoFd}]
  BY <1>1, <1>2, <1>3 DEF SocketsInv
<1>7. /\ \A d \in Open' : fdOf'[d] \in Fds
      /\ \A d, e \in Open' : fdOf'[d] = fdOf'[e] => d = e
  BY <1>1, <1>4, <1>5 DEF SocketsInv
<1> QED
  BY <1>1, <1>2, <1>4, <1>5, <1>6, <1>7 DEF SocketsInv

LEMMA CloseKeeps ==
    ASSUME SocketsInv, NEW c \in Open, Close(c)
    PROVE  SocketsInv' /\ Open' = Open \ {c} /\ fdOf' = fdOf
<1>1. c \in Clients /\ link' = [link EXCEPT ![c] = "closed"] /\ fdOf' = fdOf
  BY DEF Close, Open
<1>2. Open' = Open \ {c}
  BY <1>1 DEF SocketsInv, Open
<1> QED
  BY <1>1, <1>2 DEF SocketsInv

LEMMA SameConnections ==
    ASSUME SocketsInv, link' = link, fdOf' = fdOf
    PROVE  SocketsInv' /\ Open' = Open /\ fdOf' = fdOf
<1> QED
  BY DEF SocketsInv, Open

\* Clients come, send, turn away: no open connection comes or goes by that.
LEMMA EnvironmentKeeps ==
    ASSUME SocketsInv, Environment
    PROVE  SocketsInv' /\ Open' = Open /\ fdOf' = fdOf
<1>1. CASE \E c \in Clients : Connect(c)
  <2>1. PICK c \in Clients : link[c] = "none" /\ link' = [link EXCEPT ![c] = "waiting"]
                             /\ fdOf' = fdOf
    BY <1>1 DEF Connect
  <2>2. Open' = Open
    BY <2>1 DEF SocketsInv, Open
  <2> QED
    BY <2>1, <2>2 DEF SocketsInv
<1>2. CASE link' = link /\ fdOf' = fdOf
  BY <1>2, SameConnections
<1> QED
  BY <1>1, <1>2 DEF Environment, Send, Turn

\* The client whose descriptor a slot holds.
LEMMA OwnerOf ==
    ASSUME SocketsInv, NEW c \in Open
    PROVE  Owner(fdOf[c]) = c
<1> QED
  BY DEF SocketsInv, Owner

-----------------------------------------------------------------------------
(* One program runs *)

LEMMA OneProgram ==
    ASSUME [Next]_programsVars
    PROVE  /\ program' = program
           /\ program = "poll" => Poll!Server \/ Poll!Outside \/ UNCHANGED programsVars
           /\ program = "loop" => Loop!Server \/ Loop!Outside \/ UNCHANGED programsVars
           /\ program = "select" => Select!Server \/ Select!Outside \/ UNCHANGED programsVars
           /\ program = "thread" => \/ Thread!Main \/ \E c \in Clients : Thread!Thread(c)
                                   \/ Thread!Outside \/ UNCHANGED programsVars
           /\ program = "halfclose" => Half!Next \/ UNCHANGED programsVars
           /\ program = "messages" => Msg!StreamNext \/ UNCHANGED programsVars
           /\ program = "files" => Files!FilesNext \/ UNCHANGED programsVars
           /\ program = "datagrams" => Udp!DatagramsNext \/ UNCHANGED programsVars
<1>1. CASE Next
  <2>1. DOMAIN EpollNumber = {"epoll1", "epoll2", "epoll3"}
    BY DEF EpollNumber
  <2>2. \A p : Runs(p) => program = p /\ program' = program
    BY DEF Runs, Idle
  <2>3. program' = program
    BY <1>1, <2>2 DEF Next, MainStep, ChildStep
  <2> HIDE DEF Runs
  <2>4. /\ program = "poll" => Poll!Server \/ Poll!Outside
        /\ program = "loop" => Loop!Server \/ Loop!Outside
        /\ program = "select" => Select!Server \/ Select!Outside
        /\ program = "thread" => \/ Thread!Main \/ \E c \in Clients : Thread!Thread(c)
                                \/ Thread!Outside
    BY <1>1, <2>1, <2>2 DEF Next, MainStep, ChildStep
  <2>5. /\ program = "halfclose" => Half!Next
        /\ program = "messages" => Msg!StreamNext
        /\ program = "files" => Files!FilesNext
        /\ program = "datagrams" => Udp!DatagramsNext
    BY <1>1, <2>1, <2>2 DEF Next, MainStep, ChildStep
  <2> QED
    BY <2>3, <2>4, <2>5
<1>2. CASE UNCHANGED programsVars
  BY <1>2 DEF programsVars
<1> QED
  BY <1>1, <1>2

-----------------------------------------------------------------------------
(* The poll server of chap-21 *)

PollInv ==
    /\ SocketsInv
    /\ event_set \in [Poll!Slots -> Fds \cup {NoFd}]
    /\ pc = "write" => i \in Poll!Slots /\ event_set[i] # NoFd
    /\ Poll!TableMatches

LEMMA PollInit == Init /\ program = "poll" => PollInv
<1> SUFFICES ASSUME Init, program = "poll" PROVE PollInv
  OBVIOUS
<1>1. SocketsInit(Clients) /\ pc = "wait" /\ event_set = [s \in Poll!Slots |-> NoFd]
  <2>1. program \notin DOMAIN EpollNumber /\ NoFd = Poll!NoFd
    BY DEF EpollNumber, NoFd, Poll!NoFd
  <2> QED
    BY <2>1 DEF Init, Poll!Start
<1>2. SocketsInv /\ Open = {}
  BY <1>1 DEF SocketsInit, SocketsInv, Open
<1>3. Poll!TableMatches
  <2>1. Poll!Open = {}
    BY <1>2 DEF Poll!Open, Open, Poll!Clients, Clients
  <2> QED
    BY <1>1, <2>1 DEF Poll!TableMatches, Poll!NoFd, NoFd
<1> QED
  BY <1>1, <1>2, <1>3 DEF PollInv

LEMMA PollSlots == Poll!Slots \subseteq Nat
<1> QED
  BY ProgramsAssumption DEF Poll!Slots

\* The slots the scan still has to look at hold descriptors of open connections.
LEMMA PollScans ==
    ASSUME PollInv, pc = "scan", Poll!ToRead # {}
    PROVE  LET s == Poll!Min(Poll!ToRead)
               c == Poll!Owner(event_set[s])
           IN  s \in Poll!Slots /\ event_set[s] # NoFd /\ c \in Open /\ event_set[s] = fdOf[c]
<1> DEFINE s == Poll!Min(Poll!ToRead)
           c == Poll!Owner(event_set[s])
<1>1. s \in Poll!ToRead
  <2>1. Poll!ToRead \subseteq Nat
    BY PollSlots DEF Poll!ToRead
  <2>2. s = Min(Poll!ToRead)
    BY DEF Poll!Min, Min
  <2> QED
    BY <2>1, <2>2, MinIsLeast
<1>2. s \in Poll!Slots /\ event_set[s] # NoFd
  BY <1>1 DEF Poll!ToRead, Poll!NoFd, NoFd
<1>3. PICK d \in Open : fdOf[d] = event_set[s]
  BY <1>2 DEF PollInv, Poll!TableMatches, Poll!Open, Open, Poll!Clients, Clients,
              Poll!NoFd, NoFd
<1>4. c = d
  <2>1. Owner(event_set[s]) = d
    BY <1>3, OwnerOf DEF PollInv
  <2> QED
    BY <2>1 DEF Poll!Owner, Owner, Poll!Open, Open, Poll!Clients, Clients
<1> QED
  BY <1>2, <1>3, <1>4

\* A step that leaves connections and table alone.
LEMMA PollQuiet ==
    ASSUME PollInv, SocketsInv', Open' = Open, fdOf' = fdOf, event_set' = event_set,
           pc' # "dead" => pc # "dead",
           pc' = "write" => i' \in Poll!Slots /\ event_set[i'] # NoFd
    PROVE  PollInv'
<1>1. Poll!Open' = Poll!Open
  BY DEF Poll!Open, Open, Poll!Clients, Clients
<1>2. Poll!TableMatches'
  BY <1>1 DEF PollInv, Poll!TableMatches, Poll!NoFd, Poll!Slots
<1> QED
  BY <1>2 DEF PollInv, Poll!Slots

LEMMA PollAccepts ==
    ASSUME PollInv, Poll!AcceptClient
    PROVE  PollInv'
<1> DEFINE free == {s \in Poll!Slots : event_set[s] = NoFd}
<1>1. /\ pc = "accept"
      /\ \E c \in Waiting : Accept(c)
      /\ IF free = {}
         THEN pc' = "dead" /\ UNCHANGED <<event_set, ready_number>>
         ELSE /\ event_set' = [event_set EXCEPT ![Min(free)] = NewFd]
              /\ pc' = IF ready_number <= 1 THEN "wait" ELSE "scan"
  <2>1. Poll!NoFd = NoFd /\ Poll!Waiting = Waiting /\ Poll!NewFd = NewFd
        /\ \A c : Poll!Accept(c) <=> Accept(c)
    BY DEF Poll!NoFd, NoFd, Poll!Waiting, Waiting, Poll!NewFd, NewFd, Poll!Open, Open,
           Poll!Clients, Clients, Poll!Accept, Accept, Poll!Min, Min
  <2>2. Poll!Min(free) = Min(free)
    BY DEF Poll!Min, Min
  <2> HIDE DEF free
  <2> QED
    BY <2>1, <2>2 DEF Poll!AcceptClient, Poll!Handled, free
<1>2. PICK c \in Waiting : Accept(c)
  BY <1>1
<1>3. /\ SocketsInv' /\ Open' = Open \cup {c}
      /\ c \notin Open /\ fdOf'[c] = NewFd
      /\ \A d \in Open : fdOf'[d] = fdOf[d]
      /\ NewFd \in Fds /\ \A d \in Open : fdOf[d] # NewFd
  BY <1>2, AcceptKeeps DEF PollInv
<1>4. CASE free = {}
  <2>1. pc' = "dead" /\ event_set' = event_set
    BY <1>1, <1>4
  <2> QED
    BY <1>3, <2>1 DEF PollInv, Poll!TableMatches, Poll!Slots
<1>5. CASE free # {}
  <2> DEFINE t == Min(free)
  <2>1. t \in Poll!Slots /\ event_set[t] = NoFd
    <3>1. free \in SUBSET Nat
      BY PollSlots
    <3>2. t \in free
      BY <1>5, <3>1, MinIsLeast
    <3> QED
      BY <3>2
  <2>2. event_set' = [event_set EXCEPT ![t] = NewFd] /\ pc' # "dead" /\ pc' # "write"
    BY <1>1, <1>5
  <2> HIDE DEF t, free
  <2>3. /\ event_set' \in [Poll!Slots -> Fds \cup {NoFd}]
        /\ event_set'[t] = NewFd
        /\ \A s \in Poll!Slots : s # t => event_set'[s] = event_set[s]
    BY <1>3, <2>1, <2>2 DEF PollInv
  <2>4. /\ \A d \in Open : \E s \in Poll!Slots : event_set[s] = fdOf[d]
        /\ \A s \in Poll!Slots : event_set[s] # NoFd => \E d \in Open : fdOf[d] = event_set[s]
        /\ \A s, r \in Poll!Slots : event_set[s] = event_set[r] =>
                s = r \/ event_set[s] = NoFd
    BY <1>1 DEF PollInv, Poll!TableMatches, Poll!Open, Open, Poll!Clients, Clients,
                Poll!NoFd, NoFd
  <2>5. \A d \in Open' : \E s \in Poll!Slots : event_set'[s] = fdOf'[d]
    <3> SUFFICES ASSUME NEW d \in Open' PROVE \E s \in Poll!Slots : event_set'[s] = fdOf'[d]
      OBVIOUS
    <3>1. CASE d = c
      BY <1>3, <2>1, <2>3, <3>1
    <3>2. CASE d \in Open
      <4>1. PICK s \in Poll!Slots : event_set[s] = fdOf[d]
        BY <2>4, <3>2
      <4>2. s # t
        BY <2>1, <3>2, <4>1, FdsAreNats DEF PollInv, SocketsInv
      <4> QED
        BY <1>3, <2>3, <3>2, <4>1, <4>2
    <3> QED
      BY <1>3, <3>1, <3>2
  <2>6. \A s \in Poll!Slots : event_set'[s] # NoFd => \E d \in Open' : fdOf'[d] = event_set'[s]
    BY <1>3, <2>3, <2>4
  <2>7. \A s, r \in Poll!Slots : event_set'[s] = event_set'[r] =>
            s = r \/ event_set'[s] = NoFd
    BY <1>3, <2>3, <2>4
  <2>8. Poll!TableMatches'
    <3>1. Poll!Open' = Open' /\ Poll!NoFd = NoFd
      BY DEF Poll!Open, Open, Poll!Clients, Clients, Poll!NoFd, NoFd
    <3> QED
      BY <2>5, <2>6, <2>7, <3>1 DEF Poll!TableMatches, Poll!Slots
  <2> QED
    BY <1>3, <2>2, <2>3, <2>8 DEF PollInv, Poll!Slots
<1> QED
  BY <1>4, <1>5

LEMMA PollCloses ==
    ASSUME PollInv, Poll!CloseClient
    PROVE  PollInv'
<1> DEFINE t == Poll!Min(Poll!ToRead)
           c == Poll!Owner(event_set[t])
<1>1. /\ pc = "scan" /\ Poll!ToRead # {} /\ Close(c)
      /\ event_set' = [event_set EXCEPT ![t] = NoFd]
      /\ pc' # "dead" /\ pc' # "write"
  BY DEF Poll!CloseClient, Poll!Handled, Poll!Close, Close, Poll!NoFd, NoFd
<1>2. t \in Poll!Slots /\ event_set[t] # NoFd /\ c \in Open /\ event_set[t] = fdOf[c]
  BY <1>1, PollScans
<1> HIDE DEF t, c
<1>3. SocketsInv' /\ Open' = Open \ {c} /\ fdOf' = fdOf
  BY <1>1, <1>2, CloseKeeps DEF PollInv
<1>4. /\ event_set' \in [Poll!Slots -> Fds \cup {NoFd}]
      /\ event_set'[t] = NoFd
      /\ \A s \in Poll!Slots : s # t => event_set'[s] = event_set[s]
  BY <1>1, <1>2 DEF PollInv
<1>5. /\ \A d \in Open : \E s \in Poll!Slots : event_set[s] = fdOf[d]
      /\ \A s \in Poll!Slots : event_set[s] # NoFd => \E d \in Open : fdOf[d] = event_set[s]
      /\ \A s, r \in Poll!Slots : event_set[s] = event_set[r] =>
              s = r \/ event_set[s] = NoFd
  BY <1>1 DEF PollInv, Poll!TableMatches, Poll!Open, Open, Poll!Clients, Clients,
              Poll!NoFd, NoFd
<1>6. \A d \in Open' : \E s \in Poll!Slots : event_set'[s] = fdOf'[d]
  <2> SUFFICES ASSUME NEW d \in Open' PROVE \E s \in Poll!Slots : event_set'[s] = fdOf'[d]
    OBVIOUS
  <2>1. d \in Open /\ d # c
    BY <1>3
  <2>2. PICK s \in Poll!Slots : event_set[s] = fdOf[d]
    BY <1>5, <2>1
  <2>3. s # t
    BY <1>2, <2>1, <2>2 DEF PollInv, SocketsInv
  <2> QED
    BY <1>3, <1>4, <2>2, <2>3
<1>7. \A s \in Poll!Slots : event_set'[s] # NoFd => \E d \in Open' : fdOf'[d] = event_set'[s]
  <2> SUFFICES ASSUME NEW s \in Poll!Slots, event_set'[s] # NoFd
               PROVE  \E d \in Open' : fdOf'[d] = event_set'[s]
    OBVIOUS
  <2>1. s # t /\ event_set'[s] = event_set[s]
    BY <1>4
  <2>2. PICK d \in Open : fdOf[d] = event_set[s]
    BY <1>5, <2>1
  <2>3. d # c
    BY <1>2, <1>5, <2>1, <2>2
  <2> QED
    BY <1>3, <2>1, <2>2, <2>3
<1>8. \A s, r \in Poll!Slots : event_set'[s] = event_set'[r] =>
          s = r \/ event_set'[s] = NoFd
  BY <1>4, <1>5
<1>9. Poll!TableMatches'
  <2>1. Poll!Open' = Open' /\ Poll!NoFd = NoFd
    BY DEF Poll!Open, Open, Poll!Clients, Clients, Poll!NoFd, NoFd
  <2> QED
    BY <1>6, <1>7, <1>8, <2>1 DEF Poll!TableMatches, Poll!Slots
<1> QED
  BY <1>1, <1>3, <1>4, <1>9 DEF PollInv, Poll!Slots

LEMMA PollStep ==
    ASSUME PollInv, Poll!Server \/ Poll!Outside \/ UNCHANGED programsVars
    PROVE  PollInv'
<1>1. CASE Poll!Poll \/ Poll!EndScan
  <2>1. UNCHANGED <<link, fdOf, event_set>> /\ pc # "dead" /\ pc' # "write"
    BY <1>1 DEF Poll!Poll, Poll!EndScan, Poll!sockVars, Poll!pollVars
  <2> QED
    BY <2>1, SameConnections, PollQuiet DEF PollInv
<1>2. CASE Poll!ReadClient
  <2>1. /\ UNCHANGED <<link, fdOf, event_set>> /\ pc = "scan" /\ Poll!ToRead # {}
        /\ i' = Poll!Min(Poll!ToRead)
    BY <1>2 DEF Poll!ReadClient, Poll!Exchange
  <2>2. i' \in Poll!Slots /\ event_set[i'] # NoFd
    BY <2>1, PollScans
  <2> QED
    BY <2>1, <2>2, SameConnections, PollQuiet DEF PollInv
<1>3. CASE Poll!WriteClient
  <2>1. UNCHANGED <<link, fdOf, event_set>> /\ pc = "write" /\ pc' # "write"
    BY <1>3 DEF Poll!WriteClient, Poll!Exchange, Poll!sockVars, Poll!Handled
  <2> QED
    BY <2>1, SameConnections, PollQuiet DEF PollInv
<1>4. CASE Poll!Outside
  <2>1. Environment /\ UNCHANGED <<pc, i, event_set>>
    BY <1>4 DEF Poll!Outside, Poll!pollVars, Poll!Environment, Environment,
                Poll!Connect, Connect, Poll!Send, Send, Poll!Turn, Turn,
                Poll!Connected, Connected, Poll!Clients, Clients
  <2> QED
    BY <2>1, EnvironmentKeeps, PollQuiet DEF PollInv
<1>5. CASE UNCHANGED programsVars
  <2>1. UNCHANGED <<link, fdOf, pc, i, event_set>>
    BY <1>5 DEF programsVars, sockVars
  <2> QED
    BY <2>1, SameConnections, PollQuiet DEF PollInv
<1> QED
  BY <1>1, <1>2, <1>3, <1>4, <1>5, PollAccepts, PollCloses DEF Poll!Server

-----------------------------------------------------------------------------
(* The library's poll dispatcher under the server of chap-27 *)

\* The descriptors of accepted connections; none of them is closed.
Accepted == {fdOf[c] : c \in Open}
Entry == [fd : Fds \cup {Loop!Listener, NoFd}, revents : BOOLEAN]
Array == 1 .. INIT_POLL_SIZE - 1

\* The array and the loop's map, and what is ahead of a scan: a slot that is
\* filled there must not call back by the revents of its last use.
ArrayInv ==
    /\ pollfd \in [Array -> Entry]
    /\ \A s \in Loop!Slots : pollfd[s].fd # Loop!Listener
    /\ entries \subseteq Accepted /\ refused \subseteq Accepted
    /\ entries \ refused = {pollfd[s].fd : s \in {t \in Loop!Slots : Loop!Used(t)}}
    /\ \A s, t \in Loop!Slots : Loop!Used(s) /\ pollfd[s].fd = pollfd[t].fd => s = t
ScanInv ==
    /\ pc # "past"
    /\ pc = "scan" =>
        /\ i \in Nat
        /\ ready_number = Cardinality(Loop!Due)
        /\ \A s \in Loop!Due : pollfd[s].fd \in reported
        /\ \A s \in Loop!Slots : s >= i /\ ~Loop!Used(s) => ~pollfd[s].revents

LoopInv == SocketsInv /\ ArrayInv /\ ScanInv

LEMMA ArrayFacts ==
    /\ Array \subseteq Nat \ {0} /\ IsFiniteSet(Array) /\ 1 \in Array
    /\ Loop!Slots = Array \ {1}
    /\ Loop!Listener \notin Fds /\ NoFd \notin Fds \cup {Loop!Listener} /\ Loop!NoFd = NoFd
<1>1. INIT_POLL_SIZE \in Nat /\ INIT_POLL_SIZE > 1
  BY ProgramsAssumption
<1>2. IsFiniteSet(Array)
  BY <1>1, FS_Interval DEF Array
<1>3. Loop!Listener \notin Fds /\ NoFd \notin Fds \cup {Loop!Listener} /\ Loop!NoFd = NoFd
  BY SocketsAssumption DEF Loop!Listener, NoFd, Loop!NoFd
<1> QED
  BY <1>1, <1>2, <1>3 DEF Array, Loop!Slots

LEMMA SameCardinality == \A S : Loop!Cardinality(S) = Cardinality(S)
<1> QED
  BY DEF Loop!Cardinality, Cardinality

LEMMA LoopInit == Init /\ program = "loop" => LoopInv
<1> SUFFICES ASSUME Init, program = "loop" PROVE LoopInv
  OBVIOUS
<1>1. /\ SocketsInit(Clients) /\ pc = "wait" /\ entries = {} /\ refused = {}
      /\ pollfd = [s \in Array |-> [fd |-> IF s = 1 THEN Loop!Listener ELSE NoFd,
                                    revents |-> FALSE]]
  <2>1. program \notin DOMAIN EpollNumber
    BY DEF EpollNumber
  <2> QED
    BY <2>1, ArrayFacts DEF Init, Loop!Start, Array
<1>2. SocketsInv /\ Open = {}
  BY <1>1 DEF SocketsInit, SocketsInv, Open
<1>3. \A s \in Loop!Slots : pollfd[s].fd = NoFd /\ ~Loop!Used(s)
  BY <1>1, ArrayFacts DEF Loop!Used
<1>4. pollfd \in [Array -> Entry]
  BY <1>1 DEF Entry
<1>5. ArrayInv
  BY <1>1, <1>3, <1>4, ArrayFacts DEF ArrayInv
<1> QED
  BY <1>1, <1>2, <1>5 DEF LoopInv, ScanInv

\* The scan has come to slot s, which is the first of those that are due. After
\* a callback that leaves the others as they were it is the only one done.
LEMMA LoopHandled ==
    ASSUME LoopInv, pc = "scan", Loop!Due # {}, NEW s, s = Loop!Min(Loop!Due),
           Loop!Handled(s), DOMAIN pollfd' = Array,
           \A t \in Array : t > s =>
                /\ Loop!Used(t)' /\ pollfd'[t].revents <=> Loop!Used(t) /\ pollfd[t].revents
                /\ Loop!Used(t) => pollfd'[t].fd = pollfd[t].fd
                /\ ~Loop!Used(t)' => ~pollfd'[t].revents
    PROVE  ScanInv'
<1>1. Loop!Due \subseteq Array /\ DOMAIN pollfd = Array /\ IsFiniteSet(Loop!Due)
  BY ArrayFacts, FS_Subset DEF LoopInv, ArrayInv, Loop!Due
<1>2. s \in Loop!Due /\ \A t \in Loop!Due : s <= t
  <2>1. Loop!Min(Loop!Due) = Min(Loop!Due)
    BY DEF Loop!Min, Min
  <2>2. Loop!Due \in SUBSET Nat
    BY <1>1, ArrayFacts
  <2> QED
    BY <2>1, <2>2, MinIsLeast
<1>3. s \in Array /\ s \in Nat /\ i \in Nat /\ s >= i
  BY <1>1, <1>2, ArrayFacts DEF Loop!Due, LoopInv, ScanInv
<1>4. /\ ready_number' = ready_number - 1 /\ i' = s + 1 /\ reported' = reported
      /\ pc' = IF ready_number <= 1 THEN "wait" ELSE IF Loop!Due' = {} THEN "past" ELSE "scan"
  BY DEF Loop!Handled
<1>5. Loop!Due' = Loop!Due \ {s}
  <2>1. \A t \in Array : t >= i' <=> t > s
    BY <1>3, <1>4, ArrayFacts
  <2>2. Loop!Due' = {t \in Array : t > s /\ Loop!Used(t) /\ pollfd[t].revents}
    BY <2>1 DEF Loop!Due
  <2>3. \A t \in Array : t > s => t >= i /\ t # s
    BY <1>3, ArrayFacts
  <2>4. \A t \in Loop!Due : t # s => t > s
    BY <1>1, <1>2, <1>3, ArrayFacts
  <2> QED
    BY <1>1, <2>2, <2>3, <2>4 DEF Loop!Due
<1>6. /\ ready_number = Cardinality(Loop!Due) /\ Cardinality(Loop!Due) \in Nat
      /\ Cardinality(Loop!Due') = ready_number - 1
  <2>1. Cardinality(Loop!Due \ {s}) = Cardinality(Loop!Due) - 1
    BY <1>1, <1>2, FS_RemoveElement
  <2> QED
    BY <1>1, <1>5, <2>1, FS_CardinalityType DEF LoopInv, ScanInv
<1>7. pc' # "past"
  <2> SUFFICES ASSUME Loop!Due' = {} PROVE ready_number <= 1
    BY <1>4
  <2>1. Cardinality(Loop!Due') = 0
    BY FS_EmptySet
  <2> QED
    BY <1>6, <2>1
<1>8. \A t \in Loop!Due' : pollfd'[t].fd \in reported'
  <2> SUFFICES ASSUME NEW t \in Loop!Due' PROVE pollfd'[t].fd \in reported'
    OBVIOUS
  <2>1. t \in Loop!Due /\ t \in Array /\ t > s /\ Loop!Used(t)
    <3>1. t \in Loop!Due /\ t # s
      BY <1>5
    <3>2. t \in Array /\ t \in Nat /\ Loop!Used(t) /\ s <= t
      BY <1>1, <1>2, <3>1, ArrayFacts DEF Loop!Due
    <3> QED
      BY <1>3, <3>1, <3>2
  <2> QED
    BY <1>4, <2>1 DEF LoopInv, ScanInv
<1>9. \A t \in Loop!Slots : t >= i' /\ ~Loop!Used(t)' => ~pollfd'[t].revents
  <2>1. \A t \in Loop!Slots : t \in Array /\ t \in Nat
    BY ArrayFacts
  <2> QED
    BY <1>3, <1>4, <2>1
<1>10. i' \in Nat /\ ready_number' = Cardinality(Loop!Due')
  BY <1>3, <1>4, <1>6
<1> QED
  BY <1>7, <1>8, <1>9, <1>10 DEF ScanInv, Loop!Slots

\* poll finds the used slots that are ready, and the scan starts.
LEMMA LoopPolls ==
    ASSUME LoopInv, Loop!Poll
    PROVE  LoopInv'
<1> DEFINE ready == {s \in DOMAIN pollfd : Loop!Used(s) /\
                        IF s = 1 THEN Loop!Waiting # {}
                        ELSE Loop!Readable(Loop!Owner(pollfd[s].fd))}
<1>1. /\ pollfd' = [s \in DOMAIN pollfd |-> [pollfd[s] EXCEPT !.revents = s \in ready]]
      /\ reported' = {pollfd[s].fd : s \in ready}
      /\ ready_number' = Cardinality(ready)
      /\ i' = 1 /\ pc' = "scan"
      /\ UNCHANGED <<link, fdOf, entries, refused>>
  BY SameCardinality DEF Loop!Poll, Loop!sockVars
<1>2. SocketsInv' /\ Accepted' = Accepted
  BY <1>1, SameConnections DEF LoopInv, Accepted
<1>3. DOMAIN pollfd = Array /\ ready \subseteq Array /\ \A s \in ready : Loop!Used(s)
  BY DEF LoopInv, ArrayInv
<1> HIDE DEF ready
<1>4. \A s \in Array : /\ pollfd[s] \in Entry /\ pollfd'[s] \in Entry
                       /\ pollfd'[s].fd = pollfd[s].fd
                       /\ pollfd'[s].revents <=> s \in ready
  <2> SUFFICES ASSUME NEW s \in Array
               PROVE  /\ pollfd[s] \in Entry /\ pollfd'[s] \in Entry
                      /\ pollfd'[s].fd = pollfd[s].fd
                      /\ pollfd'[s].revents <=> s \in ready
    OBVIOUS
  <2>1. pollfd[s] \in Entry
    BY DEF LoopInv, ArrayInv
  <2>2. pollfd'[s] = [pollfd[s] EXCEPT !.revents = s \in ready]
    BY <1>1, <1>3
  <2>3. (s \in ready) \in BOOLEAN
    OBVIOUS
  <2> QED
    BY <2>1, <2>2, <2>3 DEF Entry
<1>5. \A s \in Array : Loop!Used(s)' <=> Loop!Used(s)
  BY <1>4 DEF Loop!Used, Loop!NoFd
<1>6. Loop!Slots' = Loop!Slots /\ Loop!Slots \subseteq Array
  BY ArrayFacts DEF Loop!Slots
<1>7. ArrayInv'
  <2>1. pollfd' \in [Array -> Entry]
    BY <1>1, <1>3, <1>4
  <2>2. {pollfd'[s].fd : s \in {t \in Loop!Slots : Loop!Used(t)'}}
            = {pollfd[s].fd : s \in {t \in Loop!Slots : Loop!Used(t)}}
    BY <1>4, <1>5, <1>6
  <2>3. /\ \A s \in Loop!Slots : pollfd'[s].fd # Loop!Listener
        /\ \A s, t \in Loop!Slots :
                Loop!Used(s)' /\ pollfd'[s].fd = pollfd'[t].fd => s = t
    BY <1>4, <1>5, <1>6 DEF LoopInv, ArrayInv
  <2> QED
    BY <1>1, <1>2, <1>6, <2>1, <2>2, <2>3 DEF LoopInv, ArrayInv, Array, Entry, Loop!Listener, NoFd
<1>8. ScanInv'
  <2>1. Loop!Due' = ready
    <3>1. Loop!Due' = {s \in Array : s >= 1 /\ Loop!Used(s)' /\ pollfd'[s].revents}
      BY <1>1, <1>3 DEF Loop!Due
    <3>2. \A s \in Array : s >= 1
      BY ArrayFacts
    <3> QED
      BY <1>3, <1>4, <1>5, <3>1, <3>2
  <2>2. \A s \in ready : pollfd'[s].fd \in reported'
    BY <1>1, <1>3, <1>4
  <2>3. \A s \in Loop!Slots : ~Loop!Used(s)' => ~pollfd'[s].revents
    BY <1>3, <1>4, <1>5, <1>6
  <2> QED
    BY <1>1, <1>6, <2>1, <2>2, <2>3 DEF ScanInv
<1> QED
  BY <1>2, <1>7, <1>8 DEF LoopInv

\* A slot gets the descriptor f, the others stay as they are.
LEMMA SlotSet ==
    ASSUME ArrayInv, NEW t \in Loop!Slots, NEW f \in Fds \cup {NoFd},
           pollfd' = [pollfd EXCEPT ![t].fd = f]
    PROVE  /\ pollfd' \in [Array -> Entry] /\ t \in Array
           /\ pollfd'[t].fd = f /\ pollfd'[t].revents = pollfd[t].revents
           /\ \A s \in Array : s # t => pollfd'[s] = pollfd[s]
           /\ \A s \in Loop!Slots : pollfd'[s].fd # Loop!Listener
<1>1. Loop!Slots \subseteq Array /\ t \in Array /\ pollfd \in [Array -> Entry]
  BY ArrayFacts DEF ArrayInv
<1>2. pollfd[t] \in Entry
  BY <1>1
<1>3. pollfd' = [pollfd EXCEPT ![t] = [pollfd[t] EXCEPT !.fd = f]]
  BY <1>1
<1>4. /\ [pollfd[t] EXCEPT !.fd = f] \in Entry
      /\ [pollfd[t] EXCEPT !.fd = f].fd = f
      /\ [pollfd[t] EXCEPT !.fd = f].revents = pollfd[t].revents
  BY <1>2 DEF Entry
<1>5. /\ pollfd' \in [Array -> Entry] /\ pollfd'[t] = [pollfd[t] EXCEPT !.fd = f]
      /\ \A s \in Array : s # t => pollfd'[s] = pollfd[s]
  BY <1>1, <1>3, <1>4
<1>6. \A s \in Loop!Slots : pollfd'[s].fd # Loop!Listener
  BY <1>1, <1>4, <1>5, ArrayFacts DEF ArrayInv
<1> QED
  BY <1>1, <1>4, <1>5, <1>6

LEMMA LoopAccepts ==
    ASSUME LoopInv, Loop!handle_connection_established
    PROVE  LoopInv'
<1> DEFINE free == {s \in Loop!Slots : ~Loop!Used(s)}
           f == NewFd
<1>1. /\ pc = "scan" /\ Loop!Due # {} /\ 1 = Loop!Min(Loop!Due)
      /\ \E c \in Waiting : Accept(c)
      /\ entries' = entries \cup {f}
      /\ IF free = {} THEN refused' = refused \cup {f} /\ pollfd' = pollfd
         ELSE pollfd' = [pollfd EXCEPT ![Min(free)].fd = f] /\ refused' = refused
      /\ Loop!Handled(1)
  <2>1. Loop!Waiting = Waiting /\ Loop!NewFd = NewFd /\ \A c : Loop!Accept(c) <=> Accept(c)
    BY DEF Loop!Waiting, Waiting, Loop!NewFd, NewFd, Loop!Open, Open, Loop!Clients, Clients,
           Loop!Accept, Accept, Loop!Min, Min
  <2>2. Loop!Min(free) = Min(free)
    BY DEF Loop!Min, Min
  <2> HIDE DEF free
  <2> QED
    BY <2>1, <2>2 DEF Loop!handle_connection_established, Loop!poll_add, free
<1>2. PICK c \in Waiting : Accept(c)
  BY <1>1
<1>3. /\ SocketsInv' /\ Open' = Open \cup {c}
      /\ fdOf'[c] = f /\ \A d \in Open : fdOf'[d] = fdOf[d]
      /\ f \in Fds /\ \A d \in Open : fdOf[d] # f
  BY <1>2, AcceptKeeps DEF LoopInv
<1>4. Accepted' = Accepted \cup {f} /\ f \notin Accepted
  BY <1>3 DEF Accepted
<1> HIDE DEF f
<1>5. i \in Nat /\ i <= 1
  <2>1. Loop!Min(Loop!Due) = Min(Loop!Due) /\ Loop!Due \in SUBSET Nat
    <3>1. Loop!Due \subseteq Array
      BY DEF Loop!Due, LoopInv, ArrayInv
    <3> QED
      BY <3>1, ArrayFacts DEF Loop!Min, Min
  <2>2. 1 \in Loop!Due
    BY <1>1, <2>1, MinIsLeast
  <2> QED
    BY <1>1, <2>2 DEF Loop!Due, LoopInv, ScanInv
<1>6. /\ \A s \in Loop!Slots : s \in Array /\ (~Loop!Used(s) => ~pollfd[s].revents)
      /\ \A s \in Array : s > 1 => s \in Loop!Slots
      /\ DOMAIN pollfd = Array
  <2>1. \A s \in Loop!Slots : s \in Array /\ s >= i
    BY <1>5, ArrayFacts
  <2> QED
    BY <1>1, <2>1, ArrayFacts DEF LoopInv, ScanInv, ArrayInv
<1>7. CASE free = {}
  <2>1. refused' = refused \cup {f} /\ pollfd' = pollfd /\ entries' \ refused' = entries \ refused
    BY <1>1, <1>4, <1>7 DEF LoopInv, ArrayInv
  <2>2. \A s : Loop!Used(s)' <=> Loop!Used(s)
    BY <2>1 DEF Loop!Used, Loop!NoFd
  <2>3. Loop!Slots' = Loop!Slots
    BY DEF Loop!Slots
  <2>4. ArrayInv'
    BY <1>1, <1>4, <2>1, <2>2, <2>3
       DEF LoopInv, ArrayInv, Array, Entry, Loop!Listener, NoFd
  <2>5. ScanInv'
    BY <1>1, <1>6, <2>1, <2>2, LoopHandled
  <2> QED
    BY <1>3, <2>4, <2>5 DEF LoopInv
<1>8. CASE free # {}
  <2> DEFINE t == Min(free)
  <2>1. t \in Loop!Slots /\ ~Loop!Used(t)
    <3>1. free \in SUBSET Nat
      BY ArrayFacts
    <3>2. t \in free
      BY <1>8, <3>1, MinIsLeast
    <3> QED
      BY <3>2
  <2>2. pollfd' = [pollfd EXCEPT ![t].fd = f] /\ refused' = refused
    BY <1>1, <1>8
  <2> HIDE DEF t, free
  <2>3. /\ pollfd' \in [Array -> Entry] /\ t \in Array
        /\ pollfd'[t].fd = f /\ ~pollfd'[t].revents
        /\ \A s \in Array : s # t => pollfd'[s] = pollfd[s]
        /\ \A s \in Loop!Slots : pollfd'[s].fd # Loop!Listener
    <3>1. ArrayInv /\ f \in Fds \cup {NoFd}
      BY <1>3 DEF LoopInv
    <3>2. /\ pollfd' \in [Array -> Entry] /\ t \in Array
          /\ pollfd'[t].fd = f /\ pollfd'[t].revents = pollfd[t].revents
          /\ \A s \in Array : s # t => pollfd'[s] = pollfd[s]
          /\ \A s \in Loop!Slots : pollfd'[s].fd # Loop!Listener
      BY <2>1, <2>2, <3>1, SlotSet
    <3> QED
      BY <1>6, <2>1, <3>2
  <2>4. /\ \A s \in Array : Loop!Used(s)' <=> (s = t \/ Loop!Used(s))
        /\ {pollfd'[s].fd : s \in {r \in Loop!Slots : Loop!Used(r)'}}
              = {pollfd[s].fd : s \in {r \in Loop!Slots : Loop!Used(r)}} \cup {f}
    <3>1. f # NoFd
      BY <1>3, FdsAreNats
    <3>2. \A s \in Array : Loop!Used(s)' <=> (s = t \/ Loop!Used(s))
      BY <2>3, <3>1 DEF Loop!Used, Loop!NoFd, NoFd
    <3>3. {r \in Loop!Slots : Loop!Used(r)'} = {r \in Loop!Slots : Loop!Used(r)} \cup {t}
      BY <1>6, <2>1, <3>2
    <3>4. \A s \in Loop!Slots : s # t => pollfd'[s].fd = pollfd[s].fd
      BY <1>6, <2>3
    <3>5. t \notin {r \in Loop!Slots : Loop!Used(r)}
      BY <2>1
    <3> QED
      BY <2>3, <3>2, <3>3, <3>4, <3>5
  <2>5. entries' \ refused' = (entries \ refused) \cup {f}
    BY <1>1, <1>4, <2>2 DEF LoopInv, ArrayInv
  <2>6. \A s \in Loop!Slots : Loop!Used(s) => pollfd[s].fd # f
    BY <1>4 DEF LoopInv, ArrayInv
  <2>7. \A s, r \in Loop!Slots : Loop!Used(s)' /\ pollfd'[s].fd = pollfd'[r].fd => s = r
    <3> SUFFICES ASSUME NEW s \in Loop!Slots, NEW r \in Loop!Slots, Loop!Used(s)',
                        pollfd'[s].fd = pollfd'[r].fd
                 PROVE  s = r
      OBVIOUS
    <3>1. CASE s = t
      <4>1. r # t => pollfd[r].fd = f /\ Loop!Used(r)
        <5>1. f # NoFd
          BY <1>3, FdsAreNats
        <5> QED
          BY <1>6, <2>3, <3>1, <5>1 DEF Loop!Used, Loop!NoFd, NoFd
      <4> QED
        BY <2>6, <3>1, <4>1
    <3>2. CASE s # t
      <4>1. Loop!Used(s) /\ pollfd'[s].fd = pollfd[s].fd /\ pollfd[s].fd # f
        BY <1>6, <2>3, <2>4, <2>6, <3>2
      <4>2. r # t /\ pollfd'[r].fd = pollfd[r].fd
        BY <1>6, <2>3, <4>1
      <4> QED
        BY <4>1, <4>2 DEF LoopInv, ArrayInv
    <3> QED
      BY <3>1, <3>2
  <2>8. ArrayInv'
    <3>1. Loop!Slots' = Loop!Slots /\ Array' = Array /\ Entry' = Entry
          /\ Loop!Listener' = Loop!Listener
      BY DEF Loop!Slots, Array, Entry, Loop!Listener, NoFd
    <3>2. entries' \subseteq Accepted' /\ refused' \subseteq Accepted'
      BY <1>1, <1>4, <2>2 DEF LoopInv, ArrayInv
    <3>3. entries' \ refused' = {pollfd'[s].fd : s \in {r \in Loop!Slots : Loop!Used(r)'}}
      BY <2>4, <2>5 DEF LoopInv, ArrayInv
    <3> QED
      BY <2>3, <2>7, <3>1, <3>2, <3>3 DEF ArrayInv
  <2>9. ScanInv'
    <3>1. DOMAIN pollfd' = Array
      BY <2>3
    <3>2. \A s \in Array : s > 1 =>
             /\ Loop!Used(s)' /\ pollfd'[s].revents <=> Loop!Used(s) /\ pollfd[s].revents
             /\ Loop!Used(s) => pollfd'[s].fd = pollfd[s].fd
             /\ ~Loop!Used(s)' => ~pollfd'[s].revents
      BY <1>6, <2>1, <2>3, <2>4
    <3> QED
      BY <1>1, <3>1, <3>2, LoopHandled
  <2> QED
    BY <1>3, <2>8, <2>9 DEF LoopInv
<1> QED
  BY <1>7, <1>8

\* A callback that leaves the array alone.
LEMMA LoopReads ==
    ASSUME LoopInv, Loop!handle_read
    PROVE  LoopInv'
<1> DEFINE s == Loop!Min(Loop!Due)
<1>1. /\ pc = "scan" /\ Loop!Due # {}
      /\ UNCHANGED <<link, fdOf, pollfd, entries, refused>>
      /\ pc' = "dead" \/ Loop!Handled(s)
  BY DEF Loop!handle_read, Loop!Exchange
<1>2. SocketsInv' /\ Accepted' = Accepted
  BY <1>1, SameConnections DEF LoopInv, Accepted
<1>3. \A t : Loop!Used(t)' <=> Loop!Used(t)
  BY <1>1 DEF Loop!Used, Loop!NoFd
<1>4. ArrayInv'
  <2>1. Loop!Slots' = Loop!Slots
    BY DEF Loop!Slots
  <2> QED
    BY <1>1, <1>2, <1>3, <2>1 DEF LoopInv, ArrayInv, Array, Entry, Loop!Listener, NoFd
<1>5. CASE pc' = "dead"
  BY <1>2, <1>4, <1>5 DEF LoopInv, ScanInv
<1>6. CASE Loop!Handled(s)
  <2>1. s \in Array /\ s >= i /\ i \in Nat
    <3>1. s = Min(Loop!Due) /\ Loop!Due \subseteq Array
      BY DEF Loop!Min, Min, Loop!Due, LoopInv, ArrayInv
    <3>2. Loop!Due \in SUBSET Nat
      BY <3>1, ArrayFacts
    <3>3. s \in Loop!Due
      BY <1>1, <3>1, <3>2, MinIsLeast
    <3> QED
      BY <1>1, <3>1, <3>3 DEF Loop!Due, LoopInv, ScanInv
  <2>2. \A t \in Array : t > s /\ ~Loop!Used(t)' => ~pollfd'[t].revents
    <3> SUFFICES ASSUME NEW t \in Array, t > s, ~Loop!Used(t) PROVE ~pollfd[t].revents
      BY <1>1, <1>3
    <3> HIDE DEF s
    <3>1. t \in Nat /\ s \in Nat /\ s # 0
      BY <2>1, ArrayFacts
    <3>2. t # 1 /\ t >= i
      BY <2>1, <3>1
    <3>3. t \in Loop!Slots
      BY <3>2, ArrayFacts
    <3> QED
      BY <1>1, <3>2, <3>3 DEF LoopInv, ScanInv
  <2>3. DOMAIN pollfd' = Array
    BY <1>1 DEF LoopInv, ArrayInv
  <2> HIDE DEF s
  <2>4. ScanInv'
    BY <1>1, <1>3, <1>6, <2>2, <2>3, LoopHandled DEF s
  <2> QED
    BY <1>2, <1>4, <2>4 DEF LoopInv
<1> QED
  BY <1>1, <1>5, <1>6

LEMMA LoopCloses ==
    ASSUME LoopInv, Loop!handle_connection_closed
    PROVE  LoopInv'
<1> DEFINE s == Loop!Min(Loop!Due)
           f == pollfd[s].fd
           slots == {r \in Loop!Slots : pollfd[r].fd = f}
<1>1. /\ pc = "scan" /\ Loop!Due # {} /\ s # 1
      /\ pollfd' = IF slots = {} THEN pollfd
                   ELSE [pollfd EXCEPT ![Loop!Min(slots)].fd = NoFd]
      /\ entries' = entries \ {f}
      /\ Loop!Handled(s)
      /\ UNCHANGED <<link, fdOf, refused>>
  BY ArrayFacts DEF Loop!handle_connection_closed, Loop!poll_del, Loop!sockVars
<1>2. SocketsInv' /\ Accepted' = Accepted
  BY <1>1, SameConnections DEF LoopInv, Accepted
<1>3. s \in Loop!Slots /\ s \in Array /\ Loop!Used(s) /\ s >= i /\ i \in Nat /\ s \in Nat
  <2>1. s = Min(Loop!Due) /\ Loop!Due \subseteq Array
    BY DEF Loop!Min, Min, Loop!Due, LoopInv, ArrayInv
  <2>2. Loop!Due \in SUBSET Nat
    BY <2>1, ArrayFacts
  <2>3. s \in Loop!Due
    BY <1>1, <2>1, <2>2, MinIsLeast
  <2>4. Loop!Used(s) /\ s >= i /\ i \in Nat
    BY <1>1, <2>3 DEF Loop!Due, LoopInv, ScanInv
  <2> HIDE DEF s
  <2> QED
    BY <1>1, <2>1, <2>2, <2>3, <2>4, ArrayFacts
<1> HIDE DEF s
<1>4. pollfd' = [pollfd EXCEPT ![s].fd = NoFd]
  <2>1. slots = {s}
    BY <1>3 DEF LoopInv, ArrayInv
  <2>2. Loop!Min(slots) = s
    <3>1. slots \in SUBSET Nat
      BY <1>3, <2>1
    <3>2. Loop!Min(slots) = Min(slots)
      BY DEF Loop!Min, Min
    <3> HIDE DEF slots
    <3> QED
      BY <2>1, <3>1, <3>2, MinIsLeast
  <2> HIDE DEF slots
  <2> QED
    BY <1>1, <2>1, <2>2
<1>5. /\ pollfd' \in [Array -> Entry] /\ pollfd'[s].fd = NoFd
      /\ \A r \in Array : r # s => pollfd'[r] = pollfd[r]
      /\ \A r \in Loop!Slots : pollfd'[r].fd # Loop!Listener
  <2>1. ArrayInv /\ NoFd \in Fds \cup {NoFd}
    BY DEF LoopInv
  <2> QED
    BY <1>3, <1>4, <2>1, SlotSet
<1>6. \A r \in Array : Loop!Used(r)' <=> (r # s /\ Loop!Used(r))
  BY <1>5 DEF Loop!Used, Loop!NoFd, NoFd
<1>7. \A r \in Loop!Slots : r \in Array
  BY ArrayFacts
<1>8. ArrayInv'
  <2>1. Loop!Slots' = Loop!Slots /\ Array' = Array /\ Entry' = Entry
        /\ Loop!Listener' = Loop!Listener
    BY DEF Loop!Slots, Array, Entry, Loop!Listener, NoFd
  <2>2. entries' \ refused' = (entries \ refused) \ {f}
    BY <1>1
  <2>3. {pollfd'[r].fd : r \in {q \in Loop!Slots : Loop!Used(q)'}}
            = {pollfd[r].fd : r \in {q \in Loop!Slots : Loop!Used(q)}} \ {f}
    <3>1. {q \in Loop!Slots : Loop!Used(q)'} = {q \in Loop!Slots : Loop!Used(q)} \ {s}
      BY <1>6, <1>7
    <3>2. \A r \in Loop!Slots : r # s => pollfd'[r].fd = pollfd[r].fd
      BY <1>5, <1>7
    <3>3. \A r \in Loop!Slots : r # s => pollfd[r].fd # f
      BY <1>3 DEF LoopInv, ArrayInv
    <3> QED
      BY <3>1, <3>2, <3>3
  <2>4. entries' \ refused' = {pollfd'[r].fd : r \in {q \in Loop!Slots : Loop!Used(q)'}}
    BY <2>2, <2>3 DEF LoopInv, ArrayInv
  <2>5. entries' \subseteq Accepted' /\ refused' \subseteq Accepted'
    BY <1>1, <1>2 DEF LoopInv, ArrayInv
  <2>6. \A r, q \in Loop!Slots : Loop!Used(r)' /\ pollfd'[r].fd = pollfd'[q].fd => r = q
    <3> SUFFICES ASSUME NEW r \in Loop!Slots, NEW q \in Loop!Slots, Loop!Used(r)',
                        pollfd'[r].fd = pollfd'[q].fd
                 PROVE  r = q
      OBVIOUS
    <3>1. r # s /\ Loop!Used(r) /\ pollfd'[r].fd = pollfd[r].fd /\ pollfd[r].fd # NoFd
      BY <1>5, <1>6, <1>7 DEF Loop!Used, Loop!NoFd, NoFd
    <3>2. q # s /\ pollfd'[q].fd = pollfd[q].fd
      BY <1>5, <1>7, <3>1
    <3> QED
      BY <3>1, <3>2 DEF LoopInv, ArrayInv
  <2> QED
    BY <1>5, <2>1, <2>4, <2>5, <2>6 DEF ArrayInv
<1>9. ScanInv'
  <2>1. \A r \in Array : r > s => r \in Loop!Slots /\ r >= i /\ r # s
    <3> SUFFICES ASSUME NEW r \in Array, r > s
                 PROVE  r \in Loop!Slots /\ r >= i /\ r # s
      OBVIOUS
    <3>1. r \in Nat /\ s # 0
      BY <1>3, ArrayFacts
    <3>2. r # 1 /\ r >= i /\ r # s
      BY <1>3, <3>1
    <3> QED
      BY <3>2, ArrayFacts
  <2>2. \A r \in Array : r > s =>
           /\ Loop!Used(r)' /\ pollfd'[r].revents <=> Loop!Used(r) /\ pollfd[r].revents
           /\ Loop!Used(r) => pollfd'[r].fd = pollfd[r].fd
           /\ ~Loop!Used(r)' => ~pollfd'[r].revents
    BY <1>1, <1>5, <1>6, <2>1 DEF LoopInv, ScanInv
  <2>3. DOMAIN pollfd' = Array
    BY <1>5
  <2> QED
    BY <1>1, <2>2, <2>3, LoopHandled DEF s
<1> QED
  BY <1>2, <1>8, <1>9 DEF LoopInv

LEMMA LoopStep ==
    ASSUME LoopInv, Loop!Server \/ Loop!Outside \/ UNCHANGED programsVars
    PROVE  LoopInv'
<1>1. CASE Loop!Outside \/ UNCHANGED programsVars
  <2>1. UNCHANGED <<pc, pollfd, ready_number, i, entries, reported, refused>>
    BY <1>1 DEF Loop!Outside, Loop!loopVars, programsVars
  <2>2. SocketsInv' /\ Open' = Open /\ fdOf' = fdOf
    <3>1. CASE Loop!Outside
      <4>1. Environment
        BY <3>1 DEF Loop!Outside, Loop!Environment, Environment, Loop!Connect, Connect,
                    Loop!Send, Send, Loop!Turn, Turn, Loop!Connected, Connected,
                    Loop!Clients, Clients
      <4> QED
        BY <4>1, EnvironmentKeeps DEF LoopInv
    <3>2. CASE UNCHANGED programsVars
      BY <3>2, SameConnections DEF LoopInv, programsVars, sockVars
    <3> QED
      BY <1>1, <3>1, <3>2
  <2>3. (\A s : Loop!Used(s)' <=> Loop!Used(s)) /\ Loop!Due' = Loop!Due
        /\ Loop!Slots' = Loop!Slots /\ Accepted' = Accepted
    BY <2>1, <2>2 DEF Loop!Used, Loop!NoFd, Loop!Due, Loop!Slots, Accepted
  <2>4. ArrayInv'
    BY <2>1, <2>3 DEF LoopInv, ArrayInv, Array, Entry, Loop!Listener, NoFd
  <2>5. ScanInv'
    BY <2>1, <2>3 DEF LoopInv, ScanInv
  <2> QED
    BY <2>2, <2>4, <2>5 DEF LoopInv
<1> QED
  BY <1>1, LoopPolls, LoopAccepts, LoopReads, LoopCloses DEF Loop!Server

-----------------------------------------------------------------------------
(* The epoll servers of chap-23 *)

\* Events are those of the listener and of open connections, and none is left
\* of the connection that is read.
EpollInv ==
    /\ SocketsInv
    /\ edges \subseteq Accepted \cup {0}
    /\ batch \subseteq Accepted \cup {0}
    /\ errs \subseteq batch \ {0}
    /\ pc = "read" => socket_fd \in Accepted \ batch

LEMMA EpollRuns ==
    ASSUME [Next]_programsVars, program \in DOMAIN EpollNumber
    PROVE  \E w \in 1 .. 3 :
            /\ w = 1 => program = "epoll1"
            /\ Epoll(w)!Server \/ Epoll(w)!Outside \/ UNCHANGED programsVars
<1>1. DOMAIN EpollNumber = {"epoll1", "epoll2", "epoll3"}
      /\ EpollNumber["epoll1"] = 1 /\ EpollNumber["epoll2"] = 2 /\ EpollNumber["epoll3"] = 3
  BY DEF EpollNumber
<1>2. CASE UNCHANGED programsVars
  BY <1>2
<1>3. CASE Next
  <2>1. \E p \in DOMAIN EpollNumber :
            program = p /\ (Epoll(EpollNumber[p])!Server \/ Epoll(EpollNumber[p])!Outside)
    BY <1>1, <1>3 DEF Next, MainStep, ChildStep, Runs
  <2> QED
    BY <1>1, <2>1
<1> QED
  BY <1>2, <1>3

LEMMA EpollInit == Init /\ program \in DOMAIN EpollNumber => EpollInv
<1> SUFFICES ASSUME Init, program \in DOMAIN EpollNumber PROVE EpollInv
  OBVIOUS
<1>1. SocketsInit({1, 2}) /\ pc = "wait" /\ edges = {} /\ batch = {} /\ errs = {}
  BY DEF Init, Epoll!Start
<1>2. SocketsInv
  BY <1>1 DEF SocketsInit, SocketsInv, Open
<1> QED
  BY <1>1, <1>2 DEF EpollInv

\* The module sees the connections as the other servers do.
LEMMA EpollSockets ==
    ASSUME NEW w
    PROVE  /\ Epoll(w)!Clients = Clients /\ Epoll(w)!Open = Open /\ Epoll(w)!Waiting = Waiting
           /\ Epoll(w)!NewFd = NewFd /\ Epoll(w)!Listener = 0
           /\ \A f : Epoll(w)!Owner(f) = Owner(f)
           /\ \A c : Epoll(w)!Accept(c) <=> Accept(c)
           /\ \A c : Epoll(w)!Close(c) <=> Close(c)
           /\ Epoll(w)!Environment <=> Environment
<1>1. /\ Epoll(w)!Clients = Clients /\ Epoll(w)!Open = Open /\ Epoll(w)!Waiting = Waiting
      /\ Epoll(w)!Listener = 0
  BY DEF Epoll!Clients, Clients, Epoll!Open, Open, Epoll!Waiting, Waiting, Epoll!Listener
<1>2. \A f : Epoll(w)!Owner(f) = Owner(f)
  BY <1>1 DEF Epoll!Owner, Owner
<1>3. Epoll(w)!NewFd = NewFd
  BY <1>1 DEF Epoll!NewFd, NewFd, Epoll!Min, Min
<1>4. \A c : Epoll(w)!Accept(c) <=> Accept(c)
  BY <1>1, <1>3 DEF Epoll!Accept, Accept, Epoll!Min, Min
<1>5. \A c : Epoll(w)!Close(c) <=> Close(c)
  BY DEF Epoll!Close, Close
<1>6. Epoll(w)!Environment <=> Environment
  BY <1>1 DEF Epoll!Environment, Environment, Epoll!Connect, Connect, Epoll!Send, Send,
              Epoll!Turn, Turn, Epoll!Connected, Connected
<1> QED
  BY <1>1, <1>2, <1>3, <1>4, <1>5, <1>6

\* A step in which no connection is opened or closed, and at most one event taken.
LEMMA EpollQuiet ==
    ASSUME EpollInv, SocketsInv', Open' = Open, fdOf' = fdOf,
           edges' \subseteq edges \cup Accepted \cup {0},
           batch' \subseteq edges \cup batch \cup Accepted, errs' \subseteq batch' \ {0},
           pc' = "read" => socket_fd' \in Accepted \ batch'
    PROVE  EpollInv'
<1>1. Accepted' = Accepted
  BY DEF Accepted
<1> QED
  BY <1>1 DEF EpollInv

\* The connection at f is closed: no event of it is left.
LEMMA EpollCloses ==
    ASSUME EpollInv, NEW c \in Open, Close(c), edges' = edges \ {fdOf[c]},
           batch' \subseteq batch \ {fdOf[c]}, errs' \subseteq errs \cap batch', pc' # "read"
    PROVE  EpollInv'
<1>1. SocketsInv' /\ Open' = Open \ {c} /\ fdOf' = fdOf
  BY CloseKeeps DEF EpollInv
<1>2. Accepted \ {fdOf[c]} \subseteq Accepted'
  <2> SUFFICES ASSUME NEW e \in Accepted, e # fdOf[c] PROVE e \in Accepted'
    OBVIOUS
  <2>1. PICK d \in Open : fdOf[d] = e
    BY DEF Accepted
  <2>2. d \in Open' /\ fdOf'[d] = e
    BY <1>1, <2>1
  <2> QED
    BY <2>2 DEF Accepted
<1> QED
  BY <1>1, <1>2 DEF EpollInv

LEMMA EpollStep ==
    ASSUME EpollInv, NEW w \in 1 .. 3,
           Epoll(w)!Server \/ Epoll(w)!Outside \/ UNCHANGED programsVars
    PROVE  EpollInv'
<1>0. 0 \notin Accepted
  BY SocketsAssumption DEF EpollInv, SocketsInv, Accepted
<1>1. CASE UNCHANGED programsVars
  <2>1. UNCHANGED <<link, fdOf, edges, batch, errs, pc, socket_fd>>
    BY <1>1 DEF programsVars, sockVars
  <2> QED
    BY <2>1, SameConnections, EpollQuiet DEF EpollInv
<1>2. CASE Epoll(w)!Outside
  <2>1. Environment /\ UNCHANGED <<batch, errs, pc, socket_fd>>
        /\ edges' = edges \cup Epoll(w)!Edges
    BY <1>2, EpollSockets DEF Epoll!Outside
  <2>2. Epoll(w)!Edges \subseteq Accepted \cup {0}
    BY EpollSockets DEF Epoll!Edges, Accepted
  <2> QED
    BY <2>1, <2>2, EnvironmentKeeps, EpollQuiet DEF EpollInv
<1>3. CASE Epoll(w)!EpollWait
  <2>1. PICK ready : /\ ready \subseteq edges \cup Epoll(w)!Level /\ batch' = ready
                     /\ errs' \subseteq ready \ {0}
                     /\ edges' = {} /\ pc' = "events" /\ UNCHANGED <<link, fdOf>>
    BY <1>3, EpollSockets DEF Epoll!EpollWait, Epoll!sockVars
  <2>2. Epoll(w)!Level \subseteq Accepted
    BY EpollSockets DEF Epoll!Level, Accepted
  <2> QED
    BY <2>1, <2>2, SameConnections, EpollQuiet DEF EpollInv
<1>4. CASE Epoll(w)!CloseOnError
  <2>1. PICK f \in errs : /\ batch' = batch \ {f} /\ errs' = errs \ {f}
                          /\ Close(Owner(f)) /\ edges' = edges \ {f} /\ pc' = "events"
    BY <1>4, EpollSockets DEF Epoll!CloseOnError, Epoll!Take
  <2>2. PICK c \in Open : fdOf[c] = f
    BY <2>1 DEF EpollInv, Accepted
  <2>3. Owner(f) = c
    BY <2>2, OwnerOf DEF EpollInv
  <2>4. errs' \subseteq errs \cap batch'
    BY <2>1 DEF EpollInv
  <2> QED
    BY <2>1, <2>2, <2>3, <2>4, EpollCloses
<1>5. CASE Epoll(w)!AcceptClient
  <2>1. PICK c \in Waiting :
            /\ Accept(c) /\ edges' \subseteq edges \cup {NewFd}
            /\ batch' = batch \ {0} /\ errs' = errs \ {0} /\ pc' = "events"
    BY <1>5, EpollSockets DEF Epoll!AcceptClient, Epoll!Take
  <2>2. /\ SocketsInv' /\ Open' = Open \cup {c} /\ fdOf'[c] = NewFd
        /\ \A d \in Open : fdOf'[d] = fdOf[d]
    BY <2>1, AcceptKeeps DEF EpollInv
  <2>3. Accepted' = Accepted \cup {NewFd}
    BY <2>2 DEF Accepted
  <2> QED
    BY <2>1, <2>2, <2>3 DEF EpollInv
<1>6. CASE Epoll(w)!ReadClient \/ Epoll(w)!NoteClient
  <2>1. PICK f \in batch \ {0} :
            /\ batch' = batch \ {f} /\ errs' = errs \ {f} /\ socket_fd' = f
            /\ f \notin errs /\ UNCHANGED <<link, fdOf, edges>>
    BY <1>6, EpollSockets DEF Epoll!ReadClient, Epoll!NoteClient, Epoll!TakeClient, Epoll!Take,
                              Epoll!sockVars
  <2>2. f \in Accepted
    BY <2>1 DEF EpollInv
  <2>3. errs' \subseteq batch' \ {0}
    BY <2>1 DEF EpollInv
  <2> QED
    BY <2>1, <2>2, <2>3, SameConnections, EpollQuiet DEF EpollInv
<1>7. CASE Epoll(w)!EchoClient
  <2>1. UNCHANGED <<link, fdOf, edges, batch, errs, socket_fd>> /\ pc = "read"
    BY <1>7 DEF Epoll!EchoClient, Epoll!ReadAndWrite, Epoll!Exchange
  <2> QED
    BY <2>1, SameConnections, EpollQuiet DEF EpollInv
<1>8. CASE Epoll(w)!EndRead
  <2>1. /\ pc = "read" /\ pc' # "read" /\ UNCHANGED <<batch, errs, socket_fd>>
        /\ \/ UNCHANGED <<link, fdOf, edges>>
           \/ Close(Owner(socket_fd)) /\ edges' = edges \ {socket_fd}
    BY <1>8, EpollSockets DEF Epoll!EndRead, Epoll!sockVars
  <2>2. CASE UNCHANGED <<link, fdOf, edges>>
    BY <2>1, <2>2, SameConnections, EpollQuiet DEF EpollInv
  <2>3. CASE Close(Owner(socket_fd)) /\ edges' = edges \ {socket_fd}
    <3>1. PICK c \in Open : fdOf[c] = socket_fd
      BY <2>1 DEF EpollInv, Accepted
    <3>2. Owner(socket_fd) = c
      BY <3>1, OwnerOf DEF EpollInv
    <3>3. batch' \subseteq batch \ {socket_fd} /\ errs' \subseteq errs \cap batch'
      BY <2>1 DEF EpollInv
    <3> QED
      BY <2>1, <2>3, <3>1, <3>2, <3>3, EpollCloses
  <2> QED
    BY <2>1, <2>2, <2>3
<1>9. CASE Epoll(w)!EndBatch
  <2>1. UNCHANGED <<link, fdOf, edges>> /\ batch' = {} /\ errs' = {} /\ pc' = "wait"
    BY <1>9 DEF Epoll!EndBatch, Epoll!sockVars
  <2> QED
    BY <2>1, SameConnections, EpollQuiet DEF EpollInv
<1> QED
  BY <1>1, <1>2, <1>3, <1>4, <1>5, <1>6, <1>7, <1>8, <1>9
     DEF Epoll!Server, Epoll!Server1, Epoll!Server2, Epoll!Server3, Epoll!Dispatch

-----------------------------------------------------------------------------
(* What ends a server *)

PeerInv == peer \in [Clients -> {"up", "stalled", "fin", "rst"}]
Why ==
    \/ Harmful({"rst"})
    \/ program \in {"epoll1", "loop"} /\ Harmful({"stalled"})
    \/ Overfull

\* These have no way to end. Nor does a program run that is no server.
Endless == {"fork", "epoll2", "epoll3"} \cup (Programs \ Servers)
HarmInv ==
    /\ program \in Programs /\ PeerInv
    /\ Stopped => program \notin Endless /\ Why

LEMMA ServerNames ==
    /\ DOMAIN EpollNumber = {"epoll1", "epoll2", "epoll3"}
    /\ Programs \ Endless = {"poll", "select", "thread", "loop", "epoll1"}
    /\ Programs = Endless \cup {"poll", "select", "thread", "loop", "epoll1"}
<1>1. DOMAIN EpollNumber = {"epoll1", "epoll2", "epoll3"}
  BY DEF EpollNumber
<1> QED
  BY <1>1 DEF Programs, Servers, Endless

LEMMA HarmInit == Init => HarmInv
<1> QED
  BY DEF Init, SocketsInit, HarmInv, PeerInv, Stopped

\* A client that has reset its connection, or that does not read, does so for good.
LEMMA PeersStay ==
    ASSUME PeerInv, Environment
    PROVE  /\ PeerInv'
           /\ \A c \in Clients : peer[c] \in {"rst", "stalled"} => peer'[c] = peer[c]
<1> QED
  BY DEF PeerInv, Environment, Connect, Send, Turn

\* What a server ended for stays, when it does nothing any more.
LEMMA WhyStays ==
    ASSUME Why, program' = program, Open' = Open, fdOf' = fdOf, event_set' = event_set,
           buffer' = buffer,
           \A c \in Clients : peer[c] \in {"rst", "stalled"} => peer'[c] = peer[c]
    PROVE  Why'
<1>1. \A c \in Open : c \in Clients
  BY DEF Open
<1>2. ASSUME NEW S \in SUBSET {"rst", "stalled"}, Harmful(S) PROVE Harmful(S)'
  <2>1. PICK c \in Open : peer[c] \in S
    BY <1>2 DEF Harmful
  <2>2. c \in Open' /\ peer'[c] = peer[c]
    BY <1>1, <2>1
  <2> QED
    BY <2>1, <2>2 DEF Harmful
<1>3. Overfull => Overfull'
  BY DEF Overfull, NoFd
<1> QED
  BY <1>2, <1>3 DEF Why

\* A step that does not end the server.
LEMMA HarmQuiet ==
    ASSUME HarmInv, program' = program, PeerInv',
           \/ pc' \notin {"dead", "wild", "past"}
           \/ /\ pc' = pc /\ Open' = Open /\ fdOf' = fdOf /\ event_set' = event_set
              /\ buffer' = buffer
              /\ \A c \in Clients : peer[c] \in {"rst", "stalled"} => peer'[c] = peer[c]
    PROVE  HarmInv'
<1>1. CASE pc' \notin {"dead", "wild", "past"}
  BY <1>1 DEF HarmInv, Stopped
<1>2. CASE Stopped
  BY <1>2, WhyStays DEF HarmInv, Stopped
<1>3. CASE pc' = pc /\ ~Stopped
  BY <1>3 DEF HarmInv, Stopped
<1> QED
  BY <1>1, <1>2, <1>3 DEF Stopped

LEMMA HarmEnvironment ==
    ASSUME HarmInv, SocketsInv, program' = program, Environment,
           UNCHANGED <<pc, event_set, buffer>>
    PROVE  HarmInv'
<1>1. Open' = Open /\ fdOf' = fdOf
  BY EnvironmentKeeps
<1>2. PeerInv' /\ \A c \in Clients : peer[c] \in {"rst", "stalled"} => peer'[c] = peer[c]
  BY PeersStay DEF HarmInv
<1> QED
  BY <1>1, <1>2, HarmQuiet

\* The server ends because of client c.
LEMMA EndsBy ==
    ASSUME HarmInv, program' = program, program \notin Endless, peer' = peer,
           NEW c \in Open', \/ peer[c] = "rst"
                            \/ peer[c] = "stalled" /\ program \in {"epoll1", "loop"}
    PROVE  HarmInv'
<1>1. PeerInv'
  BY DEF HarmInv, PeerInv, Clients
<1>2. Why'
  BY DEF Why, Harmful
<1> QED
  BY <1>1, <1>2 DEF HarmInv

LEMMA PollHarmless ==
    ASSUME HarmInv, PollInv, program = "poll", program' = program,
           \/ Runs("poll") /\ Poll!Server
           \/ Runs("poll") /\ Poll!Outside
           \/ UNCHANGED programsVars
    PROVE  HarmInv'
<1>0. program \notin Endless /\ UNCHANGED buffer
  BY ServerNames DEF Runs, Idle, programsVars
<1>1. CASE UNCHANGED programsVars
  <2>1. UNCHANGED <<link, fdOf, peer, pc, event_set, buffer>>
    BY <1>1 DEF programsVars, sockVars
  <2> QED
    BY <2>1, SameConnections, HarmQuiet DEF PollInv, HarmInv, PeerInv
<1>2. CASE Poll!Outside
  <2>1. Environment /\ UNCHANGED <<pc, event_set>>
    BY <1>2 DEF Poll!Outside, Poll!pollVars, Poll!Environment, Environment,
                Poll!Connect, Connect, Poll!Send, Send, Poll!Turn, Turn,
                Poll!Connected, Connected, Poll!Clients, Clients
  <2> QED
    BY <1>0, <2>1, HarmEnvironment DEF PollInv
<1>3. CASE Poll!Server
  <2>1. peer' = peer
    BY <1>3 DEF Poll!Server, Poll!Poll, Poll!AcceptClient, Poll!ReadClient, Poll!CloseClient,
                Poll!WriteClient, Poll!EndScan, Poll!sockVars, Poll!Accept, Poll!Close, Poll!Exchange
  <2>2. PeerInv'
    BY <2>1 DEF HarmInv, PeerInv, Clients
  <2>3. CASE pc' # "dead"
    <3>1. pc' \in {"wait", "accept", "scan", "write"}
      BY <1>3, <2>3 DEF Poll!Server, Poll!Poll, Poll!AcceptClient, Poll!ReadClient,
                        Poll!CloseClient, Poll!WriteClient, Poll!EndScan, Poll!Handled
    <3> QED
      BY <2>2, <3>1, HarmQuiet
  <2>4. CASE pc' = "dead" /\ Poll!AcceptClient
    <3>1. event_set' = event_set /\ \A s \in Poll!Slots : event_set[s] # NoFd
      BY <2>4 DEF Poll!AcceptClient, Poll!Handled, Poll!NoFd, NoFd
    <3>2. \A s \in DOMAIN event_set' : event_set'[s] # NoFd
      BY <3>1 DEF PollInv
    <3>3. Overfull'
      BY <3>2 DEF Overfull, NoFd
    <3> QED
      BY <1>0, <2>2, <3>3 DEF HarmInv, Why
  <2>5. CASE pc' = "dead" /\ Poll!WriteClient
    <3>1. /\ pc = "write" /\ peer[Poll!Owner(event_set[i])] = "rst" /\ UNCHANGED <<link, fdOf>>
      BY <2>5 DEF Poll!WriteClient, Poll!Handled, Poll!sockVars
    <3>2. i \in Poll!Slots /\ event_set[i] # NoFd
      BY <3>1 DEF PollInv
    <3>3. PICK c \in Open : fdOf[c] = event_set[i]
      BY <3>1, <3>2 DEF PollInv, Poll!TableMatches, Poll!Open, Open, Poll!Clients, Clients,
                        Poll!NoFd, NoFd
    <3>4. Poll!Owner(event_set[i]) = Owner(event_set[i])
      BY DEF Poll!Owner, Owner, Poll!Open, Open, Poll!Clients, Clients
    <3>5. Owner(event_set[i]) = c
      BY <3>3, OwnerOf DEF PollInv
    <3>6. c \in Open'
      BY <3>1 DEF Open
    <3> QED
      BY <1>0, <2>1, <3>1, <3>4, <3>5, <3>6, EndsBy
  <2>6. pc' # "dead" \/ Poll!AcceptClient \/ Poll!WriteClient
    BY <1>3 DEF Poll!Server, Poll!Poll, Poll!ReadClient, Poll!CloseClient, Poll!EndScan,
                Poll!Handled
  <2> QED
    BY <2>3, <2>4, <2>5, <2>6
<1> QED
  BY <1>1, <1>2, <1>3

LEMMA LoopHarmless ==
    ASSUME HarmInv, LoopInv, LoopInv', program = "loop", program' = program,
           \/ Runs("loop") /\ Loop!Server
           \/ Runs("loop") /\ Loop!Outside
           \/ UNCHANGED programsVars
    PROVE  HarmInv'
<1>0. program \notin Endless /\ UNCHANGED <<buffer, event_set>>
  BY ServerNames DEF Runs, Idle, programsVars
<1>1. CASE UNCHANGED programsVars
  <2>1. UNCHANGED <<link, fdOf, peer, pc, event_set, buffer>>
    BY <1>1 DEF programsVars, sockVars
  <2> QED
    BY <2>1, SameConnections, HarmQuiet DEF LoopInv, HarmInv, PeerInv
<1>2. CASE Loop!Outside
  <2>1. Environment /\ UNCHANGED pc
    BY <1>2 DEF Loop!Outside, Loop!Environment, Environment,
                Loop!Connect, Connect, Loop!Send, Send, Loop!Turn, Turn,
                Loop!Connected, Connected, Loop!Clients, Clients
  <2> QED
    BY <1>0, <2>1, HarmEnvironment DEF LoopInv
<1>3. CASE Loop!Server
  <2>1. peer' = peer
    BY <1>3 DEF Loop!Server, Loop!Poll, Loop!handle_connection_established, Loop!handle_read,
                Loop!handle_connection_closed, Loop!sockVars, Loop!Accept, Loop!Exchange
  <2>2. PeerInv'
    BY <2>1 DEF HarmInv, PeerInv, Clients
  <2>3. pc' \in {"wait", "scan", "past"} \/ (pc' = "dead" /\ Loop!handle_read)
    BY <1>3 DEF Loop!Server, Loop!Poll, Loop!handle_connection_established, Loop!handle_read,
                Loop!handle_connection_closed, Loop!Handled
  <2>4. CASE pc' # "dead"
    <3>1. pc' \in {"wait", "scan"}
      BY <2>3, <2>4 DEF LoopInv, ScanInv
    <3> QED
      BY <2>2, <3>1, HarmQuiet
  <2>5. CASE pc' = "dead" /\ Loop!handle_read
    <3> DEFINE s == Loop!Min(Loop!Due)
    <3>1. /\ pc = "scan" /\ Loop!Due # {} /\ s # 1 /\ UNCHANGED <<link, fdOf>>
          /\ peer[Loop!Owner(pollfd[s].fd)] \in {"stalled", "rst"}
      BY <2>5 DEF Loop!handle_read, Loop!Handled, Loop!Exchange
    <3>2. s \in Loop!Due /\ s \in Array
      <4>1. s = Min(Loop!Due) /\ Loop!Due \subseteq Array
        BY DEF Loop!Min, Min, Loop!Due, LoopInv, ArrayInv
      <4>2. Loop!Due \in SUBSET Nat
        BY <4>1, ArrayFacts
      <4> QED
        BY <3>1, <4>1, <4>2, MinIsLeast
    <3> HIDE DEF s
    <3>3. s \in Loop!Slots /\ Loop!Used(s)
      BY <3>1, <3>2, ArrayFacts DEF Loop!Due
    <3>4. pollfd[s].fd \in Accepted
      BY <3>3 DEF LoopInv, ArrayInv
    <3>5. PICK c \in Open : fdOf[c] = pollfd[s].fd
      BY <3>4 DEF Accepted
    <3>6. Loop!Owner(pollfd[s].fd) = Owner(pollfd[s].fd)
      BY DEF Loop!Owner, Owner, Loop!Open, Open, Loop!Clients, Clients
    <3>7. Owner(pollfd[s].fd) = c
      BY <3>5, OwnerOf DEF LoopInv
    <3>8. c \in Open'
      BY <3>1 DEF Open
    <3> QED
      BY <1>0, <2>1, <3>1, <3>6, <3>7, <3>8, EndsBy
  <2> QED
    BY <2>3, <2>4, <2>5
<1> QED
  BY <1>1, <1>2, <1>3

\* How much server 1 reads at a time, and how much of it a write may take.
LEMMA EpollReads ==
    ASSUME EpollInv, got \in [Clients -> Nat], sent \in [Clients -> Nat],
           NEW w, Epoll(w)!EchoClient
    PROVE  \E c \in Clients, len \in Nat, m \in Nat :
            /\ pc = "read" /\ c = Owner(socket_fd)
            /\ 0 < len /\ len <= sent[c] - got[c] /\ len <= BUFSIZE /\ m <= len
            /\ Epoll(w)!ReadAndWrite(c, len, m) /\ UNCHANGED i
            /\ pc' = IF m = 0 THEN "dead" ELSE pc
            /\ m = 0 => peer[c] \in {"stalled", "rst"}
            /\ m \in {0, len} \/ c \in Stallers \/ peer[c] = "stalled"
<1>1. PICK c : c = Owner(socket_fd)
  OBVIOUS
<1>2. PICK len : len = Min({sent[c] - got[c], BUFSIZE})
  OBVIOUS
<1>3. /\ pc = "read" /\ sent[c] - got[c] > 0 /\ UNCHANGED i
      /\ \E m \in Epoll(w)!Taken(c, len) :
            Epoll(w)!ReadAndWrite(c, len, m) /\ pc' = IF m = 0 THEN "dead" ELSE pc
  BY <1>1, <1>2, EpollSockets DEF Epoll!EchoClient, Epoll!Unread, Epoll!Min, Min
<1>4. PICK m \in Epoll(w)!Taken(c, len) :
            Epoll(w)!ReadAndWrite(c, len, m) /\ pc' = IF m = 0 THEN "dead" ELSE pc
  BY <1>3
<1>5. c \in Clients
  <2>1. PICK d \in Open : fdOf[d] = socket_fd
    BY <1>3 DEF EpollInv, Accepted
  <2> QED
    BY <1>1, <2>1, OwnerOf DEF EpollInv, Open
<1>6. len \in Nat /\ 0 < len /\ len <= sent[c] - got[c] /\ len <= BUFSIZE
  <2>1. BUFSIZE \in Nat \ {0}
    BY ProgramsAssumption
  <2>2. sent[c] - got[c] \in Nat
    BY <1>3, <1>5
  <2>3. {sent[c] - got[c], BUFSIZE} \in SUBSET Nat /\ {sent[c] - got[c], BUFSIZE} # {}
    BY <2>1, <2>2
  <2>4. len \in {sent[c] - got[c], BUFSIZE} /\ len <= sent[c] - got[c] /\ len <= BUFSIZE
    BY <1>2, <2>3, MinIsLeast
  <2> QED
    BY <1>3, <2>1, <2>2, <2>4
<1>7. PICK p : p = peer[c]
  OBVIOUS
<1>8. /\ m \in Nat /\ m <= len /\ (m = 0 => p \in {"stalled", "rst"})
      /\ m \in {0, len} \/ c \in Stallers \/ p = "stalled"
  <2>1. CASE p = "rst"
    <3>1. m = 0
      BY <1>4, <1>7, <2>1 DEF Epoll!Taken
    <3> QED
      BY <1>6, <2>1, <3>1
  <2>2. CASE p = "stalled"
    <3>1. m \in 0 .. len - 1
      BY <1>4, <1>7, <2>2 DEF Epoll!Taken
    <3> QED
      BY <1>6, <2>2, <3>1
  <2>3. CASE p \notin {"stalled", "rst"}
    <3>1. m \in IF c \in Stallers THEN 1 .. len ELSE {len}
      BY <1>4, <1>7, <2>3 DEF Epoll!Taken
    <3> QED
      BY <1>6, <3>1
  <2> QED
    BY <2>1, <2>2, <2>3
<1> QED
  BY <1>1, <1>3, <1>4, <1>5, <1>6, <1>7, <1>8

LEMMA EpollHarmless ==
    ASSUME HarmInv, EpollInv, program \in DOMAIN EpollNumber, program' = program,
           got \in [Clients -> Nat], sent \in [Clients -> Nat],
           UNCHANGED <<buffer, event_set>>, NEW w \in 1 .. 3, w = 1 => program = "epoll1",
           Epoll(w)!Server \/ Epoll(w)!Outside \/ UNCHANGED programsVars
    PROVE  HarmInv'
<1>1. CASE UNCHANGED programsVars
  <2>1. UNCHANGED <<link, fdOf, peer, pc>>
    BY <1>1 DEF programsVars, sockVars
  <2> QED
    BY <2>1, SameConnections, HarmQuiet DEF EpollInv, HarmInv, PeerInv
<1>2. CASE Epoll(w)!Outside
  <2>1. Environment /\ UNCHANGED pc
    BY <1>2, EpollSockets DEF Epoll!Outside
  <2> QED
    BY <2>1, HarmEnvironment DEF EpollInv
<1>3. CASE Epoll(w)!Server
  <2>1. peer' = peer
    BY <1>3 DEF Epoll!Server, Epoll!Server1, Epoll!Server2, Epoll!Server3, Epoll!Dispatch,
                Epoll!EpollWait, Epoll!CloseOnError, Epoll!AcceptClient, Epoll!ReadClient,
                Epoll!NoteClient, Epoll!EchoClient, Epoll!ReadAndWrite, Epoll!EndRead,
                Epoll!EndBatch, Epoll!sockVars, Epoll!Accept, Epoll!Close, Epoll!Exchange
  <2>2. PeerInv'
    BY <2>1 DEF HarmInv, PeerInv, Clients
  <2>3. \/ pc' \in {"wait", "events", "read"}
        \/ w = 1 /\ (Epoll(w)!EchoClient \/ Epoll(w)!EndRead)
    BY <1>3 DEF Epoll!Server, Epoll!Server1, Epoll!Server2, Epoll!Server3, Epoll!Dispatch,
                Epoll!EpollWait, Epoll!CloseOnError, Epoll!AcceptClient, Epoll!ReadClient,
                Epoll!NoteClient, Epoll!EndBatch, Epoll!Take, Epoll!TakeClient
  <2>4. CASE pc' \in {"wait", "events", "read"}
    BY <2>2, <2>4, HarmQuiet
  <2>5. CASE pc' \notin {"wait", "events", "read"}
    <3>1. w = 1 /\ program = "epoll1" /\ (Epoll(w)!EchoClient \/ Epoll(w)!EndRead)
      BY <2>3, <2>5
    <3>2. /\ pc = "read" /\ UNCHANGED <<link, fdOf>>
          /\ peer[Owner(socket_fd)] \in {"stalled", "rst"}
      <4>1. CASE Epoll(w)!EchoClient
        <5>1. PICK c \in Clients, len \in Nat, m \in Nat :
                    /\ pc = "read" /\ c = Owner(socket_fd)
                    /\ Epoll(w)!ReadAndWrite(c, len, m)
                    /\ pc' = IF m = 0 THEN "dead" ELSE pc
                    /\ m = 0 => peer[c] \in {"stalled", "rst"}
          BY <4>1, EpollReads
        <5> QED
          BY <2>5, <5>1 DEF Epoll!ReadAndWrite, Epoll!Exchange
      <4>2. CASE Epoll(w)!EndRead
        <5>1. PICK c : c = Owner(socket_fd)
          OBVIOUS
        <5>2. PICK p : p = peer[c]
          OBVIOUS
        <5>3. pc = "read" /\ \E end \in [up |-> {"EAGAIN"}, stalled |-> {"EAGAIN"},
                    fin |-> {"eof"}, rst |-> {"eof", "error"}][p] :
                /\ pc' = IF end = "error" THEN "dead" ELSE "events"
                /\ end # "eof" => UNCHANGED <<link, fdOf>>
          BY <4>2, <5>1, <5>2, EpollSockets DEF Epoll!EndRead, Epoll!sockVars
        <5>4. pc' = "dead" /\ UNCHANGED <<link, fdOf>>
          BY <2>5, <5>3
        <5>5. c \in Clients
          <6>1. PICK d \in Open : fdOf[d] = socket_fd
            BY <5>3 DEF EpollInv, Accepted
          <6> QED
            BY <5>1, <6>1, OwnerOf DEF EpollInv, Open
        <5>6. p \in {"up", "stalled", "fin", "rst"}
          BY <5>2, <5>5 DEF HarmInv, PeerInv
        <5>7. p = "rst"
          BY <5>3, <5>4, <5>6
        <5> QED
          BY <5>1, <5>2, <5>3, <5>4, <5>7
      <4> QED
        BY <3>1, <4>1, <4>2
    <3>3. PICK c \in Open : fdOf[c] = socket_fd
      BY <3>2 DEF EpollInv, Accepted
    <3>4. Owner(socket_fd) = c
      BY <3>3, OwnerOf DEF EpollInv
    <3>5. c \in Open' /\ program \notin Endless
      BY <3>1, <3>2, <3>3, ServerNames DEF Open
    <3> QED
      BY <2>1, <3>1, <3>2, <3>4, <3>5, EndsBy
  <2> QED
    BY <2>4, <2>5
<1> QED
  BY <1>1, <1>2, <1>3

\* The fork server and the others never get where a server has ended.
LEMMA EndlessHarmless ==
    ASSUME HarmInv, program \in {"fork"} \cup (Programs \ Servers), program' = program,
           [Next]_programsVars
    PROVE  HarmInv'
<1>1. \/ program = "fork" /\ \/ Fork!Parent \/ Fork!Outside
                             \/ \E c \in Clients : Fork!Child(c)
      \/ UNCHANGED <<pc, peer>>
  <2>1. CASE Next
    <3>1. CASE \E p \in Programs \ Servers : Runs(p)
      BY <3>1 DEF Runs, Idle, sockVars
    <3>2. program \notin {"poll", "select", "thread", "loop", "epoll1", "epoll2", "epoll3"}
      BY ServerNames DEF Servers
    <3>3. CASE program = "fork"
      <4>1. DOMAIN EpollNumber = {"epoll1", "epoll2", "epoll3"}
        BY ServerNames
      <4>2. MainStep => Fork!Parent
        BY <3>3, <4>1 DEF MainStep, Runs
      <4>3. \A c \in Clients : ChildStep(c) => Fork!Child(c)
        BY <3>3 DEF ChildStep, Runs
      <4>4. Fork!Parent \/ Fork!Outside \/ \E c \in Clients : Fork!Child(c)
        BY <2>1, <3>3, <4>1, <4>2, <4>3 DEF Next, Runs
      <4> QED
        BY <3>3, <4>4
    <3>4. CASE program # "fork"
      BY <2>1, <3>1, <3>2, <3>4, ServerNames DEF Next, MainStep, ChildStep, Runs, Programs, Servers
    <3> QED
      BY <3>3, <3>4
  <2>2. CASE UNCHANGED programsVars
    BY <2>2 DEF programsVars, sockVars
  <2> QED
    BY <2>1, <2>2
<1>2. ~Stopped
  BY DEF HarmInv, Endless
<1>3. pc' = pc \/ pc' \in {"fork", "close", "wait"}
  BY <1>1 DEF Fork!Parent, Fork!AcceptClient, Fork!Fork, Fork!ParentClose, Fork!sigchld_handler,
              Fork!Outside, Fork!Child, Fork!ChildReads, Fork!ChildExits
<1>4. PeerInv'
  <2>1. CASE peer' = peer
    BY <2>1 DEF HarmInv, PeerInv, Clients
  <2>2. CASE Fork!Outside
    <3>1. Environment
      BY <2>2 DEF Fork!Outside, Fork!Environment, Environment,
                Fork!Connect, Connect, Fork!Send, Send, Fork!Turn, Turn,
                Fork!Connected, Connected, Fork!Clients, Clients
    <3> QED
      BY <3>1, PeersStay DEF HarmInv
  <2> QED
    BY <1>1, <2>1, <2>2 DEF Fork!Parent, Fork!AcceptClient, Fork!Fork, Fork!ParentClose,
              Fork!sigchld_handler, Fork!Child, Fork!ChildReads, Fork!ChildExits, Fork!Accept,
              Fork!Exchange, Fork!sockVars
<1> QED
  BY <1>2, <1>3, <1>4, HarmQuiet DEF Stopped

-----------------------------------------------------------------------------
(* What an echo server answers *)

\* A byte as the servers send it.
Rotated(c, m) == [from |-> c, num |-> m, rot |-> TRUE]
OwnUpTo(c, m) == [k \in 1 .. m |-> Rotated(c, k)]

\* A function on the naturals may be defined by its value at 0 and a step: it is
\* defined on every 0 .. k, by induction, and those functions agree.
LEMMA NatRecursion ==
    ASSUME NEW S, NEW z \in S, NEW step \in [Nat -> [S -> S]]
    PROVE  \E f \in [Nat -> S] : f[0] = z /\ \A k \in Nat : f[k + 1] = step[k][f[k]]
<1> DEFINE Solves(f, k) == /\ f \in [0 .. k -> S] /\ f[0] = z
                           /\ \A m \in 0 .. k - 1 : f[m + 1] = step[m][f[m]]
<1>1. \A k \in Nat : \E f : Solves(f, k)
  <2> DEFINE T == {k \in Nat : \E f : Solves(f, k)}
  <2>1. 0 \in T
    <3>1. Solves([m \in 0 .. 0 |-> z], 0)
      OBVIOUS
    <3> QED
      BY <3>1
  <2>2. ASSUME NEW k \in Nat, k \in T PROVE k + 1 \in T
    <3>1. PICK f : Solves(f, k)
      BY <2>2
    <3> DEFINE h == [m \in 0 .. k + 1 |-> IF m = k + 1 THEN step[k][f[k]] ELSE f[m]]
    <3>2. h \in [0 .. k + 1 -> S] /\ h[0] = z
      <4>1. step[k][f[k]] \in S
        BY <3>1
      <4> QED
        BY <3>1, <4>1
    <3>3. ASSUME NEW m \in 0 .. (k + 1) - 1 PROVE h[m + 1] = step[m][h[m]]
      <4>1. h[m] = f[m]
        BY <3>3
      <4>2. CASE m = k
        BY <4>1, <4>2
      <4>3. CASE m # k
        <5>1. m \in 0 .. k - 1 /\ h[m + 1] = f[m + 1]
          BY <3>3, <4>3
        <5> QED
          BY <3>1, <4>1, <5>1
      <4> QED
        BY <4>2, <4>3
    <3>4. Solves(h, k + 1)
      BY <3>2, <3>3
    <3> HIDE DEF h, Solves
    <3> QED
      BY <3>4
  <2> HIDE DEF T, Solves
  <2>3. Nat \subseteq T
    BY <2>1, <2>2, NatInduct
  <2> QED
    BY <2>3 DEF T
<1> DEFINE sol == [k \in Nat |-> CHOOSE f : Solves(f, k)]
<1>2. \A k \in Nat : Solves(sol[k], k)
  <2> HIDE DEF Solves
  <2> QED
    BY <1>1
<1> HIDE DEF sol
<1>3. \A k \in Nat : \A m \in 0 .. k : sol[k + 1][m] = sol[k][m]
  <2> SUFFICES ASSUME NEW k \in Nat
               PROVE  \A m \in 0 .. k : sol[k + 1][m] = sol[k][m]
    OBVIOUS
  <2> DEFINE T == {m \in Nat : m <= k => sol[k + 1][m] = sol[k][m]}
  <2>1. 0 \in T
    BY <1>2
  <2>2. ASSUME NEW m \in Nat, m \in T PROVE m + 1 \in T
    <3> SUFFICES ASSUME m + 1 <= k PROVE sol[k + 1][m + 1] = sol[k][m + 1]
      OBVIOUS
    <3>1. sol[k + 1][m] = sol[k][m] /\ m \in 0 .. k - 1 /\ m \in 0 .. (k + 1) - 1
      BY <2>2
    <3>2. /\ sol[k][m + 1] = step[m][sol[k][m]]
          /\ sol[k + 1][m + 1] = step[m][sol[k + 1][m]]
      BY <1>2, <3>1
    <3> QED
      BY <3>1, <3>2
  <2> HIDE DEF T
  <2>3. Nat \subseteq T
    BY <2>1, <2>2, NatInduct
  <2> QED
    BY <2>3 DEF T
<1> DEFINE F == [k \in Nat |-> sol[k][k]]
<1>4. F \in [Nat -> S] /\ F[0] = z
  BY <1>2
<1>5. ASSUME NEW k \in Nat PROVE F[k + 1] = step[k][F[k]]
  <2>1. k \in 0 .. (k + 1) - 1 /\ k \in 0 .. k
    OBVIOUS
  <2>2. sol[k + 1][k + 1] = step[k][sol[k + 1][k]]
    BY <1>2, <2>1
  <2>3. sol[k + 1][k] = sol[k][k]
    BY <1>3, <2>1
  <2> QED
    BY <2>2, <2>3
<1> HIDE DEF F
<1> QED
  BY <1>4, <1>5

\* The greatest of some numbers below a bound.
LEMMA MaxIsGreatest ==
    ASSUME NEW b \in Nat, NEW T \in SUBSET (0 .. b), T # {}
    PROVE  Max(T) \in T /\ \A m \in T : m <= Max(T)
<1> DEFINE U == {b - m : m \in T}
<1>1. PICK k \in U : \A m \in U : k <= m
  <2>1. U \in SUBSET Nat /\ U # {}
    OBVIOUS
  <2> HIDE DEF U
  <2> QED
    BY <2>1, LeastNat
<1>2. PICK x \in T : k = b - x
  BY <1>1
<1>3. \A m \in T : m <= x
  BY <1>1, <1>2
<1> QED
  BY <1>3 DEF Max

\* Where the last whole line ends, one byte later.
LEMMA LinesEndMoves ==
    ASSUME NEW c \in Clients
    PROVE  /\ LinesEnd(c, 0) = 0
           /\ \A k \in Nat : /\ LinesEnd(c, k) \in 0 .. k
                             /\ \A m \in Lines(c) : m <= k => m <= LinesEnd(c, k)
           /\ \A k \in 1 .. Len(Text[c]) :
                LinesEnd(c, k) = IF Text[c][k] THEN k ELSE LinesEnd(c, k - 1)
<1> DEFINE U(k) == {0} \cup {m \in Lines(c) : m <= k}
<1>1. Lines(c) \subseteq Nat \ {0} /\ Len(Text[c]) \in Nat
      /\ \A k \in 1 .. Len(Text[c]) : k \in Lines(c) <=> Text[c][k]
  BY SocketsAssumption DEF Clients, Lines
<1>2. ASSUME NEW k \in Nat
      PROVE  /\ LinesEnd(c, k) \in U(k) /\ \A m \in U(k) : m <= LinesEnd(c, k)
  <2>1. U(k) \subseteq 0 .. k /\ U(k) # {}
    BY <1>1
  <2> HIDE DEF U
  <2>2. Max(U(k)) \in U(k) /\ \A m \in U(k) : m <= Max(U(k))
    BY <2>1, MaxIsGreatest
  <2>3. LinesEnd(c, k) = Max(U(k))
    BY DEF LinesEnd, U
  <2> QED
    BY <2>2, <2>3
<1>3. LinesEnd(c, 0) = 0
  BY <1>1, <1>2
<1>4. \A k \in Nat : /\ LinesEnd(c, k) \in 0 .. k
                     /\ \A m \in Lines(c) : m <= k => m <= LinesEnd(c, k)
  BY <1>1, <1>2
<1>5. ASSUME NEW k \in 1 .. Len(Text[c])
      PROVE  LinesEnd(c, k) = IF Text[c][k] THEN k ELSE LinesEnd(c, k - 1)
  <2>1. k \in Nat /\ k - 1 \in Nat
    BY <1>1
  <2>2. CASE Text[c][k]
    <3>1. k \in Lines(c)
      BY <1>1, <2>2
    <3> QED
      BY <1>4, <2>1, <2>2, <3>1
  <2>3. CASE ~Text[c][k]
    <3>1. k \notin Lines(c)
      BY <1>1, <2>3
    <3>2. U(k) = U(k - 1)
      BY <1>1, <2>1, <3>1
    <3> HIDE DEF U
    <3>3. LinesEnd(c, k) = LinesEnd(c, k - 1)
      BY <3>2 DEF LinesEnd, U
    <3> QED
      BY <2>3, <3>3
  <2> QED
    BY <2>2, <2>3
<1> QED
  BY <1>3, <1>4, <1>5

LEMMA RotatedByte == \A c, k : rot13_char(Byte(c, k)) = Rotated(c, k)
<1> SUFFICES ASSUME NEW c, NEW k PROVE rot13_char(Byte(c, k)) = Rotated(c, k)
  OBVIOUS
<1>1. Byte(c, k).rot = FALSE
  BY DEF Byte
<1>2. (~Byte(c, k).rot) = TRUE
  BY <1>1
<1>3. rot13_char(Byte(c, k)) = [Byte(c, k) EXCEPT !.rot = TRUE]
  BY <1>2 DEF rot13_char
<1> QED
  BY <1>3 DEF Byte, Rotated

LEMMA LineStartsRecurs ==
    ASSUME NEW c \in Clients
    PROVE  /\ LineStarts(c) \in [Nat -> Seq(Bytes)] /\ LineStarts(c)[0] = <<>>
           /\ \A k \in Nat :
                LineStarts(c)[k + 1] = IF (k + 1) - LinesEnd(c, k) <= LineSize + 1
                                       THEN Append(LineStarts(c)[k], Rotated(c, k + 1))
                                       ELSE LineStarts(c)[k]
<1> DEFINE S == Seq(Bytes)
           fits(k) == (k + 1) - LinesEnd(c, k) <= LineSize + 1
           step == [k \in Nat |-> [s \in S |->
                        IF fits(k) THEN Append(s, Rotated(c, k + 1)) ELSE s]]
           G(f) == [k \in Nat |-> IF k = 0 THEN <<>>
                        ELSE IF k - LinesEnd(c, k - 1) <= LineSize + 1
                        THEN Append(f[k - 1], rot13_char(Byte(c, k))) ELSE f[k - 1]]
<1> DEFINE empty == <<>>
<1>1. step \in [Nat -> [S -> S]]
  <2>1. ASSUME NEW k \in Nat, NEW s \in S PROVE step[k][s] \in S
    <3>1. Rotated(c, k + 1) \in Bytes
      BY DEF Rotated, Bytes
    <3> HIDE DEF fits
    <3> QED
      BY <3>1
  <2> QED
    BY <2>1
<1>2. empty \in S
  OBVIOUS
<1>3. PICK f \in [Nat -> S] : f[0] = empty /\ \A k \in Nat : f[k + 1] = step[k][f[k]]
  <2> HIDE DEF step, S, empty
  <2> QED
    BY <1>1, <1>2, NatRecursion
<1>4. \A k \in Nat : f[k + 1] = IF fits(k) THEN Append(f[k], Rotated(c, k + 1)) ELSE f[k]
  <2> HIDE DEF fits
  <2> QED
    BY <1>3
<1>5. \A k \in Nat : rot13_char(Byte(c, k)) = Rotated(c, k)
  BY RotatedByte
<1>6. f = G(f)
  <2>1. ASSUME NEW k \in Nat PROVE f[k] = G(f)[k]
    <3>1. CASE k = 0
      BY <1>3, <3>1
    <3>2. CASE k # 0
      <4> DEFINE j == k - 1
      <4>1. j \in Nat /\ j + 1 = k
        BY <3>2
      <4> HIDE DEF j
      <4>2. f[k] = IF k - LinesEnd(c, j) <= LineSize + 1
                   THEN Append(f[j], rot13_char(Byte(c, k))) ELSE f[j]
        BY <1>4, <1>5, <4>1
      <4> QED
        BY <3>2, <4>2 DEF j
    <3> QED
      BY <3>1, <3>2
  <2> QED
    BY <1>3, <2>1
<1>7. LineStarts(c) = G(LineStarts(c))
  <2>1. LineStarts(c) = CHOOSE g : g = G(g)
    BY DEF LineStarts
  <2> HIDE DEF G
  <2> QED
    BY <1>6, <2>1
<1> DEFINE g == LineStarts(c)
<1>8. g[0] = <<>> /\ \A k \in Nat : g[k + 1] = IF fits(k) THEN Append(g[k], Rotated(c, k + 1))
                                             ELSE g[k]
  <2>1. \A k \in Nat : g[k] = IF k = 0 THEN <<>>
                        ELSE IF k - LinesEnd(c, k - 1) <= LineSize + 1
                        THEN Append(g[k - 1], rot13_char(Byte(c, k))) ELSE g[k - 1]
    <3> HIDE DEF g
    <3> QED
      BY <1>7 DEF g
  <2> HIDE DEF g
  <2>2. g[0] = <<>>
    BY <2>1
  <2>3. ASSUME NEW k \in Nat
        PROVE  g[k + 1] = IF fits(k) THEN Append(g[k], Rotated(c, k + 1)) ELSE g[k]
    <3>1. k + 1 \in Nat /\ (k + 1) - 1 = k /\ k + 1 # 0
      OBVIOUS
    <3>2. g[k + 1] = IF (k + 1) - LinesEnd(c, k) <= LineSize + 1
                     THEN Append(g[k], rot13_char(Byte(c, k + 1))) ELSE g[k]
      BY <2>1, <3>1
    <3> QED
      BY <1>5, <3>1, <3>2
  <2> QED
    BY <2>2, <2>3
<1>9. g \in [Nat -> S]
  <2>1. DOMAIN g = Nat
    <3> HIDE DEF g
    <3> QED
      BY <1>7 DEF g
  <2>2. g = [k \in Nat |-> g[k]]
    <3> HIDE DEF g
    <3> QED
      BY <1>7 DEF g
  <2> DEFINE T == {k \in Nat : g[k] \in S}
  <2>3. 0 \in T
    BY <1>2, <1>8
  <2>4. ASSUME NEW k \in Nat, k \in T PROVE k + 1 \in T
    <3>1. Rotated(c, k + 1) \in Bytes
      BY DEF Rotated, Bytes
    <3>2. g[k + 1] = Append(g[k], Rotated(c, k + 1)) \/ g[k + 1] = g[k]
      <4> HIDE DEF g, fits
      <4> QED
        BY <1>8
    <3>3. g[k] \in Seq(Bytes)
      BY <2>4
    <3>4. g[k + 1] \in Seq(Bytes)
      <4>1. \A s \in Seq(Bytes) : Append(s, Rotated(c, k + 1)) \in Seq(Bytes)
        BY <3>1
      <4> HIDE DEF g, T, S, G, step
      <4> QED
        BY <3>2, <3>3, <4>1
    <3> HIDE DEF g
    <3> QED
      BY <3>4
  <2> HIDE DEF T, g
  <2>5. Nat \subseteq T
    BY <2>3, <2>4, NatInduct
  <2> HIDE DEF S
  <2> QED
    BY <2>2, <2>5 DEF T
<1> QED
  BY <1>8, <1>9

LEMMA AppendFacts ==
    ASSUME NEW S, NEW s \in Seq(S), NEW b \in S
    PROVE  /\ Append(s, b) \in Seq(S) /\ Len(Append(s, b)) = Len(s) + 1
           /\ \A j \in 1 .. Len(s) : Append(s, b)[j] = s[j]
           /\ Append(s, b)[Len(s) + 1] = b /\ Len(s) \in Nat /\ DOMAIN s = 1 .. Len(s)
<1> QED
  OBVIOUS

LEMMA StartsStill ==
    ASSUME NEW s, NEW t, NEW u, Len(s) \in Nat, Len(t) \in Nat, Len(u) \in Nat,
           StartsWith(t, s), Len(t) <= Len(u), \A j \in 1 .. Len(t) : u[j] = t[j]
    PROVE  StartsWith(u, s)
<1> QED
  BY DEF StartsWith

\* The lines of fork01 grow at their end, by bytes that were read.
LEMMA LineStartsGrow ==
    ASSUME NEW c \in Clients
    PROVE  /\ \A k \in Nat : /\ LineStarts(c)[k] \in Seq(Bytes)
                             /\ \A j \in DOMAIN LineStarts(c)[k] : LineStarts(c)[k][j].num <= k
           /\ \A k, m \in Nat : k <= m => StartsWith(LineStarts(c)[m], LineStarts(c)[k])
<1>1. PICK g : g = LineStarts(c)
  OBVIOUS
<1>2. g \in [Nat -> Seq(Bytes)] /\ g[0] = <<>>
  BY <1>1, LineStartsRecurs
<1>3. \A k \in Nat : g[k + 1] = Append(g[k], Rotated(c, k + 1)) \/ g[k + 1] = g[k]
  BY <1>1, LineStartsRecurs
<1>4. \A k \in Nat : Rotated(c, k) \in Bytes /\ Rotated(c, k).num = k
  BY DEF Rotated, Bytes
<1>5. \A k \in Nat : g[k] \in Seq(Bytes)
  BY <1>2
<1>6. ASSUME NEW k \in Nat
      PROVE  /\ Len(g[k]) \in Nat /\ DOMAIN g[k] = 1 .. Len(g[k])
             /\ Len(g[k + 1]) \in Nat /\ Len(g[k]) <= Len(g[k + 1])
             /\ DOMAIN g[k + 1] = 1 .. Len(g[k + 1])
             /\ \A j \in 1 .. Len(g[k]) : g[k + 1][j] = g[k][j]
             /\ \A j \in 1 .. Len(g[k + 1]) : j \in 1 .. Len(g[k]) \/ g[k + 1][j].num = k + 1
  <2>1. g[k] \in Seq(Bytes) /\ Rotated(c, k + 1) \in Bytes /\ Rotated(c, k + 1).num = k + 1
    BY <1>4, <1>5
  <2>2. CASE g[k + 1] = g[k]
    <3>1. Len(g[k]) \in Nat /\ DOMAIN g[k] = 1 .. Len(g[k])
      BY <2>1, AppendFacts
    <3> QED
      BY <2>2, <3>1
  <2>3. CASE g[k + 1] = Append(g[k], Rotated(c, k + 1))
    <3> DEFINE s == g[k]
               t == g[k + 1]
    <3>1. /\ t \in Seq(Bytes) /\ Len(t) = Len(s) + 1
          /\ \A j \in 1 .. Len(s) : t[j] = s[j]
          /\ t[Len(s) + 1] = Rotated(c, k + 1) /\ Len(s) \in Nat /\ DOMAIN s = 1 .. Len(s)
      BY <2>1, <2>3, AppendFacts
    <3>2. DOMAIN t = 1 .. Len(t)
      BY <3>1
    <3> HIDE DEF s, t
    <3>3. \A j \in 1 .. Len(t) : j \in 1 .. Len(s) \/ t[j].num = k + 1
      BY <2>1, <3>1
    <3>4. Len(t) \in Nat /\ Len(s) <= Len(t)
      BY <3>1
    <3> QED
      BY <3>1, <3>2, <3>3, <3>4 DEF s, t
  <2> QED
    BY <1>3, <2>2, <2>3
<1>7. \A k \in Nat : \A j \in DOMAIN g[k] : g[k][j].num <= k
  <2> DEFINE T == {k \in Nat : \A j \in DOMAIN g[k] : g[k][j].num <= k}
  <2>1. 0 \in T
    <3>1. DOMAIN g[0] = {}
      BY <1>2
    <3> QED
      BY <3>1
  <2>2. ASSUME NEW k \in Nat, k \in T PROVE k + 1 \in T
    <3> SUFFICES ASSUME NEW j \in DOMAIN g[k + 1] PROVE g[k + 1][j].num <= k + 1
      OBVIOUS
    <3>1. CASE j \in 1 .. Len(g[k])
      <4>1. g[k + 1][j] = g[k][j] /\ j \in DOMAIN g[k]
        BY <1>6, <3>1
      <4>2. g[k][j].num \in Nat /\ g[k][j].num <= k
        <5>1. g[k][j] \in Bytes
          BY <1>5, <4>1, ElementOfSeq, <3>1
        <5> QED
          BY <2>2, <4>1, <5>1 DEF Bytes
      <4> QED
        BY <4>1, <4>2
    <3>2. CASE j \notin 1 .. Len(g[k])
      <4>1. g[k + 1][j].num = k + 1
        <5>1. j \in 1 .. Len(g[k + 1])
          BY <1>6
        <5> QED
          BY <1>6, <3>2, <5>1
      <4> QED
        BY <4>1
    <3> QED
      BY <3>1, <3>2
  <2> HIDE DEF T
  <2>3. Nat \subseteq T
    BY <2>1, <2>2, NatInduct
  <2> QED
    BY <2>3 DEF T
<1>8. ASSUME NEW k \in Nat PROVE \A m \in Nat : k <= m => StartsWith(g[m], g[k])
  <2> DEFINE T == {d \in Nat : StartsWith(g[k + d], g[k])}
  <2>1. 0 \in T
    <3>1. k + 0 = k /\ Len(g[k]) \in Nat
      BY <1>6
    <3> QED
      BY <3>1 DEF StartsWith
  <2>2. ASSUME NEW d \in Nat, d \in T PROVE d + 1 \in T
    <3>1. StartsWith(g[k + d], g[k]) /\ k + d \in Nat /\ k + (d + 1) = (k + d) + 1
      BY <2>2
    <3>2. /\ Len(g[k + d]) \in Nat /\ Len(g[(k + d) + 1]) \in Nat
          /\ Len(g[k + d]) <= Len(g[(k + d) + 1]) /\ Len(g[k]) \in Nat
          /\ \A j \in 1 .. Len(g[k + d]) : g[(k + d) + 1][j] = g[k + d][j]
      BY <1>6, <3>1
    <3>3. StartsWith(g[(k + d) + 1], g[k])
      BY <3>1, <3>2, StartsStill
    <3> QED
      BY <3>1, <3>3
  <2> HIDE DEF T
  <2>3. Nat \subseteq T
    BY <2>1, <2>2, NatInduct
  <2> SUFFICES ASSUME NEW m \in Nat, k <= m PROVE StartsWith(g[m], g[k])
    OBVIOUS
  <2>4. m - k \in T /\ k + (m - k) = m
    BY <2>3
  <2> QED
    BY <2>4 DEF T
<1> QED
  BY <1>1, <1>5, <1>7, <1>8

\* The answer to a part of a text is the start of the answer to the whole.
LEMMA AnswerFacts ==
    ASSUME program \in Echoes, NEW c \in Clients, NEW k \in 0 .. Len(Text[c])
    PROVE  /\ AnswerTo(c, k) \in Seq(Bytes)
           /\ \A j \in DOMAIN AnswerTo(c, k) : AnswerTo(c, k)[j].num <= k
           /\ StartsWith(AnswerTo(c, Len(Text[c])), AnswerTo(c, k))
<1> DEFINE L == Len(Text[c])
<1>1. L \in Nat /\ k \in Nat /\ k <= L
  BY SocketsAssumption DEF Clients
<1> HIDE DEF L
<1>2. CASE program = "fork"
  <2>1. \A m : AnswerTo(c, m) = LineStarts(c)[LinesEnd(c, m)]
    BY <1>2 DEF AnswerTo
  <2>2. LinesEnd(c, k) \in 0 .. k /\ LinesEnd(c, L) \in 0 .. L
        /\ \A m \in Lines(c) : m <= L => m <= LinesEnd(c, L)
    BY <1>1, LinesEndMoves
  <2>3. LinesEnd(c, k) <= LinesEnd(c, L)
    <3>1. LinesEnd(c, k) = 0 \/ LinesEnd(c, k) \in Lines(c)
      <4>1. {0} \cup {m \in Lines(c) : m <= k} \subseteq 0 .. k
        BY <1>1, SocketsAssumption DEF Lines, Clients
      <4> QED
        BY <1>1, <4>1, MaxIsGreatest DEF LinesEnd
    <3> QED
      BY <1>1, <2>2, <3>1
  <2>4. \A j \in DOMAIN AnswerTo(c, k) :
            AnswerTo(c, k)[j].num \in Nat /\ AnswerTo(c, k)[j].num <= LinesEnd(c, k)
    <3>1. AnswerTo(c, k) \in Seq(Bytes)
      BY <2>1, <2>2, LineStartsGrow
    <3>2. \A j \in DOMAIN AnswerTo(c, k) : AnswerTo(c, k)[j] \in Bytes
      BY <3>1, ElementOfSeq
    <3> QED
      BY <2>1, <2>2, <3>2, LineStartsGrow DEF Bytes
  <2> QED
    BY <1>1, <2>1, <2>2, <2>3, <2>4, LineStartsGrow DEF L
<1>3. CASE program # "fork"
  <2>1. PICK r \in BOOLEAN :
            \A m \in Nat : AnswerTo(c, m) = [j \in 1 .. m |-> [from |-> c, num |-> j, rot |-> r]]
    <3>1. CASE program = "loop"
      <4>1. \A m : AnswerTo(c, m) = [j \in 1 .. m |-> Rotated(c, j)]
        BY <3>1, RotatedByte DEF AnswerTo
      <4> QED
        BY <4>1 DEF Rotated
    <3>2. CASE program # "loop"
      <4>1. \A m : AnswerTo(c, m) = [j \in 1 .. m |-> Byte(c, j)]
        BY <1>3, <3>2 DEF AnswerTo
      <4> QED
        BY <4>1 DEF Byte
    <3> QED
      BY <3>1, <3>2
  <2> DEFINE A(m) == [j \in 1 .. m |-> [from |-> c, num |-> j, rot |-> r]]
  <2>2. A(k) \in Seq(Bytes) /\ Len(A(k)) = k /\ Len(A(L)) = L
    <3>1. \A j \in 1 .. k : [from |-> c, num |-> j, rot |-> r] \in Bytes
      BY DEF Bytes
    <3> QED
      BY <1>1, <3>1
  <2>3. \A j \in DOMAIN A(k) : A(k)[j].num <= k
    BY <1>1
  <2>4. \A j \in 1 .. k : A(L)[j] = A(k)[j]
    BY <1>1
  <2> HIDE DEF A
  <2>5. AnswerTo(c, k) = A(k) /\ AnswerTo(c, L) = A(L)
    BY <1>1, <2>1 DEF A
  <2>6. StartsWith(AnswerTo(c, L), AnswerTo(c, k))
    BY <1>1, <2>2, <2>4, <2>5 DEF StartsWith
  <2> QED
    BY <2>2, <2>3, <2>5, <2>6 DEF L
<1> QED
  BY <1>2, <1>3

-----------------------------------------------------------------------------
(* Steps of the service *)

\* How far clients and server have come.
EchoCounts ==
    /\ got \in [Clients -> Nat] /\ sent \in [Clients -> Nat]
    /\ \A c \in Clients : got[c] <= sent[c] /\ sent[c] <= Len(Text[c])
    /\ outbox \in [Clients -> Seq(Bytes)]

\* A client has the answer to all that was read.
AllAnswered == \A c \in Clients : outbox[c] = AnswerTo(c, got[c])

LEMMA SameAnswers ==
    ASSUME program' = program, NEW c, NEW k
    PROVE  AnswerTo(c, k)' = AnswerTo(c, k)
<1> QED
  BY DEF AnswerTo

LEMMA ServiceStutters ==
    ASSUME program' = program, UNCHANGED <<sent, outbox>>
    PROVE  UNCHANGED Echo!echoVars
<1>1. \A c : AnswerTo(c, Len(Text[c]))' = AnswerTo(c, Len(Text[c]))
  BY SameAnswers
<1> QED
  BY <1>1 DEF Echo!echoVars

LEMMA ServiceSleeps ==
    ASSUME program \notin Echoes, program' = program
    PROVE  UNCHANGED Echo!echoVars
<1> QED
  BY DEF Echo!echoVars

\* What is sent to a client makes its answer longer.
LEMMA ServiceEchoes ==
    ASSUME program \in Echoes, program' = program, EchoCounts, UNCHANGED sent,
           NEW c \in Clients, NEW k \in Nat, k <= sent[c],
           NEW s \in Seq(Bytes), s # <<>>, outbox[c] \o s = AnswerTo(c, k),
           outbox' = [outbox EXCEPT ![c] = @ \o s]
    PROVE  Echo!Next
<1> DEFINE all == AnswerTo(c, Len(Text[c]))
           new == AnswerTo(c, k)
<1>1. k \in 0 .. Len(Text[c]) /\ Len(Text[c]) \in Nat
  BY SocketsAssumption DEF EchoCounts, Clients
<1>2. /\ new \in Seq(Bytes) /\ all \in Seq(Bytes) /\ StartsWith(all, new)
      /\ \A j \in DOMAIN new : new[j] \in Bytes /\ new[j].num <= k
  <2>1. Len(Text[c]) \in 0 .. Len(Text[c])
    BY <1>1
  <2>2. new \in Seq(Bytes) /\ \A j \in DOMAIN new : new[j].num <= k
    BY <1>1, AnswerFacts
  <2> HIDE DEF new
  <2>3. \A j \in DOMAIN new : new[j] \in Bytes
    BY <2>2, ElementOfSeq
  <2> QED
    BY <1>1, <2>1, <2>2, <2>3, AnswerFacts DEF new
<1>3. outbox[c] \in Seq(Bytes) /\ outbox' = [outbox EXCEPT ![c] = new]
  BY DEF EchoCounts
<1> DEFINE m == Len(new)
<1>4. m \in Nat /\ m >= Len(outbox[c]) + 1 /\ m <= Len(all) /\ Len(all) \in Nat
      /\ Len(outbox[c]) \in Nat
  <2>1. Len(s) \in Nat /\ Len(s) # 0
    BY EmptySeq, LenProperties
  <2>2. m = Len(outbox[c]) + Len(s) /\ Len(outbox[c]) \in Nat
    BY <1>3
  <2> HIDE DEF new, all
  <2> QED
    BY <1>2, <2>1, <2>2 DEF StartsWith
<1>5. SubSeq(all, 1, m) = new
  <2> HIDE DEF new, all
  <2>1. \A j \in 1 .. m : all[j] = new[j]
    BY <1>2 DEF StartsWith
  <2>2. SubSeq(all, 1, m) \in Seq(Bytes) /\ Len(SubSeq(all, 1, m)) = m
        /\ \A j \in 1 .. m : SubSeq(all, 1, m)[j] = all[j]
    BY <1>2, <1>4
  <2> QED
    BY <1>2, <2>1, <2>2, SeqEqual
<1>6. \A j \in 1 .. m : all[j].num <= sent[c]
  <2> SUFFICES ASSUME NEW j \in 1 .. m PROVE all[j].num <= sent[c]
    OBVIOUS
  <2> HIDE DEF new, all
  <2>1. all[j] = new[j] /\ new[j] \in Bytes /\ new[j].num <= k
    BY <1>2 DEF StartsWith
  <2>2. all[j].num \in Nat /\ all[j].num <= k /\ sent[c] \in Nat
    BY <2>1 DEF Bytes, EchoCounts
  <2> QED
    BY <2>2
<1>7. UNCHANGED [d \in Clients |-> AnswerTo(d, Len(Text[d]))]
  BY SameAnswers
<1> QED
  <2> DEFINE whole == [d \in Clients |->
                IF program \in Echoes THEN AnswerTo(d, Len(Text[d])) ELSE <<>>]
  <2>1. whole[c] = all /\ whole' = whole
    BY <1>7
  <2> HIDE DEF all, new
  <2>2. m \in Len(outbox[c]) + 1 .. Len(all)
    BY <1>4
  <2> QED
    BY <1>3, <1>5, <1>6, <2>1, <2>2 DEF Echo!Next, Echo!Echo

\* Clients send, come and go.
LEMMA ServiceAsked ==
    ASSUME program \in Echoes, program' = program, EchoCounts, Environment
    PROVE  /\ EchoCounts' /\ UNCHANGED <<got, outbox>>
           /\ Echo!Next \/ UNCHANGED Echo!echoVars
<1>1. CASE \E c \in Clients : Send(c)
  <2>1. PICK c \in Clients : /\ sent[c] < Len(Text[c]) /\ sent' = [sent EXCEPT ![c] = @ + 1]
                             /\ UNCHANGED <<got, outbox>>
    BY <1>1 DEF Send
  <2>2. Len(Text[c]) \in Nat
    BY SocketsAssumption DEF Clients
  <2>3. EchoCounts'
    BY <2>1, <2>2 DEF EchoCounts
  <2>4. UNCHANGED [d \in Clients |-> AnswerTo(d, Len(Text[d]))]
    BY SameAnswers
  <2>5. Echo!Send(c)
    BY <2>1, <2>4 DEF Echo!Send
  <2> QED
    BY <2>1, <2>3, <2>5 DEF Echo!Next
<1>2. CASE UNCHANGED <<sent, got, outbox>>
  BY <1>2, ServiceStutters DEF EchoCounts
<1> QED
  BY <1>1, <1>2 DEF Environment, Connect, Turn

-----------------------------------------------------------------------------
(* The servers of chap-21, of chap-23 and of chap-27 *)

\* The module sees the bytes as the others do.
LEMMA PollSockets ==
    /\ Poll!Clients = Clients /\ Poll!Open = Open /\ Poll!NoFd = NoFd
    /\ \A f : Poll!Owner(f) = Owner(f)
    /\ \A c : Poll!Unread(c) = sent[c] - got[c]
    /\ \A c, m : Poll!Arriving(c, m) = [k \in 1 .. m |-> Byte(c, got[c] + k)]
    /\ Poll!Environment <=> Environment
<1>1. Poll!Clients = Clients /\ Poll!Open = Open /\ Poll!NoFd = NoFd
  BY DEF Poll!Clients, Clients, Poll!Open, Open, Poll!NoFd, NoFd
<1>2. \A f : Poll!Owner(f) = Owner(f)
  BY <1>1 DEF Poll!Owner, Owner
<1>3. /\ \A c : Poll!Unread(c) = sent[c] - got[c]
      /\ \A c, m : Poll!Arriving(c, m) = [k \in 1 .. m |-> Byte(c, got[c] + k)]
  BY DEF Poll!Unread, Poll!Arriving, Poll!Byte, Byte
<1>4. Poll!Environment <=> Environment
  BY <1>1 DEF Poll!Environment, Environment, Poll!Connect, Connect, Poll!Send, Send,
              Poll!Turn, Turn, Poll!Connected, Connected
<1> QED
  BY <1>1, <1>2, <1>3, <1>4

\* m elements of f after the first g; read in two parts they are the same.
Piece(f, g, m) == [k \in 1 .. m |-> f[g + k]]

LEMMA PieceSize ==
    ASSUME NEW S, NEW f \in [Nat -> S], NEW g \in Nat, NEW m \in Nat
    PROVE  Piece(f, g, m) \in Seq(S) /\ Len(Piece(f, g, m)) = m
<1> QED
  BY DEF Piece

LEMMA ReadInParts ==
    ASSUME NEW S, NEW f \in [Nat -> S], NEW g \in Nat, NEW m \in Nat
    PROVE  Piece(f, 0, g) \o Piece(f, g, m) = Piece(f, 0, g + m)
<1>1. g + m \in Nat /\ 0 \in Nat
  OBVIOUS
<1>2. PICK s, t, d : s = Piece(f, 0, g) /\ t = Piece(f, g, m) /\ d = Piece(f, 0, g + m)
  OBVIOUS
<1>3. /\ s \in Seq(S) /\ t \in Seq(S) /\ d \in Seq(S)
      /\ Len(s) = g /\ Len(t) = m /\ Len(d) = g + m
  BY <1>1, <1>2, PieceSize
<1>4. (\A k \in 1 .. g : d[k] = s[k]) /\ \A k \in 1 .. m : d[g + k] = t[k]
  BY <1>2 DEF Piece
<1>5. s \o t = d
  BY <1>3, <1>4, CatOfParts
<1> QED
  BY <1>2, <1>5

\* Read as it came, and rotated.
PlainUpTo(c, m) == [k \in 1 .. m |-> Byte(c, k)]
PlainFrom(c, g, m) == [k \in 1 .. m |-> Byte(c, g + k)]
OwnFrom(c, g, m) == [k \in 1 .. m |-> Rotated(c, g + k)]

LEMMA PlainInParts ==
    ASSUME NEW c \in Clients, NEW g \in Nat, NEW m \in Nat, m > 0
    PROVE  /\ PlainFrom(c, g, m) \in Seq(Bytes) /\ PlainFrom(c, g, m) # <<>>
           /\ PlainUpTo(c, g) \o PlainFrom(c, g, m) = PlainUpTo(c, g + m)
<1>1. PICK f \in [Nat -> Bytes] : \A k \in Nat : f[k] = Byte(c, k)
  <2>1. PICK h : h = [k \in Nat |-> Byte(c, k)]
    OBVIOUS
  <2>2. h \in [Nat -> Bytes]
    BY <2>1 DEF Byte, Bytes
  <2>3. \A k \in Nat : h[k] = Byte(c, k)
    BY <2>1
  <2> QED
    BY <2>2, <2>3
<1>2. PlainFrom(c, g, m) = Piece(f, g, m)
  BY <1>1 DEF PlainFrom, Piece
<1>3. ASSUME NEW l \in Nat PROVE PlainUpTo(c, l) = Piece(f, 0, l)
  <2>1. \A k \in 1 .. l : 0 + k = k /\ f[k] = Byte(c, k)
    BY <1>1
  <2> QED
    BY <2>1 DEF PlainUpTo, Piece
<1>4. PlainUpTo(c, g) = Piece(f, 0, g) /\ PlainUpTo(c, g + m) = Piece(f, 0, g + m)
  <2>1. g + m \in Nat
    OBVIOUS
  <2> QED
    BY <1>3, <2>1
<1>5. Piece(f, g, m) \in Seq(Bytes) /\ Piece(f, g, m) # <<>>
  <2>1. PICK q : q = Piece(f, g, m)
    OBVIOUS
  <2>2. q \in Seq(Bytes) /\ Len(q) = m
    BY <2>1, PieceSize
  <2>3. Len(<<>>) = 0
    OBVIOUS
  <2>4. q # <<>>
    BY <2>2, <2>3
  <2> QED
    BY <2>1, <2>2, <2>4
<1>6. Piece(f, 0, g) \o Piece(f, g, m) = Piece(f, 0, g + m)
  BY ReadInParts
<1>7. PlainFrom(c, g, m) \in Seq(Bytes) /\ PlainFrom(c, g, m) # <<>>
  BY <1>2, <1>5
<1>8. PlainUpTo(c, g) \o PlainFrom(c, g, m) = PlainUpTo(c, g + m)
  BY <1>2, <1>4, <1>6
<1> QED
  BY <1>7, <1>8

LEMMA RotatedInParts ==
    ASSUME NEW c \in Clients, NEW g \in Nat, NEW m \in Nat, m > 0
    PROVE  /\ OwnFrom(c, g, m) \in Seq(Bytes) /\ OwnFrom(c, g, m) # <<>>
           /\ OwnUpTo(c, g) \o OwnFrom(c, g, m) = OwnUpTo(c, g + m)
<1>1. PICK f \in [Nat -> Bytes] : \A k \in Nat : f[k] = Rotated(c, k)
  <2>1. PICK h : h = [k \in Nat |-> Rotated(c, k)]
    OBVIOUS
  <2>2. h \in [Nat -> Bytes]
    BY <2>1 DEF Rotated, Bytes
  <2>3. \A k \in Nat : h[k] = Rotated(c, k)
    BY <2>1
  <2> QED
    BY <2>2, <2>3
<1>2. OwnFrom(c, g, m) = Piece(f, g, m)
  BY <1>1 DEF OwnFrom, Piece
<1>3. ASSUME NEW l \in Nat PROVE OwnUpTo(c, l) = Piece(f, 0, l)
  <2>1. \A k \in 1 .. l : 0 + k = k /\ f[k] = Rotated(c, k)
    BY <1>1
  <2> QED
    BY <2>1 DEF OwnUpTo, Piece
<1>4. OwnUpTo(c, g) = Piece(f, 0, g) /\ OwnUpTo(c, g + m) = Piece(f, 0, g + m)
  <2>1. g + m \in Nat
    OBVIOUS
  <2> QED
    BY <1>3, <2>1
<1>5. Piece(f, g, m) \in Seq(Bytes) /\ Piece(f, g, m) # <<>>
  <2>1. PICK q : q = Piece(f, g, m)
    OBVIOUS
  <2>2. q \in Seq(Bytes) /\ Len(q) = m
    BY <2>1, PieceSize
  <2>3. Len(<<>>) = 0
    OBVIOUS
  <2>4. q # <<>>
    BY <2>2, <2>3
  <2> QED
    BY <2>1, <2>2, <2>4
<1>6. Piece(f, 0, g) \o Piece(f, g, m) = Piece(f, 0, g + m)
  BY ReadInParts
<1>7. OwnFrom(c, g, m) \in Seq(Bytes) /\ OwnFrom(c, g, m) # <<>>
  BY <1>2, <1>5
<1>8. OwnUpTo(c, g) \o OwnFrom(c, g, m) = OwnUpTo(c, g + m)
  BY <1>2, <1>4, <1>6
<1> QED
  BY <1>7, <1>8

LEMMA AnswerIs ==
    \A c, k : /\ program = "loop" => AnswerTo(c, k) = OwnUpTo(c, k)
              /\ program = "fork" => AnswerTo(c, k) = LineStarts(c)[LinesEnd(c, k)]
              /\ program = "poll" => AnswerTo(c, k) = PlainUpTo(c, k)
<1> QED
  BY RotatedByte DEF AnswerTo, OwnUpTo, PlainUpTo

LEMMA AnswerThen ==
    ASSUME program' = program, NEW c
    PROVE  AnswerTo(c, got[c])' = AnswerTo(c, got'[c])
<1> QED
  BY DEF AnswerTo

\* A read takes as much as there is and fits.
LEMMA SomeRead ==
    ASSUME EchoCounts, NEW c \in Clients, sent[c] - got[c] > 0, NEW b \in Nat \ {0}
    PROVE  LET m == Min({sent[c] - got[c], b})
           IN  m \in Nat /\ m > 0 /\ got[c] + m <= sent[c]
<1> DEFINE m == Min({sent[c] - got[c], b})
<1>1. sent[c] \in Nat /\ got[c] \in Nat
  BY DEF EchoCounts
<1>2. {sent[c] - got[c], b} \in SUBSET Nat
  BY <1>1
<1>3. m \in {sent[c] - got[c], b} /\ m <= sent[c] - got[c]
  BY <1>2, MinIsLeast
<1> HIDE DEF m
<1>4. m \in Nat /\ m > 0 /\ got[c] + m <= sent[c]
  BY <1>1, <1>3
<1> QED
  BY <1>4 DEF m

LEMMA ReadsOn ==
    ASSUME EchoCounts, UNCHANGED sent, NEW c \in Clients, NEW m \in Nat,
           got[c] + m <= sent[c], got' = [got EXCEPT ![c] = @ + m],
           outbox' \in [Clients -> Seq(Bytes)]
    PROVE  EchoCounts' /\ got'[c] = got[c] + m /\ \A d \in Clients : d # c => got'[d] = got[d]
<1>1. got' \in [Clients -> Nat] /\ got'[c] = got[c] + m
      /\ \A d \in Clients : d # c => got'[d] = got[d]
  BY DEF EchoCounts
<1> QED
  BY <1>1 DEF EchoCounts

LEMMA AddsNothing ==
    ASSUME EchoCounts, NEW c \in Clients, outbox' = [outbox EXCEPT ![c] = @ \o <<>>]
    PROVE  outbox' = outbox
<1>1. outbox[c] \o <<>> = outbox[c]
  BY DEF EchoCounts
<1> QED
  BY <1>1 DEF EchoCounts

\* A step that is not seen by the clients.
LEMMA NothingEchoed ==
    ASSUME program' = program, EchoCounts, UNCHANGED <<sent, got, outbox>>
    PROVE  EchoCounts' /\ (AllAnswered => AllAnswered') /\ UNCHANGED Echo!echoVars
<1>1. UNCHANGED Echo!echoVars /\ EchoCounts'
  BY ServiceStutters DEF EchoCounts
<1>2. AllAnswered => AllAnswered'
  BY AnswerThen DEF AllAnswered
<1> QED
  BY <1>1, <1>2

LEMMA StillAnswered ==
    ASSUME program \in Echoes, program' = program, EchoCounts, Environment
    PROVE  /\ EchoCounts' /\ (AllAnswered => AllAnswered')
           /\ Echo!Next \/ UNCHANGED Echo!echoVars
<1>1. EchoCounts' /\ UNCHANGED <<got, outbox>> /\ (Echo!Next \/ UNCHANGED Echo!echoVars)
  BY ServiceAsked
<1>2. AllAnswered => AllAnswered'
  BY <1>1, AnswerThen DEF AllAnswered
<1> QED
  BY <1>1, <1>2

\* What was read is lost with the server.
LEMMA ReadUnanswered ==
    ASSUME program' = program, EchoCounts, UNCHANGED sent, NEW c \in Clients, NEW m \in Nat,
           got[c] + m <= sent[c], got' = [got EXCEPT ![c] = @ + m],
           outbox' = [outbox EXCEPT ![c] = @ \o <<>>]
    PROVE  EchoCounts' /\ UNCHANGED Echo!echoVars
<1>1. UNCHANGED outbox
  BY AddsNothing
<1>2. outbox' \in [Clients -> Seq(Bytes)]
  BY <1>1 DEF EchoCounts
<1> QED
  BY <1>1, <1>2, ReadsOn, ServiceStutters

\* What is read is rotated and written back at once.
LEMMA EchoesRead ==
    ASSUME program = "loop", program' = program, EchoCounts, AllAnswered,
           UNCHANGED sent, NEW c \in Clients, NEW m \in Nat, m > 0, got[c] + m <= sent[c],
           got' = [got EXCEPT ![c] = @ + m],
           outbox' = [outbox EXCEPT ![c] = @ \o OwnFrom(c, got[c], m)]
    PROVE  EchoCounts' /\ AllAnswered' /\ Echo!Next
<1>1. got[c] \in Nat /\ outbox[c] \in Seq(Bytes) /\ outbox \in [Clients -> Seq(Bytes)]
      /\ program \in Echoes /\ got[c] + m \in Nat
  BY DEF EchoCounts, Echoes
<1> DEFINE s == OwnFrom(c, got[c], m)
<1>2. s \in Seq(Bytes) /\ s # <<>> /\ outbox[c] \o s = AnswerTo(c, got[c] + m)
  <2>1. outbox[c] = OwnUpTo(c, got[c])
    BY AnswerIs DEF AllAnswered
  <2>2. AnswerTo(c, got[c] + m) = OwnUpTo(c, got[c] + m)
    BY AnswerIs
  <2> QED
    BY <1>1, <2>1, <2>2, RotatedInParts
<1>3. outbox' = [outbox EXCEPT ![c] = @ \o s]
  OBVIOUS
<1> HIDE DEF s
<1>4. Echo!Next
  BY <1>1, <1>2, <1>3, ServiceEchoes
<1>5. /\ outbox' \in [Clients -> Seq(Bytes)] /\ outbox'[c] = outbox[c] \o s
      /\ \A d \in Clients : d # c => outbox'[d] = outbox[d]
  <2>1. outbox[c] \o s \in Seq(Bytes)
    BY <1>1, <1>2, CatFacts
  <2> QED
    BY <1>1, <1>3, <2>1
<1>6. EchoCounts' /\ got'[c] = got[c] + m /\ \A d \in Clients : d # c => got'[d] = got[d]
  BY <1>5, ReadsOn
<1>7. AllAnswered'
  <2>1. ASSUME NEW d \in Clients PROVE outbox'[d] = AnswerTo(d, got'[d])
    <3>1. CASE d = c
      BY <1>2, <1>5, <1>6, <3>1
    <3>2. CASE d # c
      BY <1>5, <1>6, <3>2 DEF AllAnswered
    <3> QED
      BY <3>1, <3>2
  <2> QED
    BY <2>1, AnswerThen DEF AllAnswered
<1> QED
  BY <1>4, <1>6, <1>7

\* pollserver holds what it has read of one client until it has written it.
Holder(c) == pc = "write" /\ c = Owner(event_set[i])
PollEcho ==
    /\ EchoCounts
    /\ pc # "dead" =>
        \A c \in Clients :
            IF Holder(c)
            THEN buf \in Seq(Bytes) /\ buf # <<>> /\ outbox[c] \o buf = AnswerTo(c, got[c])
            ELSE outbox[c] = AnswerTo(c, got[c])

LEMMA PollEchoes ==
    ASSUME program = "poll", program' = program, PollInv, PollInv', PollEcho,
           Poll!Server \/ Poll!Outside \/ UNCHANGED programsVars
    PROVE  PollEcho' /\ (Echo!Next \/ UNCHANGED Echo!echoVars)
<1>0. program \in Echoes /\ \A c, k : AnswerTo(c, k)' = AnswerTo(c, k)
  BY SameAnswers DEF Echoes
<1>1. CASE UNCHANGED programsVars
  <2>1. UNCHANGED <<pc, event_set, i, buf, link, fdOf, sent, got, outbox>>
    BY <1>1 DEF programsVars, sockVars
  <2>2. \A c \in Clients : Holder(c)' <=> Holder(c)
    BY <2>1 DEF Holder, Owner, Open
  <2> QED
    BY <1>0, <2>1, <2>2, ServiceStutters DEF PollEcho, EchoCounts
<1>2. CASE Poll!Outside
  <2>1. Environment /\ UNCHANGED <<pc, event_set, i, buf>>
    BY <1>2, PollSockets DEF Poll!Outside, Poll!pollVars
  <2>2. EchoCounts' /\ UNCHANGED <<got, outbox>> /\ (Echo!Next \/ UNCHANGED Echo!echoVars)
    BY <1>0, <2>1, ServiceAsked DEF PollEcho
  <2>3. Open' = Open /\ fdOf' = fdOf
    BY <2>1, EnvironmentKeeps DEF PollInv
  <2>4. \A c \in Clients : Holder(c)' <=> Holder(c)
    BY <2>1, <2>3 DEF Holder, Owner
  <2> QED
    BY <1>0, <2>1, <2>2, <2>4 DEF PollEcho
<1>3. CASE Poll!Poll \/ Poll!AcceptClient \/ Poll!CloseClient \/ Poll!EndScan
  <2>1. /\ pc \notin {"write", "dead"} /\ pc' # "write" /\ UNCHANGED <<sent, got, outbox>>
    BY <1>3 DEF Poll!Poll, Poll!AcceptClient, Poll!CloseClient, Poll!EndScan, Poll!Handled,
                Poll!Accept, Poll!Close, Poll!sockVars
  <2>2. PollEcho'
    BY <1>0, <2>1 DEF PollEcho, EchoCounts, Holder
  <2> QED
    BY <2>1, <2>2, ServiceStutters
<1>4. CASE Poll!ReadClient
  <2> DEFINE s == Poll!Min(Poll!ToRead)
             c == Poll!Owner(event_set[s])
             m == Poll!Min({sent[c] - got[c], MAXLINE})
  <2>1. /\ pc = "scan" /\ Poll!ToRead # {} /\ sent[c] - got[c] > 0
        /\ buf' = PlainFrom(c, got[c], m)
        /\ got' = [got EXCEPT ![c] = @ + m] /\ outbox' = [outbox EXCEPT ![c] = @ \o <<>>]
        /\ UNCHANGED <<link, fdOf, sent, event_set>> /\ i' = s /\ pc' = "write"
    BY <1>4, PollSockets DEF Poll!ReadClient, Poll!Exchange, PlainFrom
  <2>2. c \in Open /\ event_set[s] = fdOf[c]
    BY <2>1, PollScans
  <2> HIDE DEF s, c
  <2>3. c \in Clients /\ got[c] \in Nat /\ sent[c] \in Nat /\ outbox[c] \in Seq(Bytes)
    BY <2>2 DEF Open, PollEcho, EchoCounts
  <2>4. m \in Nat /\ m > 0 /\ got[c] + m <= sent[c]
    <3>1. MAXLINE \in Nat \ {0} /\ EchoCounts
      BY ProgramsAssumption DEF PollEcho
    <3>2. m = Min({sent[c] - got[c], MAXLINE})
      BY DEF Poll!Min, Min
    <3> HIDE DEF m
    <3> QED
      BY <2>1, <2>3, <3>1, <3>2, SomeRead
  <2> HIDE DEF m
  <2>6. UNCHANGED outbox
    BY <2>1, <2>3, AddsNothing DEF PollEcho
  <2>7. /\ EchoCounts' /\ got'[c] = got[c] + m
        /\ \A d \in Clients : d # c => got'[d] = got[d]
    <3>1. EchoCounts /\ outbox' \in [Clients -> Seq(Bytes)]
      BY <2>6 DEF PollEcho, EchoCounts
    <3> QED
      BY <2>1, <2>3, <2>4, <3>1, ReadsOn
  <2>8. \A d \in Clients : Holder(d)' <=> d = c
    <3>1. Open' = Open /\ fdOf' = fdOf /\ event_set'[i'] = event_set[s]
      BY <2>1 DEF Open
    <3>2. Owner(event_set[s]) = c
      BY <2>2, OwnerOf DEF PollInv
    <3>3. Owner(event_set[i])' = c
      <4>1. Owner(event_set[i])' = CHOOSE d \in Open' : fdOf'[d] = event_set'[i']
        BY DEF Owner
      <4>2. Owner(event_set[s]) = CHOOSE d \in Open : fdOf[d] = event_set[s]
        BY DEF Owner
      <4> QED
        BY <3>1, <3>2, <4>1, <4>2
    <3> QED
      BY <2>1, <3>3 DEF Holder
  <2>9. buf' \in Seq(Bytes) /\ buf' # <<>> /\ outbox[c] \o buf' = AnswerTo(c, got[c] + m)
    <3>1. outbox[c] = AnswerTo(c, got[c])
      BY <2>1, <2>3 DEF PollEcho, Holder
    <3>2. /\ outbox[c] = PlainUpTo(c, got[c])
          /\ AnswerTo(c, got[c] + m) = PlainUpTo(c, got[c] + m)
      BY <3>1, AnswerIs
    <3> QED
      BY <2>1, <2>3, <2>4, <3>2, PlainInParts
  <2>10. ASSUME NEW d \in Clients, d # c PROVE outbox[d] = AnswerTo(d, got'[d])
    BY <2>1, <2>7, <2>10 DEF PollEcho, Holder
  <2>11. PollEcho'
    <3>1. \A d \in Clients : AnswerTo(d, got[d])' = AnswerTo(d, got'[d])
      BY AnswerThen
    <3> QED
      BY <2>6, <2>7, <2>8, <2>9, <2>10, <3>1 DEF PollEcho
  <2> QED
    BY <2>1, <2>6, <2>11, ServiceStutters
<1>5. CASE Poll!WriteClient
  <2> DEFINE c == Owner(event_set[i])
  <2>1. /\ pc = "write" /\ pc' # "write" /\ UNCHANGED <<sent, link, fdOf>>
        /\ \/ pc' = "dead" /\ UNCHANGED <<got, outbox>>
           \/ got' = [got EXCEPT ![c] = @ + 0] /\ outbox' = [outbox EXCEPT ![c] = @ \o buf]
    BY <1>5, PollSockets DEF Poll!WriteClient, Poll!Exchange, Poll!Handled, Poll!sockVars
  <2>2. c \in Clients
    <3>1. i \in Poll!Slots /\ event_set[i] # NoFd
      BY <2>1 DEF PollInv
    <3>2. PICK d \in Open : fdOf[d] = event_set[i]
      BY <2>1, <3>1, PollSockets DEF PollInv, Poll!TableMatches
    <3> QED
      BY <3>2, OwnerOf DEF PollInv, Open
  <2>3. CASE pc' = "dead" /\ UNCHANGED <<got, outbox>>
    BY <2>1, <2>3, ServiceStutters DEF PollEcho, EchoCounts
  <2>4. CASE got' = [got EXCEPT ![c] = @ + 0] /\ outbox' = [outbox EXCEPT ![c] = @ \o buf]
    <3> HIDE DEF c
    <3>1. UNCHANGED got
      BY <2>2, <2>4 DEF PollEcho, EchoCounts
    <3>2. buf \in Seq(Bytes) /\ buf # <<>> /\ outbox[c] \o buf = AnswerTo(c, got[c])
      BY <2>1, <2>2 DEF PollEcho, Holder, c
    <3>3. Echo!Next
      <4>1. got[c] \in Nat /\ got[c] <= sent[c] /\ EchoCounts
        BY <2>2 DEF PollEcho, EchoCounts
      <4> QED
        BY <1>0, <2>1, <2>2, <2>4, <3>2, <4>1, ServiceEchoes
    <3>4. EchoCounts'
      <4>1. outbox[c] \o buf \in Seq(Bytes)
        <5>1. outbox[c] \in Seq(Bytes)
          BY <2>2 DEF PollEcho, EchoCounts
        <5> QED
          BY <3>2, <5>1, CatFacts
      <4> QED
        BY <2>1, <2>4, <3>1, <4>1 DEF PollEcho, EchoCounts
    <3>5. ASSUME NEW d \in Clients PROVE outbox'[d] = AnswerTo(d, got[d])
      <4>1. CASE d = c
        BY <2>4, <3>2, <4>1 DEF PollEcho, EchoCounts
      <4>2. CASE d # c
        <5>1. ~Holder(d)
          BY <4>2 DEF Holder, c
        <5> QED
          BY <2>1, <2>4, <4>2, <5>1 DEF PollEcho, EchoCounts
      <4> QED
        BY <4>1, <4>2
    <3>6. \A d \in Clients : AnswerTo(d, got[d])' = AnswerTo(d, got[d])
      BY <3>1 DEF AnswerTo
    <3> QED
      BY <2>1, <3>3, <3>4, <3>5, <3>6 DEF PollEcho, Holder
  <2> QED
    BY <2>1, <2>3, <2>4
<1> QED
  BY <1>1, <1>2, <1>3, <1>4, <1>5 DEF Poll!Server

\* The library's loop answers what it reads at once, and ends when it cannot.
EchoInStep == EchoCounts /\ (pc # "dead" => AllAnswered)

LEMMA InStepStays ==
    ASSUME EchoInStep, program \in Echoes, program' = program,
           \/ UNCHANGED <<sent, got, outbox>> /\ (pc # "dead" \/ pc' = pc)
           \/ Environment /\ UNCHANGED pc
    PROVE  EchoInStep' /\ (Echo!Next \/ UNCHANGED Echo!echoVars)
<1> QED
  BY NothingEchoed, StillAnswered DEF EchoInStep

\* What server 1 writes is its client's own, rotated.
LEMMA EpollWrites ==
    ASSUME NEW w, NEW c, NEW len \in Nat, NEW m \in Nat, m <= len,
           Epoll(w)!ReadAndWrite(c, len, m)
    PROVE  /\ n' = len /\ Exchange(c, len, OwnFrom(c, got[c], m))
           /\ UNCHANGED <<edges, batch, errs, socket_fd, missed>>
<1>1. PICK in : in = Epoll(w)!Arriving(c, len)
  OBVIOUS
<1>2. PICK x : x = [k \in 1 .. m |-> Epoll(w)!rot13_char(in[k])]
  OBVIOUS
<1>3. Epoll(w)!Exchange(c, len, x) /\ n' = len
      /\ UNCHANGED <<edges, batch, errs, socket_fd, missed>>
  BY <1>1, <1>2 DEF Epoll!ReadAndWrite
<1>4. x = OwnFrom(c, got[c], m)
  <2>1. \A b : Epoll(w)!rot13_char(b) = rot13_char(b)
    BY DEF Epoll!rot13_char, rot13_char
  <2>2. \A k \in 1 .. m : in[k] = Byte(c, got[c] + k)
    BY <1>1 DEF Epoll!Arriving, Epoll!Byte, Byte
  <2> QED
    BY <1>2, <2>1, <2>2, RotatedByte DEF OwnFrom
<1> QED
  BY <1>3, <1>4 DEF Epoll!Exchange, Exchange

\* Bytes that were read, as they came and rotated.
LEMMA PiecesTyped ==
    ASSUME NEW c \in Clients, NEW g \in Nat, NEW m \in Nat
    PROVE  PlainFrom(c, g, m) \in Seq(Bytes) /\ OwnFrom(c, g, m) \in Seq(Bytes)
<1>1. \A k \in 1 .. m : Byte(c, g + k) \in Bytes /\ Rotated(c, g + k) \in Bytes
  BY DEF Byte, Rotated, Bytes
<1> QED
  BY <1>1 DEF PlainFrom, OwnFrom

\* Of g bytes read, s was sent: each byte at most once, and in order.
OwnInOrder(c, s, g) ==
    /\ \A k \in DOMAIN s : s[k] = Rotated(c, s[k].num) /\ s[k].num \in 1 .. g
    /\ \A j, k \in DOMAIN s : j < k => s[j].num < s[k].num

LEMMA InOrderThen ==
    ASSUME NEW c \in Clients, NEW s \in Seq(Bytes), NEW g \in Nat, OwnInOrder(c, s, g),
           NEW len \in Nat, NEW m \in Nat, m <= len
    PROVE  /\ s \o OwnFrom(c, g, m) \in Seq(Bytes)
           /\ Len(s \o OwnFrom(c, g, m)) = Len(s) + m
           /\ OwnInOrder(c, s \o OwnFrom(c, g, m), g + len)
<1>1. PICK t : t = OwnFrom(c, g, m)
  OBVIOUS
<1>2. t \in Seq(Bytes)
  BY <1>1, PiecesTyped
<1>3. Len(t) = m /\ \A k \in 1 .. m : t[k] = Rotated(c, g + k)
  <2>1. DOMAIN t = 1 .. m /\ \A k \in 1 .. m : t[k] = Rotated(c, g + k)
    BY <1>1 DEF OwnFrom
  <2> QED
    BY <1>2, <2>1
<1>4. PICK u : u = s \o t
  OBVIOUS
<1>5. /\ u \in Seq(Bytes) /\ Len(s) \in Nat /\ Len(u) = Len(s) + m
      /\ DOMAIN s = 1 .. Len(s) /\ DOMAIN u = 1 .. Len(s) + m
      /\ \A k \in 1 .. Len(s) : u[k] = s[k]
      /\ \A k \in 1 .. m : u[Len(s) + k] = t[k]
  <2>1. /\ s \o t \in Seq(Bytes) /\ Len(s) \in Nat /\ Len(s \o t) = Len(s) + Len(t)
        /\ DOMAIN s = 1 .. Len(s) /\ DOMAIN (s \o t) = 1 .. Len(s) + Len(t)
        /\ \A k \in 1 .. Len(s) : (s \o t)[k] = s[k]
        /\ \A k \in 1 .. Len(t) : (s \o t)[Len(s) + k] = t[k]
    BY <1>2, CatFacts
  <2>2. Len(t) = m
    BY <1>3
  <2> QED
    BY <1>4, <2>1, <2>2
<1>6. \A k \in 1 .. Len(s) :
        u[k] = Rotated(c, u[k].num) /\ u[k].num \in 1 .. g /\ u[k].num = s[k].num
  BY <1>5 DEF OwnInOrder
<1>7. ASSUME NEW k \in 1 .. Len(s) + m, k > Len(s)
      PROVE  u[k] = Rotated(c, g + (k - Len(s))) /\ u[k].num = g + (k - Len(s))
  <2>1. PICK d \in Nat : d = k - Len(s)
    BY <1>5, <1>7
  <2>2. d \in 1 .. m /\ Len(s) + d = k
    BY <1>5, <1>7, <2>1
  <2>3. u[k] = Rotated(c, g + d)
    BY <1>3, <1>5, <2>2
  <2> QED
    BY <2>1, <2>3 DEF Rotated
<1>8. ASSUME NEW k \in 1 .. Len(s) + m
      PROVE  u[k] = Rotated(c, u[k].num) /\ u[k].num \in 1 .. g + len
  <2>1. CASE k > Len(s)
    <3>1. g + (k - Len(s)) \in 1 .. g + len
      BY <1>5, <1>8, <2>1
    <3> QED
      BY <1>7, <2>1, <3>1
  <2>2. CASE ~(k > Len(s))
    <3>1. k \in 1 .. Len(s) /\ \A e \in 1 .. g : e \in 1 .. g + len
      BY <1>5, <1>8, <2>2
    <3> QED
      BY <1>6, <3>1
  <2> QED
    BY <2>1, <2>2
<1>9. ASSUME NEW j \in 1 .. Len(s) + m, NEW k \in 1 .. Len(s) + m, j < k
      PROVE  u[j].num < u[k].num
  <2>1. CASE k <= Len(s)
    <3>1. j \in 1 .. Len(s) /\ k \in 1 .. Len(s)
      BY <1>5, <1>9, <2>1
    <3>2. s[j].num < s[k].num
      BY <1>5, <1>9, <3>1 DEF OwnInOrder
    <3> QED
      BY <1>6, <3>1, <3>2
  <2>2. CASE j > Len(s)
    <3>1. k > Len(s)
      BY <1>5, <1>9, <2>2
    <3>2. u[j].num = g + (j - Len(s)) /\ u[k].num = g + (k - Len(s))
      BY <1>7, <2>2, <3>1
    <3> QED
      BY <1>5, <1>9, <3>2
  <2>3. CASE j <= Len(s) /\ k > Len(s)
    <3>1. j \in 1 .. Len(s)
      BY <1>5, <2>3
    <3>2. u[j].num \in 1 .. g /\ u[k].num = g + (k - Len(s))
      BY <1>6, <1>7, <2>3, <3>1
    <3> QED
      BY <1>5, <1>9, <2>3, <3>2
  <2> QED
    BY <1>5, <1>9, <2>1, <2>2, <2>3
<1>10. OwnInOrder(c, u, g + len)
  BY <1>5, <1>8, <1>9 DEF OwnInOrder
<1> QED
  BY <1>1, <1>4, <1>5, <1>10

\* A client that reads at once is sent all that was read of it.
EpollEcho ==
    /\ EchoCounts /\ PeerInv
    /\ \A c \in Clients : peer[c] = "stalled" => c \in Stallers
    /\ \A c \in Clients : OwnInOrder(c, outbox[c], got[c])
    /\ pc # "dead" => \A c \in Clients \ Stallers : Len(outbox[c]) = got[c]

LEMMA EpollEchoInit == Init => EpollEcho
<1> SUFFICES ASSUME Init PROVE EpollEcho
  OBVIOUS
<1>1. \A c \in Clients : peer[c] = "up" /\ got[c] = 0 /\ sent[c] = 0 /\ outbox[c] = <<>>
  BY DEF Init, SocketsInit
<1>2. EchoCounts
  <2>1. <<>> \in Seq(Bytes)
    OBVIOUS
  <2>2. \A c \in Clients : Len(Text[c]) \in Nat
    BY SocketsAssumption DEF Clients
  <2> QED
    BY <1>1, <2>1, <2>2 DEF Init, SocketsInit, EchoCounts
<1>3. \A c \in Clients : OwnInOrder(c, outbox[c], got[c]) /\ Len(outbox[c]) = got[c]
  BY <1>1 DEF OwnInOrder
<1>4. PeerInv
  BY DEF Init, SocketsInit, PeerInv
<1> QED
  BY <1>1, <1>2, <1>3, <1>4 DEF EpollEcho

\* The epoll servers send a client nothing but its own bytes, in order.
LEMMA EpollEchoes ==
    ASSUME EpollInv, EpollEcho, NEW w \in 1 .. 3,
           Epoll(w)!Server \/ Epoll(w)!Outside \/ UNCHANGED programsVars
    PROVE  EpollEcho'
<1>1. CASE UNCHANGED programsVars
  <2>1. UNCHANGED <<pc, peer, sent, got, outbox>>
    BY <1>1 DEF programsVars, sockVars
  <2> QED
    BY <2>1 DEF EpollEcho, EchoCounts, OwnInOrder, PeerInv, Clients, Bytes
<1>2. CASE Epoll(w)!Outside
  <2>1. Environment /\ UNCHANGED pc
    BY <1>2, EpollSockets DEF Epoll!Outside
  <2>2. UNCHANGED <<got, outbox>>
    BY <2>1 DEF Environment, Connect, Send, Turn
  <2>3. EchoCounts'
    <3>1. \A c \in Clients : Len(Text[c]) \in Nat
      BY SocketsAssumption DEF Clients
    <3>2. PICK c \in Clients : \/ UNCHANGED sent
                               \/ sent[c] < Len(Text[c]) /\ sent' = [sent EXCEPT ![c] = @ + 1]
      BY <2>1 DEF Environment, Connect, Send, Turn
    <3>3. CASE UNCHANGED sent
      BY <2>2, <3>3 DEF EpollEcho, EchoCounts
    <3>4. CASE sent[c] < Len(Text[c]) /\ sent' = [sent EXCEPT ![c] = @ + 1]
      <4>1. sent \in [Clients -> Nat] /\ sent' \in [Clients -> Nat]
            /\ sent'[c] = sent[c] + 1 /\ \A d \in Clients : d # c => sent'[d] = sent[d]
        BY <3>4 DEF EpollEcho, EchoCounts
      <4>2. \A d \in Clients : got[d] \in Nat /\ got[d] <= sent'[d] /\ sent'[d] <= Len(Text[d])
        BY <3>1, <3>4, <4>1 DEF EpollEcho, EchoCounts
      <4> QED
        BY <2>2, <4>1, <4>2 DEF EpollEcho, EchoCounts, Clients, Bytes
    <3> QED
      BY <3>2, <3>3, <3>4
  <2>4. PeerInv' /\ \A c \in Clients : peer'[c] = "stalled" => c \in Stallers
    <3>1. PeerInv'
      BY <2>1, PeersStay DEF EpollEcho
    <3>2. \/ UNCHANGED peer
          \/ \E c \in Clients, to \in {"fin", "stalled", "rst"} :
                /\ peer' = [peer EXCEPT ![c] = to]
                /\ to = "stalled" => c \in Stallers
      BY <2>1 DEF Environment, Connect, Send, Turn
    <3> QED
      BY <3>1, <3>2 DEF EpollEcho, PeerInv
  <2> QED
    BY <2>1, <2>2, <2>3, <2>4 DEF EpollEcho, OwnInOrder, Clients
<1>3. CASE Epoll(w)!Dispatch \/ Epoll(w)!ReadClient \/ Epoll(w)!NoteClient \/ Epoll(w)!EndRead
  <2>1. UNCHANGED <<peer, sent, got, outbox>> /\ pc # "dead"
    BY <1>3 DEF Epoll!Dispatch, Epoll!EpollWait, Epoll!CloseOnError, Epoll!AcceptClient,
                Epoll!EndBatch, Epoll!ReadClient, Epoll!NoteClient, Epoll!EndRead, Epoll!Take,
                Epoll!TakeClient, Epoll!Accept, Epoll!Close, Epoll!sockVars
  <2> QED
    BY <2>1 DEF EpollEcho, EchoCounts, OwnInOrder, PeerInv, Clients, Bytes
<1>4. CASE Epoll(w)!EchoClient
  <2>1. got \in [Clients -> Nat] /\ sent \in [Clients -> Nat]
        /\ outbox \in [Clients -> Seq(Bytes)]
    BY DEF EpollEcho, EchoCounts
  <2>2. PICK c \in Clients, len \in Nat, m \in Nat :
            /\ pc = "read" /\ len <= sent[c] - got[c] /\ m <= len
            /\ Epoll(w)!ReadAndWrite(c, len, m)
            /\ pc' = IF m = 0 THEN "dead" ELSE pc
            /\ m \in {0, len} \/ c \in Stallers \/ peer[c] = "stalled"
    BY <1>4, <2>1, EpollReads
  <2>3. PICK g \in Nat : g = got[c]
    BY <2>1
  <2>4. PICK s \in Seq(Bytes) : s = outbox[c]
    BY <2>1
  <2>5. PICK t : t = s \o OwnFrom(c, g, m)
    OBVIOUS
  <2>6. t \in Seq(Bytes) /\ Len(t) = Len(s) + m /\ OwnInOrder(c, t, g + len)
    <3>1. OwnInOrder(c, s, g)
      BY <2>3, <2>4 DEF EpollEcho
    <3> QED
      BY <2>2, <2>5, <3>1, InOrderThen
  <2>7. /\ got' = [got EXCEPT ![c] = g + len] /\ outbox' = [outbox EXCEPT ![c] = t]
        /\ UNCHANGED <<peer, sent>>
    <3>1. Exchange(c, len, OwnFrom(c, got[c], m))
      BY <2>2, EpollWrites
    <3> QED
      BY <2>3, <2>4, <2>5, <3>1 DEF Exchange
  <2>8. /\ got' \in [Clients -> Nat] /\ got'[c] = g + len
        /\ outbox' \in [Clients -> Seq(Bytes)] /\ outbox'[c] = t
        /\ \A d \in Clients : d # c => got'[d] = got[d] /\ outbox'[d] = outbox[d]
    BY <2>1, <2>6, <2>7
  <2>9. EchoCounts'
    <3>1. g + len <= sent[c]
      BY <2>1, <2>2, <2>3
    <3> QED
      BY <2>7, <2>8, <3>1 DEF EpollEcho, EchoCounts
  <2>10. \A d \in Clients : OwnInOrder(d, outbox'[d], got'[d])
    <3>1. ASSUME NEW d \in Clients PROVE OwnInOrder(d, outbox'[d], got'[d])
      <4>1. CASE d = c
        BY <2>6, <2>8, <4>1
      <4>2. CASE d # c
        BY <2>8, <4>2 DEF EpollEcho
      <4> QED
        BY <4>1, <4>2
    <3> QED
      BY <3>1
  <2>11. ASSUME pc' # "dead", NEW d \in Clients \ Stallers PROVE Len(outbox'[d]) = got'[d]
    <3>1. pc # "dead" /\ m # 0
      BY <2>2, <2>11
    <3>2. CASE d = c
      <4>1. m = len
        BY <2>2, <3>1, <3>2, <2>11 DEF EpollEcho
      <4>2. Len(s) = g
        BY <2>3, <2>4, <2>11, <3>1, <3>2 DEF EpollEcho
      <4> QED
        BY <2>6, <2>8, <3>2, <4>1, <4>2
    <3>3. CASE d # c
      BY <2>8, <2>11, <3>1, <3>3 DEF EpollEcho
    <3> QED
      BY <3>2, <3>3
  <2>12. PeerInv' /\ \A d \in Clients : peer'[d] = "stalled" => d \in Stallers
    BY <2>7 DEF EpollEcho, PeerInv, Clients
  <2>13. \A d \in Clients : OwnInOrder(d, outbox[d], got[d])'
    BY <2>10 DEF OwnInOrder
  <2> QED
    BY <2>9, <2>11, <2>12, <2>13 DEF EpollEcho, Clients
<1> QED
  BY <1>1, <1>2, <1>3, <1>4
     DEF Epoll!Server, Epoll!Server1, Epoll!Server2, Epoll!Server3

LEMMA EpollKeepsApart ==
    ASSUME EpollEcho, NEW w
    PROVE  Epoll(w)!OwnBytesInOrder
<1>1. \A c, k : Epoll(w)!rot13_char(Epoll(w)!Byte(c, k)) = Rotated(c, k)
  BY RotatedByte DEF Epoll!rot13_char, rot13_char, Epoll!Byte, Byte
<1>2. Epoll(w)!Clients = Clients
  BY EpollSockets
<1> SUFFICES ASSUME NEW c \in Clients
             PROVE  /\ \A k \in DOMAIN outbox[c] :
                            \E m \in 1 .. got[c] : outbox[c][k] = Rotated(c, m)
                    /\ \A j, k \in DOMAIN outbox[c] :
                            j < k => outbox[c][j].num < outbox[c][k].num
                    /\ c \notin Stallers /\ pc # "dead" => Len(outbox[c]) = got[c]
  BY <1>1, <1>2 DEF Epoll!OwnBytesInOrder
<1>3. OwnInOrder(c, outbox[c], got[c])
  BY DEF EpollEcho
<1> QED
  BY <1>3 DEF EpollEcho, OwnInOrder

\* What the scan calls back for.
LEMMA LoopOwner ==
    ASSUME LoopInv, Loop!Due # {}, pc = "scan", Loop!Min(Loop!Due) # 1
    PROVE  Loop!Owner(pollfd[Loop!Min(Loop!Due)].fd) \in Clients
<1> DEFINE s == Loop!Min(Loop!Due)
<1>1. s \in Loop!Due /\ s \in Array
  <2>1. s = Min(Loop!Due) /\ Loop!Due \subseteq Array
    BY DEF Loop!Min, Min, Loop!Due, LoopInv, ArrayInv
  <2>2. Loop!Due \in SUBSET Nat
    BY <2>1, ArrayFacts
  <2> QED
    BY <2>1, <2>2, MinIsLeast
<1> SUFFICES Loop!Owner(pollfd[s].fd) \in Clients
  OBVIOUS
<1>2. s # 1
  OBVIOUS
<1> HIDE DEF s
<1>3. s \in Loop!Slots /\ Loop!Used(s)
  BY <1>1, <1>2, ArrayFacts DEF Loop!Due
<1>4. pollfd[s].fd \in Accepted
  BY <1>3 DEF LoopInv, ArrayInv
<1>5. PICK c \in Open : fdOf[c] = pollfd[s].fd
  BY <1>4 DEF Accepted
<1>6. Loop!Owner(pollfd[s].fd) = Owner(pollfd[s].fd)
  BY DEF Loop!Owner, Owner, Loop!Open, Open, Loop!Clients, Clients
<1>7. Owner(pollfd[s].fd) = c
  BY <1>5, OwnerOf DEF LoopInv
<1> QED
  BY <1>5, <1>6, <1>7 DEF Open

\* What handle_read reads of a client, and how much of it is written.
LEMMA LoopReadsOf ==
    ASSUME LoopInv, got \in [Clients -> Nat], sent \in [Clients -> Nat], Loop!handle_read,
           NEW s, s = Loop!Min(Loop!Due), NEW c, c = Loop!Owner(pollfd[s].fd),
           NEW m, m = sent[c] - got[c]
    PROVE  /\ pc = "scan" /\ Loop!Due # {} /\ s # 1
           /\ c \in Clients /\ m \in Nat /\ m > 0
           /\ \/ /\ pc' = "dead" /\ UNCHANGED <<ready_number, i, reported>>
                 /\ \E k \in 0 .. m : Exchange(c, m, OwnFrom(c, got[c], k))
              \/ /\ Loop!Handled(s)
                 /\ Exchange(c, m, OwnFrom(c, got[c], m))
<1>4. PICK in : in = Loop!Arriving(c, m)
  OBVIOUS
<1>5. /\ pc = "scan" /\ Loop!Due # {} /\ s # 1 /\ m > 0
      /\ IF peer[c] \in {"stalled", "rst"}
         THEN /\ \E k \in IF peer[c] = "rst" THEN {0} ELSE 0 .. m - 1 :
                    Loop!Exchange(c, m, [j \in 1 .. k |-> Loop!rot13_char(in[j])])
              /\ pc' = "dead"
              /\ UNCHANGED <<ready_number, i, reported>>
         ELSE /\ Loop!Exchange(c, m, [j \in 1 .. m |-> Loop!rot13_char(in[j])])
              /\ Loop!Handled(s)
  <2>1. Loop!Unread(c) = m
    BY DEF Loop!Unread
  <2> QED
    BY <1>4, <2>1 DEF Loop!handle_read
<1>6. c \in Clients /\ m \in Nat
  <2>1. c \in Clients
    BY <1>5, LoopOwner
  <2> QED
    BY <1>5, <2>1
<1>7. \A k \in 0 .. m : [j \in 1 .. k |-> Loop!rot13_char(in[j])] = OwnFrom(c, got[c], k)
  <2> SUFFICES ASSUME NEW k \in 0 .. m
               PROVE  [j \in 1 .. k |-> Loop!rot13_char(in[j])] = OwnFrom(c, got[c], k)
    OBVIOUS
  <2>1. \A b : Loop!rot13_char(b) = rot13_char(b)
    BY DEF Loop!rot13_char, rot13_char
  <2>2. \A j \in 1 .. k : in[j] = Byte(c, got[c] + j)
    BY <1>4, <1>6 DEF Loop!Arriving, Loop!Byte, Byte
  <2> QED
    BY <2>1, <2>2, RotatedByte DEF OwnFrom
<1>8. \/ /\ pc' = "dead" /\ UNCHANGED <<ready_number, i, reported>>
         /\ \E k \in 0 .. m : Exchange(c, m, OwnFrom(c, got[c], k))
      \/ /\ Loop!Handled(s)
         /\ Exchange(c, m, OwnFrom(c, got[c], m))
  <2>1. CASE peer[c] \in {"stalled", "rst"}
    <3>1. PICK p : p = peer[c]
      OBVIOUS
    <3>2. PICK k \in IF p = "rst" THEN {0} ELSE 0 .. m - 1 :
            Loop!Exchange(c, m, [j \in 1 .. k |-> Loop!rot13_char(in[j])])
      BY <1>5, <2>1, <3>1
    <3>3. k \in 0 .. m
      BY <1>6, <3>2
    <3>4. Loop!Exchange(c, m, OwnFrom(c, got[c], k))
      BY <1>7, <3>2, <3>3
    <3>5. Exchange(c, m, OwnFrom(c, got[c], k))
      BY <3>4 DEF Loop!Exchange, Exchange
    <3> QED
      BY <1>5, <2>1, <3>3, <3>5
  <2>2. CASE peer[c] \notin {"stalled", "rst"}
    <3>1. m \in 0 .. m
      BY <1>6
    <3>2. Loop!Exchange(c, m, OwnFrom(c, got[c], m)) /\ Loop!Handled(s)
      BY <1>5, <1>7, <2>2, <3>1
    <3> QED
      BY <3>2 DEF Loop!Exchange, Exchange
  <2> QED
    BY <2>1, <2>2
<1> QED
  BY <1>5, <1>6, <1>8

\* The loop ends, and has written a part of what it read, or nothing.
LEMMA EchoesPart ==
    ASSUME program = "loop", program' = program, EchoCounts, AllAnswered,
           UNCHANGED sent, NEW c \in Clients, NEW m \in Nat, got[c] + m <= sent[c],
           got' = [got EXCEPT ![c] = @ + m], NEW k \in 0 .. m,
           outbox' = [outbox EXCEPT ![c] = @ \o OwnFrom(c, got[c], k)]
    PROVE  EchoCounts' /\ (Echo!Next \/ UNCHANGED Echo!echoVars)
<1>1. PICK g \in Nat : g = got[c]
  BY DEF EchoCounts
<1>2. PICK s \in Seq(Bytes) : s = outbox[c]
  BY DEF EchoCounts
<1>3. CASE k = 0
  <2>1. OwnFrom(c, g, 0) = <<>>
    BY DEF OwnFrom
  <2> QED
    BY <1>1, <1>3, <2>1, ReadUnanswered
<1>4. CASE k > 0
  <2>1. PICK t : t = OwnFrom(c, g, k)
    OBVIOUS
  <2>2. t \in Seq(Bytes) /\ t # <<>> /\ s \o t = AnswerTo(c, g + k)
    <3>1. s = OwnUpTo(c, g) /\ AnswerTo(c, g + k) = OwnUpTo(c, g + k)
      BY <1>1, <1>2, AnswerIs DEF AllAnswered
    <3>2. k \in Nat /\ k > 0
      BY <1>4
    <3>3. /\ OwnFrom(c, g, k) \in Seq(Bytes) /\ OwnFrom(c, g, k) # <<>>
          /\ OwnUpTo(c, g) \o OwnFrom(c, g, k) = OwnUpTo(c, g + k)
      BY <3>2, RotatedInParts
    <3> QED
      BY <2>1, <3>1, <3>3
  <2>3. outbox' = [outbox EXCEPT ![c] = @ \o t]
    BY <1>1, <2>1
  <2>4. g + k \in Nat /\ g + k <= sent[c]
    BY <1>1 DEF EchoCounts
  <2>5. Echo!Next
    <3>1. program \in Echoes
      BY DEF Echoes
    <3> QED
      BY <1>2, <2>2, <2>3, <2>4, <3>1, ServiceEchoes
  <2>6. outbox' \in [Clients -> Seq(Bytes)]
    <3>1. s \o t \in Seq(Bytes)
      BY <2>2, CatFacts
    <3> QED
      BY <1>2, <2>3, <3>1 DEF EchoCounts
  <2>7. EchoCounts'
    BY <2>6, ReadsOn
  <2> QED
    BY <2>5, <2>7
<1> QED
  BY <1>3, <1>4

LEMMA LoopEchoes ==
    ASSUME program = "loop", program' = program, LoopInv, LoopInv', EchoInStep,
           Loop!Server \/ Loop!Outside \/ UNCHANGED programsVars
    PROVE  EchoInStep' /\ (Echo!Next \/ UNCHANGED Echo!echoVars)
<1>0. program \in Echoes
  BY DEF Echoes
<1>1. CASE UNCHANGED programsVars
  <2>1. UNCHANGED <<pc, sent, got, outbox>>
    BY <1>1 DEF programsVars, sockVars
  <2> QED
    BY <1>0, <2>1, InStepStays
<1>2. CASE Loop!Outside
  <2>1. Environment /\ UNCHANGED pc
    BY <1>2 DEF Loop!Outside, Loop!Environment, Environment,
                Loop!Connect, Connect, Loop!Send, Send, Loop!Turn, Turn,
                Loop!Connected, Connected, Loop!Clients, Clients
  <2> QED
    BY <1>0, <2>1, InStepStays
<1>3. CASE Loop!Poll \/ Loop!handle_connection_established \/ Loop!handle_connection_closed
  <2>1. UNCHANGED <<sent, got, outbox>> /\ pc # "dead"
    BY <1>3 DEF Loop!Poll, Loop!handle_connection_established, Loop!handle_connection_closed,
                Loop!Accept, Loop!sockVars
  <2> QED
    BY <1>0, <2>1, InStepStays
<1>4. CASE Loop!handle_read
  <2>1. EchoCounts /\ got \in [Clients -> Nat] /\ sent \in [Clients -> Nat]
    BY DEF EchoInStep, EchoCounts
  <2>2. PICK s : s = Loop!Min(Loop!Due)
    OBVIOUS
  <2>3. PICK c : c = Loop!Owner(pollfd[s].fd)
    OBVIOUS
  <2>4. PICK m : m = sent[c] - got[c]
    OBVIOUS
  <2>5. /\ pc = "scan" /\ c \in Clients /\ m \in Nat /\ m > 0
        /\ \/ pc' = "dead" /\ \E k \in 0 .. m : Exchange(c, m, OwnFrom(c, got[c], k))
           \/ Exchange(c, m, OwnFrom(c, got[c], m))
    BY <1>4, <2>1, <2>2, <2>3, <2>4, LoopReadsOf
  <2>6. AllAnswered /\ got[c] + m <= sent[c]
    BY <2>1, <2>4, <2>5 DEF EchoInStep
  <2>7. CASE pc' = "dead" /\ \E k \in 0 .. m : Exchange(c, m, OwnFrom(c, got[c], k))
    <3>1. PICK k \in 0 .. m :
            /\ got' = [got EXCEPT ![c] = @ + m] /\ UNCHANGED sent
            /\ outbox' = [outbox EXCEPT ![c] = @ \o OwnFrom(c, got[c], k)]
      BY <2>7 DEF Exchange
    <3> QED
      BY <2>1, <2>5, <2>6, <2>7, <3>1, EchoesPart DEF EchoInStep
  <2>8. CASE Exchange(c, m, OwnFrom(c, got[c], m))
    <3>1. /\ got' = [got EXCEPT ![c] = @ + m] /\ UNCHANGED sent
          /\ outbox' = [outbox EXCEPT ![c] = @ \o OwnFrom(c, got[c], m)]
      BY <2>8 DEF Exchange
    <3> QED
      BY <2>1, <2>5, <2>6, <3>1, EchoesRead DEF EchoInStep
  <2> QED
    BY <2>5, <2>7, <2>8
<1> QED
  BY <1>1, <1>2, <1>3, <1>4 DEF Loop!Server

-----------------------------------------------------------------------------
(* Types *)

\* Sockets' types; the numbers of bytes are functions on the clients.
SocketTypes == SocketsTypeOK /\ got \in [Clients -> Nat] /\ sent \in [Clients -> Nat]

LEMMA PartOf ==
    ASSUME NEW T, IsFiniteSet(T), NEW S \in SUBSET T
    PROVE  /\ IsFiniteSet(S) /\ Cardinality(S) \in Nat /\ Cardinality(S) <= Cardinality(T)
           /\ S # {} => Cardinality(S) >= 1
<1>1. IsFiniteSet(S) /\ Cardinality(S) <= Cardinality(T) /\ Cardinality(S) \in Nat
  BY FS_Subset, FS_CardinalityType
<1>2. S # {} => Cardinality(S) # 0
  BY <1>1, FS_EmptySet
<1> QED
  BY <1>1, <1>2

LEMMA TextLengths == Len(Text) \in Nat /\ \A c \in Clients : Len(Text[c]) \in Nat
<1> QED
  BY SocketsAssumption DEF Clients

LEMMA TypesInit ==
    ASSUME NEW C, SocketsInit(C)
    PROVE  SocketTypes
<1>1. <<>> \in Seq(Bytes)
  OBVIOUS
<1>2. \A c \in Clients : got[c] \in 0 .. sent[c] /\ sent[c] \in 0 .. Len(Text[c])
  BY TextLengths DEF SocketsInit
<1> QED
  BY <1>1, <1>2 DEF SocketTypes, SocketsInit, SocketsTypeOK

LEMMA TypesStay ==
    ASSUME SocketTypes, UNCHANGED <<link, peer, fdOf, sent, got, outbox>>
    PROVE  SocketTypes'
<1> QED
  BY DEF SocketTypes, SocketsTypeOK, Clients, Bytes, NoFd

LEMMA TypesEnvironment ==
    ASSUME SocketTypes, Environment
    PROVE  SocketTypes'
<1>1. PICK c \in Clients : Connect(c) \/ Send(c) \/ \E from, to : Turn(c, from, to)
                                                      /\ to \in {"fin", "stalled", "rst"}
  BY DEF Environment
<1>2. CASE Connect(c)
  BY <1>2 DEF Connect, SocketTypes, SocketsTypeOK, Clients, Bytes, NoFd
<1>3. CASE Send(c)
  <2>1. /\ sent' = [sent EXCEPT ![c] = sent[c] + 1] /\ sent[c] < Len(Text[c])
        /\ UNCHANGED <<link, peer, fdOf, got, outbox>>
    BY <1>3 DEF Send
  <2>2. \A d \in Clients : got'[d] \in 0 .. sent'[d] /\ sent'[d] \in 0 .. Len(Text[d])
    BY <2>1, TextLengths DEF SocketTypes, SocketsTypeOK
  <2>3. sent' \in [Clients -> Nat]
    BY <2>1 DEF SocketTypes
  <2> QED
    BY <2>1, <2>2, <2>3 DEF SocketTypes, SocketsTypeOK, Clients, Bytes, NoFd
<1>4. CASE \E from, to : Turn(c, from, to) /\ to \in {"fin", "stalled", "rst"}
  <2>1. PICK to \in {"fin", "stalled", "rst"} : /\ peer' = [peer EXCEPT ![c] = to]
                                                /\ UNCHANGED <<link, fdOf, sent, got, outbox>>
    BY <1>4 DEF Turn
  <2> QED
    BY <2>1 DEF SocketTypes, SocketsTypeOK, Clients, Bytes, NoFd
<1> QED
  BY <1>1, <1>2, <1>3, <1>4

LEMMA TypesAccept ==
    ASSUME SocketTypes, NEW c \in Waiting, Accept(c)
    PROVE  SocketTypes'
<1>1. NewFd \in Fds /\ c \in Clients
  BY FreshFd DEF Waiting
<1>2. /\ link' = [link EXCEPT ![c] = "open"] /\ fdOf' = [fdOf EXCEPT ![c] = NewFd]
      /\ UNCHANGED <<peer, sent, got, outbox>>
  BY DEF Accept
<1> QED
  BY <1>1, <1>2 DEF SocketTypes, SocketsTypeOK, Clients, Bytes, NoFd

LEMMA TypesClose ==
    ASSUME SocketTypes, NEW c, Close(c)
    PROVE  SocketTypes'
<1> QED
  BY DEF Close, SocketTypes, SocketsTypeOK, Clients, Bytes, NoFd

LEMMA TypesExchange ==
    ASSUME SocketTypes, NEW c \in Clients, NEW m \in Nat, m <= sent[c] - got[c],
           NEW s \in Seq(Bytes), Exchange(c, m, s)
    PROVE  SocketTypes'
<1>1. /\ got' = [got EXCEPT ![c] = got[c] + m] /\ outbox' = [outbox EXCEPT ![c] = outbox[c] \o s]
      /\ UNCHANGED <<link, peer, fdOf, sent>>
  BY DEF Exchange
<1>2. /\ got' \in [Clients -> Nat]
      /\ \A d \in Clients : got'[d] \in 0 .. sent'[d] /\ sent'[d] \in 0 .. Len(Text[d])
  BY <1>1, TextLengths DEF SocketTypes, SocketsTypeOK
<1>3. outbox' \in [Clients -> Seq(Bytes)]
  <2>1. outbox \in [Clients -> Seq(Bytes)]
    BY DEF SocketTypes, SocketsTypeOK
  <2>2. outbox[c] \o s \in Seq(Bytes)
    BY <2>1, CatFacts
  <2> QED
    BY <1>1, <2>1, <2>2
<1> QED
  BY <1>1, <1>2, <1>3 DEF SocketTypes, SocketsTypeOK, Clients, Bytes, NoFd

LEMMA SomeUnread ==
    ASSUME SocketTypes, NEW c \in Clients, sent[c] - got[c] > 0, NEW b \in Nat
    PROVE  LET m == Min({sent[c] - got[c], b}) IN m \in Nat /\ m <= b /\ m <= sent[c] - got[c]
<1>1. sent[c] - got[c] \in Nat
  BY DEF SocketTypes
<1>2. {sent[c] - got[c], b} \in SUBSET Nat /\ {sent[c] - got[c], b} # {}
  BY <1>1
<1> QED
  BY <1>1, <1>2, MinIsLeast

\* The count of slots to handle is not below one as long as the scan goes on.
PollTypes ==
    /\ SocketTypes /\ Poll!PollTypeOK
    /\ pc \in {"accept", "scan", "write"} => ready_number >= 1

LEMMA PollCalls ==
    /\ Poll!Bytes = Bytes /\ Poll!Waiting = Waiting /\ Poll!NewFd = NewFd
    /\ \A c : Poll!Accept(c) => Accept(c)
    /\ \A c : Poll!Close(c) => Close(c)
    /\ \A c, m, s : Poll!Exchange(c, m, s) => Exchange(c, m, s)
    /\ \A c, m : Poll!Arriving(c, m) = PlainFrom(c, got[c], m)
<1>1. Poll!Bytes = Bytes /\ Poll!Waiting = Waiting /\ Poll!NewFd = NewFd
  BY PollSockets DEF Poll!Bytes, Bytes, Poll!Waiting, Waiting, Poll!NewFd, NewFd, Poll!Min, Min
<1>2. \A c : Poll!Accept(c) => Accept(c)
  BY <1>1 DEF Poll!Accept, Accept, Poll!Min, Min
<1>3. \A c : Poll!Close(c) => Close(c)
  BY DEF Poll!Close, Close
<1>4. \A c, m, s : Poll!Exchange(c, m, s) => Exchange(c, m, s)
  BY DEF Poll!Exchange, Exchange
<1>5. \A c, m : Poll!Arriving(c, m) = PlainFrom(c, got[c], m)
  BY PollSockets DEF PlainFrom
<1> QED
  BY <1>1, <1>2, <1>3, <1>4, <1>5

LEMMA PollTypesInit == Init /\ program = "poll" => PollTypes
<1> SUFFICES ASSUME Init, program = "poll" PROVE PollTypes
  OBVIOUS
<1>1. /\ pc = "wait" /\ revents = {} /\ ready_number = 0 /\ i = 0 /\ buf = <<>>
      /\ event_set = [s \in Poll!Slots |-> Poll!NoFd]
  BY DEF Init, Poll!Start
<1>2. SocketTypes
  BY TypesInit DEF Init
<1>3. INIT_SIZE \in Nat /\ <<>> \in Seq(Poll!Bytes)
  BY ProgramsAssumption
<1> QED
  BY <1>1, <1>2, <1>3 DEF PollTypes, Poll!PollTypeOK

LEMMA PollTypesPolls ==
    ASSUME PollTypes, Poll!Poll
    PROVE  PollTypes'
<1>1. PICK ready : /\ ready \subseteq Poll!Slots \cup {0} /\ ready # {}
                   /\ revents' = ready /\ ready_number' = Cardinality(ready) /\ i' = 1
                   /\ pc' \in {"accept", "scan"}
                   /\ UNCHANGED <<link, peer, fdOf, sent, got, outbox, event_set, buf>>
  BY DEF Poll!Poll, Poll!sockVars, Poll!Cardinality, Cardinality
<1>2. INIT_SIZE \in Nat /\ INIT_SIZE >= 1
  BY ProgramsAssumption
<1>3. Cardinality(ready) \in Nat /\ Cardinality(ready) <= INIT_SIZE /\ Cardinality(ready) >= 1
  <2>1. ready \in SUBSET (0 .. INIT_SIZE - 1)
    BY <1>1, <1>2 DEF Poll!Slots
  <2>2. IsFiniteSet(0 .. INIT_SIZE - 1) /\ Cardinality(0 .. INIT_SIZE - 1) = INIT_SIZE
    BY <1>2, FS_Interval
  <2> QED
    BY <1>1, <1>2, <2>1, <2>2, PartOf
<1>4. SocketTypes'
  BY <1>1, TypesStay DEF PollTypes
<1> QED
  BY <1>1, <1>2, <1>3, <1>4
     DEF PollTypes, Poll!PollTypeOK, Poll!Slots, Poll!Bytes, Poll!Clients, Poll!NoFd

\* i and the count after one ready slot was handled.
LEMMA PollTypesHandled ==
    ASSUME PollTypes, pc \in {"accept", "scan", "write"}, Poll!Handled, SocketTypes',
           i' \in 0 .. INIT_SIZE, UNCHANGED revents, buf' \in Seq(Bytes),
           event_set' \in [Poll!Slots -> Fds \cup {NoFd}]
    PROVE  PollTypes'
<1>1. ready_number \in 1 .. INIT_SIZE /\ INIT_SIZE \in Nat
  BY ProgramsAssumption DEF PollTypes, Poll!PollTypeOK
<1>2. /\ ready_number' \in 0 .. INIT_SIZE /\ pc' \in {"wait", "scan"}
      /\ pc' = "scan" => ready_number' >= 1
  BY <1>1 DEF Poll!Handled
<1> QED
  BY <1>2, PollCalls, PollSockets
     DEF PollTypes, Poll!PollTypeOK, Poll!Slots, Poll!Bytes, Poll!Clients, Poll!NoFd

LEMMA PollTypesScans ==
    ASSUME PollInv, PollInv', PollTypes,
           Poll!AcceptClient \/ Poll!ReadClient \/ Poll!CloseClient \/ Poll!WriteClient
    PROVE  PollTypes'
<1>0. /\ INIT_SIZE \in Nat /\ INIT_SIZE >= 1 /\ MAXLINE \in Nat /\ Poll!Slots \subseteq Nat
      /\ \A s \in Poll!Slots : s \in 0 .. INIT_SIZE /\ s + 1 \in 0 .. INIT_SIZE
      /\ i \in 0 .. INIT_SIZE /\ buf \in Seq(Bytes) /\ SocketTypes
      /\ event_set' \in [Poll!Slots -> Fds \cup {NoFd}]
  <2>1. INIT_SIZE \in Nat /\ INIT_SIZE >= 1 /\ MAXLINE \in Nat
    BY ProgramsAssumption
  <2>2. event_set' \in [Poll!Slots -> Fds \cup {NoFd}]
    BY DEF PollInv, Poll!Slots, NoFd
  <2> QED
    BY <2>1, <2>2, PollCalls DEF Poll!Slots, PollTypes, Poll!PollTypeOK
<1>1. CASE Poll!AcceptClient
  <2>1. PICK c \in Waiting : Accept(c)
    BY <1>1, PollCalls DEF Poll!AcceptClient
  <2>2. SocketTypes'
    BY <1>0, <2>1, TypesAccept
  <2>3. /\ pc = "accept" /\ UNCHANGED <<revents, i, buf>>
        /\ (pc' = "dead" /\ UNCHANGED ready_number) \/ Poll!Handled
    BY <1>1 DEF Poll!AcceptClient
  <2>4. CASE Poll!Handled
    BY <1>0, <2>2, <2>3, <2>4, PollTypesHandled
  <2>5. CASE pc' = "dead" /\ UNCHANGED ready_number
    BY <1>0, <2>2, <2>3, <2>5, PollCalls, PollSockets
       DEF PollTypes, Poll!PollTypeOK, Poll!Slots, Poll!Bytes, Poll!Clients, Poll!NoFd
  <2> QED
    BY <2>3, <2>4, <2>5
<1>2. CASE Poll!ReadClient
  <2>1. PICK s : s = Poll!Min(Poll!ToRead)
    OBVIOUS
  <2>2. PICK c : c = Poll!Owner(event_set[s])
    OBVIOUS
  <2>3. s \in Poll!Slots /\ c \in Clients
    BY <1>2, <2>1, <2>2, PollScans DEF Poll!ReadClient, Open
  <2>4. PICK m : m = Min({sent[c] - got[c], MAXLINE})
    OBVIOUS
  <2>5. m = Poll!Min({Poll!Unread(c), MAXLINE})
    BY <2>4, PollSockets DEF Poll!Min, Min
  <2>6. /\ Poll!Unread(c) > 0 /\ buf' = Poll!Arriving(c, m) /\ Poll!Exchange(c, m, <<>>)
        /\ i' = s /\ pc' = "write" /\ pc = "scan" /\ UNCHANGED <<event_set, revents, ready_number>>
    BY <1>2, <2>1, <2>2, <2>5 DEF Poll!ReadClient
  <2>7. sent[c] - got[c] > 0 /\ got[c] \in Nat
    BY <1>0, <2>3, <2>6, PollSockets DEF SocketTypes
  <2>8. m \in Nat /\ m <= sent[c] - got[c]
    BY <1>0, <2>3, <2>4, <2>7, SomeUnread
  <2>9. buf' \in Seq(Bytes)
    BY <2>3, <2>6, <2>7, <2>8, PollCalls, PiecesTyped
  <2>10. SocketTypes'
    <3>1. Exchange(c, m, <<>>) /\ <<>> \in Seq(Bytes)
      BY <2>6, PollCalls
    <3> QED
      BY <1>0, <2>3, <2>8, <3>1, TypesExchange
  <2> QED
    BY <1>0, <2>3, <2>6, <2>9, <2>10, PollCalls, PollSockets
       DEF PollTypes, Poll!PollTypeOK, Poll!Slots, Poll!Bytes, Poll!Clients, Poll!NoFd
<1>3. CASE Poll!CloseClient
  <2>1. PICK s : s = Poll!Min(Poll!ToRead)
    OBVIOUS
  <2>2. /\ pc = "scan" /\ s \in Poll!Slots /\ i' = s + 1 /\ Poll!Handled
        /\ \E c : Close(c)
        /\ UNCHANGED <<revents, buf>>
    BY <1>3, <2>1, PollScans, PollCalls DEF Poll!CloseClient
  <2>3. SocketTypes'
    BY <1>0, <2>2, TypesClose
  <2> QED
    BY <1>0, <2>2, <2>3, PollTypesHandled
<1>4. CASE Poll!WriteClient
  <2>1. PICK c : c = Owner(event_set[i])
    OBVIOUS
  <2>2. /\ pc = "write" /\ buf' = <<>> /\ UNCHANGED <<event_set, revents>>
        /\ \/ pc' = "dead" /\ UNCHANGED <<link, peer, fdOf, sent, got, outbox, ready_number, i>>
           \/ Exchange(c, 0, buf) /\ i' = i + 1 /\ Poll!Handled
    BY <1>4, <2>1, PollSockets, PollCalls DEF Poll!WriteClient, Poll!sockVars
  <2>3. <<>> \in Seq(Bytes) /\ i \in Poll!Slots
    BY <2>2 DEF PollInv
  <2>4. CASE pc' = "dead" /\ UNCHANGED <<link, peer, fdOf, sent, got, outbox, ready_number, i>>
    <3>1. SocketTypes'
      BY <1>0, <2>4, TypesStay
    <3> QED
      BY <1>0, <2>2, <2>3, <2>4, <3>1, PollCalls, PollSockets
         DEF PollTypes, Poll!PollTypeOK, Poll!Slots, Poll!Bytes, Poll!Clients, Poll!NoFd
  <2>5. CASE Exchange(c, 0, buf) /\ i' = i + 1 /\ Poll!Handled
    <3>1. c \in Clients
      <4>1. PICK d \in Open : fdOf[d] = event_set[i]
        BY <2>2 DEF PollInv, Poll!TableMatches, Poll!Open, Open, Poll!Clients, Clients,
                    Poll!NoFd, NoFd
      <4> QED
        BY <2>1, <4>1, OwnerOf DEF PollInv, Open
    <3>2. 0 <= sent[c] - got[c]
      <4>1. got[c] \in Nat /\ sent[c] \in Nat /\ got[c] \in 0 .. sent[c]
        BY <1>0, <3>1 DEF SocketTypes, SocketsTypeOK
      <4> QED
        BY <4>1
    <3>3. SocketTypes'
      BY <1>0, <2>5, <3>1, <3>2, TypesExchange
    <3> QED
      BY <1>0, <2>2, <2>3, <2>5, <3>3, PollTypesHandled
  <2> QED
    BY <2>2, <2>4, <2>5
<1> QED
  BY <1>1, <1>2, <1>3, <1>4

LEMMA PollTypesStep ==
    ASSUME PollInv, PollInv', PollTypes, Poll!Server \/ Poll!Outside \/ UNCHANGED programsVars
    PROVE  PollTypes'
<1>1. CASE Poll!Outside
  <2>1. Environment /\ UNCHANGED <<pc, event_set, revents, ready_number, i, buf>>
    BY <1>1, PollSockets DEF Poll!Outside, Poll!pollVars
  <2>2. SocketTypes'
    BY <2>1, TypesEnvironment DEF PollTypes
  <2> QED
    BY <2>1, <2>2 DEF PollTypes, Poll!PollTypeOK, Poll!Slots, Poll!Bytes, Poll!Clients, Poll!NoFd
<1>2. CASE Poll!EndScan \/ UNCHANGED programsVars
  <2>1. /\ UNCHANGED <<link, peer, fdOf, sent, got, outbox>>
        /\ UNCHANGED <<event_set, revents, ready_number, i, buf>>
        /\ pc' = pc \/ pc' = "wait"
    BY <1>2 DEF Poll!EndScan, Poll!pollVars, Poll!sockVars, programsVars, sockVars
  <2>2. SocketTypes'
    BY <2>1, TypesStay DEF PollTypes
  <2> QED
    BY <2>1, <2>2 DEF PollTypes, Poll!PollTypeOK, Poll!Slots, Poll!Bytes, Poll!Clients, Poll!NoFd
<1> QED
  BY <1>1, <1>2, PollTypesPolls, PollTypesScans DEF Poll!Server

\* The scan counts down from the number of slots that are due.
LoopTypes ==
    /\ SocketTypes /\ pc \in {"wait", "scan", "past", "dead"}
    /\ ready_number \in 0 .. INIT_POLL_SIZE /\ i \in 0 .. INIT_POLL_SIZE
    /\ reported \subseteq Fds \cup {Loop!Listener}

LEMMA LoopTypesInit == Init /\ program = "loop" => LoopTypes
<1> SUFFICES ASSUME Init, program = "loop" PROVE LoopTypes
  OBVIOUS
<1>1. pc = "wait" /\ ready_number = 0 /\ i = 0 /\ reported = {}
  BY DEF Init, Loop!Start
<1>2. SocketTypes
  BY TypesInit DEF Init
<1>3. INIT_POLL_SIZE \in Nat
  BY ProgramsAssumption
<1> QED
  BY <1>1, <1>2, <1>3 DEF LoopTypes

LEMMA LoopCalls ==
    /\ Loop!Environment => Environment
    /\ \A c, m, s : Loop!Exchange(c, m, s) => Exchange(c, m, s)
<1>1. Loop!Clients = Clients
  BY DEF Loop!Clients, Clients
<1> QED
  BY <1>1 DEF Loop!Environment, Environment, Loop!Connect, Connect, Loop!Send, Send,
              Loop!Turn, Turn, Loop!Connected, Connected, Loop!Exchange, Exchange

LEMMA LoopDue ==
    ASSUME LoopInv, LoopTypes, pc = "scan", Loop!Due # {}
    PROVE  /\ ready_number >= 1
           /\ Loop!Min(Loop!Due) \in Array /\ INIT_POLL_SIZE \in Nat
           /\ Array \subseteq 1 .. INIT_POLL_SIZE - 1
<1>1. Loop!Due \subseteq Array /\ ready_number = Cardinality(Loop!Due)
  BY DEF Loop!Due, LoopInv, ArrayInv, ScanInv
<1>2. Loop!Min(Loop!Due) = Min(Loop!Due) /\ Loop!Due \in SUBSET Nat
  BY <1>1, ArrayFacts DEF Loop!Min, Min
<1>3. Loop!Min(Loop!Due) \in Loop!Due
  BY <1>2, MinIsLeast
<1>4. ready_number >= 1
  BY <1>1, ArrayFacts, PartOf
<1>5. INIT_POLL_SIZE \in Nat
  BY ProgramsAssumption
<1> QED
  BY <1>1, <1>3, <1>4, <1>5 DEF Array

LEMMA LoopTypesPolls ==
    ASSUME LoopInv, LoopTypes, Loop!Poll
    PROVE  LoopTypes'
<1> DEFINE ready == {s \in DOMAIN pollfd : Loop!Used(s) /\
                        IF s = 1 THEN Loop!Waiting # {}
                        ELSE Loop!Readable(Loop!Owner(pollfd[s].fd))}
<1>1. /\ ready \subseteq DOMAIN pollfd /\ \A s \in ready : Loop!Used(s)
      /\ reported' = {pollfd[s].fd : s \in ready}
      /\ ready_number' = Cardinality(ready) /\ i' = 1 /\ pc' = "scan"
      /\ UNCHANGED <<link, peer, fdOf, sent, got, outbox>>
  BY SameCardinality DEF Loop!Poll, Loop!sockVars
<1> HIDE DEF ready
<1>2. INIT_POLL_SIZE \in Nat /\ INIT_POLL_SIZE >= 1
  BY ProgramsAssumption
<1>3. Cardinality(ready) \in Nat /\ Cardinality(ready) <= INIT_POLL_SIZE
  <2>1. ready \in SUBSET Array
    BY <1>1 DEF LoopInv, ArrayInv
  <2>2. IsFiniteSet(Array) /\ Cardinality(Array) = INIT_POLL_SIZE - 1
    BY <1>2, FS_Interval DEF Array
  <2> QED
    BY <1>2, <2>1, <2>2, PartOf
<1>4. reported' \subseteq Fds \cup {Loop!Listener}
  <2> SUFFICES ASSUME NEW s \in ready PROVE pollfd[s].fd \in Fds \cup {Loop!Listener}
    BY <1>1
  <2>1. pollfd[s] \in Entry /\ pollfd[s].fd # Loop!NoFd
    BY <1>1 DEF LoopInv, ArrayInv, Loop!Used
  <2> QED
    BY <2>1, ArrayFacts DEF Entry
<1>5. SocketTypes'
  BY <1>1, TypesStay DEF LoopTypes
<1> QED
  BY <1>1, <1>2, <1>3, <1>4, <1>5 DEF LoopTypes, Loop!Listener

LEMMA LoopTypesStep ==
    ASSUME LoopInv, LoopTypes, Loop!Server \/ Loop!Outside \/ UNCHANGED programsVars
    PROVE  LoopTypes'
<1>1. ASSUME NEW s \in Array, pc = "scan", Loop!Due # {}, Loop!Handled(s), SocketTypes'
      PROVE  LoopTypes'
  <2>1. /\ ready_number' = ready_number - 1 /\ i' = s + 1 /\ pc' \in {"wait", "past", "scan"}
        /\ reported' = reported
    BY <1>1 DEF Loop!Handled
  <2>2. ready_number >= 1 /\ s \in 1 .. INIT_POLL_SIZE - 1 /\ INIT_POLL_SIZE \in Nat
        /\ ready_number \in 0 .. INIT_POLL_SIZE
    BY <1>1, LoopDue DEF LoopTypes
  <2>3. ready_number' \in 0 .. INIT_POLL_SIZE /\ i' \in 0 .. INIT_POLL_SIZE
    BY <2>1, <2>2
  <2> QED
    BY <1>1, <2>1, <2>3 DEF LoopTypes, Loop!Listener
<1>2. CASE Loop!Outside
  <2>1. Environment /\ UNCHANGED <<pc, ready_number, i, reported>>
    BY <1>2, LoopCalls DEF Loop!Outside, Loop!loopVars
  <2>2. SocketTypes'
    BY <2>1, TypesEnvironment DEF LoopTypes
  <2> QED
    BY <2>1, <2>2 DEF LoopTypes, Loop!Listener
<1>3. CASE UNCHANGED programsVars
  <2>1. /\ UNCHANGED <<link, peer, fdOf, sent, got, outbox>>
        /\ UNCHANGED <<pc, ready_number, i, reported>>
    BY <1>3 DEF programsVars, sockVars
  <2>2. SocketTypes'
    BY <2>1, TypesStay DEF LoopTypes
  <2> QED
    BY <2>1, <2>2 DEF LoopTypes, Loop!Listener
<1>4. CASE Loop!handle_connection_established
  <2>1. /\ pc = "scan" /\ Loop!Due # {} /\ Loop!Handled(1)
        /\ \E c \in Loop!Waiting : Loop!Accept(c)
    BY <1>4 DEF Loop!handle_connection_established
  <2>2. \E c \in Waiting : Accept(c)
    BY <2>1 DEF Loop!Clients, Clients, Loop!Open, Open, Loop!Waiting, Waiting,
                Loop!Accept, Accept, Loop!NewFd, NewFd, Loop!Min, Min
  <2>3. SocketTypes'
    BY <2>2, TypesAccept DEF LoopTypes
  <2> QED
    BY <1>1, <2>1, <2>3, ArrayFacts
<1>5. CASE Loop!handle_connection_closed
  <2>1. /\ pc = "scan" /\ Loop!Due # {} /\ Loop!Handled(Loop!Min(Loop!Due))
        /\ UNCHANGED <<link, peer, fdOf, sent, got, outbox>>
    BY <1>5 DEF Loop!handle_connection_closed, Loop!sockVars
  <2>2. SocketTypes'
    BY <2>1, TypesStay DEF LoopTypes
  <2> QED
    BY <1>1, <2>1, <2>2, LoopDue
<1>6. CASE Loop!handle_read
  <2>1. got \in [Clients -> Nat] /\ sent \in [Clients -> Nat] /\ SocketTypes
    BY DEF LoopTypes, SocketTypes
  <2>2. PICK s : s = Loop!Min(Loop!Due)
    OBVIOUS
  <2>3. PICK c : c = Loop!Owner(pollfd[s].fd)
    OBVIOUS
  <2>4. PICK m : m = sent[c] - got[c]
    OBVIOUS
  <2>5. /\ pc = "scan" /\ Loop!Due # {} /\ s # 1 /\ c \in Clients /\ m \in Nat
        /\ \/ /\ pc' = "dead" /\ UNCHANGED <<ready_number, i, reported>>
              /\ \E k \in 0 .. m : Exchange(c, m, OwnFrom(c, got[c], k))
           \/ /\ Loop!Handled(s)
              /\ Exchange(c, m, OwnFrom(c, got[c], m))
    BY <1>6, <2>1, <2>2, <2>3, <2>4, LoopReadsOf
  <2>6. PICK k \in 0 .. m : Exchange(c, m, OwnFrom(c, got[c], k))
    <3>1. m \in 0 .. m
      BY <2>5
    <3> QED
      BY <2>5, <3>1
  <2>7. SocketTypes'
    <3>1. OwnFrom(c, got[c], k) \in Seq(Bytes)
      BY <2>1, <2>5, PiecesTyped
    <3>2. m <= sent[c] - got[c]
      BY <2>1, <2>4, <2>5
    <3> QED
      BY <2>1, <2>5, <2>6, <3>1, <3>2, TypesExchange
  <2>8. CASE pc' = "dead" /\ UNCHANGED <<ready_number, i, reported>>
    BY <2>7, <2>8 DEF LoopTypes, Loop!Listener
  <2>9. CASE Loop!Handled(s)
    BY <1>1, <2>2, <2>5, <2>7, <2>9, LoopDue
  <2> QED
    BY <2>5, <2>8, <2>9
<1> QED
  BY <1>2, <1>3, <1>4, <1>5, <1>6, LoopTypesPolls DEF Loop!Server

LEMMA LoopTyped == LoopInv /\ LoopTypes => SocketsTypeOK /\ Loop!PollLoopTypeOK
<1> SUFFICES ASSUME LoopInv, LoopTypes PROVE SocketsTypeOK /\ Loop!PollLoopTypeOK
  OBVIOUS
<1>1. Accepted \subseteq Fds
  BY DEF Accepted, LoopInv, SocketsInv
<1>2. pollfd \in [1 .. INIT_POLL_SIZE - 1 ->
                    [fd : Fds \cup {Loop!Listener, Loop!NoFd}, revents : BOOLEAN]]
  BY ArrayFacts DEF LoopInv, ArrayInv, Array, Entry
<1>3. entries \subseteq Fds /\ refused \subseteq Fds
  BY <1>1 DEF LoopInv, ArrayInv
<1> QED
  BY <1>2, <1>3 DEF LoopTypes, SocketTypes, Loop!PollLoopTypeOK

\* n counts events while they are handled, and bytes while a client is read.
EpollTypes ==
    /\ SocketTypes /\ pc \in {"wait", "events", "read", "dead"}
    /\ missed \subseteq Fds \cup {0} /\ socket_fd \in Fds \cup {NoFd}
    /\ n \in (-1 .. Len(Text) + 1) \cup (0 .. BUFSIZE) /\ i \in 0 .. Len(Text) + 1
    /\ pc \in {"wait", "events"} => n <= Len(Text) + 1
    /\ pc = "read" => i <= Len(Text)

LEMMA EpollTypesInit == Init /\ program \in DOMAIN EpollNumber => EpollTypes
<1> SUFFICES ASSUME Init, program \in DOMAIN EpollNumber PROVE EpollTypes
  OBVIOUS
<1>1. pc = "wait" /\ missed = {} /\ n = 0 /\ i = 0 /\ socket_fd = NoFd
  BY DEF Init, Epoll!Start, Epoll!NoFd, NoFd
<1>2. SocketTypes
  BY TypesInit DEF Init
<1> QED
  BY <1>1, <1>2, TextLengths DEF EpollTypes

\* At most the listener and every open connection have an event.
LEMMA EventsFew ==
    ASSUME NEW ready \in SUBSET (Accepted \cup {0})
    PROVE  Cardinality(ready) \in 0 .. Len(Text) + 1
<1>1. IsFiniteSet(Clients) /\ Cardinality(Clients) = Len(Text) /\ Len(Text) \in Nat
  <2>1. Clients = 1 .. Len(Text) /\ Len(Text) \in Nat
    BY SocketsAssumption DEF Clients
  <2>2. \A r \in Nat : IsFiniteSet(1 .. r) /\ Cardinality(1 .. r) = r
    BY FS_Interval
  <2> QED
    BY <2>1, <2>2
<1>2. Open \in SUBSET Clients
  BY DEF Open
<1>3. IsFiniteSet(Open) /\ Cardinality(Open) \in Nat /\ Cardinality(Open) <= Len(Text)
  BY <1>1, <1>2, PartOf
<1>4. IsFiniteSet(Accepted) /\ Cardinality(Accepted) <= Cardinality(Open)
  BY <1>3, ImageIsFinite DEF Accepted
<1>5. /\ IsFiniteSet(Accepted \cup {0}) /\ Cardinality(Accepted) \in Nat
      /\ Cardinality(Accepted \cup {0}) <= Cardinality(Accepted) + 1
      /\ Cardinality(Accepted \cup {0}) \in Nat
  <2>1. Cardinality(Accepted) \in Nat
    BY <1>4, FS_CardinalityType
  <2>2. /\ IsFiniteSet(Accepted \cup {0})
        /\ \/ Cardinality(Accepted \cup {0}) = Cardinality(Accepted)
           \/ Cardinality(Accepted \cup {0}) = Cardinality(Accepted) + 1
    BY <1>4, FS_AddElement
  <2> QED
    BY <2>1, <2>2
<1>6. Cardinality(ready) \in Nat /\ Cardinality(ready) <= Cardinality(Accepted \cup {0})
  BY <1>5, PartOf
<1> QED
  BY <1>1, <1>3, <1>4, <1>5, <1>6

\* A step that takes one more event.
LEMMA EpollTypesTakes ==
    ASSUME EpollTypes, SocketTypes', missed' = missed, socket_fd' \in Fds \cup {NoFd},
           \/ /\ pc = "events" /\ i < n /\ n' = n
              /\ (pc' = "events" /\ i' = i + 1) \/ (pc' = "read" /\ i' = i)
           \/ pc = "read" /\ i' = i + 1 /\ pc' \in {"dead", "events"} /\ n' \in {-1, 0}
    PROVE  EpollTypes'
<1>1. Len(Text) \in Nat
  BY TextLengths
<1> QED
  BY <1>1 DEF EpollTypes, NoFd

LEMMA EpollTypesStep ==
    ASSUME EpollInv, EpollTypes, NEW w \in 1 .. 3,
           Epoll(w)!Server \/ Epoll(w)!Outside \/ UNCHANGED programsVars
    PROVE  EpollTypes'
<1>0. /\ Len(Text) \in Nat /\ SocketTypes /\ socket_fd \in Fds \cup {NoFd}
      /\ edges \cup Accepted \subseteq Fds \cup {0} /\ batch \subseteq Fds \cup {0}
  BY TextLengths DEF EpollTypes, Accepted, EpollInv, SocketsInv
<1>1. CASE Epoll(w)!Outside
  <2>1. Environment /\ UNCHANGED <<pc, n, i, socket_fd, missed>>
    BY <1>1, EpollSockets DEF Epoll!Outside
  <2>2. SocketTypes'
    BY <1>0, <2>1, TypesEnvironment
  <2> QED
    BY <2>1, <2>2 DEF EpollTypes, NoFd
<1>2. CASE UNCHANGED programsVars
  <2>1. /\ UNCHANGED <<link, peer, fdOf, sent, got, outbox>>
        /\ UNCHANGED <<pc, n, i, socket_fd, missed>>
    BY <1>2 DEF programsVars, sockVars
  <2>2. SocketTypes'
    BY <1>0, <2>1, TypesStay
  <2> QED
    BY <2>1, <2>2 DEF EpollTypes, NoFd
<1>3. CASE Epoll(w)!EpollWait
  <2>1. PICK ready : /\ ready \subseteq edges \cup Epoll(w)!Level
                     /\ n' = Epoll(w)!Cardinality(ready) /\ i' = 0
                     /\ missed' \subseteq missed /\ pc' = "events"
                     /\ UNCHANGED <<link, peer, fdOf, sent, got, outbox, socket_fd>>
    BY <1>3 DEF Epoll!EpollWait, Epoll!sockVars
  <2>2. Epoll(w)!Level \subseteq Accepted
    BY EpollSockets DEF Epoll!Level, Accepted
  <2>3. n' \in 0 .. Len(Text) + 1
    <3>1. ready \in SUBSET (Accepted \cup {0})
      BY <2>1, <2>2 DEF EpollInv
    <3>2. n' = Cardinality(ready)
      BY <2>1 DEF Epoll!Cardinality, Cardinality
    <3> QED
      BY <3>1, <3>2, EventsFew
  <2>4. SocketTypes'
    BY <1>0, <2>1, TypesStay
  <2> QED
    BY <1>0, <2>1, <2>3, <2>4 DEF EpollTypes, NoFd
<1>4. CASE Epoll(w)!CloseOnError
  <2>1. /\ pc = "events" /\ pc' = "events" /\ i < n /\ n' = n /\ i' = i + 1
        /\ UNCHANGED <<missed, socket_fd>>
        /\ \E c : Close(c)
    BY <1>4, EpollSockets DEF Epoll!CloseOnError, Epoll!Take
  <2>2. SocketTypes'
    BY <1>0, <2>1, TypesClose
  <2> QED
    BY <1>0, <2>1, <2>2, EpollTypesTakes
<1>5. CASE Epoll(w)!AcceptClient
  <2>1. /\ pc = "events" /\ pc' = "events" /\ i < n /\ n' = n /\ i' = i + 1
        /\ UNCHANGED <<missed, socket_fd>>
        /\ \E c \in Waiting : Accept(c)
    BY <1>5, EpollSockets DEF Epoll!AcceptClient, Epoll!Take
  <2>2. SocketTypes'
    BY <1>0, <2>1, TypesAccept
  <2> QED
    BY <1>0, <2>1, <2>2, EpollTypesTakes
<1>6. CASE Epoll(w)!ReadClient \/ Epoll(w)!NoteClient
  <2>1. /\ pc = "events" /\ i < n /\ n' = n
        /\ (pc' = "events" /\ i' = i + 1) \/ (pc' = "read" /\ i' = i)
        /\ socket_fd' \in batch \ {0} /\ UNCHANGED missed
        /\ UNCHANGED <<link, peer, fdOf, sent, got, outbox>>
    BY <1>6, EpollSockets DEF Epoll!ReadClient, Epoll!NoteClient, Epoll!TakeClient, Epoll!Take,
                              Epoll!sockVars
  <2>2. SocketTypes'
    BY <1>0, <2>1, TypesStay
  <2>3. socket_fd' \in Fds \cup {NoFd}
    BY <1>0, <2>1
  <2> QED
    BY <2>1, <2>2, <2>3, EpollTypesTakes
<1>7. CASE Epoll(w)!EchoClient
  <2>1. got \in [Clients -> Nat] /\ sent \in [Clients -> Nat] /\ BUFSIZE \in Nat
    BY <1>0, ProgramsAssumption DEF SocketTypes
  <2>2. PICK c \in Clients, len \in Nat, m \in Nat :
            /\ pc = "read" /\ len <= sent[c] - got[c] /\ len <= BUFSIZE /\ m <= len
            /\ Epoll(w)!ReadAndWrite(c, len, m) /\ UNCHANGED i
            /\ pc' = IF m = 0 THEN "dead" ELSE pc
    BY <1>7, <2>1, EpollReads
  <2>3. OwnFrom(c, got[c], m) \in Seq(Bytes)
    BY <2>1, PiecesTyped
  <2>4. /\ n' = len /\ Exchange(c, len, OwnFrom(c, got[c], m))
        /\ UNCHANGED <<socket_fd, missed>>
    BY <2>2, EpollWrites
  <2>5. SocketTypes'
    BY <1>0, <2>2, <2>3, <2>4, TypesExchange
  <2> QED
    BY <2>1, <2>2, <2>4, <2>5 DEF EpollTypes, NoFd
<1>8. CASE Epoll(w)!EndRead
  <2>1. /\ pc = "read" /\ i' = i + 1 /\ pc' \in {"dead", "events"} /\ n' \in {-1, 0}
        /\ UNCHANGED <<missed, socket_fd>>
        /\ UNCHANGED <<link, peer, fdOf, sent, got, outbox>> \/ \E c : Close(c)
    BY <1>8, EpollSockets DEF Epoll!EndRead, Epoll!sockVars
  <2>2. SocketTypes'
    BY <1>0, <2>1, TypesStay, TypesClose
  <2> QED
    BY <1>0, <2>1, <2>2, EpollTypesTakes
<1>9. CASE Epoll(w)!EndBatch
  <2>1. /\ pc = "events" /\ pc' = "wait" /\ missed' = missed \cup batch
        /\ UNCHANGED <<n, i, socket_fd>> /\ UNCHANGED <<link, peer, fdOf, sent, got, outbox>>
    BY <1>9 DEF Epoll!EndBatch, Epoll!sockVars
  <2>2. SocketTypes'
    BY <1>0, <2>1, TypesStay
  <2>3. missed' \subseteq Fds \cup {0}
    BY <1>0, <2>1 DEF EpollTypes
  <2> QED
    BY <2>1, <2>2, <2>3 DEF EpollTypes, NoFd
<1> QED
  BY <1>1, <1>2, <1>3, <1>4, <1>5, <1>6, <1>7, <1>8, <1>9
     DEF Epoll!Server, Epoll!Server1, Epoll!Server2, Epoll!Server3, Epoll!Dispatch

LEMMA EpollTyped ==
    ASSUME EpollInv, EpollTypes, NEW w
    PROVE  SocketsTypeOK /\ Epoll(w)!EpollTypeOK
<1>1. Accepted \cup {0} \subseteq Fds \cup {Epoll(w)!Listener}
  BY EpollSockets DEF Accepted, EpollInv, SocketsInv
<1>2. edges \subseteq Fds \cup {Epoll(w)!Listener} /\ batch \subseteq Fds \cup {Epoll(w)!Listener}
      /\ errs \subseteq batch
  BY <1>1 DEF EpollInv
<1> QED
  BY <1>2, EpollSockets
     DEF EpollTypes, SocketTypes, Epoll!EpollTypeOK, Epoll!NoFd, NoFd

\* The parent holds a connection between accept and its own close.
ForkTypes ==
    /\ SocketTypes /\ Fork!ForkTypeOK
    /\ pc \in {"fork", "close"} => current \in Clients

LEMMA ForkCalls ==
    /\ Fork!Clients = Clients /\ Fork!Bytes = Bytes /\ Fork!NoFd = NoFd
    /\ Fork!Waiting = Waiting
    /\ \A c : Fork!Accept(c) => Accept(c)
    /\ \A c, m, s : Fork!Exchange(c, m, s) => Exchange(c, m, s)
    /\ Fork!Environment => Environment
<1>1. /\ Fork!Clients = Clients /\ Fork!Bytes = Bytes /\ Fork!NoFd = NoFd
      /\ Fork!Waiting = Waiting /\ Fork!Open = Open
  BY DEF Fork!Clients, Clients, Fork!Bytes, Bytes, Fork!NoFd, NoFd, Fork!Waiting, Waiting,
         Fork!Open, Open
<1>2. \A c : Fork!Accept(c) => Accept(c)
  BY <1>1 DEF Fork!Accept, Accept, Fork!NewFd, NewFd, Fork!Min, Min
<1>3. \A c, m, s : Fork!Exchange(c, m, s) => Exchange(c, m, s)
  BY DEF Fork!Exchange, Exchange
<1>4. Fork!Environment => Environment
  BY <1>1 DEF Fork!Environment, Environment, Fork!Connect, Connect, Fork!Send, Send,
              Fork!Turn, Turn, Fork!Connected, Connected
<1> QED
  BY <1>1, <1>2, <1>3, <1>4

LEMMA ForkTypesInit == Init /\ program = "fork" => ForkTypes
<1> SUFFICES ASSUME Init, program = "fork" PROVE ForkTypes
  OBVIOUS
<1>1. /\ pc = "wait" /\ current = Fork!NoFd /\ sigchld = FALSE /\ handling = FALSE
      /\ child = [c \in Fork!Clients |-> "none"] /\ outbuf = [c \in Fork!Clients |-> <<>>]
  BY DEF Init, Fork!Start
<1>2. SocketTypes
  BY TypesInit DEF Init
<1>3. <<>> \in Seq(Fork!Bytes)
  OBVIOUS
<1> QED
  BY <1>1, <1>2, <1>3 DEF ForkTypes, Fork!ForkTypeOK

\* The types of Fork itself, spelt out.
LEMMA ForkTyped ==
    Fork!ForkTypeOK <=>
        /\ pc \in {"wait", "fork", "close"} /\ current \in Clients \cup {NoFd}
        /\ child \in [Clients -> {"none", "run", "zombie", "reaped"}]
        /\ outbuf \in [Clients -> Seq(Bytes)]
        /\ sigchld \in BOOLEAN /\ handling \in BOOLEAN
<1> QED
  BY ForkCalls DEF Fork!ForkTypeOK

LEMMA ForkTypesParent ==
    ASSUME ForkTypes, Fork!Parent
    PROVE  ForkTypes'
<1>0. Clients' = Clients /\ Bytes' = Bytes
  BY DEF Clients, Bytes
<1>1. CASE Fork!AcceptClient
  <2>1. PICK c \in Waiting : Accept(c) /\ current' = c
    BY <1>1, ForkCalls DEF Fork!AcceptClient
  <2>2. SocketTypes' /\ c \in Clients
    BY <2>1, TypesAccept DEF ForkTypes, Waiting
  <2>3. pc' = "fork" /\ UNCHANGED <<child, outbuf, sigchld, handling>>
    BY <1>1 DEF Fork!AcceptClient
  <2> QED
    BY <2>1, <2>2, <2>3, ForkTyped DEF ForkTypes, Fork!ForkTypeOK, Fork!Clients, Clients,
       Fork!Bytes, Fork!NoFd
<1>2. CASE Fork!Fork
  <2>1. /\ pc = "fork" /\ pc' = "close"
        /\ child' = [child EXCEPT ![current] = "run"] \/ child' = child
        /\ UNCHANGED <<link, peer, fdOf, sent, got, outbox, current, outbuf, sigchld, handling>>
    BY <1>2 DEF Fork!Fork, Fork!sockVars
  <2>2. SocketTypes'
    BY <2>1, TypesStay DEF ForkTypes
  <2> QED
    BY <2>1, <2>2 DEF ForkTypes, Fork!ForkTypeOK, Fork!Clients, Clients, Fork!Bytes, Fork!NoFd
<1>3. CASE Fork!ParentClose
  <2>1. /\ pc' = "wait" /\ fdOf' = [fdOf EXCEPT ![current] = NoFd]
        /\ link' = link \/ link' = [link EXCEPT ![current] = "closed"]
        /\ UNCHANGED <<peer, sent, got, outbox, current, child, outbuf, sigchld, handling>>
    BY <1>3, ForkCalls DEF Fork!ParentClose, Fork!forkVars
  <2>2. SocketTypes'
    BY <2>1 DEF ForkTypes, SocketTypes, SocketsTypeOK, Clients, Bytes, NoFd
  <2> QED
    BY <2>1, <2>2 DEF ForkTypes, Fork!ForkTypeOK, Fork!Clients, Clients, Fork!Bytes, Fork!NoFd
<1>4. CASE Fork!sigchld_handler
  <2>1. /\ UNCHANGED <<link, peer, fdOf, sent, got, outbox, pc, current, outbuf>>
        /\ sigchld' \in {FALSE, sigchld} /\ handling' \in {TRUE, FALSE, handling}
        /\ child' = child \/ \E c : child' = [child EXCEPT ![c] = "reaped"]
    BY <1>4 DEF Fork!sigchld_handler, Fork!Handler, Fork!sockVars
  <2>2. SocketTypes'
    BY <2>1, TypesStay DEF ForkTypes
  <2>3. child' \in [Clients -> {"none", "run", "zombie", "reaped"}]
    BY <2>1, ForkTyped DEF ForkTypes
  <2>4. sigchld' \in BOOLEAN /\ handling' \in BOOLEAN
    BY <2>1, ForkTyped DEF ForkTypes
  <2> QED
    BY <2>1, <2>2, <2>3, <2>4
       DEF ForkTypes, Fork!ForkTypeOK, Fork!Clients, Clients, Fork!Bytes, Fork!NoFd
<1> QED
  BY <1>1, <1>2, <1>3, <1>4 DEF Fork!Parent

LEMMA ForkTypesChild ==
    ASSUME ForkTypes, NEW c \in Clients, Fork!Child(c)
    PROVE  ForkTypes'
<1>1. CASE Fork!ChildExits(c)
  <2>1. /\ child' = [child EXCEPT ![c] = "zombie"] /\ sigchld' = TRUE
        /\ link' = link \/ link' = [link EXCEPT ![c] = "closed"]
        /\ UNCHANGED <<peer, fdOf, sent, got, outbox, pc, current, outbuf, handling>>
    BY <1>1 DEF Fork!ChildExits
  <2>2. SocketTypes'
    BY <2>1 DEF ForkTypes, SocketTypes, SocketsTypeOK, Clients, Bytes, NoFd
  <2> QED
    BY <2>1, <2>2 DEF ForkTypes, Fork!ForkTypeOK, Fork!Clients, Clients, Fork!Bytes, Fork!NoFd
<1>2. CASE Fork!ChildReads(c)
  <2>1. PICK b : b = Fork!rot13_char(Fork!Byte(c, got[c] + 1))
    OBVIOUS
  <2>2. PICK l : l = IF Len(outbuf[c]) <= LineSize THEN Append(outbuf[c], b) ELSE outbuf[c]
    OBVIOUS
  <2>3. /\ Fork!Unread(c) > 0
        /\ \E y \in {l, <<>>} : Exchange(c, 1, y)
        /\ \E y \in {l, <<>>} : outbuf' = [outbuf EXCEPT ![c] = y]
        /\ UNCHANGED <<pc, current, child, sigchld, handling>>
    BY <1>2, <2>1, <2>2, ForkCalls DEF Fork!ChildReads
  <2>4. got[c] \in Nat /\ sent[c] \in Nat /\ 1 <= sent[c] - got[c] /\ outbuf[c] \in Seq(Bytes)
    BY <2>3, ForkTyped DEF ForkTypes, SocketTypes, Fork!Unread
  <2>5. l \in Seq(Bytes) /\ <<>> \in Seq(Bytes)
    <3>1. b = Rotated(c, got[c] + 1)
      BY <2>1, RotatedByte DEF Fork!rot13_char, Fork!Byte, rot13_char, Byte
    <3>2. b \in Bytes
      BY <2>4, <3>1 DEF Rotated, Bytes
    <3> QED
      BY <2>2, <2>4, <3>2, AppendFacts
  <2>6. SocketTypes'
    BY <2>3, <2>4, <2>5, TypesExchange DEF ForkTypes
  <2>7. outbuf' \in [Clients -> Seq(Bytes)]
    BY <2>3, <2>5, ForkTyped DEF ForkTypes
  <2> QED
    BY <2>3, <2>6, <2>7, ForkCalls
       DEF ForkTypes, Fork!ForkTypeOK, Fork!Clients, Clients, Fork!Bytes, Fork!NoFd
<1> QED
  BY <1>1, <1>2 DEF Fork!Child

LEMMA ForkTypesStep ==
    ASSUME ForkTypes, \/ Fork!Parent \/ Fork!Outside \/ \E c \in Clients : Fork!Child(c)
                      \/ UNCHANGED programsVars
    PROVE  ForkTypes'
<1>1. CASE Fork!Outside
  <2>1. Environment /\ UNCHANGED <<pc, current, child, outbuf, sigchld, handling>>
    BY <1>1, ForkCalls DEF Fork!Outside, Fork!forkVars
  <2>2. SocketTypes'
    BY <2>1, TypesEnvironment DEF ForkTypes
  <2> QED
    BY <2>1, <2>2 DEF ForkTypes, Fork!ForkTypeOK, Fork!Clients, Clients, Fork!Bytes, Fork!NoFd
<1>2. CASE UNCHANGED programsVars
  <2>1. /\ UNCHANGED <<link, peer, fdOf, sent, got, outbox>>
        /\ UNCHANGED <<pc, current, child, outbuf, sigchld, handling>>
    BY <1>2 DEF programsVars, sockVars
  <2>2. SocketTypes'
    BY <2>1, TypesStay DEF ForkTypes
  <2> QED
    BY <2>1, <2>2 DEF ForkTypes, Fork!ForkTypeOK, Fork!Clients, Clients, Fork!Bytes, Fork!NoFd
<1> QED
  BY <1>1, <1>2, ForkTypesParent, ForkTypesChild

-----------------------------------------------------------------------------
(* Theorems *)

LEMMA TablesInvariant ==
    ProgramsSpec => [](/\ program = "poll" => PollInv
                       /\ program = "loop" => LoopInv)
<1> DEFINE TablesInv == /\ program = "poll" => PollInv
                        /\ program = "loop" => LoopInv
<1>1. Init => TablesInv
  BY PollInit, LoopInit
<1>2. TablesInv /\ [Next]_programsVars => TablesInv'
  BY OneProgram, PollStep, LoopStep
<1> QED
  BY <1>1, <1>2, PTL DEF ProgramsSpec

\* pollserver's table of pollfd holds exactly the open connections, each once,
\* between accept, close and the scan; the library's poll dispatcher calls back
\* exactly for what poll reported, although the callbacks of a scan add to and
\* delete from the array that is scanned, and never reads past its end.
THEOREM TablesMatchCorrect == ProgramsSpec => []TablesMatch
<1>1. PollInv => Poll!TableMatches
  BY DEF PollInv
<1>2. LoopInv => Loop!ScanMatchesPoll
  BY SameCardinality DEF LoopInv, ArrayInv, ScanInv, Loop!ScanMatchesPoll
<1> QED
  BY <1>1, <1>2, TablesInvariant, PTL DEF TablesMatch
=============================================================================
