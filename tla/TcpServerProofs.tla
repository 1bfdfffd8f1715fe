-------------------------- MODULE TcpServerProofs ----------------------------
(***************************************************************************)
(* Proofs about the server with worker threads, for any number of workers, *)
(* connections and descriptors: the loops are ready when main uses them,   *)
(* connections are balanced, no descriptor is polled by two loops, and     *)
(* events are given to the connection that owns the descriptor.            *)
(***************************************************************************)
EXTENDS TcpServer, FiniteSetTheorems, SequenceTheorems, TLAPS

Requests == [type : {"add", "remove"}, chan : Connections]
Maps == [Fds -> Connections \cup {NoChannel}]

\* What one request makes of a loop's map.
LEMMA EffectFacts ==
    ASSUME NEW i \in Workers, NEW r \in Requests, NEW map \in Maps
    PROVE  Loop(i)!Effect(r, map) =
               IF /\ FdOf[r.chan] \in Fds
                  /\ r.type = "remove" \/ map[FdOf[r.chan]] = NoChannel
               THEN [map EXCEPT ![FdOf[r.chan]] =
                         IF r.type = "add" THEN r.chan ELSE NoChannel]
               ELSE map
BY DEF Loop!Effect, Requests, Maps

-----------------------------------------------------------------------------
(* Types *)

\* thread_pool_new and tcp_server_init leave variables of the types of TypeOK.
LEMMA InitTypes == Init => TypeOK
<1> SUFFICES ASSUME Init PROVE TypeOK
  OBVIOUS
<1>1. PoolTypeOK
  BY ThreadNumberAssumption DEF Init, PoolInit, PoolTypeOK, Workers, Main, Free
<1> QED
  BY <1>1, ConnectionAssumption DEF Init, TypeOK, Channels, NoLoop

\* The start-up of the workers leaves the types alone.
LEMMA StartTypes == TypeOK /\ Start => TypeOK'
<1> SUFFICES ASSUME TypeOK, Start PROVE PoolTypeOK'
  BY DEF TypeOK, Start, serverVars
<1> USE ThreadNumberAssumption DEF TypeOK, PoolTypeOK, Workers
<1>1. CASE CreateThread
  BY <1>1 DEF CreateThread
<1>2. CASE MainLock
  BY <1>2 DEF MainLock
<1>3. CASE WaitForLoop \/ SpuriousWakeup
  BY <1>3 DEF WaitForLoop, SpuriousWakeup
<1>4. CASE NextThread
  BY <1>4 DEF NextThread
<1>5. ASSUME NEW i \in Workers, WorkerLock(i)
      PROVE  PoolTypeOK'
  BY <1>5 DEF WorkerLock
<1>6. ASSUME NEW i \in Workers, InitLoop(i)
      PROVE  PoolTypeOK'
  BY <1>6 DEF InitLoop
<1> QED
  BY <1>1, <1>2, <1>3, <1>4, <1>5, <1>6
  DEF Start, StartPool, StartStep, WorkerStart

\* A request of the right type joins a worker's list.
LEMMA QueueTypes ==
    ASSUME TypeOK, NEW i \in Workers, NEW r \in Requests,
           queue' = [queue EXCEPT ![i] = Append(@, r)]
    PROVE  queue' \in [Workers -> Seq(Requests)]
<1>1. queue[i] \in Seq(Requests)
  BY DEF TypeOK, Requests
<1>2. Append(queue[i], r) \in Seq(Requests)
  BY <1>1
<1> QED
  BY <1>2 DEF TypeOK, Requests

\* A request taken from a loop's queue leaves the types alone.
LEMMA ApplyTypes ==
    ASSUME TypeOK, NEW i \in Workers, ApplyRequest(i)
    PROVE  TypeOK'
<1> DEFINE r == Head(queue[i])
<1>1. queue[i] \in Seq(Requests) /\ queue[i] # <<>>
  BY DEF TypeOK, ApplyRequest, Requests
<1>2. r \in Requests /\ Tail(queue[i]) \in Seq(Requests)
  BY <1>1, HeadTailProperties
<1>3. Loop(i)!Effect(r, table[i]) \in Maps
  <2>1. table[i] \in Maps
    BY DEF TypeOK, Maps
  <2> HIDE DEF r
  <2> QED
    BY <1>2, <2>1, EffectFacts DEF Maps, Requests
<1>4. queue' \in [Workers -> Seq(Requests)] /\ table' \in [Workers -> Maps]
  BY <1>2, <1>3 DEF ApplyRequest, TypeOK, Requests, Maps
<1>5. interest' \in [Workers -> SUBSET Fds]
  BY DEF ApplyRequest, TypeOK
<1> QED
  BY <1>4, <1>5
  DEF ApplyRequest, TypeOK, PoolTypeOK, poolVars, Requests, Maps

\* While main sets up a connection, the connection has a loop.
MainInv == at # "accept" => /\ current \in Connections
                            /\ loopOf[current] \in Workers

\* No step leaves the types, and main hands over a connection it has.
LEMMA NextTypes == TypeOK /\ MainInv /\ [Next]_vars => TypeOK' /\ MainInv'
<1> SUFFICES ASSUME TypeOK, MainInv, [Next]_vars PROVE TypeOK' /\ MainInv'
  OBVIOUS
<1>1. CASE Start
  BY <1>1, StartTypes DEF Start, serverVars, MainInv
<1>2. ASSUME NEW c \in Connections, AcceptConnection(c)
      PROVE  TypeOK' /\ MainInv'
  <2>1. PoolTypeOK' /\ position \in Workers
    BY <1>2, ThreadNumberAssumption
    DEF AcceptConnection, GetLoop, TypeOK, PoolTypeOK, Workers
  <2> QED
    BY <1>2, <2>1 DEF AcceptConnection, TypeOK, PoolTypeOK, Channels, MainInv
<1>3. CASE RegisterConnection
  <2>1. current \in Connections /\ loopOf[current] \in Workers
    BY <1>3 DEF RegisterConnection, MainInv
  <2> DEFINE r == [type |-> "add", chan |-> current]
  <2>2. r \in Requests
    BY <2>1 DEF Requests
  <2>3. queue' = [queue EXCEPT ![loopOf[current]] = Append(@, r)]
    BY <1>3 DEF RegisterConnection
  <2>4. queue' \in [Workers -> Seq(Requests)]
    <3> HIDE DEF r
    <3> QED
      BY <2>1, <2>2, <2>3, QueueTypes
  <2> QED
    BY <1>3, <2>1, <2>4
    DEF RegisterConnection, TypeOK, PoolTypeOK, poolVars, MainInv, Requests
<1>4. CASE SetData
  BY <1>4 DEF SetData, TypeOK, PoolTypeOK, poolVars, MainInv
<1>5. ASSUME NEW i \in Workers, ApplyRequest(i)
      PROVE  TypeOK' /\ MainInv'
  BY <1>5, ApplyTypes DEF ApplyRequest, MainInv
<1>6. ASSUME NEW i \in Workers, NEW f \in Fds, NEW c \in Connections,
             ConnectionClosed(i, f, c)
      PROVE  TypeOK' /\ MainInv'
  <2>1. queue' \in [Workers -> Seq(Requests)]
    BY <1>6, QueueTypes DEF ConnectionClosed, Requests
  <2> QED
    BY <1>6, <2>1
    DEF ConnectionClosed, TypeOK, PoolTypeOK, poolVars, MainInv, Requests
<1>7. ASSUME NEW i \in Workers, NEW f \in Fds, NEW c \in Connections,
             Hangup(i, f, c)
      PROVE  TypeOK' /\ MainInv'
  BY <1>7 DEF Hangup, TypeOK, PoolTypeOK, poolVars, MainInv
<1>8. CASE UNCHANGED vars
  BY <1>8 DEF vars, poolVars, serverVars, TypeOK, PoolTypeOK, MainInv
<1> QED
  BY <1>1, <1>2, <1>3, <1>4, <1>5, <1>6, <1>7, <1>8 DEF Next, MainStep, Peer

\* Main has no connection in its hands before it serves.
LEMMA InitMain == Init => MainInv
BY DEF Init, MainInv

\* Every variable keeps its type; in particular the position of the
\* round-robin choice stays within the array of threads.
THEOREM TypeCorrect == Spec => []TypeOK
BY InitTypes, InitMain, NextTypes, PTL DEF Spec

-----------------------------------------------------------------------------
(* Start-up *)

\* The threads main has gone past have built their loops.
StartInv == /\ \A i \in Workers : i < starting => i \in ready
            /\ LoopsReady

\* Main leaves the wait for a worker only after it has seen its loop, and comes
\* to the next worker only then.
LEMMA StartUpStep ==
    ASSUME TypeOK, StartInv, [Next]_vars
    PROVE  StartInv'
<1> USE ThreadNumberAssumption DEF TypeOK, PoolTypeOK, StartInv, LoopsReady
<1>1. ASSUME UNCHANGED poolVars
      PROVE  StartInv'
  BY <1>1 DEF poolVars
<1>2. CASE CreateThread \/ MainLock \/ WaitForLoop \/ SpuriousWakeup
  BY <1>2 DEF CreateThread, MainLock, WaitForLoop, SpuriousWakeup
<1>3. CASE NextThread
  <2>1. \A i \in Workers : i <= starting => i \in ready
    BY <1>3 DEF NextThread, Workers
  <2>2. CASE starting + 1 < ThreadNumber
    BY <1>3, <2>1, <2>2 DEF NextThread, Workers
  <2>3. CASE ~(starting + 1 < ThreadNumber)
    <3>1. \A i \in Workers : i <= starting
      BY <2>3 DEF Workers
    <3>2. ready = Workers
      BY <2>1, <3>1
    <3> QED
      BY <1>3, <2>3, <3>2 DEF NextThread
  <2> QED
    BY <2>2, <2>3
<1>4. ASSUME NEW i \in Workers, WorkerLock(i)
      PROVE  StartInv'
  BY <1>4 DEF WorkerLock
<1>5. ASSUME NEW i \in Workers, InitLoop(i)
      PROVE  StartInv'
  <2>1. /\ ready' = ready \cup {i} /\ starting' = starting
        /\ stage' = "serve" => stage = "serve"
    BY <1>5 DEF InitLoop
  <2> QED
    BY <2>1
<1>6. CASE GetLoop
  BY <1>6 DEF GetLoop
<1> QED
  BY <1>1, <1>2, <1>3, <1>4, <1>5, <1>6
  DEF Next, Start, StartPool, StartStep, WorkerStart, AcceptConnection,
      MainStep, RegisterConnection, SetData, ApplyRequest, Peer,
      ConnectionClosed, Hangup, vars

\* However the threads are scheduled and whichever wakeups are spurious, when
\* main begins to accept every worker has built its loop.
THEOREM LoopsReadyCorrect == Spec => []LoopsReady
<1>1. Init => StartInv
  BY ThreadNumberAssumption DEF Init, PoolInit, StartInv, LoopsReady, Workers
<1>2. StartInv => LoopsReady
  BY DEF StartInv
<1> QED
  BY <1>1, <1>2, InitTypes, InitMain, NextTypes, StartUpStep, PTL DEF Spec

-----------------------------------------------------------------------------
(* Round robin *)

\* The workers before the position are one connection ahead of the others.
Given(i) == {c \in Connections : loopOf[c] = i}
Lead(q) == \A i \in Workers : /\ IsFiniteSet(Given(i))
                              /\ Assigned(i) = IF i < position THEN q + 1 ELSE q
BalanceInv == /\ \E q \in Nat : Lead(q)
              /\ \A c \in Connections : sock[c] = "unused" => loopOf[c] = NoLoop

\* thread_pool_get_loop gives the worker at position one connection and moves
\* on; at the end of the round all have one more.
LEMMA BalanceStep ==
    ASSUME TypeOK, BalanceInv, [Next]_vars
    PROVE  BalanceInv'
<1>1. ASSUME UNCHANGED <<position, loopOf>>,
             \A c \in Connections : sock'[c] = "unused" => sock[c] = "unused"
      PROVE  BalanceInv'
  BY <1>1 DEF BalanceInv, Lead, Given, Assigned
<1>2. ASSUME NEW c \in Connections, AcceptConnection(c)
      PROVE  BalanceInv'
  <2> PICK q \in Nat : Lead(q)
    BY DEF BalanceInv
  <2>1. /\ position \in Workers /\ loopOf[c] = NoLoop
        /\ loopOf' = [loopOf EXCEPT ![c] = position]
        /\ position' = IF position + 1 = ThreadNumber THEN 0 ELSE position + 1
    BY <1>2, ThreadNumberAssumption
    DEF AcceptConnection, GetLoop, TypeOK, PoolTypeOK, BalanceInv, Workers
  <2>2. /\ c \notin Given(position)
        /\ \A i \in Workers : {d \in Connections : loopOf'[d] = i} =
               IF i = position THEN Given(i) \cup {c} ELSE Given(i)
    BY <2>1 DEF Given, TypeOK, Workers, NoLoop
  <2>3. \A i \in Workers : /\ IsFiniteSet(Given(i))
                           /\ Cardinality(Given(i)) = IF i < position THEN q + 1 ELSE q
    BY DEF Lead, Assigned, Given
  <2>4. \A i \in Workers :
            /\ IsFiniteSet({d \in Connections : loopOf'[d] = i})
            /\ Cardinality({d \in Connections : loopOf'[d] = i}) =
                   IF i <= position THEN q + 1 ELSE q
    <3> TAKE i \in Workers
    <3>1. CASE i = position
      <4>1. /\ IsFiniteSet(Given(i) \cup {c})
            /\ Cardinality(Given(i) \cup {c}) = Cardinality(Given(i)) + 1
        BY <2>2, <2>3, <3>1, FS_AddElement
      <4> QED
        BY <2>1, <2>2, <2>3, <3>1, <4>1 DEF Workers
    <3>2. CASE i # position
      BY <2>1, <2>2, <2>3, <3>2 DEF Workers
    <3> QED
      BY <3>1, <3>2
  <2>5. \A d \in Connections : sock'[d] = "unused" => loopOf'[d] = NoLoop
    BY <1>2, <2>1 DEF AcceptConnection, TypeOK, BalanceInv
  <2>6. CASE position + 1 = ThreadNumber
    <3>1. \A i \in Workers : i <= position /\ ~(i < position')
      BY <2>1, <2>6, ThreadNumberAssumption DEF Workers
    <3>2. Lead(q + 1)'
      BY <2>4, <3>1 DEF Lead, Given, Assigned
    <3> QED
      BY <2>5, <3>2 DEF BalanceInv
  <2>7. CASE position + 1 # ThreadNumber
    <3>1. \A i \in Workers : i <= position <=> i < position'
      BY <2>1, <2>7 DEF Workers
    <3>2. Lead(q)'
      BY <2>4, <3>1 DEF Lead, Given, Assigned
    <3> QED
      BY <2>5, <3>2 DEF BalanceInv
  <2> QED
    BY <2>6, <2>7
<1>3. CASE Start
  BY <1>1, <1>3
  DEF Start, StartPool, StartStep, WorkerStart, serverVars, CreateThread,
      MainLock, WaitForLoop, SpuriousWakeup, NextThread, WorkerLock, InitLoop
<1>4. CASE MainStep
  BY <1>1, <1>4 DEF MainStep, RegisterConnection, SetData, poolVars
<1>5. ASSUME NEW i \in Workers, ApplyRequest(i)
      PROVE  BalanceInv'
  BY <1>1, <1>5 DEF ApplyRequest, poolVars
<1>6. CASE Peer
  BY <1>1, <1>6 DEF Peer, ConnectionClosed, Hangup, poolVars, TypeOK
<1>7. CASE UNCHANGED vars
  BY <1>1, <1>7 DEF vars, poolVars, serverVars
<1> QED
  BY <1>2, <1>3, <1>4, <1>5, <1>6, <1>7 DEF Next

\* Round robin: for any number of workers, the numbers of connections given to
\* two of them differ by one at most, failed accepts included.
THEOREM LoadBalancedCorrect == Spec => []LoadBalanced
<1>1. Init => BalanceInv
  <2> SUFFICES ASSUME Init PROVE BalanceInv
    OBVIOUS
  <2>1. \A i \in Workers : Given(i) = {} /\ ~(i < position)
    BY ThreadNumberAssumption DEF Init, PoolInit, Given, Workers, NoLoop
  <2>2. Lead(0)
    BY <2>1, FS_EmptySet DEF Lead, Assigned, Given
  <2> QED
    BY <2>2 DEF BalanceInv, Init
<1>2. TypeOK /\ BalanceInv => LoadBalanced
  <2> SUFFICES ASSUME TypeOK, BalanceInv, NEW i \in Workers, NEW j \in Workers
               PROVE  Assigned(i) - Assigned(j) \in -1..1
    BY DEF LoadBalanced
  <2>1. PICK q \in Nat : Lead(q)
    BY DEF BalanceInv
  <2> QED
    BY <2>1 DEF Lead
<1> QED
  BY <1>1, <1>2, InitTypes, InitMain, NextTypes, BalanceStep, PTL DEF Spec

-----------------------------------------------------------------------------
(* Every descriptor has one loop *)

Live(c) == sock[c] \in {"open", "eof"}

\* The descriptor of a live connection is its own.
SocketInv == /\ \A c \in Connections : Live(c) => FdOf[c] \in Fds
             /\ \A c, d \in Connections :
                    Live(c) /\ Live(d) /\ FdOf[c] = FdOf[d] => c = d

\* A connection whose add request is still to be made or applied.
Fresh(c) == /\ \/ sock[c] = "open"
               \/ sock[c] = "failed" /\ FdOf[c] = -1
            /\ \A i \in Workers, f \in Fds : table[i][f] # c

\* Add requests are for fresh connections of their loop, one for each.
Adds(i) == {k \in 1..Len(queue[i]) : queue[i][k].type = "add"}
AddInv ==
    /\ at = "register" => Fresh(current)
    /\ \A i \in Workers : \A k \in Adds(i) :
           /\ loopOf[queue[i][k].chan] = i
           /\ Fresh(queue[i][k].chan)
           /\ at = "register" => queue[i][k].chan # current
    /\ \A i \in Workers : \A j, k \in Adds(i) :
           queue[i][j].chan = queue[i][k].chan => j = k

\* No map holds a connection that was not accepted.
TableInv == \A c \in Connections : sock[c] = "unused" =>
                \A i \in Workers, f \in Fds : table[i][f] # c

RouteInv == SocketInv /\ AddInv /\ TableInv /\ EventsReachOwner

\* A new last element, and the loss of the first.
LEMMA AppendFacts ==
    ASSUME NEW s \in Seq(Requests), NEW r \in Requests
    PROVE  /\ Len(Append(s, r)) = Len(s) + 1
           /\ \A k \in 1..Len(s) + 1 :
                  Append(s, r)[k] = IF k = Len(s) + 1 THEN r ELSE s[k]
OBVIOUS

\* What is in a worker's list.
LEMMA AddFacts ==
    ASSUME TypeOK, NEW i \in Workers, NEW k \in Adds(i)
    PROVE  queue[i][k] \in Requests /\ queue[i][k].chan \in Connections
<1>1. queue[i] \in Seq(Requests) /\ k \in 1..Len(queue[i])
  BY DEF TypeOK, Requests, Adds
<1>2. queue[i][k] \in Requests
  BY <1>1, ElementOfSeq
<1> QED
  BY <1>2 DEF Requests

\* No socket is open and no request is made at the start.
LEMMA InitRoute == Init => RouteInv
BY ConnectionAssumption
DEF Init, RouteInv, SocketInv, AddInv, TableInv, EventsReachOwner, Live, Adds

\* accept returns a number no open socket has.
LEMMA AcceptRoute ==
    ASSUME TypeOK, RouteInv, NEW c \in Connections, AcceptConnection(c)
    PROVE  RouteInv'
<1> USE DEF RouteInv, TypeOK
<1>1. /\ at' = "register" /\ current' = c /\ sock[c] = "unused"
      /\ sock' = [sock EXCEPT ![c] = IF FdOf[c] = -1 THEN "failed" ELSE "open"]
      /\ loopOf' = [loopOf EXCEPT ![c] = position]
      /\ UNCHANGED <<queue, table, interest>>
      /\ FdOf[c] \notin OpenFds
  BY DEF AcceptConnection
<1>2. SocketInv'
  BY <1>1, ConnectionAssumption DEF SocketInv, Live, OpenFds
<1>3. Fresh(c)'
  BY <1>1 DEF Fresh, TableInv
<1>4. \A d \in Connections : d # c /\ Fresh(d) => Fresh(d)'
  BY <1>1 DEF Fresh
<1>5. \A i \in Workers : \A k \in Adds(i) :
          queue[i][k].chan \in Connections /\ queue[i][k].chan # c
  BY <1>1, AddFacts DEF AddInv, Fresh
<1>6. AddInv'
  <2>1. \A i \in Workers : Adds(i)' = Adds(i)
    BY <1>1 DEF Adds
  <2> QED
    BY <1>1, <1>3, <1>4, <1>5, <2>1 DEF AddInv
<1>7. TableInv'
  BY <1>1 DEF TableInv
<1>8. EventsReachOwner'
  BY <1>1 DEF EventsReachOwner
<1> QED
  BY <1>2, <1>6, <1>7, <1>8

\* tcp_connection_new appends the one add request of the connection to the
\* queue of its own loop.
LEMMA RegisterRoute ==
    ASSUME TypeOK, MainInv, RouteInv, RegisterConnection
    PROVE  RouteInv'
<1> USE DEF RouteInv
<1> DEFINE r == [type |-> "add", chan |-> current]
           l == loopOf[current]
<1>1. /\ at = "register" /\ at' = "setData"
      /\ queue' = [queue EXCEPT ![l] = Append(@, r)]
      /\ UNCHANGED <<current, sock, loopOf, table, interest>>
  BY DEF RegisterConnection
<1>2. l \in Workers /\ r \in Requests
  BY <1>1 DEF MainInv, Requests
<1>3. \A i \in Workers : queue[i] \in Seq(Requests)
  BY DEF TypeOK, Requests
<1>4. \A i \in Workers : i # l => queue'[i] = queue[i]
  BY <1>1, <1>2 DEF TypeOK
<1>5. /\ Len(queue'[l]) = Len(queue[l]) + 1
      /\ \A k \in 1..Len(queue[l]) + 1 :
             queue'[l][k] = IF k = Len(queue[l]) + 1 THEN r ELSE queue[l][k]
  <2>1. queue'[l] = Append(queue[l], r)
    BY <1>1, <1>2 DEF TypeOK
  <2> HIDE DEF r, l
  <2> QED
    BY <1>2, <1>3, <2>1, AppendFacts
<1>6. AddInv'
  <2> HIDE DEF l
  <2>1. \A i \in Workers : \A k \in Adds(i)' :
            \/ k \in Adds(i) /\ queue'[i][k] = queue[i][k]
            \/ i = l /\ k = Len(queue[l]) + 1 /\ queue'[i][k].chan = current
    BY <1>2, <1>3, <1>4, <1>5 DEF Adds
  <2>2. ASSUME NEW i \in Workers, NEW k \in Adds(i)'
        PROVE  loopOf'[queue'[i][k].chan] = i /\ Fresh(queue[i][k].chan)'
    <3> DEFINE c == queue'[i][k].chan
    <3>1. loopOf[c] = i /\ Fresh(c)
      <4>1. CASE k \in Adds(i) /\ queue'[i][k] = queue[i][k]
        BY <4>1 DEF AddInv
      <4>2. CASE i = l /\ c = current
        BY <1>1, <4>2 DEF AddInv, l
      <4> QED
        BY <2>1, <4>1, <4>2
    <3>2. /\ \/ sock'[c] = "open"
             \/ sock'[c] = "failed" /\ FdOf[c] = -1
          /\ \A j \in Workers, f \in Fds : table'[j][f] # c
      BY <1>1, <3>1 DEF Fresh
    <3> QED
      BY <1>1, <3>1, <3>2 DEF Fresh
  <2>3. \A i \in Workers : \A k \in Adds(i) : queue[i][k].chan # current
    BY <1>1 DEF AddInv
  <2>4. \A i \in Workers : \A j, k \in Adds(i)' :
            queue'[i][j].chan = queue'[i][k].chan => j = k
    <3> TAKE i \in Workers
    <3> TAKE j, k \in Adds(i)'
    <3>1. CASE j \in Adds(i) /\ k \in Adds(i)
      BY <2>1, <2>3, <3>1 DEF AddInv
    <3>2. CASE ~(j \in Adds(i) /\ k \in Adds(i))
      BY <2>1, <2>3, <3>2
    <3> QED
      BY <3>1, <3>2
  <2> QED
    BY <1>1, <2>2, <2>4 DEF AddInv
<1>7. SocketInv' /\ TableInv' /\ EventsReachOwner'
  BY <1>1 DEF SocketInv, TableInv, EventsReachOwner, Live
<1> QED
  BY <1>6, <1>7

\* A removal at the end of a queue says nothing about the adds in it.
LEMMA RemovalRoute ==
    ASSUME TypeOK, NEW l \in Workers, NEW r \in Requests, r.type = "remove",
           queue' = [queue EXCEPT ![l] = Append(@, r)]
    PROVE  \A i \in Workers : /\ Adds(i)' = Adds(i)
                              /\ \A k \in Adds(i) : queue'[i][k] = queue[i][k]
<1>1. \A i \in Workers : queue[i] \in Seq(Requests)
  BY DEF TypeOK, Requests
<1>2. \A i \in Workers : i # l => queue'[i] = queue[i]
  BY DEF TypeOK
<1>3. queue'[l] = Append(queue[l], r)
  BY DEF TypeOK
<1>4. /\ Len(queue'[l]) = Len(queue[l]) + 1
      /\ \A k \in 1..Len(queue[l]) + 1 :
             queue'[l][k] = IF k = Len(queue[l]) + 1 THEN r ELSE queue[l][k]
  BY <1>1, <1>3, AppendFacts
<1>5. Len(queue[l]) \in Nat
  BY <1>1
<1> QED
  BY <1>2, <1>4, <1>5 DEF Adds

\* What the peer does: a hang-up closes the descriptor and takes it out of the
\* epoll set, an end of file leaves a removal behind.
LEMMA PeerRoute ==
    ASSUME TypeOK, MainInv, RouteInv, Peer
    PROVE  RouteInv'
<1> USE DEF RouteInv
<1>1. PICK i \in Workers, f \in Fds, c \in Connections :
          ConnectionClosed(i, f, c) \/ Hangup(i, f, c)
  BY DEF Peer
<1>2. /\ f \in interest[i] /\ table[i][f] = c
      /\ FdOf[c] = f /\ loopOf[c] = i /\ Live(c)
      /\ UNCHANGED <<at, current, loopOf, table>>
  BY <1>1 DEF ConnectionClosed, Hangup, Dispatches, EventsReachOwner, Live
<1>3. /\ sock'[c] \in {"eof", "closed"}
      /\ \A d \in Connections : d # c => sock'[d] = sock[d]
  <2>1. CASE ConnectionClosed(i, f, c)
    BY <2>1 DEF ConnectionClosed, TypeOK
  <2>2. CASE Hangup(i, f, c)
    <3>1. \A d \in Connections : d # c /\ FdOf[d] = f => ~Live(d)
      BY <1>2 DEF SocketInv
    <3> QED
      BY <1>2, <2>2, <3>1 DEF Hangup, Live
  <2> QED
    BY <1>1, <2>1, <2>2
<1>4. \A j \in Workers : /\ Adds(j)' = Adds(j)
                         /\ \A k \in Adds(j) : queue'[j][k] = queue[j][k]
  <2>1. CASE ConnectionClosed(i, f, c)
    <3> DEFINE r == [type |-> "remove", chan |-> c]
    <3>1. r \in Requests /\ r.type = "remove"
      BY DEF Requests
    <3>2. queue' = [queue EXCEPT ![i] = Append(@, r)]
      BY <2>1 DEF ConnectionClosed
    <3> HIDE DEF r
    <3> QED
      BY <3>1, <3>2, RemovalRoute
  <2>2. CASE Hangup(i, f, c)
    BY <2>2 DEF Hangup, Adds
  <2> QED
    BY <1>1, <2>1, <2>2
<1>5. \A d \in Connections : Fresh(d) => Fresh(d)'
  BY <1>2, <1>3 DEF Fresh
<1>6. \A j \in Workers : \A k \in Adds(j) : queue[j][k].chan \in Connections
  BY AddFacts
<1>7. AddInv'
  <2>1. at = "register" => Fresh(current)'
    BY <1>2, <1>5 DEF AddInv, MainInv
  <2> QED
    BY <1>2, <1>4, <1>5, <1>6, <2>1 DEF AddInv
<1>8. SocketInv'
  BY <1>2, <1>3 DEF SocketInv, Live
<1>9. TableInv'
  BY <1>2, <1>3 DEF TableInv
<1>10. EventsReachOwner'
  <2>1. CASE ConnectionClosed(i, f, c)
    BY <1>2, <1>3, <2>1 DEF ConnectionClosed, EventsReachOwner, TypeOK
  <2>2. CASE Hangup(i, f, c)
    <3>1. \A j \in Workers : \A g \in interest'[j] :
              g \in interest[j] /\ table[j][g] # c
      BY <1>2, <2>2 DEF Hangup, EventsReachOwner, TypeOK
    <3> QED
      BY <1>2, <1>3, <3>1 DEF EventsReachOwner
  <2> QED
    BY <1>1, <2>1, <2>2
<1> QED
  BY <1>7, <1>8, <1>9, <1>10

\* A worker takes a request: an add puts only a connection of its own into the
\* map, and a removal only takes one out.
LEMMA ApplyRoute ==
    ASSUME TypeOK, MainInv, RouteInv, NEW i \in Workers, ApplyRequest(i)
    PROVE  RouteInv'
<1> USE DEF RouteInv
<1> DEFINE r == Head(queue[i])
           fd == FdOf[r.chan]
<1>1. /\ UNCHANGED <<at, current, loopOf, sock>>
      /\ queue[i] \in Seq(Requests) /\ queue[i] # <<>>
      /\ queue' = [queue EXCEPT ![i] = Tail(@)]
  BY DEF ApplyRequest, TypeOK, Requests
<1>2. /\ r \in Requests /\ r = queue[i][1]
      /\ Len(queue[i]) \in Nat \ {0}
      /\ Len(Tail(queue[i])) = Len(queue[i]) - 1
      /\ \A k \in 1..Len(Tail(queue[i])) : Tail(queue[i])[k] = queue[i][k + 1]
  BY <1>1, HeadTailProperties
<1> HIDE DEF r
<1>3. \A j \in Workers : queue'[j] = IF j = i THEN Tail(queue[i]) ELSE queue[j]
  BY <1>1 DEF TypeOK
<1>4. ASSUME NEW j \in Workers, NEW k \in Adds(j)'
      PROVE  \/ j = i /\ k + 1 \in Adds(i) /\ k + 1 # 1
                      /\ queue'[i][k] = queue[i][k + 1]
             \/ j # i /\ k \in Adds(j) /\ queue'[j][k] = queue[j][k]
  <2>1. k \in 1..Len(queue'[j]) /\ queue'[j][k].type = "add"
    BY DEF Adds
  <2>2. CASE j = i
    <3>1. queue'[i] = Tail(queue[i])
      BY <1>3
    <3>2. k + 1 \in 1..Len(queue[i]) /\ queue'[i][k] = queue[i][k + 1]
      BY <1>2, <2>1, <2>2, <3>1
    <3> QED
      BY <2>1, <2>2, <3>2 DEF Adds
  <2>3. CASE j # i
    BY <1>3, <2>1, <2>3 DEF Adds
  <2> QED
    BY <2>2, <2>3
<1>5. r.type = "add" => 1 \in Adds(i)
  BY <1>2 DEF Adds
<1>6. /\ table[i] \in Maps
      /\ table' = [table EXCEPT ![i] =
             IF fd \in Fds /\ (r.type = "remove" \/ table[i][fd] = NoChannel)
             THEN [table[i] EXCEPT ![fd] =
                       IF r.type = "add" THEN r.chan ELSE NoChannel]
             ELSE table[i]]
      /\ interest' = [interest EXCEPT ![i] =
             IF r.type = "remove" THEN @ \ {fd}
             ELSE IF fd \in Fds /\ table[i][fd] # NoChannel THEN @
             ELSE @ \cup ({fd} \cap Fds)]
  <2>1. table[i] \in Maps
    BY DEF TypeOK, Maps
  <2> QED
    BY <1>2, <2>1, EffectFacts DEF ApplyRequest, r
\* The connection an add request puts into the map.
<1> DEFINE Added(c) == r.type = "add" /\ fd \in Fds /\ r.chan = c
<1>7. \A c \in Connections : Added(c) =>
          sock[c] = "open" /\ loopOf[c] = i /\ FdOf[c] = fd
  BY <1>2, <1>5, ConnectionAssumption DEF AddInv, Fresh
<1>8. \A c \in Connections : \A j \in Workers, f \in Fds :
          table'[j][f] = c => table[j][f] = c \/ Added(c)
  BY <1>2, <1>6, ConnectionAssumption DEF Maps, Requests, TypeOK
<1>9. \A c \in Connections : Fresh(c) /\ ~Added(c) => Fresh(c)'
  BY <1>1, <1>8 DEF Fresh
<1>10. AddInv'
  <2>1. ASSUME at = "register"
        PROVE  Fresh(current)'
    <3>1. Fresh(current) /\ ~Added(current) /\ current \in Connections
      BY <1>2, <1>5, <2>1 DEF AddInv, MainInv
    <3>2. \A j \in Workers, f \in Fds : table'[j][f] # current
      BY <1>8, <3>1 DEF Fresh
    <3> QED
      BY <1>1, <3>1, <3>2 DEF Fresh
  <2>2. ASSUME NEW j \in Workers, NEW k \in Adds(j)'
        PROVE  /\ loopOf'[queue'[j][k].chan] = j
               /\ Fresh(queue[j][k].chan)'
               /\ at = "register" => queue'[j][k].chan # current
    <3> DEFINE c == queue'[j][k].chan
    <3>1. /\ loopOf[c] = j /\ Fresh(c) /\ c \in Connections
          /\ at = "register" => c # current
      BY <1>4, <2>2, AddFacts DEF AddInv
    <3>2. ~Added(c)
      BY <1>2, <1>4, <1>5, <1>7, <2>2, <3>1 DEF AddInv
    <3>3. \A l \in Workers, f \in Fds : table'[l][f] # c
      BY <1>8, <3>1, <3>2 DEF Fresh
    <3> QED
      BY <1>1, <3>1, <3>3 DEF Fresh
  <2>3. ASSUME NEW j \in Workers, NEW k \in Adds(j)', NEW l \in Adds(j)',
               queue'[j][k].chan = queue'[j][l].chan
        PROVE  k = l
    <3>1. k \in Nat /\ l \in Nat
      BY DEF Adds
    <3> QED
      BY <1>4, <2>3, <3>1 DEF AddInv
  <2> QED
    BY <1>1, <2>1, <2>2, <2>3 DEF AddInv
<1>11. SocketInv'
  BY <1>1 DEF SocketInv, Live
<1>12. TableInv'
  BY <1>1, <1>7, <1>8 DEF TableInv
<1>13. EventsReachOwner'
  <2> SUFFICES ASSUME NEW j \in Workers, NEW f \in interest'[j]
               PROVE  /\ table'[j][f] \in Connections
                      /\ FdOf[table'[j][f]] = f
                      /\ loopOf[table'[j][f]] = j
                      /\ sock[table'[j][f]] \in {"open", "eof"}
    BY <1>1 DEF EventsReachOwner
  <2>1. CASE j = i /\ f = fd
    <3>1. r.type = "add" /\ fd \in Fds
      BY <1>2, <1>6, <2>1 DEF Requests, TypeOK
    <3>2. CASE table[i][fd] = NoChannel
      BY <1>2, <1>6, <1>7, <2>1, <3>1, <3>2 DEF Requests, TypeOK, Maps
    <3>3. CASE table[i][fd] # NoChannel
      BY <1>6, <2>1, <3>1, <3>3 DEF EventsReachOwner, TypeOK
    <3> QED
      BY <3>2, <3>3
  <2>2. CASE ~(j = i /\ f = fd)
    BY <1>6, <2>2 DEF EventsReachOwner, TypeOK, Maps
  <2> QED
    BY <2>1, <2>2
<1> QED
  BY <1>10, <1>11, <1>12, <1>13

\* Every step preserves RouteInv.
LEMMA RouteStep ==
    ASSUME TypeOK, MainInv, RouteInv, [Next]_vars
    PROVE  RouteInv'
<1>1. CASE Start \/ SetData \/ UNCHANGED vars
  <2>1. /\ UNCHANGED <<loopOf, sock, queue, table, interest>>
        /\ UNCHANGED <<at, current>> \/ at' = "accept"
    BY <1>1 DEF Start, SetData, vars, serverVars
  <2> QED
    BY <2>1
    DEF RouteInv, SocketInv, AddInv, TableInv, EventsReachOwner, Live, Fresh,
        Adds
<1>2. ASSUME NEW c \in Connections, AcceptConnection(c)
      PROVE  RouteInv'
  BY <1>2, AcceptRoute
<1>3. CASE RegisterConnection
  BY <1>3, RegisterRoute
<1>4. ASSUME NEW i \in Workers, ApplyRequest(i)
      PROVE  RouteInv'
  BY <1>4, ApplyRoute
<1>5. CASE Peer
  BY <1>5, PeerRoute
<1> QED
  BY <1>1, <1>2, <1>3, <1>4, <1>5 DEF Next, MainStep

\* Every reachable state has the types and satisfies RouteInv.
LEMMA RouteCorrect == Spec => [](TypeOK /\ RouteInv)
BY InitTypes, InitMain, NextTypes, InitRoute, RouteStep, PTL DEF Spec

\* An event is given to the connection that owns the descriptor now, on the
\* loop that connection was given to, although maps keep entries of closed
\* descriptors whose numbers come back.
THEOREM EventsReachOwnerCorrect == Spec => []EventsReachOwner
BY RouteCorrect, PTL DEF RouteInv

\* No descriptor is polled by two loops.
THEOREM OneLoopPollsCorrect == Spec => []OneLoopPolls
<1>1. TypeOK /\ RouteInv => OneLoopPolls
  <2> SUFFICES ASSUME RouteInv, NEW i \in Workers, NEW j \in Workers,
                      NEW f \in interest[i], f \in interest[j]
               PROVE  i = j
    BY DEF OneLoopPolls
  <2>1. table[i][f] = table[j][f]
    BY DEF RouteInv, EventsReachOwner, SocketInv, Live
  <2> QED
    BY <2>1 DEF RouteInv, EventsReachOwner
<1> QED
  BY <1>1, RouteCorrect, PTL
=============================================================================
