-------------------------- MODULE EventLoopProofs ---------------------------
(***************************************************************************)
(* What holds of EventLoop for every set of callers, channels and          *)
(* descriptors, every capacity of the map and of the wakeup socket.        *)
(***************************************************************************)
EXTENDS EventLoop, SequenceTheorems, TLAPS

\* The names that stand for lists of variables, and the steps of a thread.
USE DEF vars, loopVars, mapVars, Threads

-----------------------------------------------------------------------------
(* Type correctness *)

\* The steps of event_loop_do_channel_event leave the types alone, whoever
\* calls it.
LEMMA SubmissionTypes ==
    ASSUME TypeOK, NEW t \in Threads, Submission(t)
    PROVE  TypeOK'
<1> USE ThreadAssumption DEF TypeOK, OwnerSteps, CallerSteps
<1>1. CASE LockToSubmit(t)
  BY <1>1 DEF LockToSubmit
<1>2. CASE AppendRequest(t)
  <2>1. /\ pending' \in Seq(Requests)
        /\ Len(pending') = Len(pending) + 1
    BY <1>2 DEF AppendRequest
  <2>2. cursor' \in 1..Len(pending') + 1
    BY <1>2, <2>1 DEF AppendRequest
  <2> QED
    BY <1>2, <2>1, <2>2 DEF AppendRequest
<1> QED
  BY <1>1, <1>2 DEF Submission

\* The element the owner has come to is a request.
LEMMA ElementIsRequest ==
    ASSUME TypeOK, NEW type, AtElement(type)
    PROVE  pending[cursor] \in Requests
BY ElementOfSeq DEF TypeOK, AtElement

\* The steps of event_loop_handle_pending_channel leave the types alone.
LEMMA HandlingTypes ==
    ASSUME TypeOK, Handling
    PROVE  TypeOK'
<1> USE ThreadAssumption DEF TypeOK, OwnerSteps, CallerSteps
<1>1. CASE LockPending
  BY <1>1 DEF LockPending
<1>2. CASE FinishPending
  BY <1>2 DEF FinishPending
<1>3. CASE IgnoreAdd
  BY <1>3 DEF IgnoreAdd, AtElement, NextElement
<1>4. CASE HandleAdd
  <2>1. ThisChannel \in Channels
    BY <1>4, ElementIsRequest DEF HandleAdd, epoll_add, ThisChannel, Requests
  <2>2. entries' \in [Fds -> Channels \cup {NoChannel}]
    BY <1>4, <2>1 DEF HandleAdd, epoll_add
  <2>3. nentries' \in Capacities
    BY <1>4 DEF HandleAdd, epoll_add, RoomFor
  <2> QED
    BY <1>4, <2>1, <2>2, <2>3 DEF HandleAdd, epoll_add, AtElement, NextElement
<1>5. CASE HandleRemove
  BY <1>5 DEF HandleRemove, epoll_del, AtElement, NextElement
<1> QED
  BY <1>1, <1>2, <1>3, <1>4, <1>5 DEF Handling

\* A callback starts a request of its own thread.
LEMMA CallTypes ==
    ASSUME TypeOK, NEW t \in Threads, NEW c \in Channels,
           NEW type \in {"add", "remove"}, Call(t, type, c)
    PROVE  /\ req' \in [Threads -> Requests]
           /\ pc' \in [Threads -> OwnerSteps \cup CallerSteps]
           /\ pc'[Owner] \in OwnerSteps
           /\ \A u \in Callers : pc'[u] \in CallerSteps
BY ThreadAssumption DEF TypeOK, Call, Requests, OwnerSteps, CallerSteps

\* The owner's steps in the dispatch leave the types alone.
LEMMA OwnerTypes ==
    ASSUME TypeOK, OwnerStep
    PROVE  TypeOK'
<1>1. CASE Submission(Owner)
  BY <1>1, SubmissionTypes
<1>2. CASE Handling
  BY <1>2, HandlingTypes
<1>3. ASSUME NEW c \in Channels, StartListening(c)
      PROVE  TypeOK'
  BY <1>3, CallTypes, ThreadAssumption DEF TypeOK, StartListening
<1>4. CASE RunLoop
  BY <1>4, ThreadAssumption DEF TypeOK, RunLoop, OwnerSteps, CallerSteps
<1>5. CASE Wait
  BY <1>5, ThreadAssumption
  DEF TypeOK, Wait, MayBeReady, OwnerSteps, CallerSteps
<1>6. CASE EndDispatch
  BY <1>6, ThreadAssumption DEF TypeOK, EndDispatch, OwnerSteps, CallerSteps
<1>7. ASSUME NEW f \in Fds, Callback(f)
      PROVE  TypeOK'
  <2>1. CASE HandleWakeup(f)
    BY <2>1, CapacityAssumption DEF TypeOK, HandleWakeup, Activate
  <2>2. ASSUME NEW c \in Channels \cup {NoChannel}, ReadMessage(f, c)
        PROVE  TypeOK'
    BY <2>2 DEF TypeOK, ReadMessage, Activate
  <2>3. ASSUME NEW c \in Channels, ReadClosed(f, c)
        PROVE  TypeOK'
    BY <2>3, CallTypes DEF TypeOK, ReadClosed, Activate
  <2>4. ASSUME NEW l \in Channels, NEW c \in Channels, AcceptHere(f, l, c)
        PROVE  TypeOK'
    BY <2>4, CallTypes DEF TypeOK, AcceptHere, Activate, AfterAccept
  <2> QED
    BY <1>7, <2>1, <2>2, <2>3, <2>4 DEF Callback
<1>8. ASSUME NEW f \in Fds, Hangup(f)
      PROVE  TypeOK'
  BY <1>8 DEF TypeOK, Hangup
<1> QED
  BY <1>1, <1>2, <1>3, <1>4, <1>5, <1>6, <1>7, <1>8 DEF OwnerStep

\* No step leaves the types.
LEMMA NextTypes ==
    ASSUME TypeOK, [Next]_vars
    PROVE  TypeOK'
<1>1. CASE OwnerStep
  BY <1>1, OwnerTypes
<1>2. ASSUME NEW t \in Callers, Submission(t)
      PROVE  TypeOK'
  BY <1>2, SubmissionTypes
<1>3. ASSUME NEW t \in Callers, WakeUp(t)
      PROVE  TypeOK'
  BY <1>3, ThreadAssumption, CapacityAssumption
  DEF TypeOK, WakeUp, OwnerSteps, CallerSteps
<1>4. ASSUME NEW t \in Callers, NEW c \in Channels, Accept(t, c)
      PROVE  TypeOK'
  BY <1>4, CallTypes DEF TypeOK, Accept, AfterAccept
<1>5. CASE UNCHANGED vars
  BY <1>5 DEF TypeOK
<1> QED
  BY <1>1, <1>2, <1>3, <1>4, <1>5 DEF Next, CallerStep

\* event_loop_init builds a loop of the types of TypeOK.
LEMMA InitTypes == Init => TypeOK
<1> SUFFICES ASSUME Init PROVE TypeOK
  OBVIOUS
<1>1. [type |-> "add", chan |-> Wake] \in Requests
  BY ChannelAssumption DEF Requests
<1>2. FdOf[Wake] \in Fds
  BY ChannelAssumption, FdAssumption DEF Permanent
<1> QED
  BY <1>1, <1>2, ThreadAssumption, ChannelAssumption, CapacityAssumption
  DEF Init, TypeOK, RoomFor, OwnerSteps, CallerSteps

\* Every variable keeps its type, the cursor stays on the pending list or one
\* past its end and the wakeup socket never holds more than its capacity.
THEOREM TypeCorrect == Spec => []TypeOK
BY InitTypes, NextTypes, PTL DEF Spec

-----------------------------------------------------------------------------
(* The mutex and the wakeup byte *)

\* Outside the walk the cursor stands at the head of the list.
LockInv == /\ MutexProtectsList
           /\ pc[Owner] # "traverse" => cursor = 1

\* A thread enters a critical section only by taking the mutex, and leaves it
\* only by giving it back; is_handle_pending follows the owner's walk.
LEMMA LockStep ==
    ASSUME TypeOK, LockInv, [Next]_vars
    PROVE  LockInv'
<1> USE ThreadAssumption
    DEF TypeOK, LockInv, MutexProtectsList, InCriticalSection, OwnerSteps,
        CallerSteps
<1>1. ASSUME NEW t \in Threads, LockToSubmit(t)
      PROVE  LockInv'
  BY <1>1 DEF LockToSubmit
<1>2. ASSUME NEW t \in Threads, AppendRequest(t)
      PROVE  LockInv'
  BY <1>2 DEF AppendRequest
<1>3. CASE LockPending
  BY <1>3 DEF LockPending
<1>4. CASE FinishPending
  BY <1>4 DEF FinishPending
<1>5. CASE IgnoreAdd \/ HandleAdd \/ HandleRemove
  <2>1. UNCHANGED <<mutex, isHandlePending, pc>> /\ pc[Owner] = "traverse"
    BY <1>5 DEF IgnoreAdd, HandleAdd, epoll_add, HandleRemove, epoll_del, AtElement, NextElement
  <2> QED
    BY <2>1
<1>6. ASSUME NEW c \in Channels, StartListening(c)
      PROVE  LockInv'
  BY <1>6 DEF StartListening, Call
<1>7. CASE RunLoop \/ Wait \/ EndDispatch
  BY <1>7 DEF RunLoop, Wait, EndDispatch
<1>8. ASSUME NEW f \in Fds, Callback(f) \/ Hangup(f)
      PROVE  LockInv'
  <2>1. UNCHANGED loopVars /\ pc[Owner] = "dispatch"
    BY <1>8 DEF Callback, Hangup, HandleWakeup, ReadMessage, ReadClosed,
                AcceptHere, Activate
  <2>2. pc' = pc \/ pc' = [pc EXCEPT ![Owner] = "lock"]
    BY <1>8 DEF Callback, Hangup, HandleWakeup, ReadMessage, ReadClosed,
                AcceptHere, Activate, Call
  <2> QED
    BY <2>1, <2>2
<1>9. ASSUME NEW t \in Callers, WakeUp(t)
      PROVE  LockInv'
  BY <1>9 DEF WakeUp
<1>10. ASSUME NEW t \in Callers, NEW c \in Channels, Accept(t, c)
       PROVE  LockInv'
  BY <1>10 DEF Accept, Call
<1>11. CASE UNCHANGED vars
  BY <1>11
<1> QED
  BY <1>1, <1>2, <1>3, <1>4, <1>5, <1>6, <1>7, <1>8, <1>9, <1>10, <1>11
  DEF Next, OwnerStep, CallerStep, Submission, Handling

\* Nobody holds the mutex of a new loop.
LEMMA InitLock == Init => LockInv
BY ThreadAssumption DEF Init, LockInv, MutexProtectsList, InCriticalSection

\* In every reachable state the mutex and the flag are where LockInv has them.
LEMMA LockCorrect == Spec => [](TypeOK /\ LockInv)
BY InitTypes, NextTypes, InitLock, LockStep, PTL DEF Spec

\* The mutex is held by the one thread in a critical section, and
\* is_handle_pending is set exactly while the owner walks the list.
THEOREM MutexCorrect == Spec => []MutexProtectsList
BY LockCorrect, PTL DEF LockInv

\* The assert at the head of event_loop_do_channel_event never fails.
THEOREM AssertHolds ==
    Spec => [](\A t \in Threads : pc[t] = "append" => isHandlePending = 0)
<1>1. TypeOK /\ LockInv =>
          \A t \in Threads : pc[t] = "append" => isHandlePending = 0
  BY ThreadAssumption
  DEF TypeOK, LockInv, MutexProtectsList, InCriticalSection
<1> QED
  BY <1>1, LockCorrect, PTL

\* Whoever makes the list non-empty writes a byte or is the owner, who walks the
\* list before it polls again.
LEMMA WakeupStep ==
    ASSUME TypeOK, NoLostWakeup, [Next]_vars
    PROVE  NoLostWakeup'
<1> USE ThreadAssumption DEF TypeOK, NoLostWakeup
<1>1. ASSUME NEW t \in Threads, LockToSubmit(t)
      PROVE  NoLostWakeup'
  BY <1>1 DEF LockToSubmit
<1>2. ASSUME NEW t \in Threads, AppendRequest(t)
      PROVE  NoLostWakeup'
  <2>1. CASE t = Owner
    BY <1>2, <2>1 DEF AppendRequest
  <2>2. CASE t \in Callers
    BY <1>2, <2>2 DEF AppendRequest
  <2> QED
    BY <2>1, <2>2
<1>3. CASE LockPending
  BY <1>3 DEF LockPending
<1>4. CASE FinishPending
  BY <1>4 DEF FinishPending
<1>5. CASE IgnoreAdd \/ HandleAdd \/ HandleRemove
  <2>1. UNCHANGED <<pending, wake, pc>>
    BY <1>5 DEF IgnoreAdd, HandleAdd, epoll_add, HandleRemove, epoll_del, NextElement
  <2> QED
    BY <2>1
<1>6. ASSUME NEW c \in Channels, StartListening(c)
      PROVE  NoLostWakeup'
  BY <1>6 DEF StartListening, Call
<1>7. CASE RunLoop \/ Wait \/ EndDispatch
  BY <1>7 DEF RunLoop, Wait, EndDispatch
<1>8. ASSUME NEW f \in Fds, Callback(f) \/ Hangup(f)
      PROVE  NoLostWakeup'
  <2>1. pc[Owner] = "dispatch"
    BY <1>8 DEF Callback, Hangup, HandleWakeup, ReadMessage, ReadClosed,
                AcceptHere, Activate
  <2>2. pc' = pc \/ pc' = [pc EXCEPT ![Owner] = "lock"]
    BY <1>8 DEF Callback, Hangup, HandleWakeup, ReadMessage, ReadClosed,
                AcceptHere, Activate, Call
  <2> QED
    BY <2>1, <2>2
<1>9. ASSUME NEW t \in Callers, WakeUp(t)
      PROVE  NoLostWakeup'
  BY <1>9, CapacityAssumption DEF WakeUp
<1>10. ASSUME NEW t \in Callers, NEW c \in Channels, Accept(t, c)
       PROVE  NoLostWakeup'
  BY <1>10 DEF Accept, Call
<1>11. CASE UNCHANGED vars
  BY <1>11
<1> QED
  BY <1>1, <1>2, <1>3, <1>4, <1>5, <1>6, <1>7, <1>8, <1>9, <1>10, <1>11
  DEF Next, OwnerStep, CallerStep, Submission, Handling

\* The owner never sleeps on pending requests that nobody will wake it for.
THEOREM WakeupCorrect == Spec => []NoLostWakeup
<1>1. Init => NoLostWakeup
  BY DEF Init, NoLostWakeup
<1> QED
  BY <1>1, InitTypes, NextTypes, WakeupStep, PTL DEF Spec

-----------------------------------------------------------------------------
(* The map, the epoll set and the requests in flight *)

\* A channel whose add is in flight, and one whose removal is.
Fresh(c) == /\ ~Registered(c)
            /\ \/ sock[c] = "open"
               \/ sock[c] = "failed" /\ FdOf[c] = -1
Leaving(c) == /\ Registered(c)
              /\ FdOf[c] \in interest \ batch
              /\ sock[c] = "eof"

Submitting(t) == pc[t] \in {"lock", "append"}

SockInv ==
    /\ \A c, d \in Channels :
           /\ sock[c] \in {"open", "eof"}
           /\ sock[d] \in {"open", "eof"}
           /\ FdOf[c] = FdOf[d]
           => c = d
    /\ \A c \in Channels : sock[c] \in {"open", "eof"} => FdOf[c] \in Fds
    /\ \A c \in Channels : sock[c] = "unused" => ~Registered(c)

MapInv ==
    /\ \A f \in Fds : entries[f] # NoChannel =>
           FdOf[entries[f]] = f /\ f < nentries
    /\ \A f \in interest : /\ entries[f] # NoChannel
                           /\ sock[entries[f]] \in {"open", "eof"}
    /\ batch \subseteq interest

\* What is known of a request while thread t submits it, and while it is
\* element i of the list.
SubmittedOK(t) == IF req[t].type = "add" THEN Fresh(req[t].chan)
                  ELSE t = Owner /\ Leaving(req[t].chan)
ListedOK(i) == IF pending[i].type = "add" THEN Fresh(pending[i].chan)
               ELSE /\ pc[Owner] \in {"lockPending", "traverse"}
                    /\ Leaving(pending[i].chan)

RequestInv == /\ \A t \in Threads : Submitting(t) => SubmittedOK(t)
              /\ \A i \in cursor..Len(pending) : ListedOK(i)

\* A channel has one request in flight at most.
DistinctInv ==
    /\ \A t, u \in Threads : Submitting(t) /\ Submitting(u) /\ t # u =>
           req[t].chan # req[u].chan
    /\ \A i, j \in cursor..Len(pending) : i # j =>
           pending[i].chan # pending[j].chan
    /\ \A t \in Threads : \A i \in cursor..Len(pending) : Submitting(t) =>
           req[t].chan # pending[i].chan

MapsAgree == SockInv /\ MapInv /\ RequestInv /\ DistinctInv /\ NoCrash

IInv == TypeOK /\ LockInv /\ MapsAgree

\* A loop with its wakeup channel, and perhaps a listening one, satisfies the
\* inductive invariant.
LEMMA InitIInv == Init => IInv
<1> SUFFICES ASSUME Init PROVE IInv
  OBVIOUS
<1>1. FdOf[Wake] \in Fds /\ FdOf \in [Channels -> Fds \cup {-1}]
  BY ChannelAssumption, FdAssumption DEF Permanent
<1>2. SockInv
  BY <1>1, ChannelAssumption, FdAssumption
  DEF Init, SockInv, Registered, Permanent
<1>3. MapInv
  BY <1>1, ChannelAssumption DEF Init, MapInv, RoomFor
<1>4. RequestInv /\ DistinctInv /\ NoCrash
  BY DEF Init, RequestInv, DistinctInv, Submitting, NoCrash
<1> QED
  BY <1>2, <1>3, <1>4, InitTypes, InitLock DEF IInv, MapsAgree

\* Steps that change neither sockets, map and epoll set nor the requests in
\* flight keep what is known of them, also when the batch gets smaller.
LEMMA FrameStep ==
    ASSUME IInv, UNCHANGED <<pending, cursor, mapVars, sock, req, crash>>,
           batch' \subseteq batch,
           \A t \in Threads : Submitting(t)' => Submitting(t),
           pc[Owner] \in {"lockPending", "traverse"} =>
               pc'[Owner] \in {"lockPending", "traverse"}
    PROVE  MapsAgree'
<1>1. SockInv' /\ NoCrash'
  BY DEF IInv, MapsAgree, SockInv, Registered, NoCrash
<1>2. MapInv'
  BY DEF IInv, MapsAgree, MapInv
<1>3. RequestInv'
  BY DEF IInv, MapsAgree, TypeOK, RequestInv, SubmittedOK, ListedOK, Fresh,
          Leaving, Registered
<1>4. DistinctInv'
  BY DEF IInv, MapsAgree, DistinctInv
<1> QED
  BY <1>1, <1>2, <1>3, <1>4 DEF MapsAgree

\* A thread submits a request for a channel that has none in flight.
LEMMA CallStep ==
    ASSUME IInv, TypeOK', NEW t \in Threads, NEW c \in Channels,
           NEW type \in {"add", "remove"}, Call(t, type, c),
           ~Submitting(t),
           UNCHANGED <<pending, cursor, mapVars, crash>>,
           batch' \subseteq batch,
           \A d \in Channels \ {c} : sock'[d] = sock[d],
           ~Fresh(c), ~Leaving(c),
           IF type = "add" THEN Fresh(c)' ELSE t = Owner /\ Leaving(c)',
           SockInv', MapInv',
           t = Owner => pc[Owner] \notin {"lockPending", "traverse"}
    PROVE  MapsAgree'
<1> USE ThreadAssumption
<1>1. /\ req'[t] = [type |-> type, chan |-> c]
      /\ pc'[t] = "lock"
      /\ \A u \in Threads \ {t} : req'[u] = req[u] /\ pc'[u] = pc[u]
  BY DEF Call, IInv, TypeOK
<1>2. \A u \in Threads : Submitting(u) => req[u].chan # c
  BY DEF IInv, MapsAgree, RequestInv, SubmittedOK, ListedOK
<1>3. \A i \in cursor..Len(pending) : pending[i].chan # c
  BY DEF IInv, MapsAgree, RequestInv, SubmittedOK, ListedOK
<1>4. \A i \in cursor..Len(pending) : pending[i] \in Requests
  BY ElementOfSeq DEF IInv, TypeOK
<1>5. \A d \in Channels \ {c} : /\ Fresh(d) => Fresh(d)'
                                /\ Leaving(d) => Leaving(d)'
  BY DEF Fresh, Leaving, Registered
<1>6. RequestInv'
  <2>1. ASSUME NEW u \in Threads, Submitting(u)'
        PROVE  SubmittedOK(u)'
    <3>1. CASE u = t
      BY <1>1, <3>1 DEF SubmittedOK
    <3>2. CASE u # t
      <4>1. Submitting(u) /\ req'[u] = req[u] /\ req[u].chan \in Channels \ {c}
        BY <1>1, <1>2, <2>1, <3>2 DEF Submitting, IInv, TypeOK, Requests
      <4> QED
        BY <1>5, <4>1 DEF IInv, MapsAgree, RequestInv, SubmittedOK
    <3> QED
      BY <3>1, <3>2
  <2>2. ASSUME NEW i \in cursor..Len(pending)
        PROVE  ListedOK(i)'
    <3>1. pending[i].chan \in Channels \ {c}
      BY <1>3, <1>4 DEF Requests
    <3>2. t = Owner => pending[i].type = "add"
      BY DEF IInv, MapsAgree, RequestInv, ListedOK
    <3>3. t # Owner => pc'[Owner] = pc[Owner]
      BY <1>1
    <3> QED
      BY <1>5, <3>1, <3>2, <3>3 DEF IInv, MapsAgree, RequestInv, ListedOK
  <2> QED
    BY <2>1, <2>2 DEF RequestInv
<1>7. DistinctInv'
  BY <1>1, <1>2, <1>3 DEF IInv, MapsAgree, DistinctInv, Submitting
<1> QED
  BY <1>6, <1>7 DEF IInv, MapsAgree, NoCrash

\* accept returns a number no open socket has, so the new channel is the only
\* open one with it.
LEMMA AcceptStep ==
    ASSUME IInv, TypeOK', NEW t \in Threads, NEW c \in Channels,
           Call(t, "add", c), ~Submitting(t),
           UNCHANGED <<pending, cursor, mapVars, crash>>,
           batch' \subseteq batch,
           sock[c] = "unused", FdOf[c] \notin OpenFds,
           sock' = [sock EXCEPT ![c] = AfterAccept(c)],
           t = Owner => pc[Owner] \notin {"lockPending", "traverse"}
    PROVE  MapsAgree'
<1>1. FdOf[c] \in Fds \cup {-1}
  BY FdAssumption
<1>2. ~Fresh(c) /\ ~Leaving(c) /\ ~Registered(c)
  BY DEF Fresh, Leaving, IInv, MapsAgree, SockInv
<1>3. Fresh(c)'
  BY <1>2, FdAssumption DEF Fresh, Registered, AfterAccept, IInv, TypeOK
<1>4. SockInv'
  BY <1>1, <1>2, FdAssumption
  DEF IInv, TypeOK, MapsAgree, SockInv, AfterAccept, OpenFds, Registered
<1>5. MapInv'
  BY DEF IInv, TypeOK, MapsAgree, MapInv
<1>6. \A d \in Channels \ {c} : sock'[d] = sock[d]
  BY DEF IInv, TypeOK
<1> QED
  BY <1>2, <1>3, <1>4, <1>5, <1>6, CallStep

\* Callbacks of the dispatcher that make a request, or close a descriptor.
LEMMA CallbackStep ==
    ASSUME IInv, TypeOK', NEW f \in Fds, Callback(f) \/ Hangup(f)
    PROVE  MapsAgree'
<1> USE ThreadAssumption DEF Activate
<1>1. CASE HandleWakeup(f) \/ \E c \in Channels \cup {NoChannel} : ReadMessage(f, c)
  <2>1. UNCHANGED <<pending, cursor, mapVars, sock, req, pc>>
        /\ batch' \subseteq batch
    BY <1>1 DEF HandleWakeup, ReadMessage
  <2>2. crash' = crash
    BY <1>1, ChannelAssumption
    DEF HandleWakeup, ReadMessage, IInv, MapsAgree, MapInv, NoCrash
  <2> QED
    BY <2>1, <2>2, FrameStep DEF Submitting
<1>2. ASSUME NEW c \in Channels, ReadClosed(f, c)
      PROVE  MapsAgree'
  <2>1. FdOf[c] = f /\ f \in interest /\ Registered(c)
    BY <1>2, ChannelAssumption
    DEF ReadClosed, IInv, MapsAgree, MapInv, Registered, Connections
  <2>2. Leaving(c)' /\ ~Fresh(c) /\ ~Leaving(c)
    BY <1>2, <2>1 DEF ReadClosed, Leaving, Fresh, Registered, IInv, TypeOK
  <2>3. sock[c] \in {"open", "eof"}
    BY <1>2, <2>1 DEF ReadClosed, IInv, MapsAgree, MapInv, Registered
  <2>4. SockInv'
    BY <1>2, <2>3 DEF ReadClosed, IInv, TypeOK, MapsAgree, SockInv, Registered
  <2>5. MapInv'
    BY <1>2 DEF ReadClosed, IInv, TypeOK, MapsAgree, MapInv
  <2>6. \A d \in Channels \ {c} : sock'[d] = sock[d]
    BY <1>2 DEF ReadClosed, IInv, TypeOK
  <2> QED
    BY <1>2, <2>2, <2>4, <2>5, <2>6, CallStep DEF ReadClosed, Submitting
<1>3. ASSUME NEW l \in Channels, NEW c \in Channels, AcceptHere(f, l, c)
      PROVE  MapsAgree'
  BY <1>3, AcceptStep DEF AcceptHere, Acceptable, Submitting
<1>4. CASE Hangup(f)
  <2> DEFINE d == entries[f]
  <2>1. /\ f \in interest /\ d \in Channels /\ FdOf[d] = f
        /\ sock[d] \in {"open", "eof"} /\ Registered(d)
    BY <1>4 DEF Hangup, IInv, TypeOK, MapsAgree, MapInv, Registered
  <2>2. \A c \in Channels \ {d} : sock'[c] = sock[c]
    BY <1>4, <2>1 DEF Hangup, IInv, TypeOK, MapsAgree, SockInv
  <2>3. sock'[d] = "closed"
    BY <1>4, <2>1 DEF Hangup, IInv, TypeOK
  <2>4. SockInv'
    BY <1>4, <2>2, <2>3 DEF Hangup, IInv, TypeOK, MapsAgree, SockInv, Registered
  <2>5. MapInv'
    BY <1>4, <2>1, <2>2 DEF Hangup, IInv, TypeOK, MapsAgree, MapInv
  <2>6. ASSUME NEW c \in Channels, Fresh(c)
        PROVE  Fresh(c)'
    BY <1>4, <2>1, <2>2, <2>6 DEF Hangup, Fresh, Registered
  <2>7. \A i \in cursor..Len(pending) : pending[i] \in Requests
    BY ElementOfSeq DEF IInv, TypeOK
  <2>8. RequestInv'
    <3>1. \A t \in Threads : Submitting(t) => req[t].type = "add"
      BY <1>4 DEF Hangup, IInv, TypeOK, Requests, MapsAgree, RequestInv,
                  SubmittedOK, Submitting
    <3>2. \A i \in cursor..Len(pending) : pending[i].type = "add"
      BY <1>4 DEF Hangup, IInv, MapsAgree, RequestInv, ListedOK
    <3>3. \A t \in Threads : Submitting(t) => SubmittedOK(t)'
      BY <1>4, <2>6, <3>1 DEF Hangup, IInv, TypeOK, Requests, MapsAgree,
                              RequestInv, SubmittedOK
    <3>4. \A i \in cursor..Len(pending) : ListedOK(i)'
      BY <1>4, <2>6, <2>7, <3>2 DEF Hangup, Requests, IInv, MapsAgree,
                                    RequestInv, ListedOK
    <3> QED
      BY <1>4, <3>3, <3>4 DEF Hangup, RequestInv, Submitting
  <2>9. DistinctInv' /\ NoCrash'
    BY <1>4 DEF Hangup, IInv, MapsAgree, DistinctInv, Submitting, NoCrash
  <2> QED
    BY <2>4, <2>5, <2>8, <2>9 DEF MapsAgree
<1> QED
  BY <1>1, <1>2, <1>3, <1>4 DEF Callback

\* Appending a request of a channel that may make it, at the end of the list.
LEMMA AppendStep ==
    ASSUME IInv, TypeOK', NEW t \in Threads, AppendRequest(t)
    PROVE  MapsAgree'
<1> USE ThreadAssumption
<1>1. isHandlePending = 0 /\ pc[Owner] # "traverse" /\ cursor = 1
  BY DEF IInv, TypeOK, LockInv, MutexProtectsList, InCriticalSection,
         AppendRequest
<1>2. /\ pending' = Append(pending, req[t])
      /\ Len(pending') = Len(pending) + 1
      /\ \A i \in 1..Len(pending) : pending'[i] = pending[i]
      /\ pending'[Len(pending) + 1] = req[t]
      /\ Len(pending) \in Nat
  BY DEF IInv, TypeOK, AppendRequest
<1>3. \A u \in Threads : Submitting(u)' <=> Submitting(u) /\ u # t
  BY DEF IInv, TypeOK, AppendRequest, Submitting
<1>4. SockInv' /\ MapInv' /\ NoCrash'
  BY <1>1 DEF IInv, MapsAgree, SockInv, MapInv, NoCrash, AppendRequest, Registered
<1>5. /\ \A c \in Channels : /\ Fresh(c)' <=> Fresh(c)
                             /\ Leaving(c)' <=> Leaving(c)
      /\ UNCHANGED <<req, cursor>>
  BY DEF AppendRequest, Fresh, Leaving, Registered
<1>6. RequestInv'
  <2>1. ASSUME NEW u \in Threads, Submitting(u)'
        PROVE  SubmittedOK(u)'
    BY <1>3, <1>5, <2>1
    DEF IInv, TypeOK, Requests, MapsAgree, RequestInv, SubmittedOK
  <2>2. ASSUME NEW i \in 1..Len(pending)
        PROVE  ListedOK(i)'
    <3>1. pending[i] \in Requests /\ ListedOK(i)
      BY <1>1, ElementOfSeq DEF IInv, TypeOK, MapsAgree, RequestInv
    <3>2. pending[i].type = "add" \/ pc'[Owner] = "lockPending"
      BY <1>1, <3>1 DEF ListedOK, AppendRequest, IInv, TypeOK
    <3> QED
      BY <1>2, <1>5, <3>1, <3>2 DEF ListedOK, Requests
  <2>3. ASSUME NEW n, n = Len(pending) + 1
        PROVE  ListedOK(n)'
    <3>1. SubmittedOK(t) /\ req[t] \in Requests
      BY DEF AppendRequest, Submitting, IInv, TypeOK, MapsAgree, RequestInv
    <3>2. t = Owner => pc'[Owner] = "lockPending"
      BY DEF AppendRequest, IInv, TypeOK
    <3> QED
      BY <1>2, <1>5, <2>3, <3>1, <3>2 DEF SubmittedOK, ListedOK, Requests
  <2> QED
    <3>1. \A i \in cursor'..Len(pending') :
              i \in 1..Len(pending) \/ i = Len(pending) + 1
      BY <1>1, <1>2, <1>5
    <3> QED
      BY <2>1, <2>2, <2>3, <3>1 DEF RequestInv
<1>7. DistinctInv'
  BY <1>1, <1>2, <1>3, <1>5
  DEF IInv, MapsAgree, DistinctInv, AppendRequest, Submitting
<1> QED
  BY <1>4, <1>6, <1>7 DEF MapsAgree

\* The walk of the pending list.
LEMMA HandlingStep ==
    ASSUME IInv, TypeOK', Handling
    PROVE  MapsAgree'
<1> USE ThreadAssumption
<1>1. CASE LockPending
  BY <1>1, FrameStep DEF LockPending, IInv, TypeOK, LockInv, Submitting
<1>2. CASE FinishPending
  <2>1. SockInv' /\ MapInv' /\ NoCrash'
    BY <1>2 DEF FinishPending, IInv, MapsAgree, SockInv, MapInv, NoCrash, Registered
  <2>2. \A t \in Threads : Submitting(t)' => Submitting(t)
    BY <1>2 DEF FinishPending, IInv, TypeOK, Submitting
  <2>3. RequestInv' /\ DistinctInv'
    BY <1>2, <2>2
    DEF FinishPending, IInv, MapsAgree, RequestInv, DistinctInv, SubmittedOK,
        Fresh, Leaving, Registered
  <2> QED
    BY <2>1, <2>3 DEF MapsAgree
<1> SUFFICES ASSUME IgnoreAdd \/ HandleAdd \/ HandleRemove,
                    NEW c, c = pending[cursor].chan,
                    NEW fd, fd = FdOf[c]
             PROVE  MapsAgree'
  BY <1>1, <1>2 DEF Handling
<1>3. /\ pc[Owner] = "traverse" /\ pc' = pc /\ req' = req
      /\ pending' = pending /\ cursor' = cursor + 1
      /\ sock' = sock /\ batch' = batch
      /\ cursor \in 1..Len(pending)
      /\ cursor \in cursor..Len(pending)
      /\ \A i \in cursor'..Len(pending) : i \in cursor..Len(pending) /\ i # cursor
  BY DEF IgnoreAdd, HandleAdd, epoll_add, HandleRemove, epoll_del, AtElement, NextElement, IInv, TypeOK
<1>4. /\ \A i \in cursor..Len(pending) : pending[i] \in Requests
      /\ c \in Channels /\ FdOf[c] \in Fds \cup {-1}
  <2>1. \A i \in cursor..Len(pending) : pending[i] \in Requests
    BY ElementOfSeq DEF IInv, TypeOK
  <2>2. c \in Channels
    BY <1>3, <2>1 DEF Requests
  <2> QED
    BY <2>1, <2>2, FdAssumption
<1>5. /\ \A i \in cursor'..Len(pending) : pending[i].chan # c
      /\ \A t \in Threads : Submitting(t) => req[t].chan # c
  <2>1. DistinctInv /\ pc[Owner] = "traverse"
    BY <1>3 DEF IInv, MapsAgree
  <2>2. \A t \in Threads : Submitting(t) => req[t].chan # pending[cursor].chan
    BY <1>3, <2>1 DEF DistinctInv
  <2>3. \A i \in cursor'..Len(pending) : pending[i].chan # pending[cursor].chan
    BY <1>3, <2>1 DEF DistinctInv
  <2> QED
    BY <2>2, <2>3
<1>6. DistinctInv'
  BY <1>3 DEF IInv, MapsAgree, DistinctInv, Submitting
<1>7. ASSUME \A d \in Channels \ {c} : /\ Fresh(d) => Fresh(d)'
                                       /\ Leaving(d) => Leaving(d)'
      PROVE  RequestInv'
  <2>1. ASSUME NEW t \in Threads, Submitting(t)'
        PROVE  SubmittedOK(t)'
    <3>1. SubmittedOK(t) /\ req'[t] = req[t] /\ req[t].chan \in Channels \ {c}
      BY <1>3, <1>5, <2>1
      DEF Submitting, IInv, TypeOK, Requests, MapsAgree, RequestInv
    <3> QED
      BY <1>7, <3>1 DEF SubmittedOK
  <2>2. ASSUME NEW i \in cursor..Len(pending), i \in cursor'..Len(pending)
        PROVE  ListedOK(i)'
    <3>1. ListedOK(i) /\ pending[i].chan \in Channels \ {c}
      BY <1>4, <1>5, <2>2 DEF IInv, Requests, MapsAgree, RequestInv
    <3> QED
      BY <1>3, <1>7, <3>1 DEF ListedOK
  <2> QED
    BY <1>3, <2>1, <2>2 DEF RequestInv
<1>8. CASE IgnoreAdd
  <2>1. SockInv' /\ MapInv' /\ NoCrash'
    BY <1>3, <1>8 DEF IgnoreAdd, IInv, MapsAgree, SockInv, MapInv, NoCrash, Registered
  <2>2. \A d \in Channels : /\ Fresh(d) => Fresh(d)'
                            /\ Leaving(d) => Leaving(d)'
    BY <1>3, <1>8 DEF IgnoreAdd, Fresh, Leaving, Registered
  <2> QED
    BY <1>6, <1>7, <2>1, <2>2 DEF MapsAgree
<1>9. CASE HandleAdd
  <2>1. /\ fd \in Fds /\ Fresh(c) /\ sock[c] = "open"
        /\ entries' = [entries EXCEPT ![fd] = c]
        /\ interest' = interest \cup {fd}
    BY <1>3, <1>9, FdAssumption DEF HandleAdd, epoll_add, AtElement, IInv, MapsAgree, RequestInv, ListedOK,
                       Fresh, ThisChannel
  <2>2. entries[fd] = NoChannel /\ fd \notin interest
    BY <1>9, <2>1 DEF HandleAdd, epoll_add, IInv, MapsAgree, MapInv, ThisChannel
  <2>3. NoCrash'
    BY <1>4, <1>9, <2>1, <2>2 DEF HandleAdd, epoll_add, NoCrash, OpenFds, ThisChannel
  <2>4. \A f \in Fds : entries'[f] = IF f = fd THEN c ELSE entries[f]
    BY <2>1 DEF IInv, TypeOK
  <2>5. SockInv'
    BY <1>3, <2>1, <2>4 DEF IInv, MapsAgree, SockInv, Registered
  <2>6. nentries' \in Nat /\ nentries \in Nat /\ nentries <= nentries' /\ fd < nentries'
    BY <1>9, <2>1, CapacityAssumption, FdAssumption
    DEF HandleAdd, epoll_add, RoomFor, IInv, TypeOK, ThisChannel
  <2>7. MapInv'
    <3>1. ASSUME NEW f \in Fds, entries'[f] # NoChannel
          PROVE  FdOf[entries'[f]] = f /\ f < nentries'
      <4>1. CASE f = fd
        BY <2>4, <2>6, <4>1
      <4>2. CASE f # fd
        <5>1. FdOf[entries[f]] = f /\ f < nentries
          BY <2>4, <3>1, <4>2 DEF IInv, MapsAgree, MapInv
        <5> QED
          BY <2>4, <2>6, <4>2, <5>1, FdAssumption
      <4> QED
        BY <4>1, <4>2
    <3>2. ASSUME NEW f \in interest'
          PROVE  entries'[f] # NoChannel /\ sock'[entries'[f]] \in {"open", "eof"}
      <4>1. CASE f = fd
        BY <1>3, <1>4, <2>1, <2>4, <4>1, ChannelAssumption
      <4>2. CASE f # fd
        BY <1>3, <2>1, <2>4, <3>2, <4>2 DEF IInv, TypeOK, MapsAgree, MapInv
      <4> QED
        BY <4>1, <4>2
    <3> QED
      BY <1>3, <2>1, <3>1, <3>2 DEF IInv, MapsAgree, MapInv
  <2>8. \A d \in Channels \ {c} : /\ Fresh(d) => Fresh(d)'
                                  /\ Leaving(d) => Leaving(d)'
    BY <1>3, <2>1, <2>2, <2>4, ChannelAssumption
    DEF Fresh, Leaving, Registered
  <2> QED
    BY <1>6, <1>7, <2>3, <2>5, <2>7, <2>8 DEF MapsAgree
<1>10. CASE HandleRemove
  <2>1. /\ fd \in Fds /\ Leaving(c)
        /\ entries' = [entries EXCEPT ![fd] = NoChannel]
        /\ interest' = interest \ {fd}
        /\ nentries' = nentries
    BY <1>3, <1>10 DEF HandleRemove, epoll_del, AtElement, IInv, MapsAgree, RequestInv,
                       ListedOK, ThisChannel
  <2>2. NoCrash'
    BY <1>10, <2>1, ChannelAssumption, <1>4
    DEF HandleRemove, epoll_del, NoCrash, Leaving, Registered
  <2>3. \A f \in Fds : entries'[f] = IF f = fd THEN NoChannel ELSE entries[f]
    BY <2>1 DEF IInv, TypeOK
  <2>4. SockInv'
    BY <1>3, <2>1, <2>3, ChannelAssumption
    DEF IInv, MapsAgree, SockInv, Registered
  <2>5. MapInv'
    BY <1>3, <2>1, <2>3 DEF IInv, TypeOK, MapsAgree, MapInv, Leaving
  <2>6. \A d \in Channels \ {c} : /\ Fresh(d) => Fresh(d)'
                                  /\ Leaving(d) => Leaving(d)'
    BY <1>3, <1>4, <2>1, <2>3, ChannelAssumption
    DEF Fresh, Leaving, Registered
  <2> QED
    BY <1>6, <1>7, <2>2, <2>4, <2>5, <2>6 DEF MapsAgree
<1> QED
  BY <1>8, <1>9, <1>10

\* Every step preserves the inductive invariant.
LEMMA StepIInv ==
    ASSUME IInv, [Next]_vars
    PROVE  IInv'
<1> USE ThreadAssumption
<1>1. TypeOK' /\ LockInv'
  BY NextTypes, LockStep DEF IInv
<1> SUFFICES MapsAgree'
  BY <1>1 DEF IInv
<1>2. ASSUME NEW t \in Threads, LockToSubmit(t)
      PROVE  MapsAgree'
  BY <1>2, FrameStep DEF LockToSubmit, IInv, TypeOK, Submitting
<1>3. ASSUME NEW t \in Threads, AppendRequest(t)
      PROVE  MapsAgree'
  BY <1>1, <1>3, AppendStep
<1>4. CASE Handling
  BY <1>1, <1>4, HandlingStep
<1>5. ASSUME NEW c \in Channels, StartListening(c)
      PROVE  MapsAgree'
  <2>1. c \in Permanent
    BY <1>5 DEF StartListening, Permanent
  <2>2. \A d \in Channels : FdOf[d] = FdOf[c] => d = c
    BY <2>1, FdAssumption
  <2>3. FdOf[c] \notin OpenFds /\ AfterAccept(c) = "open"
    BY <1>5, <2>1, <2>2, FdAssumption DEF StartListening, OpenFds, AfterAccept
  <2> QED
    BY <1>1, <1>5, <2>3, AcceptStep DEF StartListening, Submitting
<1>6. CASE RunLoop \/ EndDispatch
  BY <1>6, FrameStep DEF RunLoop, EndDispatch, IInv, TypeOK, Submitting
<1>7. CASE Wait
  <2>1. \A t \in Threads : /\ Submitting(t)' => Submitting(t)
                           /\ Submitting(t) => req[t].type = "add"
    BY <1>7 DEF Wait, Submitting, IInv, TypeOK, Requests, MapsAgree, RequestInv, SubmittedOK
  <2>2. \A i \in cursor..Len(pending) : pending[i].type = "add"
    BY <1>7 DEF Wait, IInv, MapsAgree, RequestInv, ListedOK
  <2>3. batch' \subseteq interest
    BY <1>7 DEF Wait, MayBeReady
  <2>4. SockInv' /\ MapInv' /\ NoCrash'
    BY <1>7, <2>3 DEF Wait, IInv, MapsAgree, SockInv, MapInv, NoCrash, Registered
  <2>6. DistinctInv'
    BY <1>7, <2>1 DEF Wait, IInv, MapsAgree, DistinctInv
  <2>5. RequestInv'
    BY <1>7, <2>1, <2>2 DEF Wait, IInv, MapsAgree, RequestInv, SubmittedOK,
       ListedOK, Fresh, Registered
  <2> QED
    BY <2>4, <2>5, <2>6 DEF MapsAgree
<1>8. ASSUME NEW f \in Fds, Callback(f) \/ Hangup(f)
      PROVE  MapsAgree'
  BY <1>1, <1>8, CallbackStep
<1>9. ASSUME NEW t \in Callers, WakeUp(t)
      PROVE  MapsAgree'
  BY <1>9, FrameStep DEF WakeUp, IInv, TypeOK, Submitting
<1>10. ASSUME NEW t \in Callers, NEW c \in Channels, Accept(t, c)
       PROVE  MapsAgree'
  BY <1>1, <1>10, AcceptStep DEF Accept, Acceptable, Submitting
<1>11. CASE UNCHANGED vars
  BY <1>11, FrameStep DEF Submitting
<1> QED
  BY <1>2, <1>3, <1>4, <1>5, <1>6, <1>7, <1>8, <1>9, <1>10, <1>11
  DEF Next, OwnerStep, CallerStep, Submission

\* The process survives every interleaving: no assert fails, epoll_ctl never
\* refuses a descriptor and no empty map entry is used.
THEOREM ProcessSurvives == Spec => []NoCrash
<1>1. IInv => NoCrash
  BY DEF IInv, MapsAgree
<1> QED
  BY <1>1, InitIInv, StepIInv, PTL DEF Spec

\* A channel leaves the map only by its own removal, after its end of file.
THEOREM RemovalAfterClose == Spec => OnlyClosedLeave
<1> DEFINE Leave == \A f \in Fds :
               entries[f] # NoChannel /\ entries'[f] # entries[f] =>
                   entries'[f] = NoChannel /\ sock[entries[f]] = "eof"
<1>1. ASSUME IInv, [Next]_vars
      PROVE  [Leave]_vars
  <2>1. CASE HandleAdd
    BY <1>1, <2>1 DEF HandleAdd, epoll_add, IInv, TypeOK, MapsAgree, MapInv
  <2>2. CASE HandleRemove
    <3>1. cursor \in cursor..Len(pending) /\ pending[cursor].type = "remove"
      BY <1>1, <2>2 DEF HandleRemove, epoll_del, AtElement, IInv, TypeOK
    <3>2. Leaving(ThisChannel)
      BY <1>1, <3>1 DEF IInv, MapsAgree, RequestInv, ListedOK, ThisChannel
    <3> QED
      BY <1>1, <2>2, <3>2 DEF HandleRemove, epoll_del, IInv, TypeOK, Leaving, Registered
  <2>3. CASE UNCHANGED entries
    BY <2>3
  <2> QED
    BY <1>1, <2>1, <2>2, <2>3
    DEF Next, OwnerStep, CallerStep, Submission, Handling, Callback,
        LockToSubmit, AppendRequest, WakeUp, Accept, LockPending,
        FinishPending, IgnoreAdd, StartListening, RunLoop, Wait, EndDispatch,
        HandleWakeup, ReadMessage, ReadClosed, AcceptHere, Hangup
<1> QED
  BY <1>1, InitIInv, StepIInv, PTL DEF Spec, OnlyClosedLeave

\* The byte epoll_wait announced is still there when handleWakeup reads it.
THEOREM WakeupReadFinds == Spec => []WakeupHasByte
<1>1. Init => WakeupHasByte
  BY DEF Init, WakeupHasByte
<1>2. ASSUME IInv, WakeupHasByte, [Next]_vars
      PROVE  WakeupHasByte'
  <2>1. CASE Wait
    BY <2>1 DEF Wait, MayBeReady, WakeupHasByte
  <2>2. ASSUME NEW f \in Fds, HandleWakeup(f)
        PROVE  WakeupHasByte'
    <3>1. f = FdOf[Wake]
      BY <1>2, <2>2, ChannelAssumption
      DEF HandleWakeup, Activate, IInv, MapsAgree, MapInv
    <3> QED
      BY <2>2, <3>1 DEF HandleWakeup, Activate, WakeupHasByte
  <2>3. ASSUME NEW t \in Callers, WakeUp(t)
        PROVE  WakeupHasByte'
    BY <1>2, <2>3, CapacityAssumption DEF WakeUp, WakeupHasByte, IInv, TypeOK
  <2>4. CASE wake' = wake /\ batch' \subseteq batch
    BY <1>2, <2>4 DEF WakeupHasByte
  <2> QED
    BY <1>2, <2>1, <2>2, <2>3, <2>4
    DEF Next, OwnerStep, CallerStep, Submission, Handling, Callback, Activate,
        LockToSubmit, AppendRequest, Accept, LockPending, FinishPending,
        IgnoreAdd, HandleAdd, epoll_add, HandleRemove, epoll_del, NextElement, StartListening,
        RunLoop, EndDispatch, ReadMessage, ReadClosed, AcceptHere, Hangup
<1> QED
  BY <1>1, <1>2, InitIInv, StepIInv, PTL DEF Spec

-----------------------------------------------------------------------------
(* The map and the epoll set agree *)

\* An open channel of the map is polled; one at end of file has its removal
\* under way.
MatchInv ==
    /\ \A c \in Channels : Registered(c) /\ sock[c] = "open" =>
                               FdOf[c] \in interest
    /\ \A c \in Channels : Registered(c) /\ sock[c] = "eof" => Closing(c)

\* A removal stays under way while neither its list nor its submission change.
LEMMA ClosingStays ==
    ASSUME UNCHANGED <<pending, cursor>>, NEW c \in Channels, Closing(c),
           \A t \in Threads : Submitting(t) => Submitting(t)' /\ req'[t] = req[t]
    PROVE  Closing(c)'
BY DEF Closing, Submitting

\* A step that gives a new channel an open or failed socket: it is in no map.
LEMMA MatchAccept ==
    ASSUME IInv, MatchInv, NEW t \in Threads, NEW c \in Channels,
           Call(t, "add", c), ~Submitting(t), sock[c] = "unused",
           UNCHANGED <<pending, cursor, mapVars>>,
           sock' = [sock EXCEPT ![c] = AfterAccept(c)]
    PROVE  MatchInv'
<1>1. \A u \in Threads : Submitting(u) => Submitting(u)' /\ req'[u] = req[u]
  BY DEF Call, Submitting, IInv, TypeOK
<1>2. ~Registered(c) /\ \A d \in Channels \ {c} : sock'[d] = sock[d]
  BY DEF IInv, TypeOK, MapsAgree, SockInv
<1>3. \A d \in Channels : Closing(d) => Closing(d)'
  BY <1>1, ClosingStays
<1> QED
  BY <1>2, <1>3 DEF MatchInv, Registered

\* Every step keeps the map and the epoll set together.
LEMMA MatchStep ==
    ASSUME IInv, MatchInv, [Next]_vars
    PROVE  MatchInv'
<1> USE ThreadAssumption
<1>1. ASSUME UNCHANGED <<entries, interest, sock>>,
             \A c \in Channels : Closing(c) => Closing(c)'
      PROVE  MatchInv'
  BY <1>1 DEF MatchInv, Registered
<1>2. ASSUME UNCHANGED <<entries, interest, sock, pending, cursor>>,
             \A t \in Threads :
                 Submitting(t) => Submitting(t)' /\ req'[t] = req[t]
      PROVE  MatchInv'
  BY <1>1, <1>2, ClosingStays
<1>3. ASSUME NEW t \in Threads, LockToSubmit(t)
      PROVE  MatchInv'
  BY <1>2, <1>3 DEF LockToSubmit, Submitting, IInv, TypeOK
<1>4. ASSUME NEW t \in Threads, AppendRequest(t)
      PROVE  MatchInv'
  <2>1. /\ cursor = 1 /\ cursor' = 1 /\ req' = req
        /\ Len(pending') = Len(pending) + 1 /\ Len(pending) \in Nat
        /\ \A i \in 1..Len(pending) : pending'[i] = pending[i]
        /\ pending'[Len(pending) + 1] = req[t]
        /\ \A u \in Threads \ {t} : pc'[u] = pc[u]
    BY <1>4 DEF AppendRequest, IInv, TypeOK, LockInv, MutexProtectsList,
                InCriticalSection
  <2>2. ASSUME NEW c \in Channels, Closing(c)
        PROVE  Closing(c)'
    <3>1. CASE \E i \in cursor..Len(pending) :
                   pending[i] = [type |-> "remove", chan |-> c]
      BY <2>1, <3>1 DEF Closing
    <3>2. CASE req[t] = [type |-> "remove", chan |-> c]
      <4>1. Len(pending) + 1 \in cursor'..Len(pending')
        BY <2>1
      <4> QED
        BY <2>1, <3>2, <4>1 DEF Closing
    <3>3. CASE \E u \in Threads \ {t} :
                   /\ req[u] = [type |-> "remove", chan |-> c]
                   /\ pc[u] \in {"lock", "append"}
      BY <2>1, <3>3 DEF Closing
    <3> QED
      BY <2>2, <3>1, <3>2, <3>3 DEF Closing
  <2> QED
    BY <1>1, <1>4, <2>2 DEF AppendRequest
<1>5. CASE LockPending
  BY <1>2, <1>5 DEF LockPending, Submitting, IInv, TypeOK, LockInv
<1>6. CASE FinishPending
  <2>1. ASSUME NEW c \in Channels, Closing(c)
        PROVE  Closing(c)'
    BY <1>6, <2>1 DEF FinishPending, Closing, IInv, TypeOK
  <2> QED
    BY <1>1, <1>6, <2>1 DEF FinishPending
<1>7. ASSUME IgnoreAdd \/ HandleAdd \/ HandleRemove,
             NEW c, c = pending[cursor].chan
      PROVE  MatchInv'
  <2>1. /\ pc' = pc /\ req' = req /\ pending' = pending /\ sock' = sock
        /\ cursor' = cursor + 1 /\ cursor \in 1..Len(pending)
        /\ cursor \in cursor..Len(pending)
        /\ \A i \in cursor..Len(pending) : i = cursor \/ i \in cursor'..Len(pending)
    BY <1>7 DEF IgnoreAdd, HandleAdd, epoll_add, HandleRemove, epoll_del, AtElement, NextElement,
                IInv, TypeOK
  <2>2. ASSUME NEW d \in Channels, Closing(d),
               pending[cursor].type = "add" \/ c # d
        PROVE  Closing(d)'
    BY <1>7, <2>1, <2>2 DEF Closing
  <2>3. CASE IgnoreAdd
    BY <1>1, <2>1, <2>2, <2>3 DEF IgnoreAdd, AtElement
  <2>4. CASE HandleAdd
    <3>1. /\ pending[cursor].type = "add" /\ FdOf[c] \in Fds
          /\ entries' = [entries EXCEPT ![FdOf[c]] = c]
          /\ interest' = interest \cup {FdOf[c]}
      BY <1>7, <2>4 DEF HandleAdd, epoll_add, AtElement, ThisChannel
    <3>2. sock[c] # "eof"
      BY <1>7, <2>1, <3>1 DEF IInv, MapsAgree, RequestInv, ListedOK, Fresh, TypeOK
    <3> QED
      BY <1>7, <2>1, <2>2, <3>1, <3>2
      DEF MatchInv, Registered, IInv, TypeOK
  <2>5. CASE HandleRemove
    <3>1. /\ FdOf[c] \in Fds
          /\ entries' = [entries EXCEPT ![FdOf[c]] = NoChannel]
          /\ interest' = interest \ {FdOf[c]}
      BY <1>7, <2>5 DEF HandleRemove, epoll_del, ThisChannel
    <3>2. ASSUME NEW d \in Channels, Registered(d)'
          PROVE  Registered(d) /\ FdOf[d] # FdOf[c]
      BY <3>1, <3>2, ChannelAssumption DEF Registered, IInv, TypeOK
    <3> QED
      BY <2>1, <2>2, <3>1, <3>2 DEF MatchInv
  <2> QED
    BY <1>7, <2>3, <2>4, <2>5
<1>8. ASSUME NEW c \in Channels, StartListening(c)
      PROVE  MatchInv'
  <2>1. AfterAccept(c) = "open"
    BY <1>8, FdAssumption DEF StartListening, AfterAccept, Permanent
  <2> QED
    BY <1>8, <2>1, MatchAccept DEF StartListening, Submitting
<1>9. CASE RunLoop \/ EndDispatch \/ Wait
  BY <1>2, <1>9 DEF RunLoop, EndDispatch, Wait, Submitting, IInv, TypeOK
<1>10. ASSUME NEW f \in Fds, Callback(f) \/ Hangup(f)
       PROVE  MatchInv'
  <2>1. CASE HandleWakeup(f) \/ \E c \in Channels \cup {NoChannel} : ReadMessage(f, c)
    BY <1>2, <2>1 DEF HandleWakeup, ReadMessage, Submitting
  <2>2. ASSUME NEW c \in Channels, ReadClosed(f, c)
        PROVE  MatchInv'
    <3>1. \A t \in Threads : Submitting(t) => Submitting(t)' /\ req'[t] = req[t]
      BY <2>2 DEF ReadClosed, Activate, Call, Submitting, IInv, TypeOK
    <3>2. Closing(c)'
      BY <2>2 DEF ReadClosed, Call, Closing, IInv, TypeOK
    <3>3. \A d \in Channels \ {c} : sock'[d] = sock[d]
      BY <2>2 DEF ReadClosed, IInv, TypeOK
    <3>4. \A d \in Channels : Closing(d) => Closing(d)'
      BY <2>2, <3>1, ClosingStays DEF ReadClosed
    <3>5. sock'[c] = "eof"
      BY <2>2 DEF ReadClosed, IInv, TypeOK
    <3> QED
      BY <2>2, <3>2, <3>3, <3>4, <3>5 DEF ReadClosed, MatchInv, Registered
  <2>3. ASSUME NEW l \in Channels, NEW c \in Channels, AcceptHere(f, l, c)
        PROVE  MatchInv'
    BY <2>3, MatchAccept DEF AcceptHere, Activate, Acceptable, Submitting
  <2>4. CASE Hangup(f)
    <3>1. \A d \in Channels : Closing(d) => Closing(d)'
      BY <2>4, ClosingStays DEF Hangup, Submitting
    <3>2. \A d \in Channels : sock'[d] \in {"open", "eof"} =>
              FdOf[d] # f /\ sock'[d] = sock[d]
      BY <2>4 DEF Hangup, IInv, TypeOK
    <3> QED
      BY <2>4, <3>1, <3>2 DEF Hangup, MatchInv, Registered
  <2> QED
    BY <1>10, <2>1, <2>2, <2>3, <2>4 DEF Callback
<1>11. ASSUME NEW t \in Callers, WakeUp(t)
       PROVE  MatchInv'
  BY <1>2, <1>11 DEF WakeUp, Submitting, IInv, TypeOK
<1>12. ASSUME NEW t \in Callers, NEW c \in Channels, Accept(t, c)
       PROVE  MatchInv'
  BY <1>12, MatchAccept DEF Accept, Acceptable, Submitting
<1>13. CASE UNCHANGED vars
  BY <1>2, <1>13 DEF vars, loopVars, mapVars, Submitting
<1> QED
  BY <1>3, <1>4, <1>5, <1>6, <1>7, <1>8, <1>9, <1>10, <1>11, <1>12, <1>13
  DEF Next, OwnerStep, CallerStep, Submission, Handling

\* What epoll polls is what the map holds with an open socket, or with its
\* removal under way: event_loop_handle_pending_add and _remove, the
\* dispatcher's close and the map's growth keep the two tables together.
THEOREM MapsMatch == Spec => []EpollMatchesMap
<1>1. Init => MatchInv
  BY FdAssumption, ChannelAssumption DEF Init, MatchInv, Registered, Permanent
<1>2. ASSUME IInv, MatchInv
      PROVE  EpollMatchesMap
  <2>1. ASSUME NEW f \in interest
        PROVE  \E d \in Channels : /\ FdOf[d] = f /\ Registered(d)
                                   /\ sock[d] = "open" \/ Closing(d)
    <3>1. /\ f \in Fds /\ entries[f] \in Channels /\ FdOf[entries[f]] = f
          /\ sock[entries[f]] \in {"open", "eof"}
      BY <1>2, <2>1 DEF IInv, TypeOK, MapsAgree, MapInv
    <3> QED
      BY <1>2, <3>1 DEF MatchInv, Registered
  <2>2. ASSUME NEW d \in Channels, Closing(d)
        PROVE  FdOf[d] \in interest
    <3>1. CASE \E t \in Threads : /\ req[t] = [type |-> "remove", chan |-> d]
                                  /\ Submitting(t)
      BY <1>2, <3>1 DEF IInv, MapsAgree, RequestInv, SubmittedOK, Leaving
    <3>2. CASE \E i \in cursor..Len(pending) :
                   pending[i] = [type |-> "remove", chan |-> d]
      BY <1>2, <3>2 DEF IInv, MapsAgree, RequestInv, ListedOK, Leaving
    <3> QED
      BY <2>2, <3>1, <3>2 DEF Closing, Submitting
  <2> QED
    BY <1>2, <2>1, <2>2 DEF EpollMatchesMap, MatchInv
<1> QED
  BY <1>1, <1>2, InitIInv, StepIInv, MatchStep, PTL DEF Spec

-----------------------------------------------------------------------------
(* The loop implements the request queue *)

\* Every step is one of the request queue or leaves its variables alone.
LEMMA QueueStep ==
    ASSUME IInv, [Next]_vars
    PROVE  [Queue!Next]_(Queue!vars)
<1> USE ThreadAssumption DEF Queue!vars
<1>0. TypeOK /\ LockInv /\ MapInv
  BY DEF IInv, MapsAgree
<1>1. ASSUME NEW t \in Threads, AppendRequest(t)
      PROVE  Queue!Submit
  <2>1. pc[Owner] # "traverse" /\ cursor = 1
    BY <1>0, <1>1 DEF AppendRequest, TypeOK, LockInv, MutexProtectsList,
                InCriticalSection, OwnerSteps
  <2>2. /\ req[t] \in Requests
        /\ pending \in Seq(Requests)
        /\ pending' = Append(pending, req[t])
        /\ pending' \in Seq(Requests)
        /\ cursor' = 1
    BY <1>0, <1>1, <2>1 DEF AppendRequest, TypeOK
  <2>3. Unhandled = pending /\ Unhandled' = pending'
    BY <2>1, <2>2, SubSeqFull DEF Unhandled
  <2> QED
    BY <1>1, <2>2, <2>3
    DEF AppendRequest, Queue!Submit, Queue!Requests, Requests
<1>2. ASSUME NEW type, AtElement(type), NextElement,
             entries' = Queue!Effect(pending[cursor], entries)
      PROVE  Queue!Apply
  <2>1. cursor \in 1..Len(pending) /\ Len(pending) \in cursor..Len(pending)
    BY <1>0, <1>2 DEF AtElement, TypeOK
  <2>2. /\ Head(Unhandled) = pending[cursor]
        /\ Tail(Unhandled) = SubSeq(pending, cursor + 1, Len(pending))
    BY <1>0, <2>1, HeadTailOfSubSeq DEF Unhandled, TypeOK
  <2>3. Unhandled # <<>>
    <3>1. \A i \in cursor..Len(pending) : pending[i] \in Requests
      BY <1>0, <2>1, ElementOfSeq DEF TypeOK
    <3>2. Len(Unhandled) = Len(pending) - cursor + 1
      BY <1>0, <2>1, <3>1, SubSeqProperties DEF Unhandled, TypeOK
    <3> QED
      BY <1>0, <2>1, <3>2 DEF TypeOK
  <2>4. Unhandled' = Tail(Unhandled)
    BY <1>2, <2>2 DEF Unhandled, NextElement
  <2> QED
    BY <1>2, <2>2, <2>3, <2>4 DEF Queue!Apply
<1>3. CASE IgnoreAdd
  <2>1. entries' = Queue!Effect(pending[cursor], entries)
    BY <1>3, FdAssumption DEF IgnoreAdd, AtElement, ThisChannel, Queue!Effect
  <2> QED
    BY <1>2, <1>3, <2>1 DEF IgnoreAdd, Queue!Next
<1>4. CASE HandleAdd
  <2>1. entries' = Queue!Effect(pending[cursor], entries)
    BY <1>0, <1>4 DEF HandleAdd, epoll_add, AtElement, ThisChannel, Queue!Effect, MapInv
  <2> QED
    BY <1>2, <1>4, <2>1 DEF HandleAdd, epoll_add, Queue!Next
<1>5. CASE HandleRemove
  <2>1. entries' = Queue!Effect(pending[cursor], entries)
    BY <1>5 DEF HandleRemove, epoll_del, AtElement, ThisChannel, Queue!Effect
  <2> QED
    BY <1>2, <1>5, <2>1 DEF HandleRemove, epoll_del, Queue!Next
<1>6. CASE LockPending
  BY <1>0, <1>6 DEF LockPending, LockInv, Unhandled
<1>7. CASE FinishPending
  <2>1. Unhandled = <<>>
    BY <1>0, <1>7, SubSeqEmpty DEF FinishPending, TypeOK, Unhandled
  <2>2. Unhandled' = <<>>
    BY <1>7, SubSeqEmpty, EmptySeq DEF FinishPending, Unhandled
  <2> QED
    BY <1>7, <2>1, <2>2 DEF FinishPending
<1>8. ASSUME UNCHANGED <<pending, cursor, entries>>
      PROVE  UNCHANGED <<Unhandled, entries>>
  BY <1>8 DEF Unhandled
<1> QED
  BY <1>1, <1>3, <1>4, <1>5, <1>6, <1>7, <1>8
  DEF Next, OwnerStep, CallerStep, Submission, Handling, Callback,
      LockToSubmit, WakeUp, Accept, StartListening, RunLoop, Wait, EndDispatch,
      HandleWakeup, ReadMessage, ReadClosed, AcceptHere, Hangup, Queue!Next

\* A new loop is an empty request queue.
LEMMA InitQueue == Init => Queue!Init
<1>1. Init => Unhandled = <<>>
  BY SubSeqEmpty, EmptySeq DEF Init, Unhandled
<1> QED
  BY <1>1 DEF Init, Queue!Init

\* Requests that reach the pending list take effect one at a time, in the
\* order they were appended, each once, whatever the threads do.
THEOREM QueueImplemented == Spec => Queue!Spec
BY InitIInv, StepIInv, InitQueue, QueueStep, PTL
DEF Spec, Queue!Spec
=============================================================================
