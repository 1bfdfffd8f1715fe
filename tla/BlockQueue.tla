----------------------------- MODULE BlockQueue -----------------------------
(***************************************************************************)
(* The threaded echo server of chap-26/thread03.cpp: main accepts clients  *)
(* and pushes their descriptors into a ring, a fixed set of threads pops   *)
(* them.  A thread serves its client until the client leaves, and no       *)
(* descriptor is ever closed, so each number is accepted once.             *)
(***************************************************************************)
EXTENDS Integers, Sequences, FiniteSets

CONSTANTS
    Threads,      \* THREAD_NUMBER threads
    Fds,          \* descriptors of the clients
    Number,       \* blockQueue->number, the size of the ring
    MaxBacklog,   \* bound on the clients accepted and not yet popped
    Main,
    Nobody        \* no holder of the mutex, no client, an unset element

ASSUME QueueAssumption == /\ Number \in Nat \ {0, 1}
                          /\ MaxBacklog \in Nat
                          /\ Nobody \notin Threads \cup Fds \cup {Main}
                          /\ Main \notin Threads

VARIABLES
    ring,         \* blockQueue->fd
    front,
    rear,
    mutex,        \* the thread that holds blockQueue->mutex
    pc,           \* where each thread is
    client,       \* the descriptor each thread has in its hands
    accepted,     \* descriptors accept returned
    popped,       \* descriptors handed to a thread, a history variable
    alive         \* the process runs

queueVars == <<ring, front, rear>>
vars == <<queueVars, mutex, pc, client, accepted, popped, alive>>

TypeOK ==
    /\ ring \in [0..Number - 1 -> Fds \cup {Nobody}]
    /\ front \in 0..Number - 1
    /\ rear \in 0..Number - 1
    /\ mutex \in Threads \cup {Main, Nobody}
    /\ pc \in [Threads \cup {Main} ->
                  {"accept", "lock", "push", "check", "condWait", "serve"}]
    /\ client \in [Threads \cup {Main} -> Fds \cup {Nobody}]
    /\ accepted \subseteq Fds
    /\ popped \subseteq Fds
    /\ alive \in BOOLEAN

-----------------------------------------------------------------------------
\* The elements from front to rear: what the code takes for the queue.
Size == IF front <= rear THEN rear - front ELSE rear + Number - front
Slot(k) == IF front + k <= Number THEN front + k - 1 ELSE front + k - 1 - Number
Waiting == [k \in 1..Size |-> ring[Slot(k)]]

\* An index of the ring and the next one.
NextIndex(i) == IF i + 1 = Number THEN 0 ELSE i + 1

\* block_queue_init; the array of new int[] is not set.
Init ==
    /\ ring = [i \in 0..Number - 1 |-> Nobody]
    /\ front = 0
    /\ rear = 0
    /\ mutex = Nobody
    /\ pc = [t \in Threads \cup {Main} |-> IF t = Main THEN "accept" ELSE "lock"]
    /\ client = [t \in Threads \cup {Main} |-> Nobody]
    /\ accepted = {}
    /\ popped = {}
    /\ alive = TRUE

Accept(f) ==
    /\ pc[Main] = "accept"
    /\ f \in Fds \ accepted
    /\ Cardinality(accepted \ popped) < MaxBacklog
    /\ accepted' = accepted \cup {f}
    /\ client' = [client EXCEPT ![Main] = f]
    /\ pc' = [pc EXCEPT ![Main] = "lock"]
    /\ UNCHANGED <<queueVars, mutex, popped, alive>>

\* pthread_mutex_lock of block_queue_push, or of block_queue_pop and of the
\* return from pthread_cond_wait.
Lock(t) ==
    /\ pc[t] = "lock"
    /\ mutex = Nobody
    /\ mutex' = t
    /\ pc' = [pc EXCEPT ![t] = IF t = Main THEN "push" ELSE "check"]
    /\ UNCHANGED <<queueVars, client, accepted, popped, alive>>

-----------------------------------------------------------------------------
(* block_queue_push, by main *)

\* pthread_cond_signal wakes a thread that waits, if there is one.
Signal == LET Sleeping == {t \in Threads : pc[t] = "condWait"} IN
          IF Sleeping = {}
            THEN pc' = [pc EXCEPT ![Main] = "accept"]
            ELSE \E t \in Sleeping :
                     pc' = [pc EXCEPT ![Main] = "accept", ![t] = "lock"]

Store == /\ pc[Main] = "push"
         /\ ring' = [ring EXCEPT ![rear] = client[Main]]
         /\ mutex' = Nobody
         /\ client' = [client EXCEPT ![Main] = Nobody]
         /\ UNCHANGED <<front, accepted, popped, alive>>

\* Faulty: rear runs over the end of the array.
PushPastEnd == /\ Store
               /\ rear' = IF rear = Number THEN 0 ELSE rear + 1
               /\ Signal

\* Faulty: nobody is told.
PushWithoutSignal == /\ Store
                     /\ rear' = NextIndex(rear)
                     /\ pc' = [pc EXCEPT ![Main] = "accept"]

\* Faulty: only the push that makes the queue non-empty signals.
SignalOnlyFirst == /\ Store
                   /\ rear' = NextIndex(rear)
                   /\ IF front = rear THEN Signal
                      ELSE pc' = [pc EXCEPT ![Main] = "accept"]

Push == /\ Store
        /\ rear' = NextIndex(rear)
        /\ Signal

-----------------------------------------------------------------------------
(* block_queue_pop and loop_echo, by a thread *)

WaitForClient(t) ==
    /\ t \in Threads
    /\ pc[t] = "check"
    /\ front = rear
    /\ mutex' = Nobody
    /\ pc' = [pc EXCEPT ![t] = "condWait"]
    /\ UNCHANGED <<queueVars, client, accepted, popped, alive>>

\* pthread_cond_wait may return although nobody signalled.
SpuriousWakeup(t) ==
    /\ t \in Threads
    /\ pc[t] = "condWait"
    /\ pc' = [pc EXCEPT ![t] = "lock"]
    /\ UNCHANGED <<queueVars, mutex, client, accepted, popped, alive>>

\* Faulty: woken, the thread does not look again whether there is a client.
PopUnchecked(t) ==
    /\ t \in Threads
    /\ pc[t] = "check"
    /\ client' = [client EXCEPT ![t] = ring[front]]
    /\ popped' = popped \cup ({ring[front]} \ {Nobody})
    /\ front' = NextIndex(front)
    /\ mutex' = Nobody
    /\ pc' = [pc EXCEPT ![t] = "serve"]
    /\ UNCHANGED <<ring, rear, accepted, alive>>

Pop(t) ==
    /\ t \in Threads
    /\ pc[t] = "check"
    /\ front # rear
    /\ client' = [client EXCEPT ![t] = ring[front]]
    /\ popped' = popped \cup ({ring[front]} \ {Nobody})
    /\ front' = NextIndex(front)
    /\ mutex' = Nobody
    /\ pc' = [pc EXCEPT ![t] = "serve"]
    /\ UNCHANGED <<ring, rear, accepted, alive>>

\* recv returned 0: loop_echo ends, the descriptor stays open.
ClientLeaves(t) ==
    /\ t \in Threads
    /\ pc[t] = "serve"
    /\ client' = [client EXCEPT ![t] = Nobody]
    /\ pc' = [pc EXCEPT ![t] = "lock"]
    /\ UNCHANGED <<queueVars, mutex, accepted, popped, alive>>

\* recv failed, for example with ECONNRESET: error(1, ...) ends the process.
EchoFails(t) ==
    /\ t \in Threads
    /\ pc[t] = "serve"
    /\ alive' = FALSE
    /\ UNCHANGED <<queueVars, mutex, pc, client, accepted, popped>>

-----------------------------------------------------------------------------
MainStep == Lock(Main) \/ Push
ThreadStep(t) == Lock(t) \/ WaitForClient(t) \/ Pop(t)

Next == /\ alive
        /\ \/ MainStep
           \/ \E f \in Fds : Accept(f)
           \/ \E t \in Threads : \/ ThreadStep(t)
                                 \/ SpuriousWakeup(t)
                                 \/ ClientLeaves(t)
                                 \/ EchoFails(t)

Spec == Init /\ [][Next]_vars

\* Every thread is scheduled and gets the mutex in the end.  Nothing obliges
\* a client to connect or to leave.
FairSpec == /\ Spec
            /\ WF_vars(alive /\ MainStep)
            /\ SF_vars(alive /\ Lock(Main))
            /\ \A t \in Threads : /\ WF_vars(alive /\ ThreadStep(t))
                                  /\ SF_vars(alive /\ Lock(t))

-----------------------------------------------------------------------------
(* Properties *)

\* No thread sleeps beside work: while one waits on the condition, there is a
\* thread on its way to the queue for every descriptor in it.  One signal for
\* each push is enough although threads that never waited take clients too.
Awake == {t \in Threads : pc[t] \in {"lock", "check"}}
NoSleeperBesideWork ==
    (\E t \in Threads : pc[t] = "condWait") => Size <= Cardinality(Awake)

\* Again and again the queue is empty or every thread has a client: a client
\* waits only because all threads are taken.
FreeThreadServes ==
    []<>(alive => Waiting = <<>> \/ \A t \in Threads : pc[t] = "serve")

\* Descriptors leave the queue in the order of arrival, each to one thread.
Fifo == INSTANCE HandOff WITH waiting <- Waiting, taken <- popped
ImplementsHandOff == Fifo!Spec

\* The queue holds `number' descriptors (the comment of the field): one that
\* was accepted is in main's hands, in the queue or was handed to a thread.
NoDescriptorLost ==
    accepted = popped \cup ({client[Main]} \ {Nobody})
                      \cup {Waiting[k] : k \in 1..Size}
=============================================================================
