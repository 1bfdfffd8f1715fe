----------------------------- MODULE ThreadPool -----------------------------
(***************************************************************************)
(* How tcp_server_start brings up the worker threads of a server           *)
(* (src/lib/thread_pool.c, event_loop_thread.c) and how the main thread    *)
(* then picks a worker for each new connection.  Main creates the threads  *)
(* one by one; each builds its own event loop under the mutex of its       *)
(* struct event_loop_thread, and main waits for it on the condition.       *)
(***************************************************************************)
EXTENDS Integers

CONSTANT ThreadNumber      \* threadPool->thread_number

\* With no worker thread the main loop serves the connections itself: that
\* server is the module EventLoop.
ASSUME ThreadNumberAssumption == ThreadNumber \in Nat \ {0}

Workers == 0..ThreadNumber - 1
Main == -1
Free == -2

VARIABLES
    stage,      \* where main is in tcp_server_start
    starting,   \* i, the thread being started
    worker,     \* where each thread is in event_loop_thread_run
    mutex,      \* who holds eventLoopThreads[i].mutex
    ready,      \* threads whose eventLoop is not NULL
    position    \* threadPool->position

poolVars == <<stage, starting, worker, mutex, ready, position>>

PoolTypeOK ==
    /\ stage \in {"create", "lock", "check", "condWait", "serve"}
    /\ starting \in Workers
    /\ worker \in [Workers -> {"none", "created", "init", "run"}]
    /\ mutex \in [Workers -> Workers \cup {Main, Free}]
    /\ ready \subseteq Workers
    /\ position \in Workers

-----------------------------------------------------------------------------
\* thread_pool_new, then thread_pool_start up to its loop.
PoolInit ==
    /\ stage = "create"
    /\ starting = 0
    /\ worker = [i \in Workers |-> "none"]
    /\ mutex = [i \in Workers |-> Free]
    /\ ready = {}
    /\ position = 0

\* event_loop_thread_init and the pthread_create of event_loop_thread_start.
CreateThread ==
    /\ stage = "create"
    /\ worker' = [worker EXCEPT ![starting] = "created"]
    /\ stage' = "lock"
    /\ UNCHANGED <<starting, mutex, ready, position>>

MainLock ==
    /\ stage = "lock"
    /\ mutex[starting] = Free
    /\ mutex' = [mutex EXCEPT ![starting] = Main]
    /\ stage' = "check"
    /\ UNCHANGED <<starting, worker, ready, position>>

\* Faulty: main does not wait for the thread's loop.
StartNextAnyway ==
    /\ stage = "check"
    /\ starting \notin ready
    /\ mutex' = [mutex EXCEPT ![starting] = Free]
    /\ IF starting + 1 < ThreadNumber
         THEN starting' = starting + 1 /\ stage' = "create"
         ELSE starting' = starting /\ stage' = "serve"
    /\ UNCHANGED <<worker, ready, position>>

\* eventLoop is still NULL: pthread_cond_wait releases the mutex.
WaitForLoop ==
    /\ stage = "check"
    /\ starting \notin ready
    /\ mutex' = [mutex EXCEPT ![starting] = Free]
    /\ stage' = "condWait"
    /\ UNCHANGED <<starting, worker, ready, position>>

\* pthread_cond_wait may return although nobody signalled.
SpuriousWakeup ==
    /\ stage = "condWait"
    /\ stage' = "lock"
    /\ UNCHANGED <<starting, worker, mutex, ready, position>>

\* The loop is there: main goes on to the next thread, or to its own loop.
NextThread ==
    /\ stage = "check"
    /\ starting \in ready
    /\ mutex' = [mutex EXCEPT ![starting] = Free]
    /\ IF starting + 1 < ThreadNumber
         THEN starting' = starting + 1 /\ stage' = "create"
         ELSE starting' = starting /\ stage' = "serve"
    /\ UNCHANGED <<worker, ready, position>>

-----------------------------------------------------------------------------
(* event_loop_thread_run, by worker i *)

WorkerLock(i) ==
    /\ worker[i] = "created"
    /\ mutex[i] = Free
    /\ mutex' = [mutex EXCEPT ![i] = i]
    /\ worker' = [worker EXCEPT ![i] = "init"]
    /\ UNCHANGED <<stage, starting, ready, position>>

\* Faulty: the condition is not signalled.
InitWithoutSignal(i) ==
    /\ worker[i] = "init"
    /\ ready' = ready \cup {i}
    /\ mutex' = [mutex EXCEPT ![i] = Free]
    /\ worker' = [worker EXCEPT ![i] = "run"]
    /\ UNCHANGED <<stage, starting, position>>

\* The loop is built, main is signalled if it waits, the mutex is released.
InitLoop(i) ==
    /\ worker[i] = "init"
    /\ ready' = ready \cup {i}
    /\ stage' = IF stage = "condWait" /\ starting = i THEN "lock" ELSE stage
    /\ mutex' = [mutex EXCEPT ![i] = Free]
    /\ worker' = [worker EXCEPT ![i] = "run"]
    /\ UNCHANGED <<starting, position>>

-----------------------------------------------------------------------------
StartStep == CreateThread \/ MainLock \/ WaitForLoop \/ NextThread
WorkerStart(i) == WorkerLock(i) \/ InitLoop(i)

StartPool == \/ StartStep \/ SpuriousWakeup
             \/ \E i \in Workers : WorkerStart(i)

\* Faulty: the increment is lost.
NeverAdvances ==
    /\ stage = "serve"
    /\ UNCHANGED poolVars

\* Faulty: the wrap-around is missing.
NeverWraps ==
    /\ stage = "serve"
    /\ position' = position + 1
    /\ UNCHANGED <<stage, starting, worker, mutex, ready>>

\* thread_pool_get_loop selects worker `position' and moves on, round robin.
GetLoop ==
    /\ stage = "serve"
    /\ position' = IF position + 1 >= ThreadNumber THEN 0 ELSE position + 1
    /\ UNCHANGED <<stage, starting, worker, mutex, ready>>
=============================================================================
