---------------------------- MODULE MCEventLoop -----------------------------
(***************************************************************************)
(* Instances of EventLoop for TLC.  A worker loop gets its connections     *)
(* from acceptor threads.  Two of them share a descriptor, so one can be   *)
(* given the number the other left behind; one has the descriptor -1 of a  *)
(* failed accept; one is beyond the initial size of the map.  The loop of  *)
(* a server without workers (single) accepts its own connections, c3 is    *)
(* its listening socket, and no other thread calls it.  A behaviour is     *)
(* that of one of the two kinds of loop.                                   *)
(***************************************************************************)
EXTENDS EventLoop, TLC

CONSTANTS wakeChan, c1, c2, c3, c4

MCChannels == {wakeChan, c1, c2, c3, c4}
MCFdOf == (wakeChan :> 0) @@ (c1 :> 2) @@ (c2 :> 2) @@ (c3 :> 5) @@ (c4 :> -1)

VARIABLE kind       \* "worker" or "single"

Single == INSTANCE EventLoop WITH Listeners <- {c3}

MCInit == kind \in {"worker", "single"} /\ Init

Is(k) == kind = k /\ UNCHANGED kind

MCNext == \/ Is("worker") /\ Next
          \/ Is("single") /\ crash = "no" /\ Single!OwnerStep

MCFairSpec ==
    /\ MCInit /\ [][MCNext]_<<vars, kind>>
    /\ WF_vars(Is("single") /\ Single!OwnerProgress)
    /\ WF_vars(Is("worker") /\ OwnerProgress)
    /\ \A t \in Callers : /\ WF_vars(Is("worker") /\ CallerProgress(t))
                          /\ SF_vars(Is("worker") /\ CallerLocks(t))
=============================================================================
