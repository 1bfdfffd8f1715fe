---------------------------- MODULE PendingQueue ----------------------------
(***************************************************************************)
(* What an event loop promises to the threads that use it.  A request to   *)
(* add or remove a channel joins a queue; requests take effect one at a    *)
(* time, in the order they were submitted, each exactly once, and nothing  *)
(* but a request changes which channel is registered for a descriptor.     *)
(* No thread, lock, wakeup byte or epoll set appears here.                 *)
(***************************************************************************)
EXTENDS Integers, Sequences

CONSTANTS
    Channels,     \* every struct channel the program creates
    Fds,          \* descriptors a channel map can hold
    FdOf,         \* channel->fd, which is -1 after a failed accept
    Wake,         \* the channel of the loop's own socket pair
    NoChannel     \* a NULL entry of the map

VARIABLES
    queue,        \* requests submitted and not yet applied
    table         \* channelMap->entries

vars == <<queue, table>>

Requests == [type : {"add", "remove"}, chan : Channels]

(***************************************************************************)
(* The effect of one request on the map.  An add is ignored for a negative *)
(* descriptor and for a descriptor that is taken.                          *)
(***************************************************************************)
Effect(r, map) ==
    LET fd == FdOf[r.chan] IN
    CASE r.type = "add" /\ fd \in Fds /\ map[fd] = NoChannel ->
             [map EXCEPT ![fd] = r.chan]
      [] r.type = "remove" /\ fd \in Fds ->
             [map EXCEPT ![fd] = NoChannel]
      [] OTHER -> map

Init == /\ queue = <<>>
        /\ table = [f \in Fds |-> IF f = FdOf[Wake] THEN Wake ELSE NoChannel]

Submit == \E r \in Requests : /\ queue' = Append(queue, r)
                              /\ UNCHANGED table

Apply == /\ queue # <<>>
         /\ table' = Effect(Head(queue), table)
         /\ queue' = Tail(queue)

Next == Submit \/ Apply

Spec == Init /\ [][Next]_vars

\* A request that was submitted does take effect.
FairSpec == Spec /\ WF_vars(Apply)
=============================================================================
