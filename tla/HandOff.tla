------------------------------ MODULE HandOff -------------------------------
(***************************************************************************)
(* What the queue of chap-26/thread03.cpp promises to its users: every     *)
(* descriptor that is put in is handed to one thread, once, in the order   *)
(* of arrival.                                                             *)
(***************************************************************************)
EXTENDS Integers, Sequences

CONSTANT Fds            \* descriptors accept may return

VARIABLES
    waiting,            \* put in and not yet handed out
    taken               \* handed out

vars == <<waiting, taken>>

Init == waiting = <<>> /\ taken = {}

Put == \E f \in Fds : /\ f \notin taken
                      /\ \A k \in 1..Len(waiting) : waiting[k] # f
                      /\ waiting' = Append(waiting, f)
                      /\ UNCHANGED taken

Take == /\ waiting # <<>>
        /\ taken' = taken \cup {Head(waiting)}
        /\ waiting' = Tail(waiting)

Next == Put \/ Take

Spec == Init /\ [][Next]_vars
=============================================================================
