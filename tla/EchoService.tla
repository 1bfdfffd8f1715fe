----------------------------- MODULE EchoService -----------------------------
(***************************************************************************)
(* What an echo server promises its clients, whatever it is built from:    *)
(* each is sent the answer to its own text, in order and nothing twice,    *)
(* and no byte of it before the client has sent the byte it answers.       *)
(***************************************************************************)
EXTENDS Integers, Sequences

CONSTANT Clients

VARIABLES
    answer,         \* answer[c]: the bytes of the answer to all of c's text
    sent,           \* sent[c]: how many bytes c has sent
    outbox          \* outbox[c]: what c has been sent

echoVars == <<answer, sent, outbox>>

Init ==
    /\ sent = [c \in Clients |-> 0]
    /\ outbox = [c \in Clients |-> <<>>]

Send(c) ==
    /\ sent' = [sent EXCEPT ![c] = @ + 1]
    /\ UNCHANGED <<answer, outbox>>

Echo(c) ==
    \E n \in Len(outbox[c]) + 1 .. Len(answer[c]) :
        /\ \A k \in 1 .. n : answer[c][k].num <= sent[c]
        /\ outbox' = [outbox EXCEPT ![c] = SubSeq(answer[c], 1, n)]
        /\ UNCHANGED <<answer, sent>>

Next == \E c \in Clients : Send(c) \/ Echo(c)
Spec == Init /\ [][Next]_echoVars
=============================================================================
