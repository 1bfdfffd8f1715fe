----------------------------- MODULE Datagrams -----------------------------
(***************************************************************************)
(* UDP: the server of src/chap-6, which answers whoever wrote to it, the   *)
(* server of src/chap-14, which connects its socket to the first client it *)
(* hears from, and their clients, which wait for an answer to every line.  *)
(* Datagrams are lost, copied and delivered in any order. A byte is the    *)
(* client and the line it is from, and stands for seven characters.        *)
(***************************************************************************)
EXTENDS Naturals, Sequences, FiniteSets, Bags

CONSTANTS
    Lines,                  \* Lines[c]: what client c types, each "short", "long" or "goodbye"
    MaxLost, MaxCopied      \* bounds on what the network does to datagrams

VARIABLES
    kind,                   \* "plain" (chap-6) or "connected" (chap-14)
    at,                     \* its next call: "first", "connect", "send", "recv", or "ended"
    message,                \* its array
    client_addr, served,    \* who wrote last, whom the socket is connected to, or 0
    inbox,                  \* datagrams at its socket
    flight,                 \* datagrams on their way
    failing,                \* sockets (0 is the server's) with a pending ECONNREFUSED
    user,                   \* user[c]: "type", "await", "gone", "error"
    asked, mail, heard,     \* lines c sent, answers at its socket, answers it printed
    lost, copied,           \* datagrams lost and copied so far
    unsent, mixed           \* history: clients with a failed send; the server connected with
                            \* another client's datagram at its socket

datagramsVars == <<kind, at, message, client_addr, served, inbox, flight, failing, user,
                   asked, mail, heard, lost, copied, unsent, mixed>>

Callers == DOMAIN Lines
End == <<0, 0>>                 \* the terminating '\0'
Junk == <<0, 1>>                \* what the array held before
Chars == (Callers \cup {0}) \X Nat
TextOf(c, k) == [b \in 1 .. (IF Lines[c][k] = "long" THEN 2 ELSE 1) |-> <<c, k>>]

DatagramsTypeOK ==
    /\ kind \in {"plain", "connected"} /\ at \in {"first", "connect", "send", "recv", "ended"}
    /\ message \in [1 .. 3 -> Chars] /\ {client_addr, served} \subseteq Callers \cup {0}
    /\ \A d \in BagToSet(flight) \cup {inbox[j] : j \in DOMAIN inbox} :
            d.from \in Callers \cup {0} /\ d.text \in Seq(Chars)
    /\ failing \subseteq Callers \cup {0} /\ unsent \subseteq Callers /\ mixed \in BOOLEAN
    /\ user \in [Callers -> {"type", "await", "gone", "error"}]
    /\ \A c \in Callers :
        /\ mail[c] \in Seq(Seq(Chars)) /\ heard[c] \in Seq(Seq(Chars))
        /\ Len(heard[c]) <= asked[c] /\ asked[c] \in 0 .. Len(Lines[c])
    /\ lost \in 0 .. MaxLost /\ copied \in 0 .. MaxCopied

Start ==
    /\ kind \in {"plain", "connected"} /\ at = "first"
    /\ \E rest \in {End, Junk} : message = <<rest, rest, rest>>
    /\ client_addr = 0 /\ served = 0 /\ inbox = <<>> /\ flight = EmptyBag /\ failing = {}
    /\ user = [c \in Callers |-> "type"] /\ asked = [c \in Callers |-> 0]
    /\ mail = [c \in Callers |-> <<>>] /\ heard = [c \in Callers |-> <<>>]
    /\ lost = 0 /\ copied = 0 /\ unsent = {} /\ mixed = FALSE

Datagram(from, to, text) == SetToBag({[from |-> from, to |-> to, text |-> text]})

----------------------------------------------------------------------------
(* The clients. The one of chap-14 connects its socket.                    *)

\* A pending error fails the send, which the code does not see: rt is unsigned.
Ask(c) ==
    /\ user[c] = "type" /\ asked[c] < Len(Lines[c])
    /\ asked' = [asked EXCEPT ![c] = @ + 1]
    /\ user' = [user EXCEPT ![c] = "await"]
    /\ failing' = failing \ {c}
    /\ IF c \in failing
       THEN unsent' = unsent \cup {c} /\ UNCHANGED flight
       ELSE flight' = flight (+) Datagram(c, 0, TextOf(c, asked'[c])) /\ UNCHANGED unsent
    /\ UNCHANGED <<kind, at, message, client_addr, served, inbox, mail, heard, lost, copied,
                   mixed>>

Hear(c) ==
    /\ user[c] = "await" /\ c \notin failing /\ mail[c] # <<>>
    /\ heard' = [heard EXCEPT ![c] = Append(@, Head(mail[c]))]
    /\ mail' = [mail EXCEPT ![c] = Tail(@)]
    /\ user' = [user EXCEPT ![c] = "type"]
    /\ UNCHANGED <<kind, at, message, client_addr, served, inbox, flight, failing, asked,
                   lost, copied, unsent, mixed>>

\* Its recv fails, its input ends, or its operator stops it.
Leave(c) ==
    /\ \/ user[c] = "await" /\ c \in failing /\ user' = [user EXCEPT ![c] = "error"]
       \/ user[c] \in {"type", "await"} /\ user' = [user EXCEPT ![c] = "gone"]
    /\ failing' = failing \ {c}
    /\ mail' = [mail EXCEPT ![c] = <<>>]
    /\ UNCHANGED <<kind, at, message, client_addr, served, inbox, flight, asked, heard, lost,
                   copied, unsent, mixed>>

----------------------------------------------------------------------------
(* The network.                                                            *)

Lose ==
    /\ lost < MaxLost
    /\ \E d \in BagToSet(flight) : flight' = flight (-) SetToBag({d})
    /\ lost' = lost + 1
    /\ UNCHANGED <<kind, at, message, client_addr, served, inbox, failing, user, asked, mail,
                   heard, copied, unsent, mixed>>

NoSocket(d) ==
    IF d.to = 0 THEN at = "ended" \/ served \notin {0, d.from}
    ELSE user[d.to] \in {"gone", "error"}

\* Connected sockets.
Connected ==
    IF kind = "plain" THEN {}
    ELSE {c \in Callers : user[c] \in {"type", "await"}}
            \cup (IF served = 0 \/ at = "ended" THEN {} ELSE {0})

\* A datagram no socket takes may be answered with an error, which a connected socket gets.
Deliver ==
    \E d \in BagToSet(flight), copies \in 0 .. 1 :
        /\ copied' = copied + copies /\ copied' <= MaxCopied
        /\ flight' = IF copies = 1 THEN flight ELSE flight (-) SetToBag({d})
        /\ IF NoSocket(d)
           THEN /\ failing' \in {failing, failing \cup (Connected \cap {d.from})}
                /\ UNCHANGED <<inbox, mail>>
           ELSE IF d.to = 0
           THEN inbox' = Append(inbox, d) /\ UNCHANGED <<mail, failing>>
           ELSE /\ mail' = [mail EXCEPT ![d.to] = Append(@, d.text)]
                /\ UNCHANGED <<inbox, failing>>
        /\ UNCHANGED <<kind, at, message, client_addr, served, user, asked, heard, lost,
                       unsent, mixed>>

----------------------------------------------------------------------------
(* The servers.                                                            *)

\* message with text read into it, and a '\0' behind it in all reads but the loop's in chap-14.
Read(text, tail) ==
    LET new == text \o tail
    IN  [b \in 1 .. 3 |-> IF b \in DOMAIN new THEN new[b] ELSE message[b]]
StringIn(m) ==
    LET ends == {b \in 1 .. 3 : m[b] = End}
    IN  SubSeq(m, 1, IF ends = {} THEN 3 ELSE (CHOOSE b \in ends : \A e \in ends : b <= e) - 1)

\* chap-6, one turn of its loop.
Reply ==
    /\ kind = "plain" /\ inbox # <<>>
    /\ client_addr' = Head(inbox).from
    /\ message' = Read(Head(inbox).text, <<End>>)
    /\ flight' = flight (+) Datagram(0, client_addr', StringIn(message'))
    /\ inbox' = Tail(inbox)
    /\ UNCHANGED <<kind, at, served, failing, user, asked, mail, heard, lost, copied, unsent,
                   mixed>>

\* chap-14
FirstRead ==
    /\ kind = "connected" /\ at = "first" /\ inbox # <<>>
    /\ client_addr' = Head(inbox).from
    /\ message' = Read(Head(inbox).text, <<End>>)
    /\ inbox' = Tail(inbox)
    /\ at' = "connect"
    /\ UNCHANGED <<kind, served, flight, failing, user, asked, mail, heard, lost, copied,
                   unsent, mixed>>

LoopOn(m) ==
    at' = IF \E c \in Callers : \E k \in DOMAIN Lines[c] :
                m[1] = <<c, k>> /\ Lines[c][k] = "goodbye" THEN "ended" ELSE "send"

\* What is at the socket already stays there, whoever sent it.
ConnectSocket ==
    /\ at = "connect"
    /\ served' = client_addr
    /\ mixed' = \E j \in DOMAIN inbox : inbox[j].from # client_addr
    /\ LoopOn(message)
    /\ UNCHANGED <<kind, message, client_addr, inbox, flight, failing, user, asked, mail,
                   heard, lost, copied, unsent>>

SendAnswer ==
    /\ at = "send" /\ at' = "recv"
    /\ failing' = failing \ {0}
    /\ flight' = IF 0 \in failing THEN flight
                 ELSE flight (+) Datagram(0, served, StringIn(message))
    /\ UNCHANGED <<kind, message, client_addr, served, inbox, user, asked, mail, heard, lost,
                   copied, unsent, mixed>>

\* rc is unsigned too: a failed recv leaves the last message to be answered again.
ReadAgain ==
    /\ at = "recv"
    /\ \/ 0 \in failing /\ failing' = failing \ {0} /\ at' = "send" /\ UNCHANGED <<message, inbox>>
       \/ /\ 0 \notin failing /\ inbox # <<>>
          /\ message' = Read(Head(inbox).text, <<>>)
          /\ inbox' = Tail(inbox)
          /\ LoopOn(message')
          /\ UNCHANGED failing
    /\ UNCHANGED <<kind, client_addr, served, flight, user, asked, mail, heard, lost, copied,
                   unsent, mixed>>

DatagramsNext ==
    \/ \E c \in Callers : Ask(c) \/ Hear(c) \/ Leave(c)
    \/ Lose \/ Deliver
    \/ Reply \/ FirstRead \/ ConnectSocket \/ SendAnswer \/ ReadAgain

----------------------------------------------------------------------------

(* The server of chap-6 tells every client its own lines back, and in step *)
(* while no datagram was copied; after a copy an answer may be that to an  *)
(* earlier line. The server of chap-14 answers no other client than the    *)
(* one it connected to, and in step if nothing of others was at its socket *)
(* then; the answer begins with the line, what an earlier one left in the  *)
(* array may follow.                                                       *)
AnswersOwn ==
    \A c \in Callers : \A k \in DOMAIN heard[c] :
        IF kind = "plain"
        THEN \E j \in 1 .. k : heard[c][k] = TextOf(c, j) /\ (copied = 0 => j = k)
        ELSE /\ c = served
             /\ ~mixed /\ copied = 0 =>
                    SubSeq(heard[c][k], 1, Len(TextOf(c, k))) = TextOf(c, k)

(* When nothing moves any more, a client that still waits for its answer   *)
(* waits because a datagram was lost, or at the server of chap-14 because  *)
(* another client is served or a send failed unseen.                       *)
WaitsOnlyForLost ==
    flight = EmptyBag /\ inbox = <<>> /\ at \in {"first", "recv"} /\ 0 \notin failing =>
        \A c \in Callers :
            user[c] = "await" /\ mail[c] = <<>> /\ lost = 0 =>
                kind = "connected" /\ (c # served \/ c \in unsent \/ mixed)
=============================================================================
