---------------------------- MODULE MessageStream ----------------------------
(***************************************************************************)
(* src/chap-16 with readn and read_message of src/lib/read.c: a client     *)
(* writes messages, a length, a type and that many bytes, and a server     *)
(* takes the stream apart again, however the network cuts it. Data is in   *)
(* bytes, a length or a type is FIELD bytes. An interrupted read is        *)
(* repeated and changes nothing.                                           *)
(***************************************************************************)
EXTENDS Integers, Sequences

CONSTANTS
    FIELD,          \* bytes of a length or a type
    BUFFER,         \* bytes of data the server has room for
    Inputs          \* sequences of lengths the client may send

VARIABLES
    lengths,        \* lengths[m]: the data of message m
    queued,         \* bytes the client has sent
    delivered,      \* bytes of those that have arrived
    ended,          \* the client has ended, its end of file is on the way
    reading,        \* "length", "type", "data": the readn the server is in; or how the
                    \* server ended: "closed", "toolong"
    have,           \* bytes that readn has got
    consumed,       \* bytes the server has read altogether
    received        \* messages read_message has returned

streamVars == <<lengths, queued, delivered, ended, reading, have, consumed, received>>

Size(m) == 2 * FIELD + lengths[m]
Before[m \in Nat] == IF m <= 1 THEN 0 ELSE Before[m - 1] + Size(m - 1)
Total == Before[Len(lengths) + 1]

MessageStreamTypeOK ==
    /\ lengths \in Inputs
    /\ 0 <= consumed /\ consumed <= delivered /\ delivered <= queued /\ queued <= Total
    /\ ended \in BOOLEAN
    /\ reading \in {"length", "type", "data", "closed", "toolong"}
    /\ have \in 0 .. Total
    /\ received \in 0 .. Len(lengths)

Start ==
    /\ lengths \in Inputs
    /\ queued = 0 /\ delivered = 0 /\ ended = FALSE
    /\ reading = "length" /\ have = 0 /\ consumed = 0 /\ received = 0

\* One send for each line. The client may be killed in the middle of it.
SendMessage ==
    /\ ~ended
    /\ \E m \in DOMAIN lengths :
        /\ queued = Before[m]
        /\ \/ queued' = Before[m] + Size(m) /\ UNCHANGED ended
           \/ queued' \in queued .. queued + Size(m) - 1 /\ ended' = TRUE
    /\ UNCHANGED <<lengths, delivered, reading, have, consumed, received>>

EndClient ==
    /\ ~ended /\ queued = Total
    /\ ended' = TRUE
    /\ UNCHANGED <<lengths, queued, delivered, reading, have, consumed, received>>

Deliver ==
    /\ delivered' \in delivered + 1 .. queued
    /\ UNCHANGED <<lengths, queued, ended, reading, have, consumed, received>>

\* The message that starts with the length read last.
Current == received + 1
Want == IF reading = "data" THEN lengths[Current] ELSE FIELD
InReadn == reading \in {"length", "type", "data"}

\* Mutant: readn returns after one read.
readnOnce ==
    /\ InReadn /\ have < Want
    /\ \E n \in 1 .. Want - have :
        /\ consumed + n <= delivered
        /\ consumed' = consumed + n
        /\ have' = Want
    /\ UNCHANGED <<lengths, queued, delivered, ended, reading, received>>

\* read, in the loop of readn: some of the bytes that are there and are wanted.
readn ==
    /\ InReadn /\ have < Want
    /\ \E n \in 1 .. Want - have :
        /\ consumed + n <= delivered
        /\ consumed' = consumed + n
        /\ have' = have + n
    /\ UNCHANGED <<lengths, queued, delivered, ended, reading, received>>

\* readn returns all bytes: read_message goes on to the next field, returns the message,
\* or finds that it has no room for it. A message without data reads as end of file.
read_message ==
    /\ InReadn /\ have = Want
    /\ reading' = CASE reading = "length" -> "type"
                    [] reading = "type" -> IF lengths[Current] > BUFFER THEN "toolong" ELSE "data"
                    [] OTHER -> IF Want = 0 THEN "closed" ELSE "length"
    /\ have' = 0
    /\ received' = IF reading = "data" /\ Want > 0 THEN received + 1 ELSE received
    /\ UNCHANGED <<lengths, queued, delivered, ended, consumed>>

\* readn meets the end of file and returns less: the server ends.
ReadEnd ==
    /\ InReadn /\ have < Want
    /\ ended /\ consumed = queued
    /\ reading' = "closed"
    /\ UNCHANGED <<lengths, queued, delivered, ended, have, consumed, received>>

StreamServer == readn \/ read_message \/ ReadEnd
StreamNext == StreamServer \/ SendMessage \/ EndClient \/ Deliver

----------------------------------------------------------------------------

(* The server stays in step with the stream: the bytes it reads as a       *)
(* field of a message are those of that field, wherever the stream was     *)
(* cut, so that the lengths it goes by are the ones that were sent. It     *)
(* ends early only for a message without data or one too long for it, and  *)
(* it never takes part of a message for the whole.                         *)
MessagesWhole ==
    LET start == Before[Current]
            + (CASE reading = "type" -> FIELD [] reading = "data" -> 2 * FIELD [] OTHER -> 0)
    IN  /\ InReadn => consumed = start + have
        /\ received > 0 => Before[Current] <= queued
        /\ reading = "closed" =>
            \/ ended /\ (Current \in DOMAIN lengths => queued < Before[Current] + Size(Current))
            \/ Current \in DOMAIN lengths /\ lengths[Current] = 0
        /\ reading = "toolong" => lengths[Current] > BUFFER
=============================================================================
