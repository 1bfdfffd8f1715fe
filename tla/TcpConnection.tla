--------------------------- MODULE TcpConnection ----------------------------
(***************************************************************************)
(* One struct tcp_connection of src/lib/tcp_connection.c in its loop's     *)
(* thread, under an application that sends back what it reads, as those of *)
(* chap-27 to chap-29 do, but need not take a message at once.  The bytes  *)
(* of the client are numbered 1, 2, ... in the order it sends them.        *)
(*                                                                         *)
(* handle_write and the branch of tcp_connection_send_data for a failed    *)
(* write are not here because no run of the code reaches them: the write   *)
(* event cannot be enabled, and a size_t is never negative.                *)
(***************************************************************************)
EXTENDS Buffer

CONSTANTS
    SendRoom,       \* bytes the kernel takes while the client does not read
    MaxBytes        \* bound on the bytes a client sends

ASSUME ConnectionAssumption == SendRoom \in Nat /\ MaxBytes \in Nat

VARIABLES
    input_buffer,
    output_buffer,
    writeEnabled,   \* channel->events has EVENT_WRITE
    received,       \* bytes of the client read so far
    wire,           \* bytes the kernel took, in order
    room,           \* bytes it takes now
    reset,          \* the client has reset the connection
    pc              \* where the loop's thread is

vars == <<input_buffer, output_buffer, writeEnabled, received, wire, room, reset,
          pc>>

TypeOK ==
    /\ IsBuffer(input_buffer)
    /\ IsBuffer(output_buffer)
    /\ writeEnabled \in BOOLEAN
    /\ received \in 0..MaxBytes
    /\ wire \in Seq(Bytes)
    /\ room \in 0..SendRoom
    /\ reset \in BOOLEAN
    /\ pc \in {"wait", "message", "closed", "hang", "abort", "killed"}

-----------------------------------------------------------------------------
Numbers(m, n) == [k \in 1..n - m + 1 |-> m + k - 1]

\* tcp_connection_new.
Init ==
    /\ input_buffer = buffer_new
    /\ output_buffer = buffer_new
    /\ writeEnabled = FALSE
    /\ received = 0
    /\ wire = <<>>
    /\ room = SendRoom
    /\ reset = FALSE
    /\ pc = "wait"

\* handle_read gets n more bytes, which a reset does not take away, and calls the message callback.
HandleRead(n) ==
    /\ pc = "wait"
    /\ n \in 1..SocketReadMax(input_buffer)
    /\ received + n <= MaxBytes
    /\ input_buffer' = buffer_socket_read(input_buffer,
                                          Numbers(received + 1, received + n))
    /\ received' = received + n
    /\ pc' = "message"
    /\ UNCHANGED <<output_buffer, writeEnabled, wire, room, reset>>

\* handle_read gets end of file or an error: handle_connection_closed.
HandleClosed ==
    /\ pc = "wait"
    /\ pc' = "closed"
    /\ UNCHANGED <<input_buffer, output_buffer, writeEnabled, received, wire,
                   room, reset>>

\* What write returns: the part that fits, or -1, with EWOULDBLOCK or with
\* ECONNRESET.  The code's branch for the latter is never taken.
Written(size) == IF room = 0 \/ reset THEN -1
                 ELSE IF size <= room THEN size ELSE room

\* Bytes still to be sent after a write returned nwrited.  As a size_t the
\* value -1 is the largest: the copy starts one byte before the data.
Left(data, nwrited) == IF nwrited = -1 THEN <<Unset>> \o data
                       ELSE SubSeq(data, nwrited + 1, Len(data))

\* tcp_connection_send_data puts the rest into the output buffer and enables
\* the write event.  channel_write_event_enable takes the channel's data, the
\* tcp_connection, for an event_loop: what it finds in place of the mutex
\* either never becomes free, or the assert on what it finds in place of
\* is_handle_pending fails.
SendRest(left) ==
    IF left = <<>>
      THEN pc' = "wait" /\ UNCHANGED <<output_buffer, writeEnabled>>
      ELSE /\ output_buffer' = buffer_append(output_buffer, left)
           /\ writeEnabled' = TRUE
           /\ pc' \in {"hang", "abort"}

\* The message callback takes n bytes and hands them to
\* tcp_connection_send_buffer.
Send(n) ==
    LET data == SubSeq(Unread(input_buffer), 1, n)
        nwrited == IF ~writeEnabled /\ buffer_readable_size(output_buffer) = 0
                   THEN Written(n) ELSE 0
    IN
    /\ pc = "message"
    /\ n \in 1..buffer_readable_size(input_buffer)
    /\ input_buffer' = Advanced(input_buffer, n)
    /\ wire' = IF nwrited = -1 THEN wire ELSE wire \o SubSeq(data, 1, nwrited)
    /\ room' = IF nwrited = -1 THEN room ELSE room - nwrited
    /\ SendRest(Left(data, nwrited))
    /\ UNCHANGED <<received, reset>>

\* The client had closed its side before the reset: the write gets EPIPE, and
\* SIGPIPE, which the acceptor's path does not ignore, ends the process.
SendKills ==
    /\ pc = "message" /\ reset
    /\ pc' = "killed"
    /\ UNCHANGED <<input_buffer, output_buffer, writeEnabled, received, wire,
                   room, reset>>

\* The callback leaves the bytes for later.
KeepMessage ==
    /\ pc = "message"
    /\ pc' = "wait"
    /\ UNCHANGED <<input_buffer, output_buffer, writeEnabled, received, wire,
                   room, reset>>

\* The client reads what it was sent.
ClientReads(n) ==
    /\ ~reset
    /\ n \in 1..SendRoom - room
    /\ room' = room + n
    /\ UNCHANGED <<input_buffer, output_buffer, writeEnabled, received, wire, reset,
                   pc>>

ClientResets ==
    /\ ~reset
    /\ reset' = TRUE
    /\ UNCHANGED <<input_buffer, output_buffer, writeEnabled, received, wire, room, pc>>

-----------------------------------------------------------------------------
Callback == KeepMessage \/ SendKills \/ \E n \in 1..MaxBytes : Send(n)
Client == \E n \in 1..SendRoom : ClientReads(n)

Next == \/ \E n \in 1..MaxBytes : HandleRead(n)
        \/ HandleClosed
        \/ Callback
        \/ Client
        \/ ClientResets

Spec == Init /\ [][Next]_vars

\* The thread runs, and the client reads: the most that can be asked of it.
FairSpec == Spec /\ WF_vars(Callback) /\ WF_vars(Client)

-----------------------------------------------------------------------------
(* Properties *)

\* The bytes that wait in the output buffer, without the byte in front that
\* is not the application's.
Unsent == IF Unread(output_buffer) # <<>> /\ Unread(output_buffer)[1] = Unset
          THEN Tail(Unread(output_buffer)) ELSE Unread(output_buffer)

\* However reads and writes are cut and whichever way the buffers make room,
\* every byte of the client is in one place, and in order: on the wire, in
\* the output buffer, or still to be taken by the application.
EveryByteOnce ==
    wire \o Unsent \o Unread(input_buffer) = Numbers(1, received)

\* "copied into Buffer, the framework takes over the Buffer's data"
\* (tcp_connection_send_data): what was put into the output buffer leaves it,
\* unless the client resets the connection.
FrameworkTakesOver ==
    Unread(output_buffer) # <<>> ~> Unread(output_buffer) = <<>> \/ reset
=============================================================================
