------------------------------- MODULE Buffer -------------------------------
(***************************************************************************)
(* struct buffer of src/lib/buffer.c: an array with the unread bytes from  *)
(* readIndex up to writeIndex.  A buffer is a record, the functions of the *)
(* code are operators that return the buffer they leave behind.            *)
(***************************************************************************)
EXTENDS Integers, Sequences

CONSTANT INIT_BUFFER_SIZE

ASSUME BufferAssumption == INIT_BUFFER_SIZE \in Nat \ {0}

\* Bytes are told apart by number; Unset is memory nobody wrote.
Bytes == Nat
Unset == 0

IsBuffer(b) ==
    /\ b = [data |-> b.data, total_size |-> b.total_size,
            readIndex |-> b.readIndex, writeIndex |-> b.writeIndex]
    /\ b.total_size \in Nat
    /\ b.writeIndex \in 0..b.total_size
    /\ b.readIndex \in 0..b.writeIndex
    /\ b.data \in [0..b.total_size - 1 -> Bytes]

buffer_new == [data |-> [i \in 0..INIT_BUFFER_SIZE - 1 |-> Unset],
               total_size |-> INIT_BUFFER_SIZE,
               readIndex |-> 0,
               writeIndex |-> 0]

buffer_writeable_size(b) == b.total_size - b.writeIndex
buffer_readable_size(b) == b.writeIndex - b.readIndex
buffer_front_spare_size(b) == b.readIndex

\* The bytes a reader of the buffer finds.
Unread(b) == [k \in 1..buffer_readable_size(b) |-> b.data[b.readIndex + k - 1]]

-----------------------------------------------------------------------------
\* The unread bytes move to the front.  They are copied one by one, upwards,
\* to a lower address.
Compacted(b) ==
    [data |-> [i \in 0..b.total_size - 1 |->
                    IF i < buffer_readable_size(b)
                    THEN b.data[b.readIndex + i] ELSE b.data[i]],
     total_size |-> b.total_size,
     readIndex |-> 0,
     writeIndex |-> buffer_readable_size(b)]

\* realloc.
Enlarged(b, size) ==
    [data |-> [i \in 0..b.total_size + size - 1 |->
                    IF i < b.total_size THEN b.data[i] ELSE Unset],
     total_size |-> b.total_size + size,
     readIndex |-> b.readIndex,
     writeIndex |-> b.writeIndex]

\* Faulty: the space in front is counted although data is only moved when it
\* is enough by itself.
RoomWithoutMove(b, size) ==
    IF buffer_front_spare_size(b) + buffer_writeable_size(b) >= size THEN b
    ELSE Enlarged(b, size)

\* Faulty: the indices are reset and the bytes stay where they are.
RoomWithoutCopy(b, size) ==
    IF buffer_writeable_size(b) >= size THEN b
    ELSE IF buffer_front_spare_size(b) + buffer_writeable_size(b) >= size
           THEN [b EXCEPT !.readIndex = 0, !.writeIndex = buffer_readable_size(b)]
    ELSE Enlarged(b, size)

make_room(b, size) ==
    IF buffer_writeable_size(b) >= size THEN b
    ELSE IF buffer_front_spare_size(b) + buffer_writeable_size(b) >= size
           THEN Compacted(b)
    ELSE Enlarged(b, size)

-----------------------------------------------------------------------------
\* The bytes s are stored from writeIndex on.
Stored(b, s) ==
    [data |-> [i \in 0..b.total_size - 1 |->
                    IF i \in b.writeIndex..b.writeIndex + Len(s) - 1
                    THEN s[i - b.writeIndex + 1] ELSE b.data[i]],
     total_size |-> b.total_size,
     readIndex |-> b.readIndex,
     writeIndex |-> b.writeIndex + Len(s)]

buffer_append(b, s) == Stored(make_room(b, Len(s)), s)

\* readv fills the writable part and then a local array, whose content is
\* appended.
buffer_socket_read(b, s) ==
    LET max_writable == buffer_writeable_size(b) IN
    IF Len(s) <= max_writable THEN Stored(b, s)
    ELSE buffer_append(Stored(b, SubSeq(s, 1, max_writable)),
                       SubSeq(s, max_writable + 1, Len(s)))

\* The most readv can return.
SocketReadMax(b) == buffer_writeable_size(b) + INIT_BUFFER_SIZE

\* A reader advances readIndex: buffer_read_char, tcp_connection_send_buffer.
Advanced(b, n) ==
    [data |-> b.data, total_size |-> b.total_size,
     readIndex |-> b.readIndex + n, writeIndex |-> b.writeIndex]
=============================================================================
