------------------------ MODULE TcpConnectionProofs -------------------------
(***************************************************************************)
(* Proofs about the buffer and the connection for every size of buffer,    *)
(* room in the kernel and number of bytes: what the buffer's functions do  *)
(* to the unread bytes, and that no byte of a client is lost.              *)
(***************************************************************************)
EXTENDS TcpConnection, SequenceTheorems, TLAPS

-----------------------------------------------------------------------------
(* Sequences of bytes *)

LEMMA Associative ==
    ASSUME NEW x \in Seq(Nat), NEW y \in Seq(Nat), NEW z \in Seq(Nat)
    PROVE  (x \o y) \o z = x \o (y \o z)
BY ConcatAssociative

\* A sequence cut in two.
LEMMA Parted ==
    ASSUME NEW s \in Seq(Nat), NEW m \in 0..Len(s)
    PROVE  /\ SubSeq(s, 1, m) \in Seq(Nat) /\ Len(SubSeq(s, 1, m)) = m
           /\ SubSeq(s, m + 1, Len(s)) \in Seq(Nat)
           /\ Len(SubSeq(s, m + 1, Len(s))) = Len(s) - m
           /\ \A k \in 1..Len(s) - m : SubSeq(s, m + 1, Len(s))[k] = s[m + k]
           /\ SubSeq(s, 1, m) \o SubSeq(s, m + 1, Len(s)) = s
<1>1. Len(s) \in Nat /\ m \in Nat /\ m <= Len(s)
  OBVIOUS
<1>2. \A k \in 1..Len(s) : s[k] \in Nat
  BY ElementOfSeq
<1>3. SubSeq(s, 1, m) \in Seq(Nat) /\ Len(SubSeq(s, 1, m)) = m
  BY <1>1, <1>2, SubSeqProperties
<1>4. /\ SubSeq(s, m + 1, Len(s)) \in Seq(Nat)
      /\ Len(SubSeq(s, m + 1, Len(s))) = IF m + 1 <= Len(s) THEN Len(s) - (m + 1) + 1 ELSE 0
      /\ \A k \in 1..Len(s) - (m + 1) + 1 : SubSeq(s, m + 1, Len(s))[k] = s[m + 1 + k - 1]
  <2>1. m + 1 \in Int /\ \A k \in m + 1..Len(s) : s[k] \in Nat
    BY <1>1, <1>2
  <2> QED
    BY <1>1, <2>1, SubSeqProperties
<1>5. /\ (IF m + 1 <= Len(s) THEN Len(s) - (m + 1) + 1 ELSE 0) = Len(s) - m
      /\ Len(s) - (m + 1) + 1 = Len(s) - m
      /\ \A k \in 1..Len(s) - m : m + 1 + k - 1 = m + k
  BY <1>1
<1>6. SubSeq(s, 1, m) \o SubSeq(s, m + 1, Len(s)) = SubSeq(s, 1, Len(s))
  <2>1. 1 \in 1..Len(s) + 1 /\ m \in 1 - 1..Len(s) /\ Len(s) \in m..Len(s)
    BY <1>1
  <2> QED
    BY <2>1, ConcatAdjacentSubSeq
<1> QED
  BY <1>3, <1>4, <1>5, <1>6, SubSeqFull

-----------------------------------------------------------------------------
(* The buffer's functions *)

\* The unread bytes are a sequence, as long as the buffer says.
LEMMA UnreadIsSeq ==
    ASSUME NEW b, IsBuffer(b)
    PROVE  /\ Unread(b) \in Seq(Nat)
           /\ Len(Unread(b)) = buffer_readable_size(b)
           /\ buffer_readable_size(b) \in Nat /\ buffer_writeable_size(b) \in Nat
           /\ \A k \in 1..buffer_readable_size(b) : Unread(b)[k] = b.data[b.readIndex + k - 1]
<1>1. buffer_readable_size(b) \in Nat /\ buffer_writeable_size(b) \in Nat
  BY DEF IsBuffer, buffer_readable_size, buffer_writeable_size
<1>2. \A k \in 1..buffer_readable_size(b) : b.data[b.readIndex + k - 1] \in Nat
  BY DEF IsBuffer, buffer_readable_size, Bytes
<1>3. Unread(b) \in [1..buffer_readable_size(b) -> Nat]
  BY <1>2 DEF Unread
<1> QED
  BY <1>1, <1>3 DEF Unread

LEMMA CompactedKeeps ==
    ASSUME NEW b, IsBuffer(b)
    PROVE  /\ IsBuffer(Compacted(b)) /\ Unread(Compacted(b)) = Unread(b)
           /\ buffer_writeable_size(Compacted(b))
                = buffer_front_spare_size(b) + buffer_writeable_size(b)
<1> DEFINE n == buffer_readable_size(b)
           c == Compacted(b)
<1>1. n \in 0..b.total_size /\ b.readIndex + n = b.writeIndex
  BY DEF IsBuffer, buffer_readable_size
<1>2. c = [data |-> [i \in 0..b.total_size - 1 |->
                        IF i < n THEN b.data[b.readIndex + i] ELSE b.data[i]],
           total_size |-> b.total_size, readIndex |-> 0, writeIndex |-> n]
  BY DEF Compacted
<1>3. \A i \in 0..b.total_size - 1 :
            (IF i < n THEN b.data[b.readIndex + i] ELSE b.data[i]) \in Bytes
  BY <1>1 DEF IsBuffer
<1>4. IsBuffer(c)
  BY <1>1, <1>2, <1>3 DEF IsBuffer
<1>5. buffer_readable_size(c) = n
  BY <1>1, <1>2 DEF buffer_readable_size
<1>6. \A k \in 1..n : c.data[c.readIndex + k - 1] = b.data[b.readIndex + k - 1]
  BY <1>1, <1>2 DEF IsBuffer
<1>7. Unread(c) = Unread(b)
  BY <1>5, <1>6 DEF Unread
<1> HIDE DEF c
<1> QED
  BY <1>1, <1>2, <1>4, <1>7 DEF c, IsBuffer, buffer_writeable_size, buffer_front_spare_size

LEMMA EnlargedKeeps ==
    ASSUME NEW b, IsBuffer(b), NEW size \in Nat
    PROVE  /\ IsBuffer(Enlarged(b, size)) /\ Unread(Enlarged(b, size)) = Unread(b)
           /\ buffer_writeable_size(Enlarged(b, size)) = buffer_writeable_size(b) + size
<1> DEFINE c == Enlarged(b, size)
<1>1. c = [data |-> [i \in 0..b.total_size + size - 1 |->
                        IF i < b.total_size THEN b.data[i] ELSE Unset],
           total_size |-> b.total_size + size,
           readIndex |-> b.readIndex, writeIndex |-> b.writeIndex]
  BY DEF Enlarged
<1>2. \A i \in 0..b.total_size + size - 1 :
            (IF i < b.total_size THEN b.data[i] ELSE Unset) \in Bytes
  BY DEF IsBuffer, Bytes, Unset
<1>3. IsBuffer(c)
  BY <1>1, <1>2 DEF IsBuffer
<1>4. buffer_readable_size(c) = buffer_readable_size(b)
  BY <1>1 DEF buffer_readable_size
<1>5. \A k \in 1..buffer_readable_size(b) :
            c.data[c.readIndex + k - 1] = b.data[b.readIndex + k - 1]
  BY <1>1 DEF IsBuffer, buffer_readable_size
<1>6. Unread(c) = Unread(b)
  BY <1>4, <1>5 DEF Unread
<1> QED
  BY <1>1, <1>3, <1>6 DEF IsBuffer, buffer_writeable_size

\* make_room keeps the unread bytes and leaves the room it was asked for.
LEMMA MakeRoomKeeps ==
    ASSUME NEW b, IsBuffer(b), NEW size \in Nat
    PROVE  /\ IsBuffer(make_room(b, size)) /\ Unread(make_room(b, size)) = Unread(b)
           /\ buffer_writeable_size(make_room(b, size)) >= size
<1>1. buffer_writeable_size(b) \in Nat /\ buffer_front_spare_size(b) \in Nat
  BY DEF IsBuffer, buffer_writeable_size, buffer_front_spare_size
<1>2. CASE buffer_writeable_size(b) >= size
  BY <1>2 DEF make_room
<1>3. CASE ~(buffer_writeable_size(b) >= size)
           /\ buffer_front_spare_size(b) + buffer_writeable_size(b) >= size
  BY <1>3, CompactedKeeps DEF make_room
<1>4. CASE ~(buffer_writeable_size(b) >= size)
           /\ ~(buffer_front_spare_size(b) + buffer_writeable_size(b) >= size)
  BY <1>1, <1>4, EnlargedKeeps DEF make_room
<1> QED
  BY <1>2, <1>3, <1>4

\* Bytes stored where there is room follow the unread ones.
LEMMA StoredAppends ==
    ASSUME NEW b, IsBuffer(b), NEW s \in Seq(Nat), Len(s) <= buffer_writeable_size(b)
    PROVE  /\ IsBuffer(Stored(b, s)) /\ Unread(Stored(b, s)) = Unread(b) \o s
           /\ buffer_writeable_size(Stored(b, s)) = buffer_writeable_size(b) - Len(s)
<1> DEFINE c == Stored(b, s)
           n == buffer_readable_size(b)
<1>1. /\ Len(s) \in Nat /\ \A k \in 1..Len(s) : s[k] \in Nat
      /\ b.writeIndex + Len(s) \in 0..b.total_size
  BY DEF IsBuffer, buffer_writeable_size
<1>2. c = [data |-> [i \in 0..b.total_size - 1 |->
                        IF i \in b.writeIndex..b.writeIndex + Len(s) - 1
                        THEN s[i - b.writeIndex + 1] ELSE b.data[i]],
           total_size |-> b.total_size,
           readIndex |-> b.readIndex, writeIndex |-> b.writeIndex + Len(s)]
  BY DEF Stored
<1>3. \A i \in 0..b.total_size - 1 :
            (IF i \in b.writeIndex..b.writeIndex + Len(s) - 1
             THEN s[i - b.writeIndex + 1] ELSE b.data[i]) \in Bytes
  BY <1>1 DEF IsBuffer, Bytes
<1>4. IsBuffer(c)
  BY <1>1, <1>2, <1>3 DEF IsBuffer
<1>5. n \in Nat /\ buffer_readable_size(c) = n + Len(s) /\ b.readIndex + n = b.writeIndex
  BY <1>1, <1>2 DEF IsBuffer, buffer_readable_size
<1>6. \A k \in 1..n + Len(s) : c.data[c.readIndex + k - 1]
            = IF k <= n THEN b.data[b.readIndex + k - 1] ELSE s[k - n]
  <2> SUFFICES ASSUME NEW k \in 1..n + Len(s)
               PROVE  c.data[c.readIndex + k - 1]
                        = IF k <= n THEN b.data[b.readIndex + k - 1] ELSE s[k - n]
    OBVIOUS
  <2> DEFINE i == b.readIndex + k - 1
  <2>1. i \in 0..b.total_size - 1 /\ c.readIndex = b.readIndex
    BY <1>1, <1>2, <1>5 DEF IsBuffer
  <2>2. c.data[i] = IF i \in b.writeIndex..b.writeIndex + Len(s) - 1
                    THEN s[i - b.writeIndex + 1] ELSE b.data[i]
    BY <1>2, <2>1
  <2>3. /\ b.readIndex \in Int /\ b.writeIndex \in Int /\ n \in Nat /\ Len(s) \in Nat
        /\ b.readIndex + n = b.writeIndex
    BY <1>1, <1>5 DEF IsBuffer
  <2>4. CASE k <= n
    <3>1. ~(i \in b.writeIndex..b.writeIndex + Len(s) - 1)
      <4> HIDE DEF n
      <4> QED
        BY <2>3, <2>4
    <3> QED
      BY <2>1, <2>2, <2>4, <3>1
  <2>5. CASE ~(k <= n)
    <3>1. i \in b.writeIndex..b.writeIndex + Len(s) - 1 /\ i - b.writeIndex + 1 = k - n
      <4> HIDE DEF n
      <4> QED
        BY <2>3, <2>5
    <3> QED
      BY <2>1, <2>2, <2>5, <3>1
  <2> QED
    BY <2>4, <2>5
<1> HIDE DEF c, n
<1>7. Unread(c) \in Seq(Nat) /\ Len(Unread(c)) = n + Len(s)
      /\ \A k \in 1..n + Len(s) : Unread(c)[k] = c.data[c.readIndex + k - 1]
  BY <1>4, <1>5, UnreadIsSeq
<1>8. Unread(b) \in Seq(Nat) /\ Len(Unread(b)) = n
      /\ \A k \in 1..n : Unread(b)[k] = b.data[b.readIndex + k - 1]
  BY UnreadIsSeq DEF n
<1>9. /\ Unread(b) \o s \in Seq(Nat) /\ Len(Unread(b) \o s) = n + Len(s)
      /\ \A k \in 1..n + Len(s) :
            (Unread(b) \o s)[k] = IF k <= n THEN Unread(b)[k] ELSE s[k - n]
  BY <1>8, ConcatProperties
<1>10. \A k \in 1..n + Len(s) : Unread(c)[k] = (Unread(b) \o s)[k]
  <2> SUFFICES ASSUME NEW k \in 1..n + Len(s)
               PROVE  Unread(c)[k] = (Unread(b) \o s)[k]
    OBVIOUS
  <2>1. CASE k <= n
    <3>1. k \in 1..n
      BY <1>1, <1>5, <2>1
    <3> QED
      BY <1>6, <1>7, <1>8, <1>9, <2>1, <3>1
  <2>2. CASE ~(k <= n)
    BY <1>6, <1>7, <1>9, <2>2
  <2> QED
    BY <2>1, <2>2
<1>11. Unread(c) = Unread(b) \o s
  BY <1>7, <1>9, <1>10, SeqEqual
<1> QED
  BY <1>1, <1>2, <1>4, <1>11 DEF c, IsBuffer, buffer_writeable_size

LEMMA AppendAppends ==
    ASSUME NEW b, IsBuffer(b), NEW s \in Seq(Nat)
    PROVE  IsBuffer(buffer_append(b, s)) /\ Unread(buffer_append(b, s)) = Unread(b) \o s
<1>1. Len(s) \in Nat
  OBVIOUS
<1> QED
  BY <1>1, MakeRoomKeeps, StoredAppends DEF buffer_append

\* readv and its second array append what was read.
LEMMA SocketReadAppends ==
    ASSUME NEW b, IsBuffer(b), NEW s \in Seq(Nat)
    PROVE  /\ IsBuffer(buffer_socket_read(b, s))
           /\ Unread(buffer_socket_read(b, s)) = Unread(b) \o s
<1> DEFINE m == buffer_writeable_size(b)
           s1 == SubSeq(s, 1, m)
           s2 == SubSeq(s, m + 1, Len(s))
<1>1. Len(s) \in Nat /\ m \in Nat /\ Unread(b) \in Seq(Nat)
  BY UnreadIsSeq
<1>2. CASE Len(s) <= m
  BY <1>2, StoredAppends DEF buffer_socket_read
<1>3. CASE ~(Len(s) <= m)
  <2> HIDE DEF m
  <2>1. s1 \in Seq(Nat) /\ s2 \in Seq(Nat) /\ Len(s1) = m /\ s1 \o s2 = s
    <3>1. m \in 0..Len(s)
      BY <1>1, <1>3
    <3> QED
      BY <3>1, Parted
  <2> HIDE DEF s1, s2
  <2>2. IsBuffer(Stored(b, s1)) /\ Unread(Stored(b, s1)) = Unread(b) \o s1
    <3>1. Len(s1) <= buffer_writeable_size(b)
      BY <1>1, <2>1 DEF m
    <3> QED
      BY <2>1, <3>1, StoredAppends
  <2>3. /\ IsBuffer(buffer_append(Stored(b, s1), s2))
        /\ Unread(buffer_append(Stored(b, s1), s2)) = (Unread(b) \o s1) \o s2
    BY <2>1, <2>2, AppendAppends
  <2>4. (Unread(b) \o s1) \o s2 = Unread(b) \o s
    <3>1. (Unread(b) \o s1) \o s2 = Unread(b) \o (s1 \o s2)
      BY <1>1, <2>1, Associative
    <3> QED
      BY <2>1, <3>1
  <2>5. buffer_socket_read(b, s) = buffer_append(Stored(b, s1), s2)
    BY <1>3 DEF buffer_socket_read, m, s1, s2
  <2> QED
    BY <2>3, <2>4, <2>5
<1> QED
  BY <1>2, <1>3

\* A reader takes the first bytes.
LEMMA AdvancedDrops ==
    ASSUME NEW b, IsBuffer(b), NEW n \in 0..buffer_readable_size(b)
    PROVE  /\ IsBuffer(Advanced(b, n))
           /\ SubSeq(Unread(b), 1, n) \o Unread(Advanced(b, n)) = Unread(b)
           /\ SubSeq(Unread(b), 1, n) \in Seq(Nat) /\ Len(SubSeq(Unread(b), 1, n)) = n
<1> DEFINE c == Advanced(b, n)
           r == buffer_readable_size(b)
           u == Unread(b)
<1>1. r \in Nat /\ n \in Nat
  BY UnreadIsSeq
<1>2. c = [data |-> b.data, total_size |-> b.total_size,
           readIndex |-> b.readIndex + n, writeIndex |-> b.writeIndex]
  BY DEF Advanced
<1>3. IsBuffer(c) /\ buffer_readable_size(c) = r - n
  BY <1>1, <1>2 DEF IsBuffer, buffer_readable_size
<1>4. \A k \in 1..r - n : c.data[c.readIndex + k - 1] = b.data[b.readIndex + (n + k) - 1]
  BY <1>1, <1>2 DEF IsBuffer
<1> HIDE DEF c, r, u
<1>5. /\ Unread(c) \in Seq(Nat) /\ Len(Unread(c)) = r - n
      /\ \A k \in 1..r - n : Unread(c)[k] = c.data[c.readIndex + k - 1]
  BY <1>3, UnreadIsSeq
<1>6. u \in Seq(Nat) /\ Len(u) = r /\ \A k \in 1..r : u[k] = b.data[b.readIndex + k - 1]
  BY UnreadIsSeq DEF u, r
<1>7. SubSeq(u, 1, n) \in Seq(Nat) /\ Len(SubSeq(u, 1, n)) = n
      /\ \A k \in 1..n : SubSeq(u, 1, n)[k] = u[k]
  <2>1. \A k \in 1..n : u[k] \in Nat
    BY <1>1, <1>6, ElementOfSeq DEF r
  <2>2. /\ SubSeq(u, 1, n) \in Seq(Nat)
        /\ Len(SubSeq(u, 1, n)) = IF 1 <= n THEN n - 1 + 1 ELSE 0
        /\ \A k \in 1..n - 1 + 1 : SubSeq(u, 1, n)[k] = u[1 + k - 1]
    BY <1>1, <2>1, SubSeqProperties
  <2> QED
    BY <1>1, <2>2
<1> DEFINE v == SubSeq(u, 1, n)
           w == Unread(c)
<1> HIDE DEF v, w
<1>8. /\ v \o w \in Seq(Nat) /\ Len(v \o w) = r
      /\ \A k \in 1..r : (v \o w)[k] = IF k <= n THEN v[k] ELSE w[k - n]
  <2>1. v \in Seq(Nat) /\ Len(v) = n /\ w \in Seq(Nat) /\ Len(w) = r - n
    BY <1>5, <1>7 DEF v, w
  <2>2. /\ v \o w \in Seq(Nat) /\ Len(v \o w) = Len(v) + Len(w)
        /\ \A k \in 1..Len(v) + Len(w) : (v \o w)[k] =
                IF k <= Len(v) THEN v[k] ELSE w[k - Len(v)]
    BY <2>1, ConcatProperties
  <2>3. n + (r - n) = r
    BY <1>1
  <2> QED
    BY <2>1, <2>2, <2>3
<1>9. ASSUME NEW k \in 1..r PROVE (v \o w)[k] = u[k]
  <2>1. CASE k <= n
    BY <1>1, <1>7, <1>8, <2>1 DEF v
  <2>2. CASE ~(k <= n)
    <3>1. k - n \in 1..r - n /\ n + (k - n) = k
      BY <1>1, <2>2
    <3> QED
      BY <1>4, <1>5, <1>6, <1>8, <2>2, <3>1 DEF w
  <2> QED
    BY <2>1, <2>2
<1>10. v \o w = u
  BY <1>6, <1>8, <1>9, SeqEqual
<1> QED
  BY <1>3, <1>7, <1>10 DEF c, u, v, w

-----------------------------------------------------------------------------
(* The bytes of the client *)

LEMMA NumbersAreSeq ==
    ASSUME NEW m \in Nat, NEW n \in Nat
    PROVE  /\ Numbers(m + 1, m + n) \in Seq(Nat) /\ Len(Numbers(m + 1, m + n)) = n
           /\ \A k \in 1..n : Numbers(m + 1, m + n)[k] = m + k
<1>1. Numbers(m + 1, m + n) = [k \in 1..n |-> m + k]
  <2>1. m + n - (m + 1) + 1 = n /\ \A k \in 1..n : m + 1 + k - 1 = m + k
    OBVIOUS
  <2> QED
    BY <2>1 DEF Numbers
<1>2. \A k \in 1..n : m + k \in Nat
  OBVIOUS
<1> QED
  BY <1>1, <1>2

LEMMA NumbersFromOne ==
    ASSUME NEW m \in Nat
    PROVE  /\ Numbers(1, m) \in Seq(Nat) /\ Len(Numbers(1, m)) = m
           /\ \A k \in 1..m : Numbers(1, m)[k] = k
<1>1. Numbers(1, m) = [k \in 1..m |-> k]
  <2>1. m - 1 + 1 = m /\ \A k \in 1..m : 1 + k - 1 = k
    OBVIOUS
  <2> QED
    BY <2>1 DEF Numbers
<1>2. \A k \in 1..m : k \in Nat
  OBVIOUS
<1> QED
  BY <1>1, <1>2

LEMMA NumbersFollow ==
    ASSUME NEW m \in Nat, NEW n \in Nat
    PROVE  Numbers(1, m) \o Numbers(m + 1, m + n) = Numbers(1, m + n)
<1> DEFINE a == Numbers(1, m)
           b == Numbers(m + 1, m + n)
           c == Numbers(1, m + n)
<1>1. a \in Seq(Nat) /\ Len(a) = m /\ \A k \in 1..m : a[k] = k
  BY NumbersFromOne
<1>2. b \in Seq(Nat) /\ Len(b) = n /\ \A k \in 1..n : b[k] = m + k
  BY NumbersAreSeq
<1>3. c \in Seq(Nat) /\ Len(c) = m + n /\ \A k \in 1..m + n : c[k] = k
  <2>1. m + n \in Nat
    OBVIOUS
  <2> HIDE DEF a, b
  <2> QED
    BY <2>1, NumbersFromOne
<1> HIDE DEF a, b, c
<1>4. /\ a \o b \in Seq(Nat) /\ Len(a \o b) = m + n
      /\ \A k \in 1..m + n : (a \o b)[k] = IF k <= m THEN a[k] ELSE b[k - m]
  BY <1>1, <1>2, ConcatProperties
<1>5. \A k \in 1..m + n : (a \o b)[k] = c[k]
  BY <1>1, <1>2, <1>3, <1>4
<1>6. a \o b = c
  BY <1>3, <1>4, <1>5, SeqEqual
<1> QED
  BY <1>6 DEF a, b, c

\* The number of a byte is never that of memory nobody wrote.
LEMMA NumbersAreSet ==
    ASSUME NEW x \in Seq(Nat), NEW y \in Seq(Nat), NEW m \in Nat,
           x \o y = Numbers(1, m)
    PROVE  \A k \in 1..Len(y) : y[k] # Unset
<1>1. Len(x \o y) = m /\ \A k \in 1..m : (x \o y)[k] = k
  BY NumbersFromOne
<1>2. Len(x) \in Nat /\ Len(y) \in Nat /\ m = Len(x) + Len(y)
      /\ \A k \in 1..m : (x \o y)[k] = IF k <= Len(x) THEN x[k] ELSE y[k - Len(x)]
  <2>1. /\ Len(x \o y) = Len(x) + Len(y)
        /\ \A k \in 1..Len(x) + Len(y) :
                (x \o y)[k] = IF k <= Len(x) THEN x[k] ELSE y[k - Len(x)]
    BY ConcatProperties
  <2>2. Len(x) \in Nat /\ Len(y) \in Nat
    OBVIOUS
  <2> QED
    BY <1>1, <2>1, <2>2
<1> SUFFICES ASSUME NEW k \in 1..Len(y) PROVE y[k] # Unset
  OBVIOUS
<1>3. Len(x) + k \in 1..m /\ ~(Len(x) + k <= Len(x)) /\ Len(x) + k - Len(x) = k
  BY <1>2
<1>4. (x \o y)[Len(x) + k] = y[k]
  BY <1>2, <1>3
<1>5. y[k] = Len(x) + k
  BY <1>1, <1>3, <1>4
<1> QED
  BY <1>2, <1>5 DEF Unset

-----------------------------------------------------------------------------
(* The connection *)

\* What is true of a connection beyond its type: no byte is lost, and while
\* the thread is not lost in the write event nothing waits to be sent.
ConnInv ==
    /\ TypeOK
    /\ EveryByteOnce
    /\ pc \in {"wait", "message", "closed"} =>
            Unread(output_buffer) = <<>> /\ ~writeEnabled

LEMMA NewBuffer == IsBuffer(buffer_new) /\ Unread(buffer_new) = <<>>
<1>1. \A i \in 0..INIT_BUFFER_SIZE - 1 : Unset \in Bytes
  BY DEF Unset, Bytes
<1>2. IsBuffer(buffer_new) /\ buffer_readable_size(buffer_new) = 0
  BY <1>1, BufferAssumption DEF buffer_new, IsBuffer, buffer_readable_size
<1>3. Unread(buffer_new) \in Seq(Nat) /\ Len(Unread(buffer_new)) = 0
  BY <1>2, UnreadIsSeq
<1> QED
  BY <1>2, <1>3, EmptySeq

LEMMA NoByteLeft == Unread(output_buffer) = <<>> => Unsent = <<>>
  BY DEF Unsent

\* The byte in front that is not the application's.
LEMMA UnsetInFront ==
    ASSUME NEW data \in Seq(Nat), NEW u, u = <<Unset>> \o data
    PROVE  u \in Seq(Nat) /\ u # <<>> /\ u[1] = Unset /\ Tail(u) = data
<1>1. <<Unset>> \in Seq(Nat) /\ Len(<<Unset>>) = 1
  BY DEF Unset
<1>2. /\ u \in Seq(Nat) /\ Len(u) = 1 + Len(data)
      /\ \A k \in 1..1 + Len(data) : u[k] = IF k <= 1 THEN <<Unset>>[k] ELSE data[k - 1]
  BY <1>1, ConcatProperties
<1>3. u # <<>> /\ u[1] = Unset
  BY <1>2
<1>4. /\ Tail(u) \in Seq(Nat) /\ Len(Tail(u)) = Len(data)
      /\ \A k \in 1..Len(data) : Tail(u)[k] = u[k + 1]
  BY <1>2, <1>3, HeadTailProperties
<1>5. \A k \in 1..Len(data) : Tail(u)[k] = data[k]
  BY <1>2, <1>4
<1>6. Tail(u) = data
  BY <1>4, <1>5, SeqEqual
<1> QED
  BY <1>2, <1>3, <1>6

-----------------------------------------------------------------------------
(* The invariant is inductive *)

LEMMA ConnInit == Init => ConnInv
<1> SUFFICES ASSUME Init PROVE ConnInv
  OBVIOUS
<1> USE ConnectionAssumption DEF Init
<1>1. TypeOK
  <2>1. IsBuffer(input_buffer) /\ IsBuffer(output_buffer)
    BY NewBuffer
  <2>2. wire \in Seq(Bytes)
    BY EmptySeq
  <2>3. received \in 0..MaxBytes /\ room \in 0..SendRoom
    OBVIOUS
  <2> QED
    BY <2>1, <2>2, <2>3 DEF TypeOK
<1>2. Unread(output_buffer) = <<>> /\ Unread(input_buffer) = <<>> /\ Unsent = <<>>
  BY NewBuffer, NoByteLeft
<1>3. Numbers(1, 0) = <<>>
  BY NumbersFromOne, EmptySeq
<1>4. wire \o Unsent \o Unread(input_buffer) = <<>>
  BY <1>2, EmptySeq, ConcatEmptySeq
<1> QED
  BY <1>1, <1>2, <1>3, <1>4 DEF ConnInv, EveryByteOnce

LEMMA ReadStep ==
    ASSUME ConnInv, NEW n \in 1..MaxBytes, HandleRead(n)
    PROVE  ConnInv'
<1> DEFINE got == Numbers(received + 1, received + n)
           all == Numbers(1, received)
           held == wire \o Unsent
<1>1. /\ n \in Nat /\ received \in Nat /\ received + n \in 0..MaxBytes
      /\ IsBuffer(input_buffer) /\ wire \in Seq(Nat) /\ pc = "wait"
  BY ConnectionAssumption DEF ConnInv, TypeOK, HandleRead, Bytes
<1>2. got \in Seq(Nat) /\ all \o got = Numbers(1, received + n)
  BY <1>1, NumbersAreSeq, NumbersFollow
<1>3. IsBuffer(input_buffer') /\ Unread(input_buffer') = Unread(input_buffer) \o got
  BY <1>1, <1>2, SocketReadAppends DEF HandleRead
<1>4. Unread(output_buffer) = <<>> /\ ~writeEnabled /\ Unsent = <<>>
  BY <1>1, NoByteLeft DEF ConnInv
<1>5. output_buffer' = output_buffer /\ wire' = wire /\ writeEnabled' = writeEnabled
      /\ received' = received + n /\ Unsent' = Unsent /\ Unread(output_buffer)' = <<>>
  BY <1>4 DEF HandleRead, Unsent
<1>6. TypeOK'
  BY <1>1, <1>3 DEF ConnInv, TypeOK, HandleRead
<1>7. held \in Seq(Nat) /\ Unread(input_buffer) \in Seq(Nat)
  BY <1>1, <1>4, UnreadIsSeq, ConcatEmptySeq
<1>8. held \o Unread(input_buffer) = all
  BY DEF ConnInv, EveryByteOnce
<1>9. EveryByteOnce'
  <2> HIDE DEF got, all, held
  <2>1. held \o (Unread(input_buffer) \o got) = (held \o Unread(input_buffer)) \o got
    BY <1>2, <1>7, Associative
  <2>2. held \o Unread(input_buffer') = Numbers(1, received + n)
    BY <1>2, <1>3, <1>8, <2>1
  <2>3. EveryByteOnce' <=> held \o Unread(input_buffer') = Numbers(1, received + n)
    BY <1>5 DEF EveryByteOnce, held, Unread
  <2> QED
    BY <2>2, <2>3
<1> QED
  BY <1>4, <1>5, <1>6, <1>9 DEF ConnInv

\* What tcp_connection_send_data puts into an empty output buffer.
LEMMA RestAppended ==
    ASSUME IsBuffer(output_buffer), Unread(output_buffer) = <<>>,
           writeEnabled \in BOOLEAN, ~writeEnabled, NEW left \in Seq(Nat), SendRest(left)
    PROVE  /\ IsBuffer(output_buffer') /\ Unread(output_buffer)' = left
           /\ writeEnabled' \in BOOLEAN /\ pc' \in {"wait", "hang", "abort"}
           /\ pc' = "wait" => left = <<>> /\ ~writeEnabled'
<1>1. CASE left = <<>>
  <2>1. output_buffer' = output_buffer /\ writeEnabled' = writeEnabled /\ pc' = "wait"
    BY <1>1 DEF SendRest
  <2>2. Unread(output_buffer)' = Unread(output_buffer)
    BY <2>1 DEF Unread
  <2> QED
    BY <1>1, <2>1, <2>2
<1>2. CASE left # <<>>
  <2>1. /\ output_buffer' = buffer_append(output_buffer, left)
        /\ writeEnabled' = TRUE /\ pc' \in {"hang", "abort"}
    BY <1>2 DEF SendRest
  <2>2. IsBuffer(output_buffer') /\ Unread(output_buffer') = <<>> \o left
    BY <2>1, AppendAppends
  <2>3. Unread(output_buffer)' = Unread(output_buffer')
    BY DEF Unread, buffer_readable_size
  <2> QED
    BY <2>1, <2>2, <2>3, ConcatEmptySeq
<1> QED
  BY <1>1, <1>2

LEMMA SendStep ==
    ASSUME ConnInv, NEW n \in 1..MaxBytes, Send(n)
    PROVE  ConnInv'
<1> DEFINE u == Unread(input_buffer)
           data == SubSeq(u, 1, n)
           rest == Unread(input_buffer')
           w == Written(n)
           left == Left(data, w)
<1>1. /\ IsBuffer(input_buffer) /\ IsBuffer(output_buffer) /\ wire \in Seq(Nat)
      /\ room \in 0..SendRoom /\ SendRoom \in Nat /\ received \in Nat
      /\ writeEnabled \in BOOLEAN
      /\ n \in Nat /\ n >= 1 /\ pc = "message"
  BY ConnectionAssumption DEF ConnInv, TypeOK, Send, Bytes
<1>2. Unread(output_buffer) = <<>> /\ ~writeEnabled /\ Unsent = <<>>
  BY <1>1, NoByteLeft DEF ConnInv
<1>3. buffer_readable_size(output_buffer) = 0
  BY <1>1, <1>2, UnreadIsSeq, EmptySeq
<1>4. /\ n \in 1..buffer_readable_size(input_buffer)
      /\ input_buffer' = Advanced(input_buffer, n)
      /\ wire' = IF w = -1 THEN wire ELSE wire \o SubSeq(data, 1, w)
      /\ room' = IF w = -1 THEN room ELSE room - w
      /\ SendRest(left) /\ received' = received /\ reset' = reset
  BY <1>2, <1>3 DEF Send
<1>5. /\ IsBuffer(input_buffer') /\ data \o rest = u
      /\ data \in Seq(Nat) /\ Len(data) = n /\ rest \in Seq(Nat) /\ u \in Seq(Nat)
  <2>1. n \in 0..buffer_readable_size(input_buffer)
    BY <1>4
  <2>2. IsBuffer(input_buffer') /\ data \o rest = u /\ data \in Seq(Nat) /\ Len(data) = n
    BY <1>1, <1>4, <2>1, AdvancedDrops
  <2> QED
    BY <1>1, <2>2, UnreadIsSeq
<1>6. wire \o u = Numbers(1, received)
  BY <1>1, <1>2, ConcatEmptySeq DEF ConnInv, EveryByteOnce
<1>7. \A k \in 1..n : data[k] # Unset
  <2> HIDE DEF data, rest, u
  <2>1. (wire \o data) \o rest = wire \o u
    BY <1>1, <1>5, Associative
  <2>2. \A k \in 1..Len(data \o rest) : (data \o rest)[k] # Unset
    <3>1. data \o rest \in Seq(Nat) /\ wire \o (data \o rest) = Numbers(1, received)
      BY <1>5, <1>6
    <3> QED
      BY <1>1, <3>1, NumbersAreSet
  <2>3. /\ Len(data \o rest) = n + Len(rest) /\ Len(rest) \in Nat
        /\ \A k \in 1..n + Len(rest) : (data \o rest)[k] =
                IF k <= n THEN data[k] ELSE rest[k - n]
    <3>1. /\ Len(data \o rest) = Len(data) + Len(rest)
          /\ \A k \in 1..Len(data) + Len(rest) : (data \o rest)[k] =
                IF k <= Len(data) THEN data[k] ELSE rest[k - Len(data)]
      BY <1>5, ConcatProperties
    <3>2. Len(rest) \in Nat
      BY <1>5
    <3> QED
      BY <1>5, <3>1, <3>2
  <2> SUFFICES ASSUME NEW k \in 1..n PROVE data[k] # Unset
    OBVIOUS
  <2>4. k \in 1..n + Len(rest) /\ k <= n
    BY <1>1, <2>3
  <2>5. (data \o rest)[k] # Unset
    BY <2>2, <2>3, <2>4
  <2> QED
    BY <2>3, <2>4, <2>5
<1>8. w = -1 \/ (w \in 1..n /\ w <= room)
  BY <1>1 DEF Written
<1>9. Unread(output_buffer)' = Unread(output_buffer') /\ Unread(input_buffer)' = rest
  BY DEF Unread, buffer_readable_size
<1> HIDE DEF u, data, rest, w, left
\* The rest that was not written, and what became of the bytes taken.
<1>10. /\ left \in Seq(Nat) /\ IsBuffer(output_buffer') /\ wire' \in Seq(Nat)
       /\ writeEnabled' \in BOOLEAN /\ pc' \in {"wait", "hang", "abort"}
       /\ pc' = "wait" => Unread(output_buffer)' = <<>> /\ ~writeEnabled'
       /\ Unsent' \in Seq(Nat) /\ wire' \o Unsent' = wire \o data
       /\ room' \in 0..SendRoom
  <2>1. CASE w = -1
    <3>1. left = <<Unset>> \o data
      BY <2>1 DEF Left, left
    <3>2. left \in Seq(Nat) /\ left # <<>> /\ left[1] = Unset /\ Tail(left) = data
      BY <1>5, <3>1, UnsetInFront
    <3>3. /\ IsBuffer(output_buffer') /\ Unread(output_buffer)' = left
          /\ writeEnabled' \in BOOLEAN /\ pc' \in {"wait", "hang", "abort"}
          /\ pc' = "wait" => left = <<>> /\ ~writeEnabled'
      BY <1>1, <1>2, <1>4, <3>2, RestAppended
    <3>4. Unsent' = data
      BY <3>2, <3>3 DEF Unsent
    <3>5. wire' = wire /\ room' = room
      BY <1>4, <2>1
    <3> QED
      BY <1>1, <1>5, <3>2, <3>3, <3>4, <3>5
  <2>2. CASE w \in 1..n /\ w <= room
    <3> DEFINE sent == SubSeq(data, 1, w)
    <3>1. left = SubSeq(data, w + 1, Len(data)) /\ w \in 0..Len(data) /\ w # -1
      BY <1>1, <1>5, <2>2 DEF Left, left
    <3>2. /\ sent \in Seq(Nat) /\ left \in Seq(Nat) /\ Len(left) = n - w
          /\ \A k \in 1..n - w : left[k] = data[w + k]
          /\ sent \o left = data
      BY <1>5, <3>1, Parted
    <3> HIDE DEF sent
    <3>3. /\ IsBuffer(output_buffer') /\ Unread(output_buffer)' = left
          /\ writeEnabled' \in BOOLEAN /\ pc' \in {"wait", "hang", "abort"}
          /\ pc' = "wait" => left = <<>> /\ ~writeEnabled'
      BY <1>1, <1>2, <1>4, <3>2, RestAppended
    <3>4. left # <<>> => left[1] # Unset
      <4> SUFFICES ASSUME left # <<>> PROVE left[1] # Unset
        OBVIOUS
      <4>1. Len(left) # 0
        BY <3>2, EmptySeq
      <4>2. 1 \in 1..n - w /\ w + 1 \in 1..n
        BY <1>1, <2>2, <3>2, <4>1
      <4> QED
        BY <1>7, <3>2, <4>2
    <3>5. Unsent' = left
      BY <3>3, <3>4 DEF Unsent
    <3>6. wire' = wire \o sent /\ room' = room - w
      BY <1>4, <3>1 DEF sent
    <3>7. (wire \o sent) \o left = wire \o data /\ wire \o sent \in Seq(Nat)
      BY <1>1, <3>2, Associative, ConcatProperties
    <3>8. room' \in 0..SendRoom
      BY <1>1, <2>2, <3>6
    <3> QED
      BY <3>2, <3>3, <3>5, <3>6, <3>7, <3>8
  <2> QED
    BY <1>8, <2>1, <2>2
<1>11. TypeOK'
  <2>1. received' \in 0..MaxBytes /\ reset' \in BOOLEAN
    BY <1>4 DEF ConnInv, TypeOK
  <2> QED
    BY <1>5, <1>10, <2>1 DEF TypeOK, Bytes
<1>12. EveryByteOnce'
  <2>1. (wire \o data) \o rest = wire \o (data \o rest)
    BY <1>1, <1>5, Associative
  <2>2. (wire' \o Unsent') \o rest = Numbers(1, received)
    BY <1>5, <1>6, <1>10, <2>1
  <2>3. EveryByteOnce' <=> (wire' \o Unsent') \o Unread(input_buffer)' = Numbers(1, received')
    BY DEF EveryByteOnce, Numbers
  <2> QED
    BY <1>4, <1>9, <2>2, <2>3
<1> QED
  BY <1>10, <1>11, <1>12 DEF ConnInv

\* The steps that leave both buffers and the wire as they are.
LEMMA IdleStep ==
    ASSUME ConnInv,
           UNCHANGED <<input_buffer, output_buffer, writeEnabled, received, wire>>,
           room' \in 0..SendRoom, reset' \in BOOLEAN,
           \/ pc' = pc
           \/ pc \in {"wait", "message"} /\ pc' \in {"wait", "closed", "killed"}
    PROVE  ConnInv'
<1>1. TypeOK'
  BY DEF ConnInv, TypeOK
<1>2. EveryByteOnce'
  BY DEF ConnInv, EveryByteOnce, Unsent, Unread, buffer_readable_size, Numbers
<1>3. Unread(output_buffer)' = Unread(output_buffer)
  BY DEF Unread, buffer_readable_size
<1> QED
  BY <1>1, <1>2, <1>3 DEF ConnInv

LEMMA ConnStep == ConnInv /\ [Next]_vars => ConnInv'
<1> SUFFICES ASSUME ConnInv, [Next]_vars PROVE ConnInv'
  OBVIOUS
<1>1. ASSUME NEW n \in 1..MaxBytes, HandleRead(n) PROVE ConnInv'
  BY <1>1, ReadStep
<1>2. CASE HandleClosed
  BY <1>2, IdleStep DEF HandleClosed, ConnInv, TypeOK
<1>3. CASE KeepMessage
  BY <1>3, IdleStep DEF KeepMessage, ConnInv, TypeOK
<1>4. ASSUME NEW n \in 1..MaxBytes, Send(n) PROVE ConnInv'
  BY <1>4, SendStep
<1>5. ASSUME NEW n \in 1..SendRoom, ClientReads(n) PROVE ConnInv'
  <2>1. room' \in 0..SendRoom
    BY <1>5, ConnectionAssumption DEF ClientReads, ConnInv, TypeOK
  <2> QED
    BY <1>5, <2>1, IdleStep DEF ClientReads, ConnInv, TypeOK
<1>6. CASE UNCHANGED vars
  BY <1>6, IdleStep DEF vars, ConnInv, TypeOK
<1>7. CASE SendKills
  BY <1>7, IdleStep DEF SendKills, ConnInv, TypeOK
<1>8. CASE ClientResets
  BY <1>8, IdleStep DEF ClientResets, ConnInv, TypeOK
<1> QED
  BY <1>1, <1>2, <1>3, <1>4, <1>5, <1>6, <1>7, <1>8 DEF Next, Callback, Client

-----------------------------------------------------------------------------
(* What is proved of the specification *)

LEMMA ConnAlways == Spec => []ConnInv
  BY ConnInit, ConnStep, PTL DEF Spec

\* handle_read and tcp_connection_send_data keep both buffers well formed,
\* the indices of each within its array, for every size and every cut.
THEOREM TypeCorrect == Spec => []TypeOK
<1>1. ConnInv => TypeOK
  BY DEF ConnInv
<1> QED
  BY <1>1, ConnAlways, PTL

\* Every byte that handle_read got is on the wire, in the output buffer or
\* still unread, once and in order, until the thread is lost in the write
\* event and after that.
THEOREM EveryByteOnceCorrect == Spec => []EveryByteOnce
<1>1. ConnInv => EveryByteOnce
  BY DEF ConnInv
<1> QED
  BY <1>1, ConnAlways, PTL

=============================================================================
