-------------------------- MODULE HttpServerProofs --------------------------
(***************************************************************************)
(* Proofs about the HTTP layer for every set of well-formed streams: the   *)
(* parser stays in step with the requests, and the connection is shut down *)
(* when a request asks for it, until a header line without ": " is taken   *)
(* for the end of its request; and what a client must have sent for the    *)
(* assertion, SIGPIPE or the NULL comparison to end the process.           *)
(***************************************************************************)
EXTENDS HttpServer, FiniteSetTheorems, SequenceTheorems, TLAPS

-----------------------------------------------------------------------------
(* The requests of a stream *)

\* How many requests end in the first r tokens.
Ends(r) == RequestEnds \cap 1..r
Count(r) == Cardinality(Ends(r))

\* The end of the last answered request.
Begin == EndOf(responses)

BeginInv ==
    /\ Begin \in {0} \cup RequestEnds
    /\ Begin <= readIndex
    /\ Count(Begin) = responses
    /\ Count(readIndex) = IF current_state = "DONE" THEN responses + 1 ELSE responses

\* Where the parser stands in the request after it.
PlaceInv ==
    /\ pc = "wait" => current_state = "STATUS"
    /\ current_state = "STATUS" => readIndex = Begin /\ headers = <<>>
    /\ current_state = "HEADERS" => /\ readIndex \in Begin + 2..Len(stream)
                                    /\ stream[readIndex] = "CRLF"
                                    /\ stream[readIndex - 1] # "CRLF"
    /\ current_state = "DONE" => readIndex \in RequestEnds /\ Begin < readIndex

\* The first Connection line of the headers is the first of that request.
NoConnection == /\ \A k \in 1..Len(headers) : headers[k] \notin ConnectionLines
                /\ \A j \in Begin + 1..readIndex : stream[j] \notin ConnectionLines
FirstConnection(m, j) ==
    /\ headers[m] \in ConnectionLines /\ stream[j] = headers[m]
    /\ \A k \in 1..m - 1 : headers[k] \notin ConnectionLines
    /\ \A i \in Begin + 1..j - 1 : stream[i] \notin ConnectionLines
RequestInv ==
    current_state # "STATUS" =>
        /\ version = stream[Begin + 1]
        /\ \/ NoConnection
           \/ \E m \in 1..Len(headers), j \in Begin + 1..readIndex : FirstConnection(m, j)

\* Each response took some bytes, whatever the parser made of them.
BoundInv == /\ responses <= readIndex
            /\ current_state = "DONE" => responses < readIndex

HttpInv ==
    /\ TypeOK /\ BoundInv /\ CloseHonoured /\ CrashCauses
    /\ crash = "no" /\ ~Misread => BeginInv /\ PlaceInv /\ RequestInv

-----------------------------------------------------------------------------
(* Counting requests *)

LEMMA CountIsNat ==
    ASSUME NEW r \in Nat
    PROVE  IsFiniteSet(Ends(r)) /\ Count(r) \in Nat /\ Count(r) <= r
<1>1. IsFiniteSet(1..r) /\ Cardinality(1..r) = r
  BY FS_Interval
<1>2. Ends(r) \in SUBSET (1..r)
  BY DEF Ends
<1>3. IsFiniteSet(Ends(r)) /\ Cardinality(Ends(r)) <= r
  BY <1>1, <1>2, FS_Subset
<1> QED
  BY <1>3, FS_CardinalityType DEF Count

LEMMA CountOfNone == Count(0) = 0
<1>1. Ends(0) = {}
  BY DEF Ends
<1> QED
  BY <1>1, FS_EmptySet DEF Count

\* No request ends on the way from a to b.
LEMMA CountStays ==
    ASSUME NEW a \in Nat, NEW b \in Nat, a <= b,
           \A p \in a + 1..b : p \notin RequestEnds
    PROVE  Count(b) = Count(a)
<1>1. Ends(b) = Ends(a)
  BY DEF Ends
<1> QED
  BY <1>1 DEF Count

LEMMA CountGrows ==
    ASSUME NEW a \in Nat, a + 1 \in RequestEnds
    PROVE  Count(a + 1) = Count(a) + 1
<1>1. Ends(a + 1) = Ends(a) \cup {a + 1} /\ a + 1 \notin Ends(a)
  BY DEF Ends
<1> QED
  BY <1>1, CountIsNat, FS_AddElement DEF Count

LEMMA CountOrdered ==
    ASSUME NEW p \in Nat, NEW q \in RequestEnds, q \in Nat, p < q
    PROVE  Count(p) < Count(q)
<1>1. q - 1 \in Nat /\ (q - 1) + 1 = q /\ p <= q - 1
  OBVIOUS
<1>2. Count(q) = Count(q - 1) + 1
  BY <1>1, CountGrows
<1>3. Count(p) <= Count(q - 1)
  <2>1. Ends(p) \in SUBSET Ends(q - 1)
    BY <1>1 DEF Ends
  <2> QED
    BY <1>1, <2>1, CountIsNat, FS_Subset DEF Count
<1> QED
  BY <1>1, <1>2, <1>3, CountIsNat

\* The number of an end names it.
LEMMA EndOfCount ==
    ASSUME stream \in Seq(Tokens), NEW p \in {0} \cup RequestEnds
    PROVE  EndOf(Count(p)) = p
<1>1. CASE p = 0
  BY <1>1, CountOfNone DEF EndOf
<1>2. CASE p \in RequestEnds
  <2>1. RequestEnds \subseteq Nat
    BY DEF RequestEnds
  <2>2. p \in Nat /\ 0 < p
    BY <1>2 DEF RequestEnds
  <2>3. Count(p) # 0
    BY <1>2, <2>2, CountOrdered, CountOfNone
  <2>4. \A q \in RequestEnds : Count(q) = Count(p) => q = p
    <3> SUFFICES ASSUME NEW q \in RequestEnds, Count(q) = Count(p), q # p
                 PROVE  FALSE
      OBVIOUS
    <3>1. q \in Nat /\ Count(p) \in Nat
      BY <2>1, <2>2, CountIsNat
    <3>2. q < p \/ p < q
      BY <2>2, <3>1
    <3> QED
      BY <1>2, <2>2, <3>1, <3>2, CountOrdered
  <2>5. EndOf(Count(p)) = CHOOSE q \in RequestEnds : Count(q) = Count(p)
    BY <2>3 DEF EndOf, Count, Ends
  <2> HIDE DEF RequestEnds
  <2> QED
    BY <1>2, <2>4, <2>5
<1> QED
  BY <1>1, <1>2

\* What follows the end of a request, and what follows a line within one.
LEMMA StatusLineNext ==
    ASSUME stream \in Seq(Tokens), WellFormed(stream),
           NEW a \in {0} \cup RequestEnds
    PROVE  /\ a + 1 \in 1..Len(stream) => stream[a + 1] \in StatusLines
           /\ a + 2 \in 1..Len(stream) => stream[a + 2] = "CRLF"
<1>1. a \in Nat /\ StartsRequest(stream, a + 1)
  BY DEF RequestEnds, StartsRequest
<1>2. DOMAIN stream = 1..Len(stream) /\ Len(stream) \in Nat
  OBVIOUS
<1>3. a + 1 \in 1..Len(stream) => stream[a + 1] \in StatusLines
  BY <1>1, <1>2 DEF WellFormed
<1>4. ASSUME a + 2 \in 1..Len(stream) PROVE stream[a + 2] = "CRLF"
  <2>1. a + 1 \in 1..Len(stream) /\ stream[a + 1] \notin {"CRLF", TwoBytes}
    BY <1>1, <1>2, <1>3, <1>4 DEF StatusLines, TwoBytes
  <2>2. (a + 2) - 1 = a + 1 /\ a + 2 # 1
    BY <1>1
  <2>3. ~StartsRequest(stream, a + 2)
    BY <2>1, <2>2 DEF StartsRequest
  <2> QED
    BY <1>2, <1>4, <2>1, <2>2, <2>3 DEF WellFormed
<1> QED
  BY <1>3, <1>4

LEMMA HeaderNext ==
    ASSUME stream \in Seq(Tokens), WellFormed(stream), NEW a \in 2..Len(stream),
           stream[a] = "CRLF", stream[a - 1] # "CRLF"
    PROVE  a + 1 \in 1..Len(stream) =>
                \/ stream[a + 1] \in {"CRLF", TwoBytes}
                \/ /\ stream[a + 1] \in HeaderLines
                   /\ a + 2 \in 1..Len(stream) => stream[a + 2] = "CRLF"
<1>1. DOMAIN stream = 1..Len(stream) /\ Len(stream) \in Nat
  OBVIOUS
<1> SUFFICES ASSUME a + 1 \in 1..Len(stream), stream[a + 1] # "CRLF",
                    stream[a + 1] # TwoBytes
             PROVE  /\ stream[a + 1] \in HeaderLines
                    /\ a + 2 \in 1..Len(stream) => stream[a + 2] = "CRLF"
  OBVIOUS
<1>2. (a + 1) - 1 = a /\ (a + 1) - 2 = a - 1 /\ a + 1 # 1
  OBVIOUS
<1>3. ~StartsRequest(stream, a + 1)
  BY <1>2 DEF StartsRequest
<1>4. stream[a + 1] \in HeaderLines
  BY <1>1, <1>2, <1>3 DEF WellFormed, TwoBytes
<1>5. ASSUME a + 2 \in 1..Len(stream) PROVE stream[a + 2] = "CRLF"
  <2>1. (a + 2) - 1 = a + 1 /\ a + 2 # 1
    OBVIOUS
  <2>2. ~StartsRequest(stream, a + 2)
    BY <2>1 DEF StartsRequest
  <2> QED
    BY <1>1, <1>5, <2>1, <2>2 DEF WellFormed
<1> QED
  BY <1>4, <1>5

-----------------------------------------------------------------------------
(* Lines and headers *)

LEMMA ConnectionHeaderOf ==
    ASSUME headers \in Seq(HeaderLines)
    PROVE  /\ (\A k \in 1..Len(headers) : headers[k] \notin ConnectionLines)
                => ConnectionHeader = "NULL"
           /\ \A m \in 1..Len(headers) :
                /\ headers[m] \in ConnectionLines
                /\ \A k \in 1..m - 1 : headers[k] \notin ConnectionLines
                => ConnectionHeader = headers[m]
<1> DEFINE Named == {k \in 1..Len(headers) : headers[k] \in ConnectionLines}
<1>1. ConnectionHeader = IF Named = {} THEN "NULL"
                         ELSE headers[CHOOSE k \in Named : \A j \in Named : k <= j]
  BY DEF ConnectionHeader
<1>2. ASSUME \A k \in 1..Len(headers) : headers[k] \notin ConnectionLines
      PROVE  ConnectionHeader = "NULL"
  BY <1>1, <1>2
<1>3. ASSUME NEW m \in 1..Len(headers), headers[m] \in ConnectionLines,
             \A k \in 1..m - 1 : headers[k] \notin ConnectionLines
      PROVE  ConnectionHeader = headers[m]
  <2>1. m \in Named /\ \A j \in Named : m <= j
    BY <1>3
  <2>2. \A k \in Named : (\A j \in Named : k <= j) => k = m
    <3>1. \A k \in Named : k \in Nat
      OBVIOUS
    <3> HIDE DEF Named
    <3> QED
      BY <2>1, <3>1
  <2> HIDE DEF Named
  <2>3. (CHOOSE k \in Named : \A j \in Named : k <= j) = m
    BY <2>1, <2>2
  <2> QED
    BY <1>1, <2>1, <2>3
<1> QED
  BY <1>2, <1>3

\* In a parsed request the program finds the Connection line that counts.
LEMMA HeaderIsAsked ==
    ASSUME TypeOK, BeginInv, PlaceInv, RequestInv, current_state = "DONE"
    PROVE  /\ EndOf(responses + 1) = readIndex
           /\ \A line \in ConnectionLines :
                    Asks(responses + 1, line) <=> ConnectionHeader = line
           /\ version = "HTTP/1.0" => Asks(responses + 1, "HTTP/1.0")
<1>1. /\ stream \in Seq(Tokens) /\ responses \in Nat /\ headers \in Seq(HeaderLines)
      /\ readIndex \in RequestEnds /\ readIndex \in Nat /\ Begin \in Nat
      /\ Begin < readIndex /\ Count(readIndex) = responses + 1
  BY StreamAssumption DEF TypeOK, BeginInv, PlaceInv, RequestEnds
<1>2. EndOf(responses + 1) = readIndex
  BY <1>1, EndOfCount
<1>3. Within(responses + 1) = Begin + 1..readIndex
  BY <1>1, <1>2 DEF Within, Begin
<1>4. \A line : Asks(responses + 1, line) <=>
            \E j \in Begin + 1..readIndex :
                /\ stream[j] = line
                /\ \A i \in Begin + 1..readIndex : i < j => stream[i] \notin ConnectionLines
  BY <1>3 DEF Asks
<1> HIDE DEF Asks, Within, Begin
<1>5. ASSUME NEW line \in ConnectionLines
      PROVE  Asks(responses + 1, line) <=> ConnectionHeader = line
  <2>1. CASE NoConnection
    <3>1. ConnectionHeader = "NULL"
      BY <1>1, <2>1, ConnectionHeaderOf DEF NoConnection
    <3>2. ~Asks(responses + 1, line)
      BY <1>4, <2>1 DEF NoConnection
    <3> QED
      BY <3>1, <3>2 DEF ConnectionLines
  <2>2. CASE \E m \in 1..Len(headers), j \in Begin + 1..readIndex : FirstConnection(m, j)
    <3>1. PICK m \in 1..Len(headers), j \in Begin + 1..readIndex : FirstConnection(m, j)
      BY <2>2
    <3>2. ConnectionHeader = headers[m]
      BY <1>1, <3>1, ConnectionHeaderOf DEF FirstConnection
    <3>3. /\ stream[j] \in ConnectionLines /\ stream[j] = headers[m]
          /\ \A i \in Begin + 1..readIndex : i < j => stream[i] \notin ConnectionLines
      BY <1>1, <3>1 DEF FirstConnection
    <3>4. Asks(responses + 1, line) => stream[j] = line
      <4> SUFFICES ASSUME NEW i \in Begin + 1..readIndex, stream[i] = line,
                          \A k \in Begin + 1..readIndex : k < i => stream[k] \notin ConnectionLines
                   PROVE  stream[j] = line
        BY <1>4
      <4>1. ~(i < j) /\ ~(j < i)
        BY <3>3
      <4> QED
        BY <1>1, <4>1
    <3>5. stream[j] = line => Asks(responses + 1, line)
      BY <1>4, <3>3
    <3> QED
      BY <3>2, <3>3, <3>4, <3>5
  <2> QED
    BY <2>1, <2>2 DEF RequestInv
<1>6. version = "HTTP/1.0" => Asks(responses + 1, "HTTP/1.0")
  <2>1. version = stream[Begin + 1]
    BY DEF RequestInv
  <2>2. Begin + 1 \in Begin + 1..readIndex /\ \A i \in Begin + 1..readIndex : ~(i < Begin + 1)
    BY <1>1
  <2> QED
    BY <1>4, <2>1, <2>2
<1> QED
  BY <1>2, <1>5, <1>6

-----------------------------------------------------------------------------
(* Every step keeps the invariant *)

LEMMA HttpInit == Init => HttpInv
<1> SUFFICES ASSUME Init PROVE HttpInv
  OBVIOUS
<1> USE DEF Init
<1>1. stream \in Seq(Tokens) /\ Len(stream) \in Nat
  BY StreamAssumption
<1>2. TypeOK
  <2>1. headers \in Seq(HeaderLines)
    BY EmptySeq
  <2>2. readIndex \in 0..received /\ received \in 0..Len(stream) /\ responses \in 0..Len(stream)
    BY <1>1
  <2>3. current_state \in {"STATUS", "HEADERS", "DONE"} /\ pc \in {"wait", "parse", "closed"}
        /\ crash \in {"no", "assert", "null", "SIGPIPE", "flush", "heap"}
        /\ shut \in BOOLEAN /\ overrun \in BOOLEAN
    OBVIOUS
  <2> QED
    BY <2>1, <2>2, <2>3 DEF TypeOK
<1>3. CloseHonoured /\ CrashCauses /\ BoundInv
  BY DEF CloseHonoured, CrashCauses, BoundInv
<1>4. Begin = 0
  BY DEF Begin, EndOf
<1>5. BeginInv
  BY <1>4, CountOfNone DEF BeginInv
<1>6. PlaceInv /\ RequestInv
  BY <1>4 DEF PlaceInv, RequestInv
<1> QED
  BY <1>2, <1>3, <1>5, <1>6 DEF HttpInv

\* The first CRLF is right behind the reader or behind the line that is there.
LEMMA LineEndsSoon ==
    ASSUME stream \in Seq(Tokens), readIndex \in Nat, received \in 0..Len(stream),
           NEW p \in 1..received, LineEnds(p), p > readIndex,
           stream[readIndex + 1] = "CRLF"
              \/ (readIndex + 2 \in 1..Len(stream) => stream[readIndex + 2] = "CRLF")
    PROVE  IF stream[readIndex + 1] = "CRLF"
             THEN p = readIndex + 1 /\ Line(p) = <<>>
             ELSE /\ p = readIndex + 2 /\ Line(p) = <<stream[readIndex + 1]>>
                  /\ Line(p) # <<>>
<1>1. Len(stream) \in Nat /\ p \in readIndex + 1..Len(stream) /\ stream[p] = "CRLF"
      /\ \A k \in readIndex + 1..p - 1 : stream[k] # "CRLF"
  BY DEF LineEnds
<1>2. CASE stream[readIndex + 1] = "CRLF"
  <2>1. p = readIndex + 1
    BY <1>1, <1>2
  <2>2. Line(p) = <<>>
    BY <2>1, SubSeqEmpty DEF Line
  <2> QED
    BY <1>2, <2>1, <2>2
<1>3. CASE stream[readIndex + 1] # "CRLF"
  <2>1. p = readIndex + 2
    <3>1. p # readIndex + 1 /\ readIndex + 2 \in 1..Len(stream)
      BY <1>1, <1>3
    <3> QED
      BY <1>1, <1>3, <3>1
  <2>2. Line(p) = <<stream[readIndex + 1]>>
    <3>1. Line(p) = SubSeq(stream, readIndex + 1, readIndex + 1)
      BY <2>1 DEF Line
    <3>2. readIndex + 1 \in 1..Len(stream)
      BY <1>1
    <3> DEFINE one == SubSeq(stream, readIndex + 1, readIndex + 1)
    <3>3. one \in Seq(Tokens) /\ Len(one) = 1 /\ one[1] = stream[readIndex + 1]
      BY <3>2, SubSeqProperties
    <3> HIDE DEF one
    <3>4. one = <<one[1]>>
      BY <3>3
    <3> QED
      BY <3>1, <3>3, <3>4 DEF one
  <2>3. Line(p) # <<>>
    BY <2>2
  <2> QED
    BY <1>3, <2>1, <2>2, <2>3
<1> QED
  BY <1>2, <1>3

\* A line starts with the token behind the reader.
LEMMA LineStarts ==
    ASSUME stream \in Seq(Tokens), readIndex \in Nat, received \in 0..Len(stream),
           NEW p \in readIndex + 1..received, Line(p) # <<>>
    PROVE  Line(p)[1] = stream[readIndex + 1]
<1>1. Len(stream) \in Nat
  OBVIOUS
<1>2. CASE p = readIndex + 1
  BY <1>2, SubSeqEmpty DEF Line
<1>3. CASE p # readIndex + 1
  <2>1. readIndex + 1 \in 1..Len(stream) /\ p - 1 \in readIndex + 1..Len(stream)
        /\ 1 \in 1..(p - 1) - (readIndex + 1) + 1
        /\ (readIndex + 1) + 1 - 1 = readIndex + 1
    BY <1>1, <1>3
  <2> QED
    BY <2>1, SubSeqProperties DEF Line
<1> QED
  BY <1>2, <1>3

-----------------------------------------------------------------------------
(* The parser has its place, or has lost it for good *)

\* What holds where the parser has lost its place.
LEMMA LostPlace ==
    ASSUME TypeOK', BoundInv', Misread'
    PROVE  HttpInv'
BY DEF HttpInv, CloseHonoured, CrashCauses

LEMMA MisreadStays ==
    ASSUME stream' = stream, readIndex \in Nat, readIndex' \in Nat,
           readIndex <= readIndex', Misread
    PROVE  Misread'
<1>1. PICK j \in 1..readIndex : stream[j] = TwoBytes
  BY DEF Misread
<1>2. j \in 1..readIndex'
  OBVIOUS
<1> QED
  BY <1>1, <1>2 DEF Misread

\* What the requests of the stream asked for does not change.
LEMMA SameRequests ==
    ASSUME stream' = stream
    PROVE  /\ RequestEnds' = RequestEnds
           /\ \A k : EndOf(k)' = EndOf(k)
           /\ \A r : Count(r)' = Count(r)
           /\ \A k, line : Asks(k, line)' <=> Asks(k, line)
           /\ \A k : AsksToClose(k)' <=> AsksToClose(k)
<1>1. RequestEnds' = RequestEnds
  BY DEF RequestEnds
<1>2. \A k : EndOf(k)' = EndOf(k)
  BY <1>1 DEF EndOf
<1>3. \A k : Within(k)' = Within(k)
  BY <1>2 DEF Within
<1>4. \A r : Count(r)' = Count(r)
  BY <1>1 DEF Count, Ends
<1>5. \A k, line : Asks(k, line)' <=> Asks(k, line)
  BY <1>3 DEF Asks
<1>6. \A k : AsksToClose(k)' <=> AsksToClose(k)
  BY <1>5 DEF AsksToClose
<1> QED
  BY <1>1, <1>2, <1>4, <1>5, <1>6

\* What a step that leaves the stream and the answers alone keeps.
LEMMA SameAnswers ==
    ASSUME stream' = stream, responses' = responses
    PROVE  /\ Begin' = Begin /\ RequestEnds' = RequestEnds
           /\ Count(Begin)' = Count(Begin)
           /\ Count(readIndex)' = Count(readIndex')
           /\ shut' = shut /\ CloseHonoured /\ ~Misread => CloseHonoured'
           /\ crash' = "no" => CrashCauses'
<1>1. Begin' = Begin /\ RequestEnds' = RequestEnds
  BY DEF Begin, EndOf, RequestEnds
<1>2. Count(Begin)' = Count(Begin) /\ Count(readIndex)' = Count(readIndex')
  BY <1>1 DEF Count, Ends
<1>3. shut' = shut /\ CloseHonoured /\ ~Misread => CloseHonoured'
  <2> SUFFICES ASSUME shut' = shut, CloseHonoured, ~Misread PROVE CloseHonoured'
    OBVIOUS
  <2>1. /\ \A k, line : Asks(k, line)' <=> Asks(k, line)
        /\ \A k : AsksToClose(k)' <=> AsksToClose(k)
    BY SameRequests
  <2> HIDE DEF Asks, AsksToClose
  <2> QED
    BY <2>1 DEF CloseHonoured
<1>4. crash' = "no" => CrashCauses'
  BY DEF CrashCauses
<1> QED
  BY <1>1, <1>2, <1>3, <1>4

-----------------------------------------------------------------------------
(* Every step keeps the invariant *)

\* A step that leaves the parser, the stream and the answers alone.
LEMMA OutsideStep ==
    ASSUME HttpInv, crash = "no", TypeOK', CrashCauses', pc' = "wait" => pc = "wait",
           UNCHANGED <<stream, readIndex, current_state, version, headers, responses,
                       shut>>
    PROVE  HttpInv'
<1>1. BoundInv' /\ (Misread' <=> Misread)
  BY DEF HttpInv, BoundInv, Misread
<1>2. CASE Misread
  BY <1>1, <1>2, LostPlace
<1>3. CASE ~Misread
  <2>1. CloseHonoured' /\ Begin' = Begin /\ RequestEnds' = RequestEnds
        /\ Count(Begin)' = Count(Begin) /\ Count(readIndex)' = Count(readIndex)
    BY <1>3, SameAnswers DEF HttpInv
  <2>2. BeginInv'
    BY <1>3, <2>1 DEF HttpInv, BeginInv
  <2>3. PlaceInv'
    BY <1>3, <2>1 DEF HttpInv, PlaceInv
  <2>4. RequestInv'
    BY <1>3, <2>1 DEF HttpInv, RequestInv, NoConnection, FirstConnection
  <2> QED
    BY <1>1, <2>1, <2>2, <2>3, <2>4 DEF HttpInv
<1> QED
  BY <1>2, <1>3

LEMMA ReceiveStep ==
    ASSUME HttpInv, crash = "no", Receive
    PROVE  HttpInv'
<1> USE DEF Receive, requestVars
<1>1. received \in 0..Len(stream) /\ Len(stream) \in Nat /\ readIndex \in 0..received
  BY StreamAssumption DEF HttpInv, TypeOK
<1>2. TypeOK'
  BY <1>1 DEF HttpInv, TypeOK
<1>3. CrashCauses'
  BY DEF CrashCauses
<1> QED
  BY <1>2, <1>3, OutsideStep

LEMMA CloseStep ==
    ASSUME HttpInv, crash = "no", PeerCloses
    PROVE  HttpInv'
<1> USE DEF PeerCloses, requestVars
<1>1. TypeOK'
  BY DEF HttpInv, TypeOK
<1>2. CrashCauses'
  BY DEF CrashCauses
<1> QED
  BY <1>1, <1>2, OutsideStep

LEMMA AbortStep ==
    ASSUME HttpInv, crash = "no", HeapAborts
    PROVE  HttpInv'
<1> USE DEF HeapAborts, requestVars
<1>1. TypeOK'
  BY DEF HttpInv, TypeOK
<1>2. CrashCauses'
  BY DEF CrashCauses
<1> QED
  BY <1>1, <1>2, OutsideStep

\* A response meets a connection that was shut down only after a request asked
\* for it, or after the parser lost its place.
LEMMA SendFailsStep ==
    ASSUME HttpInv, crash = "no", SendFails
    PROVE  HttpInv'
<1> USE DEF SendFails, requestVars
<1>1. TypeOK'
  BY DEF HttpInv, TypeOK
<1>2. CrashCauses'
  <2>1. CASE shut /\ ~Misread
    <3>1. PICK k \in 1..responses : AsksToClose(k)
      BY <2>1 DEF HttpInv, CloseHonoured
    <3>2. k \in 1..responses' /\ AsksToClose(k)'
      BY <3>1, SameRequests
    <3>3. crash' # "assert" /\ crash' # "null"
      OBVIOUS
    <3> HIDE DEF AsksToClose, Asks
    <3> QED
      BY <3>2, <3>3 DEF CrashCauses
  <2>2. CASE shut /\ Misread
    BY <2>2 DEF CrashCauses, Misread
  <2>3. CASE ~shut
    BY <2>3 DEF CrashCauses
  <2> QED
    BY <2>1, <2>2, <2>3
<1> QED
  BY <1>1, <1>2, OutsideStep

LEMMA StatusStep ==
    ASSUME HttpInv, crash = "no", ParseStatus
    PROVE  HttpInv'
<1>1. PICK p \in 1..received :
        /\ Parsing("STATUS")
        /\ LineEnds(p)
        /\ IF Line(p) # <<>> /\ Line(p)[1] \in TwoSpaces
             THEN /\ version' = Line(p)[1]
                  /\ current_state' = "HEADERS"
                  /\ readIndex' = p
                  /\ overrun' \in {overrun, TRUE}
                  /\ UNCHANGED crash
             ELSE /\ crash' = "assert"
                  /\ UNCHANGED <<version, current_state, readIndex, overrun>>
        /\ UNCHANGED <<stream, received, headers, pc, responses, shut>>
  BY DEF ParseStatus
<1>2. /\ TypeOK /\ BoundInv /\ current_state = "STATUS" /\ pc = "parse"
      /\ stream \in Seq(Tokens) /\ WellFormed(stream) /\ Len(stream) \in Nat
      /\ readIndex \in Nat /\ received \in 0..Len(stream) /\ responses \in Nat
      /\ p \in readIndex + 1..received
  BY <1>1, StreamAssumption DEF HttpInv, TypeOK, Parsing, LineEnds
<1>3. /\ version' \in TwoSpaces \cup {"NULL"} /\ current_state' \in {"STATUS", "HEADERS"}
      /\ readIndex' \in readIndex..received /\ overrun' \in BOOLEAN
      /\ crash' \in {"no", "assert"}
  <2>1. CASE Line(p) # <<>> /\ Line(p)[1] \in TwoSpaces
    <3>1. overrun' \in {overrun, TRUE} /\ overrun \in BOOLEAN
      BY <1>1, <1>2, <2>1 DEF TypeOK
    <3>2. overrun' \in BOOLEAN
      BY <3>1, Zenon
    <3>3. /\ version' \in TwoSpaces /\ current_state' = "HEADERS"
          /\ readIndex' = p /\ crash' = "no"
      BY <1>1, <2>1
    <3> QED
      BY <1>2, <3>2, <3>3
  <2>2. CASE ~(Line(p) # <<>> /\ Line(p)[1] \in TwoSpaces)
    <3>1. UNCHANGED <<version, current_state, readIndex, overrun>> /\ crash' = "assert"
      BY <1>1, <2>2
    <3> QED
      BY <1>2, <3>1 DEF TypeOK
  <2> QED
    BY <2>1, <2>2
<1>4. TypeOK' /\ BoundInv' /\ readIndex' \in Nat /\ readIndex <= readIndex'
  <2>1. TypeOK'
    BY <1>1, <1>2, <1>3 DEF TypeOK
  <2> QED
    BY <1>1, <1>2, <1>3, <2>1 DEF BoundInv
<1>5. CASE Misread
  BY <1>1, <1>2, <1>4, <1>5, MisreadStays, LostPlace
<1>6. CASE ~Misread
  <2>1. /\ BeginInv /\ PlaceInv /\ CloseHonoured
        /\ readIndex = Begin /\ headers = <<>>
    BY <1>2, <1>6 DEF HttpInv, PlaceInv
  <2>2. readIndex \in {0} \cup RequestEnds /\ readIndex + 1 \in 1..Len(stream)
    BY <1>2, <2>1 DEF BeginInv
  <2>3. stream[readIndex + 1] \in StatusLines /\ stream[readIndex + 1] # "CRLF"
        /\ (readIndex + 2 \in 1..Len(stream) => stream[readIndex + 2] = "CRLF")
    BY <1>2, <2>2, StatusLineNext DEF StatusLines
  <2>4. p = readIndex + 2 /\ Line(p) = <<stream[readIndex + 1]>> /\ Line(p) # <<>>
    BY <1>1, <1>2, <2>3, LineEndsSoon
  <2>5. /\ version' = stream[readIndex + 1] /\ current_state' = "HEADERS"
        /\ readIndex' = readIndex + 2 /\ crash' = "no"
        /\ stream[readIndex + 2] = "CRLF" /\ readIndex + 2 \in 1..received
        /\ UNCHANGED <<stream, received, headers, pc, responses, shut>>
    <3>1. Line(p)[1] = stream[readIndex + 1]
      BY <2>4
    <3> QED
      BY <1>1, <2>3, <2>4, <3>1 DEF LineEnds, TwoSpaces
  <2>6. CloseHonoured' /\ CrashCauses' /\ Begin' = Begin /\ RequestEnds' = RequestEnds
        /\ Count(Begin)' = Count(Begin) /\ Count(readIndex)' = Count(readIndex')
    BY <1>6, <2>1, <2>5, SameAnswers
  <2>7. BeginInv'
    <3>1. readIndex + 1 \notin RequestEnds /\ readIndex + 2 \notin RequestEnds
      BY <1>2, <2>3 DEF RequestEnds
    <3>2. \A q \in readIndex + 1..readIndex + 2 : q \notin RequestEnds
      BY <1>2, <3>1
    <3>3. Count(readIndex + 2) = Count(readIndex)
      BY <1>2, <3>2, CountStays
    <3> QED
      BY <1>2, <2>1, <2>5, <2>6, <3>3 DEF BeginInv
  <2>8. PlaceInv'
    <3>1. (readIndex + 2) - 1 = readIndex + 1
      BY <1>2
    <3> QED
      BY <1>2, <2>1, <2>3, <2>5, <2>6, <3>1 DEF PlaceInv
  <2>9. RequestInv'
    <3>1. \A j \in Begin + 1..readIndex + 2 : j = readIndex + 1 \/ j = readIndex + 2
      BY <1>2, <2>1
    <3>2. \A j \in Begin + 1..readIndex + 2 : stream[j] \notin ConnectionLines
      BY <2>3, <2>5, <3>1 DEF StatusLines, ConnectionLines
    <3>3. Len(headers) = 0
      BY <2>1
    <3> QED
      BY <2>1, <2>5, <2>6, <3>2, <3>3 DEF RequestInv, NoConnection
  <2> QED
    BY <1>4, <2>6, <2>7, <2>8, <2>9 DEF HttpInv
<1> QED
  BY <1>5, <1>6

LEMMA HeaderStep ==
    ASSUME HttpInv, crash = "no", ParseHeader
    PROVE  HttpInv'
<1> DEFINE a == readIndex
           tok == stream[a + 1]
<1>1. PICK p \in 1..received :
        /\ Parsing("HEADERS")
        /\ LineEnds(p)
        /\ IsHeader(p)
        /\ headers' = Append(headers, Line(p)[1])
        /\ readIndex' = p
        /\ UNCHANGED <<stream, received, current_state, version, pc, responses,
                       shut, overrun, crash>>
  BY DEF ParseHeader
<1>2. /\ TypeOK /\ BoundInv /\ current_state = "HEADERS" /\ pc = "parse"
      /\ stream \in Seq(Tokens) /\ WellFormed(stream) /\ Len(stream) \in Nat
      /\ a \in Nat /\ received \in 0..Len(stream) /\ responses \in Nat
      /\ headers \in Seq(HeaderLines) /\ p \in a + 1..received
  BY <1>1, StreamAssumption DEF HttpInv, TypeOK, Parsing, LineEnds
<1>3. tok \in HeaderLines /\ headers' = Append(headers, tok)
  <2>1. Line(p) # <<>> /\ Line(p)[1] \in HeaderLines
    BY <1>1 DEF IsHeader
  <2>2. Line(p)[1] = tok
    BY <1>2, <2>1, LineStarts
  <2> QED
    BY <1>1, <2>1, <2>2
<1> HIDE DEF tok
<1>4. /\ headers' \in Seq(HeaderLines) /\ Len(headers') = Len(headers) + 1
      /\ Len(headers) \in Nat
      /\ headers'[Len(headers) + 1] = tok
      /\ \A k \in 1..Len(headers) : headers'[k] = headers[k]
  BY <1>2, <1>3
<1>5. TypeOK' /\ BoundInv'
  <2>1. TypeOK'
    BY <1>1, <1>2, <1>4 DEF TypeOK
  <2> QED
    BY <1>1, <1>2, <2>1 DEF BoundInv
<1>6. CASE Misread
  BY <1>1, <1>2, <1>5, <1>6, MisreadStays, LostPlace
<1>7. CASE ~Misread
  <2>1. /\ BeginInv /\ PlaceInv /\ RequestInv /\ CloseHonoured /\ Begin \in Nat
        /\ a \in Begin + 2..Len(stream) /\ a \in 2..Len(stream)
        /\ stream[a] = "CRLF" /\ stream[a - 1] # "CRLF" /\ a + 1 \in 1..Len(stream)
    BY <1>1, <1>2, <1>7 DEF HttpInv, BeginInv, PlaceInv, RequestEnds
  <2>2. tok # "CRLF" /\ tok # TwoBytes
    BY <1>3 DEF HeaderLines, ConnectionLines, TwoBytes
  <2>3. stream[a + 1] # "CRLF" /\ (a + 2 \in 1..Len(stream) => stream[a + 2] = "CRLF")
    BY <1>2, <2>1, <2>2, HeaderNext DEF tok
  <2>4. p = a + 2
    BY <1>1, <1>2, <2>3, LineEndsSoon
  <2>5. /\ a + 2 \in 1..received /\ stream[a + 2] = "CRLF" /\ readIndex' = a + 2
        /\ UNCHANGED <<stream, received, current_state, version, pc, responses,
                       shut, crash>>
    BY <1>1, <2>4 DEF LineEnds
  <2>6. CloseHonoured' /\ CrashCauses' /\ Begin' = Begin /\ RequestEnds' = RequestEnds
        /\ Count(Begin)' = Count(Begin) /\ Count(readIndex)' = Count(readIndex')
    BY <1>7, <2>1, <2>5, SameAnswers
  <2>7. BeginInv'
    <3>1. (a + 2) - 1 = a + 1
      BY <1>2
    <3>2. a + 1 \notin RequestEnds /\ a + 2 \notin RequestEnds
      BY <2>3, <3>1 DEF RequestEnds
    <3>3. \A q \in a + 1..a + 2 : q \notin RequestEnds
      BY <1>2, <3>2
    <3>4. Count(a + 2) = Count(a)
      BY <1>2, <3>3, CountStays
    <3> QED
      BY <1>2, <2>1, <2>5, <2>6, <3>4 DEF BeginInv
  <2>8. PlaceInv'
    <3>1. (a + 2) - 1 = a + 1 /\ a + 2 \in Begin + 2..Len(stream)
      BY <1>2, <2>1, <2>5
    <3> QED
      BY <1>2, <2>1, <2>3, <2>5, <2>6, <3>1 DEF PlaceInv
  <2>9. RequestInv'
    <3>1. version' = stream'[Begin' + 1]
      BY <1>2, <2>1, <2>5, <2>6 DEF RequestInv
    <3>2. a + 1 \in Begin + 1..readIndex' /\ stream[a + 1] = tok
          /\ \A i \in Begin + 1..readIndex' : i \in Begin + 1..a \/ i = a + 1 \/ i = a + 2
      BY <1>2, <2>1, <2>5 DEF tok
    <3>3. CASE NoConnection /\ tok \notin ConnectionLines
      <4>1. \A k \in 1..Len(headers') : k \in 1..Len(headers) \/ k = Len(headers) + 1
        BY <1>4
      <4>2. \A k \in 1..Len(headers') : headers'[k] \notin ConnectionLines
        BY <1>4, <3>3, <4>1 DEF NoConnection
      <4>3. \A j \in Begin + 1..readIndex' : stream[j] \notin ConnectionLines
        BY <2>5, <3>2, <3>3 DEF NoConnection, ConnectionLines
      <4> QED
        BY <2>5, <2>6, <3>1, <4>2, <4>3 DEF RequestInv, NoConnection
    <3>4. CASE NoConnection /\ tok \in ConnectionLines
      <4>1. PICK m \in 1..Len(headers'), j \in Begin + 1..readIndex' :
                  m = Len(headers) + 1 /\ j = a + 1
        BY <1>2, <1>4, <3>2
      <4>2. m - 1 = Len(headers) /\ j - 1 = a
        BY <1>2, <1>4, <4>1
      <4>3. FirstConnection(m, j)'
        BY <1>2, <2>5, <2>6, <1>4, <3>2, <3>4, <4>1, <4>2 DEF NoConnection, FirstConnection
      <4> QED
        BY <2>5, <2>6, <3>1, <4>1, <4>3 DEF RequestInv
    <3>5. ASSUME NEW m \in 1..Len(headers), NEW j \in Begin + 1..a, FirstConnection(m, j)
          PROVE  RequestInv'
      <4>1. m \in 1..Len(headers') /\ j \in Begin + 1..readIndex'
            /\ \A k \in 1..m - 1 : k \in 1..Len(headers)
        BY <1>2, <1>4, <2>5
      <4>2. FirstConnection(m, j)'
        BY <1>4, <2>5, <2>6, <3>5, <4>1 DEF FirstConnection
      <4> QED
        BY <2>5, <2>6, <3>1, <4>1, <4>2 DEF RequestInv
    <3> QED
      BY <1>2, <2>1, <3>3, <3>4, <3>5 DEF RequestInv
  <2> QED
    BY <1>5, <2>6, <2>7, <2>8, <2>9 DEF HttpInv
<1> QED
  BY <1>6, <1>7

\* The last line is the empty one, or the parser loses its place at it.
LEMMA LastLineStep ==
    ASSUME HttpInv, crash = "no", ParseLastLine
    PROVE  HttpInv'
<1> DEFINE a == readIndex
<1>1. PICK p \in 1..received :
        /\ Parsing("HEADERS")
        /\ LineEnds(p)
        /\ ~IsHeader(p)
        /\ current_state' = "DONE"
        /\ readIndex' = readIndex + 1
        /\ UNCHANGED <<stream, received, version, headers, pc, responses, shut,
                       overrun, crash>>
  BY DEF ParseLastLine
<1>2. /\ TypeOK /\ BoundInv /\ current_state = "HEADERS" /\ pc = "parse"
      /\ stream \in Seq(Tokens) /\ WellFormed(stream) /\ Len(stream) \in Nat
      /\ a \in Nat /\ received \in 0..Len(stream) /\ responses \in Nat
      /\ p \in a + 1..received
  BY <1>1, StreamAssumption DEF HttpInv, TypeOK, Parsing, LineEnds
<1>3. TypeOK' /\ BoundInv' /\ a + 1 \in 1..received
  <2>1. a + 1 \in 0..received /\ a + 1 \in 1..received
    BY <1>2
  <2>2. TypeOK'
    BY <1>1, <1>2, <2>1 DEF TypeOK
  <2> QED
    BY <1>1, <1>2, <2>1, <2>2 DEF BoundInv
<1>4. CASE Misread
  BY <1>1, <1>2, <1>3, <1>4, MisreadStays, LostPlace
<1>5. CASE ~Misread
  <2>1. /\ BeginInv /\ PlaceInv /\ RequestInv /\ CloseHonoured /\ Begin \in Nat
        /\ a \in Begin + 2..Len(stream) /\ a \in 2..Len(stream)
        /\ stream[a] = "CRLF" /\ stream[a - 1] # "CRLF" /\ a + 1 \in 1..Len(stream)
    BY <1>2, <1>3, <1>5 DEF HttpInv, BeginInv, PlaceInv, RequestEnds
  <2>2. CASE stream[a + 1] = TwoBytes
    <3>1. Misread'
      BY <1>1, <1>2, <2>2 DEF Misread
    <3> QED
      BY <1>3, <3>1, LostPlace
  <2>3. CASE stream[a + 1] # TwoBytes
    <3>1. stream[a + 1] = "CRLF"
      <4> SUFFICES ASSUME stream[a + 1] # "CRLF" PROVE FALSE
        OBVIOUS
      <4>1. stream[a + 1] \in HeaderLines
            /\ (a + 2 \in 1..Len(stream) => stream[a + 2] = "CRLF")
        BY <1>2, <2>1, <2>3, HeaderNext
      <4>2. Line(p) = <<stream[a + 1]>> /\ Line(p) # <<>>
        BY <1>1, <1>2, <4>1, LineEndsSoon
      <4>3. Line(p)[1] = stream[a + 1]
        BY <4>2
      <4> QED
        BY <1>1, <4>1, <4>2, <4>3 DEF IsHeader
    <3>2. /\ a + 1 \in RequestEnds
          /\ readIndex' = a + 1 /\ current_state' = "DONE"
          /\ UNCHANGED <<stream, received, version, headers, pc, responses, shut, crash>>
      <4>1. (a + 1) - 1 = a /\ a + 1 \in 2..Len(stream)
        BY <1>2, <2>1
      <4> QED
        BY <1>1, <2>1, <3>1, <4>1 DEF RequestEnds
    <3>3. CloseHonoured' /\ CrashCauses' /\ Begin' = Begin /\ RequestEnds' = RequestEnds
          /\ Count(Begin)' = Count(Begin) /\ Count(readIndex)' = Count(readIndex')
      BY <1>5, <2>1, <3>2, SameAnswers
    <3>4. BeginInv'
      <4>1. Count(a + 1) = Count(a) + 1
        BY <1>2, <3>2, CountGrows
      <4>2. Begin <= a + 1
        BY <1>2, <2>1
      <4> QED
        BY <1>2, <2>1, <3>2, <3>3, <4>1, <4>2 DEF BeginInv
    <3>5. PlaceInv'
      <4>1. Begin < a + 1
        BY <1>2, <2>1
      <4> QED
        BY <1>2, <2>1, <3>2, <3>3, <4>1 DEF PlaceInv
    <3>6. RequestInv'
      <4>1. version' = stream'[Begin' + 1]
        BY <1>2, <2>1, <3>2, <3>3 DEF RequestInv
      <4>2. \A j \in Begin + 1..readIndex' : j \in Begin + 1..a \/ j = a + 1
        BY <1>2, <3>2
      <4>3. \A j \in Begin + 1..a : j \in Begin + 1..readIndex'
        BY <1>2, <3>2
      <4>4. CASE NoConnection
        <5>1. NoConnection'
          BY <3>1, <3>2, <3>3, <4>2, <4>4 DEF NoConnection, ConnectionLines
        <5> QED
          BY <4>1, <5>1 DEF RequestInv
      <4>5. ASSUME NEW m \in 1..Len(headers), NEW j \in Begin + 1..a, FirstConnection(m, j)
            PROVE  RequestInv'
        <5>1. FirstConnection(m, j)'
          BY <3>2, <3>3, <4>5 DEF FirstConnection
        <5> QED
          BY <3>2, <3>3, <4>1, <4>3, <5>1 DEF RequestInv
      <4> QED
        BY <1>2, <2>1, <4>4, <4>5 DEF RequestInv
    <3> QED
      BY <1>3, <3>3, <3>4, <3>5, <3>6 DEF HttpInv
  <2> QED
    BY <2>2, <2>3
<1> QED
  BY <1>4, <1>5

\* The parsed request is the next one of the stream.
LEMMA RespondStep ==
    ASSUME HttpInv, crash = "no", Respond
    PROVE  HttpInv'
<1>1. /\ current_state = "DONE" /\ pc = "parse" /\ pc' = "wait" /\ shut = FALSE
      /\ responses' = responses + 1 /\ shut' \in CloseRequested
      /\ crash' = IF ComparesNull THEN "null" ELSE "no"
      /\ stream' = stream /\ received' = received /\ readIndex' = readIndex
      /\ current_state' = "STATUS" /\ version' = "NULL" /\ headers' = <<>>
      /\ overrun' = overrun
  <2>1. shut \in BOOLEAN
    BY DEF HttpInv, TypeOK
  <2> QED
    BY <2>1 DEF Respond, Answer, ResetRequest, Parsing
<1>2. /\ TypeOK /\ BoundInv /\ stream \in Seq(Tokens) /\ Len(stream) \in Nat
      /\ readIndex \in 0..received /\ received \in 0..Len(stream)
      /\ responses \in Nat /\ responses < readIndex
  BY <1>1, StreamAssumption DEF HttpInv, TypeOK, BoundInv
<1>3. TypeOK' /\ BoundInv'
  <2>1. headers' \in Seq(HeaderLines)
    BY <1>1, EmptySeq
  <2>2. responses' \in 0..Len(stream') /\ responses' <= readIndex'
    BY <1>1, <1>2
  <2>3. crash' \in {"no", "null"} /\ shut' \in BOOLEAN
    BY <1>1 DEF CloseRequested
  <2>4. TypeOK'
    BY <1>1, <1>2, <2>1, <2>2, <2>3 DEF TypeOK
  <2> QED
    BY <1>1, <2>2, <2>4 DEF BoundInv
<1>4. CASE Misread
  BY <1>1, <1>2, <1>3, <1>4, MisreadStays, LostPlace
<1>5. CASE ~Misread
  <2>1. /\ BeginInv /\ PlaceInv /\ RequestInv /\ CloseHonoured
        /\ readIndex \in RequestEnds /\ Count(readIndex) = responses + 1
    BY <1>1, <1>5 DEF HttpInv, BeginInv, PlaceInv
  <2>2. /\ EndOf(responses + 1) = readIndex
        /\ \A line \in ConnectionLines :
                Asks(responses + 1, line) <=> ConnectionHeader = line
        /\ version = "HTTP/1.0" => Asks(responses + 1, "HTTP/1.0")
    BY <1>1, <1>2, <2>1, HeaderIsAsked
  <2>3. /\ RequestEnds' = RequestEnds
        /\ \A k : EndOf(k)' = EndOf(k)
        /\ \A r : Count(r)' = Count(r)
        /\ \A k, line : Asks(k, line)' <=> Asks(k, line)
        /\ \A k : AsksToClose(k)' <=> AsksToClose(k)
    BY <1>1, SameRequests
  <2> HIDE DEF Asks, EndOf, Count
  <2>4. CloseHonoured'
    <3>1. \A k \in 1..responses' : k \in 1..responses \/ k = responses + 1
      BY <1>1, <1>2
    <3>2. \A k \in 1..responses : ~Asks(k, "Connection: close")
      BY <1>1, <1>5, <2>1 DEF CloseHonoured
    <3>3. Asks(responses + 1, "Connection: close") => shut'
      BY <1>1, <2>2 DEF CloseRequested, ConnectionLines
    <3>4. shut' => AsksToClose(responses + 1)
      <4>1. shut' => \/ ConnectionHeader = "Connection: close"
                     \/ ConnectionHeader = "Connection: other" /\ version = "HTTP/1.0"
        BY <1>1 DEF CloseRequested
      <4> QED
        BY <2>2, <4>1 DEF AsksToClose, ConnectionLines
    <3>5. responses + 1 \in 1..responses'
      BY <1>1, <1>2
    <3> HIDE DEF AsksToClose
    <3>6. \A k \in 1..responses' : Asks(k, "Connection: close")' => shut'
      BY <2>3, <3>1, <3>2, <3>3
    <3>7. shut' => \E k \in 1..responses' : AsksToClose(k)'
      BY <2>3, <3>4, <3>5
    <3> QED
      BY <3>6, <3>7 DEF CloseHonoured
  <2>5. CrashCauses'
    <3>1. crash' \in {"no", "null"}
      BY <1>1
    <3>2. ASSUME crash' = "null"
          PROVE  /\ Asks(responses + 1, "HTTP/1.0")
                 /\ \A line \in ConnectionLines : ~Asks(responses + 1, line)
      BY <1>1, <2>2, <3>2 DEF ComparesNull, ConnectionLines
    <3>3. /\ Asks(responses, "HTTP/1.0")' <=> Asks(responses + 1, "HTTP/1.0")
          /\ \A line : Asks(responses, line)' <=> Asks(responses + 1, line)
      BY <1>1, <2>3
    <3> QED
      BY <3>1, <3>2, <3>3 DEF CrashCauses
  <2>6. Begin' = readIndex /\ Count(Begin)' = responses + 1
        /\ Count(readIndex)' = responses + 1
    <3>1. Begin' = readIndex
      BY <1>1, <2>2, <2>3 DEF Begin
    <3> QED
      BY <1>1, <2>1, <2>3, <3>1
  <2>7. BeginInv'
    <3>1. readIndex \in Nat
      BY <1>2
    <3> QED
      BY <1>1, <2>1, <2>3, <2>6, <3>1 DEF BeginInv
  <2>8. PlaceInv'
    BY <1>1, <2>6 DEF PlaceInv
  <2>9. RequestInv'
    BY <1>1 DEF RequestInv
  <2> QED
    BY <1>3, <2>4, <2>5, <2>7, <2>8, <2>9 DEF HttpInv
<1> QED
  BY <1>4, <1>5

LEMMA HttpStep == HttpInv /\ [Next]_vars => HttpInv'
<1> SUFFICES ASSUME HttpInv, [Next]_vars PROVE HttpInv'
  OBVIOUS
<1>1. CASE Next
  <2>1. CASE ThreadStep
    BY <1>1, <2>1, StatusStep, HeaderStep, LastLineStep, RespondStep, SendFailsStep
       DEF Next, ThreadStep
  <2> QED
    BY <1>1, <2>1, ReceiveStep, CloseStep, AbortStep DEF Next
<1>2. CASE UNCHANGED vars
  <2> USE DEF vars, requestVars
  <2>1. TypeOK' /\ BoundInv' /\ (Misread' <=> Misread)
    BY <1>2 DEF HttpInv, TypeOK, BoundInv, Misread
  <2>2. CASE Misread
    BY <2>1, <2>2, LostPlace
  <2>3. CASE ~Misread
    <3>1. CloseHonoured' /\ Begin' = Begin /\ RequestEnds' = RequestEnds
          /\ Count(Begin)' = Count(Begin) /\ Count(readIndex)' = Count(readIndex)
      BY <1>2, <2>3, SameAnswers DEF HttpInv
    <3>2. CrashCauses'
      <4>1. /\ \A k, line : Asks(k, line)' <=> Asks(k, line)
            /\ \A k : AsksToClose(k)' <=> AsksToClose(k)
        BY <1>2, SameRequests
      <4>2. CrashCauses /\ crash' = crash /\ responses' = responses
        BY <1>2 DEF HttpInv
      <4> HIDE DEF Asks, AsksToClose
      <4> QED
        BY <2>1, <4>1, <4>2 DEF CrashCauses
    <3>3. ASSUME crash = "no" PROVE BeginInv' /\ PlaceInv' /\ RequestInv'
      <4>1. BeginInv'
        BY <1>2, <2>3, <3>1, <3>3 DEF HttpInv, BeginInv
      <4>2. PlaceInv'
        BY <1>2, <2>3, <3>1, <3>3 DEF HttpInv, PlaceInv
      <4>3. RequestInv'
        BY <1>2, <2>3, <3>1, <3>3 DEF HttpInv, RequestInv, NoConnection, FirstConnection
      <4> QED
        BY <4>1, <4>2, <4>3
    <3> QED
      BY <1>2, <2>1, <3>1, <3>2, <3>3 DEF HttpInv
  <2> QED
    BY <2>2, <2>3
<1> QED
  BY <1>1, <1>2

LEMMA HttpInvariant == Spec => []HttpInv
<1> QED
  BY HttpInit, HttpStep, PTL DEF Spec

-----------------------------------------------------------------------------
(* Theorems *)

\* The parser's variables keep their types, whatever the stream.
THEOREM TypeCorrect == Spec => []TypeOK
<1>1. HttpInv => TypeOK
  BY DEF HttpInv
<1> QED
  BY <1>1, HttpInvariant, PTL

\* However TCP cuts a stream of requests into messages, between two calls of
\* http_onMessage the parser stands at the end of the last answered request:
\* one response for each, and no byte of it is left in the buffer, until a
\* header line without ": " is taken for an empty line.
THEOREM ParserInStepCorrect == Spec => []ParserInStep
<1>1. HttpInv => ParserInStep
  BY DEF HttpInv, ParserInStep, PlaceInv, Begin
<1> QED
  BY <1>1, HttpInvariant, PTL

\* The connection is shut down if one of the answered requests asked for it and
\* only then: http_request_reset keeps no header for the request that follows.
THEOREM CloseHonouredCorrect == Spec => []CloseHonoured
<1>1. HttpInv => CloseHonoured
  BY DEF HttpInv
<1> QED
  BY <1>1, HttpInvariant, PTL

\* On well-formed streams, cut anywhere, process_status_line's assertion fails
\* only after a header line without ": " was taken for the end of its request;
\* until then a response is sent to a connection that was shut down only if a
\* request asked for that, and a NULL string is compared only for an HTTP/1.0
\* request that names no Connection.
THEOREM CrashCausesCorrect == Spec => []CrashCauses
<1>1. HttpInv => CrashCauses
  BY DEF HttpInv
<1> QED
  BY <1>1, HttpInvariant, PTL
=============================================================================
