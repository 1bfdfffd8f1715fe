----------------------------- MODULE HttpServer -----------------------------
(***************************************************************************)
(* The HTTP layer of src/lib (http_server.c, http_request.c) on one        *)
(* connection of a worker's loop.  The bytes a client sends are a sequence *)
(* of tokens: the text of a line, or a CRLF.  A header line without ": ",  *)
(* such as Host:x, is two tokens, its first two bytes and the rest, since  *)
(* the parser may stop between them.  TCP may deliver any number of tokens *)
(* at a time, so a message the callback gets can end within a request or   *)
(* hold several.                                                           *)
(*                                                                         *)
(* Clients send well-formed requests and may close their side after them,  *)
(* but do not reset the connection (TcpConnection has that); what a        *)
(* response says is left to the application's requestCallback.             *)
(***************************************************************************)
EXTENDS Integers, Sequences, FiniteSets

CONSTANTS
    Streams     \* what a client may send: sequences of tokens

StatusLines == {"HTTP/1.1", "HTTP/1.0"}            \* by their version
ConnectionLines == {"Connection: close", "Connection: Keep-Alive", "Connection: other"}
HeaderLines == ConnectionLines \cup {"Host: x"}
TwoBytes == "Ho"
Rests == {"st:x", "st:x y z"}
\* process_status_line takes every line with two spaces.
TwoSpaces == StatusLines \cup {"st:x y z"}
Tokens == StatusLines \cup HeaderLines \cup {TwoBytes, "CRLF"} \cup Rests

\* A request is a status line, headers and an empty line. A client may stop
\* in the middle of one.
StartsRequest(s, k) == k = 1 \/ (k > 2 /\ s[k - 1] = "CRLF" /\ s[k - 2] = "CRLF")
WellFormed(s) ==
    \A k \in DOMAIN s :
        IF StartsRequest(s, k) THEN s[k] \in StatusLines
        ELSE \/ s[k] = "CRLF"
             \/ s[k] \in HeaderLines \cup {TwoBytes} /\ s[k - 1] = "CRLF"
             \/ s[k] \in Rests /\ s[k - 1] = TwoBytes

ASSUME StreamAssumption == Streams \subseteq {s \in Seq(Tokens) : WellFormed(s)}

VARIABLES
    stream,         \* what the client of this connection sends
    received,       \* how much of it reached the input buffer
    readIndex,      \* how much of it was parsed
    current_state,  \* httpRequest->current_state
    version,        \* httpRequest->version
    headers,        \* httpRequest->request_headers
    pc,             \* where the loop's thread is
    responses,      \* responses sent
    shut,           \* tcp_connection_shutdown was called
    overrun,        \* a terminator was written over what follows its block
    crash           \* why the process died, if it did

requestVars == <<current_state, version, headers>>
vars == <<stream, received, readIndex, requestVars, pc, responses, shut, overrun,
          crash>>

TypeOK ==
    /\ stream \in Streams
    /\ readIndex \in 0..received
    /\ received \in 0..Len(stream)
    /\ current_state \in {"STATUS", "HEADERS", "DONE"}
    /\ version \in TwoSpaces \cup {"NULL"}
    /\ headers \in Seq(HeaderLines)
    /\ pc \in {"wait", "parse", "closed"}
    /\ responses \in 0..Len(stream)
    /\ shut \in BOOLEAN /\ overrun \in BOOLEAN
    /\ crash \in {"no", "assert", "null", "SIGPIPE", "flush", "heap"}

-----------------------------------------------------------------------------
\* http_onConnectionCompleted: a new request, as http_request_reset makes it.
Init ==
    /\ stream \in Streams
    /\ received = 0
    /\ readIndex = 0
    /\ current_state = "STATUS"
    /\ version = "NULL"
    /\ headers = <<>>
    /\ pc = "wait"
    /\ responses = 0
    /\ shut = FALSE /\ overrun = FALSE
    /\ crash = "no"

\* buffer_find_CRLF finds position p, the first after readIndex; line is the
\* text before it.
LineEnds(p) == /\ p \in readIndex + 1..received
               /\ stream[p] = "CRLF"
               /\ \A k \in readIndex + 1..p - 1 : stream[k] # "CRLF"
Line(p) == SubSeq(stream, readIndex + 1, p - 1)

\* handle_read got the next bytes of the client and calls http_onMessage.
Receive ==
    /\ pc = "wait"
    /\ received' \in received + 1..Len(stream)
    /\ pc' = "parse"
    /\ UNCHANGED <<stream, readIndex, requestVars, responses, shut, overrun, crash>>

Parsing(state) == pc = "parse" /\ current_state = state

\* process_status_line asserts that the line has two spaces, and puts the
\* terminators of method, url and version one byte behind their blocks: what
\* lies there depends on their lengths.  With no CRLF in the buffer
\* parse_http_request goes round its loop again: nothing changes ever, since
\* only this thread could read more bytes.
ParseStatus ==
    \E p \in 1..received :
        /\ Parsing("STATUS")
        /\ LineEnds(p)
        /\ IF Line(p) # <<>> /\ Line(p)[1] \in TwoSpaces
             THEN /\ version' = Line(p)[1]
                  /\ current_state' = "HEADERS"
                  /\ readIndex' = p
                  /\ overrun' \in {overrun, TRUE}
                  /\ UNCHANGED crash
             ELSE /\ crash' = "assert"
                  /\ UNCHANGED <<version, current_state, readIndex, overrun>>
        /\ UNCHANGED <<stream, received, headers, pc, responses, shut>>

IsHeader(p) == Line(p) # <<>> /\ Line(p)[1] \in HeaderLines

\* A line with ": " is a header.
ParseHeader ==
    \E p \in 1..received :
        /\ Parsing("HEADERS")
        /\ LineEnds(p)
        /\ IsHeader(p)
        /\ headers' = Append(headers, Line(p)[1])
        /\ readIndex' = p
        /\ UNCHANGED <<stream, received, current_state, version, pc, responses,
                       shut, overrun, crash>>

\* Faulty: a line without ": " is skipped like any other.
SkipLastLine ==
    \E p \in 1..received :
        /\ Parsing("HEADERS")
        /\ LineEnds(p)
        /\ ~IsHeader(p)
        /\ readIndex' = p
        /\ UNCHANGED <<stream, received, requestVars, pc, responses, shut, overrun,
                       crash>>

\* Faulty: the CRLF of the last line is counted twice.
LastLineTwice ==
    \E p \in 1..received :
        /\ Parsing("HEADERS")
        /\ LineEnds(p)
        /\ ~IsHeader(p)
        /\ current_state' = "DONE"
        /\ readIndex' = p + 1
        /\ UNCHANGED <<stream, received, version, headers, pc, responses, shut,
                       overrun, crash>>

\* Any other line ends the request, empty or not.  Two bytes are taken for
\* its CRLF: of a line that is not empty, they are its first two.
ParseLastLine ==
    \E p \in 1..received :
        /\ Parsing("HEADERS")
        /\ LineEnds(p)
        /\ ~IsHeader(p)
        /\ current_state' = "DONE"
        /\ readIndex' = readIndex + 1
        /\ UNCHANGED <<stream, received, version, headers, pc, responses, shut,
                       overrun, crash>>

-----------------------------------------------------------------------------
\* The value http_request_get_header finds for "Connection": that of the
\* first such header.
ConnectionHeader ==
    LET Named == {k \in 1..Len(headers) : headers[k] \in ConnectionLines} IN
    IF Named = {} THEN "NULL"
    ELSE headers[CHOOSE k \in Named : \A j \in Named : k <= j]

\* What http_request_close_connection may return.  For HTTP/1.0 the code tests
\* strncmp for the value 1: of another value than Keep-Alive it is positive,
\* and 1 or more depending on the library.
CloseRequested ==
    IF ConnectionHeader = "Connection: close" THEN {TRUE}
    ELSE IF ConnectionHeader = "Connection: other" /\ version = "HTTP/1.0" THEN BOOLEAN
    ELSE {FALSE}
\* Faulty: the version is not looked at.
ComparesNullAlways == ConnectionHeader = "NULL"
\* An HTTP/1.0 request without a Connection header compares a NULL string.
ComparesNull == ConnectionHeader = "NULL" /\ version = "HTTP/1.0"

ResetRequest == /\ current_state' = "STATUS"
                /\ version' = "NULL"
                /\ headers' = <<>>

Answer == /\ Parsing("DONE") /\ ~shut
          /\ responses' = responses + 1
          /\ shut' \in CloseRequested
          /\ crash' = IF ComparesNull THEN "null" ELSE "no"
          /\ pc' = "wait"
          /\ UNCHANGED <<stream, received, readIndex, overrun>>

\* Faulty: the old headers are kept.
RespondKeepsHeaders == /\ Answer
                       /\ current_state' = "STATUS"
                       /\ version' = "NULL"
                       /\ UNCHANGED headers

\* Faulty: the parsed request is not reset.
RespondNoReset == Answer /\ UNCHANGED requestVars

\* The rest of http_onMessage: the response is sent whole, the connection may
\* be shut down, and the request is reset.  The callback returns, whatever
\* else is in the buffer.
Respond == Answer /\ ResetRequest

\* tcp_connection_send_buffer does not come back: the connection is shut down
\* and SIGPIPE not ignored on the acceptor's path, or the kernel takes only
\* a part and the write event is enabled (see TcpConnection).
SendFails ==
    /\ Parsing("DONE")
    /\ crash' = IF shut THEN "SIGPIPE" ELSE "flush"
    /\ UNCHANGED <<stream, received, readIndex, requestVars, pc, responses, shut,
                   overrun>>

\* The allocator finds the damage, in whichever thread uses it next.
HeapAborts ==
    /\ overrun
    /\ crash' = "heap"
    /\ UNCHANGED <<stream, received, readIndex, requestVars, pc, responses, shut,
                   overrun>>

\* The client closed its side: http_onConnectionClosed frees the request.
PeerCloses ==
    /\ pc = "wait"
    /\ received = Len(stream)
    /\ pc' = "closed"
    /\ UNCHANGED <<stream, received, readIndex, requestVars, responses, shut,
                   overrun, crash>>

ThreadStep == ParseStatus \/ ParseHeader \/ ParseLastLine \/ Respond \/ SendFails

Next == crash = "no" /\ (ThreadStep \/ Receive \/ PeerCloses \/ HeapAborts)

Spec == Init /\ [][Next]_vars

\* The loop's thread runs; no client is obliged to send.
FairSpec == Spec /\ WF_vars(crash = "no" /\ ThreadStep)

-----------------------------------------------------------------------------
(* Properties *)

\* The ends of the requests in the stream: a CRLF right after a CRLF.  Of
\* several Connection headers in a request the first one counts.
RequestEnds == {p \in 2..Len(stream) : stream[p] = "CRLF" /\ stream[p - 1] = "CRLF"}
EndOf(k) == IF k = 0 THEN 0
            ELSE CHOOSE p \in RequestEnds : Cardinality(RequestEnds \cap 1..p) = k
Within(k) == EndOf(k - 1) + 1..EndOf(k)
Asks(k, line) ==
    \E j \in Within(k) :
        /\ stream[j] = line
        /\ \A i \in Within(k) : i < j => stream[i] \notin ConnectionLines

AsksToClose(k) ==
    Asks(k, "Connection: close") \/ (Asks(k, "HTTP/1.0") /\ Asks(k, "Connection: other"))

\* A header line without ": " was taken for the end of its request.
Misread == \E j \in 1..readIndex : stream[j] = TwoBytes

\* Between messages the parser stands at the end of the last answered
\* request, however the stream was cut and whatever else is in the buffer:
\* one response for each request, and no byte of a request is left behind.
\* Only a header line without ": " makes it lose its place.
ParserInStep ==
    pc = "wait" /\ crash = "no" /\ ~Misread => readIndex = EndOf(responses)

\* While the parser has its place, the connection is shut down if one of the
\* answered requests asked for it and only then: no header of an earlier
\* request is mistaken for its own.
CloseHonoured ==
    ~Misread => /\ \A k \in 1..responses : Asks(k, "Connection: close") => shut
                /\ shut => \E k \in 1..responses : AsksToClose(k)

\* What a well-formed client must do for the process to die in this code: the
\* assertion on a status line fails only after a header line without ": "; a
\* response meets a connection that was shut down only after a request that
\* asked for it, and a NULL string is compared only for an HTTP/1.0 request
\* that names no Connection, or after such a line.  A response larger than
\* the kernel takes ("flush") and the terminators behind their blocks
\* ("heap") need nothing of the client.
CrashCauses ==
    /\ crash = "assert" => Misread
    /\ crash = "SIGPIPE" => Misread \/ \E k \in 1..responses : AsksToClose(k)
    /\ crash = "null" => \/ Misread
                         \/ /\ Asks(responses, "HTTP/1.0")
                            /\ \A line \in ConnectionLines : ~Asks(responses, line)

\* A callback that finds the first request that is not answered yet wholly in
\* the buffer answers it.  It answers no other: see AllRequestsProcessed.
NextRequestAnswered ==
    \A k \in 1..3 :
        (pc = "parse" /\ responses = k - 1 /\ k <= Cardinality(RequestEnds)
             /\ EndOf(k) <= received) ~> (responses >= k \/ crash # "no")

\* "the data may not all have been received, so the case of insufficient data
\* has to be handled" (http_onMessage): the callback returns to the loop.
CallbackReturns == pc = "parse" ~> (pc # "parse" \/ crash # "no")

\* "all the request data has been processed, next comes encoding and sending"
\* (http_onMessage): a callback that returns leaves no whole request behind.
AllRequestsProcessed ==
    pc = "wait" /\ crash = "no" /\ ~Misread =>
        \A p \in RequestEnds : p <= received => p <= readIndex
=============================================================================
