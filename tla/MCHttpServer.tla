---------------------------- MODULE MCHttpServer ----------------------------
(***************************************************************************)
(* Instances of HttpServer for TLC: streams of up to three requests, of    *)
(* the shapes the code tells apart, and streams cut short.                 *)
(***************************************************************************)
EXTENDS HttpServer

WithHeaders(status, lines) == <<status, "CRLF">> \o lines \o <<"CRLF">>

Shapes == {WithHeaders("HTTP/1.1", <<>>),
           WithHeaders("HTTP/1.1", <<"Host: x", "CRLF">>),
           WithHeaders("HTTP/1.1", <<"Host: x", "CRLF", "Connection: close", "CRLF">>),
           WithHeaders("HTTP/1.0", <<"Connection: Keep-Alive", "CRLF">>),
           WithHeaders("HTTP/1.1", <<"Connection: Keep-Alive", "CRLF",
                                     "Connection: close", "CRLF">>),
           WithHeaders("HTTP/1.0", <<"Host: x", "CRLF">>),
           WithHeaders("HTTP/1.0", <<"Connection: other", "CRLF">>)}

\* Header lines without ": ", the last of them of just two bytes.
Colonless == {WithHeaders("HTTP/1.1", <<"Ho", r, "CRLF">>) : r \in Rests}
                \cup {WithHeaders("HTTP/1.0", <<"Ho", "CRLF">>)}

MCStreams ==
    UNION {{SubSeq(r, 1, k) : k \in 0..Len(r)} : r \in Shapes \cup Colonless}
        \cup {r \o s : r, s \in Shapes \cup Colonless}
        \cup {r \o s \o t : r, s, t \in Shapes}
=============================================================================
