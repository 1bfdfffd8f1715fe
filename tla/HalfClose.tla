------------------------------ MODULE HalfClose ------------------------------
(***************************************************************************)
(* src/chap-11: a client that ends its side of a connection with shutdown  *)
(* or close, and a server that answers after a while. The client's input   *)
(* is a script of commands; they reach its descriptor 0 one by one, fgets  *)
(* takes any number of those into the buffer of stdin, where select does   *)
(* not see them. Lines are short: all of them fit into MAXLINE.            *)
(***************************************************************************)
EXTENDS Integers, Sequences

CONSTANT Scripts            \* inputs; members of {"line", "shutdown", "close"}*

VARIABLES
    script,
    arrived, buffered, taken,   \* commands at descriptor 0, in stdin's buffer, done
    cli,            \* "loop", "shut" (stdin no longer watched), "closed" (its socket),
                    \* "terminated" (it saw the server's end), "error"
    srv,            \* "read", "answer", and how it ended: "eof", "pipe", "error", "int"
    written,        \* lines the client wrote
    unread, held,   \* lines not yet read by the server, lines it is to answer
    coming,         \* lines whose answers the client has not read yet
    printed,        \* lines whose answers it has printed
    reset           \* why the server's end has been reset: "none", "unread", "answer"

halfVars == <<script, arrived, buffered, taken, cli, srv, written, unread, held, coming,
              printed, reset>>

HalfCloseTypeOK ==
    /\ script \in Scripts
    /\ arrived \in 0 .. Len(script) /\ buffered \in 0 .. arrived /\ taken \in 0 .. buffered
    /\ {written, unread, held, coming, printed} \subseteq 0 .. taken
    /\ cli \in {"loop", "shut", "closed", "terminated", "error"}
    /\ srv \in {"read", "answer", "eof", "pipe", "error", "int"}
    /\ reset \in {"none", "unread", "answer"}

Start ==
    /\ script \in Scripts
    /\ arrived = 0 /\ buffered = 0 /\ taken = 0
    /\ cli = "loop" /\ srv = "read"
    /\ written = 0 /\ unread = 0 /\ held = 0 /\ coming = 0 /\ printed = 0
    /\ reset = "none"

Arrive ==
    /\ arrived < Len(script)
    /\ arrived' = arrived + 1
    /\ UNCHANGED <<script, buffered, taken, cli, srv, written, unread, held, coming,
                   printed, reset>>

Serving == srv \in {"read", "answer"}

\* select sees descriptor 0, whatever stdin holds already; at its end too.
Command ==
    /\ cli = "loop" /\ (buffered < arrived \/ arrived = Len(script))
    /\ taken < arrived
    /\ buffered' \in IF taken = buffered THEN buffered + 1 .. arrived ELSE {buffered}
    /\ taken' = taken + 1
    /\ CASE script[taken'] = "line" ->
                /\ written' = written + 1
                /\ unread' = IF Serving THEN unread + 1 ELSE unread
                /\ UNCHANGED <<cli, reset>>
         [] script[taken'] = "shutdown" -> cli' = "shut" /\ UNCHANGED <<written, unread, reset>>
         [] OTHER -> /\ cli' = "closed"
                     \* close with unread answers sends a reset for an end of file
                     /\ reset' = IF coming > 0 THEN "unread" ELSE "none"
                     /\ UNCHANGED <<written, unread>>
    /\ UNCHANGED <<script, arrived, srv, held, coming, printed>>

\* One read takes all answers that are there.
ReadAnswers ==
    /\ cli \in {"loop", "shut"} /\ (coming > 0 \/ ~Serving)
    /\ printed' = printed + coming /\ coming' = 0
    /\ IF coming > 0 THEN UNCHANGED cli
       ELSE cli' \in {"terminated"} \cup {x \in {"error"} : unread > 0}
    /\ UNCHANGED <<script, arrived, buffered, taken, srv, written, unread, held, reset>>

\* One read takes some of the lines that are there, as one message.
ServerReads ==
    /\ srv = "read"
    /\ \/ /\ unread > 0
          /\ held' \in 1 .. unread
          /\ unread' = unread - held'
          /\ srv' = "answer"
       \/ /\ unread = 0 /\ cli \in {"shut", "closed"}
          /\ srv' = IF reset = "unread" THEN "error" ELSE "eof"
          /\ UNCHANGED <<unread, held>>
    /\ UNCHANGED <<script, arrived, buffered, taken, cli, written, coming, printed, reset>>

\* What a send comes to.
Outcome == CASE reset = "none" -> "read" [] reset = "answer" -> "pipe" [] OTHER -> "error"

\* Mutant: one answer for a read, however many lines it took.
AnswerOne ==
    /\ srv = "answer"
    /\ held' = 0
    /\ srv' = Outcome
    /\ coming' = IF cli = "closed" THEN coming ELSE coming + 1
    /\ reset' = IF cli = "closed" /\ reset = "none" THEN "answer" ELSE reset
    /\ UNCHANGED <<script, arrived, buffered, taken, cli, written, unread, printed>>

\* The answer to a closed socket is answered with a reset, after which the next answer
\* raises SIGPIPE and a read still finds the end of file.
Answer ==
    /\ srv = "answer"
    /\ held' = 0
    /\ srv' = Outcome
    /\ coming' = IF cli = "closed" THEN coming ELSE coming + held
    /\ reset' = IF cli = "closed" /\ reset = "none" THEN "answer" ELSE reset
    /\ UNCHANGED <<script, arrived, buffered, taken, cli, written, unread, printed>>

sig_int ==
    /\ Serving /\ cli = "loop"
    /\ srv' = "int"
    /\ UNCHANGED <<script, arrived, buffered, taken, cli, written, unread, held, coming,
                   printed, reset>>

Next == Command \/ ReadAnswers \/ ServerReads \/ Answer \/ Arrive \/ sig_int

----------------------------------------------------------------------------

(* shutdown lets the client see the answers to all lines it wrote before   *)
(* it ends, in however few reads the lines and the answers come together,  *)
(* and the server ends at end of file. Only close, which gives the answers *)
(* up, makes the server die of a write or a reset.                         *)
ShutdownGetsAnswers ==
    /\ cli = "terminated" /\ srv # "int" => printed = written /\ srv = "eof"
    /\ srv \in {"pipe", "error"} => cli = "closed"
=============================================================================
