----------------------------- MODULE FileServer -----------------------------
(***************************************************************************)
(* src/mid-homework: a server that runs the commands pwd, cd and ls for    *)
(* one client after the other, in the one directory of its process, and    *)
(* its client. The client sends lines without their newline, so that those *)
(* one read takes together are one command. A line arrives whole.          *)
(***************************************************************************)
EXTENDS Integers, Sequences, FiniteSets, FiniteSetsExt

CONSTANT Commands
    \* Commands[c]: the lines client c types: op is "pwd", "ls", "other", "quit", or "cd"
    \* or "list" with a path: "sub", which only the top directory has, or "..".

VARIABLES
    mode,           \* the server: "accept", "read", "dead"
    serving,        \* the client it serves, or 0
    cwd,            \* its directory: "top" or "sub"
    broken,         \* the connection has been reset
    conn,           \* conn[c]: "none", "waiting", "open", "closed"
    gone,           \* clients killed by the write that follows quit's shutdown
    typed, took,    \* lines c has typed, lines of those the server has read
    answers, seen,  \* what c was sent (the op, or "error"), how much of it c has printed
    hurried         \* history: somebody typed a line before the last one was done with

filesVars == <<mode, serving, cwd, broken, conn, gone, typed, took, answers, seen, hurried>>

People == DOMAIN Commands
Line(c, k) == Commands[c][k]
Ops == {"pwd", "garbled", "ls", "list", "error"}

FilesTypeOK ==
    /\ mode \in {"accept", "read", "dead"} /\ serving \in People \cup {0}
    /\ cwd \in {"top", "sub"} /\ broken \in BOOLEAN /\ hurried \in BOOLEAN
    /\ conn \in [People -> {"none", "waiting", "open", "closed"}] /\ gone \subseteq People
    /\ \A c \in People :
        /\ answers[c] \in Seq(Ops) /\ seen[c] \in 0 .. Len(answers[c])
        /\ took[c] \in 0 .. typed[c] /\ typed[c] \in 0 .. Len(Commands[c])

Start ==
    /\ mode = "accept" /\ serving = 0 /\ cwd = "top" /\ broken = FALSE
    /\ conn = [c \in People |-> "none"] /\ gone = {}
    /\ typed = [c \in People |-> 0] /\ took = [c \in People |-> 0]
    /\ answers = [c \in People |-> <<>>] /\ seen = [c \in People |-> 0]
    /\ hurried = FALSE

Connect(c) ==
    /\ conn[c] = "none" /\ \A d \in 1 .. c - 1 : conn[d] # "none"
    /\ conn' = [conn EXCEPT ![c] = "waiting"]
    /\ UNCHANGED <<mode, serving, cwd, broken, gone, typed, took, answers, seen, hurried>>

\* A line is sent; quit shuts the connection down and then writes to it, which kills the
\* client and, if it has left an answer unread, resets the connection.
Type(c) ==
    /\ conn[c] \in {"waiting", "open"} /\ c \notin gone /\ typed[c] < Len(Commands[c])
    /\ typed' = [typed EXCEPT ![c] = @ + 1]
    /\ gone' = gone \cup {d \in {c} : Line(c, typed'[c]).op = "quit"}
    /\ broken' = (broken \/ (c \in gone' /\ seen[c] < Len(answers[c])))
    /\ hurried' = (hurried \/ took[c] < typed[c] \/ seen[c] < Len(answers[c]))
    /\ UNCHANGED <<mode, serving, cwd, conn, took, answers, seen>>

Show(c) ==
    /\ c \notin gone /\ seen[c] < Len(answers[c])
    /\ seen' = [seen EXCEPT ![c] = Len(answers[c])]
    /\ UNCHANGED <<mode, serving, cwd, broken, conn, gone, typed, took, answers, hurried>>

Queue == {c \in People : conn[c] = "waiting"}
AcceptClient ==
    /\ mode = "accept" /\ Queue # {}
    /\ serving' = Min(Queue)
    /\ conn' = [conn EXCEPT ![serving'] = "open"]
    /\ mode' = "read" /\ broken' = FALSE
    /\ UNCHANGED <<cwd, gone, typed, took, answers, seen, hurried>>

Pending(c) == typed[c] - took[c] - (IF c \in gone THEN 1 ELSE 0)
Exists(path) == path = ".." \/ (path = "sub" /\ cwd = "top")

\* The path is in an array that is gone when pwd_cmd returns: what is sent is what stands
\* there by then, other bytes or none ("garbled") if something has written over it.
pwd_cmd == {"pwd", "garbled"}

\* What one read found: n lines, the first of them l. The end of a longer command is
\* part of its path, and of the word where there is no path.
cd(l, n) ==
    /\ cwd' = IF n > 1 \/ ~Exists(l.path) THEN cwd ELSE IF l.path = "sub" THEN "sub" ELSE "top"
    /\ UNCHANGED <<mode, answers, broken>>

\* A first answer to a client that has gone is answered with a reset, which fails the next.
send(answer) ==
    /\ UNCHANGED cwd
    /\ mode' = IF broken THEN "dead" ELSE mode
    /\ IF serving \in gone
       THEN broken' = TRUE /\ UNCHANGED answers
       ELSE answers' = [answers EXCEPT ![serving] = Append(@, answer)] /\ UNCHANGED broken

\* A directory that cannot be opened gives NULL, whose length is taken.
ls_cmd(l, n) ==
    IF n = 1 /\ Exists(l.path) THEN send("list")
    ELSE mode' = "dead" /\ UNCHANGED <<cwd, answers, broken>>

ReadCommand ==
    /\ mode = "read"
    /\ \E n \in 1 .. Pending(serving) :
        LET l == Line(serving, took[serving] + 1)
        IN  /\ took' = [took EXCEPT ![serving] = @ + n]
            /\ CASE l.op = "cd" -> cd(l, n)
                 [] l.op = "list" -> ls_cmd(l, n)
                 [] l.op = "pwd" /\ n = 1 -> \E path \in pwd_cmd : send(path)
                 [] OTHER -> send(IF n = 1 /\ l.op # "other" THEN l.op ELSE "error")
    /\ UNCHANGED <<serving, conn, gone, typed, seen, hurried>>

ClientClosed ==
    /\ mode = "read" /\ serving \in gone /\ Pending(serving) = 0
    /\ conn' = [conn EXCEPT ![serving] = "closed"]
    /\ mode' = "accept"
    /\ UNCHANGED <<serving, cwd, broken, gone, typed, took, answers, seen, hurried>>

FilesNext ==
    \/ AcceptClient \/ ReadCommand \/ ClientClosed
    \/ \E c \in People : Connect(c) \/ Type(c) \/ Show(c)

----------------------------------------------------------------------------

Asked(c, m) == {j \in 1 .. m : Line(c, j).op # "cd"}

(* If every client waits until its last line has been dealt with, each is  *)
(* sent the answers to its own lines, in order and nothing else, whatever  *)
(* directory the clients before it left the server in. cd has no answer,   *)
(* and that to pwd may be garbled.                                         *)
PatientClientsAnswered ==
    ~hurried /\ mode # "dead" => \A c \in People :
        /\ Len(answers[c]) = Cardinality(Asked(c, took[c]))
        /\ \A j \in Asked(c, took[c]) :
            answers[c][Cardinality(Asked(c, j))] \in
                CASE Line(c, j).op = "other" -> {"error"}
                  [] Line(c, j).op = "pwd" -> {"pwd", "garbled"}
                  [] OTHER -> {Line(c, j).op}

(* Then only the listing of a directory that is not there ends the server, *)
(* as it is where the directory was named from another client's place.     *)
PatientClientsHarmless ==
    mode = "dead" /\ ~hurried =>
        LET l == Line(serving, took[serving]) IN l.op = "list" /\ ~Exists(l.path)
=============================================================================
