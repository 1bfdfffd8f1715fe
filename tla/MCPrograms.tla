----------------------------- MODULE MCPrograms -----------------------------
(***************************************************************************)
(* A small instance of each of the programs, for TLC.                      *)
(***************************************************************************)
EXTENDS Programs

MCText == << <<FALSE, FALSE, TRUE>>, <<TRUE>>, <<>> >>
MCScripts == {<<"line", "line", "line", e>> : e \in {"shutdown", "close", "line"}}
MCInputs == {<<1, 2>>, <<2, 0, 1>>, <<1, 3, 1>>}

Cmd(op) == [op |-> op, path |-> ""]
Dir(op, path) == [op |-> op, path |-> path]
MCCommands ==
    << <<Cmd("pwd"), Dir("list", "sub"), Dir("cd", "sub"), Cmd("quit")>>,
       <<Cmd("other"), Dir("list", ".."), Dir("cd", ".."), Cmd("quit")>>,
       <<Cmd("ls"), Dir("cd", "sub"), Dir("list", "sub")>> >>

MCTyped == << <<"long", "short">>, <<"short", "goodbye">> >>
=============================================================================
