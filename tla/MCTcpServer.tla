---------------------------- MODULE MCTcpServer -----------------------------
(***************************************************************************)
(* Instances of TcpServer for TLC: two workers and four connections, two   *)
(* of which get the same descriptor one after the other; one accept fails. *)
(***************************************************************************)
EXTENDS TcpServer, TLC

CONSTANTS wakeChan, c1, c2, c3, c4

MCConnections == {c1, c2, c3, c4}
MCFdOf == (wakeChan :> -1) @@ (c1 :> 7) @@ (c2 :> 7) @@ (c3 :> 8) @@ (c4 :> -1)
=============================================================================
