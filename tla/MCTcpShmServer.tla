--------------------------- MODULE MCTcpShmServer ---------------------------
(***************************************************************************)
(* TcpShmServer for TLC.                                                   *)
(***************************************************************************)
EXTENDS TcpShmServer

CONSTANTS n1, n2, f1, f2

TwoNames == {n1, n2}
TwoFds == {f1, f2}
=============================================================================
