------------------------------ MODULE MCRecvBuf ------------------------------
(* Instances of RecvBuf for TLC.                                           *)
EXTENDS RecvBuf

\* Two and three blocks of which the last is not full, and one too large for
\* the largest buffer.
SmallAndOversized == {3, 5, 9}

=============================================================================
