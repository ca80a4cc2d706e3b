-------------------------- MODULE MCSPSCVarQueue --------------------------
(***************************************************************************)
(* SPSCVarQueue for TLC: a ring of three or four blocks.  A user size of   *)
(* 56 bytes takes one block, 57 two.  The payload 0 looks like a rewind    *)
(* marker where a header would be, 65 like the header of a message of two  *)
(* blocks.                                                                 *)
(***************************************************************************)
EXTENDS SPSCVarQueue

OneOrTwoBlocks == {56, 57}
Payloads == {0, 65}
OnePayload == {65}
=============================================================================
