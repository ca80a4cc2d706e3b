--------------------------- MODULE MCPTCPSession ---------------------------
(***************************************************************************)
(* PTCPSession for TLC.                                                    *)
(***************************************************************************)
EXTENDS PTCPSession

OnlyServer == {S}
OnlyClient == {C}
Both == {C, S}
=============================================================================
