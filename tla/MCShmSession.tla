----------------------------- MODULE MCShmSession -----------------------------
(* Instances of ShmSession for TLC.                                        *)
EXTENDS ShmSession

=============================================================================
