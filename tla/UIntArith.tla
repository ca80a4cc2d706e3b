------------------------------ MODULE UIntArith ------------------------------
(***************************************************************************)
(* Unsigned machine arithmetic as the queues use it on indices and         *)
(* sequence numbers: uint32_t values that wrap around, compared through    *)
(* the sign of their difference, as in                                     *)
(*     (int)(read_idx_cach - min_read_idx) < 0.                            *)
(* HalfRange stands for 2^31.  The operators avoid % so that they stay     *)
(* linear for the provers; on operands in UInt they are exactly + and -    *)
(* modulo 2 * HalfRange.                                                   *)
(***************************************************************************)
EXTENDS Integers

CONSTANT HalfRange

ASSUME HalfRangeAssumption == HalfRange \in Nat \ {0}

UIntMod == 2 * HalfRange

UInt == 0 .. UIntMod - 1

\* a + b, for a in UInt and b in 0 .. UIntMod.
Add(a, b) == IF a + b >= UIntMod THEN a + b - UIntMod ELSE a + b

\* a - b.
Sub(a, b) == IF a >= b THEN a - b ELSE a - b + UIntMod

\* (int)(a - b) < 0.
Before(a, b) == Sub(a, b) >= HalfRange

=============================================================================
