----------------------------- MODULE MCIntegral -----------------------------
(***************************************************************************)
(* Bounds for Integral.  The widths of the build (int 32, Integral<8>,      *)
(* <16>, <32>, <64>) are scaled down, keeping what the code's behaviour     *)
(* depends on: 8 and 16 are narrower than int and promoted, 16 is wide     *)
(* enough that a product of two of its unsigned values overflows int (as   *)
(* 65535 * 65535 does) while 8 is not, 32 is int, 64 is wider than unsigned. *)
(***************************************************************************)
EXTENDS Integral

MCIntBits == 6
MCInt64Bits == 8
W8 == 2
W16 == 3
W32 == MCIntBits
W64 == MCInt64Bits

MCTypes == {Ty(w, s) : w \in {W8, W16, W32, W64}, s \in BOOLEAN}
MCAPBits == {W16, W32, W64}

\* Only truncate and mul applied: the run on the shifts of truncate and
\* the promoted unsigned product of mul.
MCSpecTruncateMul == Init /\ [][TruncateOp \/ Mul]_vars
=============================================================================
