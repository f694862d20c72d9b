--------------------------- MODULE MCPositionLedger ---------------------------
(* Values of the constants of PositionLedger for TLC. *)
EXTENDS PositionLedger, TLC

CONSTANTS a1, a2, m1, u1, k1, k2

MCSymmetry == Permutations(Tokens)
=============================================================================
