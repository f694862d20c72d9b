--------------------------- MODULE MCPositionProfit ---------------------------
(* PositionProfit with the constants of the .cfg files, for TLC. *)
EXTENDS PositionProfit
=============================================================================
