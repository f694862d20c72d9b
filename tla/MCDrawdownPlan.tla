---------------------------- MODULE MCDrawdownPlan ----------------------------
(* Values of the constants of DrawdownPlan for TLC. *)
EXTENDS DrawdownPlan

(* From 106: down 16 and 25 per cent; from 89: down 11, up 19 per cent.     *)
MCThreePrices == {79, 89, 106}

(* A fall of 25 per cent, of 17 from 106 restated to 95; rises of 34, of 11. *)
MCTwoPrices == {79, 106}
=============================================================================
