--------------------------- MODULE MCPositionLife ---------------------------
(* Instance of PositionLife for TLC.  One lot is two units and the smallest *)
(* order is worth $5, so a unit at the entry price is $1.25: 7 units are a  *)
(* small position, 13 get the full ladder, 49 are trailed.                  *)
EXTENDS PositionLife

MCTpPct == <<12, 24>>
MCTpSize == <<40, 30>>
=============================================================================
