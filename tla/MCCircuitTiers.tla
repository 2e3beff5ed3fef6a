--------------------------- MODULE MCCircuitTiers ---------------------------
(***************************************************************************)
(* The tiers over two positions of 40 and 24 next to 36 in cash, so that    *)
(* a price move of -25% lands on a threshold: 94, 90, and 84 for both.  A tick *)
(* is four hours: the run begins at 16:00 and passes one midnight.          *)
(***************************************************************************)
EXTENDS CircuitTiers

CONSTANTS a, b

StartValueMC == [s \in {a, b} |-> IF s = a THEN 40 ELSE 24]

\* An entry of 10 that one of the two, cash table and positions, has not seen.
CashDriftMC == {-10}
=============================================================================
