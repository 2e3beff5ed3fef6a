------------------------ MODULE MCProtectionGuardian ------------------------
(* Instances of ProtectionGuardian for TLC. *)
EXTENDS ProtectionGuardian

\* Lots of two units; what is free is nothing, or two lots less the unit that
\* the fee of a BUY took from the base asset.
MCOrderIds == 1 .. 6
MCPrices == {78, 100, 106}

MCRows == {[qty |-> 3, tp |-> 0, sl |-> 0], [qty |-> 6, tp |-> 120, sl |-> 70]}
MCFree == {0, 3}

\* Take-profits of different sizes and prices, stops inside and outside the
\* 13% band at price 100 (90 is in, 80 is out), and an OCO over one lot.
MCLegs == {[kind |-> "tp", qty |-> 2, tp |-> 104, sl |-> 0],
           [kind |-> "tp", qty |-> 2, tp |-> 120, sl |-> 0],
           [kind |-> "tp", qty |-> 4, tp |-> 120, sl |-> 0],
           [kind |-> "sl", qty |-> 2, tp |-> 0, sl |-> 80],
           [kind |-> "sl", qty |-> 2, tp |-> 0, sl |-> 90],
           [kind |-> "sl", qty |-> 4, tp |-> 0, sl |-> 90],
           [kind |-> "oco", qty |-> 2, tp |-> 120, sl |-> 90]}

\* Books of up to two legs, in order of their numbers.
MCBooks == UNION {[1 .. n -> MCLegs] : n \in 0 .. 2}
=============================================================================
