-------------------------- MODULE MCDrawdownGates --------------------------
(* A small account for DrawdownGates: from a peak of 100 the drawdowns are   *)
(* 7 and 11 percent, and 4.3 percent from the peak a flat reset at 93 sets.  *)
EXTENDS DrawdownGates

MCEquities == {100, 93, 89}
=============================================================================
