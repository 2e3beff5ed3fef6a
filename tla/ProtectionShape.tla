-------------------------- MODULE ProtectionShape --------------------------
(***************************************************************************)
(* src/protection_shape.py: the shape of the protective orders of one       *)
(* position, and the table of the shape changes the guardian's actions are  *)
(* declared to make.                                                        *)
(*                                                                          *)
(* A cover is a function from the three kinds of legs to the quantity that  *)
(* classify() sums for that kind.                                           *)
(***************************************************************************)
EXTENDS Integers

Shapes == {"NAKED", "TP_ONLY", "SL_ONLY", "PAIR",
           "OCO", "OCO_TP", "OCO_SL", "OCO_TP_SL"}

\* The discrete shape over the presence of (oco, plain tp, plain sl).
Shape(c) ==
    LET tp == c["tp"] > 0
        sl == c["sl"] > 0
    IN  IF c["oco"] > 0
          THEN IF tp THEN IF sl THEN "OCO_TP_SL" ELSE "OCO_TP"
                     ELSE IF sl THEN "OCO_SL" ELSE "OCO"
          ELSE IF tp THEN IF sl THEN "PAIR" ELSE "TP_ONLY"
                     ELSE IF sl THEN "SL_ONLY" ELSE "NAKED"

\* get_open_orders lists both member orders of an OCO and both carry its
\* quantity, so the sum over OCO legs is twice the quantity the list locks.
ListedCover(locked) == [locked EXCEPT !["oco"] = 2 * @]

TpCovered(c) == c["oco"] + c["tp"]
SlCovered(c) == c["oco"] + c["sl"]

\* Mutant of Protected: the single-axis check the code had before WO-017-4a.
UpsideOnly(c, qty) == 2 * TpCovered(c) >= qty

\* Half of the holding on the upside, anything at all on the downside.
Protected(c, qty) == 2 * TpCovered(c) >= qty /\ SlCovered(c) > 0

LegalTerminalShapes == {"PAIR"}

KnownProductShapes == {"SL_ONLY", "TP_ONLY", "PAIR", "OCO", "OCO_TP", "OCO_TP_SL"}

\* The declared edges, <<action, from, to>>.
Transitions ==
    {<<"emergency_sl", "NAKED", "SL_ONLY">>,
     <<"free_slice_tp", "NAKED", "TP_ONLY">>,
     <<"free_slice_tp", "SL_ONLY", "PAIR">>,
     <<"free_slice_tp", "TP_ONLY", "TP_ONLY">>,
     <<"free_slice_tp", "OCO", "OCO_TP">>,
     <<"free_slice_tp", "OCO_SL", "OCO_TP_SL">>,
     <<"free_slice_tp", "OCO_TP", "OCO_TP">>,
     <<"free_slice_tp", "OCO_TP_SL", "OCO_TP_SL">>,
     <<"tp_oco_rebuild", "TP_ONLY", "OCO">>,
     <<"sl_demote", "TP_ONLY", "PAIR">>,
     <<"sl_rescue_failed", "TP_ONLY", "TP_ONLY">>,
     <<"oco_swap", "SL_ONLY", "OCO">>,
     <<"oco_swap_failed_sl_restored", "SL_ONLY", "SL_ONLY">>}

\* Fail-open edges put the old orders back.
FailOpen == {"sl_rescue_failed", "oco_swap_failed_sl_restored"}

\* I1: no action departs from an unconditional terminal shape.
TerminalHasNoEdge == \A t \in Transitions : t[2] \notin LegalTerminalShapes

\* I2: every product is a known product shape.
ProductsKnown == \A t \in Transitions : t[3] \in KnownProductShapes

\* I3: no two different actions undo each other; a fail-open edge is a loop.
NoTwoStepCycle ==
    /\ \A t \in Transitions : t[1] \in FailOpen => t[3] = t[2]
    /\ \A a, b \in Transitions :
          (/\ {a[1], b[1]} \cap FailOpen = {}
           /\ a[1] # b[1]
           /\ a[3] = b[2]) => b[3] # a[2]
=============================================================================
