---------------------------- MODULE MCFillBooks -----------------------------
(* Instance of FillBooks for TLC: two exit legs whose sizes differ by 5%. *)
EXTENDS FillBooks

MCLegs == <<20, 21>>
MCStops == {2}
=============================================================================
