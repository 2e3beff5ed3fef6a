---------------------------- MODULE MCEntryGate ----------------------------
(* A day of two slots, local midnight between two UTC midnights, and an      *)
(* account that loses 1.5, 2.5 and 3.5 percent of its largest value.         *)
EXTENDS EntryGate

MCEquities == {1000, 985, 975, 965}
=============================================================================
