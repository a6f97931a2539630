--------------------------- MODULE MCCpuFlatCache ---------------------------
(* Two rows: four lines compete for the three entries of row 1, and line 2 *)
(* has row 0 for itself.                                                   *)
EXTENDS AgeScaling

MCLine == {1, 2, 3, 5, 7}

=============================================================================
