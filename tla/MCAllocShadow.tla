---------------------------- MODULE MCAllocShadow ----------------------------
(* Instance of AllocShadow for TLC: three pages of two grains.             *)
EXTENDS AllocShadow, TLC

CONSTANTS t1, t2, m1, m2, m3

(* A block in page 0 with, beside it, one that starts there, covers page 1 *)
(* and ends in page 2, where a small block is beside it; one that starts   *)
(* in page 1 and ends in page 2 on the grains of the former.               *)
MCBlock == {[start |-> 0, size |-> 1, nr |-> 1], [start |-> 1, size |-> 4, nr |-> 1],
            [start |-> 2, size |-> 3, nr |-> 1], [start |-> 5, size |-> 1, nr |-> 1]}

Symmetry == Permutations({t1, t2}) \cup Permutations({m1, m2, m3})

=============================================================================
