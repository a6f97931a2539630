----------------------------- MODULE MCPageNuma -----------------------------
(* Instance of PageNuma for TLC.                                           *)
EXTENDS PageNuma, TLC

CONSTANTS t1, t2, n1, n2

Symmetry == Permutations({t1, t2}) \cup Permutations({n1, n2})

=============================================================================
