-------------------------- MODULE MCThreadBinding --------------------------
(* Instances of ThreadBinding for TLC: two nodes of two CPUs each, numbered *)
(* in turn as firmware does, and an MCDRAM node next to the first.          *)
EXTENDS ThreadBinding

CONSTANTS t1, t2, t3

MCnumaMap == [c \in 0 .. 3 |-> c % 2]

MCisMcdram == {2}

MCdistance == [n \in 0 .. 2 |-> [m \in 0 .. 2 |->
    IF n = m THEN 0 ELSE IF {n, m} = {0, 2} THEN 1 ELSE 2]]

MCMask == {{0, 2}, {1}, {0, 1}}

MCStartMask == {{0, 2}}

MCPolicy == {[mode |-> "interleave", nodes |-> {0, 1}]}

MCPage == {[node |-> 0, pinned |-> TRUE, first |-> FALSE],
           [node |-> 0, pinned |-> FALSE, first |-> FALSE],
           [node |-> 2, pinned |-> TRUE, first |-> FALSE],
           [node |-> 0, pinned |-> TRUE, first |-> TRUE]}

=============================================================================
