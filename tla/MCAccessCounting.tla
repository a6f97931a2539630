-------------------------- MODULE MCAccessCounting --------------------------
(* Instance of AccessCounting for TLC.                                     *)
EXTENDS ProfileCut, TLC

CONSTANTS t1, t2, ip1, ip2, x1, x2, x3, a1, m1

(* First touches of two pages at once and accesses to one, in every mixture. *)
MCClasses == [Access -> {[kind |-> "firstTouch", touchedPages |-> 2],
                         [kind |-> "localAccess", touchedPages |-> 1]}]

(* The default 0.5 percent, a third, which no float holds, and half.       *)
MCCutoffs == {<<1, 2>>, <<100, 3>>, <<50, 1>>}

Symmetry == Permutations({x1, x2, x3}) \cup Permutations({t1, t2})
            \cup Permutations({ip1, ip2})

=============================================================================
