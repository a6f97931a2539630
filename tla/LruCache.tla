------------------------------ MODULE LruCache ------------------------------
(***************************************************************************)
(* What a set-associative cache with LRU replacement answers, without a    *)
(* cache: an access hits exactly when its line was used before and fewer   *)
(* than Associativity other lines of its row have been used since.  This   *)
(* is what README.md:222 promises of the simulated cache that filters the  *)
(* accesses of a thread.                                                   *)
(***************************************************************************)
EXTENDS Naturals, FiniteSets

CONSTANTS Line, Associativity, SameRow(_, _)

VARIABLES
    used,  \* the lines used so far
    since, \* for each line, the lines of its row used since its last use
    hit    \* the answer to the last access

Init ==
    /\ used = {}
    /\ since = [l \in Line |-> {}]
    /\ hit = FALSE

Near(l) == l \in used /\ Cardinality(since[l]) < Associativity

(* The history of uses after a use of l.                                   *)
Use(l) ==
    /\ used' = used \cup {l}
    /\ since' = [k \in Line |->
                    IF k = l THEN {}
                    ELSE IF k \in used /\ SameRow(k, l) THEN since[k] \cup {l}
                    ELSE since[k]]

Access(l) ==
    /\ hit' = Near(l)
    /\ Use(l)

Next == \E l \in Line : Access(l)

Spec == Init /\ [][Next]_<<used, since, hit>>

=============================================================================
