----------------------------- MODULE AgeScaling -----------------------------
(***************************************************************************)
(* CpuSimpleFlatCache::scaleDownAges as it is written: the ages are        *)
(* copied and sorted, then each in turn is looked for in the row, which is *)
(* rewritten meanwhile, and the first entry that has it gets the index.    *)
(* CpuFlatCache says what this computes when the ages are distinct.        *)
(***************************************************************************)
EXTENDS CpuFlatCache, FiniteSetsExt, Functions

(* std::sort of the copy: the ages of the entries taken in ascending order. *)
Sorted(ages) ==
    LET order == CHOOSE p \in Bijection(1..Associativity, Way) :
                     \A i, j \in 1..Associativity : i < j => ages[p[i]] <= ages[p[j]]
    IN  [n \in 1..Associativity |-> ages[order[n]]]

(* The inner loop: the first entry of age oldAge gets newAge.              *)
Renumber(ages, oldAge, newAge) ==
    LET found == {way \in Way : ages[way] = oldAge}
    IN  IF found = {} THEN ages
                      ELSE [ages EXCEPT ![Min(found)] = newAge]

(* The row after n turns of the outer loop; the turn n finds the n-th of   *)
(* the ages oldAges and makes it n - 1.                                    *)
Renumbered(ages, oldAges) ==
    LET turn[n \in 0..Associativity] ==
            IF n = 0 THEN ages ELSE Renumber(turn[n - 1], oldAges[n], n - 1)
    IN  turn[Associativity]

(* Mutant: the ages are used in the order of the ways.                     *)
scaleDownAgesUnsorted(ages) ==
    Renumbered(ages, [i \in 1..Associativity |-> ages[i - 1]])

scaleDownAgesLoop(ages) == Renumbered(ages, Sorted(ages))

(* The loop, which rewrites the row it searches, gives every entry of a    *)
(* row its rank: no entry is renumbered twice, and none is forgotten.      *)
LoopComputesRanks ==
    \A row \in Row :
        scaleDownAgesLoop(tagLineAge[row]) = scaleDownAges(tagLineAge[row])

=============================================================================
