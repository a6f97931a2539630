-------------------------- MODULE StaticAssoCache --------------------------
(***************************************************************************)
(* common/StaticAssoCache: the set associative cache with round robin      *)
(* replacement that a thread keeps in front of the page table (its TLB).   *)
(* A cache is a record of its lines, by row and way, and of the way each   *)
(* row replaces next.                                                      *)
(***************************************************************************)
EXTENDS Naturals

CONSTANTS
    ways,
    rows,
    NULL     \* no value; also the address of an empty line

Way == 0 .. ways - 1
Row == 0 .. rows - 1

flush ==
    [line |-> [r \in Row |-> [w \in Way |-> [addr |-> NULL, content |-> NULL]]],
     next |-> [r \in Row |-> 0]]

(* The value cached for addr, NULL when there is none.                     *)
get(cache, addr) ==
    LET line == cache.line[addr % rows]
        hits == {w \in Way : line[w].addr = addr}
    IN  IF hits = {} THEN NULL
        ELSE line[CHOOSE w \in hits : \A v \in hits : w <= v].content

set(cache, addr, value) ==
    LET r == addr % rows
        w == cache.next[r]
    IN  [line |-> [cache.line EXCEPT ![r][w] = [addr |-> addr, content |-> value]],
         next |-> [cache.next EXCEPT ![r] = (w + 1) % ways]]

=============================================================================
