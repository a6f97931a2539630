------------------------------ MODULE PageMap ------------------------------
(***************************************************************************)
(* What the directories of the shadow page table promise to the threads    *)
(* that look up pages: one page per address, the same one for every thread *)
(* and for ever.  No level, lock or NULL pointer is in it.                 *)
(***************************************************************************)
CONSTANTS
    Thread,
    Address,  \* the page addresses of the program
    Page,     \* the pages of the table
    None      \* no address, no page

VARIABLES
    pageOf,   \* the page of each address that has one
    want,     \* the address each thread looks up, or looked up last
    got       \* the page the lookup returned, None while it runs

Injective(f) == \A a, b \in DOMAIN f : f[a] = f[b] => a = b

Init ==
    /\ pageOf = [a \in {} |-> None]
    /\ want = [t \in Thread |-> None]
    /\ got = [t \in Thread |-> None]

Ask(t) ==
    /\ want[t] # None => got[t] # None
    /\ \E a \in Address : want' = [want EXCEPT ![t] = a]
    /\ got' = [got EXCEPT ![t] = None]
    /\ UNCHANGED pageOf

(* Addresses get pages, each its own; none loses or changes its page.      *)
Grow ==
    /\ pageOf' # pageOf
    /\ DOMAIN pageOf' \subseteq Address
    /\ pageOf' \in [DOMAIN pageOf' -> Page]
    /\ \A a \in DOMAIN pageOf : a \in DOMAIN pageOf' /\ pageOf'[a] = pageOf[a]
    /\ Injective(pageOf')
    /\ UNCHANGED <<want, got>>

Answer(t) ==
    /\ want[t] \in DOMAIN pageOf
    /\ got[t] = None
    /\ got' = [got EXCEPT ![t] = pageOf[want[t]]]
    /\ UNCHANGED <<pageOf, want>>

Next == (\E t \in Thread : Ask(t) \/ Answer(t)) \/ Grow

Spec == Init /\ [][Next]_<<pageOf, want, got>>

=============================================================================
