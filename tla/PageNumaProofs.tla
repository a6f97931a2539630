--------------------------- MODULE PageNumaProofs ---------------------------
(***************************************************************************)
(* Proofs about PageNuma, for every number of threads, nodes, pages and    *)
(* pages in a huge page.  Whatever the program does: the types, and that   *)
(* calls in flight and accesses keep out of each other's pages.  For a     *)
(* program that does not mbind what it has touched and does not unmap a    *)
(* part of a huge page while the rest is accessed (the runs' BindTouched   *)
(* and UnmapAnytime are FALSE): the table has the kernel's nodes, and the  *)
(* counters cover the pages and do not wrap.                               *)
(***************************************************************************)
EXTENDS PageNuma, FiniteSetTheorems, TLAPS

-----------------------------------------------------------------------------
(* The invariant.                                                          *)

Busy == {"uncount", "clear", "remap"}

(* The kernel has a page on a node only while the program has the page.    *)
HomeIsMapped == \A p \in Page : home[p] # NoNode => p \in mapped

(* The calls in flight keep out of each other's ranges; a range that is    *)
(* moved is disjoint from the new one, or begins with it.                  *)
RangesApart ==
    /\ \A t \in Thread :
          /\ pc[t] \notin Busy => old[t] = NoRange
          /\ pc[t] \in Busy => old[t] \in Ranges /\ Pages(old[t]) \cap mapped \subseteq Pages(new[t])
          /\ pc[t] # "remap" => new[t] = NoRange
          /\ pc[t] = "remap" =>
                /\ new[t] \in Ranges /\ Pages(new[t]) \subseteq mapped
                /\ old[t].lo = new[t].lo \/ Pages(old[t]) \cap Pages(new[t]) = {}
    /\ \A t, u \in Thread : t # u =>
          (Pages(old[t]) \cup Pages(new[t])) \cap (Pages(old[u]) \cup Pages(new[u])) = {}

Fresh(t) == pageNode[t] = NoNode /\ touched[t] = 1

(* Outside of an access its locals are as at its start.                    *)
FreshLocals == \A t \in Thread : ~ Accessing(t) => Fresh(t)

(* A page that is accessed stays, and from the touch on it has a node.     *)
Settled(t) ==
    /\ at[t] \in mapped /\ at[t] \notin Leaving \cup Arriving
    /\ pc[t] \notin {"query", "touch"} => home[at[t]] # NoNode
    /\ pc[t] \in {"query", "touch", "canBeHuge", "plain", "status"} => Fresh(t)
    /\ pc[t] \in {"setHuge", "setNode", "add", "check", "store"} => pageNode[t] \in Node
    /\ pc[t] \in {"status", "setHuge"} => Whole(at[t])
    /\ pc[t] = "setHuge" => touched[t] = HugeSize
    /\ pc[t] = "store" => res[t] > 0

AccessSettled == \A t \in Thread : Accessing(t) => Settled(t)

Base == TypeOK /\ HomeIsMapped /\ RangesApart /\ FreshLocals /\ AccessSettled

(* The pages whose node a first touch sets, and will count.                *)
Claim(t) == IF touched[t] = 1 /\ pc[t] # "setHuge" THEN {at[t]} ELSE HugePage(at[t])

(* The node a first touch has found is that of all the pages it sets.      *)
NodeFound ==
    \A t \in Thread : pc[t] \in {"setHuge", "setNode", "add"} =>
        /\ touched[t] # 1 => Whole(at[t])
        /\ \A p \in Claim(t) : home[p] = pageNode[t]

(* What mremap moves has the node the kernel has it on at its new place.   *)
NodeMoves ==
    \A t \in Thread : pc[t] = "remap" =>
        /\ \A p \in Moved(old[t], new[t]) :
              LET node == numaNode[p - new[t].lo + old[t].lo]
              IN  node # NoNode => node = home[p]
        /\ \A p \in Pages(new[t]) \ Moved(old[t], new[t]) :
              numaNode[p] # NoNode => numaNode[p] = home[p]

(* The recorded pages that no first touch is about to count are counted.   *)
Claimed(n) == UNION {Claim(t) : t \in Adders(n)}

Unclaimed(n) == Recorded(Page \ Uncounted, n) \ Claimed(n)

CountsUnclaimed == \A n \in Node : Cardinality(Unclaimed(n)) <= current[n]

IInv == Base /\ NodeIsKernels /\ NodeFound /\ NodeMoves /\ CountsUnclaimed

-----------------------------------------------------------------------------
(* Pages and ranges.                                                       *)

(* Pages are finitely many naturals; a page is in its huge page; a range   *)
(* of the program is made of pages.                                        *)
LEMMA PageFacts ==
    /\ Page \subseteq Nat /\ IsFiniteSet(Page) /\ 0 \in Page
    /\ \A p \in Page : p \in HugePage(p) /\ HugePage(p) \subseteq Page
    /\ \A p \in Page : \A q \in HugePage(p) : HugePage(q) = HugePage(p)
    /\ \A r \in Ranges : Pages(r) \subseteq Page /\ r.lo \in Page /\ r.hi \in Page
    /\ Pages(NoRange) = {}
<1>1. PageCnt \in Nat \ {0}
  BY NumaAssumption
<1>2. IsFiniteSet(Page)
  BY <1>1, FS_Interval DEF Page
<1>3. Page \subseteq Nat /\ 0 \in Page
  BY <1>1 DEF Page
<1>4. /\ \A p \in Page : p \in HugePage(p) /\ HugePage(p) \subseteq Page
      /\ \A p \in Page : \A q \in HugePage(p) : HugePage(q) = HugePage(p)
  BY DEF HugePage
<1>5. \A r \in Ranges : Pages(r) \subseteq Page /\ r.lo \in Page /\ r.hi \in Page
  BY <1>1 DEF Ranges, Pages, Page
<1>6. Pages(NoRange) = {}
  BY DEF Pages, NoRange
<1> QED
  BY <1>2, <1>3, <1>4, <1>5, <1>6

(* Only the calls in flight have ranges.                                   *)
LEMMA OldPages ==
    ASSUME RangesApart, NEW t \in Thread
    PROVE  /\ Pages(old[t]) \subseteq Page /\ Pages(new[t]) \subseteq Page
           /\ pc[t] \notin Busy => Pages(old[t]) = {}
           /\ pc[t] # "remap" => Pages(new[t]) = {}
           /\ Pages(new[t]) \subseteq mapped
BY PageFacts DEF RangesApart, Busy

(* A page of the program is leaving only when mremap leaves it in place.   *)
LEMMA LeavingIsArriving ==
    ASSUME RangesApart, NEW p \in mapped, p \in Leaving
    PROVE  p \in Arriving
<1>1. PICK t \in Thread : p \in Pages(old[t])
  BY DEF Leaving
<1>2. p \in Pages(new[t])
  BY <1>1, OldPages DEF RangesApart, Busy
<1> QED
  BY <1>2 DEF Arriving

-----------------------------------------------------------------------------
(* The part of the invariant that holds whatever the program does.         *)

(* What mremap leaves of a table, and where.                               *)
LEMMA RemappedTyped ==
    ASSUME NEW S, NEW none \in S, NEW values \in [Page -> S],
           NEW from \in Ranges, NEW to \in Ranges
    PROVE  Remapped(values, from, to, none) \in [Page -> S]
<1>1. ASSUME NEW p \in Moved(from, to)
      PROVE  p - to.lo + from.lo \in Page
  <2>0. to.lo \in Int /\ to.hi \in Int /\ from.lo \in Nat /\ from.hi \in Page /\ from.hi \in Int
    <3>1. {to.lo, to.hi, from.lo, from.hi} \subseteq Page
      BY PageFacts
    <3>2. \A q \in Page : q \in Nat /\ q \in Int
      BY PageFacts
    <3> QED
      BY <3>1, <3>2
  <2>1. p \in Int /\ to.lo <= p /\ p - to.lo + from.lo <= from.hi
    BY <2>0 DEF Moved, Pages
  <2>2. \A n \in Int : n <= from.hi /\ 0 <= n => n \in Page
    BY NumaAssumption, PageFacts DEF Page
  <2> QED
    BY <2>0, <2>1, <2>2
<1>2. \A p \in Page : (IF p \in Moved(from, to) THEN values[p - to.lo + from.lo]
                       ELSE IF p \in Pages(from) THEN none ELSE values[p]) \in S
  BY <1>1
<1> QED
  BY <1>2 DEF Remapped

(* The touch of a page that is accessed.                                   *)
LEMMA TouchPlaces ==
    ASSUME home \in [Page -> Node \cup {NoNode}], NEW p \in mapped, mapped \subseteq Page,
           Placed(p, home')
    PROVE  /\ home' \in [Page -> Node \cup {NoNode}]
           /\ home'[p] # NoNode
           /\ \A q \in Page : home[q] # NoNode => home'[q] = home[q]
           /\ \A q \in Page : home'[q] # NoNode => home[q] # NoNode \/ q \in mapped
<1>1. CASE home[p] # NoNode
  BY <1>1 DEF Placed
<1>2. CASE home[p] = NoNode
  <2>1. PICK n \in Node :
             \/ home' = [home EXCEPT ![p] = n]
             \/ /\ Whole(p)
                /\ \A q \in HugePage(p) : q \in mapped /\ home[q] = NoNode
                /\ home' = [q \in Page |-> IF q \in HugePage(p) THEN n ELSE home[q]]
    BY <1>2 DEF Placed
  <2>2. n # NoNode
    BY NumaAssumption
  <2>3. p \in HugePage(p)
    BY PageFacts
  <2> QED
    BY <1>2, <2>1, <2>2, <2>3
<1> QED
  BY <1>1, <1>2

(* The locals of an access that ends.                                      *)
LEMMA LeaveTyped ==
    ASSUME TypeOK, NEW t \in Thread, Leave(t)
    PROVE  /\ pc' \in [Thread -> AccessLabel \cup {"idle", "uncount", "clear", "remap"}]
           /\ at' \in [Thread -> Page]
           /\ write' \in [Thread -> BOOLEAN]
           /\ pageNode' \in [Thread -> Node \cup {NoNode}]
           /\ touched' \in [Thread -> {1, HugeSize}]
           /\ res' \in [Thread -> Int]
<1>1. 0 \in Page
  BY PageFacts
<1> QED
  BY <1>1 DEF TypeOK, Leave, Goto

(* Every step keeps the types; an addition finds a node, and a stored      *)
(* maximum is positive, because of what is known of an access.             *)
LEMMA TypeKept == Base /\ [Next]_vars => TypeOK'
<1> SUFFICES ASSUME Base, [Next]_vars PROVE TypeOK'
  OBVIOUS
<1> USE DEF kernelVars, tableVars, countVars, localVars, callVars, Goto
<1>0. TypeOK /\ RangesApart /\ AccessSettled /\ 0 \in Page /\ mapped \subseteq Page
  BY PageFacts DEF Base, TypeOK
<1>1. CASE UNCHANGED vars
  BY <1>0, <1>1 DEF TypeOK, vars
<1>2. ASSUME NEW p \in Page, kernelTouch(p)
      PROVE  TypeOK'
  BY <1>0, <1>2 DEF TypeOK, kernelTouch
<1>3. ASSUME NEW r \in Ranges, onMbind(r)
      PROVE  TypeOK'
  <2>1. home' \in [Page -> Node \cup {NoNode}]
    BY <1>0, <1>3 DEF TypeOK, onMbind
  <2> QED
    BY <1>0, <1>3, <2>1 DEF TypeOK, onMbind
<1>4. ASSUME NEW r \in Ranges, NEW file \in File \cup {NoFile}, onMmap(r, file)
      PROVE  TypeOK'
  BY <1>0, <1>4, PageFacts DEF TypeOK, onMmap
<1>5. ASSUME NEW t \in Thread, NEW r \in Ranges, munmap(t, r)
      PROVE  TypeOK'
  BY <1>0, <1>5 DEF TypeOK, munmap
<1>6. ASSUME NEW t \in Thread, NEW from \in Ranges, NEW to \in Ranges, mremap(t, from, to)
      PROVE  TypeOK'
  <2>1. home' \in [Page -> Node \cup {NoNode}]
    BY <1>0, <1>6, RemappedTyped DEF TypeOK, mremap
  <2>2. mapped' \in SUBSET Page
    BY <1>0, <1>6, PageFacts DEF mremap
  <2> QED
    BY <1>0, <1>6, <2>1, <2>2 DEF TypeOK, mremap
<1>7. ASSUME NEW t \in Thread, onMunmap(t)
      PROVE  TypeOK'
  <2>1. \A n \in Node : Cardinality(Recorded(Pages(old[t]), n)) \in Nat
    <3> TAKE n \in Node
    <3>1. Recorded(Pages(old[t]), n) \in SUBSET Page
      BY <1>0, OldPages DEF Recorded
    <3> QED
      BY <3>1, PageFacts, FS_Subset, FS_CardinalityType
  <2>2. current' \in [Node -> Int]
    BY <1>0, <1>7, <2>1 DEF TypeOK, onMunmap
  <2> QED
    BY <1>0, <1>7, <2>2 DEF TypeOK, onMunmap
<1>8. ASSUME NEW t \in Thread, clear(t)
      PROVE  TypeOK'
  BY <1>0, <1>8 DEF TypeOK, clear
<1>9. ASSUME NEW t \in Thread, onMremap(t)
      PROVE  TypeOK'
  <2>1. old[t] \in Ranges /\ new[t] \in Ranges
    BY <1>0, <1>9 DEF RangesApart, onMremap, Busy
  <2>2. /\ numaNode' \in [Page -> Node \cup {NoNode}]
        /\ fd' \in [Page -> File \cup {NoFile}]
    BY <1>0, <1>9, <2>1, RemappedTyped DEF TypeOK, onMremap
  <2> QED
    BY <1>0, <1>9, <2>2 DEF TypeOK, onMremap
<1>10. ASSUME NEW t \in Thread, NEW p \in Page, NEW w \in BOOLEAN, onAccess(t, p, w)
      PROVE  TypeOK'
  BY <1>0, <1>10 DEF TypeOK, onAccess, AccessLabel
<1>11. ASSUME NEW t \in Thread, queryPresent(t)
      PROVE  TypeOK'
  BY <1>0, <1>11 DEF TypeOK, queryPresent, AccessLabel
<1>12. ASSUME NEW t \in Thread, queryAbsent(t)
      PROVE  TypeOK'
  <2>1. CASE write[t]
    BY <1>0, <1>12, <2>1 DEF TypeOK, queryAbsent, AccessLabel
  <2>2. CASE ~ (write[t])
    <3>1. Leave(t)
      BY <1>12, <2>2 DEF queryAbsent
    <3> QED
      BY <1>0, <1>12, <3>1, LeaveTyped DEF TypeOK, queryAbsent
  <2> QED
    BY <2>1, <2>2
<1>13. ASSUME NEW t \in Thread, touch(t)
      PROVE  TypeOK'
  <2>1. at[t] \in mapped
    BY <1>0, <1>13 DEF AccessSettled, Settled, touch, Accessing, AccessLabel
  <2>2. home' \in [Page -> Node \cup {NoNode}]
    BY <1>0, <1>13, <2>1, TouchPlaces DEF TypeOK, touch
  <2> QED
    BY <1>0, <1>13, <2>2 DEF TypeOK, touch, AccessLabel
<1>14. ASSUME NEW t \in Thread, canBeHugePage(t)
      PROVE  TypeOK'
  BY <1>0, <1>14 DEF TypeOK, canBeHugePage, AccessLabel
<1>15. ASSUME NEW t \in Thread, touchedPlain(t)
      PROVE  TypeOK'
  BY <1>0, <1>15, LeaveTyped DEF TypeOK, touchedPlain
<1>16. ASSUME NEW t \in Thread, getNumaOfHugePage(t)
      PROVE  TypeOK'
  BY <1>0, <1>16 DEF TypeOK, getNumaOfHugePage, AccessLabel
<1>17. ASSUME NEW t \in Thread, setHugePageFromPinnedThread(t) \/ setNode(t)
      PROVE  TypeOK'
  BY <1>0, <1>17 DEF TypeOK, setHugePageFromPinnedThread, setNode, AccessLabel
<1>18. ASSUME NEW t \in Thread, onAfterFirstTouch(t)
      PROVE  TypeOK'
  <2>1. pageNode[t] \in Node
    BY <1>0, <1>18 DEF AccessSettled, Settled, onAfterFirstTouch, Accessing, AccessLabel
  <2>2. touched[t] \in Int
    BY <1>0, NumaAssumption DEF TypeOK
  <2>3. current' \in [Node -> Int] /\ current'[pageNode[t]] \in Int
    BY <1>0, <1>18, <2>1, <2>2 DEF TypeOK, onAfterFirstTouch
  <2> QED
    BY <1>0, <1>18, <2>3 DEF TypeOK, onAfterFirstTouch, AccessLabel
<1>19. ASSUME NEW t \in Thread, checkMax(t)
      PROVE  TypeOK'
  <2>1. CASE res[t] > max[pageNode[t]]
    BY <1>0, <1>19, <2>1 DEF TypeOK, checkMax, AccessLabel
  <2>2. CASE ~ (res[t] > max[pageNode[t]])
    <3>1. Leave(t)
      BY <1>19, <2>2 DEF checkMax
    <3> QED
      BY <1>0, <1>19, <3>1, LeaveTyped DEF TypeOK, checkMax
  <2> QED
    BY <2>1, <2>2
<1>20. ASSUME NEW t \in Thread, storeMax(t)
      PROVE  TypeOK'
  <2>1. res[t] \in Nat
    BY <1>0, <1>20 DEF AccessSettled, Settled, TypeOK, storeMax, Accessing, AccessLabel
  <2> QED
    BY <1>0, <1>20, <2>1, LeaveTyped DEF TypeOK, storeMax
<1> QED
  BY <1>1, <1>2, <1>3, <1>4, <1>5, <1>6, <1>7, <1>8, <1>9, <1>10, <1>11, <1>12, <1>13,
     <1>14, <1>15, <1>16, <1>17, <1>18, <1>19, <1>20 DEF Next

(* The steps of an access, which leave the ranges and mapped alone.        *)
AccessStep(t) ==
    \/ \E p \in Page, w \in BOOLEAN : onAccess(t, p, w)
    \/ queryPresent(t) \/ queryAbsent(t) \/ touch(t) \/ canBeHugePage(t)
    \/ touchedPlain(t) \/ getNumaOfHugePage(t)
    \/ setHugePageFromPinnedThread(t) \/ setNode(t)
    \/ onAfterFirstTouch(t) \/ checkMax(t) \/ storeMax(t)

(* A step of an access changes no range and no mapping, of the kernel at   *)
(* most the home of what it touches, and nothing of another thread.        *)
LEMMA AccessStepFrame ==
    ASSUME TypeOK, NEW t \in Thread, AccessStep(t)
    PROVE  /\ UNCHANGED <<mapped, old, new>>
           /\ home' = home \/ touch(t)
           /\ pc[t] \notin Busy /\ pc'[t] \in AccessLabel \cup {"idle"}
           /\ \A u \in Thread \ {t} :
                 /\ pc'[u] = pc[u] /\ at'[u] = at[u] /\ pageNode'[u] = pageNode[u]
                 /\ touched'[u] = touched[u] /\ res'[u] = res[u] /\ write'[u] = write[u]
<1> USE DEF kernelVars, tableVars, countVars, localVars, callVars, Goto
<1>1. UNCHANGED <<mapped, old, new>> /\ (home' = home \/ touch(t))
  BY DEF AccessStep, onAccess, queryPresent, queryAbsent, touch, canBeHugePage, touchedPlain,
     getNumaOfHugePage, setHugePageFromPinnedThread, setNode, onAfterFirstTouch, checkMax,
     storeMax
<1>2. pc[t] \notin Busy /\ pc'[t] \in AccessLabel \cup {"idle"}
  BY DEF TypeOK, AccessStep, onAccess, queryPresent, queryAbsent, touch, canBeHugePage,
     touchedPlain, getNumaOfHugePage, setHugePageFromPinnedThread, setNode,
     onAfterFirstTouch, checkMax, storeMax, Leave, AccessLabel, Busy, Idle
<1>3. \A u \in Thread \ {t} :
                 /\ pc'[u] = pc[u] /\ at'[u] = at[u] /\ pageNode'[u] = pageNode[u]
                 /\ touched'[u] = touched[u] /\ res'[u] = res[u] /\ write'[u] = write[u]
  BY DEF TypeOK, AccessStep, onAccess, queryPresent, queryAbsent, touch, canBeHugePage,
     touchedPlain, getNumaOfHugePage, setHugePageFromPinnedThread, setNode,
     onAfterFirstTouch, checkMax, storeMax, Leave
<1> QED
  BY <1>1, <1>2, <1>3

(* The kernel keeps a node for mapped pages only.                          *)
LEMMA HomeKept == Base /\ [Next]_vars => HomeIsMapped'
<1> SUFFICES ASSUME Base, [Next]_vars PROVE HomeIsMapped'
  OBVIOUS
<1> USE DEF kernelVars, tableVars, countVars, localVars, callVars, Goto
<1>0. TypeOK /\ HomeIsMapped /\ RangesApart /\ AccessSettled
  BY DEF Base
<1>1. CASE UNCHANGED vars
  BY <1>0, <1>1 DEF HomeIsMapped, vars
<1>2. ASSUME NEW p \in Page, kernelTouch(p)
      PROVE  HomeIsMapped'
  BY <1>0, <1>2 DEF HomeIsMapped, TypeOK, kernelTouch
<1>3. ASSUME NEW r \in Ranges, onMbind(r)
      PROVE  HomeIsMapped'
  BY <1>0, <1>3 DEF HomeIsMapped, onMbind
<1>4. ASSUME NEW r \in Ranges, NEW file \in File \cup {NoFile}, onMmap(r, file)
      PROVE  HomeIsMapped'
  BY <1>0, <1>4 DEF HomeIsMapped, onMmap
<1>5. ASSUME NEW t \in Thread, NEW r \in Ranges, munmap(t, r)
      PROVE  HomeIsMapped'
  BY <1>0, <1>5 DEF HomeIsMapped, munmap
<1>6. ASSUME NEW t \in Thread, NEW from \in Ranges, NEW to \in Ranges, mremap(t, from, to)
      PROVE  HomeIsMapped'
  <2>1. mapped' = (mapped \ Pages(from)) \cup Pages(to) /\ home' = Remapped(home, from, to, NoNode)
    BY <1>6 DEF mremap
  <2>2. Moved(from, to) \subseteq Pages(to)
    BY DEF Moved
  <2> QED
    BY <1>0, <2>1, <2>2 DEF HomeIsMapped, Remapped
<1>7. ASSUME NEW t \in Thread, onMunmap(t) \/ clear(t) \/ onMremap(t)
      PROVE  HomeIsMapped'
  BY <1>0, <1>7 DEF HomeIsMapped, onMunmap, clear, onMremap
<1>8. ASSUME NEW t \in Thread, AccessStep(t)
      PROVE  HomeIsMapped'
  <2>1. CASE touch(t)
    <3>1. at[t] \in mapped /\ mapped \subseteq Page /\ Placed(at[t], home') /\ mapped' = mapped
      BY <1>0, <2>1 DEF AccessSettled, Settled, touch, Accessing, AccessLabel, TypeOK
    <3> QED
      BY <1>0, <3>1, TouchPlaces DEF HomeIsMapped, TypeOK
  <2>2. CASE ~ touch(t)
    BY <1>0, <1>8, <2>2, AccessStepFrame DEF HomeIsMapped
  <2> QED
    BY <2>1, <2>2
<1> QED
  BY <1>1, <1>2, <1>3, <1>4, <1>5, <1>6, <1>7, <1>8 DEF Next, AccessStep

(* What MayMove and Free say of the ranges in flight.                      *)
LEMMA FreeRange ==
    ASSUME NEW r \in Ranges, Free(r), NEW t \in Thread
    PROVE  Pages(r) \cap (mapped \cup Pages(old[t]) \cup Pages(new[t])) = {}
BY DEF Free, Leaving, Arriving

(* What is unmapped or moved is mapped, and in no other call's ranges.     *)
LEMMA MovableRange ==
    ASSUME NEW r \in Ranges, MayMove(r)
    PROVE  /\ Pages(r) \subseteq mapped
           /\ \A t \in Thread : Pages(r) \cap (Pages(old[t]) \cup Pages(new[t])) = {}
BY DEF MayMove, Leaving, Arriving

(* A call takes its ranges where no other call has any, and gives them up  *)
(* at its end.                                                             *)
LEMMA RangesKept == Base /\ [Next]_vars => RangesApart'
<1> SUFFICES ASSUME Base, [Next]_vars PROVE RangesApart'
  OBVIOUS
<1> USE DEF kernelVars, tableVars, countVars, localVars, callVars, Goto
<1>0. TypeOK /\ RangesApart
  BY DEF Base
<1>1. CASE UNCHANGED vars
  BY <1>0, <1>1 DEF RangesApart, vars
<1>2. ASSUME (\E p \in Page : kernelTouch(p)) \/ (\E r \in Ranges : onMbind(r))
             \/ (\E t \in Thread : onMunmap(t))
      PROVE  RangesApart'
  <2>1. /\ UNCHANGED <<mapped, old, new>>
        /\ \A t \in Thread : /\ pc'[t] \in Busy <=> pc[t] \in Busy
                             /\ pc'[t] = "remap" <=> pc[t] = "remap"
    BY <1>0, <1>2 DEF TypeOK, kernelTouch, onMbind, onMunmap, Busy
  <2> QED
    BY <1>0, <2>1 DEF RangesApart
<1>3. ASSUME NEW r \in Ranges, NEW file \in File \cup {NoFile}, onMmap(r, file)
      PROVE  RangesApart'
  <2>1. /\ mapped' = mapped \cup Pages(r) /\ UNCHANGED <<old, new, pc>> /\ Free(r)
    BY <1>3 DEF onMmap
  <2> QED
    BY <1>0, <2>1, FreeRange DEF RangesApart
<1>4. ASSUME NEW t \in Thread, NEW r \in Ranges, munmap(t, r)
      PROVE  RangesApart'
  <2>1. /\ mapped' = mapped \ Pages(r) /\ old' = [old EXCEPT ![t] = r] /\ new' = new
        /\ pc' = [pc EXCEPT ![t] = "uncount"] /\ pc[t] = "idle" /\ MayMove(r)
    BY <1>4 DEF munmap, Idle
  <2>2. old'[t] = r /\ \A u \in Thread \ {t} : old'[u] = old[u]
    BY <1>0, <2>1 DEF TypeOK
  <2>3. pc'[t] = "uncount" /\ \A u \in Thread \ {t} : pc'[u] = pc[u]
    BY <1>0, <2>1 DEF TypeOK
  <2>4. \A u \in Thread : Pages(new[u]) \subseteq mapped'
    BY <1>0, <2>1, OldPages, MovableRange
  <2>5. ASSUME NEW u \in Thread
        PROVE  /\ pc'[u] \notin Busy => old'[u] = NoRange
               /\ pc'[u] \in Busy =>
                     old'[u] \in Ranges /\ Pages(old'[u]) \cap mapped' \subseteq Pages(new'[u])
               /\ pc'[u] # "remap" => new'[u] = NoRange
               /\ pc'[u] = "remap" =>
                     /\ new'[u] \in Ranges /\ Pages(new'[u]) \subseteq mapped'
                     /\ old'[u].lo = new'[u].lo \/ Pages(old'[u]) \cap Pages(new'[u]) = {}
    <3>1. CASE u = t
      BY <1>0, <2>1, <2>2, <2>3, <3>1 DEF RangesApart, Busy
    <3>2. CASE u # t
      BY <1>0, <2>1, <2>2, <2>3, <2>4, <3>2 DEF RangesApart
    <3> QED
      BY <3>1, <3>2
  <2>6. Pages(new[t]) = {} /\ new' = new
    BY <1>0, <2>1, OldPages
  <2>7. ASSUME NEW u \in Thread, NEW v \in Thread, u # v
        PROVE  (Pages(old'[u]) \cup Pages(new'[u]))
                   \cap (Pages(old'[v]) \cup Pages(new'[v])) = {}
    <3>1. CASE u = t
      BY <2>1, <2>2, <2>6, <2>7, <3>1, MovableRange
    <3>2. CASE v = t
      BY <2>1, <2>2, <2>6, <2>7, <3>2, MovableRange
    <3>3. CASE u # t /\ v # t
      BY <1>0, <2>1, <2>2, <2>7, <3>3 DEF RangesApart
    <3> QED
      BY <3>1, <3>2, <3>3
  <2> QED
    BY <2>5, <2>7 DEF RangesApart, Pages
<1>5. ASSUME NEW t \in Thread, NEW from \in Ranges, NEW to \in Ranges, mremap(t, from, to)
      PROVE  RangesApart'
  <2>1. /\ mapped' = (mapped \ Pages(from)) \cup Pages(to)
        /\ old' = [old EXCEPT ![t] = from] /\ new' = [new EXCEPT ![t] = to]
        /\ pc' = [pc EXCEPT ![t] = "remap"] /\ pc[t] = "idle" /\ MayMove(from)
        /\ \/ Free(to)
           \/ to.lo = from.lo /\ Pages(to) \cap (mapped \cup Arriving \cup Leaving)
                                 \subseteq Pages(from)
    BY <1>5 DEF mremap, Idle
  <2>2. /\ old'[t] = from /\ new'[t] = to /\ pc'[t] = "remap"
        /\ \A u \in Thread \ {t} : old'[u] = old[u] /\ new'[u] = new[u] /\ pc'[u] = pc[u]
    BY <1>0, <2>1 DEF TypeOK
  <2>3. \A u \in Thread : Pages(to) \cap (Pages(old[u]) \cup Pages(new[u])) = {}
    <3>1. CASE Free(to)
      BY <3>1, FreeRange
    <3>2. CASE Pages(to) \cap (mapped \cup Arriving \cup Leaving) \subseteq Pages(from)
      BY <2>1, <3>2, MovableRange DEF Arriving, Leaving
    <3> QED
      BY <2>1, <3>1, <3>2
  <2>4. from.lo = to.lo \/ Pages(from) \cap Pages(to) = {}
    <3>1. CASE Free(to)
      BY <2>1, <3>1, MovableRange DEF Free
    <3> QED
      BY <2>1, <3>1
  <2>5. \A u \in Thread : Pages(new[u]) \subseteq mapped'
    BY <1>0, <2>1, OldPages, MovableRange
  <2>6. \A u \in Thread \ {t} : pc[u] \in Busy => Pages(old[u]) \cap mapped' \subseteq Pages(new[u])
    BY <1>0, <2>1, <2>3 DEF RangesApart
  <2>7. Pages(from) \cap mapped' \subseteq Pages(to)
    BY <2>1
  <2>8. \A u \in Thread \ {t} :
            /\ (Pages(from) \cup Pages(to)) \cap (Pages(old[u]) \cup Pages(new[u])) = {}
            /\ (Pages(old[u]) \cup Pages(new[u])) \cap (Pages(from) \cup Pages(to)) = {}
    BY <2>1, <2>3, MovableRange
  <2>9. ASSUME NEW u \in Thread
        PROVE  /\ pc'[u] \notin Busy => old'[u] = NoRange
               /\ pc'[u] \in Busy =>
                     old'[u] \in Ranges /\ Pages(old'[u]) \cap mapped' \subseteq Pages(new'[u])
               /\ pc'[u] # "remap" => new'[u] = NoRange
               /\ pc'[u] = "remap" =>
                     /\ new'[u] \in Ranges /\ Pages(new'[u]) \subseteq mapped'
                     /\ old'[u].lo = new'[u].lo \/ Pages(old'[u]) \cap Pages(new'[u]) = {}
    <3>1. CASE u = t
      BY <2>1, <2>2, <2>4, <2>7, <3>1 DEF Busy
    <3>2. CASE u # t
      BY <1>0, <2>2, <2>5, <2>6, <3>2 DEF RangesApart
    <3> QED
      BY <3>1, <3>2
  <2>10. ASSUME NEW u \in Thread, NEW v \in Thread, u # v
         PROVE  (Pages(old'[u]) \cup Pages(new'[u]))
                    \cap (Pages(old'[v]) \cup Pages(new'[v])) = {}
    <3>1. CASE u = t
      BY <2>2, <2>8, <2>10, <3>1
    <3>2. CASE v = t
      BY <2>2, <2>8, <2>10, <3>2
    <3>3. CASE u # t /\ v # t
      BY <1>0, <2>2, <2>10, <3>3 DEF RangesApart
    <3> QED
      BY <3>1, <3>2, <3>3
  <2> QED
    BY <2>9, <2>10 DEF RangesApart, Pages
<1>6. ASSUME NEW t \in Thread, clear(t) \/ onMremap(t)
      PROVE  RangesApart'
  <2>1. /\ mapped' = mapped /\ pc' = [pc EXCEPT ![t] = "idle"]
        /\ old' = [old EXCEPT ![t] = NoRange]
        /\ new' = [new EXCEPT ![t] = NoRange]
    <3>1. CASE clear(t)
      <4>1. new[t] = NoRange
        BY <1>0, <3>1 DEF RangesApart, clear
      <4> QED
        BY <1>0, <3>1, <4>1 DEF clear, TypeOK
    <3>2. CASE onMremap(t)
      BY <3>2 DEF onMremap
    <3> QED
      BY <1>6, <3>1, <3>2
  <2>2. /\ old'[t] = NoRange /\ new'[t] = NoRange /\ pc'[t] = "idle"
        /\ \A u \in Thread \ {t} : old'[u] = old[u] /\ new'[u] = new[u] /\ pc'[u] = pc[u]
    BY <1>0, <2>1 DEF TypeOK
  <2>3. Pages(old'[t]) = {} /\ Pages(new'[t]) = {}
    BY <2>2, PageFacts
  <2>4. ASSUME NEW u \in Thread
        PROVE  /\ pc'[u] \notin Busy => old'[u] = NoRange
               /\ pc'[u] \in Busy =>
                     old'[u] \in Ranges /\ Pages(old'[u]) \cap mapped' \subseteq Pages(new'[u])
               /\ pc'[u] # "remap" => new'[u] = NoRange
               /\ pc'[u] = "remap" =>
                     /\ new'[u] \in Ranges /\ Pages(new'[u]) \subseteq mapped'
                     /\ old'[u].lo = new'[u].lo \/ Pages(old'[u]) \cap Pages(new'[u]) = {}
    <3>1. CASE u = t
      BY <2>2, <3>1 DEF Busy
    <3>2. CASE u # t
      BY <1>0, <2>1, <2>2, <3>2 DEF RangesApart
    <3> QED
      BY <3>1, <3>2
  <2>5. ASSUME NEW u \in Thread, NEW v \in Thread, u # v
        PROVE  (Pages(old'[u]) \cup Pages(new'[u]))
                   \cap (Pages(old'[v]) \cup Pages(new'[v])) = {}
    <3>1. CASE u = t \/ v = t
      BY <2>3, <3>1
    <3>2. CASE u # t /\ v # t
      BY <1>0, <2>2, <2>5, <3>2 DEF RangesApart
    <3> QED
      BY <3>1, <3>2
  <2> QED
    BY <2>4, <2>5 DEF RangesApart, Pages
<1>7. ASSUME NEW t \in Thread, AccessStep(t)
      PROVE  RangesApart'
  <2>1. /\ UNCHANGED <<mapped, old, new>>
        /\ \A u \in Thread : /\ pc'[u] \in Busy <=> pc[u] \in Busy
                             /\ pc'[u] = "remap" <=> pc[u] = "remap"
    BY <1>0, <1>7, AccessStepFrame DEF Busy, AccessLabel
  <2> QED
    BY <1>0, <2>1 DEF RangesApart
<1> QED
  BY <1>1, <1>2, <1>3, <1>4, <1>5, <1>6, <1>7 DEF Next, AccessStep

(* An access that ends, in any of its ways, leaves no node and no size of  *)
(* a huge page to the next one.                                            *)
LEMMA FreshKept == Base /\ [Next]_vars => FreshLocals'
<1> SUFFICES ASSUME Base, [Next]_vars, NEW u \in Thread, ~ (Accessing(u))' PROVE Fresh(u)'
  BY DEF FreshLocals
<1> USE DEF kernelVars, tableVars, countVars, localVars, callVars, Goto, Fresh
<1>0. TypeOK /\ FreshLocals /\ AccessSettled
  BY DEF Base
<1>1. ASSUME pageNode'[u] = pageNode[u], touched'[u] = touched[u],
             ~ Accessing(u) \/ pc[u] \in {"query", "touch", "canBeHuge", "plain", "status"}
      PROVE  Fresh(u)'
  BY <1>0, <1>1 DEF FreshLocals, AccessSettled, Settled
<1>2. CASE UNCHANGED vars
  BY <1>1, <1>2 DEF vars, Accessing
<1>3. ASSUME NEW t \in Thread, AccessStep(t)
      PROVE  Fresh(u)'
  <2>1. CASE u # t
    BY <1>0, <1>1, <1>3, <2>1, AccessStepFrame DEF Accessing
  <2>2. CASE u = t
    <3>1. pc'[t] = "idle"
      BY <1>0, <1>3, <2>2, AccessStepFrame DEF Accessing
    <3>2. Leave(t)
      BY <1>0, <1>3, <3>1 DEF AccessStep, onAccess, queryPresent, queryAbsent, touch,
         canBeHugePage, touchedPlain, getNumaOfHugePage, setHugePageFromPinnedThread, setNode,
         onAfterFirstTouch, checkMax, storeMax, TypeOK
    <3> QED
      BY <1>0, <2>2, <3>2 DEF Leave, TypeOK
  <2> QED
    BY <2>1, <2>2
<1>4. CASE \/ \E p \in Page : kernelTouch(p)
           \/ \E r \in Ranges : onMbind(r)
           \/ \E r \in Ranges, file \in File \cup {NoFile} : onMmap(r, file)
  BY <1>1, <1>4 DEF kernelTouch, onMbind, onMmap, Accessing
<1>5. ASSUME NEW t \in Thread,
             \/ \E r \in Ranges : munmap(t, r)
             \/ \E from, to \in Ranges : mremap(t, from, to)
             \/ onMunmap(t) \/ clear(t) \/ onMremap(t)
      PROVE  Fresh(u)'
  <2>1. /\ UNCHANGED localVars /\ ~ Accessing(t) /\ \A v \in Thread \ {t} : pc'[v] = pc[v]
    BY <1>0, <1>5 DEF munmap, mremap, onMunmap, clear, onMremap, Accessing, AccessLabel, Idle,
       TypeOK
  <2> QED
    BY <1>1, <2>1 DEF Accessing
<1> QED
  BY <1>2, <1>3, <1>4, <1>5 DEF Next, AccessStep

(* The page of an access is neither leaving nor arriving.                  *)
LEMMA SettledKept == Base /\ [Next]_vars => AccessSettled'
<1> SUFFICES ASSUME Base, [Next]_vars, NEW u \in Thread, (Accessing(u))' PROVE Settled(u)'
  BY DEF AccessSettled
<1> USE DEF Fresh
<1> USE DEF kernelVars, tableVars, countVars, localVars, callVars, Goto
<1>0. TypeOK /\ HomeIsMapped /\ RangesApart /\ FreshLocals /\ AccessSettled /\ mapped \subseteq Page
  BY DEF Base, TypeOK
<1>a. Accessing(u) => at[u] \in mapped /\ at[u] \notin Leaving \cup Arriving /\ at[u] \in HugePage(at[u])
  BY <1>0, PageFacts DEF AccessSettled, Settled
<1>b. ASSUME /\ Accessing(u) /\ pc'[u] = pc[u] /\ at'[u] = at[u] /\ pageNode'[u] = pageNode[u]
             /\ touched'[u] = touched[u] /\ res'[u] = res[u]
             /\ at[u] \in mapped' /\ at[u] \notin Leaving' \cup Arriving'
             /\ home[at[u]] # NoNode => home'[at[u]] # NoNode
      PROVE  Settled(u)'
  <2>1. Settled(u)
    BY <1>0, <1>b DEF AccessSettled
  <2>2. Whole(at[u])' <=> Whole(at[u])
    BY <1>b DEF Whole, HugePage, Page
  <2> QED
    BY <1>b, <2>1, <2>2 DEF Settled
<1>1. CASE UNCHANGED vars
  BY <1>0, <1>1, <1>a, <1>b DEF vars, Accessing, Leaving, Arriving
<1>2. ASSUME NEW p \in Page, kernelTouch(p)
      PROVE  Settled(u)'
  <2>1. PICK n \in Node : home' = [home EXCEPT ![p] = n]
    BY <1>2 DEF kernelTouch
  <2>2. n # NoNode
    BY NumaAssumption
  <2> QED
    BY <1>0, <1>2, <1>a, <1>b, <2>1, <2>2 DEF kernelTouch, TypeOK, Accessing, Leaving, Arriving
<1>3. ASSUME NEW r \in Ranges, onMbind(r)
      PROVE  Settled(u)'
  <2>1. home[at[u]] # NoNode => home'[at[u]] # NoNode
    <3>1. PICK n \in Node : home' \in
             {home, [p \in Page |-> IF p \in Pages(r) /\ home[p] # NoNode THEN n ELSE home[p]]}
      BY <1>3 DEF onMbind
    <3>2. n # NoNode
      BY NumaAssumption
    <3> QED
      BY <1>0, <3>1, <3>2 DEF TypeOK
  <2> QED
    BY <1>0, <1>3, <1>a, <1>b, <2>1 DEF onMbind, Accessing, Leaving, Arriving
<1>4. ASSUME NEW r \in Ranges, NEW file \in File \cup {NoFile}, onMmap(r, file)
      PROVE  Settled(u)'
  BY <1>0, <1>4, <1>a, <1>b DEF onMmap, Accessing, Leaving, Arriving
<1>c. ASSUME NEW t \in Thread, NEW r \in Ranges, MayMove(r), Accessing(u)
      PROVE  at[u] \notin Pages(r)
  BY <1>a, <1>c DEF MayMove
<1>5. ASSUME NEW t \in Thread, NEW r \in Ranges, munmap(t, r)
      PROVE  Settled(u)'
  <2>1. u # t /\ Accessing(u) /\ pc'[u] = pc[u]
    BY <1>0, <1>5 DEF munmap, TypeOK, Accessing, AccessLabel
  <2>2. at[u] \notin Pages(r)
    BY <1>5, <1>c, <2>1 DEF munmap
  <2>3. old'[t] = r /\ (\A v \in Thread \ {t} : old'[v] = old[v]) /\ new' = new
    BY <1>0, <1>5 DEF munmap, TypeOK
  <2>4. at[u] \notin Leaving' \cup Arriving'
    BY <1>a, <2>1, <2>2, <2>3 DEF Leaving, Arriving
  <2>5. at[u] \in mapped' /\ home'[at[u]] = home[at[u]]
    BY <1>0, <1>5, <1>a, <2>1, <2>2 DEF munmap
  <2> QED
    BY <1>5, <1>b, <2>1, <2>4, <2>5 DEF munmap
<1>6. ASSUME NEW t \in Thread, NEW from \in Ranges, NEW to \in Ranges, mremap(t, from, to)
      PROVE  Settled(u)'
  <2>1. u # t /\ Accessing(u) /\ pc'[u] = pc[u]
    BY <1>0, <1>6 DEF mremap, TypeOK, Accessing, AccessLabel
  <2>2. at[u] \notin Pages(from)
    BY <1>6, <1>c, <2>1 DEF mremap
  <2>3. at[u] \notin Pages(to)
    BY <1>6, <1>a, <2>1, <2>2 DEF mremap, Free
  <2>4. /\ old'[t] = from /\ new'[t] = to
        /\ \A v \in Thread \ {t} : old'[v] = old[v] /\ new'[v] = new[v]
    BY <1>0, <1>6 DEF mremap, TypeOK
  <2>5. at[u] \notin Leaving' \cup Arriving'
    BY <1>a, <2>1, <2>2, <2>3, <2>4 DEF Leaving, Arriving
  <2>6. at[u] \in mapped' /\ home'[at[u]] = home[at[u]]
    BY <1>0, <1>6, <1>a, <2>1, <2>2, <2>3 DEF mremap, Remapped, Moved
  <2> QED
    BY <1>6, <1>b, <2>1, <2>5, <2>6 DEF mremap
<1>7. ASSUME NEW t \in Thread, onMunmap(t)
      PROVE  Settled(u)'
  <2>1. u # t /\ Accessing(u) /\ pc'[u] = pc[u]
    BY <1>0, <1>7 DEF onMunmap, TypeOK, Accessing, AccessLabel
  <2> QED
    BY <1>0, <1>7, <1>a, <1>b, <2>1 DEF onMunmap, Leaving, Arriving
<1>8. ASSUME NEW t \in Thread, clear(t) \/ onMremap(t)
      PROVE  Settled(u)'
  <2>1. u # t /\ Accessing(u) /\ pc'[u] = pc[u]
    BY <1>0, <1>8 DEF clear, onMremap, TypeOK, Accessing, AccessLabel
  <2>2. \A v \in Thread : Pages(old'[v]) \subseteq Pages(old[v]) /\ Pages(new'[v]) \subseteq Pages(new[v])
    <3>1. TAKE v \in Thread
    <3>2. CASE v = t
      BY <1>0, <1>8, <3>2, PageFacts DEF clear, onMremap, TypeOK
    <3>3. CASE v # t
      BY <1>0, <1>8, <3>3, PageFacts DEF clear, onMremap, TypeOK
    <3> QED
      BY <3>2, <3>3
  <2>3. at[u] \notin Leaving' \cup Arriving'
    BY <1>a, <2>1, <2>2 DEF Leaving, Arriving
  <2> QED
    BY <1>0, <1>8, <1>a, <1>b, <2>1, <2>3 DEF clear, onMremap
<1>9. ASSUME NEW t \in Thread, AccessStep(t)
      PROVE  Settled(u)'
  <2>0. /\ UNCHANGED <<mapped, old, new>>
        /\ Leaving' = Leaving /\ Arriving' = Arriving
    BY <1>0, <1>9, AccessStepFrame DEF Leaving, Arriving
  <2>h. ASSUME NEW q \in Page, home[q] # NoNode
        PROVE  home'[q] # NoNode
    <3>1. CASE touch(t)
      <4>1. at[t] \in mapped /\ mapped \subseteq Page /\ Placed(at[t], home')
        BY <1>0, <3>1 DEF AccessSettled, Settled, touch, Accessing, AccessLabel, TypeOK
      <4> QED
        BY <1>0, <2>h, <4>1, TouchPlaces DEF TypeOK
    <3>2. CASE ~ touch(t)
      BY <1>0, <1>9, <2>h, <3>2, AccessStepFrame
    <3> QED
      BY <3>1, <3>2
  <2>1. CASE u # t
    <3>1. Accessing(u) /\ at[u] \in Page
      BY <1>0, <1>9, <2>1, AccessStepFrame DEF Accessing, TypeOK
    <3> QED
      BY <1>0, <1>9, <1>a, <1>b, <2>0, <2>1, <2>h, <3>1, AccessStepFrame
  <2>2. CASE u = t
    <3>0. TypeOK /\ at[t] \in Page /\ (Accessing(t) => Settled(t)) /\ pc'[t] # "idle"
      BY <1>0, <2>2 DEF AccessSettled, TypeOK, Accessing, AccessLabel
    <3>1. ASSUME NEW p \in Page, NEW w \in BOOLEAN, onAccess(t, p, w)
          PROVE  Settled(t)'
      <4>1. /\ pc'[t] = "query" /\ at'[t] = p /\ p \in mapped /\ p \notin Arriving
            /\ pageNode'[t] = pageNode[t] /\ touched'[t] = touched[t] /\ pc[t] = "idle"
        BY <3>0, <3>1 DEF onAccess, TypeOK, Idle
      <4>2. Fresh(t)
        BY <1>0, <4>1 DEF FreshLocals, Accessing, AccessLabel
      <4>3. p \notin Leaving
        BY <1>0, <4>1, LeavingIsArriving
      <4> QED
        BY <2>0, <4>1, <4>2, <4>3 DEF Settled
    <3>2. CASE queryPresent(t)
      <4>1. /\ pc'[t] = "setNode" /\ at'[t] = at[t] /\ pageNode'[t] = home[at[t]]
            /\ home[at[t]] # NoNode /\ home' = home /\ Settled(t)
        BY <3>0, <3>2 DEF queryPresent, TypeOK, Accessing, AccessLabel
      <4>2. home[at[t]] \in Node
        BY <3>0, <4>1 DEF TypeOK
      <4> QED
        BY <2>0, <2>2, <4>1, <4>2 DEF Settled
    <3>3. CASE queryAbsent(t)
      <4>1. write[t]
        BY <3>0, <3>3 DEF queryAbsent, Leave, TypeOK
      <4>2. pc'[t] = "touch" /\ UNCHANGED localVars /\ pc[t] = "query" /\ Settled(t)
        BY <3>0, <3>3, <4>1 DEF queryAbsent, TypeOK, Accessing, AccessLabel
      <4> QED
        BY <2>0, <2>2, <4>2 DEF Settled
    <3>4. CASE touch(t)
      <4>1. /\ pc'[t] = "canBeHuge" /\ UNCHANGED localVars /\ pc[t] = "touch" /\ Settled(t)
            /\ Placed(at[t], home') /\ mapped \subseteq Page
        BY <1>0, <3>0, <3>4 DEF touch, TypeOK, Accessing, AccessLabel
      <4>2. home'[at[t]] # NoNode
        BY <3>0, <4>1, TouchPlaces DEF Settled, TypeOK
      <4> QED
        BY <2>0, <2>2, <4>1, <4>2 DEF Settled
    <3>5. CASE canBeHugePage(t)
      <4>1. /\ UNCHANGED localVars /\ home' = home /\ pc[t] = "canBeHuge" /\ Settled(t)
        BY <3>0, <3>5 DEF canBeHugePage, TypeOK, Accessing, AccessLabel
      <4>2. Whole(at[t])' <=> Whole(at[t])
        BY <4>1 DEF Whole, HugePage, Page
      <4>3. pc'[t] = "plain" \/ (pc'[t] = "status" /\ Whole(at[t]))
        <5> DEFINE canBe == /\ Whole(at[t])
                            /\ fd[at[t]] # NoFile
                            /\ \A q \in HugePage(at[t]) : fd[q] = fd[at[t]]
        <5>1. \/ canBe /\ pc' = [pc EXCEPT ![t] = "status"]
              \/ pc' = [pc EXCEPT ![t] = "plain"]
          BY <3>5 DEF canBeHugePage
        <5>2. canBe => Whole(at[t])
          OBVIOUS
        <5> HIDE DEF canBe
        <5> QED
          BY <3>0, <5>1, <5>2 DEF TypeOK
      <4> QED
        BY <2>0, <2>2, <4>1, <4>2, <4>3 DEF Settled
    <3>6. CASE getNumaOfHugePage(t)
      <4>1. /\ at'[t] = at[t] /\ home' = home /\ pc[t] = "status" /\ Settled(t)
            /\ pageNode'[t] = home[at[t]]
        BY <3>0, <3>6 DEF getNumaOfHugePage, TypeOK, Accessing, AccessLabel
      <4>4. pc'[t] = "setNode" \/ (pc'[t] = "setHuge" /\ touched'[t] = HugeSize)
        <5>1. \/ pc' = [pc EXCEPT ![t] = "setNode"]
              \/ /\ pc' = [pc EXCEPT ![t] = "setHuge"]
                 /\ touched' = [touched EXCEPT ![t] = HugeSize]
          BY <3>6 DEF getNumaOfHugePage
        <5> QED
          BY <3>0, <5>1 DEF TypeOK
      <4>2. home[at[t]] \in Node
        BY <3>0, <4>1 DEF TypeOK, Settled
      <4>3. Whole(at[t])' <=> Whole(at[t])
        BY <4>1 DEF Whole, HugePage, Page
      <4> QED
        BY <2>0, <2>2, <4>1, <4>2, <4>3, <4>4 DEF Settled
    <3>7. CASE setHugePageFromPinnedThread(t) \/ setNode(t)
      <4>1. /\ UNCHANGED localVars /\ home' = home /\ pc[t] \in {"setHuge", "setNode"} /\ Settled(t)
            /\ pc'[t] \in {"setNode", "add"}
        BY <3>0, <3>7 DEF setHugePageFromPinnedThread, setNode, TypeOK, Accessing, AccessLabel
      <4> QED
        BY <2>0, <2>2, <4>1 DEF Settled
    <3>8. CASE onAfterFirstTouch(t)
      <4>1. /\ at' = at /\ pageNode' = pageNode /\ home' = home /\ pc[t] = "add" /\ Settled(t)
            /\ pc'[t] = "check"
        BY <3>0, <3>8 DEF onAfterFirstTouch, TypeOK, Accessing, AccessLabel
      <4> QED
        BY <2>0, <2>2, <4>1 DEF Settled
    <3>9. CASE checkMax(t)
      <4>1. res[t] > max[pageNode[t]]
        BY <3>0, <3>9 DEF checkMax, Leave, TypeOK
      <4>2. /\ UNCHANGED localVars /\ home' = home /\ pc[t] = "check" /\ Settled(t)
            /\ pc'[t] = "store"
        BY <3>0, <3>9, <4>1 DEF checkMax, TypeOK, Accessing, AccessLabel
      <4>3. max[pageNode[t]] \in Nat /\ res[t] \in Int
        BY <3>0, <4>2 DEF Settled, TypeOK
      <4>4. res[t] > 0
        BY <4>1, <4>3
      <4> QED
        BY <2>0, <2>2, <4>2, <4>4 DEF Settled
    <3>10. CASE touchedPlain(t) \/ storeMax(t)
      BY <3>0, <3>10 DEF touchedPlain, storeMax, Leave, TypeOK
    <3> QED
      BY <1>9, <2>2, <3>1, <3>2, <3>3, <3>4, <3>5, <3>6, <3>7, <3>8, <3>9, <3>10 DEF AccessStep
  <2> QED
    BY <2>1, <2>2
<1> QED
  BY <1>1, <1>2, <1>3, <1>4, <1>5, <1>6, <1>7, <1>8, <1>9 DEF Next, AccessStep

(* A program that has mapped nothing.                                      *)
LEMMA BaseStarts == Init => Base
<1> SUFFICES ASSUME Init PROVE Base
  OBVIOUS
<1>1. 0 \in Page /\ NoRange.lo = 1
  BY PageFacts DEF NoRange
<1>2. TypeOK
  BY <1>1 DEF Init, TypeOK, AccessLabel
<1>3. HomeIsMapped /\ FreshLocals /\ AccessSettled
  BY DEF Init, HomeIsMapped, FreshLocals, Fresh, AccessSettled, Accessing, AccessLabel
<1>4. RangesApart
  BY PageFacts DEF Init, RangesApart, Busy
<1> QED
  BY <1>2, <1>3, <1>4 DEF Base

(* For every program, also one that binds memory it has touched or unmaps  *)
(* a part of a huge page that is being accessed: the hooks of munmap and   *)
(* mremap in flight work on disjoint ranges, and the page of an access     *)
(* stays mapped and outside of them until its hook returns.                *)
THEOREM CallsKeepApart == Spec => []Base
<1>1. Base /\ [Next]_vars => Base'
  BY TypeKept, HomeKept, RangesKept, FreshKept, SettledKept DEF Base
<1> QED
  BY <1>1, BaseStarts, PTL DEF Spec

(* The variables have their types in every behaviour: onAfterFirstTouch    *)
(* never indexes the counters with the default node -2.                    *)
THEOREM TypeCorrect == Spec => []TypeOK
<1>1. Base => TypeOK
  BY DEF Base
<1> QED
  BY <1>1, CallsKeepApart, PTL

-----------------------------------------------------------------------------
(* What holds of a program that does not mbind what it has touched, and    *)
(* does not unmap a part of a huge page while the rest is accessed.        *)

(* The pages that a first touch is about to set are there, on its node.    *)
LEMMA ClaimIsThere ==
    ASSUME Base, NodeFound, NEW t \in Thread, pc[t] \in {"setHuge", "setNode", "add"}
    PROVE  /\ pageNode[t] \in Node /\ at[t] \in Page /\ at[t] \in Claim(t)
           /\ Claim(t) \subseteq HugePage(at[t])
           /\ Claim(t) \subseteq mapped
           /\ \A p \in Claim(t) : p \in Page /\ home[p] = pageNode[t]
           /\ pc[t] = "setHuge" => Claim(t) = HugePage(at[t])
<1>1. TypeOK /\ AccessSettled /\ HomeIsMapped
  BY DEF Base
<1>2. pageNode[t] \in Node /\ at[t] \in Page
  BY <1>1 DEF TypeOK, AccessSettled, Settled, Accessing, AccessLabel
<1>3. at[t] \in HugePage(at[t]) /\ HugePage(at[t]) \subseteq Page
  BY <1>2, PageFacts
<1>4. /\ at[t] \in Claim(t) /\ Claim(t) \subseteq HugePage(at[t])
      /\ pc[t] = "setHuge" => Claim(t) = HugePage(at[t])
  BY <1>3 DEF Claim
<1>5. \A p \in Claim(t) : home[p] = pageNode[t]
  BY DEF NodeFound
<1>6. pageNode[t] # NoNode
  BY <1>2, NumaAssumption
<1> QED
  BY <1>1, <1>2, <1>3, <1>4, <1>5, <1>6 DEF HomeIsMapped

(* Where a moved page comes from.                                          *)
LEMMA MovedFrom ==
    ASSUME NEW from \in Ranges, NEW to \in Ranges, NEW p \in Moved(from, to)
    PROVE  /\ p \in Pages(to) /\ p - to.lo + from.lo \in Pages(from)
           /\ p \in Page /\ p - to.lo + from.lo \in Page
           /\ from.lo = to.lo => p - to.lo + from.lo = p
<1>1. {to.lo, to.hi, from.lo, from.hi} \subseteq Page /\ Pages(to) \subseteq Page
      /\ Pages(from) \subseteq Page
  BY PageFacts
<1>2. to.lo \in Nat /\ to.hi \in Nat /\ from.lo \in Nat /\ from.hi \in Nat
  BY <1>1, PageFacts
<1>3. p \in Pages(to) /\ p - to.lo + from.lo <= from.hi
  BY DEF Moved
<1>4. p \in Int /\ to.lo <= p
  BY <1>2, <1>3 DEF Pages
<1>5. p - to.lo + from.lo \in Pages(from)
  BY <1>2, <1>3, <1>4 DEF Pages
<1> QED
  BY <1>1, <1>2, <1>3, <1>4, <1>5

(* mbind of what has not been touched moves nothing.                       *)
LEMMA BindMovesNothing ==
    ASSUME ~ BindTouched, TypeOK, NEW r \in Ranges, onMbind(r)
    PROVE  /\ home' = home /\ UNCHANGED <<mapped, pc, localVars, old, new, countVars>>
           /\ \A p \in Page : IF p \in Pages(r) THEN numaNode'[p] = NoNode
                                                ELSE numaNode'[p] = numaNode[p]
           /\ Pages(r) \subseteq mapped \ Arriving
           /\ \A p \in Pages(r) : home[p] = NoNode
<1>1. \A p \in Pages(r) : home[p] = NoNode
  BY DEF onMbind
<1>2. PICK n \in Node : home' \in
             {home, [p \in Page |-> IF p \in Pages(r) /\ home[p] # NoNode THEN n ELSE home[p]]}
  BY DEF onMbind
<1>3. home' = home
  <2>1. CASE home' = [p \in Page |-> IF p \in Pages(r) /\ home[p] # NoNode THEN n ELSE home[p]]
    <3>1. \A p \in Page : home'[p] = home[p]
      BY <1>1, <2>1
    <3>2. home = [p \in Page |-> home[p]] /\ home' = [p \in Page |-> home'[p]]
      BY <2>1 DEF TypeOK
    <3> QED
      BY <3>1, <3>2
  <2> QED
    BY <1>2, <2>1
<1>4. numaNode' = [p \in Page |-> IF p \in Pages(r) THEN home'[p] ELSE numaNode[p]]
  BY DEF onMbind
<1>5. \A p \in Page : IF p \in Pages(r) THEN numaNode'[p] = NoNode
                                        ELSE numaNode'[p] = numaNode[p]
  BY <1>1, <1>3, <1>4
<1> QED
  BY <1>1, <1>3, <1>5 DEF onMbind, callVars

(* Of the steps of an access, only these write the table.                  *)
LEMMA AccessStepTable ==
    ASSUME Base, NodeFound, NEW t \in Thread, AccessStep(t)
    PROVE  /\ \A p \in Page : home[p] # NoNode => home'[p] = home[p]
           /\ \A p \in Page : numaNode'[p] \in {numaNode[p], NoNode, home[p]}
           /\ \/ numaNode' = numaNode
              \/ touchedPlain(t)
              \/ setHugePageFromPinnedThread(t) \/ setNode(t)
<1> USE DEF kernelVars, tableVars, countVars, localVars, callVars, Goto
<1>0. TypeOK /\ AccessSettled
  BY DEF Base
<1>1. \A p \in Page : home[p] # NoNode => home'[p] = home[p]
  <2>1. CASE touch(t)
    <3>1. at[t] \in mapped /\ mapped \subseteq Page /\ Placed(at[t], home')
      BY <1>0, <2>1 DEF AccessSettled, Settled, touch, Accessing, AccessLabel, TypeOK
    <3> QED
      BY <1>0, <3>1, TouchPlaces DEF TypeOK
  <2>2. CASE ~ touch(t)
    BY <1>0, <2>2, AccessStepFrame
  <2> QED
    BY <2>1, <2>2
<1>2. \/ numaNode' = numaNode
      \/ touchedPlain(t)
      \/ setHugePageFromPinnedThread(t) \/ setNode(t)
  BY DEF AccessStep, onAccess, queryPresent, queryAbsent, touch, canBeHugePage,
     getNumaOfHugePage, onAfterFirstTouch, checkMax, storeMax
<1>3. ASSUME NEW p \in Page PROVE numaNode'[p] \in {numaNode[p], NoNode, home[p]}
  <2>1. CASE touchedPlain(t)
    <3>1. pageNode[t] = NoNode /\ numaNode' = [numaNode EXCEPT ![at[t]] = pageNode[t]]
      BY <1>0, <2>1 DEF AccessSettled, Settled, touchedPlain, Accessing, AccessLabel, Fresh
    <3> QED
      BY <1>0, <3>1 DEF TypeOK
  <2>2. CASE setHugePageFromPinnedThread(t)
    <3>1. /\ pc[t] = "setHuge"
          /\ numaNode' = [q \in Page |-> IF q \in HugePage(at[t]) THEN pageNode[t]
                                                                  ELSE numaNode[q]]
      BY <2>2 DEF setHugePageFromPinnedThread
    <3>2. Claim(t) = HugePage(at[t]) /\ \A q \in Claim(t) : home[q] = pageNode[t]
      BY <3>1, ClaimIsThere
    <3> QED
      BY <3>1, <3>2
  <2>3. CASE setNode(t)
    <3>1. pc[t] = "setNode" /\ numaNode' = [numaNode EXCEPT ![at[t]] = pageNode[t]]
      BY <2>3 DEF setNode
    <3>2. home[at[t]] = pageNode[t]
      BY <3>1, ClaimIsThere
    <3> QED
      BY <1>0, <3>1, <3>2 DEF TypeOK
  <2> QED
    BY <1>2, <2>1, <2>2, <2>3
<1> QED
  BY <1>1, <1>2, <1>3

(* A step that writes the kernel's node into the table, or removes it.     *)
LEMMA TruthWritten ==
    ASSUME TypeOK, NodeIsKernels, Leaving' = Leaving, Arriving' = Arriving,
           \A p \in Page : home[p] # NoNode => home'[p] = home[p],
           \A p \in Page : numaNode'[p] \in {numaNode[p], NoNode, home[p]}
    PROVE  NodeIsKernels'
BY DEF NodeIsKernels, Page

(* A step writes the kernel's node of a page, removes the node, moves it   *)
(* with the page, or leaves it.                                            *)
LEMMA NodesKept ==
    ASSUME ~ BindTouched, ~ UnmapAnytime
    PROVE  Base /\ NodeIsKernels /\ NodeFound /\ NodeMoves /\ [Next]_vars => NodeIsKernels'
<1> SUFFICES ASSUME Base, NodeIsKernels, NodeFound, NodeMoves, [Next]_vars PROVE NodeIsKernels'
  OBVIOUS
<1> USE DEF kernelVars, tableVars, countVars, localVars, callVars, Goto
<1>0. TypeOK /\ RangesApart
  BY DEF Base
<1>1. CASE UNCHANGED vars
  BY <1>1 DEF vars, NodeIsKernels, Leaving, Arriving, Page
<1>2. ASSUME NEW p \in Page, kernelTouch(p)
      PROVE  NodeIsKernels'
  <2>1. \A q \in Page : home[q] # NoNode => home'[q] = home[q]
    BY <1>0, <1>2 DEF kernelTouch, TypeOK
  <2> QED
    BY <1>0, <1>2, <2>1, TruthWritten DEF kernelTouch, Leaving, Arriving
<1>3. ASSUME NEW r \in Ranges, onMbind(r)
      PROVE  NodeIsKernels'
  <2>1. \A p \in Page : numaNode'[p] \in {numaNode[p], NoNode, home[p]}
    BY <1>0, <1>3, BindMovesNothing
  <2> QED
    BY <1>0, <1>3, <2>1, BindMovesNothing, TruthWritten DEF Leaving, Arriving
<1>4. ASSUME NEW r \in Ranges, NEW file \in File \cup {NoFile}, onMmap(r, file)
      PROVE  NodeIsKernels'
  BY <1>0, <1>4, TruthWritten DEF onMmap, Leaving, Arriving
<1>5. ASSUME NEW t \in Thread, NEW r \in Ranges, munmap(t, r)
      PROVE  NodeIsKernels'
  <2>1. /\ old'[t] = r /\ (\A v \in Thread \ {t} : old'[v] = old[v]) /\ new' = new
        /\ pc[t] = "idle" /\ numaNode' = numaNode
        /\ \A p \in Page \ Pages(r) : home'[p] = home[p]
    BY <1>0, <1>5 DEF munmap, TypeOK, Idle
  <2>2. Pages(old[t]) = {}
    BY <1>0, <2>1, OldPages DEF Busy
  <2>3. Leaving \subseteq Leaving' /\ Pages(r) \subseteq Leaving' /\ Arriving' = Arriving
    BY <2>1, <2>2 DEF Leaving, Arriving
  <2> QED
    BY <2>1, <2>3 DEF NodeIsKernels, Page
<1>6. ASSUME NEW t \in Thread, NEW from \in Ranges, NEW to \in Ranges, mremap(t, from, to)
      PROVE  NodeIsKernels'
  <2>1. /\ old'[t] = from /\ new'[t] = to
        /\ \A v \in Thread \ {t} : old'[v] = old[v] /\ new'[v] = new[v]
        /\ pc[t] = "idle" /\ numaNode' = numaNode
        /\ home' = Remapped(home, from, to, NoNode)
    BY <1>0, <1>6 DEF mremap, TypeOK, Idle
  <2>2. Pages(old[t]) = {} /\ Pages(new[t]) = {}
    BY <1>0, <2>1, OldPages DEF Busy
  <2>3. /\ Leaving \subseteq Leaving' /\ Pages(from) \subseteq Leaving'
        /\ Arriving \subseteq Arriving' /\ Pages(to) \subseteq Arriving'
    BY <2>1, <2>2 DEF Leaving, Arriving
  <2>4. \A p \in Page \ (Pages(from) \cup Pages(to)) : home'[p] = home[p]
    BY <2>1 DEF Remapped, Moved
  <2> QED
    BY <2>1, <2>3, <2>4 DEF NodeIsKernels, Page
<1>7. ASSUME NEW t \in Thread, onMunmap(t)
      PROVE  NodeIsKernels'
  BY <1>0, <1>7, TruthWritten DEF onMunmap, Leaving, Arriving
<1>8. ASSUME NEW t \in Thread, clear(t)
      PROVE  NodeIsKernels'
  <2>1. /\ \A v \in Thread \ {t} : old'[v] = old[v]
        /\ new' = new /\ home' = home
        /\ \A p \in Page : IF p \in Pages(old[t]) THEN numaNode'[p] = NoNode
                                                  ELSE numaNode'[p] = numaNode[p]
    BY <1>0, <1>8 DEF clear, TypeOK
  <2>2. Leaving \subseteq Leaving' \cup Pages(old[t]) /\ Arriving' = Arriving
    BY <2>1 DEF Leaving, Arriving
  <2> QED
    BY <2>1, <2>2 DEF NodeIsKernels, Page
<1>9. ASSUME NEW t \in Thread, onMremap(t)
      PROVE  NodeIsKernels'
  <2>1. /\ \A v \in Thread \ {t} : old'[v] = old[v] /\ new'[v] = new[v]
        /\ home' = home /\ pc[t] = "remap"
        /\ numaNode' = Remapped(numaNode, old[t], new[t], NoNode)
    BY <1>0, <1>9 DEF onMremap, TypeOK
  <2>2. /\ Leaving \subseteq Leaving' \cup Pages(old[t])
        /\ Arriving \subseteq Arriving' \cup Pages(new[t])
    BY <2>1 DEF Leaving, Arriving
  <2>3. ASSUME NEW p \in Page, p \notin Leaving' \cup Arriving', numaNode'[p] # NoNode
        PROVE  numaNode'[p] = home'[p]
    <3>1. CASE p \in Moved(old[t], new[t])
      BY <2>1, <2>3, <3>1 DEF NodeMoves, Remapped
    <3>2. CASE p \notin Moved(old[t], new[t])
      <4>1. p \notin Pages(old[t]) /\ numaNode'[p] = numaNode[p]
        BY <2>1, <2>3, <3>2 DEF Remapped
      <4>2. CASE p \in Pages(new[t])
        BY <2>1, <2>3, <3>2, <4>1, <4>2 DEF NodeMoves
      <4>3. CASE p \notin Pages(new[t])
        BY <2>1, <2>2, <2>3, <4>1, <4>3 DEF NodeIsKernels
      <4> QED
        BY <4>2, <4>3
    <3> QED
      BY <3>1, <3>2
  <2> QED
    BY <2>3 DEF NodeIsKernels, Page
<1>10. ASSUME NEW t \in Thread, AccessStep(t)
      PROVE  NodeIsKernels'
  <2>1. Leaving' = Leaving /\ Arriving' = Arriving
    BY <1>0, <1>10, AccessStepFrame DEF Leaving, Arriving
  <2> QED
    BY <1>0, <1>10, <2>1, AccessStepTable, TruthWritten
<1> QED
  BY <1>1, <1>2, <1>3, <1>4, <1>5, <1>6, <1>7, <1>8, <1>9, <1>10 DEF Next, AccessStep

(* Where the step of another thread leaves the pages and the locals alone. *)
LEMMA FoundStays ==
    ASSUME Base, NodeFound, NEW u \in Thread, pc[u] \in {"setHuge", "setNode", "add"},
           pc'[u] = pc[u], at'[u] = at[u], pageNode'[u] = pageNode[u], touched'[u] = touched[u],
           \A p \in Claim(u) : home'[p] = home[p]
    PROVE  /\ touched'[u] # 1 => Whole(at'[u])
           /\ \A p \in Claim(u)' : home'[p] = pageNode'[u]
<1>1. Claim(u)' = Claim(u)
  BY DEF Claim, HugePage, Page
<1> QED
  BY <1>1 DEF NodeFound

(* Between the query of a node and the addition, the pages that it is for  *)
(* stay on it.                                                             *)
LEMMA FoundKept ==
    ASSUME ~ BindTouched, ~ UnmapAnytime
    PROVE  Base /\ NodeFound /\ [Next]_vars => NodeFound'
<1> SUFFICES ASSUME Base, NodeFound, [Next]_vars,
                    NEW u \in Thread, pc'[u] \in {"setHuge", "setNode", "add"}
             PROVE  /\ touched'[u] # 1 => Whole(at'[u])
                    /\ \A p \in Claim(u)' : home'[p] = pageNode'[u]
  BY DEF NodeFound, Whole, HugePage, Page
<1> DEFINE Goal == /\ touched'[u] # 1 => Whole(at'[u])
                   /\ \A p \in Claim(u)' : home'[p] = pageNode'[u]
<1> USE DEF kernelVars, tableVars, countVars, localVars, callVars, Goto
<1>0. TypeOK /\ RangesApart /\ AccessSettled /\ HomeIsMapped
  BY DEF Base
<1>a. ASSUME NEW p \in Claim(u), pc[u] \in {"setHuge", "setNode", "add"}
      PROVE  p \in Page /\ home[p] # NoNode /\ p \in mapped /\ p \in HugePage(at[u])
  BY <1>a, ClaimIsThere, NumaAssumption
<1>1. CASE UNCHANGED vars
  BY <1>1, FoundStays DEF vars
<1>2. ASSUME NEW p \in Page, kernelTouch(p)
      PROVE  Goal
  <2>1. pc[u] \in {"setHuge", "setNode", "add"}
    BY <1>2 DEF kernelTouch
  <2>2. \A q \in Claim(u) : home'[q] = home[q]
    BY <1>0, <1>2, <1>a, <2>1 DEF kernelTouch, TypeOK
  <2> QED
    BY <1>2, <2>1, <2>2, FoundStays DEF kernelTouch
<1>3. ASSUME NEW r \in Ranges, onMbind(r)
      PROVE  Goal
  BY <1>0, <1>3, BindMovesNothing, FoundStays
<1>4. ASSUME NEW r \in Ranges, NEW file \in File \cup {NoFile}, onMmap(r, file)
      PROVE  Goal
  BY <1>4, FoundStays DEF onMmap
<1>5. ASSUME NEW t \in Thread, NEW r \in Ranges, munmap(t, r)
      PROVE  Goal
  <2>1. u # t /\ pc'[u] = pc[u] /\ Accessing(u)
    BY <1>0, <1>5 DEF munmap, TypeOK, Accessing, AccessLabel
  <2>2. Pages(r) \cap HugePage(at[u]) = {}
    BY <1>5, <2>1 DEF munmap, MayMove
  <2>3. \A q \in Claim(u) : home'[q] = home[q]
    BY <1>5, <1>a, <2>1, <2>2 DEF munmap
  <2> QED
    BY <1>5, <2>1, <2>3, FoundStays DEF munmap
<1>6. ASSUME NEW t \in Thread, NEW from \in Ranges, NEW to \in Ranges, mremap(t, from, to)
      PROVE  Goal
  <2>1. u # t /\ pc'[u] = pc[u] /\ Accessing(u)
    BY <1>0, <1>6 DEF mremap, TypeOK, Accessing, AccessLabel
  <2>2. Pages(from) \cap HugePage(at[u]) = {}
    BY <1>6, <2>1 DEF mremap, MayMove
  <2>3. Pages(to) \cap mapped \subseteq Pages(from)
    BY <1>6 DEF mremap, Free
  <2>4. \A q \in Claim(u) : home'[q] = home[q]
    BY <1>6, <1>a, <2>1, <2>2, <2>3 DEF mremap, Remapped, Moved
  <2> QED
    BY <1>6, <2>1, <2>4, FoundStays DEF mremap
<1>7. ASSUME NEW t \in Thread, onMunmap(t) \/ clear(t) \/ onMremap(t)
      PROVE  Goal
  <2>1. u # t /\ pc'[u] = pc[u]
    BY <1>0, <1>7 DEF onMunmap, clear, onMremap, TypeOK
  <2> QED
    BY <1>7, <2>1, FoundStays DEF onMunmap, clear, onMremap
<1>8. ASSUME NEW t \in Thread, AccessStep(t)
      PROVE  Goal
  <2>1. CASE u # t
    <3>1. pc[u] \in {"setHuge", "setNode", "add"}
      BY <1>0, <1>8, <2>1, AccessStepFrame
    <3>2. \A q \in Claim(u) : home'[q] = home[q]
      BY <1>8, <1>a, <3>1, AccessStepTable
    <3> QED
      BY <1>0, <1>8, <2>1, <3>1, <3>2, AccessStepFrame, FoundStays
  <2>2. CASE u = t
    <3>0. at[t] \in Page /\ at[t] \in HugePage(at[t])
      BY <1>0, PageFacts DEF TypeOK
    <3>1. CASE queryPresent(t)
      <4>1. /\ pc'[t] = "setNode" /\ at'[t] = at[t] /\ pageNode'[t] = home[at[t]]
            /\ touched'[t] = touched[t] /\ home' = home /\ pc[t] = "query"
        BY <1>0, <3>1 DEF queryPresent, TypeOK
      <4>2. touched[t] = 1
        BY <1>0, <4>1 DEF AccessSettled, Settled, Fresh, Accessing, AccessLabel
      <4>3. Claim(t)' = {at[t]}
        BY <4>1, <4>2 DEF Claim
      <4> QED
        BY <2>2, <4>1, <4>2, <4>3
    <3>2. CASE getNumaOfHugePage(t)
      <4>1. /\ at'[t] = at[t] /\ pageNode'[t] = home[at[t]] /\ home' = home /\ pc[t] = "status"
            /\ \/ /\ pc'[t] = "setNode" /\ touched'[t] = touched[t]
               \/ /\ pc'[t] = "setHuge" /\ touched'[t] = HugeSize
                  /\ \A q \in HugePage(at[t]) : home[q] = home[at[t]]
        <5> DEFINE isHugePage == \A q \in HugePage(at[t]) : home[q] = home[at[t]]
        <5>1. CASE isHugePage
          BY <1>0, <3>2, <5>1 DEF getNumaOfHugePage, TypeOK
        <5>2. CASE ~ isHugePage
          BY <1>0, <3>2, <5>2 DEF getNumaOfHugePage, TypeOK
        <5> QED
          BY <5>1, <5>2
      <4>2. touched[t] = 1 /\ Whole(at[t])
        BY <1>0, <4>1 DEF AccessSettled, Settled, Fresh, Accessing, AccessLabel
      <4>3. Claim(t)' = IF pc'[t] = "setHuge" THEN HugePage(at[t]) ELSE {at[t]}
        BY <4>1, <4>2 DEF Claim, HugePage, Page
      <4> QED
        BY <2>2, <4>1, <4>2, <4>3
    <3>3. CASE setHugePageFromPinnedThread(t)
      <4>1. /\ pc'[t] = "setNode" /\ UNCHANGED localVars /\ home' = home /\ pc[t] = "setHuge"
        BY <1>0, <3>3 DEF setHugePageFromPinnedThread, TypeOK
      <4>2. Whole(at[t])
        BY <1>0, <4>1 DEF AccessSettled, Settled, Accessing, AccessLabel
      <4>3. Claim(t) = HugePage(at[t]) /\ \A q \in Claim(t) : home[q] = pageNode[t]
        BY <4>1, ClaimIsThere
      <4>4. Claim(t)' \subseteq HugePage(at[t])
        BY <3>0, <4>1 DEF Claim, HugePage, Page
      <4> QED
        BY <2>2, <4>1, <4>2, <4>3, <4>4
    <3>4. CASE setNode(t)
      <4>1. /\ pc'[t] = "add" /\ UNCHANGED localVars /\ home' = home /\ pc[t] = "setNode"
        BY <1>0, <3>4 DEF setNode, TypeOK
      <4>2. Claim(t)' = Claim(t)
        BY <4>1 DEF Claim, HugePage, Page
      <4> QED
        BY <2>2, <4>1, <4>2 DEF NodeFound
    <3> QED
      BY <1>0, <1>8, <2>2, <3>1, <3>2, <3>3, <3>4 DEF AccessStep, onAccess, queryAbsent, touch,
         canBeHugePage, touchedPlain, onAfterFirstTouch, checkMax, storeMax, Leave, TypeOK
  <2> QED
    BY <2>1, <2>2
<1> QED
  BY <1>1, <1>2, <1>3, <1>4, <1>5, <1>6, <1>7, <1>8 DEF Next, AccessStep

(* What mremap is moving, when the pages of its ranges keep their nodes.   *)
LEMMA MoveStays ==
    ASSUME Base, NodeMoves, NEW u \in Thread, pc[u] = "remap",
           old'[u] = old[u], new'[u] = new[u],
           \A p \in Page : home[p] # NoNode /\ p \in Pages(new[u]) => home'[p] = home[p],
           \A p \in Pages(old[u]) \cup Pages(new[u]) :
               numaNode'[p] \in {numaNode[p], NoNode, home[p]}
    PROVE  /\ \A p \in Moved(old[u], new[u]) :
                 LET node == numaNode'[p - new[u].lo + old[u].lo]
                 IN  node # NoNode => node = home'[p]
           /\ \A p \in Pages(new[u]) \ Moved(old[u], new[u]) :
                 numaNode'[p] # NoNode => numaNode'[p] = home'[p]
<1>1. /\ old[u] \in Ranges /\ new[u] \in Ranges /\ Pages(new[u]) \subseteq Page
      /\ Pages(old[u]) \cap mapped \subseteq Pages(new[u])
      /\ old[u].lo = new[u].lo \/ Pages(old[u]) \cap Pages(new[u]) = {}
  BY PageFacts DEF Base, RangesApart, Busy
<1>2. ASSUME NEW p \in Moved(old[u], new[u]), NEW q, q = p - new[u].lo + old[u].lo,
             numaNode'[q] # NoNode
      PROVE  numaNode'[q] = home'[p]
  <2>1. p \in Pages(new[u]) /\ p \in Page /\ q \in Pages(old[u]) /\ q \in Page
    BY <1>1, <1>2, MovedFrom
  <2>2. numaNode[q] # NoNode => numaNode[q] = home[p]
    BY <1>2 DEF NodeMoves
  <2>3. home[q] # NoNode => q = p
    <3>1. SUFFICES ASSUME home[q] # NoNode PROVE q = p
      OBVIOUS
    <3>2. q \in Pages(new[u])
      BY <1>1, <2>1, <3>1 DEF Base, HomeIsMapped
    <3>3. old[u].lo = new[u].lo
      BY <1>1, <2>1, <3>2
    <3> QED
      BY <1>1, <1>2, <3>3, MovedFrom
  <2>4. numaNode'[q] = home[p]
    BY <1>2, <2>1, <2>2, <2>3
  <2> QED
    BY <1>2, <2>1, <2>4
<1>3. ASSUME NEW p \in Pages(new[u]) \ Moved(old[u], new[u]), numaNode'[p] # NoNode
      PROVE  numaNode'[p] = home'[p]
  <2>1. numaNode[p] # NoNode => numaNode[p] = home[p]
    BY <1>3 DEF NodeMoves
  <2> QED
    BY <1>1, <1>3, <2>1
<1> QED
  BY <1>2, <1>3

(* What mremap will move stays true until it is moved.                     *)
LEMMA MovesKept ==
    ASSUME ~ BindTouched, ~ UnmapAnytime
    PROVE  Base /\ NodeIsKernels /\ NodeFound /\ NodeMoves /\ [Next]_vars => NodeMoves'
<1> SUFFICES ASSUME Base, NodeIsKernels, NodeFound, NodeMoves, [Next]_vars,
                    NEW u \in Thread, pc'[u] = "remap"
             PROVE  /\ \A p \in Moved(old'[u], new'[u]) :
                          LET node == numaNode'[p - new'[u].lo + old'[u].lo]
                          IN  node # NoNode => node = home'[p]
                    /\ \A p \in Pages(new'[u]) \ Moved(old'[u], new'[u]) :
                          numaNode'[p] # NoNode => numaNode'[p] = home'[p]
  BY DEF NodeMoves, Moved, Pages
<1> DEFINE Goal == /\ \A p \in Moved(old'[u], new'[u]) :
                          LET node == numaNode'[p - new'[u].lo + old'[u].lo]
                          IN  node # NoNode => node = home'[p]
                   /\ \A p \in Pages(new'[u]) \ Moved(old'[u], new'[u]) :
                          numaNode'[p] # NoNode => numaNode'[p] = home'[p]
<1> USE DEF kernelVars, tableVars, countVars, localVars, callVars, Goto
<1>0. TypeOK /\ RangesApart /\ HomeIsMapped
  BY DEF Base
<1>a. Pages(old[u]) \subseteq Page /\ Pages(new[u]) \subseteq Page
  BY <1>0, OldPages
<1>1. CASE UNCHANGED vars
  BY <1>1, MoveStays DEF vars
<1>2. ASSUME NEW p \in Page, kernelTouch(p)
      PROVE  Goal
  <2>1. \A q \in Page : home[q] # NoNode => home'[q] = home[q]
    BY <1>0, <1>2 DEF kernelTouch, TypeOK
  <2> QED
    BY <1>2, <2>1, MoveStays DEF kernelTouch
<1>3. ASSUME NEW r \in Ranges, onMbind(r)
      PROVE  Goal
  <2>1. \A p \in Page : numaNode'[p] \in {numaNode[p], NoNode}
    BY <1>0, <1>3, BindMovesNothing
  <2> QED
    BY <1>0, <1>3, <1>a, <2>1, BindMovesNothing, MoveStays
<1>4. ASSUME NEW r \in Ranges, NEW file \in File \cup {NoFile}, onMmap(r, file)
      PROVE  Goal
  BY <1>4, MoveStays DEF onMmap
<1>5. ASSUME NEW t \in Thread, NEW r \in Ranges, munmap(t, r)
      PROVE  Goal
  <2>1. u # t /\ pc[u] = "remap" /\ old'[u] = old[u] /\ new'[u] = new[u] /\ numaNode' = numaNode
    BY <1>0, <1>5 DEF munmap, TypeOK
  <2>2. \A p \in Page : p \in Pages(new[u]) => home'[p] = home[p]
    BY <1>5, MovableRange DEF munmap
  <2> QED
    BY <2>1, <2>2, MoveStays
<1>6. ASSUME NEW t \in Thread, NEW from \in Ranges, NEW to \in Ranges, mremap(t, from, to)
      PROVE  Goal
  <2>1. /\ home' = Remapped(home, from, to, NoNode) /\ numaNode' = numaNode /\ MayMove(from)
        /\ \/ Free(to)
           \/ to.lo = from.lo /\ Pages(to) \cap (mapped \cup Arriving \cup Leaving)
                                 \subseteq Pages(from)
    BY <1>6 DEF mremap
  <2>2. Pages(from) \cap (Leaving \cup Arriving) = {} /\ Pages(from) \subseteq Page
    BY <2>1, PageFacts DEF MayMove
  <2>3. Pages(to) \cap (mapped \cup Arriving \cup Leaving) \subseteq Pages(from)
    BY <2>1 DEF Free
  <2>4. CASE u = t
    <3>1. old'[t] = from /\ new'[t] = to
      BY <1>0, <1>6 DEF mremap, TypeOK
    <3>2. ASSUME NEW p \in Moved(from, to), NEW q, q = p - to.lo + from.lo,
                 numaNode[q] # NoNode
          PROVE  numaNode[q] = home'[p]
      <4>1. q \in Page /\ q \in Pages(from) /\ p \in Page
        BY <3>2, MovedFrom
      <4>2. numaNode[q] = home[q]
        BY <2>2, <3>2, <4>1 DEF NodeIsKernels
      <4> QED
        BY <2>1, <3>2, <4>1, <4>2 DEF Remapped
    <3>3. ASSUME NEW p \in Pages(to) \ Moved(from, to), numaNode[p] # NoNode
          PROVE  FALSE
      <4>1. p \in Page
        BY <3>3, PageFacts
      <4>2. p \notin Pages(from)
        <5>1. CASE Free(to)
          BY <2>1, <3>3, <5>1 DEF Free, MayMove
        <5>2. CASE to.lo = from.lo
          <6>0. {to.lo, to.hi, from.hi} \subseteq Page
            BY PageFacts
          <6>1. to.lo \in Nat /\ to.hi \in Nat /\ from.hi \in Nat
            BY <6>0, PageFacts
          <6>2. p \in Int /\ p - to.lo + from.lo = p
            BY <3>3, <5>2, <6>1 DEF Pages
          <6> QED
            BY <3>3, <6>1, <6>2 DEF Moved, Pages
        <5> QED
          BY <2>1, <5>1, <5>2
      <4>3. p \notin mapped /\ p \notin Leaving \cup Arriving
        BY <2>3, <3>3, <4>2
      <4> QED
        BY <1>0, <3>3, <4>1, <4>3 DEF NodeIsKernels, HomeIsMapped
    <3> QED
      BY <2>1, <2>4, <3>1, <3>2, <3>3
  <2>5. CASE u # t
    <3>1. pc[u] = "remap" /\ old'[u] = old[u] /\ new'[u] = new[u]
      BY <1>0, <1>6, <2>5 DEF mremap, TypeOK
    <3>2. Pages(new[u]) \cap (Pages(from) \cup Pages(to)) = {}
      BY <2>2, <2>3 DEF Arriving
    <3>3. \A p \in Page : p \in Pages(new[u]) => home'[p] = home[p]
      BY <2>1, <3>2 DEF Remapped, Moved
    <3> QED
      BY <2>1, <3>1, <3>3, MoveStays
  <2> QED
    BY <2>4, <2>5
<1>7. ASSUME NEW t \in Thread, onMunmap(t)
      PROVE  Goal
  BY <1>0, <1>7, MoveStays DEF onMunmap, TypeOK
<1>8. ASSUME NEW t \in Thread, clear(t) \/ onMremap(t)
      PROVE  Goal
  <2>1. u # t /\ pc[u] = "remap" /\ old'[u] = old[u] /\ new'[u] = new[u] /\ home' = home
    BY <1>0, <1>8 DEF clear, onMremap, TypeOK
  <2>2. \A p \in Page \ (Pages(old[t]) \cup Pages(new[t])) : numaNode'[p] = numaNode[p]
    BY <1>8 DEF clear, onMremap, Remapped, Moved
  <2>3. (Pages(old[u]) \cup Pages(new[u])) \cap (Pages(old[t]) \cup Pages(new[t])) = {}
    BY <1>0, <2>1 DEF RangesApart
  <2>4. \A p \in Pages(old[u]) \cup Pages(new[u]) : numaNode'[p] = numaNode[p]
    BY <1>a, <2>2, <2>3
  <2> QED
    BY <2>1, <2>4, MoveStays
<1>9. ASSUME NEW t \in Thread, AccessStep(t)
      PROVE  Goal
  <2>1. u # t /\ pc[u] = "remap" /\ old'[u] = old[u] /\ new'[u] = new[u]
    BY <1>0, <1>9, AccessStepFrame DEF AccessLabel
  <2> QED
    BY <1>9, <1>a, <2>1, AccessStepTable, MoveStays
<1> QED
  BY <1>1, <1>2, <1>3, <1>4, <1>5, <1>6, <1>7, <1>8, <1>9 DEF Next, AccessStep

-----------------------------------------------------------------------------
(* The counters.                                                           *)

(* There are finitely many pages to count.                                 *)
LEMMA UnclaimedFinite ==
    ASSUME NEW n \in Node
    PROVE  IsFiniteSet(Unclaimed(n)) /\ Cardinality(Unclaimed(n)) \in Nat
           /\ Unclaimed(n) \subseteq Page
<1>1. Unclaimed(n) \subseteq Page
  BY DEF Unclaimed, Recorded
<1>2. IsFiniteSet(Unclaimed(n))
  BY <1>1, PageFacts, FS_Subset
<1> QED
  BY <1>1, <1>2, FS_CardinalityType

(* A step that adds no page that is not claimed, and leaves the counter.   *)
LEMMA UnclaimedShrinks ==
    ASSUME CountsUnclaimed, NEW n \in Node, current'[n] = current[n], current \in [Node -> Int],
           NEW more \in SUBSET Unclaimed(n)
    PROVE  Cardinality(more) <= current'[n]
<1>1. IsFiniteSet(Unclaimed(n)) /\ Cardinality(Unclaimed(n)) \in Nat
  BY UnclaimedFinite
<1>2. Cardinality(more) <= Cardinality(Unclaimed(n)) /\ Cardinality(more) \in Nat
  BY <1>1, FS_Subset, FS_CardinalityType
<1>3. Cardinality(Unclaimed(n)) <= current[n] /\ current[n] \in Int
  BY DEF CountsUnclaimed
<1> QED
  BY <1>1, <1>2, <1>3

(* No claim is in a range that munmap has left.                            *)
LEMMA ClaimedIsMapped ==
    ASSUME Base, NodeFound, NEW n \in Node
    PROVE  Claimed(n) \subseteq mapped
<1>1. \A t \in Adders(n) : Claim(t) \subseteq mapped
  BY ClaimIsThere DEF Adders
<1> QED
  BY <1>1 DEF Claimed

(* The pages that an addition counts.                                      *)
LEMMA ClaimSize ==
    ASSUME Base, NodeFound, NEW t \in Thread, pc[t] \in {"setNode", "add"}
    PROVE  IsFiniteSet(Claim(t)) /\ Cardinality(Claim(t)) = touched[t]
<1>1. CASE touched[t] = 1
  BY <1>1, FS_Singleton DEF Claim
<1>2. CASE touched[t] # 1
  <2>1. Whole(at[t]) /\ Claim(t) = HugePage(at[t]) /\ touched[t] = HugeSize
    BY <1>2 DEF NodeFound, Claim, Base, TypeOK
  <2>2. HugePage(at[t]) \subseteq Page
    BY DEF HugePage
  <2> QED
    BY <2>1, <2>2, PageFacts, FS_Subset DEF Whole
<1> QED
  BY <1>1, <1>2

(* munmap subtracts pages that are counted.                                *)
LEMMA UncountKeeps ==
    ASSUME Base, NodeFound, CountsUnclaimed, NEW t \in Thread, onMunmap(t), NEW n \in Node
    PROVE  Cardinality(Unclaimed(n)') <= current'[n]
<1> DEFINE gone == Recorded(Pages(old[t]), n)
<1>0. TypeOK /\ RangesApart
  BY DEF Base
<1>1. /\ pc[t] = "uncount" /\ pc'[t] = "clear" /\ \A u \in Thread \ {t} : pc'[u] = pc[u]
      /\ UNCHANGED <<mapped, numaNode, localVars, old, new>>
      /\ current'[n] = current[n] - Cardinality(gone)
  BY <1>0 DEF onMunmap, TypeOK, Goto, kernelVars, tableVars, callVars
<1>2. Uncounted' = Uncounted \cup Pages(old[t])
  BY <1>1 DEF Uncounted, Pages
<1>3. Claimed(n)' = Claimed(n)
  <2>1. \A u \in Thread : /\ pc'[u] \in {"setNode", "add"} <=> pc[u] \in {"setNode", "add"}
                          /\ pc'[u] = "setHuge" <=> pc[u] = "setHuge"
    BY <1>1
  <2>2. Adders(n)' = Adders(n)
    BY <1>1, <2>1 DEF Adders, localVars
  <2>3. \A u \in Thread : Claim(u)' = Claim(u)
    BY <1>1, <2>1 DEF Claim, HugePage, Page, localVars
  <2> QED
    BY <2>2, <2>3 DEF Claimed, Adders
<1>4. Unclaimed(n)' = Unclaimed(n) \ gone
  BY <1>1, <1>2, <1>3 DEF Unclaimed, Recorded, Page
<1>5. gone \subseteq Unclaimed(n)
  <2>1. Pages(old[t]) \subseteq Page /\ Pages(old[t]) \cap mapped = {}
    BY <1>0, <1>1, OldPages DEF RangesApart, Busy
  <2>2. Pages(old[t]) \cap Uncounted = {}
    BY <1>0, <1>1 DEF Uncounted, RangesApart
  <2> QED
    BY <2>1, <2>2, ClaimedIsMapped DEF Unclaimed, Recorded
<1>6. IsFiniteSet(Unclaimed(n)) /\ Cardinality(Unclaimed(n)) \in Nat
  BY UnclaimedFinite
<1>7. IsFiniteSet(gone) /\ Cardinality(gone) \in Nat
  BY <1>5, <1>6, FS_Subset, FS_CardinalityType
<1>8. Cardinality(Unclaimed(n) \ gone) = Cardinality(Unclaimed(n)) - Cardinality(gone)
  <2>1. Unclaimed(n) \cap gone = gone
    BY <1>5
  <2> QED
    BY <1>6, <2>1, FS_Difference
<1>9. Cardinality(Unclaimed(n)) <= current[n] /\ current[n] \in Int
  BY <1>0 DEF CountsUnclaimed, TypeOK
<1> QED
  BY <1>1, <1>4, <1>6, <1>7, <1>8, <1>9

(* mremap moves the counted pages one to one.                              *)
LEMMA RemapKeeps ==
    ASSUME Base, NodeFound, CountsUnclaimed, NEW t \in Thread, onMremap(t), NEW n \in Node
    PROVE  Cardinality(Unclaimed(n)') <= current'[n]
<1> DEFINE from == old[t]
           to == new[t]
           place == [p \in Unclaimed(n)' |->
                        IF p \in Moved(from, to) THEN p - to.lo + from.lo ELSE p]
<1>0. TypeOK /\ RangesApart /\ n # NoNode
  BY NumaAssumption DEF Base
<1>1. /\ pc[t] = "remap" /\ pc'[t] = "idle" /\ \A u \in Thread \ {t} : pc'[u] = pc[u] /\ old'[u] = old[u]
      /\ UNCHANGED <<mapped, localVars, current>>
      /\ numaNode' = Remapped(numaNode, from, to, NoNode)
  BY <1>0 DEF onMremap, TypeOK, Goto, kernelVars, countVars
<1>2. /\ from \in Ranges /\ to \in Ranges /\ Pages(from) \cap mapped \subseteq Pages(to)
      /\ from.lo = to.lo \/ Pages(from) \cap Pages(to) = {}
  BY <1>0, <1>1 DEF RangesApart, Busy
<1>3. Uncounted' = Uncounted
  <2>1. \A u \in Thread : (pc'[u] = "clear" <=> pc[u] = "clear") /\ (pc[u] = "clear" => old'[u] = old[u])
    BY <1>1
  <2> QED
    BY <2>1 DEF Uncounted, Pages
<1>4. Claimed(n)' = Claimed(n)
  <2>1. \A u \in Thread : /\ pc'[u] \in {"setNode", "add"} <=> pc[u] \in {"setNode", "add"}
                          /\ pc'[u] = "setHuge" <=> pc[u] = "setHuge"
    BY <1>1
  <2>2. Adders(n)' = Adders(n)
    BY <1>1, <2>1 DEF Adders, localVars
  <2>3. \A u \in Thread : Claim(u)' = Claim(u)
    BY <1>1, <2>1 DEF Claim, HugePage, Page, localVars
  <2> QED
    BY <2>2, <2>3 DEF Claimed, Adders
<1>5. \A p \in Unclaimed(n)' :
          p \in Page /\ numaNode'[p] = n /\ p \notin Uncounted /\ p \notin Claimed(n)
  BY <1>3, <1>4 DEF Unclaimed, Recorded, Page
<1>6. Pages(from) \cap Uncounted = {}
  BY <1>0, <1>1 DEF Uncounted, RangesApart
<1>7. ASSUME NEW p \in Unclaimed(n)', p \in Moved(from, to)
      PROVE  place[p] \in Pages(from) /\ place[p] \in Unclaimed(n)
  <2>1. place[p] = p - to.lo + from.lo
    BY <1>7
  <2>2. place[p] \in Pages(from) /\ place[p] \in Page /\ (from.lo = to.lo => place[p] = p)
    BY <1>2, <1>7, <2>1, MovedFrom
  <2>3. numaNode[place[p]] = n
    BY <1>1, <1>5, <1>7, <2>1 DEF Remapped
  <2>4. place[p] \notin Claimed(n)
    <3>1. SUFFICES ASSUME place[p] \in Claimed(n) PROVE FALSE
      OBVIOUS
    <3>2. place[p] \in Pages(to)
      BY <1>2, <2>2, <3>1, ClaimedIsMapped
    <3>3. place[p] = p
      BY <1>2, <2>2, <3>2
    <3> QED
      BY <1>5, <1>7, <3>1, <3>3
  <2> QED
    BY <1>6, <2>2, <2>3, <2>4 DEF Unclaimed, Recorded
<1>8. ASSUME NEW p \in Unclaimed(n)', p \notin Moved(from, to)
      PROVE  place[p] = p /\ p \notin Pages(from) /\ p \in Unclaimed(n)
  <2>1. place[p] = p
    BY <1>8
  <2>2. p \notin Pages(from) /\ numaNode[p] = n
    BY <1>0, <1>1, <1>5, <1>8 DEF Remapped
  <2> QED
    BY <1>5, <1>8, <2>1, <2>2 DEF Unclaimed, Recorded
<1>9. ASSUME NEW p \in Unclaimed(n)', NEW q \in Unclaimed(n)', place[p] = place[q]
      PROVE  p = q
  <2>1. CASE p \in Moved(from, to) /\ q \in Moved(from, to)
    <3>1. p - to.lo + from.lo = q - to.lo + from.lo
      BY <1>9, <2>1
    <3>2. {to.lo, from.lo} \subseteq Page /\ p \in Page /\ q \in Page
      BY <1>2, <1>5, PageFacts
    <3>3. to.lo \in Nat /\ from.lo \in Nat /\ p \in Nat /\ q \in Nat
      BY <3>2, PageFacts
    <3> QED
      BY <3>1, <3>3
  <2>2. CASE ~ (p \in Moved(from, to)) /\ ~ (q \in Moved(from, to))
    BY <1>8, <1>9, <2>2
  <2>3. CASE p \in Moved(from, to) /\ ~ (q \in Moved(from, to))
    BY <1>7, <1>8, <1>9, <2>3
  <2>4. CASE ~ (p \in Moved(from, to)) /\ q \in Moved(from, to)
    BY <1>7, <1>8, <1>9, <2>4
  <2> QED
    BY <2>1, <2>2, <2>3, <2>4
<1>10. IsFiniteSet(Unclaimed(n)) /\ Cardinality(Unclaimed(n)) \in Nat
  BY UnclaimedFinite
<1>11. place \in Injection(Unclaimed(n)', Unclaimed(n))
  <2>1. \A p \in Unclaimed(n)' : place[p] \in Unclaimed(n)
    BY <1>7, <1>8
  <2>2. place \in [Unclaimed(n)' -> Unclaimed(n)]
    BY <2>1
  <2>3. \A p, q \in Unclaimed(n)' : place[p] = place[q] => p = q
    BY <1>9
  <2> HIDE DEF place
  <2> QED
    BY <2>2, <2>3 DEF Injection, IsInjective
<1>12. Cardinality(Unclaimed(n)') <= Cardinality(Unclaimed(n))
       /\ Cardinality(Unclaimed(n)') \in Nat
  BY <1>10, <1>11, FS_Injection, FS_CardinalityType
<1>13. Cardinality(Unclaimed(n)) <= current[n] /\ current[n] \in Int
  BY <1>0 DEF CountsUnclaimed, TypeOK
<1> QED
  BY <1>1, <1>10, <1>12, <1>13

(* The claims of the threads that do not step.                             *)
LEMMA OthersClaim ==
    ASSUME TypeOK, NEW t \in Thread, AccessStep(t), NEW n \in Node
    PROVE  /\ Uncounted' = Uncounted
           /\ \A u \in Thread \ {t} :
                 Claim(u)' = Claim(u) /\ (u \in Adders(n)' <=> u \in Adders(n))
<1>1. /\ pc[t] \notin Busy /\ pc'[t] \in AccessLabel \cup {"idle"} /\ old' = old
      /\ \A u \in Thread \ {t} : /\ pc'[u] = pc[u] /\ at'[u] = at[u]
                                 /\ pageNode'[u] = pageNode[u] /\ touched'[u] = touched[u]
  BY AccessStepFrame
<1>2. \A u \in Thread : pc'[u] = "clear" <=> pc[u] = "clear"
  BY <1>1 DEF Busy, AccessLabel
<1>3. Uncounted' = Uncounted
  BY <1>1, <1>2 DEF Uncounted, Pages
<1>4. \A u \in Thread \ {t} : Claim(u)' = Claim(u) /\ (u \in Adders(n)' <=> u \in Adders(n))
  BY <1>1 DEF Claim, HugePage, Page, Adders
<1> QED
  BY <1>3, <1>4

(* The addition of a first touch counts what it has claimed.               *)
LEMMA AddKeeps ==
    ASSUME Base, NodeFound, CountsUnclaimed, NEW t \in Thread, onAfterFirstTouch(t), NEW n \in Node
    PROVE  Cardinality(Unclaimed(n)') <= current'[n]
<1>0. TypeOK /\ AccessStep(t)
  BY DEF Base, AccessStep
<1>1. /\ pc[t] = "add" /\ pc'[t] = "check" /\ numaNode' = numaNode
      /\ current' = [current EXCEPT ![pageNode[t]] = @ + touched[t]]
  BY <1>0 DEF onAfterFirstTouch, TypeOK, Goto, tableVars
<1>2. /\ pageNode[t] \in Node
      /\ IsFiniteSet(Claim(t)) /\ Cardinality(Claim(t)) = touched[t] /\ touched[t] \in Nat
  BY <1>0, <1>1, ClaimIsThere, ClaimSize, FS_CardinalityType
<1>3. t \notin Adders(n)'
  BY <1>1 DEF Adders
<1>4. IsFiniteSet(Unclaimed(n)) /\ Cardinality(Unclaimed(n)) \in Nat
  BY UnclaimedFinite
<1>5. Cardinality(Unclaimed(n)) <= current[n] /\ current[n] \in Int
  BY <1>0 DEF CountsUnclaimed, TypeOK
<1>6. Unclaimed(n)' = {p \in Page \ Uncounted : numaNode[p] = n} \ Claimed(n)'
  BY <1>0, <1>1, OthersClaim DEF Unclaimed, Recorded, Page
<1>7. CASE n # pageNode[t]
  <2>1. t \notin Adders(n)
    BY <1>7 DEF Adders
  <2>2. Claimed(n)' = Claimed(n)
    BY <1>0, <1>3, <2>1, OthersClaim DEF Claimed, Adders
  <2>3. Unclaimed(n)' \in SUBSET Unclaimed(n)
    BY <1>6, <2>2 DEF Unclaimed, Recorded
  <2>4. current'[n] = current[n] /\ current \in [Node -> Int]
    BY <1>0, <1>1, <1>7 DEF TypeOK
  <2> QED
    BY <2>3, <2>4, UnclaimedShrinks
<1>8. CASE n = pageNode[t]
  <2>1. Claimed(n) \subseteq Claimed(n)' \cup Claim(t)
    BY <1>0, OthersClaim DEF Claimed, Adders
  <2>2. Unclaimed(n)' \subseteq Unclaimed(n) \cup Claim(t)
    BY <1>6, <2>1 DEF Unclaimed, Recorded
  <2>3. /\ IsFiniteSet(Unclaimed(n) \cup Claim(t))
        /\ Cardinality(Unclaimed(n) \cup Claim(t))
               = Cardinality(Unclaimed(n)) + touched[t] - Cardinality(Unclaimed(n) \cap Claim(t))
    BY <1>2, <1>4, FS_Union
  <2>4. Cardinality(Unclaimed(n) \cap Claim(t)) \in Nat
    BY <1>4, FS_Intersection, FS_CardinalityType
  <2>5. /\ Cardinality(Unclaimed(n)') <= Cardinality(Unclaimed(n) \cup Claim(t))
        /\ Cardinality(Unclaimed(n)') \in Nat
    BY <2>2, <2>3, FS_Subset, FS_CardinalityType
  <2>6. current'[n] = current[n] + touched[t]
    BY <1>0, <1>1, <1>8 DEF TypeOK
  <2> QED
    BY <1>2, <1>4, <1>5, <2>3, <2>4, <2>5, <2>6
<1> QED
  BY <1>7, <1>8

(* A first touch claims the pages before the table has them and gives up   *)
(* the claim with the addition; munmap subtracts before it clears; mremap  *)
(* moves one to one.                                                       *)
LEMMA CountsKept ==
    ASSUME ~ BindTouched, ~ UnmapAnytime
    PROVE  Base /\ NodeFound /\ CountsUnclaimed /\ [Next]_vars => CountsUnclaimed'
<1> SUFFICES ASSUME Base, NodeFound, CountsUnclaimed, [Next]_vars, NEW n \in Node
             PROVE  Cardinality(Unclaimed(n)') <= current'[n]
  BY DEF CountsUnclaimed
<1> DEFINE Goal == Cardinality(Unclaimed(n)') <= current'[n]
<1> USE DEF kernelVars, tableVars, countVars, localVars, callVars, Goto
<1>0. TypeOK /\ RangesApart /\ AccessSettled /\ n # NoNode /\ current \in [Node -> Int]
  BY NumaAssumption DEF Base, TypeOK
<1>a. ASSUME Unclaimed(n)' \subseteq Unclaimed(n), current'[n] = current[n]
      PROVE  Goal
  BY <1>0, <1>a, UnclaimedShrinks
<1>1. ASSUME UNCHANGED <<pc, localVars, old>>, current'[n] = current[n],
             \A p \in Page : numaNode'[p] \in {numaNode[p], NoNode}
      PROVE  Goal
  <2>1. Claimed(n)' = Claimed(n) /\ Uncounted' = Uncounted
    BY <1>1 DEF Claimed, Adders, Claim, HugePage, Page, Uncounted, Pages
  <2>2. Unclaimed(n)' \subseteq Unclaimed(n)
    BY <1>0, <1>1, <2>1 DEF Unclaimed, Recorded, Page
  <2> QED
    BY <1>1, <1>a, <2>2
<1>2. CASE \/ UNCHANGED vars
           \/ \E p \in Page : kernelTouch(p)
           \/ \E r \in Ranges, file \in File \cup {NoFile} : onMmap(r, file)
  BY <1>1, <1>2 DEF vars, kernelTouch, onMmap
<1>3. ASSUME NEW r \in Ranges, onMbind(r)
      PROVE  Goal
  <2>1. \A p \in Page : numaNode'[p] \in {numaNode[p], NoNode}
    BY <1>0, <1>3, BindMovesNothing
  <2> QED
    BY <1>0, <1>1, <1>3, <2>1, BindMovesNothing
<1>4. ASSUME NEW t \in Thread, \/ \E r \in Ranges : munmap(t, r)
                               \/ \E from, to \in Ranges : mremap(t, from, to)
      PROVE  Goal
  <2>1. /\ pc[t] = "idle" /\ pc'[t] \in {"uncount", "remap"}
        /\ \A u \in Thread \ {t} : pc'[u] = pc[u] /\ old'[u] = old[u]
        /\ UNCHANGED <<localVars, numaNode, current>>
    BY <1>0, <1>4 DEF munmap, mremap, Idle, TypeOK
  <2>2. \A u \in Thread : /\ pc'[u] \in {"setNode", "add"} <=> pc[u] \in {"setNode", "add"}
                          /\ pc'[u] = "setHuge" <=> pc[u] = "setHuge"
                          /\ pc'[u] = "clear" <=> pc[u] = "clear"
                          /\ pc[u] = "clear" => old'[u] = old[u]
    BY <2>1
  <2>3. Adders(n)' = Adders(n) /\ \A u \in Thread : Claim(u)' = Claim(u)
    BY <2>1, <2>2 DEF Adders, Claim, HugePage, Page
  <2>4. Claimed(n)' = Claimed(n) /\ Uncounted' = Uncounted
    BY <2>2, <2>3 DEF Claimed, Adders, Uncounted, Pages
  <2>5. Unclaimed(n)' = Unclaimed(n)
    BY <2>1, <2>4 DEF Unclaimed, Recorded, Page
  <2> QED
    BY <1>a, <2>1, <2>5
<1>5. ASSUME NEW t \in Thread, onMunmap(t)
      PROVE  Goal
  BY <1>5, UncountKeeps
<1>6. ASSUME NEW t \in Thread, clear(t)
      PROVE  Goal
  <2>1. /\ pc[t] = "clear" /\ pc'[t] = "idle"
        /\ \A u \in Thread \ {t} : pc'[u] = pc[u] /\ old'[u] = old[u]
        /\ UNCHANGED <<localVars, current>>
        /\ \A p \in Page : IF p \in Pages(old[t]) THEN numaNode'[p] = NoNode
                                                  ELSE numaNode'[p] = numaNode[p]
    BY <1>0, <1>6 DEF clear, TypeOK
  <2>2. \A u \in Thread : /\ pc'[u] \in {"setNode", "add"} <=> pc[u] \in {"setNode", "add"}
                          /\ pc'[u] = "setHuge" <=> pc[u] = "setHuge"
    BY <2>1
  <2>3. Adders(n)' = Adders(n) /\ \A u \in Thread : Claim(u)' = Claim(u)
    BY <2>1, <2>2 DEF Adders, Claim, HugePage, Page
  <2>4. Claimed(n)' = Claimed(n)
    BY <2>2, <2>3 DEF Claimed, Adders
  <2>5. Uncounted \subseteq Uncounted' \cup Pages(old[t])
    BY <2>1 DEF Uncounted, Pages
  <2>6. Unclaimed(n)' \subseteq Unclaimed(n)
    BY <1>0, <2>1, <2>4, <2>5 DEF Unclaimed, Recorded, Page
  <2> QED
    BY <1>a, <2>1, <2>6
<1>7. ASSUME NEW t \in Thread, onMremap(t)
      PROVE  Goal
  BY <1>7, RemapKeeps
<1>8. ASSUME NEW t \in Thread, AccessStep(t)
      PROVE  Goal
  <2>1. CASE onAfterFirstTouch(t)
    BY <2>1, AddKeeps
  <2>2. CASE ~ onAfterFirstTouch(t)
    <3>1. current' = current
      BY <1>8, <2>2 DEF AccessStep, onAccess, queryPresent, queryAbsent, touch, canBeHugePage,
         touchedPlain, getNumaOfHugePage, setHugePageFromPinnedThread, setNode, checkMax,
         storeMax
    <3>2. t \in Adders(n) => t \in Adders(n)' /\ Claim(t)' = Claim(t)
      <4>1. SUFFICES ASSUME t \in Adders(n) PROVE t \in Adders(n)' /\ Claim(t)' = Claim(t)
        OBVIOUS
      <4>2. pc[t] \in {"setNode", "add"} /\ pageNode[t] = n
        BY <4>1 DEF Adders
      <4>3. setNode(t)
        BY <1>8, <2>2, <4>2 DEF AccessStep, onAccess, queryPresent, queryAbsent, touch,
           canBeHugePage, touchedPlain, getNumaOfHugePage, setHugePageFromPinnedThread,
           onAfterFirstTouch, checkMax, storeMax, Idle
      <4>4. pc[t] = "setNode" /\ pc'[t] = "add" /\ UNCHANGED localVars
        BY <1>0, <4>3 DEF setNode, TypeOK
      <4> QED
        BY <4>2, <4>4 DEF Adders, Claim, HugePage, Page
    <3>3. Claimed(n) \subseteq Claimed(n)'
      BY <1>0, <1>8, <3>2, OthersClaim DEF Claimed, Adders
    <3>4. \A p \in Page \ Claimed(n)' : numaNode'[p] = n => numaNode[p] = n
      <4>1. CASE numaNode' = numaNode
        BY <4>1
      <4>2. CASE touchedPlain(t)
        <5>1. pageNode[t] = NoNode /\ numaNode' = [numaNode EXCEPT ![at[t]] = pageNode[t]]
          BY <1>0, <4>2 DEF AccessSettled, Settled, touchedPlain, Accessing, AccessLabel, Fresh
        <5> QED
          BY <1>0, <5>1 DEF TypeOK
      <4>3. CASE setHugePageFromPinnedThread(t)
        <5>1. /\ pc[t] = "setHuge" /\ pc'[t] = "setNode" /\ UNCHANGED localVars
              /\ \A p \in Page : numaNode'[p] = IF p \in HugePage(at[t]) THEN pageNode[t]
                                                                         ELSE numaNode[p]
          BY <1>0, <4>3 DEF setHugePageFromPinnedThread, TypeOK
        <5>2. touched[t] = HugeSize /\ at[t] \in Page
          BY <1>0, <5>1 DEF AccessSettled, Settled, Accessing, AccessLabel, TypeOK
        <5>3. HugePage(at[t]) \subseteq Claim(t)'
          <6>1. CASE HugeSize = 1
            <7>1. \A q \in Page : q \in Nat /\ q \div 1 = q
              BY PageFacts
            <7>2. HugePage(at[t]) = {at[t]}
              BY <5>2, <6>1, <7>1 DEF HugePage
            <7> QED
              BY <5>1, <7>2 DEF Claim, HugePage, Page
          <6>2. CASE HugeSize # 1
            BY <5>1, <5>2, <6>2 DEF Claim, HugePage, Page
          <6> QED
            BY <6>1, <6>2
        <5>4. n = pageNode[t] => HugePage(at[t]) \subseteq Claimed(n)'
          BY <5>1, <5>3 DEF Claimed, Adders
        <5> QED
          BY <5>1, <5>4
      <4>4. CASE setNode(t)
        <5>1. pc[t] = "setNode" /\ numaNode' = [numaNode EXCEPT ![at[t]] = pageNode[t]]
          BY <4>4 DEF setNode
        <5>2. n = pageNode[t] => at[t] \in Claimed(n)
          BY <5>1, ClaimIsThere DEF Claimed, Adders
        <5> QED
          BY <1>0, <3>3, <5>1, <5>2 DEF TypeOK
      <4> QED
        BY <1>8, <4>1, <4>2, <4>3, <4>4, AccessStepTable
    <3>5. Unclaimed(n)' \subseteq Unclaimed(n)
      BY <1>0, <1>8, <3>3, <3>4, OthersClaim DEF Unclaimed, Recorded, Page
    <3> QED
      BY <1>a, <3>1, <3>5
  <2> QED
    BY <2>1, <2>2
<1> QED
  BY <1>2, <1>3, <1>4, <1>5, <1>6, <1>7, <1>8 DEF Next, AccessStep

(* A set of values is no larger than the set it is computed from.          *)
LEMMA ImageSize ==
    ASSUME NEW S, IsFiniteSet(S), NEW f, DOMAIN f = S, f = [x \in S |-> f[x]],
           NEW T, \A y \in T : \E x \in S : f[x] = y
    PROVE  IsFiniteSet(T) /\ Cardinality(T) <= Cardinality(S)
<1> DEFINE I == {f[x] : x \in S}
<1>1. f \in Surjection(S, I)
  BY DEF Surjection
<1>2. IsFiniteSet(I) /\ Cardinality(I) <= Cardinality(S)
  BY <1>1, FS_Surjection
<1>3. T \subseteq I
  OBVIOUS
<1>4. IsFiniteSet(T) /\ Cardinality(T) <= Cardinality(I)
  BY <1>2, <1>3, FS_Subset
<1>5. Cardinality(T) \in Nat /\ Cardinality(I) \in Nat /\ Cardinality(S) \in Nat
  BY <1>2, <1>4, FS_CardinalityType
<1> QED
  BY <1>2, <1>4, <1>5

(* What a division leaves.                                                 *)
LEMMA Remainder ==
    ASSUME NEW d \in Nat, d > 0, NEW p \in Nat, NEW q, q = p \div d
    PROVE  d * q \in Int /\ p - d * q \in 0..(d - 1)
<1>1. q \in Int /\ d * q \in Int
  BY SMT
<1>2. p - d * q >= 0 /\ p - d * q < d
  BY <1>1, SMT
<1> QED
  BY <1>1, <1>2, SMT

(* The additions under way cover the claims.                               *)
LEMMA ClaimedIsPending ==
    ASSUME TypeOK, NEW n \in Node
    PROVE  /\ IsFiniteSet(Claimed(n)) /\ Cardinality(Claimed(n)) <= Pending(n)
           /\ Pending(n) \in Nat
<1> DEFINE single == {t \in Adders(n) : touched[t] = 1}
           huge == {t \in Adders(n) : touched[t] # 1}
           one == [t \in single |-> at[t]]
           slot == [x \in huge \X (0..(HugeSize - 1)) |-> HugeSize * (at[x[1]] \div HugeSize) + x[2]]
           oneClaimed == UNION {Claim(t) : t \in single}
           hugeClaimed == UNION {Claim(t) : t \in huge}
<1>1. HugeSize \in Nat /\ HugeSize > 0 /\ \A t \in Thread : at[t] \in Page /\ at[t] \in Nat
  <2>1. HugeSize \in Nat /\ HugeSize > 0
    BY NumaAssumption
  <2>2. \A t \in Thread : at[t] \in Page
    BY DEF TypeOK
  <2>3. \A p \in Page : p \in Nat
    BY PageFacts
  <2> QED
    BY <2>1, <2>2, <2>3
<1>2. single \subseteq Thread /\ huge \subseteq Thread
  BY DEF Adders
<1>3. IsFiniteSet(single) /\ IsFiniteSet(huge) /\ IsFiniteSet(0..(HugeSize - 1))
      /\ Cardinality(0..(HugeSize - 1)) = HugeSize
      /\ Cardinality(single) \in Nat /\ Cardinality(huge) \in Nat
  <2>1. IsFiniteSet(single) /\ IsFiniteSet(huge)
    BY <1>2, NumaAssumption, FS_Subset
  <2>2. /\ IsFiniteSet(0..(HugeSize - 1))
        /\ Cardinality(0..(HugeSize - 1)) = HugeSize
    BY <1>1, FS_Interval
  <2> QED
    BY <2>1, <2>2, FS_CardinalityType
<1>4. /\ IsFiniteSet(oneClaimed) /\ Cardinality(oneClaimed) <= Cardinality(single)
  <2>1. \A p \in oneClaimed : \E t \in single : one[t] = p
    BY DEF Claim, Adders
  <2> QED
    BY <1>3, <2>1, ImageSize
<1>5. /\ IsFiniteSet(hugeClaimed) /\ Cardinality(hugeClaimed) <= HugeSize * Cardinality(huge)
  <2>1. /\ IsFiniteSet(huge \X (0..(HugeSize - 1)))
        /\ Cardinality(huge \X (0..(HugeSize - 1))) = Cardinality(huge) * HugeSize
    BY <1>3, FS_Product
  <2>2. ASSUME NEW p \in hugeClaimed
        PROVE  \E x \in huge \X (0..(HugeSize - 1)) : slot[x] = p
    <3>1. PICK t \in huge : p \in Claim(t)
      OBVIOUS
    <3>2. p \in HugePage(at[t])
      BY <3>1 DEF Claim, Adders
    <3>3. p \in Nat /\ p \div HugeSize = at[t] \div HugeSize
      BY <3>2, PageFacts DEF HugePage
    <3> DEFINE first == HugeSize * (at[t] \div HugeSize)
               x == <<t, p - first>>
    <3>4. first \in Int /\ p - first \in 0..(HugeSize - 1)
      BY <1>1, <3>3, Remainder
    <3>5. x \in huge \X (0..(HugeSize - 1)) /\ x[1] = t /\ x[2] = p - first
      <4> HIDE DEF first
      <4> QED
        BY <3>4
    <3>6. slot[x] = first + x[2]
      <4>1. slot[x] = HugeSize * (at[x[1]] \div HugeSize) + x[2]
        <5> HIDE DEF x, huge
        <5> QED
          BY <3>5
      <4>2. x[1] = t
        BY <3>5
      <4> HIDE DEF x, slot
      <4> QED
        BY <4>1, <4>2
    <3>7. slot[x] = p
      <4> HIDE DEF x, slot, first
      <4> QED
        BY <3>3, <3>4, <3>5, <3>6
    <3> QED
      BY <3>5, <3>7
  <2>3. IsFiniteSet(hugeClaimed) /\ Cardinality(hugeClaimed) <= Cardinality(huge) * HugeSize
    <3>1. DOMAIN slot = huge \X (0..(HugeSize - 1))
      OBVIOUS
    <3>2. slot = [x \in huge \X (0..(HugeSize - 1)) |-> slot[x]]
      OBVIOUS
    <3> HIDE DEF slot, hugeClaimed
    <3> QED
      BY <2>1, <2>2, <3>1, <3>2, ImageSize
  <2> QED
    BY <1>1, <1>3, <2>3
<1>6. Claimed(n) = oneClaimed \cup hugeClaimed
  BY DEF Claimed
<1>7. /\ Cardinality(oneClaimed) \in Nat /\ Cardinality(hugeClaimed) \in Nat
      /\ IsFiniteSet(Claimed(n)) /\ Cardinality(Claimed(n)) \in Nat
      /\ Cardinality(oneClaimed \cap hugeClaimed) \in Nat
      /\ Cardinality(Claimed(n)) = Cardinality(oneClaimed) + Cardinality(hugeClaimed)
                                       - Cardinality(oneClaimed \cap hugeClaimed)
  <2> HIDE DEF oneClaimed, hugeClaimed
  <2>1. /\ IsFiniteSet(oneClaimed \cup hugeClaimed)
        /\ Cardinality(oneClaimed \cup hugeClaimed) =
               Cardinality(oneClaimed) + Cardinality(hugeClaimed)
                   - Cardinality(oneClaimed \cap hugeClaimed)
    BY <1>4, <1>5, FS_Union
  <2>2. IsFiniteSet(oneClaimed \cap hugeClaimed)
    BY <1>4, FS_Intersection
  <2> QED
    BY <1>4, <1>5, <1>6, <2>1, <2>2, FS_CardinalityType
<1>8. Pending(n) = Cardinality(single) + HugeSize * Cardinality(huge)
  BY DEF Pending
<1>9. HugeSize * Cardinality(huge) \in Nat
  BY <1>1, <1>3
<1> QED
  BY <1>3, <1>4, <1>5, <1>7, <1>8, <1>9

(* The counters cover the recorded pages up to the claims, which the       *)
(* additions under way cover.                                              *)
LEMMA CountsCover ==
    ASSUME TypeOK, CountsUnclaimed
    PROVE  CountersCover /\ NoUnderflow
<1> SUFFICES ASSUME NEW n \in Node
             PROVE  /\ current[n] + Pending(n) >= Cardinality(Recorded(Page \ Uncounted, n))
                    /\ current[n] >= 0
  BY DEF CountersCover, NoUnderflow
<1>1. /\ IsFiniteSet(Unclaimed(n)) /\ Cardinality(Unclaimed(n)) \in Nat
      /\ Cardinality(Unclaimed(n)) <= current[n] /\ current[n] \in Int
  BY UnclaimedFinite DEF CountsUnclaimed, TypeOK
<1>2. /\ IsFiniteSet(Claimed(n)) /\ Cardinality(Claimed(n)) <= Pending(n) /\ Pending(n) \in Nat
      /\ Cardinality(Claimed(n)) \in Nat
  BY ClaimedIsPending, FS_CardinalityType
<1>3. Recorded(Page \ Uncounted, n) \subseteq Unclaimed(n) \cup Claimed(n)
  BY DEF Unclaimed
<1>4. /\ IsFiniteSet(Unclaimed(n) \cup Claimed(n))
      /\ Cardinality(Unclaimed(n) \cup Claimed(n)) =
             Cardinality(Unclaimed(n)) + Cardinality(Claimed(n))
                 - Cardinality(Unclaimed(n) \cap Claimed(n))
      /\ Cardinality(Unclaimed(n) \cap Claimed(n)) \in Nat
  BY <1>1, <1>2, FS_Union, FS_Intersection, FS_CardinalityType
<1>5. /\ Cardinality(Recorded(Page \ Uncounted, n)) <= Cardinality(Unclaimed(n) \cup Claimed(n))
      /\ Cardinality(Recorded(Page \ Uncounted, n)) \in Nat
  BY <1>3, <1>4, FS_Subset, FS_CardinalityType
<1> QED
  BY <1>1, <1>2, <1>4, <1>5

-----------------------------------------------------------------------------
(* The theorems.                                                           *)

(* Nothing is recorded and nothing counted at the start.                   *)
LEMMA IInvStarts == Init => IInv
<1> SUFFICES ASSUME Init PROVE IInv
  OBVIOUS
<1>1. Base /\ NodeIsKernels /\ NodeFound /\ NodeMoves
  BY BaseStarts DEF Init, NodeIsKernels, NodeFound, NodeMoves
<1>2. ASSUME NEW n \in Node
      PROVE  Cardinality(Unclaimed(n)) <= current[n]
  <2>1. n # NoNode
    BY NumaAssumption
  <2>2. Unclaimed(n) = {}
    BY <2>1 DEF Init, Unclaimed, Recorded
  <2>3. current[n] = 0
    BY DEF Init
  <2> QED
    BY <2>2, <2>3, FS_EmptySet
<1> QED
  BY <1>1, <1>2 DEF IInv, CountsUnclaimed

(* The invariant: of a program that does not mbind what it has touched and *)
(* does not unmap a part of a huge page while the rest is accessed, for    *)
(* any number of threads, nodes, pages and pages in a huge page.           *)
THEOREM Invariance ==
    ASSUME ~ BindTouched, ~ UnmapAnytime
    PROVE  Spec => []IInv
<1>1. IInv /\ [Next]_vars => IInv'
  <2>1. IInv /\ [Next]_vars => Base'
    BY TypeKept, HomeKept, RangesKept, FreshKept, SettledKept DEF Base, IInv
  <2> QED
    BY <2>1, NodesKept, FoundKept, MovesKept, CountsKept DEF IInv
<1> QED
  BY <1>1, IInvStarts, PTL DEF Spec

(* A node in the table is the one the kernel has the page on, and a page   *)
(* that is not there has none, whichever threads race for its first touch  *)
(* and whatever is unmapped, moved and mapped again (outside of the hook   *)
(* that moves it).                                                         *)
THEOREM NodesAreKernels ==
    ASSUME ~ BindTouched, ~ UnmapAnytime
    PROVE  Spec => []NodeIsKernels
<1>1. IInv => NodeIsKernels
  BY DEF IInv
<1> QED
  BY <1>1, Invariance, PTL

(* currentAllocatedPages of a node, with the additions under way, covers   *)
(* the pages the table has on it that no munmap has subtracted: munmap     *)
(* subtracts only what was added.                                          *)
THEOREM CountersCoverPages ==
    ASSUME ~ BindTouched, ~ UnmapAnytime
    PROVE  Spec => []CountersCover
<1>1. IInv => CountersCover
  BY CountsCover DEF IInv, Base
<1> QED
  BY <1>1, Invariance, PTL

(* currentAllocatedPages, unsigned in the code, is never taken below zero. *)
THEOREM CountersDoNotWrap ==
    ASSUME ~ BindTouched, ~ UnmapAnytime
    PROVE  Spec => []NoUnderflow
<1>1. IInv => NoUnderflow
  BY CountsCover DEF IInv, Base
<1> QED
  BY <1>1, Invariance, PTL

=============================================================================
