------------------------------ MODULE PageNuma ------------------------------
(***************************************************************************)
(* The NUMA side of the shadow page table: on which node a page is, how    *)
(* the first touch finds it out, and how many pages each node holds.       *)
(* core/ThreadTracker.cpp (onAccessHandling up to onAfterFirstTouch),      *)
(* core/ProcessTracker.cpp (onAfterFirstTouch, onMunmap) and               *)
(* core/PageTable.cpp (huge pages, clear, trackMMap, mremap, onMbind).     *)
(*                                                                         *)
(* None of this is locked.  A step is one access to shared memory or one   *)
(* system call, except that a loop over the pages of one call is a step.   *)
(*                                                                         *)
(* The counters are unsigned in the code; here they may go below zero, so  *)
(* that a property can say when they do.  Who was pinned at the first      *)
(* touch (fromPinnedThread) and the emulated NUMA mode are left out.       *)
(***************************************************************************)
EXTENDS Integers, FiniteSets

CONSTANTS
    Thread,
    Node,
    PageCnt,
    HugeSize,      \* pages in a huge page
    File,          \* file descriptors mmap may be given, and the anonymous one
    BindTouched,   \* does the program mbind memory that it has touched?
    UnmapAnytime,  \* does it unmap a part of a huge page while another thread
                   \* is accessing the rest?
    CountBound,    \* bound: no access starts when a counter has reached it
    NoNode,        \* NUMAPROF_DEFAULT_NUMA_NODE, and an error of move_pages
    NoFile         \* NUMAPROF_PAGE_UNMAPPED_FD

ASSUME NumaAssumption ==
    /\ IsFiniteSet(Thread)
    /\ PageCnt \in Nat \ {0} /\ HugeSize \in Nat \ {0} /\ CountBound \in Nat
    /\ NoNode \notin Node /\ NoFile \notin File
    /\ BindTouched \in BOOLEAN /\ UnmapAnytime \in BOOLEAN

Page == 0..(PageCnt - 1)

(* The pages of the huge page that p is in.                                *)
HugePage(p) == {q \in Page : q \div HugeSize = p \div HugeSize}

(* Is it in the address space as a whole?                                  *)
Whole(p) == Cardinality(HugePage(p)) = HugeSize

Ranges == {r \in [lo : Page, hi : Page] : r.lo <= r.hi}

Pages(r) == r.lo..r.hi

NoRange == [lo |-> 1, hi |-> 0]

VARIABLES
    mapped,      \* kernel: the pages of the program
    home,        \* kernel: the node of each page that is present
    numaNode,    \* the node the page table gives
    fd,          \* the file each page was mapped from
    current,     \* currentAllocatedPages
    max,         \* maxAllocatedPages
    pc,          \* where each thread is
    at,          \* the page it accesses
    write,       \* is the access a write?
    pageNode,    \* local variable of onAccessHandling
    touched,     \* touchedPages
    res,         \* local variable of onAfterFirstTouch
    old,         \* the range a call of munmap or mremap leaves
    new          \* the range that mremap moves to

kernelVars == <<mapped, home>>
tableVars == <<numaNode, fd>>
countVars == <<current, max>>
localVars == <<at, write, pageNode, touched, res>>
callVars == <<old, new>>
vars == <<mapped, home, numaNode, fd, current, max, pc, at, write, pageNode,
          touched, res, old, new>>

AccessLabel == {"query", "touch", "canBeHuge", "plain", "status", "setHuge",
                "setNode", "add", "check", "store"}

TypeOK ==
    /\ mapped \in SUBSET Page
    /\ home \in [Page -> Node \cup {NoNode}]
    /\ numaNode \in [Page -> Node \cup {NoNode}]
    /\ fd \in [Page -> File \cup {NoFile}]
    /\ current \in [Node -> Int]
    /\ max \in [Node -> Nat]
    /\ pc \in [Thread -> AccessLabel \cup {"idle", "uncount", "clear", "remap"}]
    /\ at \in [Thread -> Page]
    /\ write \in [Thread -> BOOLEAN]
    /\ pageNode \in [Thread -> Node \cup {NoNode}]
    /\ touched \in [Thread -> {1, HugeSize}]
    /\ res \in [Thread -> Int]
    /\ old \in [Thread -> Ranges \cup {NoRange}]
    /\ new \in [Thread -> Ranges \cup {NoRange}]

Init ==
    /\ mapped = {}
    /\ home = [p \in Page |-> NoNode]
    /\ numaNode = [p \in Page |-> NoNode]
    /\ fd = [p \in Page |-> NoFile]
    /\ current = [n \in Node |-> 0]
    /\ max = [n \in Node |-> 0]
    /\ pc = [t \in Thread |-> "idle"]
    /\ at = [t \in Thread |-> 0]
    /\ write = [t \in Thread |-> FALSE]
    /\ pageNode = [t \in Thread |-> NoNode]
    /\ touched = [t \in Thread |-> 1]
    /\ res = [t \in Thread |-> 0]
    /\ old = [t \in Thread |-> NoRange]
    /\ new = [t \in Thread |-> NoRange]

Goto(t, label) == pc' = [pc EXCEPT ![t] = label]

Idle(t) == pc[t] = "idle"

Accessing(t) == pc[t] \in AccessLabel

(* The hook of an access returns.                                          *)
Leave(t) ==
    /\ Goto(t, "idle")
    /\ at' = [at EXCEPT ![t] = 0]
    /\ write' = [write EXCEPT ![t] = FALSE]
    /\ pageNode' = [pageNode EXCEPT ![t] = NoNode]
    /\ touched' = [touched EXCEPT ![t] = 1]
    /\ res' = [res EXCEPT ![t] = 0]

-----------------------------------------------------------------------------
(* The kernel and the program.                                             *)

(* Pages that are being moved: not yet the program's, not yet to reuse.    *)
Leaving == UNION {Pages(old[t]) : t \in Thread}

Arriving == UNION {Pages(new[t]) : t \in Thread}

(* The kernel puts p on a node, or the whole huge page when nothing of it  *)
(* is there yet (transparent huge pages).                                  *)
Placed(p, h) ==
    IF home[p] # NoNode THEN h = home
    ELSE \E n \in Node :
             \/ h = [home EXCEPT ![p] = n]
             \/ /\ Whole(p)
                /\ \A q \in HugePage(p) : q \in mapped /\ home[q] = NoNode
                /\ h = [q \in Page |-> IF q \in HugePage(p) THEN n ELSE home[q]]

(* A page gets there without a hook: the kernel writes to it.              *)
kernelTouch(p) ==
    /\ p \in mapped
    /\ home[p] = NoNode
    /\ \E n \in Node : home' = [home EXCEPT ![p] = n]
    /\ UNCHANGED <<mapped, tableVars, countVars, pc, localVars, callVars>>

(* A program does not unmap what it is accessing.                          *)
MayMove(r) ==
    /\ Pages(r) \subseteq mapped \ (Arriving \cup Leaving)
    /\ \A t \in Thread : Accessing(t) =>
           Pages(r) \cap (IF UnmapAnytime THEN {at[t]} ELSE HugePage(at[t])) = {}

Free(r) == Pages(r) \cap (mapped \cup Arriving \cup Leaving) = {}

-----------------------------------------------------------------------------
(* Hooks of mmap, munmap, mremap and mbind.                                *)

(* The hook runs before the program gets the address: trackMMap.  Growing  *)
(* the heap or a stack has no hook, and is a file that is NoFile.          *)
onMmap(r, file) ==
    /\ Free(r)
    /\ mapped' = mapped \cup Pages(r)
    /\ fd' = [p \in Page |-> IF p \in Pages(r) THEN file ELSE fd[p]]
    /\ UNCHANGED <<home, numaNode, countVars, pc, localVars, callVars>>

(* The system call; its hook runs after it.                                *)
munmap(t, r) ==
    /\ Idle(t)
    /\ MayMove(r)
    /\ mapped' = mapped \ Pages(r)
    /\ home' = [p \in Page |-> IF p \in Pages(r) THEN NoNode ELSE home[p]]
    /\ old' = [old EXCEPT ![t] = r]
    /\ Goto(t, "uncount")
    /\ UNCHANGED <<tableVars, countVars, localVars, new>>

Recorded(pages, n) == {p \in pages : numaNode[p] = n}

(* The pages that have a node are subtracted from it ...                   *)
onMunmap(t) ==
    /\ pc[t] = "uncount"
    /\ current' = [n \in Node |->
                       current[n] - Cardinality(Recorded(Pages(old[t]), n))]
    /\ Goto(t, "clear")
    /\ UNCHANGED <<kernelVars, tableVars, max, localVars, callVars>>

(* Mutant: the node stays.                                                 *)
clearKeepsNode(t) ==
    /\ pc[t] = "clear"
    /\ fd' = [p \in Page |-> IF p \in Pages(old[t]) THEN NoFile ELSE fd[p]]
    /\ old' = [old EXCEPT ![t] = NoRange]
    /\ Goto(t, "idle")
    /\ UNCHANGED <<kernelVars, numaNode, countVars, localVars, new>>

(* ... and the pages cleared.                                              *)
clear(t) ==
    /\ pc[t] = "clear"
    /\ numaNode' = [p \in Page |-> IF p \in Pages(old[t]) THEN NoNode ELSE numaNode[p]]
    /\ fd' = [p \in Page |-> IF p \in Pages(old[t]) THEN NoFile ELSE fd[p]]
    /\ old' = [old EXCEPT ![t] = NoRange]
    /\ Goto(t, "idle")
    /\ UNCHANGED <<kernelVars, countVars, localVars, new>>

(* Of the pages of the old range, those that the new one has room for.     *)
Moved(from, to) == {p \in Pages(to) : p - to.lo + from.lo <= from.hi}

(* values, with those of the range from moved to the range to, and the     *)
(* rest of from cleared.                                                   *)
Remapped(values, from, to, none) ==
    [p \in Page |->
        IF p \in Moved(from, to) THEN values[p - to.lo + from.lo]
        ELSE IF p \in Pages(from) THEN none
        ELSE values[p]]

mremap(t, from, to) ==
    /\ Idle(t)
    /\ MayMove(from)
    /\ \/ Free(to)
       \/ to.lo = from.lo /\ Pages(to) \cap (mapped \cup Arriving \cup Leaving)
                             \subseteq Pages(from)
    /\ mapped' = (mapped \ Pages(from)) \cup Pages(to)
    /\ home' = Remapped(home, from, to, NoNode)
    /\ old' = [old EXCEPT ![t] = from]
    /\ new' = [new EXCEPT ![t] = to]
    /\ Goto(t, "remap")
    /\ UNCHANGED <<tableVars, countVars, localVars>>

(* The shadow pages move; the counters of the nodes are left alone.        *)
onMremap(t) ==
    /\ pc[t] = "remap"
    /\ numaNode' = Remapped(numaNode, old[t], new[t], NoNode)
    /\ fd' = Remapped(fd, old[t], new[t], NoFile)
    /\ old' = [old EXCEPT ![t] = NoRange]
    /\ new' = [new EXCEPT ![t] = NoRange]
    /\ Goto(t, "idle")
    /\ UNCHANGED <<kernelVars, countVars, localVars>>

(* mbind may move the pages that are there; its hook then asks the kernel  *)
(* for every page, and counts nothing.                                     *)
onMbind(r) ==
    /\ Pages(r) \subseteq mapped \ Arriving
    /\ BindTouched \/ \A p \in Pages(r) : home[p] = NoNode
    /\ \E n \in Node : home' \in
           {home, [p \in Page |-> IF p \in Pages(r) /\ home[p] # NoNode
                                  THEN n ELSE home[p]]}
    /\ numaNode' = [p \in Page |-> IF p \in Pages(r) THEN home'[p] ELSE numaNode[p]]
    /\ UNCHANGED <<mapped, fd, countVars, pc, localVars, callVars>>

-----------------------------------------------------------------------------
(* onAccessHandling.                                                       *)

Room == \A n \in Node : current[n] < CountBound

(* The page table is asked first.  When it knows the node there is nothing *)
(* to do but count the access, which leaves this state alone.              *)
onAccess(t, p, w) ==
    /\ Idle(t)
    /\ p \in mapped \ Arriving
    /\ numaNode[p] = NoNode
    /\ Room
    /\ at' = [at EXCEPT ![t] = p]
    /\ write' = [write EXCEPT ![t] = w]
    /\ Goto(t, "query")
    /\ UNCHANGED <<kernelVars, tableVars, countVars, pageNode, touched, res,
                   callVars>>

(* OS::getNumaOfPage.  A page that is not there has no node: an access     *)
(* that only reads it then changes nothing.                                *)
queryPresent(t) ==
    /\ pc[t] = "query"
    /\ home[at[t]] # NoNode
    /\ pageNode' = [pageNode EXCEPT ![t] = home[at[t]]]
    /\ Goto(t, "setNode")
    /\ UNCHANGED <<kernelVars, tableVars, countVars, at, write, touched, res,
                   callVars>>

queryAbsent(t) ==
    /\ pc[t] = "query"
    /\ home[at[t]] = NoNode
    /\ IF write[t] THEN Goto(t, "touch") /\ UNCHANGED localVars ELSE Leave(t)
    /\ UNCHANGED <<kernelVars, tableVars, countVars, callVars>>

(* The atomic addition of 0 that touches the page.                         *)
touch(t) ==
    /\ pc[t] = "touch"
    /\ Placed(at[t], home')
    /\ Goto(t, "canBeHuge")
    /\ UNCHANGED <<mapped, tableVars, countVars, localVars, callVars>>

canBeHugePage(t) ==
    /\ pc[t] = "canBeHuge"
    /\ Goto(t, IF /\ Whole(at[t])
                  /\ fd[at[t]] # NoFile
                  /\ \A q \in HugePage(at[t]) : fd[q] = fd[at[t]]
               THEN "status" ELSE "plain")
    /\ UNCHANGED <<kernelVars, tableVars, countVars, localVars, callVars>>

(* Mutant: the page gets its node, and is not counted.                     *)
touchedPlainKnown(t) ==
    /\ pc[t] = "plain"
    /\ numaNode' = [numaNode EXCEPT ![at[t]] = home[at[t]]]
    /\ Leave(t)
    /\ UNCHANGED <<kernelVars, fd, countVars, callVars>>

(* The page gets the node found before the touch: none.                    *)
touchedPlain(t) ==
    /\ pc[t] = "plain"
    /\ numaNode' = [numaNode EXCEPT ![at[t]] = pageNode[t]]
    /\ Leave(t)
    /\ UNCHANGED <<kernelVars, fd, countVars, callVars>>

(* Mutant: the pages of a huge page are added to the first one.            *)
getNumaOfHugePageAdds(t) ==
    LET isHugePage == \A q \in HugePage(at[t]) : home[q] = home[at[t]]
    IN  /\ pc[t] = "status"
        /\ pageNode' = [pageNode EXCEPT ![t] = home[at[t]]]
        /\ touched' = [touched EXCEPT ![t] = IF isHugePage THEN @ + HugeSize ELSE @]
        /\ Goto(t, IF isHugePage THEN "setHuge" ELSE "setNode")
        /\ UNCHANGED <<kernelVars, tableVars, countVars, at, write, res, callVars>>

(* Mutant: a huge page counts as one page.                                 *)
getNumaOfHugePageAsOne(t) ==
    LET isHugePage == \A q \in HugePage(at[t]) : home[q] = home[at[t]]
    IN  /\ pc[t] = "status"
        /\ pageNode' = [pageNode EXCEPT ![t] = home[at[t]]]
        /\ Goto(t, IF isHugePage THEN "setHuge" ELSE "setNode")
        /\ UNCHANGED <<kernelVars, tableVars, countVars, at, write, touched, res,
                       callVars>>

(* OS::getNumaOfHugePage: pages that are all on one node are taken to be a *)
(* huge page.                                                              *)
getNumaOfHugePage(t) ==
    LET isHugePage == \A q \in HugePage(at[t]) : home[q] = home[at[t]]
    IN  /\ pc[t] = "status"
        /\ pageNode' = [pageNode EXCEPT ![t] = home[at[t]]]
        /\ touched' = [touched EXCEPT ![t] = IF isHugePage THEN HugeSize ELSE @]
        /\ Goto(t, IF isHugePage THEN "setHuge" ELSE "setNode")
        /\ UNCHANGED <<kernelVars, tableVars, countVars, at, write, res, callVars>>

setHugePageFromPinnedThread(t) ==
    /\ pc[t] = "setHuge"
    /\ numaNode' = [p \in Page |-> IF p \in HugePage(at[t]) THEN pageNode[t]
                                                            ELSE numaNode[p]]
    /\ Goto(t, "setNode")
    /\ UNCHANGED <<kernelVars, fd, countVars, localVars, callVars>>

setNode(t) ==
    /\ pc[t] = "setNode"
    /\ numaNode' = [numaNode EXCEPT ![at[t]] = pageNode[t]]
    /\ Goto(t, "add")
    /\ UNCHANGED <<kernelVars, fd, countVars, localVars, callVars>>

(* onAfterFirstTouch: an atomic addition ...                               *)
onAfterFirstTouch(t) ==
    /\ pc[t] = "add"
    /\ current' = [current EXCEPT ![pageNode[t]] = @ + touched[t]]
    /\ res' = [res EXCEPT ![t] = current'[pageNode[t]]]
    /\ Goto(t, "check")
    /\ UNCHANGED <<kernelVars, tableVars, max, at, write, pageNode, touched,
                   callVars>>

(* ... a comparison of its result with the maximum ...                     *)
checkMax(t) ==
    /\ pc[t] = "check"
    /\ IF res[t] > max[pageNode[t]]
       THEN Goto(t, "store") /\ UNCHANGED localVars
       ELSE Leave(t)
    /\ UNCHANGED <<kernelVars, tableVars, countVars, callVars>>

(* ... and an atomic store.                                                *)
storeMax(t) ==
    /\ pc[t] = "store"
    /\ max' = [max EXCEPT ![pageNode[t]] = res[t]]
    /\ Leave(t)
    /\ UNCHANGED <<kernelVars, tableVars, current, callVars>>

-----------------------------------------------------------------------------
Next ==
    \/ \E p \in Page : kernelTouch(p)
    \/ \E r \in Ranges : onMbind(r)
    \/ \E r \in Ranges, file \in File \cup {NoFile} : onMmap(r, file)
    \/ \E t \in Thread :
          \/ \E r \in Ranges : munmap(t, r)
          \/ \E from, to \in Ranges : mremap(t, from, to)
          \/ onMunmap(t) \/ clear(t) \/ onMremap(t)
          \/ \E p \in Page, w \in BOOLEAN : onAccess(t, p, w)
          \/ queryPresent(t) \/ queryAbsent(t) \/ touch(t) \/ canBeHugePage(t)
          \/ touchedPlain(t) \/ getNumaOfHugePage(t)
          \/ setHugePageFromPinnedThread(t) \/ setNode(t)
          \/ onAfterFirstTouch(t) \/ checkMax(t) \/ storeMax(t)

Spec == Init /\ [][Next]_vars

-----------------------------------------------------------------------------
(* Properties.                                                             *)

(* "Define the NUMA node of the page of -2 if the page is not yet          *)
(* allocated nor first touched" (PageTable.hpp:115): a node in the table   *)
(* is the one the kernel has the page on, and a page that is not there has *)
(* none, except while the hook of the call that moves it is running.       *)
NodeIsKernels ==
    \A p \in Page \ (Leaving \cup Arriving) :
        numaNode[p] # NoNode => numaNode[p] = home[p]

(* The additions to n that are under way.                                  *)
Adders(n) == {t \in Thread : pc[t] \in {"setNode", "add"} /\ pageNode[t] = n}

Pending(n) ==
    Cardinality({t \in Adders(n) : touched[t] = 1})
        + HugeSize * Cardinality({t \in Adders(n) : touched[t] # 1})

(* The pages that munmap has subtracted and not yet cleared.               *)
Uncounted == UNION {Pages(old[t]) : t \in {u \in Thread : pc[u] = "clear"}}

(* The counter of a node covers the pages the table has on it, so that     *)
(* munmap, which subtracts them one by one, cannot take an unsigned        *)
(* counter below zero for good, whichever threads race for a first touch.  *)
CountersCover ==
    \A n \in Node :
        current[n] + Pending(n) >= Cardinality(Recorded(Page \ Uncounted, n))

(* "Keep track of pages allocated on each NUMA node." (ProcessTracker.hpp): *)
(* no number of pages is negative, which for the code is a huge one.       *)
NoUnderflow == \A n \in Node : current[n] >= 0

(* "Keep track of the max pages allocated on each NUMA node."              *)
(* (ProcessTracker.hpp): the maximum is not below the present number,      *)
(* except in between the two steps of an update.                           *)
MaxKept ==
    \A n \in Node :
        (\A t \in Thread : pc[t] \in {"check", "store"} => pageNode[t] # n)
            => current[n] <= max[n]

=============================================================================
