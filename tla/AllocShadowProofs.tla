-------------------------- MODULE AllocShadowProofs --------------------------
(***************************************************************************)
(* Proofs about AllocShadow, for every number of threads, pages, grains,   *)
(* mutexes and maps, and every set of blocks.  The types hold whatever     *)
(* mremap does; that lookups are exact but where a registration was given  *)
(* up, that it was given up in the race of PageTable.cpp:295 or after it,  *)
(* that no pointer is wild and that no map is lost hold when mremap does   *)
(* not work in place, a range is not mapped again before its hook has run, *)
(* and no block of size 0 starts a page.                                   *)
(***************************************************************************)
EXTENDS AllocShadow, TLAPS

USE ShadowAssumption DEF Label

-----------------------------------------------------------------------------
(* Pages and grains.                                                       *)

(* The page of a grain, and the grain's place in it.                       *)
LEMMA PageBounds ==
    ASSUME NEW g \in Nat
    PROVE  /\ PageOf(g) \in Nat
           /\ PageOf(g) * Grains <= g
           /\ g < PageOf(g) * Grains + Grains
           /\ Index(g) \in 0..(Grains - 1)
           /\ g = PageOf(g) * Grains + Index(g)
BY Z3 DEF PageOf, Index

(* The page of a grain is the one whose bounds it is within.               *)
LEMMA PageUnique ==
    ASSUME NEW g \in Nat, NEW p \in Nat, p * Grains <= g, g < p * Grains + Grains
    PROVE  PageOf(g) = p
BY Z3 DEF PageOf

(* A page has the grains whose page it is.                                 *)
LEMMA InPage ==
    ASSUME NEW g \in Nat, NEW p \in Nat
    PROVE  g \in GrainsOf(p) <=> PageOf(g) = p
<1>1. p * Grains \in Nat
  BY Z3
<1>2. g \in GrainsOf(p) <=> p * Grains <= g /\ g < p * Grains + Grains
  BY <1>1 DEF GrainsOf
<1> QED
  BY <1>2, PageBounds, PageUnique

(* Pages follow the order of their grains.                                 *)
LEMMA PageMonotone ==
    ASSUME NEW g \in Nat, NEW h \in Nat, g <= h
    PROVE  PageOf(g) <= PageOf(h)
BY Z3 DEF PageOf

(* Pages and grains are numbers.                                           *)
LEMMA NatPage == Page \subseteq Nat /\ Grain \subseteq Nat /\ 0 \in Page
BY DEF Page, Grain

(* The page of a grain is a page of the address space.                     *)
LEMMA GrainPage ==
    ASSUME NEW g \in Grain
    PROVE  PageOf(g) \in Page
BY Z3 DEF PageOf, Page, Grain

(* The grains of a page are in the address space.                          *)
LEMMA PageGrain ==
    ASSUME NEW p \in Page, NEW g \in GrainsOf(p)
    PROVE  g \in Grain
BY Z3 DEF GrainsOf, Page, Grain

(* Two grains of a page with the same entry are the same.                  *)
LEMMA IndexInjective ==
    ASSUME NEW g \in Nat, NEW h \in Nat, PageOf(g) = PageOf(h), Index(g) = Index(h)
    PROVE  g = h
BY PageBounds

(* Every entry of a map is that of a grain of the page.                    *)
LEMMA IndexOnto ==
    ASSUME NEW p \in Page, NEW i \in 0..(Grains - 1)
    PROVE  \E g \in GrainsOf(p) : Index(g) = i
<1>1. p * Grains + i \in GrainsOf(p)
  BY Z3 DEF GrainsOf, Page
<1>2. Index(p * Grains + i) = i
  BY Z3 DEF Index, Page
<1> QED
  BY <1>1, <1>2

-----------------------------------------------------------------------------
(* Blocks.                                                                 *)

(* The fields of a block.                                                  *)
LEMMA BlockType ==
    ASSUME NEW b \in Block
    PROVE  b.start \in Grain /\ b.start \in Nat /\ b.size \in Nat /\ PageOf(b.start) \in Page
BY NatPage, GrainPage

(* What a block covers is in its room, and within the address space.       *)
LEMMA ContentType ==
    ASSUME NEW b \in Block
    PROVE  /\ Content(b) \subseteq Grain
           /\ \A g \in Content(b) : g \in Nat /\ PageOf(g) \in Page
           /\ Content(b) \subseteq Room(b) /\ b.start \in Room(b)
           /\ Room(b) \subseteq Grain
<1>1. b.start \in Nat /\ b.size \in Nat /\ b.start \in Grain
  BY BlockType
<1>2. PageCnt * Grains \in Nat
  OBVIOUS
<1>3. Content(b) \subseteq Grain
  BY <1>1, <1>2 DEF Content, Grain
<1> QED
  BY <1>1, <1>3, NatPage, GrainPage DEF Room

(* regAllocPointer stays within the address space.                         *)
LEMMA SpanType ==
    ASSUME NEW b \in Block
    PROVE  Span(b) \subseteq Grain /\ Pages(b) \subseteq Page
<1>1. Span(b) \subseteq Grain
  <2>1. CASE b.size = 0 /\ b.start % Grains = 0
    BY <2>1, BlockType, PageGrain DEF Span
  <2>2. CASE ~(b.size = 0 /\ b.start % Grains = 0)
    BY <2>2, ContentType DEF Span
  <2> QED
    BY <2>1, <2>2
<1> QED
  BY <1>1, GrainPage DEF Pages

(* No block of size 0 starts a page.                                       *)
NoEmptyStart == \A b \in Block : b.size = 0 => b.start % Grains # 0

(* regAllocPointer registers what a block covers.                          *)
LEMMA SpanIsContent ==
    ASSUME NoEmptyStart, NEW b \in Block
    PROVE  /\ Span(b) = Content(b)
           /\ Pages(b) = {PageOf(g) : g \in Content(b)}
           /\ \A p \in Page : IsFull(b, p) => GrainsOf(p) \subseteq Content(b)
BY DEF Span, NoEmptyStart, Pages, IsFull

(* The pages of a block are consecutive, from the one it starts in.        *)
LEMMA PagesConsecutive ==
    ASSUME NoEmptyStart, NEW b \in Block, NEW g \in Content(b)
    PROVE  /\ PageOf(b.start) <= PageOf(g)
           /\ PageOf(b.start) \in Pages(b)
           /\ \A p \in Pages(b) : p + 1 \notin Pages(b) => PageOf(g) <= p
<1>1. b.start \in Nat /\ b.size \in Nat /\ Content(b) = b.start..(b.start + b.size - 1)
  BY BlockType DEF Content
<1>2. g \in Nat /\ b.start <= g /\ b.start \in Content(b)
  BY <1>1
<1>3. PageOf(b.start) <= PageOf(g)
  BY <1>1, <1>2, PageMonotone
<1>4. PageOf(b.start) \in Pages(b)
  BY <1>2, SpanIsContent
<1>5. ASSUME NEW p \in Pages(b), p + 1 \notin Pages(b), p < PageOf(g)
      PROVE  FALSE
  <2> DEFINE h == (p + 1) * Grains
  <2>1. PICK c \in Content(b) : PageOf(c) = p
    BY SpanIsContent
  <2>2. c \in Nat /\ p \in Nat /\ b.start <= c
    <3>1. c \in Nat /\ b.start <= c
      BY <2>1, <1>1
    <3>2. Pages(b) \subseteq Page
      BY SpanType
    <3> QED
      BY <3>1, <3>2, NatPage
  <2>3. c < p * Grains + Grains
    BY <2>1, <2>2, PageBounds
  <2>4. PageOf(g) \in Nat /\ PageOf(g) * Grains <= g
    BY <1>2, PageBounds
  <2>5. h \in Nat /\ h = p * Grains + Grains
    BY <2>2, Z3
  <2>6. h <= PageOf(g) * Grains
    BY <1>5, <2>2, <2>4, Z3
  <2>7. b.start <= h /\ h <= g
    BY <2>2, <2>3, <2>4, <2>5, <2>6, <1>1, <1>2, Z3
  <2>8. h \in Content(b)
    BY <2>5, <2>7, <1>1, <1>2
  <2>9. PageOf(h) = p + 1
    BY <2>2, <2>5, Z3 DEF PageOf
  <2> QED
    BY <2>8, <2>9, <1>5, SpanIsContent
<1>6. \A p \in Pages(b) : p \in Nat /\ PageOf(g) \in Nat
  BY <1>2, SpanType, NatPage, PageBounds
<1> QED
  BY <1>3, <1>4, <1>5, <1>6

-----------------------------------------------------------------------------
(* Type correctness and control.                                           *)

(* Where a thread is, by the hook it executes.                             *)
Lookup == {"lookup", "read", "found"}

Loop == {"status", "setFull", "setPtr", "isNone", "isFull", "readMap", "lock", "create",
         "publish", "mark"}

ControlOf(t) ==
    /\ hook[t].op = "none" <=> pc[t] = "idle"
    /\ hook[t].op = "unmap" <=> pc[t] = "clear"
    /\ hook[t].op = "access" => pc[t] \in Lookup
    /\ hook[t].op = "alloc" => pc[t] \in Loop \cup {"return"}
    /\ hook[t].op = "free" => pc[t] \in Lookup \cup Loop \cup {"return"}

ControlInv == \A t \in Thread : ControlOf(t)

(* What onFree unregisters is a block.                                     *)
FoundOf(t) ==
    hook[t].op = "free" /\ pc[t] \notin Lookup => found[t] \in Block

FoundInv == \A t \in Thread : FoundOf(t)

(* A thread registers or unregisters a block.                              *)
Busy(t) == hook[t].op \in {"alloc", "free"}

TypeInv == TypeOK /\ ControlInv /\ FoundInv

(* The hooks, by the operation they report.                                *)
LEMMA HookCases ==
    ASSUME NEW h \in Hook
    PROVE  \/ h = [op |-> "none"]
           \/ h.op = "alloc" /\ h.block \in Block /\ h = [op |-> "alloc", block |-> h.block]
           \/ h.op = "free" /\ h.block \in Block /\ h = [op |-> "free", block |-> h.block]
           \/ h.op = "access" /\ h.grain \in Grain
           \/ h.op = "unmap" /\ h.old \in SUBSET Page /\ h.new \in SUBSET Page
BY DEF Hook

(* The hooks the actions start are hooks.                                  *)
LEMMA HookTypes ==
    /\ [op |-> "none"] \in Hook
    /\ \A b \in Block : [op |-> "alloc", block |-> b] \in Hook
                        /\ [op |-> "free", block |-> b] \in Hook
    /\ \A g \in Grain : [op |-> "access", grain |-> g] \in Hook
    /\ \A old, new \in SUBSET Page : [op |-> "unmap", old |-> old, new |-> new] \in Hook
BY DEF Hook

(* The table is empty and the threads idle at first.                       *)
LEMMA TypeInit == Init => TypeInv
<1> SUFFICES ASSUME Init PROVE TypeInv
  OBVIOUS
<1>1. TypeOK
  BY NatPage, HookTypes DEF Init, TypeOK
<1>2. ControlInv /\ FoundInv
  BY DEF Init, ControlInv, ControlOf, FoundInv, FoundOf, Lookup, Loop
<1> QED
  BY <1>1, <1>2 DEF TypeInv

(* A thread that is registering has the block at hand.                     *)
LEMMA RegisteredType ==
    ASSUME TypeInv, NEW t \in Thread, pc[t] \in Loop
    PROVE  /\ Busy(t)
           /\ Registered(t) \in Block
           /\ Value(t) \in Block \cup {NULL}
<1>1. hook[t] \in Hook /\ pc[t] \notin Lookup /\ pc[t] \notin {"idle", "clear"}
  BY DEF TypeInv, TypeOK, Loop, Lookup
<1>2. hook[t].op \notin {"none", "unmap", "access"}
  BY <1>1 DEF TypeInv, ControlInv, ControlOf
<1>3. hook[t].op \in {"alloc", "free"} /\ hook[t].block \in Block
  BY <1>1, <1>2, HookCases
<1> QED
  BY <1>1, <1>3 DEF TypeInv, FoundInv, FoundOf, Registered, Value, Busy

(* The loop over the pages stays within them.                              *)
LEMMA NextPageType ==
    ASSUME TypeInv, NEW t \in Thread, pc[t] \in Loop, NextPage(t)
    PROVE  /\ at' \in [Thread -> Page]
           /\ pc'[t] \in {"status", "return"}
           /\ pc' \in [Thread -> Label]
<1>1. Registered(t) \in Block
  BY RegisteredType
<1>2. Pages(Registered(t)) \subseteq Page
  BY <1>1, SpanType
<1>3. at' \in [Thread -> Page]
  BY <1>2 DEF NextPage, TypeInv, TypeOK
<1>4. pc' = [pc EXCEPT ![t] = "status"] \/ pc' = [pc EXCEPT ![t] = "return"]
  BY DEF NextPage, Goto
<1>5. pc \in [Thread -> Label]
  BY DEF TypeInv, TypeOK
<1> QED
  BY <1>3, <1>4, <1>5

(* The locals of the other threads stay.                                   *)
OthersStay(t) ==
    \A u \in Thread \ {t} :
        /\ pc'[u] = pc[u] /\ hook'[u] = hook[u] /\ at'[u] = at[u]
        /\ map'[u] = map[u] /\ seen'[u] = seen[u] /\ found'[u] = found[u]

(* onMunmap, and onMremap when it moves ranges that are not reused early.  *)
Unmap(t, old, new) ==
    /\ EnterUnmap(t, old, new)
    /\ ~InPlaceRemap /\ ~QuickReuse => new \cap (mapped \cup Arriving \cup Leaving) = {}

ThreadStep(t) ==
    \/ \E b \in Block : onAlloc(t, b) \/ onFree(t, b)
    \/ \E g \in Grain : onAccess(t, g)
    \/ \E old \in SUBSET Page : \E new \in SUBSET Page : Unmap(t, old, new)
    \/ lookup(t) \/ getAllocPointer(t) \/ countAccess(t)
    \/ freeUnknown(t) \/ freeKnown(t)
    \/ fullPage(t) \/ setFull(t) \/ setPtr(t)
    \/ regAllocPointerSmall(t) \/ isNone(t) \/ isFull(t) \/ readMap(t) \/ lock(t)
    \/ \E m \in Map : createMap(t, m)
    \/ publishMap(t) \/ mark(t) \/ Return(t) \/ clear(t)

(* A step is one of a thread, an mmap, or a stutter.                       *)
LEMMA StepCases ==
    ASSUME [Next]_vars
    PROVE  \/ \E t \in Thread : ThreadStep(t)
           \/ \E page \in Page : mmap(page)
           \/ UNCHANGED vars
<1>1. ASSUME NEW t \in Thread, NEW old \in Interval, NEW new \in Interval,
             onMunmap(t, old) \/ onMremap(t, old, new)
      PROVE  \E o \in SUBSET Page : \E n \in SUBSET Page : Unmap(t, o, n)
  <2>1. \A i \in Interval : i \in SUBSET Page
    BY NatPage DEF Interval, Page
  <2>2. Unmap(t, old, {}) \/ Unmap(t, old, new)
    BY <1>1 DEF onMunmap, onMremap, Unmap
  <2> QED
    BY <2>1, <2>2
<1>2. ASSUME NEW t \in Thread, NEW old \in Interval, onMunmap(t, old)
      PROVE  \E o \in SUBSET Page : \E n \in SUBSET Page : Unmap(t, o, n)
  BY <1>1, <1>2
<1> QED
  BY <1>1, <1>2 DEF Next, ThreadStep

(* The loop of a thread over its pages leaves the others' alone.           *)
LEMMA NextPageStays ==
    ASSUME TypeOK, NEW t \in Thread, NextPage(t)
    PROVE  \A u \in Thread \ {t} : pc'[u] = pc[u] /\ at'[u] = at[u]
BY DEF NextPage, Goto, TypeOK

(* A hook that returns leaves its thread without local variables.          *)
LEMMA LeaveEffect ==
    ASSUME TypeOK, NEW t \in Thread, Leave(t)
    PROVE  /\ pc'[t] = "idle" /\ hook'[t] = [op |-> "none"] /\ found'[t] = NULL
           /\ OthersStay(t)
           /\ pc' \in [Thread -> Label]
           /\ hook' \in [Thread -> Hook]
           /\ at' \in [Thread -> Page]
           /\ map' \in [Thread -> Map \cup Block \cup {NULL}]
           /\ seen' \in [Thread -> {"NONE", "FULL", "FRAG"}]
           /\ found' \in [Thread -> Map \cup Block \cup {NULL}]
<1>1. hook' \in [Thread -> Hook]
  BY HookTypes DEF Leave, TypeOK
<1> QED
  BY <1>1, NatPage DEF Leave, Goto, TypeOK, OthersStay

(* A thread changes its own local variables only.                          *)
LEMMA StepStays ==
    ASSUME TypeOK, NEW t \in Thread, ThreadStep(t)
    PROVE  OthersStay(t)
<1>1. ASSUME countAccess(t) \/ freeUnknown(t) \/ Return(t) \/ clear(t)
      PROVE  OthersStay(t)
  BY <1>1, LeaveEffect DEF countAccess, freeUnknown, Return, clear
<1>2. ASSUME fullPage(t) \/ setPtr(t) \/ isFull(t) \/ mark(t)
      PROVE  OthersStay(t)
  BY <1>2, NextPageStays
  DEF OthersStay, fullPage, setPtr, isFull, mark, GiveUp, Goto, TypeOK, localVars
<1>3. ASSUME NEW m \in Map, createMap(t, m)
      PROVE  OthersStay(t)
  <2>2. UNCHANGED <<hook, seen, found>> /\ allocStatus[at[t]] \in {"NONE", "FRAG", "FULL"}
    BY <1>3 DEF createMap, TypeOK
  <2>3. CASE allocStatus[at[t]] = "NONE"
    BY <1>3, <2>2, <2>3 DEF createMap, NewMap, Goto, OthersStay, TypeOK
  <2>4. CASE allocStatus[at[t]] = "FRAG"
    BY <1>3, <2>2, <2>4 DEF createMap, Goto, OthersStay, TypeOK
  <2>5. CASE allocStatus[at[t]] = "FULL"
    BY <1>3, <2>2, <2>5, NextPageStays DEF createMap, GiveUp, OthersStay, TypeOK
  <2> QED
    BY <2>2, <2>3, <2>4, <2>5
<1>4. ASSUME \/ \E b \in Block : onAlloc(t, b) \/ onFree(t, b)
             \/ \E g \in Grain : onAccess(t, g)
             \/ \E old \in SUBSET Page : \E new \in SUBSET Page : Unmap(t, old, new)
      PROVE  OthersStay(t)
  BY <1>4 DEF Unmap, onAlloc, onFree, onAccess, EnterUnmap, OthersStay, TypeOK, localVars
<1>5. ASSUME \/ lookup(t) \/ getAllocPointer(t) \/ freeKnown(t) \/ setFull(t)
             \/ regAllocPointerSmall(t) \/ isNone(t)
             \/ readMap(t) \/ lock(t) \/ publishMap(t)
      PROVE  OthersStay(t)
  BY <1>5 DEF lookup, getAllocPointer, freeKnown, setFull, regAllocPointerSmall, isNone,
              readMap, lock, publishMap, Goto, OthersStay, TypeOK, localVars
<1> QED
  BY <1>1, <1>2, <1>3, <1>4, <1>5 DEF ThreadStep

(* Types, when a hook begins.                                              *)
LEMMA TypeEnters ==
    ASSUME TypeInv, NEW t \in Thread,
           \/ \E b \in Block : onAlloc(t, b) \/ onFree(t, b)
           \/ \E g \in Grain : onAccess(t, g)
           \/ \E old \in SUBSET Page : \E new \in SUBSET Page : Unmap(t, old, new)
    PROVE  TypeOK'
<1>1. TypeOK
  BY DEF TypeInv
<1>2. ASSUME NEW b \in Block, onAlloc(t, b)
      PROVE  TypeOK'
  BY <1>1, <1>2, BlockType, HookTypes DEF TypeOK, onAlloc, historyVars
<1>3. ASSUME NEW b \in Block, onFree(t, b)
      PROVE  TypeOK'
  BY <1>1, <1>3, BlockType, HookTypes DEF TypeOK, onFree, tableVars, historyVars
<1>4. ASSUME NEW g \in Grain, onAccess(t, g)
      PROVE  TypeOK'
  BY <1>1, <1>4, GrainPage, HookTypes DEF TypeOK, onAccess, tableVars, envVars, historyVars
<1>5. ASSUME NEW old \in SUBSET Page, NEW new \in SUBSET Page, Unmap(t, old, new)
      PROVE  TypeOK'
  BY <1>1, <1>5, HookTypes DEF TypeOK, Unmap, EnterUnmap, tableVars, localVars, historyVars
<1> QED
  BY <1>2, <1>3, <1>4, <1>5

(* A thread that looks up has a grain to look up.                          *)
LEMMA SoughtType ==
    ASSUME TypeInv, NEW t \in Thread, pc[t] \in Lookup
    PROVE  /\ hook[t].op \in {"access", "free"}
           /\ Sought(t) \in Grain
           /\ hook[t].op = "free" => hook[t].block \in Block
<1>1. hook[t] \in Hook /\ pc[t] \notin Loop /\ pc[t] \notin {"idle", "clear", "return"}
  BY DEF TypeInv, TypeOK, Loop, Lookup
<1>2. hook[t].op \notin {"none", "unmap", "alloc"}
  BY <1>1 DEF TypeInv, ControlInv, ControlOf
<1> QED
  BY <1>1, <1>2, HookCases, BlockType DEF Sought

(* Types, in a lookup and after it.                                        *)
LEMMA TypeLookup ==
    ASSUME TypeInv, NEW t \in Thread,
           lookup(t) \/ getAllocPointer(t) \/ countAccess(t) \/ freeUnknown(t) \/ freeKnown(t)
    PROVE  TypeOK'
<1>1. TypeOK
  BY DEF TypeInv
<1>2. ASSUME lookup(t) \/ freeKnown(t)
      PROVE  TypeOK'
  <2>1. CASE lookup(t)
    <3>1. allocStatus[at[t]] \in {"NONE", "FULL", "FRAG"}
      BY <1>1 DEF TypeOK
    <3>2. /\ pc' = [pc EXCEPT ![t] = "read"]
          /\ seen' = [seen EXCEPT ![t] = allocStatus[at[t]]]
          /\ UNCHANGED <<tableVars, hook, at, map, found, envVars, historyVars>>
      BY <2>1 DEF lookup, Goto
    <3> QED
      BY <1>1, <3>1, <3>2 DEF TypeOK, tableVars, envVars, historyVars
  <2>2. CASE freeKnown(t)
    <3>1. /\ pc' = [pc EXCEPT ![t] = "status"]
          /\ UNCHANGED <<tableVars, hook, localVars, envVars, historyVars>>
      BY <2>2 DEF freeKnown, Goto
    <3> QED
      BY <1>1, <3>1 DEF TypeOK, tableVars, localVars, envVars, historyVars
  <2> QED
    BY <1>2, <2>1, <2>2
<1>3. ASSUME getAllocPointer(t)
      PROVE  TypeOK'
  <2> DEFINE ptr == allocPtr[at[t]]
             wildRead == seen[t] = "FRAG" /\ ptr \notin maps
             result == IF seen[t] = "NONE" \/ wildRead THEN NULL
                       ELSE IF seen[t] = "FULL" THEN ptr
                       ELSE entries[ptr][Index(Sought(t))]
  <2>1. /\ found' = [found EXCEPT ![t] = result]
        /\ wild' = IF wildRead THEN wild \cup {ptr} ELSE wild
        /\ pc' = [pc EXCEPT ![t] = "found"]
        /\ pc[t] \in Lookup
        /\ UNCHANGED <<tableVars, hook, at, map, seen, envVars, lost, reports>>
    BY <1>3 DEF getAllocPointer, Goto, Lookup
  <2>2. ptr \in Map \cup Block \cup {NULL}
    BY <1>1 DEF TypeOK
  <2>3. Index(Sought(t)) \in 0..(Grains - 1)
    BY <2>1, SoughtType, PageBounds, NatPage
  <2>4. result \in Map \cup Block \cup {NULL}
    <3>1. seen[t] \in {"NONE", "FULL", "FRAG"}
      BY <1>1 DEF TypeOK
    <3>2. ptr \in maps => entries[ptr][Index(Sought(t))] \in Block \cup {NULL}
      BY <1>1, <2>3 DEF TypeOK
    <3> QED
      BY <2>2, <3>1, <3>2
  <2> HIDE DEF ptr, result
  <2>5. /\ found' \in [Thread -> Map \cup Block \cup {NULL}]
        /\ wild' \in SUBSET (Map \cup Block \cup {NULL})
    BY <2>1, <2>2, <2>4, <1>1 DEF TypeOK
  <2> QED
    BY <2>1, <2>5, <1>1 DEF TypeOK, tableVars, envVars
<1>4. ASSUME countAccess(t)
      PROVE  TypeOK'
  <2>1. wild' \in SUBSET (Map \cup Block \cup {NULL})
    BY <1>1, <1>4 DEF countAccess, TypeOK
  <2> QED
    BY <1>1, <1>4, <2>1, LeaveEffect DEF countAccess, TypeOK, tableVars, envVars
<1>5. ASSUME freeUnknown(t)
      PROVE  TypeOK'
  <2>1. blockState' \in [Block -> {"free", "allocating", "live", "freeing"}]
    BY <1>1, <1>5 DEF freeUnknown, TypeOK
  <2>2. lost' \in SUBSET (Block \X Page)
    BY <1>1, <1>5 DEF freeUnknown, LostWithout, TypeOK
  <2> QED
    BY <1>1, <1>5, <2>1, <2>2, LeaveEffect DEF freeUnknown, TypeOK, tableVars
<1> QED
  BY <1>2, <1>3, <1>4, <1>5

(* Types, in regAllocPointer.                                              *)
LEMMA TypeLoop ==
    ASSUME TypeInv, NEW t \in Thread,
           \/ fullPage(t) \/ setFull(t) \/ setPtr(t)
           \/ regAllocPointerSmall(t) \/ isNone(t) \/ isFull(t) \/ readMap(t) \/ lock(t)
           \/ \E m \in Map : createMap(t, m)
           \/ publishMap(t) \/ mark(t)
    PROVE  TypeOK'
<1>1. TypeOK /\ Mutex(at[t]) \in 0..(MutexCnt - 1) /\ at[t] \in Page
  <2>1. at[t] \in Page /\ at[t] \in Nat
    BY NatPage DEF TypeInv, TypeOK
  <2>2. Mutex(at[t]) \in 0..(MutexCnt - 1)
    BY <2>1, Z3 DEF Mutex
  <2> QED
    BY <2>1, <2>2 DEF TypeInv
<1>2. ASSUME pc[t] \in Loop, NextPage(t)
      PROVE  /\ at' \in [Thread -> Page]
             /\ pc' \in [Thread -> Label]
  BY <1>1, <1>2, NextPageType DEF TypeOK
<1>10. ASSUME pc[t] \in Loop,
              NEW message \in {"race", "append", "status", "entry"}, GiveUp(t, message)
       PROVE  /\ lost' \in SUBSET (Block \X Page)
              /\ reports' \in SUBSET {"race", "append", "status", "entry"}
  <2>1. Value(t) \in Block \cup {NULL}
    BY <1>10, RegisteredType
  <2>2. lost' = lost \/ (lost' = lost \cup {<<Value(t), at[t]>>} /\ Value(t) # NULL)
    BY <1>10 DEF GiveUp
  <2> QED
    BY <1>1, <1>10, <2>1, <2>2 DEF GiveUp, TypeOK
<1>3. ASSUME fullPage(t)
      PROVE  TypeOK'
  <2>0. pc[t] \in Loop
    BY <1>3 DEF fullPage, Loop
  <2>1. /\ maps' \in SUBSET Map /\ wild' \in SUBSET (Map \cup Block \cup {NULL})
        /\ lost' \in SUBSET (Block \X Page)
        /\ reports' \in SUBSET {"race", "append", "status", "entry"}
    <3>1. \/ UNCHANGED <<maps, historyVars>>
          \/ UNCHANGED <<maps, wild>> /\ GiveUp(t, "status")
          \/ /\ maps' = maps \ {allocPtr[at[t]]}
             /\ wild' = wild \cup ({allocPtr[at[t]]} \ maps)
             /\ UNCHANGED <<lost, reports>>
      BY <1>3 DEF fullPage
    <3>2. allocPtr[at[t]] \in Map \cup Block \cup {NULL}
      BY <1>1 DEF TypeOK
    <3>3. CASE UNCHANGED <<maps, historyVars>>
      BY <1>1, <3>3 DEF TypeOK, historyVars
    <3>4. CASE UNCHANGED <<maps, wild>> /\ GiveUp(t, "status")
      BY <1>1, <2>0, <3>4, <1>10 DEF TypeOK
    <3>5. CASE /\ maps' = maps \ {allocPtr[at[t]]}
               /\ wild' = wild \cup ({allocPtr[at[t]]} \ maps)
               /\ UNCHANGED <<lost, reports>>
      BY <1>1, <3>2, <3>5 DEF TypeOK
    <3> QED
      BY <3>1, <3>3, <3>4, <3>5
  <2>2. /\ at' \in [Thread -> Page]
        /\ pc' \in [Thread -> Label]
    <3>1. pc[t] \in Loop
      BY <1>3 DEF fullPage, Loop
    <3>2. CASE NextPage(t)
      BY <3>1, <3>2, <1>2
    <3>3. CASE UNCHANGED at /\ Goto(t, "setFull")
      BY <1>1, <3>3 DEF TypeOK, Goto
    <3> QED
      BY <1>3, <3>2, <3>3 DEF fullPage, GiveUp
  <2> QED
    BY <1>1, <1>3, <2>1, <2>2 DEF fullPage, TypeOK, envVars
<1>4. ASSUME setFull(t) \/ regAllocPointerSmall(t) \/ isNone(t) \/ readMap(t) \/ publishMap(t)
      PROVE  TypeOK'
  <2>1. CASE setFull(t)
    BY <1>1, <2>1 DEF setFull, Goto, TypeOK, localVars, envVars, historyVars
  <2>2. CASE regAllocPointerSmall(t) \/ isNone(t)
    <3>1. /\ \E label \in Label : pc' = [pc EXCEPT ![t] = label]
          /\ UNCHANGED <<tableVars, hook, localVars, envVars, historyVars>>
      BY <2>2 DEF regAllocPointerSmall, isNone, Goto
    <3> QED
      BY <1>1, <3>1 DEF TypeOK, tableVars, localVars, envVars, historyVars
  <2>3. CASE readMap(t)
    BY <1>1, <2>3 DEF readMap, Goto, TypeOK, envVars, historyVars, tableVars
  <2>4. CASE publishMap(t)
    BY <1>1, <2>4 DEF publishMap, unlock, Goto, TypeOK, localVars, envVars, historyVars
  <2> QED
    BY <1>4, <2>1, <2>2, <2>3, <2>4
<1>5. ASSUME setPtr(t)
      PROVE  TypeOK'
  <2>1. pc[t] \in Loop
    BY <1>5 DEF setPtr, Loop
  <2>2. Value(t) \in Block \cup {NULL}
    BY <2>1, RegisteredType
  <2> QED
    BY <1>1, <1>2, <1>5, <2>1, <2>2 DEF setPtr, TypeOK, envVars, historyVars
<1>6. ASSUME isFull(t)
      PROVE  TypeOK'
  <2>1. pc[t] \in Loop
    BY <1>6 DEF isFull, Loop
  <2>2. \E message \in {"race", "append", "status", "entry"} : GiveUp(t, message)
    BY <1>6 DEF isFull
  <2>3. NextPage(t)
    BY <2>2 DEF GiveUp
  <2> QED
    BY <1>1, <1>2, <1>6, <1>10, <2>1, <2>2, <2>3 DEF isFull, TypeOK, tableVars, envVars
<1>7. ASSUME lock(t)
      PROVE  TypeOK'
  BY <1>1, <1>7 DEF lock, Goto, TypeOK, localVars, envVars, historyVars
<1>8. ASSUME NEW m \in Map, createMap(t, m)
      PROVE  TypeOK'
  <2>1. pc[t] \in Loop
    BY <1>8 DEF createMap, Loop
  <2>2. UNCHANGED <<allocStatus, infos, hook, seen, found, blockState, mapped, wild>>
    BY <1>8 DEF createMap, envVars
  <2>3. CASE allocStatus[at[t]] = "NONE"
    <3>1. [i \in 0..(Grains - 1) |-> NULL] \in [0..(Grains - 1) -> Block \cup {NULL}]
      OBVIOUS
    <3>2. NewMap(t, m) /\ UNCHANGED <<fragMutex, at, lost, reports>>
      BY <1>8, <2>3 DEF createMap
    <3> QED
      BY <1>1, <2>2, <3>1, <3>2 DEF TypeOK, NewMap, Goto
  <2>4. CASE allocStatus[at[t]] = "FRAG"
    <3>1. /\ map' = [map EXCEPT ![t] = allocPtr[at[t]]]
          /\ unlock(at[t])
          /\ Goto(t, "mark")
          /\ UNCHANGED <<maps, entries, allocPtr, at, lost, reports>>
      BY <1>8, <2>4 DEF createMap
    <3> QED
      BY <1>1, <2>2, <3>1 DEF TypeOK, unlock, Goto
  <2>5. CASE allocStatus[at[t]] = "FULL"
    <3>1. GiveUp(t, "append") /\ UNCHANGED <<maps, entries, allocPtr, fragMutex, map>>
      BY <1>8, <2>5 DEF createMap
    <3>2. NextPage(t)
      BY <3>1 DEF GiveUp
    <3> QED
      BY <1>1, <1>2, <1>10, <2>1, <2>2, <3>1, <3>2 DEF TypeOK
  <2> QED
    BY <2>3, <2>4, <2>5, <1>1 DEF TypeOK
<1>9. ASSUME mark(t)
      PROVE  TypeOK'
  <2>1. pc[t] \in Loop /\ NextPage(t)
    BY <1>9 DEF mark, Loop
  <2>2. Value(t) \in Block \cup {NULL}
    BY <2>1, RegisteredType
  <2>3. entries' \in [Map -> [0..(Grains - 1) -> Block \cup {NULL}]]
    <3>1. CASE map[t] \in maps
      <4>1. entries[map[t]] \in [0..(Grains - 1) -> Block \cup {NULL}]
        BY <1>1, <3>1 DEF TypeOK
      <4>2. Marked(entries[map[t]], Portion(t), Value(t)) \in [0..(Grains - 1) -> Block \cup {NULL}]
        BY <4>1, <2>2 DEF Marked
      <4>3. entries' = [entries EXCEPT ![map[t]] =
                            Marked(entries[map[t]], Portion(t), Value(t))]
        BY <1>9, <3>1 DEF mark
      <4>4. entries \in [Map -> [0..(Grains - 1) -> Block \cup {NULL}]]
        BY <1>1 DEF TypeOK
      <4> QED
        BY <4>2, <4>3, <4>4
    <3>2. CASE map[t] \notin maps
      BY <1>1, <1>9, <3>2 DEF mark, TypeOK
    <3> QED
      BY <3>1, <3>2
  <2>4. /\ wild' \in SUBSET (Map \cup Block \cup {NULL})
        /\ reports' \in SUBSET {"race", "append", "status", "entry"}
    <3>1. map[t] \in Map \cup Block \cup {NULL}
      BY <1>1 DEF TypeOK
    <3>2. CASE map[t] \in maps
      <4>1. UNCHANGED wild /\ reports' = reports \cup Overwrites(t, entries[map[t]])
        BY <1>9, <3>2 DEF mark
      <4>2. Overwrites(t, entries[map[t]]) \subseteq {"entry"}
        BY DEF Overwrites
      <4> QED
        BY <1>1, <4>1, <4>2 DEF TypeOK
    <3>3. CASE map[t] \notin maps
      <4>1. wild' = wild \cup {map[t]} /\ UNCHANGED reports
        BY <1>9, <3>3 DEF mark
      <4> QED
        BY <1>1, <3>1, <4>1 DEF TypeOK
    <3> QED
      BY <3>2, <3>3
  <2> QED
    BY <1>1, <1>2, <1>9, <2>1, <2>3, <2>4 DEF mark, TypeOK, envVars
<1> QED
  BY <1>3, <1>4, <1>5, <1>6, <1>7, <1>8, <1>9

(* Types, when a hook returns.                                             *)
LEMMA TypeLeaves ==
    ASSUME TypeInv, NEW t \in Thread, Return(t) \/ clear(t)
    PROVE  TypeOK'
<1>1. TypeOK
  BY DEF TypeInv
<1>2. ASSUME Return(t)
      PROVE  TypeOK'
  <2>1. infos' \in SUBSET Block
    BY <1>1, <1>2 DEF Return, TypeOK
  <2>2. blockState' \in [Block -> {"free", "allocating", "live", "freeing"}]
    BY <1>1, <1>2 DEF Return, TypeOK
  <2>3. wild' \in SUBSET (Map \cup Block \cup {NULL})
    BY <1>1, <1>2 DEF Return, TypeOK
  <2>4. lost' \in SUBSET (Block \X Page)
    BY <1>1, <1>2 DEF Return, LostWithout, TypeOK
  <2> QED
    BY <1>1, <1>2, <2>1, <2>2, <2>3, <2>4, LeaveEffect DEF Return, TypeOK
<1>3. ASSUME clear(t)
      PROVE  TypeOK'
  <2>1. hook[t].op = "unmap" /\ hook[t] \in Hook
    BY <1>1, <1>3 DEF clear, TypeInv, ControlInv, ControlOf, TypeOK
  <2>2. hook[t].old \in SUBSET Page /\ hook[t].new \in SUBSET Page
    BY <2>1, HookCases
  <2>3. /\ maps' = maps \ MapsOf(hook[t].old)
        /\ wild' = wild \cup (MapsOf(hook[t].old) \ maps) \cup MapsOf(hook[t].old \cap hook[t].new)
        /\ allocPtr' = [p \in Page |-> IF p \in hook[t].old THEN NULL ELSE allocPtr[p]]
        /\ allocStatus' = [p \in Page |-> IF p \in hook[t].old THEN "NONE" ELSE allocStatus[p]]
        /\ mapped' = mapped \cup hook[t].new
        /\ Leave(t)
        /\ UNCHANGED <<entries, infos, fragMutex, blockState, lost, reports>>
    BY <1>3 DEF clear
  <2>4. \A S \in SUBSET Page : MapsOf(S) \subseteq Map \cup Block \cup {NULL}
    BY <1>1 DEF MapsOf, TypeOK
  <2>5. wild' \in SUBSET (Map \cup Block \cup {NULL})
    BY <1>1, <2>2, <2>3, <2>4 DEF TypeOK
  <2>6. allocPtr' \in [Page -> Map \cup Block \cup {NULL}]
    BY <1>1, <2>3 DEF TypeOK
  <2>7. allocStatus' \in [Page -> {"NONE", "FULL", "FRAG"}]
    BY <1>1, <2>3 DEF TypeOK
  <2> QED
    BY <1>1, <2>2, <2>3, <2>5, <2>6, <2>7, LeaveEffect DEF TypeOK
<1> QED
  BY <1>2, <1>3

(* A thread is where its hook may be.                                      *)
LEMMA ControlStep ==
    ASSUME TypeInv, NEW t \in Thread, ThreadStep(t)
    PROVE  ControlOf(t)' /\ FoundOf(t)'
<1>1. TypeOK /\ ControlOf(t) /\ FoundOf(t)
  BY DEF TypeInv, ControlInv, FoundInv
<1>2. ASSUME NEW b \in Block, onAlloc(t, b)
      PROVE  ControlOf(t)' /\ FoundOf(t)'
  <2>1. hook'[t] = [op |-> "alloc", block |-> b] /\ pc'[t] \in {"return", "status"}
    BY <1>1, <1>2 DEF onAlloc, TypeOK
  <2> QED
    BY <2>1 DEF ControlOf, FoundOf, Loop, Lookup
<1>3. ASSUME NEW b \in Block, onFree(t, b)
      PROVE  ControlOf(t)' /\ FoundOf(t)'
  <2>1. hook'[t] = [op |-> "free", block |-> b] /\ pc'[t] = "lookup"
    BY <1>1, <1>3 DEF onFree, TypeOK
  <2> QED
    BY <2>1 DEF ControlOf, FoundOf, Loop, Lookup
<1>4. ASSUME NEW g \in Grain, onAccess(t, g)
      PROVE  ControlOf(t)' /\ FoundOf(t)'
  <2>1. hook'[t] = [op |-> "access", grain |-> g] /\ pc'[t] = "lookup"
    BY <1>1, <1>4 DEF onAccess, TypeOK
  <2> QED
    BY <2>1 DEF ControlOf, FoundOf, Loop, Lookup
<1>5. ASSUME NEW old \in SUBSET Page, NEW new \in SUBSET Page, Unmap(t, old, new)
      PROVE  ControlOf(t)' /\ FoundOf(t)'
  <2>1. hook'[t] = [op |-> "unmap", old |-> old, new |-> new] /\ pc'[t] = "clear"
    BY <1>1, <1>5 DEF Unmap, EnterUnmap, TypeOK
  <2> QED
    BY <2>1 DEF ControlOf, FoundOf, Loop, Lookup
<1>6. ASSUME lookup(t) \/ getAllocPointer(t)
      PROVE  ControlOf(t)' /\ FoundOf(t)'
  <2>1. pc[t] \in Lookup /\ pc'[t] \in Lookup /\ hook' = hook
    BY <1>1, <1>6 DEF lookup, getAllocPointer, Goto, TypeOK, Lookup
  <2> QED
    BY <1>1, <2>1 DEF ControlOf, FoundOf, Loop, Lookup
<1>7. ASSUME countAccess(t) \/ freeUnknown(t) \/ Return(t) \/ clear(t)
      PROVE  ControlOf(t)' /\ FoundOf(t)'
  <2>1. pc'[t] = "idle" /\ hook'[t] = [op |-> "none"]
    BY <1>1, <1>7, LeaveEffect DEF countAccess, freeUnknown, Return, clear
  <2> QED
    BY <2>1 DEF ControlOf, FoundOf, Loop, Lookup
<1>8. ASSUME freeKnown(t)
      PROVE  ControlOf(t)' /\ FoundOf(t)'
  <2>1. /\ hook[t].op = "free" /\ pc'[t] = "status" /\ hook' = hook
        /\ found'[t] \in Block
    BY <1>1, <1>8 DEF freeKnown, Goto, TypeOK, localVars
  <2> QED
    BY <2>1 DEF ControlOf, FoundOf, Loop, Lookup
<1>9. ASSUME pc[t] \in Loop, pc'[t] \in Loop \cup {"return"}, UNCHANGED <<hook, found>>
      PROVE  ControlOf(t)' /\ FoundOf(t)'
  BY <1>1, <1>9 DEF ControlOf, FoundOf, Loop, Lookup
<1>10. ASSUME NextPage(t)
       PROVE  pc'[t] \in Loop \cup {"return"}
  BY <1>1, <1>10 DEF NextPage, Goto, TypeOK, Loop
<1>11. ASSUME \/ fullPage(t) \/ setFull(t) \/ setPtr(t) \/ regAllocPointerSmall(t)
              \/ isNone(t) \/ isFull(t) \/ readMap(t) \/ lock(t) \/ publishMap(t) \/ mark(t)
       PROVE  ControlOf(t)' /\ FoundOf(t)'
  <2>1. pc[t] \in Loop /\ UNCHANGED <<hook, found>>
    BY <1>11 DEF fullPage, setFull, setPtr, regAllocPointerSmall, isNone, isFull, readMap,
                 lock, publishMap, mark, Loop, localVars
  <2>2. \/ NextPage(t)
        \/ \E label \in Loop : Goto(t, label)
    BY <1>11 DEF fullPage, setFull, setPtr, regAllocPointerSmall, isNone, isFull, readMap,
                 lock, publishMap, mark, Loop, GiveUp
  <2>3. pc'[t] \in Loop \cup {"return"}
    BY <1>1, <1>10, <2>2 DEF Goto, TypeOK
  <2> QED
    BY <1>9, <2>1, <2>3
<1>12. ASSUME NEW m \in Map, createMap(t, m)
       PROVE  ControlOf(t)' /\ FoundOf(t)'
  <2>1. pc[t] \in Loop /\ UNCHANGED <<hook, found>>
        /\ allocStatus[at[t]] \in {"NONE", "FRAG", "FULL"}
    BY <1>1, <1>12 DEF createMap, Loop, TypeOK
  <2>2. NextPage(t) \/ Goto(t, "publish") \/ Goto(t, "mark")
    BY <1>12, <2>1 DEF createMap, NewMap, GiveUp
  <2>3. pc'[t] \in Loop \cup {"return"}
    BY <1>1, <1>10, <2>2 DEF Goto, TypeOK, Loop
  <2> QED
    BY <1>9, <2>1, <2>3
<1> QED
  BY <1>2, <1>3, <1>4, <1>5, <1>6, <1>7, <1>8, <1>11, <1>12 DEF ThreadStep

(* Types and control over a step of a thread.                              *)
LEMMA TypeStep ==
    ASSUME TypeInv, NEW t \in Thread, ThreadStep(t)
    PROVE  TypeInv'
<1>1. TypeOK
  BY DEF TypeInv
<1>2. TypeOK'
  BY TypeEnters, TypeLookup, TypeLoop, TypeLeaves DEF ThreadStep
<1>3. ControlOf(t)' /\ FoundOf(t)'
  BY ControlStep
<1>4. OthersStay(t)
  BY <1>1, StepStays
<1>5. ASSUME NEW u \in Thread \ {t}
      PROVE  ControlOf(u)' /\ FoundOf(u)'
  BY <1>4, <1>5 DEF OthersStay, TypeInv, ControlInv, FoundInv, ControlOf, FoundOf
<1> QED
  BY <1>2, <1>3, <1>5 DEF TypeInv, ControlInv, FoundInv

(* Types and control over a step.                                          *)
LEMMA TypeNext ==
    ASSUME TypeInv, [Next]_vars
    PROVE  TypeInv'
<1>1. ASSUME NEW page \in Page, mmap(page)
      PROVE  TypeInv'
  <2>1. UNCHANGED <<pc, hook, found>> /\ mapped' \in SUBSET Page /\ TypeOK
    BY <1>1 DEF mmap, localVars, TypeInv, TypeOK
  <2>2. TypeOK'
    BY <1>1, <2>1 DEF mmap, TypeOK, localVars, tableVars, historyVars
  <2> QED
    BY <2>1, <2>2 DEF TypeInv, ControlInv, ControlOf, FoundInv, FoundOf
<1>2. ASSUME UNCHANGED vars
      PROVE  TypeInv'
  BY <1>2 DEF TypeInv, TypeOK, ControlInv, ControlOf, FoundInv, FoundOf, vars
<1> QED
  BY <1>1, <1>2, TypeStep, StepCases

(* Types and control, always.                                              *)
LEMMA TypeAlways == Spec => []TypeInv
<1>1. TypeInv /\ [Next]_vars => TypeInv'
  BY TypeNext
<1> QED
  BY <1>1, TypeInit, PTL DEF Spec

(* Every variable keeps its type, whatever the blocks and however mremap   *)
(* and the reuse of ranges behave.                                         *)
THEOREM TypeCorrect == Spec => []TypeOK
<1>1. TypeInv => TypeOK
  BY DEF TypeInv
<1> QED
  BY <1>1, TypeAlways, PTL

-----------------------------------------------------------------------------
(* The program and the kernel.                                             *)

(* A block is registered or unregistered by one thread.                    *)
BusyOf(t) ==
    /\ hook[t].op = "alloc" => blockState[hook[t].block] = "allocating"
    /\ hook[t].op = "free" => blockState[hook[t].block] = "freeing"

BusyInv ==
    /\ \A t \in Thread : BusyOf(t)
    /\ \A t, u \in Thread : Busy(t) /\ Busy(u) /\ hook[t].block = hook[u].block => t = u

RoomsApart ==
    \A b, c \in Block : blockState[b] # "free" /\ blockState[c] # "free" =>
        \A g \in Room(b) : g \in Room(c) => b = c

RoomsMapped ==
    \A b \in Block : blockState[b] # "free" =>
        b \in infos /\ \A g \in Room(b) : PageOf(g) \in mapped

(* Nobody frees, unmaps or hands out what a thread is accessing.           *)
OpenTo(t) ==
    hook[t].op = "access" =>
        /\ PageOf(hook[t].grain) \in mapped
        /\ \A b \in Block : hook[t].grain \in Room(b) => blockState[b] \in {"free", "live"}

AccessOpen == \A t \in Thread : OpenTo(t)

(* The ranges of the system calls under way are out of use.                *)
UnmapApart ==
    \A t, u \in Thread : hook[t].op = "unmap" /\ hook[u].op = "unmap" =>
        /\ \A p \in mapped : p \notin hook[t].old /\ p \notin hook[t].new
        /\ \A p \in hook[t].old : p \notin hook[u].new
        /\ t # u => \A p \in hook[t].new : p \notin hook[u].new

EnvInv == BusyInv /\ RoomsApart /\ RoomsMapped /\ AccessOpen /\ UnmapApart

(* What a thread of a free hook has found is the block.                    *)
FoundIsBlock(t) == hook[t].op = "free" /\ pc[t] \notin Lookup => found[t] = hook[t].block

(* A busy thread has a block.                                              *)
LEMMA BusyBlock ==
    ASSUME TypeInv, NEW t \in Thread, Busy(t)
    PROVE  hook[t].block \in Block
<1>1. hook[t] \in Hook /\ hook[t].op \in {"alloc", "free"}
  BY DEF TypeInv, TypeOK, Busy
<1> QED
  BY <1>1, HookCases

(* A step that leaves the environment and the hooks alone.                 *)
LEMMA EnvUnchanged ==
    ASSUME EnvInv, UNCHANGED <<hook, blockState, mapped, infos>>
    PROVE  EnvInv'
BY DEF EnvInv, BusyInv, BusyOf, Busy, RoomsApart, RoomsMapped, AccessOpen, OpenTo, UnmapApart

(* The program and the kernel, when a block is handed out ...              *)
LEMMA EnvOnAlloc ==
    ASSUME TypeInv, EnvInv, NEW t \in Thread, NEW b \in Block, onAlloc(t, b)
    PROVE  EnvInv'
<1>1. /\ blockState[b] = "free"
      /\ \A g \in Room(b) : PageOf(g) \in mapped
      /\ \A c \in Block : blockState[c] # "free" => Room(b) \cap Room(c) = {}
      /\ \A u \in Thread : hook[u].op = "access" => hook[u].grain \notin Room(b)
      /\ blockState' = [blockState EXCEPT ![b] = "allocating"]
      /\ infos' = infos \cup {b}
      /\ hook' = [hook EXCEPT ![t] = [op |-> "alloc", block |-> b]]
      /\ mapped' = mapped
  BY DEF onAlloc, MayAlloc, Accessed
<1>2. /\ hook'[t] = [op |-> "alloc", block |-> b]
      /\ \A u \in Thread \ {t} : hook'[u] = hook[u]
      /\ blockState'[b] = "allocating"
      /\ \A c \in Block \ {b} : blockState'[c] = blockState[c]
  BY <1>1 DEF TypeInv, TypeOK
<1>3. \A u \in Thread : Busy(u) => hook[u].block \in Block /\ hook[u].block # b
  BY <1>1, BusyBlock DEF EnvInv, BusyInv, BusyOf, Busy
<1>4. BusyInv'
  BY <1>2, <1>3 DEF EnvInv, BusyInv, BusyOf, Busy
<1>5. RoomsApart'
  <2> SUFFICES ASSUME NEW c \in Block, NEW d \in Block, blockState'[c] # "free",
                      blockState'[d] # "free", NEW g \in Room(c), g \in Room(d)
               PROVE  c = d
    BY DEF RoomsApart
  <2>1. CASE c = b \/ d = b
    BY <2>1, <1>1, <1>2
  <2>2. CASE c # b /\ d # b
    BY <2>2, <1>2 DEF EnvInv, RoomsApart
  <2> QED
    BY <2>1, <2>2
<1>6. RoomsMapped'
  BY <1>1, <1>2 DEF EnvInv, RoomsMapped
<1>7. AccessOpen'
  BY <1>1, <1>2 DEF EnvInv, AccessOpen, OpenTo
<1>8. UnmapApart'
  BY <1>1, <1>2 DEF EnvInv, UnmapApart
<1> QED
  BY <1>4, <1>5, <1>6, <1>7, <1>8 DEF EnvInv

(* ... given back ...                                                      *)
LEMMA EnvOnFree ==
    ASSUME TypeInv, EnvInv, NEW t \in Thread, NEW b \in Block, onFree(t, b)
    PROVE  EnvInv'
<1>1. /\ blockState[b] = "live"
      /\ \A u \in Thread : hook[u].op = "access" => hook[u].grain \notin Room(b)
      /\ blockState' = [blockState EXCEPT ![b] = "freeing"]
      /\ hook' = [hook EXCEPT ![t] = [op |-> "free", block |-> b]]
      /\ UNCHANGED <<mapped, infos>>
  BY DEF onFree, MayFree, Accessed, tableVars
<1>2. /\ hook'[t] = [op |-> "free", block |-> b]
      /\ \A u \in Thread \ {t} : hook'[u] = hook[u]
      /\ blockState'[b] = "freeing"
      /\ \A c \in Block \ {b} : blockState'[c] = blockState[c]
  BY <1>1 DEF TypeInv, TypeOK
<1>3. ASSUME NEW u \in Thread, Busy(u)
      PROVE  hook[u].block \in Block /\ hook[u].block # b
  <2>1. hook[u].block \in Block
    BY <1>3, BusyBlock
  <2>2. blockState[hook[u].block] \in {"allocating", "freeing"}
    BY <1>3 DEF EnvInv, BusyInv, BusyOf, Busy
  <2> QED
    BY <1>1, <2>1, <2>2
<1>4. BusyInv'
  BY <1>2, <1>3 DEF EnvInv, BusyInv, BusyOf, Busy
<1>5. \A c \in Block : blockState'[c] # "free" => blockState[c] # "free"
  BY <1>1, <1>2
<1>6. RoomsApart' /\ RoomsMapped'
  BY <1>1, <1>5 DEF EnvInv, RoomsApart, RoomsMapped
<1>7. AccessOpen'
  BY <1>1, <1>2 DEF EnvInv, AccessOpen, OpenTo
<1>8. UnmapApart'
  BY <1>1, <1>2 DEF EnvInv, UnmapApart
<1> QED
  BY <1>4, <1>6, <1>7, <1>8 DEF EnvInv

(* ... or accessed.                                                        *)
LEMMA EnvOnAccess ==
    ASSUME TypeInv, EnvInv, NEW t \in Thread, NEW g \in Grain, onAccess(t, g)
    PROVE  EnvInv'
<1>1. /\ PageOf(g) \in mapped
      /\ \A b \in Block : g \in Room(b) => blockState[b] \in {"free", "live"}
      /\ hook' = [hook EXCEPT ![t] = [op |-> "access", grain |-> g]]
      /\ UNCHANGED <<mapped, infos, blockState>>
  BY DEF onAccess, MayAccess, tableVars, envVars
<1>2. /\ hook'[t] = [op |-> "access", grain |-> g]
      /\ \A u \in Thread \ {t} : hook'[u] = hook[u]
  BY <1>1 DEF TypeInv, TypeOK
<1>3. BusyInv'
  BY <1>1, <1>2 DEF EnvInv, BusyInv, BusyOf, Busy
<1>4. RoomsApart' /\ RoomsMapped'
  BY <1>1 DEF EnvInv, RoomsApart, RoomsMapped
<1>5. AccessOpen'
  BY <1>1, <1>2 DEF EnvInv, AccessOpen, OpenTo
<1>6. UnmapApart'
  BY <1>1, <1>2 DEF EnvInv, UnmapApart
<1> QED
  BY <1>3, <1>4, <1>5, <1>6 DEF EnvInv

(* A range leaves the mapped pages for the call that unmaps it.            *)
LEMMA EnvOnUnmap ==
    ASSUME ~InPlaceRemap, ~QuickReuse, TypeInv, EnvInv, NEW t \in Thread,
           NEW old \in SUBSET Page, NEW new \in SUBSET Page, Unmap(t, old, new)
    PROVE  EnvInv'
<1>1. /\ \A p \in old : Unused(p)
      /\ hook' = [hook EXCEPT ![t] = [op |-> "unmap", old |-> old, new |-> new]]
      /\ mapped' = mapped \ old
      /\ new \cap (mapped \cup Arriving \cup Leaving) = {}
      /\ UNCHANGED <<infos, blockState>>
      /\ pc[t] = "idle"
  BY DEF Unmap, EnterUnmap, Idle, tableVars
<1>2. /\ hook'[t] = [op |-> "unmap", old |-> old, new |-> new]
      /\ \A u \in Thread \ {t} : hook'[u] = hook[u]
      /\ hook[t].op = "none"
  BY <1>1 DEF TypeInv, TypeOK, ControlInv, ControlOf
<1>3. BusyInv'
  BY <1>1, <1>2 DEF EnvInv, BusyInv, BusyOf, Busy
<1>4. RoomsApart'
  BY <1>1 DEF EnvInv, RoomsApart
<1>5. ASSUME NEW b \in Block, blockState[b] # "free", NEW g \in Room(b)
      PROVE  PageOf(g) \notin old
  BY <1>1, <1>5 DEF Unused
<1>6. RoomsMapped'
  BY <1>1, <1>5 DEF EnvInv, RoomsMapped
<1>7. ASSUME NEW u \in Thread, hook[u].op = "access"
      PROVE  PageOf(hook[u].grain) \notin old
  <2>1. hook[u].grain \in Grain
    BY <1>7, HookCases DEF TypeInv, TypeOK
  <2>2. hook[u].grain \in GrainsOf(PageOf(hook[u].grain))
    BY <2>1, InPage, NatPage, PageBounds
  <2> QED
    BY <2>2, <1>1, <1>7 DEF Unused, Accessed
<1>8. AccessOpen'
  BY <1>1, <1>2, <1>7 DEF EnvInv, AccessOpen, OpenTo
<1>9. \A u \in Thread : hook[u].op = "unmap" => hook[u].old \subseteq Leaving
                                               /\ hook[u].new \subseteq Arriving
  BY DEF Leaving, Arriving
<1>10. old \subseteq mapped
  BY <1>1 DEF Unused
<1>11. UnmapApart'
  <2> SUFFICES ASSUME NEW u \in Thread, NEW w \in Thread,
                      hook'[u].op = "unmap", hook'[w].op = "unmap"
               PROVE  /\ \A p \in mapped' : p \notin hook'[u].old /\ p \notin hook'[u].new
                      /\ \A p \in hook'[u].old : p \notin hook'[w].new
                      /\ u # w => \A p \in hook'[u].new : p \notin hook'[w].new
    BY DEF UnmapApart
  <2>1. CASE u = t /\ w = t
    BY <2>1, <1>1, <1>2, <1>10
  <2>2. CASE u = t /\ w # t
    BY <2>2, <1>1, <1>2, <1>9, <1>10 DEF EnvInv, UnmapApart
  <2>3. CASE u # t /\ w = t
    BY <2>3, <1>1, <1>2, <1>9 DEF EnvInv, UnmapApart
  <2>4. CASE u # t /\ w # t
    BY <2>4, <1>1, <1>2 DEF EnvInv, UnmapApart
  <2> QED
    BY <2>1, <2>2, <2>3, <2>4
<1> QED
  BY <1>3, <1>4, <1>6, <1>8, <1>11 DEF EnvInv

(* A page that no call is moving is mapped.                                *)
LEMMA EnvOnMmap ==
    ASSUME ~QuickReuse, TypeInv, EnvInv, NEW page \in Page, mmap(page)
    PROVE  EnvInv'
<1>1. /\ page \notin mapped \cup Arriving \cup Leaving
      /\ mapped' = mapped \cup {page}
      /\ UNCHANGED <<hook, blockState, infos>>
  BY DEF mmap, tableVars
<1>2. \A u \in Thread : hook[u].op = "unmap" => page \notin hook[u].old /\ page \notin hook[u].new
  BY <1>1 DEF Leaving, Arriving
<1>3. UnmapApart'
  BY <1>1, <1>2 DEF EnvInv, UnmapApart
<1> QED
  BY <1>1, <1>3 DEF EnvInv, BusyInv, BusyOf, Busy, RoomsApart, RoomsMapped, AccessOpen, OpenTo

(* The end of a hook: the block is live or free, the new range mapped.     *)
LEMMA EnvOnLeave ==
    ASSUME ~InPlaceRemap, ~QuickReuse, TypeInv, EnvInv, NEW t \in Thread, FoundIsBlock(t),
           countAccess(t) \/ freeUnknown(t) \/ Return(t) \/ clear(t)
    PROVE  EnvInv'
<1>1. hook'[t] = [op |-> "none"] /\ OthersStay(t)
  BY LeaveEffect DEF countAccess, freeUnknown, Return, clear, TypeInv
<1>2. \A u \in Thread \ {t} : hook'[u] = hook[u]
  BY <1>1 DEF OthersStay
<1>3. \A u \in Thread \ {t} : Busy(u)' <=> Busy(u)
  BY <1>2 DEF Busy
<1>4. ~Busy(t)'
  BY <1>1 DEF Busy
<1>5. CASE countAccess(t)
  <2>1. UNCHANGED <<blockState, mapped, infos>>
    BY <1>5 DEF countAccess, tableVars, envVars
  <2>2. BusyInv'
    BY <1>1, <1>2, <1>3, <1>4, <2>1 DEF EnvInv, BusyInv, BusyOf
  <2> QED
    BY <1>1, <1>2, <2>1, <2>2 DEF EnvInv, RoomsApart, RoomsMapped, AccessOpen, OpenTo, UnmapApart
<1>6. CASE clear(t)
  <2>1. mapped' = mapped \cup hook[t].new /\ UNCHANGED <<blockState, infos>>
        /\ hook[t].op = "unmap"
    BY <1>6 DEF clear, TypeInv, ControlInv, ControlOf
  <2>2. BusyInv'
    BY <1>1, <1>2, <1>3, <1>4, <2>1 DEF EnvInv, BusyInv, BusyOf
  <2>3. UnmapApart'
    BY <1>1, <1>2, <2>1 DEF EnvInv, UnmapApart
  <2> QED
    BY <1>1, <1>2, <2>1, <2>2, <2>3 DEF EnvInv, RoomsApart, RoomsMapped, AccessOpen, OpenTo
<1>7. ASSUME Busy(t), NEW s \in {"free", "live"},
             blockState[hook[t].block] # "free",
             blockState' = [blockState EXCEPT ![hook[t].block] = s],
             infos' = IF s = "free" THEN infos \ {hook[t].block} ELSE infos,
             mapped' = mapped
      PROVE  EnvInv'
  <2> DEFINE b == hook[t].block
  <2>1. b \in Block
    <3>1. hook[t] \in Hook
      BY DEF TypeInv, TypeOK
    <3>2. hook[t].op \in {"alloc", "free"}
      BY <1>7 DEF Busy
    <3> QED
      BY <3>1, <3>2, HookCases
  <2>2. blockState'[b] = s /\ \A c \in Block \ {b} : blockState'[c] = blockState[c]
    BY <1>7, <2>1 DEF TypeInv, TypeOK
  <2>3. \A u \in Thread \ {t} : Busy(u) => hook[u].block \in Block /\ hook[u].block # b
    BY <1>7, BusyBlock DEF EnvInv, BusyInv
  <2>4. BusyInv'
    BY <1>1, <1>2, <1>3, <1>4, <2>2, <2>3 DEF EnvInv, BusyInv, BusyOf, Busy
  <2>5. \A c \in Block : blockState'[c] # "free" => blockState[c] # "free"
    BY <1>7, <2>2
  <2>6. RoomsApart'
    BY <2>5 DEF EnvInv, RoomsApart
  <2>7. \A c \in Block : blockState'[c] # "free" => c \in infos'
    BY <1>7, <2>2, <2>5 DEF EnvInv, RoomsMapped
  <2>8. RoomsMapped'
    BY <1>7, <2>5, <2>7 DEF EnvInv, RoomsMapped
  <2>9. AccessOpen'
    BY <1>1, <1>2, <1>7, <2>2 DEF EnvInv, AccessOpen, OpenTo
  <2>10. UnmapApart'
    BY <1>1, <1>2, <1>7 DEF EnvInv, UnmapApart
  <2> QED
    BY <2>4, <2>6, <2>8, <2>9, <2>10 DEF EnvInv
<1>8. CASE freeUnknown(t)
  <2> DEFINE b == hook[t].block
  <2>1. /\ hook[t].op = "free" /\ blockState' = [blockState EXCEPT ![b] = "free"]
        /\ UNCHANGED <<mapped, infos>>
    BY <1>8 DEF freeUnknown, tableVars
  <2>2. b \in Block
    <3>1. hook[t] \in Hook /\ hook[t].op = "free"
      BY <2>1 DEF TypeInv, TypeOK
    <3> QED
      BY <3>1, HookCases
  <2>3. blockState'[b] = "free" /\ \A c \in Block \ {b} : blockState'[c] = blockState[c]
    BY <2>1, <2>2 DEF TypeInv, TypeOK
  <2>4. \A u \in Thread \ {t} : Busy(u) => hook[u].block \in Block /\ hook[u].block # b
    BY <2>1, BusyBlock DEF EnvInv, BusyInv, Busy
  <2>5. BusyInv'
    BY <1>1, <1>2, <1>3, <1>4, <2>3, <2>4 DEF EnvInv, BusyInv, BusyOf, Busy
  <2>6. \A c \in Block : blockState'[c] # "free" => blockState[c] # "free"
    BY <2>3
  <2>7. RoomsApart' /\ RoomsMapped'
    BY <2>1, <2>6 DEF EnvInv, RoomsApart, RoomsMapped
  <2>8. AccessOpen'
    BY <1>1, <1>2, <2>1, <2>3 DEF EnvInv, AccessOpen, OpenTo
  <2>9. UnmapApart'
    BY <1>1, <1>2, <2>1 DEF EnvInv, UnmapApart
  <2> QED
    BY <2>5, <2>7, <2>8, <2>9 DEF EnvInv
<1>9. CASE Return(t)
  <2>1. pc[t] = "return" /\ hook[t] \in Hook
    BY <1>9 DEF Return, TypeInv, TypeOK
  <2>2. hook[t].op \in {"alloc", "free"}
    BY <2>1, HookCases DEF TypeInv, ControlInv, ControlOf, Lookup, Loop
  <2>3. blockState[hook[t].block] # "free"
    BY <2>2 DEF EnvInv, BusyInv, BusyOf
  <2>4. CASE hook[t].op = "alloc"
    <3>1. blockState' = [blockState EXCEPT ![hook[t].block] = "live"]
          /\ UNCHANGED <<infos, mapped>>
      BY <1>9, <2>4 DEF Return
    <3> QED
      BY <1>7, <2>2, <2>3, <3>1 DEF Busy
  <2>5. CASE hook[t].op = "free"
    <3>1. blockState' = [blockState EXCEPT ![hook[t].block] = "free"]
          /\ infos' = infos \ {found[t]} /\ mapped' = mapped
      BY <1>9, <2>5 DEF Return
    <3>2. found[t] = hook[t].block
      BY <2>1, <2>5 DEF FoundIsBlock, Lookup
    <3> QED
      BY <1>7, <2>2, <2>3, <3>1, <3>2 DEF Busy
  <2> QED
    BY <2>2, <2>4, <2>5
<1> QED
  BY <1>5, <1>6, <1>8, <1>9

-----------------------------------------------------------------------------
(* The inductive invariant.                                                *)

(* The thread has registered the grain g of b ...                          *)
RegisteredBy(t, b, g) ==
    /\ hook[t].op = "alloc" /\ hook[t].block = b
    /\ PageOf(g) < at[t] \/ pc[t] = "return"

(* ... or has not unregistered it yet.                                     *)
KeptBy(t, b, g) ==
    /\ hook[t].op = "free" /\ hook[t].block = b
    /\ pc[t] \in Lookup \/ (pc[t] \in Loop /\ PageOf(g) >= at[t])

(* The grain g of b is registered, and its registration was not given up.  *)
Holds(b, g) ==
    /\ g \in Content(b)
    /\ <<b, PageOf(g)>> \notin lost
    /\ blockState[b] = "live" \/ \E t \in Thread : RegisteredBy(t, b, g) \/ KeptBy(t, b, g)

(* The MallocInfos that stay for good: no block takes their place.         *)
Remains == {b \in Stray : Content(b) # {}}

(* What they may have left in the table: never the grain onFree looked up. *)
StrayAt(b, g) == b \in Remains /\ g \in Content(b) /\ g # b.start

Known(b, g) == Holds(b, g) \/ StrayAt(b, g)

(* A thread is publishing the map of the page.                             *)
Published(page) == \E t \in Thread : pc[t] = "publish" /\ at[t] = page

(* The table says of a page what is registered in it, and besides at most  *)
(* what has stayed.                                                        *)
PageExact(page) ==
    /\ allocStatus[page] = "NONE" =>
          /\ \A b \in Block : \A g \in GrainsOf(page) : ~Holds(b, g)
          /\ allocPtr[page] = NULL \/ Published(page)
    /\ allocStatus[page] = "FULL" =>
          /\ allocPtr[page] \in Block
          /\ IsFull(allocPtr[page], page)
          /\ \A g \in GrainsOf(page) : Known(allocPtr[page], g)
          /\ \A b \in Block : \A g \in GrainsOf(page) : Holds(b, g) => b = allocPtr[page]
    /\ allocStatus[page] = "FRAG" =>
          /\ allocPtr[page] \in maps
          /\ \A b \in Block : \A g \in GrainsOf(page) :
                /\ Holds(b, g) => entries[allocPtr[page]][Index(g)] = b /\ ~IsFull(b, page)
                /\ entries[allocPtr[page]][Index(g)] = b => Known(b, g)

TableExact == \A page \in Page : ~Overwritten(page) => PageExact(page)

MapsApart ==
    \A p, q \in Page :
        /\ ~Overwritten(p) /\ ~Overwritten(q)
        /\ allocPtr[p] \in maps /\ allocPtr[p] = allocPtr[q]
        => p = q

MapsReached == \A m \in maps : \E p \in Page : allocPtr[p] = m /\ ~Overwritten(p)

TableInv == TableExact /\ MapsApart /\ MapsReached

(* Where a thread is in the pages of its block, and the mutex it holds.    *)
LoopOf(t) ==
    /\ pc[t] \in Lookup => at[t] = PageOf(Sought(t))
    /\ pc[t] \in Loop => at[t] \in Pages(hook[t].block)
    /\ pc[t] \in {"setFull", "setPtr"} => IsFull(hook[t].block, at[t])
    /\ pc[t] \in {"isNone", "isFull", "readMap", "lock", "create", "publish", "mark"} =>
           ~IsFull(hook[t].block, at[t])
    /\ pc[t] \in {"create", "publish"} => fragMutex[Mutex(at[t])] = t
    /\ FoundIsBlock(t)

(* A block has not been given up in a page before its thread is there.     *)
LostOf(t) ==
    hook[t].op = "alloc" /\ pc[t] \in Loop =>
        \A p \in Page : <<hook[t].block, p>> \in lost => p < at[t]

LostInv ==
    /\ \A b \in Block, p \in Page : <<b, p>> \in lost => blockState[b] # "free"
    /\ \A t \in Thread : LostOf(t)

LoopInv == LostInv /\ \A t \in Thread : LoopOf(t)

(* The registration of what t looks up was given up.                       *)
Missed(t) == \A c \in Owners(Sought(t)) : <<c, at[t]>> \in lost

(* What a thread has read or written of a page still stands.               *)
StepOf(t) ==
    /\ pc[t] = "setPtr" => allocStatus[at[t]] = IF hook[t].op = "free" THEN "NONE" ELSE "FULL"
    /\ pc[t] \in {"isNone", "isFull"} /\ hook[t].op = "free" =>
          <<hook[t].block, at[t]>> \in lost
    /\ pc[t] \in {"lock", "create"} => allocStatus[at[t]] # "FULL"
    /\ pc[t] = "readMap" => allocStatus[at[t]] = "FRAG"
    /\ pc[t] = "mark" => allocStatus[at[t]] = "FRAG" /\ map[t] = allocPtr[at[t]]
    /\ pc[t] = "publish" =>
          /\ allocStatus[at[t]] = "NONE"
          /\ map[t] = allocPtr[at[t]]
          /\ map[t] \in maps
          /\ \A i \in 0..(Grains - 1) : entries[map[t]][i] = NULL
    /\ pc[t] = "read" =>
          /\ seen[t] = "NONE" => Missed(t)
          /\ seen[t] # "NONE" => allocStatus[at[t]] = seen[t]
    /\ pc[t] = "found" => \/ found[t] \in Owners(Sought(t))
                          \/ Missed(t) /\ found[t] = NULL
                          \/ Missed(t) /\ found[t] \in Remains /\ found[t].start # Sought(t)

StepInv == \A t \in Thread : StepOf(t)

(* Nothing is given up, and nothing stays, but for the race.               *)
CauseInv ==
    /\ lost # {} \/ Remains # {} => "race" \in reports
    /\ ReportsFollowRace

ShadowInv ==
    /\ TypeInv /\ EnvInv /\ LoopInv /\ StepInv /\ TableInv
    /\ NoWildPointer /\ CauseInv

-----------------------------------------------------------------------------
(* What is registered.                                                     *)

(* A block that is being freed is registered from the page its thread is   *)
(* at.                                                                     *)
LEMMA HoldsOfFree ==
    ASSUME NEW t \in Thread, NEW b \in Block, NEW g, BusyInv,
           hook[t].op = "free", hook[t].block = b
    PROVE  Holds(b, g) <=> /\ g \in Content(b) /\ <<b, PageOf(g)>> \notin lost
                           /\ pc[t] \in Lookup \/ (pc[t] \in Loop /\ PageOf(g) >= at[t])
BY DEF Holds, RegisteredBy, KeptBy, BusyInv, BusyOf, Busy

(* A block that is being allocated is registered up to the page its thread *)
(* is at.                                                                  *)
LEMMA HoldsOfAlloc ==
    ASSUME NEW t \in Thread, NEW b \in Block, NEW g, BusyInv,
           hook[t].op = "alloc", hook[t].block = b
    PROVE  Holds(b, g) <=> /\ g \in Content(b) /\ <<b, PageOf(g)>> \notin lost
                           /\ PageOf(g) < at[t] \/ pc[t] = "return"
BY DEF Holds, RegisteredBy, KeptBy, BusyInv, BusyOf, Busy

(* The same after a step, of a block that is being freed ...               *)
LEMMA HoldsOfFreeNext ==
    ASSUME NEW t \in Thread, NEW b \in Block, NEW g, BusyInv',
           hook'[t].op = "free", hook'[t].block = b
    PROVE  Holds(b, g)' <=> /\ g \in Content(b) /\ <<b, PageOf(g)>> \notin lost'
                            /\ pc'[t] \in Lookup \/ (pc'[t] \in Loop /\ PageOf(g) >= at'[t])
BY DEF Holds, RegisteredBy, KeptBy, BusyInv, BusyOf, Busy

(* ... and of one that is being allocated.                                 *)
LEMMA HoldsOfAllocNext ==
    ASSUME NEW t \in Thread, NEW b \in Block, NEW g, BusyInv',
           hook'[t].op = "alloc", hook'[t].block = b
    PROVE  Holds(b, g)' <=> /\ g \in Content(b) /\ <<b, PageOf(g)>> \notin lost'
                            /\ PageOf(g) < at'[t] \/ pc'[t] = "return"
BY DEF Holds, RegisteredBy, KeptBy, BusyInv, BusyOf, Busy

(* A block that no thread is busy with is registered or not at all.        *)
LEMMA HoldsOfIdle ==
    ASSUME NEW b \in Block, NEW g, \A t \in Thread : Busy(t) => hook[t].block # b
    PROVE  Holds(b, g) <=> /\ g \in Content(b) /\ <<b, PageOf(g)>> \notin lost
                           /\ blockState[b] = "live"
BY DEF Holds, RegisteredBy, KeptBy, Busy

(* The same after a step.                                                  *)
LEMMA HoldsOfIdleNext ==
    ASSUME NEW b \in Block, NEW g, \A t \in Thread : Busy(t)' => hook'[t].block # b
    PROVE  Holds(b, g)' <=> /\ g \in Content(b) /\ <<b, PageOf(g)>> \notin lost'
                            /\ blockState'[b] = "live"
BY DEF Holds, RegisteredBy, KeptBy, Busy

(* The steps of a thread leave what the others register.                   *)
LEMMA HoldsOfOthers ==
    ASSUME NEW t \in Thread, OthersStay(t), NEW b \in Block,
           blockState'[b] = blockState[b],
           \A p : <<b, p>> \in lost' <=> <<b, p>> \in lost,
           Busy(t) => hook[t].block # b, Busy(t)' => hook'[t].block # b
    PROVE  \A g : Holds(b, g)' <=> Holds(b, g)
<1> TAKE g
<1>1. ~RegisteredBy(t, b, g) /\ ~KeptBy(t, b, g) /\ ~RegisteredBy(t, b, g)' /\ ~KeptBy(t, b, g)'
  BY DEF RegisteredBy, KeptBy, Busy
<1>2. ASSUME NEW u \in Thread
      PROVE  (RegisteredBy(u, b, g) \/ KeptBy(u, b, g))' <=> RegisteredBy(u, b, g) \/ KeptBy(u, b, g)
  <2>1. CASE u = t
    BY <1>1, <2>1
  <2>2. CASE u # t
    BY <2>2 DEF OthersStay, RegisteredBy, KeptBy
  <2> QED
    BY <2>1, <2>2
<1>3. (\E u \in Thread : RegisteredBy(u, b, g) \/ KeptBy(u, b, g))'
      <=> \E u \in Thread : RegisteredBy(u, b, g) \/ KeptBy(u, b, g)
  BY <1>2
<1> QED
  BY <1>3 DEF Holds

(* A registered grain is one of a block that is not free.                  *)
LEMMA HeldIsTaken ==
    ASSUME EnvInv, NEW b \in Block, NEW g, Holds(b, g)
    PROVE  g \in Content(b) /\ blockState[b] # "free"
BY DEF Holds, RegisteredBy, KeptBy, EnvInv, BusyInv, BusyOf

(* A grain is in the room of one block that is not free.                   *)
LEMMA OneOwner ==
    ASSUME EnvInv, NEW b \in Block, NEW c \in Block, NEW g,
           blockState[b] # "free", blockState[c] # "free", g \in Room(b), g \in Room(c)
    PROVE  b = c
BY DEF EnvInv, RoomsApart

(* A thread that registers or unregisters a block.                         *)
LEMMA BusyThread ==
    ASSUME TypeInv, EnvInv, NEW t \in Thread, Busy(t)
    PROVE  /\ hook[t].op \in {"alloc", "free"} /\ hook[t].block \in Block
           /\ blockState[hook[t].block] # "free" /\ blockState[hook[t].block] # "live"
           /\ \A u \in Thread \ {t} : Busy(u) => hook[u].block # hook[t].block
<1>1. hook[t] \in Hook /\ hook[t].op \in {"alloc", "free"}
  BY DEF TypeInv, TypeOK, Busy
<1>2. hook[t].block \in Block
  BY <1>1, HookCases
<1> QED
  BY <1>1, <1>2 DEF EnvInv, BusyInv, BusyOf

(* A thread in regAllocPointer: its block, its page, and what it has       *)
(* registered.                                                             *)
LEMMA InLoop ==
    ASSUME NoEmptyStart, TypeInv, EnvInv, LoopInv, NEW t \in Thread, pc[t] \in Loop
    PROVE  /\ Busy(t) /\ hook[t].block \in Block /\ Registered(t) = hook[t].block
           /\ hook[t].op \in {"alloc", "free"}
           /\ Value(t) = IF hook[t].op = "free" THEN NULL ELSE hook[t].block
           /\ blockState[hook[t].block] # "free" /\ blockState[hook[t].block] # "live"
           /\ at[t] \in Pages(hook[t].block) /\ at[t] \in Page /\ at[t] \in Nat
           /\ \E g \in Content(hook[t].block) : PageOf(g) = at[t] /\ g \in GrainsOf(at[t])
           /\ \A g : Holds(hook[t].block, g) <=>
                  /\ g \in Content(hook[t].block) /\ <<hook[t].block, PageOf(g)>> \notin lost
                  /\ IF hook[t].op = "free" THEN PageOf(g) >= at[t] ELSE PageOf(g) < at[t]
<1>1. Busy(t) /\ pc[t] \notin Lookup /\ pc[t] # "return"
  BY RegisteredType DEF Loop, Lookup
<1>2. /\ hook[t].op \in {"alloc", "free"} /\ hook[t].block \in Block
      /\ blockState[hook[t].block] # "free" /\ blockState[hook[t].block] # "live"
  BY <1>1, BusyThread
<1>3. Registered(t) = hook[t].block
  BY <1>1 DEF LoopInv, LoopOf, FoundIsBlock, Registered
<1>4. at[t] \in Pages(hook[t].block)
  BY DEF LoopInv, LoopOf
<1>5. at[t] \in Page /\ at[t] \in Nat
  BY <1>2, <1>4, SpanType, NatPage
<1>6. PICK g \in Content(hook[t].block) : PageOf(g) = at[t]
  BY <1>2, <1>4, SpanIsContent
<1>7. g \in GrainsOf(at[t])
  BY <1>2, <1>5, <1>6, ContentType, InPage
<1>8. BusyInv
  BY DEF EnvInv
<1>9. ASSUME NEW h
      PROVE  Holds(hook[t].block, h) <=>
                  /\ h \in Content(hook[t].block) /\ <<hook[t].block, PageOf(h)>> \notin lost
                  /\ IF hook[t].op = "free" THEN PageOf(h) >= at[t] ELSE PageOf(h) < at[t]
  <2>1. CASE hook[t].op = "free"
    BY <2>1, <1>1, <1>2, <1>8, HoldsOfFree
  <2>2. CASE hook[t].op = "alloc"
    BY <2>2, <1>1, <1>2, <1>8, HoldsOfAlloc
  <2> QED
    BY <1>2, <2>1, <2>2
<1> QED
  BY <1>1, <1>2, <1>3, <1>4, <1>5, <1>6, <1>7, <1>9 DEF Value

(* A thread that looks up: its page, and the grain, which it accesses or   *)
(* which starts the block it frees.                                        *)
LEMMA Seeking ==
    ASSUME TypeInv, EnvInv, LoopInv, NEW t \in Thread, pc[t] \in Lookup
    PROVE  /\ Sought(t) \in Grain /\ at[t] = PageOf(Sought(t)) /\ at[t] \in Page
           /\ Sought(t) \in GrainsOf(at[t])
           /\ \/ hook[t].op = "access" /\ Sought(t) = hook[t].grain
              \/ /\ hook[t].op = "free" /\ Sought(t) = hook[t].block.start
                 /\ hook[t].block \in Block /\ Sought(t) \in Room(hook[t].block)
                 /\ blockState[hook[t].block] = "freeing"
<1>1. /\ hook[t].op \in {"access", "free"} /\ Sought(t) \in Grain
      /\ hook[t].op = "free" => hook[t].block \in Block
  BY SoughtType
<1>2. at[t] = PageOf(Sought(t))
  BY DEF LoopInv, LoopOf
<1>3. at[t] \in Page /\ at[t] \in Nat /\ Sought(t) \in Nat
  BY <1>1, <1>2, GrainPage, NatPage
<1>4. Sought(t) \in GrainsOf(at[t])
  BY <1>2, <1>3, InPage
<1> QED
  BY <1>1, <1>2, <1>3, <1>4, ContentType DEF Sought, EnvInv, BusyInv, BusyOf

(* Nobody else works, or looks, in a page that a thread makes full or      *)
(* empty.                                                                  *)
LEMMA Alone ==
    ASSUME NoEmptyStart, TypeInv, EnvInv, LoopInv, NEW t \in Thread, pc[t] \in Loop,
           IsFull(hook[t].block, at[t]), NEW u \in Thread, u # t, at[u] = at[t],
           pc[u] \in Loop \cup Lookup
    PROVE  FALSE
<1> DEFINE b == hook[t].block
<1>1. /\ b \in Block /\ Busy(t) /\ blockState[b] # "free" /\ blockState[b] # "live"
      /\ at[t] \in Page
  BY InLoop
<1>2. \A g \in GrainsOf(at[t]) : g \in Room(b)
  BY <1>1, SpanIsContent, ContentType
<1>3. CASE pc[u] \in Loop
  <2>1. /\ hook[u].block \in Block /\ Busy(u) /\ blockState[hook[u].block] # "free"
        /\ \E g \in Content(hook[u].block) : g \in GrainsOf(at[u])
    BY <1>3, InLoop
  <2>2. PICK g \in Content(hook[u].block) : g \in GrainsOf(at[t])
    BY <2>1
  <2>3. g \in Room(hook[u].block) /\ g \in Room(b)
    BY <2>1, <2>2, <1>2, ContentType
  <2>4. hook[u].block = b
    BY <2>1, <2>3, <1>1, OneOwner
  <2> QED
    BY <2>1, <2>4, <1>1 DEF EnvInv, BusyInv
<1>4. CASE pc[u] \in Lookup
  <2>1. Sought(u) \in Room(b)
    BY <1>2, <1>4, Seeking
  <2>2. CASE hook[u].op = "access" /\ Sought(u) = hook[u].grain
    BY <2>1, <2>2, <1>1 DEF EnvInv, AccessOpen, OpenTo, BusyInv, BusyOf, Busy
  <2>3. CASE /\ hook[u].op = "free" /\ hook[u].block \in Block
             /\ Sought(u) \in Room(hook[u].block) /\ blockState[hook[u].block] = "freeing"
    <3>1. hook[u].block = b
      BY <2>1, <2>3, <1>1, OneOwner
    <3> QED
      BY <2>3, <3>1, <1>1 DEF EnvInv, BusyInv, Busy
  <2> QED
    BY <1>4, <2>2, <2>3, Seeking
<1> QED
  BY <1>3, <1>4

(* Nobody is replacing the pointer of a page that another thread is at.    *)
LEMMA NotOverwritten ==
    ASSUME NoEmptyStart, TypeInv, EnvInv, LoopInv, NEW u \in Thread,
           pc[u] \in Loop \cup Lookup, pc[u] \notin {"setFull", "setPtr"}
    PROVE  ~Overwritten(at[u])
<1> SUFFICES ASSUME NEW t \in Thread, pc[t] \in {"setFull", "setPtr"}, at[t] = at[u]
             PROVE  FALSE
  BY DEF Overwritten
<1>1. pc[t] \in Loop /\ t # u /\ IsFull(hook[t].block, at[t])
  BY DEF Loop, LoopInv, LoopOf
<1> QED
  BY <1>1, Alone

(* The owner of a grain that is looked up is registered, unless that was   *)
(* given up.                                                               *)
LEMMA SoughtIsHeld ==
    ASSUME TypeInv, EnvInv, LoopInv, NEW t \in Thread, pc[t] \in Lookup,
           NEW c \in Owners(Sought(t)), <<c, at[t]>> \notin lost
    PROVE  c \in Block /\ Holds(c, Sought(t))
<1>1. /\ c \in Block /\ blockState[c] # "free" /\ Sought(t) \in Content(c)
      /\ Sought(t) \in Room(c) /\ <<c, PageOf(Sought(t))>> \notin lost
  BY ContentType, Seeking DEF Owners
<1>2. CASE hook[t].op = "access" /\ Sought(t) = hook[t].grain
  <2>1. blockState[c] = "live"
    BY <1>1, <1>2 DEF EnvInv, AccessOpen, OpenTo
  <2> QED
    BY <2>1, <1>1 DEF Holds
<1>3. CASE /\ hook[t].op = "free" /\ hook[t].block \in Block
           /\ Sought(t) \in Room(hook[t].block) /\ blockState[hook[t].block] = "freeing"
  <2>1. c = hook[t].block
    BY <1>1, <1>3, OneOwner
  <2> QED
    BY <2>1, <1>1, <1>3 DEF Holds, KeptBy
<1> QED
  BY <1>1, <1>2, <1>3, Seeking

-----------------------------------------------------------------------------
(* What each step does to the grains that are registered.                  *)

HeldKept == \A b \in Block : \A g \in Nat : Holds(b, g)' <=> Holds(b, g)

(* What was registered of a block may have become what has stayed of it.   *)
HeldFades ==
    \A b \in Block : \A g \in Nat :
        /\ Holds(b, g)' => Holds(b, g)
        /\ Known(b, g) => Known(b, g)'

(* What stays, stays for good.                                             *)
LEMMA StraysStay ==
    ASSUME NoEmptyStart, TypeInv, EnvInv, LoopInv, NEW t \in Thread, ThreadStep(t)
    PROVE  Remains \subseteq Remains'
<1> SUFFICES ASSUME NEW b \in Block, b \in infos, blockState[b] = "free", Content(b) # {}
             PROVE  b \in infos' /\ blockState'[b] = "free"
  BY DEF Remains, Stray, TypeInv, TypeOK
<1>1. \A u \in Thread : Busy(u) => hook[u].block # b
  BY BusyThread
<1>2. ASSUME NEW c \in Block, onAlloc(t, c)
      PROVE  b \in infos' /\ blockState'[b] = "free"
  <2>1. MayAlloc(c) /\ infos' = infos \cup {c}
        /\ blockState' = [blockState EXCEPT ![c] = "allocating"]
    BY <1>2 DEF onAlloc
  <2>2. c # b
    BY <2>1, SpanIsContent DEF MayAlloc
  <2> QED
    BY <2>1, <2>2 DEF TypeInv, TypeOK
<1>3. ASSUME NEW c \in Block, onFree(t, c)
      PROVE  b \in infos' /\ blockState'[b] = "free"
  BY <1>3 DEF onFree, MayFree, tableVars, TypeInv, TypeOK
<1>4. CASE freeUnknown(t)
  <2>1. hook[t].block # b
    BY <1>1, <1>4 DEF freeUnknown, Busy
  <2> QED
    BY <1>4, <2>1 DEF freeUnknown, tableVars, TypeInv, TypeOK
<1>5. CASE Return(t)
  <2>1. pc[t] = "return" /\ pc[t] \notin Lookup
    BY <1>5 DEF Return, Lookup
  <2>2. hook[t].op \in {"alloc", "free"}
    BY <2>1, HookCases DEF TypeInv, TypeOK, ControlInv, ControlOf
  <2>3. hook[t].block # b /\ (hook[t].op = "free" => found[t] = hook[t].block)
    BY <1>1, <2>1, <2>2 DEF Busy, LoopInv, LoopOf, FoundIsBlock
  <2> QED
    BY <1>5, <2>3 DEF Return, TypeInv, TypeOK
<1>6. CASE \/ \E g \in Grain : onAccess(t, g)
           \/ \E old \in SUBSET Page : \E new \in SUBSET Page : Unmap(t, old, new)
           \/ lookup(t) \/ getAllocPointer(t) \/ countAccess(t)
           \/ freeKnown(t) \/ fullPage(t) \/ setFull(t) \/ setPtr(t)
           \/ regAllocPointerSmall(t) \/ isNone(t) \/ isFull(t) \/ readMap(t) \/ lock(t)
           \/ \E m \in Map : createMap(t, m)
           \/ publishMap(t) \/ mark(t) \/ clear(t)
  <2>1. blockState' = blockState /\ infos' = infos
    BY <1>6 DEF onAccess, Unmap, EnterUnmap, lookup, getAllocPointer,
        countAccess, freeKnown, fullPage, setFull, setPtr, regAllocPointerSmall,
        isNone, isFull, readMap, lock, createMap, publishMap, mark, clear, envVars, tableVars
  <2> QED
    BY <2>1
<1> QED
  BY <1>2, <1>3, <1>4, <1>5, <1>6 DEF ThreadStep

(* What is kept fades in no way.                                           *)
LEMMA KeptFades ==
    ASSUME HeldKept, Remains \subseteq Remains'
    PROVE  HeldFades
BY DEF HeldKept, HeldFades, Known, StrayAt

(* A thread that has no block changes nothing of what is registered.       *)
LEMMA HeldByOthers ==
    ASSUME NEW t \in Thread, OthersStay(t), blockState' = blockState, lost' = lost,
           ~Busy(t), ~Busy(t)'
    PROVE  HeldKept
BY HoldsOfOthers DEF HeldKept

(* A new block has nothing registered yet.                                 *)
LEMMA HeldOnAlloc ==
    ASSUME NoEmptyStart, TypeInv, EnvInv, EnvInv', NEW t \in Thread, NEW b \in Block,
           onAlloc(t, b), OthersStay(t)
    PROVE  HeldKept
<1>1. /\ pc[t] = "idle" /\ blockState[b] = "free"
      /\ blockState' = [blockState EXCEPT ![b] = "allocating"]
      /\ hook'[t] = [op |-> "alloc", block |-> b]
      /\ at'[t] = PageOf(b.start)
      /\ pc'[t] = IF Span(b) = {} THEN "return" ELSE "status"
      /\ lost' = lost
  BY DEF onAlloc, Idle, MayAlloc, TypeInv, TypeOK, historyVars
<1>2. ~Busy(t)
  BY <1>1 DEF Busy, TypeInv, ControlInv, ControlOf
<1>3. \A u \in Thread : Busy(u) => hook[u].block # b
  BY <1>1, BusyThread
<1>4. ASSUME NEW c \in Block, c # b, NEW g \in Nat
      PROVE  Holds(c, g)' <=> Holds(c, g)
  <2>1. blockState'[c] = blockState[c] /\ hook'[t].block # c
    BY <1>1, <1>4 DEF TypeInv, TypeOK
  <2> QED
    BY <1>1, <1>2, <2>1, HoldsOfOthers
<1>5. ASSUME NEW g \in Nat
      PROVE  ~Holds(b, g) /\ ~Holds(b, g)'
  <2>1. ~Holds(b, g)
    BY <1>1, <1>3, HoldsOfIdle
  <2>2. BusyInv'
    BY DEF EnvInv
  <2>3. hook'[t].op = "alloc" /\ hook'[t].block = b
    BY <1>1
  <2>4. Holds(b, g)' => g \in Content(b) /\ (PageOf(g) < at'[t] \/ pc'[t] = "return")
    BY ONLY <2>2, <2>3, HoldsOfAllocNext
  <2>5. ASSUME g \in Content(b) PROVE (pc'[t] = "status" /\ ~(PageOf(g) < at'[t]))
    <3>1. Span(b) # {}
      BY <2>5, SpanIsContent
    <3>2. PageOf(b.start) <= PageOf(g) /\ PageOf(g) \in Nat /\ PageOf(b.start) \in Nat
      BY <2>5, PagesConsecutive, ContentType, BlockType, NatPage
    <3> QED
      BY <1>1, <3>1, <3>2
  <2> QED
    BY <2>1, <2>4, <2>5
<1> QED
  BY <1>4, <1>5 DEF HeldKept

(* A block that is to be freed is registered still.                        *)
LEMMA HeldOnFree ==
    ASSUME TypeInv, EnvInv, EnvInv', NEW t \in Thread, NEW b \in Block,
           onFree(t, b), OthersStay(t)
    PROVE  HeldKept
<1>1. /\ pc[t] = "idle" /\ blockState[b] = "live"
      /\ blockState' = [blockState EXCEPT ![b] = "freeing"]
      /\ hook'[t] = [op |-> "free", block |-> b]
      /\ pc'[t] = "lookup" /\ lost' = lost
  BY DEF onFree, Idle, MayFree, TypeInv, TypeOK, historyVars
<1>2. ~Busy(t)
  BY <1>1 DEF Busy, TypeInv, ControlInv, ControlOf
<1>3. \A u \in Thread : Busy(u) => hook[u].block # b
  BY <1>1, BusyThread
<1>4. ASSUME NEW c \in Block, c # b, NEW g \in Nat
      PROVE  Holds(c, g)' <=> Holds(c, g)
  <2>1. blockState'[c] = blockState[c] /\ hook'[t].block # c
    BY <1>1, <1>4 DEF TypeInv, TypeOK
  <2> QED
    BY <1>1, <1>2, <2>1, HoldsOfOthers
<1>5. ASSUME NEW g \in Nat
      PROVE  Holds(b, g)' <=> Holds(b, g)
  <2>1. Holds(b, g) <=> g \in Content(b) /\ <<b, PageOf(g)>> \notin lost
    BY <1>1, <1>3, HoldsOfIdle
  <2>2. BusyInv'
    BY DEF EnvInv
  <2>3. hook'[t].op = "free" /\ hook'[t].block = b /\ pc'[t] \in Lookup
    BY <1>1 DEF Lookup
  <2>4. Holds(b, g)' <=> g \in Content(b) /\ <<b, PageOf(g)>> \notin lost'
    BY ONLY <2>2, <2>3, HoldsOfFreeNext, t \in Thread, b \in Block
  <2> QED
    BY <1>1, <2>1, <2>4
<1> QED
  BY <1>4, <1>5 DEF HeldKept

(* A lookup, of an access or of a free.                                    *)
LEMMA HeldOnLookup ==
    ASSUME TypeInv, EnvInv, EnvInv', LoopInv, NEW t \in Thread, OthersStay(t),
           UNCHANGED <<hook, blockState, lost>>, pc[t] \in Lookup, pc'[t] \in Lookup
    PROVE  HeldKept
<1>1. CASE hook[t].op = "access"
  <2>1. ~Busy(t) /\ ~Busy(t)'
    BY <1>1 DEF Busy
  <2> QED
    BY <2>1, HeldByOthers
<1>2. CASE hook[t].op = "free" /\ hook[t].block \in Block
  <2> DEFINE b == hook[t].block
  <2>1. ASSUME NEW c \in Block, c # b, NEW g \in Nat
        PROVE  Holds(c, g)' <=> Holds(c, g)
    BY <2>1, HoldsOfOthers
  <2>2. ASSUME NEW g \in Nat
        PROVE  Holds(b, g)' <=> Holds(b, g)
    <3>1. BusyInv /\ BusyInv'
      BY DEF EnvInv
    <3>2. Holds(b, g) <=> g \in Content(b) /\ <<b, PageOf(g)>> \notin lost
      BY <1>2, <3>1, HoldsOfFree
    <3>3. hook'[t].op = "free" /\ hook'[t].block = b
      BY <1>2
    <3>4. Holds(b, g)' <=> g \in Content(b) /\ <<b, PageOf(g)>> \notin lost'
      BY ONLY <3>1, <3>3, <1>2, HoldsOfFreeNext, t \in Thread, pc'[t] \in Lookup
    <3> QED
      BY <3>2, <3>4
  <2> QED
    BY <2>1, <2>2 DEF HeldKept
<1> QED
  BY <1>1, <1>2, Seeking

(* onFree starts to unregister.                                            *)
LEMMA HeldOnKnown ==
    ASSUME NoEmptyStart, TypeInv, EnvInv, EnvInv', LoopInv, NEW t \in Thread, OthersStay(t),
           freeKnown(t)
    PROVE  HeldKept
<1> DEFINE b == hook[t].block
<1>1. /\ pc[t] \in Lookup /\ hook[t].op = "free" /\ pc'[t] = "status"
      /\ UNCHANGED <<hook, blockState, at, lost>>
  BY DEF freeKnown, Lookup, Goto, TypeInv, TypeOK, localVars, envVars, historyVars
<1>2. b \in Block /\ at[t] = PageOf(b.start)
  BY <1>1, Seeking
<1>3. ASSUME NEW c \in Block, c # b, NEW g \in Nat
      PROVE  Holds(c, g)' <=> Holds(c, g)
  BY <1>1, <1>3, HoldsOfOthers
<1>4. ASSUME NEW g \in Nat
      PROVE  Holds(b, g)' <=> Holds(b, g)
  <2>1. BusyInv /\ BusyInv'
    BY DEF EnvInv
  <2>2. Holds(b, g) <=> g \in Content(b) /\ <<b, PageOf(g)>> \notin lost
    BY <1>1, <1>2, <2>1, HoldsOfFree
  <2>3. hook'[t].op = "free" /\ hook'[t].block = b /\ pc'[t] \in Loop /\ pc'[t] \notin Lookup
    BY <1>1 DEF Loop, Lookup
  <2>4. Holds(b, g)' <=> g \in Content(b) /\ <<b, PageOf(g)>> \notin lost' /\ PageOf(g) >= at'[t]
    BY ONLY <2>1, <2>3, <1>2, HoldsOfFreeNext, t \in Thread
  <2>5. g \in Content(b) => PageOf(g) >= PageOf(b.start)
    BY <1>2, PagesConsecutive, ContentType, BlockType, NatPage
  <2> QED
    BY <1>1, <1>2, <2>2, <2>4, <2>5
<1> QED
  BY <1>1, <1>3, <1>4 DEF HeldKept

(* A block that is not found is empty, or was given up where it starts: what *)
(* is registered of it stays.                                              *)
LEMMA HeldOnUnknown ==
    ASSUME TypeInv, EnvInv, EnvInv', LoopInv, StepInv, NEW t \in Thread, OthersStay(t),
           freeUnknown(t), Remains \subseteq Remains'
    PROVE  HeldFades
<1>0. PICK b \in Block : b = hook[t].block
  <2>1. pc[t] \in Lookup /\ hook[t].op = "free"
    BY DEF freeUnknown, Lookup
  <2> QED
    BY <2>1, Seeking
<1>1. /\ pc[t] = "found" /\ pc[t] \in Lookup /\ hook[t].op = "free"
      /\ found[t] = NULL \/ (found[t] \in infos /\ found[t].start # b.start)
      /\ blockState' = [blockState EXCEPT ![b] = "free"]
      /\ lost' = LostWithout(b) /\ infos' = infos
      /\ hook'[t] = [op |-> "none"]
  BY <1>0, LeaveEffect DEF freeUnknown, Lookup, TypeInv, tableVars
<1>2. /\ Sought(t) = b.start /\ b.start \in Room(b) /\ blockState[b] = "freeing"
      /\ at[t] = PageOf(b.start)
  BY <1>0, <1>1, Seeking
<1>3. ASSUME found[t] \in Owners(b.start)
      PROVE  FALSE
  <2>1. /\ found[t] \in Block /\ blockState[found[t]] # "free"
        /\ b.start \in Room(found[t])
    BY <1>3, ContentType DEF Owners
  <2>2. found[t] = b
    BY <1>2, <2>1, OneOwner
  <2> QED
    BY <1>1, <2>1, <2>2
<1>4. Missed(t)
  BY <1>1, <1>2, <1>3 DEF StepInv, StepOf
<1>5. b.start \in Content(b) => <<b, PageOf(b.start)>> \in lost
  BY <1>2, <1>4 DEF Missed, Owners
<1>6. \A g : ~Holds(b, g)'
  <2>1. BusyInv' /\ blockState'[b] = "free"
    BY <1>1 DEF EnvInv, TypeInv, TypeOK
  <2> QED
    BY <2>1 DEF Holds, RegisteredBy, KeptBy, BusyInv, BusyOf
<1>7. ASSUME NEW g \in Nat, Known(b, g)
      PROVE  Known(b, g)'
  <2>1. Holds(b, g)
    BY <1>2, <1>7 DEF Known, StrayAt, Remains, Stray
  <2>2. g \in Content(b) /\ g # b.start
    BY <1>5, <2>1 DEF Holds
  <2>3. b \in infos' /\ blockState'[b] = "free"
    BY <1>1, <1>2 DEF EnvInv, RoomsMapped, TypeInv, TypeOK
  <2> QED
    BY <2>2, <2>3 DEF Known, StrayAt, Remains, Stray
<1>8. ASSUME NEW c \in Block, c # b, NEW g \in Nat
      PROVE  /\ Holds(c, g)' <=> Holds(c, g)
             /\ StrayAt(c, g) => StrayAt(c, g)'
  <2>1. blockState'[c] = blockState[c] /\ ~Busy(t)'
    BY <1>1, <1>8 DEF TypeInv, TypeOK, Busy
  <2>2. \A p : <<c, p>> \in lost' <=> <<c, p>> \in lost
    BY <1>1, <1>8 DEF LostWithout
  <2> QED
    BY <1>0, <1>8, <2>1, <2>2, HoldsOfOthers DEF StrayAt
<1> QED
  BY <1>6, <1>7, <1>8 DEF HeldFades, Known

(* The hook returns.                                                       *)
LEMMA HeldOnReturn ==
    ASSUME TypeInv, EnvInv, EnvInv', NEW t \in Thread, OthersStay(t), Return(t)
    PROVE  HeldKept
<1>1. /\ pc[t] = "return"
      /\ blockState' = [blockState EXCEPT ![hook[t].block] = IF hook[t].op = "free" THEN "free" ELSE "live"]
      /\ hook'[t] = [op |-> "none"]
      /\ lost' = IF hook[t].op = "free" THEN LostWithout(hook[t].block) ELSE lost
  BY LeaveEffect DEF Return, TypeInv
<1>2. Busy(t) /\ ~Busy(t)' /\ pc[t] \notin Lookup \cup Loop
  <2>1. hook[t] \in Hook
    BY DEF TypeInv, TypeOK
  <2>2. hook[t].op \notin {"none", "unmap", "access"}
    BY <1>1 DEF TypeInv, ControlInv, ControlOf, Lookup
  <2> QED
    BY <1>1, <2>1, <2>2, HookCases DEF Busy, Lookup, Loop
<1>3. PICK b \in Block : b = hook[t].block /\ hook[t].op \in {"alloc", "free"}
  BY <1>2, BusyThread
<1>4. ASSUME NEW c \in Block, c # b, NEW g \in Nat
      PROVE  Holds(c, g)' <=> Holds(c, g)
  <2>1. blockState'[c] = blockState[c]
    BY <1>1, <1>3, <1>4 DEF TypeInv, TypeOK
  <2>2. \A p : <<c, p>> \in lost' <=> <<c, p>> \in lost
    BY <1>1, <1>3, <1>4 DEF LostWithout
  <2> QED
    BY <1>2, <1>3, <1>4, <2>1, <2>2, HoldsOfOthers
<1>5. ASSUME NEW g \in Nat
      PROVE  Holds(b, g)' <=> Holds(b, g)
  <2>1. \A u \in Thread : Busy(u)' => hook'[u].block # b
    <3>1. \A u \in Thread \ {t} : Busy(u)' => hook[u].block # b
      BY <1>2, <1>3, BusyThread DEF OthersStay, Busy
    <3> QED
      BY <1>2, <3>1 DEF OthersStay
  <2>2. Holds(b, g)' <=> /\ g \in Content(b) /\ <<b, PageOf(g)>> \notin lost'
                         /\ blockState'[b] = "live"
    BY ONLY <2>1, <1>3, HoldsOfIdleNext
  <2>3. BusyInv
    BY DEF EnvInv
  <2>4. CASE hook[t].op = "free"
    BY <1>1, <1>2, <1>3, <2>2, <2>3, <2>4, HoldsOfFree DEF TypeInv, TypeOK
  <2>5. CASE hook[t].op = "alloc"
    BY <1>1, <1>2, <1>3, <2>2, <2>3, <2>5, HoldsOfAlloc DEF TypeInv, TypeOK
  <2> QED
    BY <1>3, <2>4, <2>5
<1> QED
  BY <1>4, <1>5 DEF HeldKept

(* A step inside a page.                                                   *)
LEMMA HeldInLoop ==
    ASSUME NoEmptyStart, TypeInv, EnvInv, EnvInv', LoopInv, NEW t \in Thread, OthersStay(t),
           UNCHANGED <<hook, blockState, at, lost>>, pc[t] \in Loop, pc'[t] \in Loop
    PROVE  HeldKept
<1> DEFINE b == hook[t].block
<1>1. b \in Block /\ hook[t].op \in {"alloc", "free"} /\ pc'[t] \notin Lookup \cup {"return"}
  BY InLoop DEF Loop, Lookup
<1>2. ASSUME NEW c \in Block, c # b, NEW g \in Nat
      PROVE  Holds(c, g)' <=> Holds(c, g)
  BY <1>2, HoldsOfOthers
<1>3. ASSUME NEW g \in Nat
      PROVE  Holds(b, g)' <=> Holds(b, g)
  <2>1. Holds(b, g) <=> /\ g \in Content(b) /\ <<b, PageOf(g)>> \notin lost
                        /\ IF hook[t].op = "free" THEN PageOf(g) >= at[t] ELSE PageOf(g) < at[t]
    BY InLoop
  <2>2. BusyInv' /\ hook'[t].block = b /\ hook'[t].op = hook[t].op
    BY DEF EnvInv
  <2>3. CASE hook[t].op = "free"
    <3>1. hook'[t].op = "free"
      BY <2>3
    <3>2. Holds(b, g)' <=> g \in Content(b) /\ <<b, PageOf(g)>> \notin lost' /\ PageOf(g) >= at'[t]
      BY ONLY <3>1, <2>2, <1>1, HoldsOfFreeNext, t \in Thread, pc'[t] \in Loop
    <3> QED
      BY <2>1, <2>3, <3>2
  <2>4. CASE hook[t].op = "alloc"
    <3>1. hook'[t].op = "alloc"
      BY <2>4
    <3>2. Holds(b, g)' <=> g \in Content(b) /\ <<b, PageOf(g)>> \notin lost' /\ PageOf(g) < at'[t]
      BY ONLY <3>1, <2>2, <1>1, HoldsOfAllocNext, t \in Thread
    <3> QED
      BY <2>1, <2>4, <3>2
  <2> QED
    BY <1>1, <2>3, <2>4
<1> QED
  BY <1>2, <1>3 DEF HeldKept

(* What a block has registered of the pages its thread has left, and has   *)
(* not unregistered of those it comes to.                                  *)
LEMMA HoldsAround ==
    ASSUME NoEmptyStart, TypeInv, EnvInv, EnvInv', LoopInv, NEW t \in Thread, OthersStay(t),
           UNCHANGED <<hook, blockState>>, pc[t] \in Loop, NextPage(t), NEW g \in Nat
    PROVE  /\ Holds(hook[t].block, g) <=>
                  /\ g \in Content(hook[t].block) /\ <<hook[t].block, PageOf(g)>> \notin lost
                  /\ IF hook[t].op = "free" THEN PageOf(g) >= at[t] ELSE PageOf(g) < at[t]
           /\ Holds(hook[t].block, g)' <=>
                  /\ g \in Content(hook[t].block) /\ <<hook[t].block, PageOf(g)>> \notin lost'
                  /\ IF hook[t].op = "free" THEN PageOf(g) > at[t] ELSE PageOf(g) <= at[t]
<1> DEFINE b == hook[t].block
<1>1. /\ b \in Block /\ hook[t].op \in {"alloc", "free"} /\ Registered(t) = b
      /\ at[t] \in Pages(b) /\ at[t] \in Nat /\ at[t] \in Page
  BY InLoop
<1>2. Holds(b, g) <=> /\ g \in Content(b) /\ <<b, PageOf(g)>> \notin lost
                      /\ IF hook[t].op = "free" THEN PageOf(g) >= at[t] ELSE PageOf(g) < at[t]
  BY InLoop
<1>3. \/ at[t] + 1 \in Pages(b) /\ at'[t] = at[t] + 1 /\ pc'[t] = "status"
      \/ at[t] + 1 \notin Pages(b) /\ at'[t] = at[t] /\ pc'[t] = "return"
  BY <1>1 DEF NextPage, Goto, TypeInv, TypeOK
<1>4. PageOf(g) \in Nat
  BY PageBounds
<1>5. g \in Content(b) => (at[t] + 1 \notin Pages(b) => PageOf(g) <= at[t])
  BY <1>1, PagesConsecutive
<1>6. BusyInv' /\ hook'[t].block = b /\ hook'[t].op = hook[t].op
  BY DEF EnvInv
<1>7. CASE hook[t].op = "free"
  <2>1. hook'[t].op = "free"
    BY <1>7
  <2>2. Holds(b, g)' <=> /\ g \in Content(b) /\ <<b, PageOf(g)>> \notin lost'
                         /\ pc'[t] \in Lookup \/ (pc'[t] \in Loop /\ PageOf(g) >= at'[t])
    BY ONLY <2>1, <1>6, <1>1, HoldsOfFreeNext, t \in Thread
  <2>3. pc'[t] \in Lookup \/ (pc'[t] \in Loop /\ PageOf(g) >= at'[t])
        <=> pc'[t] = "status" /\ PageOf(g) >= at'[t]
    BY <1>3 DEF Lookup, Loop
  <2>4. g \in Content(b) => (pc'[t] = "status" /\ PageOf(g) >= at'[t] <=> PageOf(g) > at[t])
    BY <1>1, <1>3, <1>4, <1>5
  <2> QED
    BY <1>2, <1>7, <2>2, <2>3, <2>4
<1>8. CASE hook[t].op = "alloc"
  <2>1. hook'[t].op = "alloc"
    BY <1>8
  <2>2. Holds(b, g)' <=> /\ g \in Content(b) /\ <<b, PageOf(g)>> \notin lost'
                         /\ PageOf(g) < at'[t] \/ pc'[t] = "return"
    BY ONLY <2>1, <1>6, <1>1, HoldsOfAllocNext, t \in Thread
  <2>3. g \in Content(b) => (PageOf(g) < at'[t] \/ pc'[t] = "return" <=> PageOf(g) <= at[t])
    BY <1>1, <1>3, <1>4, <1>5
  <2> QED
    BY <1>2, <1>8, <2>2, <2>3
<1> QED
  BY <1>1, <1>7, <1>8

(* A page is done: its grains are registered, or no longer.                *)
LEMMA HeldOnNextPage ==
    ASSUME NoEmptyStart, TypeInv, EnvInv, EnvInv', LoopInv, NEW t \in Thread, OthersStay(t),
           UNCHANGED <<hook, blockState, lost>>, pc[t] \in Loop, NextPage(t)
    PROVE  /\ \A b \in Block \ {hook[t].block} : \A g \in Nat : Holds(b, g)' <=> Holds(b, g)
           /\ \A g \in Nat : PageOf(g) # at[t] =>
                  (Holds(hook[t].block, g)' <=> Holds(hook[t].block, g))
           /\ \A g \in GrainsOf(at[t]) :
                  /\ Holds(hook[t].block, g)' <=> hook[t].op = "alloc" /\ g \in Content(hook[t].block)
                  /\ Holds(hook[t].block, g) => hook[t].op = "free" /\ g \in Content(hook[t].block)
<1> DEFINE b == hook[t].block
<1>1. b \in Block /\ hook[t].op \in {"alloc", "free"} /\ at[t] \in Nat /\ at[t] \in Page
      /\ pc[t] # "return"
  BY InLoop DEF Loop
<1>2. \A c \in Block \ {b} : \A g \in Nat : Holds(c, g)' <=> Holds(c, g)
  BY HoldsOfOthers
<1>3. \A g \in Nat : PageOf(g) \in Nat
  BY PageBounds
<1>4. \A g \in GrainsOf(at[t]) : g \in Nat /\ PageOf(g) = at[t]
  BY <1>1, PageGrain, NatPage, InPage
<1>5. hook[t].op = "alloc" => <<b, at[t]>> \notin lost
  BY <1>1 DEF LoopInv, LostInv, LostOf
<1>6. ASSUME NEW g \in GrainsOf(at[t])
      PROVE  /\ Holds(b, g)' <=> hook[t].op = "alloc" /\ g \in Content(b)
             /\ Holds(b, g) => hook[t].op = "free" /\ g \in Content(b)
  <2>1. g \in Nat /\ PageOf(g) = at[t]
    BY <1>4
  <2> QED
    BY <1>1, <1>5, <2>1, HoldsAround
<1>7. ASSUME NEW g \in Nat, PageOf(g) # at[t]
      PROVE  Holds(b, g)' <=> Holds(b, g)
  <2>1. PageOf(g) \in Nat /\ lost' = lost
    BY <1>3
  <2>2. UNCHANGED <<hook, blockState>>
    OBVIOUS
  <2>3. /\ Holds(b, g) <=>
               /\ g \in Content(b) /\ <<b, PageOf(g)>> \notin lost
               /\ IF hook[t].op = "free" THEN PageOf(g) >= at[t] ELSE PageOf(g) < at[t]
        /\ Holds(b, g)' <=>
               /\ g \in Content(b) /\ <<b, PageOf(g)>> \notin lost'
               /\ IF hook[t].op = "free" THEN PageOf(g) > at[t] ELSE PageOf(g) <= at[t]
    BY <2>2, HoldsAround
  <2> HIDE DEF b
  <2> QED
    BY <1>1, <1>7, <2>1, <2>3
<1> QED
  BY <1>2, <1>6, <1>7

(* A page is given up: nothing was registered of the block there.          *)
LEMMA HeldOnGiveUp ==
    ASSUME NoEmptyStart, TypeInv, EnvInv, EnvInv', LoopInv, NEW t \in Thread, OthersStay(t),
           UNCHANGED <<hook, blockState>>, pc[t] \in Loop, NEW message, GiveUp(t, message),
           hook[t].op = "free" => <<hook[t].block, at[t]>> \in lost
    PROVE  HeldKept
<1> DEFINE b == hook[t].block
<1>1. /\ b \in Block /\ hook[t].op \in {"alloc", "free"} /\ at[t] \in Nat
      /\ Value(t) = IF hook[t].op = "free" THEN NULL ELSE b
      /\ b # NULL
  BY InLoop DEF TypeInv, TypeOK
<1>2. /\ NextPage(t)
      /\ lost' = IF hook[t].op = "free" THEN lost ELSE lost \cup {<<b, at[t]>>}
  BY <1>1, ShadowAssumption DEF GiveUp
<1>3. ASSUME NEW c \in Block, c # b, NEW g \in Nat
      PROVE  Holds(c, g)' <=> Holds(c, g)
  <2>1. \A p : <<c, p>> \in lost' <=> <<c, p>> \in lost
    BY <1>2, <1>3
  <2> QED
    BY <1>3, <2>1, HoldsOfOthers
<1>4. ASSUME NEW g \in Nat
      PROVE  Holds(b, g)' <=> Holds(b, g)
  <2>1. PageOf(g) \in Nat
    BY PageBounds
  <2>2. /\ Holds(b, g) <=>
               /\ g \in Content(b) /\ <<b, PageOf(g)>> \notin lost
               /\ IF hook[t].op = "free" THEN PageOf(g) >= at[t] ELSE PageOf(g) < at[t]
        /\ Holds(b, g)' <=>
               /\ g \in Content(b) /\ <<b, PageOf(g)>> \notin lost'
               /\ IF hook[t].op = "free" THEN PageOf(g) > at[t] ELSE PageOf(g) <= at[t]
    BY <1>2, HoldsAround
  <2>3. CASE hook[t].op = "free"
    BY <1>1, <1>2, <2>1, <2>2, <2>3
  <2>4. CASE hook[t].op = "alloc"
    <3>1. \A p : <<b, p>> \in lost' <=> <<b, p>> \in lost \/ p = at[t]
      BY <1>2, <2>4
    <3> QED
      BY <1>1, <2>1, <2>2, <2>4, <3>1
  <2> QED
    BY <1>1, <2>3, <2>4
<1> QED
  BY <1>3, <1>4 DEF HeldKept

-----------------------------------------------------------------------------
(* Where the threads are in the pages of their blocks.                     *)

(* Every page has a mutex.                                                 *)
LEMMA MutexType ==
    ASSUME NEW p \in Nat
    PROVE  Mutex(p) \in 0..(MutexCnt - 1)
BY Z3 DEF Mutex

(* The mutexes the other threads hold stay theirs.                         *)
MutexStay(t) ==
    \A i \in 0..(MutexCnt - 1) : \A u \in Thread \ {t} : fragMutex[i] = u => fragMutex'[i] = u

(* A thread takes a free mutex and releases its own.                       *)
LEMMA MutexStays ==
    ASSUME NoEmptyStart, TypeInv, EnvInv, LoopInv, NEW t \in Thread, ThreadStep(t)
    PROVE  MutexStay(t)
<1>1. CASE UNCHANGED fragMutex
  BY <1>1 DEF MutexStay
<1>2. CASE lock(t)
  <2>1. fragMutex[Mutex(at[t])] = NULL
        /\ fragMutex' = [fragMutex EXCEPT ![Mutex(at[t])] = t]
    BY <1>2 DEF lock
  <2> QED
    BY <2>1 DEF MutexStay, TypeInv, TypeOK
<1>3. ASSUME pc[t] \in {"create", "publish"},
             fragMutex' = [fragMutex EXCEPT ![Mutex(at[t])] = NULL]
      PROVE  MutexStay(t)
  BY <1>3 DEF MutexStay, TypeInv, TypeOK, LoopInv, LoopOf
<1>4. CASE publishMap(t)
  BY <1>3, <1>4 DEF publishMap, unlock
<1>5. ASSUME NEW m \in Map, createMap(t, m)
      PROVE  MutexStay(t)
  <2>1. pc[t] = "create" /\ allocStatus[at[t]] \in {"NONE", "FRAG", "FULL"}
    BY <1>5 DEF createMap, TypeInv, TypeOK
  <2>2. UNCHANGED fragMutex \/ unlock(at[t])
    BY <1>5, <2>1 DEF createMap
  <2> QED
    BY <1>1, <1>3, <2>1, <2>2 DEF unlock
<1> QED
  <2>1. CASE \/ \E b \in Block : onAlloc(t, b) \/ onFree(t, b)
             \/ \E g \in Grain : onAccess(t, g)
             \/ \E old \in SUBSET Page : \E new \in SUBSET Page : Unmap(t, old, new)
             \/ lookup(t) \/ getAllocPointer(t) \/ countAccess(t)
             \/ freeUnknown(t) \/ freeKnown(t)
             \/ fullPage(t) \/ setFull(t) \/ setPtr(t)
             \/ regAllocPointerSmall(t) \/ isNone(t) \/ isFull(t) \/ readMap(t) \/ mark(t) \/ Return(t) \/ clear(t)
    BY <1>1, <2>1 DEF onAlloc, onFree, onAccess, Unmap, EnterUnmap, lookup, getAllocPointer,
        countAccess, freeUnknown, freeKnown, fullPage, setFull, setPtr, regAllocPointerSmall,
        isNone, isFull, readMap, mark, Return, clear, tableVars
  <2> QED
    BY <1>2, <1>4, <1>5, <2>1 DEF ThreadStep

(* The other threads stay where they are, with their mutexes.              *)
LEMMA LoopOthers ==
    ASSUME NoEmptyStart, TypeInv, EnvInv, LoopInv, NEW t \in Thread, OthersStay(t), MutexStay(t)
    PROVE  \A u \in Thread \ {t} : LoopOf(u)'
<1> SUFFICES ASSUME NEW u \in Thread \ {t}
             PROVE  LoopOf(u)'
  OBVIOUS
<1>1. /\ pc'[u] = pc[u] /\ hook'[u] = hook[u] /\ at'[u] = at[u] /\ found'[u] = found[u]
      /\ LoopOf(u)
  BY DEF OthersStay, LoopInv
<1>2. Mutex(at[u]) \in 0..(MutexCnt - 1)
  BY MutexType, NatPage DEF TypeInv, TypeOK
<1>3. fragMutex[Mutex(at[u])] = u => fragMutex'[Mutex(at[u])] = u
  BY <1>2 DEF MutexStay
<1>4. Sought(u)' = Sought(u)
  BY <1>1 DEF Sought
<1> QED
  BY <1>1, <1>3, <1>4 DEF LoopOf, FoundIsBlock

(* The thread goes on to the next page.                                    *)
LEMMA LoopMoves ==
    ASSUME NoEmptyStart, TypeInv, EnvInv, LoopInv, NEW t \in Thread, pc[t] \in Loop,
           NextPage(t), UNCHANGED <<hook, found>>
    PROVE  LoopOf(t)' /\ pc'[t] \in {"status", "return"}
<1>1. Registered(t) = hook[t].block /\ hook[t].op \in {"alloc", "free"} /\ pc[t] \notin Lookup
  BY InLoop DEF Loop, Lookup
<1>2. \/ at[t] + 1 \in Pages(hook[t].block) /\ at'[t] = at[t] + 1 /\ pc'[t] = "status"
      \/ at'[t] = at[t] /\ pc'[t] = "return"
  BY <1>1 DEF NextPage, Goto, TypeInv, TypeOK
<1>3. pc'[t] = "return" \/ at'[t] \in Pages(hook[t].block)
  BY <1>2
<1> QED
  BY <1>1, <1>2, <1>3 DEF LoopInv, LoopOf, FoundIsBlock, Loop, Lookup

(* The thread stays at its page.                                           *)
LEMMA LoopStays ==
    ASSUME NoEmptyStart, TypeInv, EnvInv, LoopInv, NEW t \in Thread, pc[t] \in Loop,
           UNCHANGED <<hook, found, at>>, pc'[t] \in Loop,
           pc'[t] \in {"setFull", "setPtr"} => IsFull(hook[t].block, at[t]),
           pc'[t] \in {"isNone", "isFull", "readMap", "lock", "create", "publish", "mark"} =>
               ~IsFull(hook[t].block, at[t]),
           pc'[t] \in {"create", "publish"} => fragMutex'[Mutex(at[t])] = t
    PROVE  LoopOf(t)'
<1>1. pc[t] \notin Lookup /\ pc'[t] \notin Lookup
  BY DEF Loop, Lookup
<1> QED
  BY <1>1 DEF LoopInv, LoopOf, FoundIsBlock

(* A hook begins at the first page.                                        *)
LEMMA LoopEnters ==
    ASSUME NoEmptyStart, TypeInv, EnvInv, LoopInv, NEW t \in Thread,
           \/ \E b \in Block : onAlloc(t, b) \/ onFree(t, b)
           \/ \E g \in Grain : onAccess(t, g)
           \/ \E old \in SUBSET Page : \E new \in SUBSET Page : Unmap(t, old, new)
    PROVE  LoopOf(t)'
<1>1. ASSUME NEW b \in Block, onAlloc(t, b)
      PROVE  LoopOf(t)'
  <2>1. /\ hook'[t] = [op |-> "alloc", block |-> b]
        /\ at'[t] = PageOf(b.start)
        /\ pc'[t] = IF Span(b) = {} THEN "return" ELSE "status"
    BY <1>1 DEF onAlloc, TypeInv, TypeOK
  <2>2. pc'[t] = "return" \/ (pc'[t] = "status" /\ PageOf(b.start) \in Pages(b))
    <3>1. ASSUME Span(b) # {}
          PROVE  PageOf(b.start) \in Pages(b)
      BY <3>1, SpanIsContent, PagesConsecutive
    <3> QED
      BY <2>1, <3>1
  <2>3. hook'[t].op = "alloc" /\ hook'[t].block = b
    BY <2>1
  <2> QED
    BY <2>1, <2>2, <2>3 DEF LoopOf, FoundIsBlock, Loop, Lookup
<1>2. ASSUME NEW b \in Block, onFree(t, b)
      PROVE  LoopOf(t)'
  <2>1. /\ hook'[t] = [op |-> "free", block |-> b]
        /\ at'[t] = PageOf(b.start) /\ pc'[t] = "lookup"
    BY <1>2 DEF onFree, TypeInv, TypeOK
  <2>2. Sought(t)' = b.start
    BY <2>1 DEF Sought
  <2> QED
    BY <2>1, <2>2 DEF LoopOf, FoundIsBlock, Loop, Lookup
<1>3. ASSUME NEW g \in Grain, onAccess(t, g)
      PROVE  LoopOf(t)'
  <2>1. /\ hook'[t] = [op |-> "access", grain |-> g]
        /\ at'[t] = PageOf(g) /\ pc'[t] = "lookup"
    BY <1>3 DEF onAccess, TypeInv, TypeOK
  <2>2. Sought(t)' = g
    BY <2>1 DEF Sought
  <2> QED
    BY <2>1, <2>2 DEF LoopOf, FoundIsBlock, Loop, Lookup
<1>4. ASSUME NEW old \in SUBSET Page, NEW new \in SUBSET Page, Unmap(t, old, new)
      PROVE  LoopOf(t)'
  <2>1. hook'[t] = [op |-> "unmap", old |-> old, new |-> new] /\ pc'[t] = "clear"
    BY <1>4 DEF Unmap, EnterUnmap, TypeInv, TypeOK
  <2> QED
    BY <2>1 DEF LoopOf, FoundIsBlock, Loop, Lookup
<1> QED
  BY <1>1, <1>2, <1>3, <1>4

(* What onFree finds at the address it is given is the block it is given.  *)
LEMMA FreesItsBlock ==
    ASSUME TypeInv, EnvInv, LoopInv, StepInv, NEW t \in Thread, freeKnown(t)
    PROVE  /\ found[t] = hook[t].block /\ hook[t].block \in Block
           /\ hook[t].block.start \in Content(hook[t].block)
<1>1. /\ pc[t] = "found" /\ pc[t] \in Lookup /\ hook[t].op = "free"
      /\ found[t] \in infos /\ found[t].start = hook[t].block.start
  BY DEF freeKnown, Lookup
<1>2. /\ hook[t].block \in Block /\ Sought(t) = hook[t].block.start
      /\ Sought(t) \in Room(hook[t].block)
      /\ blockState[hook[t].block] = "freeing"
  BY <1>1, Seeking
<1>3. found[t] \in Block /\ found[t] # NULL
  BY <1>1 DEF TypeInv, TypeOK
<1>4. found[t] \in Owners(Sought(t))
  BY <1>1, <1>2, <1>3 DEF StepInv, StepOf
<1>5. blockState[found[t]] # "free" /\ Sought(t) \in Content(found[t])
      /\ Sought(t) \in Room(found[t])
  BY <1>3, <1>4, ContentType DEF Owners
<1>6. found[t] = hook[t].block
  BY <1>2, <1>3, <1>5, OneOwner
<1> QED
  BY <1>2, <1>5, <1>6

(* A lookup stays at its page; onFree goes on at the first page of its     *)
(* block.                                                                  *)
LEMMA LoopLookup ==
    ASSUME NoEmptyStart, TypeInv, EnvInv, LoopInv, StepInv, NEW t \in Thread,
           lookup(t) \/ getAllocPointer(t) \/ freeKnown(t)
    PROVE  LoopOf(t)'
<1>1. CASE lookup(t) \/ getAllocPointer(t)
  <2>1. /\ pc[t] \in Lookup /\ pc'[t] \in Lookup /\ UNCHANGED <<hook, at>>
    BY <1>1 DEF lookup, getAllocPointer, Goto, Lookup, TypeInv, TypeOK
  <2>2. Sought(t)' = Sought(t)
    BY <2>1 DEF Sought
  <2>3. pc'[t] \notin Loop
    BY <2>1 DEF Loop, Lookup
  <2> QED
    BY <2>1, <2>2, <2>3 DEF LoopInv, LoopOf, FoundIsBlock, Loop
<1>2. CASE freeKnown(t)
  <2>1. /\ pc[t] \in Lookup /\ pc'[t] = "status" /\ UNCHANGED <<hook, at, found>>
        /\ hook[t].op = "free"
    BY <1>2 DEF freeKnown, Goto, Lookup, TypeInv, TypeOK, localVars
  <2>2. /\ found[t] = hook[t].block /\ hook[t].block \in Block
        /\ hook[t].block.start \in Content(hook[t].block)
    BY <1>2, FreesItsBlock
  <2>3. at[t] = PageOf(hook[t].block.start)
    BY <2>1, Seeking
  <2>4. at[t] \in Pages(hook[t].block)
    BY <2>2, <2>3, PagesConsecutive
  <2> QED
    BY <2>1, <2>2, <2>4 DEF LoopOf, FoundIsBlock, Loop, Lookup
<1> QED
  BY <1>1, <1>2

(* regAllocPointer goes from page to page of its block.                    *)
LEMMA LoopRegisters ==
    ASSUME NoEmptyStart, TypeInv, EnvInv, LoopInv, NEW t \in Thread,
           \/ fullPage(t) \/ setFull(t) \/ setPtr(t)
           \/ regAllocPointerSmall(t) \/ isNone(t) \/ isFull(t) \/ readMap(t) \/ lock(t)
           \/ publishMap(t) \/ mark(t)
    PROVE  LoopOf(t)'
<1>1. UNCHANGED <<hook, found>> /\ pc[t] \in Loop
  BY DEF fullPage, setFull, setPtr, regAllocPointerSmall, isNone, isFull, readMap, lock, publishMap, mark,
         Loop, localVars
<1>2. Registered(t) = hook[t].block
  BY <1>1, InLoop
<1>3. /\ pc[t] \in {"setFull", "setPtr"} => IsFull(hook[t].block, at[t])
      /\ pc[t] \in {"isNone", "isFull", "readMap", "lock", "create", "publish", "mark"} =>
             ~IsFull(hook[t].block, at[t])
  BY DEF LoopInv, LoopOf
<1>4. CASE fullPage(t)
  <2>1. NextPage(t) \/ (Goto(t, "setFull") /\ at' = at)
    BY <1>4 DEF fullPage, GiveUp
  <2>2. CASE Goto(t, "setFull") /\ at' = at
    <3>1. pc'[t] = "setFull" /\ IsFull(hook[t].block, at[t])
      BY <1>2, <1>4, <2>2 DEF fullPage, Goto, TypeInv, TypeOK
    <3> QED
      BY <1>1, <2>2, <3>1, LoopStays DEF Loop
  <2> QED
    BY <1>1, <2>1, <2>2, LoopMoves
<1>5. CASE setFull(t)
  <2>1. pc'[t] = "setPtr" /\ at' = at /\ pc[t] = "setFull"
    BY <1>5 DEF setFull, Goto, TypeInv, TypeOK, localVars
  <2> QED
    BY <1>1, <1>3, <2>1, LoopStays DEF Loop
<1>6. CASE setPtr(t) \/ mark(t) \/ isFull(t)
  BY <1>1, <1>6, LoopMoves DEF setPtr, mark, isFull, GiveUp
<1>7. CASE regAllocPointerSmall(t) \/ isNone(t)
  <2>1. /\ pc'[t] \in {"readMap", "isNone", "lock", "isFull"} /\ at' = at
        /\ ~IsFull(hook[t].block, at[t])
    BY <1>2, <1>3, <1>7 DEF regAllocPointerSmall, isNone, Goto, TypeInv, TypeOK, localVars
  <2> QED
    BY <1>1, <2>1, LoopStays DEF Loop
<1>8. CASE readMap(t) \/ publishMap(t)
  <2>1. pc'[t] = "mark" /\ at' = at /\ pc[t] \in {"readMap", "publish"}
    BY <1>8 DEF readMap, publishMap, Goto, TypeInv, TypeOK, localVars
  <2> QED
    BY <1>1, <1>3, <2>1, LoopStays DEF Loop
<1>9. CASE lock(t)
  <2>1. /\ pc'[t] = "create" /\ at' = at /\ pc[t] = "lock"
        /\ fragMutex' = [fragMutex EXCEPT ![Mutex(at[t])] = t]
    BY <1>9 DEF lock, Goto, TypeInv, TypeOK, localVars
  <2>2. Mutex(at[t]) \in 0..(MutexCnt - 1)
    BY MutexType, NatPage DEF TypeInv, TypeOK
  <2>3. fragMutex'[Mutex(at[t])] = t
    BY <2>1, <2>2 DEF TypeInv, TypeOK
  <2> QED
    BY <1>1, <1>3, <2>1, <2>3, LoopStays DEF Loop
<1> QED
  BY <1>4, <1>5, <1>6, <1>7, <1>8, <1>9

(* So it does when it makes a map.                                         *)
LEMMA LoopCreates ==
    ASSUME NoEmptyStart, TypeInv, EnvInv, LoopInv, NEW t \in Thread, NEW m \in Map,
           createMap(t, m)
    PROVE  LoopOf(t)'
<1>1. /\ UNCHANGED <<hook, found>> /\ pc[t] = "create" /\ pc[t] \in Loop
      /\ allocStatus[at[t]] \in {"NONE", "FRAG", "FULL"}
  BY DEF createMap, Loop, TypeInv, TypeOK
<1>2. ~IsFull(hook[t].block, at[t]) /\ fragMutex[Mutex(at[t])] = t
  BY <1>1 DEF LoopInv, LoopOf
<1>3. CASE allocStatus[at[t]] = "NONE"
  <2>1. pc'[t] = "publish" /\ UNCHANGED <<at, fragMutex>>
    BY <1>3 DEF createMap, NewMap, Goto, TypeInv, TypeOK
  <2> QED
    BY <1>1, <1>2, <2>1, LoopStays DEF Loop
<1>4. CASE allocStatus[at[t]] = "FRAG"
  <2>1. pc'[t] = "mark" /\ UNCHANGED at
    BY <1>4 DEF createMap, Goto, TypeInv, TypeOK
  <2> QED
    BY <1>1, <1>2, <2>1, LoopStays DEF Loop
<1>5. CASE allocStatus[at[t]] = "FULL"
  <2>1. NextPage(t)
    BY <1>5 DEF createMap, GiveUp
  <2> QED
    BY <1>1, <2>1, LoopMoves
<1> QED
  BY <1>1, <1>3, <1>4, <1>5

(* A hook that returns is at no page.                                      *)
LEMMA LoopLeaves ==
    ASSUME TypeInv, NEW t \in Thread,
           countAccess(t) \/ freeUnknown(t) \/ Return(t) \/ clear(t)
    PROVE  LoopOf(t)'
<1>1. pc'[t] = "idle" /\ hook'[t] = [op |-> "none"]
  BY LeaveEffect DEF countAccess, freeUnknown, Return, clear, TypeInv
<1> QED
  BY <1>1 DEF LoopOf, FoundIsBlock, Loop, Lookup

(* A step inside regAllocPointer stays at the page or goes on to the next. *)
LEMMA LoopSteps ==
    ASSUME TypeInv, NEW t \in Thread, ThreadStep(t),
           ~ \/ \E b \in Block : onAlloc(t, b) \/ onFree(t, b)
             \/ \E g \in Grain : onAccess(t, g)
             \/ \E old \in SUBSET Page : \E new \in SUBSET Page : Unmap(t, old, new)
             \/ lookup(t) \/ getAllocPointer(t) \/ countAccess(t)
             \/ freeUnknown(t) \/ freeKnown(t) \/ Return(t) \/ clear(t)
    PROVE  /\ pc[t] \in Loop /\ UNCHANGED <<hook, blockState>>
           /\ at' = at \/ NextPage(t)
<1>1. ASSUME NEW m \in Map, createMap(t, m)
      PROVE  /\ pc[t] \in Loop /\ UNCHANGED <<hook, blockState>>
             /\ at' = at \/ NextPage(t)
  <2>1. allocStatus[at[t]] \in {"NONE", "FRAG", "FULL"}
    BY DEF TypeInv, TypeOK
  <2>2. at' = at \/ NextPage(t)
    BY <1>1, <2>1 DEF createMap, GiveUp
  <2> QED
    BY <1>1, <2>2 DEF createMap, Loop, envVars
<1>2. CASE fullPage(t)
  BY <1>2 DEF fullPage, GiveUp, Loop, envVars
<1>3. CASE \/ setFull(t) \/ setPtr(t) \/ regAllocPointerSmall(t) \/ isNone(t) \/ isFull(t)
           \/ readMap(t) \/ lock(t) \/ publishMap(t) \/ mark(t)
  BY <1>3 DEF setFull, setPtr, regAllocPointerSmall, isNone, isFull, GiveUp, readMap, lock,
              publishMap, mark, Loop, envVars, localVars
<1> QED
  BY <1>1, <1>2, <1>3 DEF ThreadStep

(* A page is given up by the thread that allocates, and forgotten when the *)
(* block is freed.                                                         *)
LEMMA LostSteps ==
    ASSUME NoEmptyStart, TypeInv, EnvInv, LoopInv, NEW t \in Thread, ThreadStep(t)
    PROVE  \/ lost' = lost
           \/ /\ pc[t] \in Loop /\ hook[t].op = "alloc" /\ NextPage(t)
              /\ UNCHANGED <<hook, blockState>>
              /\ lost' = lost \cup {<<hook[t].block, at[t]>>}
           \/ /\ hook[t].op = "free" /\ hook'[t].op = "none"
              /\ lost' = LostWithout(hook[t].block)
              /\ blockState' = [blockState EXCEPT ![hook[t].block] = "free"]
<1>1. ASSUME NEW message, GiveUp(t, message), pc[t] \in Loop, UNCHANGED <<hook, blockState>>
      PROVE  \/ lost' = lost
             \/ /\ pc[t] \in Loop /\ hook[t].op = "alloc" /\ NextPage(t)
                /\ UNCHANGED <<hook, blockState>>
                /\ lost' = lost \cup {<<hook[t].block, at[t]>>}
  <2>1. /\ hook[t].op \in {"alloc", "free"}
        /\ Value(t) = IF hook[t].op = "free" THEN NULL ELSE hook[t].block
    BY <1>1, InLoop
  <2> QED
    BY <1>1, <2>1 DEF GiveUp
<1>2. CASE fullPage(t)
  <2>1. UNCHANGED lost \/ GiveUp(t, "status")
    BY <1>2 DEF fullPage, historyVars
  <2> QED
    BY <1>1, <1>2, <2>1 DEF fullPage, Loop, envVars
<1>3. CASE isFull(t)
  BY <1>1, <1>3 DEF isFull, Loop, envVars
<1>4. ASSUME NEW m \in Map, createMap(t, m)
      PROVE  \/ lost' = lost
             \/ /\ pc[t] \in Loop /\ hook[t].op = "alloc" /\ NextPage(t)
                /\ UNCHANGED <<hook, blockState>>
                /\ lost' = lost \cup {<<hook[t].block, at[t]>>}
  <2>1. allocStatus[at[t]] \in {"NONE", "FRAG", "FULL"}
    BY DEF TypeInv, TypeOK
  <2>2. lost' = lost \/ GiveUp(t, "append")
    BY <1>4, <2>1 DEF createMap
  <2> QED
    BY <1>1, <1>4, <2>2 DEF createMap, Loop, envVars
<1>5. CASE freeUnknown(t) \/ (Return(t) /\ hook[t].op = "free")
  BY <1>5, LeaveEffect DEF freeUnknown, Return, TypeInv
<1>6. CASE Return(t) /\ hook[t].op # "free"
  BY <1>6 DEF Return
<1>7. CASE \/ \E b \in Block : onAlloc(t, b) \/ onFree(t, b)
           \/ \E g \in Grain : onAccess(t, g)
           \/ \E old \in SUBSET Page : \E new \in SUBSET Page : Unmap(t, old, new)
           \/ lookup(t) \/ getAllocPointer(t) \/ countAccess(t)
           \/ freeKnown(t) \/ setFull(t) \/ setPtr(t)
           \/ regAllocPointerSmall(t) \/ isNone(t) \/ readMap(t) \/ lock(t)
           \/ publishMap(t) \/ mark(t) \/ clear(t)
  BY <1>7 DEF onAlloc, onFree, onAccess, Unmap, EnterUnmap, lookup, getAllocPointer,
        countAccess, freeKnown, setFull, setPtr, regAllocPointerSmall,
        isNone, readMap, lock, publishMap, mark, clear, historyVars
<1> QED
  BY <1>2, <1>3, <1>4, <1>5, <1>6, <1>7 DEF ThreadStep

(* What was given up of a block stays so until it is free.                 *)
LEMMA LostStays ==
    ASSUME NoEmptyStart, TypeInv, EnvInv, LoopInv, NEW t \in Thread, ThreadStep(t),
           NEW c \in Block, blockState'[c] # "free", NEW p, <<c, p>> \in lost
    PROVE  <<c, p>> \in lost'
<1>1. CASE /\ lost' = LostWithout(hook[t].block)
           /\ blockState' = [blockState EXCEPT ![hook[t].block] = "free"]
  <2>1. c # hook[t].block
    BY <1>1 DEF TypeInv, TypeOK
  <2> QED
    BY <1>1, <2>1 DEF LostWithout
<1> QED
  BY <1>1, LostSteps

(* What has been given up, over a step of a thread.                        *)
LEMMA LostNext ==
    ASSUME NoEmptyStart, TypeInv, EnvInv, LoopInv, NEW t \in Thread, ThreadStep(t)
    PROVE  LostInv'
<1>1. OthersStay(t)
  BY StepStays DEF TypeInv
<1>2. ASSUME NEW b \in Block, NEW p \in Page, <<b, p>> \in lost'
      PROVE  blockState'[b] # "free"
  <2>1. CASE \/ \E c \in Block : onAlloc(t, c) \/ onFree(t, c)
    <3>1. lost' = lost
      BY <2>1 DEF onAlloc, onFree, historyVars
    <3>2. blockState[b] # "free"
      BY <1>2, <3>1 DEF LoopInv, LostInv
    <3> QED
      BY <2>1, <3>2 DEF onAlloc, onFree, TypeInv, TypeOK
  <2>2. CASE blockState' = blockState
    <3>1. CASE <<b, p>> \in lost
      BY <2>2, <3>1 DEF LoopInv, LostInv
    <3>2. CASE <<b, p>> \notin lost
      <4>1. b = hook[t].block /\ pc[t] \in Loop
        BY <1>2, <3>2, LostSteps DEF LostWithout
      <4> QED
        BY <2>2, <4>1, InLoop
    <3> QED
      BY <3>1, <3>2
  <2>3. CASE freeUnknown(t) \/ Return(t)
    <3>1. \/ hook[t].op = "free" /\ lost' = LostWithout(hook[t].block)
          \/ hook[t].op # "free" /\ lost' = lost
      BY <2>3 DEF freeUnknown, Return
    <3>2. blockState' = [blockState EXCEPT ![hook[t].block] =
                             IF hook[t].op = "free" THEN "free" ELSE "live"]
      BY <2>3 DEF freeUnknown, Return
    <3>3. blockState[b] # "free" /\ (hook[t].op = "free" => b # hook[t].block)
      BY <1>2, <3>1 DEF LostWithout, LoopInv, LostInv
    <3> QED
      BY <3>2, <3>3 DEF TypeInv, TypeOK
  <2>4. CASE \/ \E g \in Grain : onAccess(t, g)
             \/ \E old \in SUBSET Page : \E new \in SUBSET Page : Unmap(t, old, new)
             \/ lookup(t) \/ getAllocPointer(t) \/ countAccess(t)
             \/ freeKnown(t) \/ clear(t)
    BY <2>2, <2>4 DEF onAccess, Unmap, EnterUnmap, lookup, getAllocPointer, countAccess,
                      freeKnown, clear, envVars
  <2> QED
    BY <2>1, <2>2, <2>3, <2>4, LoopSteps
<1>3. ASSUME NEW u \in Thread, u # t
      PROVE  LostOf(u)'
  <2> SUFFICES ASSUME hook[u].op = "alloc", pc[u] \in Loop, NEW p \in Page,
                      <<hook[u].block, p>> \in lost'
               PROVE  p < at[u]
    BY <1>1, <1>3 DEF LostOf, OthersStay
  <2>1. CASE <<hook[u].block, p>> \in lost
    BY <2>1 DEF LoopInv, LostInv, LostOf
  <2>2. CASE <<hook[u].block, p>> \notin lost
    <3>1. pc[t] \in Loop /\ hook[u].block = hook[t].block
      BY <2>2, LostSteps DEF LostWithout
    <3>2. Busy(t) /\ Busy(u)
      BY <3>1, InLoop
    <3> QED
      BY <1>3, <3>1, <3>2 DEF EnvInv, BusyInv
  <2> QED
    BY <2>1, <2>2
<1>4. LostOf(t)'
  <2> SUFFICES ASSUME hook'[t].op = "alloc", pc'[t] \in Loop, NEW p \in Page,
                      <<hook'[t].block, p>> \in lost'
               PROVE  p < at'[t]
    BY DEF LostOf
  <2>1. ASSUME NEW b \in Block, onAlloc(t, b)
        PROVE  FALSE
    <3>1. /\ hook'[t] = [op |-> "alloc", block |-> b] /\ lost' = lost
          /\ blockState[b] = "free"
      BY <2>1 DEF onAlloc, MayAlloc, historyVars, TypeInv, TypeOK
    <3>2. <<b, p>> \in lost
      BY <3>1
    <3> QED
      BY <3>1, <3>2 DEF LoopInv, LostInv
  <2>2. ASSUME NEW b \in Block, onFree(t, b)
        PROVE  FALSE
    <3>1. hook'[t] = [op |-> "free", block |-> b]
      BY <2>2 DEF onFree, TypeInv, TypeOK
    <3> QED
      BY <3>1
  <2>3. CASE \/ \E g \in Grain : onAccess(t, g)
             \/ \E old \in SUBSET Page : \E new \in SUBSET Page : Unmap(t, old, new)
             \/ lookup(t) \/ getAllocPointer(t) \/ countAccess(t)
             \/ freeUnknown(t) \/ Return(t) \/ clear(t)
    <3>1. pc'[t] \in Lookup \cup {"clear", "idle"}
      BY <2>3, LeaveEffect DEF onAccess, Unmap, EnterUnmap, lookup, getAllocPointer, countAccess,
           freeUnknown, Return, clear, Goto, Lookup, TypeInv, TypeOK
    <3> QED
      BY <3>1 DEF Lookup, Loop
  <2>4. CASE freeKnown(t)
    BY <2>4 DEF freeKnown
  <2>5. CASE pc[t] \in Loop /\ UNCHANGED <<hook, blockState>> /\ (at' = at \/ NextPage(t))
    <3>1. /\ \A q \in Page : <<hook[t].block, q>> \in lost => q < at[t]
          /\ p \in Nat /\ at[t] \in Nat
      BY <2>5, NatPage DEF LoopInv, LostInv, LostOf, TypeInv, TypeOK
    <3>2. NextPage(t) => at'[t] = at[t] + 1
      BY <2>5 DEF NextPage, Goto, Loop, TypeInv, TypeOK
    <3>3. CASE <<hook[t].block, p>> \in lost
      BY <2>5, <3>1, <3>2, <3>3
    <3>4. CASE <<hook[t].block, p>> \notin lost
      BY <2>5, <3>1, <3>2, <3>4, LostSteps DEF LostWithout
    <3> QED
      BY <3>3, <3>4
  <2> QED
    BY <2>1, <2>2, <2>3, <2>4, <2>5, LoopSteps
<1> QED
  BY <1>2, <1>3, <1>4 DEF LostInv

(* Where the threads are, over a step of one of them.                      *)
LEMMA LoopNext ==
    ASSUME NoEmptyStart, TypeInv, EnvInv, LoopInv, StepInv, NEW t \in Thread, ThreadStep(t)
    PROVE  LoopInv'
<1>1. \A u \in Thread \ {t} : LoopOf(u)'
  <2>1. OthersStay(t) /\ MutexStay(t)
    BY StepStays, MutexStays DEF TypeInv
  <2> QED
    BY <2>1, LoopOthers
<1>2. LoopOf(t)'
  BY LoopEnters, LoopLookup, LoopRegisters, LoopCreates, LoopLeaves DEF ThreadStep
<1> QED
  BY <1>1, <1>2, LostNext DEF LoopInv

-----------------------------------------------------------------------------
(* Who owns what a thread looks up.                                        *)

(* Nobody looks up a grain of a block that comes or goes.                  *)
LEMMA SoughtApart ==
    ASSUME TypeInv, EnvInv, LoopInv, NEW u \in Thread, pc[u] \in Lookup, NEW b \in Block,
           Busy(u) => hook[u].block # b,
           MayAlloc(b) \/ blockState[b] \in {"allocating", "freeing"}
    PROVE  Sought(u) \notin Content(b)
<1> SUFFICES ASSUME Sought(u) \in Room(b)
             PROVE  FALSE
  BY ContentType
<1>1. CASE hook[u].op = "access" /\ Sought(u) = hook[u].grain
  <2>1. CASE MayAlloc(b)
    BY <1>1, <2>1 DEF MayAlloc, Accessed
  <2>2. CASE blockState[b] \in {"allocating", "freeing"}
    BY <1>1, <2>2 DEF EnvInv, AccessOpen, OpenTo
  <2> QED
    BY <2>1, <2>2
<1>2. CASE /\ hook[u].op = "free" /\ hook[u].block \in Block
           /\ Sought(u) \in Room(hook[u].block) /\ blockState[hook[u].block] = "freeing"
  <2>1. CASE MayAlloc(b)
    BY <1>2, <2>1 DEF MayAlloc
  <2>2. CASE blockState[b] \in {"allocating", "freeing"}
    <3>1. hook[u].block = b
      BY <1>2, <2>2, OneOwner
    <3> QED
      BY <1>2, <3>1 DEF Busy
  <2> QED
    BY <2>1, <2>2
<1> QED
  BY <1>1, <1>2, Seeking

(* What a thread looks up has the same owner after the step of another.    *)
LEMMA OwnersOfOthers ==
    ASSUME TypeInv, EnvInv, LoopInv, NEW t \in Thread, ThreadStep(t),
           NEW u \in Thread \ {t}, pc[u] \in Lookup
    PROVE  Owners(Sought(u))' = Owners(Sought(u))
<1>1. Sought(u)' = Sought(u) /\ hook'[u] = hook[u]
  BY StepStays DEF TypeInv, OthersStay, Sought
<1>2. CASE blockState' = blockState
  BY <1>1, <1>2 DEF Owners
<1>3. ASSUME NEW b \in Block,
             \/ Sought(u) \notin Content(b)
             \/ blockState'[b] # "free" /\ blockState[b] # "free",
             \A c \in Block \ {b} : blockState'[c] = blockState[c]
      PROVE  Owners(Sought(u))' = Owners(Sought(u))
  BY <1>1, <1>3 DEF Owners
<1>4. ASSUME NEW b \in Block, onAlloc(t, b)
      PROVE  Owners(Sought(u))' = Owners(Sought(u))
  <2>1. MayAlloc(b) /\ blockState[b] = "free" /\ \A c \in Block \ {b} : blockState'[c] = blockState[c]
    BY <1>4 DEF onAlloc, MayAlloc, TypeInv, TypeOK
  <2>2. Busy(u) => hook[u].block # b
    BY <2>1, BusyThread
  <2>3. Sought(u) \notin Content(b)
    BY <2>1, <2>2, SoughtApart
  <2> QED
    BY <2>1, <2>3, <1>3
<1>5. ASSUME NEW b \in Block, onFree(t, b)
      PROVE  Owners(Sought(u))' = Owners(Sought(u))
  <2>1. blockState[b] = "live" /\ blockState'[b] = "freeing"
        /\ \A c \in Block \ {b} : blockState'[c] = blockState[c]
    BY <1>5 DEF onFree, MayFree, TypeInv, TypeOK
  <2> QED
    BY <2>1, <1>3
<1>6. CASE freeUnknown(t) \/ Return(t)
  <2>1. Busy(t)
    <3>1. CASE freeUnknown(t)
      BY <3>1 DEF freeUnknown, Busy
    <3>2. CASE Return(t)
      <4>1. pc[t] = "return" /\ hook[t] \in Hook
        BY <3>2 DEF Return, TypeInv, TypeOK
      <4> QED
        BY <4>1, HookCases DEF TypeInv, ControlInv, ControlOf, Lookup, Busy
    <3> QED
      BY <1>6, <3>1, <3>2
  <2>2. /\ hook[t].block \in Block
        /\ blockState[hook[t].block] \in {"allocating", "freeing"}
        /\ Busy(u) => hook[u].block # hook[t].block
    BY <2>1, BusyThread DEF TypeInv, TypeOK
  <2>3. \A c \in Block \ {hook[t].block} : blockState'[c] = blockState[c]
    BY <1>6, <2>2 DEF freeUnknown, Return, TypeInv, TypeOK
  <2> QED
    BY <2>2, <2>3, <1>3, SoughtApart
<1>7. CASE \/ \E g \in Grain : onAccess(t, g)
           \/ \E old \in SUBSET Page : \E new \in SUBSET Page : Unmap(t, old, new)
           \/ lookup(t) \/ getAllocPointer(t) \/ countAccess(t)
           \/ freeKnown(t) \/ fullPage(t) \/ setFull(t) \/ setPtr(t)
           \/ regAllocPointerSmall(t) \/ isNone(t) \/ isFull(t) \/ readMap(t) \/ lock(t)
           \/ \E m \in Map : createMap(t, m)
           \/ publishMap(t) \/ mark(t) \/ clear(t)
  <2>1. blockState' = blockState
    BY <1>7 DEF onAccess, Unmap, EnterUnmap, lookup, getAllocPointer,
        countAccess, freeKnown, fullPage, setFull, setPtr, regAllocPointerSmall,
        isNone, isFull, readMap, lock, createMap, publishMap, mark, clear, envVars
  <2> QED
    BY <2>1, <1>2
<1> QED
  BY <1>4, <1>5, <1>6, <1>7 DEF ThreadStep

(* The program and the kernel, over a step of a thread.                    *)
LEMMA EnvNext ==
    ASSUME ~InPlaceRemap, ~QuickReuse, TypeInv, EnvInv, LoopInv, NEW t \in Thread, ThreadStep(t)
    PROVE  EnvInv'
<1>1. FoundIsBlock(t)
  BY DEF LoopInv, LoopOf
<1>2. CASE \/ lookup(t) \/ getAllocPointer(t) \/ freeKnown(t)
           \/ fullPage(t) \/ setFull(t) \/ setPtr(t)
           \/ regAllocPointerSmall(t) \/ isNone(t) \/ isFull(t) \/ readMap(t) \/ lock(t)
           \/ \E m \in Map : createMap(t, m)
           \/ publishMap(t) \/ mark(t)
  <2>1. UNCHANGED <<hook, blockState, mapped, infos>>
    BY <1>2 DEF lookup, getAllocPointer,
        freeKnown, fullPage, setFull, setPtr, regAllocPointerSmall,
        isNone, isFull, readMap, lock, createMap, publishMap, mark, envVars, tableVars
  <2> QED
    BY <2>1, EnvUnchanged
<1> QED
  BY <1>1, <1>2, EnvOnAlloc, EnvOnFree, EnvOnAccess, EnvOnUnmap, EnvOnLeave DEF ThreadStep

-----------------------------------------------------------------------------
(* What a thread has read or written of a page still stands.               *)

(* The table has not changed where the thread looks or works.              *)
StepFrame(u) ==
    /\ pc[u] \in {"setPtr", "readMap", "mark", "publish"} \/ (pc[u] = "read" /\ seen[u] # "NONE")
           => allocStatus'[at[u]] = allocStatus[at[u]]
    /\ pc[u] \in {"lock", "create"} /\ allocStatus'[at[u]] = "FULL" => allocStatus[at[u]] = "FULL"
    /\ pc[u] \in {"mark", "publish"} => allocPtr'[at[u]] = allocPtr[at[u]]
    /\ pc[u] = "publish" => map[u] \in maps' /\ entries'[map[u]] = entries[map[u]]

(* What the other threads have read or written still stands after a step   *)
(* that leaves the table as it is where they look.                         *)
LEMMA StepOthers ==
    ASSUME NoEmptyStart, TypeInv, EnvInv, EnvInv', LoopInv, StepInv, NEW t \in Thread, ThreadStep(t),
           \A u \in Thread \ {t} : StepFrame(u)
    PROVE  \A u \in Thread \ {t} : StepOf(u)'
<1> SUFFICES ASSUME NEW u \in Thread \ {t}
             PROVE  StepOf(u)'
  OBVIOUS
<1>1. /\ pc'[u] = pc[u] /\ hook'[u] = hook[u] /\ at'[u] = at[u]
      /\ map'[u] = map[u] /\ seen'[u] = seen[u] /\ found'[u] = found[u]
  BY StepStays DEF TypeInv, OthersStay
<1>2. StepOf(u) /\ StepFrame(u)
  BY DEF StepInv
<1>3. Sought(u)' = Sought(u)
  BY <1>1 DEF Sought
<1>4. ASSUME pc[u] \in {"read", "found"}
      PROVE  Owners(Sought(u))' = Owners(Sought(u)) /\ (Missed(u) => Missed(u)')
  <2>1. Owners(Sought(u))' = Owners(Sought(u))
    BY <1>4, OwnersOfOthers DEF Lookup
  <2>2. ASSUME Missed(u), NEW c \in Owners(Sought(u))
        PROVE  <<c, at[u]>> \in lost'
    <3>1. c \in Block /\ blockState'[c] # "free"
      BY <2>1, <2>2 DEF Owners
    <3> QED
      BY <2>2, <3>1, LostStays DEF Missed
  <2> QED
    BY <1>1, <2>1, <2>2 DEF Missed
<1>5. Remains \subseteq Remains'
  BY StraysStay
<1>6. CASE pc[u] \notin {"isNone", "isFull", "lock", "create",
                       "setPtr", "readMap", "mark", "publish", "read", "found"}
  BY <1>1, <1>6 DEF StepOf
<1>7. CASE pc[u] \in {"lock", "create", "setPtr", "readMap", "mark", "publish"}
  BY <1>1, <1>2, <1>7 DEF StepOf, StepFrame
<1>8. CASE pc[u] \in {"isNone", "isFull"}
  <2>1. hook[u].op = "free" => hook[u].block \in Block /\ blockState'[hook[u].block] # "free"
    <3>1. Busy(u) /\ hook[u].block \in Block
      BY <1>8, InLoop DEF Loop
    <3> QED
      BY <1>1, <3>1 DEF EnvInv, BusyInv, BusyOf
  <2>2. hook[u].op = "free" => <<hook[u].block, at[u]>> \in lost'
    BY <1>2, <1>8, <2>1, LostStays DEF StepOf
  <2> QED
    BY <1>1, <1>8, <2>2 DEF StepOf
<1>9. CASE pc[u] = "read"
  BY <1>1, <1>2, <1>4, <1>9 DEF StepOf, StepFrame
<1>10. CASE pc[u] = "found"
  BY <1>1, <1>2, <1>3, <1>4, <1>5, <1>10 DEF StepOf
<1> QED
  BY <1>6, <1>7, <1>8, <1>9, <1>10

-----------------------------------------------------------------------------
(* The table.                                                              *)

(* Which pages are being made full or empty, over a step of a thread.      *)
LEMMA OverwrittenStays ==
    ASSUME NEW t \in Thread, OthersStay(t), NEW q \in Page,
           pc[t] \in {"setFull", "setPtr"} /\ at[t] = q
           <=> pc'[t] \in {"setFull", "setPtr"} /\ at'[t] = q
    PROVE  Overwritten(q)' <=> Overwritten(q)
BY DEF OthersStay, Overwritten

(* The maps the other threads are publishing, over a step of a thread.     *)
LEMMA PublishedStays ==
    ASSUME NEW t \in Thread, OthersStay(t), NEW q \in Page,
           pc[t] # "publish" \/ at[t] # q, Published(q)
    PROVE  Published(q)'
BY DEF OthersStay, Published

(* A page that is left alone, with the grains registered in it, stays      *)
(* exact.                                                                  *)
LEMMA PageFrame ==
    ASSUME NEW q \in Page, PageExact(q),
           allocStatus'[q] = allocStatus[q], allocPtr'[q] = allocPtr[q],
           allocPtr[q] \in maps =>
               allocPtr[q] \in maps' /\ entries'[allocPtr[q]] = entries[allocPtr[q]],
           Published(q) => Published(q)',
           \A b \in Block : \A g \in GrainsOf(q) :
               (Holds(b, g)' => Holds(b, g)) /\ (Known(b, g) => Known(b, g)')
    PROVE  PageExact(q)'
<1>1. CASE allocStatus[q] = "NONE"
  BY <1>1 DEF PageExact
<1>2. CASE allocStatus[q] = "FULL"
  BY <1>2 DEF PageExact
<1>3. CASE allocStatus[q] = "FRAG"
  <2>1. /\ allocPtr[q] \in maps' /\ entries'[allocPtr[q]] = entries[allocPtr[q]]
        /\ \A b \in Block : \A g \in GrainsOf(q) :
              /\ Holds(b, g) => entries[allocPtr[q]][Index(g)] = b /\ ~IsFull(b, q)
              /\ entries[allocPtr[q]][Index(g)] = b => Known(b, g)
    BY <1>3 DEF PageExact
  <2>2. /\ allocPtr'[q] \in maps'
        /\ \A b \in Block : \A g \in GrainsOf(q) :
              /\ Holds(b, g)' => entries'[allocPtr'[q]][Index(g)] = b /\ ~IsFull(b, q)
              /\ entries'[allocPtr'[q]][Index(g)] = b => Known(b, g)'
    BY <2>1
  <2> QED
    BY <1>3, <2>2 DEF PageExact
<1> QED
  BY <1>1, <1>2, <1>3 DEF PageExact

(* What fades everywhere fades in each page.                               *)
LEMMA HeldIn ==
    ASSUME HeldFades, NEW q \in Page
    PROVE  \A b \in Block : \A g \in GrainsOf(q) :
               (Holds(b, g)' => Holds(b, g)) /\ (Known(b, g) => Known(b, g)')
BY PageGrain, NatPage DEF HeldFades

(* A step that writes nothing of the table.                                *)
LEMMA TableStill ==
    ASSUME TableInv, UNCHANGED <<allocStatus, allocPtr, entries, maps>>, HeldFades,
           \A q \in Page : (Overwritten(q)' <=> Overwritten(q)) /\ (Published(q) => Published(q)')
    PROVE  TableInv'
<1>1. TableExact'
  <2> SUFFICES ASSUME NEW q \in Page, ~Overwritten(q)'
               PROVE  PageExact(q)'
    BY DEF TableExact
  <2>1. PageExact(q)
    BY DEF TableInv, TableExact
  <2> QED
    BY <2>1, HeldIn, PageFrame
<1>2. MapsApart' /\ MapsReached'
  BY DEF TableInv, MapsApart, MapsReached
<1> QED
  BY <1>1, <1>2 DEF TableInv

(* A step of a thread that writes nothing of the table, and neither makes  *)
(* a page full nor publishes a map.                                        *)
LEMMA TableAside ==
    ASSUME TableInv, UNCHANGED <<allocStatus, allocPtr, entries, maps>>, HeldFades,
           NEW t \in Thread, OthersStay(t),
           pc[t] \notin {"setFull", "setPtr", "publish"},
           pc'[t] \notin {"setFull", "setPtr", "publish"}
    PROVE  TableInv'
BY OverwrittenStays, PublishedStays, TableStill

-----------------------------------------------------------------------------
(* The steps that write nothing of the table.                              *)

(* What is left to show of a step of t.                                    *)
StepKeeps(t) ==
    /\ TableInv'
    /\ StepOf(t)'
    /\ \A u \in Thread \ {t} : StepFrame(u)
    /\ NoWildPointer' /\ CauseInv'

(* A step that writes nothing of the table leaves it to everyone.          *)
LEMMA FrameStill ==
    ASSUME StepInv, UNCHANGED <<allocStatus, allocPtr, entries, maps>>
    PROVE  \A u \in Thread : StepFrame(u)
BY DEF StepInv, StepOf, StepFrame

(* A thread that is at none of the labels StepOf speaks of.                *)
LEMMA NoStep ==
    ASSUME NEW t \in Thread,
           pc'[t] \notin {"isNone", "isFull", "lock", "create",
                          "setPtr", "readMap", "mark", "publish", "read", "found"}
    PROVE  StepOf(t)'
BY DEF StepOf

(* A step that gives nothing up and leaves nothing behind.                 *)
LEMMA CauseStill ==
    ASSUME CauseInv, UNCHANGED <<lost, reports, infos, blockState>>
    PROVE  CauseInv'
BY DEF CauseInv, ReportsFollowRace, Remains, Stray

(* A step that gives up a page once the race has been.                     *)
LEMMA CauseAfterRace ==
    ASSUME CauseInv, "race" \in reports', reports' \subseteq reports \cup {"race", "status", "entry"}
    PROVE  CauseInv'
BY DEF CauseInv, ReportsFollowRace

(* A hook begins.                                                          *)
LEMMA KeptOnEnter ==
    ASSUME NoEmptyStart, TypeInv, EnvInv, EnvInv', LoopInv, StepInv, TableInv,
           NoWildPointer, CauseInv, NEW t \in Thread, OthersStay(t), Remains \subseteq Remains',
           \/ \E b \in Block : onAlloc(t, b) \/ onFree(t, b)
           \/ \E g \in Grain : onAccess(t, g)
           \/ \E old \in SUBSET Page : \E new \in SUBSET Page : Unmap(t, old, new)
    PROVE  StepKeeps(t)
<1>1. /\ UNCHANGED <<allocStatus, allocPtr, entries, maps, lost, reports, wild>>
      /\ pc[t] = "idle" /\ pc'[t] \in {"status", "return", "lookup", "clear"}
  BY DEF onAlloc, onFree, onAccess, Unmap, EnterUnmap, Idle, tableVars, historyVars,
         TypeInv, TypeOK
<1>2. HeldKept
  <2>1. ASSUME NEW g \in Grain, onAccess(t, g)
        PROVE  HeldKept
    <3>1. /\ hook'[t] = [op |-> "access", grain |-> g] /\ hook[t].op = "none"
          /\ blockState' = blockState
      BY <1>1, <2>1 DEF onAccess, envVars, TypeInv, TypeOK, ControlInv, ControlOf
    <3>2. ~Busy(t) /\ ~Busy(t)'
      BY <3>1 DEF Busy
    <3> QED
      BY <1>1, <3>1, <3>2, HeldByOthers
  <2>2. ASSUME NEW old \in SUBSET Page, NEW new \in SUBSET Page, Unmap(t, old, new)
        PROVE  HeldKept
    <3>1. /\ hook'[t] = [op |-> "unmap", old |-> old, new |-> new] /\ hook[t].op = "none"
          /\ blockState' = blockState
      BY <1>1, <2>2 DEF Unmap, EnterUnmap, TypeInv, TypeOK, ControlInv, ControlOf
    <3>2. ~Busy(t) /\ ~Busy(t)'
      BY <3>1 DEF Busy
    <3> QED
      BY <1>1, <3>1, <3>2, HeldByOthers
  <2> QED
    BY <2>1, <2>2, HeldOnAlloc, HeldOnFree
<1>3. TableInv'
  BY <1>1, <1>2, KeptFades, TableAside
<1>4. Remains' \subseteq Remains
  <2>1. ASSUME NEW b \in Block, onAlloc(t, b)
        PROVE  Remains' \subseteq Remains
    <3>1. /\ blockState' = [blockState EXCEPT ![b] = "allocating"] /\ infos' = infos \cup {b}
          /\ blockState'[b] = "allocating"
      BY <2>1 DEF onAlloc, TypeInv, TypeOK
    <3> QED
      BY <3>1 DEF Remains, Stray, TypeInv, TypeOK
  <2>2. ASSUME NEW b \in Block, onFree(t, b)
        PROVE  Remains' \subseteq Remains
    <3>1. /\ blockState' = [blockState EXCEPT ![b] = "freeing"] /\ infos' = infos
          /\ blockState'[b] = "freeing"
      BY <2>2 DEF onFree, tableVars, TypeInv, TypeOK
    <3> QED
      BY <3>1 DEF Remains, Stray, TypeInv, TypeOK
  <2>3. CASE \/ \E g \in Grain : onAccess(t, g)
             \/ \E old \in SUBSET Page : \E new \in SUBSET Page : Unmap(t, old, new)
    BY <2>3 DEF onAccess, Unmap, EnterUnmap, tableVars, envVars, Remains, Stray
  <2> QED
    BY <2>1, <2>2, <2>3
<1>5. CauseInv'
  BY <1>1, <1>4 DEF CauseInv, ReportsFollowRace
<1> QED
  BY <1>1, <1>3, <1>5, FrameStill, NoStep DEF StepKeeps, NoWildPointer

(* What is looked up in a page that is empty has no owner, or its          *)
(* registration was given up.                                              *)
LEMMA NoOwner ==
    ASSUME NoEmptyStart, TypeInv, EnvInv, LoopInv, TableInv, NEW t \in Thread,
           pc[t] \in Lookup, allocStatus[at[t]] = "NONE"
    PROVE  Missed(t)
<1>1. at[t] \in Page /\ Sought(t) \in GrainsOf(at[t])
  BY Seeking
<1>2. ~Overwritten(at[t])
  BY NotOverwritten DEF Lookup
<1>3. \A b \in Block : ~Holds(b, Sought(t))
  BY <1>1, <1>2 DEF TableInv, TableExact, PageExact
<1> QED
  BY <1>3, SoughtIsHeld DEF Missed

(* What is looked up stays as it is over a step of its thread that changes *)
(* no block.                                                               *)
LEMMA SoughtStays ==
    ASSUME NEW t \in Thread, UNCHANGED <<hook, at, blockState, lost>>
    PROVE  /\ Sought(t)' = Sought(t) /\ Owners(Sought(t))' = Owners(Sought(t))
           /\ Missed(t)' <=> Missed(t)
BY DEF Owners, Sought, Missed

(* A lookup reads the status: what it has read stands until it reads the   *)
(* pointer, or nobody owns the grain.                                      *)
LEMMA KeptOnLookup ==
    ASSUME NoEmptyStart, TypeInv, EnvInv, EnvInv', LoopInv, StepInv, TableInv,
           NoWildPointer, CauseInv, NEW t \in Thread, OthersStay(t), Remains \subseteq Remains',
           lookup(t)
    PROVE  StepKeeps(t)
<1>1. /\ UNCHANGED <<allocStatus, allocPtr, entries, maps, infos, lost, reports, wild, hook, at,
                     blockState>>
      /\ pc[t] = "lookup" /\ pc'[t] = "read" /\ seen'[t] = allocStatus[at[t]]
  BY DEF lookup, Goto, tableVars, envVars, historyVars, TypeInv, TypeOK
<1>2. pc[t] \in Lookup /\ pc'[t] \in Lookup
  BY <1>1 DEF Lookup
<1>3. TableInv'
  BY <1>1, <1>2, HeldOnLookup, KeptFades, TableAside
<1>4. allocStatus[at[t]] = "NONE" => Missed(t)
  BY <1>2, NoOwner
<1>5. StepOf(t)'
  BY <1>1, <1>4, SoughtStays DEF StepOf
<1> QED
  BY <1>1, <1>3, <1>5, CauseStill, FrameStill DEF StepKeeps, NoWildPointer

(* The lookup ends with the owner, or, when there is none or its           *)
(* registration was given up, with nothing or with what has stayed.        *)
LEMMA KeptOnGet ==
    ASSUME NoEmptyStart, TypeInv, EnvInv, EnvInv', LoopInv, StepInv, TableInv,
           NoWildPointer, CauseInv, NEW t \in Thread, OthersStay(t), Remains \subseteq Remains',
           getAllocPointer(t)
    PROVE  StepKeeps(t)
<1> DEFINE g == Sought(t)
           ptr == allocPtr[at[t]]
<1>1. /\ UNCHANGED <<allocStatus, allocPtr, entries, maps, infos, lost, reports, hook, at, blockState>>
      /\ pc[t] = "read" /\ pc'[t] = "found"
  BY DEF getAllocPointer, Goto, tableVars, envVars, TypeInv, TypeOK
<1>2. pc[t] \in Lookup /\ pc'[t] \in Lookup
  BY <1>1 DEF Lookup
<1>3. TableInv'
  BY <1>1, <1>2, HeldOnLookup, KeptFades, TableAside
<1>4. at[t] \in Page /\ g \in GrainsOf(at[t]) /\ g \in Grain
  BY <1>2, Seeking
<1>5. PageExact(at[t])
  <2>1. ~Overwritten(at[t])
    BY <1>1, <1>2, NotOverwritten
  <2> QED
    BY <1>4, <2>1 DEF TableInv, TableExact
<1>6. /\ seen[t] = "NONE" => Missed(t)
      /\ seen[t] # "NONE" => allocStatus[at[t]] = seen[t]
      /\ seen[t] \in {"NONE", "FULL", "FRAG"}
  <2>1. StepOf(t)
    BY DEF StepInv
  <2>2. seen[t] \in {"NONE", "FULL", "FRAG"}
    BY DEF TypeInv, TypeOK
  <2> QED
    BY <1>1, <2>1, <2>2, Zenon DEF StepOf
<1>7. ~(seen[t] = "FRAG" /\ ptr \notin maps)
  BY <1>5, <1>6 DEF PageExact
<1>8. wild' = wild
      /\ found'[t] = IF seen[t] = "NONE" THEN NULL
                     ELSE IF seen[t] = "FULL" THEN ptr ELSE entries[ptr][Index(g)]
  BY <1>7 DEF getAllocPointer, TypeInv, TypeOK
<1>9. ASSUME NEW b \in Block, Holds(b, g)
      PROVE  b \in Owners(g)
  BY <1>9, HeldIsTaken DEF Owners
<1>10. ASSUME NEW b \in Block, StrayAt(b, g), \A c \in Block : Holds(c, g) => c = b
       PROVE  b \in Remains /\ b.start # g /\ Missed(t)
  <2>1. b \in Remains /\ b.start # g /\ blockState[b] = "free"
    BY <1>10 DEF StrayAt, Remains, Stray
  <2>2. ASSUME NEW c \in Owners(g), <<c, at[t]>> \notin lost
        PROVE  FALSE
    <3>1. c \in Block /\ Holds(c, g) /\ blockState[c] # "free"
      BY <1>2, <2>2, SoughtIsHeld DEF Owners
    <3> QED
      BY <1>10, <2>1, <3>1
  <2> QED
    BY <2>1, <2>2 DEF Missed
<1>11. \/ found'[t] \in Owners(g)
       \/ Missed(t) /\ found'[t] = NULL
       \/ Missed(t) /\ found'[t] \in Remains /\ found'[t].start # g
  <2>1. CASE seen[t] = "NONE"
    BY <2>1, <1>6, <1>8
  <2>2. CASE seen[t] = "FULL"
    <3>1. ptr \in Block /\ Known(ptr, g) /\ \A c \in Block : Holds(c, g) => c = ptr
      BY <2>2, <1>4, <1>5, <1>6 DEF PageExact
    <3>2. found'[t] = ptr
      BY <2>2, <1>8
    <3>3. CASE Holds(ptr, g)
      BY <3>1, <3>2, <3>3, <1>9
    <3>4. CASE StrayAt(ptr, g)
      BY <3>1, <3>2, <3>4, <1>10
    <3> QED
      BY <3>1, <3>3, <3>4 DEF Known
  <2>3. CASE seen[t] = "FRAG"
    <3>1. ptr \in Map /\ Index(g) \in 0..(Grains - 1)
      BY <2>3, <1>4, <1>7, NatPage, PageBounds DEF TypeInv, TypeOK
    <3>2. found'[t] = entries[ptr][Index(g)] /\ entries[ptr][Index(g)] \in Block \cup {NULL}
      BY <2>3, <3>1, <1>8 DEF TypeInv, TypeOK
    <3>3. \A b \in Block : /\ Holds(b, g) => entries[ptr][Index(g)] = b
                           /\ entries[ptr][Index(g)] = b => Known(b, g)
      BY <2>3, <1>4, <1>5, <1>6 DEF PageExact
    <3>4. ASSUME NEW b \in Block, entries[ptr][Index(g)] = b
          PROVE  \/ found'[t] \in Owners(g)
                 \/ Missed(t) /\ found'[t] \in Remains /\ found'[t].start # g
      <4>1. found'[t] = b /\ Known(b, g) /\ \A c \in Block : Holds(c, g) => c = b
        BY <3>2, <3>3, <3>4
      <4>2. CASE Holds(b, g)
        BY <4>1, <4>2, <1>9
      <4>3. CASE StrayAt(b, g)
        BY <4>1, <4>3, <1>10
      <4> QED
        BY <4>1, <4>2, <4>3 DEF Known
    <3>5. CASE entries[ptr][Index(g)] = NULL
      <4>1. \A b \in Block : ~Holds(b, g)
        BY <3>3, <3>5, ShadowAssumption
      <4>2. Missed(t)
        BY <4>1, <1>2, SoughtIsHeld DEF Missed
      <4> QED
        BY <3>2, <3>5, <4>2
    <3> QED
      BY <3>2, <3>4, <3>5
  <2> QED
    BY <1>6, <2>1, <2>2, <2>3
<1>12. StepOf(t)'
  <2>1. Sought(t)' = g /\ Owners(Sought(t))' = Owners(g) /\ (Missed(t)' <=> Missed(t))
    BY <1>1, SoughtStays
  <2>2. \/ found'[t] \in Owners(Sought(t))'
        \/ Missed(t)' /\ found'[t] = NULL
        \/ Missed(t)' /\ found'[t] \in Remains' /\ found'[t].start # Sought(t)'
    BY <1>11, <2>1
  <2> QED
    BY <1>1, <2>2 DEF StepOf
<1> QED
  BY <1>1, <1>3, <1>8, <1>12, CauseStill, FrameStill DEF StepKeeps, NoWildPointer

(* The hook of an access or of a free ends; that of an alloc returns the   *)
(* block.                                                                  *)
LEMMA KeptOnLeave ==
    ASSUME NoEmptyStart, TypeInv, EnvInv, EnvInv', LoopInv, StepInv, TableInv,
           NoWildPointer, CauseInv, NEW t \in Thread, OthersStay(t), Remains \subseteq Remains',
           countAccess(t) \/ freeUnknown(t) \/ Return(t)
    PROVE  StepKeeps(t)
<1>1. /\ UNCHANGED <<allocStatus, allocPtr, entries, maps, reports>>
      /\ pc[t] \in {"found", "return"} /\ pc'[t] = "idle"
      /\ hook'[t] = [op |-> "none"]
  BY LeaveEffect DEF countAccess, freeUnknown, Return, tableVars, historyVars, TypeInv
<1>2. ~Busy(t)'
  BY <1>1 DEF Busy
<1>3. CASE countAccess(t)
  <2>1. /\ hook[t].op = "access" /\ pc[t] = "found"
        /\ UNCHANGED <<blockState, infos, lost>>
        /\ wild' = wild \cup ({found[t]} \ (infos \cup {NULL}))
    BY <1>3 DEF countAccess, envVars, tableVars
  <2>2. ~Busy(t)
    BY <2>1 DEF Busy
  <2>3. HeldKept
    BY <1>2, <2>1, <2>2, HeldByOthers
  <2>4. found[t] \in infos \cup {NULL}
    BY <2>1 DEF StepInv, StepOf, Owners, Remains, Stray, EnvInv, RoomsMapped
  <2>5. wild' = {}
    BY <2>1, <2>4 DEF NoWildPointer
  <2> QED
    BY <1>1, <2>1, <2>3, <2>5, KeptFades, TableAside, FrameStill, NoStep, CauseStill
    DEF StepKeeps, NoWildPointer
<1>4. CASE freeUnknown(t)
  <2>1. wild' = wild
    BY <1>4 DEF freeUnknown, historyVars
  <2>2. HeldFades
    BY <1>4, HeldOnUnknown
  <2>3. CauseInv'
    <3>1. PICK b \in Block : b = hook[t].block /\ Sought(t) = b.start /\ at[t] = PageOf(b.start)
                             /\ b.start \in Room(b) /\ blockState[b] = "freeing"
      <4>1. pc[t] \in Lookup /\ hook[t].op = "free"
        BY <1>4 DEF freeUnknown, Lookup
      <4> QED
        BY <4>1, Seeking
    <3>2. /\ pc[t] = "found" /\ blockState' = [blockState EXCEPT ![b] = "free"]
          /\ found[t] = NULL \/ found[t].start # b.start
          /\ lost' \subseteq lost /\ infos' = infos
      BY <1>4, <3>1 DEF freeUnknown, LostWithout, tableVars
    <3>3. ASSUME Content(b) # {}
          PROVE  lost # {}
      <4>1. b.start \in Content(b)
        BY <3>3, BlockType DEF Content
      <4>2. b \in Owners(b.start)
        BY <3>1, <4>1 DEF Owners
      <4>3. found[t] \notin Owners(b.start)
        <5>1. ASSUME found[t] \in Owners(b.start)
              PROVE  found[t] = b /\ found[t] # NULL
          <6>1. found[t] \in Block /\ blockState[found[t]] # "free" /\ b.start \in Room(found[t])
            BY <5>1, ContentType DEF Owners
          <6> QED
            BY <3>1, <6>1, OneOwner, ShadowAssumption
        <5> QED
          BY <3>2, <5>1
      <4> QED
        BY <3>1, <3>2, <4>2, <4>3 DEF StepInv, StepOf, Missed
    <3>4. Remains' \subseteq Remains \cup {b}
      BY <3>2 DEF Remains, Stray, TypeInv, TypeOK
    <3>5. b \in Remains' => Content(b) # {}
      BY DEF Remains
    <3> QED
      BY <1>1, <3>2, <3>3, <3>4, <3>5 DEF CauseInv, ReportsFollowRace
  <2> QED
    BY <1>1, <2>1, <2>2, <2>3, TableAside, FrameStill, NoStep
    DEF StepKeeps, NoWildPointer
<1>5. CASE Return(t)
  <2>1. HeldKept
    BY <1>5, HeldOnReturn
  <2>2. /\ pc[t] = "return" /\ pc[t] \notin Lookup
        /\ hook[t].op \in {"alloc", "free"} /\ hook[t].block \in Block
        /\ hook[t].op = "free" => found[t] = hook[t].block
    <3>1. pc[t] = "return" /\ pc[t] \notin Lookup
      BY <1>5 DEF Return, Lookup
    <3>2. hook[t].op \in {"alloc", "free"}
      <4>1. hook[t] \in Hook /\ ControlOf(t)
        BY DEF TypeInv, TypeOK, ControlInv
      <4>2. hook[t].op \notin {"none", "unmap", "access"}
        BY <3>1, <4>1 DEF ControlOf
      <4> QED
        BY <4>1, <4>2, HookCases
    <3>3. Busy(t)
      BY <3>2 DEF Busy
    <3> QED
      BY <3>1, <3>2, <3>3, BusyThread DEF LoopInv, LoopOf, FoundIsBlock
  <2>3. wild' = {}
    <3>1. CASE hook[t].op # "free"
      BY <1>5, <3>1 DEF Return, NoWildPointer
    <3>2. CASE hook[t].op = "free"
      <4>1. wild' = wild \cup ({found[t]} \ infos)
        BY <1>5, <3>2 DEF Return
      <4>2. Busy(t)
        BY <3>2 DEF Busy
      <4>3. hook[t].block \in infos
        BY <4>2, BusyThread DEF EnvInv, RoomsMapped
      <4> QED
        BY <2>2, <3>2, <4>1, <4>3 DEF NoWildPointer
    <3> QED
      BY <3>1, <3>2
  <2>4. CauseInv'
    <3>1. lost' \subseteq lost
      BY <1>5 DEF Return, LostWithout
    <3>2. Remains' \subseteq Remains
      <4>1. CASE hook[t].op = "free"
        <5>1. infos' = infos \ {hook[t].block}
              /\ blockState' = [blockState EXCEPT ![hook[t].block] = "free"]
          BY <1>5, <2>2, <4>1 DEF Return
        <5> QED
          BY <5>1 DEF Remains, Stray, TypeInv, TypeOK
      <4>2. CASE hook[t].op = "alloc"
        <5>1. infos' = infos
              /\ blockState' = [blockState EXCEPT ![hook[t].block] = "live"]
          BY <1>5, <4>2 DEF Return
        <5> QED
          BY <2>2, <5>1 DEF Remains, Stray, TypeInv, TypeOK
      <4> QED
        BY <2>2, <4>1, <4>2
    <3> QED
      BY <1>1, <3>1, <3>2 DEF CauseInv, ReportsFollowRace
  <2> QED
    BY <1>1, <2>1, <2>3, <2>4, KeptFades, TableAside, FrameStill, NoStep
    DEF StepKeeps, NoWildPointer
<1> QED
  BY <1>3, <1>4, <1>5

(* onFree goes on to unregister the block.                                 *)
LEMMA KeptOnKnown ==
    ASSUME NoEmptyStart, TypeInv, EnvInv, EnvInv', LoopInv, StepInv, TableInv,
           NoWildPointer, CauseInv, NEW t \in Thread, OthersStay(t), Remains \subseteq Remains',
           freeKnown(t)
    PROVE  StepKeeps(t)
<1>1. /\ UNCHANGED <<allocStatus, allocPtr, entries, maps, infos, blockState, lost, reports, wild>>
      /\ pc[t] = "found" /\ pc'[t] = "status"
  BY DEF freeKnown, Goto, tableVars, historyVars, envVars, TypeInv, TypeOK
<1>2. HeldFades
  BY HeldOnKnown, KeptFades
<1> QED
  BY <1>1, <1>2, TableAside, FrameStill, NoStep, CauseStill DEF StepKeeps, NoWildPointer

(* A page that a block covers a part of has a map when the block is        *)
(* registered there; it is found full only by what has stayed.             *)
LEMMA PartOf ==
    ASSUME NoEmptyStart, TypeInv, EnvInv, LoopInv, TableInv, NEW t \in Thread,
           pc[t] \in Loop, pc[t] \notin {"setFull", "setPtr"}, ~IsFull(hook[t].block, at[t])
    PROVE  /\ allocStatus[at[t]] # "FRAG" /\ hook[t].op = "free" =>
                  <<hook[t].block, at[t]>> \in lost
           /\ allocStatus[at[t]] = "FULL" => Remains # {}
<1> DEFINE b == hook[t].block
           c == allocPtr[at[t]]
<1>1. /\ b \in Block /\ at[t] \in Page /\ at[t] \in Nat /\ blockState[b] # "free"
      /\ \E g \in Content(b) : PageOf(g) = at[t] /\ g \in GrainsOf(at[t])
      /\ \A g : Holds(b, g) <=>
             /\ g \in Content(b) /\ <<b, PageOf(g)>> \notin lost
             /\ IF hook[t].op = "free" THEN PageOf(g) >= at[t] ELSE PageOf(g) < at[t]
  BY InLoop
<1>2. PICK g \in Content(b) : PageOf(g) = at[t] /\ g \in GrainsOf(at[t])
  BY <1>1
<1>3. PageExact(at[t])
  <2>1. ~Overwritten(at[t])
    BY NotOverwritten
  <2> QED
    BY <1>1, <2>1 DEF TableInv, TableExact
<1>4. ASSUME allocStatus[at[t]] # "FRAG"
      PROVE  ~Holds(b, g)
  <2>1. CASE allocStatus[at[t]] = "NONE"
    BY <1>1, <1>2, <1>3, <2>1 DEF PageExact
  <2>2. CASE allocStatus[at[t]] = "FULL"
    BY <1>1, <1>2, <1>3, <2>2 DEF PageExact
  <2> QED
    BY <1>1, <1>4, <2>1, <2>2 DEF TypeInv, TypeOK
<1>5. hook[t].op = "free" => (Holds(b, g) <=> <<b, at[t]>> \notin lost)
  BY <1>1, <1>2
<1>6. ASSUME allocStatus[at[t]] = "FULL"
      PROVE  Remains # {}
  <2>1. c \in Block /\ IsFull(c, at[t]) /\ Known(c, g)
    BY <1>2, <1>3, <1>6 DEF PageExact
  <2>2. ASSUME Holds(c, g)
        PROVE  FALSE
    <3>1. g \in Room(b) /\ g \in Room(c) /\ blockState[c] # "free"
      BY <1>1, <1>2, <2>1, <2>2, HeldIsTaken, ContentType
    <3>2. b = c
      BY <1>1, <2>1, <3>1, OneOwner
    <3> QED
      BY <2>1, <3>2
  <2> QED
    BY <2>1, <2>2 DEF Known, StrayAt
<1> QED
  BY <1>4, <1>5, <1>6

(* regAllocPointerSmall tests the status, or gives the page up.            *)
LEMMA KeptOnTests ==
    ASSUME NoEmptyStart, TypeInv, EnvInv, EnvInv', LoopInv, StepInv, TableInv,
           NoWildPointer, CauseInv, NEW t \in Thread, OthersStay(t), Remains \subseteq Remains',
           regAllocPointerSmall(t) \/ isNone(t) \/ isFull(t)
    PROVE  StepKeeps(t)
<1>1. /\ UNCHANGED <<allocStatus, allocPtr, entries, maps, infos, wild, hook, blockState>>
      /\ pc[t] \in {"status", "isNone", "isFull"} /\ pc[t] \in Loop
  BY DEF regAllocPointerSmall, isNone, isFull, Loop, tableVars, historyVars, localVars, envVars
<1>2. /\ Registered(t) = hook[t].block /\ hook[t].op \in {"alloc", "free"}
      /\ at[t] \in Page /\ allocStatus[at[t]] \in {"NONE", "FULL", "FRAG"}
  BY <1>1, InLoop DEF TypeInv, TypeOK
<1>3. ~IsFull(hook[t].block, at[t])
  BY <1>2 DEF regAllocPointerSmall, isNone, isFull, LoopInv, LoopOf
<1>4. /\ allocStatus[at[t]] # "FRAG" /\ hook[t].op = "free" => <<hook[t].block, at[t]>> \in lost
      /\ allocStatus[at[t]] = "FULL" => Remains # {}
  BY <1>1, <1>3, PartOf
<1>5. CASE regAllocPointerSmall(t) \/ isNone(t)
  <2>1. UNCHANGED <<at, lost, reports>>
    BY <1>5 DEF regAllocPointerSmall, isNone, localVars, historyVars
  <2>2. CASE regAllocPointerSmall(t)
    <3>1. pc'[t] = IF allocStatus[at[t]] = "FRAG" THEN "readMap" ELSE "isNone"
      BY <2>2 DEF regAllocPointerSmall, Goto, TypeInv, TypeOK
    <3> QED
      <4>1. StepOf(t)' /\ pc'[t] \in {"readMap", "isNone"}
        BY <1>1, <1>4, <2>1, <3>1 DEF StepOf
      <4>2. HeldFades
        BY <1>1, <2>1, <4>1, HeldInLoop, KeptFades DEF Loop
      <4> QED
        BY <1>1, <2>1, <4>1, <4>2, TableAside, FrameStill, CauseStill DEF StepKeeps, NoWildPointer
  <2>3. CASE isNone(t)
    <3>1. pc'[t] = (IF allocStatus[at[t]] = "NONE" THEN "lock" ELSE "isFull") /\ pc[t] = "isNone"
      BY <2>3 DEF isNone, Goto, TypeInv, TypeOK
    <3>2. hook[t].op = "free" => <<hook[t].block, at[t]>> \in lost
      BY <3>1 DEF StepInv, StepOf
    <3> QED
      <4>1. StepOf(t)' /\ pc'[t] \in {"lock", "isFull"}
        BY <1>1, <2>1, <3>1, <3>2 DEF StepOf
      <4>2. HeldFades
        BY <1>1, <2>1, <4>1, HeldInLoop, KeptFades DEF Loop
      <4> QED
        BY <1>1, <2>1, <4>1, <4>2, TableAside, FrameStill, CauseStill DEF StepKeeps, NoWildPointer
  <2> QED
    BY <1>5, <2>2, <2>3
<1>6. CASE isFull(t)
  <2>1. /\ pc[t] = "isFull"
        /\ GiveUp(t, IF allocStatus[at[t]] = "FULL" THEN "status" ELSE "race")
    BY <1>6 DEF isFull
  <2>2. hook[t].op = "free" => <<hook[t].block, at[t]>> \in lost
    BY <2>1 DEF StepInv, StepOf
  <2>3. HeldFades
    BY <1>1, <2>1, <2>2, HeldOnGiveUp, KeptFades
  <2>4. pc'[t] \in {"status", "return"}
    <3>1. NextPage(t) /\ UNCHANGED <<hook, found>>
      BY <1>6, <2>1 DEF GiveUp, isFull
    <3> QED
      BY <1>1, <3>1, LoopMoves
  <2>5. CauseInv'
    <3>1. allocStatus[at[t]] = "FULL" => "race" \in reports
      BY <1>4 DEF CauseInv
    <3>2. reports' = reports \cup {IF allocStatus[at[t]] = "FULL" THEN "status" ELSE "race"}
      BY <2>1 DEF GiveUp
    <3> QED
      BY <3>1, <3>2, CauseAfterRace
  <2> QED
    BY <1>1, <2>1, <2>3, <2>4, <2>5, TableAside, FrameStill, NoStep DEF StepKeeps, NoWildPointer
<1> QED
  BY <1>5, <1>6

(* regAllocPointerSmall reads the map, or locks the mutex to make it.      *)
LEMMA KeptOnSmall ==
    ASSUME NoEmptyStart, TypeInv, EnvInv, EnvInv', LoopInv, StepInv, TableInv,
           NoWildPointer, CauseInv, NEW t \in Thread, OthersStay(t), Remains \subseteq Remains',
           readMap(t) \/ lock(t)
    PROVE  StepKeeps(t)
<1>1. /\ UNCHANGED <<allocStatus, allocPtr, entries, maps, infos, lost, reports, wild, hook, at,
                     blockState>>
      /\ pc[t] \in {"readMap", "lock"} /\ pc[t] \in Loop
  BY DEF readMap, lock, Loop, tableVars, historyVars, localVars, envVars
<1>2. CASE readMap(t)
  <2>1. pc'[t] = "mark" /\ map'[t] = allocPtr[at[t]] /\ pc[t] = "readMap"
    BY <1>2 DEF readMap, Goto, TypeInv, TypeOK
  <2>2. allocStatus[at[t]] = "FRAG"
    BY <2>1 DEF StepInv, StepOf
  <2>3. StepOf(t)'
    BY <1>1, <2>1, <2>2 DEF StepOf
  <2>4. HeldFades
    BY <1>1, <2>1, HeldInLoop, KeptFades DEF Loop
  <2> QED
    BY <1>1, <2>1, <2>3, <2>4, TableAside, FrameStill, CauseStill DEF StepKeeps, NoWildPointer
<1>3. CASE lock(t)
  <2>1. pc'[t] = "create" /\ pc[t] = "lock"
    BY <1>3 DEF lock, Goto, TypeInv, TypeOK
  <2>2. allocStatus[at[t]] # "FULL"
    BY <2>1 DEF StepInv, StepOf
  <2>3. StepOf(t)'
    BY <1>1, <2>1, <2>2 DEF StepOf
  <2>4. HeldFades
    BY <1>1, <2>1, HeldInLoop, KeptFades DEF Loop
  <2> QED
    BY <1>1, <2>1, <2>3, <2>4, TableAside, FrameStill, CauseStill DEF StepKeeps, NoWildPointer
<1> QED
  BY <1>2, <1>3

-----------------------------------------------------------------------------
(* The steps that write the table.                                         *)

(* A thread registers or unregisters a full page alone.                    *)
LEMMA FullPage ==
    ASSUME NoEmptyStart, TypeInv, EnvInv, LoopInv, NEW t \in Thread, pc[t] \in Loop,
           IsFull(hook[t].block, at[t])
    PROVE  /\ \A u \in Thread \ {t} : pc[u] \in Loop \cup Lookup => at[u] # at[t]
           /\ \A g \in GrainsOf(at[t]) :
                  /\ g \in Content(hook[t].block)
                  /\ Holds(hook[t].block, g) <=>
                         hook[t].op = "free" /\ <<hook[t].block, at[t]>> \notin lost
                  /\ \A c \in Block : Holds(c, g) => c = hook[t].block
<1> DEFINE b == hook[t].block
<1>1. b \in Block /\ at[t] \in Page /\ blockState[b] # "free" /\ hook[t].op \in {"alloc", "free"}
  BY InLoop
<1>2. ASSUME NEW g \in GrainsOf(at[t])
      PROVE  /\ g \in Content(b)
             /\ Holds(b, g) <=> hook[t].op = "free" /\ <<b, at[t]>> \notin lost
             /\ \A c \in Block : Holds(c, g) => c = b
  <2>1. g \in Content(b)
    BY <1>1, SpanIsContent
  <2>2. PageOf(g) = at[t] /\ at[t] \in Nat
    BY <1>1, InPage, PageGrain, NatPage
  <2>3. Holds(b, g) <=> hook[t].op = "free" /\ <<b, at[t]>> \notin lost
    BY <1>1, <2>1, <2>2, InLoop
  <2>4. ASSUME NEW c \in Block, Holds(c, g)
        PROVE  c = b
    <3>1. g \in Room(b) /\ g \in Room(c) /\ blockState[c] # "free"
      BY <1>1, <2>1, <2>4, HeldIsTaken, ContentType
    <3> QED
      BY <1>1, <3>1, OneOwner
  <2> QED
    BY <2>1, <2>3, <2>4
<1> QED
  BY <1>2, Alone

(* The frame of the others when only the page of t changes.                *)
LEMMA FrameAt ==
    ASSUME TypeInv, StepInv, TableInv, NEW t \in Thread, NEW u \in Thread \ {t},
           \A q \in Page : q # at[t] =>
               allocStatus'[q] = allocStatus[q] /\ allocPtr'[q] = allocPtr[q],
           pc[u] \in {"setPtr", "readMap", "mark", "publish"}
               \/ (pc[u] = "read" /\ seen[u] # "NONE") => at[u] # at[t],
           pc[u] \in {"lock", "create"} /\ at[u] = at[t] /\ allocStatus'[at[t]] = "FULL" =>
               allocStatus[at[t]] = "FULL",
           pc[u] = "publish" => map[u] \in maps' /\ entries'[map[u]] = entries[map[u]]
    PROVE  StepFrame(u)
<1>1. at[u] \in Page
  BY DEF TypeInv, TypeOK
<1> QED
  BY <1>1 DEF StepFrame

(* Nobody is publishing a map of a full page, and its status is the one    *)
(* expected, but for what was given up and what has stayed.                *)
LEMMA FullPageMap ==
    ASSUME NoEmptyStart, TypeInv, EnvInv, LoopInv, StepInv, TableInv,
           NEW t \in Thread, pc[t] = "status", IsFull(hook[t].block, at[t])
    PROVE  /\ PageExact(at[t]) /\ ~Overwritten(at[t])
           /\ hook[t].op = "alloc" /\ allocStatus[at[t]] = "FULL" => Remains # {}
           /\ hook[t].op = "free" /\ allocStatus[at[t]] # "FULL" => <<hook[t].block, at[t]>> \in lost
           /\ allocStatus[at[t]] # "FRAG" => allocPtr[at[t]] \notin Map
<1> DEFINE p == at[t]
           b == hook[t].block
<1>1. pc[t] \in Loop /\ b \in Block /\ p \in Page /\ hook[t].op \in {"alloc", "free"}
      /\ allocStatus[p] \in {"NONE", "FULL", "FRAG"}
  <2>1. pc[t] \in Loop
    BY DEF Loop
  <2> QED
    BY <2>1, InLoop DEF TypeInv, TypeOK
<1>2. ~Overwritten(p)
  BY <1>1, NotOverwritten
<1>3. PageExact(p)
  BY <1>1, <1>2 DEF TableInv, TableExact
<1>4. PICK g \in GrainsOf(p) : g \in Content(b)
  BY <1>1, InLoop
<1>5. /\ Holds(b, g) <=> hook[t].op = "free" /\ <<b, p>> \notin lost
      /\ \A c \in Block : Holds(c, g) => c = b
  BY <1>1, FullPage
<1>6. ~Published(p)
  <2>1. pc[t] # "publish"
    OBVIOUS
  <2>2. \A u \in Thread \ {t} : pc[u] = "publish" => at[u] # p
    BY <1>1, FullPage DEF Loop
  <2> QED
    BY <2>1, <2>2 DEF Published
<1>7. CASE allocStatus[p] = "NONE"
  <2>1. ~Holds(b, g) /\ allocPtr[p] = NULL
    BY <1>1, <1>3, <1>4, <1>6, <1>7 DEF PageExact
  <2> QED
    BY <1>1, <1>2, <1>3, <1>5, <1>7, <2>1, ShadowAssumption
<1>8. CASE allocStatus[p] = "FULL"
  <2>1. allocPtr[p] \in Block /\ Known(allocPtr[p], g)
    BY <1>3, <1>4, <1>8 DEF PageExact
  <2>2. allocPtr[p] \notin Map
    BY <2>1, ShadowAssumption
  <2>3. hook[t].op = "alloc" => Remains # {}
    BY <1>5, <2>1 DEF Known, StrayAt
  <2> QED
    BY <1>1, <1>2, <1>3, <1>8, <2>2, <2>3
<1>9. CASE allocStatus[p] = "FRAG"
  <2>1. ~Holds(b, g)
    BY <1>1, <1>3, <1>4, <1>9 DEF PageExact
  <2> QED
    BY <1>1, <1>2, <1>3, <1>5, <1>9, <2>1
<1> QED
  BY <1>1, <1>7, <1>8, <1>9

(* A full page whose status is the one expected: its old map is deleted    *)
(* while nobody reads it.                                                  *)
LEMMA KeptOnExpected ==
    ASSUME NoEmptyStart, TypeInv, EnvInv, EnvInv', LoopInv, StepInv, TableInv,
           NoWildPointer, CauseInv, NEW t \in Thread, OthersStay(t), Remains \subseteq Remains',
           fullPage(t),
           IF hook[t].op = "free" THEN allocStatus[at[t]] = "FULL" ELSE allocStatus[at[t]] # "FULL"
    PROVE  StepKeeps(t)
<1> DEFINE p == at[t]
           b == hook[t].block
<1>1. /\ pc[t] = "status" /\ pc[t] \in Loop
      /\ UNCHANGED <<allocStatus, allocPtr, entries, infos, hook, blockState>>
  BY DEF fullPage, Loop, envVars
<1>2. /\ Registered(t) = b /\ hook[t].op \in {"alloc", "free"} /\ b \in Block /\ p \in Page
      /\ Value(t) = IF hook[t].op = "free" THEN NULL ELSE b
      /\ b # NULL /\ allocStatus[p] \in {"NONE", "FULL", "FRAG"}
  BY <1>1, InLoop, ShadowAssumption DEF TypeInv, TypeOK
<1>3. IsFull(b, p)
  BY <1>2 DEF fullPage
<1>4. /\ PageExact(p) /\ ~Overwritten(p)
      /\ allocStatus[p] # "FRAG" => allocPtr[p] \notin Map
  BY <1>1, <1>3, FullPageMap
<1>5. /\ pc'[t] = "setFull" /\ UNCHANGED <<at, lost, reports, wild>>
      /\ maps' = IF allocStatus[p] = "FRAG" THEN maps \ {allocPtr[p]} ELSE maps
  <2>1. CASE allocStatus[p] = "FRAG"
    <3>1. Value(t) # NULL /\ allocPtr[p] \in maps
      BY <1>2, <1>4, <2>1 DEF PageExact
    <3>2. /\ maps' = maps \ {allocPtr[p]} /\ wild' = wild \cup ({allocPtr[p]} \ maps)
          /\ Goto(t, "setFull") /\ UNCHANGED <<at, lost, reports>>
      BY <2>1, <3>1 DEF fullPage
    <3> QED
      BY <2>1, <3>1, <3>2 DEF Goto, TypeInv, TypeOK
  <2>2. CASE allocStatus[p] # "FRAG"
    <3>1. \/ allocStatus[p] = "NONE" /\ Value(t) # NULL
          \/ allocStatus[p] = "FULL" /\ Value(t) = NULL
      BY <1>2, <2>2
    <3>2. Goto(t, "setFull") /\ UNCHANGED <<maps, at, historyVars>>
      BY <3>1 DEF fullPage
    <3> QED
      BY <2>2, <3>2 DEF Goto, TypeInv, TypeOK, historyVars
  <2> QED
    BY <2>1, <2>2
<1>6. HeldFades
  BY <1>1, <1>5, HeldInLoop, KeptFades DEF Loop
<1>7. Overwritten(p)'
  BY <1>5 DEF Overwritten
<1>8. \A q \in Page : ~Overwritten(q)' => q # p /\ ~Overwritten(q)
  <2>1. ASSUME NEW q \in Page, ~Overwritten(q)'
        PROVE  q # p /\ ~Overwritten(q)
    <3>1. q # p
      BY <1>5, <1>7, <2>1
    <3>2. Overwritten(q)' <=> Overwritten(q)
      BY <3>1, <1>1, <1>5, OverwrittenStays
    <3> QED
      BY <3>1, <3>2, <2>1
  <2> QED
    BY <2>1
<1>9. ASSUME NEW m \in maps, m # allocPtr[p] \/ allocStatus[p] # "FRAG"
      PROVE  m \in maps'
  BY <1>5, <1>9
<1>10. TableExact'
  <2> SUFFICES ASSUME NEW q \in Page, ~Overwritten(q)'
               PROVE  PageExact(q)'
    BY DEF TableExact
  <2>1. q # p /\ ~Overwritten(q) /\ PageExact(q)
    BY <1>8 DEF TableInv, TableExact
  <2>2. allocPtr[q] \in maps => allocPtr[q] \in maps'
    BY <1>2, <1>4, <1>9, <2>1 DEF TableInv, MapsApart
  <2>3. Published(q) => Published(q)'
    BY <1>1, PublishedStays
  <2> QED
    BY <1>1, <1>6, <2>1, <2>2, <2>3, HeldIn, PageFrame
<1>11. MapsApart'
  BY <1>1, <1>5, <1>8 DEF TableInv, MapsApart
<1>12. MapsReached'
  <2> SUFFICES ASSUME NEW m \in maps'
               PROVE  \E q \in Page : allocPtr'[q] = m /\ ~Overwritten(q)'
    BY DEF MapsReached
  <2>1. m \in maps /\ m \in Map
    BY <1>5 DEF TypeInv, TypeOK
  <2>2. PICK q \in Page : allocPtr[q] = m /\ ~Overwritten(q)
    BY <2>1 DEF TableInv, MapsReached
  <2>3. q # p
    BY <1>4, <1>5, <2>1, <2>2
  <2>4. Overwritten(q)' <=> Overwritten(q)
    BY <2>3, <1>1, <1>5, OverwrittenStays
  <2> QED
    BY <1>1, <2>2, <2>4
<1>13. ASSUME NEW u \in Thread \ {t}
       PROVE  StepFrame(u)
  <2>1. pc[u] = "publish" => map[u] \in maps'
    <3>1. ASSUME pc[u] = "publish"
          PROVE  map[u] \in maps'
      <4>1. at[u] # p /\ at[u] \in Page /\ ~Overwritten(at[u])
        BY <3>1, <1>1, <1>3, FullPage, NotOverwritten DEF Loop, TypeInv, TypeOK
      <4>2. map[u] = allocPtr[at[u]] /\ map[u] \in maps
        BY <3>1 DEF StepInv, StepOf
      <4> QED
        BY <4>1, <4>2, <1>2, <1>4, <1>9 DEF TableInv, MapsApart
    <3> QED
      BY <3>1
  <2> QED
    BY <1>1, <2>1 DEF StepFrame
<1> QED
  BY <1>1, <1>5, <1>10, <1>11, <1>12, <1>13, NoStep, CauseStill
  DEF StepKeeps, TableInv, NoWildPointer

(* A full page whose status is another is given up.                        *)
LEMMA KeptOnFullPage ==
    ASSUME NoEmptyStart, TypeInv, EnvInv, EnvInv', LoopInv, StepInv, TableInv,
           NoWildPointer, CauseInv, NEW t \in Thread, OthersStay(t), Remains \subseteq Remains',
           fullPage(t)
    PROVE  StepKeeps(t)
<1> DEFINE expected == IF hook[t].op = "free" THEN allocStatus[at[t]] = "FULL"
                                              ELSE allocStatus[at[t]] # "FULL"
<1> SUFFICES ASSUME ~expected
             PROVE  StepKeeps(t)
  BY KeptOnExpected
<1>1. /\ pc[t] = "status" /\ pc[t] \in Loop
      /\ UNCHANGED <<allocStatus, allocPtr, entries, hook, blockState, found>>
  BY DEF fullPage, Loop, envVars
<1>2. /\ Registered(t) = hook[t].block /\ hook[t].op \in {"alloc", "free"}
      /\ hook[t].block \in Block /\ hook[t].block # NULL
      /\ Value(t) = IF hook[t].op = "free" THEN NULL ELSE hook[t].block
      /\ allocStatus[at[t]] \in {"NONE", "FULL", "FRAG"}
  BY <1>1, InLoop, ShadowAssumption DEF TypeInv, TypeOK
<1>3. IsFull(hook[t].block, at[t])
  BY <1>2 DEF fullPage
<1>4. GiveUp(t, "status") /\ UNCHANGED <<maps, wild>>
  BY <1>2 DEF fullPage
<1>5. /\ hook[t].op = "alloc" => Remains # {}
      /\ hook[t].op = "free" => <<hook[t].block, at[t]>> \in lost
  BY <1>1, <1>2, <1>3, FullPageMap
<1>6. HeldFades
  BY <1>1, <1>4, <1>5, HeldOnGiveUp, KeptFades
<1>7. pc'[t] \in {"status", "return"}
  BY <1>1, <1>4, LoopMoves DEF GiveUp
<1>8. CauseInv'
  <2>1. "race" \in reports /\ reports' = reports \cup {"status"}
    BY <1>2, <1>4, <1>5 DEF GiveUp, CauseInv
  <2> QED
    BY <2>1, CauseAfterRace
<1> QED
  BY <1>1, <1>4, <1>6, <1>7, <1>8, TableAside, FrameStill, NoStep DEF StepKeeps, NoWildPointer

(* The new status of a full page is written.                               *)
LEMMA KeptOnSetFull ==
    ASSUME NoEmptyStart, TypeInv, EnvInv, EnvInv', LoopInv, StepInv, TableInv,
           NoWildPointer, CauseInv, NEW t \in Thread, OthersStay(t), Remains \subseteq Remains',
           setFull(t)
    PROVE  StepKeeps(t)
<1> DEFINE p == at[t]
<1>1. /\ pc[t] = "setFull" /\ pc[t] \in Loop /\ pc'[t] = "setPtr"
      /\ UNCHANGED <<allocPtr, entries, maps, infos, lost, reports, wild, hook, at, blockState>>
      /\ allocStatus' = [allocStatus EXCEPT ![p] = IF Value(t) = NULL THEN "NONE" ELSE "FULL"]
  BY DEF setFull, Loop, Goto, TypeInv, TypeOK, localVars, envVars, historyVars
<1>2. /\ p \in Page /\ hook[t].op \in {"alloc", "free"} /\ hook[t].block \in Block
      /\ Value(t) = IF hook[t].op = "free" THEN NULL ELSE hook[t].block
  BY <1>1, InLoop
<1>3. IsFull(hook[t].block, p)
  BY <1>1 DEF LoopInv, LoopOf
<1>4. HeldFades
  BY <1>1, HeldInLoop, KeptFades DEF Loop
<1>5. Overwritten(p) /\ \A q \in Page : Overwritten(q)' <=> Overwritten(q)
  BY <1>1, OverwrittenStays DEF Overwritten
<1>6. /\ allocStatus'[p] = IF hook[t].op = "free" THEN "NONE" ELSE "FULL"
      /\ \A q \in Page : q # p => allocStatus'[q] = allocStatus[q]
  BY <1>1, <1>2 DEF TypeInv, TypeOK
<1>7. TableExact'
  <2> SUFFICES ASSUME NEW q \in Page, ~Overwritten(q)'
               PROVE  PageExact(q)'
    BY DEF TableExact
  <2>1. q # p /\ PageExact(q)
    BY <1>5 DEF TableInv, TableExact
  <2>2. Published(q) => Published(q)'
    BY <1>1, PublishedStays
  <2> QED
    BY <1>1, <1>4, <1>6, <2>1, <2>2, HeldIn, PageFrame
<1>8. MapsApart' /\ MapsReached'
  BY <1>1, <1>5 DEF TableInv, MapsApart, MapsReached
<1>9. StepOf(t)'
  BY <1>1, <1>6 DEF StepOf
<1>10. ASSUME NEW u \in Thread \ {t}
       PROVE  StepFrame(u)
  <2>1. pc[u] \in Loop \cup Lookup => at[u] # p
    BY <1>1, <1>3, FullPage
  <2>2. pc[u] = "publish" => map[u] \in maps
    BY DEF StepInv, StepOf
  <2> QED
    BY <1>1, <1>6, <2>1, <2>2, FrameAt DEF Loop, Lookup
<1> QED
  BY <1>1, <1>7, <1>8, <1>9, <1>10, CauseStill DEF StepKeeps, TableInv, NoWildPointer

(* The pointer of a full page is written: the page is exact again.         *)
LEMMA KeptOnSetPtr ==
    ASSUME NoEmptyStart, TypeInv, EnvInv, EnvInv', LoopInv, StepInv, TableInv,
           NoWildPointer, CauseInv, NEW t \in Thread, OthersStay(t), Remains \subseteq Remains',
           setPtr(t)
    PROVE  StepKeeps(t)
<1>0. PICK p \in Page : p = at[t]
  <2>1. pc[t] \in Loop
    BY DEF setPtr, Loop
  <2> QED
    BY <2>1, InLoop
<1>1. /\ pc[t] = "setPtr" /\ pc[t] \in Loop /\ NextPage(t)
      /\ UNCHANGED <<allocStatus, entries, maps, infos, lost, reports, wild, hook, blockState, found>>
      /\ allocPtr' = [allocPtr EXCEPT ![p] = Value(t)]
  BY <1>0 DEF setPtr, Loop, envVars, historyVars
<1>2. PICK b \in Block : /\ b = hook[t].block /\ hook'[t] = hook[t]
                         /\ hook[t].op \in {"alloc", "free"}
                         /\ Value(t) = IF hook[t].op = "free" THEN NULL ELSE b
                         /\ b \notin Map /\ NULL \notin Map
  BY <1>1, InLoop, ShadowAssumption
<1>3. IsFull(b, p)
  BY <1>0, <1>1, <1>2 DEF LoopInv, LoopOf
<1>4. pc'[t] \in {"status", "return"}
  BY <1>1, LoopMoves
<1>5. /\ \A c \in Block \ {b} : \A g \in Nat : Holds(c, g)' <=> Holds(c, g)
      /\ \A g \in Nat : PageOf(g) # p => (Holds(b, g)' <=> Holds(b, g))
      /\ \A g \in GrainsOf(p) : Holds(b, g)' <=> hook[t].op = "alloc" /\ g \in Content(b)
  BY <1>0, <1>1, <1>2, HeldOnNextPage
<1>6. /\ \A u \in Thread \ {t} : pc[u] \in Loop \cup Lookup => at[u] # p
      /\ \A g \in GrainsOf(p) : g \in Content(b) /\ \A c \in Block : Holds(c, g) => c = b
  BY <1>0, <1>1, <1>2, <1>3, FullPage
<1>7. Overwritten(p) /\ ~Overwritten(p)'
  BY <1>0, <1>1, <1>4, <1>6 DEF Overwritten, Loop, OthersStay
<1>8. \A q \in Page : q # p => (Overwritten(q)' <=> Overwritten(q))
  BY <1>0, <1>1, <1>4, OverwrittenStays
<1>9. /\ allocStatus'[p] = IF hook[t].op = "free" THEN "NONE" ELSE "FULL"
      /\ allocPtr'[p] = Value(t)
      /\ \A q \in Page : q # p => allocPtr'[q] = allocPtr[q]
  <2>1. allocStatus[p] = IF hook[t].op = "free" THEN "NONE" ELSE "FULL"
    BY <1>0, <1>1 DEF StepInv, StepOf
  <2> QED
    BY <1>1, <1>2, <2>1 DEF TypeInv, TypeOK
<1>10. \A q \in Page : \A g \in GrainsOf(q) : g \in Nat /\ (q # p => PageOf(g) # p)
  BY <1>2, InPage, PageGrain, NatPage
<1>11. PageExact(p)'
  <2>1. \A g \in GrainsOf(p) : g \in Nat /\ g \in Content(b)
    BY <1>2, <1>6, <1>10
  <2>2. CASE hook[t].op = "free"
    <3>1. \A c \in Block : \A g \in GrainsOf(p) : ~Holds(c, g)'
      BY <2>1, <2>2, <1>5, <1>6
    <3>2. allocPtr'[p] = NULL /\ allocStatus'[p] = "NONE"
      BY <2>2, <1>2, <1>9
    <3> QED
      BY <3>1, <3>2 DEF PageExact
  <2>3. CASE hook[t].op = "alloc"
    <3>1. allocPtr'[p] = b /\ allocStatus'[p] = "FULL"
      BY <2>3, <1>2, <1>9
    <3>2. \A g \in GrainsOf(p) : Holds(b, g)' /\ \A c \in Block : Holds(c, g)' => c = b
      BY <2>1, <2>3, <1>5, <1>6
    <3> QED
      BY <3>1, <3>2, <1>3 DEF PageExact, Known
  <2> QED
    BY <1>2, <2>2, <2>3
<1>12. TableExact'
  <2> SUFFICES ASSUME NEW q \in Page, ~Overwritten(q)', q # p
               PROVE  PageExact(q)'
    BY <1>11 DEF TableExact
  <2>1. PageExact(q)
    BY <1>8 DEF TableInv, TableExact
  <2>2. Published(q) => Published(q)'
    BY <1>1, PublishedStays
  <2>3. \A c \in Block : \A g \in GrainsOf(q) :
            (Holds(c, g)' => Holds(c, g)) /\ (Known(c, g) => Known(c, g)')
    BY <1>5, <1>10 DEF Known, StrayAt
  <2> QED
    BY <1>1, <1>9, <2>1, <2>2, <2>3, PageFrame
<1>13. Value(t) \notin maps
  BY <1>2 DEF TypeInv, TypeOK
<1>14. MapsApart'
  BY <1>1, <1>8, <1>9, <1>13 DEF TableInv, MapsApart
<1>15. MapsReached'
  BY <1>1, <1>7, <1>8, <1>9 DEF TableInv, MapsReached
<1>16. ASSUME NEW u \in Thread \ {t}
       PROVE  StepFrame(u)
  <2>1. pc[u] = "publish" => map[u] \in maps
    BY DEF StepInv, StepOf
  <2> QED
    BY <1>0, <1>1, <1>6, <1>9, <2>1, FrameAt DEF Loop, Lookup
<1> QED
  BY <1>1, <1>4, <1>12, <1>14, <1>15, <1>16, NoStep, CauseStill
  DEF StepKeeps, TableInv, NoWildPointer

(* A thread that has found a page empty, and holds its mutex, is alone in  *)
(* changing it.                                                            *)
LEMMA EmptyPage ==
    ASSUME NoEmptyStart, TypeInv, EnvInv, LoopInv, StepInv, TableInv,
           NEW t \in Thread, pc[t] \in {"create", "publish"}, allocStatus[at[t]] = "NONE"
    PROVE  /\ at[t] \in Page /\ ~Overwritten(at[t]) /\ PageExact(at[t])
           /\ pc[t] = "create" => allocPtr[at[t]] = NULL
           /\ \A u \in Thread \ {t} :
                 pc[u] \in {"setFull", "setPtr", "readMap", "mark", "publish"}
                     \/ (pc[u] = "read" /\ seen[u] # "NONE") => at[u] # at[t]
<1> DEFINE p == at[t]
<1>1. pc[t] \in Loop /\ p \in Page
  BY DEF Loop, TypeInv, TypeOK
<1>2. ~Overwritten(p)
  BY <1>1, NotOverwritten
<1>3. PageExact(p)
  BY <1>1, <1>2 DEF TableInv, TableExact
<1>4. fragMutex[Mutex(p)] = t
  BY DEF LoopInv, LoopOf
<1>5. \A u \in Thread \ {t} : pc[u] = "publish" => at[u] # p
  BY <1>4 DEF LoopInv, LoopOf
<1>6. pc[t] = "create" => allocPtr[p] = NULL
  BY <1>3, <1>5 DEF PageExact, Published
<1>7. \A u \in Thread \ {t} : pc[u] \in {"setFull", "setPtr"} => at[u] # p
  BY <1>2 DEF Overwritten
<1>8. \A u \in Thread \ {t} :
          pc[u] \in {"readMap", "mark"} \/ (pc[u] = "read" /\ seen[u] # "NONE") => at[u] # p
  <2> TAKE u \in Thread \ {t}
  <2>1. StepOf(u)
    BY DEF StepInv
  <2>2. pc[u] \in {"readMap", "mark"} => allocStatus[at[u]] = "FRAG"
    BY <2>1 DEF StepOf
  <2>3. pc[u] = "read" /\ seen[u] # "NONE" => allocStatus[at[u]] = seen[u]
    BY <2>1 DEF StepOf
  <2> QED
    BY <2>2, <2>3
<1> QED
  BY <1>1, <1>2, <1>3, <1>5, <1>6, <1>7, <1>8

(* Under the mutex, the map another thread has made is taken, or a new one *)
(* made.                                                                   *)
LEMMA KeptOnCreate ==
    ASSUME NoEmptyStart, TypeInv, EnvInv, EnvInv', LoopInv, StepInv, TableInv,
           NoWildPointer, CauseInv, NEW t \in Thread, OthersStay(t), Remains \subseteq Remains',
           NEW m \in Map, createMap(t, m)
    PROVE  StepKeeps(t)
<1>0. PICK p \in Page : p = at[t]
  BY DEF TypeInv, TypeOK
<1>1. /\ pc[t] = "create" /\ pc[t] \in Loop
      /\ UNCHANGED <<allocStatus, infos, hook, blockState, wild>>
      /\ allocStatus[p] \in {"NONE", "FRAG", "FULL"}
  BY <1>0 DEF createMap, Loop, envVars, TypeInv, TypeOK
<1>3. CASE allocStatus[p] = "FRAG"
  <2>1. /\ UNCHANGED <<allocPtr, entries, maps, at, lost, reports>>
        /\ pc'[t] = "mark" /\ map'[t] = allocPtr[p]
    BY <1>0, <1>3 DEF createMap, Goto, TypeInv, TypeOK
  <2>2. HeldFades
    BY <1>1, <2>1, HeldInLoop, KeptFades DEF Loop
  <2>3. TableInv'
    BY <1>1, <2>1, <2>2, TableAside
  <2>4. StepOf(t)'
    BY <1>0, <1>1, <1>3, <2>1 DEF StepOf
  <2> QED
    BY <1>1, <2>1, <2>3, <2>4, FrameStill, CauseStill DEF StepKeeps, NoWildPointer
<1>4. CASE allocStatus[p] = "NONE"
  <2>1. /\ m \notin maps /\ maps' = maps \cup {m}
        /\ entries' = [entries EXCEPT ![m] = [i \in 0..(Grains - 1) |-> NULL]]
        /\ allocPtr' = [allocPtr EXCEPT ![p] = m]
        /\ map'[t] = m /\ pc'[t] = "publish" /\ UNCHANGED <<at, lost, reports>>
    BY <1>0, <1>4 DEF createMap, NewMap, Goto, TypeInv, TypeOK
  <2>2. /\ ~Overwritten(p) /\ PageExact(p) /\ allocPtr[p] = NULL
        /\ \A u \in Thread \ {t} :
              pc[u] \in {"setFull", "setPtr", "readMap", "mark", "publish"}
                  \/ (pc[u] = "read" /\ seen[u] # "NONE") => at[u] # p
    BY <1>0, <1>1, <1>4, EmptyPage
  <2>3. HeldFades
    BY <1>1, <2>1, HeldInLoop, KeptFades DEF Loop
  <2>4. \A q \in Page : Overwritten(q)' <=> Overwritten(q)
    BY <1>1, <2>1, OverwrittenStays
  <2>5. /\ allocPtr'[p] = m /\ \A q \in Page : q # p => allocPtr'[q] = allocPtr[q]
        /\ entries'[m] = [i \in 0..(Grains - 1) |-> NULL]
        /\ \A n \in maps : n # m /\ n \in Map /\ entries'[n] = entries[n]
    BY <2>1 DEF TypeInv, TypeOK
  <2>6. Published(p)'
    BY <1>0, <2>1 DEF Published
  <2>7. PageExact(p)'
    <3>1. \A c \in Block : \A g \in GrainsOf(p) : ~Holds(c, g)'
      BY <1>4, <2>2, <2>3, HeldIn DEF PageExact
    <3> QED
      BY <1>1, <1>4, <2>6, <3>1 DEF PageExact
  <2>8. TableExact'
    <3> SUFFICES ASSUME NEW q \in Page, ~Overwritten(q)', q # p
                 PROVE  PageExact(q)'
      BY <2>7 DEF TableExact
    <3>1. PageExact(q)
      BY <2>4 DEF TableInv, TableExact
    <3>2. Published(q) => Published(q)'
      BY <1>1, PublishedStays
    <3>3. allocPtr[q] \in maps =>
               allocPtr[q] \in maps' /\ entries'[allocPtr[q]] = entries[allocPtr[q]]
      BY <2>1, <2>5
    <3> QED
      BY <1>1, <2>3, <2>5, <3>1, <3>2, <3>3, HeldIn, PageFrame
  <2>9. ASSUME NEW q \in Page, q # p, ~Overwritten(q)
        PROVE  allocPtr[q] # m
    <3>1. PageExact(q)
      BY <2>9 DEF TableInv, TableExact
    <3>2. CASE allocStatus[q] = "NONE"
      <4>1. ASSUME NEW u \in Thread, pc[u] = "publish", at[u] = q
            PROVE  allocPtr[q] \in maps
        <5>1. StepOf(u)
          BY DEF StepInv
        <5> QED
          BY <4>1, <5>1 DEF StepOf
      <4>2. Published(q) => allocPtr[q] \in maps
        BY <4>1 DEF Published
      <4> QED
        BY <2>1, <3>1, <3>2, <4>2 DEF PageExact
    <3>3. CASE allocStatus[q] = "FULL"
      BY <3>1, <3>3 DEF PageExact
    <3>4. CASE allocStatus[q] = "FRAG"
      BY <2>1, <3>1, <3>4 DEF PageExact
    <3> QED
      BY <3>2, <3>3, <3>4 DEF TypeInv, TypeOK
  <2>10. MapsApart'
    BY <2>1, <2>2, <2>4, <2>5, <2>9 DEF TableInv, MapsApart
  <2>11. MapsReached'
    <3> SUFFICES ASSUME NEW n \in maps'
                 PROVE  \E q \in Page : allocPtr'[q] = n /\ ~Overwritten(q)'
      BY DEF MapsReached
    <3>1. CASE n = m
      BY <2>2, <2>4, <2>5, <3>1
    <3>2. CASE n # m
      <4>1. n \in maps /\ n # NULL
        BY <2>1, <3>2 DEF TypeInv, TypeOK
      <4>2. PICK q \in Page : allocPtr[q] = n /\ ~Overwritten(q)
        BY <4>1 DEF TableInv, MapsReached
      <4> QED
        BY <2>2, <2>4, <2>5, <4>1, <4>2
    <3> QED
      BY <3>1, <3>2
  <2>12. StepOf(t)'
    BY <1>0, <1>1, <1>4, <2>1, <2>5 DEF StepOf
  <2>13. ASSUME NEW u \in Thread \ {t}
         PROVE  StepFrame(u)
    <3>1. pc[u] = "publish" => map[u] \in maps
      BY DEF StepInv, StepOf
    <3> QED
      BY <1>0, <1>1, <2>1, <2>2, <2>5, <3>1, FrameAt
  <2> QED
    BY <1>1, <2>1, <2>8, <2>10, <2>11, <2>12, <2>13, CauseStill
    DEF StepKeeps, TableInv, NoWildPointer
<1>5. allocStatus[p] # "FULL"
  BY <1>0, <1>1 DEF StepInv, StepOf
<1> QED
  BY <1>1, <1>3, <1>4, <1>5

(* The new map is published: the page is in fragments, none registered.    *)
LEMMA KeptOnPublish ==
    ASSUME NoEmptyStart, TypeInv, EnvInv, EnvInv', LoopInv, StepInv, TableInv,
           NoWildPointer, CauseInv, NEW t \in Thread, OthersStay(t), Remains \subseteq Remains',
           publishMap(t)
    PROVE  StepKeeps(t)
<1>0. PICK p \in Page : p = at[t]
  BY DEF TypeInv, TypeOK
<1>1. /\ pc[t] = "publish" /\ pc[t] \in Loop /\ pc'[t] = "mark"
      /\ UNCHANGED <<allocPtr, entries, maps, infos, lost, reports, wild, hook, at, map, blockState>>
      /\ allocStatus' = [allocStatus EXCEPT ![p] = "FRAG"]
  BY <1>0 DEF publishMap, Loop, Goto, TypeInv, TypeOK, localVars, envVars, historyVars
<1>2. /\ allocStatus[p] = "NONE" /\ map[t] = allocPtr[p] /\ map[t] \in maps
      /\ \A i \in 0..(Grains - 1) : entries[map[t]][i] = NULL
  BY <1>0, <1>1 DEF StepInv, StepOf
<1>3. /\ ~Overwritten(p) /\ PageExact(p)
      /\ \A u \in Thread \ {t} :
            pc[u] \in {"setFull", "setPtr", "readMap", "mark", "publish"}
                \/ (pc[u] = "read" /\ seen[u] # "NONE") => at[u] # p
  BY <1>0, <1>1, <1>2, EmptyPage
<1>4. HeldFades
  BY <1>1, HeldInLoop, KeptFades DEF Loop
<1>5. \A q \in Page : Overwritten(q)' <=> Overwritten(q)
  BY <1>1, OverwrittenStays
<1>6. allocStatus'[p] = "FRAG" /\ \A q \in Page : q # p => allocStatus'[q] = allocStatus[q]
  BY <1>1 DEF TypeInv, TypeOK
<1>7. PageExact(p)'
  <2>1. \A c \in Block : \A g \in GrainsOf(p) : ~Holds(c, g)'
    BY <1>2, <1>3, <1>4, HeldIn DEF PageExact
  <2>2. \A g \in GrainsOf(p) : Index(g) \in 0..(Grains - 1)
    BY PageGrain, NatPage, PageBounds
  <2>3. \A c \in Block : \A g \in GrainsOf(p) : entries'[allocPtr'[p]][Index(g)] # c
    BY <1>1, <1>2, <2>2
  <2>4. allocPtr'[p] \in maps'
    BY <1>1, <1>2
  <2> QED
    BY <1>6, <2>1, <2>3, <2>4 DEF PageExact
<1>8. TableExact'
  <2> SUFFICES ASSUME NEW q \in Page, ~Overwritten(q)', q # p
               PROVE  PageExact(q)'
    BY <1>7 DEF TableExact
  <2>1. PageExact(q)
    BY <1>5 DEF TableInv, TableExact
  <2>2. Published(q) => Published(q)'
    BY <1>0, PublishedStays
  <2> QED
    BY <1>1, <1>4, <1>6, <2>1, <2>2, HeldIn, PageFrame
<1>9. MapsApart' /\ MapsReached'
  BY <1>1, <1>5 DEF TableInv, MapsApart, MapsReached
<1>10. StepOf(t)'
  BY <1>0, <1>1, <1>2, <1>6 DEF StepOf
<1>11. ASSUME NEW u \in Thread \ {t}
       PROVE  StepFrame(u)
  <2>1. pc[u] = "publish" => map[u] \in maps
    BY DEF StepInv, StepOf
  <2> QED
    BY <1>0, <1>1, <1>3, <1>6, <2>1, FrameAt
<1> QED
  BY <1>1, <1>8, <1>9, <1>10, <1>11, CauseStill DEF StepKeeps, TableInv, NoWildPointer

(* The grains of a page that a block registers as fragments are held by no *)
(* other block.                                                            *)
LEMMA PortionOf ==
    ASSUME NoEmptyStart, TypeInv, EnvInv, LoopInv, NEW t \in Thread, pc[t] \in Loop
    PROVE  /\ \A g \in GrainsOf(at[t]) : Index(g) \in Portion(t) <=> g \in Content(hook[t].block)
           /\ \A i \in Portion(t) : \E g \in GrainsOf(at[t]) : Index(g) = i
           /\ \A g \in GrainsOf(at[t]) : \A c \in Block :
                  g \in Content(hook[t].block) /\ Holds(c, g) =>
                      c = hook[t].block /\ hook[t].op = "free"
<1> DEFINE p == at[t]
           b == hook[t].block
<1>1. /\ b \in Block /\ p \in Page /\ p \in Nat /\ Registered(t) = b /\ blockState[b] # "free"
      /\ hook[t].op \in {"alloc", "free"}
  BY InLoop
<1>2. Span(b) = Content(b)
  BY <1>1, SpanIsContent
<1>3. \A g \in GrainsOf(p) : g \in Nat /\ PageOf(g) = p
  BY <1>1, PageGrain, NatPage, InPage
<1>4. Portion(t) = {Index(g) : g \in Content(b) \cap GrainsOf(p)}
  BY <1>1, <1>2 DEF Portion
<1>5. \A g, h \in GrainsOf(p) : Index(g) = Index(h) => g = h
  BY <1>3, IndexInjective
<1>6. \A g \in GrainsOf(p) : Index(g) \in Portion(t) <=> g \in Content(b)
  BY <1>4, <1>5
<1>7. ASSUME NEW g \in GrainsOf(p), NEW c \in Block, g \in Content(b), Holds(c, g)
      PROVE  c = b /\ hook[t].op = "free"
  <2>1. g \in Room(b) /\ g \in Room(c) /\ blockState[c] # "free"
    BY <1>1, <1>7, HeldIsTaken, ContentType
  <2>2. c = b
    BY <1>1, <2>1, OneOwner
  <2>3. PageOf(g) = p
    BY <1>3
  <2>4. Holds(b, g) => IF hook[t].op = "free" THEN PageOf(g) >= p ELSE PageOf(g) < p
    BY InLoop
  <2> QED
    BY <1>1, <1>7, <2>2, <2>3, <2>4
<1> QED
  BY <1>4, <1>6, <1>7

(* The entries a portion of a block covers are free when it is allocated,  *)
(* its own when it is freed.                                               *)
LEMMA KeptOnMark ==
    ASSUME NoEmptyStart, TypeInv, EnvInv, EnvInv', LoopInv, StepInv, TableInv,
           NoWildPointer, CauseInv, NEW t \in Thread, OthersStay(t), Remains \subseteq Remains',
           mark(t)
    PROVE  StepKeeps(t)
<1>0. PICK p \in Page : p = at[t]
  BY DEF TypeInv, TypeOK
<1>1. /\ pc[t] = "mark" /\ pc[t] \in Loop /\ NextPage(t)
      /\ UNCHANGED <<allocStatus, allocPtr, maps, infos, hook, blockState, found, lost>>
  BY DEF mark, Loop, envVars
<1>2. PICK b \in Block : /\ b = hook[t].block /\ hook[t].op \in {"alloc", "free"}
                         /\ Value(t) = IF hook[t].op = "free" THEN NULL ELSE b
                         /\ NULL \notin Block
  BY <1>1, InLoop, ShadowAssumption
<1>3. ~IsFull(b, p)
  BY <1>0, <1>1, <1>2 DEF LoopInv, LoopOf
<1>4. ~Overwritten(p) /\ PageExact(p)
  BY <1>0, <1>1, NotOverwritten DEF TableInv, TableExact
<1>5. PICK m \in Map : /\ m = map[t] /\ m = allocPtr[p] /\ m \in maps
                       /\ allocStatus[p] = "FRAG"
  BY <1>0, <1>1, <1>4 DEF StepInv, StepOf, PageExact, TypeInv, TypeOK
<1>6. /\ \A c \in Block : \A g \in GrainsOf(p) :
            /\ Holds(c, g) => entries[m][Index(g)] = c /\ ~IsFull(c, p)
            /\ entries[m][Index(g)] = c => Known(c, g)
  BY <1>4, <1>5 DEF PageExact
<1>7. /\ reports' = reports \cup Overwrites(t, entries[m])
      /\ entries' = [entries EXCEPT ![m] = Marked(entries[m], Portion(t), Value(t))]
      /\ wild' = wild
  BY <1>5 DEF mark
<1>8. /\ \A g \in GrainsOf(p) : Index(g) \in Portion(t) <=> g \in Content(b)
      /\ \A i \in Portion(t) : \E g \in GrainsOf(p) : Index(g) = i
      /\ \A g \in GrainsOf(p) : \A c \in Block :
             g \in Content(b) /\ Holds(c, g) => c = b /\ hook[t].op = "free"
  BY <1>0, <1>1, <1>2, PortionOf
<1>9. \A g \in GrainsOf(p) : g \in Nat /\ Index(g) \in 0..(Grains - 1)
  BY PageGrain, NatPage, PageBounds
<1>10. CauseInv'
  <2>1. CASE Overwrites(t, entries[m]) = {}
    <3>1. reports' = reports
      BY <1>7, <2>1
    <3> QED
      BY <1>1, <3>1, CauseStill
  <2>2. CASE Overwrites(t, entries[m]) # {}
    <3>1. /\ Overwrites(t, entries[m]) = {"entry"} /\ Value(t) # NULL
          /\ \E i \in Portion(t) : entries[m][i] # NULL
      BY <2>2 DEF Overwrites
    <3>2. PICK i \in Portion(t) : entries[m][i] # NULL
      BY <3>1
    <3>3. PICK g \in GrainsOf(p) : Index(g) = i
      BY <1>8
    <3>4. entries[m][i] \in Block
      BY <1>9, <3>2, <3>3 DEF TypeInv, TypeOK
    <3>5. Known(entries[m][i], g) /\ g \in Content(b)
      BY <1>6, <1>8, <3>3, <3>4
    <3>6. ~Holds(entries[m][i], g)
      BY <1>2, <1>8, <3>1, <3>4, <3>5
    <3>7. Remains # {}
      BY <3>5, <3>6 DEF Known, StrayAt
    <3> QED
      BY <1>7, <3>1, <3>7, CauseAfterRace DEF CauseInv
  <2> QED
    BY <2>1, <2>2
<1>11. pc'[t] \in {"status", "return"}
  BY <1>1, LoopMoves
<1>12. /\ \A c \in Block \ {b} : \A g \in Nat : Holds(c, g)' <=> Holds(c, g)
       /\ \A g \in Nat : PageOf(g) # p => (Holds(b, g)' <=> Holds(b, g))
       /\ \A g \in GrainsOf(p) :
              /\ Holds(b, g)' <=> hook[t].op = "alloc" /\ g \in Content(b)
              /\ Holds(b, g) => hook[t].op = "free" /\ g \in Content(b)
  BY <1>0, <1>1, <1>2, HeldOnNextPage
<1>13. \A q \in Page : Overwritten(q)' <=> Overwritten(q)
  BY <1>1, <1>11, OverwrittenStays
<1>14. /\ \A n \in Map : n # m => entries'[n] = entries[n]
       /\ \A g \in GrainsOf(p) : entries'[m][Index(g)] =
              IF g \in Content(b) THEN Value(t) ELSE entries[m][Index(g)]
  BY <1>7, <1>8, <1>9 DEF Marked, TypeInv, TypeOK
<1>15. PageExact(p)'
  <2>1. ASSUME NEW g \in GrainsOf(p), NEW c \in Block
        PROVE  /\ Holds(c, g)' => entries'[m][Index(g)] = c /\ ~IsFull(c, p)
               /\ entries'[m][Index(g)] = c => Known(c, g)'
    <3>1. g \in Nat /\ StrayAt(c, g)' = StrayAt(c, g)
      BY <1>1, <1>9 DEF StrayAt, Remains, Stray
    <3>2. CASE g \in Content(b) /\ c = b
      BY <3>2, <1>2, <1>3, <1>12, <1>14 DEF Known
    <3>3. CASE g \in Content(b) /\ c # b
      <4>1. ~Holds(c, g)'
        BY <3>1, <3>3, <1>8, <1>12
      <4> QED
        BY <3>3, <4>1, <1>2, <1>14
    <3>4. CASE g \notin Content(b)
      <4>1. ~(Holds(c, g)' /\ c = b) /\ (c # b => (Holds(c, g)' <=> Holds(c, g)))
        BY <3>1, <3>4, <1>12
      <4>2. entries'[m][Index(g)] = entries[m][Index(g)]
        BY <3>4, <1>14
      <4>3. Known(c, g) => Known(c, g)'
        <5>1. ~Holds(b, g) /\ ~StrayAt(b, g)
          BY <3>4 DEF Holds, StrayAt
        <5> QED
          BY <3>1, <4>1, <5>1 DEF Known
      <4> QED
        BY <4>1, <4>2, <4>3, <1>6
    <3> QED
      BY <3>2, <3>3, <3>4
  <2>2. allocPtr'[p] = m /\ m \in maps' /\ allocStatus'[p] = "FRAG"
    BY <1>1, <1>5
  <2> QED
    BY <2>1, <2>2 DEF PageExact
<1>16. \A q \in Page : \A g \in GrainsOf(q) : g \in Nat /\ (q # p => PageOf(g) # p)
  BY InPage, PageGrain, NatPage
<1>17. \A q \in Page : q # p /\ ~Overwritten(q) /\ allocPtr[q] \in maps => allocPtr[q] # m
  BY <1>4, <1>5 DEF TableInv, MapsApart
<1>18. TableExact'
  <2> SUFFICES ASSUME NEW q \in Page, ~Overwritten(q)', q # p
               PROVE  PageExact(q)'
    BY <1>15 DEF TableExact
  <2>1. PageExact(q) /\ ~Overwritten(q)
    BY <1>13 DEF TableInv, TableExact
  <2>2. Published(q) => Published(q)'
    BY <1>1, PublishedStays
  <2>3. \A c \in Block : \A g \in GrainsOf(q) :
            (Holds(c, g)' => Holds(c, g)) /\ (Known(c, g) => Known(c, g)')
    BY <1>12, <1>16 DEF Known, StrayAt
  <2>4. allocPtr[q] \in maps =>
             allocPtr[q] \in maps' /\ entries'[allocPtr[q]] = entries[allocPtr[q]]
    BY <1>1, <1>14, <1>17, <2>1 DEF TypeInv, TypeOK
  <2> QED
    BY <1>1, <2>1, <2>2, <2>3, <2>4, PageFrame
<1>19. MapsApart' /\ MapsReached'
  BY <1>1, <1>13 DEF TableInv, MapsApart, MapsReached
<1>20. ASSUME NEW u \in Thread \ {t}
       PROVE  StepFrame(u)
  <2>1. ASSUME pc[u] = "publish"
        PROVE  map[u] \in maps' /\ entries'[map[u]] = entries[map[u]]
    <3>1. /\ map[u] \in maps /\ map[u] \in Map /\ map[u] = allocPtr[at[u]] /\ at[u] \in Page
          /\ allocStatus[at[u]] = "NONE"
      <4>1. StepOf(u) /\ at[u] \in Page /\ maps \subseteq Map
        BY DEF StepInv, TypeInv, TypeOK
      <4> QED
        BY <2>1, <4>1 DEF StepOf
    <3>2. ~Overwritten(at[u])
      BY <2>1, NotOverwritten DEF Loop
    <3>3. at[u] # p
      BY <1>5, <3>1
    <3> QED
      BY <1>1, <1>14, <1>17, <3>1, <3>2, <3>3
  <2> QED
    BY <1>1, <2>1 DEF StepFrame
<1> QED
  BY <1>7, <1>10, <1>11, <1>18, <1>19, <1>20, NoStep
  DEF StepKeeps, TableInv, NoWildPointer

(* The range of an unmap: no thread works in it or looks into it, and no   *)
(* block is in it.                                                         *)
LEMMA NobodyThere ==
    ASSUME NoEmptyStart, TypeInv, EnvInv, LoopInv, NEW t \in Thread,
           hook[t].op = "unmap", NEW p \in Page, p \in hook[t].old
    PROVE  /\ p \notin hook[t].new /\ p \notin mapped
           /\ \A u \in Thread : pc[u] \in Loop \cup Lookup => at[u] # p
           /\ \A b \in Block : \A g \in GrainsOf(p) : ~Holds(b, g)
           /\ ~Overwritten(p) /\ ~Published(p)
<1>1. p \notin mapped /\ p \notin hook[t].new
  BY DEF EnvInv, UnmapApart
<1>2. ASSUME NEW b \in Block, NEW g \in GrainsOf(p), Holds(b, g)
      PROVE  FALSE
  <2>1. g \in Room(b) /\ blockState[b] # "free"
    BY <1>2, HeldIsTaken, ContentType
  <2>2. PageOf(g) = p
    BY InPage, PageGrain, NatPage
  <2> QED
    BY <2>1, <2>2, <1>1 DEF EnvInv, RoomsMapped
<1>3. ASSUME NEW u \in Thread, pc[u] \in Loop, at[u] = p
      PROVE  FALSE
  <2>1. PICK g \in Content(hook[u].block) : PageOf(g) = p
    BY <1>3, InLoop
  <2>2. hook[u].block \in Block /\ blockState[hook[u].block] # "free"
    BY <1>3, InLoop
  <2>3. g \in Room(hook[u].block)
    BY <2>2, ContentType
  <2> QED
    BY <2>1, <2>2, <2>3, <1>1 DEF EnvInv, RoomsMapped
<1>4. ASSUME NEW u \in Thread, pc[u] \in Lookup, at[u] = p
      PROVE  FALSE
  <2>1. PageOf(Sought(u)) = p
    BY <1>4, Seeking
  <2>2. CASE hook[u].op = "access" /\ Sought(u) = hook[u].grain
    BY <2>1, <2>2, <1>1 DEF EnvInv, AccessOpen, OpenTo
  <2>3. CASE /\ hook[u].op = "free" /\ hook[u].block \in Block
             /\ Sought(u) \in Room(hook[u].block) /\ blockState[hook[u].block] = "freeing"
    BY <2>1, <2>3, <1>1 DEF EnvInv, RoomsMapped
  <2> QED
    BY <1>4, <2>2, <2>3, Seeking
<1>5. \A u \in Thread : pc[u] \in Loop \cup Lookup => at[u] # p
  BY <1>3, <1>4
<1>6. ~Overwritten(p) /\ ~Published(p)
  BY <1>5 DEF Overwritten, Published, Loop
<1> QED
  BY <1>1, <1>2, <1>5, <1>6

(* PageTable::clear leaves the range empty, and its maps to nobody.        *)
LEMMA KeptOnClear ==
    ASSUME NoEmptyStart, TypeInv, EnvInv, EnvInv', LoopInv, StepInv, TableInv,
           NoWildPointer, CauseInv, NEW t \in Thread, OthersStay(t), Remains \subseteq Remains',
           clear(t)
    PROVE  StepKeeps(t)
<1>1. pc[t] = "clear" /\ hook[t] \in Hook /\ hook[t].op = "unmap"
  BY DEF clear, TypeInv, TypeOK, ControlInv, ControlOf
<1>2. PICK old \in SUBSET Page : old = hook[t].old
  BY <1>1, HookCases
<1>3. \A p \in old :
          /\ p \notin hook[t].new
          /\ \A u \in Thread : pc[u] \in Loop \cup Lookup => at[u] # p
          /\ \A b \in Block : \A g \in GrainsOf(p) : ~Holds(b, g)
          /\ ~Overwritten(p) /\ ~Published(p) /\ PageExact(p)
  BY <1>1, <1>2, NobodyThere DEF TableInv, TableExact
<1>4. old \cap hook[t].new = {}
  BY <1>3
<1>5. MapsOf(old) \subseteq maps
  BY <1>3 DEF MapsOf, PageExact
<1>6. /\ maps' = maps \ MapsOf(old)
      /\ wild' = {}
      /\ allocPtr' = [p \in Page |-> IF p \in old THEN NULL ELSE allocPtr[p]]
      /\ allocStatus' = [p \in Page |-> IF p \in old THEN "NONE" ELSE allocStatus[p]]
      /\ UNCHANGED <<entries, infos, blockState, lost, reports>>
  <2>1. MapsOf(old \cap hook[t].new) = {}
    BY <1>4 DEF MapsOf
  <2> QED
    BY <1>2, <1>5, <2>1 DEF clear, NoWildPointer
<1>7. pc'[t] = "idle" /\ hook'[t] = [op |-> "none"]
  BY LeaveEffect DEF clear, TypeInv
<1>8. HeldFades
  BY <1>1, <1>6, <1>7, HeldByOthers, KeptFades DEF Busy
<1>9. \A q \in Page : Overwritten(q)' <=> Overwritten(q)
  BY <1>1, <1>7, OverwrittenStays
<1>10. ASSUME NEW q \in Page, ~Overwritten(q), q \notin old, allocPtr[q] \in maps
       PROVE  allocPtr[q] \in maps'
  BY <1>3, <1>5, <1>6, <1>10 DEF MapsOf, TableInv, MapsApart
<1>11. TableExact'
  <2> SUFFICES ASSUME NEW q \in Page, ~Overwritten(q)'
               PROVE  PageExact(q)'
    BY DEF TableExact
  <2>1. PageExact(q) /\ ~Overwritten(q)
    BY <1>9 DEF TableInv, TableExact
  <2>2. CASE q \in old
    <3>1. allocStatus'[q] = "NONE" /\ allocPtr'[q] = NULL
      BY <2>2, <1>6
    <3>2. \A b \in Block : \A g \in GrainsOf(q) : ~Holds(b, g)'
      BY <2>2, <1>3, <1>8, HeldIn
    <3> QED
      BY <3>1, <3>2 DEF PageExact
  <2>3. CASE q \notin old
    <3>1. allocStatus'[q] = allocStatus[q] /\ allocPtr'[q] = allocPtr[q]
      BY <2>3, <1>6
    <3>2. allocPtr[q] \in maps =>
              allocPtr[q] \in maps' /\ entries'[allocPtr[q]] = entries[allocPtr[q]]
      BY <2>1, <2>3, <1>6, <1>10
    <3>3. Published(q) => Published(q)'
      BY <1>1, PublishedStays
    <3> QED
      BY <1>8, <2>1, <3>1, <3>2, <3>3, HeldIn, PageFrame
  <2> QED
    BY <2>2, <2>3
<1>12. NULL \notin maps
  BY DEF TypeInv, TypeOK
<1>13. MapsApart'
  <2> SUFFICES ASSUME NEW p \in Page, NEW q \in Page, ~Overwritten(p)', ~Overwritten(q)',
                      allocPtr'[p] \in maps', allocPtr'[p] = allocPtr'[q]
               PROVE  p = q
    BY DEF MapsApart
  <2>1. allocPtr'[p] = allocPtr[p] /\ allocPtr'[q] = allocPtr[q] /\ allocPtr[p] \in maps
    BY <1>6, <1>12
  <2> QED
    BY <2>1, <1>9 DEF TableInv, MapsApart
<1>14. MapsReached'
  <2> SUFFICES ASSUME NEW m \in maps'
               PROVE  \E q \in Page : allocPtr'[q] = m /\ ~Overwritten(q)'
    BY DEF MapsReached
  <2>1. m \in maps /\ m \notin MapsOf(old) /\ m \in Map
    BY <1>6 DEF TypeInv, TypeOK
  <2>2. PICK q \in Page : allocPtr[q] = m /\ ~Overwritten(q)
    BY <2>1 DEF TableInv, MapsReached
  <2>3. q \notin old
    <3> SUFFICES ASSUME q \in old
                 PROVE  FALSE
      OBVIOUS
    <3>1. PageExact(q) /\ ~Published(q) /\ allocStatus[q] # "FRAG"
      BY <1>3, <2>1, <2>2 DEF MapsOf
    <3>2. allocStatus[q] \in {"NONE", "FULL"}
      BY <3>1 DEF TypeInv, TypeOK
    <3> QED
      BY <2>1, <2>2, <3>1, <3>2 DEF PageExact
  <2> QED
    BY <2>2, <2>3, <1>6, <1>9
<1>15. ASSUME NEW u \in Thread \ {t}
       PROVE  StepFrame(u)
  <2>1. at[u] \in Page
    BY DEF TypeInv, TypeOK
  <2>2. pc[u] \in Loop \cup Lookup =>
            allocStatus'[at[u]] = allocStatus[at[u]] /\ allocPtr'[at[u]] = allocPtr[at[u]]
    BY <1>3, <1>6, <2>1
  <2>3. ASSUME pc[u] = "publish"
        PROVE  map[u] \in maps'
    <3>1. map[u] = allocPtr[at[u]] /\ map[u] \in maps /\ ~Overwritten(at[u]) /\ at[u] \notin old
      <4>1. pc[u] \in Loop
        BY <2>3 DEF Loop
      <4>2. ~Overwritten(at[u])
        BY <2>3, <4>1, NotOverwritten
      <4>3. map[u] = allocPtr[at[u]] /\ map[u] \in maps
        BY <2>3 DEF StepInv, StepOf
      <4> QED
        BY <1>3, <4>1, <4>2, <4>3
    <3> QED
      BY <3>1, <2>1, <1>10
  <2> QED
    BY <1>6, <2>2, <2>3 DEF StepFrame, Loop, Lookup
<1> QED
  BY <1>6, <1>7, <1>11, <1>13, <1>14, <1>15, NoStep, CauseStill
  DEF StepKeeps, TableInv, NoWildPointer

-----------------------------------------------------------------------------
(* The theorems.                                                           *)

(* The invariant holds of the empty table.                                 *)
LEMMA ShadowInit == Init => ShadowInv
<1> SUFFICES ASSUME Init PROVE ShadowInv
  OBVIOUS
<1>1. TypeInv
  BY TypeInit
<1>2. \A t \in Thread : pc[t] = "idle" /\ hook[t] = [op |-> "none"]
  BY DEF Init
<1>3. EnvInv
  BY <1>2 DEF Init, EnvInv, BusyInv, BusyOf, Busy, RoomsApart, RoomsMapped, AccessOpen, OpenTo,
              UnmapApart
<1>4. LoopInv /\ StepInv
  BY <1>2 DEF Init, LoopInv, LostInv, LostOf, LoopOf, FoundIsBlock, StepInv, StepOf, Loop, Lookup
<1>5. \A b \in Block : \A g : ~Holds(b, g)
  BY <1>2 DEF Init, Holds, RegisteredBy, KeptBy
<1>6. \A p \in Page : PageExact(p)
  BY <1>5 DEF Init, PageExact
<1>7. TableInv
  BY <1>6 DEF Init, TableInv, TableExact, MapsApart, MapsReached
<1>8. CauseInv
  BY DEF Init, CauseInv, ReportsFollowRace, Remains, Stray
<1> QED
  BY <1>1, <1>3, <1>4, <1>7, <1>8 DEF Init, ShadowInv, NoWildPointer

(* The invariant over a step of a thread.                                  *)
LEMMA ShadowStep ==
    ASSUME ~InPlaceRemap, ~QuickReuse, NoEmptyStart, ShadowInv, NEW t \in Thread, ThreadStep(t)
    PROVE  ShadowInv'
<1>1. /\ TypeInv /\ EnvInv /\ LoopInv /\ StepInv /\ TableInv
      /\ NoWildPointer /\ CauseInv
  BY DEF ShadowInv
<1>2. OthersStay(t)
  BY <1>1, StepStays DEF TypeInv
<1>3. TypeInv'
  BY <1>1, TypeStep
<1>4. EnvInv'
  BY <1>1, EnvNext
<1>5. LoopInv'
  BY <1>1, LoopNext
<1>6. Remains \subseteq Remains'
  BY <1>1, StraysStay
<1>7. StepKeeps(t)
  BY <1>1, <1>2, <1>4, <1>6, KeptOnEnter, KeptOnLookup, KeptOnGet, KeptOnLeave, KeptOnKnown,
     KeptOnTests, KeptOnSmall, KeptOnFullPage, KeptOnSetFull, KeptOnSetPtr, KeptOnCreate, KeptOnPublish,
     KeptOnMark, KeptOnClear
  DEF ThreadStep
<1>8. StepInv'
  BY <1>1, <1>4, <1>7, StepOthers DEF StepInv, StepKeeps
<1> QED
  BY <1>3, <1>4, <1>5, <1>7, <1>8 DEF ShadowInv, StepKeeps

(* The invariant when the kernel maps a page.                              *)
LEMMA ShadowMmap ==
    ASSUME ~QuickReuse, ShadowInv, NEW page \in Page, mmap(page)
    PROVE  ShadowInv'
<1>1. /\ TypeInv /\ EnvInv /\ LoopInv /\ StepInv /\ TableInv
      /\ NoWildPointer /\ CauseInv
  BY DEF ShadowInv
<1>2. /\ UNCHANGED <<allocStatus, allocPtr, entries, maps, infos, fragMutex, pc, hook, at,
                      map, seen, found, blockState, lost, reports, wild>>
  BY DEF mmap, tableVars, localVars, historyVars
<1>3. TypeInv'
  <2>1. [Next]_vars
    BY DEF Next
  <2> QED
    BY <1>1, <2>1, TypeNext
<1>4. EnvInv'
  BY <1>1, EnvOnMmap
<1>5. \A b \in Block : \A g \in Nat : Holds(b, g)' <=> Holds(b, g)
  BY <1>2 DEF Holds, RegisteredBy, KeptBy
<1>6. TableInv'
  <2>1. \A q \in Page : (Overwritten(q)' <=> Overwritten(q)) /\ (Published(q) => Published(q)')
    BY <1>2 DEF Overwritten, Published
  <2>2. HeldFades
    BY <1>2, <1>5, KeptFades DEF HeldKept, Remains, Stray
  <2> QED
    BY <1>1, <1>2, <2>1, <2>2, TableStill
<1>7. LoopInv' /\ StepInv'
  <2>1. \A g : Owners(g)' = Owners(g)
    BY <1>2 DEF Owners
  <2>2. \A t \in Thread : Sought(t)' = Sought(t)
    BY <1>2 DEF Sought
  <2>3. LoopInv'
    BY <1>1, <1>2, <2>2 DEF LoopInv, LostInv, LostOf, LoopOf, FoundIsBlock
  <2>4. ASSUME NEW t \in Thread
        PROVE  StepOf(t)'
    <3>1. StepOf(t) /\ Owners(Sought(t))' = Owners(Sought(t)) /\ Sought(t)' = Sought(t)
      BY <1>1, <2>1, <2>2 DEF StepInv
    <3>2. (Missed(t)' <=> Missed(t)) /\ Remains' = Remains
      BY <1>2, <3>1 DEF Missed, Remains, Stray
    <3> QED
      BY <1>2, <3>1, <3>2 DEF StepOf
  <2> QED
    BY <2>3, <2>4 DEF StepInv
<1> QED
  BY <1>1, <1>2, <1>3, <1>4, <1>6, <1>7, CauseStill DEF ShadowInv, NoWildPointer

(* The invariant when nothing happens.                                     *)
LEMMA ShadowStutter ==
    ASSUME ShadowInv, UNCHANGED vars
    PROVE  ShadowInv'
<1>1. /\ TypeInv /\ EnvInv /\ LoopInv /\ StepInv /\ TableInv
      /\ NoWildPointer /\ CauseInv
  BY DEF ShadowInv
<1>2. /\ UNCHANGED <<allocStatus, allocPtr, entries, maps, infos, fragMutex, pc, hook, at,
                      map, seen, found, blockState, mapped, lost, reports, wild>>
  BY DEF vars
<1>3. TypeInv'
  BY <1>1, TypeNext
<1>4. EnvInv'
  BY <1>1, <1>2, EnvUnchanged
<1>5. \A b \in Block : \A g \in Nat : Holds(b, g)' <=> Holds(b, g)
  BY <1>2 DEF Holds, RegisteredBy, KeptBy
<1>6. TableInv'
  <2>1. \A q \in Page : (Overwritten(q)' <=> Overwritten(q)) /\ (Published(q) => Published(q)')
    BY <1>2 DEF Overwritten, Published
  <2>2. HeldFades
    BY <1>2, <1>5, KeptFades DEF HeldKept, Remains, Stray
  <2> QED
    BY <1>1, <1>2, <2>1, <2>2, TableStill
<1>7. LoopInv' /\ StepInv'
  BY <1>1, <1>2 DEF LoopInv, LostInv, LostOf, LoopOf, FoundIsBlock, StepInv, StepOf, Sought, Owners,
                    Missed, Remains, Stray
<1> QED
  BY <1>1, <1>2, <1>3, <1>4, <1>6, <1>7, CauseStill DEF ShadowInv, NoWildPointer

(* The inductive invariant.  Of the blocks of size 0 it excludes those     *)
(* that start a page: the code registers the page for them, over what it   *)
(* holds.  It excludes mremap in place and the reuse of a range before the *)
(* hook that clears it has run, for which the runs have counterexamples.   *)
THEOREM Invariance ==
    ASSUME ~InPlaceRemap, ~QuickReuse, NoEmptyStart
    PROVE  Spec => []ShadowInv
<1>1. ShadowInv /\ [Next]_vars => ShadowInv'
  BY StepCases, ShadowStep, ShadowMmap, ShadowStutter
<1> QED
  BY <1>1, ShadowInit, PTL DEF Spec

(* A lookup of an access or of a free, whatever the other threads          *)
(* register, unregister, turn into fragments or unmap meanwhile, gives the *)
(* block that owns the address, and NULL when none does; a block whose     *)
(* registration was given up in the page may be missed, and what is found  *)
(* instead is at most a MallocInfos that was left behind.                  *)
THEOREM LookupsAreExact ==
    ASSUME ~InPlaceRemap, ~QuickReuse, NoEmptyStart
    PROVE  Spec => []LookupExact
<1>1. ShadowInv => LookupExact
  BY DEF ShadowInv, StepInv, StepOf, Missed, Remains, LookupExact
<1> QED
  BY <1>1, Invariance, PTL

(* getAllocPointer, regAllocPointer, clear and the hooks use and delete    *)
(* the maps and the MallocInfos that exist, never one that is deleted.     *)
THEOREM PointersLead ==
    ASSUME ~InPlaceRemap, ~QuickReuse, NoEmptyStart
    PROVE  Spec => []NoWildPointer
<1>1. ShadowInv => NoWildPointer
  BY DEF ShadowInv
<1> QED
  BY <1>1, Invariance, PTL

(* A registration is given up, and an allocation finds a page or an entry  *)
(* taken, only once two threads have met in the unlocked tests of the      *)
(* status (PageTable.cpp:271-297).  The return at PageTable.cpp:290 ("Must *)
(* never append !"), which leaves the mutex locked, is never taken.        *)
THEOREM ReportsComeFromRace ==
    ASSUME ~InPlaceRemap, ~QuickReuse, NoEmptyStart
    PROVE  Spec => []ReportsFollowRace
<1>1. ShadowInv => ReportsFollowRace
  BY DEF ShadowInv, CauseInv
<1> QED
  BY <1>1, Invariance, PTL

(* Every map that is allocated belongs to one page, in fragments, or to    *)
(* the one thread that is about to publish it: none is leaked or shared.   *)
THEOREM MapsAreAccounted ==
    ASSUME ~InPlaceRemap, ~QuickReuse, NoEmptyStart
    PROVE  Spec => []MapsAccounted
<1>1. ShadowInv => MapsAccounted
  <2> SUFFICES ASSUME ShadowInv, NEW m \in maps
               PROVE  \E page \in Page :
                         /\ \A p \in Page : allocPtr[p] = m /\ ~Overwritten(p) <=> p = page
                         /\ \/ allocStatus[page] = "FRAG"
                            \/ \E t \in Thread : pc[t] = "publish" /\ at[t] = page /\ map[t] = m
    BY DEF MapsAccounted
  <2>1. PICK page \in Page : allocPtr[page] = m /\ ~Overwritten(page)
    BY DEF ShadowInv, TableInv, MapsReached
  <2>2. \A p \in Page : allocPtr[p] = m /\ ~Overwritten(p) <=> p = page
    BY <2>1 DEF ShadowInv, TableInv, MapsApart
  <2>3. PageExact(page) /\ m \in Map
    BY <2>1 DEF ShadowInv, TableInv, TableExact, TypeInv, TypeOK
  <2>4. allocStatus[page] # "FULL"
    BY <2>1, <2>3 DEF PageExact
  <2>5. ASSUME allocStatus[page] = "NONE"
        PROVE  \E t \in Thread : pc[t] = "publish" /\ at[t] = page /\ map[t] = m
    <3>1. PICK t \in Thread : pc[t] = "publish" /\ at[t] = page
      BY <2>1, <2>3, <2>5 DEF PageExact, Published
    <3> QED
      BY <2>1, <3>1 DEF ShadowInv, StepInv, StepOf
  <2>6. allocStatus[page] \in {"NONE", "FULL", "FRAG"}
    BY DEF ShadowInv, TypeInv, TypeOK
  <2> QED
    BY <2>2, <2>4, <2>5, <2>6
<1> QED
  BY <1>1, Invariance, PTL

=============================================================================
