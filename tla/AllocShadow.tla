----------------------------- MODULE AllocShadow -----------------------------
(***************************************************************************)
(* The allocation side of the shadow page table: which malloc block an     *)
(* address belongs to.  core/PageTable.cpp (regAllocPointer and what it    *)
(* calls, getAllocPointer, clear, mremap), core/MallocTracker.cpp.         *)
(*                                                                         *)
(* Threads share the table and lock only the creation of a fragment map.   *)
(* A step is one access to shared memory, except that the entries of a map *)
(* a portion of a block covers are written at once, and the tests of the   *)
(* status in a look-up and for a full page are one: no other thread has a  *)
(* reason to look at, or to write, what they are about.                    *)
(***************************************************************************)
EXTENDS Naturals, FiniteSets

CONSTANTS
    Thread,
    PageCnt,       \* pages of the address space
    Grains,        \* grains (NUMAPROF_ALLOC_GRAIN bytes) in a page
    Block,         \* blocks the allocator may hand out, with their MallocInfos:
                   \* [start, size], in grains, and a number to tell blocks of
                   \* one place apart
    Map,           \* identities of AllocPointerPageMap objects
    MutexCnt,      \* NUMAPROF_FRAG_MUTEX_CNT
    InPlaceRemap,  \* does mremap grow or shrink ranges in place?
    QuickReuse,    \* may a range be mapped again before the hook of the call
                   \* that unmapped it has run?
    NULL

Page == 0..(PageCnt - 1)

Grain == 0..(PageCnt * Grains - 1)

ASSUME ShadowAssumption ==
    /\ PageCnt \in Nat \ {0} /\ Grains \in Nat \ {0} /\ MutexCnt \in Nat \ {0}
    /\ Block \subseteq [start : Grain, size : Nat, nr : Nat]
    /\ \A b \in Block : b.start + b.size <= PageCnt * Grains
    /\ InPlaceRemap \in BOOLEAN /\ QuickReuse \in BOOLEAN
    /\ Block \cap Map = {}
    /\ NULL \notin Block \cup Map \cup Thread

PageOf(g) == g \div Grains

GrainsOf(page) == (page * Grains)..(page * Grains + Grains - 1)

(* What a block really covers.                                             *)
Content(b) == b.start..(b.start + b.size - 1)

(* What regAllocPointer registers.  A block of size 0 does not "fit in one *)
(* page" when it starts one: its first page is registered up to its end.   *)
Span(b) ==
    IF b.size = 0 /\ b.start % Grains = 0 THEN GrainsOf(PageOf(b.start))
                                          ELSE Content(b)

Pages(b) == {PageOf(g) : g \in Span(b)}

(* A middle page: the block covers it and does not start in it.            *)
IsFull(b, page) == page # PageOf(b.start) /\ GrainsOf(page) \subseteq Span(b)

VARIABLES
    allocStatus, \* per page, NONE, FULL or FRAG
    allocPtr,    \* per page, the infos of a block, a map, or NULL
    entries,     \* per map, the infos of each grain of a page
    maps,        \* the maps that are allocated
    infos,       \* the blocks whose MallocInfos is allocated
    fragMutex,   \* the thread that holds each mutex
    pc,          \* where each thread is
    hook,        \* the hook each thread executes, and its arguments
    at,          \* the page regAllocPointer is at
    map,         \* its local variable map
    seen,        \* the status getAllocPointer has read
    found,       \* what getAllocPointer returns
    blockState,  \* environment: of each block, for the allocator
    mapped,      \* environment: the pages that may hold blocks
    lost,        \* history: blocks, with a page they are not registered in
    reports,     \* history: the "never happens" messages printed
    wild         \* history: pointers used or deleted that led to nothing

tableVars == <<allocStatus, allocPtr, entries, maps, infos, fragMutex>>
localVars == <<at, map, seen, found>>
envVars == <<blockState, mapped>>
historyVars == <<lost, reports, wild>>
vars == <<allocStatus, allocPtr, entries, maps, infos, fragMutex, pc, hook,
          at, map, seen, found, blockState, mapped, lost, reports, wild>>

Hook == [op : {"none"}] \cup [op : {"alloc", "free"}, block : Block]
        \cup [op : {"access"}, grain : Grain]
        \cup [op : {"unmap"}, old : SUBSET Page, new : SUBSET Page]

Label ==
    {"idle", "lookup", "read", "found", "status", "setFull", "setPtr", "isNone",
     "isFull", "readMap", "lock", "create", "publish", "mark", "return", "clear"}

TypeOK ==
    /\ allocStatus \in [Page -> {"NONE", "FULL", "FRAG"}]
    /\ allocPtr \in [Page -> Map \cup Block \cup {NULL}]
    /\ entries \in [Map -> [0..(Grains - 1) -> Block \cup {NULL}]]
    /\ maps \in SUBSET Map
    /\ infos \in SUBSET Block
    /\ fragMutex \in [0..(MutexCnt - 1) -> Thread \cup {NULL}]
    /\ pc \in [Thread -> Label]
    /\ hook \in [Thread -> Hook]
    /\ at \in [Thread -> Page]
    /\ map \in [Thread -> Map \cup Block \cup {NULL}]
    /\ seen \in [Thread -> {"NONE", "FULL", "FRAG"}]
    /\ found \in [Thread -> Map \cup Block \cup {NULL}]
    /\ blockState \in [Block -> {"free", "allocating", "live", "freeing"}]
    /\ mapped \in SUBSET Page
    /\ lost \in SUBSET (Block \X Page)
    /\ reports \in SUBSET {"race", "append", "status", "entry"}
    /\ wild \in SUBSET (Map \cup Block \cup {NULL})

Init ==
    /\ allocStatus = [page \in Page |-> "NONE"]
    /\ allocPtr = [page \in Page |-> NULL]
    /\ entries = [m \in Map |-> [i \in 0..(Grains - 1) |-> NULL]]
    /\ maps = {}
    /\ infos = {}
    /\ fragMutex = [i \in 0..(MutexCnt - 1) |-> NULL]
    /\ pc = [t \in Thread |-> "idle"]
    /\ hook = [t \in Thread |-> [op |-> "none"]]
    /\ at = [t \in Thread |-> 0]
    /\ map = [t \in Thread |-> NULL]
    /\ seen = [t \in Thread |-> "NONE"]
    /\ found = [t \in Thread |-> NULL]
    /\ blockState = [b \in Block |-> "free"]
    /\ mapped = Page
    /\ lost = {}
    /\ reports = {}
    /\ wild = {}

-----------------------------------------------------------------------------
(* The environment: the allocator of the program and the kernel.           *)

Idle(t) == pc[t] = "idle"

(* The memory an allocator gives to a block: one grain at least.           *)
Room(b) == Content(b) \cup {b.start}

(* Some thread is looking up a grain of S.  A program does not free, unmap *)
(* or hand out memory it is accessing.                                     *)
Accessed(S) == \E t \in Thread : hook[t].op = "access" /\ hook[t].grain \in S

(* The pages that system calls are moving: not yet usable, not yet reused. *)
Arriving == UNION {hook[t].new : t \in {u \in Thread : hook[u].op = "unmap"}}

Leaving == UNION {hook[t].old : t \in {u \in Thread : hook[u].op = "unmap"}}

(* A MallocInfos that onFree did not find stays: it is not that of a block *)
(* handed out later.                                                       *)
MayAlloc(b) ==
    /\ blockState[b] = "free"
    /\ b \in infos => Span(b) = {}
    /\ \A g \in Room(b) : PageOf(g) \in mapped
    /\ \A c \in Block : blockState[c] # "free" => Room(b) \cap Room(c) = {}
    /\ ~Accessed(Room(b))

MayFree(b) == blockState[b] = "live" /\ ~Accessed(Room(b))

MayAccess(g) ==
    /\ PageOf(g) \in mapped
    /\ \A b \in Block : g \in Room(b) => blockState[b] \in {"free", "live"}

Unused(page) ==
    /\ page \in mapped
    /\ \A b \in Block : blockState[b] # "free" => \A g \in Room(b) : PageOf(g) # page
    /\ ~Accessed(GrainsOf(page))

Interval == {lo..hi : lo, hi \in Page} \ {{}}

(* The kernel maps a page; the hook (trackMMap) leaves the allocation      *)
(* fields alone.                                                           *)
mmap(page) ==
    /\ page \notin mapped \cup Arriving
    /\ QuickReuse \/ page \notin Leaving
    /\ mapped' = mapped \cup {page}
    /\ UNCHANGED <<tableVars, pc, hook, localVars, blockState, historyVars>>

(* The system call is done and its hook, which runs after it, begins.      *)
EnterUnmap(t, old, new) ==
    /\ Idle(t)
    /\ \A page \in old : Unused(page)
    /\ pc' = [pc EXCEPT ![t] = "clear"]
    /\ hook' = [hook EXCEPT ![t] = [op |-> "unmap", old |-> old, new |-> new]]
    /\ mapped' = mapped \ old
    /\ UNCHANGED <<tableVars, localVars, blockState, historyVars>>

onMunmap(t, old) == EnterUnmap(t, old, {})

onMremap(t, old, new) ==
    /\ \/ new \cap (mapped \cup Arriving) = {} /\ (QuickReuse \/ new \cap Leaving = {})
       \/ /\ InPlaceRemap
          /\ \A page \in new \ old : page \notin mapped \cup Arriving \cup Leaving
          /\ \E p \in old \cap new : \A q \in old \cup new : p <= q
    /\ EnterUnmap(t, old, new)

-----------------------------------------------------------------------------
(* Hooks begin.                                                            *)

onAlloc(t, b) ==
    /\ Idle(t)
    /\ MayAlloc(b)
    /\ blockState' = [blockState EXCEPT ![b] = "allocating"]
    /\ infos' = infos \cup {b}
    /\ hook' = [hook EXCEPT ![t] = [op |-> "alloc", block |-> b]]
    /\ pc' = [pc EXCEPT ![t] = IF Span(b) = {} THEN "return" ELSE "status"]
    /\ at' = [at EXCEPT ![t] = PageOf(b.start)]
    /\ UNCHANGED <<allocStatus, allocPtr, entries, maps, fragMutex, map, seen,
                   found, mapped, historyVars>>

onFree(t, b) ==
    /\ Idle(t)
    /\ MayFree(b)
    /\ blockState' = [blockState EXCEPT ![b] = "freeing"]
    /\ hook' = [hook EXCEPT ![t] = [op |-> "free", block |-> b]]
    /\ pc' = [pc EXCEPT ![t] = "lookup"]
    /\ at' = [at EXCEPT ![t] = PageOf(b.start)]
    /\ UNCHANGED <<tableVars, map, seen, found, mapped, historyVars>>

onAccess(t, g) ==
    /\ Idle(t)
    /\ MayAccess(g)
    /\ hook' = [hook EXCEPT ![t] = [op |-> "access", grain |-> g]]
    /\ pc' = [pc EXCEPT ![t] = "lookup"]
    /\ at' = [at EXCEPT ![t] = PageOf(g)]
    /\ UNCHANGED <<tableVars, map, seen, found, envVars, historyVars>>

-----------------------------------------------------------------------------
(* Page::getAllocPointer: the status, then the pointer or the entry.       *)

Goto(t, label) == pc' = [pc EXCEPT ![t] = label]

Index(g) == g % Grains

Sought(t) == IF hook[t].op = "free" THEN hook[t].block.start ELSE hook[t].grain

lookup(t) ==
    /\ pc[t] = "lookup"
    /\ seen' = [seen EXCEPT ![t] = allocStatus[at[t]]]
    /\ Goto(t, "read")
    /\ UNCHANGED <<tableVars, hook, at, map, found, envVars, historyVars>>

getAllocPointer(t) ==
    LET ptr == allocPtr[at[t]]
        wildRead == seen[t] = "FRAG" /\ ptr \notin maps
    IN  /\ pc[t] = "read"
        /\ found' = [found EXCEPT ![t] =
                         IF seen[t] = "NONE" \/ wildRead THEN NULL
                         ELSE IF seen[t] = "FULL" THEN ptr
                         ELSE entries[ptr][Index(Sought(t))]]
        /\ wild' = IF wildRead THEN wild \cup {ptr} ELSE wild
        /\ Goto(t, "found")
        /\ UNCHANGED <<tableVars, hook, at, map, seen, envVars, lost, reports>>

(* The hook returns, and its local variables are gone.                     *)
Leave(t) ==
    /\ Goto(t, "idle")
    /\ hook' = [hook EXCEPT ![t] = [op |-> "none"]]
    /\ at' = [at EXCEPT ![t] = 0]
    /\ map' = [map EXCEPT ![t] = NULL]
    /\ seen' = [seen EXCEPT ![t] = "NONE"]
    /\ found' = [found EXCEPT ![t] = NULL]

(* The access is counted through the infos, if there are any.              *)
countAccess(t) ==
    /\ pc[t] = "found"
    /\ hook[t].op = "access"
    /\ wild' = wild \cup ({found[t]} \ (infos \cup {NULL}))
    /\ Leave(t)
    /\ UNCHANGED <<tableVars, envVars, lost, reports>>

LostWithout(b) == {l \in lost : l[1] # b}

(* MallocTracker::onFree: a block that is not found, or not at the address *)
(* freed, is left alone, and so is what is registered of it.               *)
freeUnknown(t) ==
    /\ pc[t] = "found"
    /\ hook[t].op = "free"
    /\ found[t] = NULL \/ (found[t] \in infos /\ found[t].start # hook[t].block.start)
    /\ blockState' = [blockState EXCEPT ![hook[t].block] = "free"]
    /\ lost' = LostWithout(hook[t].block)
    /\ Leave(t)
    /\ UNCHANGED <<tableVars, mapped, reports, wild>>

freeKnown(t) ==
    /\ pc[t] = "found"
    /\ hook[t].op = "free"
    /\ found[t] \in infos
    /\ found[t].start = hook[t].block.start
    /\ Goto(t, "status")
    /\ UNCHANGED <<tableVars, hook, localVars, envVars, historyVars>>

-----------------------------------------------------------------------------
(* regAllocPointer, page by page: the first and last page as fragments     *)
(* (regAllocPointerSmall), the ones between as full pages.                 *)

Registered(t) == IF hook[t].op = "free" THEN found[t] ELSE hook[t].block

Value(t) == IF hook[t].op = "free" THEN NULL ELSE hook[t].block

(* Mutant: the loop over the pages runs one page too far.                  *)
NextPageTooFar(t) ==
    /\ at' = [at EXCEPT ![t] = @ + 1]
    /\ Goto(t, IF at[t] \in Pages(Registered(t)) THEN "status" ELSE "return")

NextPage(t) ==
    LET more == at[t] + 1 \in Pages(Registered(t))
    IN  /\ at' = [at EXCEPT ![t] = IF more THEN @ + 1 ELSE @]
        /\ Goto(t, IF more THEN "status" ELSE "return")

(* The page is left as it is, with a message.                              *)
GiveUp(t, message) ==
    /\ reports' = reports \cup {message}
    /\ lost' = IF Value(t) = NULL THEN lost ELSE lost \cup {<<Value(t), at[t]>>}
    /\ NextPage(t)

(* A full page: the status is read, an old map deleted ...                 *)
fullPage(t) ==
    LET status == allocStatus[at[t]]
        free == Value(t) = NULL
    IN  /\ pc[t] = "status"
        /\ IsFull(Registered(t), at[t])
        /\ IF (status = "NONE" /\ ~free) \/ (status = "FULL" /\ free)
           THEN Goto(t, "setFull") /\ UNCHANGED <<maps, at, historyVars>>
           ELSE IF status = "FRAG" /\ ~free
           THEN /\ maps' = maps \ {allocPtr[at[t]]}
                /\ wild' = wild \cup ({allocPtr[at[t]]} \ maps)
                /\ Goto(t, "setFull")
                /\ UNCHANGED <<at, lost, reports>>
           ELSE GiveUp(t, "status") /\ UNCHANGED <<maps, wild>>
        /\ UNCHANGED <<allocStatus, allocPtr, entries, infos, fragMutex, hook,
                       map, seen, found, envVars>>

(* ... the new status written ...                                          *)
setFull(t) ==
    /\ pc[t] = "setFull"
    /\ allocStatus' = [allocStatus EXCEPT ![at[t]] =
                           IF Value(t) = NULL THEN "NONE" ELSE "FULL"]
    /\ Goto(t, "setPtr")
    /\ UNCHANGED <<allocPtr, entries, maps, infos, fragMutex, hook, localVars,
                   envVars, historyVars>>

(* ... and then the pointer.                                               *)
setPtr(t) ==
    /\ pc[t] = "setPtr"
    /\ allocPtr' = [allocPtr EXCEPT ![at[t]] = Value(t)]
    /\ NextPage(t)
    /\ UNCHANGED <<allocStatus, entries, maps, infos, fragMutex, hook, map, seen,
                   found, envVars, historyVars>>

(* regAllocPointerSmall tests the status up to three times without the     *)
(* lock: is it FRAG, ...                                                   *)
regAllocPointerSmall(t) ==
    /\ pc[t] = "status"
    /\ ~IsFull(Registered(t), at[t])
    /\ Goto(t, IF allocStatus[at[t]] = "FRAG" THEN "readMap" ELSE "isNone")
    /\ UNCHANGED <<tableVars, hook, localVars, envVars, historyVars>>

(* ... is it NONE, ...                                                     *)
isNone(t) ==
    /\ pc[t] = "isNone"
    /\ Goto(t, IF allocStatus[at[t]] = "NONE" THEN "lock" ELSE "isFull")
    /\ UNCHANGED <<tableVars, hook, localVars, envVars, historyVars>>

(* ... is it FULL?  When another thread has made the map since the first   *)
(* test, all of them fail and the block is not registered in the page.     *)
isFull(t) ==
    /\ pc[t] = "isFull"
    /\ GiveUp(t, IF allocStatus[at[t]] = "FULL" THEN "status" ELSE "race")
    /\ UNCHANGED <<tableVars, hook, map, seen, found, envVars, wild>>

readMap(t) ==
    /\ pc[t] = "readMap"
    /\ map' = [map EXCEPT ![t] = allocPtr[at[t]]]
    /\ Goto(t, "mark")
    /\ UNCHANGED <<tableVars, hook, at, seen, found, envVars, historyVars>>

(* There are fewer mutexes than pages: a page uses the one of its number.  *)
Mutex(page) == page % MutexCnt

lock(t) ==
    /\ pc[t] = "lock"
    /\ fragMutex[Mutex(at[t])] = NULL
    /\ fragMutex' = [fragMutex EXCEPT ![Mutex(at[t])] = t]
    /\ Goto(t, "create")
    /\ UNCHANGED <<allocStatus, allocPtr, entries, maps, infos, hook, localVars,
                   envVars, historyVars>>

unlock(page) == fragMutex' = [fragMutex EXCEPT ![Mutex(page)] = NULL]

NewMap(t, m) ==
    /\ m \notin maps
    /\ maps' = maps \cup {m}
    /\ entries' = [entries EXCEPT ![m] = [i \in 0..(Grains - 1) |-> NULL]]
    /\ allocPtr' = [allocPtr EXCEPT ![at[t]] = m]
    /\ map' = [map EXCEPT ![t] = m]
    /\ Goto(t, "publish")

(* Mutant: the status is not read again under the lock.                    *)
createMapUnchecked(t, m) ==
    /\ pc[t] = "create"
    /\ NewMap(t, m)
    /\ UNCHANGED <<allocStatus, infos, fragMutex, hook, at, seen, found, envVars,
                   historyVars>>

(* Under the lock the status is read again: another thread may have made   *)
(* the map.  The third outcome returns with the mutex locked.              *)
createMap(t, m) ==
    LET status == allocStatus[at[t]]
    IN  /\ pc[t] = "create"
        /\ CASE status = "NONE" -> NewMap(t, m) /\ UNCHANGED <<fragMutex, at, lost, reports>>
             [] status = "FRAG" -> /\ map' = [map EXCEPT ![t] = allocPtr[at[t]]]
                                   /\ unlock(at[t])
                                   /\ Goto(t, "mark")
                                   /\ UNCHANGED <<maps, entries, allocPtr, at, lost, reports>>
             [] status = "FULL" -> /\ GiveUp(t, "append")
                                   /\ UNCHANGED <<maps, entries, allocPtr, fragMutex, map>>
        /\ UNCHANGED <<allocStatus, infos, hook, seen, found, envVars, wild>>

publishMap(t) ==
    /\ pc[t] = "publish"
    /\ allocStatus' = [allocStatus EXCEPT ![at[t]] = "FRAG"]
    /\ unlock(at[t])
    /\ Goto(t, "mark")
    /\ UNCHANGED <<allocPtr, entries, maps, infos, hook, localVars, envVars,
                   historyVars>>

(* Mutant: one entry too many is marked.                                   *)
PortionTooLong(t) ==
    {Index(g) : g \in {h \in GrainsOf(at[t]) :
                          h \in Span(Registered(t)) \/ h - 1 \in Span(Registered(t))}}

(* The entries of the page the block covers.                               *)
Portion(t) == {Index(g) : g \in Span(Registered(t)) \cap GrainsOf(at[t])}

Marked(row, portion, value) ==
    [i \in DOMAIN row |-> IF i \in portion THEN value ELSE row[i]]

(* An entry that a block takes was not empty.                              *)
Overwrites(t, row) ==
    IF Value(t) # NULL /\ \E i \in Portion(t) : row[i] # NULL THEN {"entry"} ELSE {}

(* Mutant: the entries of a freed block stay.                              *)
markKeeps(t) ==
    /\ pc[t] = "mark"
    /\ LET row == entries[map[t]]
       IN  /\ reports' = reports \cup Overwrites(t, row)
           /\ entries' = IF Value(t) = NULL THEN entries
                         ELSE [entries EXCEPT ![map[t]] = Marked(row, Portion(t), Value(t))]
    /\ NextPage(t)
    /\ UNCHANGED <<allocStatus, allocPtr, maps, infos, fragMutex, hook, map, seen,
                   found, envVars, lost, wild>>

mark(t) ==
    /\ pc[t] = "mark"
    /\ IF map[t] \in maps
       THEN LET row == entries[map[t]]
            IN  /\ reports' = reports \cup Overwrites(t, row)
                /\ entries' = [entries EXCEPT ![map[t]] = Marked(row, Portion(t), Value(t))]
                /\ UNCHANGED wild
       ELSE wild' = wild \cup {map[t]} /\ UNCHANGED <<entries, reports>>
    /\ NextPage(t)
    /\ UNCHANGED <<allocStatus, allocPtr, maps, infos, fragMutex, hook, map, seen,
                   found, envVars, lost>>

(* The hook of malloc returns and the program gets the block; onFree       *)
(* deletes the infos, and the free itself gives the block back.            *)
Return(t) ==
    LET b == hook[t].block
        free == hook[t].op = "free"
    IN  /\ pc[t] = "return"
        /\ blockState' = [blockState EXCEPT ![b] = IF free THEN "free" ELSE "live"]
        /\ infos' = IF free THEN infos \ {found[t]} ELSE infos
        /\ wild' = IF free THEN wild \cup ({found[t]} \ infos) ELSE wild
        /\ lost' = IF free THEN LostWithout(b) ELSE lost
        /\ Leave(t)
        /\ UNCHANGED <<allocStatus, allocPtr, entries, maps, fragMutex,
                       mapped, reports>>

-----------------------------------------------------------------------------
(* clear and mremap.                                                       *)

MapsOf(pages) == {allocPtr[p] : p \in {q \in pages : allocStatus[q] = "FRAG"}}

(* Mutant: the pages keep their status.                                    *)
clearKeepsStatus(t) ==
    /\ pc[t] = "clear"
    /\ maps' = maps \ MapsOf(hook[t].old)
    /\ wild' = wild \cup (MapsOf(hook[t].old) \ maps)
    /\ mapped' = mapped \cup hook[t].new
    /\ Leave(t)
    /\ UNCHANGED <<allocStatus, allocPtr, entries, infos, fragMutex,
                   blockState, lost, reports>>

(* PageTable::clear on the old range.  When mremap works in place, the     *)
(* pages were first copied to a buffer whose destruction (~Page) deletes   *)
(* the maps of the copies again.  Page::remap does not touch the           *)
(* allocation fields of the new range.                                     *)
clear(t) ==
    LET old == hook[t].old
        copied == old \cap hook[t].new
    IN  /\ pc[t] = "clear"
        /\ maps' = maps \ MapsOf(old)
        /\ wild' = wild \cup (MapsOf(old) \ maps) \cup MapsOf(copied)
        /\ allocPtr' = [p \in Page |-> IF p \in old THEN NULL ELSE allocPtr[p]]
        /\ allocStatus' = [p \in Page |-> IF p \in old THEN "NONE" ELSE allocStatus[p]]
        /\ mapped' = mapped \cup hook[t].new
        /\ Leave(t)
        /\ UNCHANGED <<entries, infos, fragMutex, blockState, lost, reports>>

-----------------------------------------------------------------------------
Next ==
    \/ \E page \in Page : mmap(page)
    \/ \E t \in Thread :
          \/ \E b \in Block : onAlloc(t, b) \/ onFree(t, b)
          \/ \E g \in Grain : onAccess(t, g)
          \/ \E old \in Interval : onMunmap(t, old)
          \/ \E old, new \in Interval : onMremap(t, old, new)
          \/ lookup(t) \/ getAllocPointer(t) \/ countAccess(t)
          \/ freeUnknown(t) \/ freeKnown(t)
          \/ fullPage(t) \/ setFull(t) \/ setPtr(t)
          \/ regAllocPointerSmall(t) \/ isNone(t) \/ isFull(t)
          \/ readMap(t) \/ lock(t)
          \/ \E m \in Map : createMap(t, m)
          \/ publishMap(t) \/ mark(t) \/ Return(t) \/ clear(t)

Spec == Init /\ [][Next]_vars

-----------------------------------------------------------------------------
(* Properties.                                                             *)

(* The block an address belongs to, as the program knows it.               *)
Owners(g) == {b \in Block : blockState[b] # "free" /\ g \in Content(b)}

(* The MallocInfos that stayed when their block was freed: onFree did not  *)
(* find them.                                                              *)
Stray == {b \in infos : blockState[b] = "free"}

(* A lookup gives the block that owns the address, and nothing when no     *)
(* block does, whatever other threads register, unregister, turn into      *)
(* fragments or unmap around it.  A block may be missed in a page where    *)
(* its registration was given up; what is found there is at most a         *)
(* MallocInfos that stayed, never that of another block of the program.    *)
LookupExact ==
    \A t \in Thread : pc[t] = "found" =>
        \/ found[t] \in Owners(Sought(t))
        \/ /\ \A b \in Owners(Sought(t)) : <<b, at[t]>> \in lost
           /\ found[t] \in Stray \cup {NULL}

(* No map and no MallocInfos is read, written or deleted once it has been  *)
(* deleted.                                                                *)
NoWildPointer == wild = {}

(* A thread is making the page full, or empty, and about to write its      *)
(* pointer.                                                                *)
Overwritten(page) ==
    \E t \in Thread : pc[t] \in {"setFull", "setPtr"} /\ at[t] = page

(* Maps are neither leaked nor shared: each belongs to one page, which     *)
(* says so, or to the one thread that is publishing it.                    *)
MapsAccounted ==
    \A m \in maps :
        \E page \in Page :
            /\ \A p \in Page : allocPtr[p] = m /\ ~Overwritten(p) <=> p = page
            /\ \/ allocStatus[page] = "FRAG"
               \/ \E t \in Thread : pc[t] = "publish" /\ at[t] = page /\ map[t] = m

(* Of the states the code reports, one is reached whose cause is not       *)
(* another: two threads start the fragments of a page at once, and the one *)
(* that reads FRAG after NONE gives up (PageTable.cpp:295).  Pages found   *)
(* full, or not full, and entries found taken only follow from that.  The  *)
(* return that would leave the mutex locked ("Must never append !",        *)
(* PageTable.cpp:289) is not reached at all.                               *)
ReportsFollowRace ==
    /\ reports # {} => "race" \in reports
    /\ "append" \notin reports

=============================================================================
