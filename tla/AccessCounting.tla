--------------------------- MODULE AccessCounting ---------------------------
(***************************************************************************)
(* How numaprof counts the memory accesses of a threaded program, from the *)
(* instrumentation of an access to the counters of the profile file:       *)
(* core/ThreadTracker.cpp, core/MallocTracker.cpp and the counter side of  *)
(* core/ProcessTracker.cpp.                                                *)
(*                                                                         *)
(* A counter is represented by the set of the accesses it has counted, so  *)
(* that "lost" and "counted twice" can be said.  Adding a counter to       *)
(* another (Stats::merge, atomic adds) is a union, and the nine kinds of   *)
(* access a Stats holds are one: every counted access increments exactly   *)
(* one of them.  An entry of a counter map exists exactly when its set is  *)
(* not empty: the code creates it to increment it.                         *)
(*                                                                         *)
(* The shadow page table is reduced to owner: the malloc site an address   *)
(* is attributed to.                                                       *)
(***************************************************************************)
EXTENDS Naturals, Sequences, FiniteSets

CONSTANTS
    Tracker,      \* Pin thread ids; one ThreadTracker per id
    Ip,           \* addresses of the instructions that access memory
    MallocIp,     \* addresses of the calls to malloc
    Addr,         \* addresses
    Access,       \* identities of memory accesses
    BatchSize,    \* core:accessBatchSize
    CacheEntries, \* core:threadCacheEntries
    RecycleIds,   \* may Pin give the id of an ended thread to a new one?
    NoIp,         \* the instruction of an access that is not made yet
    NoSite        \* the owner of an address no allocation covers

ASSUME SizesAssumption ==
    /\ BatchSize \in Nat
    /\ CacheEntries \in Nat
    /\ RecycleIds \in BOOLEAN

ASSUME NamesAssumption == NoIp \notin Ip /\ NoSite \notin Tracker \X MallocIp

(* A Stats cell of a MallocTracker: the tracker that holds it and the      *)
(* instruction that called malloc.                                         *)
Site == Tracker \X MallocIp

Event == [id : Access, ip : Ip, addr : Addr]

Line == {"absent", "live", "dangling"}

Hook == [op : {"none", "access", "stop"}]
        \cup [op : {"alloc"}, ip : MallocIp, addr : Addr]
        \cup [op : {"free"}, addr : Addr]

VARIABLES
    life,          \* of the thread behind each id: "none", "alive", "ended"
    hook,          \* the hook a thread is executing
    accessBatch,   \* accesses waiting to be handled
    instructions,  \* per thread, the counters of each instruction
    icache,        \* per thread, cached pointers into instructions
    allocCache,    \* per thread, the counters of each malloc site
    acache,        \* per thread, cached pointers into allocCache
    dummyAlloc,    \* per thread, the counter of what no allocation covers
    mallocStats,   \* MallocTracker::instructions, the counter of each site
    stats,         \* per thread, the counter of all its accesses
    procInstr,     \* ProcessTracker::instructions
    procAlloc,     \* ProcessTracker::allocStats
    owner,         \* the site the page table gives for each address
    phase,         \* progress of ProcessTracker::onExit
    exited,        \* the trackers the current loop of onExit has visited
    skipped,       \* history: accesses that are not to be counted
    madeBy,        \* history: the instruction of each access
    ownerAtAccess, \* history: the site that owned the address of an access
    stale          \* history: batched accesses another thread outdated

threadVars == <<life, hook, accessBatch>>
counterVars == <<instructions, icache, allocCache, acache, dummyAlloc,
                 mallocStats, stats, procInstr, procAlloc>>
exitVars == <<phase, exited>>
historyVars == <<skipped, madeBy, ownerAtAccess, stale>>
vars == <<life, hook, accessBatch, instructions, icache, allocCache, acache,
          dummyAlloc, mallocStats, stats, procInstr, procAlloc, owner, phase,
          exited, skipped, madeBy, ownerAtAccess, stale>>

-----------------------------------------------------------------------------
(* Counter maps and the pointer caches in front of them.                   *)

NoCounts(keys) == [k \in keys |-> {}]

NoLines(keys) == [k \in keys |-> "absent"]

(* std::map::size() of a counter map.                                      *)
Entries(map) == Cardinality({k \in DOMAIN map : map[k] # {}})

Merged(into, from) == [k \in DOMAIN into |-> into[k] \cup from[k]]

(* StaticAssoCache::get then set: a miss caches a pointer to the entry and *)
(* may evict one way of the row, whichever the round robin points at.      *)
Cached(cache, key, victim) ==
    IF cache[key] = "absent"
    THEN [cache EXCEPT ![victim] = "absent", ![key] = "live"]
    ELSE cache

(* The entries the cached pointers lead to have been freed.                *)
Dangling(cache) ==
    [k \in DOMAIN cache |-> IF cache[k] = "live" THEN "dangling" ELSE cache[k]]

(* Where an increment through the cached pointer of key lands.  A dangling  *)
(* pointer writes freed memory: nothing sees it, or an entry created since *)
(* has reused the memory and takes it.                                     *)
Landings(map, cache, key) ==
    IF cache[key] = "dangling"
    THEN {{}} \cup {{k} : k \in {j \in DOMAIN map : map[j] # {}}}
    ELSE {{key}}

Counted(map, keys, x) ==
    [k \in DOMAIN map |-> IF k \in keys THEN map[k] \cup {x} ELSE map[k]]

-----------------------------------------------------------------------------
TypeOK ==
    /\ life \in [Tracker -> {"none", "alive", "ended"}]
    /\ hook \in [Tracker -> Hook]
    /\ accessBatch \in [Tracker -> Seq(Event)]
    /\ instructions \in [Tracker -> [Ip -> SUBSET Access]]
    /\ icache \in [Tracker -> [Ip -> Line]]
    /\ allocCache \in [Tracker -> [Site -> SUBSET Access]]
    /\ acache \in [Tracker -> [Site -> Line]]
    /\ dummyAlloc \in [Tracker -> SUBSET Access]
    /\ mallocStats \in [Site -> SUBSET Access]
    /\ stats \in [Tracker -> SUBSET Access]
    /\ procInstr \in [Ip -> SUBSET Access]
    /\ procAlloc \in [MallocIp -> SUBSET Access]
    /\ owner \in [Addr -> Site \cup {NoSite}]
    /\ phase \in {"run", "flushAllocCache", "flush", "done"}
    /\ exited \in SUBSET Tracker
    /\ skipped \in SUBSET Access
    /\ madeBy \in [Access -> Ip \cup {NoIp}]
    /\ ownerAtAccess \in [Access -> Site \cup {NoSite}]
    /\ stale \in SUBSET Access

Init ==
    /\ life = [t \in Tracker |-> "none"]
    /\ hook = [t \in Tracker |-> [op |-> "none"]]
    /\ accessBatch = [t \in Tracker |-> <<>>]
    /\ instructions = [t \in Tracker |-> NoCounts(Ip)]
    /\ icache = [t \in Tracker |-> NoLines(Ip)]
    /\ allocCache = [t \in Tracker |-> NoCounts(Site)]
    /\ acache = [t \in Tracker |-> NoLines(Site)]
    /\ dummyAlloc = NoCounts(Tracker)
    /\ mallocStats = NoCounts(Site)
    /\ stats = NoCounts(Tracker)
    /\ procInstr = NoCounts(Ip)
    /\ procAlloc = NoCounts(MallocIp)
    /\ owner = [a \in Addr |-> NoSite]
    /\ phase = "run"
    /\ exited = {}
    /\ skipped = {}
    /\ madeBy = [x \in Access |-> NoIp]
    /\ ownerAtAccess = [x \in Access |-> NoSite]
    /\ stale = {}

-----------------------------------------------------------------------------
(* Threads and the hooks the instrumentation calls.  A hook first flushes  *)
(* the access batch of its thread (onAccessHandling, one access a step),   *)
(* then its body runs.                                                     *)

(* An id seen before gets its old tracker back, as onStop left it.         *)
createThreadTracker(t) ==
    /\ phase = "run"
    /\ life[t] = "none" \/ (RecycleIds /\ life[t] = "ended")
    /\ life' = [life EXCEPT ![t] = "alive"]
    /\ UNCHANGED <<hook, accessBatch, counterVars, owner, exitVars, historyVars>>

Running(t) == life[t] = "alive" /\ hook[t].op = "none"

(* The batch is flushed when it is full.  With BatchSize = 0 the code      *)
(* handles the access at once, which is a batch of one.                    *)
onAccess(t, x, ip, a) ==
    /\ Running(t)
    /\ madeBy[x] = NoIp
    /\ accessBatch' = [accessBatch EXCEPT ![t] =
                           Append(@, [id |-> x, ip |-> ip, addr |-> a])]
    /\ hook' = [hook EXCEPT ![t] =
                    IF Len(accessBatch[t]) + 1 >= BatchSize
                    THEN [op |-> "access"] ELSE @]
    /\ madeBy' = [madeBy EXCEPT ![x] = ip]
    /\ ownerAtAccess' = [ownerAtAccess EXCEPT ![x] = owner[a]]
    /\ UNCHANGED <<life, counterVars, owner, exitVars, skipped, stale>>

(* An allocator hands out an address that nothing owns and that no other   *)
(* call is handing out; a block is freed once.                             *)
MayEnter(t, h) ==
    /\ Running(t)
    /\ h.op = "alloc" =>
           /\ owner[h.addr] = NoSite
           /\ \A u \in Tracker : hook[u].op = "alloc" => hook[u].addr # h.addr
    /\ h.op = "free" =>
           /\ owner[h.addr] # NoSite
           /\ \A u \in Tracker : hook[u].op = "free" => hook[u].addr # h.addr

EnterHook(t, h) ==
    /\ MayEnter(t, h)
    /\ hook' = [hook EXCEPT ![t] = h]
    /\ UNCHANGED <<life, accessBatch, counterVars, owner, exitVars, historyVars>>

(* The batch of t is being flushed: by a hook of t, or by onExit.          *)
Flushing(t) ==
    \/ hook[t].op # "none"
    \/ phase = "flush" /\ t \in Tracker \ exited

BodyReached(t, op) == hook[t].op = op /\ accessBatch[t] = <<>>

Return(t) == hook' = [hook EXCEPT ![t] = [op |-> "none"]]

-----------------------------------------------------------------------------
(* onAccessHandling.                                                       *)

(* The simulated CPU cache serves the access, or the instrumentation asked *)
(* to skip it: no counter is touched.                                      *)
IgnoreAccess(t) ==
    /\ Flushing(t)
    /\ accessBatch[t] # <<>>
    /\ accessBatch' = [accessBatch EXCEPT ![t] = Tail(@)]
    /\ skipped' = skipped \cup {Head(accessBatch[t]).id}
    /\ UNCHANGED <<life, hook, counterVars, owner, exitVars, madeBy,
                   ownerAtAccess, stale>>

(* Mutant: the threshold flush forgets that cached pointers lead into the  *)
(* cleared map.                                                            *)
CountInstructionKeepsCache(t, e, victim) ==
    \E keys \in Landings(instructions[t], icache[t], e.ip) :
    LET counted == Counted(instructions[t], keys, e.id)
        full == Entries(counted) >= CacheEntries
        cache == Cached(icache[t], e.ip, victim)
    IN  /\ instructions' = [instructions EXCEPT ![t] =
                                IF full THEN NoCounts(Ip) ELSE counted]
        /\ icache' = [icache EXCEPT ![t] = IF full THEN Dangling(cache) ELSE cache]
        /\ procInstr' = IF full THEN Merged(procInstr, counted) ELSE procInstr

(* Mutant: the threshold flush clears the map before it merges it.         *)
CountInstructionClearsFirst(t, e, victim) ==
    \E keys \in Landings(instructions[t], icache[t], e.ip) :
    LET counted == Counted(instructions[t], keys, e.id)
        full == Entries(counted) >= CacheEntries
    IN  /\ instructions' = [instructions EXCEPT ![t] =
                                IF full THEN NoCounts(Ip) ELSE counted]
        /\ icache' = [icache EXCEPT ![t] =
                          IF full THEN NoLines(Ip) ELSE Cached(@, e.ip, victim)]
        /\ procInstr' = IF full THEN Merged(procInstr, instructions'[t]) ELSE procInstr

(* The counters of the instruction; a map that has reached its limit is    *)
(* merged into the process, cleared, and its pointer cache flushed.        *)
CountInstruction(t, e, victim) ==
    \E keys \in Landings(instructions[t], icache[t], e.ip) :
    LET counted == Counted(instructions[t], keys, e.id)
        full == Entries(counted) >= CacheEntries
    IN  /\ instructions' = [instructions EXCEPT ![t] =
                                IF full THEN NoCounts(Ip) ELSE counted]
        /\ icache' = [icache EXCEPT ![t] =
                          IF full THEN NoLines(Ip) ELSE Cached(@, e.ip, victim)]
        /\ procInstr' = IF full THEN Merged(procInstr, counted) ELSE procInstr

(* The counters of the malloc site, through allocCache; a cache that has   *)
(* reached its limit is merged into the sites, whichever tracker holds     *)
(* them, and emptied.                                                      *)
CountSite(t, x, s, victim) ==
    \E keys \in Landings(allocCache[t], acache[t], s) :
    LET counted == Counted(allocCache[t], keys, x)
        full == Entries(counted) >= CacheEntries
    IN  /\ allocCache' = [allocCache EXCEPT ![t] =
                              IF full THEN NoCounts(Site) ELSE counted]
        /\ acache' = [acache EXCEPT ![t] =
                          IF full THEN NoLines(Site) ELSE Cached(@, s, victim)]
        /\ mallocStats' = IF full THEN Merged(mallocStats, counted) ELSE mallocStats
        /\ UNCHANGED dummyAlloc

CountNonAlloc(t, x) ==
    /\ dummyAlloc' = [dummyAlloc EXCEPT ![t] = @ \cup {x}]
    /\ UNCHANGED <<allocCache, acache, mallocStats>>

onAccessHandling(t, ipVictim, siteVictim) ==
    /\ Flushing(t)
    /\ accessBatch[t] # <<>>
    /\ LET e == Head(accessBatch[t])
           s == owner[e.addr]
       IN  /\ accessBatch' = [accessBatch EXCEPT ![t] = Tail(@)]
           /\ stats' = [stats EXCEPT ![t] = @ \cup {e.id}]
           /\ CountInstruction(t, e, ipVictim)
           /\ IF s = NoSite THEN CountNonAlloc(t, e.id)
                            ELSE CountSite(t, e.id, s, siteVictim)
    /\ UNCHANGED <<life, hook, procAlloc, owner, exitVars, historyVars>>

-----------------------------------------------------------------------------
(* Bodies of the hooks.                                                    *)

(* The end of a flush that a full batch started.                           *)
flushAccessBatch(t) ==
    /\ BodyReached(t, "access")
    /\ Return(t)
    /\ UNCHANGED <<life, accessBatch, counterVars, owner, exitVars, historyVars>>

(* History: accesses to a that other threads than t still have in a batch. *)
Outdated(t, a) ==
    {x \in Access : \E u \in Tracker \ {t} : \E i \in DOMAIN accessBatch[u] :
                        accessBatch[u][i].id = x /\ accessBatch[u][i].addr = a}

(* Mutant: the hook records the block without flushing the batch first.    *)
onAllocUnflushed(t) ==
    /\ hook[t].op = "alloc"
    /\ owner' = [owner EXCEPT ![hook[t].addr] = <<t, hook[t].ip>>]
    /\ stale' = stale \cup Outdated(t, hook[t].addr)
    /\ Return(t)
    /\ UNCHANGED <<life, accessBatch, counterVars, exitVars, skipped, madeBy,
                   ownerAtAccess>>

onAlloc(t) ==
    /\ BodyReached(t, "alloc")
    /\ owner' = [owner EXCEPT ![hook[t].addr] = <<t, hook[t].ip>>]
    /\ stale' = stale \cup Outdated(t, hook[t].addr)
    /\ Return(t)
    /\ UNCHANGED <<life, accessBatch, counterVars, exitVars, skipped, madeBy,
                   ownerAtAccess>>

(* Nothing owns the address any more: the block is freed, or its page      *)
(* unmapped, which has the same effect here.                               *)
onFree(t) ==
    /\ BodyReached(t, "free")
    /\ owner' = [owner EXCEPT ![hook[t].addr] = NoSite]
    /\ stale' = stale \cup Outdated(t, hook[t].addr)
    /\ Return(t)
    /\ UNCHANGED <<life, accessBatch, counterVars, exitVars, skipped, madeBy,
                   ownerAtAccess>>

(* Mutant: the merged counters stay in the thread.                         *)
onStopKeepsCounters(t) ==
    /\ BodyReached(t, "stop")
    /\ procInstr' = Merged(procInstr, instructions[t])
    /\ life' = [life EXCEPT ![t] = "ended"]
    /\ Return(t)
    /\ UNCHANGED <<accessBatch, instructions, icache, allocCache, acache,
                   dummyAlloc, mallocStats, stats, procAlloc, owner, exitVars,
                   historyVars>>

(* The counters are merged and cleared; icache is not flushed.             *)
onStop(t) ==
    /\ BodyReached(t, "stop")
    /\ procInstr' = Merged(procInstr, instructions[t])
    /\ instructions' = [instructions EXCEPT ![t] = NoCounts(Ip)]
    /\ icache' = [icache EXCEPT ![t] = Dangling(@)]
    /\ life' = [life EXCEPT ![t] = "ended"]
    /\ Return(t)
    /\ UNCHANGED <<accessBatch, allocCache, acache, dummyAlloc, mallocStats,
                   stats, procAlloc, owner, exitVars, historyVars>>

-----------------------------------------------------------------------------
(* ProcessTracker::onExit, which Pin calls when every thread has ended:    *)
(* one loop flushes every allocCache, a second flushes every thread.       *)

Known == {t \in Tracker : life[t] # "none"}

(* Mutant: the first loop is missing.                                      *)
onExitOneLoop ==
    /\ phase = "run"
    /\ Known # {}
    /\ \A t \in Tracker : life[t] # "alive"
    /\ phase' = "flush"
    /\ exited' = Tracker \ Known
    /\ UNCHANGED <<threadVars, counterVars, owner, historyVars>>

onExit ==
    /\ phase = "run"
    /\ Known # {}
    /\ \A t \in Tracker : life[t] # "alive"
    /\ phase' = "flushAllocCache"
    /\ exited' = Tracker \ Known
    /\ UNCHANGED <<threadVars, counterVars, owner, historyVars>>

(* The loop visits t; after the last tracker comes the phase next.         *)
Visit(t, next) ==
    LET last == exited \cup {t} = Tracker
    IN  /\ phase' = IF last THEN next ELSE phase
        /\ exited' = IF last THEN Tracker \ Known ELSE exited \cup {t}

flushAllocCache(t) ==
    /\ phase = "flushAllocCache"
    /\ t \notin exited
    /\ mallocStats' = Merged(mallocStats, allocCache[t])
    /\ allocCache' = [allocCache EXCEPT ![t] = NoCounts(Site)]
    /\ acache' = [acache EXCEPT ![t] = Dangling(@)]
    /\ Visit(t, "flush")
    /\ UNCHANGED <<threadVars, instructions, icache, dummyAlloc, stats,
                   procInstr, procAlloc, owner, historyVars>>

(* Mutant: allocStats is filled by site instead of by malloc call.         *)
flushBySite(t) ==
    /\ phase = "flush"
    /\ t \notin exited
    /\ accessBatch[t] = <<>>
    /\ procInstr' = Merged(procInstr, instructions[t])
    /\ procAlloc' = [s \in Site |-> mallocStats[s]]
    /\ Visit(t, "done")
    /\ UNCHANGED <<threadVars, instructions, icache, allocCache, acache,
                   dummyAlloc, mallocStats, stats, owner, historyVars>>

flush(t) ==
    /\ phase = "flush"
    /\ t \notin exited
    /\ accessBatch[t] = <<>>
    /\ procInstr' = Merged(procInstr, instructions[t])
    /\ procAlloc' = Merged(procAlloc, [ip \in MallocIp |-> mallocStats[<<t, ip>>]])
    /\ Visit(t, "done")
    /\ UNCHANGED <<threadVars, instructions, icache, allocCache, acache,
                   dummyAlloc, mallocStats, stats, owner, historyVars>>

(* The profile is written; nothing more happens.                           *)
Exited == phase = "done" /\ UNCHANGED vars

-----------------------------------------------------------------------------
Next ==
    \/ \E t \in Tracker :
          \/ createThreadTracker(t)
          \/ \E x \in Access, ip \in Ip, a \in Addr : onAccess(t, x, ip, a)
          \/ \E h \in Hook : h.op \notin {"none", "access"} /\ EnterHook(t, h)
          \/ IgnoreAccess(t)
          \/ \E ip \in Ip, s \in Site : onAccessHandling(t, ip, s)
          \/ flushAccessBatch(t)
          \/ onAlloc(t)
          \/ onFree(t)
          \/ onStop(t)
          \/ flushAllocCache(t)
          \/ flush(t)
    \/ onExit
    \/ Exited

Spec == Init /\ [][Next]_vars

-----------------------------------------------------------------------------
(* Properties.                                                             *)

(* The places where an access can be, up to the counters of instructions.  *)
WaitsAt(x, t, i) == i \in DOMAIN accessBatch[t] /\ accessBatch[t][i].id = x

Waits(x) == \E t \in Tracker : \E i \in DOMAIN accessBatch[t] : WaitsAt(x, t, i)

InThread(x) == \E t \in Tracker, ip \in Ip : x \in instructions[t][ip]

InProcess(x) == \E ip \in Ip : x \in procInstr[ip]

(* An access is in one place: waiting once in one batch, ignored, in one   *)
(* counter of one thread, or in one counter of the process.  So nothing is *)
(* counted twice, by a flush that leaves the batch or the counters it has  *)
(* merged behind, or under two instructions.                               *)
CountedOnce ==
    /\ \A x \in Access, t, u \in Tracker :
          \A i \in DOMAIN accessBatch[t], j \in DOMAIN accessBatch[u] :
              WaitsAt(x, t, i) /\ WaitsAt(x, u, j) => t = u /\ i = j
    /\ \A x \in Access, t, u \in Tracker, i, j \in Ip :
          x \in instructions[t][i] /\ x \in instructions[u][j] => t = u /\ i = j
    /\ \A x \in Access, i, j \in Ip :
          x \in procInstr[i] /\ x \in procInstr[j] => i = j
    /\ \A x \in Access :
          /\ Waits(x) => ~InThread(x) /\ ~InProcess(x) /\ x \notin skipped
          /\ InThread(x) => ~InProcess(x) /\ x \notin skipped
          /\ InProcess(x) => x \notin skipped

(* The accesses made by an instruction that are to be counted.             *)
ToCount(ip) == {x \in Access : madeBy[x] = ip} \ skipped

(* "NUMAPROF report all the memory accesses" (README.md:219): the profile  *)
(* counts, under each instruction, exactly the accesses it has made, the   *)
(* ignored ones excepted.                                                  *)
ReportComplete == phase = "done" => \A ip \in Ip : procInstr[ip] = ToCount(ip)

(* Every view of the profile agrees: an access is counted by one thread,   *)
(* and under one malloc site or as an access outside any allocation, just  *)
(* when it is counted under an instruction.  Counters of a site that are   *)
(* still in the cache of another thread at exit must not be forgotten.     *)
ViewsAgree ==
    phase = "done" =>
        LET bySite == UNION {procAlloc[ip] : ip \in MallocIp}
            nonAlloc == UNION {dummyAlloc[t] : t \in Tracker}
            byThread == UNION {stats[t] : t \in Tracker}
            byIp == UNION {procInstr[ip] : ip \in Ip}
        IN  /\ bySite \cup nonAlloc = byIp
            /\ bySite \cap nonAlloc = {}
            /\ byThread = byIp

(* Where the counters of allocations hold an access of site s.             *)
AtSite(s) == mallocStats[s] \cup UNION {allocCache[t][s] : t \in Tracker}

(* An access is attributed to the site that owned its address when it was  *)
(* made, however long it waited in a batch, unless another thread          *)
(* allocated or freed the address meanwhile: each hook flushes the batch   *)
(* of its own thread first.                                                *)
AttributedToOwner ==
    \A x \in Access \ stale :
        /\ \A s \in Site : x \in AtSite(s) => ownerAtAccess[x] = s
        /\ \A t \in Tracker : x \in dummyAlloc[t] => ownerAtAccess[x] = NoSite

(* Counting implements the ledger: an access in a counter of a thread or   *)
(* of the process is entered, and the profile written at exit is the       *)
(* ledger.  No merge, clear or flush in between changes what is entered.   *)
Ledger == INSTANCE AccessLedger WITH
    NotMade <- NoIp,
    ledger <- [ip \in Ip |-> procInstr[ip]
                              \cup UNION {instructions[t][ip] : t \in Tracker}],
    ignored <- skipped,
    closed <- phase = "done",
    report <- IF phase = "done" THEN procInstr ELSE NoCounts(Ip)

LedgerSpec == Ledger!Spec

-----------------------------------------------------------------------------
(* The inductive invariant behind CountedOnce and ReportComplete, when no  *)
(* id is recycled: an access that was made is somewhere, under its own     *)
(* instruction; a thread that does not run holds nothing; and a pointer    *)
(* cache dangles only once its thread has ended.                           *)

Placed ==
    \A x \in Access :
        madeBy[x] # NoIp <=> Waits(x) \/ InThread(x) \/ InProcess(x) \/ x \in skipped

UnderItsIp ==
    /\ \A t \in Tracker : \A i \in DOMAIN accessBatch[t] :
           accessBatch[t][i].ip = madeBy[accessBatch[t][i].id]
    /\ \A t \in Tracker, ip \in Ip : \A x \in instructions[t][ip] : madeBy[x] = ip
    /\ \A ip \in Ip : \A x \in procInstr[ip] : madeBy[x] = ip

IdleHoldsNothing ==
    \A t \in Tracker : life[t] # "alive" =>
        /\ hook[t].op = "none"
        /\ accessBatch[t] = <<>>
        /\ \A ip \in Ip : instructions[t][ip] = {}

DanglingOnlyAfterEnd ==
    \A t \in Tracker, ip \in Ip : icache[t][ip] = "dangling" => life[t] = "ended"

ExitAfterThreads == phase # "run" => \A t \in Tracker : life[t] # "alive"

IInv ==
    /\ TypeOK
    /\ CountedOnce
    /\ Placed
    /\ UnderItsIp
    /\ IdleHoldsNothing
    /\ DanglingOnlyAfterEnd
    /\ ExitAfterThreads

=============================================================================
