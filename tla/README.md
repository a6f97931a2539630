# A verification project for numaprof

numaprof is a NUMA memory profiler. It runs as a Pin tool in the process of the
profiled program: every memory access, and every call to the allocator, to
`mmap` and its kin, and to the affinity calls, runs a hook of numaprof in the
thread that makes it. At exit numaprof writes one profile. This directory holds
TLA+ modules for the parts of it that are hard to get right, TLC configurations
that check them on small instances, and TLAPS proofs of the main properties for
all values of the constants.

Paths below are relative to the repository; `lib` stands for `src/lib`.

## The system

| component | code | state | operations |
|---|---|---|---|
| Pin driver | `src/integration/pintool/numaprof.cpp` | per thread `ThreadData`: the tracker and the arguments remembered between the hook before a call and the one after it | `ThreadStart/Fini`, `RecordMemRead/Write`, `before/after` of malloc, realloc, new, free, mmap, munmap, mremap, mbind, affinity; `Fini` |
| thread tracker | `lib/core/ThreadTracker` | access batch, counters per instruction and per malloc site with pointer caches in front, totals, TLB of pages, node and memory policy, binding log | `onAccess`, `flushAccessBatch`, `onAccessHandling`, `onAlloc`, `onFree`, `onMmap`, `onMunmap`, `onMremap`, `onMBind`, `onSetAffinity`, `onSetMemPolicy`, `onStop`, `flushAllocCache`, `flush` |
| process tracker | `lib/core/ProcessTracker` | trackers by Pin id, global counters, pages per node and their maximum, one mutex | `createThreadTracker`, `mergeInstruction`, `onAfterFirstTouch`, `onMunmap`, `onThreadSetAffinity`, `onExit`, `removeSmall` |
| malloc tracker | `lib/core/MallocTracker` | counters per malloc site of the thread | `onAlloc`, `onFree`, `flush` |
| page table | `lib/core/PageTable` | a four-level shadow page table; per page its node, who touched it first, its file, and what is allocated in it | `getPage`, `regAllocPointer(Small)`, `freeAllocPointer`, `getAllocPointer`, `clear`, `trackMMap`, `mremap`, huge pages, `onMbind` |
| CPU cache | `lib/caches` | tags, ages and current age of each row, per thread | `onMemoryAccess` |
| topology, OS layer | `lib/portability` | the machine as read at start | affinity masks to nodes, `move_pages` |
| symbol registry | `extern-deps/from-malt-v2` | the map of the process, call sites by address, their names | `loadProcMap`, `registerAddress`, `solveNames`, `solveMissings` |
| call stacks, options, views | `lib/core/Stack`, `lib/common`, `src/webview`, `src/qtview` | | |

Threads share the process tracker and the page table. A thread tracker is
written by its own thread, except that another thread may bind it
(`onThreadSetAffinity`), that the counters of a malloc site are merged by
whichever thread accessed the block, and that the exit flushes all of them.
There are three kinds of lock: the mutex of the process tracker, the mutex of
the page table's directories, and the mutexes of the fragment maps. Almost
everything else is read and written by several threads with no lock at all.

What is hard here, and what each component must get right:

* **Counting.** An access waits in a batch, is counted in a map of its thread
  through a cached pointer, merged at a threshold, at thread end, and at exit;
  counters of a malloc site take a detour through the threads that access the
  block. Correct: each access is counted once, under its instruction and under
  the block that owned its address, and nothing is missing at exit.
* **Allocation side of the page table.** Blocks share pages; a page changes
  from nothing to fragments to full and back while other threads look up
  addresses in it. Correct: a lookup answers with the block that owns the
  address; maps are neither leaked, shared nor used after their end.
* **CPU cache.** LRU with ages of one byte that wrap. Correct: the wrap cannot
  be seen.
* **Page counters.** First touches race, `mbind` and `mremap` move pages
  without counting. Correct: the maximum is a maximum, no counter underflows.
* **Affinity.** A thread is bound by itself or by another one, before, while or
  after its tracker is made, with locks taken across components. Correct: the
  tracker has the node the kernel gives the thread, an access has a kind that
  was true while it was handled, and every hook returns.
* **Directories of the page table.** Threads create the levels on their way,
  under a lock they take only when they see nothing. Correct: an address has one
  page, the same for all and for ever.
* **Symbols.** Names come from a program that may fail half way and from a
  second source for what is left. Correct: a name is the one found for its address.
* **Driver.** What a hook before a call knows is used by the hook after it, and
  the call may fail, throw, or hand memory to another thread in between.
  Correct: an access is counted to the call that allocated its block.

`PROJECT.json` lists the components with what is modelled of each, and the
hazards at their lines.

## Modules

| module | models |
|---|---|
| `AccessLedger` | what counting promises: a ledger of accesses, no batch, cache, thread or merge in it |
| `AccessCounting` | `ThreadTracker`, `MallocTracker` and the counters of `ProcessTracker`: the path of an access from its hook to the profile |
| `AccessCountingProofs` | proofs about it, that it implements `AccessLedger` among them, and about `ProfileCut` |
| `ProfileCut` | `removeSmall`: the cut of the profile at exit, on the states of `AccessCounting` |
| `LruCache` | what the CPU cache promises: least recently used, by definition |
| `CpuFlatCache` | `CpuSimpleFlatCache` and its static twin |
| `AgeScaling` | the loop of `scaleDownAges` as the code runs it |
| `CpuFlatCacheProofs` | proofs about the cache and the loop |
| `AllocShadow` | the allocation fields of the page table, step by step |
| `AllocShadowProofs` | proofs about them |
| `PageNuma` | the node of each page, the first touch, and the pages counted per node |
| `PageNumaProofs` | proofs about them |
| `Topology` | the summaries of CPU masks and memory policies, and the parent of an MCDRAM node |
| `ThreadBinding` | trackers, affinity, the binding log and the accesses that read the node |
| `ThreadBindingProofs` | proofs about them and about the summary of a mask |
| `PageMap` | what the directories promise: one page per address |
| `PageDirectories` | `getPage` and `makeNewEntry`, step by step |
| `PageDirectoriesProofs` | the proof that they implement `PageMap` |
| `StaticAssoCache` | the cache with round robin replacement |
| `AllocHooks` | the driver's hooks around the allocator, composed with `PageDirectories` and, as TLB, `StaticAssoCache` |
| `AllocHooksProofs` | proofs about them, and that they use the directories as `PageDirectories` says |
| `SymbolRegistry` | the registration and naming of the instructions of a profile at exit |
| `SymbolRegistryProofs` | proofs about it |
| `MC...` | instances for TLC |

### AccessCounting

A counter is the set of the accesses it has counted, which makes "lost" and
"counted twice" expressible; `Stats::merge` and atomic additions are unions. The
state keeps the names of the code (`accessBatch`, `instructions`, `icache`,
`allocCache`, `acache`, `dummyAlloc`, `stats`), one per thread, and adds
`procInstr` and `procAlloc` (the maps of `ProcessTracker`) and `mallocStats`
(the map of each `MallocTracker`). A pointer cache line is `absent`, `live` or
`dangling`; an increment through a dangling one lands nowhere, or in any entry
that has taken the memory since.

Each hook is three kinds of step: `EnterHook`, one step of `onAccessHandling` or
`IgnoreAccess` per access in the batch, and the body (`onAlloc`, `onFree`,
`onStop`, or the end of the flush of a full batch). Bodies of different threads
interleave at these steps. `IgnoreAccess` stands for the two early returns: a
hit in the CPU cache, and accesses the instrumentation marks to be skipped.
The exit is two loops over the trackers (`flushAllocCache`, `flush`).
The choice of the way a pointer cache evicts is left open, which covers the
round robin of `StaticAssoCache`.

The kinds of access of a `Stats` are not told apart here; which kind an access has is
`ThreadBinding`'s question.

`ProfileCut` takes the two maps of the finished profile through `removeSmall`,
an option that is off by default. An entry being a set, "merged into the
others" and "dropped" differ. For the cut the accesses of an entry are
counted as a `Stats` does (`Stats`): one of nine counters for each access, by its class,
a first touch adding the pages it touched, and `nonAlloc` for those outside of all
allocations. `applyCut` scales each counter by itself and `asOneLargerThan` keeps an
entry that exceeds the cut of any one. The arithmetic is that of floats: the
percentage, its hundredth, each counter and each product are rounded to `FloatBits`
bits (24 in the code), ties to even, and the product is then truncated. The hundredth is
computed in double and stored in a float, which for a percentage that is a float
gives the same float. Negative ratios and counters beyond the exponents of a
float are left out.

### CpuFlatCache

One action, `onMemoryAccess`, with the way found or evicted as parameter.
`AgeLimit` is 256 in the code and a parameter here. `scaleDownAges` is its
result, the ranks of the ages; `scaleDownAgesLoop` of `AgeScaling` is the loop, which
sorts a copy (`Sorted`) and looks each age up in the row it rewrites (`Renumbered`), and
the invariant `LoopComputesRanks` compares the two in every reachable row.
`used` and `since` are history: for each line, the lines of its row used since
its last use. `LruCache` decides hits from them and nothing else.

### AllocShadow

One step is one access to shared memory: `regAllocPointer` goes over the pages
of a block, reading the status, taking the mutex, checking again, creating and
publishing the map, writing the entries; a full page has its status and its
pointer written by two steps, in the order of the code. `regAllocPointerSmall` tests the status
up to three times before it takes a mutex, and each test is a step
(`regAllocPointerSmall`, `isNone`, `isFull`; `lib/core/PageTable.cpp:271`, `274`, `292`). A lookup reads the status,
then the pointer. The entries that a portion of a block covers are written in one
step. `clear` is one step: the hooks of `munmap` and `mremap` run on pages the
program no longer uses.

The allocator and the kernel are an environment with the guards a correct
program gives them: blocks do not overlap, a block is freed once, nothing is
freed or unmapped while it is accessed, system calls take effect before their
hook runs. Two constants open what the code must also survive: `QuickReuse`
lets the kernel map a range again before the hook of the `munmap` has run,
`InPlaceRemap` lets `mremap` grow or shrink a range where it is. Sizes are in
grains, and a page has `Grains` of them.

The three tests are not safe, although the comment at `lib/core/PageTable.cpp:276` says of this place
"there could be thread fighting for this particular case, need to handle safety". When
another thread publishes the map of the page between the first and the second, the
page is FRAG by then: it is neither NONE nor FULL, the code reports an invalid
value and returns, and the block is not registered in that page. Two threads
that allocate in a new page at once are enough. The model has this outcome
(`GiveUp`, with the message `race`), and remembers in `lost` which blocks it
leaves out of which pages. `LookupExact` states what remains true: a lookup misses a block only in
a page where its registration was given up, and never answers with another block
of the program. There is one consequence the code does not report: `onFree` of a block it does not find
deletes nothing, and the `MallocInfos`, with what is registered of it in other
pages, stays (`Stray`); a block that is given the memory later then finds entries taken or a page full.
`ReportsFollowRace` says that this is the only way to any of the states the code
reports: no page is found with the wrong status, and no entry taken, before the race has happened, and
the return that leaves a mutex locked (`lib/core/PageTable.cpp:289`) is not reached at all.

Three simplifications: a page always exists (`PageDirectories` is about how it
comes to); the entry count of a map is a parameter; and in a build with access
batches a lookup can happen after the block was freed, which `AccessCounting`
covers (`stale`) and this module, where the program waits for its lookups, does
not.

### PageNuma

`mapped` and `home` are the kernel: which pages the program has, and on which
node each present one is. `numaNode` and `fd` are the fields of `Page`,
`current` and `max` the two vectors of `ProcessTracker`; the rest is the program
counter and the local variables of the hook each thread is in. One step is one
access to shared memory or one system call, except that a loop over the pages of
one call is a step. So the branch of `onAccessHandling` for a page with no node
is a path of steps, `onAccess`, the query, the touch, `canBeHugePage`, the
status of the huge page, the two stores of the node, and the three of
`onAfterFirstTouch`: the addition, the comparison with the maximum and the store.
`munmap` and `mremap` take effect before their hooks; the hook of `munmap`
subtracts (`onMunmap`), then clears (`clear`).

The kernel puts a touched page on any node, alone or as a whole huge page, and
may do so without a hook (a system call that writes to it). Pages of a call that
is under way are not mapped again before its hook has run: what happens
otherwise is `QuickReuse` of `AllocShadow`. `BindTouched` lets the program call
`mbind` on memory it has touched. `UnmapAnytime` lets a thread unmap a part of a
huge page while another one accesses the rest; `NodeIsKernels` then fails,
because the setter of the huge page writes its node over all of it, long after
it was looked up. That is listed as a hazard and excluded from the runs.

Left out: `fromPinnedThread`, the emulated NUMA mode, `mmap` with `MAP_FIXED`, a
heap that shrinks, and the cache of `Page` pointers in a thread, which is sound because a page is never replaced (`ImplementsPageMap`).

### Topology and ThreadBinding

`Topology` has operators only. `getNumaAffinity` folds the CPUs of a mask in
order, as the code does; `NodeOfMask` says what it is for, and the invariants
use the latter. The maps read from `/sys` are parameters.

`ThreadBinding` has the threads of the program with the mask the kernel has for
each (`life`, `affinity`) and the Pin id each was given (`threads`); the tracker of
an id (`tid`, `numa`, `memPolicy`, `bindingLog`, `accessBatch`); the two locks
(`mutex` of the process, `logMutex` of each tracker); and the place in its hook of
each thread (`pc`, `call`, `access`). One step is one lock, unlock, read or
write of a shared variable: `onThreadSetAffinity` is `lookup`, `search`, the
steps of `onSetAffinity` with the mutex held, `unlock`; `onAccessHandling` is one
step per read of `numa`. A locked mutex has no exception for the thread
that holds it: `std::mutex`, `pthread_mutex_t` and `PIN_LOCK` are used
non-recursively. The call itself, `sched_setaffinity`, follows its hook and may be
refused. Pin may give the id of an ended thread to a new one, whose tracker is
then the old one.

`BindingIsKernels` has four excuses, all in `unknown` or in `Binders`: a call on the
thread is under way, two overlapped, one was refused, or the tracker belonged
to an ended thread or was not found in time. `AccessClassified` compares the
kind of an access with the bindings of the thread meanwhile, its nodes and memory policies (`seen`).
Reading the node up to four times can give one kind that is true of no moment,
a remote access of a thread that went from the page's node to none; it is
stated in the property.

The table of counters an access fills may or may not be full, either way at each access.
When the hook of one thread empties the batch of another the two take turns
here; in the code nothing orders them. `logBinding` of memory policies, the
list of CPUs of a tracker and the copy of the policy's mask are left out; a node of
the page and who touched it first are given (`Page`).

### PageDirectories

`entries` is the memory of the directories, `mutex` that of the page table;
`want`, `depth`, `at` and `walk` are the argument and the locals of `getPage` in
each thread. One step is one read or write of an entry or of the mutex, so a
thread may find an entry empty, then full under the mutex, then return it as
it is. A new directory is empty and complete when its pointer is stored: the
code relies on it without a barrier, which holds on x86, where Pin runs.
`PageMap` has none of this: an address asked for is answered with its
page, and addresses get pages that they keep and share with no other.

### AllocHooks

This module composes: the hooks of malloc, calloc, realloc, free and operator new
with `ThreadData` (`data`), `MallocTracker::onAlloc` and `onFree`,
`regAllocPointer`, which calls `getPage` before each page it writes, and the
access, which asks the TLB and then `getPage`. A thread waits at `walk[t] =
"done"` for the steps of `PageDirectories` and continues with `PageAt(t)`.
The allocator is the environment: it gives memory, of the freed block or of
another thread's, as soon as the function itself has run, which is before or
after the hooks of others; it may fail; operator new may then throw, and no hook runs.

The content of a page is one function from grains to descriptors, beside its status
(NONE, FULL, FRAG). A page takes what is registered in it or refuses it (`Accepts`,
`Refuses`): a middle page becomes full when it is not, and empty when it is full; a fragment goes
into a page that is in fragments or not used, and a page that is FULL, or FRAG after the first test
of the status (`tested`), leaves it out. `AllocShadow`, where blocks do not overlap, has the steps in between;
here a wrong size makes them overlap, a page may be left FULL for a block that is
gone, and the next block there is refused. A test and the write after it are one step, but for
the first test. So three things are not here: a map deleted by a block over it
between the reading of its pointer and the writing of its entries, which is
undefined behaviour of the code; the mutex left locked at
`lib/core/PageTable.cpp:289`, which only stops threads; and, when a negative size ends in the page of the base,
the second portion of that page as a step of its own.

`Written` gives the extents of `regAllocPointer` also for the
negative size an `int` makes of a large block; one whose size is 0 as an `int` is written to no
page. `AddressAssumption` gives the table pages for all of them. What the threads call is a
constant, `Programs`; TLC explores all their interleavings and outcomes.

`AccessFindsOwner` excuses what the hooks are told wrong: grains of a block
whose realloc failed or whose size does not fit the `int`, and those of a block in a page that
refused it (`lost`), until they are registered anew, and the call site of a new that threw (`thrown`), until a new returns.
Memory of `aligned_alloc` and its kin has no hook; an access to it must find nothing.
A malloc that realloc calls on its own and a new handler are left out.

### SymbolRegistry

`onExit` gives the registry the instructions and malloc sites of the profile (`keys`), one `registerAddress`
each, and the map of the process as it is then, which may lack a library (`ProcMaps`). `solveNames` is one step
per line of the map. It is a fold over the answers of `addr2line`, which may find a site, not find it,
answer badly, stop after any number of sites, fail at its start or at its end; when it ends well
without all answers, `assumeArg` ends the program (`aborted`). `solveMissings` is one step, with its
two walks over the unresolved sites kept apart: the first collects them for
`backtrace_symbols`, the second (`AllPaired`) pairs its answers with them. A name is an
element of `Text` in `strings`, whose index is an id. Addresses are numbers, because sites and lines are
matched by `<`. `MapsAssumption` is what the kernel gives: a map has lines, and none of them is at the
first addresses, where the code has put `NUMAPROF_OTHERS` (2).

Left out: the MAQAO sites and `isSameFuntion`, which numaprof does not use, the offset
of an address in its file, the parsing of a symbol, and `backtrace_symbols` returning NULL.

## Runs

| run | instance | shows |
|---|---|---|
| `counting` | 2 threads, 2 instructions, 3 accesses, 1 address, batch of 2, maps flushed at 2 entries, accesses of 2 kinds in every mixture, cuts at 0.5, 100/3 and 50 percent, floats of 2 bits | types; counted once; complete at exit; the views agree; attributed to the owner; refinement of `AccessLedger`; the cut keeps every access |
| `counting_recycled_ids` | ids are recycled | *violated*: accesses are lost through dangling cached pointers |
| `cpu_cache` | 2 rows of 3 entries, 5 lines, ages modulo 6 | ages order by last use; the loop computes ranks; refinement of `LruCache` |
| `alloc_shadow` | 2 threads, 3 pages of 2 grains, 4 blocks, 3 maps, 2 mutexes | lookups exact, but where a registration was given up; no wild pointer; maps accounted for; what the code reports follows from the race of two creators of a map |
| `remap_in_place` | the same, in-place `mremap` | *violated*: fragment maps deleted twice |
| `page_numa` | 2 threads, 2 nodes, 2 pages that form a huge page, no access starts when a counter has reached 2 | the node is the kernel's; the counters cover the pages; none underflows |
| `page_max` | the same | *violated*: a smaller maximum overwrites a larger one |
| `binding` | 3 threads, 2 ids, 4 CPUs on 2 nodes and an MCDRAM node, 3 masks, 4 kinds of page, no batches, 2 calls, 2 lookups | types; the node is the kernel's; the log ends with it; accesses have a kind that was true; every hook returns |
| `binding_deadlock` | 2 threads, batch of 2 | *violated*: a thread that binds another waits for a mutex it holds |
| `alloc_hooks` | 8 programs of 2 threads, 4 blocks on 5 pages of 2 grains, directories of 2 entries, 4 descriptors, a TLB of one row of 2 ways | types; accesses find their owner; no dangling descriptor; refinement of `PageMap` |
| `symbols` | 5 sites in 2 maps of the process: 3 in the program, in one line or two, one in a library that may be unloaded, one in `[vdso]` | types; names are those of their address; every site has one; the binary is its own; no name twice |
| `symbols_others` | the same, with `removeSmall` | *violated*: names go to other sites |

Bounds. Three accesses and batches of two make a batch full, partly filled and
empty; two instructions with a limit of two make the threshold flush happen with
both a hit and a miss in the pointer cache; two threads make a block owned by one
and accessed by the other. Ages modulo 6 with an associativity of 3 wrap every third
use. An entry of up to three accesses, of one page or two each, is above and below a cut, and counts and
products are rounded by two bits as they are by 24 when they are large. The four blocks contain a small one that shares the first page
of a block that covers the second page and ends in the third, a small one beside that end, and one that takes
the covered page in turn, as fragments; two mutexes for three pages make two pages share one, and
three maps are one for each page. There is no block of size 0: that it leaves the table alone is
covered by the proof.
Two pages in a huge page make one that is touched as a whole, by halves, and by
two threads at once; a counter may pass its bound of 2, which stops only new
accesses.
In `binding` two ids for three threads make one recycled, and two calls
make two threads bind a third, or each other, at once, or one bind another that is not
registered yet, more than the two lookups long. In `alloc_hooks` a
block fills a page, one goes from it into the next, one has a whole page in the middle, which becomes
FULL, and the size of the fourth does not fit the `int` (`IntLimit` is 5); five pages in three levels of two
entries make walks meet and part at each level; two ways make the TLB replace
a line. Each of the eight programs is there for a case: memory that changes hands while
it is accessed; a realloc that moves, grows in place or fails; two threads that register and give up at once;
a new that throws before a malloc; a block without hook; blocks of other sizes where a page was full; a TLB that is used up.
In `symbols` two sites of one function make names repeat, a line with
three sites makes `addr2line` stop at each of them, and the second map, without the library, makes
a site in no line.
Permutations of threads, accesses, instructions, maps and nodes are symmetries where
they are used: no operator orders them, and none is used with a liveness property.

Deadlock is checked in every run but `binding_deadlock`, whose point it is. The
programs of `counting`, `binding`, `alloc_hooks` and `symbols` end, with the stuttering
steps `Exited`, `Terminated`, `Stopped` and `Ended`; the other systems never stop.

Fairness is assumed in `ThreadBinding` only: a thread inside a hook that can always
take a step takes one (`WF_vars(Step(t))`), which is what the kernel's scheduler gives. A
lock need not be given in turn (no `SF`; `PIN_LOCK`, `pthread_mutex_t` and
`std::mutex` are not fair), and nothing makes the program call another hook.
`EveryHookReturns` holds all the same, because the number of calls is bounded: with
an endless stream of calls a thread could wait for a mutex for ever.

The violated runs are five defects, described in `PROJECT.json` under
`findings`, each against a comment of the code it contradicts. Two more are listed as
hazards and show when a constant is changed: `QuickReuse = TRUE` in `AllocShadow.cfg`
violates `LookupExact`, among others (the hook of `munmap` clears what another thread has
mapped since, `src/integration/pintool/numaprof.cpp:654`), and `BindTouched = TRUE` in
`PageNuma.cfg` violates `CountersCover`, then `NoUnderflow` (`munmap` subtracts pages that `mbind`
recorded and nothing added, `lib/core/PageTable.cpp:412`).

## Proofs

Each theorem below holds for all values of the constants that satisfy the named assumptions
of its module; TLC evaluates these in each run. An assumption in the theorem itself is
given with it. Every property of a passing run has a theorem, `EveryHookReturns` excepted.
The inductive invariants were checked with TLC on the instances of the runs before they
were proved.

### AccessCountingProofs

All numbers of threads, accesses, instructions and addresses, all batch sizes and limits.

* `TypeCorrect`: `Spec => []TypeOK`.
* `CountedUnderOwner`: `Spec => []AttributedToOwner`.
* `NothingCountedTwice`, `NothingLost`, `ProfileViewsAgree`: without recycled ids,
  `Spec => []CountedOnce`, `[]ReportComplete` and `[]ViewsAgree`.
* `ImplementsLedger`: without recycled ids, `Spec => LedgerSpec`.
* `CutLosesNothing`: without recycled ids, `Spec => []CutKeepsAccesses`.

`CountedOnce` and `ReportComplete` go through `IInv`. `CountedOnce` is not inductive: a step of
`onAccessHandling` keeps it only when the increment lands under the key it is for,
so no line may dangle in a running thread (`DanglingOnlyAfterEnd`, where
recycled ids come in), and `onStop` and `flush` only when an ended thread holds
nothing (`IdleHoldsNothing`, `ExitAfterThreads`). `ReportComplete` further needs that an access made is
somewhere (`Placed`) and under its own instruction (`UnderItsIp`). The
assumption `RecycleIds = FALSE` is necessary: `counting_recycled_ids` is the
counterexample.

`AttributedToOwner` has its own invariant, `OwnerInv`, which does not need that
assumption: an access that waits in a batch has the owner its address had
(`BatchOwned`), and pointer caches of malloc sites dangle only at exit (`DanglingOnlyAtExit`), so that
no counter of one site takes an access of another.

`ViewsInv` adds to both that what is counted by thread, by instruction, and by site or
outside of all allocations are the same accesses in every state, wherever the counters that hold
them are (`SameAccesses`), that sites belong to trackers the exit visits (`SitesKnown`), and how far its
two loops have come (`LoopsMerge`).

The refinement takes `IInv` as known and has one case per action. Counting an access enters it
(`LedgerStep`, with `CountedUnderItsIp` for the two outcomes of the threshold);
a merge moves accesses between two sets whose union the ledger is (`SameBook`); the last step of the
exit writes what is entered, because no thread holds anything by then.

`CutLosesNothing` holds for every class of each access, percentage and width of floats, because what is cut is merged:
its proof compares the entries of the map with those instructions have in the profile, and never looks into the
rounding. Counters are numbers only when finitely many accesses were made (`FinitelyMade`, inductive by itself, no bound assumed).

### CpuFlatCacheProofs

Any number of rows, associativity and age limit with
`Associativity < AgeLimit`, any set of lines.

* `TypeCorrect`, `AgesOrderByLastUse` (`Spec => []AgesAreRecency`).
* `ImplementsLru`: `Spec => LruSpec`.
* `LoopGivesRanks`: for every row of distinct ages the loop computes their ranks.
* `LoopScales`: `Spec => []LoopComputesRanks`.

Here `IInv` says how the ages encode the history: what was used since the line of an entry
is what the younger entries hold (`SinceIsYounger`), and a used line in
no entry has at least `Associativity` others after it (`EvictedIsFar`). A
hit is then a line with fewer than `Associativity` since its last use, which is LRU. The
scaling down enters through one lemma: ranks keep the order of distinct ages and
are below `Associativity`.

The loop is proved turn by turn: after `n` turns the entries of rank below `n` have their rank
and the others their age. An age is at least its rank, so that an entry already renumbered
is never the one the next turn finds.

### AllocShadowProofs

Any number of threads, pages, grains, mutexes and maps, any set of blocks.

* `TypeCorrect`: `Spec => []TypeOK`, with or without `QuickReuse` and `InPlaceRemap`.
* `LookupsAreExact`, `PointersLead`, `ReportsComeFromRace`, `MapsAreAccounted`: without `QuickReuse` and
  `InPlaceRemap`, and with `NoEmptyStart`, `Spec` implies `[]LookupExact`, `[]NoWildPointer`,
  `[]ReportsFollowRace` and `[]MapsAccounted`.

The first two assumptions are those of the run; `remap_in_place`, and `QuickReuse` as said above, are
the counterexamples. `NoEmptyStart`, no block of size 0 starts a page, excludes
the case under "Not modelled", where the code registers a whole page for nothing.

`ShadowInv` has five parts. `EnvInv` is what the program and the kernel keep to: live
blocks are apart and mapped, a block is allocated or freed by one thread, and nothing under access or in use
is unmapped. `LoopInv` is where a thread is in the pages of its block, with
the mutex held between the test and the publication of a map, and that a page a block was
given up in is one its thread has passed (`LostInv`).
`StepInv` says that what a thread has read of a page still stands when it uses it: the status, the map,
the block found. `TableInv` is the table itself: every page that no
thread is overwriting has the blocks registered in it, and besides at most grains of a `MallocInfos` that stayed
(`TableExact`), its map belongs to it
alone (`MapsApart`), and every map to some page (`MapsReached`). `StepInv` cannot rest on the mutex,
which lookups do not take: it holds because nobody frees or unmaps what is accessed, and a page in fragments
stays so until it is unmapped or given to a block that covers all of it, in which no other block has a grain. `CauseInv` is about the race: no block
is given up and no `MallocInfos` stays before it has been reported. The step that needs it is a thread that finds
a page FULL or an entry taken: what is there is no block of the program, so it stayed.

### PageNumaProofs

Any number of threads (finite), nodes, pages, and pages in a huge page.

* `TypeCorrect`, `CallsKeepApart`: whatever the program does, the types, and that hooks
  of `munmap` and `mremap` under way and accesses have no page in common.
* `NodesAreKernels`, `CountersCoverPages`, `CountersDoNotWrap`: without `BindTouched` and
  `UnmapAnytime`, `Spec` implies `[]NodeIsKernels`, `[]CountersCover` and `[]NoUnderflow`.

`IInv` adds to the invariants of the run that the node a first touch has read is still the
kernel's for every page it will set (`NodeFound`), that `mremap` takes nodes to the
pages the kernel took the memory to (`NodeMoves`), and that the counter of a node already covers the recorded
pages that no first touch is about to add (`CountsUnclaimed`): two threads may set the same page before either has added it.
Both assumptions are necessary: `BindTouched` breaks `CountersCover` and `UnmapAnytime` breaks
`NodeIsKernels`, as said above.

### ThreadBindingProofs

Any number of threads, ids, masks, CPUs, nodes and accesses, with and without batches, ids recycled or not.

* `AffinityIsNodeOfMask`: `getNumaAffinity`, which folds the CPUs in order, gives the node that has all of them, or none.
* `TypeCorrect`: `Spec => []TypeOK`.
* `BindingFollowsKernel`: `Spec => []BindingIsKernels`.
* `LogIsComplete`: `Spec => []LogEndsWithBinding`.
* `AccessIsClassified`: `Spec => []AccessClassified`.

`IInv` relates the place of each thread to its call (`InHook`), the trackers to the threads they
were made for (`Tracked`) and the tracker a call has found to its target (`BindsTarget`). A
log that does not end with the node has a thread about to log it, with
`bindingLogMutex` held (`LogFollows`). A call on a thread that no other call
overlapped is the only one on it from end to end, and from its `bind` on the tracker has the node of its mask (`AloneBinds`).
`SeenCovers` keeps, for each place in `onAccessHandling`, that
what was read so far was the binding at some moment of this access.

### PageDirectoriesProofs

Any number of threads, addresses and entries of a
directory; `PathAssumption`: two addresses differ in an index, and the root is a
directory.

* `DirTypeCorrect`: `DirSpec => []DirTypeOK`.
* `ImplementsPageMap`: `DirSpec => PageMapSpec`.

`IInv` (theorem `Inductive`) has three parts beside the types. The directories are a tree
(`IsTree`): two walks that part never meet, so two addresses have two
pages. A thread is where the path of its address leads (`OnPath`). And a thread about to
write an entry holds the mutex and sees the entry empty (`Locked`), which is what the second
test is for: without it an entry, and every page below, would be replaced under
the threads that have it. Then `getPage` asks, the step that reaches the
page answers, `create` may give addresses pages, and the other steps change
nothing `PageMap` sees (`NextRefines`).

### AllocHooksProofs

Any number of threads, blocks, sizes and programs, any TLB.

* `TypeCorrect`: `Spec => []TypeOK`.
* `NothingDangles`: `Spec => []NoDanglingInfos`.
* `HooksUsePageMap`: `Spec => PageMapSpec`, by `Spec => DirSpec` and `ImplementsPageMap`.
* `AccessesFindOwners`: `Spec => []AccessFindsOwner`.

`HInv` is about descriptors: which call a thread is in (`Phases`), that a walk goes to the page
that is read or written after it (`Walks`), that what `ThreadData` remembers is of this call
(`DataKept`), that the blocks threads hold are apart (`HeldApart`), that an entry is of an extent
its descriptor has (`EntriesTrue`), and that one that is given up has no entry
outside of the pages still to be cleared (`Clears`). A page may refuse, so `Clears` needs that it does not refuse to be
cleared: a page with an entry is FULL if it is in the middle of the extent of its descriptor and FRAG if not
(`StatusTrue`), and a page that was not FRAG when it was first tested has no entry of what is given up (`Tests`). `OwnerInv` adds
what is registered for each block: all of its grains lead to one descriptor, of the right site (`OwnedKnown`), or, while it is
registered or given up, those not yet written (`HeldKnown`); where no
block is nothing is registered (`FreeUnknown`), which is what lets the next owner of the memory
start from nothing; and a line of the TLB has the page of its address (`LinesTrue`).

### SymbolRegistryProofs

Any set of sites, map of the process, names, and answers of `addr2line` and `backtrace_symbols`.

* `TypeCorrect`, `NamesKeptOnce`, `BinariesAreOwn`, `SitesAreNamed`: `Spec` implies `[]TypeOK`, `[]NamesOnce`,
  `[]BinaryIsOwn` and `[]EverySiteIsNamed`, with or without `removeSmall`.
* `NamesArePaired`: without `removeSmall`, `Spec => []NamesPaired`.

`RegistryInv` says of each call site, before `solveMissings`, that its line contains it, that its
function is `??` or the one `addr2line` has for it, and that its binary is `??` or the file of a line that contains
it (`Known`). It stays so when names are added, because ids only
lead further into a list that grows (`Extends`). The answers are taken one by one (`AnswersKeep`): each is for a
site of the line, and those lines are above `NUMAPROF_OTHERS`. The two walks of
`solveMissings` see the same sites unresolved when there is no `NUMAPROF_OTHERS`, and then the
n-th symbol goes to the n-th site (`PairsKeep`); with it the second list is a part of the first, which still
names every site, but not with its name: `symbols_others` is the counterexample.

### Induction over data

The theorems of the library about induction take an operator as a parameter, which
the installed provers cannot instantiate. Where a loop is proved here (the mask, the scaling,
the answers, the symbols), the recursion is a recursive function and the induction a least
counterexample: `LeastNatural`, which follows from the well-foundedness of strict
inclusion among finite sets (`SmallestSubset`). The modules that need these two lemmas each state
them, as they have no module in common that declares no variables.

### Model-checked only

Liveness is out of the reach of the prover: `EveryHookReturns`, under the fairness stated
above. That the assumptions on the constants can be met, and that the actions can
happen at all, is also what the runs show and the theorems do not.

## Not modelled

`PROJECT.json` gives the reason for each component. In short: the text of the
profile, options and views have no state worth checking; the maps of the
topology are read once. The cache model assumes an associativity below
the age limit, which the code does not check. Most lines of the
repository are vendored (`extern-deps`: googletest, jsoncpp, iniparser, and parts of
htopml and MALT) and have no model.

Call stacks are out: no build of the sources makes them. The macro is commented out
(`lib/core/Stats.hpp:13`), the calls that fill a stack are installed under another
name (`src/integration/pintool/numaprof.cpp:1093`), and `removeSmall` does not compile with a
`MiniStack` as key (`lib/core/ProcessTracker.cpp:376`).

Two things were read and need no model to be seen. `regAllocPointer` registers a block of
size 0 at the start of a page over the whole page: its last address
is in the page before, so the test "fits in one page" fails (`lib/core/PageTable.cpp:343`).
And a call site that `addr2line` was not asked about, as those of `[vdso]`, is written with -1
as the id of its binary (`extern-deps/from-malt-v2/SymbolRegistry.cpp:427`), which the views take for an index.

## Plan

Every component the plan of this project named is modelled, and every invariant, refinement
and action property that a passing run checks is a theorem. What is left:

1. the safety half of `EveryHookReturns`, that without batches no thread waits for a lock
   whose holder waits, as an invariant of `ThreadBinding` with a proof;
2. what holds of the cases that the theorems exclude: which accesses recycled ids
   lose, which sites keep their names with `removeSmall`;
3. to model: `fromPinnedThread` and the emulated NUMA mode in `PageNuma`, then the access matrix.
