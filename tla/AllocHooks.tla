----------------------------- MODULE AllocHooks -----------------------------
(***************************************************************************)
(* The hooks of the Pin driver around the allocator (numaprof.cpp), with   *)
(* what they call: MallocTracker, the registration of blocks in the pages  *)
(* PageTable::getPage returns (PageDirectories), and the look-up of an     *)
(* accessed address through the TLB of the thread (StaticAssoCache).       *)
(*                                                                         *)
(* The program, its allocator and the C++ library are the environment: a   *)
(* function runs between its two hooks, any of them may fail, and other    *)
(* threads call others meanwhile.  Addresses and sizes are in grains.      *)
(*                                                                         *)
(* A page is in fragments, full or neither, and takes or refuses what is   *)
(* registered in it accordingly.  Its status and its grains are written in *)
(* one step, but for the first test of the status; the steps in between,   *)
(* with the maps and their mutexes, are modelled by AllocShadow.           *)
(***************************************************************************)
EXTENDS PageDirectories, Integers, Sequences

CONSTANTS
    Block,      \* what may be allocated: records of a base and a size
    Grains,     \* grains in a page: 512 in the code
    IntLimit,   \* the sizes from which on an int is negative: 2^31 in the code
    Infos,      \* the memory of MallocInfos
    ways, rows, \* of the TLB
    Programs,   \* what the threads may call, in order
    LibSite     \* the call site of malloc in operator new

ASSUME HooksAssumption ==
    /\ Address \subseteq Nat
    /\ Grains \in Nat \ {0}
    /\ Block \subseteq [base : Nat \ {0}, size : Nat \ {0}]
    /\ IntLimit \in Nat \ {0}
    /\ None \notin Infos /\ None \notin Block
    /\ ways \in Nat \ {0} /\ rows \in Nat \ {0}
    /\ Programs \subseteq [Thread -> Seq({"malloc", "new", "realloc", "free",
                                         "aligned_alloc", "access"})]

TLB == INSTANCE StaticAssoCache WITH NULL <- None

PageOf(g) == g \div Grains
GrainsOf(b) == b.base .. b.base + b.size - 1
Grain == UNION {GrainsOf(b) : b \in Block}
Size == {b.size : b \in Block}
Offset == 0 .. Grains - 1

(* Every call of the program is made from its own call site.               *)
Site == UNION {{<<t, n>> : t \in Thread, n \in DOMAIN p[u]} :
                   p \in Programs, u \in Thread}

(* A call site, and the address of a MallocInfos, is not NULL.             *)
ASSUME NoneAssumption ==
    /\ None \notin Site
    /\ None \notin [ptr : Nat, size : Int, site : Site \cup {LibSite}]

(* A size kept in ThreadData::allocSize, and made a size_t again: negative *)
(* when it does not fit.                                                   *)
toInt(size) == ((size + IntLimit) % (2 * IntLimit)) - IntLimit

VARIABLES
    data,     \* ThreadData of each thread
    infos,    \* the MallocInfos that exist
    alloc,    \* of each page and grain, the MallocInfos it is registered for
    status,   \* Page::allocStatus: NONE, FULL or FRAG
    tlb,      \* ThreadTracker::tlb
    pc,       \* what each thread does next
    call,     \* the function it is in, for the program
    reg,      \* the arguments of regAllocPointer
    todo,     \* the pages it has yet to write
    tested,   \* was the first of them not FRAG in its first test?
    found,    \* the MallocInfos of the address looked up
    live,     \* environment: the blocks the allocator has given away
    owned,    \* environment: those the program may use
    program,  \* environment: what each thread calls, in order
    made,     \* how many of its calls it has made
    due,      \* history: of each block, the sites it may be counted to
    thrown,   \* history: sites of the news that threw since one returned
    lost      \* history: grains the hooks were told something wrong about, and
              \* those of a block that a page has refused

pageVars == <<alloc, status, tested>>
toolVars == <<data, infos, pageVars, tlb, reg, todo, found>>
envVars == <<live, owned, program, made>>
histVars == <<due, thrown, lost>>
hookVars == <<data, infos, alloc, status, tlb, pc, call, reg, todo, tested, found,
              live, owned, program, made, due, thrown, lost>>
vars == <<entries, used, mutex, want, depth, at, walk, data, infos, alloc, status,
          tlb, pc, call, reg, todo, tested, found, live, owned, program, made, due,
          thrown, lost>>

NoCall == [op |-> "none"]
NoReg == [base |-> 0, size |-> 0, value |-> None]

TypeOK ==
    /\ DirTypeOK
    /\ data \in [Thread -> [allocSize : -IntLimit .. IntLimit - 1,
                            allocCallsite : Site \cup {LibSite, None},
                            newCallsite : Site \cup {None}]]
    /\ infos \in [Infos -> {None} \cup
           [ptr : Grain \cup {0}, size : -IntLimit .. IntLimit - 1,
            site : Site \cup {LibSite}]]
    /\ alloc \in [Dir \X Index -> [Offset -> Infos \cup {None}]]
    /\ status \in [Dir \X Index -> {"NONE", "FULL", "FRAG"}]
    /\ tlb \in [Thread ->
           [line : [TLB!Row -> [TLB!Way -> [addr : Address \cup {None},
                                            content : (Dir \X Index) \cup {None}]]],
            next : [TLB!Row -> TLB!Way]]]
    /\ pc \in [Thread -> {"idle", "infos", "set", "delete", "real", "after",
                          "return", "tlb", "walk", "found"}]
    /\ call \in [Thread -> {NoCall} \cup
           [op : {"malloc", "new", "realloc", "free", "aligned_alloc", "access"},
            size : Size \cup {0}, site : Site, old : Block \cup {None},
            ret : Block \cup {None}, grain : Grain \cup {0}]]
    /\ reg \in [Thread -> [base : Grain \cup {0}, size : -IntLimit .. IntLimit - 1,
                           value : Infos \cup {None}]]
    /\ todo \in [Thread -> SUBSET Address]
    /\ tested \in [Thread -> BOOLEAN]
    /\ found \in [Thread -> Infos \cup {None}]
    /\ live \in SUBSET Block /\ owned \in SUBSET live
    /\ program \in Programs
    /\ made \in [Thread -> Nat]
    /\ \A t \in Thread : made[t] <= Len(program[t])
    /\ due \in [Block -> SUBSET (Site \cup {LibSite})]
    /\ thrown \in [Thread -> SUBSET Site]
    /\ lost \in SUBSET Grain

Init ==
    /\ DirInit
    /\ data = [t \in Thread |->
                  [allocSize |-> 0, allocCallsite |-> None, newCallsite |-> None]]
    /\ infos = [i \in Infos |-> None]
    /\ alloc = [p \in Dir \X Index |-> [o \in Offset |-> None]]
    /\ status = [p \in Dir \X Index |-> "NONE"]
    /\ tlb = [t \in Thread |-> TLB!flush]
    /\ pc = [t \in Thread |-> "idle"]
    /\ call = [t \in Thread |-> NoCall]
    /\ reg = [t \in Thread |-> NoReg]
    /\ todo = [t \in Thread |-> {}]
    /\ tested = [t \in Thread |-> FALSE]
    /\ found = [t \in Thread |-> None]
    /\ live = {}
    /\ owned = {}
    /\ program \in Programs
    /\ made = [t \in Thread |-> 0]
    /\ due = [b \in Block |-> {}]
    /\ thrown = [t \in Thread |-> {}]
    /\ lost = {}

Goto(t, label) == pc' = [pc EXCEPT ![t] = label]

Return(t) ==
    /\ Goto(t, "idle")
    /\ call' = [call EXCEPT ![t] = NoCall]

Caller(t) == <<t, made[t] + 1>>

Call(t, op, size, old, grain) ==
    /\ pc[t] = "idle"
    /\ made[t] < Len(program[t])
    /\ program[t][made[t] + 1] = op
    /\ made' = [made EXCEPT ![t] = @ + 1]
    /\ call' = [call EXCEPT ![t] = [op |-> op, site |-> Caller(t), size |-> size,
                                   old |-> old, ret |-> None, grain |-> grain]]
    /\ UNCHANGED program

SetData(t, size, site) ==
    data' = [data EXCEPT ![t].allocSize = toInt(size), ![t].allocCallsite = site]

(* The block the allocator returned, also where the hooks see an address.  *)
Base(b) == IF b = None THEN 0 ELSE b.base

(* The blocks accesses under way read from.                                *)
Accessed ==
    {b \in Block : \E t \in Thread :
        call[t] # NoCall /\ call[t].op = "access" /\ call[t].grain \in GrainsOf(b)}

-----------------------------------------------------------------------------
(* The hooks before the functions.  calloc has the hooks of malloc, with   *)
(* the product of its arguments; every operator new, also that of arrays,  *)
(* calls malloc.  aligned_alloc and its kin have no hook.                  *)

malloc(t, size) ==
    /\ Call(t, "malloc", size, None, 0)
    /\ SetData(t, size, Caller(t))
    /\ Goto(t, "real")
    /\ UNCHANGED <<dirVars, infos, pageVars, tlb, reg, todo, found, live, owned, histVars>>

(* The hook of malloc follows; the first new of a chain names the caller.  *)
beforeNew(t, size) ==
    /\ Call(t, "new", size, None, 0)
    /\ data' = [data EXCEPT ![t] =
           [allocSize |-> toInt(size), allocCallsite |-> LibSite,
            newCallsite |-> IF @.newCallsite = None THEN Caller(t) ELSE @.newCallsite]]
    /\ Goto(t, "real")
    /\ UNCHANGED <<dirVars, infos, pageVars, tlb, reg, todo, found, live, owned, histVars>>

aligned_alloc(t, size) ==
    /\ Call(t, "aligned_alloc", size, None, 0)
    /\ Goto(t, "real")
    /\ UNCHANGED <<dirVars, toolVars, live, owned, histVars>>

(* MallocTracker::onFree starts with the page of the block, for NULL it    *)
(* returns.                                                                *)
onFree(t, b) ==
    IF b = None THEN Goto(t, "real") /\ UNCHANGED dirVars
    ELSE getPage(t, PageOf(b.base)) /\ Goto(t, "infos")

(* The hook gives up the block before realloc has run.                     *)
beforeRealloc(t, b, size) ==
    /\ b = None \/ b \in owned \ Accessed
    /\ Call(t, "realloc", size, b, 0)
    /\ owned' = owned \ {b}
    /\ SetData(t, size, Caller(t))
    /\ onFree(t, b)
    /\ UNCHANGED <<infos, pageVars, tlb, reg, todo, found, live, histVars>>

beforeFree(t, b) ==
    /\ b \in owned \ Accessed
    /\ Call(t, "free", 0, b, 0)
    /\ owned' = owned \ {b}
    /\ onFree(t, b)
    /\ UNCHANGED <<toolVars, live, histVars>>

-----------------------------------------------------------------------------
(* MallocTracker::onFree and PageTable::regAllocPointer.                   *)

(* The grains regAllocPointer writes: the first page of the range, those   *)
(* up to the page it ends in, and that page up to the end.  This is the    *)
(* whole range, unless the size is negative.                               *)
Written(base, size) ==
    LET end == base + size
        first == PageOf(base)
        last == PageOf(end)
    IN  IF first = PageOf(end - 1) /\ size \in 0 .. Grains - 1
        THEN base .. end - 1
        ELSE (base .. (first + 1) * Grains - 1)
             \cup ((first + 1) * Grains .. last * Grains - 1)
             \cup (last * Grains .. end - 1)

(* The table has pages for what the hooks are given, also when a size did   *)
(* not fit.                                                                *)
ASSUME AddressAssumption ==
    /\ \A g \in Grain : PageOf(g) \in Address
    /\ \A b \in Block : \A g \in Written(b.base, toInt(b.size)) : PageOf(g) \in Address

(* The pages are written in order, that of the base first, each after a    *)
(* walk to it; no page is when the size, as an int, is 0.  A negative size *)
(* may end in the page of the base: its two portions are then written in   *)
(* one step.                                                               *)
First(base, pages) ==
    IF PageOf(base) \in pages THEN PageOf(base)
    ELSE CHOOSE p \in pages : \A q \in pages : p <= q

Registered(value) == IF value = None THEN "delete" ELSE "return"

regAllocPointer(t, base, size, value) ==
    LET pages == {PageOf(g) : g \in Written(base, size)}
    IN  IF pages = {} THEN Goto(t, Registered(value)) /\ UNCHANGED <<dirVars, reg, todo>>
        ELSE /\ reg' = [reg EXCEPT ![t] = [base |-> base, size |-> size, value |-> value]]
             /\ todo' = [todo EXCEPT ![t] = pages]
             /\ getPage(t, First(base, pages))
             /\ Goto(t, "set")

(* Mutant: the last grain is forgotten.                                    *)
FreedSizeLess(i) == infos[i].size - 1

FreedSize(i) == infos[i].size

(* The block is given up when the address is that of a registered block.   *)
(* History: one that is not found, for its address is lost, is lost whole. *)
freeAllocPointer(t) ==
    LET base == call[t].old.base
        i == alloc[PageAt(t)][base % Grains]
    IN  /\ pc[t] = "infos"
        /\ walk[t] = "done"
        /\ IF i = None \/ infos[i].ptr # base
           THEN /\ Goto(t, "real")
                /\ lost' = IF base \in lost THEN lost \cup GrainsOf(call[t].old)
                                            ELSE lost
                /\ UNCHANGED <<dirVars, reg, todo, found>>
           ELSE /\ regAllocPointer(t, base, FreedSize(i), None)
                /\ found' = [found EXCEPT ![t] = i]
                /\ UNCHANGED lost
        /\ UNCHANGED <<data, infos, pageVars, tlb, call, envVars, due, thrown>>

(* History: what is written for grains the block does not have is wrong,   *)
(* and what is not written for those it has is missing.                    *)
TrueGrains(t) ==
    IF reg[t].value = None THEN GrainsOf(call[t].old) ELSE GrainsOf(call[t].ret)

(* The page regAllocPointer is at.                                         *)
Current(t) == First(reg[t].base, todo[t])

(* The pages between the first one and the one a block ends in.            *)
Between(base, size, p) == PageOf(base) < p /\ p < PageOf(base + size)

IsMiddle(t) == Between(reg[t].base, reg[t].size, Current(t))

(* regAllocPointerSmall, for a page that is not in the middle, tests the   *)
(* status up to three times without the lock.  First: is it FRAG?          *)
regAllocPointerSmall(t) ==
    /\ pc[t] = "set"
    /\ walk[t] = "done"
    /\ ~IsMiddle(t) /\ ~tested[t]
    /\ status[PageAt(t)] # "FRAG"
    /\ tested' = [tested EXCEPT ![t] = TRUE]
    /\ UNCHANGED <<dirVars, data, infos, alloc, status, tlb, pc, call, reg, todo,
                   found, envVars, histVars>>

(* The page takes what is registered in it: a full page what empties it,   *)
(* and any other what makes it full; and fragments one that is, or turns   *)
(* out to be, in fragments, or is still not used.                          *)
Accepts(t) ==
    IF IsMiddle(t)
    THEN reg[t].value = None <=> status[PageAt(t)] = "FULL"
    ELSE status[PageAt(t)] = "FRAG" \/ (tested[t] /\ status[PageAt(t)] = "NONE")

(* It is left as it is, with a message: one that is FULL, or not, against  *)
(* the expectation, or FRAG by now, after the first test.                  *)
Refuses(t) ==
    IF IsMiddle(t)
    THEN reg[t].value = None <=> status[PageAt(t)] # "FULL"
    ELSE tested[t] /\ status[PageAt(t)] # "NONE"

writePage(t, grains) ==
    LET p == Current(t)
        becomes == IF ~IsMiddle(t) THEN "FRAG"
                   ELSE IF reg[t].value = None THEN "NONE" ELSE "FULL"
    IN  /\ alloc' = [alloc EXCEPT ![PageAt(t)] = [o \in Offset |->
                         IF p * Grains + o \in grains THEN reg[t].value ELSE @[o]]]
        /\ status' = [status EXCEPT ![PageAt(t)] = becomes]
        /\ lost' = (lost \ (grains \cap TrueGrains(t)))
                   \cup (Grain \cap (grains \ TrueGrains(t)))

leavePage(t, grains) ==
    /\ lost' = IF reg[t].value = None THEN lost ELSE lost \cup (grains \cap TrueGrains(t))
    /\ UNCHANGED <<alloc, status>>

setPage(t) ==
    LET p == Current(t)
        left == todo[t] \ {p}
        grains == {g \in Written(reg[t].base, reg[t].size) : PageOf(g) = p}
    IN  /\ pc[t] = "set"
        /\ walk[t] = "done"
        /\ \/ Accepts(t) /\ writePage(t, grains)
           \/ Refuses(t) /\ leavePage(t, grains)
        /\ todo' = [todo EXCEPT ![t] = left]
        /\ tested' = [tested EXCEPT ![t] = FALSE]
        /\ IF left # {}
           THEN getPage(t, First(reg[t].base, left)) /\ UNCHANGED <<pc, reg>>
           ELSE /\ Goto(t, Registered(reg[t].value))
                /\ reg' = [reg EXCEPT ![t] = NoReg]
                /\ UNCHANGED dirVars
        /\ UNCHANGED <<data, infos, tlb, call, found, envVars, due, thrown>>

(* The end of onFree.                                                      *)
deleteInfos(t) ==
    /\ pc[t] = "delete"
    /\ infos' = [infos EXCEPT ![found[t]] = None]
    /\ found' = [found EXCEPT ![t] = None]
    /\ Goto(t, "real")
    /\ UNCHANGED <<dirVars, data, pageVars, tlb, call, reg, todo, envVars, histVars>>

-----------------------------------------------------------------------------
(* The function itself, and the hook after it.                             *)

(* The blocks of a size the allocator may give, when it keeps some.        *)
Free(size, kept) ==
    {b \in Block \ Accessed : b.size = size /\
        \A c \in kept : GrainsOf(b) \cap GrainsOf(c) = {}}

(* The allocator; realloc keeps the old block when it fails, and may have  *)
(* put the new one over it when it does not.                               *)
real(t) ==
    LET c == call[t]
        kept == live \ {c.old}
    IN  /\ pc[t] = "real"
        /\ c.op # "free"
        /\ \/ /\ \E b \in Free(c.size, kept) :
                    /\ live' = kept \cup {b}
                    /\ call' = [call EXCEPT ![t].ret = b]
              /\ UNCHANGED <<owned, lost>>
           \/ /\ owned' = owned \cup ({c.old} \ {None})
              /\ lost' = IF c.old = None THEN lost ELSE lost \cup GrainsOf(c.old)
              /\ UNCHANGED <<live, call>>
        /\ Goto(t, IF c.op = "aligned_alloc" THEN "return" ELSE "after")
        /\ UNCHANGED <<dirVars, toolVars, program, made, due, thrown>>

free(t) ==
    /\ pc[t] = "real"
    /\ call[t].op = "free"
    /\ live' = live \ {call[t].old}
    /\ Return(t)
    /\ UNCHANGED <<dirVars, toolVars, owned, program, made, histVars>>

(* Mutant: the site of operator new is not looked at.                      *)
SiteOfMalloc(t) == data[t].allocCallsite

(* malloc in operator new is counted to the caller of operator new; the    *)
(* hook after realloc does not ask.                                        *)
SiteOf(t) ==
    IF call[t].op = "realloc" \/ data[t].newCallsite = None
    THEN data[t].allocCallsite ELSE data[t].newCallsite

NewInfos == CHOOSE i \in Infos : infos[i] = None

(* afterMalloc and afterRealloc: MallocTracker::onAlloc makes the          *)
(* MallocInfos, and regAllocPointer does nothing with NULL.                *)
onAlloc(t) ==
    LET c == call[t]
        base == Base(c.ret)
    IN  /\ pc[t] = "after"
        /\ \E i \in Infos : infos[i] = None
        /\ infos' = [infos EXCEPT ![NewInfos] =
               [ptr |-> base, size |-> data[t].allocSize, site |-> SiteOf(t)]]
        /\ IF c.ret = None
           THEN Goto(t, "return") /\ UNCHANGED <<dirVars, reg, todo, due, lost>>
           ELSE /\ regAllocPointer(t, base, data[t].allocSize, NewInfos)
                /\ due' = [due EXCEPT ![c.ret] =
                       {c.site} \cup IF c.op = "realloc" THEN {} ELSE thrown[t]]
                /\ lost' = lost \cup (GrainsOf(c.ret)
                                      \ Written(base, data[t].allocSize))
        /\ UNCHANGED <<data, pageVars, tlb, call, found, envVars, thrown>>

(* The function returns to the program; operator new runs its last hook,   *)
(* or throws, and the hook does not run.                                   *)
return(t) ==
    LET c == call[t]
        Hooked == data' = [data EXCEPT ![t].newCallsite = None]
                  /\ thrown' = [thrown EXCEPT ![t] = {}]
        Throws == thrown' = [thrown EXCEPT ![t] = @ \cup {c.site}] /\ UNCHANGED data
    IN  /\ pc[t] = "return"
        /\ owned' = owned \cup ({c.ret} \ {None})
        /\ due' = IF c.op = "aligned_alloc" /\ c.ret # None
                  THEN [due EXCEPT ![c.ret] = {}] ELSE due
        /\ CASE c.op # "new" -> UNCHANGED <<data, thrown>>
             [] c.op = "new" /\ c.ret # None -> Hooked
             [] OTHER -> Hooked \/ Throws
        /\ Return(t)
        /\ UNCHANGED <<dirVars, infos, pageVars, tlb, reg, todo, found, live, program, made, lost>>

-----------------------------------------------------------------------------
(* An access: the part of onAccessHandling that finds the block.           *)

onAccess(t, g) ==
    /\ \A b \in live \ owned : g \notin GrainsOf(b)
    /\ Call(t, "access", 0, None, g)
    /\ Goto(t, "tlb")
    /\ UNCHANGED <<dirVars, toolVars, live, owned, histVars>>

(* Mutant: a line answers for every address of its row.                    *)
TlbRow(t, a) == tlb[t].line[a % rows][0].content

TlbGet(t, a) == TLB!get(tlb[t], a)

getAllocPointer(t, p) ==
    /\ found' = [found EXCEPT ![t] = alloc[p][call[t].grain % Grains]]
    /\ Goto(t, "found")

tlbLookup(t) ==
    LET a == PageOf(call[t].grain)
        p == TlbGet(t, a)
    IN  /\ pc[t] = "tlb"
        /\ IF p # None
           THEN getAllocPointer(t, p) /\ UNCHANGED dirVars
           ELSE getPage(t, a) /\ Goto(t, "walk") /\ UNCHANGED found
        /\ UNCHANGED <<data, infos, pageVars, tlb, reg, todo, call, envVars, histVars>>

tlbSet(t) ==
    /\ pc[t] = "walk"
    /\ walk[t] = "done"
    /\ tlb' = [tlb EXCEPT ![t] = TLB!set(@, want[t], PageAt(t))]
    /\ getAllocPointer(t, PageAt(t))
    /\ UNCHANGED <<dirVars, data, infos, pageVars, reg, todo, call, envVars, histVars>>

counted(t) ==
    /\ pc[t] = "found"
    /\ Return(t)
    /\ found' = [found EXCEPT ![t] = None]
    /\ UNCHANGED <<dirVars, data, infos, pageVars, tlb, reg, todo, envVars, histVars>>

-----------------------------------------------------------------------------
Step(t) ==
    \/ freeAllocPointer(t) \/ regAllocPointerSmall(t) \/ setPage(t) \/ deleteInfos(t)
    \/ real(t) \/ free(t) \/ onAlloc(t) \/ return(t)
    \/ tlbLookup(t) \/ tlbSet(t) \/ counted(t)
    \/ Walk(t) /\ UNCHANGED hookVars

Act(t) ==
    \/ \E size \in Size : malloc(t, size) \/ beforeNew(t, size)
                           \/ aligned_alloc(t, size)
    \/ \E b \in Block \cup {None}, size \in Size : beforeRealloc(t, b, size)
    \/ \E b \in Block : beforeFree(t, b)
    \/ \E g \in Grain : onAccess(t, g)

Stopped ==
    /\ \A t \in Thread : pc[t] = "idle"
    /\ UNCHANGED vars

Next == (\E t \in Thread : Step(t) \/ Act(t)) \/ Stopped

Spec == Init /\ [][Next]_vars

-----------------------------------------------------------------------------
(* Properties.                                                             *)

(* An access is counted to the call that allocated the block it touches,   *)
(* in whichever thread, and to none when no registered block is there:     *)
(* operator new hides malloc, realloc moves a block to its caller, memory  *)
(* that is freed and allocated again changes hands.  Three things are      *)
(* excused: grains the hooks were told wrong about (a failed realloc, a    *)
(* size that does not fit an int), those in a page that refused the block, *)
(* and the site of a new that threw, which later mallocs are counted to    *)
(* until a new returns.                                                    *)
AccessFindsOwner ==
    \A t \in Thread : pc[t] = "found" /\ call[t].grain \notin lost =>
        LET i == found[t]
            owner == {b \in owned : call[t].grain \in GrainsOf(b) /\ due[b] # {}}
        IN  IF owner = {} THEN i = None
            ELSE \E b \in owner :
                    /\ i # None /\ infos[i] # None
                    /\ infos[i].ptr = b.base /\ infos[i].site \in due[b]

(* No entry of the page table leads to a MallocInfos that was deleted,     *)
(* also when blocks are registered over one another.                       *)
NoDanglingInfos ==
    \A p \in DOMAIN alloc, o \in Offset :
        alloc[p][o] # None => infos[alloc[p][o]] # None

=============================================================================
