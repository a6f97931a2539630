-------------------------- MODULE AllocHooksProofs --------------------------
(***************************************************************************)
(* Proofs about AllocHooks, for any number of threads, any blocks, sizes,  *)
(* programs, pages and geometry of the TLB: the types; that no entry of    *)
(* the page table leads to a MallocInfos that was deleted; that the hooks  *)
(* use the directories as PageDirectories says, and thus PageMap; and that *)
(* an access is counted to the call that allocated the block.              *)
(*                                                                         *)
(* The proof has two invariants.  HInv is about the MallocInfos and the    *)
(* entries: who works on which, what an entry leads to, and which status   *)
(* its page has, so that no page refuses to give up what it has.  OwnerInv *)
(* adds what is registered for the grains of every block, whoever has it.  *)
(***************************************************************************)
EXTENDS AllocHooks, PageDirectoriesProofs, FiniteSetTheorems

(* The variables of the pages are seen in every UNCHANGED of them.         *)
USE DEF pageVars

-----------------------------------------------------------------------------
(* Among finite sets there is one that contains no other: the form of      *)
(* induction on their size that is used here.                              *)
LEMMA SmallestSubset ==
    ASSUME NEW S, NEW T, T # {}, \A U \in T : U \subseteq S /\ IsFiniteSet(U)
    PROVE  \E U \in T : \A V \in T : V \subseteq U => V = U
<1>1. T \subseteq FiniteSubsetsOf(S)
  BY DEF FiniteSubsetsOf
<1>2. PICK U \in T : \A V \in T : ~ (<<V, U>> \in StrictSubsetOrdering(S))
  <2> HIDE DEF StrictSubsetOrdering, FiniteSubsetsOf
  <2> QED BY <1>1, FS_StrictSubsetOrderingWellFounded, WFMin
<1> QED
  BY <1>2 DEF StrictSubsetOrdering

(* A set of naturals that is not empty has a least element.                *)
LEMMA LeastNatural ==
    ASSUME NEW T \in SUBSET Nat, T # {}
    PROVE  \E n \in T : \A m \in T : n <= m
<1> DEFINE Below == {0 .. n - 1 : n \in T}
<1>1. \A U \in Below : U \subseteq Nat /\ IsFiniteSet(U)
  <2> TAKE U \in Below
  <2>1. PICK n \in T : U = 0 .. n - 1
    OBVIOUS
  <2>2. 0 \in Int /\ n - 1 \in Int
    OBVIOUS
  <2> QED BY <2>1, <2>2, FS_Interval
<1>2. Below # {}
  OBVIOUS
<1>3. PICK U \in Below : \A V \in Below : V \subseteq U => V = U
  <2> HIDE DEF Below
  <2> QED BY <1>1, <1>2, SmallestSubset
<1>4. PICK n \in T : U = 0 .. n - 1
  OBVIOUS
<1>5. ASSUME NEW m \in T, m < n PROVE FALSE
  <2>1. 0 .. m - 1 \in Below /\ 0 .. m - 1 \subseteq U
    BY <1>4, <1>5
  <2>2. m \in U
    BY <1>4, <1>5
  <2>3. m \notin 0 .. m - 1
    BY <1>4
  <2> QED BY <1>3, <2>1, <2>2, <2>3
<1> QED
  BY <1>5

(* The addresses the page table has pages for, and the MallocInfos an      *)
(* address is registered for: none where there is no page yet.             *)
Memory == {g \in Nat : PageOf(g) \in Address}

InfosAt(g) ==
    IF PageOf(g) \in DOMAIN pageOfBar
    THEN alloc[pageOfBar[PageOf(g)]][g % Grains] ELSE None

-----------------------------------------------------------------------------
(* The phases of a call.                                                   *)

Releases(t) ==
    pc[t] \in {"infos", "delete"} \/ (pc[t] = "set" /\ reg[t].value = None)

Registers(t) == pc[t] = "set" /\ reg[t].value # None

Allocates(t) == call[t] # NoCall /\ call[t].op \in {"malloc", "new", "realloc"}

Phases(t) ==
    /\ pc[t] = "idle" <=> call[t] = NoCall
    /\ pc[t] \in {"tlb", "walk", "found"}
           => call[t].op = "access" /\ call[t].grain \in Grain
    /\ Releases(t) => call[t].op \in {"realloc", "free"} /\ call[t].old \in Block
    /\ pc[t] = "real"
           => /\ call[t].op # "access"
              /\ call[t].op = "free" => call[t].old \in Block
              /\ call[t].op \notin {"realloc", "free"} => call[t].old = None
    /\ Releases(t) \/ pc[t] = "real" => call[t].ret = None
    /\ pc[t] = "after" \/ Registers(t) => Allocates(t)
    /\ pc[t] = "return" => Allocates(t) \/ call[t].op = "aligned_alloc"
    /\ Registers(t) => call[t].ret \in Block
    /\ pc[t] \in {"after", "return"} \/ Registers(t)
           => call[t].ret = None \/ call[t].ret.size = call[t].size

(* A walk goes to the page that is read or written after it.               *)
Walks(t) ==
    /\ pc[t] = "walk" => want[t] = PageOf(call[t].grain)
    /\ pc[t] = "infos" => want[t] = PageOf(call[t].old.base)
    /\ pc[t] = "set" =>
           /\ todo[t] # {}
           /\ \A p \in todo[t] : \E g \in Written(reg[t].base, reg[t].size) : p = PageOf(g)
           /\ want[t] = Current(t)

(* The size and the site the hook before a function kept are those of the  *)
(* call until the hook after it.                                           *)
DataKept(t) ==
    Allocates(t) =>
        /\ data[t].allocSize = toInt(call[t].size)
        /\ data[t].allocCallsite = IF call[t].op = "new" THEN LibSite ELSE call[t].site

(* The block a thread holds for itself: the one it gives back, or the one  *)
(* it got.                                                                 *)
Held(t) ==
    (IF Releases(t) \/ pc[t] = "real" THEN {call[t].old}
     ELSE IF Registers(t) \/ pc[t] \in {"after", "return"} THEN {call[t].ret}
     ELSE {}) \ {None}

HeldApart ==
    /\ \A b, c \in live : b # c => GrainsOf(b) \cap GrainsOf(c) = {}
    /\ \A t \in Thread : Held(t) \subseteq live \ owned
    /\ \A t, u \in Thread : t # u => Held(t) \cap Held(u) = {}

-----------------------------------------------------------------------------
(* The MallocInfos.                                                        *)

(* What a thread is writing is the block of its MallocInfos.               *)
Writes(t) ==
    /\ Registers(t) =>
           LET i == infos[reg[t].value]
           IN  /\ i # None
               /\ i.ptr = call[t].ret.base
               /\ reg[t].base = i.ptr /\ reg[t].size = i.size
    /\ Releases(t) /\ pc[t] # "infos" =>
           /\ found[t] # None
           /\ LET i == infos[found[t]]
              IN  /\ i # None
                  /\ i.ptr = call[t].old.base
                  /\ pc[t] = "set" => (reg[t].base = i.ptr /\ reg[t].size = i.size)

InfosTrue ==
    \A i \in Infos : infos[i] # None =>
        infos[i].ptr = 0 \/
        \E b \in Block : infos[i].ptr = b.base /\ infos[i].size = toInt(b.size)

(* An entry belongs to a page an address has, and leads to a MallocInfos   *)
(* that exists and has the address.                                        *)
EntriesMapped ==
    \A p \in Dir \X Index, o \in Offset :
        alloc[p][o] # None => \E a \in DOMAIN pageOfBar : pageOfBar[a] = p

EntriesTrue ==
    \A g \in Memory : InfosAt(g) # None =>
        /\ infos[InfosAt(g)] # None
        /\ g \in Written(infos[InfosAt(g)].ptr, infos[InfosAt(g)].size)

(* The entries of a MallocInfos that is given up are cleared before it is  *)
(* deleted.                                                                *)
Clears(t) ==
    /\ Releases(t) /\ pc[t] = "set" =>
           \A g \in Memory : InfosAt(g) = found[t] => PageOf(g) \in todo[t]
    /\ pc[t] = "delete" => \A g \in Memory : InfosAt(g) # found[t]

(* A page with an entry is full if it is in the middle of the block, as    *)
(* its MallocInfos has it, and in fragments if not.                        *)
StatusTrue ==
    \A g \in Memory : InfosAt(g) # None =>
        status[pageOfBar[PageOf(g)]] =
            IF Between(infos[InfosAt(g)].ptr, infos[InfosAt(g)].size, PageOf(g))
            THEN "FULL" ELSE "FRAG"

(* A page that was not in fragments when it was tested has no entry of the *)
(* MallocInfos that is given up.                                           *)
Tests(t) ==
    tested[t] =>
        /\ pc[t] = "set"
        /\ reg[t].value = None =>
               \A g \in Memory : InfosAt(g) = found[t] => PageOf(g) # Current(t)

HInv ==
    /\ IInv /\ TypeOK
    /\ \A t \in Thread : /\ Phases(t) /\ Walks(t) /\ DataKept(t) /\ Writes(t)
                         /\ Clears(t) /\ Tests(t)
    /\ HeldApart /\ InfosTrue /\ EntriesMapped /\ EntriesTrue /\ StatusTrue

-----------------------------------------------------------------------------
(* Which MallocInfos the grains of a block are registered for.             *)

(* The MallocInfos registered at an address is that of a block there.      *)
IsBase(g) == InfosAt(g) # None /\ infos[InfosAt(g)].ptr = g

Right(b, i) ==
    IF due[b] = {} THEN i = None
    ELSE /\ i # None /\ infos[i] # None
         /\ infos[i].ptr = b.base /\ infos[i].site \in due[b]

Known(b) ==
    \E i \in Infos \cup {None} :
        /\ \A g \in GrainsOf(b) \ lost : InfosAt(g) = i /\ Right(b, i)
        /\ IsBase(b.base) => InfosAt(b.base) = i

Unknown(b) ==
    /\ \A g \in GrainsOf(b) \ lost : InfosAt(g) = None
    /\ ~IsBase(b.base)

(* While a block is registered or given up its grains are written already, *)
(* with v, or about to be; those to be given up are still registered.      *)
Pending(t, g) == g \in Written(reg[t].base, reg[t].size) /\ PageOf(g) \in todo[t]

Halfway(t, g, v) ==
    InfosAt(g) = v \/ (Pending(t, g) /\ (v = None => InfosAt(g) = found[t]))

HalfKnown(t, b, v) ==
    /\ \A g \in GrainsOf(b) \ lost : Halfway(t, g, v)
    /\ IsBase(b.base) => Halfway(t, b.base, v) /\ (v # None => InfosAt(b.base) = v)

HeldKnown(t) ==
    /\ pc[t] = "infos" => Known(call[t].old)
    /\ pc[t] = "set" /\ reg[t].value = None =>
           HalfKnown(t, call[t].old, None)
    /\ pc[t] \in {"delete", "real"} /\ call[t].old # None => Unknown(call[t].old)
    /\ pc[t] = "after" /\ call[t].ret # None => Unknown(call[t].ret)
    /\ Registers(t) =>
           /\ HalfKnown(t, call[t].ret, reg[t].value)
           /\ Right(call[t].ret, reg[t].value) /\ due[call[t].ret] # {}
    /\ pc[t] = "return" /\ call[t].ret # None =>
           IF call[t].op = "aligned_alloc" THEN Unknown(call[t].ret)
           ELSE Known(call[t].ret)

OwnedKnown == \A b \in owned : Known(b)

(* Where no block is nothing is registered; a MallocInfos is registered at *)
(* its own address only while a block is there.                            *)
FreeUnknown ==
    /\ \A g \in Grain \ lost :
           (\A b \in live : g \notin GrainsOf(b)) => InfosAt(g) = None
    /\ \A g \in Memory : IsBase(g) => \E b \in live : b.base = g

(* A line of a TLB has the page of its address.                            *)
LinesTrue ==
    \A t \in Thread, r \in TLB!Row, w \in TLB!Way :
        LET l == tlb[t].line[r][w]
        IN  l.addr # None => l.addr \in DOMAIN pageOfBar /\ l.content = pageOfBar[l.addr]

(* No block comes or goes under an access.                                 *)
AccessApart ==
    \A t \in Thread : pc[t] \in {"tlb", "walk", "found"} =>
        \A b \in live \ owned : call[t].grain \notin GrainsOf(b)

(* The site operator new keeps is that of the call, or of one that threw.  *)
SitesKept ==
    \A t \in Thread :
        /\ data[t].newCallsite # None =>
               \/ data[t].newCallsite \in thrown[t]
               \/ /\ Allocates(t) /\ call[t].op = "new"
                  /\ data[t].newCallsite = call[t].site
        /\ Allocates(t) /\ call[t].op = "new" => data[t].newCallsite # None

OwnerInv ==
    /\ HInv
    /\ OwnedKnown /\ FreeUnknown /\ LinesTrue /\ AccessApart /\ SitesKept
    /\ \A t \in Thread : HeldKnown(t)
    /\ AccessFindsOwner

-----------------------------------------------------------------------------
(* Grains and pages.                                                       *)

(* Division leaves a remainder below the divisor.                          *)
LEMMA Remainder ==
    ASSUME NEW d \in Nat, d > 0, NEW p \in Nat, NEW q, q = p \div d
    PROVE  q \in Nat /\ d * q \in Int /\ p - d * q \in 0..(d - 1)
<1>1. q \in Int /\ d * q \in Int
  BY SMT
<1>2. p - d * q >= 0 /\ p - d * q < d
  BY <1>1, SMT
<1>3. q \in Nat
  BY SMT
<1> QED
  BY <1>1, <1>2, <1>3, SMT

(* Quotient and remainder make the number again.                           *)
LEMMA Rejoined ==
    ASSUME NEW d \in Nat, NEW q \in Nat, NEW m \in Int, m = d * q,
           NEW g \in Nat, NEW r \in Nat, r = g - m
    PROVE  q * d + r = g
<1>1. q * d = m
  BY SMT
<1>2. q * d \in Int
  BY <1>1
<1>3. m + r = g
  BY Z3
<1> QED
  BY <1>1, <1>2, <1>3, SMT

(* The page and the offset of a grain make the grain.                      *)
LEMMA GrainOfPage ==
    ASSUME NEW g \in Nat
    PROVE  \E q \in Nat, r \in Offset :
               PageOf(g) = q /\ g % Grains = r /\ q * Grains + r = g
<1> DEFINE q == g \div Grains
<1>1. Grains \in Nat /\ Grains > 0
  BY HooksAssumption
<1>2. q \in Nat /\ Grains * q \in Int /\ g - Grains * q \in 0..(Grains - 1)
  BY <1>1, Remainder
<1> DEFINE r == g % Grains
           m == Grains * q
<1>3. r = g - m
  BY <1>1, Z3
<1>4. PageOf(g) = q
  BY DEF PageOf
<1> HIDE DEF q, r
<1>5. r \in 0..(Grains - 1) /\ r \in Nat
  BY <1>2, <1>3
<1>6. m \in Int /\ m = Grains * q
  BY <1>2
<1> HIDE DEF m
<1>7. q * Grains + r = g
  BY <1>1, <1>2, <1>3, <1>5, <1>6, Rejoined
<1>8. r = g % Grains
  BY DEF r
<1> QED
  BY <1>2, <1>4, <1>5, <1>7, <1>8 DEF Offset

(* An offset in a page is a grain of that page.                            *)
LEMMA PageOfGrain ==
    ASSUME NEW a \in Nat, NEW o \in Offset
    PROVE  /\ a * Grains + o \in Nat
           /\ PageOf(a * Grains + o) = a
           /\ (a * Grains + o) % Grains = o
<1> DEFINE g == a * Grains + o
<1>1. Grains \in Nat /\ Grains > 0 /\ o \in Nat /\ o < Grains
  BY HooksAssumption DEF Offset
<1>2. g \in Nat
  BY <1>1, Z3
<1>3. g \div Grains = a
  BY <1>1, Z3
<1>4. g % Grains = o
  BY <1>1, Z3
<1> QED
  BY <1>2, <1>3, <1>4 DEF PageOf

(* What Memory is.                                                         *)
LEMMA MemoryTyped ==
    \A g : g \in Memory <=> g \in Nat /\ PageOf(g) \in Address
  BY DEF Memory

(* A block is not empty, starts with its base and has grains the page      *)
(* table has pages for; no block is at NULL.                               *)
LEMMA BlocksTyped ==
    /\ \A b \in Block : /\ b \in [base : Nat \ {0}, size : Nat \ {0}]
                        /\ b.base \in Nat /\ b.base # 0
                        /\ b.base \in GrainsOf(b)
                        /\ GrainsOf(b) \subseteq Grain
    /\ Grain \subseteq Memory
    /\ 0 \notin Grain
<1>1. ASSUME NEW b \in Block
      PROVE  /\ b \in [base : Nat \ {0}, size : Nat \ {0}]
             /\ b.base \in Nat /\ b.base # 0 /\ b.size \in Nat /\ b.size # 0
  BY HooksAssumption
<1>2. ASSUME NEW b \in Block
      PROVE  b.base \in GrainsOf(b) /\ GrainsOf(b) \subseteq Grain /\ GrainsOf(b) \subseteq Nat \ {0}
  BY <1>1 DEF GrainsOf, Grain
<1>3. \A g \in Grain : g \in Nat \ {0} /\ PageOf(g) \in Address
  BY <1>2, AddressAssumption DEF Grain
<1> QED
  BY <1>1, <1>2, <1>3, MemoryTyped

(* The first page of a range is one of its pages.                          *)
LEMMA FirstIsIn ==
    ASSUME NEW T \in SUBSET Nat, T # {}, NEW base
    PROVE  First(base, T) \in T
  BY LeastNatural DEF First

(* A size that was an int is one.                                          *)
LEMMA SizesFit ==
    ASSUME NEW n \in Nat
    PROVE  toInt(n) \in -IntLimit .. IntLimit - 1
<1>1. IntLimit \in Nat /\ IntLimit > 0
  BY HooksAssumption
<1> DEFINE d == 2 * IntLimit
           r == (n + IntLimit) % d
<1>2. d \in Nat /\ d > 0
  BY <1>1
<1>3. r \in 0 .. d - 1
  <2> HIDE DEF d
  <2> QED BY <1>1, <1>2
<1>4. toInt(n) = r - IntLimit
  BY DEF toInt
<1> HIDE DEF r
<1> QED
  BY <1>1, <1>3, <1>4

(* The page table has pages for what regAllocPointer is to write.          *)
LEMMA WrittenPages ==
    ASSUME NEW b \in Block, NEW pages, pages = {PageOf(g) : g \in Written(b.base, toInt(b.size))}
    PROVE  pages \subseteq Address /\ (pages # {} => First(b.base, pages) \in pages)
<1>1. pages \subseteq Address
  BY AddressAssumption
<1>2. pages \in SUBSET Nat
  BY <1>1, HooksAssumption
<1> QED
  BY <1>1, <1>2, FirstIsIn

(* A walk that is done ended at the page of its address.                   *)
LEMMA PageReached ==
    ASSUME IInv, NEW t \in Thread, walk[t] = "done", want[t] \in Address
    PROVE  want[t] \in DOMAIN pageOfBar /\ pageOfBar[want[t]] = PageAt(t)
<1>1. at[t] = pte(want[t]) /\ at[t] \in Dir
  BY PathAssumption DEF IInv, OnPath, Level, DirTypeOK
<1>2. pte(want[t]) # None
  BY <1>1, PathAssumption
<1> QED
  BY <1>1, <1>2 DEF pageOfBar, PageAt

(* An address is registered for a MallocInfos, or for none.                *)
LEMMA InfosAtTyped ==
    ASSUME IInv, TypeOK, NEW g \in Memory
    PROVE  /\ InfosAt(g) \in Infos \cup {None}
           /\ \A a \in DOMAIN pageOfBar : pageOfBar[a] \in Dir \X Index
<1>1. IsPageMap
  BY MapTyped
<1>2. \A a \in DOMAIN pageOfBar : pageOfBar[a] \in Dir \X Index
  BY <1>1 DEF IsPageMap
<1>3. g % Grains \in Offset
  BY MemoryTyped, GrainOfPage
<1> QED
  BY <1>2, <1>3 DEF TypeOK, InfosAt

(* An entry keeps its value while directories are made.                    *)
LEMMA EntryKept ==
    ASSUME IInv, TypeOK, EntriesMapped, [DirNext]_dirVars, UNCHANGED alloc
    PROVE  /\ \A g \in Memory : InfosAt(g)' = InfosAt(g)
           /\ EntriesMapped'
<1>1. IInv'
  BY NextTypeOK, NextIsTree, NextOnPath, NextLocked DEF IInv
<1>2. IsPageMap'
  BY <1>1, MapTyped, PTL
<1>3. \A a \in DOMAIN pageOfBar : a \in DOMAIN pageOfBar' /\ pageOfBar'[a] = pageOfBar[a]
  BY MapGrows
<1>4. ASSUME NEW g \in Memory PROVE InfosAt(g)' = InfosAt(g)
  <2> DEFINE a == PageOf(g)
  <2>1. CASE a \in DOMAIN pageOfBar
    BY <1>3, <2>1 DEF InfosAt
  <2>2. CASE a \notin DOMAIN pageOfBar'
    BY <1>3, <2>2 DEF InfosAt
  <2>3. CASE a \notin DOMAIN pageOfBar /\ a \in DOMAIN pageOfBar'
    <3>1. pageOfBar'[a] \in Dir \X Index
      BY <1>2, <2>3 DEF IsPageMap
    <3>2. \A b \in DOMAIN pageOfBar : pageOfBar[b] # pageOfBar'[a]
      BY <1>2, <1>3, <2>3 DEF IsPageMap, Map!Injective
    <3>3. g % Grains \in Offset
      BY MemoryTyped, GrainOfPage
    <3>4. alloc[pageOfBar'[a]][g % Grains] = None
      BY <3>1, <3>2, <3>3 DEF EntriesMapped
    <3>5. InfosAt(g) = None
      BY <2>3 DEF InfosAt
    <3>6. InfosAt(g)' = alloc[pageOfBar'[a]][g % Grains]
      BY <2>3 DEF InfosAt
    <3> QED
      BY <3>4, <3>5, <3>6
  <2> QED
    BY <2>1, <2>2, <2>3
<1>5. EntriesMapped'
  BY <1>3 DEF EntriesMapped
<1> QED
  BY <1>4, <1>5

(* The grains setPage writes.                                              *)
Set(t) ==
    {g \in Written(reg[t].base, reg[t].size) : PageOf(g) = Current(t)}

(* While regAllocPointer writes, the walk is to the first of the pages it  *)
(* has left.                                                               *)
LEMMA TodoTyped ==
    ASSUME HInv, NEW t \in Thread, pc[t] = "set"
    PROVE  /\ Current(t) \in todo[t] /\ todo[t] \subseteq Address
           /\ want[t] = Current(t)
           /\ \A p \in todo[t] : p \in Address /\ p \in Nat
<1>1. todo[t] \subseteq Address /\ todo[t] # {} /\ want[t] = Current(t)
  BY DEF HInv, TypeOK, Walks
<1>2. todo[t] \in SUBSET Nat
  BY <1>1, HooksAssumption
<1> QED
  BY <1>1, <1>2, FirstIsIn DEF Current

(* What a step of regAllocPointer does to the page it is at: it writes the *)
(* grains of the block there, or leaves the page.                          *)
Wrote(t) ==
    /\ \A g \in Memory : InfosAt(g)' = IF g \in Set(t) THEN reg[t].value ELSE InfosAt(g)
    /\ lost' = (lost \ (Set(t) \cap TrueGrains(t))) \cup (Grain \cap (Set(t) \ TrueGrains(t)))
    /\ status' = [status EXCEPT ![PageAt(t)] =
           IF ~IsMiddle(t) THEN "FRAG" ELSE IF reg[t].value = None THEN "NONE" ELSE "FULL"]

Left(t) ==
    /\ \A g \in Memory : InfosAt(g)' = InfosAt(g)
    /\ lost' = IF reg[t].value = None THEN lost ELSE lost \cup (Set(t) \cap TrueGrains(t))
    /\ UNCHANGED <<alloc, status>>

LEMMA PageSet ==
    ASSUME HInv, NEW t \in Thread, setPage(t)
    PROVE  /\ (Accepts(t) /\ Wrote(t)) \/ (Refuses(t) /\ Left(t))
           /\ EntriesMapped' /\ UNCHANGED pageOfBar
           /\ alloc' \in [Dir \X Index -> [Offset -> Infos \cup {None}]]
           /\ Current(t) \in DOMAIN pageOfBar /\ pageOfBar[Current(t)] = PageAt(t)
           /\ \A a \in DOMAIN pageOfBar : pageOfBar[a] \in Dir \X Index
                                        /\ (a # Current(t) => pageOfBar[a] # PageAt(t))
<1> DEFINE p == Current(t)
           page == PageAt(t)
<1>1. p \in todo[t] /\ p \in Address /\ p \in Nat /\ want[t] = p /\ walk[t] = "done"
  BY TodoTyped DEF setPage
<1>2. p \in DOMAIN pageOfBar /\ pageOfBar[p] = page
  BY <1>1, PageReached DEF HInv
<1>3. IsPageMap
  BY MapTyped DEF HInv
<1>4. page \in Dir \X Index /\ \A a \in DOMAIN pageOfBar : a # p => pageOfBar[a] # page
  BY <1>2, <1>3 DEF IsPageMap, Map!Injective
<1>5. UNCHANGED pageOfBar
  <2>1. UNCHANGED entries
    BY DEF setPage, getPage, dirVars
  <2> QED
    BY <2>1 DEF pageOfBar, pte, pmd, pud, Child
<1>6. reg[t].value \in Infos \cup {None} /\ alloc \in [Dir \X Index -> [Offset -> Infos \cup {None}]]
  BY DEF HInv, TypeOK
<1>7. (Accepts(t) /\ writePage(t, Set(t))) \/ (Refuses(t) /\ leavePage(t, Set(t)))
  BY DEF setPage, Set
<1> HIDE DEF p, page
<1>8. CASE Accepts(t) /\ writePage(t, Set(t))
  <2>1. alloc' = [alloc EXCEPT ![page] = [o \in Offset |->
                    IF p * Grains + o \in Set(t) THEN reg[t].value ELSE alloc[page][o]]]
    BY <1>8 DEF writePage, p, page
  <2>2. /\ \A q \in Dir \X Index : q # page => alloc'[q] = alloc[q]
        /\ \A o \in Offset : alloc'[page][o] =
               IF p * Grains + o \in Set(t) THEN reg[t].value ELSE alloc[page][o]
        /\ alloc' \in [Dir \X Index -> [Offset -> Infos \cup {None}]]
    BY <1>4, <1>6, <2>1
  <2>3. ASSUME NEW g \in Memory
        PROVE  InfosAt(g)' = IF g \in Set(t) THEN reg[t].value ELSE InfosAt(g)
    <3>1. CASE PageOf(g) \notin DOMAIN pageOfBar
      BY <1>2, <1>5, <3>1 DEF InfosAt, Set, p
    <3>2. CASE PageOf(g) \in DOMAIN pageOfBar /\ PageOf(g) # p
      <4>1. pageOfBar[PageOf(g)] \in Dir \X Index /\ pageOfBar[PageOf(g)] # page
        BY <1>3, <1>4, <3>2 DEF IsPageMap
      <4> QED
        BY <1>5, <2>2, <3>2, <4>1 DEF InfosAt, Set, p
    <3>3. CASE PageOf(g) = p
      <4>1. PICK q \in Nat, r \in Offset : PageOf(g) = q /\ g % Grains = r /\ q * Grains + r = g
        BY MemoryTyped, GrainOfPage
      <4>2. alloc'[page][r] = IF g \in Set(t) THEN reg[t].value ELSE alloc[page][r]
        BY <2>2, <3>3, <4>1
      <4>3. InfosAt(g) = alloc[page][r] /\ InfosAt(g)' = alloc'[page][r]
        BY <1>2, <1>5, <3>3, <4>1 DEF InfosAt
      <4> QED
        BY <4>2, <4>3
    <3> QED
      BY <3>1, <3>2, <3>3
  <2>4. EntriesMapped'
    BY <1>2, <1>5, <2>2 DEF HInv, EntriesMapped
  <2>5. Wrote(t)
    BY <1>8, <2>3 DEF Wrote, writePage
  <2> QED
    BY <1>2, <1>3, <1>4, <1>5, <1>8, <2>2, <2>4, <2>5 DEF IsPageMap, p, page
<1>9. CASE Refuses(t) /\ leavePage(t, Set(t))
  <2>1. Left(t)
    BY <1>5, <1>9 DEF Left, leavePage, InfosAt
  <2>2. EntriesMapped'
    BY <1>5, <1>9 DEF HInv, EntriesMapped, leavePage
  <2> QED
    BY <1>2, <1>3, <1>4, <1>5, <1>6, <1>9, <2>1, <2>2 DEF IsPageMap, leavePage, p, page
<1> QED
  BY <1>7, <1>8, <1>9

(* Written or left, only the grains of the block change, and only those    *)
(* may no longer be lost.                                                  *)
LEMMA PageSteps ==
    ASSUME HInv, NEW t \in Thread, setPage(t)
    PROVE  /\ TrueGrains(t) \subseteq Grain
           /\ \A g \in Memory : \/ InfosAt(g)' = InfosAt(g)
                                \/ g \in Set(t) /\ InfosAt(g)' = reg[t].value
           /\ \A g \in Grain : g \notin lost' /\ (g \notin Set(t) \/ g \notin TrueGrains(t))
                  => g \notin lost /\ InfosAt(g)' = InfosAt(g)
           /\ lost' \in SUBSET Grain
<1>1. Grain \subseteq Memory /\ lost \subseteq Grain
  BY BlocksTyped DEF HInv, TypeOK
<1>2. TrueGrains(t) \subseteq Grain
  BY BlocksTyped DEF HInv, Phases, Releases, Registers, TrueGrains, setPage
<1>3. CASE Wrote(t)
  BY <1>1, <1>2, <1>3 DEF Wrote
<1>4. CASE Left(t)
  BY <1>1, <1>2, <1>4 DEF Left
<1> QED
  BY <1>3, <1>4, PageSet

-----------------------------------------------------------------------------
(* The steps.                                                              *)

Pages(base, size) == {PageOf(g) : g \in Written(base, size)}

(* What regAllocPointer starts, for a range whose size may be of no grain. *)
Starts(t, base, size, value) ==
    /\ Pages(base, size) # {}
    /\ Pages(base, size) \subseteq Address
    /\ First(base, Pages(base, size)) \in Address
    /\ reg' = [reg EXCEPT ![t] = [base |-> base, size |-> size, value |-> value]]
    /\ todo' = [todo EXCEPT ![t] = Pages(base, size)]
    /\ pc' = [pc EXCEPT ![t] = "set"]
    /\ getPage(t, First(base, Pages(base, size)))

HasNone(t, base, size, value) ==
    /\ Written(base, size) = {}
    /\ pc' = [pc EXCEPT ![t] = Registered(value)]
    /\ UNCHANGED <<dirVars, reg, todo>>

(* regAllocPointer, given the base of a block and its size as an int,      *)
(* starts on pages the table has, or has nothing to write.                 *)
LEMMA RegAllocPointer ==
    ASSUME NEW t \in Thread, NEW b \in Block, NEW base, NEW size, NEW value,
           base = b.base, size = toInt(b.size), regAllocPointer(t, base, size, value)
    PROVE  Starts(t, base, size, value) \/ HasNone(t, base, size, value)
<1>1. Pages(base, size) \subseteq Address
      /\ (Pages(base, size) # {} => First(base, Pages(base, size)) \in Pages(base, size))
  BY WrittenPages DEF Pages
<1>2. CASE Pages(base, size) = {}
  <2>1. Written(base, size) = {}
    BY <1>2 DEF Pages
  <2> QED
    BY <1>2, <2>1 DEF regAllocPointer, HasNone, Goto, Pages
<1>3. CASE Pages(base, size) # {}
  BY <1>1, <1>3 DEF regAllocPointer, Starts, Goto, Pages
<1> QED
  BY <1>2, <1>3

(* The cases of freeAllocPointer, for the block b.                         *)
NotFound(t, b) ==
    /\ ~IsBase(b.base)
    /\ pc' = [pc EXCEPT ![t] = "real"]
    /\ lost' = IF b.base \in lost THEN lost \cup GrainsOf(b) ELSE lost
    /\ UNCHANGED <<dirVars, reg, todo, found>>

GivesUp(t, b, i) ==
    /\ i \in Infos /\ i = InfosAt(b.base) /\ infos[i].ptr = b.base
    /\ Starts(t, b.base, infos[i].size, None) \/ HasNone(t, b.base, infos[i].size, None)
    /\ found' = [found EXCEPT ![t] = i]
    /\ UNCHANGED lost

(* freeAllocPointer gives up the MallocInfos that has the address as its   *)
(* own, and nothing else.                                                  *)
LEMMA FreeAllocPointer ==
    ASSUME HInv, NEW t \in Thread, freeAllocPointer(t)
    PROVE  \E b \in Block :
               /\ b = call[t].old
               /\ pc[t] = "infos"
               /\ NotFound(t, b) \/ (\E i \in Infos : GivesUp(t, b, i))
               /\ UNCHANGED <<data, infos, alloc, tlb, call, live, owned, program,
                              made, due, thrown>>
<1>1. PICK b \in Block : b = call[t].old
  BY DEF HInv, Phases, Releases, freeAllocPointer
<1>2. pc[t] = "infos" /\ walk[t] = "done" /\ want[t] = PageOf(b.base)
  BY <1>1 DEF HInv, Walks, freeAllocPointer
<1>3. b.base \in Memory /\ PageOf(b.base) \in Address /\ b.base # 0 /\ b.base \in Grain
  BY BlocksTyped, MemoryTyped
<1> DEFINE i == InfosAt(b.base)
<1>4. i = alloc[PageAt(t)][b.base % Grains]
  BY <1>2, <1>3, PageReached DEF InfosAt, HInv
<1>5. i \in Infos \cup {None}
  BY <1>3, InfosAtTyped DEF HInv
<1>6. UNCHANGED <<data, infos, alloc, tlb, call, live, owned, program, made, due, thrown>>
  BY DEF freeAllocPointer, envVars
<1>7. CASE ~IsBase(b.base)
  <2>1. i = None \/ infos[i].ptr # b.base
    BY <1>7 DEF IsBase
  <2>2. NotFound(t, b)
    BY <1>1, <1>4, <1>7, <2>1 DEF freeAllocPointer, NotFound, Goto
  <2> QED
    BY <1>1, <1>2, <1>6, <2>2
<1>8. CASE IsBase(b.base)
  <2>1. i \in Infos /\ infos[i] # None /\ infos[i].ptr = b.base
    BY <1>3, <1>5, <1>8 DEF IsBase, HInv, EntriesTrue
  <2>2. PICK c \in Block : infos[i].ptr = c.base /\ infos[i].size = toInt(c.size)
    BY <1>3, <2>1 DEF HInv, InfosTrue
  <2>3. regAllocPointer(t, b.base, infos[i].size, None) /\ found' = [found EXCEPT ![t] = i]
        /\ UNCHANGED lost
    <3>1. ~(i = None \/ infos[i].ptr # b.base)
      BY <2>1, HooksAssumption
    <3> QED
      BY <1>1, <1>4, <3>1, Zenon DEF freeAllocPointer, FreedSize
  <2>4. Starts(t, b.base, infos[i].size, None) \/ HasNone(t, b.base, infos[i].size, None)
    BY <2>1, <2>2, <2>3, RegAllocPointer
  <2>5. GivesUp(t, b, i)
    BY <2>1, <2>3, <2>4 DEF GivesUp
  <2> QED
    BY <1>1, <1>2, <1>6, <2>1, <2>5
<1> QED
  BY <1>7, <1>8

(* The cases of onAlloc, for the block b or NULL.                          *)
LEMMA OnAlloc ==
    ASSUME HInv, NEW t \in Thread, onAlloc(t)
    PROVE  /\ pc[t] = "after" /\ Allocates(t)
           /\ NewInfos \in Infos /\ infos[NewInfos] = None
           /\ infos' = [infos EXCEPT ![NewInfos] =
                  [ptr |-> Base(call[t].ret), size |-> toInt(call[t].size), site |-> SiteOf(t)]]
           /\ UNCHANGED <<data, alloc, tlb, call, found, live, owned, program, made, thrown>>
           /\ \/ /\ call[t].ret = None
                 /\ pc' = [pc EXCEPT ![t] = "return"]
                 /\ UNCHANGED <<dirVars, reg, todo, due, lost>>
              \/ \E b \in Block :
                 /\ b = call[t].ret /\ b # None /\ b.size = call[t].size
                 /\ Base(call[t].ret) = b.base
                 /\ \/ Starts(t, b.base, toInt(b.size), NewInfos)
                    \/ HasNone(t, b.base, toInt(b.size), NewInfos)
                 /\ due' = [due EXCEPT ![b] =
                        {call[t].site} \cup IF call[t].op = "realloc" THEN {} ELSE thrown[t]]
                 /\ lost' = lost \cup (GrainsOf(b) \ Written(b.base, toInt(b.size)))
<1>1. pc[t] = "after" /\ Allocates(t) /\ data[t].allocSize = toInt(call[t].size)
      /\ (call[t].ret = None \/ call[t].ret.size = call[t].size)
  BY DEF onAlloc, HInv, Phases, DataKept
<1>2. call[t].ret \in Block \cup {None}
  BY <1>1 DEF HInv, TypeOK, Allocates
<1>3. NewInfos \in Infos /\ infos[NewInfos] = None
  BY DEF onAlloc, NewInfos
<1>4. /\ infos' = [infos EXCEPT ![NewInfos] =
                  [ptr |-> Base(call[t].ret), size |-> toInt(call[t].size), site |-> SiteOf(t)]]
      /\ UNCHANGED <<data, alloc, tlb, call, found, live, owned, program, made, thrown>>
  BY <1>1 DEF onAlloc, envVars
<1>5. CASE call[t].ret = None
  BY <1>1, <1>3, <1>4, <1>5 DEF onAlloc, Goto
<1>6. CASE call[t].ret # None
  <2>1. PICK b \in Block : b = call[t].ret
    BY <1>2, <1>6
  <2>2. Base(call[t].ret) = b.base /\ b # None /\ b.size = call[t].size
    BY <1>1, <1>6, <2>1 DEF Base
  <2>3. /\ regAllocPointer(t, b.base, toInt(b.size), NewInfos)
        /\ due' = [due EXCEPT ![b] =
                        {call[t].site} \cup IF call[t].op = "realloc" THEN {} ELSE thrown[t]]
        /\ lost' = lost \cup (GrainsOf(b) \ Written(b.base, toInt(b.size)))
    BY <1>1, <1>6, <2>1, <2>2 DEF onAlloc
  <2>4. \/ Starts(t, b.base, toInt(b.size), NewInfos)
        \/ HasNone(t, b.base, toInt(b.size), NewInfos)
    BY <2>3, RegAllocPointer
  <2> QED
    BY <1>1, <1>3, <1>4, <2>1, <2>2, <2>3, <2>4
<1> QED
  BY <1>5, <1>6

(* The steps of a thread, those that change nothing but where a walk is,    *)
(* and the test of a page, taken together.                                 *)
restVars == <<data, infos, alloc, status, tlb, pc, call, reg, todo, found, live, owned,
              program, made, due, thrown, lost>>

Steps(t) ==
    \/ freeAllocPointer(t) \/ setPage(t) \/ deleteInfos(t) \/ real(t) \/ free(t) \/ onAlloc(t)
    \/ return(t) \/ tlbLookup(t) \/ tlbSet(t) \/ counted(t)
    \/ (Walk(t) \/ UNCHANGED dirVars) /\ UNCHANGED restVars

LEMMA StepsOf ==
    ASSUME NEW t \in Thread, Step(t)
    PROVE  Steps(t)
<1>1. ASSUME regAllocPointerSmall(t) PROVE UNCHANGED <<dirVars, restVars>>
  BY <1>1 DEF regAllocPointerSmall, restVars, envVars, histVars
<1>2. ASSUME UNCHANGED hookVars PROVE UNCHANGED restVars
  BY <1>2 DEF restVars, hookVars
<1> QED
  BY <1>1, <1>2 DEF Step, Steps

(* Only setPage changes the pages, and it tests them, or their first test  *)
(* is a step of its own.                                                   *)
LEMMA PagesKept ==
    ASSUME NEW t \in Thread, Step(t) \/ Act(t)
    PROVE  /\ setPage(t) \/ UNCHANGED <<alloc, status>>
           /\ setPage(t) \/ regAllocPointerSmall(t) \/ UNCHANGED tested
<1>1. ASSUME NEW size \in Size, malloc(t, size) \/ beforeNew(t, size) \/ aligned_alloc(t, size)
      PROVE  UNCHANGED pageVars
  BY <1>1 DEF malloc, beforeNew, aligned_alloc, toolVars
<1>2. ASSUME NEW b \in Block \cup {None}, NEW size \in Size, beforeRealloc(t, b, size)
      PROVE  UNCHANGED pageVars
  BY <1>2 DEF beforeRealloc
<1>3. ASSUME NEW b \in Block, beforeFree(t, b) PROVE UNCHANGED pageVars
  BY <1>3 DEF beforeFree, toolVars
<1>4. ASSUME NEW g \in Grain, onAccess(t, g) PROVE UNCHANGED pageVars
  BY <1>4 DEF onAccess, toolVars
<1>5. CASE Act(t)
  BY <1>1, <1>2, <1>3, <1>4, <1>5 DEF Act
<1>6. CASE freeAllocPointer(t) \/ onAlloc(t)
  BY <1>6 DEF freeAllocPointer, onAlloc
<1>7. CASE deleteInfos(t) \/ real(t) \/ free(t) \/ return(t)
  BY <1>7 DEF deleteInfos, real, free, return, toolVars
<1>8. CASE tlbLookup(t) \/ tlbSet(t) \/ counted(t) \/ UNCHANGED hookVars
  BY <1>8 DEF tlbLookup, tlbSet, counted, hookVars
<1>9. ASSUME regAllocPointerSmall(t) PROVE UNCHANGED <<alloc, status>>
  BY <1>9 DEF regAllocPointerSmall
<1> QED
  BY <1>5, <1>6, <1>7, <1>8, <1>9 DEF Step

(* A page is tested while it is to be written, and that thread takes no    *)
(* other step.                                                             *)
LEMMA SetSteps ==
    ASSUME NEW t \in Thread, Step(t) \/ Act(t), pc[t] = "set"
    PROVE  setPage(t) \/ regAllocPointerSmall(t) \/ UNCHANGED <<pc, reg, todo, found, tested>>
<1>1. CASE Act(t)
  BY <1>1 DEF Act, malloc, beforeNew, aligned_alloc, beforeRealloc, beforeFree, onAccess, Call
<1>2. CASE Step(t)
  <2>1. CASE UNCHANGED hookVars
    BY <2>1 DEF hookVars
  <2> QED
    BY <1>2, <2>1 DEF Step, freeAllocPointer, deleteInfos, real, free, onAlloc, return,
       tlbLookup, tlbSet, counted
<1> QED
  BY <1>1, <1>2

(* A step of the hooks is, in the directories, one of PageDirectories.     *)
LEMMA DirStep ==
    ASSUME HInv, [Next]_vars
    PROVE  [DirNext]_dirVars
<1>1. ASSUME NEW t \in Thread, NEW a \in Address, getPage(t, a) PROVE [DirNext]_dirVars
  BY <1>1 DEF DirNext
<1>2. ASSUME NEW t \in Thread, NEW b \in Block \cup {None}, onFree(t, b)
      PROVE  [DirNext]_dirVars
  BY <1>1, <1>2, BlocksTyped, MemoryTyped DEF onFree
<1>3. ASSUME NEW t \in Thread, freeAllocPointer(t) PROVE [DirNext]_dirVars
  <2>1. \/ UNCHANGED dirVars
        \/ \E base, size : First(base, Pages(base, size)) \in Address /\ getPage(t, First(base, Pages(base, size)))
    BY <1>3, FreeAllocPointer DEF NotFound, GivesUp, Starts, HasNone
  <2> QED
    BY <1>1, <2>1
<1>4. ASSUME NEW t \in Thread, onAlloc(t) PROVE [DirNext]_dirVars
  <2>1. \/ UNCHANGED dirVars
        \/ \E base, size : First(base, Pages(base, size)) \in Address /\ getPage(t, First(base, Pages(base, size)))
    BY <1>4, OnAlloc DEF Starts, HasNone
  <2> QED
    BY <1>1, <2>1
<1>5. ASSUME NEW t \in Thread, setPage(t) PROVE [DirNext]_dirVars
  <2> DEFINE left == todo[t] \ {Current(t)}
  <2>1. CASE left = {}
    BY <1>5, <2>1 DEF setPage
  <2>2. CASE left # {}
    <3>1. left \in SUBSET Nat /\ left \subseteq Address
      BY <1>5, TodoTyped DEF setPage
    <3>2. First(reg[t].base, left) \in Address
      BY <2>2, <3>1, FirstIsIn
    <3>3. getPage(t, First(reg[t].base, left))
      BY <1>5, <2>2 DEF setPage
    <3> QED
      BY <1>1, <3>2, <3>3
  <2> QED
    BY <2>1, <2>2
<1>6. ASSUME NEW t \in Thread, tlbLookup(t) PROVE [DirNext]_dirVars
  <2>1. PageOf(call[t].grain) \in Address
    BY <1>6, AddressAssumption DEF HInv, Phases, tlbLookup
  <2> QED
    BY <1>1, <1>6, <2>1 DEF tlbLookup
<1>7. ASSUME NEW t \in Thread, Step(t) PROVE [DirNext]_dirVars
  <2>1. CASE deleteInfos(t) \/ real(t) \/ free(t) \/ return(t) \/ tlbSet(t) \/ counted(t)
    BY <2>1 DEF deleteInfos, real, free, return, tlbSet, counted
  <2>2. CASE Walk(t)
    BY <2>2 DEF DirNext
  <2> QED
    BY StepsOf, <1>3, <1>4, <1>5, <1>6, <1>7, <2>1, <2>2 DEF Steps
<1>8. ASSUME NEW t \in Thread, Act(t) PROVE [DirNext]_dirVars
  <2>1. ASSUME NEW size \in Size, malloc(t, size) \/ beforeNew(t, size) \/ aligned_alloc(t, size)
        PROVE  [DirNext]_dirVars
    BY <2>1 DEF malloc, beforeNew, aligned_alloc
  <2>2. ASSUME NEW b \in Block \cup {None}, NEW size \in Size, beforeRealloc(t, b, size)
        PROVE  [DirNext]_dirVars
    BY <1>2, <2>2 DEF beforeRealloc
  <2>3. ASSUME NEW b \in Block, beforeFree(t, b) PROVE [DirNext]_dirVars
    BY <1>2, <2>3 DEF beforeFree
  <2>4. ASSUME NEW g \in Grain, onAccess(t, g) PROVE [DirNext]_dirVars
    BY <2>4 DEF onAccess
  <2> QED
    BY <1>8, <2>1, <2>2, <2>3, <2>4 DEF Act
<1>9. ASSUME UNCHANGED vars PROVE [DirNext]_dirVars
  BY <1>9 DEF vars, dirVars
<1> QED
  BY <1>7, <1>8, <1>9 DEF Next, Stopped

(* The other threads are where they were.                                  *)
Others(t) ==
    \A u \in Thread \ {t} :
        /\ pc'[u] = pc[u] /\ call'[u] = call[u] /\ data'[u] = data[u]
        /\ reg'[u] = reg[u] /\ todo'[u] = todo[u] /\ found'[u] = found[u]
        /\ want'[u] = want[u] /\ tlb'[u] = tlb[u] /\ thrown'[u] = thrown[u]

(* A step is of one thread.                                                *)
LEMMA OnlyOne ==
    ASSUME HInv, NEW t \in Thread, Step(t) \/ Act(t)
    PROVE  Others(t)
<1> USE DEF Others
<1>0. TypeOK /\ DirTypeOK
  BY DEF HInv, TypeOK
<1>a. ASSUME NEW a, getPage(t, a) \/ UNCHANGED dirVars
      PROVE \A u \in Thread \ {t} : want'[u] = want[u]
  BY <1>0, <1>a DEF DirTypeOK, getPage, dirVars
<1>b. ASSUME NEW base, NEW size, NEW value, Starts(t, base, size, value) \/ HasNone(t, base, size, value)
      PROVE \A u \in Thread \ {t} :
                /\ want'[u] = want[u] /\ reg'[u] = reg[u] /\ todo'[u] = todo[u]
                /\ pc'[u] = pc[u]
  BY <1>0, <1>a, <1>b DEF TypeOK, Starts, HasNone
<1>1. ASSUME NEW size \in Size, malloc(t, size) \/ beforeNew(t, size) \/ aligned_alloc(t, size)
      PROVE Others(t)
  BY <1>0, <1>1 DEF malloc, beforeNew, aligned_alloc, TypeOK, Call, Goto, SetData, dirVars,
     toolVars, histVars
<1>2. ASSUME NEW b \in Block \cup {None}, onFree(t, b)
      PROVE  \A u \in Thread \ {t} : want'[u] = want[u] /\ pc'[u] = pc[u]
  BY <1>0, <1>a, <1>2 DEF onFree, TypeOK, Goto
<1>3. ASSUME NEW b \in Block \cup {None}, NEW size \in Size, beforeRealloc(t, b, size)
      PROVE Others(t)
  <2>1. onFree(t, b)
    BY <1>3 DEF beforeRealloc
  <2> QED
    BY <1>0, <1>2, <1>3, <2>1 DEF beforeRealloc, TypeOK, Call, SetData, histVars
<1>4. ASSUME NEW b \in Block, beforeFree(t, b) PROVE Others(t)
  <2>1. onFree(t, b)
    BY <1>4 DEF beforeFree
  <2> QED
    BY <1>0, <1>2, <1>4, <2>1 DEF beforeFree, TypeOK, Call, toolVars, histVars
<1>5. ASSUME NEW g \in Grain, onAccess(t, g) PROVE Others(t)
  BY <1>0, <1>5 DEF onAccess, TypeOK, Call, Goto, dirVars, toolVars, histVars
<1>6. ASSUME freeAllocPointer(t) PROVE Others(t)
  <2>1. PICK b \in Block :
               /\ NotFound(t, b) \/ (\E i \in Infos : GivesUp(t, b, i))
               /\ UNCHANGED <<data, call, tlb, thrown>>
    BY <1>6, FreeAllocPointer
  <2>2. CASE NotFound(t, b)
    BY <1>0, <2>1, <2>2 DEF NotFound, TypeOK, dirVars
  <2>3. ASSUME NEW i \in Infos, GivesUp(t, b, i) PROVE Others(t)
    BY <1>0, <1>b, <2>1, <2>3 DEF GivesUp, TypeOK
  <2> QED
    BY <2>1, <2>2, <2>3
<1>7. ASSUME setPage(t) PROVE Others(t)
  <2>1. UNCHANGED <<data, tlb, call, found, thrown>> /\ todo' = [todo EXCEPT ![t] = @ \ {Current(t)}]
    BY <1>7 DEF setPage
  <2>2. \/ (\E a : getPage(t, a)) /\ UNCHANGED <<pc, reg>>
        \/ /\ pc' = [pc EXCEPT ![t] = Registered(reg[t].value)]
           /\ reg' = [reg EXCEPT ![t] = NoReg]
           /\ UNCHANGED dirVars
    BY <1>7 DEF setPage, Goto
  <2> QED
    BY <1>0, <1>a, <2>1, <2>2 DEF TypeOK
<1>8. ASSUME onAlloc(t) PROVE Others(t)
  <2>1. UNCHANGED <<data, tlb, call, found, thrown>>
    BY <1>8, OnAlloc
  <2>2. \/ pc' = [pc EXCEPT ![t] = "return"] /\ UNCHANGED <<dirVars, reg, todo>>
        \/ \E base, size, value : Starts(t, base, size, value) \/ HasNone(t, base, size, value)
    BY <1>8, OnAlloc
  <2> QED
    BY <1>0, <1>b, <2>1, <2>2 DEF TypeOK, dirVars
<1>9. ASSUME deleteInfos(t) \/ free(t) \/ counted(t) PROVE Others(t)
  BY <1>0, <1>9 DEF deleteInfos, free, counted, TypeOK, Goto, Return, dirVars,
     toolVars, envVars, histVars
<1>10. ASSUME real(t) PROVE Others(t)
  <2>1. UNCHANGED <<dirVars, toolVars, thrown>>
        /\ (UNCHANGED call \/ \E b : call' = [call EXCEPT ![t].ret = b])
        /\ \E l : pc' = [pc EXCEPT ![t] = l]
    BY <1>10 DEF real, Goto
  <2> QED
    BY <1>0, <2>1 DEF TypeOK, toolVars, dirVars
<1>11. ASSUME return(t) PROVE Others(t)
  <2>1. /\ UNCHANGED <<dirVars, infos, alloc, tlb, reg, todo, found>>
        /\ pc' = [pc EXCEPT ![t] = "idle"] /\ call' = [call EXCEPT ![t] = NoCall]
        /\ UNCHANGED data \/ data' = [data EXCEPT ![t].newCallsite = None]
        /\ UNCHANGED thrown \/ \E s : thrown' = [thrown EXCEPT ![t] = s]
    BY <1>11 DEF return, Goto, Return
  <2> QED
    BY <1>0, <2>1 DEF TypeOK, dirVars
<1>12. ASSUME tlbLookup(t) PROVE Others(t)
  <2>1. /\ UNCHANGED <<data, infos, alloc, tlb, reg, todo, call, thrown>>
        /\ \/ UNCHANGED dirVars /\ \E i : found' = [found EXCEPT ![t] = i]
           \/ UNCHANGED found /\ \E a : getPage(t, a)
        /\ \E l : pc' = [pc EXCEPT ![t] = l]
    BY <1>12 DEF tlbLookup, getAllocPointer, Goto, histVars
  <2> QED
    BY <1>0, <1>a, <2>1 DEF TypeOK
<1>13. ASSUME tlbSet(t) PROVE Others(t)
  <2>1. /\ UNCHANGED <<dirVars, data, infos, alloc, reg, todo, call, thrown>>
        /\ \E i : found' = [found EXCEPT ![t] = i]
        /\ \E c : tlb' = [tlb EXCEPT ![t] = c]
        /\ pc' = [pc EXCEPT ![t] = "found"]
    BY <1>13 DEF tlbSet, getAllocPointer, Goto, histVars
  <2> QED
    BY <1>0, <2>1 DEF TypeOK, dirVars
<1>14. ASSUME Walk(t) \/ UNCHANGED dirVars, UNCHANGED restVars PROVE Others(t)
  <2>1. UNCHANGED want
    BY <1>14 DEF Walk, getEntry, makeNewEntry, lock, recheck, create, unlock, returnEntry, dirVars
  <2> QED
    BY <1>14, <2>1 DEF restVars
<1> HIDE DEF Others
<1> QED
  BY StepsOf, <1>1, <1>3, <1>4, <1>5, <1>6, <1>7, <1>8, <1>9, <1>10, <1>11, <1>12, <1>13, <1>14
     DEF Steps, Act

Function == {"malloc", "new", "realloc", "free", "aligned_alloc", "access"}

Frame == [op : Function, size : Size \cup {0}, site : Site, old : Block \cup {None},
          ret : Block \cup {None}, grain : Grain \cup {0}]

(* A call of the program has a frame of its own site.                      *)
LEMMA CallTyped ==
    ASSUME HInv, NEW t \in Thread, NEW op, NEW size \in Size \cup {0},
           NEW old \in Block \cup {None}, NEW grain \in Grain \cup {0},
           Call(t, op, size, old, grain)
    PROVE  /\ pc[t] = "idle" /\ call[t] = NoCall
           /\ Caller(t) \in Site /\ op \in Function
           /\ call' \in [Thread -> {NoCall} \cup Frame]
           /\ call'[t] \in Frame /\ call'[t] # NoCall
           /\ call'[t] = [op |-> op, site |-> Caller(t), size |-> size,
                          old |-> old, ret |-> None, grain |-> grain]
           /\ made' \in [Thread -> Nat] /\ program' = program
           /\ \A u \in Thread : made'[u] <= Len(program'[u])
<1>0. TypeOK /\ pc[t] = "idle" /\ call[t] = NoCall
  BY DEF HInv, Phases, Call
<1>1. /\ program \in Programs /\ program[t] \in Seq(Function) /\ made[t] \in Nat
      /\ made[t] < Len(program[t]) /\ op = program[t][made[t] + 1]
      /\ made \in [Thread -> Nat] /\ \A u \in Thread : made[u] <= Len(program[u])
      /\ \A u \in Thread : program[u] \in Seq(Function)
  BY <1>0, HooksAssumption DEF TypeOK, Call, Function
<1>2. Len(program[t]) \in Nat /\ DOMAIN program[t] = 1 .. Len(program[t])
  BY <1>1
<1>3. made[t] + 1 \in DOMAIN program[t] /\ op \in Function
  BY <1>1, <1>2
<1>4. Caller(t) \in Site
  <2> DEFINE S == {<<x, n>> : x \in Thread, n \in DOMAIN program[t]}
  <2>1. Caller(t) \in S
    BY <1>3 DEF Caller
  <2>2. S \in {{<<x, n>> : x \in Thread, n \in DOMAIN p[u]} : p \in Programs, u \in Thread}
    BY <1>1
  <2> HIDE DEF S
  <2> QED
    BY <2>1, <2>2 DEF Site
<1>5. made' = [made EXCEPT ![t] = made[t] + 1] /\ program' = program
  BY DEF Call
<1>6. \A u \in Thread : made'[u] <= Len(program'[u])
  BY <1>1, <1>2, <1>5
<1>7. call \in [Thread -> {NoCall} \cup Frame]
  BY <1>0 DEF TypeOK, Frame, Function
<1>8. call' = [call EXCEPT ![t] = [op |-> op, site |-> Caller(t), size |-> size,
                                   old |-> old, ret |-> None, grain |-> grain]]
  BY DEF Call
<1>9. [op |-> op, site |-> Caller(t), size |-> size, old |-> old, ret |-> None,
       grain |-> grain] \in Frame
  BY <1>3, <1>4 DEF Frame
<1>10. call'[t] # NoCall
  <2>1. call'[t] \in Frame
    BY <1>7, <1>8, <1>9
  <2>2. DOMAIN call'[t] = {"op", "size", "site", "old", "ret", "grain"}
    BY <2>1 DEF Frame
  <2>3. DOMAIN NoCall = {"op"}
    BY DEF NoCall
  <2> QED
    BY <2>2, <2>3
<1> QED
  BY <1>0, <1>1, <1>3, <1>4, <1>5, <1>6, <1>7, <1>8, <1>9, <1>10

(* The fields of the frame of a call.                                      *)
LEMMA CallMade ==
    ASSUME HInv, NEW t \in Thread, NEW op, NEW size, NEW old, NEW grain,
           Call(t, op, size, old, grain)
    PROVE  /\ call'[t].op = op /\ call'[t].site = Caller(t) /\ call'[t].size = size
           /\ call'[t].old = old /\ call'[t].ret = None /\ call'[t].grain = grain
           /\ call'[t] # NoCall
<1>1. call \in [Thread -> {NoCall} \cup Frame]
  BY DEF HInv, TypeOK, Frame, Function
<1>2. call'[t] = [op |-> op, site |-> Caller(t), size |-> size,
                  old |-> old, ret |-> None, grain |-> grain]
  BY <1>1 DEF Call
<1>3. DOMAIN call'[t] = {"op", "size", "site", "old", "ret", "grain"}
  BY <1>2
<1>4. DOMAIN NoCall = {"op"}
  BY DEF NoCall
<1> QED
  BY <1>2, <1>3, <1>4

(* The labels, with what only a step of the hooks changes.                 *)
Label == {"idle", "infos", "set", "delete", "real", "after", "return", "tlb", "walk", "found"}
Data == [allocSize : -IntLimit .. IntLimit - 1, allocCallsite : Site \cup {LibSite, None},
         newCallsite : Site \cup {None}]
MallocInfos == [ptr : Grain \cup {0}, size : -IntLimit .. IntLimit - 1,
                site : Site \cup {LibSite}]
Reg == [base : Grain \cup {0}, size : -IntLimit .. IntLimit - 1, value : Infos \cup {None}]

Typed ==
    /\ DirTypeOK
    /\ data \in [Thread -> Data] /\ infos \in [Infos -> {None} \cup MallocInfos]
    /\ alloc \in [Dir \X Index -> [Offset -> Infos \cup {None}]]
    /\ tlb \in [Thread ->
           [line : [TLB!Row -> [TLB!Way -> [addr : Address \cup {None},
                                            content : (Dir \X Index) \cup {None}]]],
            next : [TLB!Row -> TLB!Way]]]
    /\ pc \in [Thread -> Label] /\ call \in [Thread -> {NoCall} \cup Frame]
    /\ reg \in [Thread -> Reg]
    /\ todo \in [Thread -> SUBSET Address] /\ found \in [Thread -> Infos \cup {None}]
    /\ live \in SUBSET Block /\ owned \in SUBSET live
    /\ program \in Programs /\ made \in [Thread -> Nat]
    /\ \A t \in Thread : made[t] <= Len(program[t])
    /\ due \in [Block -> SUBSET (Site \cup {LibSite})]
    /\ thrown \in [Thread -> SUBSET Site] /\ lost \in SUBSET Grain

PageStates ==
    /\ status \in [Dir \X Index -> {"NONE", "FULL", "FRAG"}]
    /\ tested \in [Thread -> BOOLEAN]

(* The type invariant, in the names used here.                             *)
LEMMA TypeParts ==
    (TypeOK <=> Typed /\ PageStates) /\ (TypeOK' <=> Typed' /\ PageStates')
  BY DEF Typed, PageStates, TypeOK, Data, MallocInfos, Label, Frame, Function, Reg

-----------------------------------------------------------------------------
(* The lines of a TLB.                                                     *)

(* The row of an address, and the way after a way, are in the TLB.         *)
LEMMA WaysTyped ==
    ASSUME NEW a \in Address
    PROVE  /\ a % rows \in TLB!Row /\ a % rows \in Nat
           /\ TLB!Way \subseteq Nat
           /\ \A w \in TLB!Way : (w + 1) % ways \in TLB!Way
<1>1. a \in Nat /\ rows \in Nat /\ rows > 0 /\ ways \in Nat /\ ways > 0
  BY HooksAssumption
<1>2. a % rows \in 0 .. rows - 1
  BY <1>1, SMT
<1>3. \A w \in 0 .. ways - 1 : (w + 1) % ways \in 0 .. ways - 1
  BY <1>1, SMT
<1> QED
  BY <1>2, <1>3 DEF TLB!Row, TLB!Way

Line == [addr : Address \cup {None}, content : (Dir \X Index) \cup {None}]
Lines == [line : [TLB!Row -> [TLB!Way -> Line]], next : [TLB!Row -> TLB!Way]]

(* A look-up returns the content of a line of the address, or nothing.     *)
LEMMA LineFound ==
    ASSUME NEW cache \in Lines, NEW a \in Address
    PROVE  \/ TLB!get(cache, a) = None
           \/ \E r \in TLB!Row, w \in TLB!Way :
                 cache.line[r][w].addr = a /\ TLB!get(cache, a) = cache.line[r][w].content
<1> DEFINE line == cache.line[a % rows]
           hits == {w \in TLB!Way : line[w].addr = a}
           hit == CHOOSE w \in hits : \A v \in hits : w <= v
<1>1. CASE hits = {}
  BY <1>1 DEF TLB!get
<1>2. CASE hits # {}
  <2>1. hits \in SUBSET Nat
    BY WaysTyped
  <2>2. hit \in hits
    <3> HIDE DEF hits
    <3> QED
      BY <1>2, <2>1, LeastNatural
  <2>3. TLB!get(cache, a) = line[hit].content
    BY <1>2, SMTT(20) DEF TLB!get
  <2>4. a % rows \in TLB!Row
    BY WaysTyped
  <2> HIDE DEF hit
  <2> QED
    BY <2>2, <2>3, <2>4
<1> QED
  BY <1>1, <1>2

(* A look-up returns a page or nothing.                                    *)
LEMMA LineTyped ==
    ASSUME TypeOK, NEW t \in Thread, NEW a \in Address
    PROVE  TlbGet(t, a) \in (Dir \X Index) \cup {None}
<1>1. tlb[t] \in Lines
  BY DEF TypeOK, Lines, Line
<1> QED
  BY <1>1, LineFound DEF TlbGet, Lines, Line

(* A line is replaced; the others stay.                                    *)
LEMMA LineReplaced ==
    ASSUME NEW cache \in Lines, NEW a \in Address, NEW page \in Dir \X Index,
           NEW new, new = TLB!set(cache, a, page)
    PROVE  /\ new \in Lines
           /\ \A r \in TLB!Row, w \in TLB!Way :
                 \/ new.line[r][w] = cache.line[r][w]
                 \/ new.line[r][w].addr = a /\ new.line[r][w].content = page
<1> DEFINE r0 == a % rows
           w0 == cache.next[r0]
           line == [addr |-> a, content |-> page]
<1>1. r0 \in TLB!Row /\ w0 \in TLB!Way /\ (w0 + 1) % ways \in TLB!Way
  BY WaysTyped DEF Lines
<1>2. line \in Line
  BY DEF Line
<1>3. /\ new.line = [cache.line EXCEPT ![r0][w0] = line]
      /\ new.next = [cache.next EXCEPT ![r0] = (w0 + 1) % ways]
      /\ new = [line |-> new.line, next |-> new.next]
  BY DEF TLB!set
<1>4. line.addr = a /\ line.content = page
  OBVIOUS
<1>5. cache.line \in [TLB!Row -> [TLB!Way -> Line]] /\ cache.next \in [TLB!Row -> TLB!Way]
  BY DEF Lines
<1> HIDE DEF r0, w0, line
<1>6. new.line \in [TLB!Row -> [TLB!Way -> Line]]
  BY <1>1, <1>2, <1>3, <1>5
<1>7. new.next \in [TLB!Row -> TLB!Way]
  BY <1>1, <1>3, <1>5
<1>8. \A r \in TLB!Row, w \in TLB!Way :
         new.line[r][w] = cache.line[r][w] \/ new.line[r][w] = line
  BY <1>1, <1>3, <1>5
<1>9. new \in Lines
  BY <1>3, <1>6, <1>7 DEF Lines
<1>10. \A r \in TLB!Row, w \in TLB!Way :
          \/ new.line[r][w] = cache.line[r][w]
          \/ new.line[r][w].addr = a /\ new.line[r][w].content = page
  BY <1>4, <1>8
<1> QED
  BY <1>9, <1>10

(* Setting a line keeps the type of the TLBs.                              *)
LEMMA LineSet ==
    ASSUME TypeOK, NEW t \in Thread, NEW a \in Address, NEW page \in Dir \X Index,
           tlb' = [tlb EXCEPT ![t] = TLB!set(@, a, page)]
    PROVE  tlb' \in [Thread ->
           [line : [TLB!Row -> [TLB!Way -> [addr : Address \cup {None},
                                            content : (Dir \X Index) \cup {None}]]],
            next : [TLB!Row -> TLB!Way]]]
<1>1. tlb \in [Thread -> Lines]
  BY DEF TypeOK, Lines, Line
<1>2. TLB!set(tlb[t], a, page) \in Lines
  BY <1>1, LineReplaced
<1>3. tlb' \in [Thread -> Lines]
  BY <1>1, <1>2
<1> QED
  BY <1>3 DEF Lines, Line

(* The hooks keep a size that is an int, and a site.                       *)
LEMMA SetDataTyped ==
    ASSUME HInv, NEW t \in Thread, NEW size \in Size, NEW site \in Site, SetData(t, size, site)
    PROVE  data' \in [Thread -> Data]
<1>1. data \in [Thread -> Data]
  BY TypeParts DEF Typed, HInv
<1>2. toInt(size) \in -IntLimit .. IntLimit - 1
  BY SizesFit, BlocksTyped DEF Size
<1> QED
  BY <1>1, <1>2 DEF SetData, Data

(* What onAlloc makes is a MallocInfos.                                    *)
LEMMA InfosMade ==
    ASSUME HInv, NEW t \in Thread, onAlloc(t)
    PROVE  /\ [ptr |-> Base(call[t].ret), size |-> toInt(call[t].size), site |-> SiteOf(t)]
                  \in MallocInfos
           /\ [ptr |-> Base(call[t].ret), size |-> toInt(call[t].size), site |-> SiteOf(t)] # None
<1>1. TypeOK /\ Allocates(t)
  BY OnAlloc DEF HInv
<1>2. call[t].size \in Size \cup {0} /\ call[t].site \in Site /\ call[t].ret \in Block \cup {None}
  BY <1>1, TypeParts DEF Typed, Allocates, Frame
<1>3. call[t].size \in Nat
  BY <1>2, BlocksTyped DEF Size
<1>4. toInt(call[t].size) \in -IntLimit .. IntLimit - 1
  BY <1>3, SizesFit
<1>5. Base(call[t].ret) \in Grain \cup {0}
  BY <1>2, BlocksTyped DEF Base
<1>6. SiteOf(t) \in Site \cup {LibSite}
  <2>1. data[t].allocCallsite \in Site \cup {LibSite}
    BY <1>1, <1>2 DEF HInv, DataKept
  <2>2. data[t].newCallsite \in Site \cup {None}
    BY <1>1 DEF TypeOK
  <2> QED
    BY <2>1, <2>2 DEF SiteOf
<1>7. -IntLimit .. IntLimit - 1 \subseteq Int /\ Grain \cup {0} \subseteq Nat
  BY HooksAssumption, BlocksTyped, MemoryTyped
<1> QED
  BY <1>4, <1>5, <1>6, <1>7, NoneAssumption DEF MallocInfos

(* Every step keeps the types.                                             *)
LEMMA HookTyped ==
    ASSUME HInv, NEW t \in Thread, Step(t) \/ Act(t), DirTypeOK'
    PROVE  TypeOK'
<1>0. TypeOK /\ Typed /\ PageStates
  BY TypeParts DEF HInv
<1>p. \A s \in Size : s \in Nat /\ s \in Size \cup {0} /\ toInt(s) \in -IntLimit .. IntLimit - 1
  BY SizesFit, BlocksTyped DEF Size
<1>q. /\ \A l \in Label : [pc EXCEPT ![t] = l] \in [Thread -> Label]
      /\ [call EXCEPT ![t] = NoCall] \in [Thread -> {NoCall} \cup Frame]
  BY <1>0, TypeParts DEF Typed
<1>1. ASSUME NEW size \in Size, malloc(t, size) PROVE Typed'
  <2>1. Call(t, "malloc", size, None, 0) /\ SetData(t, size, Caller(t))
    BY <1>1 DEF malloc
  <2>2. Caller(t) \in Site /\ call' \in [Thread -> {NoCall} \cup Frame]
        /\ made' \in [Thread -> Nat] /\ program' = program
        /\ \A u \in Thread : made'[u] <= Len(program'[u])
    BY <1>p, <2>1, CallTyped
  <2>3. data' \in [Thread -> Data]
    BY <2>1, <2>2, SetDataTyped
  <2> QED
    BY <1>0, <1>q, <1>1, <2>2, <2>3, TypeParts DEF Typed, malloc, Goto, dirVars, histVars, Label
<1>2. ASSUME NEW size \in Size, beforeNew(t, size) PROVE Typed'
  <2>1. Call(t, "new", size, None, 0)
    BY <1>2 DEF beforeNew
  <2>2. Caller(t) \in Site /\ call' \in [Thread -> {NoCall} \cup Frame]
        /\ made' \in [Thread -> Nat] /\ program' = program
        /\ \A u \in Thread : made'[u] <= Len(program'[u])
    BY <1>p, <2>1, CallTyped
  <2>3. data' = [data EXCEPT ![t] =
           [allocSize |-> toInt(size), allocCallsite |-> LibSite,
            newCallsite |-> IF @.newCallsite = None THEN Caller(t) ELSE @.newCallsite]]
    BY <1>2 DEF beforeNew
  <2>4. data' \in [Thread -> Data]
    <3>1. data \in [Thread -> Data]
      BY <1>0, TypeParts DEF Typed
    <3> QED
      BY <1>p, <2>2, <2>3, <3>1 DEF Data
  <2> QED
    BY <1>0, <1>q, <1>2, <2>2, <2>4, TypeParts DEF Typed, beforeNew, Goto, dirVars, histVars, Label
<1>3. ASSUME NEW size \in Size, aligned_alloc(t, size) PROVE Typed'
  <2>1. Call(t, "aligned_alloc", size, None, 0)
    BY <1>3 DEF aligned_alloc
  <2>2. call' \in [Thread -> {NoCall} \cup Frame]
        /\ made' \in [Thread -> Nat] /\ program' = program
        /\ \A u \in Thread : made'[u] <= Len(program'[u])
    BY <1>p, <2>1, CallTyped
  <2> QED
    BY <1>0, <1>q, <1>3, <2>2, TypeParts DEF Typed, aligned_alloc, Goto, dirVars, toolVars, histVars, Label
<1>4. ASSUME NEW b \in Block \cup {None}, onFree(t, b) PROVE pc' \in [Thread -> Label]
  <2>1. CASE b = None
    BY <1>q, <1>4, <2>1 DEF onFree, Goto, Label
  <2>2. CASE b # None
    BY <1>q, <1>4, <2>2 DEF onFree, Goto, Label
  <2> QED
    BY <2>1, <2>2
<1>5. ASSUME NEW b \in Block \cup {None}, NEW size \in Size, beforeRealloc(t, b, size)
      PROVE Typed'
  <2>1. Call(t, "realloc", size, b, 0) /\ SetData(t, size, Caller(t)) /\ onFree(t, b)
    BY <1>5 DEF beforeRealloc
  <2>2. Caller(t) \in Site /\ call' \in [Thread -> {NoCall} \cup Frame]
        /\ made' \in [Thread -> Nat] /\ program' = program
        /\ \A u \in Thread : made'[u] <= Len(program'[u])
    BY <1>p, <2>1, CallTyped
  <2>3. data' \in [Thread -> Data] /\ pc' \in [Thread -> Label]
    BY <1>4, <2>1, <2>2, SetDataTyped
  <2> QED
    BY <1>0, <1>5, <2>2, <2>3, TypeParts DEF Typed, beforeRealloc, histVars
<1>6. ASSUME NEW b \in Block, beforeFree(t, b) PROVE Typed'
  <2>1. Call(t, "free", 0, b, 0) /\ onFree(t, b)
    BY <1>6 DEF beforeFree
  <2>2. call' \in [Thread -> {NoCall} \cup Frame]
        /\ made' \in [Thread -> Nat] /\ program' = program
        /\ \A u \in Thread : made'[u] <= Len(program'[u])
    BY <2>1, CallTyped
  <2>3. pc' \in [Thread -> Label]
    BY <1>4, <2>1
  <2> QED
    BY <1>0, <1>6, <2>2, <2>3, TypeParts DEF Typed, beforeFree, toolVars, histVars
<1>7. ASSUME NEW g \in Grain, onAccess(t, g) PROVE Typed'
  <2>1. Call(t, "access", 0, None, g)
    BY <1>7 DEF onAccess
  <2>2. call' \in [Thread -> {NoCall} \cup Frame]
        /\ made' \in [Thread -> Nat] /\ program' = program
        /\ \A u \in Thread : made'[u] <= Len(program'[u])
    BY <2>1, CallTyped
  <2> QED
    BY <1>0, <1>q, <1>7, <2>2, TypeParts DEF Typed, onAccess, Goto, dirVars, toolVars, histVars, Label
<1>8. ASSUME NEW base \in Grain \cup {0}, NEW size \in -IntLimit .. IntLimit - 1,
             NEW value \in Infos \cup {None},
             Starts(t, base, size, value) \/ HasNone(t, base, size, value)
      PROVE  reg' \in [Thread -> Reg] /\ todo' \in [Thread -> SUBSET Address]
             /\ pc' \in [Thread -> Label]
  <2>1. reg \in [Thread -> Reg] /\ todo \in [Thread -> SUBSET Address] /\ pc \in [Thread -> Label]
    BY <1>0, TypeParts DEF Typed
  <2>2. CASE Starts(t, base, size, value)
    BY <2>1, <2>2 DEF Starts, Reg, Label
  <2>3. CASE HasNone(t, base, size, value)
    BY <2>1, <2>3 DEF HasNone, Registered, Label
  <2> QED
    BY <1>8, <2>2, <2>3
<1>9. ASSUME freeAllocPointer(t) PROVE Typed'
  <2>1. PICK b \in Block :
               /\ b = call[t].old
               /\ NotFound(t, b) \/ (\E i \in Infos : GivesUp(t, b, i))
               /\ UNCHANGED <<data, infos, alloc, tlb, call, live, owned, program,
                              made, due, thrown>>
    BY <1>9, FreeAllocPointer
  <2>2. CASE NotFound(t, b)
    <3>1. lost' \in SUBSET Grain
      BY <1>0, <2>2, BlocksTyped DEF NotFound, TypeOK
    <3>2. pc' \in [Thread -> Label]
      BY <1>q, <2>2 DEF NotFound, Label
    <3> QED
      BY <1>0, <2>1, <2>2, <3>1, <3>2, TypeParts DEF Typed, NotFound
  <2>3. ASSUME NEW i \in Infos, GivesUp(t, b, i) PROVE Typed'
    <3>1. b.base \in Grain /\ b.base \in Memory
      BY BlocksTyped
    <3>2. infos[i] # None
      BY <2>3, <3>1, HooksAssumption DEF GivesUp, HInv, EntriesTrue
    <3>3. infos[i].size \in -IntLimit .. IntLimit - 1
      BY <1>0, <3>2, TypeParts DEF Typed, MallocInfos
    <3>4. reg' \in [Thread -> Reg] /\ todo' \in [Thread -> SUBSET Address]
          /\ pc' \in [Thread -> Label]
      BY <1>8, <2>3, <3>1, <3>3 DEF GivesUp
    <3>5. found' \in [Thread -> Infos \cup {None}] /\ lost' = lost
      BY <1>0, <2>3, TypeParts DEF Typed, GivesUp
    <3> QED
      BY <1>0, <2>1, <3>4, <3>5, TypeParts DEF Typed
  <2> QED
    BY <2>1, <2>2, <2>3
<1>10. ASSUME setPage(t) PROVE Typed'
  <2>1. /\ UNCHANGED <<data, infos, tlb, call, found, live, owned, program, made, due, thrown>>
        /\ \E T \in SUBSET todo[t] : todo' = [todo EXCEPT ![t] = T]
        /\ UNCHANGED <<pc, reg>> \/ (/\ pc' = [pc EXCEPT ![t] = Registered(reg[t].value)]
                                     /\ reg' = [reg EXCEPT ![t] = NoReg])
    BY <1>10 DEF setPage, Goto, envVars
  <2>2. alloc' \in [Dir \X Index -> [Offset -> Infos \cup {None}]]
    BY <1>10, PageSet
  <2>3. todo' \in [Thread -> SUBSET Address] /\ lost' \in SUBSET Grain
    BY <1>0, <1>10, <2>1, PageSteps DEF TypeOK
  <2>4. NoReg \in Reg
    BY HooksAssumption DEF NoReg, Reg
  <2>5. pc' \in [Thread -> Label] /\ reg' \in [Thread -> Reg]
    <3>1. Registered(reg[t].value) \in Label
      BY DEF Registered, Label
    <3>2. reg \in [Thread -> Reg] /\ pc \in [Thread -> Label]
      BY <1>0, TypeParts DEF Typed
    <3> QED
      BY <1>q, <2>1, <2>4, <3>1, <3>2
  <2> QED
    BY <1>0, <2>1, <2>2, <2>3, <2>5, TypeParts DEF Typed
<1>11. ASSUME deleteInfos(t) PROVE Typed'
  <2>1. /\ UNCHANGED <<data, alloc, tlb, call, reg, todo, live, owned, program, made, due,
                       thrown, lost>>
        /\ infos' = [infos EXCEPT ![found[t]] = None] /\ found' = [found EXCEPT ![t] = None]
        /\ pc' = [pc EXCEPT ![t] = "real"]
    BY <1>11 DEF deleteInfos, Goto, envVars, histVars
  <2> QED
    BY <1>0, <1>q, <2>1, TypeParts DEF Typed, Label
<1>12. ASSUME real(t) PROVE Typed'
  <2>1. /\ UNCHANGED <<dirVars, data, infos, alloc, tlb, reg, todo, found, program, made,
                       due, thrown>>
        /\ call[t] # NoCall
        /\ \E l \in Label : pc' = [pc EXCEPT ![t] = l]
        /\ \/ \E b \in Block : /\ live' = (live \ {call[t].old}) \cup {b}
                               /\ call' = [call EXCEPT ![t].ret = b]
                               /\ UNCHANGED <<owned, lost>>
           \/ /\ owned' = owned \cup ({call[t].old} \ {None})
              /\ lost' = IF call[t].old = None THEN lost ELSE lost \cup GrainsOf(call[t].old)
              /\ UNCHANGED <<live, call>>
    BY <1>12 DEF real, Goto, toolVars, Free, Label, HInv, Phases
  <2>2. call[t] \in Frame /\ call \in [Thread -> {NoCall} \cup Frame]
    BY <1>0, <2>1, TypeParts DEF Typed
  <2>3. Held(t) = {call[t].old} \ {None} /\ Held(t) \subseteq live \ owned
    BY <1>12 DEF Held, HInv, HeldApart, real
  <2>4. pc' \in [Thread -> Label]
    BY <1>q, <2>1
  <2>5. ASSUME NEW b \in Block, call' = [call EXCEPT ![t].ret = b]
        PROVE  call' \in [Thread -> {NoCall} \cup Frame]
    BY <2>2, <2>5 DEF Frame
  <2>6. live' \in SUBSET Block /\ owned' \in SUBSET live' /\ lost' \in SUBSET Grain
    <3>1. live \in SUBSET Block /\ owned \in SUBSET live /\ lost \in SUBSET Grain
          /\ None \notin Block /\ call[t].old \in Block \cup {None}
      BY <1>0, <2>2, TypeParts, HooksAssumption DEF Typed, Frame
    <3>2. call[t].old \notin owned
      BY <2>3, <3>1
    <3>3. CASE UNCHANGED <<live, call>>
      BY <2>1, <2>3, <3>1, <3>3, BlocksTyped
    <3>4. CASE ~UNCHANGED <<live, call>>
      BY <2>1, <3>1, <3>2, <3>4
    <3> QED
      BY <3>3, <3>4
  <2> QED
    BY <1>0, <2>1, <2>4, <2>5, <2>6, TypeParts DEF Typed
<1>13. ASSUME free(t) PROVE Typed'
  <2>1. Held(t) = {call[t].old} \ {None} /\ Held(t) \subseteq live \ owned
    BY <1>13 DEF Held, HInv, HeldApart, free
  <2>2. owned' \in SUBSET live' /\ live' \in SUBSET Block
    <3>1. call[t].old \in Block /\ None \notin Block
      BY <1>13, HooksAssumption DEF free, HInv, Phases
    <3> QED
      BY <1>0, <1>13, <2>1, <3>1 DEF free, TypeOK
  <2> QED
    BY <1>0, <1>q, <1>13, <2>2, TypeParts DEF Typed, free, Goto, Return, Label, toolVars, histVars
<1>14. ASSUME onAlloc(t) PROVE Typed'
  <2>1. /\ Allocates(t)
        /\ NewInfos \in Infos
        /\ infos' = [infos EXCEPT ![NewInfos] =
                  [ptr |-> Base(call[t].ret), size |-> toInt(call[t].size), site |-> SiteOf(t)]]
        /\ UNCHANGED <<data, alloc, tlb, call, found, live, owned, program, made, thrown>>
    BY <1>14, OnAlloc
  <2>2. call[t].site \in Site
    BY <1>0, <2>1, TypeParts DEF Typed, Allocates, Frame
  <2>4. infos' \in [Infos -> {None} \cup MallocInfos]
    <3>1. infos \in [Infos -> {None} \cup MallocInfos]
      BY <1>0, TypeParts DEF Typed
    <3> QED
      BY <1>14, <2>1, <3>1, InfosMade
  <2>5. CASE /\ pc' = [pc EXCEPT ![t] = "return"]
             /\ UNCHANGED <<dirVars, reg, todo, due, lost>>
    <3>1. pc' \in [Thread -> Label]
      BY <1>q, <2>5 DEF Label
    <3> QED
      BY <1>0, <2>1, <2>4, <2>5, <3>1, TypeParts DEF Typed
  <2>6. ASSUME NEW b \in Block, b.size = call[t].size,
               Starts(t, b.base, toInt(b.size), NewInfos) \/ HasNone(t, b.base, toInt(b.size), NewInfos),
               due' = [due EXCEPT ![b] =
                        {call[t].site} \cup IF call[t].op = "realloc" THEN {} ELSE thrown[t]],
               lost' = lost \cup (GrainsOf(b) \ Written(b.base, toInt(b.size)))
        PROVE  Typed'
    <3>1. b.base \in Grain /\ toInt(b.size) \in -IntLimit .. IntLimit - 1
      BY <1>p, BlocksTyped, SizesFit
    <3>2. reg' \in [Thread -> Reg] /\ todo' \in [Thread -> SUBSET Address]
          /\ pc' \in [Thread -> Label]
      BY <1>8, <2>1, <2>6, <3>1
    <3>3. due' \in [Block -> SUBSET (Site \cup {LibSite})]
      <4>1. due \in [Block -> SUBSET (Site \cup {LibSite})] /\ thrown[t] \subseteq Site
        BY <1>0, TypeParts DEF Typed
      <4> QED
        BY <2>2, <2>6, <4>1
    <3>4. lost' \in SUBSET Grain
      BY <1>0, <2>6, BlocksTyped DEF TypeOK
    <3> QED
      BY <1>0, <2>1, <2>4, <3>2, <3>3, <3>4, TypeParts DEF Typed
  <2> QED
    BY <1>14, <2>5, <2>6, OnAlloc
<1>15. ASSUME return(t) PROVE Typed'
  <2>1. /\ UNCHANGED <<dirVars, infos, alloc, tlb, reg, todo, found, live, program, made, lost>>
        /\ pc' = [pc EXCEPT ![t] = "idle"] /\ call' = [call EXCEPT ![t] = NoCall]
        /\ owned' = owned \cup ({call[t].ret} \ {None})
        /\ UNCHANGED due \/ due' = [due EXCEPT ![call[t].ret] = {}]
        /\ \/ UNCHANGED <<data, thrown>>
           \/ data' = [data EXCEPT ![t].newCallsite = None] /\ thrown' = [thrown EXCEPT ![t] = {}]
           \/ thrown' = [thrown EXCEPT ![t] = @ \cup {call[t].site}] /\ UNCHANGED data
    BY <1>15 DEF return, Goto, Return
  <2>2. call[t] \in Frame /\ pc[t] = "return"
    BY <1>0, <1>15, TypeParts DEF Typed, return, HInv, Phases
  <2>3. owned' \in SUBSET live'
    <3>1. Held(t) = {call[t].ret} \ {None} /\ Held(t) \subseteq live \ owned
      BY <2>2 DEF Held, Releases, HInv, HeldApart
    <3> QED
      BY <1>0, <2>1, <3>1 DEF TypeOK
  <2>4. data' \in [Thread -> Data] /\ thrown' \in [Thread -> SUBSET Site]
    <3>1. data \in [Thread -> Data] /\ thrown \in [Thread -> SUBSET Site] /\ call[t].site \in Site
      BY <1>0, <2>2, TypeParts DEF Typed, Frame
    <3>2. [data EXCEPT ![t].newCallsite = None] \in [Thread -> Data]
      BY <3>1 DEF Data
    <3> QED
      BY <2>1, <3>1, <3>2
  <2>5. due' \in [Block -> SUBSET (Site \cup {LibSite})]
    BY <1>0, <2>1, TypeParts DEF Typed
  <2> QED
    BY <1>0, <1>q, <2>1, <2>3, <2>4, <2>5, TypeParts DEF Typed, Label
<1>16. ASSUME tlbLookup(t) PROVE Typed'
  <2> DEFINE a == PageOf(call[t].grain)
             p == TlbGet(t, a)
  <2>1. /\ UNCHANGED <<data, infos, alloc, tlb, reg, todo, call, live, owned, program, made,
                       due, thrown, lost>>
        /\ \/ /\ p # None
              /\ found' = [found EXCEPT ![t] = alloc[p][call[t].grain % Grains]]
              /\ pc' = [pc EXCEPT ![t] = "found"]
           \/ /\ UNCHANGED found
              /\ pc' = [pc EXCEPT ![t] = "walk"]
    BY <1>16 DEF tlbLookup, getAllocPointer, Goto, envVars, histVars
  <2>2. call[t].grain \in Grain /\ a \in Address /\ call[t].grain % Grains \in Offset
    BY <1>16, BlocksTyped, MemoryTyped, GrainOfPage DEF HInv, Phases, tlbLookup
  <2>3. p \in (Dir \X Index) \cup {None}
    BY <1>0, <2>2, LineTyped
  <2>4. found' \in [Thread -> Infos \cup {None}]
    <3> HIDE DEF p
    <3> QED
      <4>1. /\ alloc \in [Dir \X Index -> [Offset -> Infos \cup {None}]]
            /\ found \in [Thread -> Infos \cup {None}]
        BY <1>0, TypeParts DEF Typed
      <4>2. ASSUME p # None PROVE alloc[p][call[t].grain % Grains] \in Infos \cup {None}
        BY <2>2, <2>3, <4>1, <4>2
      <4> QED
        BY <2>1, <4>1, <4>2
  <2>5. pc' \in [Thread -> Label]
    BY <1>q, <2>1 DEF Label
  <2> QED
    BY <1>0, <2>1, <2>4, <2>5, TypeParts DEF Typed
<1>17. ASSUME tlbSet(t) PROVE Typed'
  <2>1. /\ UNCHANGED <<dirVars, data, infos, alloc, reg, todo, call, live, owned, program, made,
                       due, thrown, lost>>
        /\ found' = [found EXCEPT ![t] = alloc[PageAt(t)][call[t].grain % Grains]]
        /\ pc' = [pc EXCEPT ![t] = "found"]
        /\ tlb' = [tlb EXCEPT ![t] = TLB!set(@, want[t], PageAt(t))]
    BY <1>17 DEF tlbSet, getAllocPointer, Goto, envVars, histVars
  <2>2. call[t].grain \in Grain /\ want[t] \in Address /\ call[t].grain % Grains \in Offset
    BY <1>17, BlocksTyped, MemoryTyped, GrainOfPage DEF HInv, Phases, Walks, tlbSet
  <2>3. PageAt(t) \in Dir \X Index
    BY <1>17, <2>2, PageReached, MapTyped DEF HInv, IsPageMap, tlbSet
  <2>4. found' \in [Thread -> Infos \cup {None}] /\ pc' \in [Thread -> Label]
    BY <1>0, <1>q, <2>1, <2>2, <2>3, TypeParts DEF Typed, Label
  <2>5. tlb' \in [Thread ->
           [line : [TLB!Row -> [TLB!Way -> [addr : Address \cup {None},
                                            content : (Dir \X Index) \cup {None}]]],
            next : [TLB!Row -> TLB!Way]]]
    BY <1>0, <2>1, <2>2, <2>3, LineSet
  <2> QED
    BY <1>0, <2>1, <2>4, <2>5, TypeParts DEF Typed
<1>18. ASSUME counted(t) PROVE Typed'
  <2>1. /\ UNCHANGED <<data, infos, alloc, tlb, reg, todo, live, owned, program, made,
                       due, thrown, lost>>
        /\ found' = [found EXCEPT ![t] = None]
        /\ pc' = [pc EXCEPT ![t] = "idle"] /\ call' = [call EXCEPT ![t] = NoCall]
    BY <1>18 DEF counted, Return, Goto, envVars, histVars
  <2> QED
    BY <1>0, <1>q, <2>1, TypeParts DEF Typed, Label
<1>19. ASSUME UNCHANGED restVars PROVE Typed'
  BY <1>0, <1>19, TypeParts DEF Typed, restVars
<1>20. Typed'
  BY <1>1, <1>2, <1>3, <1>5, <1>6, <1>7, <1>9, <1>10, <1>11, <1>12, <1>13, <1>14, <1>15,
     <1>16, <1>17, <1>18, <1>19, StepsOf DEF Steps, Act
<1>21. PageStates'
  <2>1. status' \in [Dir \X Index -> {"NONE", "FULL", "FRAG"}]
    <3>1. CASE UNCHANGED status
      BY <1>0, <3>1 DEF PageStates
    <3>2. CASE setPage(t)
      BY <1>0, <3>2, PageSet DEF PageStates, Wrote, Left
    <3> QED
      BY <3>1, <3>2, PagesKept
  <2>2. tested' \in [Thread -> BOOLEAN]
    <3>1. CASE UNCHANGED tested
      BY <1>0, <3>1 DEF PageStates
    <3>2. CASE setPage(t) \/ regAllocPointerSmall(t)
      BY <1>0, <3>2 DEF PageStates, setPage, regAllocPointerSmall
    <3> QED
      BY <3>1, <3>2, PagesKept
  <2> QED
    BY <2>1, <2>2 DEF PageStates
<1> QED
  BY <1>20, <1>21, TypeParts

(* A step keeps the invariant of the directories.                          *)
LEMMA DirKept ==
    ASSUME HInv, NEW t \in Thread, Step(t) \/ Act(t)
    PROVE  [DirNext]_dirVars /\ IInv' /\ TypeOK'
<1>1. [DirNext]_dirVars
  BY DirStep DEF Next
<1>2. IInv'
  BY <1>1, NextTypeOK, NextIsTree, NextOnPath, NextLocked DEF IInv, HInv
<1> QED
  BY <1>1, <1>2, HookTyped DEF IInv

(* Only setPage changes what an address is registered for.                 *)
LEMMA EntryStep ==
    ASSUME HInv, NEW t \in Thread, Step(t) \/ Act(t)
    PROVE  /\ EntriesMapped'
           /\ setPage(t) \/ \A g \in Memory : InfosAt(g)' = InfosAt(g)
<1>1. [DirNext]_dirVars
  BY DirKept
<1>2. CASE setPage(t)
  BY <1>2, PageSet
<1>3. CASE ~setPage(t)
  <2>1. UNCHANGED alloc
    BY <1>3, PagesKept
  <2> QED
    BY <1>1, <2>1, EntryKept DEF HInv
<1> QED
  BY <1>2, <1>3

(* What a step does to the thread that takes it.                           *)
Own(t) == Phases(t) /\ Walks(t) /\ DataKept(t) /\ Writes(t)

(* getPage sets the address to walk to.                                    *)
LEMMA WantSet ==
    ASSUME DirTypeOK, NEW t \in Thread, NEW a, getPage(t, a)
    PROVE  want'[t] = a
  BY DEF DirTypeOK, getPage

(* A call of the program starts a phase as it should.                      *)
LEMMA OwnCall ==
    ASSUME HInv, NEW t \in Thread, Act(t), TypeOK'
    PROVE  Own(t)'
<1>0. /\ pc \in [Thread -> Label] /\ data \in [Thread -> Data] /\ DirTypeOK
      /\ 0 \notin Grain /\ None \notin Block
  BY TypeParts, BlocksTyped, HooksAssumption DEF Typed, HInv
<1>p. \A s \in Size : s \in Size \cup {0}
  OBVIOUS
<1>1. ASSUME NEW size \in Size, malloc(t, size) PROVE Own(t)'
  <2>1. Call(t, "malloc", size, None, 0) /\ SetData(t, size, Caller(t)) /\ Goto(t, "real")
    BY <1>1 DEF malloc
  <2>2. pc'[t] = "real" /\ call'[t] # NoCall
        /\ call'[t].op = "malloc" /\ call'[t].size = size /\ call'[t].site = Caller(t)
        /\ call'[t].old = None /\ call'[t].ret = None
    BY <1>0, <1>p, <2>1, CallMade DEF Goto
  <2>3. data'[t].allocSize = toInt(size) /\ data'[t].allocCallsite = Caller(t)
    BY <1>0, <2>1 DEF SetData, Data
  <2> QED
    BY <2>2, <2>3
       DEF Own, Phases, Walks, DataKept, Writes, Releases, Registers, Allocates
<1>2. ASSUME NEW size \in Size, beforeNew(t, size) PROVE Own(t)'
  <2>1. Call(t, "new", size, None, 0) /\ Goto(t, "real")
    BY <1>2 DEF beforeNew
  <2>2. pc'[t] = "real" /\ call'[t] # NoCall
        /\ call'[t].op = "new" /\ call'[t].size = size
        /\ call'[t].old = None /\ call'[t].ret = None
    BY <1>0, <1>p, <2>1, CallMade DEF Goto
  <2>3. data'[t].allocSize = toInt(size) /\ data'[t].allocCallsite = LibSite
    BY <1>0, <1>2 DEF beforeNew, Data
  <2> QED
    BY <2>2, <2>3
       DEF Own, Phases, Walks, DataKept, Writes, Releases, Registers, Allocates
<1>3. ASSUME NEW size \in Size, aligned_alloc(t, size) PROVE Own(t)'
  <2>1. Call(t, "aligned_alloc", size, None, 0) /\ Goto(t, "real")
    BY <1>3 DEF aligned_alloc
  <2>2. pc'[t] = "real" /\ call'[t] # NoCall
        /\ call'[t].op = "aligned_alloc" /\ call'[t].old = None /\ call'[t].ret = None
    BY <1>0, <1>p, <2>1, CallMade DEF Goto
  <2> QED
    BY <2>2
       DEF Own, Phases, Walks, DataKept, Writes, Releases, Registers, Allocates
<1>4. ASSUME NEW b \in Block \cup {None}, onFree(t, b)
      PROVE  IF b = None THEN pc'[t] = "real"
             ELSE pc'[t] = "infos" /\ want'[t] = PageOf(b.base)
  BY <1>0, <1>4, WantSet DEF onFree, Goto
<1>5. ASSUME NEW b \in Block \cup {None}, NEW size \in Size, beforeRealloc(t, b, size)
      PROVE Own(t)'
  <2>1. Call(t, "realloc", size, b, 0) /\ SetData(t, size, Caller(t)) /\ onFree(t, b)
    BY <1>5 DEF beforeRealloc
  <2>2. call'[t] # NoCall
        /\ call'[t].op = "realloc" /\ call'[t].size = size /\ call'[t].site = Caller(t)
        /\ call'[t].old = b /\ call'[t].ret = None
    BY <1>p, <2>1, CallMade
  <2>3. data'[t].allocSize = toInt(size) /\ data'[t].allocCallsite = Caller(t)
    BY <1>0, <2>1 DEF SetData, Data
  <2>4. IF b = None THEN pc'[t] = "real"
             ELSE pc'[t] = "infos" /\ want'[t] = PageOf(b.base)
    BY <1>4, <2>1
  <2> QED
    BY <1>0, <2>2, <2>3, <2>4
       DEF Own, Phases, Walks, DataKept, Writes, Releases, Registers, Allocates
<1>6. ASSUME NEW b \in Block, beforeFree(t, b) PROVE Own(t)'
  <2>1. Call(t, "free", 0, b, 0) /\ onFree(t, b)
    BY <1>6 DEF beforeFree
  <2>2. call'[t] # NoCall /\ call'[t].op = "free" /\ call'[t].old = b /\ call'[t].ret = None
    BY <2>1, CallMade
  <2>3. pc'[t] = "infos" /\ want'[t] = PageOf(b.base)
    BY <1>0, <1>4, <2>1
  <2> QED
    BY <2>2, <2>3
       DEF Own, Phases, Walks, DataKept, Writes, Releases, Registers, Allocates
<1>7. ASSUME NEW g \in Grain, onAccess(t, g) PROVE Own(t)'
  <2>1. Call(t, "access", 0, None, g) /\ Goto(t, "tlb")
    BY <1>7 DEF onAccess
  <2>2. call'[t] # NoCall /\ call'[t].op = "access" /\ call'[t].grain = g /\ pc'[t] = "tlb"
    BY <1>0, <2>1, CallMade DEF Goto
  <2> QED
    BY <2>2
       DEF Own, Phases, Walks, DataKept, Writes, Releases, Registers, Allocates
<1> QED
  BY <1>1, <1>2, <1>3, <1>5, <1>6, <1>7 DEF Act

(* freeAllocPointer goes on to the pages of the MallocInfos it found, to   *)
(* its deletion, or to the function.                                       *)
LEMMA OwnFreeAllocPointer ==
    ASSUME HInv, NEW t \in Thread, freeAllocPointer(t), TypeOK'
    PROVE  Own(t)'
<1>0. /\ pc \in [Thread -> Label] /\ reg \in [Thread -> Reg] /\ DirTypeOK
      /\ todo \in [Thread -> SUBSET Address] /\ found \in [Thread -> Infos \cup {None}]
      /\ None \notin Block
  BY TypeParts, HooksAssumption DEF Typed, HInv
<1>1. PICK b \in Block :
          /\ b = call[t].old /\ pc[t] = "infos"
          /\ NotFound(t, b) \/ (\E i \in Infos : GivesUp(t, b, i))
          /\ UNCHANGED <<data, infos, call>>
  BY FreeAllocPointer
<1>2. call[t].op \in {"realloc", "free"} /\ call[t] # NoCall /\ call[t].ret = None
      /\ DataKept(t)
  BY <1>1 DEF HInv, Phases, Releases
<1>3. DataKept(t)'
  BY <1>1, <1>2 DEF DataKept, Allocates
<1> USE DEF Phases, Walks, Writes, Releases, Registers, Current
<1>4. CASE NotFound(t, b)
  <2>1. pc'[t] = "real"
    BY <1>0, <1>4 DEF NotFound
  <2> QED
    BY <1>1, <1>2, <1>3, <2>1 DEF Own
<1>5. ASSUME NEW i \in Infos, GivesUp(t, b, i) PROVE Own(t)'
  <2>1. found'[t] = i /\ infos[i].ptr = b.base /\ i # None
    BY <1>0, <1>5, HooksAssumption DEF GivesUp
  <2>2. infos[i] # None
    <3>1. b.base \in Memory /\ InfosAt(b.base) = i
      BY <1>5, BlocksTyped DEF GivesUp
    <3> QED
      BY <2>1, <3>1 DEF HInv, EntriesTrue
  <2>3. CASE Starts(t, b.base, infos[i].size, None)
    <3>1. pc'[t] = "set" /\ reg'[t] = [base |-> b.base, size |-> infos[i].size, value |-> None]
          /\ todo'[t] = Pages(b.base, infos[i].size) /\ todo'[t] # {}
          /\ want'[t] = First(b.base, todo'[t])
      BY <1>0, <2>3, WantSet DEF Starts
    <3>2. reg'[t].base = b.base /\ reg'[t].size = infos[i].size /\ reg'[t].value = None
      BY <3>1
    <3>3. \A p \in todo'[t] : \E g \in Written(reg'[t].base, reg'[t].size) : p = PageOf(g)
      BY <3>1, <3>2 DEF Pages
    <3>4. Walks(t)'
      BY <3>1, <3>2, <3>3
    <3>5. Writes(t)'
      BY <1>1, <2>1, <2>2, <3>1, <3>2
    <3>6. Phases(t)'
      BY <1>1, <1>2, <3>1, <3>2 DEF Allocates
    <3> QED
      BY <1>3, <3>4, <3>5, <3>6 DEF Own
  <2>4. CASE HasNone(t, b.base, infos[i].size, None)
    <3>1. pc'[t] = "delete"
      BY <1>0, <2>4 DEF HasNone, Registered
    <3> QED
      BY <1>1, <1>2, <1>3, <2>1, <2>2, <3>1 DEF Own, Allocates
  <2> QED
    BY <1>5, <2>3, <2>4 DEF GivesUp
<1> QED
  BY <1>1, <1>4, <1>5

(* A page is written after the walk to it, and the next is walked to.      *)
LEMMA OwnSetPage ==
    ASSUME HInv, NEW t \in Thread, setPage(t), TypeOK'
    PROVE  Own(t)'
<1>0. /\ pc \in [Thread -> Label] /\ reg \in [Thread -> Reg] /\ DirTypeOK
      /\ todo \in [Thread -> SUBSET Address]
  BY TypeParts DEF Typed, HInv
<1> DEFINE left == todo[t] \ {Current(t)}
<1>1. /\ pc[t] = "set" /\ UNCHANGED <<data, infos, call, found>>
      /\ todo'[t] = left
      /\ IF left # {} THEN getPage(t, First(reg[t].base, left)) /\ UNCHANGED <<pc, reg>>
         ELSE pc' = [pc EXCEPT ![t] = Registered(reg[t].value)]
  BY <1>0 DEF setPage, Goto
<1>2. Phases(t) /\ Walks(t) /\ DataKept(t) /\ Writes(t)
  BY DEF HInv
<1>3. CASE left # {}
  <2>1. want'[t] = First(reg[t].base, todo'[t]) /\ UNCHANGED <<pc, reg>>
    BY <1>0, <1>1, <1>3, WantSet
  <2>2. Walks(t)'
    BY <1>1, <1>2, <1>3, <2>1 DEF Walks, Current
  <2>3. Phases(t)' /\ DataKept(t)' /\ Writes(t)'
    BY <1>1, <1>2, <2>1 DEF Phases, DataKept, Writes, Releases, Registers, Allocates
  <2> QED
    BY <2>2, <2>3 DEF Own
<1>4. CASE left = {}
  <2>1. pc'[t] = Registered(reg[t].value)
    BY <1>0, <1>1, <1>4
  <2>2. pc'[t] = IF reg[t].value = None THEN "delete" ELSE "return"
    BY <2>1 DEF Registered
  <2> HIDE DEF left
  <2> QED
    BY <1>1, <1>2, <2>2 DEF Own, Phases, Walks, DataKept, Writes, Releases, Registers, Allocates
<1> QED
  BY <1>3, <1>4

(* onAlloc goes on to the pages of the MallocInfos it made.                *)
LEMMA OwnOnAlloc ==
    ASSUME HInv, NEW t \in Thread, onAlloc(t), TypeOK'
    PROVE  Own(t)'
<1>0. /\ pc \in [Thread -> Label] /\ reg \in [Thread -> Reg] /\ DirTypeOK
      /\ todo \in [Thread -> SUBSET Address] /\ None \notin Infos
      /\ infos \in [Infos -> {None} \cup MallocInfos]
  BY TypeParts, HooksAssumption DEF Typed, HInv
<1> DEFINE made0 == [ptr |-> Base(call[t].ret), size |-> toInt(call[t].size), site |-> SiteOf(t)]
<1>1. /\ pc[t] = "after" /\ Allocates(t) /\ UNCHANGED <<data, call>>
      /\ NewInfos \in Infos /\ infos' = [infos EXCEPT ![NewInfos] = made0]
      /\ \/ call[t].ret = None /\ pc' = [pc EXCEPT ![t] = "return"]
         \/ \E b \in Block :
                 /\ b = call[t].ret /\ b # None /\ b.size = call[t].size
                 /\ Base(call[t].ret) = b.base
                 /\ \/ Starts(t, b.base, toInt(b.size), NewInfos)
                    \/ HasNone(t, b.base, toInt(b.size), NewInfos)
  BY OnAlloc
<1>2. DataKept(t) /\ (call[t].ret = None \/ call[t].ret.size = call[t].size) /\ call[t] # NoCall
  BY <1>1 DEF HInv, Phases, Allocates
<1>3. DataKept(t)'
  BY <1>1, <1>2 DEF DataKept, Allocates
<1>4. ASSUME pc'[t] = "return" PROVE Own(t)'
  BY <1>1, <1>2, <1>3, <1>4 DEF Own, Phases, Walks, Writes, Releases, Registers, Allocates
<1>5. infos'[NewInfos] = made0 /\ made0 # None /\ NewInfos # None
  BY <1>0, <1>1, InfosMade
<1>6. made0.ptr = Base(call[t].ret) /\ made0.size = toInt(call[t].size)
  OBVIOUS
<1>7. ASSUME NEW b \in Block, b = call[t].ret, b.size = call[t].size,
             Base(call[t].ret) = b.base,
             Starts(t, b.base, toInt(b.size), NewInfos)
      PROVE  Own(t)'
  <2>1. /\ pc'[t] = "set"
        /\ reg'[t] = [base |-> b.base, size |-> toInt(b.size), value |-> NewInfos]
        /\ todo'[t] = Pages(b.base, toInt(b.size)) /\ todo'[t] # {}
        /\ want'[t] = First(b.base, todo'[t])
    BY <1>0, <1>7, WantSet DEF Starts
  <2>2. reg'[t].base = b.base /\ reg'[t].size = toInt(b.size) /\ reg'[t].value = NewInfos
    BY <2>1
  <2>3. \A p \in todo'[t] : \E g \in Written(reg'[t].base, reg'[t].size) : p = PageOf(g)
    BY <2>1, <2>2 DEF Pages
  <2>4. Walks(t)'
    BY <2>1, <2>2, <2>3 DEF Walks, Current
  <2> HIDE DEF made0
  <2>5. Writes(t)'
    BY <1>1, <1>5, <1>6, <1>7, <2>1, <2>2 DEF Writes, Registers, Releases
  <2>6. Phases(t)'
    BY <1>1, <1>2, <1>5, <1>7, <2>1, <2>2 DEF Phases, Releases, Registers, Allocates
  <2> QED
    BY <1>3, <2>4, <2>5, <2>6 DEF Own
<1>8. ASSUME NEW b \in Block, HasNone(t, b.base, toInt(b.size), NewInfos) PROVE Own(t)'
  <2>1. pc'[t] = "return"
    BY <1>0, <1>5, <1>8 DEF HasNone, Registered
  <2> QED
    BY <1>4, <2>1
<1>9. ASSUME pc' = [pc EXCEPT ![t] = "return"] PROVE Own(t)'
  BY <1>0, <1>4, <1>9
<1> HIDE DEF made0
<1> QED
  BY <1>1, <1>7, <1>8, <1>9

(* Every step leaves its thread in a phase as it should be.                *)
LEMMA OwnStep ==
    ASSUME HInv, NEW t \in Thread, Step(t), TypeOK'
    PROVE  Own(t)'
<1>0. /\ pc \in [Thread -> Label] /\ call \in [Thread -> {NoCall} \cup Frame] /\ DirTypeOK
      /\ call[t] # NoCall => call[t] \in Frame
  BY TypeParts DEF Typed, HInv
<1>h. Phases(t) /\ Walks(t) /\ DataKept(t) /\ Writes(t)
  BY DEF HInv
<1>1. CASE deleteInfos(t)
  <2>1. pc[t] = "delete" /\ pc'[t] = "real" /\ UNCHANGED <<data, call>>
    BY <1>0, <1>1 DEF deleteInfos, Goto
  <2> QED
    BY <1>h, <2>1 DEF Own, Phases, Walks, DataKept, Writes, Releases, Registers, Allocates
<1>2. CASE free(t) \/ counted(t) \/ return(t)
  <2>1. pc'[t] = "idle" /\ call'[t] = NoCall
    BY <1>0, <1>2 DEF free, counted, return, Return, Goto
  <2> QED
    BY <2>1 DEF Own, Phases, Walks, DataKept, Writes, Releases, Registers, Allocates
<1>3. CASE real(t)
  <2>1. /\ pc[t] = "real" /\ call[t].op # "free" /\ call[t] # NoCall /\ UNCHANGED data
        /\ pc'[t] = IF call[t].op = "aligned_alloc" THEN "return" ELSE "after"
    BY <1>0, <1>3, <1>h DEF real, Goto, Phases, toolVars
  <2>2. \/ UNCHANGED call
        \/ \E b \in Block : b.size = call[t].size /\ call' = [call EXCEPT ![t].ret = b]
    BY <1>3 DEF real, Free
  <2>3. call[t].op \in {"malloc", "new", "realloc", "aligned_alloc"} /\ call[t] \in Frame
    BY <1>0, <2>1, <1>h DEF Phases, Frame, Function
  <2>4. CASE UNCHANGED call
    <3>1. call[t].ret = None
      BY <1>h, <2>1 DEF Phases
    <3> QED
      BY <1>h, <2>1, <2>3, <2>4, <3>1
         DEF Own, Phases, Walks, DataKept, Writes, Releases, Registers, Allocates
  <2>5. ASSUME NEW b \in Block, b.size = call[t].size, call' = [call EXCEPT ![t].ret = b]
        PROVE  Own(t)'
    <3>1. /\ call'[t].op = call[t].op /\ call'[t].size = call[t].size
          /\ call'[t].site = call[t].site /\ call'[t].ret = b
          /\ call'[t].old = call[t].old /\ call'[t] \in Frame /\ call'[t] # NoCall
      <4>1. call[t] \in Frame /\ b \in Block \cup {None}
        BY <2>3
      <4>2. call'[t] = [call[t] EXCEPT !.ret = b]
        BY <1>0, <2>5
      <4>3. call'[t] \in Frame
        BY <4>1, <4>2 DEF Frame
      <4>4. DOMAIN call'[t] = {"op", "size", "site", "old", "ret", "grain"}
        BY <4>3 DEF Frame
      <4>5. DOMAIN NoCall = {"op"}
        BY DEF NoCall
      <4>6. call'[t] # NoCall
        BY <4>4, <4>5
      <4> QED
        BY <4>1, <4>2, <4>3, <4>6 DEF Frame
    <3> QED
      BY <1>h, <2>1, <2>3, <2>5, <3>1
         DEF Own, Phases, Walks, DataKept, Writes, Releases, Registers, Allocates
  <2> QED
    BY <2>2, <2>4, <2>5
<1>4. CASE tlbLookup(t)
  <2>1. /\ pc[t] = "tlb" /\ UNCHANGED <<data, call>>
        /\ \/ pc'[t] = "found"
           \/ pc'[t] = "walk" /\ want'[t] = PageOf(call[t].grain)
    BY <1>0, <1>4, WantSet DEF tlbLookup, getAllocPointer, Goto
  <2> QED
    BY <1>h, <2>1 DEF Own, Phases, Walks, DataKept, Writes, Releases, Registers, Allocates
<1>5. CASE tlbSet(t)
  <2>1. pc[t] = "walk" /\ pc'[t] = "found" /\ UNCHANGED <<data, call>>
    BY <1>0, <1>5 DEF tlbSet, getAllocPointer, Goto
  <2> QED
    BY <1>h, <2>1 DEF Own, Phases, Walks, DataKept, Writes, Releases, Registers, Allocates
<1>6. CASE (Walk(t) \/ UNCHANGED dirVars) /\ UNCHANGED restVars
  <2>1. UNCHANGED want
    BY <1>6 DEF Walk, getEntry, makeNewEntry, lock, recheck, create, unlock, returnEntry, dirVars
  <2> QED
    BY <1>h, <1>6, <2>1
       DEF restVars, Own, Phases, Walks, DataKept, Writes, Releases, Registers, Allocates, Current
<1> QED
  BY StepsOf, <1>1, <1>2, <1>3, <1>4, <1>5, <1>6, OwnFreeAllocPointer, OwnSetPage, OwnOnAlloc DEF Steps

(* How blocks change hands.                                                *)
Keeps(t) == Held(t)' = Held(t) /\ UNCHANGED <<live, owned>>

Takes(t) ==
    \E b \in owned : /\ b \notin Accessed
                     /\ Held(t) = {} /\ Held(t)' = {b} /\ owned' = owned \ {b} /\ UNCHANGED live

GivesBack(t) ==
    Held(t)' = {} /\ owned' = owned \cup Held(t) /\ UNCHANGED live

Frees(t) ==
    Held(t)' = {} /\ live' = live \ Held(t) /\ UNCHANGED owned

Obtains(t, b) ==
    /\ \A c \in live \ Held(t) : GrainsOf(b) \cap GrainsOf(c) = {}
    /\ b \in Block \ Accessed
    /\ Held(t)' = {b} /\ live' = (live \ Held(t)) \cup {b} /\ UNCHANGED owned

(* A step leaves the blocks with who has them, or hands over one: a free   *)
(* or realloc takes it, a return or a failed realloc gives it back, free   *)
(* ends it, the allocator gives one.                                       *)
LEMMA HandsOver ==
    ASSUME HInv, NEW t \in Thread, Step(t) \/ Act(t), TypeOK'
    PROVE  \/ Keeps(t) \/ Takes(t)
           \/ GivesBack(t) /\ (return(t) \/ real(t))
           \/ Frees(t) /\ free(t)
           \/ real(t) /\ \E b \in Block : Obtains(t, b) /\ call'[t].ret = b
<1>0. /\ pc \in [Thread -> Label] /\ call \in [Thread -> {NoCall} \cup Frame]
      /\ owned \subseteq live /\ live \subseteq Block /\ None \notin Block
      /\ reg \in [Thread -> Reg]
      /\ call[t] # NoCall => call[t].old \in Block \cup {None} /\ call[t].ret \in Block \cup {None}
  BY TypeParts, HooksAssumption DEF Typed, HInv, Frame
<1>h. Phases(t) /\ Own(t)'
  BY OwnStep, OwnCall DEF HInv
<1> USE DEF Held, Releases, Registers
<1>1. ASSUME NEW size \in Size, malloc(t, size) \/ beforeNew(t, size) \/ aligned_alloc(t, size)
      PROVE Keeps(t)
  <2>1. pc[t] = "idle" /\ pc'[t] = "real" /\ UNCHANGED <<live, owned>>
    BY <1>0, <1>1 DEF malloc, beforeNew, aligned_alloc, Call, Goto
  <2>2. \E op : Call(t, op, size, None, 0)
    BY <1>1 DEF malloc, beforeNew, aligned_alloc
  <2>3. call'[t].old = None
    BY <2>2, CallMade
  <2> QED
    BY <2>1, <2>3 DEF Keeps
<1>2. ASSUME NEW b \in Block \cup {None}, NEW size \in Size, beforeRealloc(t, b, size)
      PROVE Keeps(t) \/ Takes(t)
  <2>1. /\ pc[t] = "idle" /\ owned' = owned \ {b} /\ UNCHANGED live
        /\ onFree(t, b) /\ Call(t, "realloc", size, b, 0)
        /\ b = None \/ b \in owned \ Accessed
    BY <1>2 DEF beforeRealloc, Call
  <2>2. call'[t].old = b
    BY <2>1, CallMade
  <2>3. pc'[t] \in {"real", "infos"}
    BY <1>0, <2>1 DEF onFree, Goto
  <2>4. CASE b = None
    BY <1>0, <2>1, <2>2, <2>3, <2>4 DEF Keeps
  <2>5. CASE b # None
    BY <1>0, <2>1, <2>2, <2>3, <2>5 DEF Takes
  <2> QED
    BY <2>4, <2>5
<1>3. ASSUME NEW b \in Block, beforeFree(t, b) PROVE Takes(t)
  <2>1. /\ pc[t] = "idle" /\ owned' = owned \ {b} /\ UNCHANGED live
        /\ onFree(t, b) /\ Call(t, "free", 0, b, 0)
        /\ b \in owned \ Accessed
    BY <1>3 DEF beforeFree, Call
  <2>2. call'[t].old = b
    BY <2>1, CallMade
  <2>3. pc'[t] \in {"real", "infos"}
    BY <1>0, <2>1 DEF onFree, Goto
  <2> QED
    BY <1>0, <2>1, <2>2, <2>3 DEF Takes
<1>4. ASSUME NEW g \in Grain, onAccess(t, g) PROVE Keeps(t)
  <2>1. pc[t] = "idle" /\ pc'[t] = "tlb" /\ UNCHANGED <<live, owned>>
    BY <1>0, <1>4 DEF onAccess, Call, Goto
  <2> QED
    BY <2>1 DEF Keeps
<1>5. CASE freeAllocPointer(t)
  <2>1. PICK b \in Block :
          /\ b = call[t].old /\ pc[t] = "infos"
          /\ NotFound(t, b) \/ (\E i \in Infos : GivesUp(t, b, i))
          /\ UNCHANGED <<call, live, owned>>
    BY <1>5, FreeAllocPointer
  <2>2. pc'[t] \in {"real", "delete"} \/ (pc'[t] = "set" /\ reg'[t].value = None)
    <3>1. CASE NotFound(t, b)
      BY <1>0, <3>1 DEF NotFound
    <3>2. ASSUME NEW i \in Infos, GivesUp(t, b, i)
          PROVE  pc'[t] = "delete" \/ (pc'[t] = "set" /\ reg'[t].value = None)
      <4>1. CASE Starts(t, b.base, infos[i].size, None)
        <5>1. pc'[t] = "set" /\ reg'[t] = [base |-> b.base, size |-> infos[i].size, value |-> None]
          BY <1>0, <4>1 DEF Starts
        <5> QED
          BY <5>1
      <4>2. CASE HasNone(t, b.base, infos[i].size, None)
        BY <1>0, <4>2 DEF HasNone, Registered
      <4> QED
        BY <3>2, <4>1, <4>2 DEF GivesUp
    <3> QED
      BY <2>1, <3>1, <3>2
  <2> QED
    BY <2>1, <2>2 DEF Keeps
<1>6. CASE setPage(t)
  <2>1. /\ pc[t] = "set" /\ UNCHANGED <<call, live, owned>>
        /\ \/ UNCHANGED <<pc, reg>>
           \/ pc'[t] = IF reg[t].value = None THEN "delete" ELSE "return"
    BY <1>0, <1>6 DEF setPage, Goto, Registered, envVars
  <2> QED
    BY <2>1 DEF Keeps
<1>7. CASE deleteInfos(t)
  <2>1. pc[t] = "delete" /\ pc'[t] = "real" /\ UNCHANGED <<call, live, owned>>
    BY <1>0, <1>7 DEF deleteInfos, Goto, envVars
  <2> QED
    BY <2>1 DEF Keeps
<1>8. CASE real(t)
  <2>1. /\ pc[t] = "real" /\ pc'[t] \in {"return", "after"} /\ call[t] # NoCall
    BY <1>0, <1>8, <1>h DEF real, Goto, Phases
  <2>2. Held(t) = {call[t].old} \ {None}
    BY <2>1
  <2>3. CASE UNCHANGED <<live, call>> /\ owned' = owned \cup ({call[t].old} \ {None})
    <3>1. call[t].ret = None
      BY <1>h, <2>1 DEF Phases
    <3> QED
      BY <1>8, <2>1, <2>2, <2>3, <3>1 DEF GivesBack
  <2>4. ASSUME NEW b \in Free(call[t].size, live \ {call[t].old}),
               live' = (live \ {call[t].old}) \cup {b},
               call' = [call EXCEPT ![t].ret = b], UNCHANGED owned
        PROVE  Obtains(t, b) /\ b \in Block /\ call'[t].ret = b
    <3>1. /\ \A c \in live \ Held(t) : GrainsOf(b) \cap GrainsOf(c) = {}
          /\ b \in Block \ Accessed
      BY <1>0, <2>2 DEF Free
    <3>2. call'[t].ret = b
      BY <1>0, <2>1, <2>4 DEF Frame
    <3>3. live' = (live \ Held(t)) \cup {b}
      BY <1>0, <2>2, <2>4
    <3>4. Held(t)' = {b}
      BY <1>0, <2>1, <3>1, <3>2
    <3> QED
      BY <2>4, <3>1, <3>2, <3>3, <3>4 DEF Obtains
  <2> QED
    BY <1>8, <2>3, <2>4 DEF real
<1>9. CASE free(t)
  <2>1. pc[t] = "real" /\ pc'[t] = "idle" /\ live' = live \ {call[t].old} /\ UNCHANGED owned
    BY <1>0, <1>9 DEF free, Return, Goto
  <2> QED
    BY <1>0, <1>9, <2>1 DEF Frees
<1>10. CASE onAlloc(t)
  <2>1. pc[t] = "after" /\ UNCHANGED <<call, live, owned>> /\ NewInfos # None
    BY <1>10, OnAlloc, HooksAssumption
  <2>2. pc'[t] = "return" \/ (pc'[t] = "set" /\ reg'[t].value = NewInfos)
    <3>1. ASSUME NEW base, NEW size, Starts(t, base, size, NewInfos)
          PROVE  pc'[t] = "set" /\ reg'[t].value = NewInfos
      <4>1. pc'[t] = "set" /\ reg'[t] = [base |-> base, size |-> size, value |-> NewInfos]
        BY <1>0, <3>1 DEF Starts
      <4> QED
        BY <4>1
    <3>2. ASSUME NEW base, NEW size, HasNone(t, base, size, NewInfos) PROVE pc'[t] = "return"
      BY <1>0, <2>1, <3>2 DEF HasNone, Registered
    <3>3. ASSUME pc' = [pc EXCEPT ![t] = "return"] PROVE pc'[t] = "return"
      BY <1>0, <3>3
    <3> QED
      BY <1>10, <3>1, <3>2, <3>3, OnAlloc
  <2> QED
    BY <2>1, <2>2 DEF Keeps
<1>11. CASE return(t)
  <2>1. pc[t] = "return" /\ pc'[t] = "idle" /\ owned' = owned \cup ({call[t].ret} \ {None})
        /\ UNCHANGED live
    BY <1>0, <1>11 DEF return, Return, Goto
  <2> QED
    BY <1>11, <2>1 DEF GivesBack
<1>12. CASE tlbLookup(t) \/ tlbSet(t) \/ counted(t)
  <2>1. /\ pc[t] \in {"tlb", "walk", "found"} /\ UNCHANGED <<live, owned>>
        /\ pc'[t] \in {"found", "walk", "idle"}
    BY <1>0, <1>12 DEF tlbLookup, tlbSet, counted, getAllocPointer, Return, Goto, envVars
  <2> QED
    BY <2>1 DEF Keeps
<1>13. CASE UNCHANGED restVars
  BY <1>13 DEF restVars, Keeps
<1> HIDE DEF Held, Releases, Registers
<1> QED
  BY StepsOf, <1>1, <1>2, <1>3, <1>4, <1>5, <1>6, <1>7, <1>8, <1>9, <1>10, <1>11, <1>12, <1>13
     DEF Steps, Act

(* The other threads hold what they held.                                  *)
LEMMA OthersHold ==
    ASSUME NEW t \in Thread, Others(t), NEW u \in Thread \ {t}
    PROVE  Held(u)' = Held(u)
  BY DEF Others, Held, Releases, Registers

(* Blocks given away stay disjoint, and one thread at most holds a block.  *)
LEMMA HeldApartKept ==
    ASSUME HInv, NEW t \in Thread, Step(t) \/ Act(t), TypeOK'
    PROVE  HeldApart'
<1>0. /\ owned \subseteq live /\ live \subseteq Block /\ HeldApart
      /\ \A b \in Block : b.base \in GrainsOf(b)
  BY BlocksTyped DEF HInv, TypeOK
<1>1. \A u \in Thread \ {t} : Held(u)' = Held(u)
  BY OnlyOne, OthersHold
<1>2. CASE Keeps(t)
  BY <1>0, <1>1, <1>2 DEF HeldApart, Keeps
<1>3. CASE Takes(t)
  BY <1>0, <1>1, <1>3 DEF HeldApart, Takes
<1>4. CASE GivesBack(t)
  BY <1>0, <1>1, <1>4 DEF HeldApart, GivesBack
<1>5. CASE Frees(t)
  BY <1>0, <1>1, <1>5 DEF HeldApart, Frees
<1>6. ASSUME NEW b \in Block, Obtains(t, b) PROVE HeldApart'
  <2>1. b \notin live \ Held(t)
    BY <1>0, <1>6 DEF Obtains
  <2>2. \A c, d \in live' : c # d => GrainsOf(c) \cap GrainsOf(d) = {}
    BY <1>0, <1>6, <2>1 DEF HeldApart, Obtains
  <2>3. \A u \in Thread : Held(u)' \subseteq live' \ owned'
    BY <1>0, <1>1, <1>6, <2>1 DEF HeldApart, Obtains
  <2>4. \A u, v \in Thread : u # v => Held(u)' \cap Held(v)' = {}
    <3>1. ASSUME NEW u \in Thread \ {t} PROVE Held(u)' \cap Held(t)' = {}
      BY <1>0, <1>1, <1>6, <2>1, <3>1 DEF HeldApart, Obtains
    <3> QED
      BY <1>0, <1>1, <3>1 DEF HeldApart
  <2> QED
    BY <2>2, <2>3, <2>4 DEF HeldApart
<1> QED
  BY <1>2, <1>3, <1>4, <1>5, <1>6, HandsOver

(* The MallocInfos a step makes or deletes.                                *)
LEMMA InfosStep ==
    ASSUME HInv, NEW t \in Thread, Step(t) \/ Act(t)
    PROVE  \/ UNCHANGED infos
           \/ deleteInfos(t) /\ infos' = [infos EXCEPT ![found[t]] = None]
           \/ /\ onAlloc(t) /\ NewInfos \in Infos /\ infos[NewInfos] = None
              /\ infos' = [infos EXCEPT ![NewInfos] =
                     [ptr |-> Base(call[t].ret), size |-> toInt(call[t].size),
                      site |-> SiteOf(t)]]
<1>1. ASSUME NEW size \in Size, malloc(t, size) \/ beforeNew(t, size) \/ aligned_alloc(t, size)
      PROVE  UNCHANGED infos
  BY <1>1 DEF malloc, beforeNew, aligned_alloc, toolVars
<1>2. ASSUME NEW b \in Block \cup {None}, NEW size \in Size, beforeRealloc(t, b, size)
      PROVE  UNCHANGED infos
  BY <1>2 DEF beforeRealloc
<1>3. ASSUME NEW b \in Block, beforeFree(t, b) PROVE UNCHANGED infos
  BY <1>3 DEF beforeFree, toolVars
<1>4. ASSUME NEW g \in Grain, onAccess(t, g) PROVE UNCHANGED infos
  BY <1>4 DEF onAccess, toolVars
<1>5. CASE freeAllocPointer(t) \/ setPage(t)
  BY <1>5 DEF freeAllocPointer, setPage
<1>6. CASE real(t) \/ free(t) \/ return(t)
  BY <1>6 DEF real, free, return, toolVars
<1>7. CASE tlbLookup(t) \/ tlbSet(t) \/ counted(t) \/ UNCHANGED restVars
  BY <1>7 DEF tlbLookup, tlbSet, counted, restVars
<1>8. CASE deleteInfos(t)
  BY <1>8 DEF deleteInfos
<1>9. CASE onAlloc(t)
  BY <1>9, OnAlloc
<1> QED
  BY StepsOf, <1>1, <1>2, <1>3, <1>4, <1>5, <1>6, <1>7, <1>8, <1>9 DEF Steps, Act

(* Two threads hold blocks of different addresses.                         *)
LEMMA BasesApart ==
    ASSUME HInv, NEW t \in Thread, NEW u \in Thread, t # u,
           NEW b \in Held(t), NEW c \in Held(u)
    PROVE  b.base # c.base
<1>1. b \in live /\ c \in live /\ b # c /\ b \in Block /\ c \in Block
  BY DEF HInv, HeldApart, TypeOK
<1> QED
  BY <1>1, BlocksTyped DEF HInv, HeldApart

(* Two threads register or give up two MallocInfos.                        *)
Working(t) == Registers(t) \/ (Releases(t) /\ pc[t] # "infos")
WorksOn(t) == IF Registers(t) THEN reg[t].value ELSE found[t]

(* The MallocInfos a thread works on exists, and is of the block it holds. *)
LEMMA WorkTyped ==
    ASSUME HInv, NEW t \in Thread, Working(t)
    PROVE  /\ WorksOn(t) \in Infos /\ WorksOn(t) # None /\ infos[WorksOn(t)] # None
           /\ \E b \in Held(t) : infos[WorksOn(t)].ptr = b.base
           /\ Registers(t) => ~Releases(t)
<1>0. /\ pc \in [Thread -> Label] /\ reg \in [Thread -> Reg]
      /\ found \in [Thread -> Infos \cup {None}] /\ None \notin Infos /\ None \notin Block
  BY TypeParts, HooksAssumption DEF Typed, HInv
<1>1. Phases(t) /\ Writes(t)
  BY DEF HInv
<1>2. CASE Registers(t)
  <2>1. reg[t].value \in Infos
    BY <1>0, <1>2 DEF Registers, Reg
  <2>2. call[t].ret \in Held(t)
    BY <1>0, <1>1, <1>2 DEF Phases, Held, Registers, Releases
  <2>3. infos[reg[t].value] # None /\ infos[reg[t].value].ptr = call[t].ret.base
    BY <1>1, <1>2 DEF Writes
  <2> QED
    BY <1>0, <1>2, <2>1, <2>2, <2>3 DEF WorksOn, Registers, Releases
<1>3. CASE ~Registers(t)
  <2>1. Releases(t) /\ pc[t] # "infos"
    BY <1>3 DEF Working
  <2>2. call[t].old \in Held(t)
    BY <1>0, <1>1, <2>1 DEF Phases, Held
  <2>3. found[t] \in Infos /\ infos[found[t]] # None /\ infos[found[t]].ptr = call[t].old.base
    BY <1>0, <1>1, <2>1 DEF Writes
  <2> QED
    BY <1>0, <1>3, <2>2, <2>3 DEF WorksOn
<1> QED
  BY <1>2, <1>3

(* Two threads never work on one MallocInfos.                              *)
LEMMA OneWriter ==
    ASSUME HInv, NEW t \in Thread, NEW u \in Thread, t # u, Working(t), Working(u)
    PROVE  WorksOn(t) # WorksOn(u)
  BY WorkTyped, BasesApart

(* The phases of the other threads stay as they are.                       *)
LEMMA OthersPhases ==
    ASSUME HInv, NEW t \in Thread, Others(t), NEW u \in Thread \ {t}
    PROVE  /\ Phases(u)' /\ Walks(u)' /\ DataKept(u)'
           /\ Registers(u)' = Registers(u) /\ Releases(u)' = Releases(u)
           /\ Working(u)' = Working(u) /\ WorksOn(u)' = WorksOn(u)
           /\ Allocates(u)' = Allocates(u)
<1>1. Phases(u) /\ Walks(u) /\ DataKept(u)
  BY DEF HInv
<1>2. /\ Registers(u)' = Registers(u) /\ Releases(u)' = Releases(u)
      /\ Allocates(u)' = Allocates(u)
  BY DEF Others, Registers, Releases, Allocates
<1>3. Phases(u)'
  BY <1>1, <1>2 DEF Phases, Others
<1>4. Walks(u)'
  BY <1>1 DEF Walks, Others, Current
<1>5. DataKept(u)'
  BY <1>1, <1>2 DEF DataKept, Others
<1>6. Working(u)' = Working(u) /\ WorksOn(u)' = WorksOn(u)
  BY <1>2 DEF Working, WorksOn, Others
<1> QED
  BY <1>2, <1>3, <1>4, <1>5, <1>6

(* The MallocInfos another thread works on is not deleted.                 *)
LEMMA WritesKept ==
    ASSUME HInv, NEW t \in Thread, Step(t) \/ Act(t), NEW u \in Thread \ {t}
    PROVE  Writes(u)'
<1>1. Others(t) /\ Writes(u)
  BY OnlyOne DEF HInv
<1>2. infos \in [Infos -> {None} \cup MallocInfos]
  BY TypeParts DEF Typed, HInv
<1>3. Working(u) => infos'[WorksOn(u)] = infos[WorksOn(u)]
  <2> SUFFICES ASSUME Working(u) PROVE infos'[WorksOn(u)] = infos[WorksOn(u)]
    OBVIOUS
  <2>1. WorksOn(u) \in Infos /\ infos[WorksOn(u)] # None
    BY WorkTyped
  <2>2. CASE deleteInfos(t) /\ infos' = [infos EXCEPT ![found[t]] = None]
    <3>1. Working(t) /\ WorksOn(t) = found[t]
      BY <2>2 DEF deleteInfos, Working, WorksOn, Releases, Registers
    <3> QED
      BY <1>2, <2>1, <2>2, <3>1, OneWriter
  <2> QED
    BY <1>2, <2>1, <2>2, InfosStep
<1>4. Registers(u)' = Registers(u) /\ Releases(u)' = Releases(u)
  BY <1>1, OthersPhases
<1>5. CASE Registers(u)
  <2>1. infos'[reg[u].value] = infos[reg[u].value]
    BY <1>3, <1>5 DEF Working, WorksOn
  <2>2. ~Releases(u)
    BY <1>5, WorkTyped DEF Working
  <2> QED
    BY <1>1, <1>4, <1>5, <2>1, <2>2 DEF Writes, Others
<1>6. CASE Releases(u) /\ pc[u] # "infos"
  <2>1. ~Registers(u)
    BY <1>6, WorkTyped DEF Working
  <2>2. infos'[found[u]] = infos[found[u]]
    BY <1>3, <1>6, <2>1 DEF Working, WorksOn
  <2> QED
    BY <1>1, <1>4, <1>6, <2>1, <2>2 DEF Writes, Others
<1> QED
  BY <1>1, <1>4, <1>5, <1>6 DEF Writes, Others

(* A MallocInfos is made with the address and the size of a block, or for  *)
(* NULL.                                                                   *)
LEMMA InfosTrueKept ==
    ASSUME HInv, NEW t \in Thread, Step(t) \/ Act(t)
    PROVE  InfosTrue'
<1>1. InfosTrue /\ infos \in [Infos -> {None} \cup MallocInfos]
  BY TypeParts DEF Typed, HInv
<1>2. CASE UNCHANGED infos
  BY <1>1, <1>2 DEF InfosTrue
<1>3. CASE infos' = [infos EXCEPT ![found[t]] = None]
  BY <1>1, <1>3 DEF InfosTrue
<1>4. CASE onAlloc(t)
  <2> DEFINE made0 == [ptr |-> Base(call[t].ret), size |-> toInt(call[t].size),
                       site |-> SiteOf(t)]
  <2>1. NewInfos \in Infos /\ infos' = [infos EXCEPT ![NewInfos] = made0]
    BY <1>4, OnAlloc
  <2>2. made0.ptr = Base(call[t].ret) /\ made0.size = toInt(call[t].size)
    OBVIOUS
  <2>3. \/ made0.ptr = 0
        \/ \E b \in Block : made0.ptr = b.base /\ made0.size = toInt(b.size)
    BY <1>4, <2>2, OnAlloc DEF Base
  <2> HIDE DEF made0
  <2> QED
    BY <1>1, <2>1, <2>3 DEF InfosTrue
<1> QED
  BY <1>2, <1>3, <1>4, InfosStep

(* The MallocInfos of an entry is not deleted.                             *)
LEMMA EntryInfosKept ==
    ASSUME HInv, NEW t \in Thread, Step(t) \/ Act(t), NEW g \in Memory, InfosAt(g) # None
    PROVE  infos'[InfosAt(g)] = infos[InfosAt(g)] /\ infos[InfosAt(g)] # None
<1>1. infos \in [Infos -> {None} \cup MallocInfos]
  BY TypeParts DEF Typed, HInv
<1>2. InfosAt(g) \in Infos /\ infos[InfosAt(g)] # None
  BY InfosAtTyped DEF HInv, EntriesTrue
<1>3. CASE deleteInfos(t)
  <2>1. InfosAt(g) # found[t]
    BY <1>3 DEF deleteInfos, HInv, Clears
  <2> QED
    BY <1>1, <1>2, <1>3, <2>1 DEF deleteInfos
<1> QED
  BY <1>1, <1>2, <1>3, InfosStep

(* An entry is written for a MallocInfos that covers it; it is deleted     *)
(* only without entries.                                                   *)
LEMMA EntriesTrueKept ==
    ASSUME HInv, NEW t \in Thread, Step(t) \/ Act(t)
    PROVE  EntriesTrue'
<1>1. EntriesTrue
  BY DEF HInv
<1>2. CASE setPage(t)
  <2>1. UNCHANGED infos
    BY <1>2 DEF setPage
  <2>2. \A g \in Memory : \/ InfosAt(g)' = InfosAt(g)
                          \/ g \in Set(t) /\ InfosAt(g)' = reg[t].value
    BY <1>2, PageSteps
  <2>3. ASSUME NEW g \in Set(t), reg[t].value # None
        PROVE  /\ infos[reg[t].value] # None
               /\ g \in Written(infos[reg[t].value].ptr, infos[reg[t].value].size)
    BY <1>2, <2>3 DEF HInv, Writes, Registers, Set, setPage
  <2> QED
    BY <1>1, <2>1, <2>2, <2>3 DEF EntriesTrue
<1>3. CASE ~setPage(t)
  <2>1. \A g \in Memory : InfosAt(g)' = InfosAt(g)
    BY <1>3, EntryStep
  <2> QED
    BY <1>1, <2>1, EntryInfosKept DEF EntriesTrue
<1> QED
  BY <1>2, <1>3

(* No thread registers an address for the MallocInfos another gives up.    *)
LEMMA GivenUpAlone ==
    ASSUME HInv, NEW t \in Thread, Step(t) \/ Act(t), NEW u \in Thread \ {t},
           Releases(u), pc[u] # "infos", NEW g \in Memory, InfosAt(g)' = found[u]
    PROVE  InfosAt(g) = found[u]
<1>1. CASE setPage(t) /\ InfosAt(g)' # InfosAt(g)
  <2>1. found[u] = reg[t].value
    BY <1>1, PageSteps
  <2>2. Working(u) /\ ~Registers(u) /\ found[u] = WorksOn(u) /\ found[u] # None
    BY WorkTyped DEF Working, WorksOn
  <2>3. Registers(t)
    BY <1>1, <2>1, <2>2 DEF Registers, setPage
  <2> QED
    BY <2>1, <2>2, <2>3, OneWriter DEF Working, WorksOn
<1> QED
  BY <1>1, EntryStep

(* Where the MallocInfos a thread gives up is registered, the page has the *)
(* status it has for the thread.                                           *)
LEMMA GivenUpStatus ==
    ASSUME HInv, NEW t \in Thread, pc[t] = "set", walk[t] = "done", reg[t].value = None,
           NEW g \in Memory, InfosAt(g) = found[t], PageOf(g) = Current(t)
    PROVE  status[PageAt(t)] = IF IsMiddle(t) THEN "FULL" ELSE "FRAG"
<1>1. /\ found[t] # None /\ reg[t].base = infos[found[t]].ptr
      /\ reg[t].size = infos[found[t]].size
  BY DEF Releases, HInv, Writes
<1>2. pageOfBar[Current(t)] = PageAt(t)
  BY TodoTyped, PageReached DEF HInv
<1> QED
  BY <1>1, <1>2 DEF HInv, StatusTrue, IsMiddle

(* A page that refuses to be emptied has nothing of the MallocInfos that   *)
(* is given up.                                                            *)
LEMMA LeavesNothing ==
    ASSUME HInv, NEW t \in Thread, setPage(t), Refuses(t), reg[t].value = None,
           NEW g \in Memory, InfosAt(g) = found[t]
    PROVE  PageOf(g) # Current(t)
<1> SUFFICES ASSUME PageOf(g) = Current(t) PROVE FALSE
  OBVIOUS
<1>1. status[PageAt(t)] = IF IsMiddle(t) THEN "FULL" ELSE "FRAG"
  BY GivenUpStatus DEF setPage
<1>2. ~IsMiddle(t) /\ tested[t]
  BY <1>1 DEF Refuses
<1> QED
  BY <1>2 DEF HInv, Tests

(* No thread registers an address for the MallocInfos another is giving    *)
(* up, and each page written clears its entries there.                     *)
LEMMA ClearsKept ==
    ASSUME HInv, NEW t \in Thread, Step(t) \/ Act(t), TypeOK', NEW u \in Thread
    PROVE  Clears(u)'
<1>0. /\ pc \in [Thread -> Label] /\ reg \in [Thread -> Reg] /\ None \notin Infos
      /\ todo \in [Thread -> SUBSET Address] /\ found \in [Thread -> Infos \cup {None}]
      /\ EntriesTrue
  BY TypeParts, HooksAssumption DEF Typed, HInv
<1>1. Others(t) /\ Clears(u)
  BY OnlyOne DEF HInv
<1>2. CASE u # t
  <2>1. /\ Releases(u)' = Releases(u) /\ pc'[u] = pc[u] /\ todo'[u] = todo[u]
        /\ found'[u] = found[u]
    BY <1>1, <1>2, OthersPhases DEF Others
  <2>2. ASSUME Releases(u), pc[u] # "infos", NEW g \in Memory, InfosAt(g)' = found[u]
        PROVE  InfosAt(g) = found[u]
    BY <1>2, <2>2, GivenUpAlone
  <2>3. pc[u] \in {"set", "delete"} => pc[u] # "infos"
    OBVIOUS
  <2> QED
    BY <1>1, <2>1, <2>2, <2>3 DEF Clears, Releases
<1>3. CASE u = t /\ freeAllocPointer(t)
  <2>1. PICK b \in Block :
          /\ b = call[t].old /\ pc[t] = "infos"
          /\ NotFound(t, b) \/ (\E i \in Infos : GivesUp(t, b, i))
    BY <1>3, FreeAllocPointer
  <2>2. \A g \in Memory : InfosAt(g)' = InfosAt(g)
    BY <1>3, EntryStep DEF freeAllocPointer, setPage
  <2>3. CASE NotFound(t, b)
    <3>1. pc'[t] = "real"
      BY <1>0, <2>3 DEF NotFound
    <3> QED
      BY <1>3, <3>1 DEF Clears
  <2>4. ASSUME NEW i \in Infos, GivesUp(t, b, i) PROVE Clears(t)'
    <3>1. found'[t] = i /\ infos[i].ptr = b.base
      BY <1>0, <2>4 DEF GivesUp
    <3>2. ASSUME NEW g \in Memory, InfosAt(g) = i PROVE g \in Written(b.base, infos[i].size)
      BY <1>0, <3>1, <3>2 DEF EntriesTrue
    <3>3. CASE Starts(t, b.base, infos[i].size, None)
      <4>1. pc'[t] = "set" /\ todo'[t] = Pages(b.base, infos[i].size)
        BY <1>0, <3>3 DEF Starts
      <4> QED
        BY <2>2, <3>1, <3>2, <4>1 DEF Clears, Pages
    <3>4. CASE HasNone(t, b.base, infos[i].size, None)
      <4>1. Written(b.base, infos[i].size) = {}
        BY <3>4 DEF HasNone
      <4>2. pc'[t] = "delete"
        BY <1>0, <3>4 DEF HasNone, Registered
      <4> QED
        BY <2>2, <3>1, <3>2, <4>1, <4>2 DEF Clears
    <3> QED
      BY <2>4, <3>3, <3>4 DEF GivesUp
  <2> QED
    BY <1>3, <2>1, <2>3, <2>4
<1>4. CASE u = t /\ setPage(t)
  <2> DEFINE left == todo[t] \ {Current(t)}
  <2>1. /\ pc[t] = "set" /\ todo'[t] = left /\ found' = found
        /\ \/ pc' = pc /\ reg' = reg
           \/ left = {} /\ pc'[t] = Registered(reg[t].value)
    BY <1>0, <1>4 DEF setPage, Goto
  <2>2. ASSUME reg[t].value = None, NEW g \in Memory, InfosAt(g)' = found[t]
        PROVE  PageOf(g) \in left
    <3>1. /\ Releases(t) /\ found[t] # None /\ reg[t].base = infos[found[t]].ptr
          /\ reg[t].size = infos[found[t]].size
      BY <2>1, <2>2 DEF Releases, HInv, Writes
    <3>2. CASE Wrote(t)
      <4>1. InfosAt(g) = found[t] /\ g \notin Set(t)
        BY <2>2, <3>1, <3>2 DEF Wrote
      <4>2. PageOf(g) \in todo[t]
        BY <2>1, <3>1, <4>1, <1>1, <1>4 DEF Clears
      <4>3. g \in Written(reg[t].base, reg[t].size)
        BY <3>1, <4>1 DEF HInv, EntriesTrue
      <4> QED
        BY <4>1, <4>2, <4>3 DEF Set
    <3>3. CASE Refuses(t) /\ Left(t)
      <4>1. InfosAt(g) = found[t]
        BY <2>2, <3>3 DEF Left
      <4>2. PageOf(g) \in todo[t]
        BY <2>1, <3>1, <4>1, <1>1, <1>4 DEF Clears
      <4> QED
        BY <1>4, <2>2, <3>3, <4>1, <4>2, LeavesNothing
    <3> QED
      BY <1>4, <3>2, <3>3, PageSet
  <2>3. CASE pc' = pc /\ reg' = reg
    BY <1>4, <2>1, <2>2, <2>3 DEF Clears, Releases
  <2>4. CASE left = {} /\ pc'[t] = Registered(reg[t].value)
    <3>1. pc'[t] = IF reg[t].value = None THEN "delete" ELSE "return"
      BY <2>4 DEF Registered
    <3> HIDE DEF left
    <3> QED
      BY <1>4, <2>1, <2>2, <2>4, <3>1 DEF Clears
  <2> QED
    BY <2>1, <2>3, <2>4
<1>5. CASE u = t /\ ~freeAllocPointer(t) /\ ~setPage(t)
  <2>1. CASE UNCHANGED restVars
    <3>1. \A g \in Memory : InfosAt(g)' = InfosAt(g)
      BY <1>5, EntryStep
    <3> QED
      BY <1>1, <2>1, <3>1 DEF restVars, Clears, Releases
  <2>2. CASE ~UNCHANGED restVars
    <3>1. pc'[t] = "delete" \/ (pc'[t] = "set" /\ reg'[t].value = None) => FALSE
      <4>1. CASE onAlloc(t)
        <5>1. NewInfos # None /\ pc[t] = "after"
          BY <1>0, <4>1, OnAlloc
        <5>2. ASSUME NEW base, NEW size, Starts(t, base, size, NewInfos)
              PROVE  pc'[t] = "set" /\ reg'[t].value = NewInfos
          <6>1. pc'[t] = "set" /\ reg'[t] = [base |-> base, size |-> size, value |-> NewInfos]
            BY <1>0, <5>2 DEF Starts
          <6> QED
            BY <6>1
        <5>3. ASSUME NEW base, NEW size, HasNone(t, base, size, NewInfos) PROVE pc'[t] = "return"
          BY <1>0, <5>1, <5>3 DEF HasNone, Registered
        <5>4. ASSUME pc' = [pc EXCEPT ![t] = "return"] PROVE pc'[t] = "return"
          BY <1>0, <5>4
        <5>5. pc'[t] = "return" \/ (pc'[t] = "set" /\ reg'[t].value = NewInfos)
          BY <4>1, <5>2, <5>3, <5>4, OnAlloc
        <5> QED
          BY <5>1, <5>5
      <4>2. CASE deleteInfos(t) \/ real(t) \/ free(t) \/ return(t)
        BY <1>0, <4>2 DEF deleteInfos, real, free, return, Return, Goto
      <4>3. CASE tlbLookup(t) \/ tlbSet(t) \/ counted(t)
        BY <1>0, <4>3 DEF tlbLookup, tlbSet, counted, getAllocPointer, Return, Goto
      <4>4. CASE Act(t)
        <5>1. ASSUME NEW b, onFree(t, b) PROVE pc'[t] \in {"real", "infos"}
          BY <1>0, <5>1 DEF onFree, Goto
        <5> QED
          BY <1>0, <4>4, <5>1 DEF Act, malloc, beforeNew, aligned_alloc, beforeRealloc,
             beforeFree, onAccess, Goto
      <4> QED
        BY StepsOf, <1>5, <2>2, <4>1, <4>2, <4>3, <4>4 DEF Steps
    <3> QED
      BY <1>5, <3>1 DEF Clears, Releases
  <2> QED
    BY <2>1, <2>2
<1> QED
  BY <1>2, <1>3, <1>4, <1>5

(* A page that was not in fragments stays without what is given up.        *)
LEMMA TestsKept ==
    ASSUME HInv, NEW t \in Thread, Step(t) \/ Act(t), NEW u \in Thread
    PROVE  Tests(u)'
<1>1. tested \in [Thread -> BOOLEAN] /\ Tests(u)
  BY DEF HInv, TypeOK
<1>2. CASE u # t
  <2>1. Others(t) /\ tested'[u] = tested[u]
    BY <1>1, <1>2, OnlyOne, PagesKept DEF setPage, regAllocPointerSmall
  <2>2. pc'[u] = pc[u] /\ reg'[u] = reg[u] /\ found'[u] = found[u] /\ Current(u)' = Current(u)
    BY <1>2, <2>1 DEF Others, Current
  <2>3. ASSUME pc[u] = "set", reg[u].value = None, NEW g \in Memory, InfosAt(g)' = found[u]
        PROVE  InfosAt(g) = found[u]
    BY <1>2, <2>3, GivenUpAlone DEF Releases
  <2> QED
    BY <1>1, <2>1, <2>2, <2>3 DEF Tests
<1>3. CASE u = t /\ setPage(t)
  BY <1>1, <1>3 DEF setPage, Tests
<1>4. CASE u = t /\ ~setPage(t) /\ regAllocPointerSmall(t)
  <2>1. \A g \in Memory : InfosAt(g)' = InfosAt(g)
    BY <1>4, EntryStep
  <2>2. /\ pc[t] = "set" /\ walk[t] = "done" /\ ~IsMiddle(t) /\ status[PageAt(t)] # "FRAG"
        /\ UNCHANGED <<pc, reg, todo, found>>
    BY <1>4 DEF regAllocPointerSmall
  <2>3. Current(t)' = Current(t)
    BY <2>2 DEF Current
  <2>4. ASSUME reg[t].value = None, NEW g \in Memory, InfosAt(g) = found[t]
        PROVE  PageOf(g) # Current(t)
    BY <2>2, <2>4, GivenUpStatus
  <2> QED
    BY <1>4, <2>1, <2>2, <2>3, <2>4 DEF Tests
<1>5. CASE u = t /\ ~setPage(t) /\ ~regAllocPointerSmall(t)
  <2>1. UNCHANGED tested /\ \A g \in Memory : InfosAt(g)' = InfosAt(g)
    BY <1>5, EntryStep, PagesKept
  <2>2. ASSUME tested[t]
        PROVE  pc[t] = "set" /\ UNCHANGED <<pc, reg, todo, found>> /\ Current(t)' = Current(t)
    <3>1. pc[t] = "set"
      BY <1>1, <1>5, <2>2 DEF Tests
    <3> QED
      BY <1>5, <3>1, SetSteps DEF Current
  <2> QED
    BY <1>1, <1>5, <2>1, <2>2 DEF Tests
<1> QED
  BY <1>2, <1>3, <1>4, <1>5

(* A product grows with its factors.                                       *)
LEMMA ProductGrows ==
    ASSUME NEW d \in Nat, NEW a \in Int, NEW b \in Int, a < b
    PROVE  a * d + d <= b * d
<1>1. b = a + 1 + (b - a - 1) /\ b - a - 1 \in Nat
  OBVIOUS
<1>2. b * d = a * d + d + (b - a - 1) * d
  BY <1>1, Z3
<1>3. (b - a - 1) * d \in Nat
  BY <1>1, Z3
<1>4. a * d \in Int
  OBVIOUS
<1> DEFINE m == a * d
           n == (b - a - 1) * d
<1> HIDE DEF m, n
<1>5. m + d <= m + d + n
  BY <1>3, <1>4 DEF m, n
<1> QED
  BY <1>2, <1>5 DEF m, n

(* All of a page in the middle of a block is of the block.                 *)
LEMMA MiddleCovered ==
    ASSUME HInv, NEW t \in Thread, pc[t] = "set", IsMiddle(t),
           NEW g \in Memory, PageOf(g) = Current(t)
    PROVE  g \in Set(t)
<1> DEFINE base == reg[t].base
           end == base + reg[t].size
           first == PageOf(base)
           last == PageOf(end)
           c == Current(t)
<1>1. Grains \in Nat /\ Grains > 0 /\ IntLimit \in Nat
  BY HooksAssumption
<1>2. base \in Nat /\ reg[t].size \in Int
  <2>1. reg[t] \in Reg
    BY TypeParts DEF Typed, HInv
  <2> QED
    BY <1>1, <2>1, BlocksTyped, MemoryTyped DEF Reg
<1>3. first < c /\ c < last /\ end \in Int /\ c \in Nat
  BY <1>2, TodoTyped DEF IsMiddle, Between
<1>4. PICK r \in Offset : g = c * Grains + r
  BY GrainOfPage, MemoryTyped
<1>5. PICK f \in Nat, s \in Offset : first = f /\ base = f * Grains + s
  BY <1>2, GrainOfPage
<1>6. last \in Int
  BY <1>1, <1>3 DEF PageOf
<1> HIDE DEF base, end, first, last, c
<1>7. first * Grains + Grains <= c * Grains /\ c * Grains + Grains <= last * Grains
  BY <1>1, <1>3, <1>5, <1>6, ProductGrows
<1>8. r \in 0 .. Grains - 1 /\ s \in 0 .. Grains - 1
  BY DEF Offset
<1>9. ~(first = PageOf(end - 1) /\ reg[t].size \in 0 .. Grains - 1)
  <2> SUFFICES ASSUME reg[t].size \in 0 .. Grains - 1 PROVE FALSE
    OBVIOUS
  <2>1. end \in Nat /\ end = base + reg[t].size
    BY <1>1, <1>2 DEF end
  <2>2. PICK l \in Nat, o \in Offset : last = l /\ end = l * Grains + o
    BY <2>1, GrainOfPage DEF last
  <2>3. o \in 0 .. Grains - 1
    BY DEF Offset
  <2> DEFINE m == first * Grains
             k == c * Grains
             n == last * Grains
  <2>4. m \in Int /\ k \in Int /\ n \in Int
    BY <1>1, <1>3, <1>5, <2>2
  <2>5. m + Grains <= k /\ k + Grains <= n /\ base = m + s /\ end = n + o
    BY <1>5, <1>7, <2>2
  <2> HIDE DEF m, k, n
  <2> QED
    BY <1>1, <1>8, <2>1, <2>3, <2>4, <2>5
<1>10. g \in (first + 1) * Grains .. last * Grains - 1
  <2> DEFINE k == c * Grains
             n == last * Grains
             m == first * Grains
             m1 == (first + 1) * Grains
  <2>1. k \in Int /\ n \in Int /\ m \in Int /\ m1 = m + Grains
    <3>1. first \in Nat
      BY <1>5
    <3> QED
      BY <1>1, <1>3, <1>6, <3>1, Z3
  <2>2. m1 <= k /\ k + Grains <= n /\ g = k + r
    BY <1>4, <1>7, <2>1
  <2> HIDE DEF k, n, m, m1
  <2>3. g \in m1 .. n - 1
    BY <1>1, <1>8, <2>1, <2>2
  <2> QED
    BY <2>3 DEF m1, n
<1>11. g \in Written(base, reg[t].size)
  BY <1>9, <1>10 DEF Written, end, first, last
<1> QED
  BY <1>11 DEF Set, base

(* What a page takes makes it full or in fragments, as it is written.      *)
LEMMA StatusTrueKept ==
    ASSUME HInv, NEW t \in Thread, Step(t) \/ Act(t)
    PROVE  StatusTrue'
<1>1. StatusTrue /\ status \in [Dir \X Index -> {"NONE", "FULL", "FRAG"}]
  BY DEF HInv, TypeOK
<1>2. CASE ~setPage(t)
  <2>1. UNCHANGED status /\ \A g \in Memory : InfosAt(g)' = InfosAt(g)
    BY <1>2, EntryStep, PagesKept
  <2>2. ASSUME NEW g \in Memory, InfosAt(g) # None
        PROVE  /\ pageOfBar'[PageOf(g)] = pageOfBar[PageOf(g)]
               /\ infos'[InfosAt(g)] = infos[InfosAt(g)]
    <3>1. PageOf(g) \in DOMAIN pageOfBar
      BY <2>2 DEF InfosAt
    <3> QED
      BY <2>2, <3>1, DirKept, MapGrows, EntryInfosKept DEF HInv
  <2> QED
    BY <1>1, <2>1, <2>2 DEF StatusTrue
<1>3. CASE setPage(t)
  <2> DEFINE page == PageAt(t)
  <2>1. pc[t] = "set" /\ UNCHANGED <<infos, pageOfBar>>
    BY <1>3, PageSet DEF setPage
  <2>2. pageOfBar[Current(t)] = page /\ page \in Dir \X Index
    BY <1>3, PageSet
  <2>3. CASE Left(t)
    BY <1>1, <2>1, <2>3 DEF Left, StatusTrue
  <2>4. CASE Accepts(t) /\ Wrote(t)
    <3> SUFFICES ASSUME NEW g \in Memory, InfosAt(g)' # None
                 PROVE  status'[pageOfBar[PageOf(g)]] =
                            IF Between(infos[InfosAt(g)'].ptr, infos[InfosAt(g)'].size, PageOf(g))
                            THEN "FULL" ELSE "FRAG"
      BY <2>1 DEF StatusTrue
    <3>1. PageOf(g) \in DOMAIN pageOfBar
      BY <2>1 DEF InfosAt
    <3>2. CASE PageOf(g) # Current(t)
      <4>1. pageOfBar[PageOf(g)] # page /\ pageOfBar[PageOf(g)] \in Dir \X Index
        BY <1>3, <3>1, <3>2, PageSet
      <4>2. InfosAt(g)' = InfosAt(g)
        BY <2>4, <3>2 DEF Wrote, Set
      <4>3. status'[pageOfBar[PageOf(g)]] = status[pageOfBar[PageOf(g)]]
        BY <1>1, <2>4, <4>1 DEF Wrote
      <4> QED
        BY <1>1, <4>2, <4>3 DEF StatusTrue
    <3>3. CASE PageOf(g) = Current(t) /\ g \in Set(t)
      <4>1. InfosAt(g)' = reg[t].value
        BY <2>4, <3>3 DEF Wrote
      <4>2. reg[t].base = infos[reg[t].value].ptr /\ reg[t].size = infos[reg[t].value].size
        BY <2>1, <4>1 DEF HInv, Writes, Registers
      <4>3. status'[page] = IF IsMiddle(t) THEN "FULL" ELSE "FRAG"
        BY <1>1, <2>2, <2>4, <4>1 DEF Wrote
      <4> QED
        BY <2>2, <3>3, <4>1, <4>2, <4>3 DEF IsMiddle
    <3>4. CASE PageOf(g) = Current(t) /\ g \notin Set(t)
      <4>1. ~IsMiddle(t)
        BY <2>1, <3>4, MiddleCovered
      <4>2. InfosAt(g)' = InfosAt(g)
        BY <2>4, <3>4 DEF Wrote
      <4>3. status[page] =
                IF Between(infos[InfosAt(g)].ptr, infos[InfosAt(g)].size, PageOf(g))
                THEN "FULL" ELSE "FRAG"
        BY <1>1, <2>2, <3>4, <4>2 DEF StatusTrue
      <4>4. status[page] = "FRAG"
        BY <2>4, <4>1, <4>3 DEF Accepts
      <4>5. status'[page] = "FRAG"
        BY <1>1, <2>2, <2>4, <4>1 DEF Wrote
      <4> QED
        BY <2>2, <3>4, <4>2, <4>3, <4>4, <4>5
    <3> QED
      BY <3>2, <3>3, <3>4
  <2> QED
    BY <1>3, <2>3, <2>4, PageSet
<1> QED
  BY <1>2, <1>3

-----------------------------------------------------------------------------
(* The invariant, and what follows.                                        *)

(* Nothing is allocated or registered at the start.                        *)
LEMMA HInvInit == Init => HInv
<1> SUFFICES ASSUME Init PROVE HInv
  OBVIOUS
<1>1. IInv
  BY InitIInv DEF Init
<1>2. TypeOK
  <2>1. TLB!flush \in Lines
    <3>1. 0 \in TLB!Way
      BY HooksAssumption DEF TLB!Way
    <3> QED
      BY <3>1 DEF TLB!flush, Lines, Line
  <2>2. tlb \in [Thread -> Lines]
    BY <2>1 DEF Init
  <2>3. data \in [Thread -> Data] /\ reg \in [Thread -> Reg]
    <3>1. 0 \in -IntLimit .. IntLimit - 1
      BY HooksAssumption
    <3> QED
      BY <3>1 DEF Init, Data, Reg, NoReg
  <2>4. ASSUME NEW t \in Thread PROVE made[t] <= Len(program[t])
    <3>1. program[t] \in Seq(Function)
      BY HooksAssumption DEF Init, Function
    <3>2. Len(program[t]) \in Nat
      BY <3>1
    <3>3. made[t] = 0
      BY DEF Init
    <3> QED
      BY <3>2, <3>3
  <2>5. Typed
    BY <1>1, <2>2, <2>3, <2>4 DEF Init, Typed, IInv, Lines, Line, Label
  <2>6. PageStates
    BY DEF Init, PageStates
  <2> QED
    BY <2>5, <2>6, TypeParts
<1>3. \A g \in Memory : InfosAt(g) = None
  <2>1. ASSUME NEW g \in Memory PROVE InfosAt(g) = None
    <3>1. g % Grains \in Offset
      BY MemoryTyped, GrainOfPage
    <3>2. \A a \in DOMAIN pageOfBar : pageOfBar[a] \in Dir \X Index
      BY <1>1, <1>2, InfosAtTyped
    <3> QED
      BY <3>1, <3>2 DEF InfosAt, Init
  <2> QED
    BY <2>1
<1>4. /\ \A t \in Thread : pc[t] = "idle" /\ call[t] = NoCall
      /\ infos = [i \in Infos |-> None] /\ live = {} /\ owned = {}
      /\ alloc = [p \in Dir \X Index |-> [o \in Offset |-> None]]
  BY DEF Init
<1>5. \A t \in Thread : /\ Phases(t) /\ Walks(t) /\ DataKept(t) /\ Writes(t) /\ Clears(t)
                       /\ ~tested[t]
  BY <1>4 DEF Init, Phases, Walks, DataKept, Writes, Clears, Releases, Registers, Allocates
<1>6. HeldApart
  BY <1>4 DEF HeldApart, Held, Releases, Registers
<1>7. InfosTrue /\ EntriesMapped /\ EntriesTrue /\ StatusTrue
  BY <1>3, <1>4 DEF InfosTrue, EntriesMapped, EntriesTrue, StatusTrue
<1> QED
  BY <1>1, <1>2, <1>5, <1>6, <1>7 DEF HInv, Tests

(* Every step keeps the invariant.                                         *)
LEMMA HInvKept == HInv /\ [Next]_vars => HInv'
<1> SUFFICES ASSUME HInv, [Next]_vars PROVE HInv'
  OBVIOUS
<1>1. ASSUME NEW t \in Thread, Step(t) \/ Act(t) PROVE HInv'
  <2>1. IInv' /\ TypeOK' /\ EntriesMapped' /\ Others(t)
    BY <1>1, DirKept, EntryStep, OnlyOne
  <2>2. HeldApart' /\ InfosTrue' /\ EntriesTrue' /\ StatusTrue'
    BY <1>1, <2>1, HeldApartKept, InfosTrueKept, EntriesTrueKept, StatusTrueKept
  <2>3. Own(t)'
    BY <1>1, <2>1, OwnCall, OwnStep
  <2>4. ASSUME NEW u \in Thread
        PROVE  (/\ Phases(u) /\ Walks(u) /\ DataKept(u) /\ Writes(u)
                /\ Clears(u) /\ Tests(u))'
    <3>1. Clears(u)' /\ Tests(u)'
      BY <1>1, <2>1, ClearsKept, TestsKept
    <3>2. CASE u = t
      BY <2>3, <3>1, <3>2 DEF Own
    <3>3. CASE u # t
      BY <1>1, <2>1, <3>1, <3>3, OthersPhases, WritesKept
    <3> QED
      BY <3>2, <3>3
  <2> QED
    BY <2>1, <2>2, <2>4 DEF HInv
<1>2. CASE UNCHANGED vars
  <2>1. UNCHANGED dirVars
    BY <1>2 DEF vars, dirVars
  <2>2. IInv' /\ TypeOK'
    <3>1. IInv'
      BY <2>1, NextTypeOK, NextIsTree, NextOnPath, NextLocked DEF IInv, HInv
    <3> QED
      BY <1>2, <3>1, TypeParts DEF Typed, PageStates, HInv, IInv, vars
  <2>3. UNCHANGED restVars
    BY <1>2 DEF vars, restVars
  <2>4. \A g \in Memory : InfosAt(g)' = InfosAt(g)
    BY <2>1, <2>3, EntryKept DEF HInv, restVars
  <2>5. EntriesMapped'
    BY <2>1, <2>3, EntryKept DEF HInv, restVars
  <2>6. UNCHANGED want
    BY <1>2 DEF vars
  <2>7. ASSUME NEW u \in Thread
        PROVE  (/\ Phases(u) /\ Walks(u) /\ DataKept(u) /\ Writes(u)
                /\ Clears(u) /\ Tests(u))'
    <3>1. UNCHANGED tested
      BY <1>2 DEF vars
    <3>2. Tests(u)'
      BY <2>3, <2>4, <3>1 DEF HInv, restVars, Tests, Current
    <3> QED
      BY <2>3, <2>4, <2>6, <3>2 DEF HInv, restVars, Phases, Walks, DataKept, Writes, Clears,
         Releases, Registers, Allocates, Current
  <2>8. HeldApart'
    BY <2>3 DEF HInv, restVars, HeldApart, Held, Releases, Registers
  <2>9. InfosTrue' /\ EntriesTrue'
    BY <2>3, <2>4 DEF HInv, restVars, InfosTrue, EntriesTrue
  <2>10. StatusTrue'
    <3>1. UNCHANGED pageOfBar
      BY <2>1 DEF dirVars, pageOfBar, pte, pmd, pud, Child
    <3> QED
      BY <2>3, <2>4, <3>1 DEF HInv, restVars, StatusTrue
  <2> QED
    BY <2>2, <2>5, <2>7, <2>8, <2>9, <2>10 DEF HInv
<1> QED
  BY <1>1, <1>2 DEF Next, Stopped

(* The invariant.                                                          *)
THEOREM HooksInvariant == Spec => []HInv
  BY HInvInit, HInvKept, PTL DEF Spec

(* The variables have their types.                                         *)
THEOREM TypeCorrect == Spec => []TypeOK
<1>1. HInv => TypeOK
  BY DEF HInv
<1> QED
  BY <1>1, HooksInvariant, PTL

(* No entry of the page table leads to a MallocInfos that was deleted.     *)
THEOREM NothingDangles == Spec => []NoDanglingInfos
<1>1. HInv => NoDanglingInfos
  <2> SUFFICES ASSUME HInv, NEW p \in DOMAIN alloc, NEW o \in Offset, alloc[p][o] # None
               PROVE  infos[alloc[p][o]] # None
    BY DEF NoDanglingInfos
  <2>1. p \in Dir \X Index
    BY DEF HInv, TypeOK
  <2>2. PICK a \in DOMAIN pageOfBar : pageOfBar[a] = p
    BY <2>1 DEF HInv, EntriesMapped
  <2>3. a \in Address /\ a \in Nat
    BY <2>2, HooksAssumption DEF pageOfBar
  <2> DEFINE g == a * Grains + o
  <2>4. g \in Nat /\ PageOf(g) = a /\ g % Grains = o
    BY <2>3, PageOfGrain
  <2> HIDE DEF g
  <2>5. g \in Memory /\ InfosAt(g) = alloc[p][o]
    BY <2>2, <2>3, <2>4, MemoryTyped DEF InfosAt
  <2> QED
    BY <2>5 DEF HInv, EntriesTrue
<1> QED
  BY <1>1, HooksInvariant, PTL

(* The walks of the hooks are walks of PageDirectories.                    *)
THEOREM HooksWalk == Spec => DirSpec
<1>1. HInv /\ [Next]_vars => [DirNext]_dirVars
  BY DirStep
<1>2. Init => DirInit
  BY DEF Init
<1> QED
  BY <1>1, <1>2, HooksInvariant, PTL DEF Spec, DirSpec

(* The pages the hooks look up are those PageMap promises.                 *)
THEOREM HooksUsePageMap == Spec => PageMapSpec
  BY HooksWalk, ImplementsPageMap, PTL

-----------------------------------------------------------------------------
(* What a step leaves alone of a block the thread does not hold.           *)

(* The block a thread holds is given away and not the program's, and is    *)
(* the one it works on.                                                    *)
LEMMA HeldBlock ==
    ASSUME HInv, NEW t \in Thread
    PROVE  /\ Held(t) \subseteq live \ owned /\ live \subseteq Block /\ owned \subseteq live
           /\ \A b, c \in live : b # c => GrainsOf(b) \cap GrainsOf(c) = {}
           /\ \A b, c \in live : b # c => b.base # c.base
           /\ pc[t] = "set" => \E h \in Held(t) :
                 /\ TrueGrains(t) = GrainsOf(h) /\ Held(t) = {h}
                 /\ h = IF reg[t].value = None THEN call[t].old ELSE call[t].ret
           /\ pc[t] \in {"infos", "delete"} => call[t].old \in Held(t)
           /\ pc[t] \in {"real", "infos", "delete"} => Held(t) = {call[t].old} \ {None}
           /\ pc[t] \in {"after", "return"} => Held(t) = {call[t].ret} \ {None}
<1>1. /\ HeldApart /\ Phases(t) /\ None \notin Block /\ live \subseteq Block /\ owned \subseteq live
      /\ \A b \in Block : b.base \in GrainsOf(b)
  BY BlocksTyped, HooksAssumption DEF HInv, TypeOK
<1>2. pc[t] = "set" => \E h \in Held(t) :
         /\ TrueGrains(t) = GrainsOf(h) /\ Held(t) = {h}
         /\ h = IF reg[t].value = None THEN call[t].old ELSE call[t].ret
  BY <1>1 DEF Phases, Held, Releases, Registers, TrueGrains
<1>3. pc[t] \in {"infos", "delete"} => call[t].old \in Held(t)
  BY <1>1 DEF Phases, Held, Releases, Registers
<1>4. /\ pc[t] \in {"real", "infos", "delete"} => Held(t) = {call[t].old} \ {None}
      /\ pc[t] \in {"after", "return"} => Held(t) = {call[t].ret} \ {None}
  BY DEF Held, Releases, Registers
<1>5. \A b, c \in live : b # c => GrainsOf(b) \cap GrainsOf(c) = {}
  BY <1>1 DEF HeldApart
<1>6. \A b, c \in live : b # c => b.base # c.base
  BY <1>1, <1>5
<1> QED
  BY <1>1, <1>2, <1>3, <1>4, <1>5, <1>6 DEF HeldApart

(* Only a step that writes a page makes grains be found again.             *)
LEMMA LostStep ==
    ASSUME HInv, NEW t \in Thread, Step(t) \/ Act(t)
    PROVE  setPage(t) \/ lost \subseteq lost'
<1>1. ASSUME NEW size \in Size, malloc(t, size) \/ beforeNew(t, size) \/ aligned_alloc(t, size)
      PROVE  UNCHANGED lost
  BY <1>1 DEF malloc, beforeNew, aligned_alloc, histVars
<1>2. ASSUME NEW b \in Block \cup {None}, NEW size \in Size, beforeRealloc(t, b, size)
      PROVE  UNCHANGED lost
  BY <1>2 DEF beforeRealloc, histVars
<1>3. ASSUME NEW b \in Block, beforeFree(t, b) PROVE UNCHANGED lost
  BY <1>3 DEF beforeFree, histVars
<1>4. ASSUME NEW g \in Grain, onAccess(t, g) PROVE UNCHANGED lost
  BY <1>4 DEF onAccess, histVars
<1>5. ASSUME freeAllocPointer(t) PROVE lost \subseteq lost'
  BY <1>5, FreeAllocPointer DEF NotFound, GivesUp
<1>6. ASSUME real(t) \/ free(t) \/ return(t) \/ deleteInfos(t) PROVE lost \subseteq lost'
  BY <1>6 DEF real, free, return, deleteInfos, histVars
<1>7. ASSUME tlbLookup(t) \/ tlbSet(t) \/ counted(t) \/ UNCHANGED restVars
      PROVE  lost \subseteq lost'
  BY <1>7 DEF tlbLookup, tlbSet, counted, restVars, histVars
<1>8. ASSUME onAlloc(t) PROVE lost \subseteq lost'
  BY <1>8, OnAlloc
<1> QED
  BY StepsOf, <1>1, <1>2, <1>3, <1>4, <1>5, <1>6, <1>7, <1>8 DEF Steps, Act

(* The sites of a block change in the hands of a thread.                   *)
LEMMA DueStep ==
    ASSUME HInv, NEW t \in Thread, Step(t) \/ Act(t), NEW b \in Block, b \notin Held(t)
    PROVE  due'[b] = due[b]
<1>0. due \in [Block -> SUBSET (Site \cup {LibSite})] /\ None \notin Block
  BY HooksAssumption DEF HInv, TypeOK
<1>1. ASSUME NEW size \in Size, malloc(t, size) \/ beforeNew(t, size) \/ aligned_alloc(t, size)
      PROVE  UNCHANGED due
  BY <1>1 DEF malloc, beforeNew, aligned_alloc, histVars
<1>2. ASSUME NEW c \in Block \cup {None}, NEW size \in Size, beforeRealloc(t, c, size)
      PROVE  UNCHANGED due
  BY <1>2 DEF beforeRealloc, histVars
<1>3. ASSUME NEW c \in Block, beforeFree(t, c) PROVE UNCHANGED due
  BY <1>3 DEF beforeFree, histVars
<1>4. ASSUME NEW g \in Grain, onAccess(t, g) PROVE UNCHANGED due
  BY <1>4 DEF onAccess, histVars
<1>5. CASE freeAllocPointer(t) \/ setPage(t)
  BY <1>5 DEF freeAllocPointer, setPage
<1>6. CASE real(t) \/ free(t) \/ deleteInfos(t)
  BY <1>6 DEF real, free, deleteInfos, histVars
<1>7. CASE tlbLookup(t) \/ tlbSet(t) \/ counted(t) \/ UNCHANGED restVars
  BY <1>7 DEF tlbLookup, tlbSet, counted, restVars, histVars
<1>8. CASE onAlloc(t)
  <2>1. Held(t) = {call[t].ret} \ {None}
    BY <1>8, HeldBlock DEF onAlloc
  <2>2. \/ UNCHANGED due
        \/ \E c \in Block : \E s : c = call[t].ret /\ due' = [due EXCEPT ![c] = s]
    BY <1>8, OnAlloc
  <2> QED
    BY <1>0, <2>1, <2>2
<1>9. CASE return(t)
  <2>1. Held(t) = {call[t].ret} \ {None}
    BY <1>9, HeldBlock DEF return
  <2>2. \/ UNCHANGED due
        \/ due' = [due EXCEPT ![call[t].ret] = {}]
    BY <1>9 DEF return
  <2> QED
    BY <1>0, <2>1, <2>2
<1> QED
  BY StepsOf, <1>1, <1>2, <1>3, <1>4, <1>5, <1>6, <1>7, <1>8, <1>9 DEF Steps, Act

(* A MallocInfos that is registered, or worked on by another thread, stays.*)
LEMMA InfosKept ==
    ASSUME HInv, NEW t \in Thread, Step(t) \/ Act(t), NEW i \in Infos, infos[i] # None,
           \/ \E g \in Memory : InfosAt(g) = i
           \/ \E u \in Thread \ {t} : Working(u) /\ WorksOn(u) = i
           \/ \E b \in live : b \notin Held(t) /\ infos[i].ptr = b.base
           \/ ~deleteInfos(t)
    PROVE  infos'[i] = infos[i]
<1>0. infos \in [Infos -> {None} \cup MallocInfos]
  BY TypeParts DEF Typed, HInv
<1>1. CASE deleteInfos(t)
  <2>1. Working(t) /\ WorksOn(t) = found[t] /\ pc[t] = "delete"
    BY <1>1 DEF deleteInfos, Working, WorksOn, Releases, Registers
  <2>2. ASSUME NEW g \in Memory, InfosAt(g) = i PROVE i # found[t]
    BY <2>1, <2>2 DEF HInv, Clears
  <2>3. ASSUME NEW u \in Thread \ {t}, Working(u), WorksOn(u) = i PROVE i # found[t]
    BY <2>1, <2>3, OneWriter
  <2>4. ASSUME NEW b \in live, b \notin Held(t), infos[i].ptr = b.base PROVE i # found[t]
    <3>1. PICK h \in Held(t) : infos[WorksOn(t)].ptr = h.base
      BY <2>1, WorkTyped
    <3>2. h \in live /\ h # b
      BY <2>4, HeldBlock
    <3>3. h.base # b.base
      BY <3>2, HeldBlock
    <3> QED
      BY <2>1, <2>4, <3>1, <3>3
  <2> QED
    BY <1>0, <1>1, <2>2, <2>3, <2>4 DEF deleteInfos
<1> QED
  BY <1>0, <1>1, InfosStep

(* What is registered at an address that is the base of a MallocInfos.     *)
LEMMA BaseStep ==
    ASSUME HInv, NEW t \in Thread, Step(t) \/ Act(t), NEW g \in Memory, IsBase(g)'
    PROVE  \/ IsBase(g) /\ InfosAt(g)' = InfosAt(g)
           \/ /\ setPage(t) /\ Registers(t) /\ g = call[t].ret.base /\ g \in Set(t)
              /\ InfosAt(g)' = reg[t].value
<1>1. InfosAt(g) \in Infos \cup {None}
  BY InfosAtTyped DEF HInv
<1>2. CASE InfosAt(g)' = InfosAt(g)
  <2>1. InfosAt(g) # None
    BY <1>2 DEF IsBase
  <2>2. InfosAt(g) \in Infos /\ infos[InfosAt(g)] # None
    BY <1>1, <2>1 DEF HInv, EntriesTrue
  <2>3. infos'[InfosAt(g)] = infos[InfosAt(g)]
    BY <2>2, InfosKept
  <2> QED
    BY <1>2, <2>1, <2>3 DEF IsBase
<1>3. CASE InfosAt(g)' # InfosAt(g)
  <2>1. setPage(t) /\ g \in Set(t) /\ InfosAt(g)' = reg[t].value
    BY <1>3, EntryStep, PageSteps
  <2>2. reg[t].value # None /\ infos[reg[t].value].ptr = g
    BY <2>1 DEF IsBase, setPage
  <2>3. Registers(t)
    BY <2>1, <2>2 DEF Registers, setPage
  <2> QED
    BY <2>1, <2>2, <2>3 DEF HInv, Writes
<1> QED
  BY <1>2, <1>3

(* A step changes nothing that is registered for a block another thread or *)
(* the program has.                                                        *)
LEMMA Undisturbed ==
    ASSUME HInv, NEW t \in Thread, Step(t) \/ Act(t), NEW b \in live, b \notin Held(t)
    PROVE  /\ \A g \in GrainsOf(b) : g \notin lost' => g \notin lost /\ InfosAt(g)' = InfosAt(g)
           /\ IsBase(b.base)' => IsBase(b.base) /\ InfosAt(b.base)' = InfosAt(b.base)
           /\ due'[b] = due[b]
<1>0. /\ b \in Block /\ GrainsOf(b) \subseteq Grain /\ GrainsOf(b) \subseteq Memory
      /\ b.base \in Memory
  BY HeldBlock, BlocksTyped
<1>1. CASE setPage(t)
  <2>1. PICK h \in Held(t) : TrueGrains(t) = GrainsOf(h)
          /\ h = IF reg[t].value = None THEN call[t].old ELSE call[t].ret
    BY <1>1, HeldBlock DEF setPage
  <2>2. h \in live /\ h # b
    BY HeldBlock
  <2>3. GrainsOf(b) \cap TrueGrains(t) = {} /\ h.base # b.base
    BY <2>1, <2>2, HeldBlock
  <2>4. ASSUME NEW g \in GrainsOf(b), g \notin lost'
        PROVE  g \notin lost /\ InfosAt(g)' = InfosAt(g)
    BY <1>0, <1>1, <2>3, <2>4, PageSteps
  <2>5. ASSUME IsBase(b.base)'
        PROVE  IsBase(b.base) /\ InfosAt(b.base)' = InfosAt(b.base)
    <3>1. ~(Registers(t) /\ b.base = call[t].ret.base)
      BY <2>1, <2>3 DEF Registers
    <3> QED
      BY <1>0, <2>5, <3>1, BaseStep
  <2> QED
    BY <1>0, <2>4, <2>5, DueStep
<1>2. CASE ~setPage(t)
  BY <1>0, <1>2, LostStep, EntryStep, BaseStep, DueStep
<1> QED
  BY <1>1, <1>2

(* A block its thread does not hold stays known.                           *)
LEMMA KnownKept ==
    ASSUME HInv, NEW t \in Thread, Step(t) \/ Act(t), NEW b \in live, b \notin Held(t), Known(b)
    PROVE  Known(b)'
<1>0. /\ b \in Block /\ GrainsOf(b) \subseteq Memory
  BY HeldBlock, BlocksTyped
<1>1. PICK i \in Infos \cup {None} :
          /\ \A g \in GrainsOf(b) \ lost : InfosAt(g) = i /\ Right(b, i)
          /\ IsBase(b.base) => InfosAt(b.base) = i
  BY DEF Known
<1>2. ASSUME NEW g \in GrainsOf(b) \ lost' PROVE InfosAt(g)' = i /\ Right(b, i)'
  <2>1. g \notin lost /\ InfosAt(g)' = InfosAt(g) /\ due'[b] = due[b]
    BY Undisturbed
  <2>2. InfosAt(g) = i /\ Right(b, i)
    BY <1>1, <2>1
  <2>3. CASE i = None
    BY <2>1, <2>2, <2>3 DEF Right
  <2>4. CASE i # None
    <3>1. i \in Infos /\ infos[i] # None /\ g \in Memory
      BY <1>0, <2>2, <2>4 DEF Right
    <3>2. infos'[i] = infos[i]
      BY <2>2, <3>1, InfosKept
    <3> QED
      BY <2>1, <2>2, <3>2 DEF Right
  <2> QED
    BY <2>3, <2>4
<1>3. ASSUME IsBase(b.base)' PROVE InfosAt(b.base)' = i
  BY <1>1, <1>3, Undisturbed
<1> QED
  BY <1>2, <1>3 DEF Known

(* A block its thread does not hold stays unknown.                         *)
LEMMA UnknownKept ==
    ASSUME HInv, NEW t \in Thread, Step(t) \/ Act(t), NEW b \in live, b \notin Held(t), Unknown(b)
    PROVE  Unknown(b)'
  BY Undisturbed DEF Unknown

(* A block another thread is registering or giving up stays as far as it   *)
(* is.                                                                     *)
LEMMA HalfKnownKept ==
    ASSUME HInv, NEW t \in Thread, Step(t) \/ Act(t), NEW u \in Thread \ {t}, NEW v,
           NEW b \in live, b \notin Held(t), HalfKnown(u, b, v)
    PROVE  HalfKnown(u, b, v)'
<1>1. found'[u] = found[u] /\ \A g : Pending(u, g)' = Pending(u, g)
  BY OnlyOne DEF Others, Pending
<1> QED
  BY <1>1, Undisturbed DEF HalfKnown, Halfway

(* The blocks the other threads hold stay known as they were.              *)
LEMMA HeldKnownOthers ==
    ASSUME OwnerInv, NEW t \in Thread, Step(t) \/ Act(t), NEW u \in Thread \ {t}
    PROVE  HeldKnown(u)'
<1>1. HInv /\ HeldKnown(u) /\ Others(t)
  BY OnlyOne DEF OwnerInv
<1>2. /\ pc'[u] = pc[u] /\ call'[u] = call[u] /\ reg'[u] = reg[u] /\ found'[u] = found[u]
      /\ Registers(u)' = Registers(u)
  BY <1>1, OthersPhases DEF Others
<1>3. \A b \in Held(u) : b \in live /\ b \notin Held(t)
  BY <1>1, HeldBlock DEF HInv, HeldApart
<1>4. CASE pc[u] = "infos"
  <2>1. call[u].old \in Held(u) /\ Known(call[u].old)
    BY <1>1, <1>4, HeldBlock DEF HeldKnown
  <2>2. PICK b : b = call[u].old
    OBVIOUS
  <2>3. Known(b)'
    BY <1>1, <1>3, <2>1, <2>2, KnownKept
  <2> QED
    BY <1>2, <1>4, <2>2, <2>3 DEF HeldKnown, Known, Registers, Right
<1>5. CASE pc[u] = "set"
  <2>1. PICK b \in Held(u) : b = IF reg[u].value = None THEN call[u].old ELSE call[u].ret
    BY <1>1, <1>5, HeldBlock
  <2>2. PICK v : v = reg[u].value
    OBVIOUS
  <2>3. HalfKnown(u, b, v)
    BY <1>1, <1>5, <2>1, <2>2 DEF HeldKnown, Registers
  <2>4. HalfKnown(u, b, v)'
    BY <1>1, <1>3, <2>3, HalfKnownKept
  <2>5. CASE v = None
    BY <1>2, <1>5, <2>1, <2>2, <2>4, <2>5
       DEF HeldKnown, HalfKnown, Halfway, Registers, Pending, IsBase
  <2>6. CASE v # None
    <3>1. Right(b, v) /\ due[b] # {} /\ Registers(u)
      BY <1>1, <1>5, <2>1, <2>2, <2>6 DEF HeldKnown, Registers
    <3>2. Working(u) /\ WorksOn(u) = v /\ v \in Infos /\ infos[v] # None
      BY <1>1, <2>2, <3>1, WorkTyped DEF Working, WorksOn
    <3>3. infos'[v] = infos[v] /\ due'[b] = due[b]
      BY <1>1, <1>3, <3>2, InfosKept, Undisturbed
    <3>4. Right(b, v)' /\ due'[b] # {}
      BY <3>1, <3>3 DEF Right
    <3> QED
      BY <1>2, <1>5, <2>1, <2>2, <2>4, <2>6, <3>4
         DEF HeldKnown, HalfKnown, Halfway, Registers, Pending, IsBase, Right
  <2> QED
    BY <2>5, <2>6
<1>6. CASE pc[u] \in {"delete", "real"}
  <2>1. PICK b : b = call[u].old
    OBVIOUS
  <2>2. CASE b = None
    BY <1>2, <1>6, <2>1, <2>2 DEF HeldKnown, Registers
  <2>3. CASE b # None
    <3>1. b \in Held(u) /\ Unknown(b)
      BY <1>1, <1>6, <2>1, <2>3, HeldBlock DEF HeldKnown
    <3>2. Unknown(b)'
      BY <1>1, <1>3, <3>1, UnknownKept
    <3> QED
      BY <1>2, <1>6, <2>1, <3>2 DEF HeldKnown, Registers, Unknown, IsBase
  <2> QED
    BY <2>2, <2>3
<1>7. CASE pc[u] \in {"after", "return"}
  <2>1. PICK b : b = call[u].ret
    OBVIOUS
  <2>2. CASE b = None
    BY <1>2, <1>7, <2>1, <2>2 DEF HeldKnown, Registers
  <2>3. CASE b # None
    <3>1. b \in Held(u) /\ (Unknown(b) \/ Known(b))
          /\ (pc[u] = "after" \/ call[u].op = "aligned_alloc" => Unknown(b))
          /\ (pc[u] = "return" /\ call[u].op # "aligned_alloc" => Known(b))
      BY <1>1, <1>7, <2>1, <2>3, HeldBlock DEF HeldKnown
    <3>2. (Unknown(b) => Unknown(b)') /\ (Known(b) => Known(b)')
      BY <1>1, <1>3, <3>1, UnknownKept, KnownKept
    <3>3. CASE pc[u] = "after"
      BY <1>2, <3>3, <2>1, <3>1, <3>2 DEF HeldKnown, Registers, Unknown, IsBase
    <3>4. CASE pc[u] = "return" /\ call[u].op = "aligned_alloc"
      BY <1>2, <3>4, <2>1, <3>1, <3>2 DEF HeldKnown, Registers, Unknown, IsBase
    <3>5. CASE pc[u] = "return" /\ call[u].op # "aligned_alloc"
      BY <1>2, <3>5, <2>1, <3>1, <3>2 DEF HeldKnown, Registers, Known, IsBase, Right
    <3> QED
      BY <1>7, <3>3, <3>4, <3>5
  <2> QED
    BY <2>2, <2>3
<1>8. CASE pc[u] \notin {"infos", "set", "delete", "real", "after", "return"}
  BY <1>2, <1>8 DEF HeldKnown, Registers
<1> QED
  BY <1>4, <1>5, <1>6, <1>7, <1>8

(* A block that is given back to the program is known: registered, from a  *)
(* function without a hook, or lost after a failed realloc.                *)
LEMMA OwnedKnownKept ==
    ASSUME OwnerInv, NEW t \in Thread, Step(t) \/ Act(t)
    PROVE  OwnedKnown'
<1>0. HInv /\ TypeOK' /\ owned \subseteq live /\ live \subseteq Block /\ None \notin Block
  BY DirKept, HooksAssumption DEF OwnerInv, HInv, TypeOK
<1>1. ASSUME NEW b \in owned PROVE Known(b)'
  <2>1. b \in live /\ b \notin Held(t)
    BY <1>0, HeldBlock
  <2> QED
    BY <1>0, <2>1, KnownKept DEF OwnerInv, OwnedKnown
<1>2. CASE GivesBack(t) /\ real(t)
  <2>1. Held(t) = {call[t].old} \ {None}
    BY <1>0, <1>2, HeldBlock DEF real
  <2>2. ASSUME NEW b \in Held(t) PROVE Known(b)'
    <3>1. b = call[t].old /\ b # None /\ b \in Block /\ b \in live /\ b \notin owned
      BY <1>0, <2>1, HeldBlock
    <3>2. Unknown(b)
      BY <1>2, <3>1 DEF OwnerInv, HeldKnown, real
    <3>3. ~IsBase(b.base)'
      <4>1. b.base \in Memory
        BY <3>1, BlocksTyped
      <4> QED
        BY <1>0, <1>2, <3>2, <4>1, BaseStep DEF Unknown, real, setPage
    <3>4. GrainsOf(b) \subseteq lost'
      <4>1. owned' # owned
        BY <1>2, <3>1 DEF GivesBack
      <4> QED
        BY <1>2, <3>1, <4>1 DEF real
    <3> QED
      BY <3>3, <3>4 DEF Known
  <2> QED
    BY <1>1, <1>2, <2>2 DEF GivesBack, OwnedKnown
<1>3. CASE GivesBack(t) /\ return(t)
  <2>1. Held(t) = {call[t].ret} \ {None}
    BY <1>0, <1>3, HeldBlock DEF return
  <2>2. ASSUME NEW b \in Held(t) PROVE Known(b)'
    <3>1. b = call[t].ret /\ b # None /\ b \in Block
      BY <1>0, <2>1, HeldBlock
    <3>2. /\ UNCHANGED <<infos, lost>> /\ pc[t] = "return"
          /\ \A g \in Memory : InfosAt(g)' = InfosAt(g)
      BY <1>0, <1>3, EntryStep DEF return, setPage
    <3>3. b.base \in Memory /\ GrainsOf(b) \subseteq Memory
      BY <3>1, BlocksTyped
    <3>4. IsBase(b.base)' = IsBase(b.base)
      BY <3>2, <3>3 DEF IsBase
    <3>5. CASE call[t].op = "aligned_alloc"
      <4>1. due'[b] = {}
        BY <1>0, <1>3, <3>1, <3>5 DEF return, HInv, TypeOK
      <4>2. Unknown(b)
        BY <3>1, <3>2, <3>5 DEF OwnerInv, HeldKnown
      <4>3. \A g \in GrainsOf(b) \ lost' : InfosAt(g)' = None /\ Right(b, None)'
        BY <3>2, <3>3, <4>1, <4>2 DEF Unknown, Right
      <4>4. ~IsBase(b.base)'
        BY <3>4, <4>2 DEF Unknown
      <4> QED
        BY <4>3, <4>4 DEF Known
    <3>6. CASE call[t].op # "aligned_alloc"
      <4>1. due' = due
        BY <1>3, <3>6 DEF return
      <4>2. Known(b)
        BY <3>1, <3>2, <3>6 DEF OwnerInv, HeldKnown
      <4>3. PICK i \in Infos \cup {None} :
               /\ \A g \in GrainsOf(b) \ lost : InfosAt(g) = i /\ Right(b, i)
               /\ IsBase(b.base) => InfosAt(b.base) = i
        BY <4>2 DEF Known
      <4>4. \A g \in GrainsOf(b) \ lost' : InfosAt(g)' = i /\ Right(b, i)'
        BY <3>2, <3>3, <4>1, <4>3 DEF Right
      <4> QED
        BY <3>2, <3>3, <3>4, <4>3, <4>4 DEF Known
    <3> QED
      BY <3>5, <3>6
  <2> QED
    BY <1>1, <1>3, <2>2 DEF GivesBack, OwnedKnown
<1>4. CASE owned' \subseteq owned
  BY <1>1, <1>4 DEF OwnedKnown
<1> QED
  BY <1>0, <1>2, <1>3, <1>4, HandsOver DEF Keeps, Takes, Frees, Obtains

(* A block that is freed was given up before.                              *)
LEMMA FreeUnknownKept ==
    ASSUME OwnerInv, NEW t \in Thread, Step(t) \/ Act(t)
    PROVE  FreeUnknown'
<1>0. HInv /\ TypeOK' /\ live \subseteq Block /\ Grain \subseteq Memory /\ FreeUnknown
  BY DirKept, BlocksTyped DEF OwnerInv, HInv, TypeOK
<1>1. \A b \in live : b \in live' \/ (b \in Held(t) /\ Unknown(b) /\ ~setPage(t))
  <2>1. CASE free(t) \/ real(t)
    <3>1. Held(t) = {call[t].old} \ {None} /\ pc[t] = "real"
      BY <1>0, <2>1, HeldBlock DEF free, real
    <3>2. \A b \in Held(t) : Unknown(b)
      BY <3>1 DEF OwnerInv, HeldKnown
    <3>3. ~setPage(t)
      BY <3>1 DEF setPage
    <3>4. live \ Held(t) \subseteq live'
      BY <1>0, HandsOver DEF Keeps, Takes, GivesBack, Frees, Obtains
    <3> QED
      BY <3>2, <3>3, <3>4
  <2>2. CASE ~(free(t) \/ real(t))
    BY <1>0, <2>2, HandsOver DEF Keeps, Takes, GivesBack
  <2> QED
    BY <2>1, <2>2
<1>2. ASSUME NEW g \in Grain \ lost', \A b \in live' : g \notin GrainsOf(b)
      PROVE  InfosAt(g)' = None
  <2>1. CASE setPage(t)
    <3>1. \A b \in live : g \notin GrainsOf(b)
      BY <1>1, <1>2, <2>1
    <3>2. g \notin TrueGrains(t)
      <4>1. PICK h \in Held(t) : TrueGrains(t) = GrainsOf(h)
        BY <1>0, <2>1, HeldBlock DEF setPage
      <4> QED
        BY <1>0, <3>1, <4>1, HeldBlock
    <3>3. g \notin lost /\ InfosAt(g)' = InfosAt(g)
      BY <1>0, <1>2, <2>1, <3>2, PageSteps
    <3> QED
      BY <1>0, <3>1, <3>3 DEF FreeUnknown
  <2>2. CASE ~setPage(t)
    <3>1. g \notin lost /\ InfosAt(g)' = InfosAt(g)
      BY <1>0, <1>2, <2>2, LostStep, EntryStep
    <3>2. CASE \A b \in live : g \notin GrainsOf(b)
      BY <1>0, <3>1, <3>2 DEF FreeUnknown
    <3>3. ASSUME NEW b \in live, g \in GrainsOf(b) PROVE InfosAt(g) = None
      <4>1. Unknown(b)
        BY <1>1, <1>2, <3>3
      <4> QED
        BY <3>1, <3>3, <4>1 DEF Unknown
    <3> QED
      BY <3>1, <3>2, <3>3
  <2> QED
    BY <2>1, <2>2
<1>3. ASSUME NEW g \in Memory, IsBase(g)' PROVE \E b \in live' : b.base = g
  <2>1. CASE IsBase(g)
    <3>1. PICK b \in live : b.base = g
      BY <1>0, <2>1 DEF FreeUnknown
    <3>2. ~Unknown(b)
      BY <2>1, <3>1 DEF Unknown
    <3> QED
      BY <1>1, <3>1, <3>2
  <2>2. CASE setPage(t) /\ Registers(t) /\ g = call[t].ret.base
    <3>1. call[t].ret \in live
      <4>1. PICK h \in Held(t) : h = IF reg[t].value = None THEN call[t].old ELSE call[t].ret
        BY <1>0, <2>2, HeldBlock DEF setPage
      <4> QED
        BY <1>0, <2>2, <4>1, HeldBlock DEF Registers
    <3>2. call[t].ret \in live'
      BY <1>1, <2>2, <3>1
    <3> QED
      BY <2>2, <3>2
  <2> QED
    BY <1>0, <1>3, <2>1, <2>2, BaseStep
<1> QED
  BY <1>2, <1>3 DEF FreeUnknown

(* A line is set after a walk, and the page of an address never changes.   *)
LEMMA LinesTrueKept ==
    ASSUME OwnerInv, NEW t \in Thread, Step(t) \/ Act(t)
    PROVE  LinesTrue'
<1>0. HInv /\ LinesTrue /\ [DirNext]_dirVars /\ TypeOK /\ Others(t)
  BY DirKept, OnlyOne DEF OwnerInv, HInv
<1>1. \A a \in DOMAIN pageOfBar : a \in DOMAIN pageOfBar' /\ pageOfBar'[a] = pageOfBar[a]
  BY <1>0, MapGrows DEF HInv
<1>2. ASSUME UNCHANGED tlb PROVE LinesTrue'
  BY <1>0, <1>1, <1>2 DEF LinesTrue
<1>3. CASE tlbSet(t)
  <2>1. want[t] \in Address /\ walk[t] = "done"
    <3>1. call[t].grain \in Grain /\ want[t] = PageOf(call[t].grain)
      BY <1>3 DEF tlbSet, HInv, Phases, Walks, OwnerInv
    <3> QED
      BY <1>3, <3>1, BlocksTyped, MemoryTyped DEF tlbSet
  <2>2. want[t] \in DOMAIN pageOfBar /\ pageOfBar[want[t]] = PageAt(t)
    BY <1>0, <2>1, PageReached DEF HInv
  <2>3. PageAt(t) \in Dir \X Index
    BY <1>0, <2>2, MapTyped DEF HInv, IsPageMap
  <2>4. tlb[t] \in Lines /\ tlb'[t] = TLB!set(tlb[t], want[t], PageAt(t))
    BY <1>0, <1>3 DEF TypeOK, Lines, Line, tlbSet
  <2>5. \A r \in TLB!Row, w \in TLB!Way :
            \/ tlb'[t].line[r][w] = tlb[t].line[r][w]
            \/ tlb'[t].line[r][w].addr = want[t] /\ tlb'[t].line[r][w].content = PageAt(t)
    BY <2>1, <2>3, <2>4, LineReplaced
  <2>6. \A u \in Thread \ {t} : tlb'[u] = tlb[u]
    BY <1>0 DEF Others
  <2>7. ASSUME NEW u \in Thread, NEW r \in TLB!Row, NEW w \in TLB!Way, NEW l,
               l = tlb'[u].line[r][w], l.addr # None
        PROVE  l.addr \in DOMAIN pageOfBar' /\ l.content = pageOfBar'[l.addr]
    <3>1. CASE l = tlb[u].line[r][w]
      <4>1. l.addr \in DOMAIN pageOfBar /\ l.content = pageOfBar[l.addr]
        BY <1>0, <2>7, <3>1 DEF LinesTrue
      <4> QED
        BY <1>1, <4>1
    <3>2. CASE l # tlb[u].line[r][w]
      <4>1. u = t
        BY <2>6, <2>7, <3>2
      <4>2. l.addr = want[t] /\ l.content = PageAt(t)
        BY <2>5, <2>7, <3>2, <4>1
      <4> QED
        BY <1>1, <2>2, <4>2
    <3> QED
      BY <3>1, <3>2
  <2> QED
    BY <2>7 DEF LinesTrue
<1>4. ASSUME ~tlbSet(t) PROVE UNCHANGED tlb
  <2>1. ASSUME Act(t) PROVE UNCHANGED tlb
    BY <2>1 DEF Act, malloc, beforeNew, aligned_alloc, beforeRealloc, beforeFree, onAccess, toolVars
  <2>2. ASSUME Step(t) PROVE UNCHANGED tlb
    BY StepsOf, <1>4, <2>2 DEF Steps, freeAllocPointer, setPage, deleteInfos, real, free, onAlloc, return,
       tlbLookup, counted, restVars, toolVars
  <2> QED
    BY <2>1, <2>2
<1> QED
  BY <1>2, <1>3, <1>4

(* The program does not touch what is not its own, and gives up nothing    *)
(* that is being accessed.                                                 *)
LEMMA AccessApartKept ==
    ASSUME OwnerInv, NEW t \in Thread, Step(t) \/ Act(t)
    PROVE  AccessApart'
<1>0. /\ HInv /\ AccessApart /\ Others(t) /\ TypeOK' /\ live \subseteq Block /\ owned \subseteq live
      /\ pc \in [Thread -> Label] /\ call \in [Thread -> {NoCall} \cup Frame]
  BY DirKept, OnlyOne, TypeParts DEF OwnerInv, HInv, Typed
<1>1. ASSUME NEW u \in Thread, pc[u] \in {"tlb", "walk", "found"}, NEW b \in live' \ owned'
      PROVE  call[u].grain \notin GrainsOf(b)
  <2>1. call[u] # NoCall /\ call[u].op = "access"
    BY <1>1 DEF OwnerInv, HInv, Phases
  <2>2. b \in live \ owned \/ b \notin Accessed
    BY <1>0, <1>1, HandsOver DEF Keeps, Takes, GivesBack, Frees, Obtains
  <2>3. b \in Block
    BY <1>0 DEF TypeOK
  <2> QED
    BY <1>0, <1>1, <2>1, <2>2, <2>3 DEF AccessApart, Accessed
<1>2. ASSUME NEW u \in Thread, pc'[u] \in {"tlb", "walk", "found"},
             pc[u] \notin {"tlb", "walk", "found"}
      PROVE  u = t /\ \E g \in Grain : onAccess(t, g)
  <2>1. u = t
    BY <1>0, <1>2 DEF Others
  <2>2. ASSUME Step(t) PROVE FALSE
    <3>1. CASE freeAllocPointer(t) \/ setPage(t) \/ onAlloc(t) \/ deleteInfos(t) \/ real(t)
      <4>1. Own(t)' /\ pc'[t] \in {"tlb", "walk", "found"}
        BY <1>0, <1>2, <2>1, <2>2, OwnStep
      <4>2. call'[t].op = "access" /\ call'[t] # NoCall
        BY <4>1 DEF Own, Phases
      <4>3. call[t].op = "access"
        <5>1. CASE ~real(t)
          BY <3>1, <4>2, <5>1 DEF freeAllocPointer, setPage, onAlloc, deleteInfos
        <5>2. CASE real(t)
          <6>1. call[t] \in Frame /\ (UNCHANGED call \/ \E b : call' = [call EXCEPT ![t].ret = b])
            BY <1>0, <5>2 DEF real, HInv, Phases
          <6> QED
            BY <1>0, <4>2, <6>1 DEF Frame
        <5> QED
          BY <5>1, <5>2
      <4>4. pc[t] \in {"infos", "set", "after", "delete", "real"}
        <5>1. freeAllocPointer(t) => pc[t] = "infos"
          BY DEF freeAllocPointer
        <5>2. setPage(t) => pc[t] = "set"
          BY DEF setPage
        <5>3. onAlloc(t) => pc[t] = "after"
          BY DEF onAlloc
        <5>4. deleteInfos(t) => pc[t] = "delete"
          BY DEF deleteInfos
        <5>5. real(t) => pc[t] = "real"
          BY DEF real
        <5> QED
          BY <3>1, <5>1, <5>2, <5>3, <5>4, <5>5
      <4>5. Phases(t)
        BY <1>0 DEF HInv
      <4> QED
        BY <4>3, <4>4, <4>5 DEF Phases, Releases, Registers, Allocates
    <3>2. CASE free(t) \/ return(t)
      BY <1>0, <1>2, <2>1, <3>2 DEF free, return, Return, Goto
    <3>3. CASE tlbLookup(t) \/ tlbSet(t) \/ counted(t)
      BY <1>2, <2>1, <3>3 DEF tlbLookup, tlbSet, counted
    <3>4. CASE UNCHANGED restVars
      BY <1>2, <2>1, <3>4 DEF restVars
    <3> QED
      BY StepsOf, <2>2, <3>1, <3>2, <3>3, <3>4 DEF Steps
  <2>3. ASSUME NEW b, onFree(t, b) PROVE pc'[t] \in {"real", "infos"}
    BY <1>0, <2>3 DEF onFree, Goto
  <2> QED
    BY <1>0, <1>2, <2>1, <2>2, <2>3 DEF Act, malloc, beforeNew, aligned_alloc, beforeRealloc,
       beforeFree, Goto
<1>3. ASSUME NEW u \in Thread, pc'[u] \in {"tlb", "walk", "found"},
             pc[u] \in {"tlb", "walk", "found"}
      PROVE  call'[u] = call[u]
  <2>1. CASE u # t
    BY <1>0, <2>1 DEF Others
  <2>2. CASE u = t
    <3>1. CASE Act(t)
      BY <1>3, <2>2, <3>1 DEF Act, malloc, beforeNew, aligned_alloc, beforeRealloc,
         beforeFree, onAccess, Call
    <3>2. CASE Step(t)
      BY StepsOf, <1>0, <1>3, <2>2, <3>2 DEF Steps, freeAllocPointer, setPage, deleteInfos, real, free,
         onAlloc, return, tlbLookup, tlbSet, counted, restVars, Return, Goto
    <3> QED
      BY <3>1, <3>2
  <2> QED
    BY <2>1, <2>2
<1>4. ASSUME NEW g \in Grain, onAccess(t, g), NEW b \in live' \ owned'
      PROVE  call'[t].grain \notin GrainsOf(b)
  <2>1. call'[t].grain = g /\ UNCHANGED <<live, owned>>
    BY <1>0, <1>4, CallMade DEF onAccess
  <2> QED
    BY <1>4, <2>1 DEF onAccess
<1> QED
  BY <1>1, <1>2, <1>3, <1>4 DEF AccessApart

(* The site operator new keeps is reset by its last hook, or left by a     *)
(* throw.                                                                  *)
LEMMA SitesKeptNext ==
    ASSUME OwnerInv, NEW t \in Thread, Step(t) \/ Act(t)
    PROVE  SitesKept'
<1>0. /\ HInv /\ SitesKept /\ Others(t) /\ TypeOK'
      /\ pc \in [Thread -> Label] /\ call \in [Thread -> {NoCall} \cup Frame]
      /\ data \in [Thread -> Data] /\ thrown \in [Thread -> SUBSET Site]
      /\ None \notin Site
  BY DirKept, OnlyOne, TypeParts, NoneAssumption DEF OwnerInv, HInv, Typed
<1> DEFINE Fine(u) ==
        /\ data[u].newCallsite # None =>
               \/ data[u].newCallsite \in thrown[u]
               \/ /\ Allocates(u) /\ call[u].op = "new"
                  /\ data[u].newCallsite = call[u].site
        /\ Allocates(u) /\ call[u].op = "new" => data[u].newCallsite # None
<1>1. ASSUME NEW u \in Thread \ {t} PROVE Fine(u)'
  <2>1. data'[u] = data[u] /\ thrown'[u] = thrown[u] /\ call'[u] = call[u]
    BY <1>0 DEF Others
  <2> QED
    BY <1>0, <2>1 DEF SitesKept, Allocates
<1>i. ASSUME pc[t] = "idle", data[t].newCallsite # None PROVE data[t].newCallsite \in thrown[t]
  BY <1>0, <1>i DEF SitesKept, Allocates, HInv, Phases
<1>2. ASSUME NEW size \in Size, malloc(t, size) \/ aligned_alloc(t, size) PROVE Fine(t)'
  <2>1. /\ pc[t] = "idle" /\ UNCHANGED thrown
        /\ \E op \in {"malloc", "aligned_alloc"} : Call(t, op, size, None, 0)
    BY <1>2 DEF malloc, aligned_alloc, histVars, Call
  <2>2. call'[t].op # "new"
    BY <1>0, <2>1, CallMade
  <2>3. data'[t].newCallsite = data[t].newCallsite
    BY <1>0, <1>2 DEF malloc, aligned_alloc, SetData, toolVars, Data
  <2> QED
    BY <1>i, <2>1, <2>2, <2>3
<1>3. ASSUME NEW b \in Block \cup {None}, NEW size \in Size, beforeRealloc(t, b, size)
      PROVE  Fine(t)'
  <2>1. pc[t] = "idle" /\ UNCHANGED thrown /\ Call(t, "realloc", size, b, 0)
    BY <1>3 DEF beforeRealloc, histVars, Call
  <2>2. call'[t].op # "new"
    BY <1>0, <2>1, CallMade
  <2>3. data'[t].newCallsite = data[t].newCallsite
    BY <1>0, <1>3 DEF beforeRealloc, SetData, Data
  <2> QED
    BY <1>i, <2>1, <2>2, <2>3
<1>4. ASSUME NEW b \in Block, beforeFree(t, b) PROVE Fine(t)'
  <2>1. pc[t] = "idle" /\ UNCHANGED <<thrown, data>> /\ Call(t, "free", 0, b, 0)
    BY <1>4 DEF beforeFree, histVars, toolVars, Call
  <2>2. call'[t].op # "new"
    BY <1>0, <2>1, CallMade
  <2> QED
    BY <1>i, <2>1, <2>2
<1>5. ASSUME NEW g \in Grain, onAccess(t, g) PROVE Fine(t)'
  <2>1. pc[t] = "idle" /\ UNCHANGED <<thrown, data>> /\ Call(t, "access", 0, None, g)
    BY <1>5 DEF onAccess, histVars, toolVars, Call
  <2>2. call'[t].op # "new"
    BY <1>0, <2>1, CallMade
  <2> QED
    BY <1>i, <2>1, <2>2
<1>6. ASSUME NEW size \in Size, beforeNew(t, size) PROVE Fine(t)'
  <2>1. pc[t] = "idle" /\ UNCHANGED thrown /\ Call(t, "new", size, None, 0)
    BY <1>6 DEF beforeNew, histVars, Call
  <2>2. call'[t].op = "new" /\ call'[t].site = Caller(t) /\ call'[t] # NoCall
    BY <1>0, <2>1, CallMade
  <2>3. Caller(t) # None
    <3>1. size \in Size \cup {0}
      OBVIOUS
    <3>2. Caller(t) \in Site
      BY <1>0, <2>1, <3>1, CallTyped
    <3> QED
      BY <1>0, <3>2
  <2>4. data'[t].newCallsite =
            IF data[t].newCallsite = None THEN Caller(t) ELSE data[t].newCallsite
    BY <1>0, <1>6 DEF beforeNew
  <2> QED
    BY <1>i, <2>1, <2>2, <2>3, <2>4 DEF Allocates
<1>7. ASSUME UNCHANGED <<data, thrown>>, call'[t].op = call[t].op, call'[t].site = call[t].site,
             call[t] # NoCall, call'[t] # NoCall
      PROVE  Fine(t)'
  BY <1>0, <1>7 DEF SitesKept, Allocates
<1>8. ASSUME freeAllocPointer(t) \/ setPage(t) \/ deleteInfos(t) \/ onAlloc(t) \/ tlbLookup(t)
           \/ tlbSet(t) \/ UNCHANGED restVars
      PROVE  Fine(t)'
  <2>1. UNCHANGED <<data, thrown, call>>
    BY <1>8 DEF freeAllocPointer, setPage, deleteInfos, onAlloc, tlbLookup, tlbSet, restVars,
       histVars
  <2> QED
    BY <1>0, <2>1 DEF SitesKept, Allocates
<1>9. ASSUME real(t)
      PROVE  Fine(t)'
  <2>1. /\ UNCHANGED <<data, thrown>> /\ call[t] \in Frame
        /\ UNCHANGED call \/ \E b : call' = [call EXCEPT ![t].ret = b]
    BY <1>0, <1>9 DEF real, toolVars, HInv, Phases
  <2>2. call'[t].op = call[t].op /\ call'[t].site = call[t].site
    BY <1>0, <2>1 DEF Frame
  <2>3. call'[t] # NoCall
    <3>1. Own(t)' /\ pc'[t] # "idle"
      BY <1>0, <1>9, OwnStep DEF Step, real, Goto
    <3> QED
      BY <3>1 DEF Own, Phases
  <2>4. call[t] # NoCall
    BY <1>0, <1>9 DEF real, HInv, Phases
  <2> QED
    BY <1>7, <2>1, <2>2, <2>3, <2>4
<1>10. ASSUME free(t) \/ counted(t)
      PROVE  Fine(t)'
  <2>1. call'[t] = NoCall /\ UNCHANGED <<data, thrown>>
        /\ (pc[t] = "found" \/ call[t].op = "free")
    BY <1>0, <1>10 DEF free, counted, Return, toolVars, histVars
  <2>2. call[t].op # "new"
    BY <1>0, <2>1 DEF HInv, Phases
  <2> QED
    BY <1>0, <2>1, <2>2 DEF SitesKept, Allocates
<1>11. ASSUME return(t)
      PROVE  Fine(t)'
  <2>1. call'[t] = NoCall
    BY <1>0, <1>11 DEF return, Return
  <2>2. CASE UNCHANGED <<data, thrown>> /\ call[t].op # "new"
    BY <1>0, <2>1, <2>2 DEF SitesKept, Allocates
  <2>3. CASE data' = [data EXCEPT ![t].newCallsite = None]
    <3>1. data'[t].newCallsite = None
      BY <1>0, <2>3 DEF Data
    <3> QED
      BY <2>1, <3>1 DEF Allocates
  <2>4. CASE thrown' = [thrown EXCEPT ![t] = @ \cup {call[t].site}] /\ UNCHANGED data
    <3>1. thrown'[t] = thrown[t] \cup {call[t].site}
      BY <1>0, <2>4
    <3> QED
      BY <1>0, <2>1, <2>4, <3>1 DEF SitesKept, Allocates
  <2> QED
    BY <1>11, <2>2, <2>3, <2>4 DEF return
<1>12. Fine(t)'
  <2> HIDE DEF Fine
  <2> QED
    BY StepsOf, <1>2, <1>3, <1>4, <1>5, <1>6, <1>8, <1>9, <1>10, <1>11 DEF Steps, Act
<1> QED
  BY <1>1, <1>12 DEF SitesKept

-----------------------------------------------------------------------------
(* What a step makes of the block of the thread that takes it.             *)

(* A block becomes known only by setPage.                                  *)
LEMMA UnknownStays ==
    ASSUME HInv, NEW t \in Thread, Step(t) \/ Act(t), ~setPage(t), NEW b \in Block, Unknown(b)
    PROVE  Unknown(b)'
<1>1. /\ \A g \in Memory : InfosAt(g)' = InfosAt(g)
      /\ lost \subseteq lost' /\ GrainsOf(b) \subseteq Memory /\ b.base \in Memory
  BY EntryStep, LostStep, BlocksTyped
<1>2. ASSUME IsBase(b.base)' PROVE FALSE
  BY <1>1, <1>2, BaseStep DEF Unknown
<1> QED
  BY <1>1, <1>2 DEF Unknown

(* A block that is to be freed or reallocated is known.                    *)
LEMMA HeldKnownCall ==
    ASSUME OwnerInv, NEW t \in Thread, Act(t)
    PROVE  HeldKnown(t)'
<1>0. /\ HInv /\ pc \in [Thread -> Label] /\ None \notin Block
      /\ owned \subseteq live /\ live \subseteq Block
  BY TypeParts, HooksAssumption DEF OwnerInv, HInv, Typed
<1>1. ASSUME NEW size \in Size, malloc(t, size) \/ beforeNew(t, size) \/ aligned_alloc(t, size)
      PROVE  HeldKnown(t)'
  <2>1. pc'[t] = "real" /\ \E op : Call(t, op, size, None, 0)
    BY <1>0, <1>1 DEF malloc, beforeNew, aligned_alloc, Goto
  <2>2. call'[t].old = None
    BY <1>0, <2>1, CallMade
  <2> QED
    BY <2>1, <2>2 DEF HeldKnown, Registers
<1>2. ASSUME NEW b \in Block \cup {None}, onFree(t, b), call'[t].old = b, pc[t] = "idle",
             b \in owned \/ b = None
      PROVE  HeldKnown(t)'
  <2>1. CASE b = None
    <3>1. pc'[t] = "real"
      BY <1>0, <1>2, <2>1 DEF onFree, Goto
    <3> QED
      BY <1>2, <2>1, <3>1 DEF HeldKnown, Registers
  <2>2. CASE b # None
    <3>1. pc'[t] = "infos"
      BY <1>0, <1>2, <2>2 DEF onFree, Goto
    <3>2. b \in live /\ b \notin Held(t) /\ Known(b)
      BY <1>0, <1>2, <2>2, HeldBlock DEF OwnerInv, OwnedKnown
    <3>3. Known(b)'
      BY <1>0, <3>2, KnownKept
    <3> QED
      BY <1>2, <3>1, <3>3 DEF HeldKnown, Registers, Known, Right, IsBase
  <2> QED
    BY <2>1, <2>2
<1>3. ASSUME NEW b \in Block \cup {None}, NEW size \in Size, beforeRealloc(t, b, size)
      PROVE  HeldKnown(t)'
  <2>1. Call(t, "realloc", size, b, 0) /\ onFree(t, b) /\ (b \in owned \/ b = None)
        /\ pc[t] = "idle"
    BY <1>3 DEF beforeRealloc, Call
  <2>2. call'[t].old = b
    BY <1>0, <2>1, CallMade
  <2> QED
    BY <1>2, <2>1, <2>2
<1>4. ASSUME NEW b \in Block, beforeFree(t, b) PROVE HeldKnown(t)'
  <2>1. Call(t, "free", 0, b, 0) /\ onFree(t, b) /\ b \in owned /\ pc[t] = "idle"
    BY <1>4 DEF beforeFree, Call
  <2>2. call'[t].old = b
    BY <1>0, <2>1, CallMade
  <2> QED
    BY <1>2, <2>1, <2>2
<1>5. ASSUME NEW g \in Grain, onAccess(t, g) PROVE HeldKnown(t)'
  <2>1. pc'[t] = "tlb"
    BY <1>0, <1>5 DEF onAccess, Goto
  <2> QED
    BY <2>1 DEF HeldKnown, Registers
<1> QED
  BY <1>1, <1>3, <1>4, <1>5 DEF Act

(* When the block is given up, its address leads to the MallocInfos of all *)
(* its grains, or none of them is registered.                              *)
LEMMA HeldKnownFreeAllocPointer ==
    ASSUME OwnerInv, NEW t \in Thread, freeAllocPointer(t)
    PROVE  HeldKnown(t)'
<1>0. /\ HInv /\ pc \in [Thread -> Label] /\ reg \in [Thread -> Reg]
      /\ todo \in [Thread -> SUBSET Address] /\ None \notin Infos
      /\ found \in [Thread -> Infos \cup {None}]
  BY TypeParts, HooksAssumption DEF OwnerInv, HInv, Typed
<1>s. (Step(t) \/ Act(t)) /\ ~setPage(t)
  BY DEF Step, setPage, freeAllocPointer
<1>1. PICK b \in Block :
          /\ b = call[t].old /\ pc[t] = "infos"
          /\ NotFound(t, b) \/ (\E i \in Infos : GivesUp(t, b, i))
          /\ UNCHANGED <<infos, call>>
  BY <1>0, FreeAllocPointer
<1>2. PICK i \in Infos \cup {None} :
          /\ \A g \in GrainsOf(b) \ lost : InfosAt(g) = i /\ Right(b, i)
          /\ IsBase(b.base) => InfosAt(b.base) = i
  BY <1>1 DEF OwnerInv, HeldKnown, Known
<1>3. /\ \A g \in Memory : InfosAt(g)' = InfosAt(g)
      /\ lost \subseteq lost' /\ GrainsOf(b) \subseteq Memory
      /\ b.base \in Memory /\ b.base \in GrainsOf(b)
  BY <1>0, <1>s, EntryStep, LostStep, BlocksTyped
<1>4. CASE NotFound(t, b)
  <2>1. pc'[t] = "real"
    BY <1>0, <1>4 DEF NotFound
  <2>2. Unknown(b)'
    <3>1. ~IsBase(b.base)'
      BY <1>1, <1>3, <1>4 DEF NotFound, IsBase
    <3>2. CASE b.base \in lost
      BY <1>4, <3>1, <3>2 DEF NotFound, Unknown
    <3>3. CASE b.base \notin lost
      <4>1. InfosAt(b.base) = i /\ Right(b, i)
        BY <1>2, <1>3, <3>3
      <4>2. i = None
        BY <1>4, <4>1 DEF NotFound, IsBase, Right
      <4> QED
        BY <1>2, <1>3, <3>1, <4>2 DEF Unknown
    <3> QED
      BY <3>2, <3>3
  <2> QED
    BY <1>1, <2>1, <2>2 DEF HeldKnown, Registers, Unknown, IsBase
<1>5. ASSUME NEW j \in Infos, GivesUp(t, b, j) PROVE HeldKnown(t)'
  <2> DEFINE W == Written(b.base, infos[j].size)
  <2>1. j = InfosAt(b.base) /\ j # None /\ infos[j].ptr = b.base /\ lost' = lost
    BY <1>0, <1>5 DEF GivesUp
  <2>2. j = i
    BY <1>2, <2>1 DEF IsBase
  <2>3. \A g \in Memory : InfosAt(g) = j => g \in W
    BY <1>0, <2>1 DEF HInv, EntriesTrue
  <2>4. Starts(t, b.base, infos[j].size, None)
    BY <1>3, <1>5, <2>1, <2>3 DEF GivesUp, HasNone
  <2>5. /\ pc'[t] = "set" /\ reg'[t].value = None
        /\ reg'[t].base = b.base /\ reg'[t].size = infos[j].size
        /\ todo'[t] = {PageOf(g) : g \in W} /\ found'[t] = j
    BY <1>0, <1>5, <2>4 DEF Starts, Pages, GivesUp
  <2>6. \A g \in W : Pending(t, g)'
    BY <2>5 DEF Pending
  <2>7. \A g \in GrainsOf(b) \ lost' : Pending(t, g)' /\ InfosAt(g)' = found'[t]
    BY <1>2, <1>3, <2>1, <2>2, <2>3, <2>5, <2>6
  <2>8. Pending(t, b.base)' /\ InfosAt(b.base)' = found'[t]
    BY <1>3, <2>1, <2>3, <2>5, <2>6
  <2>9. HalfKnown(t, b, None)'
    BY <2>7, <2>8 DEF HalfKnown, Halfway
  <2> QED
    BY <1>1, <2>5, <2>9 DEF HeldKnown, Registers, HalfKnown, Halfway, IsBase, Pending
<1> QED
  BY <1>1, <1>4, <1>5

(* Every page written makes the block known, or unknown, that far; the     *)
(* last one altogether.                                                    *)
LEMMA HeldKnownSetPage ==
    ASSUME OwnerInv, NEW t \in Thread, setPage(t)
    PROVE  HeldKnown(t)'
<1>0. /\ HInv /\ pc \in [Thread -> Label] /\ reg \in [Thread -> Reg]
      /\ todo \in [Thread -> SUBSET Address] /\ Phases(t)
  BY TypeParts DEF OwnerInv, HInv, Typed
<1>s. (Step(t) \/ Act(t)) /\ pc[t] = "set" /\ UNCHANGED <<infos, due, call, found>>
  BY DEF Step, setPage
<1>v. PICK v : v = reg[t].value
  OBVIOUS
<1> DEFINE p == Current(t)
           left == todo[t] \ {p}
           Later(g) == g \in Written(reg[t].base, reg[t].size) /\ PageOf(g) \in left
           After(g) == InfosAt(g)' = v \/ (Later(g) /\ (v = None => InfosAt(g)' = found[t]))
<1>1. PICK h \in Held(t) : h = (IF v = None THEN call[t].old ELSE call[t].ret)
          /\ TrueGrains(t) = GrainsOf(h)
  BY <1>0, <1>s, <1>v, HeldBlock
<1>2. h \in Block /\ GrainsOf(h) \subseteq Memory /\ h.base \in Memory
  BY <1>0, <1>1, HeldBlock, BlocksTyped
<1>3. HalfKnown(t, h, v) /\ (v # None => Right(h, v) /\ due[h] # {})
  BY <1>1, <1>s, <1>v DEF OwnerInv, HeldKnown, Registers
<1>4. (Accepts(t) /\ Wrote(t)) \/ (Refuses(t) /\ Left(t))
  BY <1>0, PageSet
<1>5. ASSUME NEW g \in Memory, Halfway(t, g, v), v # None => g \notin Set(t) \/ Wrote(t)
      PROVE  After(g)
  <2>1. CASE Wrote(t)
    <3>1. InfosAt(g)' = IF g \in Set(t) THEN v ELSE InfosAt(g)
      BY <1>v, <2>1 DEF Wrote
    <3> QED
      BY <1>5, <3>1 DEF Halfway, Pending, Set
  <2>2. CASE Refuses(t) /\ Left(t) /\ ~Wrote(t)
    <3>1. InfosAt(g)' = InfosAt(g)
      BY <2>2 DEF Left
    <3>2. CASE PageOf(g) # Current(t)
      BY <1>5, <3>1, <3>2 DEF Halfway, Pending
    <3>3. CASE PageOf(g) = Current(t)
      <4>1. v = None => InfosAt(g) # found[t]
        BY <1>0, <1>v, <2>2, <3>3, LeavesNothing
      <4>2. v # None => ~Pending(t, g)
        BY <1>5, <2>2, <3>3 DEF Pending, Set
      <4> QED
        BY <1>5, <3>1, <4>1, <4>2 DEF Halfway
    <3> QED
      BY <3>2, <3>3
  <2> QED
    BY <1>4, <2>1, <2>2
<1>6. ASSUME NEW g \in GrainsOf(h) \ lost' PROVE After(g)
  <2>1. CASE Wrote(t) /\ g \in Set(t)
    BY <1>2, <1>v, <2>1 DEF Wrote
  <2>2. CASE Wrote(t) /\ g \notin Set(t)
    <3>1. g \notin lost
      BY <1>6, <2>2 DEF Wrote
    <3>2. Halfway(t, g, v)
      BY <1>3, <1>6, <3>1 DEF HalfKnown
    <3> QED
      BY <1>2, <1>5, <1>6, <2>2, <3>2
  <2>3. CASE Left(t)
    <3>1. g \notin lost /\ (v # None => g \notin Set(t))
      BY <1>1, <1>6, <1>v, <2>3 DEF Left
    <3>2. Halfway(t, g, v)
      BY <1>3, <1>6, <3>1 DEF HalfKnown
    <3> QED
      BY <1>2, <1>5, <1>6, <3>1, <3>2
  <2> QED
    BY <1>4, <2>1, <2>2, <2>3
<1>7. ASSUME IsBase(h.base)'
      PROVE  After(h.base) /\ (v # None => InfosAt(h.base)' = v)
  <2>1. CASE v = None
    <3>1. IsBase(h.base)
      BY <1>0, <1>2, <1>7, <1>s, <1>v, <2>1, BaseStep DEF Registers
    <3> QED
      BY <1>2, <1>3, <1>5, <2>1, <3>1 DEF HalfKnown
  <2>2. CASE v # None
    <3>1. InfosAt(h.base)' = v
      BY <1>0, <1>2, <1>3, <1>7, <1>s, <1>v, <2>2, BaseStep DEF HalfKnown
    <3> QED
      BY <2>2, <3>1
  <2> QED
    BY <2>1, <2>2
<1>8. v # None => Right(h, v)' /\ due'[h] # {}
  BY <1>3, <1>s DEF Right
<1>9. todo'[t] = left
  BY <1>0 DEF setPage
<1>10. CASE left # {}
  <2>1. pc'[t] = "set" /\ reg'[t] = reg[t]
    BY <1>s, <1>10 DEF setPage
  <2>2. \A g : Later(g) => Pending(t, g)'
    BY <1>9, <2>1 DEF Pending
  <2>3. HalfKnown(t, h, v)'
    BY <1>6, <1>7, <1>s, <2>2 DEF HalfKnown, Halfway
  <2>4. CASE v = None
    BY <1>1, <1>s, <1>v, <2>1, <2>3, <2>4
       DEF HeldKnown, Registers, HalfKnown, Halfway, IsBase, Pending
  <2>5. CASE v # None
    BY <1>1, <1>8, <1>s, <1>v, <2>1, <2>3, <2>5
       DEF HeldKnown, Registers, HalfKnown, Halfway, IsBase, Pending, Right
  <2> QED
    BY <2>4, <2>5
<1>11. CASE left = {}
  <2>1. pc'[t] = Registered(v)
    BY <1>0, <1>11, <1>v DEF setPage, Goto
  <2>2. /\ \A g \in GrainsOf(h) \ lost' : InfosAt(g)' = v
        /\ IsBase(h.base)' => InfosAt(h.base)' = v
    BY <1>6, <1>7, <1>11
  <2>3. CASE v = None
    <3>1. Unknown(h)'
      BY <2>2, <2>3 DEF Unknown, IsBase
    <3> QED
      BY <1>1, <1>s, <2>1, <2>3, <3>1 DEF HeldKnown, Registers, Registered, Unknown, IsBase
  <2>4. CASE v # None
    <3>1. v \in Infos \cup {None}
      BY <1>0, <1>v DEF Reg
    <3>2. Known(h)'
      BY <1>8, <2>2, <2>4, <3>1 DEF Known
    <3>3. call[t].op # "aligned_alloc"
      BY <1>0, <1>s, <1>v, <2>4 DEF Phases, Registers, Allocates
    <3> QED
      BY <1>1, <1>s, <2>1, <2>4, <3>2, <3>3 DEF HeldKnown, Registers, Registered, Known, IsBase, Right
  <2> QED
    BY <2>3, <2>4
<1> QED
  BY <1>10, <1>11

(* What the allocator gives away is not registered.                        *)
LEMMA HeldKnownReal ==
    ASSUME OwnerInv, NEW t \in Thread, real(t)
    PROVE  HeldKnown(t)'
<1>0. /\ HInv /\ pc \in [Thread -> Label] /\ call \in [Thread -> {NoCall} \cup Frame]
      /\ live \subseteq Block /\ None \notin Block /\ Phases(t)
  BY TypeParts, HooksAssumption DEF OwnerInv, HInv, Typed
<1>s. (Step(t) \/ Act(t)) /\ ~setPage(t) /\ pc[t] = "real"
  BY DEF Step, setPage, real
<1>1. /\ pc'[t] = IF call[t].op = "aligned_alloc" THEN "return" ELSE "after"
      /\ call[t] \in Frame /\ call[t].ret = None
  BY <1>0 DEF real, Goto, Phases
<1>2. CASE UNCHANGED call
  BY <1>1, <1>2 DEF HeldKnown, Registers
<1>3. ASSUME NEW b \in Free(call[t].size, live \ {call[t].old}), call' = [call EXCEPT ![t].ret = b]
      PROVE  HeldKnown(t)'
  <2>1. b \in Block /\ \A c \in live : c # call[t].old => GrainsOf(b) \cap GrainsOf(c) = {}
    BY <1>3 DEF Free
  <2>2. call'[t].ret = b /\ call'[t].op = call[t].op
    BY <1>0, <1>1, <1>3 DEF Frame
  <2>3. \A c \in live : c = call[t].old => Unknown(c)
    BY <1>0, <1>s DEF OwnerInv, HeldKnown
  <2>4. GrainsOf(b) \subseteq Grain /\ b.base \in GrainsOf(b) /\ b.base \in Memory
    BY <2>1, BlocksTyped
  <2>5. ASSUME NEW g \in GrainsOf(b) \ lost PROVE InfosAt(g) = None
    <3>1. CASE \A c \in live : g \notin GrainsOf(c)
      BY <2>4, <2>5, <3>1 DEF OwnerInv, FreeUnknown
    <3>2. ASSUME NEW c \in live, g \in GrainsOf(c) PROVE InfosAt(g) = None
      <4>1. c = call[t].old
        BY <2>1, <2>5, <3>2
      <4> QED
        BY <2>3, <2>5, <3>2, <4>1 DEF Unknown
    <3> QED
      BY <3>1, <3>2
  <2>6. ~IsBase(b.base)
    <3> SUFFICES ASSUME IsBase(b.base) PROVE FALSE
      OBVIOUS
    <3>1. PICK c \in live : c.base = b.base
      BY <2>4 DEF OwnerInv, FreeUnknown
    <3>2. b.base \in GrainsOf(c)
      BY <1>0, <3>1, BlocksTyped
    <3>3. c = call[t].old
      BY <2>1, <2>4, <3>2
    <3> QED
      BY <2>3, <3>1, <3>3 DEF Unknown
  <2>7. Unknown(b)
    BY <2>5, <2>6 DEF Unknown
  <2>8. Unknown(b)'
    BY <1>0, <1>s, <2>1, <2>7, UnknownStays
  <2> QED
    BY <1>1, <2>2, <2>8 DEF HeldKnown, Registers, Unknown, IsBase
<1> QED
  BY <1>2, <1>3 DEF real

(* The site that is kept is one the block may be counted to.               *)
LEMMA HeldKnownOnAlloc ==
    ASSUME OwnerInv, NEW t \in Thread, onAlloc(t)
    PROVE  HeldKnown(t)'
<1>0. /\ HInv /\ pc \in [Thread -> Label] /\ reg \in [Thread -> Reg]
      /\ todo \in [Thread -> SUBSET Address] /\ infos \in [Infos -> {None} \cup MallocInfos]
      /\ due \in [Block -> SUBSET (Site \cup {LibSite})] /\ None \notin Infos
  BY TypeParts, HooksAssumption DEF OwnerInv, HInv, Typed
<1>s. (Step(t) \/ Act(t)) /\ ~setPage(t) /\ pc[t] = "after" /\ Allocates(t) /\ UNCHANGED call
  BY <1>0, OnAlloc DEF Step, setPage
<1>i. PICK i : i = NewInfos
  OBVIOUS
<1> DEFINE made0 == [ptr |-> Base(call[t].ret), size |-> toInt(call[t].size), site |-> SiteOf(t)]
<1>1. i \in Infos /\ infos' = [infos EXCEPT ![i] = made0] /\ made0 # None
  BY <1>0, <1>i, OnAlloc, InfosMade
<1>2. infos'[i] # None /\ infos'[i].ptr = Base(call[t].ret) /\ infos'[i].site = SiteOf(t)
  BY <1>0, <1>1
<1> HIDE DEF made0
<1>3. CASE call[t].ret = None /\ pc' = [pc EXCEPT ![t] = "return"]
  BY <1>0, <1>3, <1>s DEF HeldKnown, Registers
<1>4. ASSUME NEW b \in Block, b = call[t].ret, b # None, Base(call[t].ret) = b.base,
             \/ Starts(t, b.base, toInt(b.size), i) \/ HasNone(t, b.base, toInt(b.size), i),
             due' = [due EXCEPT ![b] =
                 {call[t].site} \cup IF call[t].op = "realloc" THEN {} ELSE thrown[t]],
             lost' = lost \cup (GrainsOf(b) \ Written(b.base, toInt(b.size)))
      PROVE  HeldKnown(t)'
  <2> DEFINE W == Written(b.base, toInt(b.size))
  <2>1. Unknown(b)
    BY <1>4, <1>s DEF OwnerInv, HeldKnown
  <2>2. Unknown(b)'
    BY <1>0, <1>s, <2>1, UnknownStays
  <2>3. due'[b] = {call[t].site} \cup IF call[t].op = "realloc" THEN {} ELSE thrown[t]
    BY <1>0, <1>4
  <2>4. SiteOf(t) \in due'[b]
    <3>1. data[t].allocCallsite = IF call[t].op = "new" THEN LibSite ELSE call[t].site
      BY <1>0, <1>s DEF HInv, DataKept
    <3>2. CASE call[t].op = "realloc"
      BY <2>3, <3>1, <3>2 DEF SiteOf
    <3>3. CASE call[t].op # "realloc" /\ data[t].newCallsite = None
      BY <1>s, <2>3, <3>1, <3>3 DEF SiteOf, OwnerInv, SitesKept
    <3>4. CASE call[t].op # "realloc" /\ data[t].newCallsite # None
      BY <1>s, <2>3, <3>1, <3>4 DEF SiteOf, OwnerInv, SitesKept
    <3> QED
      BY <3>2, <3>3, <3>4
  <2>5. due'[b] # {} /\ Right(b, i)'
    BY <1>0, <1>1, <1>2, <1>4, <2>4 DEF Right
  <2>6. CASE Starts(t, b.base, toInt(b.size), i)
    <3>1. /\ pc'[t] = "set" /\ reg'[t].value = i
          /\ reg'[t].base = b.base /\ reg'[t].size = toInt(b.size)
          /\ todo'[t] = {PageOf(g) : g \in W}
      BY <1>0, <2>6 DEF Starts, Pages
    <3>2. \A g \in GrainsOf(b) \ lost' : Pending(t, g)'
      BY <1>4, <3>1 DEF Pending
    <3>4. i # None
      BY <1>0, <1>1
    <3>3. HalfKnown(t, b, i)'
      BY <2>2, <3>2, <3>4 DEF HalfKnown, Halfway, Unknown
    <3> QED
      BY <1>4, <1>s, <2>5, <3>1, <3>3, <3>4
         DEF HeldKnown, Registers, HalfKnown, Halfway, IsBase, Pending, Right
  <2>7. CASE HasNone(t, b.base, toInt(b.size), i)
    <3>1. pc'[t] = "return"
      BY <1>0, <1>1, <2>7 DEF HasNone, Registered
    <3>2. GrainsOf(b) \subseteq lost'
      BY <1>4, <2>7 DEF HasNone
    <3>3. Known(b)'
      BY <2>2, <3>2 DEF Known, Unknown
    <3>4. call[t].op # "aligned_alloc"
      BY <1>s DEF Allocates
    <3> QED
      BY <1>4, <1>s, <3>1, <3>3, <3>4 DEF HeldKnown, Registers, Known, IsBase, Right
  <2> QED
    BY <1>4, <2>6, <2>7
<1> QED
  BY <1>0, <1>3, <1>4, <1>i, OnAlloc

(* Every step of a thread keeps what is known of the block it holds.       *)
LEMMA HeldKnownStep ==
    ASSUME OwnerInv, NEW t \in Thread, Step(t)
    PROVE  HeldKnown(t)'
<1>0. /\ HInv /\ pc \in [Thread -> Label] /\ (Step(t) \/ Act(t)) /\ HeldKnown(t) /\ Phases(t)
      /\ call \in [Thread -> {NoCall} \cup Frame] /\ None \notin Block
  BY TypeParts, HooksAssumption DEF OwnerInv, HInv, Typed
<1>1. CASE deleteInfos(t)
  <2>1. pc[t] = "delete" /\ pc'[t] = "real" /\ UNCHANGED call /\ ~setPage(t)
    BY <1>0, <1>1 DEF deleteInfos, Goto, setPage
  <2>2. PICK b \in Block : b = call[t].old
    BY <1>0, <2>1 DEF Phases, Releases
  <2>3. Unknown(b)'
    BY <1>0, <2>1, <2>2, UnknownStays DEF HeldKnown
  <2> QED
    BY <2>1, <2>2, <2>3 DEF HeldKnown, Registers, Unknown, IsBase
<1>2. CASE free(t) \/ return(t) \/ counted(t)
  <2>1. pc'[t] = "idle"
    BY <1>0, <1>2 DEF free, return, counted, Return, Goto
  <2> QED
    BY <2>1 DEF HeldKnown, Registers
<1>3. CASE tlbLookup(t) \/ tlbSet(t)
  <2>1. pc'[t] \in {"walk", "found"}
    BY <1>0, <1>3 DEF tlbLookup, tlbSet, getAllocPointer, Goto
  <2> QED
    BY <2>1 DEF HeldKnown, Registers
<1>4. CASE (Walk(t) \/ UNCHANGED dirVars) /\ UNCHANGED restVars
  <2>0. UNCHANGED restVars /\ (setPage(t) \/ ~setPage(t))
    BY <1>4
  <2>1. \A g \in Memory : InfosAt(g)' = InfosAt(g)
    <3>1. UNCHANGED alloc
      BY <1>4 DEF restVars
    <3>2. [DirNext]_dirVars /\ IInv /\ TypeOK /\ EntriesMapped
      BY <1>0, DirKept DEF HInv
    <3> QED
      BY <3>1, <3>2, EntryKept
  <2>2. \A b \in Block : GrainsOf(b) \subseteq Memory /\ b.base \in Memory
    BY BlocksTyped
  <2>3. /\ pc' = pc /\ call' = call /\ reg' = reg /\ todo' = todo
        /\ infos' = infos /\ due' = due /\ lost' = lost /\ found' = found
    BY <1>4 DEF restVars
  <2>4. \A b \in Block : Unknown(b) => Unknown(b)'
    BY <2>1, <2>2, <2>3 DEF Unknown, IsBase
  <2>5. \A b \in Block : \A i : Right(b, i) => Right(b, i)'
    BY <2>3 DEF Right
  <2>6. ASSUME NEW b \in Block, Known(b) PROVE Known(b)'
    BY <2>1, <2>2, <2>3, <2>5, <2>6 DEF Known, IsBase
  <2>7. ASSUME NEW b \in Block, NEW v, HalfKnown(t, b, v) PROVE HalfKnown(t, b, v)'
    BY <2>1, <2>2, <2>3, <2>7 DEF HalfKnown, Halfway, IsBase, Pending
  <2>8. /\ Releases(t) => call[t].old \in Block
        /\ pc[t] = "real" => call[t].old \in Block \cup {None}
        /\ Registers(t) => call[t].ret \in Block
        /\ pc[t] \in {"after", "return"} => call[t].ret \in Block \cup {None}
    BY <1>0 DEF Phases, Frame, Allocates
  <2>9. CASE pc[t] \in {"infos", "delete", "real"}
    <3>1. PICK b : b = call[t].old
      OBVIOUS
    <3>2. CASE b = None
      BY <2>3, <2>8, <2>9, <3>1, <3>2, <1>0 DEF HeldKnown, Registers, Releases
    <3>3. CASE b # None /\ pc[t] = "infos"
      <4>1. b \in Block /\ Known(b)
        BY <1>0, <2>8, <3>1, <3>3 DEF HeldKnown, Releases
      <4>2. Known(b)'
        BY <2>6, <4>1
      <4> QED
        BY <2>3, <3>1, <3>3, <4>2 DEF HeldKnown, Registers, Known, Right, IsBase
    <3>4. CASE b # None /\ pc[t] # "infos"
      <4>1. b \in Block /\ Unknown(b)
        BY <1>0, <2>8, <2>9, <3>1, <3>4 DEF HeldKnown, Releases
      <4>2. Unknown(b)'
        BY <2>4, <4>1
      <4> QED
        BY <2>3, <2>9, <3>1, <3>4, <4>2 DEF HeldKnown, Registers, Unknown, IsBase
    <3> QED
      BY <3>2, <3>3, <3>4
  <2>10. CASE pc[t] \in {"after", "return"}
    <3>1. PICK b : b = call[t].ret
      OBVIOUS
    <3>2. CASE b = None
      BY <2>3, <2>10, <3>1, <3>2 DEF HeldKnown, Registers
    <3>3. CASE b # None /\ pc[t] = "return" /\ call[t].op # "aligned_alloc"
      <4>1. b \in Block /\ Known(b)
        BY <1>0, <2>8, <3>1, <3>3 DEF HeldKnown
      <4>2. Known(b)'
        BY <2>6, <4>1
      <4> QED
        BY <2>3, <3>1, <3>3, <4>2 DEF HeldKnown, Registers, Known, Right, IsBase
    <3>4. CASE b # None /\ ~(pc[t] = "return" /\ call[t].op # "aligned_alloc")
      <4>1. b \in Block /\ Unknown(b)
        BY <1>0, <2>8, <2>10, <3>1, <3>4 DEF HeldKnown
      <4>2. Unknown(b)'
        BY <2>4, <4>1
      <4> QED
        BY <2>3, <2>10, <3>1, <3>4, <4>2 DEF HeldKnown, Registers, Unknown, IsBase
    <3> QED
      BY <3>2, <3>3, <3>4
  <2>11. CASE pc[t] = "set"
    <3>1. PICK v : v = reg[t].value
      OBVIOUS
    <3>2. PICK b : b = IF v = None THEN call[t].old ELSE call[t].ret
      OBVIOUS
    <3>3. b \in Block /\ HalfKnown(t, b, v) /\ (v # None => Right(b, v) /\ due[b] # {})
      BY <1>0, <2>8, <2>11, <3>1, <3>2 DEF HeldKnown, Registers, Releases
    <3>4. HalfKnown(t, b, v)' /\ (v # None => Right(b, v)' /\ due'[b] # {})
      BY <2>3, <2>5, <2>7, <3>3
    <3>5. CASE v = None
      BY <2>3, <2>11, <3>1, <3>2, <3>4, <3>5
         DEF HeldKnown, Registers, HalfKnown, Halfway, IsBase, Pending
    <3>6. CASE v # None
      BY <2>3, <2>11, <3>1, <3>2, <3>4, <3>6
         DEF HeldKnown, Registers, HalfKnown, Halfway, IsBase, Pending, Right
    <3> QED
      BY <3>5, <3>6
  <2>12. CASE pc[t] \notin {"infos", "set", "delete", "real", "after", "return"}
    BY <2>3, <2>12 DEF HeldKnown, Registers
  <2> QED
    BY <2>9, <2>10, <2>11, <2>12
<1> QED
  BY StepsOf, <1>1, <1>2, <1>3, <1>4, HeldKnownFreeAllocPointer, HeldKnownSetPage, HeldKnownReal,
     HeldKnownOnAlloc DEF Steps

-----------------------------------------------------------------------------
(* What an access finds.                                                   *)

Owner(g) == {b \in owned : g \in GrainsOf(b) /\ due[b] # {}}

Finds(i, g) ==
    IF Owner(g) = {} THEN i = None
    ELSE \E b \in Owner(g) :
            /\ i # None /\ infos[i] # None
            /\ infos[i].ptr = b.base /\ infos[i].site \in due[b]

(* What is registered where the program may access is that of the owner.   *)
LEMMA FindsRegistered ==
    ASSUME OwnerInv, NEW g \in Grain \ lost, \A b \in live \ owned : g \notin GrainsOf(b)
    PROVE  Finds(InfosAt(g), g)
<1>0. /\ owned \subseteq live
      /\ \A b, c \in live : b # c => GrainsOf(b) \cap GrainsOf(c) = {}
  BY DEF OwnerInv, HInv, TypeOK, HeldApart
<1>1. ASSUME NEW b \in owned, g \in GrainsOf(b) PROVE Finds(InfosAt(g), g)
  <2>1. Right(b, InfosAt(g))
    BY <1>1 DEF OwnerInv, OwnedKnown, Known
  <2>2. CASE due[b] = {}
    <3>1. Owner(g) = {}
      BY <1>0, <1>1, <2>2 DEF Owner
    <3> QED
      BY <2>1, <2>2, <3>1 DEF Finds, Right
  <2>3. CASE due[b] # {}
    <3>1. b \in Owner(g)
      BY <1>1, <2>3 DEF Owner
    <3> QED
      BY <2>1, <2>3, <3>1 DEF Finds, Right
  <2> QED
    BY <2>2, <2>3
<1>2. CASE \A b \in owned : g \notin GrainsOf(b)
  <2>1. InfosAt(g) = None
    BY <1>2 DEF OwnerInv, FreeUnknown
  <2>2. Owner(g) = {}
    BY <1>2 DEF Owner
  <2> QED
    BY <2>1, <2>2 DEF Finds
<1> QED
  BY <1>1, <1>2

(* The blocks that belong to the program where an access is under way, and *)
(* their sites, stay as they are.                                          *)
LEMMA OwnerKept ==
    ASSUME OwnerInv, NEW t \in Thread, Step(t) \/ Act(t), NEW u \in Thread,
           pc[u] \in {"tlb", "walk", "found"}, NEW g, g = call[u].grain
    PROVE  /\ Owner(g)' = Owner(g)
           /\ \A b \in Owner(g) : b \in live /\ b \notin Held(t) /\ due'[b] = due[b]
           /\ g \notin lost' => g \notin lost
<1>0. /\ HInv /\ TypeOK' /\ Held(t) \subseteq live \ owned /\ live \subseteq Block
      /\ owned \subseteq live
  BY DirKept, HeldBlock DEF OwnerInv
<1>1. g \in Grain /\ \A b \in live \ owned : g \notin GrainsOf(b)
  <2>1. g \in Grain
    BY <1>0 DEF HInv, Phases
  <2> QED
    BY <2>1 DEF OwnerInv, AccessApart
<1>2. \A b \in owned : due'[b] = due[b] /\ b \notin Held(t) /\ b \in live
  BY <1>0, DueStep
<1>3. \A b \in Block : g \in GrainsOf(b) => b \in Accessed
  BY <1>0, <1>1 DEF Accessed, HInv, Phases
<1>4. \A b \in Block : g \in GrainsOf(b) => (b \in owned' <=> b \in owned)
  <2>1. CASE Takes(t)
    BY <1>0, <1>3, <2>1 DEF Takes
  <2>2. CASE GivesBack(t)
    BY <1>0, <1>1, <2>2 DEF GivesBack
  <2> QED
    BY <1>0, <2>1, <2>2, HandsOver DEF Keeps, Frees, Obtains
<1>5. owned' \subseteq Block
  BY <1>0 DEF TypeOK
<1>6. Owner(g)' = Owner(g)
  BY <1>0, <1>2, <1>4, <1>5 DEF Owner
<1>7. ASSUME g \notin lost' PROVE g \notin lost
  <2>1. CASE setPage(t)
    <3>1. PICK h \in Held(t) : TrueGrains(t) = GrainsOf(h)
      BY <1>0, <2>1, HeldBlock DEF setPage
    <3>2. g \notin TrueGrains(t)
      BY <1>0, <1>1, <3>1
    <3> QED
      BY <1>0, <1>1, <1>7, <2>1, <3>2, PageSteps
  <2>2. CASE ~setPage(t)
    BY <1>0, <1>7, <2>2, LostStep
  <2> QED
    BY <2>1, <2>2
<1> QED
  BY <1>2, <1>6, <1>7 DEF Owner

(* What was found stays right until it is counted.                         *)
LEMMA FindsKept ==
    ASSUME OwnerInv, NEW t \in Thread, Step(t) \/ Act(t), NEW u \in Thread,
           pc[u] \in {"tlb", "walk", "found"}, NEW g, g = call[u].grain,
           NEW i \in Infos \cup {None}, Finds(i, g)
    PROVE  Finds(i, g)'
<1>0. HInv
  BY DEF OwnerInv
<1>1. /\ Owner(g)' = Owner(g)
      /\ \A b \in Owner(g) : b \in live /\ b \notin Held(t) /\ due'[b] = due[b]
  BY OwnerKept
<1>2. CASE Owner(g) = {}
  BY <1>1, <1>2 DEF Finds
<1>3. CASE Owner(g) # {}
  <2>1. PICK b \in Owner(g) :
            /\ i # None /\ infos[i] # None
            /\ infos[i].ptr = b.base /\ infos[i].site \in due[b]
    BY <1>3 DEF Finds
  <2>2. infos'[i] = infos[i]
    BY <1>0, <1>1, <2>1, InfosKept
  <2> QED
    BY <1>1, <2>1, <2>2 DEF Finds
<1> QED
  BY <1>2, <1>3

(* An access reads the entry of its address, through the TLB or a walk.    *)
LEMMA FoundStep ==
    ASSUME OwnerInv, NEW t \in Thread, Step(t) \/ Act(t), NEW u \in Thread, pc'[u] = "found"
    PROVE  /\ pc[u] \in {"tlb", "walk", "found"} /\ call'[u] = call[u]
           /\ pc[u] = "found" => found'[u] = found[u]
           /\ pc[u] # "found" => found'[u] = InfosAt(call[u].grain)
<1>0. /\ HInv /\ Others(t) /\ pc \in [Thread -> Label]
      /\ found \in [Thread -> Infos \cup {None}] /\ Phases(t) /\ Walks(t)
      /\ LinesTrue /\ TypeOK
  BY OnlyOne, TypeParts DEF OwnerInv, HInv, Typed
<1>1. CASE u # t
  BY <1>0, <1>1 DEF Others
<1>2. CASE u = t
  <2> DEFINE g == call[t].grain
             a == PageOf(g)
  <2>1. ASSUME Act(t) PROVE FALSE
    <3>1. ASSUME NEW b, onFree(t, b) PROVE pc'[t] \in {"real", "infos"}
      BY <1>0, <3>1 DEF onFree, Goto
    <3> QED
      BY <1>0, <1>2, <2>1, <3>1 DEF Act, malloc, beforeNew, aligned_alloc, beforeRealloc,
         beforeFree, onAccess, Goto
  <2>2. ASSUME freeAllocPointer(t) PROVE FALSE
    BY <1>0, <1>2, <2>2, FreeAllocPointer DEF NotFound, GivesUp, Starts, HasNone, Registered
  <2>3. ASSUME onAlloc(t) PROVE FALSE
    BY <1>0, <1>2, <2>3, OnAlloc DEF Starts, HasNone, Registered
  <2>4. ASSUME setPage(t) PROVE FALSE
    <3>1. pc[t] = "set" /\ (UNCHANGED pc \/ Goto(t, Registered(reg[t].value)))
      BY <2>4 DEF setPage
    <3> QED
      BY <1>0, <1>2, <3>1 DEF Goto, Registered
  <2>5. ASSUME deleteInfos(t) \/ real(t) \/ free(t) \/ return(t) \/ counted(t) PROVE FALSE
    BY <1>0, <1>2, <2>5 DEF deleteInfos, real, free, return, counted, Return, Goto
  <2>6. ASSUME pc[t] \in {"tlb", "walk"}
        PROVE  /\ g \in Memory /\ a \in Address
               /\ \A p : a \in DOMAIN pageOfBar /\ p = pageOfBar[a]
                            => alloc[p][g % Grains] = InfosAt(g)
    <3>1. g \in Memory /\ a \in Address
      BY <1>0, <2>6, BlocksTyped, MemoryTyped DEF Phases
    <3> QED
      BY <3>1 DEF InfosAt
  <2>7. CASE tlbLookup(t)
    <3>1. pc[t] = "tlb" /\ UNCHANGED call
      BY <2>7 DEF tlbLookup
    <3> DEFINE p == TlbGet(t, a)
    <3>2. p # None /\ found' = [found EXCEPT ![t] = alloc[p][g % Grains]]
      BY <1>0, <1>2, <2>7 DEF tlbLookup, getAllocPointer, Goto
    <3>3. tlb[t] \in Lines
      BY <1>0 DEF TypeOK, Lines, Line
    <3>4. PICK r \in TLB!Row, w \in TLB!Way :
              tlb[t].line[r][w].addr = a /\ p = tlb[t].line[r][w].content
      BY <2>6, <3>1, <3>2, <3>3, LineFound DEF TlbGet
    <3>5. a # None
      BY <2>6, <3>1, HooksAssumption, PathAssumption
    <3>6. a \in DOMAIN pageOfBar /\ p = pageOfBar[a]
      BY <1>0, <3>4, <3>5 DEF LinesTrue
    <3>7. alloc[p][g % Grains] = InfosAt(g)
      BY <2>6, <3>1, <3>6
    <3> QED
      BY <1>0, <1>2, <3>1, <3>2, <3>7
  <2>8. CASE tlbSet(t)
    <3>1. /\ pc[t] = "walk" /\ walk[t] = "done" /\ UNCHANGED call /\ want[t] = a
          /\ found' = [found EXCEPT ![t] = alloc[PageAt(t)][g % Grains]]
      BY <1>0, <2>8 DEF tlbSet, getAllocPointer, Walks
    <3>2. a \in DOMAIN pageOfBar /\ pageOfBar[a] = PageAt(t)
      BY <1>0, <2>6, <3>1, PageReached DEF HInv
    <3>3. alloc[PageAt(t)][g % Grains] = InfosAt(g)
      BY <2>6, <3>1, <3>2
    <3> QED
      BY <1>0, <1>2, <3>1, <3>3
  <2>9. CASE UNCHANGED restVars
    BY <1>2, <2>9 DEF restVars
  <2> QED
    BY StepsOf, <2>1, <2>2, <2>3, <2>4, <2>5, <2>7, <2>8, <2>9 DEF Steps
<1> QED
  BY <1>1, <1>2

AllFind ==
    \A t \in Thread : \A i, g :
        pc[t] = "found" /\ i = found[t] /\ g = call[t].grain /\ g \notin lost => Finds(i, g)

(* AccessFindsOwner, in the names used here.                               *)
LEMMA FindsOwner == (AccessFindsOwner <=> AllFind) /\ (AccessFindsOwner' <=> AllFind')
<1>1. ASSUME NEW t \in Thread, NEW i, i = found[t], NEW g, g = call[t].grain
      PROVE  /\ Finds(i, g) <=> Finds(found[t], call[t].grain)
             /\ Finds(i, g) <=>
                   LET owner == {b \in owned : g \in GrainsOf(b) /\ due[b] # {}}
                   IN  IF owner = {} THEN i = None
                       ELSE \E b \in owner :
                               /\ i # None /\ infos[i] # None
                               /\ infos[i].ptr = b.base /\ infos[i].site \in due[b]
  BY <1>1 DEF Finds, Owner
<1>2. AccessFindsOwner <=> AllFind
  BY <1>1 DEF AccessFindsOwner, AllFind
<1>3. AccessFindsOwner' <=> AllFind'
  BY <1>2, PTL
<1> QED
  BY <1>2, <1>3

(* Every step keeps it.                                                    *)
LEMMA AccessFindsOwnerKept ==
    ASSUME OwnerInv, NEW t \in Thread, Step(t) \/ Act(t)
    PROVE  AccessFindsOwner'
<1> SUFFICES ASSUME NEW u \in Thread, NEW i, NEW g, pc'[u] = "found", i = found'[u],
                    g = call'[u].grain, g \notin lost'
             PROVE  Finds(i, g)'
  BY FindsOwner DEF AllFind
<1>0. HInv /\ AccessFindsOwner /\ found \in [Thread -> Infos \cup {None}] /\ IInv /\ TypeOK
  BY TypeParts DEF OwnerInv, HInv, Typed
<1>1. /\ g = call[u].grain /\ pc[u] \in {"tlb", "walk", "found"} /\ call'[u] = call[u]
      /\ pc[u] = "found" => found'[u] = found[u]
      /\ pc[u] # "found" => found'[u] = InfosAt(g)
  BY FoundStep
<1>2. g \in Grain /\ g \notin lost /\ \A b \in live \ owned : g \notin GrainsOf(b)
  <2>1. g \in Grain
    BY <1>0, <1>1 DEF HInv, Phases
  <2>2. \A b \in live \ owned : g \notin GrainsOf(b)
    BY <1>1 DEF OwnerInv, AccessApart
  <2> QED
    BY <1>1, <2>1, <2>2, OwnerKept
<1>3. i \in Infos \cup {None} /\ Finds(i, g)
  <2>1. CASE pc[u] = "found"
    BY <1>0, <1>1, <1>2, <2>1, FindsOwner DEF AllFind
  <2>2. CASE pc[u] # "found"
    <3>1. g \in Memory
      BY <1>2, BlocksTyped
    <3> QED
      BY <1>0, <1>1, <1>2, <2>2, <3>1, InfosAtTyped, FindsRegistered
  <2> QED
    BY <2>1, <2>2
<1>4. Finds(i, g)'
  BY <1>1, <1>3, FindsKept
<1> QED
  BY <1>4

-----------------------------------------------------------------------------
(* Nothing is allocated, registered or accessed at the start.              *)
LEMMA OwnerInvInit == Init => OwnerInv
<1> SUFFICES ASSUME Init PROVE OwnerInv
  OBVIOUS
<1>1. HInv
  BY HInvInit
<1>2. /\ pc = [t \in Thread |-> "idle"] /\ call = [t \in Thread |-> NoCall]
      /\ live = {} /\ owned = {}
      /\ \A t \in Thread : data[t].newCallsite = None
      /\ \A t \in Thread : \A r \in TLB!Row, w \in TLB!Way : tlb[t].line[r][w].addr = None
  BY DEF Init, TLB!flush
<1>3. \A g \in Memory : InfosAt(g) = None
  <2> TAKE g \in Memory
  <2>1. PageOf(g) \in DOMAIN pageOfBar => pageOfBar[PageOf(g)] \in Dir \X Index
    BY <1>1, InfosAtTyped DEF HInv
  <2>2. g % Grains \in Offset
    BY MemoryTyped, GrainOfPage
  <2>3. alloc = [p \in Dir \X Index |-> [o \in Offset |-> None]]
    BY DEF Init
  <2> QED
    BY <2>1, <2>2, <2>3 DEF InfosAt
<1>4. FreeUnknown
  BY <1>3, BlocksTyped DEF FreeUnknown, IsBase
<1>5. OwnedKnown /\ AccessApart /\ AccessFindsOwner /\ LinesTrue
  BY <1>2 DEF OwnedKnown, AccessApart, AccessFindsOwner, LinesTrue
<1>6. SitesKept
  BY <1>2 DEF SitesKept, Allocates
<1>7. \A t \in Thread : HeldKnown(t)
  BY <1>2 DEF HeldKnown, Registers
<1> QED
  BY <1>1, <1>4, <1>5, <1>6, <1>7 DEF OwnerInv

(* Every step keeps the invariant of the owners.                           *)
LEMMA OwnerInvKept == OwnerInv /\ [Next]_vars => OwnerInv'
<1> SUFFICES ASSUME OwnerInv, [Next]_vars PROVE OwnerInv'
  OBVIOUS
<1>0. HInv /\ HInv'
  BY HInvKept DEF OwnerInv
<1>1. ASSUME NEW t \in Thread, Step(t) \/ Act(t) PROVE OwnerInv'
  <2>1. \A u \in Thread : HeldKnown(u)'
    BY <1>1, HeldKnownOthers, HeldKnownStep, HeldKnownCall
  <2>2. OwnedKnown' /\ FreeUnknown' /\ LinesTrue' /\ AccessApart' /\ SitesKept'
    BY <1>1, OwnedKnownKept, FreeUnknownKept, LinesTrueKept, AccessApartKept, SitesKeptNext
  <2>3. AccessFindsOwner'
    BY <1>1, AccessFindsOwnerKept
  <2> QED
    BY <1>0, <2>1, <2>2, <2>3 DEF OwnerInv
<1>2. CASE UNCHANGED vars
  <2>1. /\ data' = data /\ infos' = infos /\ alloc' = alloc /\ tlb' = tlb /\ pc' = pc
        /\ call' = call /\ reg' = reg /\ todo' = todo /\ found' = found /\ live' = live
        /\ owned' = owned /\ due' = due /\ thrown' = thrown /\ lost' = lost
        /\ entries' = entries
    BY <1>2 DEF vars
  <2>2. pageOfBar' = pageOfBar
    BY <2>1 DEF pageOfBar, pte, pmd, pud, Child
  <2>3. \A g : InfosAt(g)' = InfosAt(g)
    BY <2>1, <2>2 DEF InfosAt
  <2>4. (\A b : Known(b)' <=> Known(b)) /\ (\A b : Unknown(b)' <=> Unknown(b))
    BY <2>1, <2>3 DEF Known, Unknown, Right, IsBase
  <2>5. \A u, b, v : HalfKnown(u, b, v)' <=> HalfKnown(u, b, v)
    BY <2>1, <2>3 DEF HalfKnown, Halfway, Pending, IsBase
  <2>6. ASSUME NEW u \in Thread PROVE HeldKnown(u)'
    <3>1. HeldKnown(u)
      BY DEF OwnerInv
    <3> QED
      BY <2>1, <2>3, <3>1
         DEF HeldKnown, Registers, Right, Known, Unknown, HalfKnown, Halfway, Pending, IsBase
  <2>7. OwnedKnown'
    BY <2>1, <2>4 DEF OwnerInv, OwnedKnown
  <2>8. FreeUnknown'
    BY <2>1, <2>3 DEF OwnerInv, FreeUnknown, IsBase
  <2>9. LinesTrue' /\ AccessApart' /\ AccessFindsOwner'
    BY <2>1, <2>2 DEF OwnerInv, LinesTrue, AccessApart, AccessFindsOwner
  <2>10. SitesKept'
    BY <2>1 DEF OwnerInv, SitesKept, Allocates
  <2> QED
    BY <1>0, <2>6, <2>7, <2>8, <2>9, <2>10 DEF OwnerInv
<1> QED
  BY <1>1, <1>2 DEF Next, Stopped

(* Every access is counted to the call that allocated the block it touches,*)
(* or to none when no registered block is there.                           *)
THEOREM AccessesFindOwners == Spec => []AccessFindsOwner
<1>1. Spec => []OwnerInv
  BY OwnerInvInit, OwnerInvKept, PTL DEF Spec
<1>2. OwnerInv => AccessFindsOwner
  BY DEF OwnerInv
<1> QED
  BY <1>1, <1>2, PTL

=============================================================================
