-------------------------- MODULE PageDirectories --------------------------
(***************************************************************************)
(* PageTable::getPage and PageTableLevel: the walk of a thread through the *)
(* four levels of the shadow page table, and the directories it makes on   *)
(* the way under the mutex of the table, after it has seen twice, without  *)
(* and then with the mutex, that there is none.                            *)
(*                                                                         *)
(* One step is one read or write of an entry, or of the mutex.  A new      *)
(* directory is complete when its pointer is stored: processors that Pin   *)
(* runs on keep the order of stores.                                       *)
(***************************************************************************)
EXTENDS Naturals

CONSTANTS
    Thread,
    Address,  \* the page addresses of the program
    Index,    \* the entries of a directory: 512 in the code
    path,     \* of each address, the index it has at each of the four levels
    Dir,      \* the memory of the directories
    pgd,      \* the root
    None

ASSUME PathAssumption ==
    /\ path \in [Address -> [1 .. 4 -> Index]]
    /\ \A a, b \in Address : path[a] = path[b] => a = b
    /\ pgd \in Dir
    /\ None \notin Dir
    /\ None \notin Address
    /\ None \notin Thread
    /\ \A p \in Dir \X Index : p # None

VARIABLES
    entries,  \* PageTableLevel::entries of every directory
    used,     \* the directories that exist
    mutex,    \* the thread that holds PageTable::mutex
    want,     \* of each thread, the address it looks up, or looked up last
    depth,    \* how many levels it has passed
    at,       \* the directory it is at: pud, pmd, pte
    walk      \* where it is in getEntry and makeNewEntry

dirVars == <<entries, used, mutex, want, depth, at, walk>>

DirTypeOK ==
    /\ entries \in [Dir -> [Index -> Dir \cup {None}]]
    /\ used \in SUBSET Dir
    /\ mutex \in Thread \cup {None}
    /\ want \in [Thread -> Address \cup {None}]
    /\ depth \in [Thread -> 0 .. 3]
    /\ at \in [Thread -> Dir]
    /\ walk \in [Thread -> {"getEntry", "makeNewEntry", "lock", "recheck",
                            "create", "unlock", "return", "done"}]

DirInit ==
    /\ entries = [d \in Dir |-> [i \in Index |-> None]]
    /\ used = {pgd}
    /\ mutex = None
    /\ want = [t \in Thread |-> None]
    /\ depth = [t \in Thread |-> 0]
    /\ at = [t \in Thread |-> pgd]
    /\ walk = [t \in Thread |-> "done"]

(* The index of the address at the level the thread is at.                 *)
IndexOf(t) == path[want[t]][depth[t] + 1]

EntryOf(t) == entries[at[t]][IndexOf(t)]

getPage(t, a) ==
    /\ walk[t] = "done"
    /\ want' = [want EXCEPT ![t] = a]
    /\ depth' = [depth EXCEPT ![t] = 0]
    /\ at' = [at EXCEPT ![t] = pgd]
    /\ walk' = [walk EXCEPT ![t] = "getEntry"]
    /\ UNCHANGED <<entries, used, mutex>>

(* Mutant: the walk goes on in the page.                                   *)
DescendTooFar(t) ==
    /\ at' = [at EXCEPT ![t] = EntryOf(t)]
    /\ depth' = [depth EXCEPT ![t] = depth[t] + 1]
    /\ walk' = [walk EXCEPT ![t] = IF depth[t] = 3 THEN "done" ELSE "getEntry"]

(* The next level is reached; the fourth is the page itself.               *)
Descend(t) ==
    /\ at' = [at EXCEPT ![t] = EntryOf(t)]
    /\ depth' = [depth EXCEPT ![t] = depth[t] + 1]
    /\ walk' = [walk EXCEPT ![t] = IF depth[t] = 2 THEN "done" ELSE "getEntry"]

getEntry(t) ==
    /\ walk[t] = "getEntry"
    /\ IF EntryOf(t) # None
       THEN Descend(t)
       ELSE walk' = [walk EXCEPT ![t] = "makeNewEntry"] /\ UNCHANGED <<depth, at>>
    /\ UNCHANGED <<entries, used, mutex, want>>

makeNewEntry(t) ==
    /\ walk[t] = "makeNewEntry"
    /\ walk' = [walk EXCEPT ![t] = IF EntryOf(t) = None THEN "lock" ELSE "return"]
    /\ UNCHANGED <<entries, used, mutex, want, depth, at>>

lock(t) ==
    /\ walk[t] = "lock"
    /\ mutex = None
    /\ mutex' = t
    /\ walk' = [walk EXCEPT ![t] = "recheck"]
    /\ UNCHANGED <<entries, used, want, depth, at>>

(* Mutant: the entry is not looked at again under the mutex.               *)
recheckNothing(t) ==
    /\ walk[t] = "recheck"
    /\ walk' = [walk EXCEPT ![t] = "create"]
    /\ UNCHANGED <<entries, used, mutex, want, depth, at>>

recheck(t) ==
    /\ walk[t] = "recheck"
    /\ walk' = [walk EXCEPT ![t] = IF EntryOf(t) = None THEN "create" ELSE "unlock"]
    /\ UNCHANGED <<entries, used, mutex, want, depth, at>>

NewDir == CHOOSE d \in Dir : d \notin used

create(t) ==
    /\ walk[t] = "create"
    /\ used # Dir
    /\ entries' = [entries EXCEPT ![at[t]][IndexOf(t)] = NewDir]
    /\ used' = used \cup {NewDir}
    /\ walk' = [walk EXCEPT ![t] = "unlock"]
    /\ UNCHANGED <<mutex, want, depth, at>>

unlock(t) ==
    /\ walk[t] = "unlock"
    /\ mutex' = None
    /\ walk' = [walk EXCEPT ![t] = "return"]
    /\ UNCHANGED <<entries, used, want, depth, at>>

(* makeNewEntry returns the entry as it now is.                            *)
returnEntry(t) ==
    /\ walk[t] = "return"
    /\ Descend(t)
    /\ UNCHANGED <<entries, used, mutex, want>>

Walk(t) ==
    \/ getEntry(t) \/ makeNewEntry(t) \/ lock(t) \/ recheck(t) \/ create(t)
    \/ unlock(t) \/ returnEntry(t)

DirNext == \E t \in Thread : Walk(t) \/ \E a \in Address : getPage(t, a)

DirSpec == DirInit /\ [][DirNext]_dirVars

-----------------------------------------------------------------------------
(* The page a finished walk has reached.                                   *)
PageAt(t) == <<at[t], path[want[t]][4]>>

(* The directories on the way to the page of a, as far as they exist.      *)
Child(d, i) == IF d = None THEN None ELSE entries[d][i]
pud(a) == Child(pgd, path[a][1])
pmd(a) == Child(pud(a), path[a][2])
pte(a) == Child(pmd(a), path[a][3])

pageOfBar ==
    [a \in {b \in Address : pte(b) # None} |-> <<pte(a), path[a][4]>>]

gotBar ==
    [t \in Thread |->
        IF walk[t] = "done" /\ want[t] # None THEN PageAt(t) ELSE None]

Map == INSTANCE PageMap WITH
    Page <- Dir \X Index,
    pageOf <- pageOfBar,
    got <- gotBar

(* Threads that look up the same address at the same time get the same     *)
(* page, threads that look up two addresses get two, and an address keeps  *)
(* its page: the walk implements PageMap.                                  *)
PageMapSpec == Map!Spec

=============================================================================
