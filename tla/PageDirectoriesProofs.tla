----------------------- MODULE PageDirectoriesProofs -----------------------
(***************************************************************************)
(* Proofs about PageDirectories, for any number of threads, addresses and  *)
(* entries of a directory: the walk through the directories implements     *)
(* PageMap.                                                                *)
(***************************************************************************)
EXTENDS PageDirectories, TLAPS

(* The directories form a tree: an entry leads to a directory that exists, *)
(* the root is in none, and no two entries lead to the same one.           *)
IsTree ==
    /\ pgd \in used
    /\ \A d \in Dir, i \in Index :
          entries[d][i] # None => entries[d][i] \in used \ {pgd}
    /\ \A d, e \in Dir, i, j \in Index :
          entries[d][i] # None /\ entries[d][i] = entries[e][j] => d = e /\ i = j

(* The directory a walk to a has reached after n levels.                   *)
Level(n, a) == IF n = 0 THEN pgd ELSE IF n = 1 THEN pud(a)
               ELSE IF n = 2 THEN pmd(a) ELSE pte(a)

(* Every thread is where the path of its address leads.                    *)
OnPath ==
    \A t \in Thread :
        /\ want[t] # None => at[t] = Level(depth[t], want[t])
        /\ IF walk[t] = "done" THEN want[t] # None => depth[t] = 3
           ELSE want[t] # None /\ depth[t] \in 0 .. 2
        /\ walk[t] \in {"unlock", "return"} => EntryOf(t) # None

(* What the mutex protects: the entry a thread is about to write is empty, *)
(* for no other thread can write one.                                      *)
Locked ==
    \A t \in Thread :
        /\ walk[t] \in {"recheck", "create", "unlock"} => mutex = t
        /\ walk[t] = "create" => EntryOf(t) = None

IInv == DirTypeOK /\ IsTree /\ OnPath /\ Locked

-----------------------------------------------------------------------------
(* A walk goes over entries: the index it looks at is one of a directory.  *)
LEMMA IndexTyped ==
    ASSUME IInv, NEW t \in Thread, walk[t] # "done"
    PROVE  /\ want[t] \in Address
           /\ at[t] \in Dir
           /\ IndexOf(t) \in Index
           /\ EntryOf(t) \in Dir \cup {None}
  <1>1. want[t] \in Address
    BY DEF IInv, DirTypeOK, OnPath
  <1>2. depth[t] + 1 \in 1 .. 4
    BY DEF IInv, OnPath
  <1>3. IndexOf(t) \in Index
    BY <1>1, <1>2, PathAssumption DEF IndexOf
  <1> QED
    BY <1>1, <1>3 DEF IInv, DirTypeOK, EntryOf

(* The level below the one a walk has reached is the entry it looks at.    *)
LEMMA NextLevel ==
    ASSUME IInv, NEW t \in Thread, walk[t] # "done"
    PROVE  EntryOf(t) = Level(depth[t] + 1, want[t])
  <1>1. depth[t] \in 0 .. 2 /\ at[t] = Level(depth[t], want[t]) /\ at[t] # None
    BY PathAssumption DEF IInv, OnPath, DirTypeOK
  <1>2. CASE depth[t] = 0
    BY <1>1, <1>2, PathAssumption DEF EntryOf, IndexOf, Level, Child, pud
  <1>3. CASE depth[t] = 1
    BY <1>1, <1>3 DEF EntryOf, IndexOf, Level, Child, pmd
  <1>4. CASE depth[t] = 2
    BY <1>1, <1>4 DEF EntryOf, IndexOf, Level, Child, pte
  <1> QED
    BY <1>1, <1>2, <1>3, <1>4

(* A level that exists is a directory.                                     *)
LEMMA LevelTyped ==
    ASSUME IInv, NEW a \in Address
    PROVE  /\ pud(a) \in Dir \cup {None}
           /\ pmd(a) \in Dir \cup {None}
           /\ pte(a) \in Dir \cup {None}
           /\ \A n \in 1 .. 4 : path[a][n] \in Index
  <1>1. \A n \in 1 .. 4 : path[a][n] \in Index
    BY PathAssumption
  <1>2. pud(a) \in Dir \cup {None}
    BY <1>1, PathAssumption DEF IInv, DirTypeOK, pud, Child
  <1>3. pmd(a) \in Dir \cup {None}
    BY <1>1, <1>2 DEF IInv, DirTypeOK, pmd, Child
  <1>4. pte(a) \in Dir \cup {None}
    BY <1>1, <1>3 DEF IInv, DirTypeOK, pte, Child
  <1> QED
    BY <1>1, <1>2, <1>3, <1>4

(* create fills one empty entry with a directory that no entry led to, and *)
(* leaves the others as they are.                                          *)
LEMMA Stored ==
    ASSUME IInv, NEW t \in Thread, create(t)
    PROVE  /\ NewDir \in Dir \ used
           /\ EntryOf(t) = None
           /\ entries' \in [Dir -> [Index -> Dir \cup {None}]]
           /\ entries'[at[t]][IndexOf(t)] = NewDir
           /\ \A d \in Dir, i \in Index :
                 d # at[t] \/ i # IndexOf(t) => entries'[d][i] = entries[d][i]
  <1>1. at[t] \in Dir /\ IndexOf(t) \in Index
    BY IndexTyped DEF create
  <1>2. NewDir \in Dir \ used
    BY DEF create, NewDir, IInv, DirTypeOK
  <1>3. entries' = [entries EXCEPT ![at[t]][IndexOf(t)] = NewDir]
    BY DEF create
  <1>4. entries \in [Dir -> [Index -> Dir \cup {None}]]
    BY DEF IInv, DirTypeOK
  <1>5. EntryOf(t) = None
    BY DEF IInv, Locked, create
  <1> QED
    BY <1>1, <1>2, <1>3, <1>4, <1>5

(* Directories are never lost: what a step finds on a path is there after  *)
(* it.                                                                     *)
LEMMA EntriesKept ==
    ASSUME IInv, [DirNext]_dirVars,
           NEW d \in Dir, NEW i \in Index, entries[d][i] # None
    PROVE  entries'[d][i] = entries[d][i]
  <1>1. CASE \E t \in Thread : create(t)
    <2> PICK t \in Thread : create(t)
      BY <1>1
    <2> QED
      BY Stored DEF EntryOf
  <1>2. CASE ~ \E t \in Thread : create(t)
    BY <1>2 DEF DirNext, Walk, getPage, getEntry, makeNewEntry, lock, recheck,
                unlock, returnEntry, dirVars
  <1> QED
    BY <1>1, <1>2

(* So the levels of an address never change once they exist.               *)
LEMMA LevelsKept ==
    ASSUME IInv, [DirNext]_dirVars, NEW a \in Address
    PROVE  /\ pud(a) # None => pud(a)' = pud(a)
           /\ pmd(a) # None => pmd(a)' = pmd(a)
           /\ pte(a) # None => pte(a)' = pte(a)
  <1> USE PathAssumption
  <1>1. pud(a) # None => pud(a)' = pud(a)
    BY LevelTyped, EntriesKept DEF pud, Child
  <1>2. pmd(a) # None => pud(a) # None /\ pmd(a)' = pmd(a)
    BY <1>1, LevelTyped, EntriesKept DEF pmd, Child
  <1>3. pte(a) # None => pmd(a) # None /\ pte(a)' = pte(a)
    BY <1>2, LevelTyped, EntriesKept DEF pte, Child
  <1> QED
    BY <1>1, <1>2, <1>3

-----------------------------------------------------------------------------
(* The invariant.                                                          *)

(* The empty directories satisfy the inductive invariant.                  *)
LEMMA InitIInv == DirInit => IInv
  <1> SUFFICES ASSUME DirInit PROVE IInv
    OBVIOUS
  <1> USE PathAssumption DEF DirInit
  <1>1. DirTypeOK
    BY DEF DirTypeOK
  <1>2. IsTree
    BY DEF IsTree
  <1>3. OnPath
    BY DEF OnPath
  <1>4. Locked
    BY DEF Locked
  <1> QED
    BY <1>1, <1>2, <1>3, <1>4 DEF IInv

(* Each step keeps the types.                                              *)
LEMMA NextTypeOK ==
    ASSUME IInv, [DirNext]_dirVars PROVE DirTypeOK'
  <1> USE PathAssumption
  <1>0. DirTypeOK
    BY DEF IInv
  <1>1. CASE UNCHANGED dirVars
    BY <1>0, <1>1 DEF DirTypeOK, dirVars
  <1>2. ASSUME NEW t \in Thread, NEW a \in Address, getPage(t, a) PROVE DirTypeOK'
    BY <1>0, <1>2 DEF DirTypeOK, getPage
  <1>3. ASSUME NEW t \in Thread, getEntry(t) \/ returnEntry(t) PROVE DirTypeOK'
    <2>1. walk[t] # "done" /\ depth[t] \in 0 .. 2
      BY <1>3 DEF getEntry, returnEntry, IInv, OnPath
    <2>2. EntryOf(t) \in Dir \cup {None}
      BY <2>1, IndexTyped
    <2>3. CASE EntryOf(t) = None
      BY <1>0, <1>3, <2>1, <2>3 DEF DirTypeOK, getEntry, returnEntry, IInv, OnPath
    <2>4. CASE EntryOf(t) # None
      <3>1. Descend(t) /\ UNCHANGED <<entries, used, mutex, want>>
        BY <1>3, <2>4 DEF getEntry, returnEntry
      <3>2. depth' \in [Thread -> 0 .. 3]
        <4>1. depth[t] + 1 \in 0 .. 3
          BY <2>1
        <4> QED
          BY <1>0, <3>1, <4>1 DEF DirTypeOK, Descend
      <3>3. at' \in [Thread -> Dir]
        BY <1>0, <2>2, <2>4, <3>1 DEF DirTypeOK, Descend
      <3>4. walk' \in [Thread -> {"getEntry", "makeNewEntry", "lock", "recheck",
                                 "create", "unlock", "return", "done"}]
        BY <1>0, <3>1 DEF DirTypeOK, Descend
      <3> QED
        BY <1>0, <3>1, <3>2, <3>3, <3>4 DEF DirTypeOK
    <2> QED
      BY <2>3, <2>4
  <1>4. ASSUME NEW t \in Thread, makeNewEntry(t) \/ recheck(t) PROVE DirTypeOK'
    BY <1>0, <1>4 DEF DirTypeOK, makeNewEntry, recheck
  <1>5. ASSUME NEW t \in Thread, lock(t) \/ unlock(t) PROVE DirTypeOK'
    BY <1>0, <1>5 DEF DirTypeOK, lock, unlock
  <1>6. ASSUME NEW t \in Thread, create(t) PROVE DirTypeOK'
    <2>1. NewDir \in Dir /\ entries' \in [Dir -> [Index -> Dir \cup {None}]]
      BY <1>6, Stored
    <2>2. used' = used \cup {NewDir} /\ walk' = [walk EXCEPT ![t] = "unlock"]
          /\ UNCHANGED <<mutex, want, depth, at>>
      BY <1>6 DEF create
    <2> QED
      BY <1>0, <2>1, <2>2 DEF DirTypeOK
  <1> QED
    BY <1>1, <1>2, <1>3, <1>4, <1>5, <1>6 DEF DirNext, Walk

(* A new directory is reached by the entry it is stored in and no other.   *)
LEMMA NextIsTree ==
    ASSUME IInv, [DirNext]_dirVars PROVE IsTree'
  <1>0. IsTree /\ DirTypeOK
    BY DEF IInv
  <1>1. ASSUME NEW t \in Thread, create(t) PROVE IsTree'
    <2> DEFINE at0 == at[t]  i0 == IndexOf(t)
    <2>1. /\ NewDir \in Dir \ used
          /\ used' = used \cup {NewDir}
          /\ entries'[at0][i0] = NewDir
          /\ \A d \in Dir, i \in Index :
                d # at0 \/ i # i0 => entries'[d][i] = entries[d][i]
      BY <1>1, Stored DEF create
    <2> HIDE DEF at0, i0
    <2>2. pgd \in used'
      BY <1>0, <2>1 DEF IsTree
    <2>3. ASSUME NEW d \in Dir, NEW i \in Index, entries'[d][i] # None
          PROVE  entries'[d][i] \in used' \ {pgd}
      <3>1. CASE d = at0 /\ i = i0
        BY <1>0, <2>1, <3>1 DEF IsTree
      <3>2. CASE d # at0 \/ i # i0
        BY <1>0, <2>1, <2>3, <3>2 DEF IsTree
      <3> QED
        BY <3>1, <3>2
    <2>4. ASSUME NEW d \in Dir, NEW e \in Dir, NEW i \in Index, NEW j \in Index,
                 entries'[d][i] # None, entries'[d][i] = entries'[e][j]
          PROVE  d = e /\ i = j
      <3>1. CASE (d # at0 \/ i # i0) /\ (e # at0 \/ j # i0)
        BY <1>0, <2>1, <2>4, <3>1 DEF IsTree
      <3>2. CASE d = at0 /\ i = i0 /\ (e # at0 \/ j # i0)
        BY <1>0, <2>1, <2>4, <3>2 DEF IsTree
      <3>3. CASE e = at0 /\ j = i0 /\ (d # at0 \/ i # i0)
        BY <1>0, <2>1, <2>4, <3>3 DEF IsTree
      <3> QED
        BY <3>1, <3>2, <3>3
    <2> QED
      BY <2>2, <2>3, <2>4 DEF IsTree
  <1>2. CASE ~ \E t \in Thread : create(t)
    <2>1. UNCHANGED <<entries, used>>
      BY <1>2 DEF DirNext, Walk, getPage, getEntry, makeNewEntry, lock, recheck,
                  unlock, returnEntry, dirVars
    <2> QED
      BY <1>0, <2>1 DEF IsTree
  <1> QED
    BY <1>1, <1>2

(* A walk stays on its path: its own steps follow it, and those of other   *)
(* threads change no entry that exists.                                    *)
LEMMA NextOnPath ==
    ASSUME IInv, [DirNext]_dirVars PROVE OnPath'
  <1> USE PathAssumption
  <1>0. DirTypeOK /\ DirTypeOK'
    BY NextTypeOK DEF IInv
  <1>1. ASSUME NEW u \in Thread,
               want'[u] = want[u], depth'[u] = depth[u], at'[u] = at[u],
               walk'[u] # "done" <=> walk[u] # "done",
               walk[u] = walk'[u] \/ walk'[u] \notin {"unlock", "return"}
                 \/ walk[u] = "unlock" \/ EntryOf(u) # None
        PROVE  /\ want'[u] # None => at'[u] = Level(depth[u], want[u])'
               /\ IF walk'[u] = "done" THEN want'[u] # None => depth'[u] = 3
                  ELSE want'[u] # None /\ depth'[u] \in 0 .. 2
               /\ walk'[u] \in {"unlock", "return"} => EntryOf(u)' # None
    <2>1. CASE want[u] = None
      BY <1>1, <2>1 DEF IInv, OnPath
    <2>2. CASE want[u] # None
      <3>1. at[u] = Level(depth[u], want[u]) /\ at[u] # None /\ want[u] \in Address
        BY <1>0, <2>2 DEF IInv, OnPath, DirTypeOK
      <3>2. Level(depth[u], want[u])' = Level(depth[u], want[u])
        BY <1>1, <3>1, LevelsKept DEF Level
      <3>3. ASSUME walk'[u] \in {"unlock", "return"} PROVE EntryOf(u)' # None
        <4>1. EntryOf(u) # None /\ walk[u] # "done"
          BY <1>1, <3>3 DEF IInv, OnPath
        <4>2. at[u] \in Dir /\ IndexOf(u) \in Index
          BY <4>1, IndexTyped
        <4>3. entries'[at[u]][IndexOf(u)] = entries[at[u]][IndexOf(u)]
          BY <4>1, <4>2, EntriesKept DEF EntryOf
        <4> QED
          BY <1>1, <4>1, <4>3 DEF EntryOf, IndexOf
      <3> QED
        BY <1>1, <3>1, <3>2, <3>3 DEF IInv, OnPath
    <2> QED
      BY <2>1, <2>2
  <1>2. ASSUME NEW t \in Thread, NEW a \in Address, getPage(t, a) PROVE OnPath'
    <2>1. want' = [want EXCEPT ![t] = a] /\ depth' = [depth EXCEPT ![t] = 0]
          /\ at' = [at EXCEPT ![t] = pgd] /\ walk' = [walk EXCEPT ![t] = "getEntry"]
      BY <1>2 DEF getPage
    <2>2. ASSUME NEW u \in Thread, u # t
          PROVE  want'[u] = want[u] /\ depth'[u] = depth[u] /\ at'[u] = at[u]
                 /\ walk'[u] = walk[u]
      <3>1. want'[u] = want[u] /\ depth'[u] = depth[u]
        BY <1>0, <2>1, <2>2 DEF DirTypeOK
      <3>2. at'[u] = at[u] /\ walk'[u] = walk[u]
        BY <1>0, <2>1, <2>2 DEF DirTypeOK
      <3> QED
        BY <3>1, <3>2
    <2>3. want'[t] = a /\ depth'[t] = 0 /\ at'[t] = pgd /\ walk'[t] = "getEntry"
      BY <1>0, <2>1 DEF DirTypeOK
    <2> QED
      BY <1>1, <2>2, <2>3 DEF OnPath, Level
  <1>3. ASSUME NEW t \in Thread, getEntry(t) \/ returnEntry(t) PROVE OnPath'
    <2>1. walk[t] # "done" /\ depth[t] \in 0 .. 2 /\ want[t] \in Address
      BY <1>3, IndexTyped DEF getEntry, returnEntry, IInv, OnPath
    <2>2. CASE EntryOf(t) = None
      <3>1. UNCHANGED <<want, depth, at>> /\ walk' = [walk EXCEPT ![t] = "makeNewEntry"]
        BY <1>3, <2>2 DEF getEntry, returnEntry, IInv, OnPath
      <3>2. \A u \in Thread : u # t => walk'[u] = walk[u]
        BY <1>0, <3>1 DEF DirTypeOK
      <3>3. walk'[t] = "makeNewEntry"
        BY <1>0, <3>1 DEF DirTypeOK
      <3> QED
        BY <1>1, <2>1, <3>1, <3>2, <3>3 DEF OnPath
    <2>3. CASE EntryOf(t) # None
      <3>1. Descend(t) /\ UNCHANGED <<entries, want>>
        BY <1>3, <2>3 DEF getEntry, returnEntry
      <3>2. \A u \in Thread \ {t} :
                depth'[u] = depth[u] /\ at'[u] = at[u] /\ walk'[u] = walk[u]
        BY <1>0, <3>1 DEF DirTypeOK, Descend
      <3>3. /\ depth'[t] = depth[t] + 1
            /\ at'[t] = EntryOf(t)
            /\ walk'[t] = IF depth[t] = 2 THEN "done" ELSE "getEntry"
        BY <1>0, <3>1 DEF DirTypeOK, Descend
      <3>4. at'[t] = Level(depth[t], want[t])'
        <4>1. Level(depth[t], want[t])' = Level(depth[t] + 1, want[t])
          BY <3>1, <3>3 DEF Level, pud, pmd, pte, Child
        <4> QED
          BY <2>1, <3>3, <4>1, NextLevel
      <3>5. IF walk'[t] = "done" THEN depth'[t] = 3 ELSE depth'[t] \in 0 .. 2
        BY <2>1, <3>3
      <3> QED
        BY <1>1, <2>1, <3>1, <3>2, <3>3, <3>4, <3>5 DEF OnPath
    <2> QED
      BY <2>2, <2>3
  <1>4. ASSUME NEW t \in Thread, makeNewEntry(t) \/ recheck(t) \/ lock(t) \/ unlock(t)
        PROVE  OnPath'
    <2>1. /\ UNCHANGED <<want, depth, at>>
          /\ \A u \in Thread \ {t} : walk'[u] = walk[u]
          /\ walk[t] # "done" /\ walk'[t] # "done"
          /\ \/ walk'[t] \notin {"unlock", "return"}
             \/ walk[t] = "unlock" \/ EntryOf(t) # None
      BY <1>0, <1>4 DEF DirTypeOK, makeNewEntry, recheck, lock, unlock
    <2> QED
      BY <1>1, <2>1 DEF OnPath
  <1>5. ASSUME NEW t \in Thread, create(t) PROVE OnPath'
    <2>1. /\ UNCHANGED <<want, depth, at>>
          /\ \A u \in Thread \ {t} : walk'[u] = walk[u]
          /\ walk[t] = "create" /\ walk'[t] = "unlock"
      BY <1>0, <1>5 DEF DirTypeOK, create
    <2>2. want[t] # None /\ want[t] \in Address /\ depth[t] \in 0 .. 2
          /\ at[t] = Level(depth[t], want[t])
      BY <1>0, <2>1, IndexTyped DEF IInv, OnPath
    <2>3. Level(depth[t], want[t])' = Level(depth[t], want[t])
      BY <1>0, <2>1, <2>2, LevelsKept DEF Level, DirTypeOK
    <2>4. EntryOf(t)' # None
      BY <1>5, <2>1, Stored DEF EntryOf, IndexOf
    <2> QED
      BY <1>1, <2>1, <2>2, <2>3, <2>4 DEF OnPath
  <1>6. CASE UNCHANGED dirVars
    BY <1>1, <1>6 DEF OnPath, dirVars
  <1> QED
    BY <1>2, <1>3, <1>4, <1>5, <1>6 DEF DirNext, Walk

(* The mutex excludes: a thread that holds it is the only one to write.    *)
LEMMA NextLocked ==
    ASSUME IInv, [DirNext]_dirVars PROVE Locked'
  <1>0. DirTypeOK /\ Locked
    BY DEF IInv
  <1>1. ASSUME NEW t \in Thread, NEW a \in Address, getPage(t, a) PROVE Locked'
    BY <1>0, <1>1 DEF DirTypeOK, Locked, getPage, EntryOf, IndexOf
  <1>2. ASSUME NEW t \in Thread, getEntry(t) \/ returnEntry(t) PROVE Locked'
    BY <1>0, <1>2 DEF DirTypeOK, Locked, getEntry, returnEntry, Descend, EntryOf, IndexOf
  <1>3. ASSUME NEW t \in Thread, makeNewEntry(t) \/ recheck(t) PROVE Locked'
    BY <1>0, <1>3 DEF DirTypeOK, Locked, makeNewEntry, recheck, EntryOf, IndexOf
  <1>4. ASSUME NEW t \in Thread, lock(t) \/ unlock(t) PROVE Locked'
    BY <1>0, <1>4, PathAssumption DEF DirTypeOK, Locked, lock, unlock, EntryOf, IndexOf
  <1>5. ASSUME NEW t \in Thread, create(t) PROVE Locked'
    <2>1. walk' = [walk EXCEPT ![t] = "unlock"] /\ mutex' = mutex /\ walk[t] = "create"
      BY <1>5 DEF create
    <2>2. \A u \in Thread : walk'[u] # "create"
      BY <1>0, <2>1 DEF Locked, DirTypeOK
    <2> QED
      BY <1>0, <2>1, <2>2 DEF Locked, DirTypeOK
  <1>6. CASE UNCHANGED dirVars
    BY <1>0, <1>6 DEF Locked, dirVars, EntryOf, IndexOf
  <1> QED
    BY <1>1, <1>2, <1>3, <1>4, <1>5, <1>6 DEF DirNext, Walk

(* Spec => []IInv: the directories form a tree, walks stay on their paths, *)
(* and the mutex excludes.                                                 *)
THEOREM Inductive == DirSpec => []IInv
  <1>1. IInv /\ [DirNext]_dirVars => IInv'
    BY NextTypeOK, NextIsTree, NextOnPath, NextLocked DEF IInv
  <1> QED
    BY <1>1, InitIInv, PTL DEF DirSpec

(* The variables of the directories have their types.                      *)
THEOREM DirTypeCorrect == DirSpec => []DirTypeOK
  <1>1. IInv => DirTypeOK
    BY DEF IInv
  <1> QED
    BY <1>1, Inductive, PTL

-----------------------------------------------------------------------------
(* The refinement.                                                         *)

(* Two addresses whose paths reach the same directory with the same last   *)
(* index are the same: entries of different directories never join.        *)
LEMMA OnePagePerAddress ==
    ASSUME IInv, NEW a \in Address, NEW b \in Address,
           pte(a) # None, pte(a) = pte(b), path[a][4] = path[b][4]
    PROVE  a = b
  <1>0. IsTree /\ DirTypeOK /\ pgd \in Dir
    BY PathAssumption DEF IInv
  <1>1. \A n \in 1 .. 4 : path[a][n] \in Index /\ path[b][n] \in Index
    BY LevelTyped
  <1>2. pmd(a) \in Dir /\ pmd(b) \in Dir /\ pud(a) \in Dir /\ pud(b) \in Dir
    BY LevelTyped DEF pte, pmd, Child
  <1>3. pmd(a) = pmd(b) /\ path[a][3] = path[b][3]
    BY <1>0, <1>1, <1>2 DEF IsTree, pte, Child
  <1>4. pud(a) = pud(b) /\ path[a][2] = path[b][2]
    <2>1. entries[pud(a)][path[a][2]] # None
          /\ entries[pud(a)][path[a][2]] = entries[pud(b)][path[b][2]]
      BY <1>2, <1>3, PathAssumption DEF pmd, Child
    <2> QED
      BY <1>0, <1>1, <1>2, <2>1 DEF IsTree
  <1>5. path[a][1] = path[b][1]
    <2>1. entries[pgd][path[a][1]] # None
          /\ entries[pgd][path[a][1]] = entries[pgd][path[b][1]]
      BY <1>2, <1>4, PathAssumption DEF pud, Child
    <2> QED
      BY <1>0, <1>1, <2>1 DEF IsTree
  <1>6. \A n \in 1 .. 4 : path[a][n] = path[b][n]
    BY <1>3, <1>4, <1>5
  <1>7. path[a] \in [1 .. 4 -> Index] /\ path[b] \in [1 .. 4 -> Index]
    BY PathAssumption
  <1> QED
    BY <1>6, <1>7, PathAssumption

(* The pages of the mapping are pages, and no two addresses share one.     *)
IsPageMap ==
    /\ DOMAIN pageOfBar \subseteq Address
    /\ pageOfBar \in [DOMAIN pageOfBar -> Dir \X Index]
    /\ Map!Injective(pageOfBar)

(* What the directories map is a page map.                                 *)
LEMMA MapTyped == IInv => IsPageMap
  <1> SUFFICES ASSUME IInv PROVE IsPageMap
    OBVIOUS
  <1>1. \A a \in Address : pte(a) # None => <<pte(a), path[a][4]>> \in Dir \X Index
    BY LevelTyped
  <1>2. \A a, b \in DOMAIN pageOfBar : pageOfBar[a] = pageOfBar[b] => a = b
    BY OnePagePerAddress DEF pageOfBar
  <1> QED
    BY <1>1, <1>2 DEF pageOfBar, Map!Injective, IsPageMap

(* Whatever a step does, addresses keep their pages.                       *)
LEMMA MapGrows ==
    ASSUME IInv, [DirNext]_dirVars
    PROVE  \A a \in DOMAIN pageOfBar :
               a \in DOMAIN pageOfBar' /\ pageOfBar'[a] = pageOfBar[a]
  <1>1. \A a \in Address : pte(a) # None => pte(a)' = pte(a)
    BY LevelsKept
  <1> QED
    BY <1>1, PathAssumption DEF pageOfBar

(* The empty directories are the empty page map.                           *)
LEMMA InitRefines == DirInit => Map!Init
  <1> SUFFICES ASSUME DirInit PROVE Map!Init
    OBVIOUS
  <1>1. \A a \in Address : pte(a) = None
    BY PathAssumption DEF DirInit, pte, pmd, pud, Child
  <1>2. pageOfBar = [a \in {} |-> None]
    BY <1>1 DEF pageOfBar
  <1>3. gotBar = [t \in Thread |-> None]
    BY DEF gotBar, DirInit
  <1> QED
    BY <1>2, <1>3 DEF Map!Init, DirInit

(* getPage asks; the step that reaches the page answers; create may give   *)
(* addresses their pages; the other steps change nothing PageMap sees.     *)
LEMMA NextRefines ==
    ASSUME IInv, [DirNext]_dirVars, IInv', IsPageMap'
    PROVE  [Map!Next]_<<pageOfBar, want, gotBar>>
  <1>0. DirTypeOK /\ DirTypeOK' /\ OnPath /\ OnPath'
    BY DEF IInv
  <1>1. ASSUME UNCHANGED <<want, gotBar>> PROVE [Map!Next]_<<pageOfBar, want, gotBar>>
    BY <1>1, MapGrows DEF Map!Next, Map!Grow, IsPageMap
  <1>2. ASSUME UNCHANGED entries PROVE UNCHANGED pageOfBar
    BY <1>2 DEF pageOfBar, pte, pmd, pud, Child
  <1>3. ASSUME NEW t \in Thread, walk[t] # "done", walk'[t] # "done",
               UNCHANGED <<want>>,
               \A u \in Thread \ {t} :
                   walk'[u] = walk[u] /\ at'[u] = at[u] /\ depth'[u] = depth[u]
        PROVE  UNCHANGED gotBar
    BY <1>3 DEF gotBar, PageAt
  <1>4. ASSUME NEW t \in Thread, NEW a \in Address, getPage(t, a)
        PROVE  Map!Ask(t)
    <2>1. want[t] # None => gotBar[t] # None
      BY <1>0, <1>4, PathAssumption DEF gotBar, PageAt, getPage, DirTypeOK
    <2>2. gotBar' = [gotBar EXCEPT ![t] = None]
      BY <1>0, <1>4 DEF gotBar, PageAt, getPage, DirTypeOK
    <2>3. UNCHANGED pageOfBar
      BY <1>2, <1>4 DEF getPage
    <2> QED
      BY <1>4, <2>1, <2>2, <2>3 DEF Map!Ask, getPage
  <1>5. ASSUME NEW t \in Thread, getEntry(t) \/ returnEntry(t)
        PROVE  Map!Answer(t) \/ UNCHANGED <<want, gotBar>>
    <2>1. walk[t] # "done" /\ UNCHANGED <<want, entries>>
      BY <1>5 DEF getEntry, returnEntry
    <2>2. \A u \in Thread \ {t} :
              walk'[u] = walk[u] /\ at'[u] = at[u] /\ depth'[u] = depth[u]
      BY <1>0, <1>5 DEF getEntry, returnEntry, Descend, DirTypeOK
    <2>3. CASE walk'[t] # "done"
      BY <1>3, <2>1, <2>2, <2>3
    <2>4. CASE walk'[t] = "done"
      <3>1. want[t] \in Address /\ want[t] # None
        BY <2>1, IndexTyped, PathAssumption
      <3>2. at'[t] = pte(want[t])
        <4>1. want'[t] = want[t] /\ depth'[t] = 3
          BY <1>0, <2>1, <2>4, <3>1 DEF OnPath
        <4>2. at'[t] = Level(depth[t], want[t])'
          BY <1>0, <3>1, <4>1 DEF OnPath
        <4>3. Level(depth[t], want[t])' = pte(want[t])'
          BY <4>1 DEF Level
        <4>4. pte(want[t])' = pte(want[t])
          <5>1. pud(want[t])' = pud(want[t])
            BY <2>1, <4>1 DEF pud, Child
          <5>2. pmd(want[t])' = pmd(want[t])
            BY <2>1, <4>1, <5>1 DEF pmd, Child
          <5> QED
            BY <2>1, <4>1, <5>2 DEF pte, Child
        <4> QED
          BY <4>2, <4>3, <4>4
      <3>3. at'[t] # None
        BY <1>0, PathAssumption DEF DirTypeOK
      <3>4. gotBar' = [gotBar EXCEPT ![t] = pageOfBar[want[t]]]
        BY <2>1, <2>2, <2>4, <3>1, <3>2, <3>3 DEF gotBar, PageAt, pageOfBar
      <3> QED
        BY <1>2, <2>1, <3>1, <3>2, <3>3, <3>4 DEF Map!Answer, pageOfBar, gotBar
    <2> QED
      BY <2>3, <2>4
  <1>6. ASSUME NEW t \in Thread,
               makeNewEntry(t) \/ recheck(t) \/ lock(t) \/ unlock(t) \/ create(t)
        PROVE  UNCHANGED <<want, gotBar>>
    <2>1. /\ walk[t] # "done" /\ walk'[t] # "done" /\ UNCHANGED <<want, at, depth>>
          /\ \A u \in Thread \ {t} : walk'[u] = walk[u]
      BY <1>0, <1>6 DEF makeNewEntry, recheck, lock, unlock, create, DirTypeOK
    <2> QED
      BY <1>3, <2>1
  <1>7. CASE UNCHANGED dirVars
    BY <1>1, <1>7 DEF dirVars, gotBar, PageAt
  <1> QED
    BY <1>1, <1>4, <1>5, <1>6, <1>7 DEF DirNext, Walk, Map!Next

(* Spec => PageMapSpec: whatever threads look up at the same time, an      *)
(* address has one page, its own, and every look-up of it returns it.      *)
THEOREM ImplementsPageMap == DirSpec => PageMapSpec
  <1>1. IInv /\ IInv' /\ IsPageMap' /\ [DirNext]_dirVars
            => [Map!Next]_<<pageOfBar, want, gotBar>>
    BY NextRefines
  <1> QED
    BY <1>1, InitRefines, Inductive, MapTyped, PTL DEF DirSpec, PageMapSpec, Map!Spec

=============================================================================
