------------------------ MODULE AccessCountingProofs ------------------------
(***************************************************************************)
(* Proofs about AccessCounting, for every number of threads, instructions, *)
(* addresses and accesses, and every batch and cache size; and two about   *)
(* what its profile reports: it implements AccessLedger, and the cut of    *)
(* ProfileCut keeps every access.                                          *)
(***************************************************************************)
EXTENDS AccessCounting, ProfileCut, TLAPS

USE SizesAssumption, NamesAssumption

-----------------------------------------------------------------------------
(* The operators on counter maps and pointer caches.                       *)

(* A lookup leaves a pointer cache.                                        *)
LEMMA CachedType ==
    ASSUME NEW K, NEW c \in [K -> Line], NEW k \in K, NEW v \in K
    PROVE  Cached(c, k, v) \in [K -> Line]
BY DEF Cached, Line

(* Freeing what a pointer cache leads to leaves a pointer cache.           *)
LEMMA DanglingType ==
    ASSUME NEW K, NEW c \in [K -> Line]
    PROVE  Dangling(c) \in [K -> Line]
BY DEF Dangling, Line

(* Counting an access leaves a counter map.                                *)
LEMMA CountedType ==
    ASSUME NEW K, NEW m \in [K -> SUBSET Access], NEW keys, NEW x \in Access
    PROVE  Counted(m, keys, x) \in [K -> SUBSET Access]
BY DEF Counted

(* Merging two counter maps gives one.                                     *)
LEMMA MergedType ==
    ASSUME NEW K, NEW m \in [K -> SUBSET Access], NEW n \in [K -> SUBSET Access]
    PROVE  Merged(m, n) \in [K -> SUBSET Access]
BY DEF Merged

(* The empty map and the empty pointer cache are ones.                     *)
LEMMA NoCountsType ==
    ASSUME NEW K
    PROVE  NoCounts(K) \in [K -> SUBSET Access] /\ NoLines(K) \in [K -> Line]
BY DEF NoCounts, NoLines, Line

-----------------------------------------------------------------------------
(* Type correctness.                                                       *)

(* The initial state is well typed.                                        *)
LEMMA TypeInit == Init => TypeOK
BY NoCountsType DEF Init, TypeOK, NoCounts, NoLines, Line, Hook

(* The hooks a thread sets by itself are hooks.                            *)
LEMMA NoHookType == [op |-> "none"] \in Hook /\ [op |-> "access"] \in Hook
BY DEF Hook

(* Counting under the instruction keeps the types.                         *)
LEMMA CountInstructionType ==
    ASSUME TypeOK, NEW t \in Tracker, NEW e \in Event, NEW v \in Ip,
           CountInstruction(t, e, v)
    PROVE  /\ instructions' \in [Tracker -> [Ip -> SUBSET Access]]
           /\ icache' \in [Tracker -> [Ip -> Line]]
           /\ procInstr' \in [Ip -> SUBSET Access]
<1> DEFINE counted(keys) == Counted(instructions[t], keys, e.id)
<1>1. PICK keys : /\ instructions' = [instructions EXCEPT ![t] =
                         IF Entries(counted(keys)) >= CacheEntries
                         THEN NoCounts(Ip) ELSE counted(keys)]
                  /\ icache' = [icache EXCEPT ![t] =
                         IF Entries(counted(keys)) >= CacheEntries
                         THEN NoLines(Ip) ELSE Cached(@, e.ip, v)]
                  /\ procInstr' = IF Entries(counted(keys)) >= CacheEntries
                         THEN Merged(procInstr, counted(keys)) ELSE procInstr
  BY DEF CountInstruction
<1>2. e.ip \in Ip /\ e.id \in Access
  BY DEF Event
<1>3. instructions[t] \in [Ip -> SUBSET Access] /\ icache[t] \in [Ip -> Line]
  BY DEF TypeOK
<1>4. counted(keys) \in [Ip -> SUBSET Access]
  BY <1>2, <1>3, CountedType
<1>5. Cached(icache[t], e.ip, v) \in [Ip -> Line]
  BY <1>2, <1>3, CachedType
<1>6. Merged(procInstr, counted(keys)) \in [Ip -> SUBSET Access]
  BY <1>4, MergedType DEF TypeOK
<1> HIDE DEF counted
<1> QED
  BY <1>1, <1>4, <1>5, <1>6, NoCountsType DEF TypeOK

(* Counting under the malloc site keeps the types.                         *)
LEMMA CountSiteType ==
    ASSUME TypeOK, NEW t \in Tracker, NEW x \in Access, NEW s \in Site,
           NEW v \in Site, CountSite(t, x, s, v)
    PROVE  /\ allocCache' \in [Tracker -> [Site -> SUBSET Access]]
           /\ acache' \in [Tracker -> [Site -> Line]]
           /\ mallocStats' \in [Site -> SUBSET Access]
           /\ dummyAlloc' \in [Tracker -> SUBSET Access]
<1> DEFINE counted(keys) == Counted(allocCache[t], keys, x)
<1>1. PICK keys : /\ allocCache' = [allocCache EXCEPT ![t] =
                         IF Entries(counted(keys)) >= CacheEntries
                         THEN NoCounts(Site) ELSE counted(keys)]
                  /\ acache' = [acache EXCEPT ![t] =
                         IF Entries(counted(keys)) >= CacheEntries
                         THEN NoLines(Site) ELSE Cached(@, s, v)]
                  /\ mallocStats' = IF Entries(counted(keys)) >= CacheEntries
                         THEN Merged(mallocStats, counted(keys)) ELSE mallocStats
                  /\ UNCHANGED dummyAlloc
  BY DEF CountSite
<1>2. allocCache[t] \in [Site -> SUBSET Access] /\ acache[t] \in [Site -> Line]
  BY DEF TypeOK
<1>3. counted(keys) \in [Site -> SUBSET Access]
  BY <1>2, CountedType
<1>4. Cached(acache[t], s, v) \in [Site -> Line]
  BY <1>2, CachedType
<1>5. Merged(mallocStats, counted(keys)) \in [Site -> SUBSET Access]
  BY <1>3, MergedType DEF TypeOK
<1> HIDE DEF counted
<1> QED
  BY <1>1, <1>3, <1>4, <1>5, NoCountsType DEF TypeOK

(* Every step keeps the types.                                             *)
LEMMA TypeNext == TypeOK /\ [Next]_vars => TypeOK'
<1> SUFFICES ASSUME TypeOK, [Next]_vars PROVE TypeOK'
  OBVIOUS
<1> USE NoHookType
<1>1. ASSUME NEW t \in Tracker, createThreadTracker(t)
      PROVE  TypeOK'
  BY <1>1 DEF TypeOK, createThreadTracker, counterVars, exitVars, historyVars
<1>2. ASSUME NEW t \in Tracker, NEW x \in Access, NEW ip \in Ip, NEW a \in Addr,
             onAccess(t, x, ip, a)
      PROVE  TypeOK'
  <2> DEFINE e == [id |-> x, ip |-> ip, addr |-> a]
  <2>1. Append(accessBatch[t], e) \in Seq(Event)
    <3>1. e \in Event
      BY DEF Event
    <3> QED
      BY <3>1 DEF TypeOK
  <2>2. accessBatch' \in [Tracker -> Seq(Event)]
    BY <1>2, <2>1 DEF TypeOK, onAccess
  <2>3. hook' \in [Tracker -> Hook]
    BY <1>2 DEF TypeOK, onAccess
  <2>4. madeBy' \in [Access -> Ip \cup {NoIp}]
    BY <1>2 DEF TypeOK, onAccess
  <2>5. ownerAtAccess' \in [Access -> Site \cup {NoSite}]
    BY <1>2 DEF TypeOK, onAccess
  <2> QED
    BY <1>2, <2>2, <2>3, <2>4, <2>5 DEF TypeOK, onAccess, counterVars, exitVars
<1>3. ASSUME NEW t \in Tracker, NEW h \in Hook, EnterHook(t, h)
      PROVE  TypeOK'
  BY <1>3 DEF TypeOK, EnterHook, counterVars, exitVars, historyVars
<1>4. ASSUME NEW t \in Tracker, IgnoreAccess(t)
      PROVE  TypeOK'
  <2>1. Head(accessBatch[t]) \in Event /\ Tail(accessBatch[t]) \in Seq(Event)
    BY <1>4 DEF TypeOK, IgnoreAccess
  <2> QED
    BY <1>4, <2>1 DEF TypeOK, IgnoreAccess, Event, counterVars, exitVars
<1>5. ASSUME NEW t \in Tracker, NEW ip \in Ip, NEW v \in Site,
             onAccessHandling(t, ip, v)
      PROVE  TypeOK'
  <2> DEFINE e == Head(accessBatch[t])
             s == owner[e.addr]
  <2>1. e \in Event /\ Tail(accessBatch[t]) \in Seq(Event)
    BY <1>5 DEF TypeOK, onAccessHandling
  <2>2. e.id \in Access /\ e.addr \in Addr
    BY <2>1 DEF Event
  <2>3. accessBatch' \in [Tracker -> Seq(Event)]
    BY <1>5, <2>1 DEF TypeOK, onAccessHandling
  <2>4. stats' \in [Tracker -> SUBSET Access]
    BY <1>5, <2>2 DEF TypeOK, onAccessHandling
  <2>5. /\ instructions' \in [Tracker -> [Ip -> SUBSET Access]]
        /\ icache' \in [Tracker -> [Ip -> Line]]
        /\ procInstr' \in [Ip -> SUBSET Access]
    BY <1>5, <2>1, CountInstructionType DEF onAccessHandling
  <2>6. /\ allocCache' \in [Tracker -> [Site -> SUBSET Access]]
        /\ acache' \in [Tracker -> [Site -> Line]]
        /\ mallocStats' \in [Site -> SUBSET Access]
        /\ dummyAlloc' \in [Tracker -> SUBSET Access]
    <3>1. CASE s = NoSite
      <4>1. CountNonAlloc(t, e.id)
        BY <1>5, <3>1 DEF onAccessHandling
      <4> HIDE DEF e, s
      <4> QED
        BY <2>2, <4>1 DEF TypeOK, CountNonAlloc
    <3>2. CASE s # NoSite
      <4>1. s \in Site
        BY <2>2, <3>2 DEF TypeOK
      <4>2. CountSite(t, e.id, s, v)
        BY <1>5, <3>2 DEF onAccessHandling
      <4> QED
        BY ONLY TypeOK, <2>2, <4>1, <4>2, CountSiteType
    <3> QED
      BY <3>1, <3>2
  <2> QED
    BY <1>5, <2>3, <2>4, <2>5, <2>6 DEF TypeOK, onAccessHandling, exitVars, historyVars
<1>6. ASSUME NEW t \in Tracker, flushAccessBatch(t)
      PROVE  TypeOK'
  BY <1>6 DEF TypeOK, flushAccessBatch, Return, counterVars, exitVars, historyVars
<1>7. ASSUME NEW t \in Tracker, onAlloc(t)
      PROVE  TypeOK'
  <2>1. hook[t] \in Hook /\ hook[t].op = "alloc"
    BY <1>7 DEF TypeOK, onAlloc, BodyReached
  <2>2. hook[t].addr \in Addr /\ <<t, hook[t].ip>> \in Site
    BY <2>1 DEF Hook, Site
  <2>3. stale' \in SUBSET Access
    BY <1>7 DEF TypeOK, onAlloc, Outdated
  <2> QED
    BY <1>7, <2>2, <2>3 DEF TypeOK, onAlloc, Return, counterVars, exitVars
<1>8. ASSUME NEW t \in Tracker, onFree(t)
      PROVE  TypeOK'
  <2>1. stale' \in SUBSET Access
    BY <1>8 DEF TypeOK, onFree, Outdated
  <2> QED
    BY <1>8, <2>1 DEF TypeOK, onFree, Return, counterVars, exitVars
<1>9. ASSUME NEW t \in Tracker, onStop(t)
      PROVE  TypeOK'
  <2>1. Merged(procInstr, instructions[t]) \in [Ip -> SUBSET Access]
    BY MergedType DEF TypeOK
  <2>2. Dangling(icache[t]) \in [Ip -> Line]
    BY DanglingType DEF TypeOK
  <2>3. /\ instructions' \in [Tracker -> [Ip -> SUBSET Access]]
        /\ icache' \in [Tracker -> [Ip -> Line]]
    BY <1>9, <2>2, NoCountsType DEF TypeOK, onStop
  <2> QED
    BY <1>9, <2>1, <2>3 DEF TypeOK, onStop, Return, exitVars, historyVars
<1>10. ASSUME NEW t \in Tracker, flushAllocCache(t)
       PROVE  TypeOK'
  <2>1. Merged(mallocStats, allocCache[t]) \in [Site -> SUBSET Access]
    BY MergedType DEF TypeOK
  <2>2. Dangling(acache[t]) \in [Site -> Line]
    BY DanglingType DEF TypeOK
  <2>3. /\ allocCache' \in [Tracker -> [Site -> SUBSET Access]]
        /\ acache' \in [Tracker -> [Site -> Line]]
    BY <1>10, <2>2, NoCountsType DEF TypeOK, flushAllocCache
  <2> QED
    BY <1>10, <2>1, <2>3
    DEF TypeOK, flushAllocCache, Visit, Known, threadVars, historyVars
<1>11. ASSUME NEW t \in Tracker, flush(t)
       PROVE  TypeOK'
  <2>1. Merged(procInstr, instructions[t]) \in [Ip -> SUBSET Access]
    BY MergedType DEF TypeOK
  <2>2. [ip \in MallocIp |-> mallocStats[<<t, ip>>]] \in [MallocIp -> SUBSET Access]
    BY DEF TypeOK, Site
  <2>3. Merged(procAlloc, [ip \in MallocIp |-> mallocStats[<<t, ip>>]])
            \in [MallocIp -> SUBSET Access]
    BY <2>2, MergedType DEF TypeOK
  <2> QED
    BY <1>11, <2>1, <2>3 DEF TypeOK, flush, Visit, Known, threadVars, historyVars
<1>12. CASE onExit
  BY <1>12 DEF TypeOK, onExit, Known, threadVars, counterVars, historyVars
<1>13. CASE UNCHANGED vars
  BY <1>13 DEF TypeOK, vars
<1> QED
  BY <1>1, <1>2, <1>3, <1>4, <1>5, <1>6, <1>7, <1>8, <1>9, <1>10, <1>11, <1>12,
     <1>13 DEF Next, Exited

(* Every variable keeps its type, whatever the threads do and whether or   *)
(* not ids are recycled.                                                   *)
THEOREM TypeCorrect == Spec => []TypeOK
BY TypeInit, TypeNext, PTL DEF Spec

-----------------------------------------------------------------------------
(* What the steps do to the places of an access.                           *)

(* The members of a batch are accesses.                                    *)
LEMMA BatchEvents ==
    ASSUME TypeOK, NEW u \in Tracker, NEW i \in DOMAIN accessBatch[u]
    PROVE  /\ accessBatch[u][i] \in Event
           /\ accessBatch[u][i].id \in Access
           /\ accessBatch[u][i].ip \in Ip
<1>1. accessBatch[u] \in Seq(Event)
  BY DEF TypeOK
<1>2. accessBatch[u][i] \in Event
  BY <1>1
<1> QED
  BY <1>2 DEF Event

(* Taking the first access out of a batch moves no other access.           *)
LEMMA Dequeued ==
    ASSUME TypeOK, CountedOnce, NEW t \in Tracker, accessBatch[t] # <<>>,
           accessBatch' = [accessBatch EXCEPT ![t] = Tail(@)]
    PROVE  /\ Head(accessBatch[t]) \in Event
           /\ Waits(Head(accessBatch[t]).id)
           /\ \E i \in DOMAIN accessBatch[t] : accessBatch[t][i] = Head(accessBatch[t])
           /\ \A x \in Access : Waits(x)' <=> Waits(x) /\ x # Head(accessBatch[t]).id
           /\ \A u \in Tracker : \A i \in DOMAIN accessBatch'[u] :
                  \E j \in DOMAIN accessBatch[u] : accessBatch'[u][i] = accessBatch[u][j]
           /\ \A x \in Access, u, w \in Tracker :
                  \A i \in DOMAIN accessBatch'[u], j \in DOMAIN accessBatch'[w] :
                      WaitsAt(x, u, i)' /\ WaitsAt(x, w, j)' => u = w /\ i = j
<1> DEFINE b == accessBatch[t]
           shift(u, i) == IF u = t THEN i + 1 ELSE i
<1>1. b \in Seq(Event) /\ b # <<>>
  BY DEF TypeOK
<1>2. /\ DOMAIN b = 1..Len(b)
      /\ Len(b) \in Nat \ {0}
      /\ Head(b) = b[1]
      /\ DOMAIN Tail(b) = 1..(Len(b) - 1)
      /\ \A i \in 1..(Len(b) - 1) : Tail(b)[i] = b[i + 1]
      /\ \A i \in 1..Len(b) : b[i] \in Event
  BY <1>1
<1>3. accessBatch'[t] = Tail(b)
      /\ \A u \in Tracker \ {t} : accessBatch'[u] = accessBatch[u]
  BY DEF TypeOK
<1>4. ASSUME NEW u \in Tracker, NEW i \in DOMAIN accessBatch'[u]
      PROVE  /\ shift(u, i) \in DOMAIN accessBatch[u]
             /\ accessBatch'[u][i] = accessBatch[u][shift(u, i)]
  <2>1. CASE u = t
    <3>1. i \in 1..(Len(b) - 1)
      BY <2>1, <1>2, <1>3, <1>4
    <3>2. i + 1 \in 1..Len(b)
      BY <3>1, <1>2
    <3> QED
      BY <2>1, <3>1, <3>2, <1>2, <1>3
  <2>2. CASE u # t
    BY <2>2, <1>3, <1>4
  <2> QED
    BY <2>1, <2>2
<1>5. ASSUME NEW x \in Access, NEW u \in Tracker, NEW i \in DOMAIN accessBatch'[u]
      PROVE  WaitsAt(x, u, i)' <=> WaitsAt(x, u, shift(u, i))
  BY <1>4 DEF WaitsAt
<1>6. b[1] \in Event /\ 1 \in DOMAIN b /\ b[1].id \in Access
  <2>1. 1 \in 1..Len(b)
    BY <1>2
  <2>2. b[1] \in Event
    BY <2>1, <1>2
  <2> QED
    BY <2>1, <2>2, <1>2 DEF Event
<1>7. WaitsAt(b[1].id, t, 1)
  BY <1>6 DEF WaitsAt
<1>8. ASSUME NEW x \in Access, Waits(x)'
      PROVE  Waits(x) /\ x # Head(b).id
  <2>1. PICK u \in Tracker : \E i \in DOMAIN accessBatch'[u] : WaitsAt(x, u, i)'
    BY <1>8 DEF Waits
  <2>2. PICK i \in DOMAIN accessBatch'[u] : WaitsAt(x, u, i)'
    BY <2>1
  <2>3. shift(u, i) \in DOMAIN accessBatch[u] /\ WaitsAt(x, u, shift(u, i))
    BY <2>2, <1>4, <1>5
  <2>4. Waits(x)
    BY <2>3 DEF Waits
  <2>5. ASSUME x = b[1].id
        PROVE  FALSE
    <3>1. u = t /\ shift(u, i) = 1
      BY <2>3, <2>5, <1>6, <1>7 DEF CountedOnce
    <3> QED
      BY <3>1, <1>2, <1>3, <2>2
  <2> QED
    BY <2>4, <2>5, <1>2
<1>9. ASSUME NEW x \in Access, Waits(x), x # Head(b).id
      PROVE  Waits(x)'
  <2>1. PICK u \in Tracker : \E i \in DOMAIN accessBatch[u] : WaitsAt(x, u, i)
    BY <1>9 DEF Waits
  <2>2. PICK i \in DOMAIN accessBatch[u] : WaitsAt(x, u, i)
    BY <2>1
  <2>3. CASE u # t
    <3>1. i \in DOMAIN accessBatch'[u] /\ accessBatch'[u][i].id = x
      BY <2>2, <2>3, <1>3 DEF WaitsAt
    <3> QED
      BY <3>1 DEF Waits, WaitsAt
  <2>4. CASE u = t
    <3>1. i # 1
      BY <2>2, <2>4, <1>2, <1>9 DEF WaitsAt
    <3>2. i \in 1..Len(b) /\ b[i].id = x
      BY <2>2, <2>4, <1>2 DEF WaitsAt
    <3>3. i - 1 \in 1..(Len(b) - 1) /\ Tail(b)[i - 1] = b[(i - 1) + 1]
      BY <3>1, <3>2, <1>2
    <3>4. i - 1 \in DOMAIN Tail(b) /\ Tail(b)[i - 1].id = x
      <4>1. (i - 1) + 1 = i
        BY <3>2, <1>2
      <4> QED
        BY <4>1, <3>2, <3>3, <1>2
    <3>5. i - 1 \in DOMAIN accessBatch'[t] /\ accessBatch'[t][i - 1].id = x
      BY <3>4, <1>3
    <3> QED
      BY <3>5 DEF Waits, WaitsAt
  <2> QED
    BY <2>3, <2>4
<1>10. ASSUME NEW x \in Access, NEW u \in Tracker, NEW w \in Tracker,
              NEW i \in DOMAIN accessBatch'[u], NEW j \in DOMAIN accessBatch'[w],
              WaitsAt(x, u, i)', WaitsAt(x, w, j)'
       PROVE  u = w /\ i = j
  <2>1. /\ shift(u, i) \in DOMAIN accessBatch[u] /\ WaitsAt(x, u, shift(u, i))
        /\ shift(w, j) \in DOMAIN accessBatch[w] /\ WaitsAt(x, w, shift(w, j))
    BY <1>4, <1>5, <1>10
  <2>2. u = w /\ shift(u, i) = shift(w, j)
    BY <2>1 DEF CountedOnce
  <2>3. u = t => i \in Nat /\ j \in Nat
    BY <2>2, <1>2, <1>3
  <2> QED
    BY <2>2, <2>3
<1> QED
  BY <1>2, <1>4, <1>6, <1>7, <1>8, <1>9, <1>10 DEF Waits

(* With no dangling pointer an access is counted under its instruction, in *)
(* the map of the thread or, when that has reached its limit, in the       *)
(* process together with the rest of the map.                              *)
LEMMA CountedUnderItsIp ==
    ASSUME TypeOK, NEW t \in Tracker, NEW e \in Event, NEW v \in Ip,
           icache[t][e.ip] # "dangling", CountInstruction(t, e, v)
    PROVE  \/ /\ procInstr' = procInstr
              /\ \A u \in Tracker, ip \in Ip : instructions'[u][ip] =
                     IF u = t /\ ip = e.ip THEN instructions[u][ip] \cup {e.id}
                                           ELSE instructions[u][ip]
              /\ icache' = [icache EXCEPT ![t] = Cached(@, e.ip, v)]
           \/ /\ \A ip \in Ip : procInstr'[ip] = procInstr[ip] \cup instructions[t][ip]
                                        \cup (IF ip = e.ip THEN {e.id} ELSE {})
              /\ \A u \in Tracker, ip \in Ip :
                     instructions'[u][ip] = IF u = t THEN {} ELSE instructions[u][ip]
              /\ icache' = [icache EXCEPT ![t] = NoLines(Ip)]
<1> DEFINE counted == Counted(instructions[t], {e.ip}, e.id)
<1>1. Landings(instructions[t], icache[t], e.ip) = {{e.ip}}
  BY DEF Landings
<1>2. /\ instructions' = [instructions EXCEPT ![t] =
               IF Entries(counted) >= CacheEntries THEN NoCounts(Ip) ELSE counted]
      /\ icache' = [icache EXCEPT ![t] =
               IF Entries(counted) >= CacheEntries
               THEN NoLines(Ip) ELSE Cached(@, e.ip, v)]
      /\ procInstr' = IF Entries(counted) >= CacheEntries
               THEN Merged(procInstr, counted) ELSE procInstr
  BY <1>1 DEF CountInstruction
<1>3. e.ip \in Ip /\ instructions[t] \in [Ip -> SUBSET Access]
  BY DEF Event, TypeOK
<1>4. \A ip \in Ip : counted[ip] =
          instructions[t][ip] \cup (IF ip = e.ip THEN {e.id} ELSE {})
  BY <1>3 DEF Counted
<1>5. \A ip \in Ip : Merged(procInstr, counted)[ip] = procInstr[ip] \cup counted[ip]
  BY DEF Merged, TypeOK
<1>6. \A ip \in Ip : NoCounts(Ip)[ip] = {}
  BY DEF NoCounts
<1> HIDE DEF counted
<1>7. CASE Entries(counted) >= CacheEntries
  <2>1. /\ instructions' = [instructions EXCEPT ![t] = NoCounts(Ip)]
        /\ icache' = [icache EXCEPT ![t] = NoLines(Ip)]
        /\ procInstr' = Merged(procInstr, counted)
    BY <1>2, <1>7
  <2>2. \A ip \in Ip : procInstr'[ip] = procInstr[ip] \cup instructions[t][ip]
                                       \cup (IF ip = e.ip THEN {e.id} ELSE {})
    BY <2>1, <1>4, <1>5
  <2>3. \A u \in Tracker, ip \in Ip :
            instructions'[u][ip] = IF u = t THEN {} ELSE instructions[u][ip]
    BY <2>1, <1>6 DEF TypeOK
  <2> QED
    BY <2>1, <2>2, <2>3
<1>8. CASE ~(Entries(counted) >= CacheEntries)
  <2>1. /\ instructions' = [instructions EXCEPT ![t] = counted]
        /\ icache' = [icache EXCEPT ![t] = Cached(@, e.ip, v)]
        /\ procInstr' = procInstr
    BY <1>2, <1>8
  <2>2. instructions'[t] = counted /\ \A u \in Tracker \ {t} :
            instructions'[u] = instructions[u]
    BY <2>1 DEF TypeOK
  <2>3. \A ip \in Ip : instructions'[t][ip] =
            IF ip = e.ip THEN instructions[t][ip] \cup {e.id} ELSE instructions[t][ip]
    <3>1. \A ip \in Ip : instructions[t][ip] \cup {} = instructions[t][ip]
      OBVIOUS
    <3> QED
      BY <2>2, <1>4, <3>1
  <2>4. \A u \in Tracker, ip \in Ip : instructions'[u][ip] =
            IF u = t /\ ip = e.ip THEN instructions[u][ip] \cup {e.id}
                                  ELSE instructions[u][ip]
    BY <2>2, <2>3
  <2> QED
    BY <2>1, <2>4
<1> QED
  BY <1>7, <1>8

-----------------------------------------------------------------------------
(* The inductive invariant.                                                *)

Places == <<accessBatch, instructions, procInstr, skipped, madeBy>>

(* IInv holds initially.                                                   *)
LEMMA PlacesInit == Init => IInv
<1> SUFFICES ASSUME Init PROVE IInv
  OBVIOUS
<1>1. \A t \in Tracker : /\ accessBatch[t] = <<>> /\ hook[t].op = "none"
                         /\ life[t] = "none"
  BY DEF Init
<1>2. \A t \in Tracker, ip \in Ip : instructions[t][ip] = {} /\ icache[t][ip] = "absent"
  BY DEF Init, NoCounts, NoLines
<1>3. \A ip \in Ip : procInstr[ip] = {}
  BY DEF Init, NoCounts
<1>4. skipped = {} /\ \A x \in Access : madeBy[x] = NoIp
  BY DEF Init
<1>5. \A x \in Access : ~Waits(x) /\ ~InThread(x) /\ ~InProcess(x)
  BY <1>1, <1>2, <1>3 DEF Waits, InThread, InProcess, WaitsAt
<1>6. \A t \in Tracker : DOMAIN accessBatch[t] = {}
  BY <1>1
<1>7. CountedOnce /\ Placed /\ UnderItsIp
  BY <1>2, <1>3, <1>4, <1>5, <1>6 DEF CountedOnce, Placed, UnderItsIp
<1>8. IdleHoldsNothing /\ DanglingOnlyAfterEnd
  BY <1>1, <1>2 DEF IdleHoldsNothing, DanglingOnlyAfterEnd
<1>9. ExitAfterThreads
  BY DEF Init, ExitAfterThreads
<1> QED
  BY <1>7, <1>8, <1>9, TypeInit DEF IInv

(* A step that moves no access keeps every access in its place.            *)
LEMMA PlacesUnchanged ==
    ASSUME CountedOnce, Placed, UnderItsIp, UNCHANGED Places
    PROVE  (CountedOnce /\ Placed /\ UnderItsIp)'
BY DEF Places, CountedOnce, Placed, UnderItsIp, Waits, WaitsAt, InThread, InProcess

(* A thread makes an access and queues it.                                 *)
LEMMA PlacesOnAccess ==
    ASSUME IInv, NEW t \in Tracker, NEW x \in Access, NEW ip \in Ip, NEW a \in Addr,
           onAccess(t, x, ip, a)
    PROVE  (CountedOnce /\ Placed /\ UnderItsIp)'
<1> DEFINE b == accessBatch[t]
           e == [id |-> x, ip |-> ip, addr |-> a]
<1>1. /\ accessBatch' = [accessBatch EXCEPT ![t] = Append(@, e)]
      /\ madeBy' = [madeBy EXCEPT ![x] = ip]
      /\ madeBy[x] = NoIp
      /\ UNCHANGED <<instructions, procInstr, skipped>>
  BY DEF onAccess, counterVars
<1>2. b \in Seq(Event)
  BY DEF IInv, TypeOK
<1>3. e \in Event
  BY DEF Event
<1>4. /\ DOMAIN b = 1..Len(b) /\ Len(b) \in Nat
      /\ DOMAIN Append(b, e) = 1..(Len(b) + 1)
      /\ Append(b, e)[Len(b) + 1] = e
      /\ \A i \in 1..Len(b) : Append(b, e)[i] = b[i]
  BY <1>2, <1>3
<1>5. /\ accessBatch'[t] = Append(b, e)
      /\ \A u \in Tracker \ {t} : accessBatch'[u] = accessBatch[u]
  BY <1>1 DEF IInv, TypeOK
<1>6. ~Waits(x) /\ ~InThread(x) /\ ~InProcess(x) /\ x \notin skipped
  BY <1>1 DEF IInv, Placed
<1>7. ASSUME NEW u \in Tracker, NEW i \in DOMAIN accessBatch'[u]
      PROVE  \/ u = t /\ i = Len(b) + 1 /\ accessBatch'[u][i] = e
             \/ i \in DOMAIN accessBatch[u] /\ accessBatch'[u][i] = accessBatch[u][i]
  <2>1. CASE u = t
    <3>1. i \in 1..(Len(b) + 1)
      BY <2>1, <1>4, <1>5, <1>7
    <3>2. i = Len(b) + 1 \/ i \in 1..Len(b)
      BY <3>1, <1>4
    <3> QED
      BY <2>1, <3>2, <1>4, <1>5
  <2>2. CASE u # t
    BY <2>2, <1>5, <1>7
  <2> QED
    BY <2>1, <2>2
<1>8. ASSUME NEW u \in Tracker, NEW i \in DOMAIN accessBatch[u]
      PROVE  i \in DOMAIN accessBatch'[u] /\ accessBatch'[u][i] = accessBatch[u][i]
  <2>1. CASE u = t
    BY <2>1, <1>4, <1>5, <1>8
  <2>2. CASE u # t
    BY <2>2, <1>5, <1>8
  <2> QED
    BY <2>1, <2>2
<1>9. Len(b) + 1 \in DOMAIN accessBatch'[t] /\ accessBatch'[t][Len(b) + 1].id = x
  BY <1>4, <1>5
<1>10. ASSUME NEW u \in Tracker, NEW i \in DOMAIN accessBatch[u]
       PROVE  accessBatch[u][i].id # x
  BY <1>6, <1>10 DEF Waits, WaitsAt
<1>11. ASSUME NEW y \in Access
       PROVE  Waits(y)' <=> Waits(y) \/ y = x
  <2>1. Waits(y) => Waits(y)'
    BY <1>8 DEF Waits, WaitsAt
  <2>2. Waits(x)'
    BY <1>9 DEF Waits, WaitsAt
  <2>3. Waits(y)' => Waits(y) \/ y = x
    BY <1>7 DEF Waits, WaitsAt
  <2> QED
    BY <2>1, <2>2, <2>3
<1>12. \A y \in Access : (InThread(y)' <=> InThread(y)) /\ (InProcess(y)' <=> InProcess(y))
  BY <1>1 DEF InThread, InProcess
<1>13. ASSUME NEW y \in Access, NEW u \in Tracker, NEW w \in Tracker,
              NEW i \in DOMAIN accessBatch'[u], NEW j \in DOMAIN accessBatch'[w],
              WaitsAt(y, u, i)', WaitsAt(y, w, j)'
       PROVE  u = w /\ i = j
  <2>1. accessBatch'[u][i].id = y /\ accessBatch'[w][j].id = y
    BY <1>13 DEF WaitsAt
  <2>2. CASE y = x
    BY <2>1, <2>2, <1>7, <1>10
  <2>3. CASE y # x
    <3>1. /\ i \in DOMAIN accessBatch[u] /\ accessBatch[u][i].id = y
          /\ j \in DOMAIN accessBatch[w] /\ accessBatch[w][j].id = y
      BY <2>1, <2>3, <1>7
    <3> QED
      BY <3>1 DEF IInv, CountedOnce, WaitsAt
  <2> QED
    BY <2>2, <2>3
<1>14. CountedOnce'
  BY <1>1, <1>6, <1>11, <1>12, <1>13 DEF IInv, CountedOnce
<1>15. Placed'
  BY <1>1, <1>6, <1>11, <1>12 DEF IInv, TypeOK, Placed
<1>16. UnderItsIp'
  <2>1. \A y \in Access \ {x} : madeBy'[y] = madeBy[y]
    BY <1>1 DEF IInv, TypeOK
  <2>2. madeBy'[x] = ip
    BY <1>1 DEF IInv, TypeOK
  <2>3. \A u \in Tracker : \A i \in DOMAIN accessBatch[u] : accessBatch[u][i].id \in Access
    BY BatchEvents DEF IInv
  <2>4. \A u \in Tracker : \A i \in DOMAIN accessBatch'[u] :
            accessBatch'[u][i].ip = madeBy'[accessBatch'[u][i].id]
    BY <2>1, <2>2, <2>3, <1>7, <1>10 DEF IInv, UnderItsIp
  <2>5. \A u \in Tracker, k \in Ip : x \notin instructions[u][k] /\ x \notin procInstr[k]
    BY <1>6 DEF InThread, InProcess
  <2>6. \A u \in Tracker, k \in Ip : instructions[u][k] \in SUBSET Access
                                     /\ procInstr[k] \in SUBSET Access
    BY DEF IInv, TypeOK
  <2> QED
    BY <2>1, <2>4, <2>5, <2>6, <1>1 DEF IInv, UnderItsIp
<1> QED
  BY <1>14, <1>15, <1>16

(* An access is ignored.                                                   *)
LEMMA PlacesIgnoreAccess ==
    ASSUME IInv, NEW t \in Tracker, IgnoreAccess(t)
    PROVE  (CountedOnce /\ Placed /\ UnderItsIp)'
<1> DEFINE x == Head(accessBatch[t]).id
<1>1. /\ accessBatch[t] # <<>>
      /\ accessBatch' = [accessBatch EXCEPT ![t] = Tail(@)]
      /\ skipped' = skipped \cup {x}
      /\ UNCHANGED <<instructions, procInstr, madeBy>>
  BY DEF IgnoreAccess, counterVars
<1>2. /\ Waits(x) /\ x \in Access
      /\ \A y \in Access : Waits(y)' <=> Waits(y) /\ y # x
      /\ \A u \in Tracker : \A i \in DOMAIN accessBatch'[u] :
             \E j \in DOMAIN accessBatch[u] : accessBatch'[u][i] = accessBatch[u][j]
      /\ \A y \in Access, u, w \in Tracker :
             \A i \in DOMAIN accessBatch'[u], j \in DOMAIN accessBatch'[w] :
                 WaitsAt(y, u, i)' /\ WaitsAt(y, w, j)' => u = w /\ i = j
  BY <1>1, Dequeued DEF IInv, Event
<1> HIDE DEF x
<1>3. \A y \in Access : (InThread(y)' <=> InThread(y)) /\ (InProcess(y)' <=> InProcess(y))
  BY <1>1 DEF InThread, InProcess
<1>4. ~InThread(x) /\ ~InProcess(x) /\ x \notin skipped
  BY <1>2 DEF IInv, CountedOnce
<1>5. CountedOnce'
  BY <1>1, <1>2, <1>3, <1>4 DEF IInv, CountedOnce
<1>6. Placed'
  BY <1>1, <1>2, <1>3 DEF IInv, Placed
<1>7. UnderItsIp'
  BY <1>1, <1>2 DEF IInv, UnderItsIp
<1> QED
  BY <1>5, <1>6, <1>7

(* An access leaves its batch for the counters of its instruction.         *)
LEMMA PlacesOnAccessHandling ==
    ASSUME IInv, NEW t \in Tracker, NEW v \in Ip, NEW sv \in Site, life[t] = "alive",
           onAccessHandling(t, v, sv)
    PROVE  (CountedOnce /\ Placed /\ UnderItsIp)'
<1> DEFINE e == Head(accessBatch[t])
<1>1. /\ accessBatch[t] # <<>>
      /\ accessBatch' = [accessBatch EXCEPT ![t] = Tail(@)]
      /\ CountInstruction(t, e, v)
      /\ UNCHANGED <<skipped, madeBy>>
  BY DEF onAccessHandling, historyVars
<1>2. /\ Waits(e.id) /\ e \in Event
      /\ \E i \in DOMAIN accessBatch[t] : accessBatch[t][i] = e
      /\ \A y \in Access : Waits(y)' <=> Waits(y) /\ y # e.id
      /\ \A u \in Tracker : \A i \in DOMAIN accessBatch'[u] :
             \E j \in DOMAIN accessBatch[u] : accessBatch'[u][i] = accessBatch[u][j]
      /\ \A y \in Access, u, w \in Tracker :
             \A i \in DOMAIN accessBatch'[u], j \in DOMAIN accessBatch'[w] :
                 WaitsAt(y, u, i)' /\ WaitsAt(y, w, j)' => u = w /\ i = j
  BY <1>1, Dequeued DEF IInv
<1>3. e.id \in Access /\ e.ip \in Ip
  BY <1>2 DEF Event
<1> HIDE DEF e
<1>4. madeBy[e.id] = e.ip
  BY <1>2 DEF IInv, UnderItsIp
<1>5. ~InThread(e.id) /\ ~InProcess(e.id) /\ e.id \notin skipped
  BY <1>2, <1>3 DEF IInv, CountedOnce
<1>6. icache[t][e.ip] # "dangling"
  BY <1>3 DEF IInv, DanglingOnlyAfterEnd
<1>7. CASE /\ procInstr' = procInstr
           /\ \A u \in Tracker, ip \in Ip : instructions'[u][ip] =
                  IF u = t /\ ip = e.ip THEN instructions[u][ip] \cup {e.id}
                                        ELSE instructions[u][ip]
  <2>1. \A y \in Access, u \in Tracker, ip \in Ip : y \in instructions'[u][ip] <=>
            y \in instructions[u][ip] \/ (u = t /\ ip = e.ip /\ y = e.id)
    <3> TAKE y \in Access, u \in Tracker, ip \in Ip
    <3>1. CASE u = t /\ ip = e.ip
      BY <1>7, <3>1
    <3>2. CASE ~(u = t /\ ip = e.ip)
      <4>1. instructions'[u][ip] = instructions[u][ip]
        BY <1>7, <3>2
      <4> QED
        BY <3>2, <4>1
    <3> QED
      BY <3>1, <3>2
  <2>2. \A y \in Access : (InThread(y)' <=> InThread(y) \/ y = e.id)
                          /\ (InProcess(y)' <=> InProcess(y))
    BY <1>3, <1>7, <2>1 DEF InThread, InProcess
  <2>3. \A y \in Access, u, w \in Tracker, i, j \in Ip :
            y \in instructions'[u][i] /\ y \in instructions'[w][j] => u = w /\ i = j
    BY <1>3, <1>5, <2>1 DEF IInv, CountedOnce, InThread
  <2>4. CountedOnce'
    BY <1>1, <1>2, <1>5, <1>7, <2>2, <2>3 DEF IInv, CountedOnce
  <2>5. Placed'
    BY <1>1, <1>2, <1>3, <2>2 DEF IInv, Placed
  <2>6. \A u \in Tracker, ip \in Ip : \A y \in instructions'[u][ip] : madeBy[y] = ip
    <3> TAKE u \in Tracker, ip \in Ip
    <3>1. CASE u = t /\ ip = e.ip
      <4>1. instructions'[u][ip] = instructions[u][ip] \cup {e.id}
        BY <1>7, <3>1
      <4>2. \A y \in instructions[u][ip] : madeBy[y] = ip
        BY DEF IInv, UnderItsIp
      <4> QED
        BY <1>4, <3>1, <4>1, <4>2
    <3>2. CASE ~(u = t /\ ip = e.ip)
      <4>1. instructions'[u][ip] = instructions[u][ip]
        BY <1>7, <3>2
      <4> QED
        BY <4>1 DEF IInv, UnderItsIp
    <3> QED
      BY <3>1, <3>2
  <2>7. UnderItsIp'
    BY <1>1, <1>2, <1>7, <2>6 DEF IInv, UnderItsIp
  <2> QED
    BY <2>4, <2>5, <2>7
<1>8. CASE /\ \A ip \in Ip : procInstr'[ip] = procInstr[ip] \cup instructions[t][ip]
                                       \cup (IF ip = e.ip THEN {e.id} ELSE {})
           /\ \A u \in Tracker, ip \in Ip :
                  instructions'[u][ip] = IF u = t THEN {} ELSE instructions[u][ip]
  <2>1. \A y \in Access, u \in Tracker, ip \in Ip : y \in instructions'[u][ip] <=>
            u # t /\ y \in instructions[u][ip]
    BY <1>8
  <2>2. \A y \in Access, ip \in Ip : y \in procInstr'[ip] <=>
            y \in procInstr[ip] \/ y \in instructions[t][ip] \/ (ip = e.ip /\ y = e.id)
    BY <1>8
  <2>3. \A y \in Access :
            /\ InThread(y)' <=> \E u \in Tracker \ {t}, ip \in Ip : y \in instructions[u][ip]
            /\ InProcess(y)' <=> \/ InProcess(y)
                                \/ \E ip \in Ip : y \in instructions[t][ip]
                                \/ y = e.id
    <3> TAKE y \in Access
    <3>1. InThread(y)' <=> \E u \in Tracker \ {t}, ip \in Ip : y \in instructions[u][ip]
      BY <2>1 DEF InThread
    <3>2. InProcess(y)' <=> \/ InProcess(y)
                           \/ \E ip \in Ip : y \in instructions[t][ip]
                           \/ y = e.id
      BY <1>3, <2>2 DEF InProcess
    <3> QED
      BY <3>1, <3>2
  <2>4. \A y \in Access : InThread(y)' \/ InProcess(y)'
                             <=> InThread(y) \/ InProcess(y) \/ y = e.id
    BY <2>3 DEF InThread
  <2>5. \A u \in Tracker, ip \in Ip : \A y \in instructions'[u][ip] : madeBy[y] = ip
    BY <1>8 DEF IInv, UnderItsIp
  <2>6. \A ip \in Ip : \A y \in procInstr'[ip] : madeBy[y] = ip
    BY <1>4, <1>8 DEF IInv, UnderItsIp
  <2>7. UnderItsIp'
    BY <1>1, <1>2, <2>5, <2>6 DEF IInv, UnderItsIp
  <2>8. \A y \in Access, u, w \in Tracker, i, j \in Ip :
            y \in instructions'[u][i] /\ y \in instructions'[w][j] => u = w /\ i = j
    BY <2>1 DEF IInv, CountedOnce
  <2>9. \A y \in Access, i, j \in Ip : y \in procInstr'[i] /\ y \in procInstr'[j] => i = j
    BY <2>6
  <2>10. \A y \in Access :
            /\ Waits(y)' => ~InThread(y)' /\ ~InProcess(y)' /\ y \notin skipped
            /\ InThread(y)' => ~InProcess(y)' /\ y \notin skipped
            /\ InProcess(y)' => y \notin skipped
    <3> TAKE y \in Access
    <3>1. /\ Waits(y) => ~InThread(y) /\ ~InProcess(y) /\ y \notin skipped
          /\ InThread(y) => ~InProcess(y) /\ y \notin skipped
          /\ InProcess(y) => y \notin skipped
          /\ \A u, w \in Tracker, i, j \in Ip :
                 y \in instructions[u][i] /\ y \in instructions[w][j] => u = w /\ i = j
      BY DEF IInv, CountedOnce
    <3>2. Waits(y)' => ~InThread(y)' /\ ~InProcess(y)' /\ y \notin skipped
      BY <1>2, <2>4, <3>1
    <3>3. InThread(y)' => InThread(y) /\ ~(\E ip \in Ip : y \in instructions[t][ip])
      BY <2>3, <3>1 DEF InThread
    <3>4. InThread(y)' => ~InProcess(y)' /\ y \notin skipped
      BY <1>5, <2>3, <3>1, <3>3
    <3>5. InProcess(y)' => y \notin skipped
      BY <1>5, <2>4, <3>1
    <3> QED
      BY <3>2, <3>4, <3>5
  <2>11. CountedOnce'
    BY <1>1, <1>2, <2>8, <2>9, <2>10 DEF CountedOnce
  <2>12. Placed'
    BY <1>1, <1>2, <1>3, <2>4 DEF IInv, Placed
  <2> QED
    BY <2>7, <2>11, <2>12
<1>9. TypeOK
  BY DEF IInv
<1>10. \/ /\ procInstr' = procInstr
          /\ \A u \in Tracker, ip \in Ip : instructions'[u][ip] =
                 IF u = t /\ ip = e.ip THEN instructions[u][ip] \cup {e.id}
                                       ELSE instructions[u][ip]
       \/ /\ \A ip \in Ip : procInstr'[ip] = procInstr[ip] \cup instructions[t][ip]
                                    \cup (IF ip = e.ip THEN {e.id} ELSE {})
          /\ \A u \in Tracker, ip \in Ip :
                 instructions'[u][ip] = IF u = t THEN {} ELSE instructions[u][ip]
  <2>1. e \in Event /\ CountInstruction(t, e, v)
    BY <1>1, <1>2
  <2> QED
    BY ONLY TypeOK, t \in Tracker, v \in Ip, <2>1, <1>6, <1>9, CountedUnderItsIp
<1> QED
  BY <1>7, <1>8, <1>10

(* A thread that ends hands its counters to the process.                   *)
LEMMA PlacesOnStop ==
    ASSUME IInv, NEW t \in Tracker, onStop(t)
    PROVE  (CountedOnce /\ Placed /\ UnderItsIp)'
<1>1. /\ procInstr' = Merged(procInstr, instructions[t])
      /\ instructions' = [instructions EXCEPT ![t] = NoCounts(Ip)]
      /\ UNCHANGED <<accessBatch, skipped, madeBy>>
  BY DEF onStop, historyVars
<1>2. \A ip \in Ip : procInstr'[ip] = procInstr[ip] \cup instructions[t][ip]
  BY <1>1 DEF IInv, TypeOK, Merged
<1>3. \A u \in Tracker, ip \in Ip :
          instructions'[u][ip] = IF u = t THEN {} ELSE instructions[u][ip]
  BY <1>1 DEF IInv, TypeOK, NoCounts
<1>4. \A y \in Access : Waits(y)' <=> Waits(y)
  BY <1>1 DEF Waits, WaitsAt
<1>5. \A y \in Access :
          /\ InThread(y)' <=> \E u \in Tracker \ {t}, ip \in Ip : y \in instructions[u][ip]
          /\ InProcess(y)' <=> \/ InProcess(y)
                              \/ \E ip \in Ip : y \in instructions[t][ip]
  <2> TAKE y \in Access
  <2>1. InThread(y)' <=> \E u \in Tracker \ {t}, ip \in Ip : y \in instructions[u][ip]
    BY <1>3 DEF InThread
  <2>2. InProcess(y)' <=> InProcess(y) \/ \E ip \in Ip : y \in instructions[t][ip]
    BY <1>2 DEF InProcess
  <2> QED
    BY <2>1, <2>2
<1>6. \A y \in Access : InThread(y)' \/ InProcess(y)' <=> InThread(y) \/ InProcess(y)
  BY <1>5 DEF InThread
<1>7. Placed'
  BY <1>1, <1>4, <1>6 DEF IInv, Placed
<1>8. \A ip \in Ip : \A y \in procInstr'[ip] : madeBy[y] = ip
  BY <1>2 DEF IInv, UnderItsIp
<1>9. \A u \in Tracker, ip \in Ip : \A y \in instructions'[u][ip] : madeBy[y] = ip
  BY <1>3 DEF IInv, UnderItsIp
<1>10. UnderItsIp'
  BY <1>1, <1>8, <1>9 DEF IInv, UnderItsIp
<1>11. \A y \in Access, u, w \in Tracker, i, j \in Ip :
           y \in instructions'[u][i] /\ y \in instructions'[w][j] => u = w /\ i = j
  BY <1>3 DEF IInv, CountedOnce
<1>12. \A y \in Access, i, j \in Ip : y \in procInstr'[i] /\ y \in procInstr'[j] => i = j
  BY <1>8
<1>13. \A y \in Access, u, w \in Tracker :
           \A i \in DOMAIN accessBatch'[u], j \in DOMAIN accessBatch'[w] :
               WaitsAt(y, u, i)' /\ WaitsAt(y, w, j)' => u = w /\ i = j
  BY <1>1 DEF IInv, CountedOnce, WaitsAt
<1>14. \A y \in Access :
           /\ Waits(y)' => ~InThread(y)' /\ ~InProcess(y)' /\ y \notin skipped
           /\ InThread(y)' => ~InProcess(y)' /\ y \notin skipped
           /\ InProcess(y)' => y \notin skipped
  <2> TAKE y \in Access
  <2>1. /\ Waits(y) => ~InThread(y) /\ ~InProcess(y) /\ y \notin skipped
        /\ InThread(y) => ~InProcess(y) /\ y \notin skipped
        /\ InProcess(y) => y \notin skipped
        /\ \A u, w \in Tracker, i, j \in Ip :
               y \in instructions[u][i] /\ y \in instructions[w][j] => u = w /\ i = j
    BY DEF IInv, CountedOnce
  <2>2. InThread(y)' => InThread(y) /\ ~(\E ip \in Ip : y \in instructions[t][ip])
    BY <1>5, <2>1 DEF InThread
  <2>3. InThread(y)' => ~InProcess(y)'
    BY <1>5, <2>1, <2>2
  <2> QED
    BY <1>4, <1>6, <2>1, <2>2, <2>3
<1>15. CountedOnce'
  BY <1>1, <1>11, <1>12, <1>13, <1>14 DEF CountedOnce
<1> QED
  BY <1>7, <1>10, <1>15

(* Only a running thread has a batch to flush.                             *)
LEMMA FlushingIsAlive ==
    ASSUME IInv, NEW t \in Tracker, Flushing(t), accessBatch[t] # <<>>
    PROVE  life[t] = "alive"
BY DEF IInv, IdleHoldsNothing

(* A pointer cache that is used, or flushed, does not come to dangle.      *)
LEMMA CachedDoesNotDangle ==
    ASSUME NEW K, NEW c \in [K -> Line], NEW k \in K, NEW v \in K,
           NEW j \in K, c[j] # "dangling"
    PROVE  Cached(c, k, v)[j] # "dangling"
BY DEF Cached, Line

(* Handling an access leaves other threads idle and its own pointers live. *)
LEMMA IdleOnAccessHandling ==
    ASSUME IInv, NEW t \in Tracker, NEW v \in Ip, NEW sv \in Site, life[t] = "alive",
           onAccessHandling(t, v, sv)
    PROVE  (IdleHoldsNothing /\ DanglingOnlyAfterEnd /\ ExitAfterThreads)'
<1> DEFINE e == Head(accessBatch[t])
<1>1. /\ accessBatch' = [accessBatch EXCEPT ![t] = Tail(@)]
      /\ CountInstruction(t, e, v)
      /\ UNCHANGED <<life, hook, phase>>
  BY DEF onAccessHandling, exitVars
<1>2. e \in Event
  BY Dequeued DEF IInv, onAccessHandling
<1>3. e.ip \in Ip
  BY <1>2 DEF Event
<1> HIDE DEF e
<1>4. icache[t][e.ip] # "dangling"
  BY <1>3 DEF IInv, DanglingOnlyAfterEnd
<1>5. TypeOK
  BY DEF IInv
<1>6. \A u \in Tracker \ {t}, ip \in Ip : instructions'[u][ip] = instructions[u][ip]
  <2>1. \A u \in Tracker \ {t} : instructions'[u] = instructions[u]
    BY <1>1, <1>5 DEF TypeOK, CountInstruction
  <2> QED
    BY <2>1
<1>7. \/ icache' = [icache EXCEPT ![t] = Cached(@, e.ip, v)]
      \/ icache' = [icache EXCEPT ![t] = NoLines(Ip)]
  BY ONLY TypeOK, t \in Tracker, v \in Ip, <1>1, <1>2, <1>4, <1>5, CountedUnderItsIp
<1>8. \A u \in Tracker \ {t}, ip \in Ip : icache'[u][ip] = icache[u][ip]
  BY <1>5, <1>7 DEF TypeOK
<1>9. \A ip \in Ip : icache'[t][ip] # "dangling"
  <2>1. CASE icache' = [icache EXCEPT ![t] = Cached(@, e.ip, v)]
    <3>1. icache'[t] = Cached(icache[t], e.ip, v)
      BY <2>1, <1>5 DEF TypeOK
    <3>2. icache[t] \in [Ip -> Line] /\ \A ip \in Ip : icache[t][ip] # "dangling"
      BY DEF IInv, TypeOK, DanglingOnlyAfterEnd
    <3> QED
      BY <1>3, <3>1, <3>2, CachedDoesNotDangle
  <2>2. CASE icache' = [icache EXCEPT ![t] = NoLines(Ip)]
    BY <2>2, <1>5 DEF TypeOK, NoLines
  <2> QED
    BY <1>7, <2>1, <2>2
<1>10. IdleHoldsNothing'
  <2> SUFFICES ASSUME NEW u \in Tracker, life[u] # "alive"
               PROVE  /\ hook[u].op = "none"
                      /\ accessBatch'[u] = <<>>
                      /\ \A ip \in Ip : instructions'[u][ip] = {}
    BY <1>1 DEF IdleHoldsNothing
  <2>1. u # t
    OBVIOUS
  <2>2. accessBatch'[u] = accessBatch[u]
    BY <2>1, <1>1, <1>5 DEF TypeOK
  <2> QED
    BY <2>1, <2>2, <1>6 DEF IInv, IdleHoldsNothing
<1>11. DanglingOnlyAfterEnd'
  BY <1>1, <1>8, <1>9 DEF IInv, DanglingOnlyAfterEnd
<1> QED
  BY <1>1, <1>10, <1>11 DEF IInv, ExitAfterThreads

(* IInv is inductive when no id is recycled.                               *)
LEMMA IInvNext ==
    ASSUME ~RecycleIds, IInv, [Next]_vars
    PROVE  IInv'
<1> DEFINE Counters == (CountedOnce /\ Placed /\ UnderItsIp)'
           Idle == (IdleHoldsNothing /\ DanglingOnlyAfterEnd /\ ExitAfterThreads)'
<1>1. TypeOK'
  BY TypeNext DEF IInv
<1>2. ASSUME NEW t \in Tracker, createThreadTracker(t)
      PROVE  Counters /\ Idle
  <2>1. UNCHANGED Places
    BY <1>2 DEF createThreadTracker, counterVars, historyVars, Places
  <2>2. Counters
    BY <2>1, PlacesUnchanged DEF IInv
  <2>3. /\ life[t] = "none" /\ phase = "run"
        /\ life' = [life EXCEPT ![t] = "alive"]
        /\ UNCHANGED <<hook, accessBatch, instructions, icache, phase>>
    BY <1>2 DEF createThreadTracker, counterVars, exitVars
  <2>4. Idle
    BY <2>3 DEF IInv, TypeOK, IdleHoldsNothing, DanglingOnlyAfterEnd, ExitAfterThreads
  <2> QED
    BY <2>2, <2>4
<1>3. ASSUME NEW t \in Tracker, NEW x \in Access, NEW ip \in Ip, NEW a \in Addr,
             onAccess(t, x, ip, a)
      PROVE  Counters /\ Idle
  <2>1. /\ life[t] = "alive"
        /\ \A u \in Tracker \ {t} : hook'[u] = hook[u] /\ accessBatch'[u] = accessBatch[u]
        /\ UNCHANGED <<life, instructions, icache, phase>>
    BY <1>3 DEF IInv, TypeOK, onAccess, Running, counterVars, exitVars
  <2>2. Idle
    BY <2>1 DEF IInv, IdleHoldsNothing, DanglingOnlyAfterEnd, ExitAfterThreads
  <2> QED
    BY <1>3, <2>2, PlacesOnAccess
<1>4. ASSUME NEW t \in Tracker, NEW h \in Hook, EnterHook(t, h)
      PROVE  Counters /\ Idle
  <2>1. UNCHANGED Places
    BY <1>4 DEF EnterHook, counterVars, historyVars, Places
  <2>2. Counters
    BY <2>1, PlacesUnchanged DEF IInv
  <2>3. /\ life[t] = "alive"
        /\ \A u \in Tracker \ {t} : hook'[u] = hook[u]
        /\ UNCHANGED <<life, accessBatch, instructions, icache, phase>>
    BY <1>4 DEF IInv, TypeOK, EnterHook, MayEnter, Running, counterVars, exitVars
  <2>4. Idle
    BY <2>3 DEF IInv, IdleHoldsNothing, DanglingOnlyAfterEnd, ExitAfterThreads
  <2> QED
    BY <2>2, <2>4
<1>5. ASSUME NEW t \in Tracker, IgnoreAccess(t)
      PROVE  Counters /\ Idle
  <2>1. life[t] = "alive"
    BY <1>5, FlushingIsAlive DEF IgnoreAccess
  <2>2. /\ \A u \in Tracker \ {t} : accessBatch'[u] = accessBatch[u]
        /\ UNCHANGED <<life, hook, instructions, icache, phase>>
    BY <1>5 DEF IInv, TypeOK, IgnoreAccess, counterVars, exitVars
  <2>3. Idle
    BY <2>1, <2>2 DEF IInv, IdleHoldsNothing, DanglingOnlyAfterEnd, ExitAfterThreads
  <2> QED
    BY <1>5, <2>3, PlacesIgnoreAccess
<1>6. ASSUME NEW t \in Tracker, NEW v \in Ip, NEW sv \in Site, onAccessHandling(t, v, sv)
      PROVE  Counters /\ Idle
  <2>1. life[t] = "alive"
    BY <1>6, FlushingIsAlive DEF onAccessHandling
  <2> QED
    BY <1>6, <2>1, PlacesOnAccessHandling, IdleOnAccessHandling
<1>7. ASSUME NEW t \in Tracker, flushAccessBatch(t) \/ onAlloc(t) \/ onFree(t)
      PROVE  Counters /\ Idle
  <2>1. UNCHANGED Places
    BY <1>7 DEF flushAccessBatch, onAlloc, onFree, counterVars, historyVars, Places
  <2>2. Counters
    BY <2>1, PlacesUnchanged DEF IInv
  <2>3. /\ hook' = [hook EXCEPT ![t] = [op |-> "none"]]
        /\ UNCHANGED <<life, accessBatch, instructions, icache, phase>>
    BY <1>7 DEF flushAccessBatch, onAlloc, onFree, Return, counterVars, exitVars
  <2>4. \A u \in Tracker : hook[u].op = "none" => hook'[u].op = "none"
    BY <2>3 DEF IInv, TypeOK
  <2>5. Idle
    BY <2>3, <2>4 DEF IInv, IdleHoldsNothing, DanglingOnlyAfterEnd, ExitAfterThreads
  <2> QED
    BY <2>2, <2>5
<1>8. ASSUME NEW t \in Tracker, onStop(t)
      PROVE  Counters /\ Idle
  <2>1. /\ hook[t].op = "stop" /\ accessBatch[t] = <<>>
        /\ hook' = [hook EXCEPT ![t] = [op |-> "none"]]
        /\ instructions' = [instructions EXCEPT ![t] = NoCounts(Ip)]
        /\ icache' = [icache EXCEPT ![t] = Dangling(@)]
        /\ life' = [life EXCEPT ![t] = "ended"]
        /\ UNCHANGED <<accessBatch, phase>>
    BY <1>8 DEF onStop, BodyReached, Return, exitVars
  <2>2. /\ hook'[t].op = "none" /\ life'[t] = "ended"
        /\ \A ip \in Ip : instructions'[t][ip] = {}
    BY <2>1 DEF IInv, TypeOK, NoCounts
  <2>3. \A u \in Tracker \ {t} : /\ hook'[u] = hook[u] /\ life'[u] = life[u]
                                /\ instructions'[u] = instructions[u]
                                /\ icache'[u] = icache[u]
    BY <2>1 DEF IInv, TypeOK
  <2>4. Idle
    BY <2>1, <2>2, <2>3 DEF IInv, IdleHoldsNothing, DanglingOnlyAfterEnd, ExitAfterThreads
  <2> QED
    BY <1>8, <2>4, PlacesOnStop
<1>9. ASSUME NEW t \in Tracker, flushAllocCache(t)
      PROVE  Counters /\ Idle
  <2>1. UNCHANGED Places
    BY <1>9 DEF flushAllocCache, threadVars, historyVars, Places
  <2>2. Counters
    BY <2>1, PlacesUnchanged DEF IInv
  <2>3. phase # "run" /\ UNCHANGED <<life, hook, accessBatch, instructions, icache>>
    BY <1>9 DEF flushAllocCache, threadVars
  <2>4. Idle
    BY <2>3 DEF IInv, IdleHoldsNothing, DanglingOnlyAfterEnd, ExitAfterThreads
  <2> QED
    BY <2>2, <2>4
<1>10. ASSUME NEW t \in Tracker, flush(t)
       PROVE  Counters /\ Idle
  <2>1. /\ phase = "flush" /\ procInstr' = Merged(procInstr, instructions[t])
        /\ UNCHANGED <<life, hook, accessBatch, instructions, icache, skipped, madeBy>>
    BY <1>10 DEF flush, threadVars, historyVars
  <2>2. \A ip \in Ip : instructions[t][ip] = {}
    BY <2>1 DEF IInv, IdleHoldsNothing, ExitAfterThreads
  <2>3. procInstr' = procInstr
    <3>1. procInstr \in [Ip -> SUBSET Access]
      BY DEF IInv, TypeOK
    <3>2. \A ip \in Ip : procInstr[ip] \cup instructions[t][ip] = procInstr[ip]
      BY <2>2
    <3> QED
      BY <2>1, <3>1, <3>2 DEF Merged
  <2>4. Counters
    BY <2>1, <2>3, PlacesUnchanged DEF IInv, Places
  <2>5. Idle
    BY <2>1 DEF IInv, IdleHoldsNothing, DanglingOnlyAfterEnd, ExitAfterThreads
  <2> QED
    BY <2>4, <2>5
<1>11. ASSUME onExit
       PROVE  Counters /\ Idle
  <2>1. UNCHANGED Places
    BY <1>11 DEF onExit, threadVars, counterVars, historyVars, Places
  <2>2. Counters
    BY <2>1, PlacesUnchanged DEF IInv
  <2>3. /\ \A t \in Tracker : life[t] # "alive"
        /\ UNCHANGED <<life, hook, accessBatch, instructions, icache>>
    BY <1>11 DEF onExit, threadVars, counterVars
  <2>4. Idle
    BY <2>3 DEF IInv, IdleHoldsNothing, DanglingOnlyAfterEnd, ExitAfterThreads
  <2> QED
    BY <2>2, <2>4
<1>12. ASSUME UNCHANGED vars
       PROVE  Counters /\ Idle
  <2>1. UNCHANGED Places /\ UNCHANGED <<life, hook, accessBatch, instructions, icache, phase>>
    BY <1>12 DEF vars, Places
  <2>2. Counters
    BY <2>1, PlacesUnchanged DEF IInv
  <2>3. Idle
    BY <2>1 DEF IInv, IdleHoldsNothing, DanglingOnlyAfterEnd, ExitAfterThreads
  <2> QED
    BY <2>2, <2>3
<1>13. Counters /\ Idle
  <2> HIDE DEF Counters, Idle
  <2> QED
    BY <1>2, <1>3, <1>4, <1>5, <1>6, <1>7, <1>8, <1>9, <1>10, <1>11, <1>12
    DEF Next, Exited
<1> QED
  BY <1>1, <1>13 DEF IInv

(* IInv holds in every reachable state.                                    *)
LEMMA IInvAlways == ASSUME ~RecycleIds PROVE Spec => []IInv
<1>1. IInv /\ [Next]_vars => IInv'
  BY IInvNext
<1> QED
  BY <1>1, PlacesInit, PTL DEF Spec

-----------------------------------------------------------------------------
(* The results.                                                            *)

(* No access is counted twice, whatever merges, clears and flushes a       *)
(* thread, its end and the end of the process run, when Pin gives no id a  *)
(* second time.                                                            *)
THEOREM NothingCountedTwice == ASSUME ~RecycleIds PROVE Spec => []CountedOnce
<1>1. IInv => CountedOnce
  BY DEF IInv
<1> QED
  BY <1>1, IInvAlways, PTL

(* Every access ends up in the profile, under the instruction that made    *)
(* it, and nothing else does, when Pin gives no id a second time.          *)
THEOREM NothingLost == ASSUME ~RecycleIds PROVE Spec => []ReportComplete
<1>1. IInv => ReportComplete
  <2> SUFFICES ASSUME IInv, phase = "done", NEW ip \in Ip
               PROVE  procInstr[ip] = ToCount(ip)
    BY DEF ReportComplete
  <2>1. \A t \in Tracker : accessBatch[t] = <<>> /\ \A k \in Ip : instructions[t][k] = {}
    BY DEF IInv, ExitAfterThreads, IdleHoldsNothing
  <2>2. \A x \in Access : ~InThread(x)
    BY <2>1 DEF InThread
  <2>3. \A x \in Access : ~Waits(x)
    BY <2>1 DEF Waits
  <2>4. ASSUME NEW x \in procInstr[ip]
        PROVE  x \in ToCount(ip)
    <3>1. x \in Access /\ madeBy[x] = ip
      BY DEF IInv, TypeOK, UnderItsIp
    <3>2. x \notin skipped
      BY <3>1 DEF IInv, CountedOnce, InProcess
    <3> QED
      BY <3>1, <3>2 DEF ToCount
  <2>5. ASSUME NEW x \in ToCount(ip)
        PROVE  x \in procInstr[ip]
    <3>1. x \in Access /\ madeBy[x] = ip /\ x \notin skipped
      BY DEF ToCount
    <3>2. InProcess(x)
      BY <2>2, <2>3, <3>1 DEF IInv, Placed
    <3>3. PICK k \in Ip : x \in procInstr[k]
      BY <3>2 DEF InProcess
    <3> QED
      BY <3>1, <3>3 DEF IInv, UnderItsIp
  <2> QED
    BY <2>4, <2>5
<1> QED
  BY <1>1, IInvAlways, PTL

-----------------------------------------------------------------------------
(* The inductive invariant behind AttributedToOwner, recycled ids included. *)

(* An access that waits has the owner it had when it was made, unless      *)
(* another thread changed it since.                                        *)
BatchOwned ==
    \A t \in Tracker : \A i \in DOMAIN accessBatch[t] :
        /\ madeBy[accessBatch[t][i].id] # NoIp
        /\ accessBatch[t][i].id \notin stale =>
               ownerAtAccess[accessBatch[t][i].id] = owner[accessBatch[t][i].addr]

(* What the counters of allocations hold was made.                         *)
CountedWasMade ==
    \A x \in Access :
        /\ \A s \in Site : x \in AtSite(s) => madeBy[x] # NoIp
        /\ \A t \in Tracker : x \in dummyAlloc[t] => madeBy[x] # NoIp

(* A thread that does not run executes no hook and has no batch.           *)
IdleIsEmpty ==
    \A t \in Tracker : life[t] # "alive" => hook[t].op = "none" /\ accessBatch[t] = <<>>

(* A cached pointer to the counters of a site dangles only during the exit *)
(* of the process.                                                         *)
DanglingOnlyAtExit ==
    \A t \in Tracker, s \in Site : acache[t][s] = "dangling" => phase # "run"

(* The threads and the exit of the process are in order.                   *)
Course == IdleIsEmpty /\ ExitAfterThreads /\ DanglingOnlyAtExit

(* What is counted, or waits to be, is known and belongs to its owner.     *)
Attribution == BatchOwned /\ CountedWasMade /\ AttributedToOwner

OwnerInv == TypeOK /\ Course /\ Attribution

(* OwnerInv holds initially.                                               *)
LEMMA OwnerInit == Init => OwnerInv
<1> SUFFICES ASSUME Init PROVE OwnerInv
  OBVIOUS
<1>1. \A t \in Tracker : /\ accessBatch[t] = <<>> /\ hook[t].op = "none"
                         /\ DOMAIN accessBatch[t] = {} /\ dummyAlloc[t] = {}
  BY DEF Init, NoCounts
<1>2. \A t \in Tracker, s \in Site : allocCache[t][s] = {} /\ acache[t][s] = "absent"
  BY DEF Init, NoCounts, NoLines
<1>3. \A s \in Site : mallocStats[s] = {}
  BY DEF Init, NoCounts
<1>4. \A s \in Site : AtSite(s) = {}
  BY <1>2, <1>3 DEF AtSite
<1>5. phase = "run"
  BY DEF Init
<1>6. Course
  BY <1>1, <1>2, <1>5 DEF Course, IdleIsEmpty, ExitAfterThreads, DanglingOnlyAtExit
<1>7. Attribution
  BY <1>1, <1>4 DEF Attribution, BatchOwned, CountedWasMade, AttributedToOwner
<1> QED
  BY <1>6, <1>7, TypeInit DEF OwnerInv

(* A step that leaves the batches, the counters of allocations and the     *)
(* owners alone.                                                           *)
Attributed == <<accessBatch, allocCache, dummyAlloc, mallocStats, owner, madeBy,
                ownerAtAccess, stale>>

(* What such a step does to the attribution: nothing.                      *)
LEMMA AttributedUnchanged ==
    ASSUME Attribution, UNCHANGED Attributed
    PROVE  Attribution'
BY DEF Attributed, Attribution, BatchOwned, CountedWasMade, AttributedToOwner, AtSite

(* Taking the first access out of a batch keeps the others.                *)
LEMMA TakenOut ==
    ASSUME TypeOK, NEW t \in Tracker, accessBatch[t] # <<>>,
           accessBatch' = [accessBatch EXCEPT ![t] = Tail(@)]
    PROVE  /\ Head(accessBatch[t]) \in Event
           /\ \E i \in DOMAIN accessBatch[t] : accessBatch[t][i] = Head(accessBatch[t])
           /\ \A u \in Tracker : \A i \in DOMAIN accessBatch'[u] :
                  \E j \in DOMAIN accessBatch[u] : accessBatch'[u][i] = accessBatch[u][j]
<1> DEFINE b == accessBatch[t]
<1>1. b \in Seq(Event) /\ b # <<>>
  BY DEF TypeOK
<1>2. /\ DOMAIN b = 1..Len(b)
      /\ Len(b) \in Nat \ {0}
      /\ Head(b) = b[1]
      /\ DOMAIN Tail(b) = 1..(Len(b) - 1)
      /\ \A i \in 1..(Len(b) - 1) : Tail(b)[i] = b[i + 1]
      /\ \A i \in 1..Len(b) : b[i] \in Event
  BY <1>1
<1>3. accessBatch'[t] = Tail(b)
      /\ \A u \in Tracker \ {t} : accessBatch'[u] = accessBatch[u]
  BY DEF TypeOK
<1>4. 1 \in DOMAIN b /\ b[1] \in Event
  BY <1>2
<1>5. \A i \in DOMAIN Tail(b) : i + 1 \in DOMAIN b /\ Tail(b)[i] = b[i + 1]
  BY <1>2
<1> HIDE DEF b
<1>6. ASSUME NEW u \in Tracker, NEW i \in DOMAIN accessBatch'[u]
      PROVE  \E j \in DOMAIN accessBatch[u] : accessBatch'[u][i] = accessBatch[u][j]
  <2>1. CASE u = t
    BY <1>3, <1>5, <1>6, <2>1 DEF b
  <2>2. CASE u # t
    BY <1>3, <1>6, <2>2
  <2> QED
    BY <2>1, <2>2
<1> QED
  BY <1>2, <1>4, <1>6 DEF b

(* Through a pointer that does not dangle, an access is counted under its  *)
(* site and nowhere else, whether the cache is full or not.                *)
LEMMA CountedUnderItsSite ==
    ASSUME TypeOK, NEW t \in Tracker, NEW x \in Access, NEW s \in Site, NEW v \in Site,
           CountSite(t, x, s, v), acache[t][s] # "dangling"
    PROVE  /\ \A r \in Site : AtSite(r)' = IF r = s THEN AtSite(r) \cup {x} ELSE AtSite(r)
           /\ \A u \in Tracker \ {t} : allocCache'[u] = allocCache[u] /\ acache'[u] = acache[u]
           /\ \A r \in Site : acache[t][r] # "dangling" => acache'[t][r] # "dangling"
           /\ UNCHANGED dummyAlloc
<1> DEFINE counted == Counted(allocCache[t], {s}, x)
<1>1. Landings(allocCache[t], acache[t], s) = {{s}}
  BY DEF Landings
<1>2. /\ allocCache' = [allocCache EXCEPT ![t] =
               IF Entries(counted) >= CacheEntries THEN NoCounts(Site) ELSE counted]
      /\ acache' = [acache EXCEPT ![t] =
               IF Entries(counted) >= CacheEntries
               THEN NoLines(Site) ELSE Cached(@, s, v)]
      /\ mallocStats' = IF Entries(counted) >= CacheEntries
               THEN Merged(mallocStats, counted) ELSE mallocStats
      /\ UNCHANGED dummyAlloc
  BY <1>1 DEF CountSite
<1>3. allocCache[t] \in [Site -> SUBSET Access] /\ acache[t] \in [Site -> Line]
  BY DEF TypeOK
<1>4. \A r \in Site : counted[r] = allocCache[t][r] \cup (IF r = s THEN {x} ELSE {})
  BY <1>3 DEF Counted
<1>5. \A r \in Site : Merged(mallocStats, counted)[r] = mallocStats[r] \cup counted[r]
  BY DEF Merged, TypeOK
<1>6. \A r \in Site : NoCounts(Site)[r] = {} /\ NoLines(Site)[r] = "absent"
  BY DEF NoCounts, NoLines
<1>7. \A r \in Site : acache[t][r] # "dangling" => Cached(acache[t], s, v)[r] # "dangling"
  BY <1>3, CachedDoesNotDangle
<1> HIDE DEF counted
<1>8. \A u \in Tracker \ {t} : allocCache'[u] = allocCache[u] /\ acache'[u] = acache[u]
  BY <1>2 DEF TypeOK
<1>9. CASE Entries(counted) >= CacheEntries
  <2>1. /\ allocCache'[t] = NoCounts(Site)
        /\ acache'[t] = NoLines(Site)
        /\ mallocStats' = Merged(mallocStats, counted)
    BY <1>2, <1>9 DEF TypeOK
  <2>2. ASSUME NEW r \in Site, NEW y
        PROVE  y \in AtSite(r)' <=> y \in AtSite(r) \/ (r = s /\ y = x)
    <3>1. y \in mallocStats'[r] <=> \/ y \in mallocStats[r] \/ y \in allocCache[t][r]
                                    \/ r = s /\ y = x
      BY <2>1, <1>4, <1>5
    <3>2. \A u \in Tracker : y \in allocCache'[u][r] <=> u # t /\ y \in allocCache[u][r]
      BY <2>1, <1>6, <1>8
    <3> QED
      BY <3>1, <3>2 DEF AtSite
  <2>3. \A r \in Site : AtSite(r)' = IF r = s THEN AtSite(r) \cup {x} ELSE AtSite(r)
    BY <2>2
  <2> QED
    BY <2>1, <2>3, <1>2, <1>6, <1>8
<1>10. CASE ~(Entries(counted) >= CacheEntries)
  <2>1. /\ allocCache'[t] = counted
        /\ acache'[t] = Cached(acache[t], s, v)
        /\ mallocStats' = mallocStats
    BY <1>2, <1>10 DEF TypeOK
  <2>2. ASSUME NEW r \in Site, NEW y
        PROVE  y \in AtSite(r)' <=> y \in AtSite(r) \/ (r = s /\ y = x)
    <3>1. y \in allocCache'[t][r] <=> y \in allocCache[t][r] \/ (r = s /\ y = x)
      BY <2>1, <1>4
    <3>2. \A u \in Tracker : y \in allocCache'[u][r] <=>
              y \in allocCache[u][r] \/ (u = t /\ r = s /\ y = x)
      BY <3>1, <1>8
    <3> QED
      BY <3>2, <2>1 DEF AtSite
  <2>3. \A r \in Site : AtSite(r)' = IF r = s THEN AtSite(r) \cup {x} ELSE AtSite(r)
    BY <2>2
  <2> QED
    BY <2>1, <2>3, <1>2, <1>7, <1>8
<1> QED
  BY <1>9, <1>10

(* The first loop of onExit moves counters, and no access.                 *)
LEMMA AllocCacheMerged ==
    ASSUME TypeOK, NEW t \in Tracker, flushAllocCache(t)
    PROVE  \A s \in Site : AtSite(s)' = AtSite(s)
<1>1. /\ \A s \in Site : mallocStats'[s] = mallocStats[s] \cup allocCache[t][s]
      /\ \A s \in Site : allocCache'[t][s] = {}
      /\ \A u \in Tracker \ {t} : allocCache'[u] = allocCache[u]
  BY DEF flushAllocCache, Merged, NoCounts, TypeOK
<1>2. ASSUME NEW s \in Site, NEW y
      PROVE  y \in AtSite(s)' <=> y \in AtSite(s)
  <2>1. \A u \in Tracker : y \in allocCache'[u][s] <=> u # t /\ y \in allocCache[u][s]
    BY <1>1
  <2>2. y \in mallocStats'[s] <=> y \in mallocStats[s] \/ y \in allocCache[t][s]
    BY <1>1
  <2> QED
    BY <2>1, <2>2 DEF AtSite
<1> QED
  BY <1>2

(* An access is made: it is new, and its owner is the one of its address.  *)
LEMMA AttributionOnAccess ==
    ASSUME OwnerInv, NEW t \in Tracker, NEW x \in Access, NEW ip \in Ip, NEW a \in Addr,
           onAccess(t, x, ip, a)
    PROVE  Attribution'
<1> DEFINE b == accessBatch[t]
           e == [id |-> x, ip |-> ip, addr |-> a]
<1>1. /\ accessBatch' = [accessBatch EXCEPT ![t] = Append(@, e)]
      /\ madeBy[x] = NoIp
      /\ madeBy' = [madeBy EXCEPT ![x] = ip]
      /\ ownerAtAccess' = [ownerAtAccess EXCEPT ![x] = owner[a]]
      /\ UNCHANGED <<allocCache, mallocStats, dummyAlloc, owner, stale>>
  BY DEF onAccess, counterVars
<1>2. TypeOK
  BY DEF OwnerInv
<1>3. b \in Seq(Event) /\ e \in Event
  BY <1>2 DEF TypeOK, Event
<1>4. /\ DOMAIN b = 1..Len(b) /\ Len(b) \in Nat
      /\ DOMAIN Append(b, e) = 1..(Len(b) + 1)
      /\ Append(b, e)[Len(b) + 1] = e
      /\ \A i \in 1..Len(b) : Append(b, e)[i] = b[i]
  BY <1>3
<1>5. \A i \in DOMAIN Append(b, e) :
          Append(b, e)[i] = e \/ (i \in DOMAIN b /\ Append(b, e)[i] = b[i])
  BY <1>4
<1>6. /\ accessBatch'[t] = Append(b, e)
      /\ \A u \in Tracker \ {t} : accessBatch'[u] = accessBatch[u]
  BY <1>1, <1>2 DEF TypeOK
<1> HIDE DEF b
<1>7. /\ madeBy'[x] # NoIp /\ ownerAtAccess'[x] = owner[a]
      /\ \A y \in Access \ {x} : madeBy'[y] = madeBy[y] /\ ownerAtAccess'[y] = ownerAtAccess[y]
  BY <1>1, <1>2 DEF TypeOK
<1>8. ASSUME NEW u \in Tracker, NEW i \in DOMAIN accessBatch[u]
      PROVE  LET f == accessBatch[u][i]
             IN  /\ madeBy'[f.id] # NoIp
                 /\ f.id \notin stale => ownerAtAccess'[f.id] = owner[f.addr]
  <2>1. accessBatch[u][i].id \in Access /\ accessBatch[u][i].id # x
    BY <1>1, <1>2, <1>8, BatchEvents DEF OwnerInv, Attribution, BatchOwned
  <2> QED
    BY <2>1, <1>7, <1>8 DEF OwnerInv, Attribution, BatchOwned
<1>9. ASSUME NEW u \in Tracker, NEW i \in DOMAIN accessBatch'[u]
      PROVE  /\ madeBy'[accessBatch'[u][i].id] # NoIp
             /\ accessBatch'[u][i].id \notin stale =>
                    ownerAtAccess'[accessBatch'[u][i].id] = owner[accessBatch'[u][i].addr]
  <2>1. CASE accessBatch'[u][i] = e
    BY <2>1, <1>7
  <2>2. CASE i \in DOMAIN accessBatch[u] /\ accessBatch'[u][i] = accessBatch[u][i]
    BY <2>2, <1>8
  <2> QED
    BY <2>1, <2>2, <1>5, <1>6, <1>9 DEF b
<1>10. BatchOwned'
  BY <1>9, <1>1 DEF BatchOwned
<1>11. \A s \in Site : AtSite(s)' = AtSite(s)
  BY <1>1 DEF AtSite
<1>12. /\ \A s \in Site : x \notin AtSite(s)
       /\ \A u \in Tracker : x \notin dummyAlloc[u]
  BY <1>1 DEF OwnerInv, Attribution, CountedWasMade
<1>13. CountedWasMade'
  BY <1>1, <1>7, <1>11, <1>12 DEF OwnerInv, Attribution, CountedWasMade
<1>14. AttributedToOwner'
  BY <1>1, <1>7, <1>11, <1>12 DEF OwnerInv, Attribution, AttributedToOwner
<1> QED
  BY <1>10, <1>13, <1>14 DEF Attribution

(* An access is ignored: it leaves its batch and nothing counts it.        *)
LEMMA AttributionIgnoreAccess ==
    ASSUME OwnerInv, NEW t \in Tracker, IgnoreAccess(t)
    PROVE  Attribution'
<1>1. /\ accessBatch[t] # <<>>
      /\ accessBatch' = [accessBatch EXCEPT ![t] = Tail(@)]
      /\ UNCHANGED <<allocCache, mallocStats, dummyAlloc, madeBy, ownerAtAccess, owner, stale>>
  BY DEF IgnoreAccess, counterVars
<1>2. \A u \in Tracker : \A i \in DOMAIN accessBatch'[u] :
          \E j \in DOMAIN accessBatch[u] : accessBatch'[u][i] = accessBatch[u][j]
  BY <1>1, TakenOut DEF OwnerInv
<1>3. BatchOwned'
  BY <1>1, <1>2 DEF OwnerInv, Attribution, BatchOwned
<1>4. \A s \in Site : AtSite(s)' = AtSite(s)
  BY <1>1 DEF AtSite
<1> QED
  BY <1>1, <1>3, <1>4 DEF OwnerInv, Attribution, CountedWasMade, AttributedToOwner

(* A thread that flushes a batch runs, so the process does not exit.       *)
LEMMA FlushedWhileRunning ==
    ASSUME OwnerInv, NEW t \in Tracker, accessBatch[t] # <<>>
    PROVE  /\ life[t] = "alive" /\ phase = "run"
           /\ \A s \in Site : acache[t][s] # "dangling"
BY DEF OwnerInv, Course, IdleIsEmpty, ExitAfterThreads, DanglingOnlyAtExit

(* An access is counted under the owner its address has now.               *)
LEMMA AttributionOnAccessHandling ==
    ASSUME OwnerInv, NEW t \in Tracker, NEW v \in Ip, NEW sv \in Site,
           onAccessHandling(t, v, sv)
    PROVE  Attribution'
<1> DEFINE e == Head(accessBatch[t])
           s == owner[e.addr]
<1>1. /\ accessBatch[t] # <<>>
      /\ accessBatch' = [accessBatch EXCEPT ![t] = Tail(@)]
      /\ IF s = NoSite THEN CountNonAlloc(t, e.id) ELSE CountSite(t, e.id, s, sv)
      /\ UNCHANGED <<madeBy, ownerAtAccess, owner, stale>>
  BY DEF onAccessHandling, historyVars
<1>2. TypeOK
  BY DEF OwnerInv
<1>3. /\ e \in Event
      /\ \E i \in DOMAIN accessBatch[t] : accessBatch[t][i] = e
      /\ \A u \in Tracker : \A i \in DOMAIN accessBatch'[u] :
             \E j \in DOMAIN accessBatch[u] : accessBatch'[u][i] = accessBatch[u][j]
  BY <1>1, <1>2, TakenOut
<1>4. e.id \in Access /\ e.addr \in Addr
  BY <1>3 DEF Event
<1>5. madeBy[e.id] # NoIp /\ (e.id \notin stale => ownerAtAccess[e.id] = s)
  BY <1>3 DEF OwnerInv, Attribution, BatchOwned
<1>6. s \in Site \cup {NoSite}
  BY <1>2, <1>4 DEF TypeOK
<1> HIDE DEF e, s
<1>7. BatchOwned'
  BY <1>1, <1>3 DEF OwnerInv, Attribution, BatchOwned
<1>8. CASE s = NoSite
  <2>1. /\ dummyAlloc' = [dummyAlloc EXCEPT ![t] = @ \cup {e.id}]
        /\ UNCHANGED <<allocCache, mallocStats>>
    BY <1>1, <1>8 DEF CountNonAlloc
  <2>2. \A r \in Site : AtSite(r)' = AtSite(r)
    BY <2>1 DEF AtSite
  <2>3. \A u \in Tracker, y \in Access :
            y \in dummyAlloc'[u] => y \in dummyAlloc[u] \/ y = e.id
    BY <2>1, <1>2 DEF TypeOK
  <2> QED
    BY <2>2, <2>3, <1>1, <1>5, <1>7, <1>8
    DEF OwnerInv, Attribution, CountedWasMade, AttributedToOwner
<1>9. CASE s # NoSite
  <2>1. s \in Site /\ CountSite(t, e.id, s, sv) /\ acache[t][s] # "dangling"
    BY <1>1, <1>6, <1>9, FlushedWhileRunning
  <2>2. /\ \A r \in Site : AtSite(r)' = IF r = s THEN AtSite(r) \cup {e.id} ELSE AtSite(r)
        /\ UNCHANGED dummyAlloc
    BY ONLY t \in Tracker, sv \in Site, <2>1, <1>2, <1>4, CountedUnderItsSite
  <2>3. \A r \in Site, y \in Access :
            y \in AtSite(r)' => y \in AtSite(r) \/ (r = s /\ y = e.id)
    BY <2>2
  <2> QED
    BY <2>2, <2>3, <1>1, <1>5, <1>7
    DEF OwnerInv, Attribution, CountedWasMade, AttributedToOwner
<1> QED
  BY <1>8, <1>9

(* An address changes its owner: the batch of the thread is empty, and the *)
(* waiting accesses of the others to it become stale.                      *)
LEMMA AttributionOnAllocOrFree ==
    ASSUME OwnerInv, NEW t \in Tracker, onAlloc(t) \/ onFree(t)
    PROVE  Attribution'
<1> DEFINE a == hook[t].addr
<1>1. /\ accessBatch[t] = <<>>
      /\ stale' = stale \cup Outdated(t, a)
      /\ \E s : owner' = [owner EXCEPT ![a] = s]
      /\ UNCHANGED <<accessBatch, allocCache, mallocStats, dummyAlloc, madeBy, ownerAtAccess>>
  BY DEF onAlloc, onFree, BodyReached, counterVars
<1> HIDE DEF a
<1>2. TypeOK
  BY DEF OwnerInv
<1>3. \A c \in Addr \ {a} : owner'[c] = owner[c]
  BY <1>1, <1>2 DEF TypeOK
<1>4. ASSUME NEW u \in Tracker, NEW i \in DOMAIN accessBatch[u]
      PROVE  /\ madeBy[accessBatch[u][i].id] # NoIp
             /\ accessBatch[u][i].id \notin stale' =>
                    ownerAtAccess[accessBatch[u][i].id] = owner'[accessBatch[u][i].addr]
  <2>1. accessBatch[u][i].id \in Access /\ accessBatch[u][i].addr \in Addr
    BY <1>2, <1>4, BatchEvents DEF Event
  <2>2. u # t
    BY <1>1, <1>4
  <2>3. accessBatch[u][i].addr = a => accessBatch[u][i].id \in Outdated(t, a)
    BY <2>1, <2>2, <1>4 DEF Outdated
  <2> QED
    BY <2>1, <2>3, <1>1, <1>3, <1>4 DEF OwnerInv, Attribution, BatchOwned
<1>5. BatchOwned'
  BY <1>1, <1>4 DEF BatchOwned
<1>6. \A s \in Site : AtSite(s)' = AtSite(s)
  BY <1>1 DEF AtSite
<1> QED
  BY <1>1, <1>5, <1>6 DEF OwnerInv, Attribution, CountedWasMade, AttributedToOwner

(* Every step keeps the attribution.                                       *)
LEMMA AttributionNext ==
    ASSUME OwnerInv, [Next]_vars
    PROVE  Attribution'
<1>1. ASSUME NEW t \in Tracker,
             \/ createThreadTracker(t) \/ (\E h \in Hook : EnterHook(t, h))
             \/ flushAccessBatch(t) \/ onStop(t) \/ flush(t)
      PROVE  Attribution'
  <2>1. UNCHANGED Attributed
    BY <1>1 DEF createThreadTracker, EnterHook, flushAccessBatch, onStop, flush,
                counterVars, historyVars, threadVars, Attributed
  <2> QED
    BY <2>1, AttributedUnchanged DEF OwnerInv
<1>2. ASSUME onExit \/ UNCHANGED vars
      PROVE  Attribution'
  <2>1. UNCHANGED Attributed
    BY <1>2 DEF onExit, vars, counterVars, historyVars, threadVars, Attributed
  <2> QED
    BY <2>1, AttributedUnchanged DEF OwnerInv
<1>3. ASSUME NEW t \in Tracker, flushAllocCache(t)
      PROVE  Attribution'
  <2>1. \A s \in Site : AtSite(s)' = AtSite(s)
    BY <1>3, AllocCacheMerged DEF OwnerInv
  <2>2. UNCHANGED <<accessBatch, dummyAlloc, madeBy, ownerAtAccess, owner, stale>>
    BY <1>3 DEF flushAllocCache, threadVars, historyVars
  <2> QED
    BY <2>1, <2>2 DEF OwnerInv, Attribution, BatchOwned, CountedWasMade, AttributedToOwner
<1> QED
  BY <1>1, <1>2, <1>3, AttributionOnAccess, AttributionIgnoreAccess,
     AttributionOnAccessHandling, AttributionOnAllocOrFree DEF Next, Exited

(* Every step keeps the threads and the exit in order.                     *)
LEMMA CourseNext ==
    ASSUME OwnerInv, [Next]_vars
    PROVE  Course'
<1>1. TypeOK
  BY DEF OwnerInv
<1>2. ASSUME NEW t \in Tracker, createThreadTracker(t)
      PROVE  Course'
  <2>1. /\ phase = "run" /\ life' = [life EXCEPT ![t] = "alive"]
        /\ UNCHANGED <<hook, accessBatch, acache, phase>>
    BY <1>2 DEF createThreadTracker, counterVars, exitVars
  <2>2. \A u \in Tracker : life'[u] # "alive" => life[u] # "alive"
    BY <2>1, <1>1 DEF TypeOK
  <2> QED
    BY <2>1, <2>2 DEF OwnerInv, Course, IdleIsEmpty, ExitAfterThreads, DanglingOnlyAtExit
<1>3. ASSUME NEW t \in Tracker,
             \/ \E x \in Access, ip \in Ip, a \in Addr : onAccess(t, x, ip, a)
             \/ \E h \in Hook : EnterHook(t, h)
      PROVE  Course'
  <2>1. /\ life[t] = "alive"
        /\ \A u \in Tracker \ {t} : hook'[u] = hook[u] /\ accessBatch'[u] = accessBatch[u]
        /\ UNCHANGED <<life, acache, phase>>
    BY <1>1, <1>3 DEF TypeOK, onAccess, EnterHook, MayEnter, Running, counterVars, exitVars
  <2> QED
    BY <2>1 DEF OwnerInv, Course, IdleIsEmpty, ExitAfterThreads, DanglingOnlyAtExit
<1>4. ASSUME NEW t \in Tracker, IgnoreAccess(t)
      PROVE  Course'
  <2>1. life[t] = "alive"
    BY <1>4, FlushedWhileRunning DEF IgnoreAccess
  <2>2. /\ \A u \in Tracker \ {t} : accessBatch'[u] = accessBatch[u]
        /\ UNCHANGED <<life, hook, acache, phase>>
    BY <1>1, <1>4 DEF TypeOK, IgnoreAccess, counterVars, exitVars
  <2> QED
    BY <2>1, <2>2 DEF OwnerInv, Course, IdleIsEmpty, ExitAfterThreads, DanglingOnlyAtExit
<1>5. ASSUME NEW t \in Tracker, NEW v \in Ip, NEW sv \in Site, onAccessHandling(t, v, sv)
      PROVE  Course'
  <2> DEFINE e == Head(accessBatch[t])
             s == owner[e.addr]
  <2>1. /\ accessBatch[t] # <<>>
        /\ accessBatch' = [accessBatch EXCEPT ![t] = Tail(@)]
        /\ IF s = NoSite THEN CountNonAlloc(t, e.id) ELSE CountSite(t, e.id, s, sv)
        /\ UNCHANGED <<life, hook, phase>>
    BY <1>5 DEF onAccessHandling, exitVars
  <2>2. /\ life[t] = "alive" /\ phase = "run" /\ \A r \in Site : acache[t][r] # "dangling"
    BY <2>1, FlushedWhileRunning
  <2>3. \A u \in Tracker \ {t} : accessBatch'[u] = accessBatch[u]
    BY <2>1, <1>1 DEF TypeOK
  <2>4. e \in Event
    BY <2>1, <1>1, TakenOut
  <2>5. e.id \in Access /\ s \in Site \cup {NoSite}
    BY <2>4, <1>1 DEF TypeOK, Event
  <2> HIDE DEF e, s
  <2>6. \A u \in Tracker, r \in Site : acache'[u][r] = "dangling" => acache[u][r] = "dangling"
    <3>1. CASE s = NoSite
      BY <2>1, <3>1 DEF CountNonAlloc
    <3>2. CASE s # NoSite
      <4>1. s \in Site /\ CountSite(t, e.id, s, sv)
        BY <2>1, <2>5, <3>2
      <4>2. /\ \A u \in Tracker \ {t} : acache'[u] = acache[u]
            /\ \A r \in Site : acache'[t][r] # "dangling"
        BY ONLY t \in Tracker, sv \in Site, <4>1, <2>2, <2>5, <1>1, CountedUnderItsSite
      <4> QED
        BY <4>2
    <3> QED
      BY <3>1, <3>2
  <2> QED
    BY <2>1, <2>2, <2>3, <2>6
    DEF OwnerInv, Course, IdleIsEmpty, ExitAfterThreads, DanglingOnlyAtExit
<1>6. ASSUME NEW t \in Tracker, flushAccessBatch(t) \/ onAlloc(t) \/ onFree(t)
      PROVE  Course'
  <2>1. /\ hook' = [hook EXCEPT ![t] = [op |-> "none"]]
        /\ UNCHANGED <<life, accessBatch, acache, phase>>
    BY <1>6 DEF flushAccessBatch, onAlloc, onFree, Return, counterVars, exitVars
  <2>2. \A u \in Tracker : hook[u].op = "none" => hook'[u].op = "none"
    BY <2>1, <1>1 DEF TypeOK
  <2> QED
    BY <2>1, <2>2 DEF OwnerInv, Course, IdleIsEmpty, ExitAfterThreads, DanglingOnlyAtExit
<1>7. ASSUME NEW t \in Tracker, onStop(t)
      PROVE  Course'
  <2>1. /\ hook[t].op = "stop" /\ accessBatch[t] = <<>>
        /\ hook' = [hook EXCEPT ![t] = [op |-> "none"]]
        /\ life' = [life EXCEPT ![t] = "ended"]
        /\ UNCHANGED <<accessBatch, acache, phase>>
    BY <1>7 DEF onStop, BodyReached, Return, exitVars
  <2>2. /\ hook'[t].op = "none" /\ life'[t] = "ended"
        /\ \A u \in Tracker \ {t} : hook'[u] = hook[u] /\ life'[u] = life[u]
    BY <2>1, <1>1 DEF TypeOK
  <2> QED
    BY <2>1, <2>2 DEF OwnerInv, Course, IdleIsEmpty, ExitAfterThreads, DanglingOnlyAtExit
<1>8. ASSUME NEW t \in Tracker, flushAllocCache(t) \/ flush(t)
      PROVE  Course'
  <2>1. /\ phase # "run" /\ phase' # "run"
        /\ UNCHANGED <<life, hook, accessBatch>>
    BY <1>8 DEF flushAllocCache, flush, Visit, threadVars
  <2> QED
    BY <2>1 DEF OwnerInv, Course, IdleIsEmpty, ExitAfterThreads, DanglingOnlyAtExit
<1>9. ASSUME onExit
      PROVE  Course'
  <2>1. /\ \A t \in Tracker : life[t] # "alive"
        /\ phase' = "flushAllocCache"
        /\ UNCHANGED <<life, hook, accessBatch>>
    BY <1>9 DEF onExit, threadVars
  <2> QED
    BY <2>1 DEF OwnerInv, Course, IdleIsEmpty, ExitAfterThreads, DanglingOnlyAtExit
<1>10. ASSUME UNCHANGED vars
       PROVE  Course'
  BY <1>10 DEF vars, OwnerInv, Course, IdleIsEmpty, ExitAfterThreads, DanglingOnlyAtExit
<1> QED
  BY <1>2, <1>3, <1>4, <1>5, <1>6, <1>7, <1>8, <1>9, <1>10 DEF Next, Exited

(* OwnerInv holds in every reachable state.                                *)
LEMMA OwnerInvAlways == Spec => []OwnerInv
<1>1. OwnerInv /\ [Next]_vars => OwnerInv'
  BY TypeNext, AttributionNext, CourseNext DEF OwnerInv
<1> QED
  BY <1>1, OwnerInit, PTL DEF Spec

(* An access is counted under the site that owned its address when it was  *)
(* made, unless another thread allocated or freed the address while it     *)
(* waited: for every batch and cache size, and recycled ids included.      *)
THEOREM CountedUnderOwner == Spec => []AttributedToOwner
<1>1. OwnerInv => AttributedToOwner
  BY DEF OwnerInv, Attribution
<1> QED
  BY <1>1, OwnerInvAlways, PTL

-----------------------------------------------------------------------------
(* The inductive invariant behind ViewsAgree, on top of the two others.    *)

(* The views that count an access: by malloc site, outside any allocation, *)
(* by thread, by instruction.                                              *)
BySite(x) == \E s \in Site : x \in AtSite(s)

NonAlloc(x) == \E t \in Tracker : x \in dummyAlloc[t]

ByThread(x) == \E t \in Tracker : x \in stats[t]

ByIp(x) == InThread(x) \/ InProcess(x)

(* The views agree on the accesses that are counted, wherever the counters *)
(* are.                                                                    *)
SameAccesses ==
    \A x \in Access :
        /\ ByThread(x) <=> ByIp(x)
        /\ BySite(x) \/ NonAlloc(x) <=> ByIp(x)
        /\ ~(BySite(x) /\ NonAlloc(x))

(* Sites belong to trackers that onExit knows, and so do counters of sites. *)
SitesKnown ==
    /\ \A a \in Addr : owner[a] # NoSite => owner[a][1] \in Known
    /\ \A s \in Site : AtSite(s) # {} => s[1] \in Known
    /\ \A t \in Tracker, s \in Site : allocCache[t][s] # {} => t \in Known

(* What the second loop of onExit has merged when it has visited T.        *)
MergedFrom(T, ip) == UNION {mallocStats[<<t, ip>>] : t \in T}

(* What the loops of onExit have merged so far.                            *)
LoopsMerge ==
    /\ phase = "run" => procAlloc = NoCounts(MallocIp)
    /\ phase = "flushAllocCache" =>
           /\ procAlloc = NoCounts(MallocIp)
           /\ Tracker \ Known \subseteq exited
           /\ \A t \in exited, s \in Site : allocCache[t][s] = {}
    /\ phase = "flush" =>
           /\ Tracker \ Known \subseteq exited
           /\ \A t \in Tracker, s \in Site : allocCache[t][s] = {}
           /\ \A ip \in MallocIp : procAlloc[ip] = MergedFrom(exited, ip)
    /\ phase = "done" =>
           /\ \A t \in Tracker, s \in Site : allocCache[t][s] = {}
           /\ \A ip \in MallocIp : procAlloc[ip] = MergedFrom(Tracker, ip)

CountInv == IInv /\ OwnerInv

Views == SameAccesses /\ SitesKnown /\ LoopsMerge

ViewsInv == CountInv /\ Views

(* The views agree initially.                                              *)
LEMMA ViewsInit == Init => Views
<1> SUFFICES ASSUME Init PROVE Views
  OBVIOUS
<1>1. \A t \in Tracker : dummyAlloc[t] = {} /\ stats[t] = {}
  BY DEF Init, NoCounts
<1>2. \A t \in Tracker, s \in Site : allocCache[t][s] = {}
  BY DEF Init, NoCounts
<1>3. \A s \in Site : mallocStats[s] = {}
  BY DEF Init, NoCounts
<1>4. \A s \in Site : AtSite(s) = {}
  BY <1>2, <1>3 DEF AtSite
<1>5. /\ \A t \in Tracker, ip \in Ip : instructions[t][ip] = {}
      /\ \A ip \in Ip : procInstr[ip] = {}
  BY DEF Init, NoCounts
<1>6. SameAccesses
  BY <1>1, <1>4, <1>5
  DEF SameAccesses, BySite, NonAlloc, ByThread, ByIp, InThread, InProcess
<1>7. SitesKnown
  BY <1>2, <1>4 DEF SitesKnown, Init
<1>8. LoopsMerge
  BY DEF LoopsMerge, Init
<1> QED
  BY <1>6, <1>7, <1>8 DEF Views

-----------------------------------------------------------------------------
(* The views agree.                                                        *)

(* A step that changes no view.                                            *)
Viewed == <<stats, dummyAlloc, mallocStats, allocCache, instructions, procInstr>>

(* A step that changes no view keeps them in agreement.                    *)
LEMMA ViewsUnchanged ==
    ASSUME SameAccesses, UNCHANGED Viewed
    PROVE  SameAccesses'
BY DEF Viewed, SameAccesses, BySite, NonAlloc, ByThread, ByIp, AtSite, InThread, InProcess

(* An access enters the three views at once.                               *)
LEMMA ViewsOnAccessHandling ==
    ASSUME ViewsInv, NEW t \in Tracker, NEW v \in Ip, NEW sv \in Site,
           onAccessHandling(t, v, sv)
    PROVE  SameAccesses'
<1> DEFINE e == Head(accessBatch[t])
           s == owner[e.addr]
<1>1. /\ accessBatch[t] # <<>>
      /\ accessBatch' = [accessBatch EXCEPT ![t] = Tail(@)]
      /\ stats' = [stats EXCEPT ![t] = @ \cup {e.id}]
      /\ CountInstruction(t, e, v)
      /\ IF s = NoSite THEN CountNonAlloc(t, e.id) ELSE CountSite(t, e.id, s, sv)
  BY DEF onAccessHandling
<1>2. TypeOK /\ IInv /\ OwnerInv
  BY DEF ViewsInv, CountInv, IInv
<1>3. e \in Event /\ Waits(e.id)
  BY <1>1, <1>2, Dequeued DEF IInv
<1>4. e.id \in Access /\ e.ip \in Ip /\ e.addr \in Addr
  BY <1>3 DEF Event
<1>5. s \in Site \cup {NoSite}
  BY <1>2, <1>4 DEF TypeOK
<1>6. /\ life[t] = "alive"
      /\ \A r \in Site : acache[t][r] # "dangling"
  BY <1>1, <1>2, FlushedWhileRunning
<1>7. icache[t][e.ip] # "dangling"
  BY <1>2, <1>4, <1>6 DEF IInv, DanglingOnlyAfterEnd
<1>8. ~InThread(e.id) /\ ~InProcess(e.id)
  BY <1>2, <1>3, <1>4 DEF IInv, CountedOnce
<1> HIDE DEF e, s
<1>9. \A y \in Access : ByIp(y)' <=> ByIp(y) \/ y = e.id
  <2>1. \/ /\ \A u \in Tracker, ip \in Ip : instructions'[u][ip] =
                  IF u = t /\ ip = e.ip THEN instructions[u][ip] \cup {e.id}
                                        ELSE instructions[u][ip]
           /\ procInstr' = procInstr
        \/ /\ \A u \in Tracker, ip \in Ip :
                  instructions'[u][ip] = IF u = t THEN {} ELSE instructions[u][ip]
           /\ \A ip \in Ip : procInstr'[ip] = procInstr[ip] \cup instructions[t][ip]
                                 \cup (IF ip = e.ip THEN {e.id} ELSE {})
    <3>1. e \in Event /\ CountInstruction(t, e, v)
      BY <1>1, <1>3
    <3>2. TypeOK
      BY <1>2
    <3> QED
      BY ONLY t \in Tracker, v \in Ip, <3>1, <3>2, <1>7, CountedUnderItsIp
  <2> SUFFICES ASSUME NEW y \in Access PROVE ByIp(y)' <=> ByIp(y) \/ y = e.id
    OBVIOUS
  <2>2. CASE /\ \A u \in Tracker, ip \in Ip : instructions'[u][ip] =
                  IF u = t /\ ip = e.ip THEN instructions[u][ip] \cup {e.id}
                                        ELSE instructions[u][ip]
             /\ procInstr' = procInstr
    <3>1. \A u \in Tracker, ip \in Ip : y \in instructions'[u][ip] <=>
              y \in instructions[u][ip] \/ (u = t /\ ip = e.ip /\ y = e.id)
      <4> TAKE u \in Tracker, ip \in Ip
      <4>1. instructions'[u][ip] = IF u = t /\ ip = e.ip THEN instructions[u][ip] \cup {e.id}
                                                        ELSE instructions[u][ip]
        BY <2>2
      <4>2. CASE u = t /\ ip = e.ip
        <5>1. instructions'[u][ip] = instructions[u][ip] \cup {e.id}
          BY <4>1, <4>2
        <5> QED
          BY <4>2, <5>1
      <4>3. CASE ~(u = t /\ ip = e.ip)
        <5>1. instructions'[u][ip] = instructions[u][ip]
          BY <4>1, <4>3
        <5> QED
          BY <4>3, <5>1
      <4> QED
        BY <4>2, <4>3
    <3>2. InThread(y)' <=> InThread(y) \/ y = e.id
      BY <3>1, <1>4 DEF InThread
    <3>3. InProcess(y)' <=> InProcess(y)
      BY <2>2 DEF InProcess
    <3> QED
      BY <3>2, <3>3 DEF ByIp
  <2>3. CASE /\ \A u \in Tracker, ip \in Ip :
                  instructions'[u][ip] = IF u = t THEN {} ELSE instructions[u][ip]
             /\ \A ip \in Ip : procInstr'[ip] = procInstr[ip] \cup instructions[t][ip]
                                 \cup (IF ip = e.ip THEN {e.id} ELSE {})
    <3>1. \A u \in Tracker, ip \in Ip :
              y \in instructions'[u][ip] <=> u # t /\ y \in instructions[u][ip]
      BY <2>3
    <3>2. \A ip \in Ip : y \in procInstr'[ip] <=>
              y \in procInstr[ip] \/ y \in instructions[t][ip] \/ (ip = e.ip /\ y = e.id)
      BY <2>3
    <3>3. InThread(y)' <=> \E u \in Tracker \ {t}, ip \in Ip : y \in instructions[u][ip]
      BY <3>1 DEF InThread
    <3>4. InProcess(y)' <=> \/ InProcess(y) \/ y = e.id
                            \/ \E ip \in Ip : y \in instructions[t][ip]
      BY <3>2, <1>4 DEF InProcess
    <3> QED
      BY <3>3, <3>4 DEF ByIp, InThread
  <2> QED
    BY <2>1, <2>2, <2>3
<1>10. \A y \in Access : ByThread(y)' <=> ByThread(y) \/ y = e.id
  <2>1. \A u \in Tracker, y \in Access :
            y \in stats'[u] <=> y \in stats[u] \/ (u = t /\ y = e.id)
    BY <1>1, <1>2 DEF TypeOK
  <2> QED
    BY <2>1 DEF ByThread
<1>11. ~ByIp(e.id) /\ ~BySite(e.id) /\ ~NonAlloc(e.id)
  BY <1>4, <1>8 DEF ViewsInv, Views, SameAccesses, ByIp
<1>12. CASE s = NoSite
  <2>1. /\ dummyAlloc' = [dummyAlloc EXCEPT ![t] = @ \cup {e.id}]
        /\ UNCHANGED <<allocCache, mallocStats>>
    BY <1>1, <1>12 DEF CountNonAlloc
  <2>2. \A y \in Access : BySite(y)' <=> BySite(y)
    BY <2>1 DEF AtSite, BySite
  <2>3. \A u \in Tracker, y \in Access :
            y \in dummyAlloc'[u] <=> y \in dummyAlloc[u] \/ (u = t /\ y = e.id)
    BY <2>1, <1>2 DEF TypeOK
  <2>4. \A y \in Access : NonAlloc(y)' <=> NonAlloc(y) \/ y = e.id
    BY <2>3 DEF NonAlloc
  <2> QED
    BY <2>2, <2>4, <1>9, <1>10, <1>11 DEF ViewsInv, Views, SameAccesses
<1>13. CASE s # NoSite
  <2>1. s \in Site /\ CountSite(t, e.id, s, sv) /\ acache[t][s] # "dangling"
    BY <1>1, <1>5, <1>6, <1>13
  <2>2. /\ \A r \in Site : AtSite(r)' = IF r = s THEN AtSite(r) \cup {e.id} ELSE AtSite(r)
        /\ UNCHANGED dummyAlloc
    BY ONLY t \in Tracker, sv \in Site, <2>1, <1>2, <1>4, CountedUnderItsSite
  <2>3. \A r \in Site, y \in Access :
            y \in AtSite(r)' <=> y \in AtSite(r) \/ (r = s /\ y = e.id)
    BY <2>2
  <2>4. \A y \in Access : BySite(y)' <=> BySite(y) \/ y = e.id
    BY <2>1, <2>3 DEF BySite
  <2>5. \A y \in Access : NonAlloc(y)' <=> NonAlloc(y)
    BY <2>2 DEF NonAlloc
  <2> QED
    BY <2>4, <2>5, <1>9, <1>10, <1>11 DEF ViewsInv, Views, SameAccesses
<1> QED
  BY <1>12, <1>13

(* A thread that ends changes where accesses are counted, not which.       *)
LEMMA ViewsOnStop ==
    ASSUME ViewsInv, NEW t \in Tracker, onStop(t)
    PROVE  SameAccesses'
<1>1. /\ procInstr' = Merged(procInstr, instructions[t])
      /\ instructions' = [instructions EXCEPT ![t] = NoCounts(Ip)]
      /\ UNCHANGED <<stats, dummyAlloc, mallocStats, allocCache>>
  BY DEF onStop
<1>2. TypeOK
  BY DEF ViewsInv, CountInv, IInv
<1>3. \A ip \in Ip : procInstr'[ip] = procInstr[ip] \cup instructions[t][ip]
  BY <1>1, <1>2 DEF TypeOK, Merged
<1>4. \A u \in Tracker, ip \in Ip :
          instructions'[u][ip] = IF u = t THEN {} ELSE instructions[u][ip]
  BY <1>1, <1>2 DEF TypeOK, NoCounts
<1>5. ASSUME NEW y \in Access
      PROVE  ByIp(y)' <=> ByIp(y)
  <2>1. InThread(y)' <=> \E u \in Tracker \ {t}, ip \in Ip : y \in instructions[u][ip]
    BY <1>4 DEF InThread
  <2>2. InProcess(y)' <=> InProcess(y) \/ \E ip \in Ip : y \in instructions[t][ip]
    BY <1>3 DEF InProcess
  <2> QED
    BY <2>1, <2>2 DEF ByIp, InThread
<1>6. ASSUME NEW y \in Access
      PROVE  /\ BySite(y)' <=> BySite(y)
             /\ NonAlloc(y)' <=> NonAlloc(y)
             /\ ByThread(y)' <=> ByThread(y)
  BY <1>1 DEF BySite, AtSite, NonAlloc, ByThread
<1> QED
  BY <1>5, <1>6 DEF ViewsInv, Views, SameAccesses

(* The second loop of onExit finds nothing in the maps of the threads.     *)
LEMMA NothingLeftToMerge ==
    ASSUME IInv, NEW t \in Tracker, flush(t)
    PROVE  procInstr' = procInstr
<1>1. phase = "flush" /\ procInstr' = Merged(procInstr, instructions[t])
  BY DEF flush
<1>2. \A ip \in Ip : instructions[t][ip] = {}
  BY <1>1 DEF IInv, IdleHoldsNothing, ExitAfterThreads
<1>3. procInstr \in [Ip -> SUBSET Access]
  BY DEF IInv, TypeOK
<1>4. \A ip \in Ip : procInstr[ip] \cup instructions[t][ip] = procInstr[ip]
  BY <1>2
<1> QED
  BY <1>1, <1>3, <1>4 DEF Merged

(* Every step keeps the views in agreement.                                *)
LEMMA SameAccessesNext ==
    ASSUME ViewsInv, [Next]_vars
    PROVE  SameAccesses'
<1>1. SameAccesses
  BY DEF ViewsInv, Views
<1>2. ASSUME NEW t \in Tracker,
             \/ createThreadTracker(t) \/ (\E h \in Hook : EnterHook(t, h))
             \/ (\E x \in Access, ip \in Ip, a \in Addr : onAccess(t, x, ip, a))
             \/ IgnoreAccess(t) \/ flushAccessBatch(t) \/ onAlloc(t) \/ onFree(t)
      PROVE  SameAccesses'
  <2>1. UNCHANGED Viewed
    BY <1>2 DEF createThreadTracker, EnterHook, onAccess, IgnoreAccess, flushAccessBatch,
                onAlloc, onFree, counterVars, Viewed
  <2> QED
    BY <2>1, <1>1, ViewsUnchanged
<1>3. ASSUME NEW t \in Tracker, flush(t)
      PROVE  SameAccesses'
  <2>1. UNCHANGED Viewed
    BY <1>3, NothingLeftToMerge DEF flush, Viewed, ViewsInv, CountInv
  <2> QED
    BY <2>1, <1>1, ViewsUnchanged
<1>4. ASSUME NEW t \in Tracker, flushAllocCache(t)
      PROVE  SameAccesses'
  <2>1. \A s \in Site : AtSite(s)' = AtSite(s)
    BY <1>4, AllocCacheMerged DEF ViewsInv, CountInv, IInv
  <2>2. UNCHANGED <<stats, dummyAlloc, instructions, procInstr>>
    BY <1>4 DEF flushAllocCache
  <2> QED
    BY <2>1, <2>2, <1>1
    DEF SameAccesses, BySite, NonAlloc, ByThread, ByIp, InThread, InProcess
<1>5. ASSUME onExit \/ UNCHANGED vars
      PROVE  SameAccesses'
  <2>1. UNCHANGED Viewed
    BY <1>5 DEF onExit, vars, counterVars, Viewed
  <2> QED
    BY <2>1, <1>1, ViewsUnchanged
<1> QED
  BY <1>2, <1>3, <1>4, <1>5, ViewsOnAccessHandling, ViewsOnStop DEF Next, Exited

-----------------------------------------------------------------------------
(* Every site has a tracker that onExit visits.                            *)

(* onExit does not forget a tracker.                                       *)
LEMMA KnownStays ==
    ASSUME TypeOK, [Next]_vars
    PROVE  Known \subseteq Known'
<1> SUFFICES ASSUME NEW u \in Tracker, life[u] # "none"
             PROVE  life'[u] # "none"
  BY DEF Known
<1>1. ASSUME NEW t \in Tracker, createThreadTracker(t) \/ onStop(t)
      PROVE  life'[u] # "none"
  BY <1>1 DEF TypeOK, createThreadTracker, onStop
<1>2. CASE life' = life
  BY <1>2
<1> QED
  BY <1>1, <1>2
  DEF Next, vars, onAccess, EnterHook, IgnoreAccess, onAccessHandling, flushAccessBatch,
      onAlloc, onFree, flushAllocCache, flush, onExit, Exited, threadVars

(* Every step keeps the trackers of sites known.                           *)
LEMMA SitesKnownNext ==
    ASSUME ViewsInv, [Next]_vars
    PROVE  SitesKnown'
<1>1. TypeOK /\ SitesKnown
  BY DEF ViewsInv, CountInv, IInv, Views
<1>2. Known \subseteq Known'
  BY <1>1, KnownStays
<1>3. ASSUME UNCHANGED <<owner, mallocStats, allocCache>>
      PROVE  SitesKnown'
  BY <1>1, <1>2, <1>3 DEF SitesKnown, AtSite
<1>4. ASSUME NEW t \in Tracker, onAlloc(t)
      PROVE  SitesKnown'
  <2>1. /\ owner' = [owner EXCEPT ![hook[t].addr] = <<t, hook[t].ip>>]
        /\ hook[t].op # "none" /\ UNCHANGED <<mallocStats, allocCache>>
    BY <1>4 DEF onAlloc, BodyReached, counterVars
  <2>2. t \in Known
    BY <2>1 DEF ViewsInv, CountInv, IInv, IdleHoldsNothing, Known
  <2>3. \A a \in Addr : owner'[a] = owner[a] \/ owner'[a] = <<t, hook[t].ip>>
    BY <2>1, <1>1 DEF TypeOK
  <2>4. \A a \in Addr : owner'[a] # NoSite => owner'[a][1] \in Known
    BY <2>2, <2>3, <1>1 DEF SitesKnown
  <2> QED
    BY <2>1, <2>4, <1>1, <1>2 DEF SitesKnown, AtSite
<1>5. ASSUME NEW t \in Tracker, onFree(t)
      PROVE  SitesKnown'
  <2>1. /\ owner' = [owner EXCEPT ![hook[t].addr] = NoSite]
        /\ UNCHANGED <<mallocStats, allocCache>>
    BY <1>5 DEF onFree, counterVars
  <2>2. \A a \in Addr : owner'[a] = owner[a] \/ owner'[a] = NoSite
    BY <2>1, <1>1 DEF TypeOK
  <2> QED
    BY <2>1, <2>2, <1>1, <1>2 DEF SitesKnown, AtSite
<1>6. ASSUME NEW t \in Tracker, NEW v \in Ip, NEW sv \in Site, onAccessHandling(t, v, sv)
      PROVE  SitesKnown'
  <2> DEFINE e == Head(accessBatch[t])
             s == owner[e.addr]
  <2>1. /\ accessBatch[t] # <<>>
        /\ accessBatch' = [accessBatch EXCEPT ![t] = Tail(@)]
        /\ IF s = NoSite THEN CountNonAlloc(t, e.id) ELSE CountSite(t, e.id, s, sv)
        /\ UNCHANGED owner
    BY <1>6 DEF onAccessHandling
  <2>2. life[t] = "alive" /\ \A r \in Site : acache[t][r] # "dangling"
    BY <2>1, FlushedWhileRunning DEF ViewsInv, CountInv
  <2>3. e \in Event
    BY <2>1, <1>1, TakenOut
  <2>4. e.id \in Access /\ e.addr \in Addr /\ s \in Site \cup {NoSite}
    BY <2>3, <1>1 DEF TypeOK, Event
  <2>5. s # NoSite => s[1] \in Known
    BY <2>4, <1>1 DEF SitesKnown
  <2> HIDE DEF e, s
  <2>6. CASE s = NoSite
    <3>1. UNCHANGED <<mallocStats, allocCache>>
      BY <2>1, <2>6 DEF CountNonAlloc
    <3> QED
      BY <3>1, <2>1, <1>3
  <2>7. CASE s # NoSite
    <3>1. s \in Site /\ CountSite(t, e.id, s, sv) /\ acache[t][s] # "dangling"
      BY <2>1, <2>2, <2>4, <2>7
    <3>2. /\ \A r \in Site : AtSite(r)' = IF r = s THEN AtSite(r) \cup {e.id} ELSE AtSite(r)
          /\ \A u \in Tracker \ {t} : allocCache'[u] = allocCache[u]
      BY ONLY t \in Tracker, sv \in Site, <3>1, <2>4, <1>1, CountedUnderItsSite
    <3>3. \A r \in Site : AtSite(r)' # {} => r[1] \in Known
      BY <3>2, <2>5, <2>7, <1>1 DEF SitesKnown
    <3>4. t \in Known
      BY <2>2 DEF Known
    <3> QED
      BY <3>2, <3>3, <3>4, <2>1, <1>1, <1>2 DEF SitesKnown
  <2> QED
    BY <2>6, <2>7
<1>7. ASSUME NEW t \in Tracker, flushAllocCache(t)
      PROVE  SitesKnown'
  <2>1. \A s \in Site : AtSite(s)' = AtSite(s)
    BY <1>1, <1>7, AllocCacheMerged
  <2>2. \A u \in Tracker, s \in Site : allocCache'[u][s] # {} => allocCache[u][s] # {}
    BY <1>1, <1>7 DEF TypeOK, flushAllocCache, NoCounts
  <2>3. UNCHANGED owner
    BY <1>7 DEF flushAllocCache
  <2> QED
    BY <2>1, <2>2, <2>3, <1>1, <1>2 DEF SitesKnown
<1> QED
  BY <1>3, <1>4, <1>5, <1>6, <1>7
  DEF Next, vars, createThreadTracker, onAccess, EnterHook, IgnoreAccess, flushAccessBatch,
      onStop, flush, onExit, Exited, counterVars

-----------------------------------------------------------------------------
(* The loops of onExit.                                                    *)

(* When onExit starts, the trackers it skips have counted nothing.         *)
LEMMA LoopsStart ==
    ASSUME ViewsInv, onExit
    PROVE  LoopsMerge'
<1>1. /\ phase = "run" /\ phase' = "flushAllocCache" /\ exited' = Tracker \ Known
      /\ UNCHANGED <<life, procAlloc, allocCache>>
  BY DEF onExit, threadVars, counterVars
<1>2. procAlloc = NoCounts(MallocIp)
  BY <1>1 DEF ViewsInv, Views, LoopsMerge
<1>3. \A t \in Tracker \ Known, s \in Site : allocCache[t][s] = {}
  BY DEF ViewsInv, Views, SitesKnown
<1>4. Known' = Known
  BY <1>1 DEF Known
<1> QED
  BY <1>1, <1>2, <1>3, <1>4 DEF LoopsMerge

(* A turn of the first loop empties one cache.                             *)
LEMMA FirstLoopMerges ==
    ASSUME ViewsInv, NEW t \in Tracker, flushAllocCache(t)
    PROVE  LoopsMerge'
<1>1. /\ phase = "flushAllocCache"
      /\ mallocStats' = Merged(mallocStats, allocCache[t])
      /\ allocCache' = [allocCache EXCEPT ![t] = NoCounts(Site)]
      /\ Visit(t, "flush")
      /\ UNCHANGED <<life, procAlloc>>
  BY DEF flushAllocCache, threadVars
<1>2. TypeOK
  BY DEF ViewsInv, CountInv, IInv
<1>3. /\ procAlloc = NoCounts(MallocIp)
      /\ Tracker \ Known \subseteq exited
      /\ \A u \in exited, s \in Site : allocCache[u][s] = {}
  BY <1>1 DEF ViewsInv, Views, LoopsMerge
<1>4. \A u \in exited \cup {t}, s \in Site : allocCache'[u][s] = {}
  BY <1>1, <1>2, <1>3 DEF TypeOK, NoCounts
<1>5. Known' = Known
  BY <1>1 DEF Known
<1>6. CASE exited \cup {t} # Tracker
  <2>1. phase' = "flushAllocCache" /\ exited' = exited \cup {t}
    BY <1>1, <1>6 DEF Visit
  <2> QED
    BY <2>1, <1>1, <1>3, <1>4, <1>5 DEF LoopsMerge
<1>7. CASE exited \cup {t} = Tracker
  <2>1. phase' = "flush" /\ exited' = Tracker \ Known
    BY <1>1, <1>7 DEF Visit
  <2>2. ASSUME NEW u \in Tracker \ Known, NEW ip \in MallocIp
        PROVE  mallocStats'[<<u, ip>>] = {}
    <3>1. <<u, ip>> \in Site /\ <<u, ip>>[1] = u
      BY DEF Site
    <3>2. AtSite(<<u, ip>>) = {}
      BY <3>1, <2>2 DEF ViewsInv, Views, SitesKnown
    <3>3. mallocStats[<<u, ip>>] = {} /\ allocCache[t][<<u, ip>>] = {}
      BY <3>2 DEF AtSite
    <3> QED
      BY <3>1, <3>3, <1>1, <1>2 DEF TypeOK, Merged
  <2>3. \A ip \in MallocIp : procAlloc'[ip] = MergedFrom(Tracker \ Known, ip)'
    BY <2>2, <1>1, <1>3, <1>5 DEF MergedFrom, NoCounts
  <2> QED
    BY <2>1, <2>3, <1>4, <1>5, <1>7 DEF LoopsMerge
<1> QED
  BY <1>6, <1>7

(* A turn of the second loop adds the sites of one tracker.                *)
LEMMA SecondLoopMerges ==
    ASSUME ViewsInv, NEW t \in Tracker, flush(t)
    PROVE  LoopsMerge'
<1>1. /\ phase = "flush"
      /\ procAlloc' = Merged(procAlloc, [ip \in MallocIp |-> mallocStats[<<t, ip>>]])
      /\ Visit(t, "done")
      /\ UNCHANGED <<life, allocCache, mallocStats>>
  BY DEF flush, threadVars
<1>2. TypeOK
  BY DEF ViewsInv, CountInv, IInv
<1>3. /\ Tracker \ Known \subseteq exited
      /\ \A u \in Tracker, s \in Site : allocCache[u][s] = {}
      /\ \A ip \in MallocIp : procAlloc[ip] = MergedFrom(exited, ip)
  BY <1>1 DEF ViewsInv, Views, LoopsMerge
<1>4. ASSUME NEW ip \in MallocIp
      PROVE  procAlloc'[ip] = MergedFrom(exited \cup {t}, ip)
  <2>1. procAlloc'[ip] = procAlloc[ip] \cup mallocStats[<<t, ip>>]
    BY <1>1, <1>2 DEF TypeOK, Merged
  <2>2. procAlloc[ip] = MergedFrom(exited, ip)
    BY <1>3
  <2>3. ASSUME NEW x
        PROVE  x \in MergedFrom(exited \cup {t}, ip) <=>
                   x \in MergedFrom(exited, ip) \/ x \in mallocStats[<<t, ip>>]
    BY DEF MergedFrom
  <2> QED
    BY <2>1, <2>2, <2>3
<1>5. Known' = Known
  BY <1>1 DEF Known
<1>6. \A T, ip : MergedFrom(T, ip)' = MergedFrom(T, ip)
  BY <1>1 DEF MergedFrom
<1>7. CASE exited \cup {t} # Tracker
  <2>1. phase' = "flush" /\ exited' = exited \cup {t}
    BY <1>1, <1>7 DEF Visit
  <2> QED
    BY <2>1, <1>1, <1>3, <1>4, <1>5 DEF LoopsMerge, MergedFrom
<1>8. CASE exited \cup {t} = Tracker
  <2>1. phase' = "done"
    BY <1>1, <1>8 DEF Visit
  <2>2. \A ip \in MallocIp : procAlloc'[ip] = MergedFrom(Tracker, ip)'
    BY <1>4, <1>6, <1>8
  <2>3. \A u \in Tracker, s \in Site : allocCache'[u][s] = {}
    BY <1>1, <1>3
  <2> QED
    BY <2>1, <2>2, <2>3 DEF LoopsMerge
<1> QED
  BY <1>7, <1>8

(* Every step keeps what the loops have merged.                            *)
LEMMA LoopsMergeNext ==
    ASSUME ViewsInv, [Next]_vars
    PROVE  LoopsMerge'
<1>1. LoopsMerge /\ TypeOK /\ IInv /\ OwnerInv
  BY DEF ViewsInv, CountInv, IInv, Views
<1>2. ASSUME UNCHANGED <<life, phase, exited, procAlloc, allocCache, mallocStats>>
      PROVE  LoopsMerge'
  BY <1>1, <1>2 DEF LoopsMerge, MergedFrom, Known
<1>3. ASSUME NEW t \in Tracker, NEW v \in Ip, NEW sv \in Site, onAccessHandling(t, v, sv)
      PROVE  LoopsMerge'
  <2>1. accessBatch[t] # <<>> /\ UNCHANGED <<phase, procAlloc>>
    BY <1>3 DEF onAccessHandling, exitVars
  <2>2. phase = "run"
    BY <2>1, <1>1, FlushedWhileRunning
  <2> QED
    BY <2>1, <2>2, <1>1 DEF LoopsMerge
<1>4. ASSUME NEW t \in Tracker, createThreadTracker(t) \/ onStop(t)
      PROVE  LoopsMerge'
  <2>1. phase = "run"
    BY <1>1, <1>4 DEF IInv, ExitAfterThreads, IdleHoldsNothing, createThreadTracker, onStop,
                      BodyReached
  <2>2. UNCHANGED <<phase, procAlloc>>
    BY <1>4 DEF createThreadTracker, onStop, counterVars, exitVars
  <2> QED
    BY <2>1, <2>2, <1>1 DEF LoopsMerge
<1> QED
  BY <1>2, <1>3, <1>4, LoopsStart, FirstLoopMerges, SecondLoopMerges
  DEF Next, vars, onAccess, EnterHook, IgnoreAccess, flushAccessBatch,
      onAlloc, onFree, Exited, counterVars, exitVars

(* ViewsInv holds in every reachable state when no id is recycled.         *)
LEMMA ViewsInvAlways == ASSUME ~RecycleIds PROVE Spec => []ViewsInv
<1>1. Init => ViewsInv
  BY PlacesInit, OwnerInit, ViewsInit DEF ViewsInv, CountInv
<1>2. ASSUME ViewsInv, [Next]_vars
      PROVE  ViewsInv'
  <2>1. IInv' /\ OwnerInv'
    BY <1>2, IInvNext, TypeNext, AttributionNext, CourseNext DEF ViewsInv, CountInv, OwnerInv
  <2> QED
    BY <1>2, <2>1, SameAccessesNext, SitesKnownNext, LoopsMergeNext
    DEF ViewsInv, CountInv, Views
<1>3. ViewsInv /\ [Next]_vars => ViewsInv'
  BY <1>2
<1> QED
  BY <1>1, <1>3, PTL DEF Spec

(* The views of the profile agree: by thread, by instruction, and by       *)
(* malloc site together with what no allocation covers, they count the     *)
(* same accesses, when Pin gives no id a second time.                      *)
THEOREM ProfileViewsAgree == ASSUME ~RecycleIds PROVE Spec => []ViewsAgree
<1>1. ASSUME ViewsInv, phase = "done"
      PROVE  /\ \A x : (\E t \in Tracker : x \in stats[t]) <=>
                       (\E ip \in Ip : x \in procInstr[ip])
             /\ \A x : \/ \E ip \in MallocIp : x \in procAlloc[ip]
                       \/ \E t \in Tracker : x \in dummyAlloc[t]
                       <=> \E ip \in Ip : x \in procInstr[ip]
             /\ \A x : ~ /\ \E ip \in MallocIp : x \in procAlloc[ip]
                         /\ \E t \in Tracker : x \in dummyAlloc[t]
  <2>1. TypeOK
    BY <1>1 DEF ViewsInv, CountInv, IInv
  <2>2. \A t \in Tracker, ip \in Ip : instructions[t][ip] = {}
    BY <1>1 DEF ViewsInv, CountInv, IInv, ExitAfterThreads, IdleHoldsNothing
  <2>3. \A x \in Access : ~InThread(x)
    BY <2>2 DEF InThread
  <2>4. \A t \in Tracker, s \in Site : allocCache[t][s] = {}
    BY <1>1 DEF ViewsInv, Views, LoopsMerge
  <2>5. ASSUME NEW x
        PROVE  BySite(x) <=> \E ip \in MallocIp : x \in procAlloc[ip]
    <3>1. \A s \in Site : AtSite(s) = mallocStats[s]
      BY <2>4 DEF AtSite
    <3>2. BySite(x) <=> \E s \in Site : x \in mallocStats[s]
      BY <3>1 DEF BySite
    <3>3. \A ip \in MallocIp :
              x \in procAlloc[ip] <=> \E t \in Tracker : x \in mallocStats[<<t, ip>>]
      BY <1>1 DEF ViewsInv, Views, LoopsMerge, MergedFrom
    <3>4. \A s : s \in Site <=> \E t \in Tracker : \E ip \in MallocIp : s = <<t, ip>>
      BY DEF Site
    <3> QED
      BY <3>2, <3>3, <3>4
  <2>6. \A x : \/ \E t \in Tracker : x \in stats[t]
               \/ \E ip \in Ip : x \in procInstr[ip]
               \/ \E ip \in MallocIp : x \in procAlloc[ip]
               \/ \E t \in Tracker : x \in dummyAlloc[t]
               => x \in Access
    BY <2>1 DEF TypeOK
  <2>7. \A x \in Access : /\ ByThread(x) <=> InProcess(x)
                          /\ BySite(x) \/ NonAlloc(x) <=> InProcess(x)
                          /\ ~(BySite(x) /\ NonAlloc(x))
    BY <1>1, <2>3 DEF ViewsInv, Views, SameAccesses, ByIp
  <2> QED
    BY <2>5, <2>6, <2>7 DEF ByThread, NonAlloc, InProcess
<1>2. ViewsInv => ViewsAgree
  BY <1>1 DEF ViewsAgree
<1> QED
  BY <1>2, ViewsInvAlways, PTL

-----------------------------------------------------------------------------
(* The refinement of AccessLedger when no thread id is recycled: each step *)
(* enters one access, ignores one, makes one, writes the report, or        *)
(* changes nothing the ledger shows.                                       *)

(* What the refinement mapping puts for the ledger and for the report.     *)
Book == [ip \in Ip |-> procInstr[ip] \cup UNION {instructions[t][ip] : t \in Tracker}]

Report == IF phase = "done" THEN procInstr ELSE NoCounts(Ip)

(* Two states whose counters hold the same accesses show the same ledger.  *)
InBook(x, ip) == x \in procInstr[ip] \/ \E t \in Tracker : x \in instructions[t][ip]

(* An access is in the book when the process or a thread has counted it.   *)
LEMMA BookElements ==
    ASSUME NEW ip \in Ip, NEW x
    PROVE  x \in Book[ip] <=> InBook(x, ip)
BY DEF Book, InBook

(* A step that moves counts from threads to the process leaves the book.   *)
LEMMA SameBook ==
    ASSUME \A ip \in Ip : \A x : InBook(x, ip)' <=> InBook(x, ip)
    PROVE  Book' = Book
<1>1. ASSUME NEW ip \in Ip
      PROVE  procInstr'[ip] \cup UNION {instructions'[t][ip] : t \in Tracker}
                 = procInstr[ip] \cup UNION {instructions[t][ip] : t \in Tracker}
  BY DEF InBook
<1> QED
  BY <1>1 DEF Book

(* A step that counts one access more enters it in the book.               *)
LEMMA BookWith ==
    ASSUME NEW i \in Ip, NEW y,
           \A ip \in Ip : \A x : InBook(x, ip)' <=> InBook(x, ip) \/ (ip = i /\ x = y)
    PROVE  Book' = [Book EXCEPT ![i] = @ \cup {y}]
<1>1. ASSUME NEW ip \in Ip
      PROVE  procInstr'[ip] \cup UNION {instructions'[t][ip] : t \in Tracker}
                 = IF ip = i THEN Book[ip] \cup {y} ELSE Book[ip]
  <2> DEFINE now == procInstr[ip] \cup UNION {instructions[t][ip] : t \in Tracker}
             next == procInstr'[ip] \cup UNION {instructions'[t][ip] : t \in Tracker}
  <2>1. \A x : x \in now <=> InBook(x, ip)
    BY DEF InBook
  <2>2. \A x : x \in next <=> InBook(x, ip)'
    BY DEF InBook
  <2> HIDE DEF now, next
  <2>3. ASSUME ip = i
        PROVE  next = now \cup {y}
    <3>1. \A x : x \in next <=> x \in now \cup {y}
      BY <2>1, <2>2, <2>3
    <3> QED
      BY <3>1
  <2>4. ASSUME ip # i
        PROVE  next = now
    <3>1. \A x : x \in next <=> x \in now
      BY <2>1, <2>2, <2>4
    <3> QED
      BY <3>1
  <2>5. next = IF ip = i THEN now \cup {y} ELSE now
    BY <2>3, <2>4
  <2>6. now = Book[ip]
    BY DEF now, Book
  <2> QED
    BY <2>5, <2>6 DEF next
<1>2. Book' = [ip \in Ip |-> IF ip = i THEN Book[ip] \cup {y} ELSE Book[ip]]
  BY <1>1 DEF Book
<1>3. [Book EXCEPT ![i] = @ \cup {y}]
          = [ip \in Ip |-> IF ip = i THEN Book[ip] \cup {y} ELSE Book[ip]]
  BY DEF Book
<1> QED
  BY <1>2, <1>3

(* What is settled is counted or ignored.                                  *)
LEMMA SettledElements ==
    ASSUME NEW x
    PROVE  x \in Ledger!Settled <=> x \in skipped \/ InThread(x) \/ InProcess(x)
<1>1. x \in Ledger!Entered <=> \E ip \in Ip : x \in Book[ip]
  BY DEF Ledger!Entered, Book
<1> QED
  BY <1>1, BookElements DEF Ledger!Settled, InBook, InThread, InProcess

(* In the states of the program the unsettled accesses are the waiting     *)
(* ones.                                                                   *)
LEMMA UnsettledWaits ==
    ASSUME IInv, NEW x \in Access
    PROVE  Ledger!Unsettled(x) <=> Waits(x)
BY SettledElements DEF IInv, Placed, CountedOnce, Ledger!Unsettled

-----------------------------------------------------------------------------
(* The counting starts with an empty ledger.                               *)
LEMMA LedgerInit == Init => Ledger!Init
<1> SUFFICES ASSUME Init PROVE Ledger!Init
  OBVIOUS
<1>1. Book = [ip \in Ip |-> {}]
  <2>1. \A ip \in Ip : procInstr[ip] = {} /\ \A t \in Tracker : instructions[t][ip] = {}
    BY DEF Init, NoCounts
  <2>2. \A ip \in Ip :
            procInstr[ip] \cup UNION {instructions[t][ip] : t \in Tracker} = {}
    BY <2>1
  <2> QED
    BY <2>2 DEF Book
<1> QED
  BY <1>1 DEF Ledger!Init, Init, Book, NoCounts

(* A step that changes none of what the ledger is made of.                 *)
LEMMA LedgerStutters ==
    ASSUME Book' = Book, UNCHANGED <<madeBy, skipped>>, Report' = Report,
           (phase = "done")' <=> phase = "done"
    PROVE  UNCHANGED Ledger!lvars
BY DEF Ledger!lvars, Book, Report

(* Each step of the counting is a step of the ledger or leaves it alone.   *)
LEMMA LedgerStep ==
    ASSUME ~RecycleIds, IInv, [Next]_vars
    PROVE  [Ledger!Next]_(Ledger!lvars)
<1> DEFINE Goal == [Ledger!Next]_(Ledger!lvars)
<1>1. ASSUME UNCHANGED <<procInstr, instructions, madeBy, skipped>>,
             (phase = "done")' <=> phase = "done"
      PROVE  Goal
  <2>1. Book' = Book /\ Report' = Report
    BY <1>1 DEF Book, Report
  <2> QED
    BY <1>1, <2>1, LedgerStutters
<1>2. ASSUME NEW t \in Tracker,
             \/ createThreadTracker(t)
             \/ \E h \in Hook : EnterHook(t, h)
             \/ flushAccessBatch(t) \/ onAlloc(t) \/ onFree(t)
      PROVE  Goal
  <2>1. UNCHANGED <<procInstr, instructions, madeBy, skipped, phase>>
    BY <1>2 DEF createThreadTracker, EnterHook, flushAccessBatch, onAlloc, onFree,
       counterVars, exitVars, historyVars
  <2> HIDE DEF Goal
  <2> QED
    BY <1>1, <2>1
<1>3. ASSUME NEW t \in Tracker, NEW x \in Access, NEW ip \in Ip, NEW a \in Addr,
             onAccess(t, x, ip, a)
      PROVE  Goal
  <2>1. life[t] = "alive"
    BY <1>3 DEF onAccess, Running
  <2>2. phase # "done"
    BY <2>1 DEF IInv, ExitAfterThreads
  <2>3. UNCHANGED <<procInstr, instructions, skipped, phase>>
    BY <1>3 DEF onAccess, counterVars, exitVars
  <2>4. madeBy[x] = NoIp /\ madeBy' = [madeBy EXCEPT ![x] = ip]
    BY <1>3 DEF onAccess
  <2>5. Ledger!Make(x, ip)
    BY <2>2, <2>3, <2>4 DEF Ledger!Make
  <2> QED
    BY <2>5 DEF Ledger!Next
<1>4. ASSUME NEW t \in Tracker, IgnoreAccess(t)
      PROVE  Goal
  <2> DEFINE x == Head(accessBatch[t]).id
  <2>1. /\ accessBatch[t] # <<>>
        /\ accessBatch' = [accessBatch EXCEPT ![t] = Tail(@)]
        /\ skipped' = skipped \cup {x}
        /\ UNCHANGED <<procInstr, instructions, madeBy, phase>>
    BY <1>4 DEF IgnoreAccess, counterVars, exitVars
  <2>2. x \in Access /\ Waits(x)
    BY <2>1, Dequeued DEF IInv, Event
  <2>3. Ledger!Unsettled(x)
    BY <2>2, UnsettledWaits
  <2> HIDE DEF x
  <2>4. Ledger!Ignore(x)
    BY <2>1, <2>3 DEF Ledger!Ignore
  <2> QED
    BY <2>2, <2>4 DEF Ledger!Next
<1>5. ASSUME NEW t \in Tracker, NEW v \in Ip, NEW sv \in Site, onAccessHandling(t, v, sv)
      PROVE  Goal
  <2> DEFINE e == Head(accessBatch[t])
  <2>1. /\ accessBatch[t] # <<>>
        /\ accessBatch' = [accessBatch EXCEPT ![t] = Tail(@)]
        /\ CountInstruction(t, e, v)
        /\ UNCHANGED <<skipped, madeBy, phase>>
    BY <1>5 DEF onAccessHandling, historyVars, exitVars
  <2>2. /\ e \in Event /\ Waits(e.id)
        /\ \E i \in DOMAIN accessBatch[t] : accessBatch[t][i] = e
    BY <2>1, Dequeued DEF IInv
  <2>3. e.id \in Access /\ e.ip \in Ip /\ madeBy[e.id] = e.ip
    BY <2>2 DEF IInv, UnderItsIp, Event
  <2>4. life[t] = "alive"
    BY <1>5, FlushingIsAlive DEF onAccessHandling
  <2>5. icache[t][e.ip] # "dangling"
    BY <2>3, <2>4 DEF IInv, DanglingOnlyAfterEnd
  <2>6. phase # "done"
    BY <2>4 DEF IInv, ExitAfterThreads
  <2>7. Ledger!Unsettled(e.id)
    BY <2>2, <2>3, UnsettledWaits
  <2> HIDE DEF e
  <2>8. PICK x \in Access, i \in Ip : x = e.id /\ i = e.ip
    BY <2>3
  <2>9. \A ip \in Ip : \A y : InBook(y, ip)' <=> InBook(y, ip) \/ (ip = i /\ y = x)
    <3>1. ASSUME /\ procInstr' = procInstr
                 /\ \A u \in Tracker, ip \in Ip : instructions'[u][ip] =
                        IF u = t /\ ip = i THEN instructions[u][ip] \cup {x}
                                           ELSE instructions[u][ip],
                 NEW ip \in Ip, NEW y
          PROVE  InBook(y, ip)' <=> InBook(y, ip) \/ (ip = i /\ y = x)
      <4>1. \A u \in Tracker : y \in instructions'[u][ip]
                <=> y \in instructions[u][ip] \/ (u = t /\ ip = i /\ y = x)
        BY <3>1
      <4> QED
        BY <3>1, <4>1 DEF InBook
    <3>2. ASSUME /\ \A ip \in Ip : procInstr'[ip] = procInstr[ip] \cup instructions[t][ip]
                                           \cup (IF ip = i THEN {x} ELSE {})
                 /\ \A u \in Tracker, ip \in Ip :
                        instructions'[u][ip] = IF u = t THEN {} ELSE instructions[u][ip],
                 NEW ip \in Ip, NEW y
          PROVE  InBook(y, ip)' <=> InBook(y, ip) \/ (ip = i /\ y = x)
      <4>1. \A u \in Tracker : y \in instructions'[u][ip]
                                    <=> u # t /\ y \in instructions[u][ip]
        BY <3>2
      <4>2. y \in procInstr'[ip] <=> \/ y \in procInstr[ip] \/ y \in instructions[t][ip]
                                    \/ (ip = i /\ y = x)
        BY <3>2
      <4> QED
        BY <4>1, <4>2 DEF InBook
    <3>3. TypeOK
      BY DEF IInv
    <3>4. \/ /\ procInstr' = procInstr
             /\ \A u \in Tracker, ip \in Ip : instructions'[u][ip] =
                    IF u = t /\ ip = e.ip THEN instructions[u][ip] \cup {e.id}
                                          ELSE instructions[u][ip]
          \/ /\ \A ip \in Ip : procInstr'[ip] = procInstr[ip] \cup instructions[t][ip]
                                       \cup (IF ip = e.ip THEN {e.id} ELSE {})
             /\ \A u \in Tracker, ip \in Ip :
                    instructions'[u][ip] = IF u = t THEN {} ELSE instructions[u][ip]
      <4>1. e \in Event /\ CountInstruction(t, e, v)
        BY <2>1, <2>2
      <4> QED
        BY ONLY t \in Tracker, v \in Ip, <4>1, <2>5, <3>3, CountedUnderItsIp
    <3>5. e.id = x /\ e.ip = i
      BY <2>8
    <3> QED
      BY ONLY <3>1, <3>2, <3>4, <3>5
  <2>10. Book' = [Book EXCEPT ![madeBy[x]] = @ \cup {x}]
    BY <2>3, <2>8, <2>9, BookWith
  <2>11. Ledger!Enter(x)
    BY <2>1, <2>6, <2>7, <2>8, <2>10 DEF Ledger!Enter, Book
  <2> QED
    BY <2>11 DEF Ledger!Next
<1>6. ASSUME NEW t \in Tracker, onStop(t)
      PROVE  Goal
  <2>1. /\ procInstr' = Merged(procInstr, instructions[t])
        /\ instructions' = [instructions EXCEPT ![t] = NoCounts(Ip)]
        /\ UNCHANGED <<skipped, madeBy, phase>>
    BY <1>6 DEF onStop, historyVars, exitVars
  <2>2. life[t] = "alive"
    BY <1>6 DEF onStop, BodyReached, IInv, IdleHoldsNothing
  <2>3. phase # "done"
    BY <2>2 DEF IInv, ExitAfterThreads
  <2>4. /\ \A ip \in Ip : procInstr'[ip] = procInstr[ip] \cup instructions[t][ip]
        /\ \A u \in Tracker, ip \in Ip :
               instructions'[u][ip] = IF u = t THEN {} ELSE instructions[u][ip]
    BY <2>1 DEF IInv, TypeOK, Merged, NoCounts
  <2>5. Book' = Book
    BY <2>4, SameBook DEF InBook
  <2> QED
    BY <2>1, <2>3, <2>5, LedgerStutters DEF Report
<1>7. ASSUME NEW t \in Tracker, flushAllocCache(t)
      PROVE  Goal
  <2>1. /\ phase' \in {phase, "flush"} /\ phase = "flushAllocCache"
        /\ UNCHANGED <<procInstr, instructions, madeBy, skipped>>
    BY <1>7 DEF flushAllocCache, Visit, historyVars
  <2> HIDE DEF Goal
  <2> QED
    BY <1>1, <2>1
<1>8. ASSUME NEW t \in Tracker, flush(t)
      PROVE  Goal
  <2>1. /\ phase = "flush" /\ phase' \in {phase, "done"}
        /\ procInstr' = Merged(procInstr, instructions[t])
        /\ UNCHANGED <<life, hook, accessBatch, instructions, skipped, madeBy>>
    BY <1>8 DEF flush, Visit, threadVars, historyVars
  <2>2. \A u \in Tracker : /\ accessBatch[u] = <<>>
                           /\ \A ip \in Ip : instructions[u][ip] = {}
    BY <2>1 DEF IInv, IdleHoldsNothing, ExitAfterThreads
  <2>3. procInstr' = procInstr
    <3>1. procInstr \in [Ip -> SUBSET Access]
      BY DEF IInv, TypeOK
    <3>2. \A ip \in Ip : procInstr[ip] \cup instructions[t][ip] = procInstr[ip]
      BY <2>2
    <3> QED
      BY <2>1, <3>1, <3>2 DEF Merged
  <2>4. Book' = Book /\ Book = procInstr
    <3>1. \A ip \in Ip : procInstr[ip] \cup UNION {instructions[u][ip] : u \in Tracker}
                             = procInstr[ip]
      BY <2>2
    <3>2. procInstr = [ip \in Ip |-> procInstr[ip]]
      BY DEF IInv, TypeOK
    <3> QED
      BY <2>1, <2>3, <3>1, <3>2 DEF Book
  <2>5. CASE phase' = phase
    BY <2>1, <2>3, <2>4, <2>5, LedgerStutters DEF Report
  <2>6. CASE phase' = "done"
    <3>1. \A x \in Access : ~Waits(x)
      BY <2>2 DEF Waits
    <3>2. \A x \in Access : ~Ledger!Unsettled(x)
      BY <3>1, UnsettledWaits
    <3>3. Report' = Book
      BY <2>3, <2>4, <2>6 DEF Report
    <3>4. Ledger!Publish
      BY <2>1, <2>4, <2>6, <3>2, <3>3 DEF Ledger!Publish, Book, Report
    <3> QED
      BY <3>4 DEF Ledger!Next
  <2> QED
    BY <2>1, <2>5, <2>6
<1>9. ASSUME onExit
      PROVE  Goal
  <2>1. phase' = "flushAllocCache" /\ phase = "run"
        /\ UNCHANGED <<procInstr, instructions, madeBy, skipped>>
    BY <1>9 DEF onExit, counterVars, historyVars
  <2> HIDE DEF Goal
  <2> QED
    BY <1>1, <2>1
<1>10. ASSUME UNCHANGED vars
       PROVE  Goal
  <2>1. UNCHANGED <<procInstr, instructions, madeBy, skipped, phase>>
    BY <1>10 DEF vars
  <2> HIDE DEF Goal
  <2> QED
    BY <1>1, <2>1
<1> HIDE DEF Goal
<1>11. Goal
  BY <1>2, <1>3, <1>4, <1>5, <1>6, <1>7, <1>8, <1>9, <1>10 DEF Next, Exited
<1> QED
  BY <1>11 DEF Goal

(* The counting of accesses implements the ledger: batches, caches,        *)
(* merges and thread ends do not show.                                     *)
THEOREM ImplementsLedger == ASSUME ~RecycleIds PROVE Spec => LedgerSpec
<1>1. IInv /\ [Next]_vars => [Ledger!Next]_(Ledger!lvars)
  BY LedgerStep
<1> QED
  BY <1>1, LedgerInit, IInvAlways, PTL DEF Spec, LedgerSpec, Ledger!Spec

-----------------------------------------------------------------------------
(* The cut.                                                                *)

(* What is cut is merged: no access is lost or added, whatever the counters *)
(* and the cutoff.                                                         *)
LEMMA CutKeepsUnion ==
    ASSUME NEW map, NEW class, NEW cutoff, OTHERS \notin DOMAIN map
    PROVE  LET cut == removeSmall(map, class, cutoff)
           IN  UNION {cut[k] : k \in DOMAIN cut} = UNION {map[k] : k \in DOMAIN map}
<1> DEFINE large == Large(map, class, cutoff)
           cut == removeSmall(map, class, cutoff)
<1>1. large \subseteq DOMAIN map
  BY DEF Large
<1> HIDE DEF large
<1>2. cut = [k \in large \cup {OTHERS} |->
                IF k = OTHERS THEN UNION {map[j] : j \in DOMAIN map \ large} ELSE map[k]]
  BY DEF removeSmall, large
<1> HIDE DEF cut
<1>3. DOMAIN cut = large \cup {OTHERS}
  BY <1>2
<1>4. cut[OTHERS] = UNION {map[j] : j \in DOMAIN map \ large}
  BY <1>2
<1>5. \A k \in large : cut[k] = map[k]
  BY <1>1, <1>2
<1>6. ASSUME NEW x
      PROVE  (\E k \in DOMAIN cut : x \in cut[k]) <=> (\E k \in DOMAIN map : x \in map[k])
  <2>1. x \in cut[OTHERS] <=> \E j \in DOMAIN map \ large : x \in map[j]
    BY <1>4
  <2> QED
    BY <1>1, <1>3, <1>5, <2>1
<1>7. UNION {cut[k] : k \in DOMAIN cut} = UNION {map[k] : k \in DOMAIN map}
  BY <1>6
<1> QED
  BY <1>7 DEF cut

(* The profile that is cut reports every access, and each instruction that *)
(* made many of one kind keeps its own: whatever kinds the accesses are of *)
(* and the cutoffs, and however floats are rounded, when Pin gives no id a *)
(* second time.                                                            *)
THEOREM CutLosesNothing == ASSUME ~RecycleIds PROVE Spec => []CutKeepsAccesses
<1>1. TypeOK /\ ReportComplete /\ ViewsAgree => CutKeepsAccesses
  <2> SUFFICES ASSUME TypeOK, ReportComplete, ViewsAgree, phase = "done",
                      NEW class \in Classes, NEW cutoff \in Cutoffs
               PROVE  LET byIp == removeSmall(procInstr, class, cutoff)
                          bySite == removeSmall(procAlloc, class, cutoff)
                          many == Many(class, cutoff)
                      IN  /\ DOMAIN byIp = many \cup {OTHERS}
                          /\ \A ip \in many : byIp[ip] = ToCount(ip)
                          /\ byIp[OTHERS] = UNION {ToCount(ip) : ip \in Ip \ many}
                          /\ UNION {bySite[k] : k \in DOMAIN bySite}
                                 = Reported \ UNION {dummyAlloc[t] : t \in Tracker}
    BY DEF CutKeepsAccesses
  <2> DEFINE byIp == removeSmall(procInstr, class, cutoff)
             bySite == removeSmall(procAlloc, class, cutoff)
             many == Many(class, cutoff)
             nonAlloc == UNION {dummyAlloc[t] : t \in Tracker}
  <2>1. /\ DOMAIN procInstr = Ip /\ DOMAIN procAlloc = MallocIp
        /\ OTHERS \notin Ip /\ OTHERS \notin MallocIp
    BY CutAssumption DEF TypeOK
  <2>2. \A ip \in Ip : procInstr[ip] = ToCount(ip)
    BY DEF ReportComplete
  <2>3. Reported = UNION {procInstr[ip] : ip \in Ip}
    BY <2>2 DEF Reported
  <2>4. many = Large(procInstr, class, cutoff)
    <3> DEFINE cut == applyCut(Stats(Reported, class), cutoff)
    <3>1. many = {ip \in Ip : asOneLargerThan(Stats(ToCount(ip), class), cut)}
      BY DEF Many
    <3>2. Large(procInstr, class, cutoff)
              = {ip \in Ip : asOneLargerThan(Stats(procInstr[ip], class), cut)}
      BY <2>1, <2>3 DEF Large
    <3> HIDE DEF cut, many
    <3> QED
      BY <2>2, <3>1, <3>2
  <2> HIDE DEF many
  <2>6. byIp = [k \in many \cup {OTHERS} |->
                   IF k = OTHERS THEN UNION {procInstr[j] : j \in Ip \ many}
                                 ELSE procInstr[k]]
    BY <2>1, <2>4 DEF removeSmall
  <2>7. many \subseteq Ip
    BY DEF many, Many
  <2> HIDE DEF byIp
  <2>8. DOMAIN byIp = many \cup {OTHERS}
    BY <2>6
  <2>9. \A ip \in many : byIp[ip] = ToCount(ip)
    BY <2>1, <2>2, <2>6, <2>7
  <2>10. byIp[OTHERS] = UNION {ToCount(ip) : ip \in Ip \ many}
    <3>1. byIp[OTHERS] = UNION {procInstr[j] : j \in Ip \ many}
      BY <2>6
    <3> QED
      BY <2>2, <3>1
  <2>11. UNION {bySite[k] : k \in DOMAIN bySite} = Reported \ nonAlloc
    <3>1. UNION {bySite[k] : k \in DOMAIN bySite} = UNION {procAlloc[k] : k \in MallocIp}
      BY <2>1, CutKeepsUnion
    <3> DEFINE sites == UNION {procAlloc[ip] : ip \in MallocIp}
               ips == UNION {procInstr[ip] : ip \in Ip}
    <3>2. sites \cup nonAlloc = ips /\ sites \cap nonAlloc = {}
      BY ONLY ViewsAgree, phase = "done" DEF ViewsAgree
    <3>3. Reported = ips
      BY ONLY <2>3
    <3> HIDE DEF bySite, nonAlloc, sites, ips
    <3>4. \A x : x \in sites <=> x \in Reported /\ x \notin nonAlloc
      BY ONLY <3>2, <3>3
    <3>5. sites = Reported \ nonAlloc
      BY ONLY <3>4
    <3> QED
      BY ONLY <3>1, <3>5 DEF sites
  <2> QED
    BY ONLY <2>8, <2>9, <2>10, <2>11 DEF many, byIp
<1> QED
  BY <1>1, TypeCorrect, NothingLost, ProfileViewsAgree, PTL

=============================================================================
