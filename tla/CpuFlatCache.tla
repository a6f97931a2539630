---------------------------- MODULE CpuFlatCache ----------------------------
(***************************************************************************)
(* The CPU cache a thread simulates to ignore the accesses it serves:      *)
(* caches/CpuSimpleFlatCache.cpp, and CpuSimpleFlatCacheStatic_impl.hpp,   *)
(* which is the same algorithm with its sizes fixed at compile time.       *)
(*                                                                         *)
(* LRU is kept with an age of a few bits per entry: a use gives its entry  *)
(* the current age of the row, and when that counter wraps the ages of the *)
(* row are scaled down to 0, 1, 2...                                       *)
(***************************************************************************)
EXTENDS Naturals, FiniteSets

CONSTANTS
    Line,          \* cache lines (addr >> 6) the program accesses
    WaySize,       \* number of rows
    Associativity, \* entries in a row
    AgeLimit       \* ages are counted modulo this: 256, for a uint8_t

(* The program cannot access line 0, which the code uses as initial tag:   *)
(* the first page is not mapped.  The code does not check that the         *)
(* associativity fits in an age.                                           *)
ASSUME CacheAssumption ==
    /\ Line \subseteq Nat \ {0}
    /\ WaySize \in Nat \ {0}
    /\ Associativity \in Nat \ {0}
    /\ AgeLimit \in Nat
    /\ Associativity < AgeLimit

NoLine == 0

Way == 0..(Associativity - 1)

Row == 0..(WaySize - 1)

getRow(line) == line % WaySize

Age == 0..(AgeLimit - 1)

VARIABLES
    tagLineVirtIndex, \* per row and way, the cached line
    tagLineAge,       \* per row and way, the age of the entry
    tagCurrentAge,    \* per row, the age of the next use
    hit,              \* the answer to the last access
    used,             \* history: the lines used so far
    since             \* history: what was used since the last use of a line

vars == <<tagLineVirtIndex, tagLineAge, tagCurrentAge, hit, used, since>>

SameRow(k, l) == getRow(k) = getRow(l)

Lru == INSTANCE LruCache

TypeOK ==
    /\ tagLineVirtIndex \in [Row -> [Way -> Line \cup {NoLine}]]
    /\ tagLineAge \in [Row -> [Way -> Age]]
    /\ tagCurrentAge \in [Row -> Age]
    /\ hit \in BOOLEAN
    /\ used \in SUBSET Line
    /\ since \in [Line -> SUBSET Line]

Init ==
    /\ tagLineVirtIndex = [row \in Row |-> [way \in Way |-> NoLine]]
    /\ tagLineAge = [row \in Row |-> [way \in Way |-> way]]
    /\ tagCurrentAge = [row \in Row |-> Associativity]
    /\ hit = FALSE
    /\ used = {}
    /\ since = [l \in Line |-> {}]

-----------------------------------------------------------------------------
(* The entry to evict: the first of the oldest ones.                       *)
selectVictim(ages, way) ==
    \A v \in Way : IF v < way THEN ages[way] < ages[v] ELSE ages[way] <= ages[v]

(* The first entry that holds the line, or else the victim.                *)
Chosen(tags, ages, line, way) ==
    IF \E v \in Way : tags[v] = line
    THEN tags[way] = line /\ \A v \in Way : v < way => tags[v] # line
    ELSE selectVictim(ages, way)

(* Mutant: ranks start at 1.                                               *)
scaleDownAgesFrom1(ages) ==
    [way \in Way |-> Cardinality({v \in Way : ages[v] <= ages[way]})]

(* The ages of a row become their ranks.                                   *)
scaleDownAges(ages) ==
    [way \in Way |-> Cardinality({v \in Way : ages[v] < ages[way]})]

(* Mutant: the counter wraps and the ages stay.                            *)
AgedNoScaling(ages, way, current) ==
    <<[ages EXCEPT ![way] = current],
      IF (current + 1) % AgeLimit = 0 THEN Associativity ELSE current + 1>>

(* Mutant: the counter never wraps.                                        *)
AgedNoWrap(ages, way, current) == <<[ages EXCEPT ![way] = current], current + 1>>

(* The ages of a row and its current age, after a use of way.              *)
Aged(ages, way, current) ==
    LET touched == [ages EXCEPT ![way] = current]
        next == (current + 1) % AgeLimit
    IN  IF next = 0 THEN <<scaleDownAges(touched), Associativity>>
                    ELSE <<touched, next>>

onMemoryAccess(line, way) ==
    LET row == getRow(line)
        tags == tagLineVirtIndex[row]
        aged == Aged(tagLineAge[row], way, tagCurrentAge[row])
    IN  /\ Chosen(tags, tagLineAge[row], line, way)
        /\ hit' = \E v \in Way : tags[v] = line
        /\ tagLineVirtIndex' = [tagLineVirtIndex EXCEPT ![row][way] = line]
        /\ tagLineAge' = [tagLineAge EXCEPT ![row] = aged[1]]
        /\ tagCurrentAge' = [tagCurrentAge EXCEPT ![row] = aged[2]]
        /\ Lru!Use(line)

Next == \E line \in Line, way \in Way : onMemoryAccess(line, way)

Spec == Init /\ [][Next]_vars

-----------------------------------------------------------------------------
(* Properties.                                                             *)

(* The ages of a row order its entries by their last use, whatever the     *)
(* counter went through: they are distinct and below the age of the next   *)
(* use, an entry never used is older than a used one, and of two used ones *)
(* the younger was used since the last use of the older.                   *)
AgesAreRecency ==
    \A row \in Row :
        LET tags == tagLineVirtIndex[row]
            ages == tagLineAge[row]
        IN  \A v, w \in Way :
                /\ ages[v] < tagCurrentAge[row]
                /\ v # w => ages[v] # ages[w]
                /\ tags[v] = NoLine /\ tags[w] # NoLine => ages[v] < ages[w]
                /\ tags[v] # NoLine /\ tags[w] # NoLine =>
                       (ages[v] < ages[w] <=> tags[w] \in since[tags[v]])

(* "one L1 cache per thread (32K by default) with LRU replacement policy"  *)
(* (README.md:222): the cache answers what LRU answers, and the wrap of an *)
(* age counter is never seen.                                              *)
LruSpec == Lru!Spec

-----------------------------------------------------------------------------
(* The inductive invariant behind the two: the ages order the entries, the *)
(* tags are those of used lines of the row, a line is in one entry, what   *)
(* was used since the line of an entry is what the younger entries hold,   *)
(* and a used line that is in no entry was pushed out by Associativity     *)
(* others.                                                                 *)

AgesOrdered ==
    \A row \in Row :
        LET ages == tagLineAge[row]
        IN  /\ Associativity <= tagCurrentAge[row]
            /\ \A v \in Way : ages[v] < tagCurrentAge[row]
            /\ \A v, w \in Way : v # w => ages[v] # ages[w]

EmptyIsOldest ==
    \A row \in Row : \A v, w \in Way :
        tagLineVirtIndex[row][v] = NoLine /\ tagLineVirtIndex[row][w] # NoLine
            => tagLineAge[row][v] < tagLineAge[row][w]

TagsFit ==
    \A row \in Row :
        LET tags == tagLineVirtIndex[row]
        IN  /\ \A v \in Way : tags[v] # NoLine => tags[v] \in used /\ getRow(tags[v]) = row
            /\ \A v, w \in Way : tags[v] # NoLine /\ tags[v] = tags[w] => v = w

SinceIsYounger ==
    \A row \in Row : \A w \in Way :
        tagLineVirtIndex[row][w] # NoLine =>
            since[tagLineVirtIndex[row][w]] =
                {tagLineVirtIndex[row][v] :
                    v \in {u \in Way : tagLineAge[row][w] < tagLineAge[row][u]}}

Cached(line) == \E v \in Way : tagLineVirtIndex[getRow(line)][v] = line

SinceFinite == \A line \in Line : IsFiniteSet(since[line])

EvictedIsFar ==
    \A line \in used : ~Cached(line) => Associativity <= Cardinality(since[line])

IInv ==
    /\ TypeOK
    /\ AgesOrdered
    /\ EmptyIsOldest
    /\ TagsFit
    /\ SinceIsYounger
    /\ SinceFinite
    /\ EvictedIsFar

=============================================================================
