------------------------- MODULE CpuFlatCacheProofs -------------------------
(***************************************************************************)
(* Proofs about CpuFlatCache: for every number of rows, associativity and  *)
(* width of the ages, and every set of lines, the cache is LRU, and the    *)
(* loop of AgeScaling computes the ranks of the ages.                      *)
(***************************************************************************)
EXTENDS AgeScaling, FiniteSetTheorems, TLAPS

USE CacheAssumption

-----------------------------------------------------------------------------
(* Sizes.                                                                  *)

(* The ways are finitely many, and Associativity of them.                  *)
LEMMA WayFinite ==
    /\ IsFiniteSet(Way)
    /\ Cardinality(Way) = Associativity
    /\ Way \subseteq Nat
BY FS_Interval, Associativity - 1 \in Int DEF Way

(* getRow gives a row.                                                     *)
LEMMA RowType == \A line \in Line : getRow(line) \in Row
BY DEF getRow, Row

(* The lines some entries hold are at most as many as the entries, and as  *)
(* many when no two entries hold the same.                                 *)
LEMMA ImageSize ==
    ASSUME NEW ways \in SUBSET Way, NEW tags
    PROVE  LET lines == {tags[v] : v \in ways}
           IN  /\ IsFiniteSet(lines)
               /\ Cardinality(lines) <= Cardinality(ways)
               /\ (\A v, w \in ways : tags[v] = tags[w] => v = w)
                      => Cardinality(lines) = Cardinality(ways)
<1> DEFINE lines == {tags[v] : v \in ways}
           f == [v \in ways |-> tags[v]]
<1>1. f \in Surjection(ways, lines)
  BY DEF Surjection
<1>2. IsFiniteSet(ways)
  BY WayFinite, FS_Subset
<1>3. (\A v, w \in ways : tags[v] = tags[w] => v = w) => f \in Injection(ways, lines)
  BY DEF Injection, IsInjective
<1> HIDE DEF f
<1> QED
  BY <1>1, <1>2, <1>3, FS_Surjection

-----------------------------------------------------------------------------
(* Ages.                                                                   *)

(* Scaling down keeps the order of the ages.                               *)
LEMMA RanksKeepOrder ==
    ASSUME NEW ages \in [Way -> Nat]
    PROVE  LET ranks == scaleDownAges(ages)
           IN  /\ ranks \in [Way -> 0..(Associativity - 1)]
               /\ \A v, w \in Way : ranks[v] < ranks[w] <=> ages[v] < ages[w]
<1> DEFINE Older(w) == {v \in Way : ages[v] < ages[w]}
           ranks == scaleDownAges(ages)
<1>1. \A w \in Way : ranks[w] = Cardinality(Older(w))
  BY DEF scaleDownAges
<1>2. ASSUME NEW w \in Way
      PROVE  IsFiniteSet(Older(w)) /\ Cardinality(Older(w)) \in 0..(Associativity - 1)
  <2>1. Older(w) \subseteq Way \ {w}
    OBVIOUS
  <2>2. IsFiniteSet(Way \ {w}) /\ Cardinality(Way \ {w}) = Associativity - 1
    BY WayFinite, FS_RemoveElement
  <2>3. IsFiniteSet(Older(w)) /\ Cardinality(Older(w)) <= Associativity - 1
    BY <2>1, <2>2, FS_Subset
  <2> QED
    BY <2>3, FS_CardinalityType
<1>3. ASSUME NEW v \in Way, NEW w \in Way, ages[v] < ages[w]
      PROVE  Cardinality(Older(v)) < Cardinality(Older(w))
  <2>1. Older(v) \subseteq Older(w)
    BY <1>3
  <2>2. v \in Older(w) /\ v \notin Older(v)
    BY <1>3
  <2>3. IsFiniteSet(Older(w)) /\ Older(v) # Older(w)
    BY <1>2, <2>2
  <2> HIDE DEF Older
  <2>4. /\ Cardinality(Older(v)) <= Cardinality(Older(w))
        /\ Cardinality(Older(v)) # Cardinality(Older(w))
    BY <2>1, <2>3, FS_Subset
  <2>5. Cardinality(Older(v)) \in Nat /\ Cardinality(Older(w)) \in Nat
    BY <1>2
  <2> QED
    BY <2>4, <2>5
<1>4. ASSUME NEW v \in Way, NEW w \in Way, ages[v] = ages[w]
      PROVE  Cardinality(Older(v)) = Cardinality(Older(w))
  BY <1>4
<1>5. ranks \in [Way -> 0..(Associativity - 1)]
  BY <1>1, <1>2 DEF scaleDownAges
<1>6. ASSUME NEW v \in Way, NEW w \in Way
      PROVE  ranks[v] < ranks[w] <=> ages[v] < ages[w]
  <2>1. \/ ages[v] < ages[w]
        \/ ages[w] < ages[v]
        \/ ages[v] = ages[w]
    OBVIOUS
  <2>2. ranks[v] \in Nat /\ ranks[w] \in Nat
    BY <1>5
  <2> HIDE DEF Older, ranks
  <2> QED
    BY <1>1, <1>3, <1>4, <2>1, <2>2
<1> QED
  BY <1>5, <1>6

(* After a use, the entry used is the youngest, the others keep their      *)
(* order, and the next age is younger than all, wrapped or not.            *)
LEMMA AgedOrder ==
    ASSUME NEW ages \in [Way -> Age], NEW current \in Age, NEW way \in Way,
           Associativity <= current,
           \A v \in Way : ages[v] < current,
           \A v, w \in Way : v # w => ages[v] # ages[w]
    PROVE  LET aged == Aged(ages, way, current)
           IN  /\ aged[1] \in [Way -> Age]
               /\ aged[2] \in Age
               /\ Associativity <= aged[2]
               /\ \A v \in Way : aged[1][v] < aged[2]
               /\ \A v, w \in Way : v # w => aged[1][v] # aged[1][w]
               /\ \A v, w \in Way :
                     aged[1][v] < aged[1][w] <=> v # way /\ (w = way \/ ages[v] < ages[w])
<1> DEFINE touched == [ages EXCEPT ![way] = current]
           next == (current + 1) % AgeLimit
           aged == Aged(ages, way, current)
<1>1. /\ touched \in [Way -> Age] /\ touched \in [Way -> Nat]
      /\ \A v \in Way : touched[v] = IF v = way THEN current ELSE ages[v]
  BY DEF Age
<1>2. \A v, w \in Way :
          touched[v] < touched[w] <=> v # way /\ (w = way \/ ages[v] < ages[w])
  BY <1>1 DEF Age
<1>3. \A v, w \in Way : v # w => touched[v] < touched[w] \/ touched[w] < touched[v]
  BY <1>1 DEF Age
<1>4. current \in Nat /\ current + 1 <= AgeLimit
  BY DEF Age
<1>5. \/ current + 1 = AgeLimit /\ next = 0
      \/ current + 1 < AgeLimit /\ next = current + 1
  BY <1>4
<1>6. CASE next = 0
  <2>1. aged = <<scaleDownAges(touched), Associativity>>
    BY <1>6 DEF Aged
  <2> DEFINE ranks == scaleDownAges(touched)
  <2>2. /\ ranks \in [Way -> 0..(Associativity - 1)]
        /\ \A v, w \in Way : ranks[v] < ranks[w] <=> touched[v] < touched[w]
    BY <1>1, RanksKeepOrder
  <2> HIDE DEF ranks
  <2>3. /\ ranks \in [Way -> Age]
        /\ \A v \in Way : ranks[v] \in Nat /\ ranks[v] < Associativity
    BY <2>2 DEF Age
  <2>4. Associativity \in Age
    BY DEF Age
  <2> HIDE DEF touched
  <2>5. aged[1] = ranks /\ aged[2] = Associativity
    BY <2>1 DEF ranks
  <2> HIDE DEF aged
  <2>6. \A v, w \in Way : v # w => ranks[v] # ranks[w]
    BY <1>3, <2>2, <2>3
  <2>7. \A v, w \in Way : ranks[v] < ranks[w] <=> v # way /\ (w = way \/ ages[v] < ages[w])
    BY <1>2, <2>2
  <2> QED
    BY <2>3, <2>4, <2>5, <2>6, <2>7 DEF aged
<1>7. CASE next = current + 1 /\ current + 1 < AgeLimit
  <2>1. aged = <<touched, current + 1>>
    <3>1. (current + 1) % AgeLimit # 0
      BY <1>4, <1>7
    <3> QED
      BY <1>7, <3>1 DEF Aged
  <2>2. current + 1 \in Age /\ Associativity <= current + 1
    BY <1>4, <1>7 DEF Age
  <2>3. \A v \in Way : touched[v] < current + 1
    BY <1>1 DEF Age
  <2>4. \A v, w \in Way : v # w => touched[v] # touched[w]
    BY <1>1, <1>3
  <2> HIDE DEF touched
  <2>5. aged[1] = touched /\ aged[2] = current + 1
    BY <2>1
  <2> HIDE DEF aged
  <2> QED
    BY <1>1, <1>2, <2>2, <2>3, <2>4, <2>5 DEF aged
<1> QED
  BY <1>5, <1>6, <1>7

-----------------------------------------------------------------------------
(* The inductive invariant.                                                *)

(* An empty cache satisfies the inductive invariant.                       *)
LEMMA InvInit == Init => IInv
<1> SUFFICES ASSUME Init PROVE IInv
  OBVIOUS
<1>1. TypeOK
  <2>1. Way \subseteq Age /\ Associativity \in Age
    BY DEF Way, Age
  <2>2. [way \in Way |-> NoLine] \in [Way -> Line \cup {NoLine}]
    OBVIOUS
  <2>3. [way \in Way |-> way] \in [Way -> Age]
    BY <2>1
  <2>4. [l \in Line |-> {}] \in [Line -> SUBSET Line]
    OBVIOUS
  <2> QED
    BY <2>1, <2>2, <2>3, <2>4 DEF Init, TypeOK
<1>2. AgesOrdered /\ EmptyIsOldest /\ TagsFit /\ SinceIsYounger
  BY DEF Init, AgesOrdered, EmptyIsOldest, TagsFit, SinceIsYounger, Way, Row
<1>3. SinceFinite /\ EvictedIsFar
  BY FS_EmptySet DEF Init, SinceFinite, EvictedIsFar
<1> QED
  BY <1>1, <1>2, <1>3 DEF IInv

(* What an access does, with the arrays of its row named.                  *)
LEMMA AccessEffect ==
    ASSUME IInv, NEW line \in Line, NEW way \in Way, onMemoryAccess(line, way)
    PROVE  LET row == getRow(line)
               tags == tagLineVirtIndex[row]
               ages == tagLineAge[row]
           IN  /\ row \in Row
               /\ tagLineVirtIndex' = [tagLineVirtIndex EXCEPT ![row] = [tags EXCEPT ![way] = line]]
               /\ \A v \in Way : tagLineVirtIndex'[row][v] = IF v = way THEN line ELSE tags[v]
               /\ \A r \in Row \ {row} : /\ tagLineVirtIndex'[r] = tagLineVirtIndex[r]
                                         /\ tagLineAge'[r] = tagLineAge[r]
                                         /\ tagCurrentAge'[r] = tagCurrentAge[r]
               /\ tagLineAge' \in [Row -> [Way -> Age]]
               /\ tagCurrentAge' \in [Row -> Age]
               /\ Associativity <= tagCurrentAge'[row]
               /\ \A v \in Way : tagLineAge'[row][v] < tagCurrentAge'[row]
               /\ \A v, w \in Way : v # w => tagLineAge'[row][v] # tagLineAge'[row][w]
               /\ \A v, w \in Way : tagLineAge'[row][v] < tagLineAge'[row][w]
                                        <=> v # way /\ (w = way \/ ages[v] < ages[w])
<1> DEFINE row == getRow(line)
           tags == tagLineVirtIndex[row]
           ages == tagLineAge[row]
           aged == Aged(ages, way, tagCurrentAge[row])
<1>1. row \in Row
  BY RowType
<1>2. /\ tagLineVirtIndex' = [tagLineVirtIndex EXCEPT ![row][way] = line]
      /\ tagLineAge' = [tagLineAge EXCEPT ![row] = aged[1]]
      /\ tagCurrentAge' = [tagCurrentAge EXCEPT ![row] = aged[2]]
  BY DEF onMemoryAccess
<1>3. /\ tagLineVirtIndex \in [Row -> [Way -> Line \cup {NoLine}]]
      /\ tagLineAge \in [Row -> [Way -> Age]]
      /\ tagCurrentAge \in [Row -> Age]
  BY DEF IInv, TypeOK
<1>4. /\ ages \in [Way -> Age]
      /\ tagCurrentAge[row] \in Age
      /\ Associativity <= tagCurrentAge[row]
      /\ \A v \in Way : ages[v] < tagCurrentAge[row]
      /\ \A v, w \in Way : v # w => ages[v] # ages[w]
  BY <1>1, <1>3 DEF IInv, AgesOrdered
<1>5. /\ aged[1] \in [Way -> Age]
      /\ aged[2] \in Age
      /\ Associativity <= aged[2]
      /\ \A v \in Way : aged[1][v] < aged[2]
      /\ \A v, w \in Way : v # w => aged[1][v] # aged[1][w]
      /\ \A v, w \in Way :
            aged[1][v] < aged[1][w] <=> v # way /\ (w = way \/ ages[v] < ages[w])
  BY <1>4, AgedOrder
<1> HIDE DEF aged, row
<1>6. tagLineVirtIndex' = [tagLineVirtIndex EXCEPT ![row] = [tags EXCEPT ![way] = line]]
  BY <1>2
<1>7. \A v \in Way : tagLineVirtIndex'[row][v] = IF v = way THEN line ELSE tags[v]
  BY <1>1, <1>3, <1>6
<1>8. \A r \in Row \ {row} : /\ tagLineVirtIndex'[r] = tagLineVirtIndex[r]
                             /\ tagLineAge'[r] = tagLineAge[r]
                             /\ tagCurrentAge'[r] = tagCurrentAge[r]
  BY <1>2, <1>3, <1>6
<1>9. tagLineAge'[row] = aged[1] /\ tagCurrentAge'[row] = aged[2]
  BY <1>1, <1>2, <1>3
<1>10. tagLineAge' \in [Row -> [Way -> Age]] /\ tagCurrentAge' \in [Row -> Age]
  BY <1>2, <1>3, <1>5
<1> QED
  BY <1>1, <1>5, <1>6, <1>7, <1>8, <1>9, <1>10 DEF row

(* The entry chosen holds the line already, or the line is in no entry and *)
(* the entry is the oldest.                                                *)
LEMMA ChosenEntry ==
    ASSUME IInv, NEW line \in Line, NEW way \in Way, onMemoryAccess(line, way)
    PROVE  LET tags == tagLineVirtIndex[getRow(line)]
               ages == tagLineAge[getRow(line)]
           IN  \/ tags[way] = line
               \/ /\ \A v \in Way : tags[v] # line
                  /\ \A v \in Way \ {way} : ages[way] < ages[v]
<1> DEFINE row == getRow(line)
           tags == tagLineVirtIndex[row]
           ages == tagLineAge[row]
<1>1. row \in Row
  BY RowType
<1>2. /\ ages \in [Way -> Age]
      /\ \A v, w \in Way : v # w => ages[v] # ages[w]
  BY <1>1 DEF IInv, TypeOK, AgesOrdered
<1>3. Chosen(tags, ages, line, way)
  BY DEF onMemoryAccess
<1> HIDE DEF row, tags, ages
<1>4. CASE \E v \in Way : tags[v] = line
  BY <1>3, <1>4 DEF Chosen, row, tags, ages
<1>5. CASE \A v \in Way : tags[v] # line
  <2>1. \A v \in Way : ages[way] <= ages[v]
    BY <1>2, <1>3, <1>5 DEF Chosen, selectVictim, Age, Way
  <2>2. \A v \in Way \ {way} : ages[way] < ages[v]
    BY <1>2, <2>1 DEF Age
  <2> QED
    BY <1>5, <2>2 DEF row, tags, ages
<1> QED
  BY <1>4, <1>5

(* What an access does to the history.                                     *)
LEMMA HistoryEffect ==
    ASSUME IInv, NEW line \in Line, NEW way \in Way, onMemoryAccess(line, way)
    PROVE  /\ used' = used \cup {line}
           /\ since' \in [Line -> SUBSET Line]
           /\ \A k \in Line :
                 since'[k] = IF k = line THEN {}
                             ELSE IF k \in used /\ getRow(k) = getRow(line)
                                  THEN since[k] \cup {line}
                             ELSE since[k]
<1>1. /\ used' = used \cup {line}
      /\ since' = [k \in Line |->
                     IF k = line THEN {}
                     ELSE IF k \in used /\ SameRow(k, line) THEN since[k] \cup {line}
                     ELSE since[k]]
  BY DEF onMemoryAccess, Lru!Use
<1>2. since \in [Line -> SUBSET Line]
  BY DEF IInv, TypeOK
<1> QED
  BY <1>1, <1>2 DEF SameRow

(* Each conjunct of the invariant after an access.                         *)

(* An access keeps the types.                                              *)
LEMMA TypeKept ==
    ASSUME IInv, NEW line \in Line, NEW way \in Way, onMemoryAccess(line, way)
    PROVE  TypeOK'
<1> DEFINE row == getRow(line)
           tags == [tagLineVirtIndex[row] EXCEPT ![way] = line]
<1>1. tagLineVirtIndex \in [Row -> [Way -> Line \cup {NoLine}]] /\ used \in SUBSET Line
  BY DEF IInv, TypeOK
<1>2. row \in Row /\ tagLineVirtIndex' = [tagLineVirtIndex EXCEPT ![row] = tags]
  BY AccessEffect
<1>3. tags \in [Way -> Line \cup {NoLine}]
  BY <1>1, <1>2
<1> HIDE DEF row, tags
<1>4. tagLineVirtIndex' \in [Row -> [Way -> Line \cup {NoLine}]]
  BY <1>1, <1>2, <1>3
<1>5. hit' \in BOOLEAN
  BY DEF onMemoryAccess
<1>6. tagLineAge' \in [Row -> [Way -> Age]] /\ tagCurrentAge' \in [Row -> Age]
  BY AccessEffect
<1>7. used' \in SUBSET Line /\ since' \in [Line -> SUBSET Line]
  BY <1>1, HistoryEffect
<1> QED
  BY <1>4, <1>5, <1>6, <1>7 DEF TypeOK

(* The date of a row stays above the ages of its ways.                     *)
LEMMA AgesOrderedKept ==
    ASSUME IInv, NEW line \in Line, NEW way \in Way, onMemoryAccess(line, way)
    PROVE  AgesOrdered'
<1> SUFFICES ASSUME NEW r \in Row
             PROVE  /\ Associativity <= tagCurrentAge'[r]
                    /\ \A v \in Way : tagLineAge'[r][v] < tagCurrentAge'[r]
                    /\ \A v, w \in Way : v # w => tagLineAge'[r][v] # tagLineAge'[r][w]
  BY DEF AgesOrdered
<1>1. CASE r = getRow(line)
  BY <1>1, AccessEffect
<1>2. CASE r # getRow(line)
  BY <1>2, AccessEffect DEF IInv, AgesOrdered
<1> QED
  BY <1>1, <1>2

(* A way never used stays older than the ways that were.                   *)
LEMMA EmptyIsOldestKept ==
    ASSUME IInv, NEW line \in Line, NEW way \in Way, onMemoryAccess(line, way)
    PROVE  EmptyIsOldest'
<1> SUFFICES ASSUME NEW r \in Row, NEW v \in Way, NEW w \in Way,
                    tagLineVirtIndex'[r][v] = NoLine, tagLineVirtIndex'[r][w] # NoLine
             PROVE  tagLineAge'[r][v] < tagLineAge'[r][w]
  BY DEF EmptyIsOldest
<1>1. CASE r = getRow(line)
  <2>1. v # way /\ tagLineVirtIndex[r][v] = NoLine
    BY <1>1, AccessEffect DEF NoLine
  <2>2. w = way \/ tagLineVirtIndex[r][w] # NoLine
    BY <1>1, AccessEffect
  <2>3. w = way \/ tagLineAge[r][v] < tagLineAge[r][w]
    BY <2>1, <2>2 DEF IInv, EmptyIsOldest
  <2> QED
    BY <1>1, <2>1, <2>3, AccessEffect
<1>2. CASE r # getRow(line)
  BY <1>2, AccessEffect DEF IInv, EmptyIsOldest
<1> QED
  BY <1>1, <1>2

(* No line gets into two ways, nor into a row that is not its own.         *)
LEMMA TagsFitKept ==
    ASSUME IInv, NEW line \in Line, NEW way \in Way, onMemoryAccess(line, way)
    PROVE  TagsFit'
<1> DEFINE row == getRow(line)
           Tag(r, v) == tagLineVirtIndex[r][v]
<1>1. used' = used \cup {line}
  BY HistoryEffect
<1>2. /\ \A r \in Row, v \in Way : Tag(r, v) # NoLine => Tag(r, v) \in used /\ getRow(Tag(r, v)) = r
      /\ \A r \in Row, v, w \in Way : Tag(r, v) # NoLine /\ Tag(r, v) = Tag(r, w) => v = w
  BY DEF IInv, TagsFit
<1>3. ASSUME NEW r \in Row, NEW v \in Way, tagLineVirtIndex'[r][v] # NoLine
      PROVE  tagLineVirtIndex'[r][v] \in used' /\ getRow(tagLineVirtIndex'[r][v]) = r
  <2>1. CASE r = row
    BY <1>1, <1>2, <1>3, <2>1, AccessEffect
  <2>2. CASE r # row
    BY <1>1, <1>2, <1>3, <2>2, AccessEffect
  <2> QED
    BY <2>1, <2>2
<1>4. ASSUME NEW r \in Row, NEW v \in Way, NEW w \in Way,
             tagLineVirtIndex'[r][v] # NoLine,
             tagLineVirtIndex'[r][v] = tagLineVirtIndex'[r][w]
      PROVE  v = w
  <2>1. CASE r = row
    <3>1. \A u \in Way : tagLineVirtIndex'[r][u] = IF u = way THEN line ELSE Tag(r, u)
      BY <2>1, AccessEffect
    <3>2. ASSUME NEW u \in Way, Tag(r, u) = line
          PROVE  u = way
      <4>1. Tag(row, way) = line
        BY <2>1, <3>2, ChosenEntry
      <4> QED
        BY <1>2, <2>1, <3>2, <4>1 DEF NoLine
    <3> QED
      BY <1>2, <1>4, <3>1, <3>2
  <2>2. CASE r # row
    BY <1>2, <1>4, <2>2, AccessEffect
  <2> QED
    BY <2>1, <2>2
<1> QED
  BY <1>3, <1>4 DEF TagsFit

(* The lines used since one that is cached stay those that are younger in  *)
(* its row.                                                                *)
LEMMA SinceIsYoungerKept ==
    ASSUME IInv, NEW line \in Line, NEW way \in Way, onMemoryAccess(line, way)
    PROVE  SinceIsYounger'
<1> SUFFICES ASSUME NEW r \in Row, NEW w \in Way, tagLineVirtIndex'[r][w] # NoLine
             PROVE  since'[tagLineVirtIndex'[r][w]] =
                        {tagLineVirtIndex'[r][v] :
                            v \in {u \in Way : tagLineAge'[r][w] < tagLineAge'[r][u]}}
  BY DEF SinceIsYounger
<1> DEFINE row == getRow(line)
           tags == tagLineVirtIndex[r]
           ages == tagLineAge[r]
           Younger == {u \in Way : ages[w] < ages[u]}
           YoungerNow == {u \in Way : tagLineAge'[r][w] < tagLineAge'[r][u]}
           k == tagLineVirtIndex'[r][w]
<1>1. TypeOK /\ TypeOK'
  BY TypeKept DEF IInv
<1>2. k \in Line
  BY <1>1 DEF TypeOK
<1>3. ASSUME w # way \/ r # row
      PROVE  /\ tags[w] = k
             /\ k # line
             /\ k \in used
             /\ getRow(k) = r
             /\ since[k] = {tags[v] : v \in Younger}
  <2>1. tags[w] = k
    BY <1>3, AccessEffect
  <2>2. k \in used /\ getRow(k) = r /\ since[k] = {tags[v] : v \in Younger}
    BY <2>1 DEF IInv, TagsFit, SinceIsYounger
  <2>3. k # line
    <3>1. CASE r # row
      BY <2>2, <3>1
    <3>2. CASE r = row /\ w # way
      BY <3>2, AccessEffect, TagsFitKept DEF TagsFit
    <3> QED
      BY <1>3, <3>1, <3>2
  <2> QED
    BY <2>1, <2>2, <2>3
<1>4. since'[k] = IF k = line THEN {}
                  ELSE IF k \in used /\ getRow(k) = row THEN since[k] \cup {line}
                  ELSE since[k]
  <2> HIDE DEF k
  <2> QED
    BY <1>2, HistoryEffect
<1>5. CASE r # row
  <2>1. since'[k] = since[k]
    BY <1>3, <1>5, <1>4
  <2>2. tagLineVirtIndex'[r] = tags /\ tagLineAge'[r] = ages
    BY <1>5, AccessEffect
  <2> QED
    BY <1>3, <1>5, <2>1, <2>2
<1>6. CASE r = row /\ w = way
  <2>1. k = line /\ since'[k] = {}
    BY <1>6, <1>4, AccessEffect
  <2>2. \A u \in Way : ~(tagLineAge'[r][w] < tagLineAge'[r][u])
    <3> SUFFICES ASSUME NEW u \in Way, tagLineAge'[r][w] < tagLineAge'[r][u]
                 PROVE  FALSE
      OBVIOUS
    <3> QED
      BY <1>6, AccessEffect
  <2> QED
    BY <2>1, <2>2
<1>7. CASE r = row /\ w # way
  <2>1. since'[k] = {tags[v] : v \in Younger} \cup {line}
    BY <1>3, <1>7, <1>4
  <2>2. \A v \in Way : tagLineVirtIndex'[r][v] = IF v = way THEN line ELSE tags[v]
    BY <1>7, AccessEffect
  <2>3. YoungerNow = Younger \cup {way}
    BY <1>7, AccessEffect
  <2>4. way \in Younger => tags[way] = line
    <3> SUFFICES ASSUME ages[w] < ages[way], tags[way] # line
                 PROVE  FALSE
      OBVIOUS
    <3>1. ages[way] < ages[w]
      BY <1>7, ChosenEntry
    <3>2. ages[way] \in Nat /\ ages[w] \in Nat
      BY <1>1 DEF TypeOK, Age
    <3> QED
      BY <3>1, <3>2
  <2> HIDE DEF tags, ages, Younger, YoungerNow, k
  <2>5. {tagLineVirtIndex'[r][v] : v \in YoungerNow} = {tags[v] : v \in Younger} \cup {line}
    <3>1. ASSUME NEW v \in YoungerNow
          PROVE  tagLineVirtIndex'[r][v] \in {tags[u] : u \in Younger} \cup {line}
      BY <2>2, <2>3, <3>1 DEF Younger
    <3>2. ASSUME NEW v \in Younger
          PROVE  tags[v] \in {tagLineVirtIndex'[r][u] : u \in YoungerNow}
      BY <2>2, <2>3, <2>4 DEF Younger
    <3>3. line \in {tagLineVirtIndex'[r][u] : u \in YoungerNow}
      BY <2>2, <2>3
    <3> QED
      BY <3>1, <3>2, <3>3
  <2> QED
    BY <2>1, <2>5 DEF YoungerNow, k
<1> QED
  BY <1>5, <1>6, <1>7

(* Finitely many lines were used since each one.                           *)
LEMMA SinceFiniteKept ==
    ASSUME IInv, NEW line \in Line, NEW way \in Way, onMemoryAccess(line, way)
    PROVE  SinceFinite'
<1>1. ASSUME NEW k \in Line
      PROVE  IsFiniteSet(since'[k])
  <2>1. IsFiniteSet(since[k])
    BY DEF IInv, SinceFinite
  <2>2. IsFiniteSet(since[k] \cup {line}) /\ IsFiniteSet({})
    BY <2>1, FS_AddElement, FS_EmptySet
  <2> QED
    BY <2>1, <2>2, HistoryEffect
<1> QED
  BY <1>1 DEF SinceFinite

(* A line that leaves its entry has seen every other entry used since, and *)
(* the line that takes the entry.                                          *)
LEMMA EvictedSize ==
    ASSUME IInv, NEW line \in Line, NEW way \in Way, onMemoryAccess(line, way),
           NEW k \in Line, k # line,
           getRow(k) = getRow(line), tagLineVirtIndex[getRow(line)][way] = k
    PROVE  Cardinality(since'[k]) = Associativity
<1> DEFINE row == getRow(line)
           tags == tagLineVirtIndex[row]
           ages == tagLineAge[row]
           tagsNow == tagLineVirtIndex'[row]
<1>1. row \in Row /\ k # NoLine
  BY RowType DEF NoLine
<1>2. \A v \in Way \ {way} : ages[way] < ages[v]
  BY ChosenEntry
<1>3. /\ ages \in [Way -> Age]
      /\ \A v \in Way \ {way} : ~(ages[v] < ages[way])
      /\ ~(ages[way] < ages[way])
  BY <1>1, <1>2 DEF IInv, TypeOK, Age
<1>4. \A v \in Way : tagsNow[v] = IF v = way THEN line ELSE tags[v]
  BY AccessEffect
<1>5. since'[k] = since[k] \cup {line}
  BY <1>1, HistoryEffect DEF IInv, TagsFit
<1>6. since[k] = {tags[v] : v \in {u \in Way : ages[way] < ages[u]}}
  BY <1>1 DEF IInv, SinceIsYounger
<1>7. {u \in Way : ages[way] < ages[u]} = Way \ {way}
  BY <1>2, <1>3
<1> HIDE DEF tags, ages, tagsNow
<1>8. since'[k] = {tagsNow[v] : v \in Way}
  <2>1. since'[k] = {tags[v] : v \in Way \ {way}} \cup {line}
    BY <1>5, <1>6, <1>7
  <2>2. {tagsNow[v] : v \in Way} = {tags[v] : v \in Way \ {way}} \cup {line}
    BY <1>4
  <2> QED
    BY <2>1, <2>2
<1>9. \A v \in Way : tagsNow[v] # NoLine
  <2>1. \A v \in Way \ {way} : tags[v] # NoLine
    BY <1>1, <1>3 DEF IInv, EmptyIsOldest, tags, ages
  <2> QED
    BY <1>4, <2>1 DEF NoLine
<1>10. \A v, w \in Way : tagsNow[v] = tagsNow[w] => v = w
  BY <1>1, <1>9, TagsFitKept DEF TagsFit, tagsNow
<1>11. Cardinality({tagsNow[v] : v \in Way}) = Cardinality(Way)
  BY <1>10, ImageSize, Way \in SUBSET Way
<1> QED
  BY <1>8, <1>11, WayFinite

(* A line that an access evicts has Associativity other lines of its row   *)
(* used since it.                                                          *)
LEMMA EvictedIsFarKept ==
    ASSUME IInv, NEW line \in Line, NEW way \in Way, onMemoryAccess(line, way)
    PROVE  EvictedIsFar'
<1> DEFINE row == getRow(line)
<1> SUFFICES ASSUME NEW k \in used',
                    \A v \in Way : tagLineVirtIndex'[getRow(k)][v] # k
             PROVE  Associativity <= Cardinality(since'[k])
  BY DEF EvictedIsFar, Cached
<1>1. used \subseteq Line
  BY DEF IInv, TypeOK
<1>2. k \in used /\ k # line /\ k \in Line
  BY <1>1, HistoryEffect, AccessEffect
<1>3. CASE Cached(k)
  <2>1. PICK v \in Way : tagLineVirtIndex[getRow(k)][v] = k
    BY <1>3 DEF Cached
  <2>2. getRow(k) \in Row
    BY <1>2, RowType
  <2>3. getRow(k) = row /\ v = way
    BY <2>1, <2>2, AccessEffect
  <2>4. Cardinality(since'[k]) = Associativity
    BY <1>2, <2>1, <2>3, EvictedSize
  <2> QED
    BY <2>4
<1>4. CASE ~Cached(k)
  <2>1. Associativity <= Cardinality(since[k])
    BY <1>2, <1>4 DEF IInv, EvictedIsFar
  <2>2. since[k] \subseteq since'[k]
    <3>1. since'[k] = since[k] \cup {line} \/ since'[k] = since[k]
      BY <1>2, HistoryEffect
    <3> QED
      BY <3>1
  <2>3. IsFiniteSet(since'[k]) /\ IsFiniteSet(since[k])
    BY <1>2, SinceFiniteKept DEF SinceFinite, IInv
  <2>4. Cardinality(since[k]) <= Cardinality(since'[k])
    BY <2>2, <2>3, FS_Subset
  <2>5. Cardinality(since[k]) \in Nat /\ Cardinality(since'[k]) \in Nat
    BY <2>3, FS_CardinalityType
  <2> QED
    BY <2>1, <2>4, <2>5
<1> QED
  BY <1>3, <1>4

(* Each step keeps the inductive invariant.                                *)
LEMMA InvNext == IInv /\ [Next]_vars => IInv'
<1> SUFFICES ASSUME IInv, [Next]_vars PROVE IInv'
  OBVIOUS
<1>1. ASSUME NEW line \in Line, NEW way \in Way, onMemoryAccess(line, way)
      PROVE  IInv'
  BY <1>1, TypeKept, AgesOrderedKept, EmptyIsOldestKept, TagsFitKept,
     SinceIsYoungerKept, SinceFiniteKept, EvictedIsFarKept DEF IInv
<1>2. CASE UNCHANGED vars
  BY <1>2 DEF vars, IInv, TypeOK, AgesOrdered, EmptyIsOldest, TagsFit, SinceIsYounger,
     SinceFinite, EvictedIsFar, Cached
<1> QED
  BY <1>1, <1>2 DEF Next

(* The inductive invariant holds in every state.                           *)
LEMMA InvAlways == Spec => []IInv
BY InvInit, InvNext, PTL DEF Spec

-----------------------------------------------------------------------------
(* The results.                                                            *)

(* Every variable of the cache keeps its type: the age counter of a row    *)
(* never leaves its range.                                                 *)
THEOREM TypeCorrect == Spec => []TypeOK
<1>1. IInv => TypeOK
  BY DEF IInv
<1> QED
  BY <1>1, InvAlways, PTL

(* The ages of a row order its entries by their last use, however often    *)
(* the counter of the row has wrapped (AgesAreRecency).                    *)
LEMMA InvRecency == IInv => AgesAreRecency
<1> SUFFICES ASSUME IInv, NEW row \in Row, NEW v \in Way, NEW w \in Way
             PROVE  LET tags == tagLineVirtIndex[row]
                        ages == tagLineAge[row]
                    IN  /\ ages[v] < tagCurrentAge[row]
                        /\ v # w => ages[v] # ages[w]
                        /\ tags[v] = NoLine /\ tags[w] # NoLine => ages[v] < ages[w]
                        /\ tags[v] # NoLine /\ tags[w] # NoLine =>
                               (ages[v] < ages[w] <=> tags[w] \in since[tags[v]])
  BY DEF AgesAreRecency
<1> DEFINE tags == tagLineVirtIndex[row]
           ages == tagLineAge[row]
<1>1. /\ ages[v] < tagCurrentAge[row]
      /\ v # w => ages[v] # ages[w]
      /\ tags[v] = NoLine /\ tags[w] # NoLine => ages[v] < ages[w]
  BY DEF IInv, AgesOrdered, EmptyIsOldest
<1>2. ASSUME tags[v] # NoLine, tags[w] # NoLine
      PROVE  ages[v] < ages[w] <=> tags[w] \in since[tags[v]]
  <2>1. since[tags[v]] = {tags[u] : u \in {x \in Way : ages[v] < ages[x]}}
    BY <1>2 DEF IInv, SinceIsYounger
  <2>2. \A u \in Way : tags[u] = tags[w] => u = w
    BY <1>2 DEF IInv, TagsFit
  <2> QED
    BY <2>1, <2>2
<1> QED
  BY <1>1, <1>2

(* AgesAreRecency is an invariant: the ages of a row order its lines as    *)
(* their last uses, the scaling included.                                  *)
THEOREM AgesOrderByLastUse == Spec => []AgesAreRecency
BY InvAlways, InvRecency, PTL

(* A line is in the cache just when LRU would have it there.               *)
LEMMA CachedIsNear ==
    ASSUME IInv, NEW line \in Line
    PROVE  (\E v \in Way : tagLineVirtIndex[getRow(line)][v] = line) <=> Lru!Near(line)
<1> DEFINE row == getRow(line)
           tags == tagLineVirtIndex[row]
           ages == tagLineAge[row]
<1>1. row \in Row /\ line # NoLine
  BY RowType DEF NoLine
<1>2. IsFiniteSet(since[line]) /\ Cardinality(since[line]) \in Nat
  BY FS_CardinalityType DEF IInv, SinceFinite
<1>3. ASSUME NEW v \in Way, tags[v] = line
      PROVE  line \in used /\ Cardinality(since[line]) < Associativity
  <2> DEFINE younger == {u \in Way : ages[v] < ages[u]}
  <2>1. line \in used
    BY <1>1, <1>3 DEF IInv, TagsFit
  <2>2. since[line] = {tags[u] : u \in younger}
    BY <1>1, <1>3 DEF IInv, SinceIsYounger
  <2>3. younger \subseteq Way \ {v}
    BY <1>1 DEF IInv, TypeOK, Age
  <2>4. IsFiniteSet(Way \ {v}) /\ Cardinality(Way \ {v}) = Associativity - 1
    BY WayFinite, FS_RemoveElement
  <2> HIDE DEF younger, tags
  <2>5. IsFiniteSet(younger) /\ Cardinality(younger) <= Associativity - 1
    BY <2>3, <2>4, FS_Subset
  <2>6. Cardinality(since[line]) <= Cardinality(younger)
    BY <2>2, <2>3, ImageSize
  <2>7. Cardinality(younger) \in Nat
    BY <2>5, FS_CardinalityType
  <2> QED
    BY <1>2, <2>1, <2>5, <2>6, <2>7
<1>4. ASSUME line \in used, Cardinality(since[line]) < Associativity
      PROVE  \E v \in Way : tags[v] = line
  BY <1>2, <1>4 DEF IInv, EvictedIsFar, Cached
<1>5. Lru!Cardinality(since[line]) = Cardinality(since[line])
  BY DEF Lru!Cardinality, Cardinality
<1> QED
  BY <1>3, <1>4, <1>5 DEF Lru!Near

(* "one L1 cache per thread (32K by default) with LRU replacement policy"  *)
(* (README.md:222): the cache implements LRU, for every size, every        *)
(* associativity an age can count and every sequence of accesses.          *)
THEOREM ImplementsLru == Spec => LruSpec
<1>1. Init => Lru!Init
  BY DEF Init, Lru!Init
<1>2. IInv /\ [Next]_vars => [Lru!Next]_<<used, since, hit>>
  <2> SUFFICES ASSUME IInv, [Next]_vars
               PROVE  [Lru!Next]_<<used, since, hit>>
    OBVIOUS
  <2>1. ASSUME NEW line \in Line, NEW way \in Way, onMemoryAccess(line, way)
        PROVE  Lru!Access(line)
    <3>1. hit' = \E v \in Way : tagLineVirtIndex[getRow(line)][v] = line
      BY <2>1 DEF onMemoryAccess
    <3>2. Lru!Use(line)
      BY <2>1 DEF onMemoryAccess
    <3>3. hit' = Lru!Near(line)
      BY <3>1, CachedIsNear DEF Lru!Near
    <3> QED
      BY <3>2, <3>3 DEF Lru!Access
  <2>2. CASE UNCHANGED vars
    BY <2>2 DEF vars
  <2> QED
    BY <2>1, <2>2 DEF Next, Lru!Next
<1> QED
  BY <1>1, <1>2, InvAlways, PTL DEF Spec, LruSpec, Lru!Spec

-----------------------------------------------------------------------------
(* The loop that scales the ages down.                                     *)

(* Among finite sets there is one that contains no other: the form of      *)
(* induction on their size that is used here.                              *)
LEMMA SmallestSubset ==
    ASSUME NEW S, NEW T, T # {}, \A U \in T : U \subseteq S /\ IsFiniteSet(U)
    PROVE  \E U \in T : \A V \in T : V \subseteq U => V = U
<1>1. T \subseteq FiniteSubsetsOf(S)
  BY DEF FiniteSubsetsOf
<1>2. PICK U \in T : \A V \in T : ~ (<<V, U>> \in StrictSubsetOrdering(S))
  <2> HIDE DEF StrictSubsetOrdering, FiniteSubsetsOf
  <2> QED BY <1>1, FS_StrictSubsetOrderingWellFounded, WFMin
<1> QED
  BY <1>2 DEF StrictSubsetOrdering

(* A set of naturals that is not empty has a least element.                *)
LEMMA LeastNatural ==
    ASSUME NEW T \in SUBSET Nat, T # {}
    PROVE  \E n \in T : \A m \in T : n <= m
<1> DEFINE Below == {0 .. n - 1 : n \in T}
<1>1. \A U \in Below : U \subseteq Nat /\ IsFiniteSet(U)
  <2> TAKE U \in Below
  <2>1. PICK n \in T : U = 0 .. n - 1
    OBVIOUS
  <2>2. 0 \in Int /\ n - 1 \in Int
    OBVIOUS
  <2> QED BY <2>1, <2>2, FS_Interval
<1>2. Below # {}
  OBVIOUS
<1>3. PICK U \in Below : \A V \in Below : V \subseteq U => V = U
  <2> HIDE DEF Below
  <2> QED BY ONLY <1>1, <1>2, SmallestSubset
<1>4. PICK n \in T : U = 0 .. n - 1
  OBVIOUS
<1>5. ASSUME NEW m \in T, m < n PROVE FALSE
  <2>1. 0 .. m - 1 \in Below /\ 0 .. m - 1 \subseteq U
    BY <1>4, <1>5
  <2>2. m \in U
    BY <1>4, <1>5
  <2>3. m \notin 0 .. m - 1
    BY <1>4
  <2> QED BY <1>3, <2>1, <2>2, <2>3
<1> QED
  BY <1>5

Distinct(ages) == \A v, w \in Way : v # w => ages[v] # ages[w]

Ascending(ages, order) ==
    \A i, j \in 1..Associativity : i < j => ages[order[i]] <= ages[order[j]]

(* Each rank below the associativity is that of one entry.                 *)
LEMMA RanksFill ==
    ASSUME NEW ages \in [Way -> Nat], Distinct(ages)
    PROVE  scaleDownAges(ages) \in Bijection(Way, Way)
<1> DEFINE ranks == scaleDownAges(ages)
<1>1. ranks \in [Way -> Way] /\ \A v, w \in Way : ranks[v] < ranks[w] <=> ages[v] < ages[w]
  BY RanksKeepOrder DEF Way
<1> HIDE DEF ranks
<1>2. ASSUME NEW v \in Way, NEW w \in Way, ranks[v] = ranks[w]
      PROVE  v = w
  <2>1. ranks[v] \in Nat /\ ages[v] \in Nat /\ ages[w] \in Nat
    BY <1>1, WayFinite
  <2>2. ~(ages[v] < ages[w]) /\ ~(ages[w] < ages[v])
    BY <1>1, <1>2, <2>1
  <2> QED
    BY <2>1, <2>2 DEF Distinct
<1>3. ranks \in Injection(Way, Way)
  BY <1>1, <1>2 DEF Injection, IsInjective
<1>4. ranks \in Surjection(Way, Way)
  BY ONLY <1>3, FS_Injection, WayFinite
<1> QED
  BY <1>3, <1>4 DEF Bijection, ranks

(* A rank is at most the age: the smaller ages are below it.               *)
LEMMA RankBelowAge ==
    ASSUME NEW ages \in [Way -> Nat], Distinct(ages), NEW w \in Way
    PROVE  scaleDownAges(ages)[w] <= ages[w]
<1> DEFINE older == {v \in Way : ages[v] < ages[w]}
           smaller == {ages[v] : v \in older}
<1>1. scaleDownAges(ages)[w] = Cardinality(older)
  BY DEF scaleDownAges
<1>2. older \in SUBSET Way /\ \A u, v \in older : ages[u] = ages[v] => u = v
  BY DEF Distinct
<1>3. smaller \subseteq 0..(ages[w] - 1)
  OBVIOUS
<1> HIDE DEF older
<1>4. Cardinality(smaller) = Cardinality(older)
  BY <1>2, ImageSize
<1>5. 0 \in Int /\ ages[w] - 1 \in Int /\ ages[w] \in Nat
  OBVIOUS
<1>6. /\ IsFiniteSet(0..(ages[w] - 1))
      /\ Cardinality(0..(ages[w] - 1)) = ages[w]
  BY <1>5, FS_Interval
<1> HIDE DEF smaller
<1>7. IsFiniteSet(smaller) /\ Cardinality(smaller) <= ages[w]
  BY <1>3, <1>6, FS_Subset
<1> QED
  BY <1>1, <1>4, <1>7

(* Distinct ages can be taken in ascending order.                          *)
LEMMA AscendingExists ==
    ASSUME NEW ages \in [Way -> Nat], Distinct(ages)
    PROVE  \E p \in Bijection(1..Associativity, Way) : Ascending(ages, p)
<1>1. PICK ranks : ranks = scaleDownAges(ages)
  OBVIOUS
<1>2. /\ ranks \in [Way -> Way]
      /\ \A u, v \in Way : ranks[u] = ranks[v] => u = v
      /\ \A r \in Way : \E v \in Way : ranks[v] = r
  BY <1>1, RanksFill DEF Bijection, Injection, IsInjective, Surjection
<1>3. \A v, w \in Way : ranks[v] < ranks[w] <=> ages[v] < ages[w]
  BY <1>1, RanksKeepOrder
<1> DEFINE p == [n \in 1..Associativity |-> CHOOSE v \in Way : ranks[v] = n - 1]
<1>4. \A n \in 1..Associativity : n - 1 \in Way
  BY DEF Way
<1>5. ASSUME NEW n \in 1..Associativity
      PROVE  p[n] \in Way /\ ranks[p[n]] = n - 1
  BY <1>2, <1>4
<1>6. p \in [1..Associativity -> Way]
  BY <1>5
<1> HIDE DEF p
<1>7. \A i, j \in 1..Associativity : p[i] = p[j] => i = j
  <2> TAKE i, j \in 1..Associativity
  <2> HAVE p[i] = p[j]
  <2>1. i - 1 = j - 1
    BY <1>5
  <2> QED
    BY <2>1
<1>8. \A v \in Way : \E n \in 1..Associativity : p[n] = v
  <2> TAKE v \in Way
  <2>1. ranks[v] \in 0..(Associativity - 1)
    BY <1>2 DEF Way
  <2>2. PICK n \in 1..Associativity : n - 1 = ranks[v]
    BY <2>1
  <2> QED
    BY <1>2, <1>5, <2>2
<1>9. p \in Bijection(1..Associativity, Way)
  BY <1>6, <1>7, <1>8 DEF Bijection, Injection, IsInjective, Surjection
<1>10. Ascending(ages, p)
  <2> SUFFICES ASSUME NEW i \in 1..Associativity, NEW j \in 1..Associativity, i < j
               PROVE  ages[p[i]] <= ages[p[j]]
    BY DEF Ascending
  <2>1. ranks[p[i]] < ranks[p[j]]
    BY <1>5
  <2> QED
    BY <1>3, <1>5, <2>1
<1> QED
  BY <1>9, <1>10

(* The n-th of the sorted ages is that of the entry of rank n - 1.         *)
LEMMA SortedByRank ==
    ASSUME NEW ages \in [Way -> Nat], Distinct(ages), NEW n \in 1..Associativity
    PROVE  \E w \in Way : Sorted(ages)[n] = ages[w] /\ scaleDownAges(ages)[w] = n - 1
<1>1. PICK p \in Bijection(1..Associativity, Way) :
          /\ Ascending(ages, p)
          /\ Sorted(ages) = [i \in 1..Associativity |-> ages[p[i]]]
  <2> DEFINE order == CHOOSE p \in Bijection(1..Associativity, Way) :
                         \A i, j \in 1..Associativity : i < j => ages[p[i]] <= ages[p[j]]
  <2>1. order \in Bijection(1..Associativity, Way) /\ Ascending(ages, order)
    BY AscendingExists DEF Ascending
  <2>2. Sorted(ages) = [i \in 1..Associativity |-> ages[order[i]]]
    BY DEF Sorted
  <2> HIDE DEF order
  <2> QED
    BY <2>1, <2>2
<1>2. /\ p \in [1..Associativity -> Way]
      /\ \A i, j \in 1..Associativity : p[i] = p[j] => i = j
      /\ \A v \in Way : \E i \in 1..Associativity : p[i] = v
  BY DEF Bijection, Injection, IsInjective, Surjection
<1>3. PICK w \in Way : w = p[n]
  BY <1>2
<1> DEFINE older == {v \in Way : ages[v] < ages[w]}
           below == 1..(n - 1)
<1>4. older = {p[i] : i \in below}
  <2>1. ASSUME NEW i \in 1..Associativity
        PROVE  ages[p[i]] < ages[w] <=> i < n
    <3>1. p[i] \in Way /\ ages[p[i]] \in Nat /\ ages[w] \in Nat
      BY <1>2
    <3>2. i < n => ages[p[i]] < ages[w]
      <4>1. i < n => p[i] # w /\ ages[p[i]] <= ages[w]
        BY <1>1, <1>2, <1>3 DEF Ascending
      <4> QED
        BY <3>1, <4>1 DEF Distinct
    <3>3. n < i => ages[w] <= ages[p[i]]
      BY <1>1, <1>3 DEF Ascending
    <3> QED
      BY <1>3, <3>1, <3>2, <3>3
  <2>2. \A i \in below : i \in 1..Associativity /\ i < n
    OBVIOUS
  <2>3. \A i \in 1..Associativity : i < n => i \in below
    OBVIOUS
  <2>4. \A v : v \in older <=> v \in {p[i] : i \in below}
    BY <1>2, <2>1, <2>2, <2>3
  <2> QED
    BY <2>4
<1>5. Cardinality(older) = n - 1
  <2> DEFINE f == [i \in below |-> p[i]]
  <2>1. below \subseteq 1..Associativity
    OBVIOUS
  <2>2. f \in Surjection(below, older) /\ f \in Injection(below, older)
    BY <1>2, <1>4, <2>1 DEF Surjection, Injection, IsInjective
  <2>3. 1 \in Int /\ n - 1 \in Int /\ n - 1 \in Nat
    OBVIOUS
  <2>4. IsFiniteSet(below) /\ Cardinality(below) = n - 1
    <3>1. /\ IsFiniteSet(1..(n - 1))
          /\ Cardinality(1..(n - 1)) = IF 1 > n - 1 THEN 0 ELSE (n - 1) - 1 + 1
      BY ONLY <2>3, FS_Interval
    <3> QED
      BY <2>3, <3>1
  <2> HIDE DEF f, older, below
  <2> QED
    BY <2>2, <2>4, FS_Surjection
<1>6. scaleDownAges(ages)[w] = n - 1
  BY <1>5 DEF scaleDownAges
<1> QED
  BY <1>1, <1>3, <1>6

(* The row after n turns: the ranks below n have been given.               *)
RanksBelow(ages, n) ==
    LET ranks == scaleDownAges(ages)
    IN  [w \in Way |-> IF ranks[w] < n THEN ranks[w] ELSE ages[w]]

(* A turn finds the one entry whose rank it gives: no rank given before is *)
(* as large as the age it looks for.                                       *)
LEMMA OneMoreRank ==
    ASSUME NEW ages \in [Way -> Nat], Distinct(ages), NEW n \in 1..Associativity
    PROVE  Renumber(RanksBelow(ages, n - 1), Sorted(ages)[n], n - 1) = RanksBelow(ages, n)
<1>1. PICK w \in Way : Sorted(ages)[n] = ages[w] /\ scaleDownAges(ages)[w] = n - 1
  BY SortedByRank
<1>2. PICK ranks : ranks = scaleDownAges(ages)
  OBVIOUS
<1>3. /\ ranks \in [Way -> Way]
      /\ \A u, v \in Way : ranks[u] = ranks[v] => u = v
  BY <1>2, RanksFill DEF Bijection, Injection, IsInjective
<1>4. PICK row : row = RanksBelow(ages, n - 1)
  OBVIOUS
<1>5. row = [v \in Way |-> IF ranks[v] < n - 1 THEN ranks[v] ELSE ages[v]]
  BY <1>2, <1>4 DEF RanksBelow
<1>6. ranks[w] = n - 1 /\ ranks[w] <= ages[w] /\ \A v \in Way : ranks[v] \in Nat
  BY <1>1, <1>2, <1>3, RankBelowAge, WayFinite
<1>7. {v \in Way : row[v] = ages[w]} = {w}
  <2>1. row[w] = ages[w]
    BY <1>5, <1>6
  <2>2. ASSUME NEW v \in Way, row[v] = ages[w]
        PROVE  v = w
    <3>1. CASE ranks[v] < n - 1
      BY <1>5, <1>6, <2>2, <3>1
    <3>2. CASE ~(ranks[v] < n - 1)
      BY <1>5, <2>2, <3>2 DEF Distinct
    <3> QED
      BY <3>1, <3>2
  <2> QED
    BY <2>1, <2>2
<1>8. Min({w}) = w
  BY WayFinite DEF Min
<1>9. Renumber(row, Sorted(ages)[n], n - 1) = [row EXCEPT ![w] = n - 1]
  BY <1>1, <1>7, <1>8 DEF Renumber
<1>10. ASSUME NEW v \in Way
       PROVE  (IF v = w THEN n - 1 ELSE row[v]) = IF ranks[v] < n THEN ranks[v] ELSE ages[v]
  <2>1. CASE v = w
    BY <1>6, <2>1
  <2>2. CASE v # w
    <3>1. ranks[v] # n - 1 /\ ranks[v] \in Nat
      BY <1>3, <1>6, <2>2
    <3>2. ranks[v] < n <=> ranks[v] < n - 1
      BY <3>1
    <3> QED
      BY <1>5, <2>2, <3>2
  <2> QED
    BY <2>1, <2>2
<1>11. [row EXCEPT ![w] = n - 1]
           = [v \in Way |-> IF ranks[v] < n THEN ranks[v] ELSE ages[v]]
  BY <1>5, <1>10
<1> QED
  BY <1>2, <1>4, <1>9, <1>11 DEF RanksBelow

(* scaleDownAges rewrites the row it searches; for every row of distinct   *)
(* ages, whatever the associativity, each entry ends with its rank.        *)
THEOREM LoopGivesRanks ==
    ASSUME NEW ages \in [Way -> Nat], Distinct(ages)
    PROVE  scaleDownAgesLoop(ages) = scaleDownAges(ages)
<1>1. PICK oldAges : oldAges = Sorted(ages)
  OBVIOUS
<1> DEFINE turn[n \in 0..Associativity] ==
               IF n = 0 THEN ages ELSE Renumber(turn[n - 1], oldAges[n], n - 1)
           Unfolds(f) == f = [n \in 0..Associativity |->
               IF n = 0 THEN ages ELSE Renumber(f[n - 1], oldAges[n], n - 1)]
           closed == [n \in 0..Associativity |-> RanksBelow(ages, n)]
<1>2. RanksBelow(ages, 0) = ages /\ RanksBelow(ages, Associativity) = scaleDownAges(ages)
  <2>1. PICK ranks : ranks = scaleDownAges(ages)
    OBVIOUS
  <2>2. ranks \in [Way -> 0..(Associativity - 1)]
    BY <2>1, RanksKeepOrder
  <2>3. \A w \in Way : ranks[w] \in Nat /\ ~(ranks[w] < 0) /\ ranks[w] < Associativity
    BY <2>2
  <2> QED
    BY <2>1, <2>2, <2>3 DEF RanksBelow
<1>3. Unfolds(closed)
  <2>1. ASSUME NEW n \in 0..Associativity
        PROVE  closed[n] = IF n = 0 THEN ages ELSE Renumber(closed[n - 1], oldAges[n], n - 1)
    <3>1. CASE n = 0
      BY <1>2, <3>1
    <3>2. CASE n # 0
      <4>1. n \in 1..Associativity /\ n - 1 \in 0..Associativity
        BY <3>2
      <4>2. closed[n] = RanksBelow(ages, n) /\ closed[n - 1] = RanksBelow(ages, n - 1)
        BY <4>1
      <4> HIDE DEF closed
      <4> QED
        BY <1>1, <3>2, <4>1, <4>2, OneMoreRank
    <3> QED
      BY <3>1, <3>2
  <2> QED
    BY <2>1
<1>4. Unfolds(turn)
  <2>1. turn = CHOOSE f : Unfolds(f)
    OBVIOUS
  <2> HIDE DEF turn, closed, Unfolds
  <2> QED
    BY <1>3, <2>1
<1>5. scaleDownAgesLoop(ages) = turn[Associativity]
  BY <1>1 DEF scaleDownAgesLoop, Renumbered
<1> HIDE DEF turn
<1>6. \A n \in 0..Associativity : turn[n] = RanksBelow(ages, n)
  <2> DEFINE T == {n \in 0..Associativity : turn[n] # RanksBelow(ages, n)}
  <2>1. SUFFICES ASSUME T # {} PROVE FALSE
    OBVIOUS
  <2>2. PICK n \in T : \A m \in T : n <= m
    <3>1. T \in SUBSET Nat
      OBVIOUS
    <3> HIDE DEF T
    <3> QED
      BY <2>1, <3>1, LeastNatural
  <2>3. CASE n = 0
    BY <1>2, <1>4, <2>3
  <2>4. CASE n # 0
    <3>1. n \in 1..Associativity /\ n - 1 \in 0..Associativity /\ n - 1 \notin T
      BY <2>2, <2>4
    <3>2. turn[n - 1] = RanksBelow(ages, n - 1)
      BY <3>1
    <3>3. turn[n] = Renumber(turn[n - 1], oldAges[n], n - 1)
      BY <1>4, <2>4
    <3> QED
      BY <1>1, <3>1, <3>2, <3>3, OneMoreRank
  <2> QED
    BY <2>3, <2>4
<1> QED
  BY <1>2, <1>5, <1>6

(* In every reachable row the loop computes what CpuFlatCache says it does *)
(* (LoopComputesRanks).                                                    *)
THEOREM LoopScales == Spec => []LoopComputesRanks
<1>1. IInv => LoopComputesRanks
  <2> SUFFICES ASSUME IInv, NEW row \in Row
               PROVE  scaleDownAgesLoop(tagLineAge[row]) = scaleDownAges(tagLineAge[row])
    BY DEF LoopComputesRanks
  <2>1. tagLineAge[row] \in [Way -> Nat] /\ Distinct(tagLineAge[row])
    BY DEF IInv, TypeOK, AgesOrdered, Age, Distinct
  <2> QED
    BY <2>1, LoopGivesRanks
<1> QED
  BY <1>1, InvAlways, PTL

=============================================================================
