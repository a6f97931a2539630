------------------------ MODULE SymbolRegistryProofs ------------------------
(***************************************************************************)
(* Proofs about SymbolRegistry, for every set of sites, map of the process *)
(* and answer of addr2line and backtrace_symbols: the ids of a call site   *)
(* are those of names found for it, each name is kept once, and every site *)
(* of a written profile has a function.                                    *)
(***************************************************************************)
EXTENDS SymbolRegistry, FiniteSetTheorems, TLAPS

-----------------------------------------------------------------------------
(* Naturals.                                                               *)

(* Among finite sets there is one that contains no other: the form of      *)
(* induction on their size that is used here.                              *)
LEMMA SmallestSubset ==
    ASSUME NEW S, NEW T, T # {}, \A U \in T : U \subseteq S /\ IsFiniteSet(U)
    PROVE  \E U \in T : \A V \in T : V \subseteq U => V = U
<1>1. T \subseteq FiniteSubsetsOf(S)
  BY DEF FiniteSubsetsOf
<1>2. PICK U \in T : \A V \in T : ~ (<<V, U>> \in StrictSubsetOrdering(S))
  <2> HIDE DEF StrictSubsetOrdering, FiniteSubsetsOf
  <2> QED BY <1>1, FS_StrictSubsetOrderingWellFounded, WFMin
<1> QED
  BY <1>2 DEF StrictSubsetOrdering

(* A set of naturals that is not empty has a least element.                *)
LEMMA LeastNatural ==
    ASSUME NEW T \in SUBSET Nat, T # {}
    PROVE  \E n \in T : \A m \in T : n <= m
<1> DEFINE Below == {0 .. n - 1 : n \in T}
<1>1. \A U \in Below : U \subseteq Nat /\ IsFiniteSet(U)
  <2> TAKE U \in Below
  <2>1. PICK n \in T : U = 0 .. n - 1
    OBVIOUS
  <2>2. 0 \in Int /\ n - 1 \in Int
    OBVIOUS
  <2> QED BY <2>1, <2>2, FS_Interval
<1>2. Below # {}
  OBVIOUS
<1>3. PICK U \in Below : \A V \in Below : V \subseteq U => V = U
  <2> HIDE DEF Below
  <2> QED BY ONLY <1>1, <1>2, SmallestSubset
<1>4. PICK n \in T : U = 0 .. n - 1
  OBVIOUS
<1>5. ASSUME NEW m \in T, m < n PROVE FALSE
  <2>1. 0 .. m - 1 \in Below /\ 0 .. m - 1 \subseteq U
    BY <1>4, <1>5
  <2>2. m \in U
    BY <1>4, <1>5
  <2>3. m \notin 0 .. m - 1
    BY <1>4
  <2> QED BY <1>3, <2>1, <2>2, <2>3
<1> QED
  BY <1>5

(* The least element of a set of naturals.                                 *)
LEMMA MinIsElement ==
    ASSUME NEW T \in SUBSET Nat, T # {}
    PROVE  Min(T) \in T
BY ONLY LeastNatural, T \in SUBSET Nat, T # {} DEF Min

-----------------------------------------------------------------------------
(* Names and their ids.                                                    *)

IsNames(names) ==
    /\ names \in Seq(Text)
    /\ names # <<>>
    /\ names[1] = "??"
    /\ \A i, j \in 1 .. Len(names) : names[i] = names[j] => i = j

(* A list of names that only gained some: the ids of the others are kept.  *)
Extends(new, old) ==
    /\ IsNames(new)
    /\ Len(old) <= Len(new)
    /\ \A i \in 1 .. Len(old) : new[i] = old[i]

Has(names, value) == \E i \in 1 .. Len(names) : names[i] = value

(* A list extends itself.                                                  *)
LEMMA ExtendsItself == ASSUME NEW names, IsNames(names) PROVE Extends(names, names)
BY DEF Extends, IsNames

(* Adding names twice adds names.                                          *)
LEMMA ExtendsFurther ==
    ASSUME NEW a, NEW b, NEW c, IsNames(a), Extends(b, a), Extends(c, b)
    PROVE  Extends(c, a)
<1>1. Len(a) \in Nat /\ Len(b) \in Nat /\ Len(c) \in Nat
  BY DEF Extends, IsNames
<1> QED
  BY <1>1 DEF Extends

(* A name that is there stays when names are added.                        *)
LEMMA HasStill ==
    ASSUME NEW a, NEW b, NEW value, IsNames(a), Extends(b, a), Has(a, value)
    PROVE  Has(b, value)
<1>1. Len(a) \in Nat /\ Len(b) \in Nat
  BY DEF Extends, IsNames
<1> QED
  BY <1>1 DEF Extends, Has

(* getString adds a name that is new and no other.                         *)
LEMMA InternedExtends ==
    ASSUME NEW names, IsNames(names), NEW value \in Text
    PROVE  Extends(Interned(names, value), names) /\ Has(Interned(names, value), value)
<1>1. Contains(names, value) <=> Has(names, value)
  BY DEF Contains, Has
<1>2. CASE Contains(names, value)
  BY <1>1, <1>2, ExtendsItself DEF Interned
<1>3. CASE ~Contains(names, value)
  <2>1. Interned(names, value) = Append(names, value)
    BY <1>3 DEF Interned
  <2>2. PICK new : new = Append(names, value)
    OBVIOUS
  <2>3. names \in Seq(Text) /\ Len(names) \in Nat /\ names # <<>>
    BY DEF IsNames
  <2>4. /\ new \in Seq(Text) /\ Len(new) = Len(names) + 1
        /\ \A i \in 1 .. Len(names) : new[i] = names[i]
        /\ new[Len(names) + 1] = value
    BY <2>2, <2>3
  <2>5. new # <<>> /\ 1 \in 1 .. Len(names)
    BY <2>3, <2>4
  <2>6. ASSUME NEW i \in 1 .. Len(new), NEW j \in 1 .. Len(new), new[i] = new[j]
        PROVE  i = j
    <3>1. (i \in 1 .. Len(names) \/ i = Len(names) + 1)
          /\ (j \in 1 .. Len(names) \/ j = Len(names) + 1)
      BY <2>3, <2>4
    <3>2. \A k \in 1 .. Len(names) : names[k] # value
      BY <1>1, <1>3 DEF Has
    <3> QED
      BY <2>4, <2>6, <3>1, <3>2 DEF IsNames
  <2>7. IsNames(new)
    BY <2>4, <2>5, <2>6 DEF IsNames
  <2>8. Extends(new, names)
    BY <2>3, <2>4, <2>7 DEF Extends
  <2>9. Has(new, value)
    BY <2>3, <2>4 DEF Has
  <2> QED
    BY <2>1, <2>2, <2>8, <2>9
<1> QED
  BY <1>2, <1>3

(* The id of a name that is there leads to it.                             *)
LEMMA IdLeadsToName ==
    ASSUME NEW names, IsNames(names), NEW value, Has(names, value)
    PROVE  IdOf(names, value) \in 0 .. Len(names) - 1 /\ names[IdOf(names, value) + 1] = value
<1> DEFINE I == {i \in 1 .. Len(names) : names[i] = value}
<1>1. I # {} /\ I \in SUBSET Nat /\ Len(names) \in Nat
  BY DEF Has, IsNames
<1>2. IdOf(names, value) = Min(I) - 1
  BY <1>1 DEF IdOf, SelectInSeq
<1>3. Min(I) \in I
  <2> HIDE DEF I
  <2> QED
    BY ONLY <1>1, MinIsElement
<1>4. PICK m \in I : m = Min(I)
  <2> HIDE DEF I
  <2> QED
    BY <1>3
<1> QED
  BY <1>1, <1>2, <1>4

-----------------------------------------------------------------------------
(* The order of addresses.                                                 *)

(* InOrder lists the elements of a finite set, each once.                  *)
LEMMA InOrderLists ==
    ASSUME NEW S \in SUBSET Nat, IsFiniteSet(S)
    PROVE  /\ Cardinality(S) \in Nat
           /\ InOrder(S) \in [1 .. Cardinality(S) -> S]
           /\ \A i, j \in 1 .. Cardinality(S) : InOrder(S)[i] = InOrder(S)[j] => i = j
           /\ \A s \in S : \E i \in 1 .. Cardinality(S) : InOrder(S)[i] = s
<1>1. PICK k \in Nat : k = Cardinality(S)
  BY FS_CardinalityType
<1> DEFINE Below(s) == {u \in S : u < s}
           rank == [s \in S |-> Cardinality(Below(s))]
<1>2. \A s \in S : IsFiniteSet(Below(s)) /\ Cardinality(Below(s)) \in 0 .. k - 1
  <2> TAKE s \in S
  <2>1. Below(s) \subseteq S \ {s}
    OBVIOUS
  <2>2. IsFiniteSet(S \ {s}) /\ Cardinality(S \ {s}) = k - 1
    BY <1>1, FS_RemoveElement
  <2> HIDE DEF Below
  <2>3. IsFiniteSet(Below(s)) /\ Cardinality(Below(s)) <= k - 1
    BY ONLY <2>1, <2>2, FS_Subset
  <2> QED
    BY <2>3, FS_CardinalityType
<1>3. ASSUME NEW s \in S, NEW u \in S, s < u
      PROVE  Cardinality(Below(s)) < Cardinality(Below(u))
  <2>0. \A v \in S : v \in Nat /\ (v < s => v < u)
    BY <1>3
  <2>1. Below(s) \subseteq Below(u) /\ s \in Below(u) /\ s \notin Below(s)
    <3>1. s \in Nat /\ ~(s < s) /\ s < u
      BY <1>3, <2>0
    <3>2. s \notin Below(s)
      BY ONLY <3>1
    <3>3. s \in Below(u)
      BY <3>1
    <3>4. \A v : v \in Below(s) => v \in Below(u)
      BY <2>0
    <3> QED
      BY <3>2, <3>3, <3>4
  <2>2. Below(s) # Below(u)
    BY <2>1
  <2>3. IsFiniteSet(Below(u))
    BY <1>2
  <2> HIDE DEF Below
  <2>4. /\ Cardinality(Below(s)) <= Cardinality(Below(u))
        /\ Cardinality(Below(s)) # Cardinality(Below(u))
    BY ONLY <2>1, <2>2, <2>3, FS_Subset
  <2>5. Cardinality(Below(s)) \in Nat /\ Cardinality(Below(u)) \in Nat
    BY <1>2
  <2> QED
    BY <2>4, <2>5
<1>4. rank \in Injection(S, 0 .. k - 1)
  <2>1. rank \in [S -> 0 .. k - 1]
    BY <1>2
  <2>2. ASSUME NEW s \in S, NEW u \in S, rank[s] = rank[u]
        PROVE  s = u
    <3>1. Cardinality(Below(s)) = Cardinality(Below(u))
      BY <2>2
    <3>2. Cardinality(Below(s)) \in Nat /\ Cardinality(Below(u)) \in Nat
      BY <1>2
    <3>3. ~(s < u) /\ ~(u < s)
      <4> HIDE DEF Below
      <4> QED
        BY <1>3, <3>1, <3>2
    <3>4. s \in Nat /\ u \in Nat
      OBVIOUS
    <3> QED
      BY ONLY <3>3, <3>4
  <2> HIDE DEF rank
  <2> QED
    BY <2>1, <2>2 DEF Injection, IsInjective
<1>5. IsFiniteSet(0 .. k - 1) /\ Cardinality(0 .. k - 1) = k
  <2>1. 0 \in Int /\ k - 1 \in Int
    OBVIOUS
  <2>2. /\ IsFiniteSet(0 .. k - 1)
        /\ Cardinality(0 .. k - 1) = IF 0 > k - 1 THEN 0 ELSE (k - 1) - 0 + 1
    BY ONLY <2>1, FS_Interval
  <2> QED
    BY <2>2
<1>6. rank \in Surjection(S, 0 .. k - 1)
  <2> HIDE DEF rank
  <2> QED
    BY ONLY <1>1, <1>4, <1>5, FS_Injection
<1>7. /\ \A s \in S : rank[s] = Cardinality(Below(s))
      /\ rank \in [S -> 0 .. k - 1]
      /\ \A s, u \in S : rank[s] = rank[u] => s = u
      /\ \A r \in 0 .. k - 1 : \E s \in S : rank[s] = r
  BY <1>4, <1>6 DEF Injection, IsInjective, Surjection
<1>8. InOrder(S) = [n \in 1 .. k |-> CHOOSE s \in S : rank[s] = n - 1]
  <2>1. InOrder(S) = [n \in 1 .. k |-> CHOOSE s \in S : Cardinality(Below(s)) = n - 1]
    BY <1>1 DEF InOrder
  <2>2. ASSUME NEW n \in 1 .. k
        PROVE  (CHOOSE s \in S : Cardinality(Below(s)) = n - 1)
                   = CHOOSE s \in S : rank[s] = n - 1
    <3>1. \A s : (s \in S /\ Cardinality(Below(s)) = n - 1) <=> (s \in S /\ rank[s] = n - 1)
      BY <1>7
    <3> HIDE DEF rank, Below
    <3> QED
      BY <3>1
  <2> HIDE DEF rank, Below
  <2> QED
    BY <2>1, <2>2
<1> HIDE DEF rank
<1>9. PICK list : list = InOrder(S)
  OBVIOUS
<1>10. ASSUME NEW n \in 1 .. k
       PROVE  list[n] \in S /\ rank[list[n]] = n - 1
  <2>1. n - 1 \in 0 .. k - 1
    OBVIOUS
  <2> QED
    BY <1>7, <1>8, <1>9, <2>1
<1>11. list \in [1 .. k -> S]
  BY <1>8, <1>9, <1>10
<1>12. ASSUME NEW i \in 1 .. k, NEW j \in 1 .. k, list[i] = list[j]
       PROVE  i = j
  <2>1. i - 1 = j - 1
    BY <1>10, <1>12
  <2> QED
    BY <2>1
<1>13. ASSUME NEW s \in S
       PROVE  \E i \in 1 .. k : list[i] = s
  <2>1. rank[s] \in 0 .. k - 1
    BY <1>7
  <2>2. PICK i \in 1 .. k : i - 1 = rank[s]
    BY <2>1
  <2>3. list[i] \in S /\ rank[list[i]] = rank[s]
    BY <1>10, <2>2
  <2>4. list[i] = s
    BY <1>7, <2>3
  <2> QED
    BY <2>4
<1> QED
  BY <1>1, <1>9, <1>11, <1>12, <1>13

(* The length of a list given by its domain.                               *)
LEMMA LengthOf ==
    ASSUME NEW S, NEW k \in Nat, NEW list \in [1 .. k -> S]
    PROVE  list \in Seq(S) /\ Len(list) = k
OBVIOUS

-----------------------------------------------------------------------------
(* The answers of addr2line.                                               *)

IdIn(names) == {Unset} \cup (0 .. Len(names) - 1)

LinesOf(map, site) ==
    {i \in DOMAIN map : site \in map[i].lower .. map[i].upper - 1}

(* What is known of a site before solveMissings.                           *)
SiteKnown(map, names, site, known) ==
    /\ known \in [file : IdIn(names), function : IdIn(names), binary : IdIn(names),
                  mapEntry : 0 .. Len(map)]
    /\ known.mapEntry # NoEntry => known.mapEntry \in LinesOf(map, site)
    /\ known.function # Unset =>
           names[known.function + 1] \in {"??", debugFunction[site]}
    /\ known.binary # Unset =>
           names[known.binary + 1] \in {"??"} \cup {map[i].file : i \in LinesOf(map, site)}

Known(map, names, sites) ==
    /\ IsNames(names)
    /\ \A site \in DOMAIN sites : SiteKnown(map, names, site, sites[site])

(* What was known of a site stays so when names are added.                 *)
LEMMA KnownStill ==
    ASSUME NEW map, NEW a, NEW b, NEW site, NEW known,
           IsNames(a), Extends(b, a), SiteKnown(map, a, site, known)
    PROVE  SiteKnown(map, b, site, known)
<1>1. Len(a) \in Nat /\ Len(b) \in Nat /\ Len(a) <= Len(b)
  BY DEF Extends, IsNames
<1>2. IdIn(a) \subseteq IdIn(b)
  BY <1>1 DEF IdIn
<1>3. \A id \in IdIn(a) : id # Unset => b[id + 1] = a[id + 1]
  BY <1>1 DEF IdIn, Extends, Unset
<1>4. known \in [file : IdIn(a), function : IdIn(a), binary : IdIn(a), mapEntry : 0 .. Len(map)]
  BY DEF SiteKnown
<1>5. known \in [file : IdIn(b), function : IdIn(b), binary : IdIn(b), mapEntry : 0 .. Len(map)]
  BY <1>2, <1>4
<1>6. known.function \in IdIn(a) /\ known.binary \in IdIn(a)
  BY <1>4
<1> QED
  BY <1>3, <1>5, <1>6 DEF SiteKnown

(* The lines of the map of the process.                                    *)
LEMMA LineType ==
    ASSUME NEW map \in ProcMaps
    PROVE  /\ Len(map) \in Nat /\ Len(map) >= 1 /\ DOMAIN map = 1 .. Len(map)
           /\ \A i \in DOMAIN map :
                 /\ map[i].lower \in Nat /\ map[i].upper \in Nat /\ map[i].file \in Text
                 /\ Others < map[i].lower
<1>1. /\ map \in Seq([lower : Nat, upper : Nat, file : Text, elf : BOOLEAN])
      /\ map # <<>>
      /\ \A i \in DOMAIN map : Others < map[i].lower
  BY MapsAssumption
<1>2. Len(map) \in Nat /\ DOMAIN map = 1 .. Len(map) /\ Len(map) # 0
  <2>1. PICK Line : Line = [lower : Nat, upper : Nat, file : Text, elf : BOOLEAN]
    OBVIOUS
  <2>2. map \in Seq(Line) /\ map # <<>>
    BY <1>1, <2>1
  <2> QED
    BY ONLY <2>2
<1>3. ASSUME NEW i \in DOMAIN map
      PROVE  /\ map[i].lower \in Nat /\ map[i].upper \in Nat /\ map[i].file \in Text
             /\ Others < map[i].lower
  <2>1. map[i] \in [lower : Nat, upper : Nat, file : Text, elf : BOOLEAN]
    <3>1. PICK Line : Line = [lower : Nat, upper : Nat, file : Text, elf : BOOLEAN]
      OBVIOUS
    <3>2. map \in Seq(Line) /\ i \in DOMAIN map
      BY <1>1, <3>1
    <3>3. map[i] \in Line
      BY ONLY <3>2
    <3> QED
      BY <3>1, <3>3
  <2> QED
    BY <1>1, <2>1
<1> QED
  BY <1>2, <1>3

(* One answer.                                                             *)
LEMMA AnsweredKeeps ==
    ASSUME procMap \in ProcMaps, entry \in 1 .. Len(procMap),
           NEW known, Known(procMap, known.names, known.sites),
           NEW site \in Site, site \in DOMAIN known.sites,
           known.sites[site].mapEntry = entry,
           NEW answer \in {"found", "unknown", "malformed"}
    PROVE  LET next == Answered(known, site, answer)
           IN  /\ Known(procMap, next.names, next.sites)
               /\ DOMAIN next.sites = DOMAIN known.sites
               /\ \A s \in DOMAIN known.sites :
                     next.sites[s].mapEntry = known.sites[s].mapEntry
<1>1. PICK old, sites : old = known.names /\ sites = known.sites
  OBVIOUS
<1>2. /\ IsNames(old) /\ site \in DOMAIN sites
      /\ \A s \in DOMAIN sites : SiteKnown(procMap, old, s, sites[s])
  BY <1>1 DEF Known
<1>3. entry \in LinesOf(procMap, site) /\ sites[site].mapEntry = entry
  BY <1>1, <1>2, LineType DEF SiteKnown, NoEntry
<1> DEFINE Replaced(names, f, g, b) ==
               [names |-> names,
                sites |-> [sites EXCEPT ![site] =
                    [file |-> f, function |-> g, binary |-> b, mapEntry |-> entry]]]
<1>4. ASSUME NEW names, NEW f, NEW g, NEW b, Extends(names, old),
             SiteKnown(procMap, names, site,
                       [file |-> f, function |-> g, binary |-> b, mapEntry |-> entry]),
             Answered(known, site, answer) = Replaced(names, f, g, b)
      PROVE  LET next == Answered(known, site, answer)
             IN  /\ Known(procMap, next.names, next.sites)
                 /\ DOMAIN next.sites = DOMAIN known.sites
                 /\ \A s \in DOMAIN known.sites :
                       next.sites[s].mapEntry = known.sites[s].mapEntry
  <2>1. PICK new : new = [sites EXCEPT ![site] =
                  [file |-> f, function |-> g, binary |-> b, mapEntry |-> entry]]
    OBVIOUS
  <2>2. /\ DOMAIN new = DOMAIN sites
        /\ new[site] = [file |-> f, function |-> g, binary |-> b, mapEntry |-> entry]
        /\ \A s \in DOMAIN sites : s # site => new[s] = sites[s]
    BY <1>2, <2>1
  <2>3. \A s \in DOMAIN sites : SiteKnown(procMap, names, s, new[s])
    <3> TAKE s \in DOMAIN sites
    <3>1. CASE s = site
      BY <1>4, <2>2, <3>1
    <3>2. CASE s # site
      <4>1. SiteKnown(procMap, old, s, sites[s]) /\ new[s] = sites[s]
        BY <1>2, <2>2, <3>2
      <4> QED
        BY <1>2, <1>4, <4>1, KnownStill
    <3> QED
      BY <3>1, <3>2
  <2>4. \A s \in DOMAIN sites : new[s].mapEntry = sites[s].mapEntry
    BY <1>3, <2>2
  <2>5. Answered(known, site, answer) = [names |-> names, sites |-> new]
    BY <1>4, <2>1
  <2>6. IsNames(names)
    BY <1>4 DEF Extends
  <2> QED
    BY <1>1, <2>2, <2>3, <2>4, <2>5, <2>6 DEF Known
<1>5. entry \in 0 .. Len(procMap)
  BY LineType
<1>6. CASE answer = "malformed"
  <2>1. Answered(known, site, answer) = Replaced(old, 0, 0, 0)
    BY <1>1, <1>3, <1>6 DEF Answered
  <2>2. 0 \in IdIn(old) /\ old[0 + 1] = "??" /\ 0 # Unset
    <3>1. Len(old) \in Nat /\ Len(old) # 0
      BY <1>2 DEF IsNames
    <3> QED
      BY <1>2, <3>1 DEF IsNames, IdIn, Unset
  <2>3. SiteKnown(procMap, old, site,
                  [file |-> 0, function |-> 0, binary |-> 0, mapEntry |-> entry])
    BY <1>3, <1>5, <2>2 DEF SiteKnown
  <2> HIDE DEF Replaced
  <2> QED
    BY <1>2, <1>4, <2>1, <2>3, ExtendsItself
<1>7. CASE answer # "malformed"
  <2>1. PICK file, function, binary :
            /\ file = IF answer = "found" THEN debugFile[site] ELSE "??"
            /\ function = IF answer = "found" THEN debugFunction[site] ELSE "??"
            /\ binary = procMap[entry].file
    OBVIOUS
  <2>2. file \in Text /\ function \in Text /\ binary \in Text
    BY <2>1, NamesAssumption, LineType
  <2>3. PICK a, b, c : /\ a = Interned(old, file) /\ b = Interned(a, function)
                       /\ c = Interned(b, binary)
    OBVIOUS
  <2>4. Extends(a, old) /\ Has(a, file)
    BY <1>2, <2>2, <2>3, InternedExtends
  <2>5. Extends(b, a) /\ Has(b, function)
    BY <2>2, <2>3, <2>4, InternedExtends DEF Extends
  <2>6. Extends(c, b) /\ Has(c, binary)
    BY <2>2, <2>3, <2>5, InternedExtends DEF Extends
  <2>7. IsNames(a) /\ IsNames(b) /\ IsNames(c)
    BY <2>4, <2>5, <2>6 DEF Extends
  <2>8. Extends(c, a) /\ Extends(c, old)
    <3>1. Extends(c, a)
      BY <2>5, <2>6, <2>7, ExtendsFurther
    <3> QED
      BY <1>2, <2>4, <3>1, ExtendsFurther
  <2>9. Has(c, file) /\ Has(c, function)
    BY <2>4, <2>5, <2>6, <2>7, <2>8, HasStill
  <2>10. PICK f, g, h : f = IdOf(c, file) /\ g = IdOf(c, function) /\ h = IdOf(c, binary)
    OBVIOUS
  <2>11. /\ f \in 0 .. Len(c) - 1 /\ g \in 0 .. Len(c) - 1 /\ h \in 0 .. Len(c) - 1
         /\ c[g + 1] = function /\ c[h + 1] = binary
    BY <2>6, <2>7, <2>9, <2>10, IdLeadsToName
  <2>12. Answered(known, site, answer) = Replaced(c, f, g, h)
    BY <1>1, <1>3, <1>7, <2>1, <2>3, <2>10 DEF Answered
  <2>13. SiteKnown(procMap, c, site,
                   [file |-> f, function |-> g, binary |-> h, mapEntry |-> entry])
    <3>1. f \in IdIn(c) /\ g \in IdIn(c) /\ h \in IdIn(c)
      BY <2>11 DEF IdIn
    <3>2. c[g + 1] \in {"??", debugFunction[site]}
      BY <2>1, <2>11
    <3>3. c[h + 1] \in {procMap[i].file : i \in LinesOf(procMap, site)}
      BY <1>3, <2>1, <2>11
    <3> QED
      BY <1>3, <1>5, <3>1, <3>2, <3>3 DEF SiteKnown
  <2> HIDE DEF Replaced
  <2> QED
    BY <1>4, <2>8, <2>12, <2>13
<1> QED
  BY <1>6, <1>7

(* AfterAnswers takes the answers one by one.                              *)
LEMMA AnswersInTurn ==
    ASSUME NEW lst, NEW answer, NEW n \in Nat
    PROVE  \E known :
              /\ known[0] = [names |-> strings, sites |-> callSiteMap]
              /\ \A i \in 1 .. n : known[i] = Answered(known[i - 1], lst[i], answer[i])
              /\ AfterAnswers(lst, answer, n) = known[n]
<1>1. PICK base : base = [names |-> strings, sites |-> callSiteMap]
  OBVIOUS
<1> DEFINE Run(f, m) == f = [i \in 0 .. m |-> IF i = 0 THEN base
                                              ELSE Answered(f[i - 1], lst[i], answer[i])]
<1>2. \A m \in Nat : \E f : Run(f, m)
  <2> DEFINE T == {m \in Nat : ~\E f : Run(f, m)}
  <2>1. SUFFICES ASSUME T # {} PROVE FALSE
    OBVIOUS
  <2>2. PICK m \in T : \A k \in T : m <= k
    <3>1. T \in SUBSET Nat
      OBVIOUS
    <3> HIDE DEF T
    <3> QED
      BY <2>1, <3>1, LeastNatural
  <2>3. CASE m = 0
    <3>1. PICK f : f = [i \in 0 .. 0 |-> base]
      OBVIOUS
    <3>2. \A i \in 0 .. 0 : i = 0
      OBVIOUS
    <3>3. [i \in 0 .. 0 |-> IF i = 0 THEN base ELSE Answered(f[i - 1], lst[i], answer[i])]
              = [i \in 0 .. 0 |-> base]
      BY <3>2
    <3> QED
      BY <2>2, <2>3, <3>1, <3>3
  <2>4. CASE m # 0
    <3>1. m \in Nat /\ m - 1 \in Nat /\ m - 1 \notin T
      <4>1. m \in Nat
        BY <2>2
      <4>2. m - 1 \in Nat /\ ~(m <= m - 1)
        BY <2>4, <4>1
      <4> HIDE DEF T
      <4> QED
        BY <2>2, <4>1, <4>2
    <3>2. PICK g : Run(g, m - 1)
      BY <3>1
    <3>3. /\ g[0] = base
          /\ \A i \in 1 .. m - 1 : g[i] = Answered(g[i - 1], lst[i], answer[i])
      BY <3>1, <3>2
    <3> HIDE DEF Run
    <3>4. PICK f : f = [i \in 0 .. m |-> IF i = m THEN Answered(g[m - 1], lst[m], answer[m])
                                                  ELSE g[i]]
      OBVIOUS
    <3>5. \A i \in 0 .. m - 1 : i \in 0 .. m /\ i # m /\ f[i] = g[i]
      BY <3>1, <3>4
    <3>6. \A i \in 0 .. m : f[i] = IF i = 0 THEN base
                                   ELSE Answered(f[i - 1], lst[i], answer[i])
      <4> TAKE i \in 0 .. m
      <4>1. CASE i = 0
        BY <2>4, <3>1, <3>3, <3>5, <4>1
      <4>2. CASE i # 0 /\ i = m
        <5>1. f[i] = Answered(g[i - 1], lst[i], answer[i])
          BY <3>4, <4>2
        <5>2. f[i - 1] = g[i - 1]
          BY <3>1, <3>5, <4>2
        <5> QED
          BY <4>2, <5>1, <5>2
      <4>3. CASE i # 0 /\ i # m
        <5>1. i \in 1 .. m - 1 /\ i \in 0 .. m - 1 /\ i - 1 \in 0 .. m - 1
          BY <3>1, <4>3
        <5> QED
          BY <3>3, <3>5, <4>3, <5>1
      <4> QED
        BY <4>1, <4>2, <4>3
    <3>7. f = [i \in 0 .. m |-> IF i = 0 THEN base
                                ELSE Answered(f[i - 1], lst[i], answer[i])]
      BY <3>4, <3>6
    <3> QED
      BY <2>2, <3>7 DEF Run
  <2> QED
    BY <2>3, <2>4
<1> DEFINE known[i \in 0 .. n] ==
               IF i = 0 THEN [names |-> strings, sites |-> callSiteMap]
               ELSE Answered(known[i - 1], lst[i], answer[i])
<1>3. AfterAnswers(lst, answer, n) = known[n]
  BY DEF AfterAnswers
<1>4. Run(known, n)
  <2>1. known = CHOOSE f : Run(f, n)
    BY <1>1
  <2> HIDE DEF known, Run
  <2> QED
    BY <1>2, <2>1
<1> HIDE DEF known
<1>5. known[0] = base /\ \A i \in 1 .. n : known[i] = Answered(known[i - 1], lst[i], answer[i])
  BY <1>4
<1> QED
  BY <1>1, <1>3, <1>5

(* The sites of a line of the map are instructions.                        *)
LEMMA InLineIsCode ==
    ASSUME procMap \in ProcMaps, entry \in 1 .. Len(procMap),
           Known(procMap, strings, callSiteMap),
           DOMAIN callSiteMap \subseteq Site \cup {Others}
    PROVE  InLine(entry) \in SUBSET Nat /\ IsFiniteSet(InLine(entry)) /\ InLine(entry) \subseteq Site
<1>1. ASSUME NEW site \in InLine(entry)
      PROVE  site \in Site
  <2>1. site \in DOMAIN callSiteMap /\ callSiteMap[site].mapEntry = entry
    BY DEF InLine
  <2>2. entry # NoEntry /\ SiteKnown(procMap, strings, site, callSiteMap[site])
    BY <2>1, LineType DEF Known, NoEntry
  <2>3. entry \in DOMAIN procMap /\ site \in procMap[entry].lower .. procMap[entry].upper - 1
    BY <2>1, <2>2 DEF SiteKnown, LinesOf
  <2>4. procMap[entry].lower \in Nat /\ procMap[entry].upper \in Nat /\ Others < procMap[entry].lower
    BY <2>3, LineType
  <2>5. site # Others
    BY <2>3, <2>4 DEF Others
  <2> QED
    BY <2>1, <2>5
<1> QED
  BY <1>1, NamesAssumption, FS_Subset

(* What is known stays so whatever number of answers came, and of whatever *)
(* form: solveNames takes the answers in the order it asked for them.      *)
LEMMA AnswersKeep ==
    ASSUME procMap \in ProcMaps, entry \in 1 .. Len(procMap),
           Known(procMap, strings, callSiteMap),
           DOMAIN callSiteMap \subseteq Site \cup {Others},
           NEW n \in 0 .. Len(InOrder(InLine(entry))),
           NEW answer \in [1 .. n -> {"found", "unknown", "malformed"}]
    PROVE  LET after == AfterAnswers(InOrder(InLine(entry)), answer, n)
           IN  /\ Known(procMap, after.names, after.sites)
               /\ DOMAIN after.sites = DOMAIN callSiteMap
<1>1. PICK lst : lst = InOrder(InLine(entry))
  OBVIOUS
<1>2. PICK k \in Nat : lst \in [1 .. k -> InLine(entry)]
  BY <1>1, InLineIsCode, InOrderLists
<1>3. Len(lst) = k
  BY <1>2, LengthOf
<1>4. n \in Nat /\ n <= k
  BY <1>1, <1>2, <1>3
<1>5. PICK known :
          /\ known[0] = [names |-> strings, sites |-> callSiteMap]
          /\ \A i \in 1 .. n : known[i] = Answered(known[i - 1], lst[i], answer[i])
          /\ AfterAnswers(lst, answer, n) = known[n]
  BY <1>4, AnswersInTurn
<1> DEFINE Good(i) ==
      /\ Known(procMap, known[i].names, known[i].sites)
      /\ DOMAIN known[i].sites = DOMAIN callSiteMap
      /\ \A s \in DOMAIN callSiteMap : known[i].sites[s].mapEntry = callSiteMap[s].mapEntry
<1>6. Good(0)
  BY <1>5
<1>7. ASSUME NEW i \in 1 .. n, Good(i - 1) PROVE Good(i)
  <2>1. lst[i] \in InLine(entry)
    BY <1>2, <1>4
  <2>2. lst[i] \in Site /\ lst[i] \in DOMAIN callSiteMap /\ callSiteMap[lst[i]].mapEntry = entry
    BY <2>1, InLineIsCode DEF InLine
  <2>3. PICK before : before = known[i - 1]
    OBVIOUS
  <2>4. /\ Known(procMap, before.names, before.sites)
        /\ DOMAIN before.sites = DOMAIN callSiteMap
        /\ \A s \in DOMAIN callSiteMap : before.sites[s].mapEntry = callSiteMap[s].mapEntry
    BY <1>7, <2>3
  <2>5. answer[i] \in {"found", "unknown", "malformed"}
    OBVIOUS
  <2>6. lst[i] \in DOMAIN before.sites /\ before.sites[lst[i]].mapEntry = entry
    BY <2>2, <2>4
  <2>7. PICK next : next = Answered(before, lst[i], answer[i])
    OBVIOUS
  <2>8. /\ Known(procMap, next.names, next.sites)
        /\ DOMAIN next.sites = DOMAIN before.sites
        /\ \A s \in DOMAIN before.sites : next.sites[s].mapEntry = before.sites[s].mapEntry
    BY <2>2, <2>4, <2>5, <2>6, <2>7, AnsweredKeeps
  <2>9. known[i] = next
    BY <1>5, <2>3, <2>7
  <2> QED
    BY <2>4, <2>8, <2>9
<1> HIDE DEF Good
<1>8. \A i \in 0 .. n : Good(i)
  <2> DEFINE T == {i \in 0 .. n : ~Good(i)}
  <2>1. SUFFICES ASSUME T # {} PROVE FALSE
    OBVIOUS
  <2>2. PICK m \in T : \A i \in T : m <= i
    <3>1. T \in SUBSET Nat
      BY <1>4
    <3> HIDE DEF T
    <3> QED
      BY <2>1, <3>1, LeastNatural
  <2>3. m \in 0 .. n /\ ~Good(m) /\ m # 0
    BY <1>6, <2>2
  <2>4. m - 1 \in 0 .. n /\ m \in 1 .. n /\ ~(m <= m - 1)
    BY <1>4, <2>3
  <2>5. Good(m - 1)
    <3>1. m - 1 \notin T
      <4> HIDE DEF T
      <4> QED
        BY <2>2, <2>4
    <3> QED
      BY <2>4, <3>1
  <2> QED
    BY <1>7, <2>3, <2>4, <2>5
<1>9. Good(n)
  BY <1>4, <1>8
<1> QED
  BY <1>1, <1>5, <1>9 DEF Good

-----------------------------------------------------------------------------
(* The symbols of backtrace_symbols.                                       *)

CallSiteOf(map, names) ==
    [file : IdIn(names), function : IdIn(names), binary : IdIn(names),
     mapEntry : 0 .. Len(map)]

Typed(map, names, sites) ==
    IsNames(names) /\ \A site \in DOMAIN sites : sites[site] \in CallSiteOf(map, names)

(* A site whose function is now the name, and is otherwise as before.      *)
NamedBy(new, old, names, name) ==
    /\ new.file = old.file /\ new.binary = old.binary /\ new.mapEntry = old.mapEntry
    /\ new.function \in 0 .. Len(names) - 1
    /\ names[new.function + 1] = name

(* The ids of a call site stay ids when names are added.                   *)
LEMMA IdsStill ==
    ASSUME NEW map, NEW a, NEW b, IsNames(a), Extends(b, a)
    PROVE  CallSiteOf(map, a) \subseteq CallSiteOf(map, b)
<1>1. Len(a) \in Nat /\ Len(b) \in Nat /\ Len(a) <= Len(b)
  BY DEF Extends, IsNames
<1>2. IdIn(a) \subseteq IdIn(b)
  BY <1>1 DEF IdIn
<1> QED
  BY <1>2 DEF CallSiteOf

(* The function of a site keeps its name when names are added.             *)
LEMMA NamedStill ==
    ASSUME NEW new, NEW old, NEW a, NEW b, NEW name,
           IsNames(a), Extends(b, a), NamedBy(new, old, a, name)
    PROVE  NamedBy(new, old, b, name)
<1>1. Len(a) \in Nat /\ Len(b) \in Nat /\ Len(a) <= Len(b)
  BY DEF Extends, IsNames
<1>2. new.function + 1 \in 1 .. Len(a) /\ new.function \in 0 .. Len(b) - 1
  BY <1>1 DEF NamedBy
<1> QED
  BY <1>2 DEF NamedBy, Extends

(* AllPaired takes the sites one by one.                                   *)
LEMMA PairsInTurn ==
    ASSUME NEW res, NEW known, NEW sites, NEW n \in Nat,
           sites = toResolve(known.names, known.sites), Len(sites) = n
    PROVE  \E paired :
              /\ paired[0] = known
              /\ \A i \in 1 .. n : paired[i] = Paired(paired[i - 1], sites[i], res[i])
              /\ AllPaired(res, known) = paired[n]
<1> DEFINE Run(f, m) == f = [i \in 0 .. m |-> IF i = 0 THEN known
                                              ELSE Paired(f[i - 1], sites[i], res[i])]
<1>2. \A m \in Nat : \E f : Run(f, m)
  <2> DEFINE T == {m \in Nat : ~\E f : Run(f, m)}
  <2>1. SUFFICES ASSUME T # {} PROVE FALSE
    OBVIOUS
  <2>2. PICK m \in T : \A k \in T : m <= k
    <3>1. T \in SUBSET Nat
      OBVIOUS
    <3> HIDE DEF T
    <3> QED
      BY <2>1, <3>1, LeastNatural
  <2>3. CASE m = 0
    <3>1. PICK f : f = [i \in 0 .. 0 |-> known]
      OBVIOUS
    <3>2. \A i \in 0 .. 0 : i = 0
      OBVIOUS
    <3>3. [i \in 0 .. 0 |-> IF i = 0 THEN known ELSE Paired(f[i - 1], sites[i], res[i])]
              = [i \in 0 .. 0 |-> known]
      BY <3>2
    <3> QED
      BY <2>2, <2>3, <3>1, <3>3
  <2>4. CASE m # 0
    <3>1. m \in Nat /\ m - 1 \in Nat /\ m - 1 \notin T
      <4>1. m \in Nat
        BY <2>2
      <4>2. m - 1 \in Nat /\ ~(m <= m - 1)
        BY <2>4, <4>1
      <4> HIDE DEF T
      <4> QED
        BY <2>2, <4>1, <4>2
    <3>2. PICK g : Run(g, m - 1)
      BY <3>1
    <3>3. /\ g[0] = known
          /\ \A i \in 1 .. m - 1 : g[i] = Paired(g[i - 1], sites[i], res[i])
      BY <3>1, <3>2
    <3> HIDE DEF Run
    <3>4. PICK f : f = [i \in 0 .. m |-> IF i = m THEN Paired(g[m - 1], sites[m], res[m])
                                                  ELSE g[i]]
      OBVIOUS
    <3>5. \A i \in 0 .. m - 1 : i \in 0 .. m /\ i # m /\ f[i] = g[i]
      BY <3>1, <3>4
    <3>6. \A i \in 0 .. m : f[i] = IF i = 0 THEN known
                                   ELSE Paired(f[i - 1], sites[i], res[i])
      <4> TAKE i \in 0 .. m
      <4>1. CASE i = 0
        BY <2>4, <3>1, <3>3, <3>5, <4>1
      <4>2. CASE i # 0 /\ i = m
        <5>1. f[i] = Paired(g[i - 1], sites[i], res[i])
          BY <3>4, <4>2
        <5>2. f[i - 1] = g[i - 1]
          BY <3>1, <3>5, <4>2
        <5> QED
          BY <4>2, <5>1, <5>2
      <4>3. CASE i # 0 /\ i # m
        <5>1. i \in 1 .. m - 1 /\ i \in 0 .. m - 1 /\ i - 1 \in 0 .. m - 1
          BY <3>1, <4>3
        <5> QED
          BY <3>3, <3>5, <4>3, <5>1
      <4> QED
        BY <4>1, <4>2, <4>3
    <3>7. f = [i \in 0 .. m |-> IF i = 0 THEN known
                                ELSE Paired(f[i - 1], sites[i], res[i])]
      BY <3>4, <3>6
    <3> QED
      BY <2>2, <3>7 DEF Run
  <2> QED
    BY <2>3, <2>4
<1> DEFINE paired[i \in 0 .. n] ==
               IF i = 0 THEN known ELSE Paired(paired[i - 1], sites[i], res[i])
<1>3. AllPaired(res, known) = paired[n]
  BY DEF AllPaired
<1>4. Run(paired, n)
  <2>1. paired = CHOOSE f : Run(f, n)
    OBVIOUS
  <2> HIDE DEF paired, Run
  <2> QED
    BY <1>2, <2>1
<1> HIDE DEF paired
<1>5. paired[0] = known /\ \A i \in 1 .. n : paired[i] = Paired(paired[i - 1], sites[i], res[i])
  BY <1>4
<1> QED
  BY <1>3, <1>5

(* One symbol.                                                             *)
LEMMA PairedNames ==
    ASSUME NEW map, NEW known, Typed(map, known.names, known.sites),
           NEW site \in DOMAIN known.sites, NEW symbol \in Text
    PROVE  LET next == Paired(known, site, symbol)
           IN  /\ Extends(next.names, known.names)
               /\ Typed(map, next.names, next.sites)
               /\ DOMAIN next.sites = DOMAIN known.sites
               /\ \A s \in DOMAIN known.sites :
                     s # site => next.sites[s] = known.sites[s]
               /\ NamedBy(next.sites[site], known.sites[site], next.names, symbol)
<1>1. PICK old, sites : old = known.names /\ sites = known.sites
  OBVIOUS
<1>2. /\ IsNames(old) /\ site \in DOMAIN sites
      /\ \A s \in DOMAIN sites : sites[s] \in CallSiteOf(map, old)
  BY <1>1 DEF Typed
<1>3. PICK names : names = Interned(old, symbol)
  OBVIOUS
<1>4. Extends(names, old) /\ Has(names, symbol) /\ IsNames(names)
  BY <1>2, <1>3, InternedExtends DEF Extends
<1>5. PICK id : id = IdOf(names, symbol)
  OBVIOUS
<1>6. id \in 0 .. Len(names) - 1 /\ names[id + 1] = symbol
  BY <1>4, <1>5, IdLeadsToName
<1>7. PICK new : new = [sites EXCEPT ![site].function = id]
  OBVIOUS
<1>8. Paired(known, site, symbol) = [names |-> names, sites |-> new]
  BY <1>1, <1>3, <1>5, <1>7 DEF Paired
<1>9. /\ DOMAIN new = DOMAIN sites
      /\ new[site] = [sites[site] EXCEPT !.function = id]
      /\ \A s \in DOMAIN sites : s # site => new[s] = sites[s]
  BY <1>2, <1>7
<1>10. \A s \in DOMAIN sites : sites[s] \in CallSiteOf(map, names)
  BY <1>2, <1>4, IdsStill
<1>11. id \in IdIn(names)
  BY <1>6 DEF IdIn
<1>12. /\ new[site] \in CallSiteOf(map, names)
       /\ new[site].file = sites[site].file /\ new[site].binary = sites[site].binary
       /\ new[site].mapEntry = sites[site].mapEntry /\ new[site].function = id
  BY <1>2, <1>9, <1>10, <1>11 DEF CallSiteOf
<1>13. \A s \in DOMAIN new : new[s] \in CallSiteOf(map, names)
  BY <1>9, <1>10, <1>12
<1>14. NamedBy(new[site], sites[site], names, symbol)
  BY <1>6, <1>12 DEF NamedBy
<1> QED
  BY <1>1, <1>4, <1>8, <1>9, <1>13, <1>14 DEF Typed

Missing(names, sites) == {s \in DOMAIN sites : Unresolved(names, sites[s])}

(* The list of toResolve: the unresolved sites, each once.                 *)
LEMMA ToResolveLists ==
    ASSUME NEW names, NEW sites, DOMAIN sites \subseteq Site \cup {Others},
           NEW missing, missing = Missing(names, sites),
           NEW list, list = toResolve(names, sites)
    PROVE  /\ IsFiniteSet(missing)
           /\ \E n \in Nat :
                 /\ n = Cardinality(missing)
                 /\ list \in [1 .. n -> missing] /\ Len(list) = n
                 /\ \A i, j \in 1 .. n : list[i] = list[j] => i = j
                 /\ \A s \in missing : \E i \in 1 .. n : list[i] = s
<1>1. missing \in SUBSET Nat /\ IsFiniteSet(missing)
  <2>1. Site \cup {Others} \subseteq Nat
    BY NamesAssumption DEF Others
  <2>2. IsFiniteSet(Site \cup {Others})
    BY NamesAssumption, FS_AddElement
  <2> QED
    BY <2>1, <2>2, FS_Subset DEF Missing
<1>2. list = InOrder(missing)
  BY DEF toResolve, Missing
<1>3. PICK n \in Nat : n = Cardinality(missing)
  BY <1>1, InOrderLists
<1>4. /\ list \in [1 .. n -> missing]
      /\ \A i, j \in 1 .. n : list[i] = list[j] => i = j
      /\ \A s \in missing : \E i \in 1 .. n : list[i] = s
  <2>1. /\ InOrder(missing) \in [1 .. Cardinality(missing) -> missing]
        /\ \A i, j \in 1 .. Cardinality(missing) :
              InOrder(missing)[i] = InOrder(missing)[j] => i = j
        /\ \A s \in missing : \E i \in 1 .. Cardinality(missing) : InOrder(missing)[i] = s
    BY <1>1, InOrderLists
  <2> QED
    BY <1>2, <1>3, <2>1
<1>5. Len(list) = n
  BY <1>4, LengthOf
<1> QED
  BY <1>1, <1>3, <1>4, <1>5

(* Each unresolved site of known has in solved the symbol of its place in  *)
(* the list, and the others are as they were.                              *)
InTheirPlaces(map, known, list, res, solved) ==
    /\ Extends(solved.names, known.names)
    /\ Typed(map, solved.names, solved.sites)
    /\ DOMAIN solved.sites = DOMAIN known.sites
    /\ \A s \in DOMAIN known.sites :
          IF Unresolved(known.names, known.sites[s])
          THEN \E i \in 1 .. Len(list) :
                  /\ list[i] = s
                  /\ NamedBy(solved.sites[s], known.sites[s], solved.names, res[i])
          ELSE solved.sites[s] = known.sites[s]

(* The second loop of solveMissings gives each unresolved site the symbol  *)
(* at its place in the list, and changes no other site.                    *)
LEMMA PairsKeep ==
    ASSUME NEW map, NEW known, Typed(map, known.names, known.sites),
           DOMAIN known.sites \subseteq Site \cup {Others},
           NEW list, list = toResolve(known.names, known.sites),
           NEW res, \A i \in 1 .. Len(list) : res[i] \in Text
    PROVE  InTheirPlaces(map, known, list, res, AllPaired(res, known))
<1>1. PICK old, sites : old = known.names /\ sites = known.sites
  OBVIOUS
<1>2. PICK missing : missing = Missing(old, sites)
  OBVIOUS
<1>3. PICK n \in Nat :
          /\ list \in [1 .. n -> missing] /\ Len(list) = n
          /\ \A i, j \in 1 .. n : list[i] = list[j] => i = j
          /\ \A s \in missing : \E i \in 1 .. n : list[i] = s
  <2>1. list = toResolve(old, sites) /\ DOMAIN sites \subseteq Site \cup {Others}
    BY <1>1
  <2> QED
    BY ONLY <1>2, <2>1, ToResolveLists
<1>4. PICK paired :
          /\ paired[0] = known
          /\ \A i \in 1 .. n : paired[i] = Paired(paired[i - 1], list[i], res[i])
          /\ AllPaired(res, known) = paired[n]
  <2>1. Len(list) = n
    BY <1>3
  <2> QED
    BY ONLY n \in Nat, <2>1, list = toResolve(known.names, known.sites), PairsInTurn
<1>5. IsNames(old)
  BY <1>1 DEF Typed
<1> DEFINE Good(i) ==
      /\ Extends(paired[i].names, old)
      /\ Typed(map, paired[i].names, paired[i].sites)
      /\ DOMAIN paired[i].sites = DOMAIN sites
      /\ \A j \in 1 .. n : j <= i =>
            NamedBy(paired[i].sites[list[j]], sites[list[j]], paired[i].names, res[j])
      /\ \A s \in DOMAIN sites :
            (\A j \in 1 .. n : j <= i => list[j] # s) => paired[i].sites[s] = sites[s]
<1>6. Good(0)
  <2>1. Extends(old, old) /\ \A j \in 1 .. n : ~(j <= 0)
    BY <1>5, ExtendsItself
  <2> QED
    BY <1>1, <1>4, <2>1
<1>7. ASSUME NEW i \in 1 .. n, Good(i - 1) PROVE Good(i)
  <2>1. PICK before : before = paired[i - 1]
    OBVIOUS
  <2>2. /\ Extends(before.names, old)
        /\ Typed(map, before.names, before.sites)
        /\ DOMAIN before.sites = DOMAIN sites
        /\ \A j \in 1 .. n : j <= i - 1 =>
              NamedBy(before.sites[list[j]], sites[list[j]], before.names, res[j])
        /\ \A s \in DOMAIN sites :
              (\A j \in 1 .. n : j <= i - 1 => list[j] # s) => before.sites[s] = sites[s]
    BY <1>7, <2>1
  <2>3. list[i] \in DOMAIN sites /\ res[i] \in Text
    BY <1>2, <1>3 DEF Missing
  <2>4. PICK next : next = Paired(before, list[i], res[i])
    OBVIOUS
  <2>5. /\ Extends(next.names, before.names)
        /\ Typed(map, next.names, next.sites)
        /\ DOMAIN next.sites = DOMAIN before.sites
        /\ \A s \in DOMAIN before.sites : s # list[i] => next.sites[s] = before.sites[s]
        /\ NamedBy(next.sites[list[i]], before.sites[list[i]], next.names, res[i])
    <3>1. list[i] \in DOMAIN before.sites /\ Typed(map, before.names, before.sites)
      BY <2>2, <2>3
    <3> QED
      BY ONLY <2>3, <2>4, <3>1, PairedNames
  <2>6. Extends(next.names, old)
    BY <1>5, <2>2, <2>5, ExtendsFurther
  <2>7. ASSUME NEW j \in 1 .. n, j <= i
        PROVE  NamedBy(next.sites[list[j]], sites[list[j]], next.names, res[j])
    <3>1. CASE j = i
      <4>1. \A k \in 1 .. n : k <= i - 1 => list[k] # list[i]
        BY <1>3
      <4>2. before.sites[list[i]] = sites[list[i]]
        BY <2>2, <2>3, <4>1
      <4> QED
        BY <2>5, <3>1, <4>2
    <3>2. CASE j # i
      <4>1. j <= i - 1 /\ list[j] # list[i] /\ list[j] \in DOMAIN before.sites
        BY <1>2, <1>3, <2>2, <2>7, <3>2 DEF Missing
      <4>2. next.sites[list[j]] = before.sites[list[j]]
        BY <2>5, <4>1
      <4>3. NamedBy(before.sites[list[j]], sites[list[j]], before.names, res[j])
        BY <2>2, <4>1
      <4>4. IsNames(before.names)
        BY <2>2 DEF Extends
      <4>5. NamedBy(before.sites[list[j]], sites[list[j]], next.names, res[j])
        BY <2>5, <4>3, <4>4, NamedStill
      <4> QED
        BY <4>2, <4>5
    <3> QED
      BY <3>1, <3>2
  <2>8. ASSUME NEW s \in DOMAIN sites, \A j \in 1 .. n : j <= i => list[j] # s
        PROVE  next.sites[s] = sites[s]
    <3>1. s # list[i] /\ \A j \in 1 .. n : j <= i - 1 => list[j] # s
      BY <2>8
    <3> QED
      BY <2>2, <2>5, <3>1
  <2>9. paired[i] = next
    BY <1>4, <2>1, <2>4
  <2> QED
    BY <2>2, <2>5, <2>6, <2>7, <2>8, <2>9
<1> HIDE DEF Good
<1>8. \A i \in 0 .. n : Good(i)
  <2> DEFINE T == {i \in 0 .. n : ~Good(i)}
  <2>1. SUFFICES ASSUME T # {} PROVE FALSE
    OBVIOUS
  <2>2. PICK m \in T : \A i \in T : m <= i
    <3>1. T \in SUBSET Nat
      OBVIOUS
    <3> HIDE DEF T
    <3> QED
      BY <2>1, <3>1, LeastNatural
  <2>3. m \in 0 .. n /\ ~Good(m) /\ m # 0
    BY <1>6, <2>2
  <2>4. m - 1 \in 0 .. n /\ m \in 1 .. n /\ ~(m <= m - 1)
    BY <2>3
  <2>5. Good(m - 1)
    <3>1. m - 1 \notin T
      <4> HIDE DEF T
      <4> QED
        BY <2>2, <2>4
    <3> QED
      BY <2>4, <3>1
  <2> QED
    BY <1>7, <2>3, <2>4, <2>5
<1>9. PICK solved : solved = AllPaired(res, known)
  OBVIOUS
<1>10. /\ Extends(solved.names, old)
       /\ Typed(map, solved.names, solved.sites)
       /\ DOMAIN solved.sites = DOMAIN sites
       /\ \A j \in 1 .. n : NamedBy(solved.sites[list[j]], sites[list[j]], solved.names, res[j])
       /\ \A s \in DOMAIN sites :
             (\A j \in 1 .. n : list[j] # s) => solved.sites[s] = sites[s]
  <2>1. Good(n) /\ \A j \in 1 .. n : j <= n
    BY <1>8
  <2> QED
    BY <1>4, <1>9, <2>1 DEF Good
<1>11. ASSUME NEW s \in DOMAIN sites
       PROVE  IF Unresolved(old, sites[s])
              THEN \E i \in 1 .. n : /\ list[i] = s
                                     /\ NamedBy(solved.sites[s], sites[s], solved.names, res[i])
              ELSE solved.sites[s] = sites[s]
  <2>1. CASE Unresolved(old, sites[s])
    <3>1. PICK i \in 1 .. n : list[i] = s
      BY <1>2, <1>3, <2>1 DEF Missing
    <3> QED
      BY <1>10, <2>1, <3>1
  <2>2. CASE ~Unresolved(old, sites[s])
    <3>1. \A j \in 1 .. n : list[j] # s
      BY <1>2, <1>3, <2>2 DEF Missing
    <3> QED
      BY <1>10, <2>2, <3>1
  <2> QED
    BY <2>1, <2>2
<1> QED
  BY <1>1, <1>3, <1>9, <1>10, <1>11 DEF InTheirPlaces

(* removeSmall: what it has cut is named at once, the rest is not touched. *)
LEMMA OthersAreNamed ==
    ASSUME NEW map \in ProcMaps, NEW known, Typed(map, known.names, known.sites)
    PROVE  LET next == WithOthers(known)
           IN  /\ Extends(next.names, known.names)
               /\ Typed(map, next.names, next.sites)
               /\ DOMAIN next.sites = DOMAIN known.sites
               /\ \A s \in DOMAIN known.sites :
                     s # Others => next.sites[s] = known.sites[s]
               /\ Others \in DOMAIN known.sites =>
                     /\ ~Unresolved(next.names, next.sites[Others])
                     /\ next.sites[Others].binary = 0
               /\ Others \notin DOMAIN known.sites => next = known
<1>1. PICK old, sites : old = known.names /\ sites = known.sites
  OBVIOUS
<1>2. IsNames(old) /\ \A s \in DOMAIN sites : sites[s] \in CallSiteOf(map, old)
  BY <1>1 DEF Typed
<1>3. CASE Others \notin DOMAIN sites
  <2>1. WithOthers(known) = known
    BY <1>1, <1>3 DEF WithOthers
  <2> QED
    BY <1>1, <1>2, <1>3, <2>1, ExtendsItself
<1>4. CASE Others \in DOMAIN sites
  <2>1. PICK names : names = Interned(old, "others")
    OBVIOUS
  <2>2. Extends(names, old) /\ Has(names, "others") /\ IsNames(names)
    BY <1>2, <2>1, NamesAssumption, InternedExtends DEF Extends
  <2>3. PICK id : id = IdOf(names, "others")
    OBVIOUS
  <2>4. id \in 0 .. Len(names) - 1 /\ names[id + 1] = "others"
    BY <2>2, <2>3, IdLeadsToName
  <2>5. PICK other : other = [file |-> 0, function |-> id, binary |-> 0, mapEntry |-> 1]
    OBVIOUS
  <2>6. PICK new : new = [sites EXCEPT ![Others] = other]
    OBVIOUS
  <2>7. WithOthers(known) = [names |-> names, sites |-> new]
    BY <1>1, <1>4, <2>1, <2>3, <2>5, <2>6 DEF WithOthers
  <2>8. /\ DOMAIN new = DOMAIN sites /\ new[Others] = other
        /\ \A s \in DOMAIN sites : s # Others => new[s] = sites[s]
    BY <1>4, <2>6
  <2>9. other \in CallSiteOf(map, names)
    <3>1. Len(names) \in Nat /\ Len(names) # 0
      BY <2>2 DEF IsNames
    <3>2. id \in IdIn(names) /\ 0 \in IdIn(names)
      BY <2>4, <3>1 DEF IdIn
    <3>3. 1 \in 0 .. Len(map)
      BY LineType
    <3> QED
      BY <2>5, <3>2, <3>3 DEF CallSiteOf
  <2>10. \A s \in DOMAIN new : new[s] \in CallSiteOf(map, names)
    <3>1. \A s \in DOMAIN sites : sites[s] \in CallSiteOf(map, names)
      BY <1>2, <2>2, IdsStill
    <3> QED
      BY <2>8, <2>9, <3>1
  <2>11. ~Unresolved(names, new[Others]) /\ new[Others].binary = 0
    BY <2>4, <2>5, <2>8 DEF Unresolved, Unset
  <2> QED
    BY <1>1, <1>4, <2>2, <2>7, <2>8, <2>10, <2>11 DEF Typed
<1> QED
  BY <1>1, <1>3, <1>4

(* What a written profile says of a site.                                  *)
SiteNamed(map, names, site, known) ==
    /\ known \in CallSiteOf(map, names)
    /\ known.function # Unset
    /\ known.binary # Unset =>
           names[known.binary + 1] \in {"??"} \cup {map[i].file : i \in LinesOf(map, site)}
    /\ ~RemoveSmall =>
           names[known.function + 1] \in {debugFunction[site], dynamicSymbol[site]}

(* solveMissings names every site: the list of the second loop is that of  *)
(* the first, without what removeSmall has cut.                            *)
LEMMA MissingsAreNamed ==
    ASSUME procMap \in ProcMaps, Known(procMap, strings, callSiteMap),
           DOMAIN callSiteMap \subseteq Site \cup {Others},
           ~RemoveSmall => Others \notin DOMAIN callSiteMap
    PROVE  LET known == WithOthers([names |-> strings, sites |-> callSiteMap])
               solved == AllPaired(BacktraceSymbols, known)
           IN  /\ IsNames(solved.names)
               /\ DOMAIN solved.sites = DOMAIN callSiteMap
               /\ \A site \in DOMAIN callSiteMap :
                     SiteNamed(procMap, solved.names, site, solved.sites[site])
<1>1. PICK base : base = [names |-> strings, sites |-> callSiteMap]
  OBVIOUS
<1>2. PICK known : known = WithOthers(base)
  OBVIOUS
<1>3. /\ IsNames(strings)
      /\ \A s \in DOMAIN callSiteMap :
            /\ SiteKnown(procMap, strings, s, callSiteMap[s])
            /\ callSiteMap[s] \in CallSiteOf(procMap, strings)
  BY DEF Known, SiteKnown, CallSiteOf
<1>4. Typed(procMap, base.names, base.sites)
  BY <1>1, <1>3 DEF Typed
<1>5. /\ Extends(known.names, strings)
      /\ Typed(procMap, known.names, known.sites)
      /\ DOMAIN known.sites = DOMAIN callSiteMap
      /\ \A s \in DOMAIN callSiteMap : s # Others => known.sites[s] = callSiteMap[s]
      /\ Others \in DOMAIN callSiteMap =>
            /\ ~Unresolved(known.names, known.sites[Others])
            /\ known.sites[Others].binary = 0
      /\ Others \notin DOMAIN callSiteMap => known = base
  <2>1. base.names = strings /\ base.sites = callSiteMap
    BY <1>1
  <2> QED
    BY <1>2, <1>4, <2>1, OthersAreNamed
<1>6. PICK list, asked : /\ list = toResolve(known.names, known.sites)
                         /\ asked = toResolve(strings, callSiteMap)
  OBVIOUS
<1>7. PICK before, after : /\ before = Missing(strings, callSiteMap)
                           /\ after = Missing(known.names, known.sites)
  OBVIOUS
<1>8. IsFiniteSet(before) /\ asked \in [1 .. Cardinality(before) -> before]
  BY <1>6, <1>7, ToResolveLists
<1>9. PICK n \in Nat : /\ n = Cardinality(after)
                       /\ list \in [1 .. n -> after] /\ Len(list) = n
  BY <1>5, <1>6, <1>7, ToResolveLists
<1>10. after \subseteq before
  <2> SUFFICES ASSUME NEW s \in DOMAIN callSiteMap,
                      Unresolved(known.names, known.sites[s])
               PROVE  Unresolved(strings, callSiteMap[s])
    BY <1>5, <1>7 DEF Missing
  <2>1. s # Others /\ known.sites[s] = callSiteMap[s]
    BY <1>5
  <2>2. callSiteMap[s].function \in IdIn(strings)
    BY <1>3 DEF CallSiteOf
  <2>3. CASE callSiteMap[s].function = Unset
    BY <2>3 DEF Unresolved
  <2>4. CASE callSiteMap[s].function # Unset
    <3>1. Len(strings) \in Nat
      BY <1>3 DEF IsNames
    <3>2. callSiteMap[s].function + 1 \in 1 .. Len(strings)
      BY <2>2, <2>4, <3>1 DEF IdIn
    <3>3. known.names[callSiteMap[s].function + 1] = strings[callSiteMap[s].function + 1]
      BY <1>5, <3>2 DEF Extends
    <3> QED
      BY <2>1, <2>4, <3>3 DEF Unresolved
  <2> QED
    BY <2>3, <2>4
<1>11. n <= Cardinality(before) /\ Cardinality(before) \in Nat
  BY <1>8, <1>9, <1>10, FS_Subset, FS_CardinalityType
<1>12. PICK res : res = BacktraceSymbols
  OBVIOUS
<1>13. res = [i \in 1 .. Cardinality(before) |-> dynamicSymbol[asked[i]]]
  BY <1>6, <1>8, <1>12 DEF BacktraceSymbols
<1>14. \A i \in 1 .. n : res[i] \in Text
  <2> TAKE i \in 1 .. n
  <2>1. i \in 1 .. Cardinality(before)
    BY <1>11
  <2>2. asked[i] \in Site \cup {Others}
    BY <1>7, <1>8, <2>1 DEF Missing
  <2> QED
    BY <1>13, <2>1, <2>2, NamesAssumption
<1>15. PICK solved : solved = AllPaired(res, known)
  OBVIOUS
<1>16. /\ Extends(solved.names, known.names)
       /\ Typed(procMap, solved.names, solved.sites)
       /\ DOMAIN solved.sites = DOMAIN callSiteMap
       /\ \A s \in DOMAIN callSiteMap :
             IF Unresolved(known.names, known.sites[s])
             THEN \E i \in 1 .. n :
                     /\ list[i] = s
                     /\ NamedBy(solved.sites[s], known.sites[s], solved.names, res[i])
             ELSE solved.sites[s] = known.sites[s]
  <2>1. DOMAIN known.sites \subseteq Site \cup {Others} /\ \A i \in 1 .. Len(list) : res[i] \in Text
    BY <1>5, <1>9, <1>14
  <2>2. Typed(procMap, known.names, known.sites) /\ list = toResolve(known.names, known.sites)
    BY <1>5, <1>6
  <2>3. InTheirPlaces(procMap, known, list, res, AllPaired(res, known))
    BY ONLY <2>1, <2>2, PairsKeep
  <2>4. InTheirPlaces(procMap, known, list, res, solved)
    BY <1>15, <2>3
  <2> QED
    BY <1>5, <1>9, <2>4 DEF InTheirPlaces
<1>17. Extends(solved.names, strings) /\ IsNames(solved.names) /\ IsNames(known.names)
  <2>1. IsNames(solved.names) /\ IsNames(known.names)
    BY <1>5, <1>16 DEF Extends
  <2> QED
    BY <1>3, <1>5, <1>16, <2>1, ExtendsFurther
<1>18. ASSUME NEW s \in DOMAIN callSiteMap
       PROVE  SiteNamed(procMap, solved.names, s, solved.sites[s])
  <2>1. solved.sites[s] \in CallSiteOf(procMap, solved.names)
    BY <1>16 DEF Typed
  <2>2. known.sites[s] \in CallSiteOf(procMap, known.names)
    BY <1>5 DEF Typed
  <2>3. solved.sites[s].binary = known.sites[s].binary /\ solved.sites[s].function # Unset
    <3>1. CASE Unresolved(known.names, known.sites[s])
      BY <1>16, <3>1 DEF NamedBy, Unset
    <3>2. CASE ~Unresolved(known.names, known.sites[s])
      BY <1>16, <3>2 DEF Unresolved
    <3> QED
      BY <3>1, <3>2
  <2>4. ASSUME solved.sites[s].binary # Unset
        PROVE  solved.names[solved.sites[s].binary + 1] \in
                   {"??"} \cup {procMap[i].file : i \in LinesOf(procMap, s)}
    <3>1. CASE s = Others
      <4>1. solved.names[1] = "??" /\ solved.sites[s].binary = 0
        BY <1>5, <1>17, <2>3, <3>1 DEF IsNames
      <4> QED
        BY <4>1
    <3>2. CASE s # Others
      <4>1. solved.sites[s].binary = callSiteMap[s].binary
        BY <1>5, <2>3, <3>2
      <4>2. callSiteMap[s].binary \in IdIn(strings) /\ callSiteMap[s].binary # Unset
        BY <1>3, <2>4, <4>1 DEF CallSiteOf
      <4>3. strings[callSiteMap[s].binary + 1] \in
                {"??"} \cup {procMap[i].file : i \in LinesOf(procMap, s)}
        BY <1>3, <4>2 DEF SiteKnown
      <4>4. callSiteMap[s].binary + 1 \in 1 .. Len(strings)
        <5>1. Len(strings) \in Nat
          BY <1>3 DEF IsNames
        <5> QED
          BY <4>2, <5>1 DEF IdIn
      <4> QED
        BY <1>17, <4>1, <4>3, <4>4 DEF Extends
    <3> QED
      BY <3>1, <3>2
  <2>5. ASSUME ~RemoveSmall
        PROVE  solved.names[solved.sites[s].function + 1] \in
                   {debugFunction[s], dynamicSymbol[s]}
    <3>1. known.names = strings /\ known.sites = callSiteMap /\ list = asked /\ after = before
      BY <1>1, <1>5, <1>6, <1>7, <2>5
    <3>2. CASE Unresolved(known.names, known.sites[s])
      <4>1. PICK i \in 1 .. n :
                /\ list[i] = s
                /\ NamedBy(solved.sites[s], known.sites[s], solved.names, res[i])
        BY <1>16, <3>2
      <4>2. res[i] = dynamicSymbol[s]
        BY <1>9, <1>13, <3>1, <4>1
      <4> QED
        BY <4>1, <4>2 DEF NamedBy
    <3>3. CASE ~Unresolved(known.names, known.sites[s])
      <4>1. solved.sites[s] = callSiteMap[s]
        BY <1>16, <3>1, <3>3
      <4>2. callSiteMap[s].function # Unset /\ strings[callSiteMap[s].function + 1] # "??"
        BY <3>1, <3>3 DEF Unresolved
      <4>3. strings[callSiteMap[s].function + 1] = debugFunction[s]
        BY <1>3, <4>2 DEF SiteKnown
      <4>4. callSiteMap[s].function + 1 \in 1 .. Len(strings)
        <5>1. Len(strings) \in Nat /\ callSiteMap[s].function \in IdIn(strings)
          BY <1>3 DEF IsNames, CallSiteOf
        <5> QED
          BY <4>2, <5>1 DEF IdIn
      <4> QED
        BY <1>17, <4>1, <4>3, <4>4 DEF Extends
    <3> QED
      BY <3>2, <3>3
  <2> QED
    BY <2>1, <2>3, <2>4, <2>5 DEF SiteNamed
<1> QED
  BY <1>1, <1>2, <1>12, <1>15, <1>16, <1>17, <1>18

-----------------------------------------------------------------------------
(* The inductive invariant.                                                *)

RegistryInv ==
    /\ keys \subseteq Site \cup {Others}
    /\ ~RemoveSmall => Others \notin keys
    /\ procMap \in ProcMaps \cup {<<>>}
    /\ DOMAIN callSiteMap \subseteq keys
    /\ IsNames(strings)
    /\ entry \in 1 .. Len(procMap) + 1
    /\ phase \in {"load", "register", "solve", "done", "aborted"}
    /\ IF phase = "load" THEN procMap = <<>> /\ DOMAIN callSiteMap = {}
                         ELSE procMap \in ProcMaps
    /\ phase \in {"load", "register"} => entry = 1
    /\ phase \in {"solve", "done"} => keys = DOMAIN callSiteMap
    /\ IF phase = "done"
       THEN \A site \in keys : SiteNamed(procMap, strings, site, callSiteMap[site])
       ELSE Known(procMap, strings, callSiteMap)

(* A site just registered: the first line it is in, and no name.           *)
LEMMA NewSiteIsKnown ==
    ASSUME procMap \in ProcMaps, IsNames(strings), NEW site \in Site \cup {Others}
    PROVE  SiteKnown(procMap, strings, site, NewCallSite(getMapEntry(site)))
<1>1. PICK lines : lines = {i \in DOMAIN procMap :
                              procMap[i].lower <= site /\ site < procMap[i].upper}
  OBVIOUS
<1>2. site \in Nat
  BY NamesAssumption DEF Others
<1>3. lines \subseteq LinesOf(procMap, site)
  <2> SUFFICES ASSUME NEW i \in DOMAIN procMap, procMap[i].lower <= site, site < procMap[i].upper
               PROVE  site \in procMap[i].lower .. procMap[i].upper - 1
    BY <1>1 DEF LinesOf
  <2>1. procMap[i].lower \in Nat /\ procMap[i].upper \in Nat
    BY LineType
  <2> QED
    BY <1>2, <2>1
<1>4. PICK line : line = getMapEntry(site)
  OBVIOUS
<1>5. line = IF lines = {} THEN NoEntry ELSE Min(lines)
  BY <1>1, <1>4 DEF getMapEntry
<1>6. line = NoEntry \/ line \in lines
  <2>1. CASE lines = {}
    BY <1>5, <2>1
  <2>2. CASE lines # {}
    <3>1. lines \in SUBSET Nat
      BY <1>1, LineType
    <3> QED
      BY <1>5, <2>2, <3>1, MinIsElement
  <2> QED
    BY <2>1, <2>2
<1>7. line \in 0 .. Len(procMap) /\ (line # NoEntry => line \in LinesOf(procMap, site))
  <2>1. Len(procMap) \in Nat /\ DOMAIN procMap = 1 .. Len(procMap)
    BY LineType
  <2> QED
    BY <1>1, <1>3, <1>6, <2>1 DEF NoEntry
<1>8. Unset \in IdIn(strings)
  BY DEF IdIn
<1> QED
  BY <1>4, <1>7, <1>8 DEF SiteKnown, NewCallSite

(* The registry before the map is read satisfies the inductive invariant.  *)
LEMMA RegistryInit == Init => RegistryInv
<1> SUFFICES ASSUME Init PROVE RegistryInv
  OBVIOUS
<1>1. /\ procMap = <<>> /\ callSiteMap = <<>> /\ strings = <<"??">>
      /\ entry = 1 /\ phase = "load"
  BY DEF Init
<1>2. keys \subseteq Site \cup {Others} /\ (~RemoveSmall => Others \notin keys)
  BY NamesAssumption DEF Init
<1>3. DOMAIN callSiteMap = {} /\ Len(procMap) = 0
  BY <1>1
<1>4. IsNames(strings)
  <2>1. strings \in Seq(Text) /\ strings # <<>> /\ strings[1] = "??" /\ Len(strings) = 1
    BY <1>1, NamesAssumption
  <2> QED
    BY <2>1 DEF IsNames
<1> QED
  BY <1>1, <1>2, <1>3, <1>4 DEF RegistryInv, Known

(* Each step keeps it: the names only grow, by those of the sites answered.*)
LEMMA RegistryNext == RegistryInv /\ [Next]_vars => RegistryInv'
<1> SUFFICES ASSUME RegistryInv, [Next]_vars PROVE RegistryInv'
  OBVIOUS
<1>0. /\ keys \subseteq Site \cup {Others}
      /\ ~RemoveSmall => Others \notin keys
      /\ procMap \in ProcMaps \cup {<<>>}
      /\ DOMAIN callSiteMap \subseteq keys
      /\ IsNames(strings)
      /\ entry \in 1 .. Len(procMap) + 1
      /\ phase \in {"load", "register", "solve", "done", "aborted"}
      /\ phase = "load" => procMap = <<>> /\ DOMAIN callSiteMap = {}
      /\ phase # "load" => procMap \in ProcMaps
      /\ phase \in {"load", "register"} => entry = 1
      /\ phase \in {"solve", "done"} => keys = DOMAIN callSiteMap
      /\ phase # "done" => Known(procMap, strings, callSiteMap)
  BY DEF RegistryInv
<1>1. CASE loadProcMap
  <2>1. /\ procMap' \in ProcMaps /\ phase' = "register" /\ phase = "load"
        /\ UNCHANGED <<keys, callSiteMap, strings, entry>>
    BY <1>1 DEF loadProcMap
  <2>2. Len(procMap)' \in Nat /\ entry' = 1 /\ DOMAIN callSiteMap = {}
    BY <1>0, <2>1, LineType
  <2>3. Known(procMap', strings, callSiteMap)
    BY <1>0, <2>2 DEF Known
  <2>4. entry' \in 1 .. Len(procMap)' + 1
    BY <2>2
  <2> QED
    BY <1>0, <2>1, <2>2, <2>3, <2>4 DEF RegistryInv
<1>2. ASSUME NEW site \in keys, registerAddress(site) PROVE RegistryInv'
  <2>1. /\ phase = "register" /\ site \notin DOMAIN callSiteMap
        /\ UNCHANGED <<keys, procMap, strings, entry, phase>>
    BY <1>2 DEF registerAddress
  <2>2. SiteKnown(procMap, strings, site, NewCallSite(getMapEntry(site)))
    BY <1>0, <2>1, NewSiteIsKnown
  <2>3. PICK new : /\ new = NewCallSite(getMapEntry(site))
                   /\ SiteKnown(procMap, strings, site, new)
                   /\ callSiteMap' = [s \in DOMAIN callSiteMap \cup {site} |->
                                          IF s = site THEN new ELSE callSiteMap[s]]
    BY <1>2, <2>2 DEF registerAddress
  <2>4. \A s \in DOMAIN callSiteMap : SiteKnown(procMap, strings, s, callSiteMap[s])
    BY <1>0, <2>1 DEF Known
  <2>5. PICK sites : sites = callSiteMap'
    OBVIOUS
  <2>6. /\ DOMAIN sites = DOMAIN callSiteMap \cup {site}
        /\ \A s \in DOMAIN sites : SiteKnown(procMap, strings, s, sites[s])
    BY <2>3, <2>4, <2>5
  <2>7. Known(procMap, strings, sites) /\ DOMAIN sites \subseteq keys
    BY <1>0, <2>6 DEF Known
  <2> QED
    BY <1>0, <2>1, <2>5, <2>7 DEF RegistryInv
<1>3. CASE startSolve
  <2>1. /\ phase = "register" /\ keys = DOMAIN callSiteMap /\ phase' = "solve"
        /\ UNCHANGED <<keys, procMap, callSiteMap, strings, entry>>
    BY <1>3 DEF startSolve
  <2> QED
    BY <1>0, <2>1 DEF RegistryInv
<1>4. CASE skipEntry \/ popenFails
  <2>1. /\ phase = "solve" /\ entry <= Len(procMap) /\ entry' = entry + 1
        /\ UNCHANGED <<keys, procMap, callSiteMap, strings, phase>>
    BY <1>4 DEF skipEntry, popenFails
  <2>2. Len(procMap) \in Nat
    BY <1>0, <2>1, LineType
  <2>3. entry' \in 1 .. Len(procMap) + 1
    BY <1>0, <2>1, <2>2
  <2> QED
    BY <1>0, <2>1, <2>3 DEF RegistryInv
<1>5. CASE solveNames
  <2>1. /\ phase = "solve" /\ entry <= Len(procMap) /\ UNCHANGED <<keys, procMap>>
    BY <1>5 DEF solveNames
  <2>2. PICK n \in 0 .. Len(InOrder(InLine(entry))) :
          \E answer \in [1 .. n -> {"found", "unknown", "malformed"}] :
          /\ strings' = AfterAnswers(InOrder(InLine(entry)), answer, n).names
          /\ callSiteMap' = AfterAnswers(InOrder(InLine(entry)), answer, n).sites
          /\ \/ entry' = entry + 1 /\ phase' = phase
             \/ phase' = "aborted" /\ entry' = entry
    BY <1>5 DEF solveNames
  <2>3. PICK answer \in [1 .. n -> {"found", "unknown", "malformed"}] :
          /\ strings' = AfterAnswers(InOrder(InLine(entry)), answer, n).names
          /\ callSiteMap' = AfterAnswers(InOrder(InLine(entry)), answer, n).sites
          /\ \/ entry' = entry + 1 /\ phase' = phase
             \/ phase' = "aborted" /\ entry' = entry
    BY <2>2
  <2>4. Len(procMap) \in Nat /\ entry \in 1 .. Len(procMap) /\ procMap \in ProcMaps
    BY <1>0, <2>1, LineType
  <2>5. DOMAIN callSiteMap \subseteq Site \cup {Others} /\ Known(procMap, strings, callSiteMap)
    BY <1>0, <2>1
  <2>6. Known(procMap, strings', callSiteMap') /\ DOMAIN callSiteMap' = DOMAIN callSiteMap
    BY <2>3, <2>4, <2>5, AnswersKeep
  <2>7. IsNames(strings')
    BY <2>6 DEF Known
  <2>8. entry' \in 1 .. Len(procMap) + 1 /\ phase' \in {"solve", "aborted"}
    BY <2>1, <2>3, <2>4
  <2> QED
    BY <1>0, <2>1, <2>4, <2>6, <2>7, <2>8 DEF RegistryInv
<1>6. CASE solveMissings
  <2>1. /\ phase = "solve" /\ phase' = "done" /\ UNCHANGED <<keys, procMap, entry>>
    BY <1>6 DEF solveMissings
  <2>2. PICK known, solved :
          /\ known = WithOthers([names |-> strings, sites |-> callSiteMap])
          /\ solved = AllPaired(BacktraceSymbols, known)
    OBVIOUS
  <2>3. strings' = solved.names /\ callSiteMap' = solved.sites
    BY <1>6, <2>2 DEF solveMissings
  <2>4. /\ procMap \in ProcMaps /\ Known(procMap, strings, callSiteMap)
        /\ DOMAIN callSiteMap \subseteq Site \cup {Others} /\ keys = DOMAIN callSiteMap
        /\ ~RemoveSmall => Others \notin DOMAIN callSiteMap
    BY <1>0, <2>1
  <2>5. /\ IsNames(solved.names)
        /\ DOMAIN solved.sites = DOMAIN callSiteMap
        /\ \A site \in DOMAIN callSiteMap :
              SiteNamed(procMap, solved.names, site, solved.sites[site])
    BY <2>2, <2>4, MissingsAreNamed
  <2>6. /\ IsNames(strings') /\ DOMAIN callSiteMap' = keys
        /\ \A site \in keys : SiteNamed(procMap, strings', site, callSiteMap'[site])
    BY <2>3, <2>4, <2>5
  <2> QED
    BY <1>0, <2>1, <2>4, <2>6 DEF RegistryInv
<1>7. CASE UNCHANGED vars
  BY <1>7 DEF RegistryInv, vars, Known
<1> QED
  BY <1>1, <1>2, <1>3, <1>4, <1>5, <1>6, <1>7 DEF Next, Ended

(* The inductive invariant holds in every state.                           *)
LEMMA RegistryAlways == Spec => []RegistryInv
BY RegistryInit, RegistryNext, PTL DEF Spec

-----------------------------------------------------------------------------
(* TypeOK is an invariant: each id kept in a call site is the index of a   *)
(* name, and each line one of the map, whatever addr2line answered.        *)
THEOREM TypeCorrect == Spec => []TypeOK
<1>1. RegistryInv => TypeOK
  <2> SUFFICES ASSUME RegistryInv PROVE TypeOK
    OBVIOUS
  <2>1. ASSUME NEW site \in DOMAIN callSiteMap
        PROVE  callSiteMap[site] \in CallSiteOf(procMap, strings)
    <3>1. CASE phase = "done"
      BY <3>1 DEF RegistryInv, SiteNamed
    <3>2. CASE phase # "done"
      <4>1. SiteKnown(procMap, strings, site, callSiteMap[site])
        BY <3>2 DEF RegistryInv, Known
      <4> QED
        BY <4>1 DEF SiteKnown, CallSiteOf
    <3> QED
      BY <3>1, <3>2
  <2> QED
    BY <2>1 DEF RegistryInv, TypeOK, CallSite, CallSiteOf, Id, Ids, IdIn
<1> QED
  BY <1>1, RegistryAlways, PTL

(* NamesOnce is an invariant: getString never gives a name a second id, so *)
(* that the call sites of a function share its id.                         *)
THEOREM NamesKeptOnce == Spec => []NamesOnce
<1>1. RegistryInv => NamesOnce
  <2> SUFFICES ASSUME RegistryInv PROVE NamesOnce
    OBVIOUS
  <2>1. IsNames(strings)
    BY DEF RegistryInv
  <2>2. DOMAIN strings = 1 .. Len(strings)
    BY <2>1 DEF IsNames
  <2> QED
    BY <2>1, <2>2 DEF IsNames, NamesOnce
<1> QED
  BY <1>1, RegistryAlways, PTL

(* BinaryIsOwn is an invariant: the binary kept for a site is a mapping it *)
(* is in, although the names of all lines go to one list.                  *)
THEOREM BinariesAreOwn == Spec => []BinaryIsOwn
<1>1. RegistryInv => BinaryIsOwn
  <2> SUFFICES ASSUME RegistryInv, NEW site \in DOMAIN callSiteMap,
                      callSiteMap[site].binary # Unset
               PROVE  Name(callSiteMap[site].binary) \in
                          {"??"} \cup {procMap[line].file : line \in LinesOf(procMap, site)}
    BY DEF BinaryIsOwn, LinesOf
  <2>1. CASE phase = "done"
    BY <2>1 DEF RegistryInv, SiteNamed, Name
  <2>2. CASE phase # "done"
    BY <2>2 DEF RegistryInv, Known, SiteKnown, Name
  <2> QED
    BY <2>1, <2>2
<1> QED
  BY <1>1, RegistryAlways, PTL

(* EverySiteIsNamed is an invariant: a profile that is written has a       *)
(* function for each of its instructions, whatever addr2line answered, and *)
(* with or without removeSmall.                                            *)
THEOREM SitesAreNamed == Spec => []EverySiteIsNamed
<1>1. RegistryInv => EverySiteIsNamed
  BY DEF RegistryInv, SiteNamed, EverySiteIsNamed
<1> QED
  BY <1>1, RegistryAlways, PTL

(* NamesPaired is an invariant of a program that cuts no site: the symbols *)
(* of backtrace_symbols go to the addresses it was asked about.  With      *)
(* removeSmall they do not.                                                *)
THEOREM NamesArePaired ==
    ASSUME ~RemoveSmall
    PROVE  Spec => []NamesPaired
<1>1. RegistryInv => NamesPaired
  <2> SUFFICES ASSUME RegistryInv, phase = "done", NEW site \in keys
               PROVE  Name(callSiteMap[site].function) \in
                          IF site = Others THEN {"others"}
                          ELSE {debugFunction[site], dynamicSymbol[site]}
    BY DEF NamesPaired
  <2>1. site # Others /\ SiteNamed(procMap, strings, site, callSiteMap[site])
    BY DEF RegistryInv
  <2> QED
    BY <2>1 DEF SiteNamed, Name
<1> QED
  BY <1>1, RegistryAlways, PTL

=============================================================================
