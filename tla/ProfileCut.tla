----------------------------- MODULE ProfileCut -----------------------------
(***************************************************************************)
(* ProcessTracker::removeSmall: the option that cuts the profile of        *)
(* AccessCounting down, at the end of onExit, to the entries that hold     *)
(* more than a part of the accesses, of one kind at least.                 *)
(*                                                                         *)
(* A Stats is counted from the accesses it stands for: an access adds to   *)
(* one of nine counters, and to nonAlloc when no allocation covers its     *)
(* address.  The cut multiplies floats; their significand is rounded.      *)
(***************************************************************************)
EXTENDS AccessCounting, Integers

CONSTANTS
    OTHERS,   \* NUMAPROF_OTHERS: the key of what was cut
    Kind,     \* the counters of which an access increments one
    Classes,  \* what accesses may be: of which kind, and of how many pages
    Cutoffs,  \* values of output:removeRatio, in percent, as fractions
    FloatBits \* bits of the significand of a float: 24

ASSUME CutAssumption ==
    /\ OTHERS \notin Ip \cup MallocIp
    /\ "nonAlloc" \notin Kind
    /\ Classes \subseteq [Access -> [kind : Kind, touchedPages : Nat \ {0}]]
    /\ Cutoffs \subseteq Nat \X (Nat \ {0})
    /\ FloatBits \in Nat \ {0}

Counter == Kind \cup {"nonAlloc"}

(* The Stats of some accesses: a first touch adds the pages it touched.    *)
Stats(accesses, class) ==
    [k \in Counter |->
        IF k = "nonAlloc" THEN Cardinality(accesses \cap UNION {dummyAlloc[t] : t \in Tracker})
        ELSE Cardinality(UNION {{x} \X (1 .. class[x].touchedPages) :
                                   x \in {y \in accesses : class[y].kind = k}})]

-----------------------------------------------------------------------------
(* Floats, as fractions: the one next to n / d, ties to even.              *)

Nearest(n, d) ==
    LET q == n \div d
        r == n % d
    IN  IF 2 * r > d \/ (2 * r = d /\ q % 2 = 1) THEN q + 1 ELSE q

Exponent == 0 .. 126

(* The bits of n / d above the significand (up) or below the point (down). *)
Up(n, d) == CHOOSE e \in Exponent : /\ n < d * 2 ^ (e + FloatBits)
                                    /\ e > 0 => n >= d * 2 ^ (e + FloatBits - 1)

Down(n, d) == CHOOSE e \in Exponent : /\ n * 2 ^ e >= d * 2 ^ (FloatBits - 1)
                                      /\ e > 0 => n * 2 ^ (e - 1) < d * 2 ^ (FloatBits - 1)

Float(n, d) ==
    IF n = 0 THEN <<0, 1>>
    ELSE IF n >= d * 2 ^ FloatBits
    THEN LET e == Up(n, d) IN <<Nearest(n, d * 2 ^ e) * 2 ^ e, 1>>
    ELSE LET e == Down(n, d) IN <<Nearest(n * 2 ^ e, d), 2 ^ e>>

(* Float product, made a size_t again, which truncates it.                 *)
Scaled(count, ratio) ==
    LET f == Float(count, 1)
        product == Float(f[1] * ratio[1], f[2] * ratio[2])
    IN  product[1] \div product[2]

-----------------------------------------------------------------------------
(* The percentage is a float before it is a share.                         *)
applyCut(total, cutoff) ==
    LET percent == Float(cutoff[1], cutoff[2])
        ratio == Float(percent[1], percent[2] * 100)
    IN  [k \in Counter |-> Scaled(total[k], ratio)]

asOneLargerThan(entry, cut) == \E k \in Counter : entry[k] > cut[k]

(* The keys that are kept.                                                 *)
Large(map, class, cutoff) ==
    LET global == Stats(UNION {map[k] : k \in DOMAIN map}, class)
        cut == applyCut(global, cutoff)
    IN  {k \in DOMAIN map : asOneLargerThan(Stats(map[k], class), cut)}

(* Mutant: an entry that is cut replaces the one cut before.               *)
removeSmallLast(map, class, cutoff) ==
    LET large == Large(map, class, cutoff)
        small == {k \in DOMAIN map \ large : map[k] # {}}
    IN  [k \in large \cup {OTHERS} |->
            IF k # OTHERS THEN map[k]
            ELSE IF small = {} THEN {} ELSE map[CHOOSE j \in small : TRUE]]

(* What is not kept is merged into one entry.                              *)
removeSmall(map, class, cutoff) ==
    LET large == Large(map, class, cutoff)
    IN  [k \in large \cup {OTHERS} |->
            IF k = OTHERS THEN UNION {map[j] : j \in DOMAIN map \ large} ELSE map[k]]

-----------------------------------------------------------------------------
(* What the profile has to report.                                         *)
Reported == UNION {ToCount(ip) : ip \in Ip}

(* The instructions whose accesses exceed the cut of one counter.          *)
Many(class, cutoff) ==
    LET cut == applyCut(Stats(Reported, class), cutoff)
    IN  {ip \in Ip : asOneLargerThan(Stats(ToCount(ip), class), cut)}

(* The profile that is cut still reports every access, whatever kinds they *)
(* are of: an instruction that made many of one kind keeps exactly its     *)
(* own, those of the others are together, and so are those of the malloc   *)
(* sites that are cut.                                                     *)
CutKeepsAccesses ==
    phase = "done" =>
        \A class \in Classes, cutoff \in Cutoffs :
            LET byIp == removeSmall(procInstr, class, cutoff)
                bySite == removeSmall(procAlloc, class, cutoff)
                many == Many(class, cutoff)
            IN  /\ DOMAIN byIp = many \cup {OTHERS}
                /\ \A ip \in many : byIp[ip] = ToCount(ip)
                /\ byIp[OTHERS] = UNION {ToCount(ip) : ip \in Ip \ many}
                /\ UNION {bySite[k] : k \in DOMAIN bySite}
                       = Reported \ UNION {dummyAlloc[t] : t \in Tracker}

=============================================================================
