--------------------------- MODULE SymbolRegistry ---------------------------
(***************************************************************************)
(* extern-deps/from-malt-v2/SymbolRegistry: the names of the instructions  *)
(* of a profile, found at exit from the map of the process, from addr2line *)
(* run once per line of that map, and from backtrace_symbols.  A name is   *)
(* kept once, in strings; a call site keeps the index of its names.        *)
(***************************************************************************)
EXTENDS Integers, SequencesExt

CONSTANTS
    Text,           \* names of functions and files
    Site,           \* addresses of instructions of the program
    RemoveSmall,    \* the option removeSmall
    ProcMaps,       \* what /proc/self/maps may hold at exit
    debugFunction,  \* the function addr2line finds for a site
    debugFile,      \* and its source file
    dynamicSymbol   \* what backtrace_symbols says of a site

VARIABLES
    keys,           \* the instructions and malloc sites of the profile
    procMap,        \* the lines of the map of the process
    callSiteMap,    \* the call sites registered, by address
    strings,        \* the names, the index 0 of the code is 1 here
    entry,          \* the line of procMap that solveNames is at
    phase

vars == <<keys, procMap, callSiteMap, strings, entry, phase>>

Others == 2         \* NUMAPROF_OTHERS, what removeSmall has cut

ASSUME NamesAssumption ==
    /\ Site \subseteq Nat /\ IsFiniteSet(Site) /\ Others \notin Site
    /\ RemoveSmall \in BOOLEAN
    /\ {"??", "others"} \subseteq Text
    /\ debugFunction \in [Site -> Text]
    /\ debugFile \in [Site -> Text]
    /\ dynamicSymbol \in [Site \cup {Others} -> Text]

(* A process has mappings, none of them at the first addresses.            *)
ASSUME MapsAssumption ==
    \A map \in ProcMaps :
        /\ map \in Seq([lower : Nat, upper : Nat, file : Text, elf : BOOLEAN])
        /\ map # <<>>
        /\ \A i \in DOMAIN map : Others < map[i].lower

Unset == -1
NoEntry == 0        \* mapEntry is NULL

Ids == 0 .. Len(strings) - 1
Id == {Unset} \cup Ids
Name(id) == strings[id + 1]

CallSite == [file : Id, function : Id, binary : Id, mapEntry : 0 .. Len(procMap)]
NewCallSite(line) ==
    [file |-> Unset, function |-> Unset, binary |-> Unset, mapEntry |-> line]

Init ==
    /\ \E kept \in SUBSET Site :
          keys = kept \cup (IF RemoveSmall THEN {Others} ELSE {})
    /\ procMap = <<>>
    /\ callSiteMap = <<>>
    /\ strings = <<"??">>
    /\ entry = 1
    /\ phase = "load"

loadProcMap ==
    /\ phase = "load"
    /\ procMap' \in ProcMaps
    /\ phase' = "register"
    /\ UNCHANGED <<keys, callSiteMap, strings, entry>>

(* The first line an address is in.                                        *)
getMapEntry(site) ==
    LET lines == {i \in DOMAIN procMap :
                    procMap[i].lower <= site /\ site < procMap[i].upper}
    IN  IF lines = {} THEN NoEntry ELSE Min(lines)

registerAddress(site) ==
    /\ phase = "register"
    /\ site \in keys \ DOMAIN callSiteMap
    /\ callSiteMap' = [s \in DOMAIN callSiteMap \cup {site} |->
                           IF s = site THEN NewCallSite(getMapEntry(site))
                                       ELSE callSiteMap[s]]
    /\ UNCHANGED <<keys, procMap, strings, entry, phase>>

startSolve ==
    /\ phase = "register"
    /\ keys = DOMAIN callSiteMap
    /\ phase' = "solve"
    /\ UNCHANGED <<keys, procMap, callSiteMap, strings, entry>>

(* Mutants: a name is added each time, an id counts from one.              *)
InternedAgain(names, value) == Append(names, value)
IdOfNext(names, value) == SelectInSeq(names, LAMBDA name : name = value)

(* getString: names is strings so far, value is added when it is new.      *)
Interned(names, value) ==
    IF Contains(names, value) THEN names ELSE Append(names, value)
IdOf(names, value) == SelectInSeq(names, LAMBDA name : name = value) - 1

-----------------------------------------------------------------------------
(* solveNames(line): addr2line answers for the sites of the line, in order *)
(* of address: with a function and a file, with "??" for both, or with a   *)
(* text that does not end in ":number".                                    *)

(* A line that names a file: neither anonymous memory nor [vdso].          *)
HasFile(line) == procMap[line].elf

(* Mutant: every site of a file that has no binary yet.                    *)
InLineUnsolved(line) == {site \in DOMAIN callSiteMap :
    callSiteMap[site].mapEntry # NoEntry /\ callSiteMap[site].binary = Unset}

InLine(line) == {site \in DOMAIN callSiteMap : callSiteMap[site].mapEntry = line}

InOrder(sites) ==
    [n \in 1 .. Cardinality(sites) |->
        CHOOSE site \in sites : Cardinality({s \in sites : s < site}) = n - 1]

skipEntry ==
    /\ phase = "solve"
    /\ entry <= Len(procMap)
    /\ ~HasFile(entry) \/ InLine(entry) = {}
    /\ entry' = entry + 1
    /\ UNCHANGED <<keys, procMap, callSiteMap, strings, phase>>

popenFails ==
    /\ phase = "solve"
    /\ entry <= Len(procMap)
    /\ HasFile(entry)
    /\ InLine(entry) # {}
    /\ entry' = entry + 1
    /\ UNCHANGED <<keys, procMap, callSiteMap, strings, phase>>

(* One pair of lines of addr2line; known is the registry so far.           *)
Answered(known, site, answer) ==
    LET file == IF answer = "found" THEN debugFile[site] ELSE "??"
        function == IF answer = "found" THEN debugFunction[site] ELSE "??"
        binary == procMap[entry].file
        names == Interned(Interned(Interned(known.names, file), function), binary)
        line == known.sites[site].mapEntry
    IN  IF answer = "malformed"
        THEN [names |-> known.names,
              sites |-> [known.sites EXCEPT ![site] =
                  [file |-> 0, function |-> 0, binary |-> 0, mapEntry |-> line]]]
        ELSE [names |-> names,
              sites |-> [known.sites EXCEPT ![site] =
                  [file |-> IdOf(names, file), function |-> IdOf(names, function),
                   binary |-> IdOf(names, binary), mapEntry |-> line]]]

(* The registry after the first n answers for the sites of lst.            *)
AfterAnswers(lst, answer, n) ==
    LET known[i \in 0 .. n] ==
            IF i = 0 THEN [names |-> strings, sites |-> callSiteMap]
            ELSE Answered(known[i - 1], lst[i], answer[i])
    IN  known[n]

(* addr2line answers for the first sites of the line, then exits; an exit  *)
(* of 0 with answers missing ends the program.                             *)
solveNames ==
    /\ phase = "solve"
    /\ entry <= Len(procMap)
    /\ HasFile(entry)
    /\ LET lst == InOrder(InLine(entry)) IN
        /\ lst # <<>>
        /\ \E n \in 0 .. Len(lst) :
           \E answer \in [1 .. n -> {"found", "unknown", "malformed"}] :
             LET known == AfterAnswers(lst, answer, n)
             IN  /\ strings' = known.names
                 /\ callSiteMap' = known.sites
                 /\ \/ /\ entry' = entry + 1       \* pclose failed, or all is well
                       /\ UNCHANGED phase
                    \/ /\ n < Len(lst)
                       /\ phase' = "aborted"
                       /\ UNCHANGED entry
    /\ UNCHANGED <<keys, procMap>>

-----------------------------------------------------------------------------
(* solveMissings.                                                          *)

(* Mutant: a site that addr2line was never asked about is forgotten.       *)
UnresolvedUnknown(names, site) ==
    site.function # Unset /\ names[site.function + 1] = "??"

Unresolved(names, site) == site.function = Unset \/ names[site.function + 1] = "??"

toResolve(names, sites) ==
    InOrder({site \in DOMAIN sites : Unresolved(names, sites[site])})

WithOthers(known) ==
    IF Others \notin DOMAIN known.sites THEN known
    ELSE LET names == Interned(known.names, "others")
         IN  [names |-> names,
              sites |-> [known.sites EXCEPT ![Others] =
                  [file |-> 0, function |-> IdOf(names, "others"), binary |-> 0,
                   mapEntry |-> 1]]]

Paired(known, site, symbol) ==
    LET names == Interned(known.names, symbol)
    IN  [names |-> names,
         sites |-> [known.sites EXCEPT ![site].function = IdOf(names, symbol)]]

(* Mutant: the index of res moves on before it is used, and wraps.         *)
AllPairedLate(res, known) ==
    LET sites == toResolve(known.names, known.sites)
        paired[i \in 0 .. Len(sites)] ==
            IF i = 0 THEN known ELSE Paired(paired[i - 1], sites[i], res[(i % Len(res)) + 1])
    IN  paired[Len(sites)]

(* The second loop: the next symbol of res to each site still unresolved.  *)
AllPaired(res, known) ==
    LET sites == toResolve(known.names, known.sites)
        paired[i \in 0 .. Len(sites)] ==
            IF i = 0 THEN known ELSE Paired(paired[i - 1], sites[i], res[i])
    IN  paired[Len(sites)]

BacktraceSymbols ==
    LET asked == toResolve(strings, callSiteMap)
    IN  [i \in DOMAIN asked |-> dynamicSymbol[asked[i]]]

solveMissings ==
    /\ phase = "solve"
    /\ entry > Len(procMap)
    /\ LET known == WithOthers([names |-> strings, sites |-> callSiteMap])
           solved == AllPaired(BacktraceSymbols, known)
       IN  /\ strings' = solved.names
           /\ callSiteMap' = solved.sites
    /\ phase' = "done"
    /\ UNCHANGED <<keys, procMap, entry>>

(* The profile is written, or numaprof has ended without it.               *)
Ended ==
    /\ phase \in {"done", "aborted"}
    /\ UNCHANGED vars

Next ==
    \/ loadProcMap
    \/ \E site \in keys : registerAddress(site)
    \/ startSolve
    \/ skipEntry
    \/ popenFails
    \/ solveNames
    \/ solveMissings
    \/ Ended

Spec == Init /\ [][Next]_vars

-----------------------------------------------------------------------------
TypeOK ==
    /\ keys \subseteq Site \cup {Others}
    /\ procMap \in ProcMaps \cup {<<>>}
    /\ DOMAIN callSiteMap \subseteq keys
    /\ \A site \in DOMAIN callSiteMap : callSiteMap[site] \in CallSite
    /\ entry \in 1 .. Len(procMap) + 1
    /\ phase \in {"load", "register", "solve", "done", "aborted"}

(* The function written for a site is one that addr2line or                *)
(* backtrace_symbols gave for this very address: the two loops of          *)
(* solveMissings agree on which sites are unresolved.                      *)
NamesPaired ==
    phase = "done" => \A site \in keys :
        \/ callSiteMap[site].function = Unset
        \/ Name(callSiteMap[site].function) \in
               IF site = Others THEN {"others"}
               ELSE {debugFunction[site], dynamicSymbol[site]}

(* Every instruction of a written profile has a function, whether its code *)
(* is in a file, in no file, or no longer mapped, and whatever addr2line   *)
(* did: the views look its function up.                                    *)
EverySiteIsNamed ==
    phase = "done" => \A site \in keys : callSiteMap[site].function # Unset

(* A site is in the binary it was mapped from at exit, or in none.         *)
BinaryIsOwn ==
    \A site \in DOMAIN callSiteMap :
        callSiteMap[site].binary = Unset \/
        Name(callSiteMap[site].binary) \in
            {"??"} \cup {procMap[line].file : line \in
                {i \in DOMAIN procMap : site \in procMap[i].lower .. procMap[i].upper - 1}}

(* No name has two ids: two sites of one function have one function id.    *)
NamesOnce == \A i, j \in DOMAIN strings : strings[i] = strings[j] => i = j

=============================================================================
