---------------------------- MODULE AccessLedger ----------------------------
(***************************************************************************)
(* What the access counting of numaprof promises, with no batches, caches, *)
(* threads or merges in it: a ledger of the memory accesses of a program.  *)
(* An access is made by an instruction.  It is then either ignored (the    *)
(* instrumentation asked to skip it, or the simulated CPU cache served it) *)
(* or entered once under the instruction that made it.  The report is      *)
(* written when every access is settled, and it is the ledger.             *)
(*                                                                         *)
(* The module has no code of its own: AccessCounting implements it.        *)
(***************************************************************************)

CONSTANTS
    Access,     \* identities of memory accesses
    Ip,         \* instruction addresses
    NotMade     \* what madeBy holds for an access not made yet

VARIABLES
    madeBy,     \* the instruction that made each access
    ledger,     \* the accesses entered under each instruction
    ignored,    \* the accesses that are not to be counted
    closed,     \* whether the report is written
    report      \* the published copy of the ledger

lvars == <<madeBy, ledger, ignored, closed, report>>

Entered == UNION {ledger[ip] : ip \in Ip}

Settled == ignored \cup Entered

Init ==
    /\ madeBy = [x \in Access |-> NotMade]
    /\ ledger = [ip \in Ip |-> {}]
    /\ ignored = {}
    /\ closed = FALSE
    /\ report = [ip \in Ip |-> {}]

Make(x, ip) ==
    /\ ~closed
    /\ madeBy[x] = NotMade
    /\ madeBy' = [madeBy EXCEPT ![x] = ip]
    /\ UNCHANGED <<ledger, ignored, closed, report>>

Unsettled(x) == madeBy[x] # NotMade /\ x \notin Settled

Enter(x) ==
    /\ Unsettled(x)
    /\ ledger' = [ledger EXCEPT ![madeBy[x]] = @ \cup {x}]
    /\ UNCHANGED <<madeBy, ignored, closed, report>>

Ignore(x) ==
    /\ Unsettled(x)
    /\ ignored' = ignored \cup {x}
    /\ UNCHANGED <<madeBy, ledger, closed, report>>

Publish ==
    /\ ~closed
    /\ \A x \in Access : ~Unsettled(x)
    /\ closed' = TRUE
    /\ report' = ledger
    /\ UNCHANGED <<madeBy, ledger, ignored>>

Next ==
    \/ \E x \in Access, ip \in Ip : Make(x, ip)
    \/ \E x \in Access : Enter(x) \/ Ignore(x)
    \/ Publish

Spec == Init /\ [][Next]_lvars

=============================================================================
