--------------------------- MODULE ThreadBinding ---------------------------
(***************************************************************************)
(* How numaprof follows the node each thread runs on: the trackers that    *)
(* ProcessTracker::createThreadTracker makes for the Pin ids of the        *)
(* threads, the hook on sched_setaffinity (numaprof.cpp), the search of    *)
(* another thread's tracker (ProcessTracker::onThreadSetAffinity), the     *)
(* binding log (ThreadTracker::onSetAffinity) and the accesses that read   *)
(* the node meanwhile (ThreadTracker::onAccessHandling).                   *)
(*                                                                         *)
(* A hook runs in steps, between which other threads run: one step per     *)
(* lock, unlock and shared variable it reads or writes.  Two locks are     *)
(* modelled, ProcessTracker::mutex and the bindingLogMutex of each         *)
(* tracker; neither may be taken twice by one thread.                      *)
(*                                                                         *)
(* The counters of an access are reduced to the kind it is counted as; the *)
(* tables they are kept in (AccessCounting) only matter here for the lock  *)
(* a full table takes when it is merged.                                   *)
(***************************************************************************)
EXTENDS Topology, Sequences

CONSTANTS
    Thread,      \* the threads of the program, named by their TID
    Main,        \* the thread the program starts with
    Id,          \* Pin thread ids
    Mask,        \* CPU masks the program binds its threads to
    StartMask,   \* CPU masks it may be started with
    Policy,      \* memory policies it sets: records of a mode and nodes
    Page,        \* pages it accesses: their node, whether the first thread
                 \* to touch them was bound, and whether this is that access
    BatchSize,   \* core:accessBatchSize
    RetryLimit,  \* lookups onThreadSetAffinity makes: 200 in the code
    RecycleIds,  \* may Pin give the id of an ended thread to a new one?
    CallLimit,   \* bound: calls and accesses the threads make
    NoThread,
    NoId

ASSUME BindingAssumption ==
    /\ Main \in Thread
    /\ Id # {}
    /\ Mask \subseteq SUBSET Cpu \ {{}}
    /\ StartMask \subseteq SUBSET Cpu \ {{}}
    /\ Policy \subseteq [mode : STRING, nodes : SUBSET Node]
    /\ Page \subseteq [node : Node, pinned : BOOLEAN, first : BOOLEAN]
    /\ BatchSize \in Nat
    /\ RetryLimit \in Nat \ {0}
    /\ RecycleIds \in BOOLEAN
    /\ CallLimit \in Nat
    /\ NoThread \notin Thread
    /\ NoId \notin Id

Numa == Node \cup {Unbound}

PolicyType == {"NO_BIND", "INTERLEAVE", "BIND_ONE", "BIND_MULTIPLE"}

(* What an access reads of a tracker: its node and its memory policy.      *)
Binding == [node : Numa, type : PolicyType]

Kind == {"firstTouch", "unpinnedFirstTouch", "unpinnedPage", "unpinnedThread",
         "unpinnedBoth", "local", "remote", "localMcdram", "remoteMcdram"}

VARIABLES
    life,         \* of each thread: "none", "alive", "ended"
    threads,      \* ThreadData::tracker: the Pin id of each thread
    affinity,     \* the CPU mask the kernel has for each thread
    tid,          \* per tracker, the thread it was made for
    numa,         \* per tracker, the node its thread is bound to
    memPolicy,    \* per tracker, the type of the memory policy
    bindingLog,   \* per tracker, the nodes logged
    accessBatch,  \* per tracker, the pages of the accesses to handle
    mutex,        \* the thread that holds ProcessTracker::mutex
    logMutex,     \* per tracker, the thread that holds bindingLogMutex
    pc,           \* what each thread does next
    call,         \* the arguments and locals of the hook it is in
    access,       \* the access it handles
    calls,        \* calls and accesses made so far
    seen,         \* history: bindings of the thread during its access
    unknown       \* history: threads whose binding the tool may have missed

trackerVars == <<tid, numa, memPolicy, bindingLog>>
lockVars == <<mutex, logMutex>>
accessVars == <<accessBatch, access>>
vars == <<life, threads, affinity, tid, numa, memPolicy, bindingLog,
          accessBatch, mutex, logMutex, pc, call, access, calls, seen, unknown>>

-----------------------------------------------------------------------------
NoCall == [op |-> "none"]

SimpleCalls == [op : {"none", "create", "access", "stop"}]
PolicyCalls == [op : {"policy"}, policy : Policy]
BindCalls ==
    [op : {"bind"}, target : Thread, mask : Mask, tracker : Id \cup {NoId},
     lookups : 0 .. RetryLimit, alone : BOOLEAN]
Call == SimpleCalls \cup PolicyCalls \cup BindCalls

NoAccess == [kind |-> "idle"]

Accesses == [kind : Kind \cup {"none"}, page : Page, row : Numa, dist : Numa]
Access == {NoAccess} \cup Accesses

TypeOK ==
    /\ life \in [Thread -> {"none", "alive", "ended"}]
    /\ threads \in [Thread -> Id \cup {NoId}]
    /\ affinity \in [Thread -> SUBSET Cpu]
    /\ tid \in [Id -> Thread \cup {NoThread}]
    /\ numa \in [Id -> Numa]
    /\ memPolicy \in [Id -> PolicyType]
    /\ bindingLog \in [Id -> Seq(Numa)]
    /\ accessBatch \in [Id -> Seq(Page)]
    /\ mutex \in Thread \cup {NoThread}
    /\ logMutex \in [Id -> Thread \cup {NoThread}]
    /\ pc \in [Thread -> {"idle", "createLock", "construct", "createUnlock",
                          "lookup", "search", "unlock", "flush", "merge",
                          "mergeUnlock", "logLock", "bind", "log", "logUnlock",
                          "syscall", "setPolicy", "matrix", "distance",
                          "classify", "local", "counted"}]
    /\ call \in [Thread -> Call]
    /\ access \in [Thread -> Access]
    /\ calls \in 0 .. CallLimit
    /\ seen \in [Thread -> SUBSET Binding]
    /\ unknown \in SUBSET Thread

Init ==
    \E mask \in StartMask :
        /\ life = [t \in Thread |-> IF t = Main THEN "alive" ELSE "none"]
        /\ affinity = [t \in Thread |-> IF t = Main THEN mask ELSE {}]
        /\ threads = [t \in Thread |-> IF t = Main THEN CHOOSE i \in Id : TRUE ELSE NoId]
        /\ tid = [i \in Id |-> NoThread]
        /\ numa = [i \in Id |-> Unbound]
        /\ memPolicy = [i \in Id |-> "NO_BIND"]
        /\ bindingLog = [i \in Id |-> <<>>]
        /\ accessBatch = [i \in Id |-> <<>>]
        /\ mutex = NoThread
        /\ logMutex = [i \in Id |-> NoThread]
        /\ pc = [t \in Thread |-> IF t = Main THEN "createLock" ELSE "idle"]
        /\ call = [t \in Thread |-> IF t = Main THEN [op |-> "create"] ELSE NoCall]
        /\ access = [t \in Thread |-> NoAccess]
        /\ calls = 0
        /\ seen = [t \in Thread |-> {}]
        /\ unknown = {}

Goto(t, label) == pc' = [pc EXCEPT ![t] = label]

Return(t) ==
    /\ Goto(t, "idle")
    /\ call' = [call EXCEPT ![t] = NoCall]

(* A thread that is not in a hook.                                         *)
Ready(t) == life[t] = "alive" /\ pc[t] = "idle"

Enter(t, args, label) ==
    /\ Ready(t)
    /\ calls < CallLimit
    /\ calls' = calls + 1
    /\ call' = [call EXCEPT ![t] = args]
    /\ Goto(t, label)

(* The steps below leave these alone unless they say otherwise.            *)
mapVars == <<life, threads, affinity>>
historyVars == <<calls, seen, unknown>>

-----------------------------------------------------------------------------
(* Threads come, with the affinity of the thread that creates them and a   *)
(* Pin id no living thread has; ThreadStart runs before their own code.    *)

FreeIds ==
    {i \in Id : \A u \in Thread :
        threads[u] = i => life[u] = "ended" /\ RecycleIds}

pthread_create(t, u) ==
    /\ Ready(t)
    /\ life[u] = "none"
    /\ \E i \in FreeIds : threads' = [threads EXCEPT ![u] = i]
    /\ life' = [life EXCEPT ![u] = "alive"]
    /\ affinity' = [affinity EXCEPT ![u] = affinity[t]]
    /\ call' = [call EXCEPT ![u] = [op |-> "create"]]
    /\ Goto(u, "createLock")
    /\ UNCHANGED <<trackerVars, accessVars, lockVars, historyVars>>

createLock(t) ==
    /\ pc[t] = "createLock"
    /\ mutex = NoThread
    /\ mutex' = t
    /\ Goto(t, "construct")
    /\ UNCHANGED <<mapVars, trackerVars, accessVars, logMutex, call, historyVars>>

(* The constructor of ThreadTracker asks the kernel where the thread may   *)
(* run.  A tracker that exists is given to the new thread as it is.        *)
createThreadTracker(t) ==
    LET i == threads[t]
    IN  /\ pc[t] = "construct"
        /\ Goto(t, "createUnlock")
        /\ IF tid[i] = NoThread
           THEN /\ tid' = [tid EXCEPT ![i] = t]
                /\ numa' = [numa EXCEPT ![i] = getNumaAffinity(affinity[t])]
                /\ bindingLog' = [bindingLog EXCEPT ![i] = <<numa'[i]>>]
                /\ UNCHANGED unknown
           ELSE /\ unknown' = unknown \cup {t}
                /\ UNCHANGED <<tid, numa, bindingLog>>
        /\ UNCHANGED <<mapVars, memPolicy, accessVars, lockVars, call,
                       calls, seen>>

createUnlock(t) ==
    /\ pc[t] = "createUnlock"
    /\ mutex' = NoThread
    /\ Return(t)
    /\ UNCHANGED <<mapVars, trackerVars, accessVars, logMutex, historyVars>>

-----------------------------------------------------------------------------
(* sched_setaffinity: SyscallEntry runs the hook, then the kernel moves    *)
(* the thread, or refuses to.                                              *)

(* The tracker a hook of t works on.                                       *)
TrackerOf(t) == IF call[t].op = "bind" THEN call[t].tracker ELSE threads[t]

(* The calls in flight on the thread u.                                    *)
Binders(u) == {t \in Thread : call[t].op = "bind" /\ call[t].target = u}

BindCall(t, u, mask, alone) ==
    [op |-> "bind", target |-> u, mask |-> mask, lookups |-> 0, alone |-> alone,
     tracker |-> IF u = t THEN threads[t] ELSE NoId]

(* The caller's own tracker is known; another thread's is looked for.      *)
beforeSchedSetAffinity(t, u, mask) ==
    /\ Ready(t)
    /\ calls < CallLimit
    /\ life[u] # "none"
    /\ calls' = calls + 1
    /\ call' = [v \in Thread |->
                   IF v = t THEN BindCall(t, u, mask, Binders(u) = {})
                   ELSE IF v \in Binders(u) THEN [call[v] EXCEPT !.alone = FALSE]
                   ELSE call[v]]
    /\ Goto(t, IF u = t THEN "flush" ELSE "lookup")
    /\ UNCHANGED <<mapVars, trackerVars, accessVars, lockVars, seen,
                   unknown>>

(* onThreadSetAffinity: one turn of its loop is lookup, search, unlock.    *)
onThreadSetAffinity(t) ==
    /\ pc[t] = "lookup"
    /\ mutex = NoThread
    /\ mutex' = t
    /\ Goto(t, "search")
    /\ UNCHANGED <<mapVars, trackerVars, accessVars, logMutex, call, historyVars>>

(* Mutant: the search compares with the TID of the caller.                 *)
searchCaller(t) ==
    LET found == {i \in Id : tid[i] = t}
    IN  /\ pc[t] = "search"
        /\ Goto(t, "flush")
        /\ \E i \in found : call' = [call EXCEPT ![t].tracker = i]
        /\ UNCHANGED <<mapVars, trackerVars, accessVars, lockVars,
                       historyVars>>

search(t) ==
    LET found == {i \in Id : tid[i] = call[t].target}
    IN  /\ pc[t] = "search"
        /\ IF found = {}
           THEN /\ Goto(t, "unlock")
                /\ UNCHANGED call
           ELSE /\ Goto(t, "flush")
                /\ \E i \in found : call' = [call EXCEPT ![t].tracker = i]
        /\ UNCHANGED <<mapVars, trackerVars, accessVars, lockVars,
                       historyVars>>

(* Mutant: the lookups are not counted.                                    *)
unlockUncounted(t) ==
    /\ pc[t] = "unlock"
    /\ mutex' = NoThread
    /\ Goto(t, IF call[t].tracker = NoId THEN "lookup" ELSE "syscall")
    /\ UNCHANGED <<mapVars, trackerVars, accessVars, logMutex, call, historyVars>>

(* Mutant: one lookup too many.                                            *)
unlockOneMore(t) ==
    LET tried == call[t].lookups + 1
    IN  /\ pc[t] = "unlock"
        /\ mutex' = NoThread
        /\ call' = [call EXCEPT ![t].lookups = tried]
        /\ Goto(t, IF call[t].tracker = NoId /\ tried <= RetryLimit
                   THEN "lookup" ELSE "syscall")
        /\ UNCHANGED <<mapVars, trackerVars, accessVars, logMutex, historyVars>>

(* A thread that was not found is looked for again, and given up after     *)
(* RetryLimit lookups.                                                     *)
unlock(t) ==
    LET tried == call[t].lookups + 1
    IN  /\ pc[t] = "unlock"
        /\ mutex' = NoThread
        /\ call' = [call EXCEPT ![t].lookups = tried]
        /\ Goto(t, IF call[t].tracker = NoId /\ tried < RetryLimit
                   THEN "lookup" ELSE "syscall")
        /\ UNCHANGED <<mapVars, trackerVars, accessVars, logMutex, historyVars>>

(* The kernel applies the mask, or refuses it.                             *)
sched_setaffinity(t) ==
    LET u == call[t].target
    IN  /\ pc[t] = "syscall"
        /\ \E done \in {FALSE} \cup {life[u] = "alive"} :
              /\ affinity' = IF done THEN [affinity EXCEPT ![u] = call[t].mask]
                                     ELSE affinity
              /\ unknown' = IF done /\ call[t].alone /\ call[t].tracker # NoId
                            THEN unknown \ {u} ELSE unknown \cup {u}
        /\ Return(t)
        /\ UNCHANGED <<life, threads, trackerVars, accessVars, lockVars,
                       calls, seen>>

-----------------------------------------------------------------------------
(* ThreadTracker::onSetAffinity, run by the thread itself or, with the     *)
(* process mutex held, by the thread that moves it.                        *)

(* Mutant: the log is not locked.                                          *)
onSetAffinityUnlocked(t) ==
    /\ pc[t] = "logLock"
    /\ Goto(t, "bind")
    /\ UNCHANGED <<mapVars, trackerVars, accessVars, lockVars, call,
                   historyVars>>

onSetAffinity(t) ==
    LET i == call[t].tracker
    IN  /\ pc[t] = "logLock"
        /\ logMutex[i] = NoThread
        /\ logMutex' = [logMutex EXCEPT ![i] = t]
        /\ Goto(t, "bind")
        /\ UNCHANGED <<mapVars, trackerVars, accessVars, mutex, call, historyVars>>

(* History: the tracker may since have been given to another thread.       *)
bind(t) ==
    LET i == call[t].tracker
    IN  /\ pc[t] = "bind"
        /\ numa' = [numa EXCEPT ![i] = getNumaAffinity(call[t].mask)]
        /\ seen' = [u \in Thread |->
                       IF TrackerOf(u) = i /\ access[u] # NoAccess
                       THEN seen[u] \cup {[node |-> numa'[i], type |-> memPolicy[i]]}
                       ELSE seen[u]]
        /\ unknown' = unknown \cup
               {u \in Thread : threads[u] = i /\ u # call[t].target}
        /\ call' = [u \in Thread |->
               IF u # t /\ call[u].op = "bind" /\ TrackerOf(u) = i
               THEN [call[u] EXCEPT !.alone = FALSE] ELSE call[u]]
        /\ Goto(t, "log")
        /\ UNCHANGED <<mapVars, tid, memPolicy, bindingLog, accessVars, lockVars, calls>>

(* A node is logged when it is not the last one logged.                    *)
logBinding(t) ==
    LET i == call[t].tracker
        entries == bindingLog[i]
    IN  /\ pc[t] = "log"
        /\ bindingLog' = [bindingLog EXCEPT ![i] =
               IF entries # <<>> /\ entries[Len(entries)] = numa[i]
               THEN entries ELSE Append(entries, numa[i])]
        /\ Goto(t, "logUnlock")
        /\ UNCHANGED <<mapVars, tid, numa, memPolicy, accessVars, lockVars, call, historyVars>>

logUnlock(t) ==
    LET i == call[t].tracker
    IN  /\ pc[t] = "logUnlock"
        /\ logMutex' = [logMutex EXCEPT ![i] = NoThread]
        /\ Goto(t, IF call[t].target = t THEN "syscall" ELSE "unlock")
        /\ UNCHANGED <<mapVars, trackerVars, accessVars, mutex, call, historyVars>>

-----------------------------------------------------------------------------
(* Accesses.  onAccess adds the access to the batch and handles the batch  *)
(* when it is full; without batches the code handles the access at once,   *)
(* and the batch stands for its argument.                                  *)

onAccess(t, page) ==
    LET i == threads[t]
        full == Len(accessBatch[i]) + 1 >= BatchSize
    IN  /\ Enter(t, IF full THEN [op |-> "access"] ELSE NoCall,
                    IF full THEN "flush" ELSE "idle")
        /\ accessBatch' = [accessBatch EXCEPT ![i] = Append(@, page)]
        /\ UNCHANGED <<mapVars, trackerVars, lockVars, access, seen, unknown>>

(* flushAccessBatch handles one access after the other.  The hook of one   *)
(* thread may empty the batch of another; nothing orders it with what the  *)
(* other does to the batch, and here the two take turns.                   *)
Flushes(t) == BatchSize > 0 \/ call[t].op = "access"

flushOne(t) ==
    LET i == TrackerOf(t)
    IN  /\ pc[t] = "flush"
        /\ Flushes(t)
        /\ accessBatch[i] # <<>>
        /\ accessBatch' = [accessBatch EXCEPT ![i] = Tail(@)]
        /\ access' = [access EXCEPT ![t] =
               [kind |-> "none", page |-> Head(accessBatch[i]),
                row |-> Unbound, dist |-> Unbound]]
        /\ seen' = [seen EXCEPT ![t] = {[node |-> numa[i], type |-> memPolicy[i]]}]
        /\ Goto(t, "matrix")
        /\ UNCHANGED <<mapVars, trackerVars, lockVars, call, calls, unknown>>

flushAccessBatch(t) ==
    /\ pc[t] = "flush"
    /\ Flushes(t) => accessBatch[TrackerOf(t)] = <<>>
    /\ \/ call[t].op = "access" /\ Return(t)
       \/ call[t].op = "bind" /\ Goto(t, "logLock") /\ UNCHANGED call
       \/ call[t].op = "policy" /\ Goto(t, "setPolicy") /\ UNCHANGED call
       \/ call[t].op = "stop" /\ Goto(t, "merge") /\ UNCHANGED call
    /\ UNCHANGED <<mapVars, trackerVars, accessVars, lockVars, historyVars>>

(* onAccessHandling reads the node of the thread for the row of the access *)
(* matrix, for the distance, and up to twice for the kind.                 *)
accessMatrix(t) ==
    /\ pc[t] = "matrix"
    /\ access' = [access EXCEPT ![t].row = numa[TrackerOf(t)]]
    /\ Goto(t, "distance")
    /\ UNCHANGED <<mapVars, trackerVars, accessBatch, lockVars, call, historyVars>>

getDistance(t) ==
    /\ pc[t] = "distance"
    /\ access' = [access EXCEPT ![t].dist = numa[TrackerOf(t)]]
    /\ Goto(t, "classify")
    /\ UNCHANGED <<mapVars, trackerVars, accessBatch, lockVars, call, historyVars>>

isMemBind(i) == numa[i] # Unbound \/ memPolicy[i] # "NO_BIND"

(* Mutant: it is not tested whether the thread is bound.                   *)
KindReadBound(i, page) ==
    CASE page.first ->
             IF isMemBind(i) THEN "firstTouch" ELSE "unpinnedFirstTouch"
      [] ~page.first /\ page.node \in isMcdram ->
             IF parentNode(page.node) = numa[i] THEN "localMcdram" ELSE "remoteMcdram"
      [] OTHER -> IF page.pinned THEN "none" ELSE "unpinnedPage"

(* The kind the access is counted as; "none" when numa is to be read again.*)
KindRead(i, page) ==
    CASE page.first ->
             IF isMemBind(i) THEN "firstTouch" ELSE "unpinnedFirstTouch"
      [] ~page.first /\ page.node \in isMcdram ->
             IF parentNode(page.node) = numa[i] THEN "localMcdram" ELSE "remoteMcdram"
      [] ~page.first /\ page.node \notin isMcdram /\ numa[i] = Unbound ->
             IF page.pinned THEN "unpinnedThread" ELSE "unpinnedBoth"
      [] OTHER -> IF page.pinned THEN "none" ELSE "unpinnedPage"

classify(t) ==
    LET kind == KindRead(TrackerOf(t), access[t].page)
    IN  /\ pc[t] = "classify"
        /\ access' = [access EXCEPT ![t].kind = kind]
        /\ Goto(t, IF kind = "none" THEN "local" ELSE "counted")
        /\ UNCHANGED <<mapVars, trackerVars, accessBatch, lockVars, call,
                       historyVars>>

local(t) ==
    /\ pc[t] = "local"
    /\ access' = [access EXCEPT ![t].kind =
           IF numa[TrackerOf(t)] = access[t].page.node THEN "local" ELSE "remote"]
    /\ Goto(t, "counted")
    /\ UNCHANGED <<mapVars, trackerVars, accessBatch, lockVars, call, historyVars>>

Forget(t) ==
    /\ access' = [access EXCEPT ![t] = NoAccess]
    /\ seen' = [seen EXCEPT ![t] = {}]

(* The access is counted.  A table of counters it fills is merged.         *)
onAccessHandling(t) ==
    /\ pc[t] = "counted"
    /\ \/ Goto(t, "merge") /\ UNCHANGED <<access, seen>>
       \/ Goto(t, "flush") /\ Forget(t)
    /\ UNCHANGED <<mapVars, trackerVars, accessBatch, lockVars, call, calls,
                   unknown>>

-----------------------------------------------------------------------------
(* ProcessTracker::mergeInstruction, under the mutex of the process, for a *)
(* table that is full and for the table of a thread that stops.            *)

mergeInstruction(t) ==
    /\ pc[t] = "merge"
    /\ mutex = NoThread
    /\ mutex' = t
    /\ Goto(t, "mergeUnlock")
    /\ UNCHANGED <<mapVars, trackerVars, accessVars, logMutex, call, historyVars>>

AfterMerge(t) ==
    /\ IF access[t] # NoAccess
       THEN /\ Goto(t, "flush")
            /\ UNCHANGED <<call, life>>
       ELSE /\ Return(t)
            /\ life' = [life EXCEPT ![t] = "ended"]
    /\ Forget(t)

mergeUnlock(t) ==
    /\ pc[t] = "mergeUnlock"
    /\ mutex' = NoThread
    /\ AfterMerge(t)
    /\ UNCHANGED <<threads, affinity, trackerVars, accessBatch, logMutex, calls,
                   unknown>>

-----------------------------------------------------------------------------
(* The end of a thread, and set_mempolicy.                                 *)

onStop(t) ==
    /\ Ready(t)
    /\ call' = [call EXCEPT ![t] = [op |-> "stop"]]
    /\ Goto(t, "flush")
    /\ UNCHANGED <<mapVars, trackerVars, accessVars, lockVars, historyVars>>

onSetMemPolicy(t, policy) ==
    /\ Enter(t, [op |-> "policy", policy |-> policy], "flush")
    /\ UNCHANGED <<mapVars, trackerVars, accessVars, lockVars, seen, unknown>>

setPolicy(t) ==
    LET i == threads[t]
        type == staticComputeBindType(call[t].policy.mode, call[t].policy.nodes)
    IN  /\ pc[t] = "setPolicy"
        /\ memPolicy' = [memPolicy EXCEPT ![i] = type]
        /\ seen' = [u \in Thread |->
                       IF TrackerOf(u) = i /\ access[u] # NoAccess
                       THEN seen[u] \cup {[node |-> numa[i], type |-> type]}
                       ELSE seen[u]]
        /\ Return(t)
        /\ UNCHANGED <<mapVars, tid, numa, bindingLog, accessVars, lockVars,
                       calls, unknown>>

-----------------------------------------------------------------------------
(* What a thread does on its own inside a hook.                            *)
Step(t) ==
    \/ createLock(t) \/ createThreadTracker(t) \/ createUnlock(t)
    \/ onThreadSetAffinity(t) \/ search(t) \/ unlock(t) \/ sched_setaffinity(t)
    \/ onSetAffinity(t) \/ bind(t) \/ logBinding(t) \/ logUnlock(t)
    \/ flushOne(t) \/ flushAccessBatch(t)
    \/ mergeInstruction(t) \/ mergeUnlock(t) \/ setPolicy(t)
    \/ accessMatrix(t) \/ getDistance(t) \/ classify(t) \/ local(t)
    \/ onAccessHandling(t)

(* What the program decides to do next.                                    *)
Act(t) ==
    \/ \E u \in Thread : pthread_create(t, u)
    \/ \E u \in Thread, mask \in Mask : beforeSchedSetAffinity(t, u, mask)
    \/ \E policy \in Policy : onSetMemPolicy(t, policy)
    \/ \E page \in Page : onAccess(t, page)
    \/ onStop(t)

Terminated == (\A t \in Thread : life[t] # "alive") /\ UNCHANGED vars

Next == (\E t \in Thread : Step(t) \/ Act(t)) \/ Terminated

(* A thread inside a hook is scheduled as long as it can run; nothing      *)
(* makes the program call another hook, and no lock is given in turn.      *)
Fairness == \A t \in Thread : WF_vars(Step(t))

Spec == Init /\ [][Next]_vars /\ Fairness

-----------------------------------------------------------------------------
(* Properties.                                                             *)

(* "Get from the current thread its binding" must stay true while the      *)
(* program moves its threads: between two calls on it, a thread's tracker  *)
(* has the node of the mask the kernel has.  The binding may be missed,    *)
(* until the next call, when two calls on the thread overlapped, when the  *)
(* kernel refused one, when the tracker was not found in time, and when    *)
(* the tracker is that of an ended thread (history variable unknown).      *)
BindingIsKernels ==
    \A t \in Thread \ unknown :
        life[t] = "alive" /\ call[t].op # "create" /\ Binders(t) = {}
            => numa[threads[t]] = NodeOfMask(affinity[t])

(* The binding log of the profile tells the changes of node and ends with  *)
(* the present one, whichever threads write it at the same time.           *)
LogEndsWithBinding ==
    \A i \in Id : tid[i] # NoThread /\ logMutex[i] = NoThread =>
        LET log == bindingLog[i]
        IN  /\ log[Len(log)] = numa[i]
            /\ \A n \in 2 .. Len(log) : log[n] # log[n - 1]

(* README.md:23-29: the kind of an access, from the node n of its thread.  *)
KindOf(n, type, page) ==
    LET bound == n # Unbound
        here == n = page.node
    IN  IF page.first
        THEN IF bound \/ type # "NO_BIND" THEN "firstTouch" ELSE "unpinnedFirstTouch"
        ELSE IF page.node \in isMcdram
        THEN IF n = parentNode(page.node) THEN "localMcdram" ELSE "remoteMcdram"
        ELSE IF page.pinned
        THEN IF ~bound THEN "unpinnedThread" ELSE IF here THEN "local" ELSE "remote"
        ELSE IF bound THEN "unpinnedPage" ELSE "unpinnedBoth"

(* A thread that is moved during its access is counted under a binding it  *)
(* had meanwhile; when it is not moved, the access matrix and the          *)
(* distances agree with the kind.  An access to the thread's own node is   *)
(* counted as remote when the thread is unbound between the two tests.     *)
AccessClassified ==
    \A t \in Thread : pc[t] = "counted" =>
        LET page == access[t].page
            nodes == {b.node : b \in seen[t]}
        IN  /\ \/ \E b \in seen[t] : access[t].kind = KindOf(b.node, b.type, page)
               \/ {page.node, Unbound} \subseteq nodes /\ access[t].kind = "remote"
            /\ \A n \in nodes :
                  nodes = {n} => access[t].row = n /\ access[t].dist = n

(* A thread that entered a hook leaves it: looking for a thread ends, and  *)
(* no lock is waited for forever.                                          *)
EveryHookReturns == \A t \in Thread : pc[t] # "idle" ~> pc[t] = "idle"

=============================================================================
