------------------------- MODULE ThreadBindingProofs -------------------------
(***************************************************************************)
(* Proofs about ThreadBinding, for every number of threads, ids, masks and *)
(* accesses, with and without batches, ids recycled or not: the summary of *)
(* a mask that getNumaAffinity computes CPU after CPU is the node that has *)
(* all of its CPUs; the tracker of a thread has the node of the mask the   *)
(* kernel has for it; the binding log ends with that node; an access is    *)
(* counted under a binding its thread had meanwhile.                       *)
(***************************************************************************)
EXTENDS ThreadBinding, FiniteSetTheorems, TLAPS

-----------------------------------------------------------------------------
(* The summary of a mask.                                                  *)

(* Among finite sets there is one that contains no other: the form of      *)
(* induction on their size that is used here.                              *)
LEMMA SmallestSubset ==
    ASSUME NEW S, NEW T, T # {}, \A U \in T : U \subseteq S /\ IsFiniteSet(U)
    PROVE  \E U \in T : \A V \in T : V \subseteq U => V = U
<1>1. T \subseteq FiniteSubsetsOf(S)
  BY DEF FiniteSubsetsOf
<1>2. PICK U \in T : \A V \in T : ~ (<<V, U>> \in StrictSubsetOrdering(S))
  <2> HIDE DEF StrictSubsetOrdering, FiniteSubsetsOf
  <2> QED BY <1>1, FS_StrictSubsetOrderingWellFounded, WFMin
<1> QED
  BY <1>2 DEF StrictSubsetOrdering

(* A set of naturals that is not empty has a least element.                *)
LEMMA LeastNatural ==
    ASSUME NEW T \in SUBSET Nat, T # {}
    PROVE  \E n \in T : \A m \in T : n <= m
<1> DEFINE Below == {0 .. n - 1 : n \in T}
<1>1. \A U \in Below : U \subseteq Nat /\ IsFiniteSet(U)
  <2> TAKE U \in Below
  <2>1. PICK n \in T : U = 0 .. n - 1
    OBVIOUS
  <2>2. 0 \in Int /\ n - 1 \in Int
    OBVIOUS
  <2> QED BY <2>1, <2>2, FS_Interval
<1>2. Below # {}
  OBVIOUS
<1>3. PICK U \in Below : \A V \in Below : V \subseteq U => V = U
  <2> HIDE DEF Below
  <2> QED BY <1>1, <1>2, SmallestSubset
<1>4. PICK n \in T : U = 0 .. n - 1
  OBVIOUS
<1>5. ASSUME NEW m \in T, m < n PROVE FALSE
  <2>1. 0 .. m - 1 \in Below /\ 0 .. m - 1 \subseteq U
    BY <1>4, <1>5
  <2>2. m \in U
    BY <1>4, <1>5
  <2>3. m \notin 0 .. m - 1
    BY <1>4
  <2> QED BY <1>3, <2>1, <2>2, <2>3
<1> QED
  BY <1>5

(* The node of the CPUs of mask below n, or NoneSeen.  *)
NodeBelow(mask, n) ==
    LET below == {c \in mask : c < n}
    IN  IF below = {} THEN NoneSeen ELSE NodeOfMask(below)

(* The node of a mask is the node that has all of its CPUs.                *)
LEMMA NodeOfMaskTyped ==
    ASSUME NEW mask \in SUBSET Cpu
    PROVE  /\ NodeOfMask(mask) \in Numa
           /\ \A n \in Node : NodeOfMask(mask) = n <=> mask # {} /\ \A c \in mask : numaMap[c] = n
<1>1. \A n \in Node : n # Unbound
  BY TopologyAssumption DEF Unbound
<1> QED
  BY <1>1 DEF NodeOfMask, Numa

(* A turn of getNumaAffinity's loop: one more CPU joins the summary.       *)
LEMMA OneMoreCpu ==
    ASSUME NEW mask \in SUBSET Cpu, NEW n \in Cpu
    PROVE  NodeBelow(mask, n + 1) =
               IF n \in mask THEN Joined(NodeBelow(mask, n), numaMap[n]) ELSE NodeBelow(mask, n)
<1> DEFINE low == {c \in mask : c < n}
           up == {c \in mask : c < n + 1}
<1>0. Cpu \subseteq Nat /\ numaMap[n] \in Node /\ NoneSeen \notin Numa /\ numaMap[n] # Unbound
  BY TopologyAssumption DEF Cpu, Numa, NoneSeen, Unbound
<1>00. n \in Int /\ \A c \in mask : c \in Int /\ (c < n + 1 <=> c < n \/ c = n)
  BY <1>0
<1>1. CASE n \notin mask
  <2>1. low = up
    BY <1>00, <1>1
  <2> QED BY <2>1, <1>1 DEF NodeBelow
<1>2. CASE n \in mask
  <2>1. up = low \cup {n} /\ up \in SUBSET Cpu /\ low \in SUBSET Cpu
    <3>1. up = low \cup {n}
      BY <1>00, <1>2
    <3> QED BY <3>1
  <2> HIDE DEF low, up
  <2>2. NodeBelow(mask, n + 1) = NodeOfMask(up)
    BY <2>1 DEF NodeBelow, up
  <2>3. CASE low = {}
    <3>1. NodeBelow(mask, n) = NoneSeen
      BY <2>3 DEF NodeBelow, low
    <3> QED BY <2>1, <2>2, <2>3, <3>1, <1>0, <1>2, NodeOfMaskTyped DEF Joined
  <2>4. CASE low # {}
    <3>1. NodeBelow(mask, n) = NodeOfMask(low)
      BY <2>4 DEF NodeBelow, low
    <3>2. CASE NodeOfMask(low) = numaMap[n]
      BY <2>1, <2>2, <2>4, <3>1, <3>2, <1>0, <1>2, NodeOfMaskTyped DEF Joined, Numa
    <3>3. CASE NodeOfMask(low) # numaMap[n]
      <4>1. NodeOfMask(up) = Unbound
        BY <2>1, <2>4, <3>3, <1>0, NodeOfMaskTyped DEF Numa
      <4> QED
        BY <2>1, <2>2, <3>1, <3>3, <4>1, <1>0, <1>2, NodeOfMaskTyped DEF Joined
    <3> QED BY <3>2, <3>3
  <2> QED BY <2>3, <2>4
<1> QED BY <1>1, <1>2

(* getCurrentNumaAffinity goes through the CPUs in order and joins their   *)
(* nodes; for every map of CPUs to nodes it ends with the node that has    *)
(* every CPU of the mask, and -1 when there is none.                       *)
THEOREM AffinityIsNodeOfMask ==
    ASSUME NEW mask \in SUBSET Cpu
    PROVE  getNumaAffinity(mask) = NodeOfMask(mask)
<1>0. NodeBelow(mask, 0) = NoneSeen /\ NodeBelow(mask, cpus) = IF mask = {} THEN NoneSeen ELSE NodeOfMask(mask)
  <2>1. \A c \in mask : c \in Int /\ ~(c < 0) /\ c < cpus
    BY TopologyAssumption DEF Cpu
  <2>2. {c \in mask : c < 0} = {} /\ {c \in mask : c < cpus} = mask
    BY <2>1
  <2> QED BY <2>2 DEF NodeBelow
<1> DEFINE upTo[n \in 0 .. cpus] ==
               IF n = 0 THEN NoneSeen
               ELSE IF n - 1 \in mask THEN Joined(upTo[n - 1], numaMap[n - 1])
                                      ELSE upTo[n - 1]
           Unfolds(f) == f = [n \in 0 .. cpus |->
               IF n = 0 THEN NoneSeen
               ELSE IF n - 1 \in mask THEN Joined(f[n - 1], numaMap[n - 1])
                                      ELSE f[n - 1]]
           closed == [n \in 0 .. cpus |-> NodeBelow(mask, n)]
<1>1. Unfolds(closed)
  <2>1. ASSUME NEW n \in 0 .. cpus
        PROVE closed[n] =
               IF n = 0 THEN NoneSeen
               ELSE IF n - 1 \in mask THEN Joined(closed[n - 1], numaMap[n - 1])
                                      ELSE closed[n - 1]
    <3>1. CASE n = 0
      BY <3>1, <1>0
    <3>2. CASE n # 0
      <4>1. n - 1 \in Cpu /\ n - 1 \in 0 .. cpus /\ (n - 1) + 1 = n
        BY <3>2, TopologyAssumption DEF Cpu
      <4>2. closed[n] = NodeBelow(mask, n) /\ closed[n - 1] = NodeBelow(mask, n - 1)
        BY <4>1
      <4> HIDE DEF closed
      <4> QED BY <4>1, <4>2, <3>2, OneMoreCpu
    <3> QED BY <3>1, <3>2
  <2> QED BY <2>1
<1>2. Unfolds(upTo)
  <2>1. upTo = CHOOSE f : Unfolds(f)
    OBVIOUS
  <2> HIDE DEF upTo, closed, Unfolds
  <2> QED BY <1>1, <2>1
<1>3. getNumaAffinity(mask) = IF upTo[cpus] = NoneSeen THEN Unbound ELSE upTo[cpus]
  BY DEF getNumaAffinity
<1> HIDE DEF upTo
<1>4. \A n \in 0 .. cpus : upTo[n] = NodeBelow(mask, n)
  <2> DEFINE T == {n \in 0 .. cpus : upTo[n] # NodeBelow(mask, n)}
  <2>1. SUFFICES ASSUME T # {} PROVE FALSE
    OBVIOUS
  <2>2. PICK n \in T : \A m \in T : n <= m
    <3>1. T \in SUBSET Nat
      BY TopologyAssumption
    <3> HIDE DEF T
    <3> QED BY <2>1, <3>1, LeastNatural
  <2>3. CASE n = 0
    BY <1>0, <1>2, <2>3
  <2>4. CASE n # 0
    <3>1. n - 1 \in Cpu /\ n - 1 \in 0 .. cpus /\ (n - 1) + 1 = n /\ n - 1 \notin T
      BY <2>2, <2>4, TopologyAssumption DEF Cpu
    <3>2. upTo[n - 1] = NodeBelow(mask, n - 1)
      BY <3>1
    <3>3. upTo[n] = IF n - 1 \in mask THEN Joined(upTo[n - 1], numaMap[n - 1])
                                      ELSE upTo[n - 1]
      BY <1>2, <2>4
    <3> QED BY <3>1, <3>2, <3>3, OneMoreCpu
  <2> QED BY <2>3, <2>4
<1>5. upTo[cpus] = IF mask = {} THEN NoneSeen ELSE NodeOfMask(mask)
  BY <1>0, <1>4, TopologyAssumption
<1> QED
  <2>1. NodeOfMask({}) = Unbound
    BY DEF NodeOfMask
  <2>2. NodeOfMask(mask) # NoneSeen
    BY NodeOfMaskTyped, TopologyAssumption DEF Numa, NoneSeen, Unbound
  <2> QED BY <1>3, <1>5, <2>1, <2>2

-----------------------------------------------------------------------------
(* The inductive invariant.                                                *)

CreateLabel == {"createLock", "construct", "createUnlock"}
BindLabel == {"lookup", "search", "unlock", "logLock", "bind", "log",
              "logUnlock", "syscall"}
AccessLabel == {"matrix", "distance", "classify", "local", "counted"}
MergeLabel == {"merge", "mergeUnlock"}

(* Where a thread is says which hook it is in, and whether it handles an   *)
(* access.                                                                 *)
InHook ==
    \A t \in Thread :
        /\ pc[t] = "idle" <=> call[t].op = "none"
        /\ pc[t] \in CreateLabel <=> call[t].op = "create"
        /\ pc[t] \in BindLabel => call[t].op = "bind"
        /\ pc[t] = "setPolicy" => call[t].op = "policy"
        /\ pc[t] \in AccessLabel => access[t] # NoAccess
        /\ access[t] # NoAccess => pc[t] \in AccessLabel \cup MergeLabel
        /\ pc[t] \in MergeLabel /\ access[t] = NoAccess => call[t].op = "stop"
        /\ call[t].op # "none" => life[t] = "alive"

(* A thread out of its first hook has a tracker, and the thread a tracker  *)
(* was made for has no other one.                                          *)
Tracked ==
    /\ \A t \in Thread :
          /\ life[t] # "none" => threads[t] \in Id
          /\ life[t] = "alive" /\ pc[t] \notin {"createLock", "construct"} =>
                tid[threads[t]] # NoThread
    /\ \A i \in Id : tid[i] # NoThread =>
          life[tid[i]] # "none" /\ threads[tid[i]] = i

(* The tracker a call works on is that of its target.                      *)
OnTarget(t) ==
    LET u == call[t].target
        i == call[t].tracker
    IN  /\ life[u] # "none"
        /\ i # NoId => i = threads[u] /\ tid[i] # NoThread
        /\ u = t => i # NoId /\ pc[t] \notin {"lookup", "search", "unlock"}
        /\ pc[t] \in {"lookup", "search"} => i = NoId
        /\ i = NoId => pc[t] \in {"lookup", "search", "unlock", "syscall"}
        /\ pc[t] # "syscall" => call[t].lookups < RetryLimit

BindsTarget == \A t \in Thread : call[t].op = "bind" => OnTarget(t)

(* bindingLogMutex is held from the change of the node to its entry, and a *)
(* log that does not end with the node is about to.                        *)
WellLogged(i) ==
    LET log == bindingLog[i]
    IN  /\ log # <<>>
        /\ \A n \in 2 .. Len(log) : log[n] # log[n - 1]
        /\ log[Len(log)] = numa[i] \/
              \E t \in Thread : pc[t] = "log" /\ call[t].tracker = i

LogFollows ==
    /\ \A t \in Thread : pc[t] \in {"bind", "log", "logUnlock"} =>
          logMutex[call[t].tracker] = t
    /\ \A i \in Id : tid[i] # NoThread => WellLogged(i)

(* A call that is alone is the only one on its target, and from its bind   *)
(* on the tracker has the node of its mask.                                *)
OnlyBinder(t) ==
    /\ Binders(call[t].target) = {t}
    /\ (/\ call[t].tracker # NoId
        /\ pc[t] \in {"log", "logUnlock", "unlock", "syscall"})
           => numa[call[t].tracker] = NodeOfMask(call[t].mask)

AloneBinds ==
    \A t \in Thread : call[t].op = "bind" /\ call[t].alone => OnlyBinder(t)

(* BindingIsKernels, from the moment the tracker is made.                  *)
Settled(t) ==
    /\ life[t] = "alive"
    /\ pc[t] \notin {"createLock", "construct"}
    /\ Binders(t) = {}

NodeKnown ==
    \A t \in Thread \ unknown :
        Settled(t) => numa[threads[t]] = NodeOfMask(affinity[t])

(* What an access has read so far was the binding at some moment of it.    *)
Nodes(t) == {b.node : b \in seen[t]}

Classified(t) ==
    \/ \E b \in seen[t] :
          access[t].kind = KindOf(b.node, b.type, access[t].page)
    \/ {access[t].page.node, Unbound} \subseteq Nodes(t) /\ access[t].kind = "remote"

Reads(t) == [node |-> numa[TrackerOf(t)], type |-> memPolicy[TrackerOf(t)]]

Covered(t) ==
    LET page == access[t].page
    IN  /\ Reads(t) \in seen[t]
        /\ pc[t] # "matrix" => access[t].row \in Nodes(t)
        /\ pc[t] \notin {"matrix", "distance"} => access[t].dist \in Nodes(t)
        /\ pc[t] = "local" =>
              /\ ~page.first /\ page.pinned /\ page.node \notin isMcdram
              /\ \E n \in Nodes(t) : n # Unbound
        /\ pc[t] \in {"counted"} \cup MergeLabel => Classified(t)

SeenCovers == \A t \in Thread : access[t] # NoAccess => Covered(t)

IInv == /\ TypeOK /\ InHook /\ Tracked /\ BindsTarget
        /\ LogFollows /\ AloneBinds /\ NodeKnown /\ SeenCovers

-----------------------------------------------------------------------------
(* What the calls, the accesses and the summaries are made of.             *)

(* A call on another thread, or on the caller, has all its fields.         *)
LEMMA BindCallTyped ==
    ASSUME NEW c \in Call, c.op = "bind"
    PROVE  c \in BindCalls
BY DEF Call, SimpleCalls, PolicyCalls, BindCalls

(* The hooks a thread can be in.                                           *)
LEMMA CallOps ==
    ASSUME NEW c \in Call
    PROVE  c.op \in {"none", "create", "access", "stop", "policy", "bind"}
BY DEF Call, SimpleCalls, PolicyCalls, BindCalls

(* A hook without arguments.                                               *)
LEMMA SimpleCallTyped ==
    ASSUME NEW o \in {"none", "create", "access", "stop"}
    PROVE  [op |-> o] \in Call
BY DEF Call, SimpleCalls

(* Outside a hook there is no call.                                        *)
LEMMA NoCallTyped == NoCall \in Call /\ NoCall.op = "none"
BY SimpleCallTyped DEF NoCall

(* An access that is handled has all its fields.                           *)
LEMMA AccessTyped ==
    ASSUME NEW a \in Access, a # NoAccess
    PROVE  a \in Accesses
BY DEF Access

(* What getNumaAffinity returns is a node or Unbound.                      *)
LEMMA AffinityTyped ==
    ASSUME NEW mask \in SUBSET Cpu
    PROVE  getNumaAffinity(mask) \in Numa
BY AffinityIsNodeOfMask, NodeOfMaskTyped

(* What staticComputeBindType returns is a type of policy.                 *)
LEMMA PolicyTyped ==
    ASSUME NEW mode, NEW nodes
    PROVE  staticComputeBindType(mode, nodes) \in PolicyType
<1> DEFINE single == Cardinality({numaMap[n] : n \in nodes}) = 1
<1>1. staticComputeBindType(mode, nodes) =
          CASE mode \in {"default", "local"} ->
               IF single THEN "BIND_ONE" ELSE "NO_BIND"
        [] mode = "interleave" -> "INTERLEAVE"
        [] mode \in {"preferred", "bind"} ->
               IF single \/ nodes = {} THEN "BIND_ONE" ELSE "BIND_MULTIPLE"
        [] OTHER -> "NO_BIND"
  BY DEF staticComputeBindType
<1> HIDE DEF single
<1> QED
  BY <1>1 DEF PolicyType

(* classify decides on a kind or leaves it to local.                       *)
LEMMA KindReadTyped ==
    ASSUME NEW i, NEW page \in Page
    PROVE  KindRead(i, page) \in Kind \cup {"none"}
BY BindingAssumption DEF KindRead, Kind

(* An access keeps its type when what is read goes into it.                *)
LEMMA AccessWith ==
    ASSUME NEW a \in Accesses, NEW n \in Numa, NEW k \in Kind \cup {"none"}
    PROVE  /\ [a EXCEPT !.row = n] \in Accesses
           /\ [a EXCEPT !.dist = n] \in Accesses
           /\ [a EXCEPT !.kind = k] \in Accesses
BY DEF Accesses

(* A call that is no longer alone is a call.                               *)
LEMMA BindCallJoined ==
    ASSUME NEW c \in Call, c.op = "bind"
    PROVE  [c EXCEPT !.alone = FALSE] \in Call
<1>1. c \in BindCalls
  BY BindCallTyped
<1>2. [c EXCEPT !.alone = FALSE] \in BindCalls
  BY <1>1 DEF BindCalls
<1> QED
  BY <1>2 DEF Call

(* A call of sched_setaffinity is a call.                                  *)
LEMMA BindCallIsCall ==
    ASSUME NEW c \in BindCalls
    PROVE  c \in Call /\ c.op = "bind"
BY DEF BindCalls, Call

-----------------------------------------------------------------------------
(* Where the trackers of the calls are.                                    *)

(* A thread that is past its first hook works on the tracker of a thread.  *)
LEMMA TrackerKnown ==
    ASSUME IInv, NEW t \in Thread,
           pc[t] \notin {"idle", "lookup", "search", "unlock", "syscall"} \cup CreateLabel
    PROVE  /\ TrackerOf(t) \in Id
           /\ tid[TrackerOf(t)] # NoThread
           /\ life[t] = "alive"
<1>1. call[t] \in Call /\ life[t] = "alive" /\ threads[t] \in Id \cup {NoId}
  BY DEF IInv, TypeOK, InHook
<1>2. CASE call[t].op = "bind"
  <2>1. call[t].tracker # NoId
    BY <1>2 DEF IInv, BindsTarget, OnTarget
  <2>2. call[t].tracker \in Id
    BY <1>1, <1>2, <2>1, BindCallTyped DEF BindCalls
  <2> QED
    BY <1>1, <1>2, <2>1, <2>2 DEF IInv, BindsTarget, OnTarget, TrackerOf
<1>3. CASE call[t].op # "bind"
  BY <1>1, <1>3 DEF IInv, Tracked, TrackerOf, CreateLabel
<1> QED
  BY <1>2, <1>3

(* Inside sched_setaffinity a thread has the arguments of that call.       *)
LEMMA BinderTyped ==
    ASSUME IInv, NEW t \in Thread, pc[t] \in BindLabel \/ call[t].op = "bind"
    PROVE  /\ call[t].op = "bind"
           /\ call[t] \in BindCalls
           /\ life[t] = "alive"
<1>1. call[t].op = "bind"
  BY DEF IInv, InHook
<1>2. call[t] \in Call
  BY DEF IInv, TypeOK
<1> QED
  BY <1>1, <1>2, BindCallTyped DEF IInv, InHook


-----------------------------------------------------------------------------
(* What a step leaves to the threads that do not make it.                  *)

(* The call of a thread stays what it is, or is no longer alone.           *)
SameCall(v) ==
    \/ call'[v] = call[v]
    \/ call[v].op = "bind" /\ call'[v] = [call[v] EXCEPT !.alone = FALSE]

(* A call that stays has its arguments, and is alone only if it was.       *)
LEMMA SameCallFields ==
    ASSUME IInv, NEW v \in Thread, SameCall(v)
    PROVE  /\ call'[v].op = call[v].op
           /\ call[v].op = "bind" =>
                 /\ call'[v].target = call[v].target
                 /\ call'[v].mask = call[v].mask
                 /\ call'[v].tracker = call[v].tracker
                 /\ call'[v].lookups = call[v].lookups
                 /\ call'[v].alone => call[v].alone /\ call'[v] = call[v]
<1>1. CASE call'[v] = call[v]
  BY <1>1
<1>2. CASE call[v].op = "bind" /\ call'[v] = [call[v] EXCEPT !.alone = FALSE]
  BY <1>2, BinderTyped DEF BindCalls
<1> QED
  BY <1>1, <1>2 DEF SameCall

(* A thread that does not make the step waits where it was, unless it is   *)
(* the one that the step creates.                                          *)
Waits(v) ==
    /\ pc'[v] = pc[v] /\ access'[v] = access[v] /\ life'[v] = life[v]
    /\ SameCall(v)

Created(v) ==
    /\ life[v] = "none" /\ life'[v] = "alive"
    /\ call'[v].op = "create" /\ pc'[v] = "createLock"
    /\ access'[v] = access[v]

(* A step of one thread moves no other thread.                             *)
LEMMA OthersWait ==
    ASSUME IInv, NEW t \in Thread, Step(t) \/ Act(t), NEW v \in Thread \ {t}
    PROVE  Waits(v) \/ Created(v)
<1> USE DEF mapVars, trackerVars, lockVars, accessVars, historyVars, Goto, Waits, SameCall
<1>0. TypeOK /\ v # t /\ v \in Thread
  BY DEF IInv
<1>1. ASSUME NEW u \in Thread, pthread_create(t, u)
      PROVE  Waits(v) \/ Created(v)
  BY <1>0, <1>1 DEF pthread_create, TypeOK, Created
<1>2. ASSUME \E u \in Thread, mask \in Mask : beforeSchedSetAffinity(t, u, mask)
      PROVE  Waits(v)
  BY <1>0, <1>2 DEF beforeSchedSetAffinity, TypeOK, Binders
<1>3. ASSUME bind(t)
      PROVE  Waits(v)
  BY <1>0, <1>3 DEF bind, TypeOK
<1>4. ASSUME \/ createLock(t) \/ createThreadTracker(t) \/ createUnlock(t)
             \/ onThreadSetAffinity(t) \/ search(t) \/ unlock(t) \/ sched_setaffinity(t)
             \/ onSetAffinity(t) \/ logBinding(t) \/ logUnlock(t)
             \/ flushAccessBatch(t) \/ setPolicy(t) \/ mergeInstruction(t)
             \/ onStop(t) \/ \E policy \in Policy : onSetMemPolicy(t, policy)
             \/ \E page \in Page : onAccess(t, page)
      PROVE  Waits(v)
  <2>1. UNCHANGED <<life, access>>
    BY <1>4 DEF createLock, createThreadTracker, createUnlock, onThreadSetAffinity,
       search, unlock, sched_setaffinity, onSetAffinity, logBinding, logUnlock,
       flushAccessBatch, setPolicy, mergeInstruction, onStop, onSetMemPolicy, onAccess, Enter
  <2>2. \E label : pc' = [pc EXCEPT ![t] = label]
    BY <1>4 DEF createLock, createThreadTracker, createUnlock, onThreadSetAffinity,
       search, unlock, sched_setaffinity, onSetAffinity, logBinding, logUnlock,
       flushAccessBatch, setPolicy, mergeInstruction, onStop, onSetMemPolicy, onAccess,
       Enter, Return
  <2>3. \E c : call' = [call EXCEPT ![t] = c]
    <3>1. CASE call' = call
      <4>1. call' = [call EXCEPT ![t] = call[t]]
        BY <1>0, <3>1 DEF TypeOK
      <4> QED
        BY <4>1
    <3>2. CASE call' # call
      BY <1>4, <3>2 DEF createLock, createThreadTracker, createUnlock, onThreadSetAffinity,
         search, unlock, sched_setaffinity, onSetAffinity, logBinding, logUnlock,
         flushAccessBatch, setPolicy, mergeInstruction, onStop, onSetMemPolicy, onAccess,
         Enter, Return
    <3> QED
      BY <3>1, <3>2
  <2> QED
    BY <1>0, <2>1, <2>2, <2>3 DEF TypeOK
<1>5. ASSUME \/ flushOne(t) \/ accessMatrix(t) \/ getDistance(t) \/ classify(t) \/ local(t)
             \/ onAccessHandling(t)
      PROVE  Waits(v)
  BY <1>0, <1>5 DEF flushOne, accessMatrix, getDistance, classify, local,
     onAccessHandling, Forget, TypeOK
<1>6. ASSUME mergeUnlock(t)
      PROVE  Waits(v)
  BY <1>0, <1>6 DEF mergeUnlock, AfterMerge, Return, Forget, TypeOK
<1> QED
  BY <1>1, <1>2, <1>3, <1>4, <1>5, <1>6 DEF Step, Act

(* Only a call and its return change which threads bind which.             *)
LEMMA CallStays ==
    ASSUME IInv, NEW t \in Thread, Step(t) \/ Act(t),
           ~ \E u \in Thread, mask \in Mask : beforeSchedSetAffinity(t, u, mask),
           ~ sched_setaffinity(t), NEW v \in Thread
    PROVE  /\ call'[v].op = "bind" <=> call[v].op = "bind"
           /\ call[v].op = "bind" =>
                 /\ call'[v].target = call[v].target
                 /\ call'[v].mask = call[v].mask
                 /\ call'[v].alone => call[v].alone
                 /\ call'[v].tracker = call[v].tracker \/ (v = t /\ search(t))
                 /\ call'[v].lookups = call[v].lookups \/ (v = t /\ unlock(t))
<1> USE DEF mapVars, trackerVars, Goto
<1>0. TypeOK /\ InHook
  BY DEF IInv
<1>1. CASE v # t
  <2>1. ASSUME Created(v)
        PROVE  call'[v].op # "bind" /\ call[v].op # "bind"
    BY <1>0, <2>1, CallOps DEF Created, InHook, TypeOK
  <2> QED
    BY <1>1, <2>1, OthersWait, SameCallFields DEF Waits
<1>2. CASE v = t /\ call'[t] = call[t]
  BY <1>2
<1>3. CASE v = t /\ search(t)
  <2>1. pc[t] = "search"
    BY <1>3 DEF search
  <2>2. call[t].op = "bind" /\ call[t] \in BindCalls
    BY <2>1, BinderTyped DEF BindLabel
  <2>3. call' = call \/ \E i \in Id : call' = [call EXCEPT ![t].tracker = i]
    BY <1>3 DEF search
  <2>4. ASSUME NEW i \in Id, call' = [call EXCEPT ![t].tracker = i]
        PROVE  /\ call'[t].op = call[t].op /\ call'[t].target = call[t].target
               /\ call'[t].mask = call[t].mask /\ call'[t].alone = call[t].alone
               /\ call'[t].lookups = call[t].lookups
    BY <1>0, <2>2, <2>4 DEF TypeOK, BindCalls
  <2> QED
    BY <1>2, <1>3, <2>3, <2>4
<1>4. CASE v = t /\ unlock(t)
  <2>1. pc[t] = "unlock" /\ call' = [call EXCEPT ![t].lookups = call[t].lookups + 1]
    BY <1>4 DEF unlock
  <2>2. call[t].op = "bind" /\ call[t] \in BindCalls
    BY <2>1, BinderTyped DEF BindLabel
  <2> QED
    BY <1>0, <1>4, <2>1, <2>2 DEF TypeOK, BindCalls
<1>5. CASE call'[t] # call[t] /\ ~ search(t) /\ ~ unlock(t)
  <2> DEFINE Other(c) == call' = [call EXCEPT ![t] = c] /\ c.op # "bind"
  <2>1. call[t].op # "bind"
    <3>1. CASE Ready(t)
      BY <1>0, <3>1 DEF Ready, InHook
    <3>2. CASE ~ Ready(t)
      <4>1. ~ bind(t) /\ \A u \in Thread : ~ pthread_create(t, u)
        BY <1>0, <1>5, <3>2 DEF bind, pthread_create, TypeOK
      <4> QED
        BY <1>0, <1>5, <3>2, <4>1 DEF Step, Act, createLock, createThreadTracker,
     createUnlock, onThreadSetAffinity, sched_setaffinity, onSetAffinity, logBinding,
     logUnlock, flushOne, flushAccessBatch, setPolicy, mergeInstruction, mergeUnlock,
     AfterMerge, accessMatrix, getDistance, classify, local, onAccessHandling,
     beforeSchedSetAffinity, onStop, onSetMemPolicy, onAccess, Enter, Return,
     InHook, CreateLabel, MergeLabel
    <3> QED
      BY <3>1, <3>2
  <2>2. \E c : Other(c)
    <3>1. ASSUME onStop(t) PROVE \E c : Other(c)
      <4>1. Other([op |-> "stop"])
        BY <3>1 DEF onStop
      <4> QED
        BY <4>1
    <3>2. ASSUME NEW policy \in Policy, onSetMemPolicy(t, policy)
          PROVE  \E c : Other(c)
      <4>1. Other([op |-> "policy", policy |-> policy])
        BY <3>2 DEF onSetMemPolicy, Enter
      <4> QED
        BY <4>1
    <3>3. ASSUME NEW page \in Page, onAccess(t, page)
          PROVE  \E c : Other(c)
      <4>1. Other([op |-> "access"]) \/ Other(NoCall)
        BY <3>3, NoCallTyped DEF onAccess, Enter
      <4> QED
        BY <4>1
    <3>4. ~ bind(t) /\ \A u \in Thread : ~ pthread_create(t, u)
      BY <1>0, <1>5 DEF bind, pthread_create, TypeOK, Ready
    <3>5. ASSUME ~ onStop(t), ~ \E policy \in Policy : onSetMemPolicy(t, policy),
                 ~ \E page \in Page : onAccess(t, page)
          PROVE  call' = [call EXCEPT ![t] = NoCall]
      BY <1>5, <3>4, <3>5 DEF Step, Act, createLock, createThreadTracker,
     createUnlock, onThreadSetAffinity, sched_setaffinity, onSetAffinity, logBinding,
     logUnlock, flushOne, flushAccessBatch, setPolicy, mergeInstruction, mergeUnlock,
     AfterMerge, accessMatrix, getDistance, classify, local, onAccessHandling, Return
    <3> QED
      BY <3>1, <3>2, <3>3, <3>5, NoCallTyped
  <2>3. call'[t].op # "bind"
    BY <1>0, <2>2 DEF TypeOK
  <2> QED
    BY <1>1, <2>1, <2>3
<1> QED
  BY <1>1, <1>2, <1>3, <1>4, <1>5

(* Only two steps change which thread has which tracker.                   *)
LEMMA MapKept ==
    ASSUME IInv, NEW t \in Thread, Step(t) \/ Act(t),
           ~ createThreadTracker(t), \A u \in Thread : ~ pthread_create(t, u)
    PROVE  /\ UNCHANGED <<threads, tid>>
           /\ life[t] = "alive" /\ life'[t] # "none"
<1> USE DEF mapVars, trackerVars, Goto
<1>1. UNCHANGED <<threads, tid>>
  BY DEF Step, Act, createLock, createUnlock, onThreadSetAffinity,
     search, unlock, sched_setaffinity, onSetAffinity, bind, logBinding, logUnlock,
     flushOne, flushAccessBatch, setPolicy, mergeInstruction, mergeUnlock,
     accessMatrix, getDistance, classify, local, onAccessHandling,
     beforeSchedSetAffinity, onStop, onSetMemPolicy, onAccess
<1>2. \/ Ready(t)
      \/ pc[t] # "idle"
  BY DEF Step, Act, createLock, createUnlock, onThreadSetAffinity,
     search, unlock, sched_setaffinity, onSetAffinity, bind, logBinding, logUnlock,
     flushOne, flushAccessBatch, setPolicy, mergeInstruction, mergeUnlock,
     accessMatrix, getDistance, classify, local, onAccessHandling,
     beforeSchedSetAffinity, onStop, onSetMemPolicy, onAccess, Enter
<1>3. life[t] = "alive"
  BY <1>2 DEF Ready, IInv, InHook
<1>4. life' = life \/ life' = [life EXCEPT ![t] = "ended"]
  BY DEF Step, Act, createLock, createUnlock, onThreadSetAffinity,
     search, unlock, sched_setaffinity, onSetAffinity, bind, logBinding, logUnlock,
     flushOne, flushAccessBatch, setPolicy, mergeInstruction, mergeUnlock, AfterMerge,
     accessMatrix, getDistance, classify, local, onAccessHandling,
     beforeSchedSetAffinity, onStop, onSetMemPolicy, onAccess
<1> QED
  BY <1>1, <1>3, <1>4 DEF IInv, TypeOK

(* A thread keeps its tracker, and a tracker its thread.                   *)
LEMMA TrackersStay ==
    ASSUME IInv, NEW t \in Thread, Step(t) \/ Act(t)
    PROVE  /\ \A v \in Thread : life[v] # "none" =>
                  life'[v] # "none" /\ threads'[v] = threads[v]
           /\ \A i \in Id : tid[i] # NoThread => tid'[i] = tid[i]
<1>0. TypeOK
  BY DEF IInv
<1>1. ASSUME NEW u \in Thread, pthread_create(t, u)
      PROVE  /\ \A v \in Thread : life[v] # "none" =>
                    life'[v] # "none" /\ threads'[v] = threads[v]
             /\ tid' = tid
  BY <1>0, <1>1 DEF pthread_create, TypeOK, trackerVars
<1>2. CASE createThreadTracker(t)
  BY <1>0, <1>2 DEF createThreadTracker, TypeOK, mapVars
<1>3. CASE ~ createThreadTracker(t) /\ \A u \in Thread : ~ pthread_create(t, u)
  <2>1. \A v \in Thread \ {t} : life[v] # "none" => life'[v] # "none"
    BY OthersWait DEF Waits, Created
  <2> QED
    BY <1>3, <2>1, MapKept
<1> QED
  BY <1>1, <1>2, <1>3

(* The calls of the other threads still work on their targets' trackers.   *)
LEMMA OthersOnTarget ==
    ASSUME IInv, NEW t \in Thread, Step(t) \/ Act(t), NEW v \in Thread \ {t},
           (call[v].op = "bind")'
    PROVE  OnTarget(v)'
<1>1. Waits(v)
  BY OthersWait DEF Created
<1>2. /\ call[v].op = "bind" /\ call[v] \in BindCalls /\ OnTarget(v)
      /\ call'[v].target = call[v].target
      /\ call'[v].tracker = call[v].tracker /\ call'[v].lookups = call[v].lookups
      /\ pc'[v] = pc[v]
  BY <1>1, SameCallFields, BinderTyped DEF Waits, IInv, BindsTarget
<1>3. call[v].target \in Thread /\ call[v].tracker \in Id \cup {NoId}
  BY <1>2 DEF BindCalls
<1> QED
  BY <1>2, <1>3, TrackersStay DEF OnTarget

(* The binding of a tracker changes when the tracker is made and in bind.  *)
LEMMA NodeStays ==
    ASSUME IInv, NEW t \in Thread, Step(t) \/ Act(t), NEW i \in Id,
           tid[i] # NoThread, ~ (bind(t) /\ call[t].tracker = i)
    PROVE  numa'[i] = numa[i]
<1> USE DEF mapVars, trackerVars, Goto
<1>0. TypeOK
  BY DEF IInv
<1>1. CASE createThreadTracker(t)
  BY <1>0, <1>1 DEF createThreadTracker, TypeOK
<1>2. CASE bind(t)
  BY <1>0, <1>2 DEF bind, TypeOK
<1>3. CASE ~ createThreadTracker(t) /\ ~ bind(t)
  <2>1. numa' = numa
    BY <1>3 DEF Step, Act, createLock, createUnlock,
     onThreadSetAffinity, search, unlock, sched_setaffinity, onSetAffinity, logBinding,
     logUnlock, flushOne, flushAccessBatch, setPolicy, mergeInstruction, mergeUnlock,
     accessMatrix, getDistance, classify, local, onAccessHandling, pthread_create,
     beforeSchedSetAffinity, onStop, onSetMemPolicy, onAccess
  <2> QED
    BY <2>1
<1> QED
  BY <1>1, <1>2, <1>3

(* A log that is well formed stays so with a node that is not its last.    *)
LEMMA LogGrows ==
    ASSUME NEW log \in Seq(Numa), log # <<>>, NEW n \in Numa,
           \A k \in 2 .. Len(log) : log[k] # log[k - 1],
           log[Len(log)] # n
    PROVE  LET more == Append(log, n)
           IN  /\ more # <<>> /\ more[Len(more)] = n
               /\ \A k \in 2 .. Len(more) : more[k] # more[k - 1]
<1> DEFINE more == Append(log, n)
<1>1. /\ more \in Seq(Numa) /\ Len(more) = Len(log) + 1 /\ Len(log) \in Nat \ {0}
      /\ \A k \in 1 .. Len(log) : more[k] = log[k]
      /\ more[Len(log) + 1] = n
  OBVIOUS
<1> HIDE DEF more
<1>2. more # <<>>
  BY <1>1
<1>3. ASSUME NEW k \in 2 .. Len(more)
      PROVE  more[k] # more[k - 1]
  <2>1. CASE k = Len(log) + 1
    BY <1>1, <2>1
  <2>2. CASE k # Len(log) + 1
    <3>1. k \in 2 .. Len(log) /\ k - 1 \in 1 .. Len(log) /\ k \in 1 .. Len(log)
      BY <1>1, <2>2
    <3> QED
      BY <1>1, <3>1
  <2> QED
    BY <2>1, <2>2
<1> QED
  BY <1>1, <1>2, <1>3 DEF more

(* What a thread reads in its access is in its history, whichever other    *)
(* thread changes it.                                                      *)
LEMMA SeenGrows ==
    ASSUME IInv, NEW t \in Thread, Step(t) \/ Act(t), NEW v \in Thread \ {t},
           access[v] # NoAccess
    PROVE  seen[v] \subseteq seen'[v] /\ Reads(v)' \in seen'[v]
<1> USE DEF mapVars, trackerVars, historyVars, Goto
<1>0. TypeOK /\ Reads(v) \in seen[v]
  BY DEF IInv, SeenCovers, Covered
<1>1. /\ TrackerOf(v) \in Id /\ tid[TrackerOf(v)] # NoThread /\ life[v] = "alive"
      /\ TrackerOf(v)' = TrackerOf(v)
  <2>1. pc[v] \in AccessLabel \cup MergeLabel
    BY DEF IInv, InHook
  <2>2. TrackerOf(v) \in Id /\ tid[TrackerOf(v)] # NoThread /\ life[v] = "alive"
    BY <2>1, TrackerKnown DEF AccessLabel, MergeLabel, CreateLabel
  <2>3. Waits(v)
    BY <2>2, OthersWait DEF Created
  <2>4. threads'[v] = threads[v]
    BY <2>2, TrackersStay
  <2> QED
    BY <2>2, <2>3, <2>4, SameCallFields DEF TrackerOf, Waits
<1> DEFINE i == TrackerOf(v)
<1>2. CASE bind(t)
  <2>1. memPolicy' = memPolicy
        /\ seen'[v] = IF i = call[t].tracker
                      THEN seen[v] \cup {[node |-> numa'[call[t].tracker],
                                          type |-> memPolicy[call[t].tracker]]}
                      ELSE seen[v]
    BY <1>2 DEF bind
  <2>2. i # call[t].tracker => numa'[i] = numa[i]
    BY <1>1, NodeStays
  <2> QED
    BY <1>0, <1>1, <2>1, <2>2 DEF Reads
<1>3. CASE setPolicy(t)
  <2> DEFINE type == staticComputeBindType(call[t].policy.mode, call[t].policy.nodes)
  <2>1. /\ numa' = numa /\ memPolicy' = [memPolicy EXCEPT ![threads[t]] = type]
        /\ seen'[v] = IF i = threads[t]
                      THEN seen[v] \cup {[node |-> numa[threads[t]], type |-> type]}
                      ELSE seen[v]
    BY <1>3 DEF setPolicy
  <2> HIDE DEF type
  <2>2. memPolicy'[i] = IF i = threads[t] THEN type ELSE memPolicy[i]
    BY <1>0, <1>1, <2>1 DEF TypeOK
  <2> QED
    BY <1>0, <1>1, <2>1, <2>2 DEF Reads
<1>4. CASE ~ bind(t) /\ ~ setPolicy(t)
  <2>1. memPolicy' = memPolicy /\ seen'[v] = seen[v]
    BY <1>0, <1>4 DEF TypeOK, Step, Act, createLock, createThreadTracker, createUnlock,
     onThreadSetAffinity, search, unlock, sched_setaffinity, onSetAffinity, logBinding,
     logUnlock, flushOne, flushAccessBatch, mergeInstruction, mergeUnlock, AfterMerge,
     accessMatrix, getDistance, classify, local, onAccessHandling, Forget, pthread_create,
     beforeSchedSetAffinity, onStop, onSetMemPolicy, onAccess, Enter
  <2>2. numa'[i] = numa[i]
    BY <1>1, <1>4, NodeStays
  <2> QED
    BY <1>0, <1>1, <2>1, <2>2 DEF Reads
<1> QED
  BY <1>2, <1>3, <1>4

(* A reading of one binding classifies as README.md says of it.            *)
LEMMA ReadAsClassified ==
    ASSUME NEW t, NEW page \in Page, KindRead(TrackerOf(t), page) # "none"
    PROVE  KindRead(TrackerOf(t), page) = KindOf(Reads(t).node, Reads(t).type, page)
<1> DEFINE i == TrackerOf(t)
<1>1. Reads(t).node = numa[i] /\ Reads(t).type = memPolicy[i]
  BY DEF Reads
<1>2. page.first \in BOOLEAN /\ page.pinned \in BOOLEAN
  BY BindingAssumption
<1> HIDE DEF i
<1>3. KindRead(i, page) = KindOf(numa[i], memPolicy[i], page)
  BY <1>2 DEF KindRead, KindOf, isMemBind, i
<1> QED
  BY <1>1, <1>3 DEF i

-----------------------------------------------------------------------------
(* Each conjunct of the invariant is kept by each step.                    *)

(* TypeOK: the argument of every hook and what it stores are typed.        *)
LEMMA TypeKept == IInv /\ [Next]_vars => TypeOK'
<1> SUFFICES ASSUME IInv, [Next]_vars PROVE TypeOK'
  OBVIOUS
<1> USE DEF mapVars, trackerVars, lockVars, accessVars, historyVars, Goto
<1>0. TypeOK
  BY DEF IInv
<1>1. CASE UNCHANGED vars
  BY <1>0, <1>1 DEF TypeOK, vars
<1>2. ASSUME NEW t \in Thread, createLock(t) \/ onThreadSetAffinity(t) \/ mergeInstruction(t)
      PROVE  TypeOK'
  BY <1>0, <1>2 DEF TypeOK, createLock, onThreadSetAffinity, mergeInstruction
<1>3. ASSUME NEW t \in Thread, NEW u \in Thread, pthread_create(t, u)
      PROVE  TypeOK'
  BY <1>0, <1>3, SimpleCallTyped DEF TypeOK, pthread_create, FreeIds
<1>4. ASSUME NEW t \in Thread, createThreadTracker(t)
      PROVE  TypeOK'
  <2>1. threads[t] \in Id
    BY <1>4 DEF IInv, Tracked, InHook, createThreadTracker, CreateLabel
  <2>2. getNumaAffinity(affinity[t]) \in Numa
    BY <1>0, AffinityTyped DEF TypeOK
  <2>3. CASE tid[threads[t]] = NoThread
    <3> DEFINE n == getNumaAffinity(affinity[t])
    <3> HIDE DEF n
    <3>1. /\ tid' = [tid EXCEPT ![threads[t]] = t]
          /\ numa' = [numa EXCEPT ![threads[t]] = n]
          /\ bindingLog' = [bindingLog EXCEPT ![threads[t]] = <<numa'[threads[t]]>>]
      BY <1>4, <2>3 DEF createThreadTracker, n
    <3>2. numa' \in [Id -> Numa] /\ numa'[threads[t]] \in Numa
      BY <1>0, <2>1, <2>2, <3>1 DEF TypeOK, n
    <3>3. bindingLog' \in [Id -> Seq(Numa)]
      BY <1>0, <3>1, <3>2 DEF TypeOK
    <3>4. tid' \in [Id -> Thread \cup {NoThread}]
      BY <1>0, <3>1 DEF TypeOK
    <3> QED
      BY <1>0, <1>4, <2>3, <3>2, <3>3, <3>4 DEF TypeOK, createThreadTracker
  <2>4. CASE tid[threads[t]] # NoThread
    BY <1>0, <1>4, <2>4 DEF TypeOK, createThreadTracker
  <2> QED
    BY <2>3, <2>4
<1>5. ASSUME NEW t \in Thread, createUnlock(t)
      PROVE  TypeOK'
  BY <1>0, <1>5, NoCallTyped DEF TypeOK, createUnlock, Return
<1>6. ASSUME NEW t \in Thread, NEW u \in Thread, NEW mask \in Mask,
             beforeSchedSetAffinity(t, u, mask)
      PROVE  TypeOK'
  <2>1. BindCall(t, u, mask, Binders(u) = {}) \in Call
    <3>1. 0 \in 0 .. RetryLimit
      BY BindingAssumption
    <3>2. threads[t] \in Id \cup {NoId}
      BY <1>0 DEF TypeOK
    <3> QED
      BY <3>1, <3>2 DEF BindCall, BindCalls, Call
  <2>2. \A v \in Thread : [call[v] EXCEPT !.alone = FALSE] \in Call \/ v \notin Binders(u)
    BY <1>0, BindCallJoined DEF TypeOK, Binders
  <2>3. call' \in [Thread -> Call]
    BY <1>0, <1>6, <2>1, <2>2 DEF TypeOK, beforeSchedSetAffinity
  <2>4. calls' \in 0 .. CallLimit
    BY <1>0, <1>6, BindingAssumption DEF TypeOK, beforeSchedSetAffinity
  <2> QED
    BY <1>0, <1>6, <2>3, <2>4 DEF TypeOK, beforeSchedSetAffinity
<1>7. ASSUME NEW t \in Thread, search(t)
      PROVE  TypeOK'
  <2>1. call[t] \in BindCalls
    BY <1>7, BinderTyped DEF search, BindLabel
  <2>2. \A i \in Id : [call[t] EXCEPT !.tracker = i] \in Call
    BY <2>1, BindingAssumption, BindCallIsCall DEF BindCalls
  <2>3. call' = call \/ \E i \in Id : call' = [call EXCEPT ![t].tracker = i]
    BY <1>7 DEF search
  <2>4. call' \in [Thread -> Call]
    BY <1>0, <2>2, <2>3 DEF TypeOK
  <2>5. pc' = [pc EXCEPT ![t] = "unlock"] \/ pc' = [pc EXCEPT ![t] = "flush"]
    BY <1>7 DEF search
  <2> QED
    BY <1>0, <1>7, <2>4, <2>5 DEF TypeOK, search
<1>8. ASSUME NEW t \in Thread, unlock(t)
      PROVE  TypeOK'
  <2>1. call[t] \in BindCalls /\ call[t].op = "bind"
    BY <1>8, BinderTyped DEF unlock, BindLabel
  <2>2. call[t].lookups + 1 \in 0 .. RetryLimit
    <3>1. call[t].lookups \in 0 .. RetryLimit /\ call[t].lookups < RetryLimit
      BY <1>8, <2>1 DEF IInv, BindsTarget, OnTarget, unlock, BindCalls
    <3> QED
      BY <3>1, BindingAssumption
  <2>3. [call[t] EXCEPT !.lookups = call[t].lookups + 1] \in Call
    <3>1. [call[t] EXCEPT !.lookups = call[t].lookups + 1] \in BindCalls
      BY <2>1, <2>2 DEF BindCalls
    <3> QED
      BY <3>1, BindCallIsCall
  <2> QED
    BY <1>0, <1>8, <2>3 DEF TypeOK, unlock
<1>9. ASSUME NEW t \in Thread, sched_setaffinity(t)
      PROVE  TypeOK'
  <2>1. call[t] \in BindCalls
    BY <1>9, BinderTyped DEF sched_setaffinity, BindLabel
  <2>2. call[t].target \in Thread /\ call[t].mask \in SUBSET Cpu
    BY <2>1, BindingAssumption DEF BindCalls
  <2>3. affinity' \in [Thread -> SUBSET Cpu] /\ unknown' \in SUBSET Thread
    BY <1>0, <1>9, <2>2 DEF TypeOK, sched_setaffinity
  <2> QED
    BY <1>0, <1>9, <2>3, NoCallTyped DEF TypeOK, sched_setaffinity, Return
<1>10. ASSUME NEW t \in Thread, onSetAffinity(t) \/ logUnlock(t)
      PROVE  TypeOK'
  <2>1. logMutex' \in [Id -> Thread \cup {NoThread}]
    <3>1. \E m \in Thread \cup {NoThread} : \E i :
              logMutex' = [logMutex EXCEPT ![i] = m]
      BY <1>10 DEF onSetAffinity, logUnlock
    <3> QED
      BY <1>0, <3>1 DEF TypeOK
  <2>2. \E label \in {"bind", "syscall", "unlock"} : pc' = [pc EXCEPT ![t] = label]
    BY <1>10 DEF onSetAffinity, logUnlock
  <2>3. UNCHANGED <<mapVars, trackerVars, accessVars, mutex, call, historyVars>>
    BY <1>10 DEF onSetAffinity, logUnlock
  <2> QED
    BY <1>0, <2>1, <2>2, <2>3 DEF TypeOK
<1>11. ASSUME NEW t \in Thread, bind(t)
      PROVE  TypeOK'
  <2>1. call[t] \in BindCalls
    BY <1>11, BinderTyped DEF bind, BindLabel
  <2>2. getNumaAffinity(call[t].mask) \in Numa
    BY <2>1, AffinityTyped, BindingAssumption DEF BindCalls
  <2>3. call[t].tracker \in Id
    BY <1>11, TrackerKnown, BinderTyped DEF bind, BindLabel, CreateLabel, TrackerOf
  <2>4. numa' \in [Id -> Numa] /\ memPolicy[call[t].tracker] \in PolicyType
    BY <1>0, <1>11, <2>2, <2>3 DEF TypeOK, bind
  <2>5. seen' \in [Thread -> SUBSET Binding]
    <3>1. [node |-> numa'[call[t].tracker], type |-> memPolicy[call[t].tracker]] \in Binding
      BY <2>3, <2>4 DEF Binding
    <3> QED
      BY <1>0, <1>11, <3>1 DEF TypeOK, bind
  <2>6. \A v \in Thread : [call[v] EXCEPT !.alone = FALSE] \in Call \/ call[v].op # "bind"
    BY <1>0, BindCallJoined DEF TypeOK
  <2>7. call' \in [Thread -> Call]
    BY <1>0, <1>11, <2>6 DEF TypeOK, bind
  <2> QED
    BY <1>0, <1>11, <2>4, <2>5, <2>7 DEF TypeOK, bind
<1>12. ASSUME NEW t \in Thread, logBinding(t)
      PROVE  TypeOK'
  <2>1. call[t].tracker \in Id
    BY <1>12, TrackerKnown, BinderTyped DEF logBinding, BindLabel, CreateLabel, TrackerOf
  <2>2. bindingLog' \in [Id -> Seq(Numa)]
    BY <1>0, <1>12, <2>1 DEF TypeOK, logBinding
  <2> QED
    BY <1>0, <1>12, <2>2 DEF TypeOK, logBinding
<1>13. ASSUME NEW t \in Thread, flushOne(t)
      PROVE  TypeOK'
  <2> DEFINE i == TrackerOf(t)
  <2>1. i \in Id
    BY <1>13, TrackerKnown DEF flushOne, CreateLabel
  <2>2. accessBatch[i] \in Seq(Page) /\ accessBatch[i] # <<>>
    BY <1>0, <1>13, <2>1 DEF TypeOK, flushOne
  <2>3. Head(accessBatch[i]) \in Page /\ Tail(accessBatch[i]) \in Seq(Page)
    BY <2>2
  <2>4. accessBatch' \in [Id -> Seq(Page)]
    BY <1>0, <1>13, <2>3 DEF TypeOK, flushOne
  <2>5. [kind |-> "none", page |-> Head(accessBatch[i]), row |-> Unbound,
         dist |-> Unbound] \in Access
    BY <2>3 DEF Access, Accesses, Numa
  <2>6. [node |-> numa[i], type |-> memPolicy[i]] \in Binding
    BY <1>0, <2>1 DEF TypeOK, Binding
  <2>7. access' \in [Thread -> Access] /\ seen' \in [Thread -> SUBSET Binding]
    BY <1>0, <1>13, <2>5, <2>6 DEF TypeOK, flushOne
  <2> QED
    BY <1>0, <1>13, <2>4, <2>7 DEF TypeOK, flushOne
<1>14. ASSUME NEW t \in Thread, flushAccessBatch(t)
      PROVE  TypeOK'
  <2>1. /\ call' = call \/ call' = [call EXCEPT ![t] = NoCall]
        /\ \E label \in {"idle", "logLock", "setPolicy", "merge"} :
               pc' = [pc EXCEPT ![t] = label]
        /\ UNCHANGED <<mapVars, trackerVars, accessVars, lockVars, historyVars>>
    BY <1>14 DEF flushAccessBatch, Return
  <2>2. call' \in [Thread -> Call]
    BY <1>0, <2>1, NoCallTyped DEF TypeOK
  <2> QED
    BY <1>0, <2>1, <2>2 DEF TypeOK
<1>15. ASSUME NEW t \in Thread, mergeUnlock(t)
      PROVE  TypeOK'
  <2>1. NoAccess \in Access
    BY DEF Access
  <2> QED
    BY <1>0, <1>15, <2>1, NoCallTyped DEF TypeOK, mergeUnlock, AfterMerge, Return, Forget
<1>16. ASSUME NEW t \in Thread, setPolicy(t)
      PROVE  TypeOK'
  <2> DEFINE i == threads[t]
             type == staticComputeBindType(call[t].policy.mode, call[t].policy.nodes)
  <2>1. type \in PolicyType
    BY PolicyTyped
  <2> HIDE DEF type
  <2>2. i \in Id
    <3>1. life[t] # "none"
      BY <1>16, TrackerKnown DEF setPolicy, CreateLabel
    <3> QED
      BY <3>1 DEF IInv, Tracked
  <2>3. [node |-> numa[i], type |-> type] \in Binding
    BY <1>0, <2>1, <2>2 DEF TypeOK, Binding
  <2>4. seen' \in [Thread -> SUBSET Binding]
    BY <1>0, <1>16, <2>3 DEF TypeOK, setPolicy, type
  <2>5. memPolicy' \in [Id -> PolicyType]
    BY <1>0, <1>16, <2>1 DEF TypeOK, setPolicy, type
  <2> QED
    BY <1>0, <1>16, <2>4, <2>5, NoCallTyped DEF TypeOK, setPolicy, Return
<1>17. ASSUME NEW t \in Thread,
              accessMatrix(t) \/ getDistance(t) \/ classify(t) \/ local(t)
      PROVE  TypeOK'
  <2>1. /\ pc[t] \in AccessLabel
        /\ \/ access' = [access EXCEPT ![t].row = numa[TrackerOf(t)]]
           \/ access' = [access EXCEPT ![t].dist = numa[TrackerOf(t)]]
           \/ access' = [access EXCEPT ![t].kind =
                             KindRead(TrackerOf(t), access[t].page)]
           \/ access' = [access EXCEPT ![t].kind =
                  IF numa[TrackerOf(t)] = access[t].page.node THEN "local" ELSE "remote"]
    BY <1>17 DEF accessMatrix, getDistance, classify, local, AccessLabel
  <2>2. numa[TrackerOf(t)] \in Numa
    BY <1>0, <2>1, TrackerKnown DEF TypeOK, AccessLabel, CreateLabel
  <2>3. access[t] \in Accesses
    BY <1>0, <2>1, AccessTyped DEF IInv, InHook, TypeOK
  <2>4. access[t].page \in Page
    BY <2>3 DEF Accesses
  <2>5. KindRead(TrackerOf(t), access[t].page) \in Kind \cup {"none"}
    BY <2>4, KindReadTyped
  <2>6. {"local", "remote"} \subseteq Kind \cup {"none"}
    BY DEF Kind
  <2>7. access' \in [Thread -> Access]
    <3>1. \E a \in Accesses : access' = [access EXCEPT ![t] = a]
      BY <1>0, <2>1, <2>2, <2>3, <2>5, <2>6, AccessWith DEF TypeOK
    <3> QED
      BY <1>0, <3>1 DEF TypeOK, Access
  <2> QED
    BY <1>0, <1>17, <2>7 DEF TypeOK, accessMatrix, getDistance, classify, local
<1>18. ASSUME NEW t \in Thread, onAccessHandling(t)
      PROVE  TypeOK'
  BY <1>0, <1>18 DEF TypeOK, onAccessHandling, Forget, Access
<1>19. ASSUME NEW t \in Thread, NEW page \in Page, onAccess(t, page)
      PROVE  TypeOK'
  <2>1. accessBatch' \in [Id -> Seq(Page)]
    <3>1. accessBatch' = [accessBatch EXCEPT ![threads[t]] =
                              Append(accessBatch[threads[t]], page)]
      BY <1>19 DEF onAccess
    <3>2. \A i \in Id : Append(accessBatch[i], page) \in Seq(Page)
      BY <1>0 DEF TypeOK
    <3> QED
      BY <1>0, <3>1, <3>2 DEF TypeOK
  <2>2. calls' \in 0 .. CallLimit
    BY <1>0, <1>19, BindingAssumption DEF TypeOK, onAccess, Enter
  <2> QED
    BY <1>0, <1>19, <2>1, <2>2, NoCallTyped, SimpleCallTyped DEF TypeOK, onAccess, Enter
<1>20. ASSUME NEW t \in Thread, onStop(t)
      PROVE  TypeOK'
  BY <1>0, <1>20, SimpleCallTyped DEF TypeOK, onStop
<1>21. ASSUME NEW t \in Thread, NEW policy \in Policy, onSetMemPolicy(t, policy)
      PROVE  TypeOK'
  <2>1. [op |-> "policy", policy |-> policy] \in Call
    BY DEF Call, PolicyCalls
  <2>2. calls' \in 0 .. CallLimit
    BY <1>0, <1>21, BindingAssumption DEF TypeOK, onSetMemPolicy, Enter
  <2> QED
    BY <1>0, <1>21, <2>1, <2>2 DEF TypeOK, onSetMemPolicy, Enter
<1> QED
  BY <1>1, <1>2, <1>3, <1>4, <1>5, <1>6, <1>7, <1>8, <1>9, <1>10, <1>11, <1>12, <1>13,
     <1>14, <1>15, <1>16, <1>17, <1>18, <1>19, <1>20, <1>21
     DEF Next, Step, Act, Terminated

(* InHook: a thread enters and leaves a hook with its call.                *)
LEMMA InHookKept == IInv /\ [Next]_vars => InHook'
<1> SUFFICES ASSUME IInv, [Next]_vars PROVE InHook'
  OBVIOUS
<1> USE DEF mapVars, trackerVars, lockVars, accessVars, historyVars, Goto,
            CreateLabel, BindLabel, AccessLabel, MergeLabel
<1>0. TypeOK /\ InHook
  BY DEF IInv
<1>1. CASE UNCHANGED vars
  BY <1>0, <1>1 DEF InHook, vars
<1>2. ASSUME NEW t \in Thread,
             \/ createLock(t) \/ createThreadTracker(t)
             \/ onThreadSetAffinity(t) \/ unlock(t)
             \/ onSetAffinity(t) \/ logBinding(t) \/ logUnlock(t)
      PROVE  InHook'
  <2>1. /\ \/ pc[t] \in CreateLabel \ {"createUnlock"} /\ pc'[t] \in CreateLabel
           \/ pc[t] \in BindLabel \ {"syscall"} /\ pc'[t] \in BindLabel
        /\ \A v \in Thread \ {t} : pc'[v] = pc[v]
        /\ \A v \in Thread : call'[v].op = call[v].op
        /\ life' = life /\ access' = access
    <3>1. CASE unlock(t)
      <4>1. call[t].op = "bind" /\ call[t] \in BindCalls
        BY <3>1, BinderTyped DEF unlock
      <4>2. call'[t].op = call[t].op
        BY <1>0, <3>1, <4>1 DEF unlock, TypeOK, BindCalls
      <4> QED
        BY <1>0, <3>1, <4>2 DEF unlock, TypeOK
    <3>2. CASE ~unlock(t)
      BY <1>0, <1>2, <3>2 DEF TypeOK, createLock, createThreadTracker,
         onThreadSetAffinity, onSetAffinity, logBinding, logUnlock
    <3> QED
      BY <3>1, <3>2
  <2>2. /\ call[t].op \in {"create", "bind"}
        /\ access[t] = NoAccess
    BY <1>0, <2>1 DEF InHook
  <2> QED
    BY <1>0, <2>1, <2>2 DEF InHook
<1>3. ASSUME NEW t \in Thread, NEW u \in Thread, pthread_create(t, u)
      PROVE  InHook'
  <2>1. call[u].op = "none" /\ pc[u] = "idle" /\ access[u] = NoAccess
    BY <1>0, <1>3, CallOps DEF InHook, pthread_create, TypeOK
  <2>2. call'[u].op = "create" /\ pc'[u] = "createLock" /\ life'[u] = "alive"
    BY <1>0, <1>3 DEF pthread_create, TypeOK
  <2> QED
    BY <1>0, <1>3, <2>1, <2>2 DEF InHook, pthread_create, TypeOK
<1>4. ASSUME NEW t \in Thread, createUnlock(t)
      PROVE  InHook'
  BY <1>0, <1>4, NoCallTyped DEF InHook, createUnlock, TypeOK, Return
<1>5. ASSUME NEW t \in Thread, NEW u \in Thread, NEW mask \in Mask,
             beforeSchedSetAffinity(t, u, mask)
      PROVE  InHook'
  <2>1. \A v \in Thread \ {t} : call'[v].op = call[v].op
    BY <1>0, <1>5, BindCallTyped DEF beforeSchedSetAffinity, Binders, BindCalls, TypeOK
  <2>2. call'[t].op = "bind"
    BY <1>5 DEF beforeSchedSetAffinity, BindCall
  <2>3. pc'[t] \in {"flush", "lookup"} /\ \A v \in Thread \ {t} : pc'[v] = pc[v]
    BY <1>0, <1>5 DEF beforeSchedSetAffinity, TypeOK
  <2>4. life[t] = "alive" /\ pc[t] = "idle" /\ life' = life /\ access' = access
    BY <1>5 DEF beforeSchedSetAffinity, Ready
  <2> QED
    BY <1>0, <2>1, <2>2, <2>3, <2>4 DEF InHook
<1>6. ASSUME NEW t \in Thread, search(t)
      PROVE  InHook'
  <2>1. call[t].op = "bind" /\ call[t] \in BindCalls
    BY <1>6, BinderTyped DEF search
  <2>2. \A i \in Id : [call[t] EXCEPT !.tracker = i].op = "bind"
    BY <2>1 DEF BindCalls
  <2>3. call' = call \/ \E i \in Id : call' = [call EXCEPT ![t].tracker = i]
    BY <1>6 DEF search
  <2>4. \A v \in Thread : call'[v].op = call[v].op
    BY <1>0, <2>1, <2>2, <2>3 DEF TypeOK
  <2>5. pc'[t] \in {"unlock", "flush"} /\ \A v \in Thread \ {t} : pc'[v] = pc[v]
    BY <1>0, <1>6 DEF search, TypeOK
  <2>6. pc[t] = "search" /\ life' = life /\ access' = access
    BY <1>6 DEF search
  <2> QED
    BY <1>0, <2>1, <2>4, <2>5, <2>6 DEF InHook
<1>7. ASSUME NEW t \in Thread, sched_setaffinity(t) \/ setPolicy(t)
      PROVE  InHook'
  <2>1. pc[t] \in {"syscall", "setPolicy"} /\ Return(t) /\ life' = life /\ access' = access
    BY <1>7 DEF sched_setaffinity, setPolicy
  <2> QED
    BY <1>0, <2>1, NoCallTyped DEF InHook, TypeOK, Return
<1>8. ASSUME NEW t \in Thread, bind(t)
      PROVE  InHook'
  <2>1. \A v \in Thread : call'[v].op = call[v].op
    BY <1>0, <1>8, BindCallTyped DEF bind, BindCalls, TypeOK
  <2>2. /\ pc[t] = "bind" /\ pc'[t] = "log" /\ \A v \in Thread \ {t} : pc'[v] = pc[v]
        /\ life' = life /\ access' = access
    BY <1>0, <1>8 DEF bind, TypeOK
  <2> QED
    BY <1>0, <2>1, <2>2 DEF InHook
<1>9. ASSUME NEW t \in Thread, flushOne(t)
      PROVE  InHook'
  <2>1. [kind |-> "none", page |-> Head(accessBatch[TrackerOf(t)]), row |-> Unbound,
         dist |-> Unbound] # NoAccess
    BY DEF NoAccess
  <2>2. /\ access'[t] # NoAccess /\ pc[t] = "flush" /\ pc'[t] = "matrix"
        /\ \A v \in Thread \ {t} : pc'[v] = pc[v] /\ access'[v] = access[v]
        /\ life' = life /\ call' = call
    BY <1>0, <1>9, <2>1 DEF flushOne, TypeOK
  <2> QED
    BY <1>0, <2>2 DEF InHook
<1>10. ASSUME NEW t \in Thread, flushAccessBatch(t)
      PROVE  InHook'
  <2>1. access[t] = NoAccess /\ life[t] = "alive"
    BY <1>0, <1>10, CallOps DEF flushAccessBatch, InHook, TypeOK
  <2>2. CASE Return(t) /\ call[t].op = "access"
    BY <1>0, <1>10, <2>1, <2>2, NoCallTyped DEF flushAccessBatch, InHook, TypeOK, Return
  <2>3. CASE call' = call /\ \E label \in {"logLock", "setPolicy", "merge"} :
                 /\ pc' = [pc EXCEPT ![t] = label]
                 /\ label = "logLock" => call[t].op = "bind"
                 /\ label = "setPolicy" => call[t].op = "policy"
                 /\ label = "merge" => call[t].op = "stop"
    BY <1>0, <1>10, <2>1, <2>3 DEF flushAccessBatch, InHook, TypeOK
  <2> QED
    BY <1>10, <2>2, <2>3 DEF flushAccessBatch
<1>11. ASSUME NEW t \in Thread,
              accessMatrix(t) \/ getDistance(t) \/ classify(t) \/ local(t)
      PROVE  InHook'
  <2>1. /\ pc[t] \in AccessLabel /\ pc'[t] \in AccessLabel
        /\ \A v \in Thread \ {t} : pc'[v] = pc[v] /\ access'[v] = access[v]
        /\ life' = life /\ call' = call
    BY <1>0, <1>11 DEF accessMatrix, getDistance, classify, local, TypeOK
  <2>2. access'[t] # NoAccess
    <3>1. access[t] \in Accesses
      BY <1>0, <2>1, AccessTyped DEF InHook, TypeOK
    <3>2. /\ \A n : [access[t] EXCEPT !.row = n] # NoAccess
          /\ \A n : [access[t] EXCEPT !.dist = n] # NoAccess
          /\ \A n : [access[t] EXCEPT !.kind = n] # NoAccess
      BY <3>1 DEF Accesses, NoAccess
    <3>3. \/ \E n : access' = [access EXCEPT ![t].row = n]
          \/ \E n : access' = [access EXCEPT ![t].dist = n]
          \/ \E n : access' = [access EXCEPT ![t].kind = n]
      BY <1>11 DEF accessMatrix, getDistance, classify, local
    <3>4. \/ \E n : access'[t] = [access[t] EXCEPT !.row = n]
          \/ \E n : access'[t] = [access[t] EXCEPT !.dist = n]
          \/ \E n : access'[t] = [access[t] EXCEPT !.kind = n]
      <4>1. CASE \E n : access' = [access EXCEPT ![t].row = n]
        BY <1>0, <4>1 DEF TypeOK
      <4>2. CASE \E n : access' = [access EXCEPT ![t].dist = n]
        BY <1>0, <4>2 DEF TypeOK
      <4>3. CASE \E n : access' = [access EXCEPT ![t].kind = n]
        BY <1>0, <4>3 DEF TypeOK
      <4> QED
        BY <3>3, <4>1, <4>2, <4>3
    <3> QED
      BY <3>2, <3>4
  <2> QED
    BY <1>0, <2>1, <2>2 DEF InHook
<1>12. ASSUME NEW t \in Thread, onAccessHandling(t)
      PROVE  InHook'
  BY <1>0, <1>12 DEF InHook, onAccessHandling, Forget, TypeOK
<1>13. ASSUME NEW t \in Thread, mergeInstruction(t)
      PROVE  InHook'
  BY <1>0, <1>13 DEF InHook, mergeInstruction, TypeOK
<1>14. ASSUME NEW t \in Thread, mergeUnlock(t)
      PROVE  InHook'
  <2>1. access'[t] = NoAccess /\ \A v \in Thread \ {t} : access'[v] = access[v]
    BY <1>0, <1>14 DEF mergeUnlock, AfterMerge, Forget, TypeOK
  <2>2. CASE access[t] # NoAccess
    <3>1. pc' = [pc EXCEPT ![t] = "flush"] /\ call' = call /\ life' = life
      BY <1>14, <2>2 DEF mergeUnlock, AfterMerge
    <3> QED
      BY <1>0, <1>14, <2>1, <2>2, <3>1 DEF InHook, mergeUnlock, TypeOK
  <2>3. CASE access[t] = NoAccess
    <3>1. Return(t) /\ life' = [life EXCEPT ![t] = "ended"]
      BY <1>14, <2>3 DEF mergeUnlock, AfterMerge
    <3> QED
      BY <1>0, <1>14, <2>1, <2>3, <3>1, NoCallTyped DEF InHook, mergeUnlock, TypeOK, Return
  <2> QED
    BY <2>2, <2>3
<1>15. ASSUME NEW t \in Thread,
              \/ onStop(t)
              \/ \E policy \in Policy : onSetMemPolicy(t, policy)
              \/ \E page \in Page : onAccess(t, page)
      PROVE  InHook'
  <2> DEFINE Enters(c, label) ==
                 /\ call' = [call EXCEPT ![t] = c] /\ pc' = [pc EXCEPT ![t] = label]
                 /\ \/ c.op \in {"stop", "policy", "access"} /\ label = "flush"
                    \/ c.op = "none" /\ label = "idle"
  <2>1. Ready(t) /\ life' = life /\ access' = access
    BY <1>15 DEF onStop, onSetMemPolicy, onAccess, Enter
  <2>2. \E c, label : Enters(c, label)
    <3>1. CASE onStop(t)
      <4>1. Enters([op |-> "stop"], "flush")
        BY <3>1 DEF onStop
      <4> QED
        BY <4>1
    <3>2. ASSUME NEW policy \in Policy, onSetMemPolicy(t, policy)
          PROVE  \E c, label : Enters(c, label)
      <4>1. Enters([op |-> "policy", policy |-> policy], "flush")
        BY <3>2 DEF onSetMemPolicy, Enter
      <4> QED
        BY <4>1
    <3>3. ASSUME NEW page \in Page, onAccess(t, page)
          PROVE  \E c, label : Enters(c, label)
      <4>1. Enters([op |-> "access"], "flush") \/ Enters(NoCall, "idle")
        BY <3>3, NoCallTyped DEF onAccess, Enter
      <4> QED
        BY <4>1
    <3> QED
      BY <1>15, <3>1, <3>2, <3>3
  <2> QED
    BY <1>0, <2>1, <2>2 DEF InHook, Ready, TypeOK
<1> QED
  BY <1>1, <1>2, <1>3, <1>4, <1>5, <1>6, <1>7, <1>8, <1>9, <1>10, <1>11, <1>12, <1>13,
     <1>14, <1>15
     DEF Next, Step, Act, Terminated

(* Tracked: createThreadTracker gives a tracker its one thread.            *)
LEMMA TrackedKept == IInv /\ [Next]_vars => Tracked'
<1> SUFFICES ASSUME IInv, [Next]_vars PROVE Tracked'
  OBVIOUS
<1> USE DEF mapVars, trackerVars, Goto
<1>0. TypeOK /\ Tracked /\ InHook
  BY DEF IInv
<1>1. CASE UNCHANGED vars
  BY <1>0, <1>1 DEF Tracked, vars
<1>2. ASSUME NEW t \in Thread, createThreadTracker(t)
      PROVE  Tracked'
  <2>1. threads[t] \in Id /\ life[t] = "alive"
    BY <1>0, <1>2 DEF Tracked, InHook, createThreadTracker, CreateLabel
  <2>2. CASE tid[threads[t]] = NoThread
    <3>1. UNCHANGED <<life, threads>> /\ tid' = [tid EXCEPT ![threads[t]] = t]
      BY <1>2, <2>2 DEF createThreadTracker
    <3> QED
      BY <1>0, <1>2, <2>1, <3>1, BindingAssumption DEF Tracked, TypeOK, createThreadTracker
  <2>3. CASE tid[threads[t]] # NoThread
    <3>1. UNCHANGED <<life, threads, tid>>
      BY <1>2, <2>3 DEF createThreadTracker
    <3> QED
      BY <1>0, <1>2, <2>3, <3>1 DEF Tracked, TypeOK, createThreadTracker
  <2> QED
    BY <2>2, <2>3
<1>3. ASSUME NEW t \in Thread, NEW u \in Thread, pthread_create(t, u)
      PROVE  Tracked'
  <2>1. life' = [life EXCEPT ![u] = "alive"] /\ tid' = tid /\ life[u] = "none"
    BY <1>3 DEF pthread_create
  <2>2. \E i \in Id : threads' = [threads EXCEPT ![u] = i]
    BY <1>3 DEF pthread_create, FreeIds
  <2>3. pc' = [pc EXCEPT ![u] = "createLock"]
    BY <1>3 DEF pthread_create
  <2> QED
    BY <1>0, <2>1, <2>2, <2>3 DEF Tracked, TypeOK
<1>4. ASSUME NEW t \in Thread, Step(t) \/ Act(t),
             ~ createThreadTracker(t), \A u \in Thread : ~ pthread_create(t, u)
      PROVE  Tracked'
  <2>1. UNCHANGED <<threads, tid>> /\ life[t] = "alive" /\ life'[t] # "none"
    BY <1>4, MapKept
  <2>2. \A v \in Thread \ {t} : Waits(v) \/ Created(v)
    BY <1>4, OthersWait
  <2>3. pc[t] \in {"createLock", "construct"} => pc'[t] \in {"createLock", "construct"}
    BY <1>0, <1>4 DEF TypeOK, Step, Act, createLock, createUnlock, onThreadSetAffinity,
     search, unlock, sched_setaffinity, onSetAffinity, bind, logBinding, logUnlock,
     flushOne, flushAccessBatch, setPolicy, mergeInstruction, mergeUnlock,
     accessMatrix, getDistance, classify, local, onAccessHandling,
     beforeSchedSetAffinity, onStop, onSetMemPolicy, onAccess, Enter, Ready
  <2>4. \A v \in Thread : life[v] = "none" => ~ (life'[v] = "alive" /\ pc'[v] # "createLock")
    BY <2>1, <2>2 DEF Waits, Created
  <2>5. ASSUME NEW v \in Thread, life'[v] # "none"
        PROVE  threads'[v] \in Id
    <3>1. CASE life[v] # "none"
      BY <1>0, <2>1, <3>1 DEF Tracked
    <3>2. CASE life[v] = "none"
      <4>1. life' = life \/ life' = [life EXCEPT ![t] = "ended"]
        BY <1>4 DEF Step, Act, createLock, createUnlock, onThreadSetAffinity,
     search, unlock, sched_setaffinity, onSetAffinity, bind, logBinding, logUnlock,
     flushOne, flushAccessBatch, setPolicy, mergeInstruction, mergeUnlock, AfterMerge,
     accessMatrix, getDistance, classify, local, onAccessHandling,
     beforeSchedSetAffinity, onStop, onSetMemPolicy, onAccess
      <4> QED
        BY <1>0, <2>1, <2>5, <3>2, <4>1 DEF TypeOK
    <3> QED
      BY <3>1, <3>2
  <2>6. ASSUME NEW v \in Thread, life'[v] = "alive", pc'[v] \notin {"createLock", "construct"}
        PROVE  tid'[threads'[v]] # NoThread
    BY <1>0, <2>1, <2>2, <2>3, <2>6 DEF Tracked, Waits, Created
  <2>7. ASSUME NEW i \in Id, tid'[i] # NoThread
        PROVE  life'[tid'[i]] # "none" /\ threads'[tid'[i]] = i
    <3>1. tid[i] \in Thread
      BY <1>0, <2>1, <2>7 DEF TypeOK
    <3> QED
      BY <1>0, <1>4, <2>1, <2>7, <3>1, TrackersStay DEF Tracked
  <2> QED
    BY <2>5, <2>6, <2>7 DEF Tracked
<1> QED
  BY <1>1, <1>2, <1>3, <1>4 DEF Next, Terminated

(* BindsTarget: the search finds the tracker of the target.                *)
LEMMA BindsTargetKept == IInv /\ [Next]_vars => BindsTarget'
<1> SUFFICES ASSUME IInv, [Next]_vars PROVE BindsTarget'
  OBVIOUS
<1> USE DEF mapVars, trackerVars, Goto
<1>0. TypeOK /\ BindsTarget /\ Tracked /\ InHook
  BY DEF IInv
<1>1. CASE UNCHANGED vars
  BY <1>0, <1>1 DEF BindsTarget, OnTarget, vars
<1>2. ASSUME NEW t \in Thread, Step(t) \/ Act(t)
      PROVE  BindsTarget'
  <2>1. SUFFICES (call[t].op = "bind")' => OnTarget(t)'
    BY <1>2, OthersOnTarget DEF BindsTarget
  <2>2. ASSUME NEW u \in Thread, NEW mask \in Mask, beforeSchedSetAffinity(t, u, mask)
        PROVE  OnTarget(t)'
    <3>1. /\ call'[t] = BindCall(t, u, mask, Binders(u) = {})
          /\ pc'[t] = IF u = t THEN "flush" ELSE "lookup"
          /\ UNCHANGED <<life, threads, tid>>
          /\ life[t] = "alive" /\ pc[t] = "idle" /\ life[u] # "none"
      BY <1>0, <2>2 DEF beforeSchedSetAffinity, TypeOK, Ready
    <3>2. threads[t] \in Id /\ threads[t] # NoId /\ tid[threads[t]] # NoThread
      BY <1>0, <3>1, BindingAssumption DEF Tracked
    <3>3. 0 < RetryLimit
      BY BindingAssumption
    <3> QED
      BY <3>1, <3>2, <3>3 DEF OnTarget, BindCall
  <2>3. ASSUME ~ \E u \in Thread, mask \in Mask : beforeSchedSetAffinity(t, u, mask),
               ~ search(t), ~ unlock(t), (call[t].op = "bind")'
        PROVE  OnTarget(t)'
    <3>1. call'[t].op = call[t].op /\ call'[t].tracker = call[t].tracker
          /\ call'[t].target = call[t].target /\ call'[t].lookups = call[t].lookups
      <4>1. ~ sched_setaffinity(t)
        BY <1>0, <2>3, NoCallTyped DEF sched_setaffinity, Return, TypeOK
      <4> QED
        BY <1>2, <2>3, <4>1, CallStays
    <3>2. call[t].op = "bind" /\ call[t] \in BindCalls /\ OnTarget(t)
      BY <1>0, <2>3, <3>1, BinderTyped DEF BindsTarget
    <3>3. call[t].target \in Thread /\ call[t].tracker \in Id \cup {NoId}
      BY <3>2 DEF BindCalls
    <3>4. pc'[t] = pc[t] \/ (pc[t] = "lookup" /\ pc'[t] = "search")
          \/ (pc[t] = "logUnlock" /\ pc'[t] = IF call[t].target = t THEN "syscall" ELSE "unlock")
          \/ (pc'[t] \notin {"lookup", "search", "unlock", "syscall"}
              /\ pc[t] \notin {"lookup", "search", "unlock", "syscall"})
      <4>1. CASE \E u \in Thread : pthread_create(t, u)
        BY <1>0, <4>1 DEF pthread_create, TypeOK, Ready
      <4>2. CASE flushAccessBatch(t)
        BY <1>0, <3>2, <4>2 DEF flushAccessBatch, TypeOK
      <4>3. CASE sched_setaffinity(t) \/ createUnlock(t) \/ setPolicy(t) \/ mergeUnlock(t)
        <5>1. pc[t] # "idle" /\ \/ call' = [call EXCEPT ![t] = NoCall]
                                \/ pc[t] = "mergeUnlock" /\ pc' = [pc EXCEPT ![t] = "flush"]
          BY <4>3 DEF sched_setaffinity, createUnlock, setPolicy, mergeUnlock, AfterMerge,
             Return
        <5> QED
          BY <1>0, <2>3, <5>1, NoCallTyped DEF TypeOK
      <4>4. CASE onStop(t) \/ (\E policy \in Policy : onSetMemPolicy(t, policy))
                 \/ (\E page \in Page : onAccess(t, page))
        BY <1>0, <3>2, <4>4 DEF onStop, onSetMemPolicy, onAccess, Enter, Ready, InHook
      <4>5. CASE \/ createLock(t) \/ createThreadTracker(t)
                 \/ onThreadSetAffinity(t)
                 \/ onSetAffinity(t) \/ bind(t) \/ logBinding(t) \/ logUnlock(t)
                 \/ flushOne(t) \/ mergeInstruction(t)
                 \/ accessMatrix(t) \/ getDistance(t) \/ classify(t) \/ local(t)
                 \/ onAccessHandling(t)
        BY <1>0, <4>5 DEF TypeOK, createLock, createThreadTracker, onThreadSetAffinity,
           onSetAffinity, bind, logBinding, logUnlock, flushOne, mergeInstruction,
           accessMatrix, getDistance, classify, local, onAccessHandling
      <4> QED
        BY <1>2, <2>3, <4>1, <4>2, <4>3, <4>4, <4>5 DEF Step, Act
    <3> QED
      BY <1>2, <3>1, <3>2, <3>3, <3>4, TrackersStay DEF OnTarget
  <2>4. CASE search(t)
    <3>1. pc[t] = "search" /\ UNCHANGED <<life, threads, tid>>
      BY <2>4 DEF search
    <3>2. call[t].op = "bind" /\ call[t] \in BindCalls /\ OnTarget(t)
      BY <1>0, <3>1, BinderTyped DEF BindsTarget, BindLabel
    <3>3. CASE {i \in Id : tid[i] = call[t].target} = {}
      <4>1. call' = call /\ pc'[t] = "unlock"
        BY <1>0, <2>4, <3>3 DEF search, TypeOK
      <4> QED
        BY <3>1, <3>2, <4>1 DEF OnTarget
    <3>4. CASE {i \in Id : tid[i] = call[t].target} # {}
      <4>1. PICK i \in Id : tid[i] = call[t].target /\ call' = [call EXCEPT ![t].tracker = i]
        BY <2>4, <3>4 DEF search
      <4>2. pc'[t] = "flush"
        BY <1>0, <2>4, <3>4 DEF search, TypeOK
      <4>3. call[t].target \in Thread
        BY <3>2 DEF BindCalls
      <4>4. i = threads[call[t].target] /\ tid[i] # NoThread
        BY <1>0, <4>1, <4>3, BindingAssumption DEF Tracked
      <4>5. call'[t].tracker = i /\ call'[t].target = call[t].target
            /\ call'[t].lookups = call[t].lookups
        BY <1>0, <3>2, <4>1 DEF TypeOK, BindCalls
      <4>6. i # NoId
        BY BindingAssumption
      <4> QED
        BY <3>1, <3>2, <4>2, <4>4, <4>5, <4>6 DEF OnTarget
    <3> QED
      BY <3>3, <3>4
  <2>5. CASE unlock(t)
    <3>1. pc[t] = "unlock" /\ UNCHANGED <<life, threads, tid>>
      BY <2>5 DEF unlock
    <3>2. call[t].op = "bind" /\ call[t] \in BindCalls /\ OnTarget(t)
      BY <1>0, <3>1, BinderTyped DEF BindsTarget, BindLabel
    <3>3. /\ call'[t].tracker = call[t].tracker /\ call'[t].target = call[t].target
          /\ call'[t].lookups = call[t].lookups + 1
      BY <1>0, <2>5, <3>2 DEF unlock, TypeOK, BindCalls
    <3>4. pc'[t] = IF call[t].tracker = NoId /\ call[t].lookups + 1 < RetryLimit
                   THEN "lookup" ELSE "syscall"
      BY <1>0, <2>5 DEF unlock, TypeOK
    <3> QED
      BY <3>1, <3>2, <3>3, <3>4 DEF OnTarget
  <2> QED
    BY <2>2, <2>3, <2>4, <2>5
<1> QED
  BY <1>1, <1>2 DEF Next, Terminated

(* LogFollows: bindingLogMutex orders the change of the node and its       *)
(* entry, and logBinding leaves out what is logged last.                   *)
LEMMA LogFollowsKept == IInv /\ [Next]_vars => LogFollows'
<1> SUFFICES ASSUME IInv, [Next]_vars PROVE LogFollows'
  OBVIOUS
<1> USE DEF mapVars, trackerVars, lockVars, accessVars, Goto
<1> DEFINE Logging == {"bind", "log", "logUnlock"}
<1>0. TypeOK /\ LogFollows /\ Tracked /\ InHook
  BY DEF IInv
<1>1. CASE UNCHANGED vars
  BY <1>0, <1>1 DEF LogFollows, WellLogged, vars
<1>2. ASSUME NEW t \in Thread, Step(t) \/ Act(t)
      PROVE  LogFollows'
  (* The threads that log, and what they log to, other than t. *)
  <2>1. ASSUME NEW v \in Thread \ {t}, pc'[v] \in Logging \/ pc[v] \in Logging
        PROVE  /\ pc'[v] = pc[v] /\ call'[v].tracker = call[v].tracker
               /\ logMutex[call[v].tracker] = v
    <3>1. Waits(v)
      <4>1. ~ Created(v)
        BY <1>0, <2>1 DEF Created, InHook, BindLabel
      <4> QED
        BY <1>2, <4>1, OthersWait
    <3>2. pc[v] \in Logging
      BY <2>1, <3>1 DEF Waits
    <3>3. call[v].op = "bind"
      BY <3>2, BinderTyped DEF BindLabel
    <3> QED
      BY <1>0, <3>1, <3>2, <3>3, SameCallFields DEF Waits, LogFollows
  <2>2. ASSUME onSetAffinity(t)
        PROVE  LogFollows'
    <3>1. /\ logMutex[call[t].tracker] = NoThread
          /\ logMutex' = [logMutex EXCEPT ![call[t].tracker] = t]
          /\ UNCHANGED <<tid, numa, bindingLog, call>>
          /\ pc' = [pc EXCEPT ![t] = "bind"] /\ pc[t] = "logLock"
      BY <2>2 DEF onSetAffinity
    <3>2. call[t].tracker \in Id
      BY <3>1, TrackerKnown, BinderTyped DEF BindLabel, CreateLabel, TrackerOf
    <3>3. ASSUME NEW v \in Thread, pc'[v] \in Logging
          PROVE  logMutex'[call'[v].tracker] = v
      BY <1>0, <2>1, <3>1, <3>2, <3>3, BindingAssumption DEF TypeOK
    <3>4. \A v \in Thread : pc'[v] = "log" <=> pc[v] = "log"
      BY <1>0, <3>1 DEF TypeOK
    <3>5. ASSUME NEW i \in Id, tid'[i] # NoThread
          PROVE  WellLogged(i)'
      BY <1>0, <3>1, <3>4, <3>5 DEF LogFollows, WellLogged
    <3> QED
      BY <3>3, <3>5 DEF LogFollows
  <2>3. ASSUME logUnlock(t)
        PROVE  LogFollows'
    <3>1. /\ logMutex' = [logMutex EXCEPT ![call[t].tracker] = NoThread]
          /\ UNCHANGED <<tid, numa, bindingLog, call>>
          /\ pc'[t] \notin Logging /\ pc[t] = "logUnlock"
          /\ \A v \in Thread \ {t} : pc'[v] = pc[v]
      BY <1>0, <2>3 DEF logUnlock, TypeOK
    <3>2. logMutex[call[t].tracker] = t
      BY <1>0, <3>1 DEF LogFollows
    <3>3. ASSUME NEW v \in Thread, pc'[v] \in Logging
          PROVE  logMutex'[call'[v].tracker] = v
      <4>1. v # t /\ logMutex[call[v].tracker] = v
        BY <2>1, <3>1, <3>3
      <4>2. call[v].tracker # call[t].tracker
        BY <3>2, <4>1
      <4>3. logMutex'[call[v].tracker] = logMutex[call[v].tracker]
        BY <1>0, <3>1, <4>2 DEF TypeOK
      <4> QED
        BY <3>1, <4>1, <4>3
    <3>4. \A v \in Thread : pc'[v] = "log" <=> pc[v] = "log"
      BY <1>0, <3>1 DEF TypeOK
    <3>5. ASSUME NEW i \in Id, tid'[i] # NoThread
          PROVE  WellLogged(i)'
      BY <1>0, <3>1, <3>4, <3>5 DEF LogFollows, WellLogged
    <3> QED
      BY <3>3, <3>5 DEF LogFollows
  <2>4. ASSUME ~ onSetAffinity(t), ~ logUnlock(t)
        PROVE  \A v \in Thread : pc'[v] \in Logging =>
                   logMutex'[call'[v].tracker] = v
    <3>1. logMutex' = logMutex
      BY <1>2, <2>4 DEF Step, Act, createLock, createThreadTracker, createUnlock,
     onThreadSetAffinity, search, unlock, sched_setaffinity, bind, logBinding,
     flushOne, flushAccessBatch, setPolicy, mergeInstruction, mergeUnlock,
     accessMatrix, getDistance, classify, local, onAccessHandling, pthread_create,
     beforeSchedSetAffinity, onStop, onSetMemPolicy, onAccess
    <3>2. ASSUME pc'[t] \in Logging
          PROVE  logMutex[call[t].tracker] = t /\ call'[t].tracker = call[t].tracker
      <4>1. CASE bind(t)
        BY <1>0, <4>1 DEF bind, TypeOK, LogFollows
      <4>2. CASE logBinding(t)
        BY <1>0, <4>2 DEF logBinding, LogFollows
      <4>3. ASSUME NEW u \in Thread, pthread_create(t, u)
            PROVE  FALSE
        BY <1>0, <3>2, <4>3 DEF pthread_create, TypeOK, Ready
      <4>4. ASSUME ~ bind(t), ~ logBinding(t), \A u \in Thread : ~ pthread_create(t, u)
            PROVE  FALSE
        <5>1. \E label : pc' = [pc EXCEPT ![t] = label] /\ label \notin Logging
          <6> DEFINE Outside(label) == pc' = [pc EXCEPT ![t] = label] /\ label \notin Logging
          <6>1. \/ Outside("idle") \/ Outside("createLock") \/ Outside("construct")
                \/ Outside("createUnlock") \/ Outside("lookup") \/ Outside("search")
                \/ Outside("unlock") \/ Outside("flush") \/ Outside("merge")
                \/ Outside("mergeUnlock") \/ Outside("logLock") \/ Outside("syscall")
                \/ Outside("setPolicy") \/ Outside("matrix") \/ Outside("distance")
                \/ Outside("classify") \/ Outside("local") \/ Outside("counted")
            BY <1>2, <2>4, <4>4 DEF Step, Act, createLock, createThreadTracker,
     createUnlock, onThreadSetAffinity, search, unlock, sched_setaffinity,
     flushOne, flushAccessBatch, setPolicy, mergeInstruction, mergeUnlock, AfterMerge,
     accessMatrix, getDistance, classify, local, onAccessHandling,
     beforeSchedSetAffinity, onStop, onSetMemPolicy, onAccess, Enter, Return
          <6> HIDE DEF Outside
          <6>2. \E label : Outside(label)
            BY <6>1
          <6> QED
            BY <6>2 DEF Outside
        <5> QED
          BY <1>0, <3>2, <5>1 DEF TypeOK
      <4> QED
        BY <4>1, <4>2, <4>3, <4>4
    <3> QED
      BY <2>1, <3>1, <3>2
  <2>5. ASSUME createThreadTracker(t), NEW i \in Id, tid'[i] # NoThread
        PROVE  WellLogged(i)'
    <3>1. threads[t] \in Id
      BY <1>0, <2>5 DEF Tracked, InHook, createThreadTracker, CreateLabel
    <3>2. \A v \in Thread : pc'[v] = "log" <=> pc[v] = "log"
      BY <1>0, <2>5 DEF createThreadTracker, TypeOK
    <3>3. call' = call
      BY <2>5 DEF createThreadTracker
    <3>4. CASE tid[threads[t]] = NoThread /\ i = threads[t]
      <4> DEFINE n == getNumaAffinity(affinity[t])
      <4>1. numa' = [numa EXCEPT ![i] = n] /\ bindingLog' = [bindingLog EXCEPT ![i] = <<numa'[i]>>]
        BY <2>5, <3>4 DEF createThreadTracker
      <4> HIDE DEF n
      <4>2. bindingLog'[i] = <<numa'[i]>>
        BY <1>0, <4>1 DEF TypeOK
      <4>3. Len(bindingLog'[i]) = 1 /\ bindingLog'[i] # <<>> /\ bindingLog'[i][1] = numa'[i]
        BY <4>2
      <4> QED
        BY <4>3 DEF WellLogged
    <3>5. CASE ~ (tid[threads[t]] = NoThread /\ i = threads[t])
      <4>1. tid'[i] = tid[i] /\ numa'[i] = numa[i] /\ bindingLog'[i] = bindingLog[i]
        <5>1. CASE tid[threads[t]] = NoThread
          BY <1>0, <2>5, <3>1, <3>5, <5>1 DEF createThreadTracker, TypeOK
        <5>2. CASE tid[threads[t]] # NoThread
          BY <2>5, <5>2 DEF createThreadTracker
        <5> QED
          BY <5>1, <5>2
      <4> QED
        BY <1>0, <2>5, <3>2, <3>3, <4>1 DEF LogFollows, WellLogged
    <3> QED
      BY <3>4, <3>5
  <2>6. ASSUME bind(t), NEW i \in Id, tid'[i] # NoThread
        PROVE  WellLogged(i)'
    <3>1. /\ UNCHANGED <<tid, bindingLog>> /\ pc[t] = "bind"
          /\ call'[t] = call[t] /\ pc'[t] = "log"
          /\ \A j \in Id : j # call[t].tracker => numa'[j] = numa[j]
      BY <1>0, <2>6 DEF bind, TypeOK
    <3> QED
      BY <1>0, <2>1, <2>6, <3>1 DEF LogFollows, WellLogged
  <2>7. ASSUME logBinding(t), NEW i \in Id, tid'[i] # NoThread
        PROVE  WellLogged(i)'
    <3>1. /\ UNCHANGED <<tid, numa, call>> /\ pc[t] = "log" /\ pc'[t] = "logUnlock"
          /\ bindingLog' = [bindingLog EXCEPT ![call[t].tracker] =
                 IF bindingLog[call[t].tracker] # <<>> /\
                    bindingLog[call[t].tracker][Len(bindingLog[call[t].tracker])]
                        = numa[call[t].tracker]
                 THEN bindingLog[call[t].tracker]
                 ELSE Append(bindingLog[call[t].tracker], numa[call[t].tracker])]
      BY <1>0, <2>7 DEF logBinding, TypeOK
    <3>2. CASE i = call[t].tracker
      <4> DEFINE log == bindingLog[i]
      <4>1. log \in Seq(Numa) /\ log # <<>> /\ numa[i] \in Numa
            /\ \A n \in 2 .. Len(log) : log[n] # log[n - 1]
        BY <1>0, <2>7, <3>1 DEF LogFollows, WellLogged, TypeOK
      <4>2. bindingLog'[i] = IF log[Len(log)] = numa[i] THEN log ELSE Append(log, numa[i])
        BY <1>0, <3>1, <3>2, <4>1 DEF TypeOK
      <4> HIDE DEF log
      <4>3. CASE log[Len(log)] = numa[i]
        BY <3>1, <4>1, <4>2, <4>3 DEF WellLogged
      <4>4. CASE log[Len(log)] # numa[i]
        <5> DEFINE more == Append(log, numa[i])
        <5>1. /\ more # <<>> /\ more[Len(more)] = numa[i]
              /\ \A k \in 2 .. Len(more) : more[k] # more[k - 1]
          BY <4>1, <4>4, LogGrows
        <5>2. bindingLog'[i] = more
          BY <4>2, <4>4
        <5> HIDE DEF more
        <5> QED
          BY <3>1, <5>1, <5>2 DEF WellLogged
      <4> QED
        BY <4>3, <4>4
    <3>3. CASE i # call[t].tracker
      <4>1. bindingLog'[i] = bindingLog[i]
        BY <1>0, <3>1, <3>3 DEF TypeOK
      <4> QED
        BY <1>0, <2>1, <2>7, <3>1, <3>3, <4>1 DEF LogFollows, WellLogged
    <3> QED
      BY <3>2, <3>3
  <2>8. ASSUME ~ createThreadTracker(t), ~ bind(t), ~ logBinding(t),
               ~ onSetAffinity(t), ~ logUnlock(t),
               NEW i \in Id, tid'[i] # NoThread
        PROVE  WellLogged(i)'
    <3>1. UNCHANGED <<tid, numa, bindingLog>> /\ pc[t] # "log"
      BY <1>0, <1>2, <2>8 DEF Step, Act, createLock, createUnlock,
     onThreadSetAffinity, search, unlock, sched_setaffinity,
     flushOne, flushAccessBatch, setPolicy, mergeInstruction, mergeUnlock,
     accessMatrix, getDistance, classify, local, onAccessHandling, pthread_create,
     beforeSchedSetAffinity, onStop, onSetMemPolicy, onAccess, Enter, Ready
    <3> QED
      BY <1>0, <2>1, <2>8, <3>1 DEF LogFollows, WellLogged
  <2> QED
    BY <2>2, <2>3, <2>4, <2>5, <2>6, <2>7, <2>8 DEF LogFollows
<1> QED
  BY <1>1, <1>2 DEF Next, Terminated

(* AloneBinds: another call on the target, or on its tracker, ends the     *)
(* claim to be alone.                                                      *)
LEMMA AloneBindsKept == IInv /\ [Next]_vars => AloneBinds'
<1> SUFFICES ASSUME IInv, [Next]_vars PROVE AloneBinds'
  OBVIOUS
<1> USE DEF mapVars, trackerVars, Goto
<1>0. TypeOK /\ AloneBinds /\ InHook
  BY DEF IInv
<1>1. CASE UNCHANGED vars
  BY <1>0, <1>1 DEF AloneBinds, OnlyBinder, Binders, vars
<1>2. ASSUME NEW t \in Thread, NEW u \in Thread, NEW mask \in Mask,
             beforeSchedSetAffinity(t, u, mask)
      PROVE  AloneBinds'
  <2>1. /\ call'[t] = BindCall(t, u, mask, Binders(u) = {})
        /\ call[t].op = "none" /\ pc'[t] \in {"flush", "lookup"}
        /\ numa' = numa
    BY <1>0, <1>2 DEF beforeSchedSetAffinity, TypeOK, Ready, InHook
  <2>2. ASSUME NEW v \in Thread \ {t}
        PROVE  /\ call'[v].op = "bind" <=> call[v].op = "bind"
               /\ call[v].op = "bind" => /\ call'[v].target = call[v].target
                                         /\ pc'[v] = pc[v]
               /\ call'[v].op = "bind" /\ call'[v].alone =>
                      call'[v] = call[v] /\ call[v].target # u
    <3>1. Waits(v) \/ Created(v)
      BY <1>2, OthersWait DEF Act
    <3>2. ~ Created(v)
      BY <1>0, <1>2 DEF Created, beforeSchedSetAffinity
    <3>3. call[v].op = "bind" /\ call[v].target = u => call'[v] = [call[v] EXCEPT !.alone = FALSE]
      BY <1>0, <1>2 DEF beforeSchedSetAffinity, TypeOK, Binders
    <3>4. call[v].op = "bind" => [call[v] EXCEPT !.alone = FALSE].alone = FALSE
      BY BinderTyped DEF BindCalls
    <3> QED
      BY <3>1, <3>2, <3>3, <3>4, SameCallFields DEF Waits
  <2>3. ASSUME NEW v \in Thread, call'[v].op = "bind", call'[v].alone
        PROVE  OnlyBinder(v)'
    <3>1. CASE v = t
      <4>1. Binders(u) = {} /\ call'[t].target = u
        <5> DEFINE alone == Binders(u) = {}
        <5>1. call'[t] = BindCall(t, u, mask, alone)
          BY <2>1
        <5> HIDE DEF alone
        <5>2. call'[t].alone = alone /\ call'[t].target = u
          BY <5>1 DEF BindCall
        <5>3. alone
          BY <2>3, <3>1, <5>2
        <5> QED
          BY <5>2, <5>3 DEF alone
      <4>2. \A w \in Thread : (call'[w].op = "bind" /\ call'[w].target = u) <=> w = t
        BY <2>1, <2>2, <4>1 DEF Binders, BindCall
      <4>3. Binders(u)' = {t}
        BY <4>2 DEF Binders
      <4> QED
        BY <2>1, <3>1, <4>1, <4>2 DEF OnlyBinder, Binders
    <3>2. CASE v # t
      <4>1. /\ call'[v] = call[v] /\ call[v].target # u /\ call[v].op = "bind"
            /\ pc'[v] = pc[v]
        BY <2>2, <2>3, <3>2
      <4>2. OnlyBinder(v)
        BY <1>0, <2>3, <4>1 DEF AloneBinds
      <4>3. \A w \in Thread : (call'[w].op = "bind" /\ call'[w].target = call[v].target)
                                <=> (call[w].op = "bind" /\ call[w].target = call[v].target)
        BY <2>1, <2>2, <4>1 DEF BindCall
      <4> QED
        BY <2>1, <4>1, <4>2, <4>3 DEF OnlyBinder, Binders
    <3> QED
      BY <3>1, <3>2
  <2> QED
    BY <2>3 DEF AloneBinds
<1>3. ASSUME NEW t \in Thread, sched_setaffinity(t)
      PROVE  AloneBinds'
  <2>1. call' = [call EXCEPT ![t] = NoCall] /\ pc' = [pc EXCEPT ![t] = "idle"] /\ numa' = numa
    BY <1>3 DEF sched_setaffinity, Return
  <2>2. call'[t].op # "bind" /\ \A v \in Thread \ {t} : call'[v] = call[v] /\ pc'[v] = pc[v]
    BY <1>0, <2>1, NoCallTyped DEF TypeOK
  <2>3. ASSUME NEW v \in Thread, call'[v].op = "bind", call'[v].alone
        PROVE  OnlyBinder(v)'
    <3>1. v # t /\ call'[v] = call[v]
      BY <2>2, <2>3
    <3>2. OnlyBinder(v)
      BY <1>0, <2>3, <3>1 DEF AloneBinds
    <3>3. \A w \in Thread : (call'[w].op = "bind" /\ call'[w].target = call[v].target)
                              <=> (call[w].op = "bind" /\ call[w].target = call[v].target)
      <4>1. t \notin Binders(call[v].target)
        BY <3>1, <3>2 DEF OnlyBinder
      <4> QED
        BY <2>2, <4>1 DEF Binders
    <3>4. Binders(call[v].target)' = {v}
      BY <3>1, <3>2, <3>3 DEF OnlyBinder, Binders
    <3> QED
      BY <2>1, <2>2, <3>1, <3>2, <3>4 DEF OnlyBinder, Binders
  <2> QED
    BY <2>3 DEF AloneBinds
<1>4. ASSUME NEW t \in Thread, Step(t) \/ Act(t),
             ~ \E u \in Thread, mask \in Mask : beforeSchedSetAffinity(t, u, mask),
             ~ sched_setaffinity(t)
      PROVE  AloneBinds'
  <2>1. ASSUME NEW v \in Thread, call'[v].op = "bind", call'[v].alone
        PROVE  OnlyBinder(v)'
    <3>1. /\ call[v].op = "bind" /\ call[v].alone /\ call[v] \in BindCalls
          /\ call'[v].target = call[v].target /\ call'[v].mask = call[v].mask
          /\ call'[v].tracker = call[v].tracker \/ (v = t /\ search(t))
      BY <1>4, <2>1, CallStays, BinderTyped
    <3>2. OnlyBinder(v) /\ OnTarget(v)
      BY <1>0, <3>1 DEF AloneBinds, IInv, BindsTarget
    <3>3. \A w \in Thread : (call'[w].op = "bind" /\ call'[w].target = call[v].target)
                              <=> (call[w].op = "bind" /\ call[w].target = call[v].target)
      BY <1>4, CallStays
    <3>4. {w \in Thread : call'[w].op = "bind" /\ call'[w].target = call'[v].target} = {v}
      <4>1. call'[v].target = call[v].target
        BY <3>1
      <4>2. {w \in Thread : call[w].op = "bind" /\ call[w].target = call[v].target} = {v}
        BY <3>2 DEF OnlyBinder, Binders
      <4> QED
        BY <3>3, <4>1, <4>2
    <3>5. ASSUME call'[v].tracker # NoId, pc'[v] \in {"log", "logUnlock", "unlock", "syscall"}
          PROVE  numa'[call'[v].tracker] = NodeOfMask(call'[v].mask)
      <4>1. CASE v = t /\ search(t)
        <5>1. pc[t] = "search" /\ call[t].tracker = NoId
          BY <3>2, <4>1 DEF search, OnTarget
        <5> QED
          BY <1>0, <3>5, <4>1, <5>1 DEF search, TypeOK
      <4>2. CASE v = t /\ bind(t)
        <5>1. numa' = [numa EXCEPT ![call[t].tracker] = getNumaAffinity(call[t].mask)]
              /\ call'[t].tracker = call[t].tracker
          BY <3>1, <4>2 DEF bind, search
        <5>2. call[t].tracker \in Id /\ call[t].mask \in SUBSET Cpu
          BY <3>1, <3>5, <4>2, <5>1, BindingAssumption DEF BindCalls
        <5> QED
          BY <1>0, <3>1, <4>2, <5>1, <5>2, AffinityIsNodeOfMask DEF TypeOK
      <4>3. CASE ~ (v = t /\ (search(t) \/ bind(t)))
        <5>1. call'[v].tracker = call[v].tracker /\ call[v].tracker \in Id
          BY <3>1, <3>5, <4>3 DEF BindCalls
        <5>2. pc[v] \in {"log", "logUnlock", "unlock", "syscall"}
          <6>1. CASE v # t
            BY <1>4, <3>1, <3>5, <6>1, OthersWait DEF Waits, Created, InHook, IInv
          <6>2. CASE v = t
            <7>1. ~ Ready(t)
              BY <1>0, <3>1, <6>2 DEF Ready, InHook
            <7>2. ~ flushAccessBatch(t)
              BY <1>0, <3>1, <3>5, <6>2 DEF flushAccessBatch, TypeOK
            <7>3. CASE onThreadSetAffinity(t) \/ onSetAffinity(t) \/ logBinding(t)
                         \/ logUnlock(t) \/ unlock(t)
              BY <1>0, <3>2, <3>5, <6>2, <7>3 DEF OnTarget, TypeOK, onThreadSetAffinity,
                 onSetAffinity, logBinding, logUnlock, unlock
            <7>4. CASE \/ createLock(t) \/ createThreadTracker(t) \/ createUnlock(t)
                       \/ flushOne(t) \/ mergeInstruction(t) \/ mergeUnlock(t) \/ setPolicy(t)
                       \/ accessMatrix(t) \/ getDistance(t) \/ classify(t) \/ local(t)
                       \/ onAccessHandling(t)
              BY <1>0, <3>5, <6>2, <7>4 DEF TypeOK, createLock, createThreadTracker,
                 createUnlock, flushOne, mergeInstruction, mergeUnlock, AfterMerge,
                 setPolicy, accessMatrix, getDistance, classify, local, onAccessHandling,
                 Return
            <7> QED
              BY <1>4, <4>3, <6>2, <7>1, <7>2, <7>3, <7>4 DEF Step, Act, pthread_create,
                 onStop, onSetMemPolicy, onAccess, Enter
          <6> QED
            BY <6>1, <6>2
        <5>3. tid[call[v].tracker] # NoThread
          BY <3>2, <3>5, <5>1 DEF OnTarget
        <5>4. ~ (bind(t) /\ call[t].tracker = call[v].tracker)
          <6>1. ASSUME bind(t), call[t].tracker = call[v].tracker PROVE FALSE
            <7>1. v # t
              BY <4>3, <6>1
            <7>2. call'[v] = [call[v] EXCEPT !.alone = FALSE]
              BY <1>0, <3>1, <6>1, <7>1 DEF bind, TrackerOf
            <7> QED
              BY <2>1, <3>1, <7>2 DEF BindCalls
          <6> QED
            BY <6>1
        <5>5. numa'[call[v].tracker] = numa[call[v].tracker]
          BY <1>4, <5>1, <5>3, <5>4, NodeStays
        <5> QED
          BY <3>1, <3>2, <3>5, <5>1, <5>2, <5>5 DEF OnlyBinder
      <4> QED
        BY <4>1, <4>2, <4>3
    <3> QED
      BY <3>4, <3>5 DEF OnlyBinder, Binders
  <2> QED
    BY <2>1 DEF AloneBinds
<1> QED
  BY <1>1, <1>2, <1>3, <1>4 DEF Next, Terminated

(* NodeKnown: the kernel and the tracker change together, or the thread    *)
(* becomes unknown.                                                        *)
LEMMA NodeKnownKept == IInv /\ [Next]_vars => NodeKnown'
<1> SUFFICES ASSUME IInv, [Next]_vars PROVE NodeKnown'
  OBVIOUS
<1> USE DEF mapVars, trackerVars, historyVars, Goto
<1>0. TypeOK /\ NodeKnown /\ InHook /\ Tracked /\ BindsTarget /\ AloneBinds
  BY DEF IInv
<1>1. CASE UNCHANGED vars
  BY <1>0, <1>1 DEF NodeKnown, Settled, Binders, vars
<1>2. ASSUME NEW t \in Thread, sched_setaffinity(t),
             NEW v \in Thread \ unknown', Settled(v)'
      PROVE  (numa[threads[v]] = NodeOfMask(affinity[v]))'
  <2> DEFINE u == call[t].target
  <2>1. /\ pc[t] = "syscall" /\ call' = [call EXCEPT ![t] = NoCall]
        /\ pc' = [pc EXCEPT ![t] = "idle"]
        /\ UNCHANGED <<life, threads, numa>>
    BY <1>2 DEF sched_setaffinity, Return
  <2>2. call[t].op = "bind" /\ call[t] \in BindCalls /\ OnTarget(t) /\ u \in Thread
        /\ (call[t].alone => OnlyBinder(t))
    BY <1>0, <2>1, BinderTyped DEF BindsTarget, AloneBinds, BindLabel, BindCalls
  <2>3. CASE v = u
    <3>1. /\ call[t].alone /\ call[t].tracker # NoId
          /\ affinity' = [affinity EXCEPT ![u] = call[t].mask]
      BY <1>2, <2>3 DEF sched_setaffinity
    <3>2. affinity'[u] = call[t].mask
      BY <1>0, <2>2, <3>1 DEF TypeOK
    <3>3. numa[call[t].tracker] = NodeOfMask(call[t].mask) /\ call[t].tracker = threads[u]
      BY <2>1, <2>2, <3>1 DEF OnlyBinder, OnTarget
    <3> QED
      BY <2>1, <2>3, <3>2, <3>3
  <2>4. CASE v # u
    <3>1. affinity'[v] = affinity[v] /\ v \notin unknown
      BY <1>0, <1>2, <2>2, <2>4 DEF sched_setaffinity, TypeOK
    <3>2. \A w \in Thread : w # t => call'[w] = call[w]
      BY <1>0, <2>1 DEF TypeOK
    <3>3. \A w \in Thread : ~ (call'[w].op = "bind" /\ call'[w].target = v)
      BY <1>2 DEF Settled, Binders
    <3>4. Binders(v) = {}
      BY <2>4, <3>2, <3>3 DEF Binders
    <3>5. Settled(v)
      BY <1>0, <1>2, <2>1, <3>4 DEF Settled, TypeOK
    <3> QED
      BY <1>0, <2>1, <3>1, <3>5 DEF NodeKnown
  <2> QED
    BY <2>3, <2>4
<1>3. ASSUME NEW t \in Thread, Step(t) \/ Act(t), ~ sched_setaffinity(t),
             NEW v \in Thread \ unknown', Settled(v)'
      PROVE  (numa[threads[v]] = NodeOfMask(affinity[v]))'
  <2>1. ASSUME NEW w \in Thread, call[w].op = "bind"
        PROVE  call'[w].op = "bind" /\ call'[w].target = call[w].target
    <3>1. ASSUME NEW u \in Thread, NEW mask \in Mask, beforeSchedSetAffinity(t, u, mask)
          PROVE  w # t /\ ~ Created(w)
      BY <1>0, <2>1, <3>1 DEF beforeSchedSetAffinity, Ready, InHook, Created
    <3>2. CASE \E u \in Thread, mask \in Mask : beforeSchedSetAffinity(t, u, mask)
      BY <1>3, <2>1, <3>1, <3>2, OthersWait, SameCallFields DEF Waits
    <3>3. CASE ~ \E u \in Thread, mask \in Mask : beforeSchedSetAffinity(t, u, mask)
      BY <1>3, <2>1, <3>3, CallStays
    <3> QED
      BY <3>2, <3>3
  <2>2. Binders(v) = {}
    <3>1. \A w \in Thread : ~ (call'[w].op = "bind" /\ call'[w].target = v)
      BY <1>3 DEF Settled, Binders
    <3> QED
      BY <2>1, <3>1 DEF Binders
  <2>3. CASE createThreadTracker(t) /\ v = t
    <3>1. /\ pc[t] = "construct" /\ UNCHANGED <<life, threads, affinity>>
      BY <2>3 DEF createThreadTracker
    <3>2. threads[t] \in Id
      BY <1>0, <3>1 DEF Tracked, InHook, CreateLabel
    <3>3. numa' = [numa EXCEPT ![threads[t]] = getNumaAffinity(affinity[t])]
      BY <1>3, <2>3 DEF createThreadTracker
    <3>4. getNumaAffinity(affinity[t]) = NodeOfMask(affinity[t])
      BY <1>0, AffinityIsNodeOfMask DEF TypeOK
    <3> QED
      BY <1>0, <2>3, <3>1, <3>2, <3>3, <3>4 DEF TypeOK
  <2>4. CASE ~ (createThreadTracker(t) /\ v = t)
    <3>1. ~ \E u \in Thread : pthread_create(t, u) /\ v = u
      BY <1>0, <1>3 DEF pthread_create, Settled, TypeOK
    <3>2. life[v] = "alive" /\ ~ Created(v)
      <4>1. CASE v = t
        <5>1. life[t] = "alive"
          BY <1>0, <1>3, <2>4, <4>1, MapKept DEF pthread_create, Ready
        <5> QED
          BY <4>1, <5>1 DEF Created
      <4>2. CASE v # t
        BY <1>3, <4>2, OthersWait DEF Waits, Created, Settled
      <4> QED
        BY <4>1, <4>2
    <3>3. pc[v] \notin {"createLock", "construct"}
      <4>1. CASE v # t
        BY <1>3, <3>2, <4>1, OthersWait DEF Waits, Settled
      <4>2. CASE v = t
        BY <1>0, <1>3, <2>4, <4>2 DEF Settled, TypeOK, Step, Act, createLock, createUnlock,
     onThreadSetAffinity, search, unlock, sched_setaffinity, onSetAffinity, bind, logBinding,
     logUnlock, flushOne, flushAccessBatch, setPolicy, mergeInstruction, mergeUnlock,
     accessMatrix, getDistance, classify, local, onAccessHandling, pthread_create,
     beforeSchedSetAffinity, onStop, onSetMemPolicy, onAccess, Enter, Ready
      <4> QED
        BY <4>1, <4>2
    <3>4. Settled(v)
      BY <2>2, <3>2, <3>3 DEF Settled
    <3>5. threads'[v] = threads[v] /\ threads[v] \in Id /\ tid[threads[v]] # NoThread
      BY <1>0, <1>3, <3>2, <3>3, TrackersStay DEF Tracked
    <3>6. affinity'[v] = affinity[v]
      <4>1. CASE \E u \in Thread : pthread_create(t, u)
        BY <1>0, <3>1, <4>1 DEF pthread_create, TypeOK
      <4>2. CASE ~ \E u \in Thread : pthread_create(t, u)
        BY <1>3, <4>2 DEF Step, Act, createLock, createThreadTracker, createUnlock,
     onThreadSetAffinity, search, unlock, onSetAffinity, bind, logBinding,
     logUnlock, flushOne, flushAccessBatch, setPolicy, mergeInstruction, mergeUnlock,
     accessMatrix, getDistance, classify, local, onAccessHandling,
     beforeSchedSetAffinity, onStop, onSetMemPolicy, onAccess
      <4> QED
        BY <4>1, <4>2
    <3>7. v \notin unknown
      BY <1>0, <1>3 DEF TypeOK, Step, Act, createLock, createThreadTracker, createUnlock,
     onThreadSetAffinity, search, unlock, onSetAffinity, bind, logBinding,
     logUnlock, flushOne, flushAccessBatch, setPolicy, mergeInstruction, mergeUnlock,
     accessMatrix, getDistance, classify, local, onAccessHandling, pthread_create,
     beforeSchedSetAffinity, onStop, onSetMemPolicy, onAccess
    <3>8. ~ (bind(t) /\ call[t].tracker = threads[v])
      <4>1. ASSUME bind(t), call[t].tracker = threads[v] PROVE FALSE
        <5>1. v = call[t].target
          BY <1>3, <4>1 DEF bind
        <5>2. call[t].op = "bind"
          BY <4>1, BinderTyped DEF bind, BindLabel
        <5> QED
          BY <2>2, <5>1, <5>2 DEF Binders
      <4> QED
        BY <4>1
    <3>9. numa'[threads[v]] = numa[threads[v]]
      BY <1>3, <3>5, <3>8, NodeStays
    <3> QED
      BY <1>0, <3>4, <3>5, <3>6, <3>7, <3>9 DEF NodeKnown
  <2> QED
    BY <2>3, <2>4
<1> QED
  BY <1>1, <1>2, <1>3 DEF Next, Terminated, NodeKnown

(* SeenCovers: each reading of an access is of a binding in its history.   *)
LEMMA SeenCoversKept == IInv /\ [Next]_vars => SeenCovers'
<1> SUFFICES ASSUME IInv, [Next]_vars PROVE SeenCovers'
  OBVIOUS
<1> USE DEF mapVars, trackerVars, accessVars, historyVars, Goto
<1>0. TypeOK /\ InHook /\ SeenCovers
  BY DEF IInv
<1>1. CASE UNCHANGED vars
  BY <1>0, <1>1 DEF SeenCovers, Covered, Reads, TrackerOf, Nodes, Classified, vars
<1>2. ASSUME NEW t \in Thread, Step(t) \/ Act(t)
      PROVE  SeenCovers'
  <2>1. ASSUME NEW v \in Thread \ {t}, access'[v] # NoAccess
        PROVE  Covered(v)'
    <3>1. access'[v] = access[v] /\ pc'[v] = pc[v] /\ access[v] # NoAccess
      <4>1. Waits(v) \/ Created(v)
        BY <1>2, OthersWait
      <4>2. ~ Created(v)
        BY <1>0, <2>1, CallOps DEF Created, InHook, TypeOK, AccessLabel, MergeLabel
      <4> QED
        BY <2>1, <4>1, <4>2 DEF Waits
    <3>2. seen[v] \subseteq seen'[v] /\ Reads(v)' \in seen'[v]
      BY <1>2, <3>1, SeenGrows
    <3>3. Covered(v)
      BY <1>0, <3>1 DEF SeenCovers
    <3> QED
      BY <3>1, <3>2, <3>3 DEF Covered, Nodes, Classified
  <2>2. ASSUME access'[t] # NoAccess
        PROVE  Covered(t)'
    <3>1. CASE flushOne(t)
      <4>1. /\ pc'[t] = "matrix" /\ seen'[t] = {Reads(t)}
            /\ UNCHANGED <<threads, call, numa, memPolicy>>
        BY <1>0, <3>1 DEF flushOne, TypeOK, Reads
      <4> QED
        BY <4>1 DEF Covered, Reads, TrackerOf, MergeLabel
    <3>2. CASE ~ flushOne(t) /\ access[t] = NoAccess
      <4>1. access'[t] = NoAccess
        BY <1>0, <1>2, <3>2 DEF TypeOK, Step, Act, createLock, createThreadTracker,
     createUnlock, onThreadSetAffinity, search, unlock, sched_setaffinity, onSetAffinity,
     bind, logBinding, logUnlock, flushAccessBatch, setPolicy, mergeInstruction,
     mergeUnlock, Forget, AfterMerge, accessMatrix, getDistance, classify, local,
     onAccessHandling, pthread_create, beforeSchedSetAffinity, onStop, onSetMemPolicy,
     onAccess, InHook, AccessLabel
      <4> QED
        BY <2>2, <4>1
    <3>3. CASE ~ flushOne(t) /\ access[t] # NoAccess
      <4>1. /\ pc[t] \in AccessLabel \cup MergeLabel /\ Covered(t)
            /\ access[t] \in Accesses
        BY <1>0, <3>3, AccessTyped DEF InHook, SeenCovers, TypeOK
      <4>2. /\ access[t].page \in Page /\ access[t].page.node \in Node
            /\ access[t].page.node # Unbound /\ Reads(t) \in seen[t]
            /\ Reads(t).node = numa[TrackerOf(t)] /\ Reads(t).node \in Nodes(t)
        BY <4>1, BindingAssumption, TopologyAssumption
           DEF Accesses, Covered, Unbound, Nodes, Reads
      <4>3. CASE accessMatrix(t)
        <5>1. /\ pc[t] = "matrix" /\ pc'[t] = "distance"
              /\ access'[t] = [access[t] EXCEPT !.row = numa[TrackerOf(t)]]
              /\ UNCHANGED <<threads, call, numa, memPolicy, seen>>
          BY <1>0, <4>3 DEF accessMatrix, TypeOK
        <5>2. access'[t].row = numa[TrackerOf(t)] /\ access'[t].page = access[t].page
          BY <4>1, <5>1 DEF Accesses
        <5> QED
          BY <4>1, <4>2, <5>1, <5>2 DEF Covered, Nodes, Reads, TrackerOf, MergeLabel
      <4>4. CASE getDistance(t)
        <5>1. /\ pc[t] = "distance" /\ pc'[t] = "classify"
              /\ access'[t] = [access[t] EXCEPT !.dist = numa[TrackerOf(t)]]
              /\ UNCHANGED <<threads, call, numa, memPolicy, seen>>
          BY <1>0, <4>4 DEF getDistance, TypeOK
        <5>2. access'[t].dist = numa[TrackerOf(t)] /\ access'[t].page = access[t].page
              /\ access'[t].row = access[t].row
          BY <4>1, <5>1 DEF Accesses
        <5> QED
          BY <4>1, <4>2, <5>1, <5>2 DEF Covered, Nodes, Reads, TrackerOf, MergeLabel
      <4>5. CASE classify(t)
        <5> DEFINE kind == KindRead(TrackerOf(t), access[t].page)
        <5>1. /\ pc[t] = "classify"
              /\ pc'[t] = IF kind = "none" THEN "local" ELSE "counted"
              /\ access'[t] = [access[t] EXCEPT !.kind = kind]
              /\ UNCHANGED <<threads, call, numa, memPolicy, seen>>
          BY <1>0, <4>5 DEF classify, TypeOK
        <5> HIDE DEF kind
        <5>2. access'[t].kind = kind /\ access'[t].page = access[t].page
              /\ access'[t].row = access[t].row /\ access'[t].dist = access[t].dist
          BY <4>1, <5>1 DEF Accesses
        <5>3. Reads(t)' = Reads(t) /\ Nodes(t)' = Nodes(t)
          BY <5>1 DEF Reads, Nodes, TrackerOf
        <5>4. CASE kind = "none"
          <6>1. /\ ~ access[t].page.first /\ access[t].page.pinned
                /\ access[t].page.node \notin isMcdram /\ numa[TrackerOf(t)] # Unbound
            <7>1. access[t].page.first \in BOOLEAN /\ access[t].page.pinned \in BOOLEAN
              BY <4>2, BindingAssumption
            <7> QED
              BY <5>4, <7>1 DEF kind, KindRead
          <6> QED
            BY <4>1, <4>2, <5>1, <5>2, <5>3, <5>4, <6>1 DEF Covered, MergeLabel
        <5>5. CASE kind # "none"
          <6>1. Classified(t)'
            <7>1. kind = KindOf(Reads(t).node, Reads(t).type, access[t].page)
              BY <4>2, <5>5, ReadAsClassified DEF kind
            <7> QED
              BY <4>2, <5>1, <5>2, <7>1 DEF Classified
          <6> QED
            BY <4>1, <4>2, <5>1, <5>2, <5>3, <5>5, <6>1 DEF Covered, MergeLabel
        <5> QED
          BY <5>4, <5>5
      <4>6. CASE local(t)
        <5> DEFINE kind == IF numa[TrackerOf(t)] = access[t].page.node
                           THEN "local" ELSE "remote"
        <5>1. /\ pc[t] = "local" /\ pc'[t] = "counted"
              /\ access'[t] = [access[t] EXCEPT !.kind = kind]
              /\ UNCHANGED <<threads, call, numa, memPolicy, seen>>
          BY <1>0, <4>6 DEF local, TypeOK
        <5> HIDE DEF kind
        <5>2. access'[t].kind = kind /\ access'[t].page = access[t].page
              /\ access'[t].row = access[t].row /\ access'[t].dist = access[t].dist
          BY <4>1, <5>1 DEF Accesses
        <5>3. Reads(t)' = Reads(t) /\ Nodes(t)' = Nodes(t)
          BY <5>1 DEF Reads, Nodes, TrackerOf
        <5>4. /\ ~ access[t].page.first /\ access[t].page.pinned
              /\ access[t].page.node \notin isMcdram
              /\ \E n \in Nodes(t) : n # Unbound
          BY <4>1, <5>1 DEF Covered
        <5>5. \A n, type : n # Unbound => KindOf(n, type, access[t].page) =
                               IF n = access[t].page.node THEN "local" ELSE "remote"
          BY <5>4 DEF KindOf
        <5>6. Classified(t)'
          <6>1. CASE numa[TrackerOf(t)] # Unbound
            <7>1. kind = KindOf(Reads(t).node, Reads(t).type, access[t].page)
              BY <4>2, <5>5, <6>1 DEF kind
            <7> QED
              BY <4>2, <5>1, <5>2, <7>1 DEF Classified
          <6>2. CASE numa[TrackerOf(t)] = Unbound
            <7>1. kind = "remote" /\ Unbound \in Nodes(t)
              BY <4>2, <6>2 DEF kind
            <7>2. PICK b \in seen[t] : b.node # Unbound
              BY <5>4 DEF Nodes
            <7>3. CASE b.node = access[t].page.node
              <8>1. access[t].page.node \in Nodes(t)
                BY <7>2, <7>3 DEF Nodes
              <8> QED
                BY <5>2, <5>3, <7>1, <8>1 DEF Classified
            <7>4. CASE b.node # access[t].page.node
              BY <5>1, <5>2, <5>5, <7>1, <7>2, <7>4 DEF Classified
            <7> QED
              BY <7>3, <7>4
          <6> QED
            BY <6>1, <6>2
        <5> QED
          BY <4>1, <4>2, <5>1, <5>2, <5>3, <5>6 DEF Covered, MergeLabel
      <4>7. CASE onAccessHandling(t) \/ mergeInstruction(t)
        <5>1. /\ pc[t] \in {"counted", "merge"} /\ pc'[t] \in MergeLabel
              /\ UNCHANGED <<threads, call, numa, memPolicy, seen, access>>
          BY <1>0, <2>2, <4>7 DEF onAccessHandling, mergeInstruction, Forget, TypeOK, MergeLabel
        <5>2. Reads(t)' = Reads(t) /\ Nodes(t)' = Nodes(t) /\ Classified(t)' = Classified(t)
          BY <5>1 DEF Reads, Nodes, TrackerOf, Classified
        <5> QED
          BY <4>1, <5>1, <5>2 DEF Covered, MergeLabel
      <4>8. CASE mergeUnlock(t)
        BY <1>0, <2>2, <4>8 DEF mergeUnlock, AfterMerge, Forget, TypeOK
      <4>9. CASE \E u \in Thread : pthread_create(t, u)
        BY <1>0, <4>1, <4>9 DEF pthread_create, Ready, AccessLabel, MergeLabel
      <4> QED
        BY <1>2, <3>3, <4>1, <4>3, <4>4, <4>5, <4>6, <4>7, <4>8, <4>9 DEF Step, Act,
     createLock, createThreadTracker, createUnlock, onThreadSetAffinity, search, unlock,
     sched_setaffinity, onSetAffinity, bind, logBinding, logUnlock, flushAccessBatch,
     setPolicy, beforeSchedSetAffinity, onStop, onSetMemPolicy, onAccess, Enter, Ready,
     AccessLabel, MergeLabel
    <3> QED
      BY <3>1, <3>2, <3>3
  <2> QED
    BY <2>1, <2>2 DEF SeenCovers
<1> QED
  BY <1>1, <1>2 DEF Next, Terminated

-----------------------------------------------------------------------------
(* The program starts in the invariant.                                    *)
LEMMA InitIInv == Init => IInv
<1> SUFFICES ASSUME Init PROVE IInv
  OBVIOUS
<1> USE DEF Init
<1>1. \A t \in Thread : call[t].op = (IF t = Main THEN "create" ELSE "none") /\ call[t].op # "bind"
  BY NoCallTyped
<1>2. (CHOOSE i \in Id : TRUE) \in Id
  BY BindingAssumption
<1>3. TypeOK
  <2>1. calls \in 0 .. CallLimit
    BY BindingAssumption
  <2>2. call \in [Thread -> Call]
    BY NoCallTyped, SimpleCallTyped
  <2>3. affinity \in [Thread -> SUBSET Cpu] /\ threads \in [Thread -> Id \cup {NoId}]
    BY <1>2, BindingAssumption
  <2> QED
    BY <2>1, <2>2, <2>3 DEF TypeOK, Numa, PolicyType, Access
<1>4. InHook
  BY <1>1 DEF InHook, CreateLabel, BindLabel, AccessLabel, MergeLabel
<1>5. Tracked
  BY <1>2 DEF Tracked
<1>6. BindsTarget /\ AloneBinds
  BY <1>1 DEF BindsTarget, AloneBinds
<1>7. LogFollows /\ NodeKnown
  BY DEF LogFollows, NodeKnown, Settled
<1>8. SeenCovers
  BY DEF SeenCovers
<1> QED
  BY <1>3, <1>4, <1>5, <1>6, <1>7, <1>8 DEF IInv

(* Every step keeps the invariant.                                         *)
LEMMA NextIInv == IInv /\ [Next]_vars => IInv'
BY TypeKept, InHookKept, TrackedKept, BindsTargetKept, LogFollowsKept, AloneBindsKept,
   NodeKnownKept, SeenCoversKept DEF IInv

(* The inductive invariant, and the runs' own properties from it.          *)
THEOREM Invariance == Spec => []IInv
<1>1. Init => IInv
  BY InitIInv
<1>2. IInv /\ [Next]_vars => IInv'
  BY NextIInv
<1> QED
  BY <1>1, <1>2, PTL DEF Spec

(* Every variable keeps its type: no hook indexes a table of trackers with *)
(* an id that has none.                                                    *)
THEOREM TypeCorrect == Spec => []TypeOK
<1>1. IInv => TypeOK
  BY DEF IInv
<1> QED
  BY <1>1, Invariance, PTL

(* Get-binding stays true: the node a tracker has for its thread is that   *)
(* of the mask the kernel has, whenever no call on the thread is in flight *)
(* and none was lost.                                                      *)
THEOREM BindingFollowsKernel == Spec => []BindingIsKernels
<1>1. IInv => BindingIsKernels
  <2> SUFFICES ASSUME IInv, NEW t \in Thread \ unknown, life[t] = "alive",
                      call[t].op # "create", Binders(t) = {}
               PROVE  numa[threads[t]] = NodeOfMask(affinity[t])
    BY DEF BindingIsKernels
  <2>1. pc[t] \notin {"createLock", "construct"}
    BY DEF IInv, InHook, CreateLabel
  <2> QED
    BY <2>1 DEF IInv, NodeKnown, Settled
<1> QED
  BY <1>1, Invariance, PTL

(* The binding log of a tracker ends with its node and repeats none,       *)
(* whichever threads call onSetAffinity at the same time.                  *)
THEOREM LogIsComplete == Spec => []LogEndsWithBinding
<1>1. IInv => LogEndsWithBinding
  <2> SUFFICES ASSUME IInv, NEW i \in Id, tid[i] # NoThread, logMutex[i] = NoThread
               PROVE  /\ bindingLog[i][Len(bindingLog[i])] = numa[i]
                      /\ \A n \in 2 .. Len(bindingLog[i]) :
                             bindingLog[i][n] # bindingLog[i][n - 1]
    BY DEF LogEndsWithBinding
  <2>1. ~ \E t \in Thread : pc[t] = "log" /\ call[t].tracker = i
    BY BindingAssumption DEF IInv, LogFollows
  <2> QED
    BY <2>1 DEF IInv, LogFollows, WellLogged
<1> QED
  BY <1>1, Invariance, PTL

(* An access counted by onAccessHandling has the kind README.md gives it   *)
(* for a binding its thread had during the access.                         *)
THEOREM AccessIsClassified == Spec => []AccessClassified
<1>1. IInv => AccessClassified
  <2> SUFFICES ASSUME IInv, NEW t \in Thread, pc[t] = "counted"
               PROVE  /\ Classified(t)
                      /\ \A n \in Nodes(t) :
                             Nodes(t) = {n} => access[t].row = n /\ access[t].dist = n
    BY DEF AccessClassified, Classified, Nodes
  <2>1. Covered(t)
    BY DEF IInv, InHook, SeenCovers, AccessLabel
  <2> QED
    BY <2>1 DEF Covered
<1> QED
  BY <1>1, Invariance, PTL

=============================================================================
