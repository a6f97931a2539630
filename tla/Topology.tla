------------------------------ MODULE Topology ------------------------------
(***************************************************************************)
(* The NUMA topology numaprof works on (portability/NumaTopo.cpp): which   *)
(* CPU is on which node, and the summaries of a CPU mask and of a memory   *)
(* policy it computes for a thread.  Loading the map from /sys is not      *)
(* modelled: numaMap is a parameter.                                       *)
(***************************************************************************)
EXTENDS Integers, FiniteSets

CONSTANTS
    cpus,     \* NumaTopo::cpus: the CPUs are 0 .. cpus - 1
    numaMap,  \* the node of each CPU
    isMcdram, \* the nodes without a CPU
    distance  \* the distance between two nodes, renumbered from 0

Cpu == 0 .. cpus - 1

Node == DOMAIN distance

ASSUME TopologyAssumption ==
    /\ cpus \in Nat \ {0}
    /\ Node \subseteq Nat
    /\ numaMap \in [Cpu -> Node \ isMcdram]
    /\ isMcdram \subseteq Node
    /\ distance \in [Node -> [Node -> Nat]]

(* A thread that may run on several nodes is on node -1.                   *)
Unbound == -1

(* Nothing seen yet: the initial value of the summaries below.             *)
NoneSeen == -2

(* What the node of one more CPU changes in the summary of a mask.         *)
Joined(numa, node) ==
    IF numa = NoneSeen THEN node ELSE IF numa # node THEN Unbound ELSE numa

(* getCurrentNumaAffinity: the summary of the CPUs of mask, in order.      *)
getNumaAffinity(mask) ==
    LET upTo[n \in 0 .. cpus] ==
            IF n = 0 THEN NoneSeen
            ELSE IF n - 1 \in mask THEN Joined(upTo[n - 1], numaMap[n - 1])
                                   ELSE upTo[n - 1]
    IN  IF upTo[cpus] = NoneSeen THEN Unbound ELSE upTo[cpus]

(* What the summary stands for: the node that has every CPU of the mask.   *)
NodeOfMask(mask) ==
    IF \E n \in Node : mask # {} /\ \A c \in mask : numaMap[c] = n
    THEN CHOOSE n \in Node : \A c \in mask : numaMap[c] = n
    ELSE Unbound

(* staticComputeBindType.  The loop is over the nodes of the policy, but   *)
(* looks each of them up in numaMap, which is indexed by CPU.              *)
staticComputeBindType(mode, nodes) ==
    LET summary == {numaMap[n] : n \in nodes}
        single == Cardinality(summary) = 1
    IN  CASE mode \in {"default", "local"} ->
                 IF single THEN "BIND_ONE" ELSE "NO_BIND"
          [] mode = "interleave" -> "INTERLEAVE"
          [] mode \in {"preferred", "bind"} ->
                 IF single \/ nodes = {} THEN "BIND_ONE" ELSE "BIND_MULTIPLE"
          [] OTHER -> "NO_BIND"

(* loadParendNode: the first of the closest nodes that has CPUs.           *)
parentNode(node) ==
    LET hosts == Node \ isMcdram
        Closest(n) == \A m \in hosts : distance[node][n] <= distance[node][m]
    IN  CHOOSE n \in hosts :
            Closest(n) /\ \A m \in hosts : Closest(m) => n <= m

=============================================================================
