------------------------------- MODULE ZoneCache -------------------------------
(***************************************************************************)
(* How many availability zones the NATS pods use: GetNodeZone, with its    *)
(* cache, and GetNumberOfAvailabilityZonesUsedByPods of pkg/k8s/client.go. *)
(*                                                                         *)
(* Pods, nodes and their labels change at any time until the environment   *)
(* calms down.  The lookup reads from the informers without leaving the    *)
(* process, so it is one step; it goes over the pods in the order the      *)
(* informer lists them, which may be any.                                  *)
(***************************************************************************)
EXTENDS Naturals, FiniteSets

CONSTANTS
  Nodes,     \* names of nodes
  Zones,     \* zones a node may be in
  Pods,      \* the NATS pods
  Movable    \* the names under which a node of another zone may appear

ASSUME ZoneCacheAssumption ==
  /\ IsFiniteSet(Pods)
  /\ Movable \subseteq Nodes
  /\ Zones \cap {"", "unlabelled", "absent"} = {}

VARIABLES
  nodeZone,  \* the zone a node's label names, "unlabelled", or "absent"
  homeZone,  \* the zone a name has had so far, "" if none
  podNode,   \* the node a pod is on, "" if it is not scheduled
  zoneCache, \* KubeClient.nodesZoneCache, "" for a name it does not have
  found,     \* what the last lookup returned
  calm       \* nothing changes any more

clusterVars == <<nodeZone, homeZone, podNode>>
vars == <<clusterVars, zoneCache, found, calm>>

Init ==
  /\ nodeZone = [n \in Nodes |-> "absent"]
  /\ homeZone = [n \in Nodes |-> ""]
  /\ podNode = [p \in Pods |-> ""]
  /\ zoneCache = [n \in Nodes |-> ""]
  /\ found = [error |-> "", zones |-> 0]
  /\ calm = FALSE

-------------------------------------------------------------------------------
(* The lookup.                                                             *)

\* GetNodeZone: the cached zone, or else what the node says, which is an error
\* unless it is a zone.
GetNodeZone(n) == IF zoneCache[n] # "" THEN zoneCache[n] ELSE nodeZone[n]

NodesInUse == {podNode[p] : p \in Pods} \ {""}

Undetermined == {n \in NodesInUse : GetNodeZone(n) \notin Zones}

\* Mutant: whatever has been read is cached, from all nodes in use.
RememberAll(nodes) ==
  zoneCache' = [n \in Nodes |->
                  IF n \in NodesInUse THEN GetNodeZone(n) ELSE zoneCache[n]]

Remember(nodes) ==
  zoneCache' = [n \in Nodes |-> IF n \in nodes THEN GetNodeZone(n) ELSE zoneCache[n]]

\* The first node without a zone ends the lookup; the zones read before it are
\* in the cache by then.
GetNumberOfAvailabilityZonesUsedByPods ==
  /\ \/ /\ Undetermined = {}
        /\ Remember(NodesInUse)
        /\ found' = [error |-> "",
                     zones |-> Cardinality({GetNodeZone(n) : n \in NodesInUse})]
     \/ \E n \in Undetermined, before \in SUBSET (NodesInUse \ Undetermined) :
          /\ Remember(before)
          /\ found' = [error |-> GetNodeZone(n), zones |-> 0]
  /\ UNCHANGED <<clusterVars, calm>>

-------------------------------------------------------------------------------
(* The cluster.                                                            *)

\* A node appears, or gets its label; unless its name is movable, in the zone
\* the name has always been in.
LabelNode(n, z) ==
  /\ ~calm
  /\ n \in Movable \/ homeZone[n] \in {"", z}
  /\ nodeZone' = [nodeZone EXCEPT ![n] = z]
  /\ homeZone' = [homeZone EXCEPT ![n] = z]
  /\ UNCHANGED <<podNode, zoneCache, found, calm>>

AddUnlabelledNode(n) ==
  /\ ~calm /\ nodeZone[n] = "absent"
  /\ nodeZone' = [nodeZone EXCEPT ![n] = "unlabelled"]
  /\ UNCHANGED <<homeZone, podNode, zoneCache, found, calm>>

\* A node goes; pods bound to it stay for a while.
RemoveNode(n) ==
  /\ ~calm /\ nodeZone[n] # "absent"
  /\ nodeZone' = [nodeZone EXCEPT ![n] = "absent"]
  /\ UNCHANGED <<homeZone, podNode, zoneCache, found, calm>>

\* A pod is scheduled, or deleted and created again unscheduled.
MovePod(p) ==
  /\ ~calm
  /\ podNode' \in {[podNode EXCEPT ![p] = n] :
                     n \in {""} \cup {m \in Nodes : podNode[p] = "" /\ nodeZone[m] # "absent"}}
  /\ UNCHANGED <<nodeZone, homeZone, zoneCache, found, calm>>

Restart ==
  /\ ~calm
  /\ zoneCache' = [n \in Nodes |-> ""]
  /\ UNCHANGED <<clusterVars, found, calm>>

\* The cluster comes to rest with every pod on a node that has its label.
CalmDown ==
  /\ ~calm /\ calm' = TRUE
  /\ \A n \in NodesInUse : nodeZone[n] \in Zones
  /\ UNCHANGED <<clusterVars, zoneCache, found>>

Next ==
  \/ GetNumberOfAvailabilityZonesUsedByPods
  \/ \E n \in Nodes :
       \/ \E z \in Zones : LabelNode(n, z)
       \/ AddUnlabelledNode(n) \/ RemoveNode(n)
  \/ \E p \in Pods : MovePod(p)
  \/ Restart \/ CalmDown

\* The periodic resync brings the lookup about again and again.
Spec ==
  Init /\ [][Next]_vars /\ WF_vars(GetNumberOfAvailabilityZonesUsedByPods)

-------------------------------------------------------------------------------
(* Properties.                                                             *)

\* A lookup counts at most one zone for each pod.
Counts == 0..Cardinality(Pods)

\* Every variable holds a value of its kind: what the informers have on pods and
\* nodes, what GetNodeZone caches, and what the lookup returns.
TypeOK ==
  /\ nodeZone \in [Nodes -> Zones \cup {"unlabelled", "absent"}]
  /\ homeZone \in [Nodes -> Zones \cup {""}]
  /\ podNode \in [Pods -> Nodes \cup {""}]
  /\ zoneCache \in [Nodes -> Zones \cup {""}]
  /\ found \in [error : {"", "unlabelled", "absent"}, zones : Counts]
  /\ calm \in BOOLEAN

\* A cached zone is the zone of the node there now, though nodes come and go
\* and labels arrive late: what is missing is never cached as a zone.
CacheIsCurrent ==
  \A n \in Nodes : zoneCache[n] # "" /\ nodeZone[n] \in Zones => zoneCache[n] = nodeZone[n]

TrueCount ==
  found = [error |-> "", zones |-> Cardinality({nodeZone[n] : n \in NodesInUse})]

\* Once the cluster is at rest the lookup gets to the zones the pods are in and
\* stays there, whatever errors it met before: GetNodeZone "caches the zone
\* information of the node for a certain duration".
CountBecomesTrue == <>calm => <>[]TrueCount

===============================================================================
