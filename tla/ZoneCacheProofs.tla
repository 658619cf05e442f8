--------------------------- MODULE ZoneCacheProofs ---------------------------
(***************************************************************************)
(* Theorems about ZoneCache for every set of nodes and zones and every     *)
(* finite set of pods.                                                     *)
(***************************************************************************)
EXTENDS ZoneCache, FunctionTheorems, FiniteSetTheorems, TLAPS

-------------------------------------------------------------------------------
(* The lookup.                                                             *)

\* A lookup over a set of nodes counts at most as many zones as there are pods.
LEMMA ZonesAtMostPods ==
  ASSUME TypeOK
  PROVE  Cardinality({GetNodeZone(n) : n \in NodesInUse}) \in Counts
<1> DEFINE Scheduled == {p \in Pods : podNode[p] # ""}
           ZoneOf    == [p \in Scheduled |-> GetNodeZone(podNode[p])]
           Found     == {GetNodeZone(n) : n \in NodesInUse}
<1>1. IsFiniteSet(Pods)
  BY ZoneCacheAssumption
<1>2. /\ IsFiniteSet(Scheduled) /\ Cardinality(Scheduled) <= Cardinality(Pods)
      /\ Cardinality(Scheduled) \in Nat /\ Cardinality(Pods) \in Nat
  <2>1. Scheduled \in SUBSET Pods
    OBVIOUS
  <2> HIDE DEF Scheduled
  <2> QED BY <1>1, <2>1, FS_Subset, FS_CardinalityType
<1>3. \A zone \in Found : \E p \in Scheduled : ZoneOf[p] = zone
  BY DEF NodesInUse
<1>4. \A p \in Scheduled : ZoneOf[p] \in Found
  BY DEF NodesInUse
<1>5. ZoneOf \in Surjection(Scheduled, Found)
  BY <1>3, <1>4 DEF Surjection
<1>6. IsFiniteSet(Found) /\ Cardinality(Found) <= Cardinality(Scheduled)
  <2> HIDE DEF Scheduled, Found, ZoneOf
  <2> QED BY <1>2, <1>5, FS_Surjection
<1>7. Cardinality(Found) \in Nat
  <2> HIDE DEF Found
  <2> QED BY <1>6, FS_CardinalityType
<1>8. Cardinality(Found) \in 0..Cardinality(Pods)
  <2> HIDE DEF Scheduled, Found
  <2> QED BY <1>2, <1>6, <1>7
<1> QED BY <1>8 DEF Counts

\* Only zones of nodes in use get into the cache.
LEMMA RememberedZones ==
  ASSUME TypeOK, NEW nodes \in SUBSET (NodesInUse \ Undetermined), Remember(nodes)
  PROVE  /\ zoneCache' \in [Nodes -> Zones \cup {""}]
         /\ \A n \in Nodes : \/ zoneCache'[n] = zoneCache[n]
                             \/ zoneCache'[n] = nodeZone[n] /\ nodeZone[n] \in Zones
<1>1. \A n \in nodes : GetNodeZone(n) \in Zones
  BY DEF Undetermined
<1>2. \A n \in Nodes : zoneCache'[n] = IF n \in nodes THEN GetNodeZone(n) ELSE zoneCache[n]
  BY DEF Remember
<1>3. zoneCache' \in [Nodes -> Zones \cup {""}]
  BY <1>1 DEF Remember, TypeOK
<1> QED BY <1>1, <1>2, <1>3 DEF GetNodeZone

-------------------------------------------------------------------------------
(* Every variable keeps its type.                                          *)

LEMMA NoZones == 0 \in Counts
<1>1. Cardinality(Pods) \in Nat
  BY ZoneCacheAssumption, FS_CardinalityType
<1> QED BY <1>1 DEF Counts

\* What a lookup returns is an error or a count.
LEMMA FoundType ==
  ASSUME NEW error \in {"", "unlabelled", "absent"}, NEW zones \in Counts
  PROVE  [error |-> error, zones |-> zones]
           \in [error : {"", "unlabelled", "absent"}, zones : Counts]
OBVIOUS

LEMMA InitType == Init => TypeOK
<1> SUFFICES ASSUME Init PROVE TypeOK
  OBVIOUS
<1>1. found \in [error : {"", "unlabelled", "absent"}, zones : Counts]
  BY NoZones, FoundType DEF Init
<1> QED BY <1>1 DEF Init, TypeOK

LEMMA LookupType ==
  ASSUME TypeOK, GetNumberOfAvailabilityZonesUsedByPods
  PROVE  TypeOK'
<1>1. NodesInUse \subseteq Nodes
  BY DEF TypeOK, NodesInUse
<1>2. zoneCache' \in [Nodes -> Zones \cup {""}]
  BY RememberedZones DEF GetNumberOfAvailabilityZonesUsedByPods
<1>3. \A n \in Undetermined : GetNodeZone(n) \in {"unlabelled", "absent"}
  BY <1>1 DEF TypeOK, GetNodeZone, Undetermined
<1>4. found' \in [error : {"", "unlabelled", "absent"}, zones : Counts]
  <2> DEFINE zones == Cardinality({GetNodeZone(n) : n \in NodesInUse})
  <2>1. \/ found' = [error |-> "", zones |-> zones]
        \/ \E n \in Undetermined : found' = [error |-> GetNodeZone(n), zones |-> 0]
    BY DEF GetNumberOfAvailabilityZonesUsedByPods
  <2>2. zones \in Counts
    BY ZonesAtMostPods
  <2> HIDE DEF zones
  <2> QED BY <1>3, <2>1, <2>2, NoZones, FoundType
<1> QED BY <1>2, <1>4 DEF GetNumberOfAvailabilityZonesUsedByPods, clusterVars, TypeOK

LEMMA NextType == TypeOK /\ [Next]_vars => TypeOK'
<1> SUFFICES ASSUME TypeOK, [Next]_vars PROVE TypeOK'
  OBVIOUS
<1> USE DEF clusterVars
<1>1. CASE GetNumberOfAvailabilityZonesUsedByPods
  BY <1>1, LookupType
<1>2. ASSUME NEW n \in Nodes, NEW z \in Zones, LabelNode(n, z) PROVE TypeOK'
  BY <1>2 DEF LabelNode, TypeOK
<1>3. ASSUME NEW n \in Nodes, AddUnlabelledNode(n) \/ RemoveNode(n) PROVE TypeOK'
  BY <1>3 DEF AddUnlabelledNode, RemoveNode, TypeOK
<1>4. ASSUME NEW p \in Pods, MovePod(p) PROVE TypeOK'
  BY <1>4 DEF MovePod, TypeOK
<1>5. CASE Restart \/ CalmDown
  BY <1>5 DEF Restart, CalmDown, TypeOK
<1>6. CASE UNCHANGED vars
  BY <1>6 DEF vars, TypeOK
<1> QED BY <1>1, <1>2, <1>3, <1>4, <1>5, <1>6 DEF Next

\* What the lookup returns and caches is of its kind for every number of pods:
\* zones, or the error of a node (GetNumberOfAvailabilityZonesUsedByPods).
THEOREM TypeCorrect == Spec => []TypeOK
<1> QED BY InitType, NextType, PTL DEF Spec

-------------------------------------------------------------------------------
(* What the cache says is true.                                            *)

\* The zone of a name that does not move is the one it has had from the first
\* label on, on the node and in the cache; CacheIsCurrent follows, and is not
\* inductive: a node may go and come back between two lookups.
HomeInv ==
  /\ TypeOK
  /\ \A n \in Nodes : nodeZone[n] \in Zones => nodeZone[n] = homeZone[n]
  /\ \A n \in Nodes : zoneCache[n] # "" => zoneCache[n] = homeZone[n]

\* For every set of nodes, if none of them changes its zone under its name: the
\* cache never contradicts the label of the node (GetNodeZone).
THEOREM CachedZonesAreCurrent ==
  ASSUME Movable = {}
  PROVE  Spec => []CacheIsCurrent
<1>1. Init => HomeInv
  <2> SUFFICES ASSUME Init PROVE HomeInv
    OBVIOUS
  <2>1. \A n \in Nodes : nodeZone[n] \notin Zones /\ zoneCache[n] = ""
    BY ZoneCacheAssumption DEF Init
  <2> QED BY <2>1, InitType DEF HomeInv
<1>2. HomeInv /\ [Next]_vars => HomeInv'
  <2> SUFFICES ASSUME HomeInv, [Next]_vars PROVE HomeInv'
    OBVIOUS
  <2>0. TypeOK /\ TypeOK'
    BY NextType DEF HomeInv
  <2> USE DEF clusterVars
  <2>1. CASE GetNumberOfAvailabilityZonesUsedByPods
    <3>1. \A n \in Nodes : \/ zoneCache'[n] = zoneCache[n]
                           \/ zoneCache'[n] = nodeZone[n] /\ nodeZone[n] \in Zones
      BY <2>0, <2>1, RememberedZones DEF GetNumberOfAvailabilityZonesUsedByPods
    <3> QED BY <2>0, <2>1, <3>1 DEF GetNumberOfAvailabilityZonesUsedByPods, HomeInv
  <2>2. ASSUME NEW m \in Nodes, NEW z \in Zones, LabelNode(m, z) PROVE HomeInv'
    \* The label is the first one, or the one the name has had.
    <3>1. homeZone[m] \in {"", z} /\ z # ""
      BY <2>2, ZoneCacheAssumption DEF LabelNode
    <3>2. \A n \in Nodes : /\ nodeZone'[n] = IF n = m THEN z ELSE nodeZone[n]
                           /\ homeZone'[n] = IF n = m THEN z ELSE homeZone[n]
      BY <2>0, <2>2 DEF LabelNode, TypeOK
    <3>3. zoneCache[m] # "" => homeZone[m] = z
      BY <3>1 DEF HomeInv
    <3> QED BY <2>0, <2>2, <3>2, <3>3 DEF LabelNode, HomeInv
  <2>3. ASSUME NEW m \in Nodes, AddUnlabelledNode(m) \/ RemoveNode(m) PROVE HomeInv'
    <3>1. \A n \in Nodes : nodeZone'[n] \in Zones => nodeZone'[n] = nodeZone[n]
      <4>1. "unlabelled" \notin Zones /\ "absent" \notin Zones
        BY ZoneCacheAssumption
      <4>2. \/ nodeZone' = [nodeZone EXCEPT ![m] = "unlabelled"]
            \/ nodeZone' = [nodeZone EXCEPT ![m] = "absent"]
        BY <2>3 DEF AddUnlabelledNode, RemoveNode
      <4>3. nodeZone \in [Nodes -> Zones \cup {"unlabelled", "absent"}]
        BY <2>0 DEF TypeOK
      <4> QED BY <4>1, <4>2, <4>3
    <3> QED BY <2>0, <2>3, <3>1 DEF AddUnlabelledNode, RemoveNode, HomeInv
  <2>4. ASSUME NEW p \in Pods, MovePod(p) PROVE HomeInv'
    BY <2>0, <2>4 DEF MovePod, HomeInv
  <2>5. CASE Restart \/ CalmDown
    BY <2>0, <2>5 DEF Restart, CalmDown, HomeInv
  <2>6. CASE UNCHANGED vars
    BY <2>0, <2>6 DEF vars, HomeInv
  <2> QED BY <2>1, <2>2, <2>3, <2>4, <2>5, <2>6 DEF Next
<1>3. HomeInv => CacheIsCurrent
  BY DEF HomeInv, CacheIsCurrent
<1> QED BY <1>1, <1>2, <1>3, PTL DEF Spec

===============================================================================
