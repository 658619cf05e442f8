------------------------- MODULE DeprovisionerProofs -------------------------
(***************************************************************************)
(* Theorems about Deprovisioner for every set of streams and claims, every *)
(* number of incarnations and every set of disruptions.                    *)
(***************************************************************************)
EXTENDS Deprovisioner, NatsStatusProofs

-------------------------------------------------------------------------------
(* Copies of the resource.                                                 *)

LEMMA GoneType ==
  ASSUME NEW uid \in Incarnations
  PROVE  Gone(uid) \in CRs
BY NewStatusType DEF Gone, CRs

\* What a freshly created resource is.
LEMMA GoneShape ==
  ASSUME NEW uid
  PROVE  /\ Gone(uid).uid = uid
         /\ [Gone(uid) EXCEPT !.exists = TRUE].uid = uid
BY DEF Gone

LEMMA WithStatusType ==
  ASSUME NEW copy \in CRs, NEW status \in Statuses
  PROVE  [copy EXCEPT !.status = status] \in CRs
BY DEF CRs

LEMMA ReportedStatusType ==
  ASSUME NEW ns \in Statuses
  PROVE  /\ ReadyStatus(ns) \in Statuses
         /\ WaitingStatus(ns) \in Statuses
         /\ FailedStatus(ns) \in Statuses
<1>1. \A st \in Statuses : [st EXCEPT !.zones = 0] \in Statuses
                           /\ [st EXCEPT !.zones = 1] \in Statuses
  <2> SUFFICES ASSUME NEW st \in Statuses, NEW z \in Nat
               PROVE  [st EXCEPT !.zones = z] \in Statuses
    OBVIOUS
  <2> QED BY DEF Statuses
<1>2. SetURL(SetStateReady(ns), ServiceURL) \in Statuses
  BY SettersType
<1>3. ReadyStatus(ns) \in Statuses
  BY <1>1, <1>2, UpdateConditionType
     DEF ReadyStatus, UpdateConditionAvailabilityZones, ConditionTypes, Reasons, Messages
<1>4. WaitingStatus(ns) \in Statuses
  BY <1>1, SettersType DEF WaitingStatus
<1>5. SetStateError(ns) \in Statuses
  BY SettersType
<1>6. FailedStatus(ns) \in Statuses
  BY <1>5, UpdateConditionType
     DEF FailedStatus, UpdateConditionAvailable, ConditionTypes, Reasons, Messages
<1> QED BY <1>3, <1>4, <1>6

LEMMA BlockedType ==
  ASSUME obj \in CRs,
         NEW message \in {StreamExistsErrorMsg, ConsumerExistsErrorMsg}
  PROVE  Blocked(message) \in CRs
<1> DEFINE st == UpdateConditionDeletion(SetStateWarning(obj.status), "False",
                   "DeletionError", message)
<1>1. obj.status \in Statuses
  BY DEF CRs
<1>2. SetStateWarning(obj.status) \in Statuses
  BY <1>1, SettersType
<1>3. st \in Statuses
  BY <1>2, UpdateConditionType
     DEF UpdateConditionDeletion, ConditionTypes, Reasons, Messages,
         StreamExistsErrorMsg, ConsumerExistsErrorMsg
<1> QED BY <1>3, WithStatusType DEF Blocked

-------------------------------------------------------------------------------
(* The pieces the actions are made of.                                     *)

\* The variables a pass leaves behind when it ends.
LEMMA EndPassType ==
  ASSUME TypeOK, NEW requeue \in BOOLEAN, EndPass(requeue)
  PROVE  /\ pc' \in Steps /\ obj' \in CRs /\ objFresh' \in BOOLEAN
         /\ todo' \subseteq OwnPVCs /\ held' \subseteq {"customer", "consumer"}
         /\ queued' \in BOOLEAN
<1>1. 0 \in Incarnations
  BY DeprovisionerAssumption DEF Incarnations
<1> QED BY <1>1, GoneType DEF EndPass, TypeOK, Steps

LEMMA SyncStatusType ==
  ASSUME TypeOK, NEW status \in Statuses, NEW requeue \in BOOLEAN,
         SyncStatus(status, requeue)
  PROVE  /\ cr' \in CRs /\ fresh' \in BOOLEAN
         /\ pc' \in Steps /\ obj' \in CRs /\ objFresh' \in BOOLEAN
         /\ todo' \subseteq OwnPVCs /\ held' \subseteq {"customer", "consumer"}
         /\ queued' \in BOOLEAN
<1>1. EndPass(requeue) \/ EndPass(TRUE)
  BY DEF SyncStatus
<1>2. [cr EXCEPT !.status = status] \in CRs
  BY WithStatusType DEF TypeOK
<1>3. cr' \in CRs /\ fresh' \in BOOLEAN
  BY <1>2 DEF SyncStatus, Store, TypeOK
<1> QED BY <1>1, <1>3, EndPassType

LEMMA UpdateFinalizerType ==
  ASSUME TypeOK, NEW newCr \in CRs, UpdateFinalizer(newCr)
  PROVE  /\ cr' \in CRs /\ fresh' \in BOOLEAN
         /\ pc' \in Steps /\ obj' \in CRs /\ objFresh' \in BOOLEAN
         /\ todo' \subseteq OwnPVCs /\ held' \subseteq {"customer", "consumer"}
         /\ queued' \in BOOLEAN
<1>1. EndPass(FALSE) \/ EndPass(TRUE)
  BY DEF UpdateFinalizer
<1>2. cr' \in CRs /\ fresh' \in BOOLEAN
  BY DEF UpdateFinalizer, Store, TypeOK
<1> QED BY <1>1, <1>2, EndPassType

-------------------------------------------------------------------------------
(* Every variable keeps its type in every step of the specification.       *)

LEMMA InitType == Init => TypeOK
<1> SUFFICES ASSUME Init PROVE TypeOK
  OBVIOUS
<1>1. 0 \in Incarnations
  BY DeprovisionerAssumption DEF Incarnations
<1> QED BY <1>1, GoneType
     DEF Init, TypeOK, ClientInitial, ClientTypeOK, ConnStates, Steps

\* TypeOK is inductive as it stands.
LEMMA NextType == TypeOK /\ [Next]_vars => TypeOK'
<1> SUFFICES ASSUME TypeOK, [Next]_vars PROVE TypeOK'
  OBVIOUS
<1> USE DEF serverVars, clientVars, apiVars, passVars, volumeVars, restVars
<1>1. CASE StartPass
  <2>1. \A copy \in CRs : copy.status \in Statuses
    BY DEF CRs
  <2>2. [cache EXCEPT !.status = SetStateDeleting(@)] \in CRs
    BY <2>1, SettersType, WithStatusType DEF TypeOK
  <2>3. [cache EXCEPT !.status = Initialize(@)] \in CRs
    BY <2>1, SettersType, WithStatusType DEF TypeOK
  <2>4. Holding \subseteq {"customer", "consumer"}
    BY DEF Holding
  <2>5. pc' \in Steps /\ obj' \in CRs /\ objFresh' \in BOOLEAN
        /\ held' \subseteq {"customer", "consumer"} /\ queued' \in BOOLEAN
        /\ gauges' \subseteq {"clusterSize", "zones"}
    BY <1>1, <2>2, <2>3, <2>4
       DEF StartPass, BeginDeletion, BeginProvisioning, TypeOK, Steps, DeletionSteps
  <2> QED BY <1>1, <2>5 DEF StartPass, TypeOK, ClientTypeOK
<1>2. CASE AddFinalizer
  <2>1. [cr EXCEPT !.finalizer = TRUE] \in CRs
    BY DEF TypeOK, CRs
  <2> QED BY <1>2, <2>1, UpdateFinalizerType DEF AddFinalizer, TypeOK, ClientTypeOK
<1>3. CASE Deploy
  <2>1. obj.status \in Statuses /\ obj.uid \in Incarnations
    BY DEF TypeOK, CRs
  <2>2. /\ [obj EXCEPT !.status = ReadyStatus(obj.status)] \in CRs
        /\ [obj EXCEPT !.status = WaitingStatus(obj.status)] \in CRs
        /\ [obj EXCEPT !.status = FailedStatus(@)] \in CRs
    BY <2>1, ReportedStatusType, WithStatusType DEF TypeOK
  <2>3. obj' \in CRs /\ gauges' \subseteq {"clusterSize", "zones"}
    BY <1>3, <2>2 DEF Deploy, TypeOK
  <2> QED BY <1>3, <2>1, <2>3 DEF Deploy, OwnerReference, TypeOK, ClientTypeOK, Steps
<1>4. CASE Report
  <2>1. obj.status \in Statuses
    BY DEF TypeOK, CRs
  <2> DEFINE requeue == obj.status.state \in {"Error", "Processing"}
  <2>2. requeue \in BOOLEAN
    OBVIOUS
  <2>3. SyncStatus(obj.status, requeue)
    BY <1>4 DEF Report
  <2> HIDE DEF requeue
  <2> QED BY <1>4, <2>1, <2>2, <2>3, SyncStatusType DEF Report, TypeOK, ClientTypeOK
<1>5. CASE Connect
  <2>1. client' \in BOOLEAN /\ conn' \in ConnStates /\ lost' \in BOOLEAN
    BY <1>5 DEF Connect, ClientInit, ClientInitFails, TypeOK, ClientTypeOK, ConnStates
  <2>2. pc' \in Steps /\ held' \subseteq {"customer", "consumer"}
    BY <1>5 DEF Connect, TypeOK, Steps, DeletionSteps, PurgeSteps
  <2> QED BY <1>5, <2>1, <2>2 DEF Connect, TypeOK, ClientTypeOK
<1>6. CASE CustomerStreamExists
  <2>1. Blocked(StreamExistsErrorMsg) \in CRs
    BY BlockedType DEF TypeOK
  <2>2. pc' \in Steps /\ obj' \in CRs /\ held' \subseteq {"customer", "consumer"}
    BY <1>6, <2>1 DEF CustomerStreamExists, Query, CheckCustomerStreams,
                      TypeOK, Steps, DeletionSteps, PurgeSteps
  <2> QED BY <1>6, <2>2 DEF CustomerStreamExists, Query, TypeOK, ClientTypeOK
<1>7. CASE SapStreamExists
  <2>1. pc' \in Steps /\ obj' \in CRs /\ held' \subseteq {"customer", "consumer"}
    BY <1>7 DEF SapStreamExists, Query, CheckSapStream,
                      TypeOK, Steps, DeletionSteps, PurgeSteps
  <2> QED BY <1>7, <2>1 DEF SapStreamExists, Query, TypeOK, ClientTypeOK
<1>8. CASE SapConsumerExists
  <2>1. Blocked(ConsumerExistsErrorMsg) \in CRs
    BY BlockedType DEF TypeOK
  <2>2. pc' \in Steps /\ obj' \in CRs /\ held' \subseteq {"customer", "consumer"}
    BY <1>8, <2>1 DEF SapConsumerExists, Query, CheckConsumers,
                      TypeOK, Steps, DeletionSteps, PurgeSteps
  <2> QED BY <1>8, <2>2 DEF SapConsumerExists, Query, TypeOK, ClientTypeOK
<1>9. CASE Block
  <2>1. obj.status \in Statuses
    BY DEF TypeOK, CRs
  <2> QED BY <1>9, <2>1, SyncStatusType DEF Block, TypeOK, ClientTypeOK
<1>10. CASE ListPVCs
  <2>1. CASE EndPass(TRUE)
    BY <1>10, <2>1, EndPassType DEF ListPVCs, TypeOK, ClientTypeOK
  <2>2. CASE ~EndPass(TRUE)
    BY <1>10, <2>2 DEF ListPVCs, TypeOK, ClientTypeOK, Steps, DeletionSteps, PurgeSteps
  <2> QED BY <2>1, <2>2
<1>11. ASSUME NEW p \in OwnPVCs, DeletePVC(p) PROVE TypeOK'
  <2>1. CASE EndPass(TRUE) \/ EndPass(FALSE)
    BY <1>11, <2>1, EndPassType DEF DeletePVC, TypeOK, ClientTypeOK
  <2>2. CASE ~(EndPass(TRUE) \/ EndPass(FALSE))
    BY <1>11, <2>2 DEF DeletePVC, TypeOK, ClientTypeOK
  <2> QED BY <2>1, <2>2
<1>12. CASE CloseNatsClient
  BY <1>12 DEF CloseNatsClient, CloseClient, TypeOK, ClientTypeOK, ConnStates,
               Steps, DeletionSteps, PurgeSteps
<1>13. CASE RemoveFinalizer
  <2>1. Gone(cr.uid) \in CRs
    BY GoneType DEF TypeOK, CRs
  <2> QED BY <1>13, <2>1, UpdateFinalizerType DEF RemoveFinalizer, TypeOK, ClientTypeOK
<1>14. CASE CacheSync
  BY <1>14 DEF CacheSync, TypeOK, ClientTypeOK
<1>15. CASE PVCSync
  BY <1>15 DEF PVCSync, Existing, TypeOK, ClientTypeOK
<1>16. CASE Event
  BY <1>16 DEF Event, Enqueue, TypeOK, ClientTypeOK
<1>17. CASE CreateCR
  <2>1. cr.uid + 1 \in Incarnations
    BY <1>17, DeprovisionerAssumption DEF CreateCR, TypeOK, CRs, Incarnations
  <2>2. \A copy \in CRs : [copy EXCEPT !.exists = TRUE] \in CRs
    BY DEF CRs
  <2>3. [Gone(cr.uid + 1) EXCEPT !.exists = TRUE] \in CRs
    BY <2>1, <2>2, GoneType
  <2> QED BY <1>17, <2>3 DEF CreateCR, Store, TypeOK, ClientTypeOK
<1>18. CASE DeleteCR
  <2>1. [cr EXCEPT !.deleting = TRUE] \in CRs /\ Gone(cr.uid) \in CRs
    BY GoneType DEF TypeOK, CRs
  <2> QED BY <1>18, <2>1 DEF DeleteCR, Store, TypeOK, ClientTypeOK
<1>19. CASE TouchCR
  BY <1>19 DEF TouchCR, TypeOK, ClientTypeOK
<1>20. CASE CollectGarbage \/ RemoveResources
  <2>1. Undeploy
    BY <1>20 DEF CollectGarbage, RemoveResources
  <2>2. 0 \in Incarnations
    BY DeprovisionerAssumption DEF Incarnations
  <2> QED BY <2>1, <2>2 DEF Undeploy, TypeOK, ClientTypeOK
<1>21. ASSUME NEW p \in OwnPVCs, ProvisionPVC(p) \/ ReleasePVC(p) PROVE TypeOK'
  BY <1>21 DEF ProvisionPVC, ReleasePVC, TypeOK, ClientTypeOK
<1>22. CASE ServerStep
  <2>1. ClientTypeOK'
    BY <1>22 DEF ServerStep, ServerActions, ServerUp, ServerDown, CreateStream,
                 DeleteStream, ChangeConsumers, TypeOK, ClientTypeOK
  <2> QED BY <1>22, <2>1 DEF ServerStep, TypeOK
<1>23. CASE ConnectionLost
  BY <1>23 DEF ConnectionLost, ConnectionDrops, TypeOK, ClientTypeOK, ConnStates
<1>24. CASE ConnectionStep
  BY <1>24 DEF ConnectionStep, ConnectionRecovers, ConnectionGivesUp, LostGivesUp,
               TypeOK, ClientTypeOK, ConnStates
<1>25. CASE Crash
  <2>1. 0 \in Incarnations /\ cr.exists \in BOOLEAN
    BY DeprovisionerAssumption DEF Incarnations, TypeOK, CRs
  <2> QED BY <1>25, <2>1, GoneType
       DEF Crash, Existing, TypeOK, ClientTypeOK, ConnStates, Steps
<1>26. CASE CalmDown
  BY <1>26 DEF CalmDown, TypeOK, ClientTypeOK
<1>27. CASE UNCHANGED vars
  BY <1>27 DEF vars, TypeOK, ClientTypeOK
<1> QED
  BY <1>1, <1>2, <1>3, <1>4, <1>5, <1>6, <1>7, <1>8, <1>9, <1>10, <1>11,
     <1>12, <1>13, <1>14, <1>15, <1>16, <1>17, <1>18, <1>19, <1>20, <1>21,
     <1>22, <1>23, <1>24, <1>25, <1>26, <1>27
  DEF Next, Work, Environment

\* The variables hold values of their kinds in every reachable state.
THEOREM TypeCorrect == Spec => []TypeOK
<1> QED BY InitType, NextType, PTL DEF Spec

-------------------------------------------------------------------------------
(* A resource whose objects are deployed carries the finalizer.            *)

\* What an older copy says about the finalizer of the same incarnation still
\* holds, and no copy is ahead of the API server.
CopyBehind(copy) ==
  /\ copy.uid <= cr.uid
  /\ cr.exists /\ copy.uid = cr.uid /\ copy.finalizer => cr.finalizer

\* DeployedIsFinalized is not inductive: Deploy works from obj, which StartPass
\* took from the cache, and both may be old.
FinalizerInv ==
  /\ TypeOK
  /\ CopyBehind(cache) /\ CopyBehind(obj)
  /\ cr.exists => cr.uid > 0
  /\ deployed <= cr.uid
  /\ DeployedIsFinalized

\* A step that leaves cr or changes only its status, its deletion mark or, from
\* FALSE to TRUE, its finalizer, or removes it, keeps every copy behind.
LEMMA CopyStaysBehind ==
  ASSUME TypeOK, NEW copy \in CRs, CopyBehind(copy),
         cr' \in CRs, cr'.uid = cr.uid,
         cr'.exists => cr.exists /\ (cr.finalizer => cr'.finalizer)
  PROVE  /\ copy.uid <= cr'.uid
         /\ cr'.exists /\ copy.uid = cr'.uid /\ copy.finalizer => cr'.finalizer
BY DEF CopyBehind

LEMMA FinalizerInvInit == Init => FinalizerInv
<1> SUFFICES ASSUME Init PROVE FinalizerInv
  OBVIOUS
<1>1. TypeOK
  BY InitType
<1> QED BY <1>1 DEF Init, FinalizerInv, CopyBehind, DeployedIsFinalized, Gone

LEMMA FinalizerInvNext == FinalizerInv /\ [Next]_vars => FinalizerInv'
<1> SUFFICES ASSUME FinalizerInv, [Next]_vars PROVE FinalizerInv'
  OBVIOUS
<1>0. TypeOK /\ TypeOK'
  BY NextType DEF FinalizerInv
<1>a. /\ cr \in CRs /\ cache \in CRs /\ obj \in CRs
      /\ cr' \in CRs /\ cache' \in CRs /\ obj' \in CRs
      /\ cr.uid \in Nat /\ cache.uid \in Nat /\ obj.uid \in Nat /\ deployed \in Nat
      /\ cr'.uid \in Nat
  BY <1>0 DEF TypeOK, CRs, Incarnations
<1>b. /\ [cr EXCEPT !.finalizer = TRUE].uid = cr.uid
      /\ [cr EXCEPT !.finalizer = TRUE].exists = cr.exists
      /\ [cr EXCEPT !.finalizer = TRUE].finalizer = TRUE
      /\ [cr EXCEPT !.deleting = TRUE].uid = cr.uid
      /\ [cr EXCEPT !.deleting = TRUE].exists = cr.exists
      /\ [cr EXCEPT !.deleting = TRUE].finalizer = cr.finalizer
      /\ \A st : /\ [cr EXCEPT !.status = st].uid = cr.uid
                 /\ [cr EXCEPT !.status = st].exists = cr.exists
                 /\ [cr EXCEPT !.status = st].finalizer = cr.finalizer
  BY <1>a DEF CRs
<1>c. \A u : /\ Gone(u).uid = u /\ Gone(u).exists = FALSE
             /\ Gone(u).finalizer = FALSE
  BY DEF Gone
<1> USE DEF serverVars, clientVars, apiVars, passVars, volumeVars, restVars
\* The steps that leave cr and deployed and give obj nothing new.
<1>1. ASSUME cr'.uid = cr.uid,
             cr'.exists => cr.exists /\ (cr.finalizer => cr'.finalizer),
             deployed' = deployed,
             cache' = cache \/ cache' = cr',
             \/ obj' = Gone(0)
             \/ obj'.uid = obj.uid /\ obj'.finalizer = obj.finalizer
             \/ obj'.uid = cache.uid /\ obj'.finalizer = cache.finalizer
      PROVE  FinalizerInv'
  <2>1. CopyBehind(cache)'
    BY <1>0, <1>1, <1>a, CopyStaysBehind DEF FinalizerInv, CopyBehind
  <2>2. CopyBehind(obj)'
    BY <1>0, <1>1, <1>a, <1>c, CopyStaysBehind DEF FinalizerInv, CopyBehind
  <2>3. cr'.exists => cr'.uid > 0
    BY <1>1 DEF FinalizerInv
  <2>4. deployed' <= cr'.uid /\ DeployedIsFinalized'
    BY <1>1 DEF FinalizerInv, DeployedIsFinalized
  <2> QED BY <1>0, <2>1, <2>2, <2>3, <2>4 DEF FinalizerInv
<1>2. CASE StartPass
  <2>1. \/ obj' = obj
        \/ obj' = [cache EXCEPT !.status = SetStateDeleting(@)]
        \/ obj' = [cache EXCEPT !.status = Initialize(@)]
    BY <1>2 DEF StartPass, BeginDeletion, BeginProvisioning
  <2>2. \/ obj'.uid = obj.uid /\ obj'.finalizer = obj.finalizer
        \/ obj'.uid = cache.uid /\ obj'.finalizer = cache.finalizer
    BY <2>1, <1>a DEF CRs
  <2> QED BY <1>1, <1>2, <2>2 DEF StartPass
<1>3. CASE AddFinalizer
  BY <1>1, <1>3, <1>b DEF AddFinalizer, UpdateFinalizer, Store, EndPass
<1>4. CASE Deploy
  <2>1. obj'.uid = obj.uid /\ obj'.finalizer = obj.finalizer
    BY <1>4, <1>a DEF Deploy, OwnerReference, CRs
  <2>2. CopyBehind(cache)' /\ CopyBehind(obj)' /\ (cr'.exists => cr'.uid > 0)
    BY <1>4, <2>1 DEF Deploy, OwnerReference, FinalizerInv, CopyBehind
  <2>3. deployed' <= cr'.uid /\ DeployedIsFinalized'
    BY <1>4 DEF Deploy, OwnerReference, FinalizerInv, CopyBehind, DeployedIsFinalized
  <2> QED BY <1>0, <2>2, <2>3 DEF FinalizerInv
<1>5. ASSUME NEW st, NEW r, SyncStatus(st, r), cache' = cache, deployed' = deployed
      PROVE  FinalizerInv'
  BY <1>1, <1>5, <1>b DEF SyncStatus, Store, EndPass
<1>6. CASE Report \/ Block
  BY <1>5, <1>6 DEF Report, Block
<1>7. CASE Connect
  BY <1>1, <1>7 DEF Connect
<1>8. CASE CustomerStreamExists \/ SapStreamExists \/ SapConsumerExists
  <2>1. \A message : /\ Blocked(message).uid = obj.uid
                     /\ Blocked(message).finalizer = obj.finalizer
    BY <1>a DEF Blocked, CRs
  <2>2. obj'.uid = obj.uid /\ obj'.finalizer = obj.finalizer
    BY <1>8, <2>1 DEF CustomerStreamExists, SapStreamExists, SapConsumerExists,
                      Query, CheckCustomerStreams, CheckSapStream, CheckConsumers
  <2>3. cr' = cr /\ cache' = cache /\ deployed' = deployed
    BY <1>8 DEF CustomerStreamExists, SapStreamExists, SapConsumerExists, Query
  <2> QED BY <1>1, <2>2, <2>3
<1>9. CASE ListPVCs
  BY <1>1, <1>9 DEF ListPVCs, EndPass
<1>10. ASSUME NEW p \in OwnPVCs, DeletePVC(p) PROVE FinalizerInv'
  BY <1>1, <1>10 DEF DeletePVC, EndPass
<1>11. CASE CloseNatsClient
  BY <1>1, <1>11 DEF CloseNatsClient
<1>12. CASE RemoveFinalizer
  BY <1>1, <1>12, <1>c DEF RemoveFinalizer, UpdateFinalizer, Store, EndPass
<1>13. CASE CacheSync \/ PVCSync \/ Event \/ TouchCR \/ CalmDown
  BY <1>1, <1>13 DEF CacheSync, PVCSync, Event, Enqueue, TouchCR, CalmDown
<1>14. CASE CreateCR
  <2>1. cr'.uid = cr.uid + 1
    BY <1>14, GoneShape DEF CreateCR, Store
  <2>2. CopyBehind(cache)' /\ CopyBehind(obj)'
    BY <1>14, <1>a, <2>1 DEF CreateCR, FinalizerInv, CopyBehind
  <2>3. cr'.uid > 0 /\ deployed' <= cr'.uid /\ deployed' # cr'.uid
    BY <1>14, <1>a, <2>1 DEF CreateCR, FinalizerInv
  <2> QED BY <1>0, <2>2, <2>3 DEF FinalizerInv, DeployedIsFinalized
<1>15. CASE DeleteCR
  BY <1>1, <1>15, <1>b, <1>c DEF DeleteCR, Store
<1>16. CASE CollectGarbage \/ RemoveResources
  <2>1. Undeploy
    BY <1>16 DEF CollectGarbage, RemoveResources
  <2>2. CopyBehind(cache)' /\ CopyBehind(obj)' /\ (cr'.exists => cr'.uid > 0)
    BY <2>1 DEF Undeploy, FinalizerInv, CopyBehind
  <2>3. deployed' <= cr'.uid /\ DeployedIsFinalized'
    BY <2>1, <1>a DEF Undeploy, FinalizerInv, DeployedIsFinalized
  <2> QED BY <1>0, <2>2, <2>3 DEF FinalizerInv
<1>17. ASSUME NEW p \in OwnPVCs, ProvisionPVC(p) \/ ReleasePVC(p) PROVE FinalizerInv'
  BY <1>1, <1>17 DEF ProvisionPVC, ReleasePVC
<1>18. CASE ServerStep \/ ConnectionLost \/ ConnectionStep
  BY <1>1, <1>18 DEF ServerStep, ConnectionLost, ConnectionStep
<1>19. CASE Crash
  BY <1>1, <1>19 DEF Crash
<1>20. CASE UNCHANGED vars
  BY <1>1, <1>20 DEF vars
<1> QED
  BY <1>2, <1>3, <1>4, <1>6, <1>7, <1>8, <1>9, <1>10, <1>11, <1>12, <1>13,
     <1>14, <1>15, <1>16, <1>17, <1>18, <1>19, <1>20
  DEF Next, Work, Environment

\* For every number of incarnations and every disruption: the objects of a
\* resource that exists are under its finalizer.
THEOREM FinalizerGuardsDeployment == Spec => []DeployedIsFinalized
<1>1. FinalizerInv => DeployedIsFinalized
  BY DEF FinalizerInv
<1> QED BY FinalizerInvInit, FinalizerInvNext, <1>1, PTL DEF Spec

-------------------------------------------------------------------------------
(* Data in use stops the deletion, if listings are complete.               *)

\* DataInUseIsKept at each step of the pass: held is what a complete answer
\* would still show, and each check that did not block has emptied its share.
UseInv ==
  /\ TypeOK
  /\ held \subseteq Holding
  /\ pc \in {"streams", "sapStream", "consumers"} /\ held # {} => conn = "connected"
  /\ pc \in {"sapStream", "consumers"} => "customer" \notin held
  /\ DataInUseIsKept

\* Steps that leave the server alone leave what holds the data alone.
LEMMA HoldingUnchanged ==
  ASSUME up' = up, streams' = streams, consumers' = consumers
  PROVE  Holding' = Holding
BY DEF Holding, CustomerStreamHeld, SapConsumerHeld

LEMMA UseInvInit == Init => UseInv
BY InitType DEF Init, UseInv, DataInUseIsKept, PurgeSteps

LEMMA UseInvNext ==
  ASSUME ListingCanEndEarly = FALSE
  PROVE  UseInv /\ [Next]_vars => UseInv'
<1>a. ListingCanEndEarly = FALSE
  OBVIOUS
<1> SUFFICES ASSUME UseInv, [Next]_vars PROVE UseInv'
  OBVIOUS
<1>0. TypeOK /\ TypeOK'
  BY NextType DEF UseInv
<1> USE DEF serverVars, clientVars, apiVars, passVars, volumeVars, restVars
\* Steps after which held is empty.
<1>1. ASSUME held' = {} PROVE UseInv'
  BY <1>0, <1>1 DEF UseInv, DataInUseIsKept
\* Steps that leave the server, the pass and what it has seen alone.
<1>2. ASSUME up' = up, streams' = streams, consumers' = consumers,
             held' = held, pc' = pc,
             conn = "connected" => conn' = "connected"
      PROVE  UseInv'
  BY <1>0, <1>2, HoldingUnchanged DEF UseInv, DataInUseIsKept
<1>3. CASE StartPass
  <2>1. Holding' = Holding
    BY <1>3, HoldingUnchanged DEF StartPass
  <2>2. CASE pc' = "idle"
    BY <1>0, <1>3, <2>1, <2>2 DEF StartPass, BeginDeletion, BeginProvisioning,
                                  UseInv, DataInUseIsKept, PurgeSteps
  <2>3. CASE pc' # "idle"
    <3>1. pc' \in {"connect", "provision"}
      BY <1>3, <2>3 DEF StartPass, BeginDeletion, BeginProvisioning
    <3>2. held' = Holding \/ held' = held
      BY <1>3 DEF StartPass, BeginDeletion, BeginProvisioning
    <3> QED BY <1>0, <2>1, <3>1, <3>2 DEF UseInv, DataInUseIsKept, PurgeSteps
  <2> QED BY <2>2, <2>3
<1>4. ASSUME NEW r, EndPass(r) PROVE UseInv'
  BY <1>1, <1>4 DEF EndPass
<1>5. CASE AddFinalizer \/ RemoveFinalizer
  BY <1>4, <1>5 DEF AddFinalizer, RemoveFinalizer, UpdateFinalizer
<1>6. CASE Report \/ Block
  BY <1>4, <1>6 DEF Report, Block, SyncStatus
<1>7. CASE Deploy
  <2>1. Holding' = Holding
    BY <1>7, HoldingUnchanged DEF Deploy
  <2> QED BY <1>0, <1>7, <2>1 DEF Deploy, UseInv, DataInUseIsKept, PurgeSteps
<1>8. CASE Connect
  <2>1. CASE held' = {}
    BY <1>1, <2>1
  <2>2. CASE held' # {}
    <3>1. conn' = "connected" /\ pc' = "streams" /\ held' = held
      BY <1>8, <2>2 DEF Connect, ClientInit
    <3>2. Holding' = Holding
      BY <1>8, HoldingUnchanged DEF Connect
    <3> QED BY <1>0, <3>1, <3>2 DEF UseInv, DataInUseIsKept, PurgeSteps
  <2> QED BY <2>1, <2>2
\* A query that leaves anything in held got the complete answer.
<1>9. ASSUME NEW step \in {"streams", "sapStream", "consumers"}, pc = step, held # {}
      PROVE  Listings = {streams} /\ ConsumerAnswers = {SapConsumerHeld}
  <2>1. Reachable
    BY <1>9 DEF UseInv, Holding, Reachable
  <2>2. Listings = {streams}
    BY <1>a, <2>1 DEF Listings
  <2>3. ConsumerAnswers = {SapConsumerHeld /\ Reachable}
    BY <1>a DEF ConsumerAnswers
  <2>4. (SapConsumerHeld /\ Reachable) = SapConsumerHeld
    <3>1. SapConsumerHeld \in BOOLEAN
      BY <1>0 DEF SapConsumerHeld, TypeOK, ClientTypeOK
    <3> QED BY <2>1, <3>1
  <2> QED BY <2>2, <2>3, <2>4
<1>10. ASSUME CustomerStreamExists \/ SapStreamExists \/ SapConsumerExists
       PROVE  Holding' = Holding /\ conn' = conn /\ held' \in {held, {}}
  <2>1. up' = up /\ streams' = streams /\ consumers' = consumers
    BY <1>10 DEF CustomerStreamExists, SapStreamExists, SapConsumerExists, Query
  <2>2. conn' = conn /\ held' \in {held, {}}
    BY <1>10 DEF CustomerStreamExists, SapStreamExists, SapConsumerExists, Query
  <2> QED BY <2>1, <2>2, HoldingUnchanged
<1>11. CASE CustomerStreamExists
  <2>1. CASE held' = {}
    BY <1>1, <2>1
  <2>2. CASE held' # {}
    <3>1. pc = "streams" /\ held' = held /\ CheckCustomerStreams(streams)
      BY <1>9, <1>10, <1>11, <2>2 DEF CustomerStreamExists, Query
    <3>2. CASE "customer" \in held
      <4>1. pc' = "block"
        BY <3>1, <3>2 DEF CheckCustomerStreams, UseInv, Holding, CustomerStreamHeld
      <4> QED BY <1>0, <1>10, <1>11, <3>1, <4>1
            DEF UseInv, DataInUseIsKept, PurgeSteps
    <3>3. CASE "customer" \notin held
      <4>1. pc' \in {"block", "sapStream"}
        BY <3>1 DEF CheckCustomerStreams
      <4> QED BY <1>0, <1>10, <1>11, <3>1, <3>3, <4>1
            DEF UseInv, DataInUseIsKept, PurgeSteps
    <3> QED BY <3>2, <3>3
  <2> QED BY <2>1, <2>2
<1>12. CASE SapStreamExists
  <2>1. CASE held' = {}
    BY <1>1, <2>1
  <2>2. CASE held' # {}
    <3>1. pc = "sapStream" /\ held' = held /\ CheckSapStream(streams)
      BY <1>9, <1>10, <1>12, <2>2 DEF SapStreamExists, Query
    <3>2. "consumer" \in held
      BY <1>0, <2>2, <3>1 DEF UseInv, TypeOK
    <3>3. pc' = "consumers"
      BY <3>1, <3>2 DEF CheckSapStream, UseInv, Holding, SapConsumerHeld
    <3> QED BY <1>0, <1>10, <1>12, <3>1, <3>3 DEF UseInv, DataInUseIsKept, PurgeSteps
  <2> QED BY <2>1, <2>2
<1>13. CASE SapConsumerExists
  <2>1. CASE held' = {}
    BY <1>1, <2>1
  <2>2. CASE held' # {}
    <3>1. pc = "consumers" /\ held' = held /\ CheckConsumers(SapConsumerHeld)
      BY <1>9, <1>10, <1>13, <2>2 DEF SapConsumerExists, Query
    <3>2. "consumer" \in held
      BY <1>0, <2>2, <3>1 DEF UseInv, TypeOK
    <3>3. pc' = "block"
      BY <3>1, <3>2 DEF CheckConsumers, UseInv, Holding
    <3> QED BY <1>0, <1>10, <1>13, <3>1, <3>3 DEF UseInv, DataInUseIsKept, PurgeSteps
  <2> QED BY <2>1, <2>2
\* The steps of the purge find held empty and leave it so.
<1>14. CASE ListPVCs
  BY <1>1, <1>4, <1>14 DEF ListPVCs, UseInv, DataInUseIsKept, PurgeSteps
<1>15. ASSUME NEW p \in OwnPVCs, DeletePVC(p) PROVE UseInv'
  BY <1>1, <1>4, <1>15 DEF DeletePVC, UseInv, DataInUseIsKept, PurgeSteps
<1>16. CASE CloseNatsClient
  BY <1>1, <1>16 DEF CloseNatsClient, UseInv, DataInUseIsKept, PurgeSteps
<1>17. CASE CacheSync \/ PVCSync \/ Event \/ CreateCR \/ DeleteCR \/ TouchCR \/ CalmDown
  BY <1>2, <1>17 DEF CacheSync, PVCSync, Event, Enqueue, CreateCR, DeleteCR,
                     TouchCR, CalmDown
<1>18. ASSUME NEW p \in OwnPVCs, ProvisionPVC(p) \/ ReleasePVC(p) PROVE UseInv'
  BY <1>2, <1>18 DEF ProvisionPVC, ReleasePVC
<1>19. CASE CollectGarbage \/ RemoveResources \/ ConnectionLost \/ Crash
  BY <1>1, <1>19 DEF CollectGarbage, RemoveResources, Undeploy, ConnectionLost, Crash
<1>20. CASE ServerStep
  <2>1. held' = held \cap Holding' /\ pc' = pc
    BY <1>20 DEF ServerStep
  <2>2. conn' = conn
    BY <1>20 DEF ServerStep, ServerActions, ServerUp, ServerDown, CreateStream,
                 DeleteStream, ChangeConsumers
  <2> QED BY <1>0, <2>1, <2>2 DEF UseInv, DataInUseIsKept
<1>21. CASE ConnectionStep
  BY <1>2, <1>21 DEF ConnectionStep, ConnectionRecovers, ConnectionGivesUp, LostGivesUp
<1>22. CASE UNCHANGED vars
  BY <1>2, <1>22 DEF vars
<1> QED
  BY <1>3, <1>5, <1>6, <1>7, <1>8, <1>11, <1>12, <1>13, <1>14, <1>15, <1>16,
     <1>17, <1>18, <1>19, <1>20, <1>21, <1>22
  DEF Next, Work, Environment

\* With a complete listing no deletion pass reaches the volumes while a stream
\* or consumer in use has been in sight all along (handleNATSDeletion), for
\* every set of streams, claims and disruptions.
THEOREM CompleteListingsKeepData ==
  ASSUME ListingCanEndEarly = FALSE
  PROVE  Spec => []DataInUseIsKept
<1>1. UseInv /\ [Next]_vars => UseInv'
  BY UseInvNext
<1>2. UseInv => DataInUseIsKept
  BY DEF UseInv
<1> QED BY UseInvInit, <1>1, <1>2, PTL DEF Spec

-------------------------------------------------------------------------------
(* The connection.                                                         *)

\* No handler replaces or forgets a connection that works: Init connects only
\* where it finds none, the deletion closes what it drops from the map, and
\* nothing else touches the client.
THEOREM WorkingConnectionsAreKept == Spec => WorkingConnectionIsKept
<1> DEFINE Kept == conn = "connected" /\ lost' => lost
<1>1. ASSUME [Next]_vars PROVE Kept
  <2> USE DEF clientVars
  <2>1. CASE StartPass \/ AddFinalizer \/ Deploy \/ Report \/ Block \/ ListPVCs
               \/ RemoveFinalizer
    BY <2>1 DEF StartPass, AddFinalizer, Deploy, Report, Block, ListPVCs, RemoveFinalizer
  <2>2. CASE CustomerStreamExists \/ SapStreamExists \/ SapConsumerExists
    BY <2>2 DEF CustomerStreamExists, SapStreamExists, SapConsumerExists, Query
  <2>3. ASSUME NEW p \in OwnPVCs, DeletePVC(p) \/ ProvisionPVC(p) \/ ReleasePVC(p)
        PROVE  Kept
    BY <2>3 DEF DeletePVC, ProvisionPVC, ReleasePVC
  <2>4. CASE Connect
    BY <2>4 DEF Connect, ClientInit, ClientInitFails
  <2>5. CASE CloseNatsClient
    BY <2>5 DEF CloseNatsClient, CloseClient
  <2>6. CASE CacheSync \/ PVCSync \/ Event \/ CreateCR \/ DeleteCR \/ TouchCR \/ CalmDown
               \/ CollectGarbage \/ RemoveResources
    BY <2>6 DEF CacheSync, PVCSync, Event, Enqueue, CreateCR, DeleteCR, TouchCR,
                CalmDown, CollectGarbage, RemoveResources, Undeploy
  <2>7. CASE ServerStep
    BY <2>7 DEF ServerStep, ServerActions, ServerUp, ServerDown, CreateStream,
                DeleteStream, ChangeConsumers
  <2>8. CASE ConnectionLost \/ ConnectionStep
    BY <2>8 DEF ConnectionLost, ConnectionStep, ConnectionDrops, ConnectionRecovers,
                ConnectionGivesUp, LostGivesUp
  <2>9. CASE Crash
    BY <2>9 DEF Crash
  <2>10. CASE UNCHANGED vars
    BY <2>10 DEF vars
  <2> QED
    BY <1>1, <2>1, <2>2, <2>3, <2>4, <2>5, <2>6, <2>7, <2>8, <2>9, <2>10
    DEF Next, Work, Environment
<1>2. [Next]_vars => [Kept]_vars
  BY <1>1
<1> QED BY <1>2, PTL DEF Spec, WorkingConnectionIsKept

===============================================================================
