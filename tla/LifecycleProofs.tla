--------------------------- MODULE LifecycleProofs ---------------------------
(***************************************************************************)
(* Module Deprovisioner implements NatsLifecycle, for every set of streams *)
(* and claims, every number of incarnations and every set of disruptions,  *)
(* provided that listings of the NATS server are complete; and what the    *)
(* controller comes to rest on is what it promised, with or without them.  *)
(***************************************************************************)
EXTENDS DeprovisionerProofs

-------------------------------------------------------------------------------
(* What the copies of the resource still say of it.                        *)

\* A deletion seen in an old copy goes on: a resource that was created anew
\* after it is not under the finalizer before another pass.
DeletionHolds(copy) == copy.deleting /\ cr.exists /\ cr.finalizer => cr.deleting

\* Two copies say the same of the resource, but for the status.
SayTheSame(copy, other) ==
  /\ copy.exists = other.exists /\ copy.uid = other.uid
  /\ copy.deleting = other.deleting /\ copy.finalizer = other.finalizer

CopiesInv ==
  /\ fresh => cache = cr
  /\ objFresh => fresh /\ SayTheSame(obj, cr)
  /\ DeletionHolds(cache) /\ DeletionHolds(obj)
  /\ pc \in {"provision", "report"} => obj.exists /\ ~obj.deleting
  /\ pc \in DeletionSteps => obj.exists /\ obj.deleting /\ obj.finalizer
  /\ todo # {} => pc = "deletePVCs"

LEMMA GoneSays ==
  ASSUME NEW uid
  PROVE  ~Gone(uid).exists /\ ~Gone(uid).deleting /\ ~Gone(uid).finalizer
BY DEF Gone

\* A new status leaves the rest of a copy.
LEMMA StatusAside ==
  ASSUME NEW copy \in CRs, NEW status
  PROVE  SayTheSame([copy EXCEPT !.status = status], copy)
BY DEF CRs, SayTheSame

LEMMA CopiesInvInit == Init => CopiesInv
BY GoneSays DEF Init, CopiesInv, DeletionHolds, DeletionSteps, PurgeSteps

LEMMA CopiesInvNext == TypeOK /\ CopiesInv /\ [Next]_vars => CopiesInv'
<1> SUFFICES ASSUME TypeOK, CopiesInv, [Next]_vars PROVE CopiesInv'
  OBVIOUS
<1>a. cr \in CRs /\ cache \in CRs /\ obj \in CRs
  BY DEF TypeOK
<1> USE DEF serverVars, clientVars, apiVars, passVars, volumeVars, restVars
\* The end of a pass, with whatever it stored.
<1>1. ASSUME pc' = "idle", obj' = Gone(0), objFresh' = FALSE, todo' = {},
             cache' = cache, fresh' => fresh /\ cr' = cr,
             cache.deleting /\ cr'.exists /\ cr'.finalizer => cr'.deleting
      PROVE  CopiesInv'
  <2>1. ~obj'.deleting
    BY <1>1, GoneSays
  <2> QED BY <1>1, <2>1 DEF CopiesInv, DeletionHolds, DeletionSteps, PurgeSteps
<1>2. ASSUME NEW r, EndPass(r), UNCHANGED <<cr, cache, fresh>> PROVE CopiesInv'
  BY <1>1, <1>2 DEF EndPass, CopiesInv, DeletionHolds
\* Steps within a pass, or besides it.
<1>3. ASSUME UNCHANGED <<cr, cache, fresh>>, objFresh' \in {objFresh, FALSE},
             SayTheSame(obj', obj),
             \/ pc' = pc
             \/ pc = "provision" /\ pc' = "report"
             \/ pc \in DeletionSteps /\ pc' \in DeletionSteps,
             todo' # {} => pc' = "deletePVCs"
      PROVE  CopiesInv'
  <2>1. objFresh' => fresh' /\ SayTheSame(obj', cr')
    BY <1>3 DEF CopiesInv, SayTheSame
  <2>2. DeletionHolds(obj)'
    BY <1>3 DEF CopiesInv, DeletionHolds, SayTheSame
  <2>3. /\ pc' \in {"provision", "report"} => obj'.exists /\ ~obj'.deleting
        /\ pc' \in DeletionSteps => obj'.exists /\ obj'.deleting /\ obj'.finalizer
    BY <1>3 DEF CopiesInv, SayTheSame, DeletionSteps, PurgeSteps
  <2> QED BY <1>3, <2>1, <2>2, <2>3 DEF CopiesInv, DeletionHolds
<1>b. SayTheSame(obj, obj)
  BY DEF SayTheSame
<1>4. CASE StartPass
  <2>1. CASE UNCHANGED <<pc, obj, objFresh>>
    BY <1>3, <1>b, <1>4, <2>1 DEF StartPass, CopiesInv
  <2>2. CASE BeginDeletion /\ cache.finalizer
    <3>1. SayTheSame(obj', cache)
      BY <2>2, <1>a, StatusAside DEF BeginDeletion
    <3> QED BY <1>4, <2>2, <3>1
         DEF StartPass, BeginDeletion, CopiesInv, DeletionHolds, SayTheSame, DeletionSteps
  <2>3. CASE BeginProvisioning
    <3>1. SayTheSame(obj', cache)
      BY <2>3, <1>a, StatusAside DEF BeginProvisioning
    <3> QED BY <1>4, <2>3, <3>1
         DEF StartPass, BeginProvisioning, CopiesInv, DeletionHolds, SayTheSame,
             DeletionSteps, PurgeSteps
  <2> QED BY <1>4, <2>1, <2>2, <2>3 DEF StartPass, BeginDeletion
\* The finalizer goes on only from a current copy, of a resource in place.
<1>5. CASE AddFinalizer
  <2>1. CASE UNCHANGED <<cr, fresh>>
    BY <1>2, <1>5, <2>1 DEF AddFinalizer, UpdateFinalizer
  <2>2. CASE objFresh /\ Store([cr EXCEPT !.finalizer = TRUE]) /\ EndPass(FALSE)
    <3>1. ~cache.deleting
      BY <1>5, <2>2 DEF AddFinalizer, CopiesInv, SayTheSame
    <3> QED BY <1>1, <1>5, <2>2, <3>1 DEF AddFinalizer, Store, EndPass
  <2> QED BY <1>5, <2>1, <2>2 DEF AddFinalizer, UpdateFinalizer
<1>6. CASE Deploy
  <2>1. SayTheSame(obj', obj)
    BY <1>6, <1>a, StatusAside DEF Deploy
  <2> QED BY <1>3, <1>6, <2>1 DEF Deploy, CopiesInv
<1>7. ASSUME NEW status, NEW r, SyncStatus(status, r), cache' = cache PROVE CopiesInv'
  <2>1. CASE UNCHANGED <<cr, fresh>>
    BY <1>2, <1>7, <2>1 DEF SyncStatus
  <2>2. CASE Store([cr EXCEPT !.status = status]) /\ EndPass(r)
    <3>1. SayTheSame(cr', cr)
      BY <2>2, <1>a, StatusAside DEF Store
    <3> QED BY <1>1, <1>7, <2>2, <3>1 DEF Store, EndPass, CopiesInv, DeletionHolds,
         SayTheSame
  <2> QED BY <1>7, <2>1, <2>2 DEF SyncStatus
<1>8. CASE Report \/ Block
  BY <1>7, <1>8 DEF Report, Block
<1>9. CASE Connect
  BY <1>3, <1>b, <1>9 DEF Connect, CopiesInv, DeletionSteps, PurgeSteps
<1>10. CASE CustomerStreamExists \/ SapStreamExists \/ SapConsumerExists
  <2>1. /\ UNCHANGED <<cr, cache, fresh, objFresh, todo>>
        /\ pc \in {"streams", "sapStream", "consumers"} /\ pc' \in DeletionSteps
    BY <1>10 DEF CustomerStreamExists, SapStreamExists, SapConsumerExists, Query,
         CheckCustomerStreams, CheckSapStream, CheckConsumers, DeletionSteps, PurgeSteps
  <2>2. SayTheSame(obj', obj)
    BY <1>10, <1>a, <1>b, StatusAside
       DEF CustomerStreamExists, SapStreamExists, SapConsumerExists, Query,
           CheckCustomerStreams, CheckSapStream, CheckConsumers, Blocked
  <2> QED BY <1>3, <2>1, <2>2 DEF CopiesInv, DeletionSteps
<1>11. CASE ListPVCs
  BY <1>2, <1>3, <1>b, <1>11 DEF ListPVCs, DeletionSteps, PurgeSteps
<1>12. ASSUME NEW p \in OwnPVCs, DeletePVC(p) PROVE CopiesInv'
  BY <1>2, <1>3, <1>b, <1>12 DEF DeletePVC
<1>13. CASE CloseNatsClient
  BY <1>3, <1>b, <1>13 DEF CloseNatsClient, DeletionSteps, PurgeSteps
<1>14. CASE RemoveFinalizer
  BY <1>1, <1>2, <1>14, GoneSays DEF RemoveFinalizer, UpdateFinalizer, Store, EndPass
<1>15. CASE CacheSync
  BY <1>15 DEF CacheSync, CopiesInv, DeletionHolds, SayTheSame
<1>16. CASE PVCSync \/ Event \/ CalmDown \/ CollectGarbage \/ RemoveResources
  BY <1>3, <1>b, <1>16 DEF PVCSync, Event, Enqueue, CalmDown, CollectGarbage,
       RemoveResources, Undeploy, CopiesInv
<1>17. ASSUME NEW p \in OwnPVCs, ProvisionPVC(p) \/ ReleasePVC(p) PROVE CopiesInv'
  BY <1>3, <1>b, <1>17 DEF ProvisionPVC, ReleasePVC, CopiesInv
<1>18. CASE ServerStep \/ ConnectionLost \/ ConnectionStep
  BY <1>3, <1>b, <1>18 DEF ServerStep, ConnectionLost, ConnectionStep, CopiesInv
\* The user's writes: the copies are old ones from now on.
<1>19. ASSUME fresh' = FALSE, objFresh' = FALSE, UNCHANGED <<cache, pc, obj, todo>>,
              cr'.exists /\ cr'.finalizer => cr'.deleting \/ cr' = cr
       PROVE  CopiesInv'
  BY <1>19 DEF CopiesInv, DeletionHolds
<1>20. CASE CreateCR
  <2>1. ~cr'.finalizer
    BY <1>20 DEF CreateCR, Store, Gone
  <2> QED BY <1>19, <1>20, <2>1 DEF CreateCR, Store
<1>21. CASE DeleteCR
  <2>1. cr'.exists => cr'.deleting
    BY <1>21, <1>a, GoneSays DEF DeleteCR, Store, CRs
  <2> QED BY <1>19, <1>21, <2>1 DEF DeleteCR, Store
<1>22. CASE TouchCR
  BY <1>19, <1>22 DEF TouchCR
<1>23. CASE Crash
  <2>1. ~obj'.deleting
    BY <1>23, GoneSays DEF Crash
  <2> QED BY <1>23, <2>1 DEF Crash, CopiesInv, DeletionHolds, DeletionSteps, PurgeSteps
<1>24. CASE UNCHANGED vars
  BY <1>3, <1>b, <1>24 DEF vars, CopiesInv
<1> QED
  BY <1>4, <1>5, <1>6, <1>8, <1>9, <1>10, <1>11, <1>12, <1>13, <1>14, <1>15,
     <1>16, <1>17, <1>18, <1>20, <1>21, <1>22, <1>23, <1>24
  DEF Next, Work, Environment

-------------------------------------------------------------------------------
(* Every step is a step of NatsLifecycle, or none there.                   *)

\* What the copies say, what the finalizer covers and what is in use: together
\* they determine where each handler finds the resource in its life.
LifecycleInv == FinalizerInv /\ UseInv /\ CopiesInv

\* The values of the variables of NatsLifecycle that are Boolean here.
Mine    == cr.exists /\ deployed = cr.uid
InUse   == held # {}
Purging == pc \in PurgeSteps

LEMMA LifecycleInit == Init => Lifecycle!Init
BY DEF Init, Gone, Life, PurgeSteps, Lifecycle!Init

\* A step that leaves the purge and what was seen in use alone, and the volumes.
LEMMA QuietStep ==
  ASSUME Life' = Life, Mine' = Mine, InUse' = InUse, Purging' = Purging,
         todo' = todo, pvc' = pvc
  PROVE  UNCHANGED Lifecycle!vars
BY DEF Mine, InUse, Purging, Lifecycle!vars

\* A step of a pass that is in no purge, and begins none, is a look at most.
LEMMA LookStep ==
  ASSUME Life' = Life, Mine' = Mine, ~Purging, ~Purging', todo' = todo, pvc' = pvc
  PROVE  Lifecycle!Look
BY DEF Mine, InUse, Purging, Lifecycle!Look

\* A pass that begins a purge does so with nothing seen in use and a resource
\* that is to go.
LEMMA StartPurgeStep ==
  ASSUME Life' = Life, Mine' = Mine, ~Purging, Purging', ~InUse', Life # "protected",
         todo' = todo, pvc' = pvc
  PROVE  Lifecycle!StartPurge
BY DEF Mine, InUse, Purging, Lifecycle!StartPurge

LEMMA AbandonStep ==
  ASSUME Life' = Life, Mine' = Mine, Purging, ~Purging', InUse' = InUse,
         todo' = {}, pvc' = pvc
  PROVE  Lifecycle!Abandon
BY DEF Mine, InUse, Purging, Lifecycle!Abandon

\* Steps that leave the stored resource and the owner of the objects alone.
LEMMA SameResource ==
  ASSUME cr' = cr, deployed' = deployed
  PROVE  Life' = Life /\ Mine' = Mine
BY DEF Life, Mine

\* A resource that is being deleted is not protected.
LEMMA DeletionUnprotected ==
  ASSUME CopiesInv, pc \in DeletionSteps
  PROVE  Life # "protected"
BY DEF CopiesInv, DeletionHolds, Life

LEMMA LifecycleNext ==
  ASSUME LifecycleInv, LifecycleInv', [Next]_vars
  PROVE  [Lifecycle!Next]_(Lifecycle!vars)
<1> DEFINE Step == Lifecycle!Next \/ UNCHANGED Lifecycle!vars
<1>a. cr \in CRs /\ cache \in CRs /\ obj \in CRs
  BY DEF LifecycleInv, FinalizerInv, TypeOK
<1>b. (Purging => ~InUse) /\ (Purging' => ~InUse')
  BY DEF LifecycleInv, UseInv, DataInUseIsKept, Purging, InUse
<1>c. (todo # {} => pc = "deletePVCs") /\ (todo' # {} => pc' = "deletePVCs")
  BY DEF LifecycleInv, CopiesInv
<1>d. pc = "idle" \/ pc \in {"provision", "report", "connect", "streams",
                             "sapStream", "consumers", "block"} => ~Purging
  BY DEF Purging, PurgeSteps
<1>e. Lifecycle!Look \/ Lifecycle!StartPurge \/ Lifecycle!Abandon
        \/ Lifecycle!Undeploy \/ Lifecycle!FindVolumes \/ Lifecycle!Protect
        \/ Lifecycle!Release \/ Lifecycle!Deploy \/ Lifecycle!Create
        \/ Lifecycle!RequestDeletion => Step
  BY DEF Lifecycle!Next
<1> USE DEF serverVars, clientVars, apiVars, passVars, volumeVars, restVars
\* The end of a pass that leaves the resource as it is in its life.
<1>1. ASSUME NEW r, EndPass(r), Life' = Life, Mine' = Mine, pvc' = pvc PROVE Step
  <2>1. ~Purging' /\ todo' = {} /\ ~InUse'
    BY <1>1 DEF EndPass, Purging, PurgeSteps, InUse
  <2>2. CASE Purging
    <3>1. InUse' = InUse
      BY <1>b, <2>1, <2>2 DEF InUse
    <3> QED BY <1>1, <1>e, <2>1, <2>2, <3>1, AbandonStep
  <2>3. CASE ~Purging
    <3>1. todo' = todo
      BY <1>c, <2>1, <2>3 DEF Purging, PurgeSteps
    <3> QED BY <1>1, <1>e, <2>1, <2>3, <3>1, LookStep
  <2> QED BY <2>2, <2>3
<1>2. CASE StartPass
  <2>1. Life' = Life /\ Mine' = Mine
    BY <1>2, SameResource DEF StartPass
  <2>2. ~Purging /\ ~Purging'
    BY <1>2, <1>d DEF StartPass, BeginDeletion, BeginProvisioning, Purging, PurgeSteps
  <2> QED BY <1>2, <1>e, <2>1, <2>2, LookStep DEF StartPass
<1>3. CASE AddFinalizer
  <2>1. CASE UNCHANGED <<cr, fresh>>
    BY <1>1, <1>3, <2>1, SameResource DEF AddFinalizer, UpdateFinalizer
  <2>2. CASE objFresh /\ Store([cr EXCEPT !.finalizer = TRUE]) /\ EndPass(FALSE)
    <3>1. cr.exists /\ ~cr.deleting /\ ~cr.finalizer
      BY <1>3, <2>2 DEF AddFinalizer, LifecycleInv, CopiesInv, SayTheSame
    <3>2. cr'.exists /\ ~cr'.deleting /\ cr'.finalizer /\ cr'.uid = cr.uid
      BY <1>a, <2>2, <3>1 DEF Store, CRs
    <3>3. Life = "bare" /\ Life' = "protected"
      BY <3>1, <3>2 DEF Life
    <3>4. Mine' = Mine
      BY <1>3, <3>1, <3>2 DEF Mine, AddFinalizer
    <3>5. ~Purging /\ ~Purging' /\ ~InUse' /\ todo = {} /\ todo' = {} /\ pvc' = pvc
      BY <1>3, <1>c, <2>2 DEF AddFinalizer, EndPass, Purging, PurgeSteps, InUse
    <3>6. Lifecycle!Forget
      BY <3>5 DEF Lifecycle!Forget, InUse
    <3>7. Purging' = Purging
      BY <3>5 DEF Purging
    <3>8. Lifecycle!Protect
      BY <3>3, <3>4, <3>5, <3>6, <3>7 DEF Lifecycle!Protect, Mine, Purging
    <3> QED BY <1>e, <3>8
  <2> QED BY <1>3, <2>1, <2>2 DEF AddFinalizer, UpdateFinalizer
<1>4. CASE Deploy
  <2>1. Life' = Life /\ ~Purging /\ ~Purging' /\ UNCHANGED <<held, todo, pvc>>
    BY <1>4 DEF Deploy, Life, Purging, PurgeSteps
  <2>2. Purging' = Purging /\ InUse' = InUse
    BY <2>1 DEF Purging, InUse
  <2>3. CASE Mine' = Mine
    BY <2>1, <2>2, <2>3, QuietStep
  <2>4. CASE ~Mine'
    BY <1>e, <2>1, <2>2, <2>4
       DEF Lifecycle!Undeploy, Lifecycle!Forget, Mine, Purging, InUse
  <2>5. CASE Mine' /\ ~Mine
    <3>1. cr.exists /\ obj.uid = cr.uid /\ obj.finalizer
      BY <1>4, <2>5 DEF Deploy, OwnerReference, Mine
    <3>2. Life \in {"protected", "leaving"}
      BY <3>1 DEF LifecycleInv, FinalizerInv, CopyBehind, Life
    <3> QED BY <1>e, <2>1, <2>2, <2>5, <3>2
         DEF Lifecycle!Deploy, Mine, Purging, InUse
  <2> QED BY <2>3, <2>4, <2>5 DEF Mine
<1>5. ASSUME NEW status, NEW r, SyncStatus(status, r), deployed' = deployed, pvc' = pvc
      PROVE  Step
  <2>1. SayTheSame(cr', cr)
    <3>1. cr' = cr \/ cr' = [cr EXCEPT !.status = status]
      BY <1>5 DEF SyncStatus, Store
    <3>2. SayTheSame(cr, cr) /\ SayTheSame([cr EXCEPT !.status = status], cr)
      BY <1>a, StatusAside DEF SayTheSame
    <3> QED BY <3>1, <3>2
  <2>2. Life' = Life /\ Mine' = Mine
    BY <1>5, <2>1 DEF SayTheSame, Life, Mine
  <2>3. EndPass(r) \/ EndPass(TRUE)
    BY <1>5 DEF SyncStatus
  <2> QED BY <1>1, <1>5, <2>2, <2>3
<1>6. CASE Report \/ Block
  BY <1>5, <1>6 DEF Report, Block
\* The checks of the server: to the next one, to a purge or to the block.
<1>7. ASSUME pc \in {"connect", "streams", "sapStream", "consumers"}, pc' \in DeletionSteps,
             UNCHANGED <<cr, deployed, todo, pvc>>
      PROVE  Step
  <2>1. Life' = Life /\ Mine' = Mine /\ ~Purging
    BY <1>7, <1>d, SameResource
  <2>2. CASE Purging'
    <3>1. Life # "protected"
      BY <1>7, DeletionUnprotected DEF LifecycleInv, DeletionSteps
    <3> QED BY <1>7, <1>b, <1>e, <2>1, <2>2, <3>1, StartPurgeStep
  <2>3. CASE ~Purging'
    BY <1>7, <1>e, <2>1, <2>3, LookStep
  <2> QED BY <2>2, <2>3
<1>8. CASE Connect
  BY <1>7, <1>8 DEF Connect, DeletionSteps, PurgeSteps
<1>9. CASE CustomerStreamExists \/ SapStreamExists \/ SapConsumerExists
  BY <1>7, <1>9 DEF CustomerStreamExists, SapStreamExists, SapConsumerExists, Query,
     CheckCustomerStreams, CheckSapStream, CheckConsumers, DeletionSteps, PurgeSteps
<1>10. CASE ListPVCs
  <2>1. CASE EndPass(TRUE)
    BY <1>1, <1>10, <2>1, SameResource DEF ListPVCs
  <2>2. CASE pc' = "deletePVCs" /\ todo' = pvcCache /\ held' = held
    <3>1. Life' = Life /\ Mine' = Mine /\ pvc' = pvc
      BY <1>10, SameResource DEF ListPVCs
    <3>2. todo = {} /\ Purging /\ Purging' /\ InUse' = InUse /\ todo' \subseteq OwnPVCs
      BY <1>10, <1>c, <2>2
         DEF ListPVCs, Purging, PurgeSteps, InUse, LifecycleInv, FinalizerInv, TypeOK
    <3> QED BY <1>e, <3>1, <3>2 DEF Lifecycle!FindVolumes, Mine, Purging, InUse
  <2> QED BY <1>10, <2>1, <2>2 DEF ListPVCs
<1>11. ASSUME NEW p \in OwnPVCs, DeletePVC(p) PROVE Step
  <2>1. Life' = Life /\ Mine' = Mine
    BY <1>11, SameResource DEF DeletePVC
  <2>2. CASE (EndPass(FALSE) \/ EndPass(TRUE)) /\ pvc' = pvc
    BY <1>1, <2>1, <2>2
  <2>3. CASE /\ pvc[p] # "absent" /\ pvc' = [pvc EXCEPT ![p] = "terminating"]
             /\ todo' = todo \ {p} /\ pc' = pc /\ held' = held
    <3>1. Purging /\ Purging' = Purging /\ InUse' = InUse /\ p \in todo
      BY <1>11, <2>3 DEF DeletePVC, Purging, PurgeSteps, InUse
    <3>2. Lifecycle!DeleteVolume(p)
      BY <2>1, <2>3, <3>1 DEF Lifecycle!DeleteVolume, Mine, Purging, InUse
    <3> QED BY <3>2 DEF Lifecycle!Next
  <2> QED BY <1>11, <2>2, <2>3 DEF DeletePVC
<1>12. CASE CloseNatsClient
  <2>1. Purging' = Purging /\ InUse' = InUse
    BY <1>12 DEF CloseNatsClient, Purging, PurgeSteps, InUse
  <2> QED BY <1>12, <2>1, SameResource, QuietStep DEF CloseNatsClient
<1>13. CASE RemoveFinalizer
  <2>1. CASE UNCHANGED <<cr, fresh>>
    BY <1>1, <1>13, <2>1, SameResource DEF RemoveFinalizer, UpdateFinalizer
  <2>2. CASE objFresh /\ Store(Gone(cr.uid)) /\ EndPass(FALSE)
    <3>1. cr.exists /\ cr.deleting /\ cr.finalizer /\ ~cr'.exists
      BY <1>13, <2>2, GoneSays
         DEF RemoveFinalizer, Store, LifecycleInv, CopiesInv, SayTheSame,
             DeletionSteps, PurgeSteps
    <3>2. Life = "leaving" /\ Life' = "absent" /\ ~Mine'
      BY <3>1 DEF Life, Mine
    <3>3. Purging /\ ~Purging' /\ todo = {} /\ todo' = {} /\ pvc' = pvc /\ ~InUse'
      BY <1>13, <1>c, <2>2 DEF RemoveFinalizer, EndPass, Purging, PurgeSteps, InUse
    <3>4. InUse' = InUse
      BY <1>b, <3>3 DEF InUse
    <3> QED BY <1>e, <3>2, <3>3, <3>4 DEF Lifecycle!Release, Mine, Purging, InUse
  <2> QED BY <1>13, <2>1, <2>2 DEF RemoveFinalizer, UpdateFinalizer
\* What goes on besides the pass.
<1>14. CASE CacheSync \/ PVCSync \/ Event \/ TouchCR \/ CalmDown
  <2>1. UNCHANGED <<cr, deployed, pc, held, todo, pvc>>
    BY <1>14 DEF CacheSync, PVCSync, Event, Enqueue, TouchCR, CalmDown
  <2>2. Purging' = Purging /\ InUse' = InUse
    BY <2>1 DEF Purging, InUse
  <2> QED BY <2>1, <2>2, SameResource, QuietStep
<1>15. CASE CreateCR
  <2>1. ~cr.exists /\ cr'.exists /\ ~cr'.finalizer /\ cr'.uid = cr.uid + 1
    BY <1>15 DEF CreateCR, Store, Gone
  <2>2. Life = "absent" /\ Life' = "bare"
    BY <2>1 DEF Life
  <2>3. deployed # cr.uid + 1
    BY DEF LifecycleInv, FinalizerInv, TypeOK, CRs, Incarnations
  <2>4. Mine' = Mine /\ UNCHANGED <<pc, held, todo, pvc>>
    BY <1>15, <2>1, <2>3 DEF CreateCR, Mine
  <2> QED BY <1>e, <2>2, <2>4 DEF Lifecycle!Create, Mine
<1>16. CASE DeleteCR
  <2>1. \/ Life = "bare" /\ Life' = "absent"
        \/ Life = "protected" /\ Life' = "leaving"
    BY <1>16, <1>a, GoneSays DEF DeleteCR, Store, Life, CRs
  <2>2. Mine' = Mine
    <3>1. CASE cr.finalizer
      BY <1>16, <1>a, <3>1 DEF DeleteCR, Store, Mine, CRs
    <3>2. CASE ~cr.finalizer
      <4>1. ~Mine
        BY <3>2 DEF LifecycleInv, FinalizerInv, DeployedIsFinalized, Mine
      <4>2. ~Mine'
        BY <1>16, <3>2, GoneSays DEF DeleteCR, Store, Mine
      <4> QED BY <4>1, <4>2 DEF Mine
    <3> QED BY <3>1, <3>2
  <2>3. UNCHANGED <<pc, held, todo, pvc>>
    BY <1>16 DEF DeleteCR
  <2> QED BY <1>e, <2>1, <2>2, <2>3 DEF Lifecycle!RequestDeletion, Mine
<1>17. CASE CollectGarbage \/ RemoveResources
  <2>1. ~Mine'
    <3>1. deployed' = 0 /\ cr' = cr
      BY <1>17 DEF CollectGarbage, RemoveResources, Undeploy
    <3>2. cr.exists => cr.uid > 0
      BY DEF LifecycleInv, FinalizerInv
    <3> QED BY <1>a, <3>1, <3>2 DEF Mine, CRs, Incarnations
  <2>2. Life' = Life /\ Purging' = Purging /\ ~InUse' /\ UNCHANGED <<todo, pvc>>
    BY <1>17 DEF CollectGarbage, RemoveResources, Undeploy, Life, Purging, InUse
  <2> QED BY <1>e, <2>1, <2>2 DEF Lifecycle!Undeploy, Lifecycle!Forget, Mine, Purging, InUse
<1>18. ASSUME NEW p \in OwnPVCs, ProvisionPVC(p) \/ ReleasePVC(p) PROVE Step
  <2>1. UNCHANGED <<cr, deployed, pc, held, todo>>
    BY <1>18 DEF ProvisionPVC, ReleasePVC
  <2>2. Life' = Life /\ Mine' = Mine /\ Purging' = Purging /\ InUse' = InUse
    BY <2>1, SameResource DEF Purging, InUse
  <2>3. Lifecycle!Provision(p) \/ Lifecycle!Vanish(p)
    BY <1>18, <2>1, <2>2
       DEF ProvisionPVC, ReleasePVC, Lifecycle!Provision, Lifecycle!Vanish, Mine, Purging, InUse
  <2> QED BY <2>3 DEF Lifecycle!Next
\* What was in use is so no longer: in a purge there was nothing.
<1>19. ASSUME UNCHANGED <<cr, deployed, pc, todo, pvc>>, held' \subseteq held PROVE Step
  <2>1. Life' = Life /\ Mine' = Mine /\ Purging' = Purging
    BY <1>19, SameResource DEF Purging
  <2>2. CASE Purging
    <3>1. InUse' = InUse
      BY <1>19, <1>b, <2>2 DEF InUse
    <3> QED BY <1>19, <2>1, <3>1, QuietStep
  <2>3. CASE ~Purging
    BY <1>19, <1>e, <2>1, <2>3, LookStep
  <2> QED BY <2>2, <2>3
<1>20. CASE ServerStep \/ ConnectionLost \/ ConnectionStep
  BY <1>19, <1>20 DEF ServerStep, ConnectionLost, ConnectionStep
<1>21. CASE Crash
  <2>1. Life' = Life /\ Mine' = Mine /\ pvc' = pvc
    BY <1>21, SameResource DEF Crash
  <2>2. ~Purging' /\ ~InUse' /\ todo' = {}
    BY <1>21 DEF Crash, Purging, PurgeSteps, InUse
  <2>3. CASE Purging
    <3>1. InUse' = InUse
      BY <1>b, <2>2, <2>3 DEF InUse
    <3> QED BY <1>e, <2>1, <2>2, <2>3, <3>1, AbandonStep
  <2>4. CASE ~Purging
    <3>1. todo' = todo
      BY <1>c, <2>2, <2>4 DEF Purging, PurgeSteps
    <3> QED BY <1>e, <2>1, <2>2, <2>4, <3>1, LookStep
  <2> QED BY <2>3, <2>4
<1>22. CASE UNCHANGED vars
  BY <1>19, <1>22 DEF vars
<1> QED
  BY <1>2, <1>3, <1>4, <1>6, <1>8, <1>9, <1>10, <1>11, <1>12, <1>13, <1>14,
     <1>15, <1>16, <1>17, <1>18, <1>20, <1>21, <1>22
  DEF Next, Work, Environment

\* For every set of streams and claims and every disruption, with complete
\* listings: the handlers of the resource, through stale copies, conflicts, failed
\* calls and restarts, take only the steps that NatsLifecycle allows (addFinalizer,
\* handleNATSReconcile, handleNATSDeletion, deletePVCsAndRemoveFinalizer).
THEOREM DeprovisionerKeepsLifecycle ==
  ASSUME ListingCanEndEarly = FALSE
  PROVE  Spec => KeepsLifecycle
<1>1. Init => LifecycleInv /\ Lifecycle!Init
  BY FinalizerInvInit, UseInvInit, CopiesInvInit, LifecycleInit DEF LifecycleInv
<1>2. LifecycleInv /\ [Next]_vars => LifecycleInv'
  BY FinalizerInvNext, UseInvNext, CopiesInvNext DEF LifecycleInv, FinalizerInv
<1>3. LifecycleInv /\ LifecycleInv' /\ [Next]_vars => [Lifecycle!Next]_(Lifecycle!vars)
  BY LifecycleNext
<1> QED BY <1>1, <1>2, <1>3, PTL DEF Spec, KeepsLifecycle, Lifecycle!Spec


-------------------------------------------------------------------------------
(* What the controller comes to rest on.                                   *)

\* A copy under the finalizer that is not to go is of the resource there is: only
\* a deletion takes the finalizer off.
FinalizerHolds(copy) == ~copy.deleting /\ copy.finalizer => cr.exists /\ cr.finalizer

\* With nothing in the queue the pass works from what the informer has, and what
\* it is about to report it has seen to.
PassIsCurrent ==
  /\ SayTheSame(obj, cache)
  /\ "clusterSize" \in gauges <=> ~obj.deleting
  /\ pc = "report" =>
       \/ obj.status.state \in {"Error", "Processing"}
       \/ obj.status.state = "Ready" /\ obj.finalizer /\ deployed = obj.uid

\* With nothing in the queue, and no pass, the last pass has seen to the resource.
LastPassStands ==
  /\ "clusterSize" \in gauges <=> ~cr.deleting
  /\ ~cr.deleting =>
       cr.finalizer /\ deployed = cr.uid /\ cr.status.state = "Ready"

NothingMissed ==
  /\ pc # "idle" => PassIsCurrent
  /\ pc = "idle" /\ fresh /\ cr.exists => LastPassStands

\* The zones are exported only under the finalizer.
ZonesInv ==
  /\ FinalizerHolds(cr) /\ FinalizerHolds(cache)
  /\ pc \in {"provision", "report"} => FinalizerHolds(obj)
  /\ pc \in DeletionSteps => gauges = {}
  /\ "zones" \in gauges => cr.exists /\ cr.finalizer

RestInv ==
  /\ TypeOK /\ CopiesInv
  /\ ZonesInv
  /\ ~queued => NothingMissed

LEMMA ReportedStates ==
  ASSUME NEW ns \in Statuses
  PROVE  /\ ReadyStatus(ns).state = "Ready"
         /\ WaitingStatus(ns).state = "Processing"
         /\ FailedStatus(ns).state = "Error"
<1>1. ReadyStatus(ns).state = "Ready"
  <2> DEFINE a == SetStateReady(ns)
             b == SetURL(a, ServiceURL)
             c == [b EXCEPT !.zones = 1]
  <2>1. a \in Statuses /\ a.state = "Ready"
    BY SettersType, SetStateReadySays DEF StateWith
  <2>2. b \in Statuses /\ b.state = "Ready"
    BY <2>1 DEF SetURL, Statuses
  <2>3. c \in Statuses /\ c.state = "Ready"
    BY <2>2 DEF Statuses
  <2> HIDE DEF a, b, c
  <2>4. UpdateCondition(c, "AvailabilityZones", "False", "NotConfigured",
          "not-in-cluster-mode").state = "Ready"
    BY <2>3 DEF UpdateCondition, Statuses
  <2>5. ReadyStatus(ns) = UpdateCondition(c, "AvailabilityZones", "False",
          "NotConfigured", "not-in-cluster-mode")
    BY DEF ReadyStatus, UpdateConditionAvailabilityZones, a, b, c
  <2> QED BY <2>4, <2>5
<1>2. WaitingStatus(ns).state = "Processing"
  <2> DEFINE a == ClearURL(ns)
             b == SetWaitingStateForStatefulSet(a)
  <2>1. a \in Statuses
    BY DEF ClearURL, Statuses
  <2>2. b \in Statuses /\ b.state = "Processing"
    BY <2>1, SettersType, SetWaitingStateSays DEF StateWith
  <2> HIDE DEF b
  <2>3. [b EXCEPT !.zones = 0].state = "Processing"
    BY <2>2 DEF Statuses
  <2> QED BY <2>3 DEF WaitingStatus, b
<1>3. FailedStatus(ns).state = "Error"
  <2> DEFINE a == SetStateError(ns)
  <2>1. a \in Statuses /\ a.state = "Error"
    BY SettersType, SetStateErrorSays DEF StateWith
  <2> HIDE DEF a
  <2>2. UpdateCondition(a, "Available", "False", "FailedProcessing",
          "deploy-failed").state = "Error"
    BY <2>1 DEF UpdateCondition, Statuses
  <2> QED BY <2>2 DEF FailedStatus, UpdateConditionAvailable, a
<1> QED BY <1>1, <1>2, <1>3

LEMMA RestInvInit == Init => RestInv
<1> SUFFICES ASSUME Init PROVE RestInv
  OBVIOUS
<1>1. TypeOK /\ CopiesInv
  BY InitType, CopiesInvInit
<1> QED BY <1>1, GoneSays
     DEF Init, RestInv, ZonesInv, FinalizerHolds, NothingMissed, DeletionSteps, PurgeSteps

LEMMA ZonesInvNext ==
  ASSUME TypeOK, CopiesInv, ZonesInv, [Next]_vars
  PROVE  ZonesInv'
<1>a. cr \in CRs /\ cache \in CRs /\ obj \in CRs
  BY DEF TypeOK
<1>b. SayTheSame(obj, obj)
  BY DEF SayTheSame
<1> USE DEF serverVars, clientVars, apiVars, passVars, volumeVars, restVars
\* The finalizer stays where it is.
<1>1. ASSUME cache' = cache, gauges' \in {gauges, {}}, FinalizerHolds(cr)',
             cr.exists /\ cr.finalizer => cr'.exists /\ cr'.finalizer,
             \/ pc' = "idle"
             \/ pc' = pc /\ SayTheSame(obj', obj)
             \/ pc \in DeletionSteps /\ pc' \in DeletionSteps
      PROVE  ZonesInv'
  BY <1>1 DEF ZonesInv, FinalizerHolds, SayTheSame, DeletionSteps, PurgeSteps
<1>2. ASSUME cr' = cr, cache' = cache, gauges' \in {gauges, {}},
             \/ pc' = "idle"
             \/ pc' = pc /\ SayTheSame(obj', obj)
             \/ pc \in DeletionSteps /\ pc' \in DeletionSteps
      PROVE  ZonesInv'
  BY <1>1, <1>2 DEF ZonesInv, FinalizerHolds
<1>3. CASE StartPass
  <2>1. CASE UNCHANGED <<pc, obj>> /\ gauges' \in {gauges, {}}
    BY <1>2, <1>b, <1>3, <2>1 DEF StartPass
  <2>2. CASE BeginDeletion /\ cache.finalizer
    BY <1>3, <2>2 DEF StartPass, BeginDeletion, ZonesInv, FinalizerHolds
  <2>3. CASE BeginProvisioning
    <3>1. SayTheSame(obj', cache)
      BY <2>3, <1>a, StatusAside DEF BeginProvisioning
    <3> QED BY <1>3, <2>3, <3>1
         DEF StartPass, BeginProvisioning, ZonesInv, FinalizerHolds, SayTheSame,
             DeletionSteps, PurgeSteps
  <2> QED BY <1>3, <2>1, <2>2, <2>3 DEF StartPass, BeginDeletion
<1>4. CASE AddFinalizer
  <2>1. CASE cr' = cr
    BY <1>2, <1>4, <2>1 DEF AddFinalizer, UpdateFinalizer, EndPass
  <2>2. CASE objFresh /\ Store([cr EXCEPT !.finalizer = TRUE]) /\ EndPass(FALSE)
    <3>1. cr.exists /\ cr' \in CRs /\ cr'.exists /\ cr'.finalizer
      BY <1>4, <1>a, <2>2 DEF AddFinalizer, CopiesInv, SayTheSame, Store, CRs
    <3> QED BY <1>1, <1>4, <2>2, <3>1 DEF AddFinalizer, EndPass, FinalizerHolds
  <2> QED BY <1>4, <2>1, <2>2 DEF AddFinalizer, UpdateFinalizer
<1>5. CASE Deploy
  <2>1. SayTheSame(obj', obj)
    BY <1>5, <1>a, StatusAside DEF Deploy
  <2>2. cr.exists /\ cr.finalizer
    BY <1>5 DEF Deploy, ZonesInv, FinalizerHolds, CopiesInv
  <2> QED BY <1>5, <2>1, <2>2
       DEF Deploy, ZonesInv, FinalizerHolds, SayTheSame, DeletionSteps, PurgeSteps
<1>6. ASSUME NEW status, NEW r, SyncStatus(status, r), cache' = cache, gauges' = gauges
      PROVE  ZonesInv'
  <2>1. pc' = "idle"
    BY <1>6 DEF SyncStatus, EndPass
  <2>2. CASE cr' = cr
    BY <1>2, <1>6, <2>1, <2>2
  <2>3. CASE cr' = [cr EXCEPT !.status = status]
    <3>1. SayTheSame(cr', cr)
      BY <2>3, <1>a, StatusAside
    <3> QED BY <1>1, <1>6, <2>1, <3>1 DEF SayTheSame, ZonesInv, FinalizerHolds
  <2> QED BY <1>6, <2>2, <2>3 DEF SyncStatus, Store
<1>7. CASE Report \/ Block
  BY <1>6, <1>7 DEF Report, Block
<1>8. CASE Connect
  BY <1>2, <1>8 DEF Connect, DeletionSteps, PurgeSteps
<1>9. CASE CustomerStreamExists \/ SapStreamExists \/ SapConsumerExists
  BY <1>2, <1>9 DEF CustomerStreamExists, SapStreamExists, SapConsumerExists, Query,
     CheckCustomerStreams, CheckSapStream, CheckConsumers, DeletionSteps, PurgeSteps
<1>10. CASE ListPVCs \/ CloseNatsClient
  BY <1>2, <1>10 DEF ListPVCs, CloseNatsClient, EndPass, DeletionSteps, PurgeSteps
<1>11. ASSUME NEW p \in OwnPVCs, DeletePVC(p) PROVE ZonesInv'
  BY <1>2, <1>b, <1>11 DEF DeletePVC, EndPass
<1>12. CASE RemoveFinalizer
  <2>1. CASE cr' = cr
    BY <1>2, <1>12, <2>1 DEF RemoveFinalizer, UpdateFinalizer, EndPass
  <2>2. CASE objFresh /\ Store(Gone(cr.uid)) /\ EndPass(FALSE)
    <3>1. cache.deleting /\ gauges = {}
      BY <1>12, <2>2 DEF RemoveFinalizer, CopiesInv, ZonesInv, SayTheSame,
           DeletionSteps, PurgeSteps
    <3> QED BY <1>12, <2>2, <3>1, GoneSays
         DEF RemoveFinalizer, Store, EndPass, ZonesInv, FinalizerHolds,
             DeletionSteps, PurgeSteps
  <2> QED BY <1>12, <2>1, <2>2 DEF RemoveFinalizer, UpdateFinalizer
<1>13. CASE CacheSync
  BY <1>13 DEF CacheSync, ZonesInv, FinalizerHolds
<1>14. CASE PVCSync \/ Event \/ TouchCR \/ CalmDown \/ CollectGarbage \/ RemoveResources
  BY <1>2, <1>b, <1>14 DEF PVCSync, Event, Enqueue, TouchCR, CalmDown, CollectGarbage,
       RemoveResources, Undeploy
<1>15. ASSUME NEW p \in OwnPVCs, ProvisionPVC(p) \/ ReleasePVC(p) PROVE ZonesInv'
  BY <1>2, <1>b, <1>15 DEF ProvisionPVC, ReleasePVC
<1>16. CASE ServerStep \/ ConnectionLost \/ ConnectionStep
  BY <1>2, <1>b, <1>16 DEF ServerStep, ConnectionLost, ConnectionStep
<1>17. CASE CreateCR
  <2>1. ~cr.exists /\ ~cr'.finalizer
    BY <1>17 DEF CreateCR, Store, Gone
  <2> QED BY <1>1, <1>b, <1>17, <2>1 DEF CreateCR, FinalizerHolds
<1>18. CASE DeleteCR
  <2>1. CASE cr.finalizer
    <3>1. cr'.exists /\ cr'.finalizer /\ cr'.deleting
      BY <1>18, <1>a, <2>1 DEF DeleteCR, Store, CRs
    <3> QED BY <1>1, <1>b, <1>18, <3>1 DEF DeleteCR, FinalizerHolds
  <2>2. CASE ~cr.finalizer
    <3>1. ~cr'.finalizer
      BY <1>18, <2>2, GoneSays DEF DeleteCR, Store
    <3> QED BY <1>1, <1>b, <1>18, <2>2, <3>1 DEF DeleteCR, FinalizerHolds
  <2> QED BY <2>1, <2>2
<1>19. CASE Crash
  BY <1>19 DEF Crash, ZonesInv, FinalizerHolds, DeletionSteps, PurgeSteps
<1>20. CASE UNCHANGED vars
  BY <1>2, <1>b, <1>20 DEF vars
<1> QED
  BY <1>3, <1>4, <1>5, <1>7, <1>8, <1>9, <1>10, <1>11, <1>12, <1>13, <1>14,
     <1>15, <1>16, <1>17, <1>18, <1>19, <1>20
  DEF Next, Work, Environment

LEMMA NothingMissedNext ==
  ASSUME TypeOK, CopiesInv, ZonesInv, ~queued => NothingMissed, [Next]_vars, ~queued'
  PROVE  NothingMissed'
<1>a. cr \in CRs /\ cache \in CRs /\ obj \in CRs
  BY DEF TypeOK
<1>b. SayTheSame(obj, obj)
  BY DEF SayTheSame
<1> USE DEF serverVars, clientVars, apiVars, passVars, volumeVars, restVars
\* A pass that stores something ends before the informer knows.
<1>1. ASSUME pc' = "idle", ~fresh' PROVE NothingMissed'
  BY <1>1 DEF NothingMissed
\* A pass of a deletion that ends has seen to what there is to see to.
<1>2. ASSUME pc \in DeletionSteps, pc' = "idle", UNCHANGED <<cr, cache, fresh, gauges, deployed>>,
             ~queued
      PROVE  NothingMissed'
  <2>1. PassIsCurrent
    BY <1>2 DEF NothingMissed, DeletionSteps, PurgeSteps
  <2>2. fresh => cr.deleting
    BY <1>2, <2>1 DEF PassIsCurrent, CopiesInv, SayTheSame
  <2>3. fresh' /\ cr'.exists => LastPassStands'
    BY <1>2, <2>1, <2>2 DEF PassIsCurrent, LastPassStands, CopiesInv
  <2> QED BY <1>2, <2>3 DEF NothingMissed
\* Nothing happens that NothingMissed speaks of, or the copy gets old.
<1>3. ASSUME UNCHANGED <<cache, gauges, deployed, pc>>, ~queued,
             fresh' => fresh /\ cr' = cr,
             SayTheSame(obj', obj), obj'.status = obj.status
      PROVE  NothingMissed'
  <2>1. CASE pc # "idle"
    <3>1. PassIsCurrent
      BY <1>3, <2>1 DEF NothingMissed
    <3>2. PassIsCurrent'
      BY <1>3, <3>1 DEF PassIsCurrent, SayTheSame
    <3> QED BY <1>3, <2>1, <3>2 DEF NothingMissed
  <2>2. CASE pc = "idle"
    BY <1>3, <2>2 DEF NothingMissed, LastPassStands
  <2> QED BY <2>1, <2>2
<1>4. ASSUME pc \in DeletionSteps, pc' \in DeletionSteps, ~queued,
             UNCHANGED <<cache, gauges>>, SayTheSame(obj', obj)
      PROVE  NothingMissed'
  <2>1. PassIsCurrent
    BY <1>4 DEF NothingMissed, DeletionSteps, PurgeSteps
  <2>2. PassIsCurrent'
    BY <1>4, <2>1 DEF PassIsCurrent, SayTheSame, DeletionSteps, PurgeSteps
  <2> QED BY <1>4, <2>2 DEF NothingMissed, DeletionSteps, PurgeSteps
<1>5. CASE StartPass
  <2>1. CASE ~cache.exists
    BY <1>5, <2>1 DEF StartPass, BeginDeletion, BeginProvisioning, NothingMissed, CopiesInv
  <2>2. CASE BeginDeletion /\ ~cache.finalizer
    <3>1. gauges' = {} /\ pc' = "idle" /\ cr' = cr /\ fresh' = fresh
      BY <1>5, <2>2 DEF StartPass, BeginDeletion
    <3>2. fresh => cr.deleting
      BY <2>2 DEF BeginDeletion, CopiesInv
    <3> QED BY <3>1, <3>2 DEF NothingMissed, LastPassStands
  <2>3. CASE BeginDeletion /\ cache.finalizer
    <3>1. SayTheSame(obj', cache) /\ cache.deleting
      BY <2>3, <1>a, StatusAside DEF BeginDeletion
    <3> QED BY <1>5, <2>3, <3>1
         DEF StartPass, BeginDeletion, NothingMissed, PassIsCurrent, SayTheSame
  <2>4. CASE BeginProvisioning
    <3>1. SayTheSame(obj', cache) /\ ~cache.deleting
      BY <2>4, <1>a, StatusAside DEF BeginProvisioning
    <3> QED BY <1>5, <2>4, <3>1
         DEF StartPass, BeginProvisioning, NothingMissed, PassIsCurrent, SayTheSame
  <2> QED BY <1>5, <2>1, <2>2, <2>3, <2>4 DEF StartPass
<1>6. CASE AddFinalizer \/ RemoveFinalizer
  BY <1>1, <1>6 DEF AddFinalizer, RemoveFinalizer, UpdateFinalizer, Store, EndPass
<1>7. CASE Deploy
  <2>1. SayTheSame(obj', obj)
    BY <1>7, <1>a, StatusAside DEF Deploy
  <2>2. PassIsCurrent /\ ~obj.deleting /\ obj.finalizer /\ pc' = "report"
    BY <1>7 DEF Deploy, NothingMissed, CopiesInv
  <2>3. \/ obj'.status.state \in {"Error", "Processing"}
        \/ obj'.status.state = "Ready" /\ deployed' = obj.uid
    <3>1. obj.status \in Statuses
      BY <1>a DEF CRs
    <3>2. \A status : [obj EXCEPT !.status = status].status = status
      BY <1>a DEF CRs
    <3>3. CASE \/ obj' = [obj EXCEPT !.status = ReadyStatus(obj.status)]
                    /\ deployed' = obj.uid
               \/ obj' = [obj EXCEPT !.status = WaitingStatus(obj.status)]
      BY <3>1, <3>2, <3>3, ReportedStates
    <3>4. CASE obj' = [obj EXCEPT !.status = FailedStatus(obj.status)]
      BY <3>1, <3>2, <3>4, ReportedStates
    <3> QED BY <1>7, <3>3, <3>4 DEF Deploy, OwnerReference
  <2>4. SayTheSame(obj', cache') /\ ("clusterSize" \in gauges' <=> ~obj'.deleting)
    BY <1>7, <2>1, <2>2 DEF Deploy, PassIsCurrent, SayTheSame
  <2>5. PassIsCurrent'
    BY <2>1, <2>2, <2>3, <2>4 DEF PassIsCurrent, SayTheSame
  <2> QED BY <2>2, <2>5 DEF NothingMissed
\* The last word on the resource is the one its copy has already.
<1>8. CASE Report
  <2>1. CASE ~fresh'
    BY <1>1, <1>8, <2>1 DEF Report, SyncStatus, EndPass
  <2>2. CASE fresh'
    <3>1. /\ IsEqual(cache.status, obj.status) /\ ~queued
          /\ obj.status.state \notin {"Error", "Processing"}
          /\ pc' = "idle" /\ UNCHANGED <<cr, fresh, deployed, gauges>>
      BY <1>8, <2>2 DEF Report, SyncStatus, Store, EndPass
    <3>2. cr = cache /\ PassIsCurrent
      BY <1>8, <2>2, <3>1 DEF Report, CopiesInv, NothingMissed
    <3>3. cr.status.state = obj.status.state
      BY <3>1, <3>2 DEF IsEqual
    <3>4. LastPassStands
      BY <1>8, <3>1, <3>2, <3>3 DEF Report, LastPassStands, PassIsCurrent, SayTheSame, CopiesInv
    <3> QED BY <3>1, <3>4 DEF NothingMissed, LastPassStands
  <2> QED BY <2>1, <2>2
<1>9. CASE Block
  <2>1. FALSE
    BY <1>9 DEF Block, SyncStatus, EndPass
  <2> QED BY <2>1
<1>10. CASE Connect \/ CloseNatsClient
  BY <1>4, <1>b, <1>10 DEF Connect, CloseNatsClient, DeletionSteps, PurgeSteps
<1>11. CASE CustomerStreamExists \/ SapStreamExists \/ SapConsumerExists
  <2>1. SayTheSame(obj', obj)
    BY <1>11, <1>a, <1>b, StatusAside
       DEF CustomerStreamExists, SapStreamExists, SapConsumerExists, Query,
           CheckCustomerStreams, CheckSapStream, CheckConsumers, Blocked
  <2> QED BY <1>4, <1>11, <2>1
     DEF CustomerStreamExists, SapStreamExists, SapConsumerExists, Query,
         CheckCustomerStreams, CheckSapStream, CheckConsumers, DeletionSteps, PurgeSteps
<1>12. CASE ListPVCs
  BY <1>4, <1>b, <1>12 DEF ListPVCs, EndPass, DeletionSteps, PurgeSteps
<1>13. ASSUME NEW p \in OwnPVCs, DeletePVC(p) PROVE NothingMissed'
  <2>1. /\ pc = "deletePVCs" /\ ~queued /\ UNCHANGED <<cr, cache, fresh, gauges, deployed>>
        /\ cache' = cache
    <3>1. queued \in BOOLEAN
      BY DEF TypeOK
    <3> QED BY <1>13, <3>1 DEF DeletePVC, EndPass
  <2>2. CASE pc' = "idle"
    BY <1>2, <2>1, <2>2 DEF DeletionSteps, PurgeSteps
  <2>3. CASE pc' = pc /\ obj' = obj
    BY <1>4, <1>b, <2>1, <2>3 DEF DeletionSteps, PurgeSteps
  <2> QED BY <1>13, <2>2, <2>3 DEF DeletePVC, EndPass
<1>14. CASE CacheSync \/ Event \/ CollectGarbage \/ RemoveResources
  <2>1. FALSE
    BY <1>14 DEF CacheSync, Event, Enqueue, CollectGarbage, RemoveResources, Undeploy
  <2> QED BY <2>1
<1>15. CASE PVCSync \/ CreateCR \/ DeleteCR \/ TouchCR \/ CalmDown
  BY <1>3, <1>b, <1>15 DEF PVCSync, CreateCR, DeleteCR, TouchCR, CalmDown, Store
<1>16. ASSUME NEW p \in OwnPVCs, ProvisionPVC(p) \/ ReleasePVC(p) PROVE NothingMissed'
  BY <1>3, <1>b, <1>16 DEF ProvisionPVC, ReleasePVC
<1>17. CASE ServerStep \/ ConnectionLost \/ ConnectionStep
  BY <1>3, <1>b, <1>17 DEF ServerStep, ConnectionLost, ConnectionStep
<1>18. CASE Crash
  BY <1>18 DEF Crash, NothingMissed
<1>19. CASE UNCHANGED vars
  BY <1>3, <1>b, <1>19 DEF vars
<1> QED
  BY <1>5, <1>6, <1>7, <1>8, <1>9, <1>10, <1>11, <1>12, <1>13, <1>14, <1>15,
     <1>16, <1>17, <1>18, <1>19
  DEF Next, Work, Environment

LEMMA RestInvNext == RestInv /\ [Next]_vars => RestInv'
BY NextType, CopiesInvNext, ZonesInvNext, NothingMissedNext DEF RestInv

\* Whatever fails, is lost or comes twice: at rest a resource that is to be
\* deployed is, under its finalizer, and is called ready (handleNATSReconcile,
\* syncNATSStatus, the requeues of Reconcile).
THEOREM SettledMeansDeployed == Spec => []SettledIsDeployed
<1>1. RestInv => SettledIsDeployed
  BY DEF RestInv, NothingMissed, LastPassStands, Settled, SettledIsDeployed
<1> QED BY RestInvInit, RestInvNext, <1>1, PTL DEF Spec

\* Whatever fails, is lost or comes twice: at rest the cluster size is exported
\* exactly for a resource that is not being deleted, and no zones are for one that
\* is gone (handleNATSReconcile and handleNATSDeletion, metrics.go).
THEOREM SettledMeansExported == Spec => []SettledGauges
<1>1. RestInv => SettledGauges
  BY DEF RestInv, ZonesInv, NothingMissed, LastPassStands, Settled, SettledGauges
<1> QED BY RestInvInit, RestInvNext, <1>1, PTL DEF Spec

===============================================================================
