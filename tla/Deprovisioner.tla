---------------------------- MODULE Deprovisioner ----------------------------
(***************************************************************************)
(* The life of the NATS resource under the controller, with its deletion   *)
(* in detail: internal/controller/nats/deprovisioner.go, the dispatch in   *)
(* controller.go, the status write in status.go, the finalizer in utils.go *)
(* and DeletePVCsWithLabel in pkg/k8s/client.go.                           *)
(*                                                                         *)
(* One worker reconciles (MaxConcurrentReconciles is 1), so there is one   *)
(* program counter.  Every call that leaves the process is a step of its   *)
(* own; between two of them the user, the API server, the informers, the   *)
(* StatefulSet and garbage collectors and the NATS server may all move.    *)
(*                                                                         *)
(* Abstractions:                                                           *)
(*   - reads of the resource go to the informer cache, which trails the    *)
(*     API server.  A write succeeds only from the stored version; the     *)
(*     versions are the two flags fresh and objFresh.                      *)
(*   - a provisioning pass is two steps (deploy and look, report) for a    *)
(*     cluster of one node; module Provisioner has its detail.             *)
(*   - the resource has no finalizer but the controller's.                 *)
(*   - deployed is the UID in the owner reference of the deployed objects, *)
(*     which come and go together.                                         *)
(*   - volumes without the instance label or the name prefix are not       *)
(*     listed, or skipped, by the code and are left out.                   *)
(***************************************************************************)
EXTENDS NatsStatus, NatsClient

CONSTANTS
  OwnPVCs,          \* the volume claims with the label and prefix of the resource
  MaxIncarnations,  \* bound: how often the user creates the resource
  Disruptions       \* what may go wrong before the environment calms down

DisruptionKinds == {"server", "query", "fault", "crash", "touch", "resources"}

ASSUME DeprovisionerAssumption ==
  /\ MaxIncarnations \in Nat
  /\ Disruptions \subseteq DisruptionKinds

VARIABLES
  cr,         \* the resource in the API server
  cache,      \* the informer's copy of it
  fresh,      \* the copy has the version the API server stores
  queued,     \* the resource is in the work queue
  pc,         \* where the pass is, "idle" between passes
  obj,        \* the pass's working copy of the resource
  objFresh,   \* that copy has the version the API server stores
  todo,       \* the claims the pass listed and has not deleted yet
  deployed,   \* UID that owns the deployed objects, 0 if there are none
  pvc,        \* the volume claims in the API server
  pvcCache,   \* the claims the informer knows
  gauges,     \* the metrics that have a value
  calm,       \* no more disruptions
  held        \* history: what has kept the data in use all through this pass

apiVars    == <<cr, fresh, objFresh>>
passVars   == <<pc, obj, todo>>
volumeVars == <<pvc, pvcCache>>
vars == <<serverVars, clientVars, cr, cache, fresh, queued, pc, obj, objFresh,
          todo, deployed, pvc, pvcCache, gauges, calm, held>>

Gone(uid) ==
  [exists |-> FALSE, uid |-> uid, deleting |-> FALSE, finalizer |-> FALSE,
   status |-> NewStatus]

PurgeSteps    == {"listPVCs", "deletePVCs", "removeFinalizer"}
DeletionSteps == {"connect", "streams", "sapStream", "consumers", "block"}
                   \cup PurgeSteps
Steps         == {"idle", "provision", "report"} \cup DeletionSteps

Allowed(kind) == ~calm /\ kind \in Disruptions

\* Any call to the API server, and any to the NATS server, may fail for
\* reasons outside the model.
CallsMayFail   == Allowed("fault")
QueriesMayFail == Allowed("query")

Init ==
  /\ ClientInitial
  /\ cr = Gone(0) /\ cache = Gone(0) /\ fresh = TRUE
  /\ queued = FALSE
  /\ pc = "idle" /\ obj = Gone(0) /\ objFresh = FALSE /\ todo = {}
  /\ deployed = 0
  /\ pvc = [p \in OwnPVCs |-> "absent"] /\ pvcCache = {}
  /\ gauges = {}
  /\ calm = FALSE
  /\ held = {}

-------------------------------------------------------------------------------
(* Data in use, as the code means it: a customer stream, or a consumer of  *)
(* the stream "sap", on a server that can be asked.  held keeps what was   *)
(* there when the pass began and at every moment since.                    *)

Holding ==
  {h \in {"customer", "consumer"} :
     /\ up
     /\ h = "customer" => CustomerStreamHeld
     /\ h = "consumer" => SapConsumerHeld}

-------------------------------------------------------------------------------
(* The end of a pass and the writes to the resource.                       *)

EndPass(requeue) ==
  /\ pc' = "idle" /\ obj' = Gone(0) /\ objFresh' = FALSE /\ todo' = {}
  /\ held' = {}
  /\ queued' = (queued \/ requeue)

\* A stored change makes the informer's copy an old one.
Store(newCr) == cr' = newCr /\ fresh' = FALSE

\* Mutant: a failed update ends the pass as if it had been made.
UpdateFinalizerUnchecked(newCr) ==
  \/ objFresh /\ Store(newCr) /\ EndPass(FALSE)
  \/ (~objFresh \/ CallsMayFail) /\ EndPass(FALSE) /\ UNCHANGED <<cr, fresh>>

\* Update of a finalizer from the pass's copy: refused if that copy is old.
UpdateFinalizer(newCr) ==
  \/ objFresh /\ Store(newCr) /\ EndPass(FALSE)
  \/ (~objFresh \/ CallsMayFail) /\ EndPass(TRUE) /\ UNCHANGED <<cr, fresh>>

\* syncNATSStatus: the status goes onto the informer's copy as it is now, and
\* is written only if it differs from the status in that copy.
SyncStatus(status, requeue) ==
  \/ /\ cache.exists /\ IsEqual(cache.status, status)
     /\ EndPass(requeue) /\ UNCHANGED <<cr, fresh>>
  \/ /\ cache.exists /\ ~IsEqual(cache.status, status) /\ fresh
     /\ Store([cr EXCEPT !.status = status]) /\ EndPass(requeue)
  \/ /\ \/ ~cache.exists
        \/ ~IsEqual(cache.status, status) /\ (~fresh \/ CallsMayFail)
     /\ EndPass(TRUE) /\ UNCHANGED <<cr, fresh>>

-------------------------------------------------------------------------------
(* Reconcile: the worker takes the resource from the queue and dispatches. *)

\* Mutant: the metrics are left as they are.
BeginDeletionKeepsGauges ==
  /\ cache.exists /\ cache.deleting
  /\ IF cache.finalizer
     THEN /\ pc' = "connect"
          /\ obj' = [cache EXCEPT !.status = SetStateDeleting(@)]
          /\ objFresh' = fresh
          /\ held' = Holding
     ELSE UNCHANGED <<pc, obj, objFresh, held>>
  /\ UNCHANGED gauges

\* handleNATSDeletion up to its first call: the metrics are reset whatever
\* resource it is; without the finalizer there is nothing more to do.
BeginDeletion ==
  /\ cache.exists /\ cache.deleting
  /\ gauges' = {}
  /\ IF cache.finalizer
     THEN /\ pc' = "connect"
          /\ obj' = [cache EXCEPT !.status = SetStateDeleting(@)]
          /\ objFresh' = fresh
          /\ held' = Holding
     ELSE UNCHANGED <<pc, obj, objFresh, held>>

\* handleNATSReconcile up to its first call.
BeginProvisioning ==
  /\ cache.exists /\ ~cache.deleting
  /\ gauges' = gauges \cup {"clusterSize"}
  /\ pc' = "provision"
  /\ obj' = [cache EXCEPT !.status = Initialize(@)]
  /\ objFresh' = fresh
  /\ UNCHANGED held

StartPass ==
  /\ pc = "idle" /\ queued
  /\ queued' = FALSE
  /\ \/ ~cache.exists /\ UNCHANGED <<pc, obj, objFresh, gauges, held>>
     \/ BeginDeletion
     \/ BeginProvisioning
  /\ UNCHANGED <<serverVars, clientVars, cr, cache, fresh, todo, deployed,
                 volumeVars, calm>>

\* handleNATSReconcile, first visit: the finalizer is set and the pass ends;
\* the event of that very write is what brings the controller back.
AddFinalizer ==
  /\ pc = "provision" /\ ~obj.finalizer
  /\ UpdateFinalizer([cr EXCEPT !.finalizer = TRUE])
  /\ UNCHANGED <<serverVars, clientVars, cache, deployed, volumeVars, gauges,
                 calm>>

ReadyStatus(ns) ==
  UpdateConditionAvailabilityZones(
    [SetURL(SetStateReady(ns), ServiceURL) EXCEPT !.zones = 1],
    "False", "NotConfigured", "not-in-cluster-mode")

WaitingStatus(ns) ==
  [SetWaitingStateForStatefulSet(ClearURL(ns)) EXCEPT !.zones = 0]

FailedStatus(ns) ==
  UpdateConditionAvailable(SetStateError(ns), "False", "FailedProcessing",
    "deploy-failed")

\* What ties an object to the copy of the resource it is deployed for.
OwnerReference(copy) == copy.uid

\* Mutant: the objects are applied before the finalizer is there.
DeployUnguarded ==
  /\ pc = "provision" /\ pc' = "report"
  /\ deployed' = OwnerReference(obj) /\ gauges' = gauges \cup {"zones"}
  /\ obj' \in {[obj EXCEPT !.status = st] :
                 st \in {ReadyStatus(obj.status), WaitingStatus(obj.status)}}
  /\ UNCHANGED <<serverVars, clientVars, cr, cache, fresh, queued, objFresh,
                 todo, volumeVars, calm, held>>

\* The rendered objects are applied, in order, with an owner reference to the
\* copy's UID, and looked at; a failed call may leave the first of them changed.
Deploy ==
  /\ pc = "provision" /\ obj.finalizer
  /\ pc' = "report"
  /\ \/ /\ deployed' = OwnerReference(obj) /\ gauges' = gauges \cup {"zones"}
        /\ obj' \in {[obj EXCEPT !.status = st] :
                       st \in {ReadyStatus(obj.status), WaitingStatus(obj.status)}}
     \/ /\ CallsMayFail
        /\ deployed' \in {deployed, OwnerReference(obj)}
        /\ obj' = [obj EXCEPT !.status = FailedStatus(@)]
        /\ UNCHANGED gauges
  /\ UNCHANGED <<serverVars, clientVars, cr, cache, fresh, queued, objFresh,
                 todo, volumeVars, calm, held>>

\* An error is retried, and a cluster that is not ready asked for again.
Report ==
  /\ pc = "report"
  /\ SyncStatus(obj.status, obj.status.state \in {"Error", "Processing"})
  /\ UNCHANGED <<serverVars, clientVars, cache, deployed, volumeVars, gauges,
                 calm>>

-------------------------------------------------------------------------------
(* handleNATSDeletion.  Whatever keeps the code from asking the server     *)
(* sends it on to the volumes: held forgets what could not be seen.        *)

\* Mutant: a server that is not there is waited for.
ConnectOrRetry ==
  /\ pc = "connect"
  /\ client' = TRUE
  /\ \/ /\ ClientInit /\ pc' = "streams"
        /\ UNCHANGED <<queued, obj, objFresh, todo, held>>
     \/ ClientInitFails(QueriesMayFail) /\ EndPass(TRUE)
  /\ UNCHANGED <<serverVars, cr, fresh, cache, deployed, volumeVars, gauges, calm>>

Connect ==
  /\ pc = "connect"
  /\ client' = TRUE
  /\ \/ ClientInit /\ pc' = "streams" /\ UNCHANGED held
     \/ ClientInitFails(QueriesMayFail) /\ pc' = "listPVCs" /\ held' = {}
  /\ UNCHANGED <<serverVars, apiVars, cache, queued, obj, todo, deployed,
                 volumeVars, gauges, calm>>

\* Mutant: only the state is set, from which the next report takes it away.
BlockedWithoutCondition(message) == [obj EXCEPT !.status = SetStateWarning(@)]

Blocked(message) ==
  [obj EXCEPT !.status =
     UpdateConditionDeletion(SetStateWarning(@), "False", "DeletionError", message)]

StreamExistsErrorMsg   == "customer-stream-exists"
ConsumerExistsErrorMsg == "stream-consumer-exists"

\* A query ends in an answer or in an error.
Query(step, answered) ==
  /\ pc = step
  /\ \/ answered /\ UNCHANGED held
     \/ QueriesMayFail /\ pc' = "listPVCs" /\ held' = {} /\ UNCHANGED obj
  /\ UNCHANGED <<serverVars, clientVars, apiVars, cache, queued, todo, deployed,
                 volumeVars, gauges, calm>>

\* Mutant: the loop ends at the stream "sap".
CheckUpToSapStream(listing) ==
  IF listing \cap CustomerStreams # {} /\ SapStreamName \notin listing
  THEN pc' = "block" /\ obj' = Blocked(StreamExistsErrorMsg)
  ELSE pc' = "sapStream" /\ UNCHANGED obj

CheckCustomerStreams(listing) ==
  IF listing \cap CustomerStreams # {}
  THEN pc' = "block" /\ obj' = Blocked(StreamExistsErrorMsg)
  ELSE pc' = "sapStream" /\ UNCHANGED obj

CustomerStreamExists ==
  Query("streams", \E listing \in Listings : CheckCustomerStreams(listing))

CheckSapStream(listing) ==
  /\ pc' = IF SapStreamName \in listing THEN "consumers" ELSE "listPVCs"
  /\ UNCHANGED obj

SapStreamExists ==
  Query("sapStream", \E listing \in Listings : CheckSapStream(listing))

CheckConsumers(exist) ==
  IF exist
  THEN pc' = "block" /\ obj' = Blocked(ConsumerExistsErrorMsg)
  ELSE pc' = "listPVCs" /\ UNCHANGED obj

SapConsumerExists ==
  Query("consumers", \E exist \in ConsumerAnswers : CheckConsumers(exist))

\* Mutant: the block is reported and not returned as an error.
BlockQuietly ==
  /\ pc = "block"
  /\ SyncStatus(obj.status, FALSE)
  /\ UNCHANGED <<serverVars, clientVars, cache, deployed, volumeVars, gauges,
                 calm>>

Block ==
  /\ pc = "block"
  /\ SyncStatus(obj.status, TRUE)
  /\ UNCHANGED <<serverVars, clientVars, cache, deployed, volumeVars, gauges,
                 calm>>

-------------------------------------------------------------------------------
(* deletePVCsAndRemoveFinalizer.                                           *)

\* The claims are listed from the informer's cache.
ListPVCs ==
  /\ pc = "listPVCs"
  /\ \/ /\ pc' = "deletePVCs" /\ todo' = pvcCache
        /\ UNCHANGED <<queued, obj, objFresh, held>>
     \/ CallsMayFail /\ EndPass(TRUE)
  /\ UNCHANGED <<serverVars, clientVars, cr, cache, fresh, deployed, volumeVars,
                 gauges, calm>>

\* Mutant: a claim that is still terminating is waited for.
DeletePVCAndWait(p) ==
  /\ pc = "deletePVCs" /\ p \in todo
  /\ \/ pvc' = [pvc EXCEPT ![p] = "terminating"] /\ EndPass(TRUE)
     \/ pvc[p] = "absent" /\ EndPass(FALSE) /\ UNCHANGED pvc
  /\ UNCHANGED <<serverVars, clientVars, cr, cache, fresh, deployed, pvcCache,
                 gauges, calm>>

\* Mutant: a claim that cannot be deleted is left for the next one.
DeletePVCOrSkip(p) ==
  /\ pc = "deletePVCs" /\ p \in todo
  /\ todo' = todo \ {p}
  /\ \/ pvc[p] # "absent" /\ pvc' = [pvc EXCEPT ![p] = "terminating"]
     \/ (pvc[p] = "absent" \/ CallsMayFail) /\ UNCHANGED pvc
  /\ UNCHANGED <<serverVars, clientVars, cr, cache, fresh, deployed, pvcCache,
                 gauges, calm, queued, pc, obj, objFresh, held>>

\* A claim that is gone by now ends the pass without an error: nothing is
\* requeued, and the finalizer and the client stay.
DeletePVC(p) ==
  /\ pc = "deletePVCs" /\ p \in todo
  /\ \/ /\ pvc[p] # "absent"
        /\ pvc' = [pvc EXCEPT ![p] = "terminating"]
        /\ todo' = todo \ {p}
        /\ UNCHANGED <<queued, pc, obj, objFresh, held>>
     \/ pvc[p] = "absent" /\ EndPass(FALSE) /\ UNCHANGED pvc
     \/ CallsMayFail /\ EndPass(TRUE) /\ UNCHANGED pvc
  /\ UNCHANGED <<serverVars, clientVars, cr, cache, fresh, deployed, pvcCache,
                 gauges, calm>>

CloseNatsClient ==
  /\ pc = "deletePVCs" /\ todo = {}
  /\ CloseClient
  /\ pc' = "removeFinalizer"
  /\ UNCHANGED <<serverVars, apiVars, cache, queued, obj, todo, deployed,
                 volumeVars, gauges, calm, held>>

\* With its last finalizer the resource disappears.
RemoveFinalizer ==
  /\ pc = "removeFinalizer"
  /\ UpdateFinalizer(Gone(cr.uid))
  /\ UNCHANGED <<serverVars, clientVars, cache, deployed, volumeVars, gauges,
                 calm>>

Work ==
  \/ StartPass
  \/ AddFinalizer \/ Deploy \/ Report
  \/ Connect \/ CustomerStreamExists \/ SapStreamExists \/ SapConsumerExists
  \/ Block
  \/ ListPVCs \/ (\E p \in OwnPVCs : DeletePVC(p)) \/ CloseNatsClient
  \/ RemoveFinalizer

-------------------------------------------------------------------------------
(* The informers and the events that fill the queue.                       *)

CacheSync ==
  /\ ~fresh
  /\ cache' = cr /\ fresh' = TRUE
  /\ queued' = TRUE
  /\ UNCHANGED <<serverVars, clientVars, cr, passVars, objFresh, deployed,
                 volumeVars, gauges, calm, held>>

Existing == {p \in OwnPVCs : pvc[p] # "absent"}

PVCSync ==
  /\ pvcCache # Existing
  /\ pvcCache' = Existing
  /\ UNCHANGED <<serverVars, clientVars, apiVars, cache, queued, passVars,
                 deployed, pvc, gauges, calm, held>>

\* Events of owned objects and of pods, and the periodic resync.
Enqueue ==
  /\ ~queued
  /\ queued' = TRUE
  /\ UNCHANGED <<serverVars, clientVars, apiVars, cache, passVars, deployed,
                 volumeVars, gauges, calm, held>>

Event  == Enqueue
Resync == cache.exists /\ Enqueue

-------------------------------------------------------------------------------
(* The user.                                                               *)

CreateCR ==
  /\ ~cr.exists /\ cr.uid < MaxIncarnations
  /\ Store([Gone(cr.uid + 1) EXCEPT !.exists = TRUE])
  /\ objFresh' = FALSE
  /\ UNCHANGED <<serverVars, clientVars, cache, queued, passVars, deployed,
                 volumeVars, gauges, calm, held>>

DeleteCR ==
  /\ cr.exists /\ ~cr.deleting
  /\ Store(IF cr.finalizer THEN [cr EXCEPT !.deleting = TRUE] ELSE Gone(cr.uid))
  /\ objFresh' = FALSE
  /\ UNCHANGED <<serverVars, clientVars, cache, queued, passVars, deployed,
                 volumeVars, gauges, calm, held>>

\* Any other change of the resource, of which only the new version matters.
TouchCR ==
  /\ Allowed("touch") /\ cr.exists
  /\ fresh' = FALSE /\ objFresh' = FALSE
  /\ UNCHANGED <<serverVars, clientVars, cr, cache, queued, passVars, deployed,
                 volumeVars, gauges, calm, held>>

-------------------------------------------------------------------------------
(* The cluster's own controllers.                                          *)

\* The deployed objects go, and the server with them; the streams are as
\* lasting as the volumes they are stored on.
Undeploy ==
  /\ deployed' = 0
  /\ up' = FALSE
  /\ IF \E p \in OwnPVCs : pvc[p] = "bound"
     THEN UNCHANGED <<streams, consumers>>
     ELSE streams' = {} /\ consumers' = FALSE
  /\ held' = {}
  /\ queued' = TRUE
  /\ UNCHANGED <<clientVars, apiVars, cache, passVars, volumeVars, gauges, calm>>

\* Objects whose owner does not exist are collected.
CollectGarbage ==
  /\ deployed # 0
  /\ ~(cr.exists /\ cr.uid = deployed)
  /\ Undeploy

RemoveResources ==
  /\ Allowed("resources") /\ deployed # 0
  /\ Undeploy

\* The StatefulSet controller creates the claims its pods lack.
ProvisionPVC(p) ==
  /\ deployed # 0 /\ pvc[p] = "absent"
  /\ pvc' = [pvc EXCEPT ![p] = "bound"]
  /\ UNCHANGED <<serverVars, clientVars, apiVars, cache, queued, passVars,
                 deployed, pvcCache, gauges, calm, held>>

\* A claim being deleted goes once no pod uses it.
ReleasePVC(p) ==
  /\ pvc[p] = "terminating"
  /\ pvc' = [pvc EXCEPT ![p] = "absent"]
  /\ UNCHANGED <<serverVars, clientVars, apiVars, cache, queued, passVars,
                 deployed, pvcCache, gauges, calm, held>>

-------------------------------------------------------------------------------
(* The NATS server, its users, and the connection.                         *)

ServerActions ==
  \/ deployed # 0 /\ ServerUp
  \/ ServerDown
  \/ \E s \in StreamNames : CreateStream(s) \/ DeleteStream(s)
  \/ ChangeConsumers

restVars == <<apiVars, cache, queued, passVars, deployed, volumeVars, gauges, calm>>

ServerStep ==
  /\ Allowed("server")
  /\ ServerActions
  /\ held' = held \cap Holding'
  /\ UNCHANGED restVars

ConnectionLost ==
  /\ ~up \/ Allowed("server")
  /\ ConnectionDrops
  /\ held' = {}
  /\ UNCHANGED restVars

ConnectionStep ==
  /\ ConnectionRecovers \/ ConnectionGivesUp \/ LostGivesUp
  /\ UNCHANGED <<restVars, held>>

\* The process dies and a new one starts, with caches listed afresh.
Crash ==
  /\ Allowed("crash")
  /\ pc' = "idle" /\ obj' = Gone(0) /\ objFresh' = FALSE /\ todo' = {}
  /\ held' = {}
  /\ client' = FALSE /\ conn' = "none" /\ lost' = FALSE
  /\ cache' = cr /\ fresh' = TRUE /\ queued' = cr.exists
  /\ pvcCache' = Existing
  /\ gauges' = {}
  /\ UNCHANGED <<serverVars, cr, deployed, pvc, calm>>

CalmDown ==
  /\ ~calm /\ calm' = TRUE
  /\ UNCHANGED <<serverVars, clientVars, apiVars, cache, queued, passVars,
                 deployed, volumeVars, gauges, held>>

Environment ==
  \/ CacheSync \/ PVCSync \/ Event
  \/ CreateCR \/ DeleteCR \/ TouchCR
  \/ CollectGarbage \/ RemoveResources
  \/ \E p \in OwnPVCs : ProvisionPVC(p) \/ ReleasePVC(p)
  \/ ServerStep \/ ConnectionLost \/ ConnectionStep
  \/ Crash \/ CalmDown

Next == Work \/ Environment

\* The worker and the informers are goroutines that keep running, and the
\* manager resyncs periodically.  Nothing is assumed of users and servers.
Fairness ==
  /\ WF_vars(Work)
  /\ WF_vars(CacheSync) /\ WF_vars(PVCSync) /\ WF_vars(Resync)

Spec == Init /\ [][Next]_vars /\ Fairness

-------------------------------------------------------------------------------
(* Properties.                                                             *)

Incarnations == 0..MaxIncarnations

CRs ==
  [exists : BOOLEAN, uid : Incarnations, deleting : BOOLEAN, finalizer : BOOLEAN,
   status : Statuses]

\* Every variable holds a value of its kind: what the handlers of the package,
\* the informers and the API server hand to each other.
TypeOK ==
  /\ ClientTypeOK
  /\ cr \in CRs /\ cache \in CRs /\ obj \in CRs
  /\ fresh \in BOOLEAN /\ objFresh \in BOOLEAN /\ queued \in BOOLEAN
  /\ pc \in Steps
  /\ todo \subseteq OwnPVCs
  /\ deployed \in Incarnations
  /\ pvc \in [OwnPVCs -> {"absent", "bound", "terminating"}]
  /\ pvcCache \subseteq OwnPVCs
  /\ gauges \subseteq {"clusterSize", "zones"}
  /\ calm \in BOOLEAN
  /\ held \subseteq {"customer", "consumer"}

\* A pass that gets to the volumes (deletePVCsAndRemoveFinalizer) has not had
\* data in use before its eyes all along: a customer stream, or a consumer of
\* the stream "sap", that was there from the beginning of the pass, on a server
\* and a connection that worked all the time, stops handleNATSDeletion.
DataInUseIsKept == pc \in PurgeSteps => held = {}

\* What the controller deployed for a resource that still exists is covered by
\* its finalizer, whatever copies addFinalizer, Deploy and removeFinalizer work
\* from: the resource cannot go without the checks of handleNATSDeletion.
DeployedIsFinalized == cr.exists /\ deployed = cr.uid => cr.finalizer

\* Nothing is running, queued or on its way to the informer.
Settled == pc = "idle" /\ ~queued /\ fresh

\* The controller does not come to rest on a resource that is to be deployed
\* and is not, or is not called ready: addFinalizer ends its pass with no
\* requeue, failed calls and conflicts end it with one, removed objects bring the
\* resource back, and no status of a deletion under way, or of an earlier
\* resource of the same name, is left as the last word on its state.
SettledIsDeployed ==
  Settled /\ cr.exists /\ ~cr.deleting =>
    cr.finalizer /\ deployed = cr.uid /\ cr.status.state = "Ready"

\* At rest the cluster size is exported exactly for a resource that is not
\* being deleted, though the pass that deploys sets the gauge and the pass that
\* deletes resets it, each from a copy that may be old; and the zones of a
\* resource that was deployed do not outlive it.
SettledGauges ==
  Settled =>
    /\ cr.exists => ("clusterSize" \in gauges <=> ~cr.deleting)
    /\ ~cr.exists => "zones" \notin gauges

\* A connection that works is used again by the next pass, and closed at the end
\* of the deletion: no step of the controller leaves it open with nothing
\* referring to it.  (One that is reconnecting is left, see below.)
WorkingConnectionIsKept ==
  [][conn = "connected" /\ lost' => lost]_vars

\* With nothing in use (or no server to ask) and no more disruptions a deletion
\* comes to its end, through conflicts, claims that vanish from under the
\* listing (the resync) and whatever the pass before left behind.
NothingInUse == up => ~CustomerStreamHeld /\ ~SapConsumerHeld

DeletionCompletes ==
  calm /\ cr.exists /\ cr.deleting /\ NothingInUse ~> ~cr.exists

\* With no more disruptions a deletion that data in use holds up is reported
\* in the status of the resource, unless a pass had got past the checks before.
Reported ==
  /\ cr.status.state = "Warning"
  /\ FindCondition(cr.status, "Deleted").reason = "DeletionError"

BlockedIsReported ==
  calm /\ cr.exists /\ cr.deleting /\ up /\ CustomerStreamHeld
    ~> ~cr.exists \/ Reported \/ ~up

-------------------------------------------------------------------------------
(* The promise of module NatsLifecycle, kept.                              *)

\* Where the stored resource is in its life.
Life ==
  IF ~cr.exists THEN "absent"
  ELSE IF ~cr.finalizer THEN "bare"
  ELSE IF cr.deleting THEN "leaving" ELSE "protected"

Lifecycle == INSTANCE NatsLifecycle WITH
  Volumes  <- OwnPVCs,
  life     <- Life,
  deployed <- cr.exists /\ deployed = cr.uid,
  inUse    <- held # {},
  purging  <- pc \in PurgeSteps,
  due      <- todo,
  volumes  <- pvc

\* Through stale copies, conflicts, failed calls and restarts, the handlers do to
\* the resource and its volumes only what the promise allows: nothing deployed
\* without the finalizer, no volume deleted but in a purge, no purge of a
\* protected resource or past data in use, no end before the volumes it listed.
KeepsLifecycle == Lifecycle!Spec

\* The resource as module Reconciler has it: one of one.
Plain(copy) ==
  [exists |-> copy.exists, deleting |-> copy.deleting,
   finalizer |-> copy.finalizer, foreign |-> FALSE, status |-> copy.status]

Dispatch == INSTANCE Reconciler WITH
  Names      <- {"nats"},
  AllowedCR  <- "nats",
  Size       <- [n \in {"nats"} |-> 1],
  Foreground <- {},
  Verdicts   <- {"failed", "waiting", "single"},
  Failures   <- {"deploy-failed"},
  Blockers   <- {StreamExistsErrorMsg, ConsumerExistsErrorMsg},
  ZoneCounts <- {1},
  crs        <- [n \in {"nats"} |-> Plain(cr)],
  cache      <- [n \in {"nats"} |-> Plain(cache)],
  fresh      <- IF fresh THEN {"nats"} ELSE {},
  queue      <- IF queued THEN {"nats"} ELSE {},
  key        <- "nats",
  pc         <- IF pc \in DeletionSteps \ {"block"} THEN "delete" ELSE pc,
  obj        <- Plain(obj),
  gauge      <- IF "clusterSize" \in gauges THEN 1 ELSE 0,
  calm       <- FALSE

\* Behind the dispatch the whole deletion, call by call, does to the resource,
\* the queue and the exported size what module Reconciler lets a pass do: so what
\* holds there for several resources holds for these passes.
ImplementsDispatch == Dispatch!SafetySpec

-------------------------------------------------------------------------------
(* What the repository says and the code does not keep.                    *)

\* closeNatsClient ("close the nats connection and remove the client instance")
\* leaves no connection of the controller to the server open.
NoConnectionLeftBehind == pc = "removeFinalizer" => ~lost

\* Once the resource and the objects it owned are gone, so are its volumes
\* (e2e/cleanup: "verifies that all PVCs got removed").
NoVolumeLeftBehind ==
  ~cr.exists /\ deployed = 0 => \A p \in OwnPVCs : pvc[p] # "bound"

\* The controller does not come to rest on a resource it is to delete
\* (e2e/cleanup: "wanted the NATS CR to be deleted").  While pods remain their
\* events may still bring it back; here none do.
DeletionNotAbandoned ==
  Settled /\ cr.exists /\ deployed = 0 => ~cr.deleting

===============================================================================
