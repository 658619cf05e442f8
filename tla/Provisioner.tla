------------------------------ MODULE Provisioner ------------------------------
(***************************************************************************)
(* The provisioning pass in detail, for the NATS resource the controller   *)
(* is allowed to handle: internal/controller/nats/provisioner.go,          *)
(* initNATSInstance in controller.go, status.go, shoot_info.go, and below  *)
(* them pkg/manager (overrides, DeployInstance, IsNATSStatefulSetReady)    *)
(* and the chart values of pkg/k8s/chart.                                  *)
(*                                                                         *)
(* Abstractions:                                                           *)
(*   - the resource exists, is not being deleted and has its finalizer;    *)
(*     module Deprovisioner has the rest of its life.                      *)
(*   - of the spec: the cluster size, the file storage size (in Gi, 0 if   *)
(*     it is not set, immutable) and the labels.                           *)
(*   - of the rendered objects: the Secret, the StatefulSet and the        *)
(*     DestinationRule.  The Service, the ConfigMap and the                *)
(*     PodDisruptionBudget are applied and watched as the StatefulSet is.  *)
(*   - the three replica counters of the StatefulSet are the one number    *)
(*     they agree on, 0 while they do not.                                 *)
(*   - the zones of the pods' nodes are what the lookup returns; module    *)
(*     ZoneCache has the lookup.                                           *)
(***************************************************************************)
EXTENDS NatsStatus, FiniteSets

CONSTANTS
  Provider,     \* "provider" in the ConfigMap shoot-info, "" if there is none
  IstioAtStart, \* BOOLEAN: the CRD of the DestinationRule is there at first
  Specs,        \* the specs users write
  Labels,       \* the labels that occur in them
  ZoneCounts,   \* bound: in how many zones the pods may be found
  Disruptions   \* what may change or go wrong before the environment calms down

DisruptionKinds ==
  {"fault", "shootinfo", "crash", "edit", "objects", "labels", "pods", "istio"}

ASSUME ProvisionerAssumption ==
  /\ Provider \in {"", "alicloud"}
  /\ IstioAtStart \in BOOLEAN
  /\ Specs \subseteq [size : Nat \ {0}, storage : Nat, labels : SUBSET Labels]
  /\ ZoneCounts \subseteq Nat
  /\ Disruptions \subseteq DisruptionKinds

VARIABLES
  cr,          \* the resource in the API server: its spec and status
  cache,       \* the informer's copy of it
  fresh,       \* that copy has the version the API server stores
  queued,      \* the resource is in the work queue
  pc,          \* where the pass is, "idle" between passes
  obj,         \* the pass's working copy of the resource
  inst,        \* the release instance the pass renders and deploys
  todo,        \* the rendered objects the pass has not applied yet
  provider,    \* Reconciler.cloudProvider, "unknown" for nil
  chartLabels, \* the labels in the values of the loaded chart
  watching,    \* Reconciler.destinationRuleWatchStarted
  gauges,      \* the exported values
  crd,         \* the CRD of the DestinationRule is installed
  secret,      \* the password in the account Secret, 0 if it does not exist
  sts,         \* the StatefulSet
  dr,          \* the DestinationRule exists
  unlabelled,  \* the kinds of objects without the label the informers select by
  secretSeen,  \* the informer has the Secret
  stsSeen,     \* the StatefulSet as the informer has it
  behind,      \* the kinds whose last change the informers have not delivered
  podZones,    \* what looking up the zones of the pods gives
  calm         \* no more disruptions

processVars  == <<provider, chartLabels, watching, gauges>>
resourceVars == <<cr, cache, fresh>>
passVars     == <<pc, obj, inst, todo>>
objectVars   == <<crd, secret, sts, dr, unlabelled>>
seenVars     == <<secretSeen, stsSeen, behind>>
vars == <<resourceVars, queued, passVars, processVars, objectVars, seenVars,
          podZones, calm>>

Steps == {"idle", "init", "deploy", "state", "sync"}
Kinds == {"Secret", "StatefulSet", "DestinationRule"}

Sizes     == {spec.size : spec \in Specs}
Templates == [size : Sizes, storage : Nat, labels : SUBSET Labels]

NoCopy     == [spec |-> [size |-> 0, storage |-> 0, labels |-> {}], status |-> NewStatus]
NoInstance == [istio |-> FALSE, rotate |-> FALSE, want |-> NoCopy.spec]

\* counters is what the replica counters agree on; rolled says that the pods
\* run the template as it is now.
NoStatefulSet ==
  [exists |-> FALSE, want |-> NoCopy.spec, counters |-> 0, rolled |-> FALSE]

\* A node without the label keeps the lookup from counting the zones.
ZoneFindings ==
  {[labelled |-> FALSE, used |-> 0]} \cup [labelled : {TRUE}, used : ZoneCounts]

NoGauges == [size |-> 0, zones |-> 0]

Allowed(kind) == ~calm /\ kind \in Disruptions
CallsMayFail  == Allowed("fault")

Init ==
  /\ \E spec \in Specs : cr = [spec |-> spec, status |-> NewStatus]
  /\ cache = cr /\ fresh = TRUE
  /\ queued = TRUE
  /\ pc = "idle" /\ obj = NoCopy /\ inst = NoInstance /\ todo = {}
  /\ provider = "unknown" /\ chartLabels = {} /\ watching = FALSE
  /\ gauges = NoGauges
  /\ crd = IstioAtStart
  /\ secret = 0 /\ sts = NoStatefulSet /\ dr = FALSE /\ unlabelled = {}
  /\ secretSeen = FALSE /\ stsSeen = NoStatefulSet /\ behind = {}
  /\ podZones \in ZoneFindings
  /\ calm = FALSE

-------------------------------------------------------------------------------
(* handleNATSReconcile up to its first call to the API server.  Everything *)
(* it reads comes from the informers.                                      *)

\* The collector has one value of each metric, whatever resource it is of.
RecordClusterSizeMetric(size) == gauges' = [gauges EXCEPT !.size = size]
RecordAvailabilityZonesUsedMetric(zones) == gauges' = [gauges EXCEPT !.zones = zones]

\* The provider is read at most once.  A failed read leaves it unknown, and
\* the pass goes on.
SyncCloudProvider ==
  \/ provider # "unknown" /\ UNCHANGED provider
  \/ provider = "unknown" /\ provider' = Provider
  \/ provider = "unknown" /\ Allowed("shootinfo") /\ UNCHANGED provider

StartPass ==
  /\ pc = "idle" /\ queued
  /\ queued' = FALSE
  /\ pc' = "init"
  /\ obj' = [cache EXCEPT !.status = Initialize(@)]
  /\ RecordClusterSizeMetric(cache.spec.size)
  /\ SyncCloudProvider
  /\ UNCHANGED <<resourceVars, inst, todo, chartLabels, watching, objectVars,
                 seenVars, podZones, calm>>

-------------------------------------------------------------------------------
(* The status the pass ends with.                                          *)

\* syncNATSStatusWithErr before it writes.
Fail(status, message) ==
  /\ pc' = "sync"
  /\ obj' = [obj EXCEPT !.status =
               UpdateConditionAvailable(SetStateError(status),
                 "False", "FailedProcessing", message)]

-------------------------------------------------------------------------------
(* initNATSInstance: overrides, chart values, rendering.                   *)

\* A provider that is not known counts as none.
KnownProvider == IF provider = "unknown" THEN "" ELSE provider

MinFileSizeAlicloud == 20

BelowMinimum(spec, cloudProvider) ==
  /\ cloudProvider = "alicloud"
  /\ spec.storage # 0 /\ spec.storage < MinFileSizeAlicloud

\* Mutant: the default of the chart, wherever the cluster runs.
ResolveWithoutProvider(spec, cloudProvider) ==
  IF spec.storage # 0 THEN spec.storage ELSE 1

ResolveFileStorageSize(spec, cloudProvider) ==
  IF spec.storage # 0 THEN spec.storage
  ELSE IF cloudProvider = "alicloud" THEN MinFileSizeAlicloud
  ELSE 1

\* Mutant: the DestinationRule is rendered whether the cluster knows it or not.
RenderedAlways(istio, rotate) == Kinds

Rendered(istio, rotate) ==
  {k \in Kinds : /\ k = "Secret" => rotate
                 /\ k = "DestinationRule" => istio}

\* The overrides are merged into the values of the loaded chart, in place: a
\* label, once there, is there for every later rendering.
ChartLabels(spec) == chartLabels \cup spec.labels

\* Mutant: the chart is rendered with what the StatefulSet was given before.
TemplateKeepsSize(spec) ==
  [size    |-> IF stsSeen.exists THEN stsSeen.want.size ELSE spec.size,
   storage |-> ResolveFileStorageSize(spec, KnownProvider),
   labels  |-> ChartLabels(spec)]

Template(spec) ==
  [size    |-> spec.size,
   storage |-> ResolveFileStorageSize(spec, KnownProvider),
   labels  |-> ChartLabels(spec)]

IstioExists == crd

\* Mutant: the Secret is asked for under a name the chart does not give it.
SecretExistsUnderName == FALSE

SecretExists == secretSeen

GenerateNATSResources(istio, rotate) ==
  /\ inst' = [istio |-> istio, rotate |-> rotate, want |-> Template(obj.spec)]
  /\ todo' = Rendered(istio, rotate)
  /\ chartLabels' = ChartLabels(obj.spec)

\* The CRD is asked for at the API server, the Secret at the informer.
InitInstance ==
  /\ pc = "init"
  /\ \/ /\ ~BelowMinimum(obj.spec, KnownProvider)
        /\ GenerateNATSResources(IstioExists, ~SecretExists)
        /\ pc' = "deploy" /\ UNCHANGED obj
     \/ /\ BelowMinimum(obj.spec, KnownProvider) \/ CallsMayFail
        /\ Fail(obj.status, "init-failed")
        /\ UNCHANGED <<inst, todo, chartLabels>>
  /\ UNCHANGED <<resourceVars, queued, provider, watching, gauges, objectVars,
                 seenVars, podZones, calm>>

-------------------------------------------------------------------------------
(* DeployInstance: the objects are applied one by one; the first error     *)
(* ends the pass.                                                          *)

\* Passwords are told apart from the one they replace, and no further.
Passwords == {1, 2}

NewPassword == IF secret = 1 THEN 2 ELSE 1

\* A change of an object, which the informer has yet to deliver; of objects
\* without the label it hears nothing.
Changed(kind) ==
  behind' = IF kind \in unlabelled THEN behind ELSE behind \cup {kind}

\* Applying an object puts the label back, and the informer hears of that.
AppliedChange(kind) ==
  /\ behind' = behind \cup {kind}
  /\ unlabelled' = unlabelled \ {kind}

ApplyFails == Fail(obj.status, "deploy-failed") /\ UNCHANGED todo

Applied(kind) == todo' = todo \ {kind} /\ UNCHANGED <<pc, obj>>

\* The rendered Secret has a password of its own, whatever is there by now.
ApplySecret ==
  /\ pc = "deploy" /\ "Secret" \in todo
  /\ \/ secret' = NewPassword /\ AppliedChange("Secret") /\ Applied("Secret")
     \/ CallsMayFail /\ ApplyFails /\ UNCHANGED <<secret, behind, unlabelled>>
  /\ UNCHANGED <<resourceVars, queued, inst, processVars, crd, sts, dr,
                 secretSeen, stsSeen, podZones, calm>>

\* The claim templates of a StatefulSet cannot be changed.
ApplyStatefulSet ==
  /\ pc = "deploy" /\ "Secret" \notin todo /\ "StatefulSet" \in todo
  /\ \/ /\ ~sts.exists
        /\ sts' = [NoStatefulSet EXCEPT !.exists = TRUE, !.want = inst.want]
        /\ AppliedChange("StatefulSet") /\ Applied("StatefulSet")
     \/ /\ sts.exists /\ sts.want.storage = inst.want.storage
        /\ sts' = [sts EXCEPT !.want = inst.want,
                              !.rolled = @ /\ sts.want = inst.want]
        /\ IF sts' = sts /\ "StatefulSet" \notin unlabelled
           THEN UNCHANGED <<behind, unlabelled>> ELSE AppliedChange("StatefulSet")
        /\ Applied("StatefulSet")
     \/ /\ CallsMayFail \/ (sts.exists /\ sts.want.storage # inst.want.storage)
        /\ ApplyFails /\ UNCHANGED <<sts, behind, unlabelled>>
  /\ UNCHANGED <<resourceVars, queued, inst, processVars, crd, secret, dr,
                 secretSeen, stsSeen, podZones, calm>>

ApplyDestinationRule ==
  /\ pc = "deploy" /\ todo = {"DestinationRule"}
  /\ \/ /\ crd /\ dr' = TRUE
        /\ IF dr THEN UNCHANGED behind ELSE Changed("DestinationRule")
        /\ Applied("DestinationRule")
     \/ (~crd \/ CallsMayFail) /\ ApplyFails /\ UNCHANGED <<dr, behind>>
  /\ UNCHANGED <<resourceVars, queued, inst, processVars, crd, secret, sts,
                 unlabelled, secretSeen, stsSeen, podZones, calm>>

\* The watch of the DestinationRules is started once per process, after the
\* first of them has been applied; it does not report the ones it finds.
WatchDestinationRule ==
  /\ pc = "deploy" /\ todo = {}
  /\ \/ /\ ~inst.istio \/ watching
        /\ pc' = "state" /\ UNCHANGED <<obj, watching, behind>>
     \/ /\ inst.istio /\ ~watching
        /\ pc' = "state" /\ watching' = TRUE
        /\ behind' = behind \ {"DestinationRule"}
        /\ UNCHANGED obj
     \/ /\ inst.istio /\ ~watching /\ CallsMayFail
        /\ Fail(obj.status, "watch-failed")
        /\ UNCHANGED <<watching, behind>>
  /\ UNCHANGED <<resourceVars, queued, inst, todo, provider, chartLabels, gauges,
                 objectVars, secretSeen, stsSeen, podZones, calm>>

-------------------------------------------------------------------------------
(* handleNATSState.                                                        *)

StatefulSetFound == stsSeen.exists

IsNATSStatefulSetReady == stsSeen.counters = stsSeen.want.size

MinClusterSize == 3

\* Mutant: the metric is left as it was.
ReportKeepsGauge(status, zones) ==
  /\ pc' = "sync"
  /\ obj' = [obj EXCEPT !.status = [status EXCEPT !.zones = zones]]
  /\ UNCHANGED gauges

Report(status, zones) ==
  /\ pc' = "sync"
  /\ obj' = [obj EXCEPT !.status = [status EXCEPT !.zones = zones]]
  /\ RecordAvailabilityZonesUsedMetric(zones)

\* Mutant: what is not known is reported as such.
ZonesUndecided(ns, status, reason, message) ==
  UpdateConditionAvailabilityZones(ns,
    IF reason = "FailedProcessing" THEN "Unknown" ELSE status, reason, message)

Zones(ns, status, reason, message) ==
  UpdateConditionAvailabilityZones(ns, status, reason, message)

\* A StatefulSet the informer does not have yet is an error like any other.
ReportUnknown ==
  /\ ~StatefulSetFound \/ CallsMayFail
  /\ Fail(ClearURL(obj.status), "sync-failed")
  /\ UNCHANGED gauges

\* Mutant: the URL of the last report is left.
WaitingKeepsURL ==
  /\ StatefulSetFound /\ ~IsNATSStatefulSetReady
  /\ Report(SetWaitingStateForStatefulSet(obj.status), 0)

ReportWaiting ==
  /\ StatefulSetFound /\ ~IsNATSStatefulSetReady
  /\ Report(SetWaitingStateForStatefulSet(ClearURL(obj.status)), 0)

\* The verdict on the zones.  Labels that are missing from the nodes are no
\* reason to call the state anything but ready.
ReportReady ==
  /\ StatefulSetFound /\ IsNATSStatefulSetReady
  /\ LET ready == SetURL(SetStateReady(obj.status), ServiceURL)
         size  == obj.spec.size
         used  == podZones.used
     IN  \/ /\ CallsMayFail
            /\ Report(SetState(Zones(ready, "False", "FailedProcessing",
                                     "zones-unknown"), "Error"), 0)
         \/ /\ ~podZones.labelled
            /\ Report(Zones(ready, "False", "FailedProcessing",
                            "zone-label-missing"), 0)
         \/ /\ podZones.labelled /\ size < MinClusterSize
            /\ Report(Zones(ready, "False", "NotConfigured",
                            "not-in-cluster-mode"), used)
         \/ /\ podZones.labelled /\ size >= MinClusterSize /\ used = size
            /\ Report(Zones(ready, "True", "Deployed", "different-zones"), used)
         \/ /\ podZones.labelled /\ size >= MinClusterSize /\ used # size
            /\ Report(SetStateWarning(Zones(ready, "False", "Unknown",
                                            "not-enough-zones")), used)

HandleNATSState ==
  /\ pc = "state"
  /\ ReportUnknown \/ ReportWaiting \/ ReportReady
  /\ UNCHANGED <<resourceVars, queued, inst, todo, provider, chartLabels,
                 watching, objectVars, seenVars, podZones, calm>>

-------------------------------------------------------------------------------
(* syncNATSStatus and the end of the pass: an error is retried, a          *)
(* StatefulSet that is not ready is asked for again later.                 *)

EndPass(requeue) ==
  /\ pc' = "idle" /\ obj' = NoCopy /\ inst' = NoInstance /\ todo' = {}
  /\ queued' = (queued \/ requeue)

\* Mutant: a cluster that is waited for is not asked about again.
UnfinishedIfError == obj.status.state = "Error"

Unfinished == obj.status.state \in {"Error", "Processing"}

SyncStatus ==
  /\ pc = "sync"
  /\ \/ /\ IsEqual(cache.status, obj.status)
        /\ EndPass(Unfinished) /\ UNCHANGED <<cr, fresh>>
     \/ /\ ~IsEqual(cache.status, obj.status) /\ fresh
        /\ cr' = [cr EXCEPT !.status = obj.status] /\ fresh' = FALSE
        /\ EndPass(Unfinished)
     \/ /\ ~IsEqual(cache.status, obj.status) /\ (~fresh \/ CallsMayFail)
        /\ EndPass(TRUE) /\ UNCHANGED <<cr, fresh>>
  /\ UNCHANGED <<cache, processVars, objectVars, seenVars, podZones, calm>>

Deploy == ApplySecret \/ ApplyStatefulSet \/ ApplyDestinationRule

Work ==
  \/ StartPass \/ InitInstance \/ Deploy \/ WatchDestinationRule
  \/ HandleNATSState \/ SyncStatus

-------------------------------------------------------------------------------
(* The informers.  Every change of the resource and of an object the       *)
(* resource owns brings the resource back into the queue.                  *)

restOfProcess == <<passVars, processVars, objectVars, podZones, calm>>

CacheSync ==
  /\ ~fresh
  /\ cache' = cr /\ fresh' = TRUE
  /\ queued' = TRUE
  /\ UNCHANGED <<restOfProcess, cr, seenVars>>

\* What the informers list: objects with the label (applySelectors).  One that
\* loses it is reported as deleted.
SecretListed      == secret # 0 /\ "Secret" \notin unlabelled
StatefulSetListed == IF "StatefulSet" \in unlabelled THEN NoStatefulSet ELSE sts

Delivered(kind) == kind \in behind /\ behind' = behind \ {kind}

\* Mutant: the Secrets are not watched.
SecretSyncSilently ==
  /\ Delivered("Secret")
  /\ secretSeen' = SecretListed
  /\ UNCHANGED <<restOfProcess, resourceVars, queued, stsSeen>>

SecretSync ==
  /\ Delivered("Secret")
  /\ secretSeen' = SecretListed
  /\ queued' = TRUE
  /\ UNCHANGED <<restOfProcess, resourceVars, stsSeen>>

StatefulSetSync ==
  /\ Delivered("StatefulSet")
  /\ stsSeen' = StatefulSetListed
  /\ queued' = TRUE
  /\ UNCHANGED <<restOfProcess, resourceVars, secretSeen>>

\* Created DestinationRules are ignored.
DestinationRuleSync ==
  /\ watching /\ Delivered("DestinationRule")
  /\ queued' = (queued \/ ~dr)
  /\ UNCHANGED <<restOfProcess, resourceVars, secretSeen, stsSeen>>

\* The pods are watched, and their events are the allowed resource's.
PodsChange ==
  /\ Allowed("pods")
  /\ podZones' \in ZoneFindings
  /\ podZones' # podZones
  /\ queued' = TRUE
  /\ UNCHANGED <<resourceVars, passVars, processVars, objectVars, seenVars, calm>>

\* The periodic resync of the informers.
Resync ==
  /\ ~queued /\ queued' = TRUE
  /\ UNCHANGED <<restOfProcess, resourceVars, seenVars>>

-------------------------------------------------------------------------------
(* The StatefulSet controller, users, and the controller's own restarts.   *)

restOfObjects == <<resourceVars, queued, passVars, processVars, secretSeen,
                   stsSeen, podZones, calm>>

\* It sees a new template, and the counters begin to move; or a pod is lost.
StartRollout ==
  /\ sts.exists /\ sts.counters # 0
  /\ ~sts.rolled \/ Allowed("pods")
  /\ sts' = [sts EXCEPT !.counters = 0]
  /\ Changed("StatefulSet")
  /\ UNCHANGED <<restOfObjects, crd, secret, dr, unlabelled>>

FinishRollout ==
  /\ sts.exists /\ sts.counters = 0
  /\ sts' = [sts EXCEPT !.counters = sts.want.size, !.rolled = TRUE]
  /\ Changed("StatefulSet")
  /\ UNCHANGED <<restOfObjects, crd, secret, dr, unlabelled>>

\* Of the two at most one is enabled: the controller gets on with its work.
Rollout == StartRollout \/ FinishRollout

\* A cluster may grow beyond one node but not shrink to it (the validation
\* rules of the CRD); the file storage is immutable.
EditSpec ==
  /\ Allowed("edit")
  /\ \E spec \in Specs :
       /\ spec # cr.spec
       /\ spec.storage = cr.spec.storage
       /\ cr.spec.size > 1 => spec.size > 1
       /\ cr' = [cr EXCEPT !.spec = spec]
  /\ fresh' = FALSE
  /\ UNCHANGED <<cache, queued, passVars, processVars, objectVars, seenVars,
                 podZones, calm>>

RemoveObject ==
  /\ Allowed("objects")
  /\ \/ /\ secret # 0 /\ secret' = 0 /\ Changed("Secret")
        /\ unlabelled' = unlabelled \ {"Secret"}
        /\ UNCHANGED <<sts, dr>>
     \/ /\ sts.exists /\ sts' = NoStatefulSet /\ Changed("StatefulSet")
        /\ unlabelled' = unlabelled \ {"StatefulSet"}
        /\ UNCHANGED <<secret, dr>>
     \/ /\ dr /\ dr' = FALSE /\ Changed("DestinationRule")
        /\ UNCHANGED <<secret, sts, unlabelled>>
  /\ UNCHANGED <<restOfObjects, crd>>

\* Someone takes the label off an object.
StripLabel ==
  /\ Allowed("labels")
  /\ \E kind \in {"Secret", "StatefulSet"} \ unlabelled :
       /\ IF kind = "Secret" THEN secret # 0 ELSE sts.exists
       /\ unlabelled' = unlabelled \cup {kind}
       /\ Changed(kind)
  /\ UNCHANGED <<restOfObjects, crd, secret, sts, dr>>

\* Istio comes, or goes with all it had.
ChangeIstio ==
  /\ Allowed("istio")
  /\ crd' = ~crd
  /\ dr' = FALSE
  /\ IF dr THEN Changed("DestinationRule") ELSE UNCHANGED behind
  /\ UNCHANGED <<restOfObjects, secret, sts, unlabelled>>

Crash ==
  /\ Allowed("crash")
  /\ pc' = "idle" /\ obj' = NoCopy /\ inst' = NoInstance /\ todo' = {}
  /\ provider' = "unknown" /\ chartLabels' = {} /\ watching' = FALSE
  /\ gauges' = NoGauges
  /\ cache' = cr /\ fresh' = TRUE /\ queued' = TRUE
  /\ secretSeen' = SecretListed /\ stsSeen' = StatefulSetListed /\ behind' = {}
  /\ UNCHANGED <<cr, objectVars, podZones, calm>>

CalmDown ==
  /\ ~calm /\ calm' = TRUE
  /\ UNCHANGED <<resourceVars, queued, passVars, processVars, objectVars,
                 seenVars, podZones>>

Environment ==
  \/ CacheSync \/ SecretSync \/ StatefulSetSync \/ DestinationRuleSync
  \/ PodsChange \/ Resync
  \/ Rollout
  \/ EditSpec \/ RemoveObject \/ StripLabel \/ ChangeIstio
  \/ Crash \/ CalmDown

Next == Work \/ Environment

\* The worker and the informers are goroutines that keep running, the manager
\* resyncs periodically, and the StatefulSet controller does its work.
Fairness ==
  /\ WF_vars(Work)
  /\ WF_vars(CacheSync) /\ WF_vars(SecretSync) /\ WF_vars(StatefulSetSync)
  /\ WF_vars(DestinationRuleSync) /\ WF_vars(Resync)
  /\ WF_vars(Rollout)

Spec == Init /\ [][Next]_vars /\ Fairness
-------------------------------------------------------------------------------
(* Properties.                                                             *)

Resources == [spec : Specs, status : Statuses]

StatefulSets ==
  [exists : BOOLEAN, want : Templates \cup {NoCopy.spec},
   counters : Sizes \cup {0}, rolled : BOOLEAN]

\* Every variable holds a value of its kind, the status in every copy included:
\* what provisioner.go, status.go and the informers hand to each other.
TypeOK ==
  /\ cr \in Resources /\ cache \in Resources /\ obj \in Resources \cup {NoCopy}
  /\ fresh \in BOOLEAN /\ queued \in BOOLEAN /\ calm \in BOOLEAN
  /\ pc \in Steps
  /\ inst \in [istio : BOOLEAN, rotate : BOOLEAN, want : Templates \cup {NoCopy.spec}]
  /\ todo \subseteq Kinds
  /\ provider \in {"unknown", Provider}
  /\ chartLabels \subseteq Labels
  /\ watching \in BOOLEAN
  /\ gauges \in [size : Sizes \cup {0}, zones : ZoneCounts \cup {0}]
  /\ crd \in BOOLEAN /\ dr \in BOOLEAN
  /\ secret \in {0} \cup Passwords /\ secretSeen \in BOOLEAN
  /\ behind \subseteq Kinds /\ unlabelled \subseteq Kinds
  /\ {sts, stsSeen} \subseteq StatefulSets
  /\ podZones \in ZoneFindings

Coherent(s) ==
  /\ s.state \in {"Ready", "Warning"} =>
       s.url # "" /\ IsTrue(s, "StatefulSet") /\ IsTrue(s, "Available")
  /\ s.state = "Processing" =>
       /\ s.url = "" /\ s.zones = 0
       /\ \A t \in ConditionTypes : ~IsTrue(s, t)
  /\ IsTrue(s, "Available") <=> IsTrue(s, "StatefulSet")
  /\ s.state = "Warning" => ~IsTrue(s, "AvailabilityZones")
  /\ IsTrue(s, "AvailabilityZones") => s.zones >= MinClusterSize

\* The parts of a stored status do not contradict each other, though the passes
\* set them one by one on top of the status of the pass before: a cluster that
\* is ready is available at its URL; one that is waited for has no URL and no
\* zones; availability is never claimed over a StatefulSet that is not; spread
\* over the zones is only claimed with enough zones counted for a cluster.
StatusIsCoherent == Coherent(cr.status)

\* Nothing is running, queued or on its way to an informer.
Settled ==
  /\ pc = "idle" /\ ~queued /\ fresh
  /\ behind \cap {"Secret", "StatefulSet"} = {}

\* At rest the status is the truth about the spec, the StatefulSet and the
\* zones as they are now, whatever they were while the pass that wrote it ran,
\* and whatever copy its write was compared with.
SettledStatusIsTrue ==
  Settled =>
    /\ sts.counters = sts.want.size
    /\ cr.status.state = IF /\ podZones.labelled
                            /\ cr.spec.size >= MinClusterSize
                            /\ podZones.used # cr.spec.size
                         THEN "Warning" ELSE "Ready"
    /\ cr.status.zones = IF podZones.labelled THEN podZones.used ELSE 0

\* At rest the owned objects exist, the informers have them, and the StatefulSet
\* has what the spec asks for: removed objects, labels taken off and edits that
\* come while a pass runs are not missed.
SettledObjectsExist ==
  Settled =>
    /\ secret # 0 /\ sts.exists /\ unlabelled = {}
    /\ sts.want.size = cr.spec.size
    /\ cr.spec.labels \subseteq sts.want.labels

\* At rest the exported values are those of the spec and of the status.
SettledGauges ==
  Settled => gauges = [size |-> cr.spec.size, zones |-> cr.status.zones]

\* The file storage has the size the spec asks for or, for a spec that does
\* not, the size the API documents for the provider the cluster runs on; a
\* size below the minimum of the provider is never deployed.
StorageIsSized ==
  sts.exists =>
    /\ sts.want.storage = IF cr.spec.storage # 0 THEN cr.spec.storage
                          ELSE IF Provider = "alicloud" THEN 20 ELSE 1
    /\ Provider = "alicloud" => sts.want.storage >= 20

\* Once nothing interferes any more, the controller gets to a report of a
\* cluster that is available, with the objects the spec and the cluster ask
\* for, and stays there: neither an old status nor an error feeds on itself.
Provisioned ==
  /\ cr.status.state \in {"Ready", "Warning"}
  /\ secret # 0 /\ sts.exists /\ sts.rolled
  /\ sts.want.size = cr.spec.size
  /\ dr = crd

ProvisioningConverges == <>calm => <>[]Provisioned

\* Once nothing interferes any more, passes go on but the password of the account
\* stays: initNATSInstance finds the Secret it has made, under the name the chart
\* gave it, however often the pods' events and the resync bring it back.
PasswordSettles == <>calm => <>[][secret' = secret]_vars

-------------------------------------------------------------------------------
(* What the repository says and the code does not keep.                    *)

\* "if secret exist, then password will not be rotated" (controller_test.go).
PasswordIsKept ==
  [][secret # 0 /\ secret' # 0 => secret' = secret]_vars

\* "Clear the url until the StatefulSet is ready" (handleNATSState): a status
\* with a URL is written over pods that run what was deployed.
UrlMeansRolledOut ==
  [][cr'.status # cr.status /\ cr'.status.url # "" => sts.exists /\ sts.rolled]_vars

\* "Resources are adapted to reflect the changes" of the resource (FlowCharts):
\* labels taken out of the spec are taken off the objects.
LabelsFollowSpec == Settled => sts.want.labels = cr.spec.labels

===============================================================================
