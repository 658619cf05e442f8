# A TLA+ model of the NATS manager

The NATS manager is a Kubernetes operator: for one resource of kind `NATS` it renders a Helm
chart, applies the objects, reports readiness in the resource's status, and, when the resource is
deleted, decides whether the data on the NATS server lets it go. This directory holds a TLA+ model
of that controller, the TLC configurations that check it, and proofs, checked by TLAPS, of every safety
property and every refinement that those configurations check and find to hold. All paths below are relative to the repository.

Contents: [the system](#1-the-system) · [what is hard](#2-what-is-hard-about-it) ·
[the modules](#3-the-modules) · [the runs](#4-the-runs) · [fairness](#5-fairness) ·
[the proofs](#6-the-proofs) · [where code and text disagree](#7-statements-the-code-does-not-keep) ·
[what is left out](#8-what-is-not-modelled) · [the plan](#9-the-plan)

## 1. The system

| Component | Code | State it keeps | Operations | Correct when |
|---|---|---|---|---|
| Reconciler dispatch | `internal/controller/nats/controller.go` | `natsClients`, `cloudProvider`, `destinationRuleWatchStarted`, `allowedNATSCR` | `Reconcile`, the check of the allowed resource, the watches of `SetupWithManager` | every change of something that matters leads to another pass |
| Provisioner | `provisioner.go`, `initNATSInstance` | none of its own; the working copy of the resource | add the finalizer, render, apply, watch the DestinationRule, report | at rest, objects and status agree with the spec and the cluster |
| Deprovisioner | `deprovisioner.go`, `utils.go` | the finalizer; the client in `natsClients` | connect, check streams and consumers, delete volume claims, close, remove the finalizer | data in use is kept, a deletion with nothing in the way completes |
| Status synchronisation | `status.go` | the status subresource | `syncNATSStatus`, `syncNATSStatusWithErr`, `watchDestinationRule` | what is stored does not contradict itself and is true at rest |
| NATS status | `api/v1alpha1/nats_status.go`, `utils.go` | state, URL, zones, four conditions | the setters, `IsEqual` | see above |
| NATS client | `pkg/nats/client.go` | one connection | `Init`, `GetStreams`, `ConsumersExist`, `Close` | answers are about the server as it is; connections do not pile up |
| Manager | `pkg/manager` | none | `GenerateOverrides`, `DeployInstance`, `IsNATSStatefulSetReady` | the storage is sized for the provider |
| Cloud provider | `shoot_info.go` | the answer, once read | `syncCloudProvider` | read before it is needed |
| Chart renderer | `pkg/k8s/chart` | the loaded chart and its values | `RenderManifest` | a rendering depends on this pass's overrides only |
| Kubernetes client | `pkg/k8s/client.go` | `nodesZoneCache` | `PatchApply`, `DeletePVCsWithLabel`, `GetNodeZone`, ... | a cached zone is the zone of the node |
| Metrics | `pkg/metrics` | two gauges | record, reset | at rest they show the spec and the status |
| Informer cache | `internal/controller/cache` | copies of the watched objects, those with the manager's label | `applySelectors`; list, watch | an object that drops out of sight is found missing, and comes back |
| Resource type | `api/v1alpha1/nats_types.go` | the resource | the CRD's validation rules | |
| Process | `cmd/main.go`, `pkg/env` | flags, environment | build everything, start the manager | |

How they meet: the API server sends changes to the informers; an informer's event puts the
resource's key in the work queue; the one worker takes it out and runs `Reconcile`, a *pass*. A pass
reads the resource from the informer's copy, calls the API server and the NATS server one call at a
time, and ends with a write of the status or of the finalizer, and with an error, a requeue or
neither. Its own write is a change like any other and brings the next pass. Meanwhile users edit
the resource and its objects, the StatefulSet controller rolls pods out and creates claims, the garbage
collector removes what lost its owner, and publishers create streams.

## 2. What is hard about it

* **Stale copies.** Every read is of an informer's copy. The copy may be older than the pass's own
  last write, and different kinds of objects lag independently.
* **Check, then act.** The deletion asks the server three questions and then deletes volumes; the
  server and its users do not stop in between.
* **Errors that mean yes.** A server that cannot be asked does not hold a deletion up. So each way in
  which a question can fail decides about data.
* **Steps that fail half way.** Objects are applied one by one and claims deleted one by one; calls
  fail, and the process can stop anywhere.
* **A status written over a status.** Every pass starts from what the last pass wrote and changes
  parts of it. Exits differ in what they change.
* **State of the process.** The client, the provider, the chart's values, the zones, the gauges and the
  started watch outlive a pass and end with the process.
* **Out of sight.** The informers list only objects with the manager's label. An object that loses it is
  there and is not seen, and the controller takes it for removed.
* **Being woken up.** Passes end quietly and rely on some event to start the next one.

`PROJECT.json` lists the hazards one by one, at the line where each bites, with the properties that
cover it.

## 3. The modules

```
NatsStatus ----+----> Provisioner ------> MCProvisioner
               |           +------------> ProvisionerDispatch --> MCProvisionerDispatch
               +----> Reconciler -------> MCReconciler
               |
NatsClient ----+----> Deprovisioner ----> MCDeprovisioner
NatsLifecycle
ZoneCache ------------------------------> MCZoneCache

NatsStatus ----------> NatsStatusProofs
Deprovisioner -------> DeprovisionerProofs ---> LifecycleProofs
                                 +------------> DispatchProofs
Provisioner ---------> ProvisionerProofs -----> VerdictProofs  (with ProvisionerDispatch)
Reconciler ----------> ReconcilerProofs
ZoneCache -----------> ZoneCacheProofs
```

An arrow is EXTENDS; the proofs about modules with a status extend `NatsStatusProofs` as well. Three
refinements tie the modules together:

```
Deprovisioner        implements  NatsLifecycle   (KeepsLifecycle)
Deprovisioner        implements  Reconciler      (ImplementsDispatch)
ProvisionerDispatch  implements  Reconciler      (EndsInVerdict)
```

**`NatsStatus`** has the status as a record and one operator per method of `NATSStatus`. The list of
conditions is a function on the four types, since `meta.SetStatusCondition` keeps one entry per
type. Messages are told apart only as far as the code does.

**`NatsClient`** has the client of one resource with the connection of the nats.go library behind
it, and the server: streams, whether the stream `sap` has consumers, and whether the server is up. A
listing is a *set of possible answers*: nothing from a server out of reach, all streams from one that
answers, and, if `ListingCanEndEarly`, any part of them, because the channel of `Streams()` is closed
the same way at the end of a listing and at its failure.

**`Deprovisioner`** is the life of the resource: created, given its finalizer, deployed, deleted,
perhaps created again. The variables `cr`, `cache` and `obj` are the resource in the API server,
in the informer and in the hands of the pass; `fresh` and `objFresh` say whether the latter two have the
stored version, which is all that optimistic locking asks. `pc` says which call of the pass comes next:

| `pc` | actions | code |
|---|---|---|
| `idle` | `StartPass` | `Reconcile`, start of `handleNATSDeletion` and `handleNATSReconcile` |
| `provision`, `report` | `AddFinalizer`, `Deploy`, `Report` | `handleNATSReconcile`, `handleNATSState` (in short) |
| `connect` | `Connect` | `createAndConnectNatsClient` |
| `streams` | `CustomerStreamExists` | `customerStreamExists` |
| `sapStream`, `consumers` | `SapStreamExists`, `SapConsumerExists` | `sapStreamConsumerExists` |
| `block` | `Block` | the two early returns of `handleNATSDeletion` |
| `listPVCs`, `deletePVCs` | `ListPVCs`, `DeletePVC`, `CloseNatsClient` | `DeletePVCsWithLabel`, `closeNatsClient` |
| `removeFinalizer` | `RemoveFinalizer` | `removeFinalizer` |

`held` is a history variable: what has kept data in use, in sight of the controller, at every moment
of the pass so far. It reads only the server, the connection and the failed calls, never the
controller's decisions, so it can judge them.

**`NatsLifecycle`** is what the controller promises of one resource, with no copies, calls or conflicts:
objects only under the finalizer, volumes deleted only in a purge, no purge while data is seen in use,
none of a resource that is protected and not to be deleted, no release before the volumes that the purge
found are deleted. `Deprovisioner` maps to it as follows: `life` is what the API server stores,
`deployed` says that the deployed objects are this very resource's, `inUse` is `held # {}`, `purging`
is `pc \in PurgeSteps`, and `due` is the list of claims in the hands of the pass.

**`Provisioner`** is the provisioning pass in full, for a resource that exists, has its finalizer and is
not deleted: `StartPass` (with the metric and `syncCloudProvider`), `InitInstance`
(`initNATSInstance`: Istio, Secret, overrides, values, rendering), one `Apply...` per object,
`WatchDestinationRule`, `HandleNATSState` with its five outcomes, and `SyncStatus`. It keeps the
StatefulSet with its template, counters and rollout, the Secret with its password, the
DestinationRule, what the informers have seen of each, and everything the process remembers.
`unlabelled` has the kinds of objects whose label someone has taken off: their informers report them
as deleted and hear of them again only when a pass has applied them. A failing read of
shoot-info is a disruption of its own, since no other call of the pass fails without a trace.

**`ProvisionerDispatch`** adds to `Provisioner` the one thing `Reconciler` has and it has no use for,
whether the copy of the pass is still the stored version, and instantiates `Reconciler` for one
resource that is there and has its finalizer.

**`ZoneCache`** is the lookup of the zones: `GetNodeZone` with its cache under nodes that come and go,
labels that arrive late, and pods that move. `Provisioner` takes the result of the lookup as an input.

**`Reconciler`** is several resources under one controller: the queue of keys, the one worker, the
dispatch of `Reconcile`, the check of the allowed resource (`main` always configures one), the
events of `SetupWithManager`, and the exported cluster size, which the process has once for all
resources. Of the passes behind the dispatch it has what they may end in: a provisioning pass in one of
seven verdicts, a deletion pass in a block, in the finalizer, or early. Deletions in the foreground,
which leave a resource in deletion without the controller's finalizer, are part of it. `Deprovisioner`
and `ProvisionerDispatch` implement it, so a step of theirs that did more to the resource, the queue or
the exported size than the dispatch allows would show.

### Abstractions worth knowing

* One worker (`MaxConcurrentReconciles` is left at 1), so there is one `pc`. Reads from informers do
  not leave the process and are part of the step that follows them.
* An informer never goes back in time. A restart lists everything afresh.
* The controller's finalizer is the only one on the resource.
* `Deprovisioner` shortens provisioning to two steps and one node. Its objects come and go
  together. `Provisioner` has the detail, and there the Service, the ConfigMap and the
  PodDisruptionBudget, which are treated as the StatefulSet is, are left out.
* The replica counters `IsNATSStatefulSetReady` compares are the one number they agree on, or 0.
* The password is 1 or 2: a new one differs from the one it replaces.
* Streams live as long as the volumes do: when the objects go and no claim is bound, the streams go.

## 4. The runs

Each disruption a run names may happen any number of times, at any moment, until `CalmDown`. TLC
explores the instance exhaustively. No run turns deadlock checking off.

| Run | Instance | Checks | Shows |
|---|---|---|---|
| `deletion_server` | one customer stream, complete listings; server, failing queries, crashes | `TypeOK`, `DataInUseIsKept`, `KeepsLifecycle`, `ImplementsDispatch`, `WorkingConnectionIsKept`, `BlockedIsReported`, `DeletionCompletes` | no pass gets to the volumes past data in use that was in its sight all along; a held-up deletion says why, and completes once nothing is in use; a connection that works is used again |
| `deletion_objects` | one claim, the resource created twice; failing calls, conflicting edits, crashes, removed objects | `DeployedIsFinalized`, `SettledIsDeployed`, `SettledGauges`, `KeepsLifecycle`, `ImplementsDispatch`, `DeletionCompletes` | finalizer, objects, volumes and metrics stay in step with the resource, and its deletion completes |
| `provision_faults` | three nodes, two or three zones; any call may fail | `TypeOK`, `StatusIsCoherent`, `EndsInVerdict` | no exit of the pass leaves a status whose parts contradict each other, and each is one that `Reconciler` knows |
| `provision_objects` | Alicloud, storage unset and below the minimum; Istio; objects removed, labels taken off, crashes | `SettledObjectsExist`, `StorageIsSized` | objects are restored and seen, and storage is sized for the provider as long as shoot-info can be read |
| `provision_changes` | a node that becomes a cluster of three and is given a label, two or three zones; edits, lost and moved pods | `StatusIsCoherent`, `SettledStatusIsTrue`, `SettledObjectsExist`, `SettledGauges` | at rest the status, the template and the metrics are those of the spec and the pods as they are |
| `provision_converges` | Istio comes and goes; crashes | `PasswordSettles`, `ProvisioningConverges` | an available cluster is reported in the end, and stays reported; the password changes no more |
| `zones` | two nodes, two zones, two pods | `TypeOK`, `CacheIsCurrent`, `CountBecomesTrue` | no missing label is cached as a zone, and the count gets right |
| `reconciler` | the allowed resource and another of other size, deleted in the foreground; one verdict, one block; conflicts, failing calls, crashes | `TypeOK`, `SettledVerdict`, `SizeIsExported` | each resource gets its verdict, and the size of the allowed one is exported in the end |
| `listing_ends_early` | as `deletion_server`, listings may end early | `DataInUseIsKept` | **violated**, see section 7 |
| `deletion_stalls` | one claim | `DeletionNotAbandoned` | **violated** |
| `default_size` | Alicloud, failing reads of shoot-info | `StorageIsSized` | **violated** |
| `password_rotates` | no disruptions at all | `PasswordIsKept` | **violated** |

*At rest* (`Settled`) means: no pass runs, nothing is queued, and the informers have delivered. It is
what makes quiet ends of passes matter: a pass that ends without a requeue when it should not leaves
a settled state in which something is missing.

**Why the bounds are enough.** The checks for data ask whether *some* customer stream exists, so one
will do; a second stream, `sap`, is always there to be told apart from it. Claims are deleted
independently of each other, so one claim meets every case: unknown to the informer, listed and gone,
terminating, bound. A resource created twice shows what a pass or an object of the first does to the
second. Every resource that is not allowed is handled alike, so one of them is enough beside the
allowed one. Sizes 1 and 3 are the two sides of `MinClusterSize`, and two and three zones the two sides of
the verdict for size 3. Storage 0 and 10 are unset and below the minimum of Alicloud; a size above it
is passed through like any size elsewhere. In `reconciler` one verdict is enough, because the
dispatch and `SettledVerdict` treat all of them alike; the refinements are checked against all seven. For
the zones, two of each are what it takes to have equal and different ones, and a lookup that ends
after some node. The number of passes, crashes, edits, faults and resyncs is unbounded in every run.

`MaxIncarnations` bounds how often the user creates the resource; `ZoneCounts` the zones the lookup
may count; nothing else is capped.

`PROJECT.json` names, for each property of each passing run, a *mutant*: a plausible mistake in
one of the definitions that model the code, which makes the run fail. The mutated definitions stand
before the right ones in the modules, marked as such, and are used nowhere.

## 5. Fairness

Safety properties assume none. The liveness properties use weak fairness of

* `Work`: the worker is a goroutine that takes the next step of its pass, or the next key;
* the informers' deliveries (`CacheSync`, `PVCSync`, `SecretSync`, ...), goroutines as well;
* `Resync`: the manager resyncs its informers every ten hours (`cmd/main.go` leaves the default);
* in `Reconciler`, each key's turn (strong fairness of `StartPass`), since the work queue is first in,
  first out, and the garbage collector's finalizer being removed, since it holds nothing here;
* in `Provisioner`, the StatefulSet controller's rollout, without which nothing becomes ready.

Nothing is assumed of users, of the NATS server, of volumes being released, or of connections.
`calm` is not fair either: the properties speak of behaviours in which disruptions have ended. A
requeue with back-off is a key in the queue; how long it takes is not modelled.

## 6. The proofs

The theorems hold for all values of the constants that their assumptions allow: any streams, claims,
nodes, pods, resources and specs, any number of incarnations, any disruptions. The first column names
the module, without its ending `Proofs`.

| Module | Theorem | States | Along |
|---|---|---|---|
| `Deprovisioner` | `TypeCorrect` | `Spec => []TypeOK` | one step per action |
| | `FinalizerGuardsDeployment` | `Spec => []DeployedIsFinalized` | `FinalizerInv` |
| | `CompleteListingsKeepData` | `Spec => []DataInUseIsKept`, if `ListingCanEndEarly = FALSE` | `UseInv` |
| | `WorkingConnectionsAreKept` | `Spec => WorkingConnectionIsKept` | the actions; no invariant is needed |
| `Lifecycle` | `DeprovisionerKeepsLifecycle` | `Spec => KeepsLifecycle`, if `ListingCanEndEarly = FALSE` | `LifecycleInv` |
| | `SettledMeansDeployed` | `Spec => []SettledIsDeployed` | `RestInv` |
| | `SettledMeansExported` | `Spec => []SettledGauges` | `RestInv` |
| `Dispatch` | `DeprovisionerImplementsDispatch` | `Spec => ImplementsDispatch` | the actions, with `TypeOK` |
| `Provisioner` | `TypeCorrect` | `Spec => []TypeOK` | `TypeInv` |
| | `StoredStatusIsCoherent` | `Spec => []StatusIsCoherent` | `StatusInv` |
| | `StorageHasItsSize` | `Spec => []StorageIsSized`, if `"shootinfo" \notin Disruptions` | `StorageInv` |
| | `SettledMeansDeployed` | `Spec => []SettledObjectsExist` | `SettledInv` |
| | `SettledMeansTrue` | `Spec => []SettledStatusIsTrue` | `SettledInv` |
| | `SettledMeansExported` | `Spec => []SettledGauges` | `SettledInv` |
| `Verdict` | `ProvisionerEndsInVerdict` | `TrackedSpec => EndsInVerdict`, if `Sizes = {size}` | `TrackInv` |
| `Reconciler` | `TypeCorrect` | `SafetySpec => []TypeOK` | one step per action |
| | `VerdictsSettle` | `SafetySpec => []SettledVerdict` | `VerdictInv` |
| `ZoneCache` | `TypeCorrect` | `Spec => []TypeOK` | one step per action |
| | `CachedZonesAreCurrent` | `Spec => []CacheIsCurrent`, if `Movable = {}` | `HomeInv` |

`NatsStatusProofs` has the lemmas about the setters that the others rest on: for each, the type of what it
returns, and which parts of the status it changes and which it leaves alone.

### The invariants

*`FinalizerInv`.* `DeployedIsFinalized` alone is not inductive: `Deploy` looks at the finalizer in
`obj`, taken from the cache when the pass began, and a resource may have been deleted and created again
in between. The strengthening says of both copies that they are of no later incarnation than the
stored resource and, if of the same one, that a finalizer in the copy is still in the store
(`CopyBehind`). `CopyStaysBehind` shows that every change of the store keeps this, since nothing but
the removal of the resource takes the finalizer away.

*`UseInv`.* At each `pc` it says what `held` can still contain: while the queries go on, whatever is
held is on a reachable server; after the first query no customer stream is held, because a complete
listing would have shown it; after the last, nothing. Each query either blocks, or fails and empties
`held`, or moves on with its share refuted. The assumption on listings is used exactly at the
queries.

*`LifecycleInv`* is `FinalizerInv`, `UseInv` and `CopiesInv`. The last says what a copy still tells of the
stored resource: a deletion seen in an old copy is still going on if what is stored has the finalizer, a
pass that deletes has seen both the deletion and the finalizer, and claims are in hand only while they are
deleted. With it every action is a step of `NatsLifecycle` or none; the two that need most are the
start of a purge, which needs `UseInv`, and the removal of the finalizer, which succeeds only with a copy
of the stored version.

*`RestInv`* and *`SettledInv`* carry the `Settled...` properties. Those speak of states in which all is
quiet; what makes them inductive is what holds of the unquiet ones: **as long as the key is not queued,
nothing has been missed**. While a pass runs with the key not queued, its working copy is what the
informer has, and each step has left what the next relies on; when it ends without a requeue, all of it
is there. Whatever could make this untrue puts the key into the queue: a delivery of an informer, a
crash, a failed call. An informer that is behind is no exception: its delivery is an event to come. So the
invariant speaks of what the informers have (`fresh`, `stsSeen`), or of what is on its way to them
(`SecretKnown`). `SettledIsDeployed` and `SettledGauges` need no
assumption on listings.

*`StatusInv`.* Between the first setter of a pass and its last the working copy is not coherent:
`Initialize` leaves the URL and the zones of the last report under a state they do not go with. What
holds there is `Begun`, and each of the reports is shown to turn a status that is begun into a coherent
one. The stored copy and the informer's are coherent throughout.

*`StorageInv`* follows the size from the spec through the provider the pass has read and the rendered
template to the StatefulSet.

*`VerdictInv`.* At rest each resource has its verdict because a missing one is always on its way
(`VerdictIsComing`): the key is in the queue or the pass is about it, as long as the informer has the
stored version. For this to survive the end of a pass, the pass must have known what it decided on, or
be due again (`PassKnows`). `ReconcilerProofs` shows besides that the exported size is 0 or that of the
allowed resource (`OnlyAllowedSizeIsExported`), the part of `SizeIsExported` that is a matter of safety.

*`HomeInv`* ties the node's label and the cached zone to the zone that the name first had. The
property itself says nothing of a node that is away, so it cannot be carried through the node's return.

### The refinements

`NatsLifecycle` is abstract enough for `LifecycleInv` to do the work. `Reconciler` is not: it has its own copies,
queue and statuses, and a step of a pass is a step of the dispatch only if what it writes is one of the
statuses that the dispatch allows there. Both proofs are laid out alike: the values of the
substitution are named (`Crs`, `Copies`, `Where`, ...) and shown to change as the concrete variables
do; the status operators of the instance are shown to be those of the module (`SameStatuses`,
`SameSetters`, `SameReports`); then each action has a lemma that names the action of `Reconciler` it is.
In `VerdictProofs` `StateMayReport` shows that each outcome of `HandleNATSState` is one of the
verdicts, and `TrackInv` that the added variable is what its name says.

### The assumptions

The assumptions on the constants (`ClientAssumption`, `DeprovisionerAssumption`,
`ProvisionerAssumption`, `ReconcilerAssumption`, `ZoneCacheAssumption`) only say of what kind they are,
and every run of the module evaluates them. Five theorems are conditional, on four things:

* `ListingCanEndEarly = FALSE` is not what the code guarantees. Without it data in use can be deleted;
  the run `listing_ends_early` shows how.
* `"shootinfo" \notin Disruptions` says that reads of shoot-info succeed; `default_size` shows what
  happens when one fails. All other disruptions are allowed.
* `Movable = {}` says that no node comes back under its name in another zone; section 7 has what
  happens if one does.
* `Sizes = {size}` says that the cluster size in the spec is not edited, since `Reconciler` has one
  size for each resource. All else in the spec may be edited.

### What is only model-checked

Liveness: `BlockedIsReported`, `DeletionCompletes`, `ProvisioningConverges`, `PasswordSettles`,
`CountBecomesTrue` and the part of `SizeIsExported` that says that it is exported in the end. Fairness is
about when actions are ENABLED, which TLAPS does not reason about. The theorems on the states at rest
are the safety half of convergence: if the controller comes to rest, it does so in the right place. That it
does come to rest is what the runs show.

## 7. Statements the code does not keep

Shown by a run and listed under "findings":

* **`listing_ends_early`.** A stream listing that fails half way looks complete (`pkg/nats/client.go:78`
  drains the channel and never asks for the error), so customer streams can be deleted.
* **`deletion_stalls`.** A claim that is gone by the time it is deleted ends the pass without error
  (`deprovisioner.go:132`): the finalizer and the resource stay until some other event, at the
  latest the resync. `DeletionCompletes` holds only because of the latter.
* **`default_size`.** One failed read of shoot-info (`shoot_info.go:33`) is enough to deploy the
  wrong default storage size, for good, as claim templates are immutable.
* **`password_rotates`.** The Secret is looked up in a cache (`controller.go:220`); a pass that starts
  before the informer has delivered the Secret replaces the password.

Stated in the modules and refuted by TLC with the instances given here, with no run of their own:

| Definition | Instance | What happens |
|---|---|---|
| `NoConnectionLeftBehind` | `Deprovisioner`, as `deletion_server` without crashes | `Init` replaces a connection that is reconnecting without closing it (`pkg/nats/client.go:48`); it comes back and nothing refers to it |
| `NoVolumeLeftBehind` | `Deprovisioner`, `OwnPVCs = {p1}`, no streams, no disruptions | claims are listed from the informer (`pkg/k8s/client.go:132`); one that it has not delivered is never deleted |
| `UrlMeansRolledOut` | `Provisioner`, as `provision_converges` with specs of one node with and without a label, and the disruption `"edit"` | readiness is read from counters of the previous template (`pkg/manager/nats.go:97`), so Ready and the URL are reported before the rollout |
| `LabelsFollowSpec` | the same | overrides are merged into the loaded chart's values in place (`pkg/k8s/chart/helmrenderer.go:115`), so a removed label stays until the process restarts |
| `CountBecomesTrue` | `ZoneCache`, as `zones` with `Movable = {n1}` | the cache of zones never expires (`pkg/k8s/client.go:170`), although its comment says that it caches "for a certain duration"; a node replaced under its old name in another zone is counted in the old one |

Refuted too, though no line of the repository says it: that a condition `Deleted` is only found on a
resource that is being deleted (`status.go:44`). A blocked deletion pass writes its status onto the copy that the
informer has *now*; if by then the resource has gone and one of the same name has been created, the
new one gets the condition with its reason `DeletionError`, and no pass takes it away. Its state is put
right by the next pass (`SettledIsDeployed`).

Two weaknesses of the exported size (`deprovisioner.go:28`, `provisioner.go:28`) are visible in the
models and contradict no property above: the deletion in the foreground of a resource that is *not*
allowed resets the size of the one that is deployed, until the next pass of the latter (at the latest
the resync, which is what `SizeIsExported` rests on); and a resource deleted before it has its finalizer
leaves its size exported.

## 8. What is not modelled

* The text of the chart and the decoding of what it renders; resources, logging, memory storage,
  annotations and images in the overrides: values that pass through untouched.
* Events sent to the recorder, logging, probes, flags and environment: no effect on later steps.
* Time: back-off, the ten seconds of the readiness check, the connection's time-out. A delay is any delay.
* A second process. Leader election is off by default (`cmd/main.go`), so during a rolling update of the
  manager's own Deployment two managers may be at work for a while. The modules have one; to a model of
  one, the writes of the other are conflicts and edits, but its passes over the volumes are not there.
* Streams created after their check and before the volumes are deleted. The window is real; the
  code makes no promise about it, and `held` leaves such streams out.
* Names other than `eventing-nats`. The Secret is looked up by a name put together in `controller.go:219`
  and created by the chart under one of its own; for the one name the manager has permissions for
  (the RBAC comments of `controller.go`) they agree.
* Optional values that an earlier resource set in the loaded chart and a later one of the same process does
  not mention, such as a storage class: as with labels (section 7) they stay. Of the values only
  labels are told apart.
* The generated deep-copy code, the test utilities and the e2e tests: not part of the program's
  behaviour.

## 9. The plan

Done: `NatsStatus`, `NatsClient`, `Deprovisioner`, `Provisioner`, `ZoneCache`, `Reconciler`, the promise
`NatsLifecycle`, their runs, the refinements that tie the two kinds of passes to it and to the dispatch,
and the proofs of all safety properties and refinements. The order was that of what is at stake: data
first, then the deployed cluster, then its reports.

What is left is at the edges:

1. The safety facts that the liveness properties rest on: that a pass which ends leaves an event to come
   while the deletion is not complete (`Deprovisioner`, but for the quiet end of `deletion_stalls`), and that a
   Secret that the informer has shown keeps its password (`Provisioner`).
2. Consequences of `NatsLifecycle` proved of the abstract module once, so that they hold of the
   controller by `DeprovisionerKeepsLifecycle`.
3. A shorter layout of the longest proof, `ProvisionerProofs`, whose steps on type correctness could lean
   more on shared lemmas.

## Running

```
tlc -workers 2 -config DeletionServer.cfg MCDeprovisioner.tla
tlc -workers 2 -config ProvisionChanges.cfg MCProvisioner.tla
tlc -workers 2 -config ProvisionFaults.cfg MCProvisionerDispatch.tla
tlc -workers 2 -config Zones.cfg MCZoneCache.tla
tlc -workers 2 -config Reconciler.cfg MCReconciler.tla
for m in NatsStatus Deprovisioner Lifecycle Dispatch Reconciler Provisioner Verdict ZoneCache
do tlapm ${m}Proofs.tla; done
```
