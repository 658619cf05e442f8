------------------------------ MODULE Reconciler ------------------------------
(***************************************************************************)
(* Several NATS resources under one controller: the dispatch of Reconcile, *)
(* the check of the allowed resource and the watches of SetupWithManager   *)
(* (internal/controller/nats/controller.go), and what the resources share: *)
(* the worker, the work queue and the exported cluster size.               *)
(*                                                                         *)
(* Of the passes behind the dispatch this module has what they may end in; *)
(* modules Provisioner and Deprovisioner have the way there, and implement *)
(* this one.  The spec of a resource is its cluster size, which does not   *)
(* change; any other change of it is a touch.                              *)
(***************************************************************************)
EXTENDS NatsStatus, FiniteSets

CONSTANTS
  Names,        \* the resources, by namespace and name
  AllowedCR,    \* the one of them main configures as allowed
  Size,         \* the cluster size each of them asks for
  Foreground,   \* the resources whose deletion waits for a foreign finalizer
  Verdicts,     \* what a provisioning pass may find
  Failures,     \* what a failing pass may say
  Blockers,     \* what may hold a deletion up
  ZoneCounts    \* in how many zones the pods may be found

VerdictKinds ==
  {"failed", "waiting", "unlabelled", "unknown", "single", "spread", "crowded"}

ASSUME ReconcilerAssumption ==
  /\ AllowedCR \in Names
  /\ Size \in [Names -> Nat \ {0}]
  /\ Foreground \subseteq Names
  /\ Verdicts \subseteq VerdictKinds
  /\ Failures \cup Blockers \subseteq Messages
  /\ ZoneCounts \subseteq Nat

VARIABLES
  crs,      \* the resources in the API server
  cache,    \* the informer's copies of them
  fresh,    \* the resources whose copy has the stored version
  queue,    \* the keys in the work queue
  key,      \* the resource the pass is about
  pc,       \* where the pass is, "idle" between passes
  obj,      \* the pass's working copy
  objFresh, \* that copy has the stored version
  gauge,    \* the exported cluster size, 0 if there is none
  calm      \* users and failures have come to rest

informerVars == <<crs, cache, fresh>>
passVars     == <<key, pc, obj, objFresh>>
vars == <<informerVars, queue, passVars, gauge, calm>>

Gone == [exists |-> FALSE, deleting |-> FALSE, finalizer |-> FALSE,
         foreign |-> FALSE, status |-> NewStatus]

Init ==
  /\ crs = [n \in Names |-> Gone] /\ cache = crs /\ fresh = Names
  /\ queue = {}
  /\ key = AllowedCR /\ pc = "idle" /\ obj = Gone /\ objFresh = FALSE
  /\ gauge = 0
  /\ calm = FALSE

-------------------------------------------------------------------------------
(* The end of a pass and its writes, as in module Deprovisioner.           *)

EndPass(requeue) ==
  /\ pc' = "idle" /\ obj' = Gone /\ objFresh' = FALSE /\ key' = AllowedCR
  /\ queue' = IF requeue THEN queue \cup {key} ELSE queue

Store(n, cr) ==
  /\ crs' = [crs EXCEPT ![n] = cr]
  /\ fresh' = fresh \ {n}

UpdateFinalizer(cr) ==
  \/ objFresh /\ Store(key, cr) /\ EndPass(FALSE)
  \/ (~objFresh \/ ~calm) /\ EndPass(TRUE) /\ UNCHANGED <<crs, fresh>>

SyncStatus(status, requeue) ==
  LET seen == cache[key]
      same == IsEqual(seen.status, status)
  IN  \/ seen.exists /\ same /\ EndPass(requeue) /\ UNCHANGED <<crs, fresh>>
      \/ /\ seen.exists /\ ~same /\ key \in fresh
         /\ Store(key, [crs[key] EXCEPT !.status = status]) /\ EndPass(requeue)
      \/ /\ ~seen.exists \/ (~same /\ (key \notin fresh \/ ~calm))
         /\ EndPass(TRUE) /\ UNCHANGED <<crs, fresh>>

-------------------------------------------------------------------------------
(* Reconcile.                                                              *)

\* handleNATSDeletion begins by resetting the metrics, and ends there for a
\* resource without the controller's finalizer.
HandleNATSDeletion(n) ==
  /\ cache[n].deleting
  /\ gauge' = 0
  /\ IF cache[n].finalizer
     THEN /\ pc' = "delete" /\ key' = n /\ objFresh' = (n \in fresh)
          /\ obj' = [cache[n] EXCEPT !.status = SetStateDeleting(@)]
     ELSE UNCHANGED passVars

\* Mutant: the reason is put in words of its own.
ForbiddenInWords(ns) ==
  UpdateConditionAvailable(SetStateError(ns), "False", "not-allowed", "")

Forbidden(ns) ==
  UpdateConditionAvailable(
    UpdateConditionStatefulSet(SetStateError(ns), "False", "Forbidden", ""),
    "False", "Forbidden", "creation-not-allowed")

\* handleNATSCRAllowedCheck for a resource that is not the allowed one.
HandleNATSCRAllowedCheck(n) ==
  /\ ~cache[n].deleting /\ n # AllowedCR
  /\ pc' = "forbid" /\ key' = n /\ objFresh' = (n \in fresh)
  /\ obj' = [cache[n] EXCEPT !.status = Forbidden(@)]
  /\ UNCHANGED gauge

\* Mutant: the size is recorded together with the finalizer, once.
HandleNATSReconcileOnce(n) ==
  /\ ~cache[n].deleting /\ n = AllowedCR
  /\ gauge' = IF cache[n].finalizer THEN gauge ELSE Size[n]
  /\ pc' = "provision" /\ key' = n /\ objFresh' = (n \in fresh)
  /\ obj' = [cache[n] EXCEPT !.status = Initialize(@)]

\* handleNATSReconcile records the size before it does anything else.
HandleNATSReconcile(n) ==
  /\ ~cache[n].deleting /\ n = AllowedCR
  /\ gauge' = Size[n]
  /\ pc' = "provision" /\ key' = n /\ objFresh' = (n \in fresh)
  /\ obj' = [cache[n] EXCEPT !.status = Initialize(@)]

\* Mutant: the check is left to the status, and the pass goes on.
ReconcileUnchecked(n) ==
  \/ ~cache[n].exists /\ UNCHANGED <<passVars, gauge>>
  \/ /\ cache[n].exists
     /\ \/ HandleNATSDeletion(n)
        \/ /\ ~cache[n].deleting
           /\ gauge' = Size[n]
           /\ pc' = "provision" /\ key' = n /\ objFresh' = (n \in fresh)
           /\ obj' = [cache[n] EXCEPT !.status = Initialize(@)]

Reconcile(n) ==
  \/ ~cache[n].exists /\ UNCHANGED <<passVars, gauge>>
  \/ /\ cache[n].exists
     /\ \/ HandleNATSDeletion(n)
        \/ HandleNATSCRAllowedCheck(n)
        \/ HandleNATSReconcile(n)

StartPass(n) ==
  /\ pc = "idle" /\ n \in queue
  /\ queue' = queue \ {n}
  /\ Reconcile(n)
  /\ UNCHANGED <<informerVars, calm>>

Forbid ==
  /\ pc = "forbid"
  /\ SyncStatus(obj.status, FALSE)

\* A status of handleNATSState for pods that are ready.
Ready(ns, used, status, reason, message) ==
  [UpdateConditionAvailabilityZones(SetURL(SetStateReady(ns), ServiceURL),
     status, reason, message) EXCEPT !.zones = used]

\* Its status for pods that are not.
Waiting(ns) == [SetWaitingStateForStatefulSet(ClearURL(ns)) EXCEPT !.zones = 0]

\* The statuses a provisioning pass may end with, by what it has found.
Reports(ns) ==
  [failed     |-> {UpdateConditionAvailable(SetStateError(s), "False", "FailedProcessing", m) :
                     s \in {ns, ClearURL(ns)}, m \in Failures},
   waiting    |-> {Waiting(ns)},
   unlabelled |-> {Ready(ns, 0, "False", "FailedProcessing", "zone-label-missing")},
   unknown    |-> {SetState(Ready(ns, 0, "False", "FailedProcessing", "zones-unknown"), "Error")},
   single     |-> {Ready(ns, z, "False", "NotConfigured", "not-in-cluster-mode") : z \in ZoneCounts},
   spread     |-> {Ready(ns, z, "True", "Deployed", "different-zones") : z \in ZoneCounts},
   crowded    |-> {SetStateWarning(Ready(ns, z, "False", "Unknown", "not-enough-zones")) :
                     z \in ZoneCounts}]

\* The finalizer first; with it, the objects and a verdict on them.
Provision ==
  /\ pc = "provision"
  /\ \/ /\ ~obj.finalizer
        /\ UpdateFinalizer([crs[key] EXCEPT !.finalizer = TRUE])
     \/ /\ obj.finalizer
        /\ LET reports == Reports(obj.status)
           IN  \E verdict \in Verdicts : \E status \in reports[verdict] :
                 obj' = [obj EXCEPT !.status = status]
        /\ pc' = "report"
        /\ UNCHANGED <<crs, fresh, queue, key, objFresh>>

\* An error is retried, a cluster that is not ready is asked for again later.
Report ==
  /\ pc = "report"
  /\ SyncStatus(obj.status, obj.status.state \in {"Error", "Processing"})

Blocked(ns, message) ==
  UpdateConditionDeletion(SetStateWarning(ns), "False", "DeletionError", message)

\* The deletion is held up, or comes to the finalizer, or ends early: with an
\* error, or quietly at a volume claim that is gone already.
Deprovision ==
  /\ pc = "delete"
  /\ \/ /\ \E message \in Blockers :
             obj' = [obj EXCEPT !.status = Blocked(@, message)]
        /\ pc' = "block"
        /\ UNCHANGED <<crs, fresh, queue, key, objFresh>>
     \/ UpdateFinalizer(IF crs[key].foreign
                        THEN [crs[key] EXCEPT !.finalizer = FALSE] ELSE Gone)
     \/ \E requeue \in BOOLEAN :
          (requeue => ~calm) /\ EndPass(requeue) /\ UNCHANGED <<crs, fresh>>

Block ==
  /\ pc = "block"
  /\ SyncStatus(obj.status, TRUE)

Work ==
  \/ \E n \in Names : StartPass(n)
  \/ /\ Forbid \/ Provision \/ Report \/ Deprovision \/ Block
     /\ UNCHANGED <<cache, gauge, calm>>

-------------------------------------------------------------------------------
(* The sources of events (SetupWithManager).                               *)

\* Changes of a resource and of what it owns are its own.
CacheSync(n) ==
  /\ n \notin fresh
  /\ cache' = [cache EXCEPT ![n] = crs[n]] /\ fresh' = fresh \cup {n}
  /\ queue' = queue \cup {n}
  /\ UNCHANGED <<crs, passVars, gauge, calm>>

\* An event of any NATS pod is the allowed resource's, whether it exists or not.
PodEvent ==
  /\ queue' = queue \cup {AllowedCR}
  /\ UNCHANGED <<informerVars, passVars, gauge, calm>>

Resync(n) ==
  /\ cache[n].exists
  /\ queue' = queue \cup {n}
  /\ UNCHANGED <<informerVars, passVars, gauge, calm>>

-------------------------------------------------------------------------------
(* Users, the garbage collector, restarts.                                 *)

Write(n, cr) ==
  /\ Store(n, cr)
  /\ objFresh' = (objFresh /\ key # n)
  /\ UNCHANGED <<cache, queue, key, pc, obj, gauge, calm>>

CreateCR(n) == ~calm /\ ~crs[n].exists /\ Write(n, [Gone EXCEPT !.exists = TRUE])

\* Deletion in the foreground adds a finalizer of the garbage collector's.
DeleteCR(n) ==
  /\ ~calm /\ crs[n].exists /\ ~crs[n].deleting
  /\ Write(n, IF crs[n].finalizer \/ n \in Foreground
              THEN [crs[n] EXCEPT !.deleting = TRUE, !.foreign = n \in Foreground]
              ELSE Gone)

\* Any other change, of which only the new version matters.
TouchCR(n) == ~calm /\ crs[n].exists /\ Write(n, crs[n])

CollectGarbage(n) ==
  /\ crs[n].foreign
  /\ Write(n, IF crs[n].finalizer THEN [crs[n] EXCEPT !.foreign = FALSE] ELSE Gone)

Crash ==
  /\ ~calm
  /\ pc' = "idle" /\ obj' = Gone /\ objFresh' = FALSE /\ key' = AllowedCR
  /\ cache' = crs /\ fresh' = Names
  /\ queue' = {n \in Names : crs[n].exists}
  /\ gauge' = 0
  /\ UNCHANGED <<crs, calm>>

CalmDown == ~calm /\ calm' = TRUE /\ UNCHANGED <<informerVars, queue, passVars, gauge>>

Environment ==
  \/ \E n \in Names :
       \/ CacheSync(n) \/ Resync(n)
       \/ CreateCR(n) \/ DeleteCR(n) \/ TouchCR(n) \/ CollectGarbage(n)
  \/ PodEvent \/ Crash \/ CalmDown

Next == Work \/ Environment

\* The worker and the informers keep running and the manager resyncs; the work
\* queue is first in, first out, so that no key waits for ever.
Fairness ==
  /\ WF_vars(Work)
  /\ \A n \in Names :
       /\ WF_vars(CacheSync(n)) /\ WF_vars(Resync(n)) /\ WF_vars(CollectGarbage(n))
       /\ SF_vars(StartPass(n))

\* What the modules of the passes implement.
SafetySpec == Init /\ [][Next]_vars

Spec == SafetySpec /\ Fairness

-------------------------------------------------------------------------------
(* Properties.                                                             *)

CRs == [exists : BOOLEAN, deleting : BOOLEAN, finalizer : BOOLEAN,
        foreign : BOOLEAN, status : Statuses]

\* Every variable holds a value of its kind: what the handlers, the informers
\* and the work queue hand to each other.
TypeOK ==
  /\ crs \in [Names -> CRs] /\ cache \in [Names -> CRs] /\ obj \in CRs
  /\ fresh \subseteq Names /\ queue \subseteq Names /\ key \in Names
  /\ pc \in {"idle", "forbid", "provision", "report", "delete", "block"}
  /\ objFresh \in BOOLEAN /\ calm \in BOOLEAN
  /\ gauge \in {0} \cup {Size[n] : n \in Names}

Settled(n) == pc = "idle" /\ n \notin queue /\ n \in fresh

IsForbidden(ns) ==
  /\ ns.state = "Error"
  /\ FindCondition(ns, "Available").reason = "Forbidden"
  /\ FindCondition(ns, "StatefulSet").reason = "Forbidden"

\* At rest every resource has its verdict: the allowed one is under the
\* controller's finalizer and never called forbidden, any other says in its
\* status that it is, and is not under the finalizer.  A status write that lost
\* a race, found its copy equal or was cut off by a restart is not the last word.
SettledVerdict ==
  \A n \in Names :
    Settled(n) /\ crs[n].exists /\ ~crs[n].deleting =>
      /\ crs[n].finalizer = (n = AllowedCR)
      /\ IsForbidden(crs[n].status) = (n # AllowedCR)

\* Only the size of the allowed resource is ever exported and, once users have
\* come to rest with that resource in place, it is exported for good, although
\* the deletion of any other resource resets it: "The cluster size configured in
\* the NATS CR" (metrics.go).
SizeIsExported ==
  /\ [](gauge \in {0, Size[AllowedCR]})
  /\ <>calm /\ <>[](crs[AllowedCR].exists /\ ~crs[AllowedCR].deleting)
       => <>[](gauge = Size[AllowedCR])

===============================================================================
