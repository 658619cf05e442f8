------------------------------ MODULE NatsStatus ------------------------------
(***************************************************************************)
(* The status of a NATS custom resource and the operations the controller  *)
(* performs on it (api/v1alpha1/nats_status.go, api/v1alpha1/utils.go).    *)
(*                                                                         *)
(* A condition is its status, reason and message; the transition time,     *)
(* which no comparison reads, is left out.  The list of conditions, which  *)
(* holds at most one entry of a type, is a function from the types to the  *)
(* entries, with Unset for a type that has none.                           *)
(***************************************************************************)
EXTENDS Naturals

States == {"", "Ready", "Error", "Processing", "Deleting", "Warning"}

ConditionTypes == {"Available", "StatefulSet", "Deleted", "AvailabilityZones"}

Unset == [status |-> "", reason |-> "", message |-> ""]

Reasons ==
  {"", "Processing", "Deploying", "Deployed", "FailedProcessing", "Forbidden",
   "Available", "Pending", "FailedToSyncResources", "DeletionError",
   "NotConfigured", "Unknown"}

\* The messages, one for each thing the controller has to say.
Messages ==
  {"", "StatefulSet-is-ready", "NATS-is-deployed", "customer-stream-exists",
   "stream-consumer-exists", "deploy-failed", "init-failed", "watch-failed",
   "sync-failed", "zone-label-missing", "zones-unknown",
   "not-in-cluster-mode", "different-zones", "not-enough-zones",
   "creation-not-allowed"}

Conditions == [status : {"", "True", "False"}, reason : Reasons, message : Messages]

\* url.Format of the name and the namespace of the resource.
ServiceURL == "nats://name.namespace.svc.cluster.local:4222"

Statuses ==
  [state : States, url : {"", ServiceURL}, zones : Nat,
   conditions : [ConditionTypes -> Conditions]]

\* The status of a resource the controller has not reported on yet.
NewStatus ==
  [state |-> "", url |-> "", zones |-> 0,
   conditions |-> [t \in ConditionTypes |-> Unset]]

FindCondition(ns, type) == ns.conditions[type]

IsTrue(ns, type) == FindCondition(ns, type).status = "True"

-------------------------------------------------------------------------------
(* meta.SetStatusCondition: the entry of the type is replaced or added.    *)

UpdateCondition(ns, type, status, reason, message) ==
  [ns EXCEPT !.conditions[type] =
     [status |-> status, reason |-> reason, message |-> message]]

UpdateConditionStatefulSet(ns, status, reason, message) ==
  UpdateCondition(ns, "StatefulSet", status, reason, message)

UpdateConditionAvailable(ns, status, reason, message) ==
  UpdateCondition(ns, "Available", status, reason, message)

UpdateConditionAvailabilityZones(ns, status, reason, message) ==
  UpdateCondition(ns, "AvailabilityZones", status, reason, message)

UpdateConditionDeletion(ns, status, reason, message) ==
  UpdateCondition(ns, "Deleted", status, reason, message)

-------------------------------------------------------------------------------
(* The setters.  SetStateProcessing, SetStateWarning and SetStateDeleting  *)
(* touch the state alone; the others move two or three conditions with it. *)

SetState(ns, state) == [ns EXCEPT !.state = state]

SetStateWarning(ns)  == SetState(ns, "Warning")
SetStateDeleting(ns) == SetState(ns, "Deleting")

\* Mutant: the condition of the StatefulSet is left to others.
SetStateReadyAvailable(ns) ==
  UpdateConditionAvailable(SetState(ns, "Ready"),
    "True", "Deployed", "NATS-is-deployed")

SetStateReady(ns) ==
  UpdateConditionAvailable(
    UpdateConditionStatefulSet(SetState(ns, "Ready"),
      "True", "Available", "StatefulSet-is-ready"),
    "True", "Deployed", "NATS-is-deployed")

SetWaitingStateForStatefulSet(ns) ==
  UpdateConditionAvailabilityZones(
    UpdateConditionAvailable(
      UpdateConditionStatefulSet(SetState(ns, "Processing"),
        "False", "Pending", ""),
      "False", "Deploying", ""),
    "False", "Pending", "")

SetStateError(ns) ==
  UpdateConditionAvailable(
    UpdateConditionStatefulSet(SetState(ns, "Error"),
      "False", "FailedToSyncResources", ""),
    "False", "FailedProcessing", "")

Initialize(ns) ==
  UpdateConditionAvailable(
    UpdateConditionStatefulSet(SetState(ns, "Processing"),
      "False", "Processing", ""),
    "False", "Processing", "")

ClearURL(ns)    == [ns EXCEPT !.url = ""]
SetURL(ns, url) == [ns EXCEPT !.url = url]

-------------------------------------------------------------------------------
(* The comparison that decides whether a status is written at all.         *)

ConditionEquals(existing, expected) ==
  /\ existing.status = expected.status
  /\ existing.reason = expected.reason
  /\ existing.message = expected.message

ConditionsEquals(existing, expected) ==
  \A t \in ConditionTypes : ConditionEquals(existing[t], expected[t])

\* Mutant: the number of zones is not compared.
IsEqualButZones(ns, status) ==
  /\ ns.state = status.state
  /\ ns.url = status.url
  /\ ConditionsEquals(ns.conditions, status.conditions)

IsEqual(ns, status) ==
  /\ ns.state = status.state
  /\ ns.url = status.url
  /\ ns.zones = status.zones
  /\ ConditionsEquals(ns.conditions, status.conditions)

===============================================================================
