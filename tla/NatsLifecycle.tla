----------------------------- MODULE NatsLifecycle -----------------------------
(***************************************************************************)
(* What the controller promises about one NATS resource, with nothing of   *)
(* how it keeps it: no copies, no calls, no server and no conflicts.       *)
(*                                                                         *)
(*   - Objects are deployed only for a resource under the finalizer.       *)
(*   - Volumes are deleted only in a purge.  A purge never begins while    *)
(*     data is seen in use, and never touches the volumes of a resource    *)
(*     that is protected and that nobody asked to delete.  Data that can   *)
(*     no longer be looked at is not seen in use.                          *)
(*   - A protected resource goes only if it was to be deleted, at the end  *)
(*     of a purge that has deleted each volume it found.                   *)
(*                                                                         *)
(* Module Deprovisioner implements this specification.                     *)
(***************************************************************************)

CONSTANT Volumes   \* the volume claims of the resource

VARIABLES
  life,      \* where the resource is in its life
  deployed,  \* objects are deployed for this very resource
  inUse,     \* data has been seen in use ever since the controller looked
  purging,   \* the controller has decided that the volumes may go
  due,       \* the volumes the purge has found and not deleted yet
  volumes    \* the state of each volume

vars == <<life, deployed, inUse, purging, due, volumes>>

Lives        == {"absent", "bare", "protected", "leaving"}
VolumeStates == {"absent", "bound", "terminating"}

Init ==
  /\ life = "absent"
  /\ deployed = FALSE /\ inUse = FALSE /\ purging = FALSE
  /\ due = {}
  /\ volumes = [v \in Volumes |-> "absent"]

-------------------------------------------------------------------------------
(* The user.                                                               *)

Create ==
  /\ life = "absent" /\ life' = "bare"
  /\ UNCHANGED <<deployed, inUse, purging, due, volumes>>

\* Without the finalizer the resource goes at once.
RequestDeletion ==
  /\ \/ life = "bare" /\ life' = "absent"
     \/ life = "protected" /\ life' = "leaving"
  /\ UNCHANGED <<deployed, inUse, purging, due, volumes>>

-------------------------------------------------------------------------------
(* The controller.  What was seen in use is forgotten with the pass.       *)

Forget == inUse' \in {inUse, FALSE}

Protect ==
  /\ life = "bare" /\ ~purging
  /\ life' = "protected"
  /\ Forget
  /\ UNCHANGED <<deployed, purging, due, volumes>>

Deploy ==
  /\ life \in {"protected", "leaving"} /\ ~purging
  /\ deployed' = TRUE
  /\ UNCHANGED <<life, inUse, purging, due, volumes>>

Look ==
  /\ ~purging
  /\ inUse' \in BOOLEAN
  /\ UNCHANGED <<life, deployed, purging, due, volumes>>

StartPurge ==
  /\ ~purging /\ life # "protected"
  /\ purging' = TRUE
  /\ inUse' = FALSE
  /\ UNCHANGED <<life, deployed, due, volumes>>

FindVolumes ==
  /\ purging /\ due = {}
  /\ due' \in SUBSET Volumes
  /\ UNCHANGED <<life, deployed, inUse, purging, volumes>>

DeleteVolume(v) ==
  /\ purging /\ v \in due /\ volumes[v] # "absent"
  /\ volumes' = [volumes EXCEPT ![v] = "terminating"]
  /\ due' = due \ {v}
  /\ UNCHANGED <<life, deployed, inUse, purging>>

\* The purge is given up; another one begins with another look.
Abandon ==
  /\ purging /\ purging' = FALSE
  /\ due' = {}
  /\ UNCHANGED <<life, deployed, inUse, volumes>>

Release ==
  /\ life = "leaving" /\ purging /\ due = {}
  /\ life' = "absent"
  /\ purging' = FALSE
  /\ deployed' = FALSE
  /\ UNCHANGED <<inUse, due, volumes>>

-------------------------------------------------------------------------------
(* The cluster.                                                            *)

Undeploy ==
  /\ deployed' = FALSE
  /\ Forget
  /\ UNCHANGED <<life, purging, due, volumes>>

Provision(v) ==
  /\ volumes[v] = "absent"
  /\ volumes' = [volumes EXCEPT ![v] = "bound"]
  /\ UNCHANGED <<life, deployed, inUse, purging, due>>

Vanish(v) ==
  /\ volumes[v] = "terminating"
  /\ volumes' = [volumes EXCEPT ![v] = "absent"]
  /\ UNCHANGED <<life, deployed, inUse, purging, due>>

Next ==
  \/ Create \/ RequestDeletion
  \/ Protect \/ Deploy \/ Look
  \/ StartPurge \/ FindVolumes \/ (\E v \in Volumes : DeleteVolume(v))
  \/ Abandon \/ Release
  \/ Undeploy \/ \E v \in Volumes : Provision(v) \/ Vanish(v)

Spec == Init /\ [][Next]_vars

===============================================================================
