-------------------------- MODULE ProvisionerDispatch --------------------------
(***************************************************************************)
(* The provisioning pass of module Provisioner as a pass of module         *)
(* Reconciler.  There a pass is told whether its copy of the resource is   *)
(* still the stored version, for the sake of the finalizer; Provisioner,   *)
(* whose resource has its finalizer, has no use for that, so it is added   *)
(* here, as a history variable that nothing reads.                         *)
(***************************************************************************)
EXTENDS Provisioner

VARIABLE objFresh   \* the pass's copy is the stored version

TrackedInit == Init /\ objFresh = FALSE

TrackedNext ==
  /\ Next
  /\ objFresh' = IF pc = "idle" /\ pc' = "init" THEN fresh
                 ELSE objFresh /\ pc' # "idle" /\ cr' = cr

TrackedSpec == TrackedInit /\ [][TrackedNext]_<<vars, objFresh>>

\* A resource in its place, under the finalizer, with this status.
Protected(status) ==
  [exists |-> TRUE, deleting |-> FALSE, finalizer |-> TRUE, foreign |-> FALSE,
   status |-> status]

NoPass ==
  [exists |-> FALSE, deleting |-> FALSE, finalizer |-> FALSE, foreign |-> FALSE,
   status |-> NewStatus]

\* The instance is for one cluster size, as Reconciler has one for a resource.
Dispatch == INSTANCE Reconciler WITH
  Names      <- {"nats"},
  AllowedCR  <- "nats",
  Size       <- [n \in {"nats"} |-> CHOOSE size \in Sizes : TRUE],
  Foreground <- {},
  Verdicts   <- {"failed", "waiting", "unlabelled", "unknown", "single",
                 "spread", "crowded"},
  Failures   <- {"init-failed", "deploy-failed", "watch-failed", "sync-failed"},
  Blockers   <- {},
  crs        <- [n \in {"nats"} |-> Protected(cr.status)],
  cache      <- [n \in {"nats"} |-> Protected(cache.status)],
  fresh      <- IF fresh THEN {"nats"} ELSE {},
  queue      <- IF queued THEN {"nats"} ELSE {},
  key        <- "nats",
  pc         <- IF pc = "idle" THEN "idle"
                ELSE IF pc = "sync" THEN "report" ELSE "provision",
  obj        <- IF pc = "idle" THEN NoPass ELSE Protected(obj.status),
  gauge      <- gauges.size,
  calm       <- FALSE

-------------------------------------------------------------------------------
(* Properties.                                                             *)

\* Whichever call of handleNATSReconcile fails, and whatever its last step finds,
\* the pass ends in one of the verdicts module Reconciler has, with a write, a
\* requeue and an exported size that go with it: what holds there for several
\* resources holds for these passes.
EndsInVerdict == [][Dispatch!Next]_(Dispatch!vars)

===============================================================================
