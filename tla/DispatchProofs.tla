---------------------------- MODULE DispatchProofs ----------------------------
(***************************************************************************)
(* Every step of Deprovisioner is a step of Reconciler, or none there: the *)
(* theorem behind the property ImplementsDispatch, for every set of        *)
(* streams and claims and every set of disruptions.                        *)
(***************************************************************************)
EXTENDS DeprovisionerProofs

-------------------------------------------------------------------------------
(* The variables of Reconciler, for the one resource there is here.        *)

Only(x) == [n \in {"nats"} |-> x]
Flag(b) == IF b THEN {"nats"} ELSE {}

Crs    == Only(Plain(cr))
Copies == Only(Plain(cache))
Where  == IF pc \in DeletionSteps \ {"block"} THEN "delete" ELSE pc
Gauge  == IF "clusterSize" \in gauges THEN 1 ELSE 0

LEMMA OnlySays ==
  ASSUME NEW a, NEW b
  PROVE  Only(a)["nats"] = a /\ [Only(a) EXCEPT !["nats"] = b] = Only(b)
BY DEF Only

LEMMA FlagSays ==
  ASSUME NEW b \in BOOLEAN
  PROVE  /\ ("nats" \in Flag(b)) = b
         /\ "nats" \in Flag(b) <=> b
         /\ Flag(b) \cup {"nats"} = Flag(TRUE) /\ Flag(b) \ {"nats"} = Flag(FALSE)
<1>1. CASE b = TRUE
  BY <1>1 DEF Flag
<1>2. CASE b = FALSE
  BY <1>2 DEF Flag
<1> QED BY <1>1, <1>2

LEMMA PlainSays ==
  ASSUME NEW copy \in CRs
  PROVE  /\ Plain(copy).exists = copy.exists /\ Plain(copy).deleting = copy.deleting
         /\ Plain(copy).finalizer = copy.finalizer /\ Plain(copy).status = copy.status
         /\ Plain(copy).foreign = FALSE
BY DEF Plain, CRs

PlainCopies ==
  [exists : BOOLEAN, deleting : BOOLEAN, finalizer : BOOLEAN, foreign : {FALSE},
   status : Statuses]

PlainCopy(e, d, f, s) ==
  [exists |-> e, deleting |-> d, finalizer |-> f, foreign |-> FALSE, status |-> s]

LEMMA PlainCopyParts ==
  ASSUME NEW q \in PlainCopies
  PROVE  q = PlainCopy(q.exists, q.deleting, q.finalizer, q.status)
<1>1. q.foreign = FALSE
  BY DEF PlainCopies
<1>2. q = [exists |-> q.exists, deleting |-> q.deleting, finalizer |-> q.finalizer,
           foreign |-> q.foreign, status |-> q.status]
  BY DEF PlainCopies
<1> QED BY <1>1, <1>2 DEF PlainCopy

LEMMA PlainCopiesWith ==
  ASSUME NEW p \in PlainCopies, NEW status \in Statuses
  PROVE  /\ [p EXCEPT !.status = status]
              = PlainCopy(p.exists, p.deleting, p.finalizer, status)
         /\ [p EXCEPT !.exists = TRUE]
              = PlainCopy(TRUE, p.deleting, p.finalizer, p.status)
         /\ [p EXCEPT !.finalizer = TRUE]
              = PlainCopy(p.exists, p.deleting, TRUE, p.status)
         /\ [p EXCEPT !.deleting = TRUE, !.foreign = FALSE]
              = PlainCopy(p.exists, TRUE, p.finalizer, p.status)
<1>1. \A q \in PlainCopies : q = PlainCopy(q.exists, q.deleting, q.finalizer, q.status)
  BY PlainCopyParts
<1> DEFINE a == [p EXCEPT !.status = status]
           b == [p EXCEPT !.exists = TRUE]
           c == [p EXCEPT !.finalizer = TRUE]
           d == [p EXCEPT !.deleting = TRUE, !.foreign = FALSE]
<1>2. /\ a \in PlainCopies /\ a.exists = p.exists /\ a.deleting = p.deleting
      /\ a.finalizer = p.finalizer /\ a.status = status
  BY DEF PlainCopies
<1>3. /\ b \in PlainCopies /\ b.exists = TRUE /\ b.deleting = p.deleting
      /\ b.finalizer = p.finalizer /\ b.status = p.status
  BY DEF PlainCopies
<1>4. /\ c \in PlainCopies /\ c.exists = p.exists /\ c.deleting = p.deleting
      /\ c.finalizer = TRUE /\ c.status = p.status
  BY DEF PlainCopies
<1>5. /\ d \in PlainCopies /\ d.exists = p.exists /\ d.deleting = TRUE
      /\ d.finalizer = p.finalizer /\ d.status = p.status
  BY DEF PlainCopies
<1> HIDE DEF a, b, c, d
<1>6. /\ a = PlainCopy(p.exists, p.deleting, p.finalizer, status)
      /\ b = PlainCopy(TRUE, p.deleting, p.finalizer, p.status)
      /\ c = PlainCopy(p.exists, p.deleting, TRUE, p.status)
      /\ d = PlainCopy(p.exists, TRUE, p.finalizer, p.status)
  BY <1>1, <1>2, <1>3, <1>4, <1>5
<1> QED BY <1>6 DEF a, b, c, d

LEMMA PlainWith ==
  ASSUME NEW copy \in CRs, NEW status \in Statuses
  PROVE  /\ Plain([copy EXCEPT !.status = status]) = [Plain(copy) EXCEPT !.status = status]
         /\ Plain([copy EXCEPT !.exists = TRUE]) = [Plain(copy) EXCEPT !.exists = TRUE]
         /\ Plain([copy EXCEPT !.finalizer = TRUE]) = [Plain(copy) EXCEPT !.finalizer = TRUE]
         /\ Plain([copy EXCEPT !.deleting = TRUE])
              = [Plain(copy) EXCEPT !.deleting = TRUE, !.foreign = FALSE]
<1>1. Plain(copy) \in PlainCopies
  BY DEF Plain, CRs, PlainCopies
<1>2. /\ Plain([copy EXCEPT !.status = status])
           = PlainCopy(copy.exists, copy.deleting, copy.finalizer, status)
      /\ Plain([copy EXCEPT !.exists = TRUE])
           = PlainCopy(TRUE, copy.deleting, copy.finalizer, copy.status)
      /\ Plain([copy EXCEPT !.finalizer = TRUE])
           = PlainCopy(copy.exists, copy.deleting, TRUE, copy.status)
      /\ Plain([copy EXCEPT !.deleting = TRUE])
           = PlainCopy(copy.exists, TRUE, copy.finalizer, copy.status)
  BY DEF Plain, PlainCopy, CRs
<1> QED BY <1>1, <1>2, PlainSays, PlainCopiesWith

\* The statuses are the same ones on both sides.
LEMMA SameStatuses ==
  /\ Dispatch!NewStatus = NewStatus
  /\ \A ns, status : Dispatch!IsEqual(ns, status) = IsEqual(ns, status)
BY DEF Dispatch!NewStatus, NewStatus, Dispatch!Unset, Unset, Dispatch!ConditionTypes,
       ConditionTypes, Dispatch!IsEqual, IsEqual, Dispatch!ConditionsEquals, ConditionsEquals,
       Dispatch!ConditionEquals, ConditionEquals

LEMMA SameSetters ==
  ASSUME NEW ns, NEW state, NEW type, NEW status, NEW reason, NEW message, NEW url
  PROVE  /\ Dispatch!SetState(ns, state) = SetState(ns, state)
         /\ Dispatch!UpdateCondition(ns, type, status, reason, message)
              = UpdateCondition(ns, type, status, reason, message)
         /\ Dispatch!SetURL(ns, url) = SetURL(ns, url)
         /\ Dispatch!ClearURL(ns) = ClearURL(ns)
BY DEF Dispatch!SetState, SetState, Dispatch!UpdateCondition, UpdateCondition,
       Dispatch!SetURL, SetURL, Dispatch!ClearURL, ClearURL

LEMMA PlainGone ==
  ASSUME NEW uid
  PROVE  Plain(Gone(uid)) = Dispatch!Gone
BY SameStatuses DEF Plain, Gone, Dispatch!Gone

LEMMA PlainCreated ==
  ASSUME NEW uid \in Incarnations
  PROVE  Plain([Gone(uid) EXCEPT !.exists = TRUE]) = [Dispatch!Gone EXCEPT !.exists = TRUE]
<1>1. Gone(uid) \in CRs
  BY GoneType
<1>2. Gone(uid).status \in Statuses
  BY <1>1 DEF CRs
<1> QED BY <1>1, <1>2, PlainWith, PlainGone

-------------------------------------------------------------------------------
(* The end of a pass and its writes.                                       *)

LEMMA EndPassStep ==
  ASSUME NEW requeue \in BOOLEAN, queued \in BOOLEAN, EndPass(requeue)
  PROVE  Dispatch!EndPass(requeue)
<1>1. Flag(queued') = IF requeue THEN Flag(queued) \cup {"nats"} ELSE Flag(queued)
  BY FlagSays DEF EndPass, Flag
<1>2. Plain(obj') = Dispatch!Gone
  BY PlainGone DEF EndPass
<1>3. Where' = "idle" /\ objFresh' = FALSE
  BY DEF EndPass, Where, DeletionSteps, PurgeSteps
<1> QED BY <1>1, <1>2, <1>3 DEF Dispatch!EndPass, Flag, Where

LEMMA StoreStep ==
  ASSUME NEW new, Store(new), fresh \in BOOLEAN
  PROVE  Dispatch!Store("nats", Plain(new))
<1>1. Crs' = [Crs EXCEPT !["nats"] = Plain(new)]
  BY OnlySays DEF Store, Crs
<1>2. Flag(fresh') = Flag(fresh) \ {"nats"}
  BY FlagSays DEF Store, Flag
<1> QED BY <1>1, <1>2 DEF Dispatch!Store, Crs, Only, Flag

LEMMA FinalizerStep ==
  ASSUME TypeOK, NEW new, UpdateFinalizer(new)
  PROVE  Dispatch!UpdateFinalizer(Plain(new))
<1>1. CASE objFresh /\ Store(new) /\ EndPass(FALSE)
  BY <1>1, StoreStep, EndPassStep DEF Dispatch!UpdateFinalizer, TypeOK
<1>2. CASE EndPass(TRUE) /\ UNCHANGED <<cr, fresh>>
  BY <1>2, EndPassStep DEF Dispatch!UpdateFinalizer, TypeOK
<1> QED BY <1>1, <1>2 DEF UpdateFinalizer

LEMMA SyncStatusStep ==
  ASSUME TypeOK, NEW status \in Statuses, NEW requeue \in BOOLEAN, SyncStatus(status, requeue)
  PROVE  Dispatch!SyncStatus(status, requeue)
<1>1. /\ Copies["nats"].exists = cache.exists /\ Copies["nats"].status = cache.status
      /\ Crs["nats"] = Plain(cr)
      /\ "nats" \in Flag(fresh) <=> fresh
  <2>1. cache \in CRs /\ fresh \in BOOLEAN
    BY DEF TypeOK
  <2>2. Copies["nats"] = Plain(cache) /\ Crs["nats"] = Plain(cr)
    BY OnlySays DEF Copies, Crs
  <2>3. Plain(cache).exists = cache.exists /\ Plain(cache).status = cache.status
    BY <2>1, PlainSays
  <2>4. "nats" \in Flag(fresh) <=> fresh
    BY <2>1, FlagSays
  <2> QED BY <2>2, <2>3, <2>4
<1> DEFINE same == IsEqual(cache.status, status)
<1>a. Dispatch!IsEqual(cache.status, status) = same
  BY SameStatuses
<1> HIDE DEF same
<1>2. CASE cache.exists /\ same /\ EndPass(requeue) /\ UNCHANGED <<cr, fresh>>
  <2>1. Dispatch!EndPass(requeue)
    BY <1>2, EndPassStep DEF TypeOK
  <2> QED BY <1>1, <1>a, <1>2, <2>1 DEF Dispatch!SyncStatus, Copies, Only
<1>3. CASE /\ cache.exists /\ ~same /\ fresh
           /\ Store([cr EXCEPT !.status = status]) /\ EndPass(requeue)
  <2>1. Dispatch!EndPass(requeue)
    BY <1>3, EndPassStep DEF TypeOK
  <2>2. Plain([cr EXCEPT !.status = status]) = [Plain(cr) EXCEPT !.status = status]
    BY PlainWith DEF TypeOK
  <2>3. Dispatch!Store("nats", [Plain(cr) EXCEPT !.status = status])
    BY <1>3, <2>2, StoreStep DEF TypeOK
  <2> QED BY <1>1, <1>a, <1>3, <2>1, <2>3 DEF Dispatch!SyncStatus, Copies, Crs, Only, Flag
<1>4. CASE /\ ~cache.exists \/ ~same
           /\ EndPass(TRUE) /\ UNCHANGED <<cr, fresh>>
  <2>1. Dispatch!EndPass(TRUE)
    BY <1>4, EndPassStep DEF TypeOK
  <2> QED BY <1>1, <1>a, <1>4, <2>1 DEF Dispatch!SyncStatus, Copies, Only
<1> QED BY <1>2, <1>3, <1>4 DEF SyncStatus, same


-------------------------------------------------------------------------------
(* The statuses a pass reports.                                            *)

LEMMA SameReports ==
  ASSUME NEW ns, NEW message
  PROVE  /\ Dispatch!SetStateDeleting(ns) = SetStateDeleting(ns)
         /\ Dispatch!Initialize(ns) = Initialize(ns)
         /\ Dispatch!Waiting(ns) = WaitingStatus(ns)
         /\ Dispatch!Blocked(ns, message)
              = UpdateConditionDeletion(SetStateWarning(ns), "False", "DeletionError", message)
         /\ Dispatch!UpdateConditionAvailable(Dispatch!SetStateError(ns), "False",
              "FailedProcessing", "deploy-failed") = FailedStatus(ns)
         /\ Dispatch!Ready(ns, 1, "False", "NotConfigured", "not-in-cluster-mode")
              = ReadyStatus(ns)
BY DEF Dispatch!SetState, SetState, Dispatch!UpdateCondition, UpdateCondition,
       Dispatch!SetURL, SetURL, Dispatch!ClearURL, ClearURL,
       Dispatch!SetStateDeleting, SetStateDeleting, Dispatch!Initialize, Initialize,
       Dispatch!UpdateConditionAvailable, UpdateConditionAvailable,
       Dispatch!UpdateConditionStatefulSet, UpdateConditionStatefulSet,
       Dispatch!UpdateConditionDeletion, UpdateConditionDeletion,
       Dispatch!UpdateConditionAvailabilityZones, UpdateConditionAvailabilityZones,
       Dispatch!SetStateWarning, SetStateWarning, Dispatch!SetStateError, SetStateError,
       Dispatch!SetStateReady, SetStateReady, Dispatch!SetWaitingStateForStatefulSet,
       SetWaitingStateForStatefulSet, Dispatch!Waiting, WaitingStatus, Dispatch!Blocked,
       FailedStatus, Dispatch!Ready, ReadyStatus, Dispatch!ServiceURL, ServiceURL

\* What handleNATSReconcile may report here is what it may report there.
LEMMA ReportsStep ==
  ASSUME NEW ns,
         NEW status \in {ReadyStatus(ns), WaitingStatus(ns), FailedStatus(ns)}
  PROVE  \E verdict \in {"failed", "waiting", "single"} : status \in Dispatch!Reports(ns)[verdict]
<1>1. /\ Dispatch!Reports(ns)["failed"] =
           {Dispatch!UpdateConditionAvailable(Dispatch!SetStateError(s), "False",
              "FailedProcessing", m) : s \in {ns, Dispatch!ClearURL(ns)}, m \in {"deploy-failed"}}
      /\ Dispatch!Reports(ns)["waiting"] = {Dispatch!Waiting(ns)}
      /\ Dispatch!Reports(ns)["single"] =
           {Dispatch!Ready(ns, z, "False", "NotConfigured", "not-in-cluster-mode") : z \in {1}}
  BY DEF Dispatch!Reports
<1>2. /\ FailedStatus(ns) \in Dispatch!Reports(ns)["failed"]
      /\ WaitingStatus(ns) \in Dispatch!Reports(ns)["waiting"]
      /\ ReadyStatus(ns) \in Dispatch!Reports(ns)["single"]
  BY <1>1, SameReports
<1> QED BY <1>2


-------------------------------------------------------------------------------
(* Each step, as the step of Reconciler it is.                             *)

LEMMA WhereSays ==
  /\ pc \in {"idle", "provision", "report", "block"} => Where = pc
  /\ pc \in DeletionSteps /\ pc # "block" => Where = "delete"
BY DEF Where, DeletionSteps, PurgeSteps

\* A step of the deletion that Reconciler does not tell from no step.
LEMMA QuietStep ==
  ASSUME UNCHANGED <<cr, cache, fresh, queued, obj, objFresh>>,
         Where' = Where, Gauge' = Gauge
  PROVE  UNCHANGED Dispatch!vars
BY DEF Dispatch!vars, Dispatch!informerVars, Dispatch!passVars, Where, Gauge

LEMMA StartPassStep ==
  ASSUME TypeOK, StartPass
  PROVE  Dispatch!Next
<1>1. /\ pc = "idle" /\ queued /\ ~queued'
      /\ UNCHANGED <<cr, cache, fresh>>
  BY DEF StartPass, TypeOK
<1>2. /\ Where = "idle" /\ "nats" \in Flag(queued) /\ Flag(queued') = Flag(queued) \ {"nats"}
  BY <1>1, WhereSays DEF Flag
<1>3. Copies["nats"] = Plain(cache) /\ ("nats" \in Flag(fresh) <=> fresh)
  BY OnlySays, FlagSays DEF Copies, TypeOK
<1>a. ("nats" \in Flag(fresh)) = fresh
  BY FlagSays DEF TypeOK
<1>4. /\ Plain(cache).exists = cache.exists /\ Plain(cache).deleting = cache.deleting
      /\ Plain(cache).finalizer = cache.finalizer /\ Plain(cache).status = cache.status
      /\ cache.status \in Statuses
  BY PlainSays DEF TypeOK, CRs
<1>5. Dispatch!Reconcile("nats")
  <2>1. CASE ~cache.exists /\ UNCHANGED <<pc, obj, objFresh, gauges>>
    BY <1>3, <1>4, <2>1 DEF Dispatch!Reconcile, Dispatch!passVars, Copies, Only
  <2>2. CASE BeginDeletion
    <3>1. cache.exists /\ cache.deleting /\ Gauge' = 0
      BY <2>2 DEF BeginDeletion, Gauge
    <3>2. CASE /\ cache.finalizer /\ pc' = "connect" /\ objFresh' = fresh
               /\ obj' = [cache EXCEPT !.status = SetStateDeleting(cache.status)]
      <4>1. Plain(obj') = [Plain(cache) EXCEPT !.status = SetStateDeleting(cache.status)]
        BY <1>4, <3>2, PlainWith, SettersType DEF TypeOK
      <4>2. Where' = "delete"
        BY <3>2 DEF Where, DeletionSteps
      <4>3. Dispatch!SetStateDeleting(cache.status) = SetStateDeleting(cache.status)
        BY SameReports
      <4>4. /\ Copies["nats"].deleting /\ Copies["nats"].finalizer
            /\ objFresh' = ("nats" \in Flag(fresh))
        BY <1>3, <1>4, <1>a, <3>1, <3>2
      <4>5. Plain(obj') = [Copies["nats"] EXCEPT !.status = Dispatch!SetStateDeleting(@)]
        BY <1>3, <1>4, <4>1, <4>3
      <4>6. Dispatch!HandleNATSDeletion("nats")
        BY <3>1, <4>2, <4>4, <4>5, Zenon
           DEF Dispatch!HandleNATSDeletion, Copies, Only, Flag, Gauge, Where
      <4> QED BY <1>3, <1>4, <3>1, <4>6 DEF Dispatch!Reconcile, Copies, Only
    <3>3. CASE ~cache.finalizer /\ UNCHANGED <<pc, obj, objFresh>>
      <4>1. Dispatch!HandleNATSDeletion("nats")
        BY <1>3, <1>4, <3>1, <3>3
           DEF Dispatch!HandleNATSDeletion, Dispatch!passVars, Copies, Only, Gauge
      <4> QED BY <1>3, <1>4, <3>1, <4>1 DEF Dispatch!Reconcile, Copies, Only
    <3> QED BY <2>2, <3>2, <3>3 DEF BeginDeletion
  <2>3. CASE BeginProvisioning
    <3>1. /\ cache.exists /\ ~cache.deleting /\ Gauge' = 1
          /\ pc' = "provision" /\ objFresh' = fresh
      BY <2>3 DEF BeginProvisioning, Gauge
    <3>2. obj' = [cache EXCEPT !.status = Initialize(cache.status)]
      BY <2>3 DEF BeginProvisioning
    <3>3. Plain(obj') = [Plain(cache) EXCEPT !.status = Initialize(cache.status)]
      BY <1>4, <3>2, PlainWith, SettersType DEF TypeOK
    <3>4. Where' = "provision"
      BY <3>1 DEF Where, DeletionSteps, PurgeSteps
    <3>5. Dispatch!Initialize(cache.status) = Initialize(cache.status)
      BY SameReports
    <3>6. /\ ~Copies["nats"].deleting
          /\ objFresh' = ("nats" \in Flag(fresh))
          /\ Gauge' = [n \in {"nats"} |-> 1]["nats"]
      BY <1>3, <1>4, <1>a, <3>1
    <3>7. Plain(obj') = [Copies["nats"] EXCEPT !.status = Dispatch!Initialize(@)]
      BY <1>3, <1>4, <3>3, <3>5
    <3>8. Dispatch!HandleNATSReconcile("nats")
      BY <3>4, <3>6, <3>7, Zenon
         DEF Dispatch!HandleNATSReconcile, Copies, Only, Flag, Gauge, Where
    <3> QED BY <1>3, <1>4, <3>1, <3>8 DEF Dispatch!Reconcile, Copies, Only
  <2> QED BY <2>1, <2>2, <2>3 DEF StartPass
<1>6. Dispatch!StartPass("nats")
  BY <1>1, <1>2, <1>5
     DEF Dispatch!StartPass, Dispatch!informerVars, Flag, Where
<1> QED BY <1>6 DEF Dispatch!Next, Dispatch!Work

LEMMA AddFinalizerStep ==
  ASSUME TypeOK, AddFinalizer
  PROVE  Dispatch!Next
<1>1. /\ pc = "provision" /\ ~obj.finalizer
      /\ UpdateFinalizer([cr EXCEPT !.finalizer = TRUE])
      /\ UNCHANGED <<cache, gauges>>
  BY DEF AddFinalizer
<1>2. Dispatch!UpdateFinalizer(Plain([cr EXCEPT !.finalizer = TRUE]))
  BY <1>1, FinalizerStep
<1>3. Plain([cr EXCEPT !.finalizer = TRUE]) = [Plain(cr) EXCEPT !.finalizer = TRUE]
  BY PlainWith, NewStatusType DEF TypeOK
<1>4. [Plain(cr) EXCEPT !.finalizer = TRUE] = [Crs["nats"] EXCEPT !.finalizer = TRUE]
  BY OnlySays DEF Crs
<1>5. Dispatch!UpdateFinalizer([Crs["nats"] EXCEPT !.finalizer = TRUE])
  BY <1>2, <1>3, <1>4
<1>6. ~Plain(obj).finalizer /\ Where = "provision"
  BY <1>1, PlainSays, WhereSays DEF TypeOK
<1>7. Dispatch!Provision
  BY <1>5, <1>6, Zenon DEF Dispatch!Provision, Crs, Only, Where
<1> QED BY <1>1, <1>7 DEF Dispatch!Next, Dispatch!Work

LEMMA DeployStep ==
  ASSUME TypeOK, Deploy
  PROVE  Dispatch!Next
<1>1. /\ pc = "provision" /\ pc' = "report" /\ obj.finalizer
      /\ UNCHANGED <<cr, cache, fresh, queued, objFresh>>
  BY DEF Deploy
<1>2. Gauge' = Gauge
  BY DEF Deploy, Gauge
<1>3. PICK status \in {ReadyStatus(obj.status), WaitingStatus(obj.status),
                       FailedStatus(obj.status)} :
        obj' = [obj EXCEPT !.status = status]
  BY DEF Deploy
<1>4. status \in Statuses
  BY ReportedStatusType DEF TypeOK, CRs
<1>5. Plain(obj') = [Plain(obj) EXCEPT !.status = status]
  BY <1>3, <1>4, PlainWith DEF TypeOK
<1>6. Plain(obj).finalizer /\ Plain(obj).status = obj.status
  BY <1>1, PlainSays DEF TypeOK
<1>7. PICK verdict \in {"failed", "waiting", "single"} :
        status \in Dispatch!Reports(Plain(obj).status)[verdict]
  BY <1>6, ReportsStep
<1>8. Where = "provision" /\ Where' = "report"
  BY <1>1 DEF Where, DeletionSteps, PurgeSteps
<1>9. UNCHANGED <<Crs, Flag(fresh), Flag(queued), objFresh>>
  BY <1>1 DEF Crs
<1>10. Dispatch!Provision
  BY <1>5, <1>6, <1>7, <1>8, <1>9, Zenon
     DEF Dispatch!Provision, Crs, Only, Flag, Where
<1>11. UNCHANGED <<Copies, Gauge>>
  BY <1>1, <1>2 DEF Copies
<1> QED BY <1>10, <1>11 DEF Dispatch!Next, Dispatch!Work, Copies, Only, Gauge

LEMMA ReportStep ==
  ASSUME TypeOK, Report
  PROVE  Dispatch!Next
<1> DEFINE requeue == obj.status.state \in {"Error", "Processing"}
<1>1. /\ pc = "report" /\ SyncStatus(obj.status, requeue)
      /\ UNCHANGED <<cache, gauges>>
  BY DEF Report
<1>2. obj.status \in Statuses /\ requeue \in BOOLEAN
  BY DEF TypeOK, CRs
<1>3. Plain(obj).status = obj.status /\ Where = "report"
  BY <1>1, PlainSays, WhereSays DEF TypeOK
<1> HIDE DEF requeue
<1>4. Dispatch!SyncStatus(obj.status, requeue)
  BY <1>1, <1>2, SyncStatusStep
<1>5. Dispatch!Report
  BY <1>3, <1>4 DEF Dispatch!Report, requeue, Where
<1> QED BY <1>1, <1>5 DEF Dispatch!Next, Dispatch!Work

LEMMA BlockStep ==
  ASSUME TypeOK, Block
  PROVE  Dispatch!Next
<1>1. /\ pc = "block" /\ SyncStatus(obj.status, TRUE)
      /\ UNCHANGED <<cache, gauges>>
  BY DEF Block
<1>2. obj.status \in Statuses
  BY DEF TypeOK, CRs
<1>3. Plain(obj).status = obj.status /\ Where = "block"
  BY <1>1, PlainSays, WhereSays DEF TypeOK
<1>4. Dispatch!SyncStatus(obj.status, TRUE)
  BY <1>1, <1>2, SyncStatusStep
<1>5. Dispatch!Block
  BY <1>3, <1>4 DEF Dispatch!Block, Where
<1> QED BY <1>1, <1>5 DEF Dispatch!Next, Dispatch!Work

\* A pass of the deletion that ends without having touched the resource.
LEMMA DeletionEndsStep ==
  ASSUME TypeOK, NEW requeue \in BOOLEAN, pc \in DeletionSteps, pc # "block",
         EndPass(requeue), UNCHANGED <<cr, cache, fresh, gauges>>
  PROVE  Dispatch!Next
<1>1. Dispatch!EndPass(requeue)
  BY EndPassStep DEF TypeOK
<1>2. Where = "delete"
  BY WhereSays
<1>3. Dispatch!Deprovision
  BY <1>1, <1>2 DEF Dispatch!Deprovision, Where
<1> QED BY <1>3 DEF Dispatch!Next, Dispatch!Work

\* A query that goes to the next one, to the volumes, or to the block.
LEMMA QueryStep ==
  ASSUME TypeOK, pc \in DeletionSteps, pc # "block",
         UNCHANGED <<cr, cache, fresh, queued, objFresh, gauges>>,
         \/ pc' \in DeletionSteps /\ pc' # "block" /\ UNCHANGED obj
         \/ /\ pc' = "block"
            /\ \E message \in {StreamExistsErrorMsg, ConsumerExistsErrorMsg} :
                 obj' = Blocked(message)
  PROVE  Dispatch!Next \/ UNCHANGED Dispatch!vars
<1>1. Where = "delete" /\ Gauge' = Gauge
  BY WhereSays DEF Gauge
<1>2. CASE pc' \in DeletionSteps /\ pc' # "block" /\ UNCHANGED obj
  <2>1. Where' = "delete"
    BY <1>2 DEF Where
  <2> QED BY <1>1, <1>2, <2>1, QuietStep
<1>3. CASE /\ pc' = "block"
           /\ \E message \in {StreamExistsErrorMsg, ConsumerExistsErrorMsg} :
                obj' = Blocked(message)
  <2>1. PICK message \in {StreamExistsErrorMsg, ConsumerExistsErrorMsg} :
          obj' = Blocked(message)
    BY <1>3
  <2> DEFINE status == UpdateConditionDeletion(SetStateWarning(obj.status), "False",
                         "DeletionError", message)
  <2>2. obj' = [obj EXCEPT !.status = status]
    BY <2>1 DEF Blocked
  <2>3. status \in Statuses
    <3>1. SetStateWarning(obj.status) \in Statuses
      BY SettersType DEF TypeOK, CRs
    <3> QED BY <3>1, UpdateConditionType
         DEF UpdateConditionDeletion, ConditionTypes, Reasons, Messages,
             StreamExistsErrorMsg, ConsumerExistsErrorMsg
  <2>4. status = Dispatch!Blocked(obj.status, message)
    BY SameReports
  <2> HIDE DEF status
  <2>5. Plain(obj') = [Plain(obj) EXCEPT !.status = status]
    BY <2>2, <2>3, PlainWith DEF TypeOK
  <2>6. Plain(obj).status = obj.status
    BY PlainSays DEF TypeOK
  <2>7. Plain(obj') = [Plain(obj) EXCEPT !.status = Dispatch!Blocked(@, message)]
    BY <2>4, <2>5, <2>6
  <2>8. Where' = "block"
    BY <1>3 DEF Where
  <2>9. UNCHANGED <<Crs, Flag(fresh), Flag(queued), objFresh>>
    BY DEF Crs
  <2>10. Dispatch!Deprovision
    BY <1>1, <2>7, <2>8, <2>9, Zenon
       DEF Dispatch!Deprovision, Crs, Only, Flag, Where
  <2>11. UNCHANGED <<Copies, Gauge>>
    BY <1>1 DEF Copies
  <2> QED BY <2>10, <2>11 DEF Dispatch!Next, Dispatch!Work, Copies, Only, Gauge
<1> QED BY <1>2, <1>3

LEMMA RemoveFinalizerStep ==
  ASSUME TypeOK, RemoveFinalizer
  PROVE  Dispatch!Next
<1>1. /\ pc = "removeFinalizer" /\ UpdateFinalizer(Gone(cr.uid))
      /\ UNCHANGED <<cache, gauges>>
  BY DEF RemoveFinalizer
<1>2. Dispatch!UpdateFinalizer(Dispatch!Gone)
  BY <1>1, FinalizerStep, PlainGone
<1>3. Crs["nats"].foreign = FALSE
  <2>1. cr \in CRs
    BY DEF TypeOK
  <2>2. Crs["nats"] = Plain(cr)
    BY OnlySays DEF Crs
  <2> QED BY <2>1, <2>2, PlainSays
<1>4. Where = "delete"
  BY <1>1, WhereSays DEF DeletionSteps, PurgeSteps
<1>5. Dispatch!UpdateFinalizer(IF Crs["nats"].foreign
                               THEN [Crs["nats"] EXCEPT !.finalizer = FALSE] ELSE Dispatch!Gone)
  BY <1>2, <1>3, Zenon
<1>6. Dispatch!Deprovision
  BY <1>4, <1>5, Zenon DEF Dispatch!Deprovision, Crs, Only, Where
<1> QED BY <1>1, <1>6 DEF Dispatch!Next, Dispatch!Work

-------------------------------------------------------------------------------
(* What goes on besides the passes.                                        *)

LEMMA CacheSyncStep ==
  ASSUME TypeOK, CacheSync
  PROVE  Dispatch!Next
<1>1. /\ ~fresh /\ cache' = cr /\ fresh' = TRUE /\ queued' = TRUE
      /\ UNCHANGED <<cr, pc, obj, objFresh, gauges>>
  BY DEF CacheSync, passVars
<1>2. Copies' = [Copies EXCEPT !["nats"] = Crs["nats"]]
  BY <1>1, OnlySays DEF Copies, Crs
<1>3. /\ "nats" \notin Flag(fresh) /\ Flag(fresh') = Flag(fresh) \cup {"nats"}
      /\ Flag(queued') = Flag(queued) \cup {"nats"}
  BY <1>1 DEF Flag
<1>4. UNCHANGED <<Crs, Where, obj, objFresh, Gauge>>
  BY <1>1 DEF Crs, Where, Gauge
<1>5. Dispatch!CacheSync("nats")
  BY <1>2, <1>3, <1>4
     DEF Dispatch!CacheSync, Dispatch!passVars, Copies, Crs, Only, Flag, Where, Gauge
<1> QED BY <1>5 DEF Dispatch!Next, Dispatch!Environment

\* Whatever brings the resource into the queue may be an event of a pod.
LEMMA EventStep ==
  ASSUME TypeOK, queued' = TRUE,
         UNCHANGED <<cr, cache, fresh, pc, obj, objFresh, gauges>>
  PROVE  Dispatch!Next
<1>1. Flag(queued') = Flag(queued) \cup {"nats"}
  BY DEF Flag
<1>2. UNCHANGED <<Crs, Copies, Flag(fresh), Where, obj, objFresh, Gauge>>
  BY DEF Crs, Copies, Where, Gauge
<1>3. Dispatch!PodEvent
  BY <1>1, <1>2
     DEF Dispatch!PodEvent, Dispatch!informerVars, Dispatch!passVars, Crs, Copies, Only,
         Flag, Where, Gauge
<1> QED BY <1>3 DEF Dispatch!Next, Dispatch!Environment

\* A write of a user, from whatever copy.
LEMMA WriteStep ==
  ASSUME TypeOK, NEW new, Store(new), objFresh' = FALSE,
         UNCHANGED <<cache, queued, pc, obj, gauges>>
  PROVE  Dispatch!Write("nats", Plain(new))
<1>1. Dispatch!Store("nats", Plain(new))
  BY StoreStep DEF TypeOK
<1>2. UNCHANGED <<Copies, Flag(queued), Where, obj, Gauge>>
  BY DEF Copies, Where, Gauge
<1> QED BY <1>1, <1>2 DEF Dispatch!Write, Copies, Only, Flag, Where, Gauge

LEMMA CreateCRStep ==
  ASSUME TypeOK, CreateCR
  PROVE  Dispatch!Next
<1>1. /\ ~cr.exists /\ Store([Gone(cr.uid + 1) EXCEPT !.exists = TRUE])
      /\ Dispatch!Write("nats", Plain([Gone(cr.uid + 1) EXCEPT !.exists = TRUE]))
  BY WriteStep DEF CreateCR, passVars
<1>2. cr.uid + 1 \in Incarnations
  BY DeprovisionerAssumption DEF CreateCR, TypeOK, CRs, Incarnations
<1>3. Dispatch!Write("nats", [Dispatch!Gone EXCEPT !.exists = TRUE])
  BY <1>1, <1>2, PlainCreated
<1>4. ~Crs["nats"].exists
  BY <1>1, OnlySays, PlainSays DEF Crs, TypeOK
<1>5. Dispatch!CreateCR("nats")
  BY <1>3, <1>4, Zenon DEF Dispatch!CreateCR, Crs, Only
<1> QED BY <1>5 DEF Dispatch!Next, Dispatch!Environment

LEMMA DeleteCRStep ==
  ASSUME TypeOK, DeleteCR
  PROVE  Dispatch!Next
<1> DEFINE new == IF cr.finalizer THEN [cr EXCEPT !.deleting = TRUE] ELSE Gone(cr.uid)
<1>1. cr \in CRs /\ cr.exists /\ ~cr.deleting
  BY DEF TypeOK, DeleteCR
<1>2. Dispatch!Write("nats", Plain(new))
  BY WriteStep DEF DeleteCR, passVars
<1>3. /\ Crs["nats"] = Plain(cr)
      /\ Plain(cr).exists = cr.exists /\ Plain(cr).deleting = cr.deleting
      /\ Plain(cr).finalizer = cr.finalizer
  BY <1>1, OnlySays, PlainSays DEF Crs
<1>4. Plain(new) = IF cr.finalizer THEN [Plain(cr) EXCEPT !.deleting = TRUE, !.foreign = FALSE]
                   ELSE Dispatch!Gone
  BY <1>1, PlainWith, PlainGone, NewStatusType
<1> HIDE DEF new
<1>5. ("nats" \in {}) = FALSE
  OBVIOUS
<1>6. Plain(new) = IF Crs["nats"].finalizer \/ "nats" \in {}
                   THEN [Crs["nats"] EXCEPT !.deleting = TRUE, !.foreign = "nats" \in {}]
                   ELSE Dispatch!Gone
  BY <1>3, <1>4, <1>5
<1>7. Crs["nats"].exists /\ ~Crs["nats"].deleting
  BY <1>1, <1>3
<1>8. Dispatch!DeleteCR("nats")
  BY <1>2, <1>6, <1>7, Zenon DEF Dispatch!DeleteCR, Crs, Only
<1> QED BY <1>8 DEF Dispatch!Next, Dispatch!Environment

LEMMA TouchCRStep ==
  ASSUME TypeOK, TouchCR
  PROVE  Dispatch!Next
<1>1. cr.exists /\ Store(cr) /\ Dispatch!Write("nats", Plain(cr))
  BY WriteStep DEF TouchCR, Store, passVars
<1>2. Crs["nats"] = Plain(cr) /\ Plain(cr).exists
  BY <1>1, OnlySays, PlainSays DEF Crs, TypeOK
<1>3. Dispatch!TouchCR("nats")
  BY <1>1, <1>2, Zenon DEF Dispatch!TouchCR, Crs, Only
<1> QED BY <1>3 DEF Dispatch!Next, Dispatch!Environment

LEMMA CrashStep ==
  ASSUME TypeOK, Crash
  PROVE  Dispatch!Next
<1>1. /\ pc' = "idle" /\ obj' = Gone(0) /\ objFresh' = FALSE
      /\ cache' = cr /\ fresh' = TRUE /\ queued' = cr.exists /\ gauges' = {} /\ cr' = cr
  BY DEF Crash
<1>2. /\ Where' = "idle" /\ Gauge' = 0 /\ Copies' = Crs /\ Crs' = Crs
      /\ Flag(fresh') = {"nats"} /\ Plain(obj') = Dispatch!Gone
  BY <1>1, PlainGone DEF Where, Gauge, Copies, Crs, Flag, DeletionSteps, PurgeSteps
<1>3. Crs["nats"].exists = cr.exists
  <2>1. cr \in CRs
    BY DEF TypeOK
  <2>2. Crs["nats"] = Plain(cr)
    BY OnlySays DEF Crs
  <2> QED BY <2>1, <2>2, PlainSays
<1>4. Flag(queued') = {n \in {"nats"} : Crs[n].exists}
  BY <1>1, <1>3 DEF Flag
<1>5. Dispatch!Crash
  BY <1>1, <1>2, <1>4 DEF Dispatch!Crash, Copies, Crs, Only, Flag, Where, Gauge
<1> QED BY <1>5 DEF Dispatch!Next, Dispatch!Environment

-------------------------------------------------------------------------------
(* All of them together.                                                   *)

LEMMA DispatchInit == Init => Dispatch!Init
<1> SUFFICES ASSUME Init PROVE Dispatch!Init
  OBVIOUS
<1>1. Plain(Gone(0)) = Dispatch!Gone
  BY PlainGone
<1> QED BY <1>1 DEF Init, Dispatch!Init, DeletionSteps, PurgeSteps

LEMMA DispatchNext ==
  ASSUME TypeOK, [Next]_vars
  PROVE  [Dispatch!Next]_(Dispatch!vars)
<1> DEFINE Step == Dispatch!Next \/ UNCHANGED Dispatch!vars
<1> USE DEF serverVars, clientVars, apiVars, passVars, volumeVars, restVars
<1>1. CASE StartPass \/ AddFinalizer \/ Deploy \/ Report \/ Block \/ RemoveFinalizer
  BY <1>1, StartPassStep, AddFinalizerStep, DeployStep, ReportStep, BlockStep,
     RemoveFinalizerStep
<1>2. CASE Connect \/ CustomerStreamExists \/ SapStreamExists \/ SapConsumerExists
  <2>1. pc \in DeletionSteps /\ pc # "block"
    BY <1>2 DEF Connect, CustomerStreamExists, SapStreamExists, SapConsumerExists, Query,
                DeletionSteps, PurgeSteps
  <2>2. UNCHANGED <<cr, cache, fresh, queued, objFresh, gauges>>
    BY <1>2 DEF Connect, CustomerStreamExists, SapStreamExists, SapConsumerExists, Query
  <2>3. \/ pc' \in DeletionSteps /\ pc' # "block" /\ UNCHANGED obj
        \/ /\ pc' = "block"
           /\ \E message \in {StreamExistsErrorMsg, ConsumerExistsErrorMsg} :
                obj' = Blocked(message)
    BY <1>2 DEF Connect, CustomerStreamExists, SapStreamExists, SapConsumerExists, Query,
                CheckCustomerStreams, CheckSapStream, CheckConsumers, DeletionSteps, PurgeSteps
  <2> QED BY <2>1, <2>2, <2>3, QueryStep
<1>3. ASSUME pc \in {"listPVCs", "deletePVCs"}, UNCHANGED <<cr, cache, fresh, gauges>>,
             \/ EndPass(TRUE) \/ EndPass(FALSE)
             \/ /\ pc' \in {"deletePVCs", "removeFinalizer"}
                /\ UNCHANGED <<queued, obj, objFresh>>
      PROVE  Step
  <2>1. pc \in DeletionSteps /\ pc # "block"
    BY <1>3 DEF DeletionSteps, PurgeSteps
  <2>2. CASE EndPass(TRUE) \/ EndPass(FALSE)
    BY <1>3, <2>1, <2>2, DeletionEndsStep
  <2>3. CASE pc' \in {"deletePVCs", "removeFinalizer"} /\ UNCHANGED <<queued, obj, objFresh>>
    <3>1. pc' \in DeletionSteps /\ pc' # "block"
      BY <2>3 DEF DeletionSteps, PurgeSteps
    <3> QED BY <1>3, <2>1, <2>3, <3>1, QueryStep
  <2> QED BY <1>3, <2>2, <2>3
<1>4. CASE ListPVCs \/ (\E p \in OwnPVCs : DeletePVC(p)) \/ CloseNatsClient
  BY <1>3, <1>4 DEF ListPVCs, DeletePVC, CloseNatsClient
<1>5. CASE CacheSync \/ CreateCR \/ DeleteCR \/ TouchCR \/ Crash
  BY <1>5, CacheSyncStep, CreateCRStep, DeleteCRStep, TouchCRStep, CrashStep
<1>6. CASE Event \/ CollectGarbage \/ RemoveResources
  <2>1. queued' = TRUE /\ UNCHANGED <<cr, cache, fresh, pc, obj, objFresh, gauges>>
    BY <1>6 DEF Event, Enqueue, CollectGarbage, RemoveResources, Undeploy
  <2> QED BY <2>1, EventStep
<1>7. CASE \/ PVCSync \/ (\E p \in OwnPVCs : ProvisionPVC(p) \/ ReleasePVC(p))
           \/ ServerStep \/ ConnectionLost \/ ConnectionStep \/ CalmDown \/ UNCHANGED vars
  <2>1. UNCHANGED <<cr, cache, fresh, queued, pc, obj, objFresh, gauges>>
    BY <1>7 DEF PVCSync, ProvisionPVC, ReleasePVC, ServerStep, ConnectionLost, ConnectionStep,
                CalmDown, vars
  <2>2. Where' = Where /\ Gauge' = Gauge
    BY <2>1 DEF Where, Gauge
  <2> QED BY <2>1, <2>2, QuietStep
<1> QED BY <1>1, <1>2, <1>4, <1>5, <1>6, <1>7 DEF Next, Work, Environment

\* For every set of streams and claims and every disruption: whatever the calls of
\* a provisioning or deletion pass do, the resource, the queue and the exported
\* size move as the dispatch of Reconcile lets them (BeginDeletion, Deploy, Block,
\* deletePVCsAndRemoveFinalizer and the rest are passes of module Reconciler).
THEOREM DeprovisionerImplementsDispatch == Spec => ImplementsDispatch
<1>1. Init => TypeOK /\ Dispatch!Init
  BY InitType, DispatchInit
<1>2. TypeOK /\ [Next]_vars => TypeOK' /\ [Dispatch!Next]_(Dispatch!vars)
  BY NextType, DispatchNext
<1> QED BY <1>1, <1>2, PTL DEF Spec, ImplementsDispatch, Dispatch!SafetySpec

===============================================================================
