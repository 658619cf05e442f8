--------------------------- MODULE ReconcilerProofs ---------------------------
(***************************************************************************)
(* Theorems about Reconciler for every set of resources, whatever sizes    *)
(* they ask for and whatever the passes behind the dispatch may find.      *)
(***************************************************************************)
EXTENDS Reconciler, NatsStatusProofs

-------------------------------------------------------------------------------
(* The statuses a pass may end with.                                       *)

LEMMA ForbiddenType ==
  ASSUME NEW ns \in Statuses
  PROVE  Forbidden(ns) \in Statuses
<1>1. SetStateError(ns) \in Statuses
  BY SettersType
<1> QED BY <1>1, UpdateConditionType
     DEF Forbidden, UpdateConditionStatefulSet, UpdateConditionAvailable,
         ConditionTypes, Reasons, Messages

LEMMA ForbiddenIsForbidden ==
  ASSUME NEW ns \in Statuses
  PROVE  IsForbidden(Forbidden(ns))
<1> DEFINE a == SetStateError(ns)
           b == UpdateCondition(a, "StatefulSet", "False", "Forbidden", "")
           c == UpdateCondition(b, "Available", "False", "Forbidden", "creation-not-allowed")
<1>1. a \in Statuses /\ a.state = "Error"
  BY SettersType, SetStateErrorSays DEF StateWith
<1> HIDE DEF a
<1>2. b \in Statuses /\ WithCondition(b, a, "StatefulSet", "False", "Forbidden")
  BY <1>1, UpdateConditionType, UpdateConditionSays DEF ConditionTypes, Reasons, Messages
<1> HIDE DEF b
<1>3. WithCondition(c, b, "Available", "False", "Forbidden")
  BY <1>2, UpdateConditionSays DEF ConditionTypes
<1>4. c = Forbidden(ns)
  BY DEF Forbidden, UpdateConditionAvailable, UpdateConditionStatefulSet, a, b
<1> HIDE DEF c
<1>5. IsForbidden(c)
  BY <1>1, <1>2, <1>3 DEF WithCondition, IsForbidden, ConditionTypes
<1> QED BY <1>4, <1>5

\* A report that does not call the resource forbidden.
Permitted(ns) == FindCondition(ns, "Available").reason # "Forbidden"

LEMMA ReadyReport ==
  ASSUME NEW ns \in Statuses, NEW used \in Nat, NEW status \in {"", "True", "False"},
         NEW reason \in Reasons, NEW message \in Messages
  PROVE  /\ Ready(ns, used, status, reason, message) \in Statuses
         /\ Permitted(Ready(ns, used, status, reason, message))
<1> DEFINE a == SetStateReady(ns)
           b == SetURL(a, ServiceURL)
           c == UpdateCondition(b, "AvailabilityZones", status, reason, message)
           d == [c EXCEPT !.zones = used]
<1>1. a \in Statuses /\ Permitted(a)
  BY SettersType, SetStateReadySays DEF StateWith, Permitted
<1> HIDE DEF a
<1>2. b \in Statuses
  BY <1>1, SettersType
<1>3. WithParts(b, a, a.state, ServiceURL, a.zones)
  BY <1>1, SetPartsSay
<1>4. Permitted(b)
  BY <1>1, <1>3 DEF WithParts, Permitted, ConditionTypes
<1> HIDE DEF b
<1>5. c \in Statuses /\ WithCondition(c, b, "AvailabilityZones", status, reason)
  BY <1>2, UpdateConditionType, UpdateConditionSays DEF ConditionTypes
<1>6. Permitted(c)
  BY <1>4, <1>5 DEF WithCondition, Permitted, ConditionTypes
<1>7. d = Ready(ns, used, status, reason, message)
  BY DEF Ready, UpdateConditionAvailabilityZones, a, b
<1> HIDE DEF c
<1>8. d \in Statuses
  BY <1>5 DEF Statuses
<1>9. WithParts(d, c, c.state, c.url, used)
  BY <1>5, SetPartsSay
<1>10. Permitted(d)
  BY <1>6, <1>9 DEF WithParts, Permitted, ConditionTypes
<1> QED BY <1>7, <1>8, <1>10

LEMMA SetStateReport ==
  ASSUME NEW ns \in Statuses, Permitted(ns), NEW state \in States
  PROVE  SetState(ns, state) \in Statuses /\ Permitted(SetState(ns, state))
BY SetStateType, SetPartsSay DEF WithParts, Permitted, ConditionTypes

LEMMA FailedReport ==
  ASSUME NEW ns \in Statuses, NEW message \in Messages
  PROVE  LET st == UpdateConditionAvailable(SetStateError(ns), "False",
                     "FailedProcessing", message)
         IN  st \in Statuses /\ Permitted(st)
<1> DEFINE a == SetStateError(ns)
           b == UpdateCondition(a, "Available", "False", "FailedProcessing", message)
<1>1. a \in Statuses
  BY SettersType
<1> HIDE DEF a
<1>2. b \in Statuses /\ WithCondition(b, a, "Available", "False", "FailedProcessing")
  BY <1>1, UpdateConditionType, UpdateConditionSays DEF ConditionTypes, Reasons
<1> HIDE DEF b
<1>3. Permitted(b)
  BY <1>2 DEF WithCondition, Permitted
<1> QED BY <1>2, <1>3 DEF UpdateConditionAvailable, a, b

LEMMA WaitingReport ==
  ASSUME NEW ns \in Statuses
  PROVE  LET st == [SetWaitingStateForStatefulSet(ns) EXCEPT !.zones = 0]
         IN  st \in Statuses /\ Permitted(st)
<1> DEFINE a == SetWaitingStateForStatefulSet(ns)
           b == [a EXCEPT !.zones = 0]
<1>1. a \in Statuses /\ Permitted(a)
  BY SettersType, SetWaitingStateSays DEF StateWith, Permitted
<1> HIDE DEF a
<1>2. b \in Statuses
  BY <1>1 DEF Statuses
<1>3. WithParts(b, a, a.state, a.url, 0)
  BY <1>1, SetPartsSay
<1>4. Permitted(b)
  BY <1>1, <1>3 DEF WithParts, Permitted, ConditionTypes
<1> QED BY <1>2, <1>4 DEF a

\* Of all the reports of a provisioning pass none calls the resource forbidden.
LEMMA ReportsPermit ==
  ASSUME NEW ns \in Statuses, NEW verdict \in Verdicts, NEW st \in Reports(ns)[verdict]
  PROVE  st \in Statuses /\ Permitted(st)
<1>1. verdict \in VerdictKinds /\ Failures \subseteq Messages /\ ZoneCounts \subseteq Nat
  BY ReconcilerAssumption
<1>2. /\ {"False", "True"} \subseteq {"", "True", "False"}
      /\ {"FailedProcessing", "NotConfigured", "Deployed", "Unknown"} \subseteq Reasons
      /\ {"zone-label-missing", "zones-unknown", "not-in-cluster-mode", "different-zones",
          "not-enough-zones"} \subseteq Messages
      /\ {"Error", "Warning"} \subseteq States
  BY DEF Reasons, Messages, States
<1>3. CASE verdict = "failed"
  <2>1. ClearURL(ns) \in Statuses
    BY SettersType
  <2>2. \E s \in {ns, ClearURL(ns)}, m \in Failures :
          st = UpdateConditionAvailable(SetStateError(s), "False", "FailedProcessing", m)
    BY <1>3 DEF Reports
  <2> QED BY <1>1, <2>1, <2>2, FailedReport
<1>4. CASE verdict = "waiting"
  <2>1. ClearURL(ns) \in Statuses
    BY SettersType
  <2>2. st = [SetWaitingStateForStatefulSet(ClearURL(ns)) EXCEPT !.zones = 0]
    BY <1>4 DEF Reports, Waiting
  <2> QED BY <2>1, <2>2, WaitingReport
<1>5. CASE verdict = "unlabelled"
  <2>1. st = Ready(ns, 0, "False", "FailedProcessing", "zone-label-missing")
    BY <1>5 DEF Reports
  <2> QED BY <1>2, <2>1, ReadyReport
<1>6. CASE verdict = "unknown"
  <2>1. st = SetState(Ready(ns, 0, "False", "FailedProcessing", "zones-unknown"), "Error")
    BY <1>6 DEF Reports
  <2> QED BY <1>2, <2>1, ReadyReport, SetStateReport
<1>7. CASE verdict = "single"
  <2>1. \E z \in ZoneCounts :
          st = Ready(ns, z, "False", "NotConfigured", "not-in-cluster-mode")
    BY <1>7 DEF Reports
  <2> QED BY <1>1, <1>2, <2>1, ReadyReport
<1>8. CASE verdict = "spread"
  <2>1. \E z \in ZoneCounts : st = Ready(ns, z, "True", "Deployed", "different-zones")
    BY <1>8 DEF Reports
  <2> QED BY <1>1, <1>2, <2>1, ReadyReport
<1>9. CASE verdict = "crowded"
  <2>1. \E z \in ZoneCounts :
          st = SetState(Ready(ns, z, "False", "Unknown", "not-enough-zones"), "Warning")
    BY <1>9 DEF Reports, SetStateWarning
  <2> QED BY <1>1, <1>2, <2>1, ReadyReport, SetStateReport
<1> QED BY <1>1, <1>3, <1>4, <1>5, <1>6, <1>7, <1>8, <1>9 DEF VerdictKinds

-------------------------------------------------------------------------------
(* Every variable keeps its type in every step of the specification.       *)

LEMMA GoneType == Gone \in CRs /\ [Gone EXCEPT !.exists = TRUE] \in CRs
BY NewStatusType DEF Gone, CRs

\* What a freshly created resource is, and one that is gone.
LEMMA GoneShape ==
  /\ Gone.exists = FALSE /\ Gone.deleting = FALSE /\ Gone.finalizer = FALSE
  /\ Gone.foreign = FALSE /\ Gone.status = NewStatus
  /\ LET new == [Gone EXCEPT !.exists = TRUE]
     IN  new.exists = TRUE /\ new.deleting = FALSE /\ new.finalizer = FALSE
BY DEF Gone

LEMMA StatusType ==
  ASSUME NEW cr \in CRs
  PROVE  cr.status \in Statuses
BY DEF CRs

LEMMA WithStatus ==
  ASSUME NEW cr \in CRs, NEW status \in Statuses
  PROVE  LET new == [cr EXCEPT !.status = status]
         IN  /\ new \in CRs /\ new.status = status
             /\ new.exists = cr.exists /\ new.deleting = cr.deleting
             /\ new.finalizer = cr.finalizer /\ new.foreign = cr.foreign
BY DEF CRs

LEMMA BlockedType ==
  ASSUME NEW ns \in Statuses, NEW message \in Blockers
  PROVE  Blocked(ns, message) \in Statuses
<1>1. SetStateWarning(ns) \in Statuses /\ message \in Messages
  BY SettersType, ReconcilerAssumption
<1> QED BY <1>1, UpdateConditionType
     DEF Blocked, UpdateConditionDeletion, ConditionTypes, Reasons

PCs == {"idle", "forbid", "provision", "report", "delete", "block"}

PassType == key \in Names /\ pc \in PCs /\ obj \in CRs /\ objFresh \in BOOLEAN

StoreType == crs \in [Names -> CRs] /\ fresh \subseteq Names

\* What a pass begins with.
Begins(n, step, status) ==
  /\ pc' = step /\ key' = n /\ objFresh' = (n \in fresh)
  /\ obj' = [cache[n] EXCEPT !.status = status]

LEMMA BeginningStatuses ==
  ASSUME NEW ns \in Statuses
  PROVE  /\ SetStateDeleting(ns) \in Statuses
         /\ Forbidden(ns) \in Statuses
         /\ Initialize(ns) \in Statuses
BY SettersType, ForbiddenType

LEMMA BeginsType ==
  ASSUME TypeOK, NEW n \in Names, NEW step \in PCs, NEW status \in Statuses,
         Begins(n, step, status)
  PROVE  PassType'
<1>1. cache[n] \in CRs
  BY DEF TypeOK
<1>2. obj' \in CRs
  BY <1>1, WithStatus DEF Begins
<1>3. key' \in Names /\ pc' \in PCs
  BY DEF Begins
<1>4. objFresh' \in BOOLEAN
  BY DEF Begins
<1> QED BY <1>2, <1>3, <1>4 DEF PassType

LEMMA EndPassType ==
  ASSUME TypeOK, NEW requeue, EndPass(requeue)
  PROVE  PassType' /\ queue' \subseteq Names
BY GoneType, ReconcilerAssumption DEF EndPass, TypeOK, PassType, PCs

LEMMA StoredType ==
  ASSUME TypeOK, NEW n \in Names, NEW cr \in CRs, Store(n, cr)
  PROVE  StoreType'
BY DEF Store, TypeOK, StoreType

LEMMA UpdateFinalizerType ==
  ASSUME TypeOK, NEW cr \in CRs, UpdateFinalizer(cr)
  PROVE  PassType' /\ queue' \subseteq Names /\ StoreType'
<1>1. EndPass(FALSE) \/ EndPass(TRUE)
  BY DEF UpdateFinalizer
<1>2. Store(key, cr) \/ UNCHANGED <<crs, fresh>>
  BY DEF UpdateFinalizer
<1>3. StoreType'
  BY <1>2, StoredType DEF TypeOK, StoreType
<1> QED BY <1>1, <1>3, EndPassType

LEMMA SyncStatusType ==
  ASSUME TypeOK, NEW status \in Statuses, NEW requeue, SyncStatus(status, requeue)
  PROVE  PassType' /\ queue' \subseteq Names /\ StoreType'
<1>1. EndPass(requeue) \/ EndPass(TRUE)
  BY DEF SyncStatus
<1>2. Store(key, [crs[key] EXCEPT !.status = status]) \/ UNCHANGED <<crs, fresh>>
  BY DEF SyncStatus
<1>3. key \in Names /\ crs[key] \in CRs
  BY DEF TypeOK
<1>4. [crs[key] EXCEPT !.status = status] \in CRs
  BY <1>3, WithStatus
<1>5. StoreType'
  BY <1>2, <1>3, <1>4, StoredType DEF TypeOK, StoreType
<1> QED BY <1>1, <1>5, EndPassType

LEMMA WriteType ==
  ASSUME TypeOK, NEW n \in Names, NEW cr \in CRs, Write(n, cr)
  PROVE  TypeOK'
<1>1. StoreType'
  BY StoredType DEF Write
<1> QED BY <1>1 DEF Write, StoreType, TypeOK

LEMMA InitType == Init => TypeOK
BY GoneType, ReconcilerAssumption DEF Init, TypeOK

LEMMA StartPassType ==
  ASSUME TypeOK, NEW n \in Names, StartPass(n)
  PROVE  TypeOK'
<1>1. cache[n].status \in Statuses
  BY StatusType DEF TypeOK
<1>2. PassType' /\ gauge' \in {0} \cup {Size[m] : m \in Names}
  <2>1. CASE HandleNATSDeletion(n)
    <3>1. CASE cache[n].finalizer
      <4>1. Begins(n, "delete", SetStateDeleting(cache[n].status))
        BY <2>1, <3>1 DEF HandleNATSDeletion, Begins
      <4> QED BY <1>1, <2>1, <4>1, BeginningStatuses, BeginsType
           DEF HandleNATSDeletion, PCs
    <3>2. CASE ~cache[n].finalizer
      BY <2>1, <3>2 DEF HandleNATSDeletion, TypeOK, PassType, PCs, passVars
    <3> QED BY <3>1, <3>2
  <2>2. CASE HandleNATSCRAllowedCheck(n)
    <3>1. Begins(n, "forbid", Forbidden(cache[n].status)) /\ gauge' = gauge
      BY <2>2 DEF HandleNATSCRAllowedCheck, Begins
    <3> QED BY <1>1, <3>1, BeginningStatuses, BeginsType DEF TypeOK, PCs
  <2>3. CASE HandleNATSReconcile(n)
    <3>1. Begins(n, "provision", Initialize(cache[n].status)) /\ gauge' = Size[n]
      BY <2>3 DEF HandleNATSReconcile, Begins
    <3> QED BY <1>1, <3>1, BeginningStatuses, BeginsType DEF PCs
  <2>4. CASE UNCHANGED <<passVars, gauge>>
    BY <2>4 DEF TypeOK, PassType, PCs, passVars
  <2> QED BY <2>1, <2>2, <2>3, <2>4 DEF StartPass, Reconcile
<1>3. /\ queue' \subseteq Names
      /\ UNCHANGED <<crs, cache, fresh, calm>>
  BY DEF StartPass, TypeOK, informerVars
<1> QED BY <1>2, <1>3 DEF TypeOK, PassType, PCs

LEMMA ProvisionType ==
  ASSUME TypeOK, Provision
  PROVE  PassType' /\ queue' \subseteq Names /\ StoreType'
<1>1. key \in Names /\ crs[key] \in CRs /\ obj \in CRs /\ obj.status \in Statuses
  BY StatusType DEF TypeOK
<1>2. CASE UpdateFinalizer([crs[key] EXCEPT !.finalizer = TRUE])
  <2>1. [crs[key] EXCEPT !.finalizer = TRUE] \in CRs
    BY <1>1 DEF CRs
  <2> QED BY <1>2, <2>1, UpdateFinalizerType
<1>3. CASE ~UpdateFinalizer([crs[key] EXCEPT !.finalizer = TRUE])
  <2>1. PICK verdict \in Verdicts : \E status \in Reports(obj.status)[verdict] :
          obj' = [obj EXCEPT !.status = status]
    BY <1>3 DEF Provision
  <2>2. PICK status \in Reports(obj.status)[verdict] :
          obj' = [obj EXCEPT !.status = status]
    BY <2>1
  <2>3. obj' \in CRs
    BY <1>1, <2>2, ReportsPermit, WithStatus
  <2>4. pc' = "report" /\ UNCHANGED <<crs, fresh, queue, key, objFresh>>
    BY <1>3 DEF Provision
  <2> QED BY <2>3, <2>4 DEF TypeOK, PassType, PCs, StoreType
<1> QED BY <1>2, <1>3

LEMMA DeprovisionType ==
  ASSUME TypeOK, Deprovision
  PROVE  PassType' /\ queue' \subseteq Names /\ StoreType'
<1> DEFINE released == IF crs[key].foreign
                       THEN [crs[key] EXCEPT !.finalizer = FALSE] ELSE Gone
<1>1. key \in Names /\ crs[key] \in CRs /\ obj \in CRs /\ obj.status \in Statuses
  BY StatusType DEF TypeOK
<1>2. ASSUME NEW message \in Blockers,
             obj' = [obj EXCEPT !.status = Blocked(@, message)],
             pc' = "block", UNCHANGED <<crs, fresh, queue, key, objFresh>>
      PROVE  PassType' /\ queue' \subseteq Names /\ StoreType'
  <2>1. obj' \in CRs
    BY <1>1, <1>2, BlockedType, WithStatus
  <2> QED BY <1>2, <2>1 DEF TypeOK, PassType, PCs, StoreType
<1>3. CASE UpdateFinalizer(released)
  <2>1. [crs[key] EXCEPT !.finalizer = FALSE] \in CRs
    BY <1>1 DEF CRs
  <2>2. released \in CRs
    BY <2>1, GoneType
  <2> HIDE DEF released
  <2> QED BY <1>3, <2>2, UpdateFinalizerType
<1>4. ASSUME NEW requeue \in BOOLEAN, EndPass(requeue), UNCHANGED <<crs, fresh>>
      PROVE  PassType' /\ queue' \subseteq Names /\ StoreType'
  BY <1>4, EndPassType DEF TypeOK, StoreType
<1> QED BY <1>2, <1>3, <1>4 DEF Deprovision

\* TypeOK is inductive as it stands.
LEMMA NextType == TypeOK /\ [Next]_vars => TypeOK'
<1> SUFFICES ASSUME TypeOK, [Next]_vars PROVE TypeOK'
  OBVIOUS
<1>1. CASE \E n \in Names : StartPass(n)
  BY <1>1, StartPassType
<1>2. CASE /\ Forbid \/ Provision \/ Report \/ Deprovision \/ Block
           /\ UNCHANGED <<cache, gauge, calm>>
  <2>1. obj.status \in Statuses
    BY StatusType DEF TypeOK
  <2>2. PassType' /\ queue' \subseteq Names /\ StoreType'
    <3>1. CASE Forbid
      BY <2>1, <3>1, SyncStatusType DEF Forbid
    <3>2. CASE Report
      BY <2>1, <3>2, SyncStatusType DEF Report
    <3>3. CASE Block
      BY <2>1, <3>3, SyncStatusType DEF Block
    <3> QED BY <1>2, <3>1, <3>2, <3>3, ProvisionType, DeprovisionType
  <2> QED BY <1>2, <2>2 DEF TypeOK, PassType, PCs, StoreType
<1>3. CASE \E n \in Names : CacheSync(n)
  BY <1>3 DEF CacheSync, TypeOK, passVars
<1>4. CASE PodEvent \/ \E n \in Names : Resync(n)
  BY <1>4, ReconcilerAssumption DEF PodEvent, Resync, TypeOK, informerVars, passVars
<1>5. ASSUME NEW n \in Names, CreateCR(n) \/ DeleteCR(n) \/ TouchCR(n) \/ CollectGarbage(n)
      PROVE  TypeOK'
  <2>1. crs[n] \in CRs
    BY DEF TypeOK
  <2>2. \E cr \in CRs : Write(n, cr)
    <3>1. CASE CreateCR(n)
      BY <3>1, GoneType DEF CreateCR
    <3>2. CASE DeleteCR(n)
      <4> DEFINE waits == n \in Foreground
      <4>1. waits \in BOOLEAN
        OBVIOUS
      <4> HIDE DEF waits
      <4>2. [crs[n] EXCEPT !.deleting = TRUE, !.foreign = waits] \in CRs
        BY <2>1, <4>1 DEF CRs
      <4> QED BY <3>2, <4>2, GoneType DEF DeleteCR, waits
    <3>3. CASE TouchCR(n)
      BY <2>1, <3>3 DEF TouchCR
    <3>4. CASE CollectGarbage(n)
      <4>1. [crs[n] EXCEPT !.foreign = FALSE] \in CRs
        BY <2>1 DEF CRs
      <4> QED BY <3>4, <4>1, GoneType DEF CollectGarbage
    <3> QED BY <1>5, <3>1, <3>2, <3>3, <3>4
  <2> QED BY <2>2, WriteType
<1>6. CASE Crash
  BY <1>6, GoneType, ReconcilerAssumption DEF Crash, TypeOK
<1>7. CASE CalmDown
  BY <1>7 DEF CalmDown, TypeOK, informerVars, passVars
<1>8. CASE UNCHANGED vars
  BY <1>8 DEF vars, TypeOK, informerVars, passVars
<1> QED BY <1>1, <1>2, <1>3, <1>4, <1>5, <1>6, <1>7, <1>8
     DEF Next, Work, Environment

\* Every variable always holds a value of its kind.
THEOREM TypeCorrect == SafetySpec => []TypeOK
BY InitType, NextType, PTL DEF SafetySpec

-------------------------------------------------------------------------------
(* At rest every resource has its verdict.                                 *)
(*                                                                         *)
(* A verdict that is missing is on its way: as long as the informer's copy *)
(* has the stored version, the key is in the work queue or the pass is     *)
(* about it.  For that to survive the end of a pass, the pass must have    *)
(* known what it decided on, or must be due again: its working copy has    *)
(* the stored version, or the informer's copy is behind, or the key has    *)
(* come back to the queue.                                                 *)

HasVerdict(n) ==
  /\ n = AllowedCR => crs[n].finalizer /\ ~IsForbidden(crs[n].status)
  /\ n # AllowedCR => ~crs[n].finalizer /\ IsForbidden(crs[n].status)

CopiesAreCurrent == \A n \in fresh : cache[n] = crs[n]

OnlyAllowedIsOwned == \A n \in Names : crs[n].finalizer => n = AllowedCR

SayTheSame(a, b) ==
  a.exists = b.exists /\ a.deleting = b.deleting /\ a.finalizer = b.finalizer

PassKnows ==
  /\ objFresh => key \in fresh /\ SayTheSame(obj, crs[key])
  /\ pc # "idle" => objFresh \/ key \notin fresh \/ key \in queue

StepsAreDue ==
  /\ pc \in {"provision", "report"} => key = AllowedCR
  /\ pc = "report" => obj.finalizer /\ Permitted(obj.status)
  /\ pc = "forbid" => key # AllowedCR /\ IsForbidden(obj.status)
  /\ pc \in {"delete", "block"} => obj.deleting

VerdictIsComing ==
  \A n \in fresh :
    crs[n].exists /\ ~crs[n].deleting =>
      HasVerdict(n) \/ n \in queue \/ (pc # "idle" /\ key = n)

VerdictInv ==
  /\ TypeOK
  /\ CopiesAreCurrent
  /\ OnlyAllowedIsOwned
  /\ PassKnows
  /\ StepsAreDue
  /\ VerdictIsComing

LEMMA VerdictInvImplies == VerdictInv => SettledVerdict
<1> SUFFICES ASSUME VerdictInv, NEW n \in Names,
                    Settled(n), crs[n].exists, ~crs[n].deleting
             PROVE  /\ crs[n].finalizer = (n = AllowedCR)
                    /\ IsForbidden(crs[n].status) = (n # AllowedCR)
  BY DEF SettledVerdict
<1>1. crs[n].finalizer \in BOOLEAN
  BY DEF VerdictInv, TypeOK, CRs
<1>2. HasVerdict(n)
  BY DEF VerdictInv, VerdictIsComing, Settled
<1>3. IsForbidden(crs[n].status) \in BOOLEAN
  BY DEF IsForbidden
<1> QED BY <1>1, <1>2, <1>3 DEF HasVerdict

LEMMA VerdictInvInit == Init => VerdictInv
<1> SUFFICES ASSUME Init PROVE VerdictInv
  OBVIOUS
<1>1. TypeOK
  BY InitType
<1>2. \A n \in Names : crs[n].exists = FALSE /\ crs[n].finalizer = FALSE
  BY GoneShape DEF Init
<1> QED BY <1>1, <1>2
     DEF Init, VerdictInv, CopiesAreCurrent, OnlyAllowedIsOwned, PassKnows,
         StepsAreDue, VerdictIsComing

\* A pass may end without a write if it is due again, or nothing is owed.
LEMMA EndsWithoutWrite ==
  ASSUME VerdictInv, TypeOK', NEW requeue, EndPass(requeue),
         UNCHANGED <<crs, cache, fresh>>,
         \/ requeue
         \/ key \in queue \/ key \notin fresh
         \/ ~crs[key].exists \/ crs[key].deleting \/ HasVerdict(key)
  PROVE  VerdictInv'
<1>1. CopiesAreCurrent' /\ OnlyAllowedIsOwned'
  BY DEF VerdictInv, CopiesAreCurrent, OnlyAllowedIsOwned
<1>2. PassKnows' /\ StepsAreDue'
  BY DEF EndPass, PassKnows, StepsAreDue
<1>3. VerdictIsComing'
  <2> SUFFICES ASSUME NEW n \in fresh, crs[n].exists, ~crs[n].deleting
               PROVE  HasVerdict(n) \/ n \in queue'
    BY DEF VerdictIsComing, HasVerdict
  <2>1. HasVerdict(n) \/ n \in queue \/ key = n
    BY DEF VerdictInv, VerdictIsComing
  <2>2. queue \subseteq queue' /\ (requeue => key \in queue')
    BY DEF EndPass
  <2> QED BY <2>1, <2>2
<1> QED BY <1>1, <1>2, <1>3 DEF VerdictInv

\* With a write it may: the informer will bring the new version.
LEMMA EndsWithWrite ==
  ASSUME VerdictInv, TypeOK', NEW cr, Store(key, cr), NEW requeue, EndPass(requeue),
         UNCHANGED cache, cr.finalizer => key = AllowedCR
  PROVE  VerdictInv'
<1>1. key \in Names /\ crs \in [Names -> CRs] /\ fresh \subseteq Names
  BY DEF VerdictInv, TypeOK
<1>2. /\ crs'[key] = cr
      /\ \A n \in Names \ {key} : crs'[n] = crs[n]
      /\ fresh' = fresh \ {key}
  BY <1>1 DEF Store
<1>3. CopiesAreCurrent' /\ OnlyAllowedIsOwned'
  BY <1>1, <1>2 DEF VerdictInv, CopiesAreCurrent, OnlyAllowedIsOwned
<1>4. PassKnows' /\ StepsAreDue'
  BY DEF EndPass, PassKnows, StepsAreDue
<1>5. VerdictIsComing'
  <2> SUFFICES ASSUME NEW n \in fresh', crs'[n].exists, ~crs'[n].deleting
               PROVE  HasVerdict(n)' \/ n \in queue'
    BY DEF VerdictIsComing
  <2>1. n \in fresh /\ n # key /\ crs'[n] = crs[n]
    BY <1>1, <1>2
  <2>2. HasVerdict(n) \/ n \in queue
    BY <2>1 DEF VerdictInv, VerdictIsComing
  <2>3. queue \subseteq queue'
    BY DEF EndPass
  <2> QED BY <2>1, <2>2, <2>3 DEF HasVerdict
<1> QED BY <1>3, <1>4, <1>5 DEF VerdictInv

LEMMA FinalizerKeepsVerdictInv ==
  ASSUME VerdictInv, TypeOK', NEW cr, UpdateFinalizer(cr), UNCHANGED cache,
         cr.finalizer => key = AllowedCR
  PROVE  VerdictInv'
<1>1. CASE objFresh /\ Store(key, cr) /\ EndPass(FALSE)
  BY <1>1, EndsWithWrite
<1>2. CASE EndPass(TRUE) /\ UNCHANGED <<crs, fresh>>
  BY <1>2, EndsWithoutWrite
<1> QED BY <1>1, <1>2 DEF UpdateFinalizer

\* A status write is the last word if the status is what the resource is owed.
LEMMA StatusKeepsVerdictInv ==
  ASSUME VerdictInv, TypeOK', NEW status \in Statuses, NEW requeue,
         SyncStatus(status, requeue), UNCHANGED cache,
         \/ requeue
         \/ key # AllowedCR /\ IsForbidden(status)
         \/ key = AllowedCR /\ obj.finalizer /\ ~IsForbidden(status) /\ pc # "idle"
  PROVE  VerdictInv'
<1>1. key \in Names /\ crs[key] \in CRs /\ cache[key] \in CRs
  BY DEF VerdictInv, TypeOK
<1>2. CASE IsEqual(cache[key].status, status) /\ EndPass(requeue) /\ UNCHANGED <<crs, fresh>>
  <2>1. cache[key].status = status
    BY <1>1, <1>2, StatusType, EqualStatuses
  <2>2. key \in fresh => crs[key].status = status
    BY <2>1 DEF VerdictInv, CopiesAreCurrent
  <2>3. CASE requeue \/ key \notin fresh \/ key \in queue
    BY <1>2, <2>3, EndsWithoutWrite
  <2>4. CASE ~requeue /\ key \in fresh /\ key \notin queue
    <3>1. CASE key # AllowedCR /\ IsForbidden(status)
      <4>1. HasVerdict(key)
        BY <1>1, <2>2, <2>4, <3>1 DEF HasVerdict, VerdictInv, OnlyAllowedIsOwned
      <4> QED BY <1>2, <4>1, EndsWithoutWrite
    <3>2. CASE key = AllowedCR /\ obj.finalizer /\ ~IsForbidden(status) /\ pc # "idle"
      <4>1. crs[key].finalizer
        BY <2>4, <3>2 DEF VerdictInv, PassKnows, SayTheSame
      <4>2. HasVerdict(key)
        BY <2>2, <2>4, <3>2, <4>1 DEF HasVerdict
      <4> QED BY <1>2, <4>2, EndsWithoutWrite
    <3> QED BY <2>4, <3>1, <3>2
  <2> QED BY <2>3, <2>4
<1>3. CASE Store(key, [crs[key] EXCEPT !.status = status]) /\ EndPass(requeue)
  <2>1. [crs[key] EXCEPT !.status = status].finalizer = crs[key].finalizer
    BY <1>1, WithStatus
  <2>2. crs[key].finalizer => key = AllowedCR
    BY <1>1 DEF VerdictInv, OnlyAllowedIsOwned
  <2> QED BY <1>3, <2>1, <2>2, EndsWithWrite
<1>4. CASE EndPass(TRUE) /\ UNCHANGED <<crs, fresh>>
  BY <1>4, EndsWithoutWrite
<1> QED BY <1>2, <1>3, <1>4 DEF SyncStatus

LEMMA StartPassKeepsVerdictInv ==
  ASSUME VerdictInv, TypeOK', NEW n \in Names, StartPass(n)
  PROVE  VerdictInv'
<1>1. /\ pc = "idle" /\ queue' = queue \ {n}
      /\ UNCHANGED <<crs, cache, fresh>>
  BY DEF StartPass, informerVars
<1>2. CopiesAreCurrent' /\ OnlyAllowedIsOwned'
  BY <1>1 DEF VerdictInv, CopiesAreCurrent, OnlyAllowedIsOwned
<1>3. cache[n] \in CRs /\ cache[n].status \in Statuses /\ (n \in fresh => cache[n] = crs[n])
  BY StatusType DEF VerdictInv, TypeOK, CopiesAreCurrent
\* The key has left the queue for the pass, or nothing is owed.
<1>4. ASSUME \/ pc' # "idle" /\ key' = n
             \/ ~cache[n].exists \/ cache[n].deleting
      PROVE  VerdictIsComing'
  <2> SUFFICES ASSUME NEW k \in fresh, crs[k].exists, ~crs[k].deleting
               PROVE  HasVerdict(k) \/ k \in queue' \/ (pc' # "idle" /\ key' = k)
    BY <1>1 DEF VerdictIsComing, HasVerdict
  <2>1. HasVerdict(k) \/ k \in queue
    BY <1>1 DEF VerdictInv, VerdictIsComing
  <2>2. CASE k = n
    BY <1>3, <1>4, <2>2
  <2>3. CASE k # n
    BY <1>1, <2>1, <2>3
  <2> QED BY <2>2, <2>3
<1>5. CASE UNCHANGED passVars /\ (~cache[n].exists \/ cache[n].deleting)
  <2>1. PassKnows' /\ StepsAreDue'
    BY <1>1, <1>5 DEF VerdictInv, PassKnows, StepsAreDue, SayTheSame, passVars
  <2> QED BY <1>2, <1>4, <1>5, <2>1 DEF VerdictInv
<1>6. ASSUME NEW step \in PCs \ {"idle"}, NEW status \in Statuses, Begins(n, step, status)
      PROVE  PassKnows' /\ VerdictIsComing' /\ SayTheSame(obj', cache[n])
  <2>1. SayTheSame(obj', cache[n])
    BY <1>3, <1>6, WithStatus DEF Begins, SayTheSame
  <2>2. PassKnows'
    BY <1>1, <1>3, <1>6, <2>1 DEF Begins, PassKnows, SayTheSame
  <2>3. VerdictIsComing'
    BY <1>4, <1>6 DEF Begins
  <2> QED BY <2>1, <2>2, <2>3
<1>7. CASE HandleNATSDeletion(n) /\ cache[n].finalizer
  <2>1. Begins(n, "delete", SetStateDeleting(cache[n].status))
    BY <1>7 DEF HandleNATSDeletion, Begins
  <2>2. PassKnows' /\ VerdictIsComing' /\ SayTheSame(obj', cache[n])
    BY <1>3, <1>6, <2>1, BeginningStatuses DEF PCs
  <2>3. StepsAreDue'
    BY <1>7, <2>1, <2>2 DEF StepsAreDue, Begins, SayTheSame, HandleNATSDeletion
  <2> QED BY <1>2, <2>2, <2>3 DEF VerdictInv
<1>8. CASE HandleNATSCRAllowedCheck(n)
  <2>1. Begins(n, "forbid", Forbidden(cache[n].status))
    BY <1>8 DEF HandleNATSCRAllowedCheck, Begins
  <2>2. PassKnows' /\ VerdictIsComing' /\ SayTheSame(obj', cache[n])
    BY <1>3, <1>6, <2>1, BeginningStatuses DEF PCs
  <2>3. obj'.status = Forbidden(cache[n].status)
    BY <1>3, <2>1, BeginningStatuses, WithStatus DEF Begins
  <2>4. StepsAreDue'
    BY <1>3, <1>8, <2>1, <2>3, ForbiddenIsForbidden
       DEF StepsAreDue, Begins, HandleNATSCRAllowedCheck
  <2> QED BY <1>2, <2>2, <2>4 DEF VerdictInv
<1>9. CASE HandleNATSReconcile(n)
  <2>1. Begins(n, "provision", Initialize(cache[n].status))
    BY <1>9 DEF HandleNATSReconcile, Begins
  <2>2. PassKnows' /\ VerdictIsComing'
    BY <1>3, <1>6, <2>1, BeginningStatuses DEF PCs
  <2>3. StepsAreDue'
    BY <1>9, <2>1 DEF StepsAreDue, Begins, HandleNATSReconcile
  <2> QED BY <1>2, <2>2, <2>3 DEF VerdictInv
<1> QED BY <1>5, <1>7, <1>8, <1>9 DEF StartPass, Reconcile, HandleNATSDeletion

LEMMA ProvisionKeepsVerdictInv ==
  ASSUME VerdictInv, TypeOK', Provision, UNCHANGED cache
  PROVE  VerdictInv'
<1>1. pc = "provision" /\ key = AllowedCR /\ obj \in CRs /\ obj.status \in Statuses
  BY StatusType DEF Provision, VerdictInv, StepsAreDue, TypeOK
<1>2. CASE UpdateFinalizer([crs[key] EXCEPT !.finalizer = TRUE])
  BY <1>1, <1>2, FinalizerKeepsVerdictInv
<1>3. CASE ~UpdateFinalizer([crs[key] EXCEPT !.finalizer = TRUE])
  <2>1. PICK verdict \in Verdicts : \E status \in Reports(obj.status)[verdict] :
          obj' = [obj EXCEPT !.status = status]
    BY <1>3 DEF Provision
  <2>2. PICK status \in Reports(obj.status)[verdict] :
          obj' = [obj EXCEPT !.status = status]
    BY <2>1
  <2>3. /\ obj.finalizer /\ pc' = "report"
        /\ UNCHANGED <<crs, cache, fresh, queue, key, objFresh>>
    BY <1>3 DEF Provision
  <2>4. status \in Statuses /\ Permitted(status)
    BY <1>1, ReportsPermit
  <2>5. SayTheSame(obj', obj) /\ obj'.status = status
    BY <1>1, <2>2, <2>4, WithStatus DEF SayTheSame
  <2>6. CopiesAreCurrent' /\ OnlyAllowedIsOwned'
    BY <2>3 DEF VerdictInv, CopiesAreCurrent, OnlyAllowedIsOwned
  <2>7. PassKnows'
    BY <1>1, <2>3, <2>5 DEF VerdictInv, PassKnows, SayTheSame
  <2>8. StepsAreDue'
    BY <1>1, <2>3, <2>4, <2>5 DEF StepsAreDue, SayTheSame
  <2>9. VerdictIsComing'
    BY <1>1, <2>3 DEF VerdictInv, VerdictIsComing, HasVerdict
  <2> QED BY <2>6, <2>7, <2>8, <2>9 DEF VerdictInv
<1> QED BY <1>2, <1>3

LEMMA DeprovisionKeepsVerdictInv ==
  ASSUME VerdictInv, TypeOK', Deprovision, UNCHANGED cache
  PROVE  VerdictInv'
<1> DEFINE released == IF crs[key].foreign
                       THEN [crs[key] EXCEPT !.finalizer = FALSE] ELSE Gone
<1>1. /\ pc = "delete" /\ obj.deleting /\ key \in Names /\ crs[key] \in CRs
      /\ obj \in CRs /\ obj.status \in Statuses
  BY StatusType DEF Deprovision, VerdictInv, StepsAreDue, TypeOK
<1>2. ASSUME NEW message \in Blockers,
             obj' = [obj EXCEPT !.status = Blocked(@, message)],
             pc' = "block", UNCHANGED <<crs, fresh, queue, key, objFresh>>
      PROVE  VerdictInv'
  <2>1. SayTheSame(obj', obj)
    BY <1>1, <1>2, BlockedType, WithStatus DEF SayTheSame
  <2>2. CopiesAreCurrent' /\ OnlyAllowedIsOwned'
    BY <1>2 DEF VerdictInv, CopiesAreCurrent, OnlyAllowedIsOwned
  <2>3. PassKnows'
    BY <1>1, <1>2, <2>1 DEF VerdictInv, PassKnows, SayTheSame
  <2>4. StepsAreDue'
    BY <1>1, <1>2, <2>1 DEF StepsAreDue, SayTheSame
  <2>5. VerdictIsComing'
    BY <1>1, <1>2 DEF VerdictInv, VerdictIsComing, HasVerdict
  <2> QED BY <2>2, <2>3, <2>4, <2>5 DEF VerdictInv
<1>3. CASE UpdateFinalizer(released)
  <2>1. [crs[key] EXCEPT !.finalizer = FALSE].finalizer = FALSE
    BY <1>1 DEF CRs
  <2>2. released.finalizer = FALSE
    BY <2>1, GoneShape
  <2> HIDE DEF released
  <2> QED BY <1>3, <2>2, FinalizerKeepsVerdictInv
<1>4. ASSUME NEW requeue \in BOOLEAN, EndPass(requeue), UNCHANGED <<crs, fresh>>
      PROVE  VerdictInv'
  <2>1. key \notin fresh \/ key \in queue \/ crs[key].deleting
    BY <1>1 DEF VerdictInv, PassKnows, SayTheSame
  <2> QED BY <1>4, <2>1, EndsWithoutWrite
<1> QED BY <1>2, <1>3, <1>4 DEF Deprovision

LEMMA WriteKeepsVerdictInv ==
  ASSUME VerdictInv, TypeOK', NEW n \in Names, NEW cr, Write(n, cr),
         cr.finalizer => n = AllowedCR
  PROVE  VerdictInv'
<1>1. crs \in [Names -> CRs] /\ fresh \subseteq Names
  BY DEF VerdictInv, TypeOK
<1>2. /\ crs'[n] = cr
      /\ \A k \in Names \ {n} : crs'[k] = crs[k]
      /\ fresh' = fresh \ {n}
      /\ UNCHANGED <<cache, queue, key, pc, obj>>
      /\ objFresh' = (objFresh /\ key # n)
  BY <1>1 DEF Write, Store
<1>3. CopiesAreCurrent' /\ OnlyAllowedIsOwned'
  BY <1>1, <1>2 DEF VerdictInv, CopiesAreCurrent, OnlyAllowedIsOwned
<1>4. PassKnows'
  BY <1>1, <1>2 DEF VerdictInv, PassKnows, SayTheSame
<1>5. StepsAreDue'
  BY <1>2 DEF VerdictInv, StepsAreDue
<1>6. VerdictIsComing'
  BY <1>1, <1>2 DEF VerdictInv, VerdictIsComing, HasVerdict
<1> QED BY <1>3, <1>4, <1>5, <1>6 DEF VerdictInv

LEMMA VerdictInvNext == VerdictInv /\ [Next]_vars => VerdictInv'
<1> SUFFICES ASSUME VerdictInv, [Next]_vars PROVE VerdictInv'
  OBVIOUS
<1>1. TypeOK'
  BY NextType DEF VerdictInv
<1>2. obj \in CRs /\ obj.status \in Statuses
  BY StatusType DEF VerdictInv, TypeOK
<1>3. CASE \E n \in Names : StartPass(n)
  BY <1>1, <1>3, StartPassKeepsVerdictInv
<1>4. CASE Forbid /\ UNCHANGED cache
  <2>1. key # AllowedCR /\ IsForbidden(obj.status) /\ SyncStatus(obj.status, FALSE)
    BY <1>4 DEF Forbid, VerdictInv, StepsAreDue
  <2> QED BY <1>1, <1>2, <1>4, <2>1, StatusKeepsVerdictInv
<1>5. CASE Provision /\ UNCHANGED cache
  BY <1>1, <1>5, ProvisionKeepsVerdictInv
<1>6. CASE Report /\ UNCHANGED cache
  <2> DEFINE requeue == obj.status.state \in {"Error", "Processing"}
  <2>1. /\ key = AllowedCR /\ obj.finalizer /\ ~IsForbidden(obj.status) /\ pc # "idle"
        /\ SyncStatus(obj.status, requeue)
    BY <1>6 DEF Report, VerdictInv, StepsAreDue, Permitted, IsForbidden
  <2> HIDE DEF requeue
  <2> QED BY <1>1, <1>2, <1>6, <2>1, StatusKeepsVerdictInv
<1>7. CASE Deprovision /\ UNCHANGED cache
  BY <1>1, <1>7, DeprovisionKeepsVerdictInv
<1>8. CASE Block /\ UNCHANGED cache
  <2>1. SyncStatus(obj.status, TRUE)
    BY <1>8 DEF Block
  <2> QED BY <1>1, <1>2, <1>8, <2>1, StatusKeepsVerdictInv
<1>9. ASSUME NEW n \in Names, CacheSync(n)
      PROVE  VerdictInv'
  <2>1. /\ n \notin fresh /\ fresh' = fresh \cup {n} /\ queue' = queue \cup {n}
        /\ cache' = [cache EXCEPT ![n] = crs[n]]
        /\ UNCHANGED <<crs, key, pc, obj, objFresh>>
    BY <1>9 DEF CacheSync, passVars
  <2>2. cache \in [Names -> CRs] /\ fresh \subseteq Names
    BY DEF VerdictInv, TypeOK
  <2>3. CopiesAreCurrent' /\ OnlyAllowedIsOwned'
    BY <2>1, <2>2 DEF VerdictInv, CopiesAreCurrent, OnlyAllowedIsOwned
  <2>4. PassKnows' /\ StepsAreDue'
    BY <2>1 DEF VerdictInv, PassKnows, StepsAreDue, SayTheSame
  <2>5. VerdictIsComing'
    BY <2>1 DEF VerdictInv, VerdictIsComing, HasVerdict
  <2> QED BY <1>1, <2>3, <2>4, <2>5 DEF VerdictInv
<1>10. CASE PodEvent \/ CalmDown \/ UNCHANGED vars \/ \E n \in Names : Resync(n)
  <2>1. queue \subseteq queue' /\ UNCHANGED <<crs, cache, fresh, key, pc, obj, objFresh>>
    BY <1>10 DEF PodEvent, CalmDown, Resync, vars, informerVars, passVars
  <2>2. CopiesAreCurrent' /\ OnlyAllowedIsOwned'
    BY <2>1 DEF VerdictInv, CopiesAreCurrent, OnlyAllowedIsOwned
  <2>3. PassKnows' /\ StepsAreDue'
    BY <2>1 DEF VerdictInv, PassKnows, StepsAreDue, SayTheSame
  <2>4. VerdictIsComing'
    BY <2>1 DEF VerdictInv, VerdictIsComing, HasVerdict
  <2> QED BY <1>1, <2>2, <2>3, <2>4 DEF VerdictInv
<1>11. ASSUME NEW n \in Names, CreateCR(n) \/ DeleteCR(n) \/ TouchCR(n) \/ CollectGarbage(n)
       PROVE  VerdictInv'
  <2>1. crs[n] \in CRs /\ (crs[n].finalizer => n = AllowedCR)
    BY DEF VerdictInv, TypeOK, OnlyAllowedIsOwned
  <2> DEFINE waits == n \in Foreground
  <2>2. /\ [crs[n] EXCEPT !.deleting = TRUE, !.foreign = waits].finalizer = crs[n].finalizer
        /\ [crs[n] EXCEPT !.foreign = FALSE].finalizer = crs[n].finalizer
    BY <2>1 DEF CRs
  <2>3. PICK cr : Write(n, cr) /\ (cr.finalizer => crs[n].finalizer)
    <3>1. CASE CreateCR(n)
      BY <3>1, GoneShape DEF CreateCR
    <3>2. CASE DeleteCR(n)
      BY <2>2, <3>2, GoneShape DEF DeleteCR
    <3>3. CASE TouchCR(n)
      BY <3>3 DEF TouchCR
    <3>4. CASE CollectGarbage(n)
      BY <2>2, <3>4, GoneShape DEF CollectGarbage
    <3> QED BY <1>11, <3>1, <3>2, <3>3, <3>4
  <2> QED BY <1>1, <2>1, <2>3, WriteKeepsVerdictInv
<1>12. CASE Crash
  <2>1. /\ cache' = crs /\ fresh' = Names /\ queue' = {n \in Names : crs[n].exists}
        /\ pc' = "idle" /\ objFresh' = FALSE /\ crs' = crs
    BY <1>12 DEF Crash
  <2>2. CopiesAreCurrent' /\ OnlyAllowedIsOwned' /\ PassKnows' /\ StepsAreDue'
    BY <2>1 DEF VerdictInv, CopiesAreCurrent, OnlyAllowedIsOwned, PassKnows, StepsAreDue
  <2>3. VerdictIsComing'
    BY <2>1 DEF VerdictIsComing
  <2> QED BY <1>1, <2>2, <2>3 DEF VerdictInv
<1> QED BY <1>3, <1>4, <1>5, <1>6, <1>7, <1>8, <1>9, <1>10, <1>11, <1>12
     DEF Next, Work, Environment

\* At rest the allowed resource is under the finalizer and not called forbidden,
\* and any other is called forbidden and not under the finalizer.
THEOREM VerdictsSettle == SafetySpec => []SettledVerdict
BY VerdictInvInit, VerdictInvNext, VerdictInvImplies, PTL DEF SafetySpec

-------------------------------------------------------------------------------
(* The safety half of SizeIsExported.                                      *)

\* The size of a resource that is not the allowed one is never exported,
\* whatever becomes of either: the handler that records it runs for none other.
THEOREM OnlyAllowedSizeIsExported == SafetySpec => [](gauge \in {0, Size[AllowedCR]})
<1>1. Init => gauge \in {0, Size[AllowedCR]}
  BY DEF Init
<1>2. gauge \in {0, Size[AllowedCR]} /\ [Next]_vars => (gauge \in {0, Size[AllowedCR]})'
  BY DEF Next, Work, Environment, vars, StartPass, Reconcile, HandleNATSDeletion,
         HandleNATSCRAllowedCheck, HandleNATSReconcile, CacheSync, PodEvent, Resync,
         CreateCR, DeleteCR, TouchCR, CollectGarbage, Write, Crash, CalmDown
<1> QED BY <1>1, <1>2, PTL DEF SafetySpec

===============================================================================
