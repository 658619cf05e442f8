---------------------------- MODULE VerdictProofs ----------------------------
(***************************************************************************)
(* Every step of Provisioner is a step of Reconciler, or none there: the   *)
(* theorem behind the property EndsInVerdict, for every set of specs of    *)
(* one cluster size, every provider and every set of disruptions.          *)
(***************************************************************************)
EXTENDS ProvisionerDispatch, ProvisionerProofs

-------------------------------------------------------------------------------
(* The variables of Reconciler, for the one resource there is here.        *)

Only(x) == [n \in {"nats"} |-> x]
Flag(b) == IF b THEN {"nats"} ELSE {}

Crs    == Only(Protected(cr.status))
Copies == Only(Protected(cache.status))
Mine   == IF pc = "idle" THEN NoPass ELSE Protected(obj.status)
Where  == IF pc = "idle" THEN "idle" ELSE IF pc = "sync" THEN "report" ELSE "provision"

LEMMA OnlySays ==
  ASSUME NEW a, NEW b
  PROVE  Only(a)["nats"] = a /\ [Only(a) EXCEPT !["nats"] = b] = Only(b)
BY DEF Only

LEMMA FlagSays ==
  ASSUME NEW b \in BOOLEAN
  PROVE  /\ ("nats" \in Flag(b)) = b
         /\ "nats" \in Flag(b) <=> b
         /\ Flag(b) \cup {"nats"} = Flag(TRUE) /\ Flag(b) \ {"nats"} = Flag(FALSE)
<1>1. CASE b = TRUE
  BY <1>1 DEF Flag
<1>2. CASE b = FALSE
  BY <1>2 DEF Flag
<1> QED BY <1>1, <1>2

LEMMA ProtectedSays ==
  ASSUME NEW status
  PROVE  /\ Protected(status).exists = TRUE /\ Protected(status).deleting = FALSE
         /\ Protected(status).finalizer = TRUE /\ Protected(status).status = status
BY DEF Protected

LEMMA ProtectedWith ==
  ASSUME NEW old \in Statuses, NEW status \in Statuses
  PROVE  [Protected(old) EXCEPT !.status = status] = Protected(status)
<1> DEFINE Copy == [exists : {TRUE}, deleting : {FALSE}, finalizer : {TRUE}, foreign : {FALSE},
                    status : Statuses]
<1>1. \A q \in Copy : q = Protected(q.status)
  <2> SUFFICES ASSUME NEW q \in Copy PROVE q = Protected(q.status)
    OBVIOUS
  <2>1. q.exists = TRUE /\ q.deleting = FALSE /\ q.finalizer = TRUE /\ q.foreign = FALSE
    OBVIOUS
  <2>2. q = [exists |-> q.exists, deleting |-> q.deleting, finalizer |-> q.finalizer,
             foreign |-> q.foreign, status |-> q.status]
    OBVIOUS
  <2> QED BY <2>1, <2>2 DEF Protected
<1>2. Protected(old) \in Copy
  BY DEF Protected
<1>3. \A p \in Copy : [p EXCEPT !.status = status] \in Copy
                        /\ [p EXCEPT !.status = status].status = status
  OBVIOUS
<1> QED BY <1>1, <1>2, <1>3

-------------------------------------------------------------------------------
(* The statuses are the same ones on both sides.                           *)

LEMMA SameStatuses ==
  /\ Dispatch!Gone = NoPass
  /\ \A ns, status : Dispatch!IsEqual(ns, status) = IsEqual(ns, status)
BY DEF Dispatch!NewStatus, NewStatus, Dispatch!Unset, Unset, Dispatch!ConditionTypes,
       ConditionTypes, Dispatch!IsEqual, IsEqual, Dispatch!ConditionsEquals, ConditionsEquals,
       Dispatch!ConditionEquals, ConditionEquals, Dispatch!Gone, NoPass

LEMMA SameReports ==
  ASSUME NEW ns
  PROVE  /\ Dispatch!Initialize(ns) = Initialize(ns)
         /\ Dispatch!ClearURL(ns) = ClearURL(ns)
         /\ Dispatch!Waiting(ns) = WaitingFor(ns)
         /\ \A message : Dispatch!UpdateConditionAvailable(Dispatch!SetStateError(ns), "False",
              "FailedProcessing", message) = Failed(ns, message)
         /\ \A status, reason, message, used :
              Dispatch!Ready(ns, used, status, reason, message)
                = [Readied(ns, status, reason, message) EXCEPT !.zones = used]
         /\ \A state : Dispatch!SetState(ns, state) = SetState(ns, state)
         /\ Dispatch!SetStateWarning(ns) = SetState(ns, "Warning")
BY DEF Dispatch!SetState, SetState, Dispatch!UpdateCondition, UpdateCondition,
       Dispatch!SetURL, SetURL, Dispatch!ClearURL, ClearURL,
       Dispatch!Initialize, Initialize,
       Dispatch!UpdateConditionAvailable, UpdateConditionAvailable,
       Dispatch!UpdateConditionStatefulSet, UpdateConditionStatefulSet,
       Dispatch!UpdateConditionAvailabilityZones, UpdateConditionAvailabilityZones,
       Dispatch!SetStateWarning, Dispatch!SetStateError, SetStateError,
       Dispatch!SetStateReady, SetStateReady, Dispatch!SetWaitingStateForStatefulSet,
       SetWaitingStateForStatefulSet, Dispatch!Waiting, WaitingFor, Failed,
       Dispatch!Ready, Readied, Zones, Dispatch!ServiceURL, ServiceURL

\* The number of zones and the state are set in either order.
LEMMA ZonesAside ==
  ASSUME NEW ns \in Statuses, NEW state \in States, NEW zones \in Nat
  PROVE  [SetState(ns, state) EXCEPT !.zones = zones]
           = SetState([ns EXCEPT !.zones = zones], state)
<1> DEFINE a == SetState(ns, state)
           b == [a EXCEPT !.zones = zones]
           c == [ns EXCEPT !.zones = zones]
           d == SetState(c, state)
<1>1. a \in Statuses /\ WithParts(a, ns, state, ns.url, ns.zones)
      /\ a.conditions = ns.conditions
  BY SetStateType, SetPartsSay DEF SetState, Statuses
<1>2. c \in Statuses /\ c.state = ns.state /\ c.url = ns.url /\ c.zones = zones
      /\ c.conditions = ns.conditions
  BY DEF Statuses
<1> HIDE DEF a, c
<1>3. b \in Statuses /\ b.state = state /\ b.url = ns.url /\ b.zones = zones
      /\ b.conditions = ns.conditions
  BY <1>1 DEF Statuses, WithParts
<1>4. d \in Statuses /\ d.state = state /\ d.url = ns.url /\ d.zones = zones
      /\ d.conditions = ns.conditions
  BY <1>2 DEF Statuses, SetState
<1> HIDE DEF b, d
<1>5. b = d
  BY <1>3, <1>4, StatusParts
<1> QED BY <1>5 DEF a, b, c, d

-------------------------------------------------------------------------------
(* What a pass reports here is what it may report there.                   *)

Findings ==
  {"failed", "waiting", "unlabelled", "unknown", "single", "spread", "crowded"}

MayReport(ns, status) == \E verdict \in Findings : status \in Dispatch!Reports(ns)[verdict]

FailureMessages == {"init-failed", "deploy-failed", "watch-failed", "sync-failed"}

LEMMA FailedReports ==
  ASSUME NEW ns, NEW from \in {ns, ClearURL(ns)}, NEW message \in FailureMessages
  PROVE  MayReport(ns, Failed(from, message))
<1>1. Dispatch!Reports(ns)["failed"] =
        {Dispatch!UpdateConditionAvailable(Dispatch!SetStateError(s), "False",
           "FailedProcessing", m) : s \in {ns, Dispatch!ClearURL(ns)},
           m \in {"init-failed", "deploy-failed", "watch-failed", "sync-failed"}}
  BY DEF Dispatch!Reports
<1>2. Failed(from, message) = Dispatch!UpdateConditionAvailable(Dispatch!SetStateError(from),
        "False", "FailedProcessing", message)
  BY SameReports
<1>3. from \in {ns, Dispatch!ClearURL(ns)}
  BY SameReports
<1>4. Failed(from, message) \in Dispatch!Reports(ns)["failed"]
  BY <1>1, <1>2, <1>3 DEF FailureMessages
<1> QED BY <1>4 DEF MayReport, Findings

LEMMA WaitingReports ==
  ASSUME NEW ns
  PROVE  MayReport(ns, WaitingFor(ns))
<1>1. Dispatch!Reports(ns)["waiting"] = {Dispatch!Waiting(ns)}
  BY DEF Dispatch!Reports
<1>2. WaitingFor(ns) \in Dispatch!Reports(ns)["waiting"]
  BY <1>1, SameReports
<1> QED BY <1>2 DEF MayReport, Findings

\* Reports about ready pods whose zones are not counted, and with them counted.
LEMMA UncountedReports ==
  ASSUME NEW ns
  PROVE  /\ MayReport(ns, [Readied(ns, "False", "FailedProcessing", "zone-label-missing")
                             EXCEPT !.zones = 0])
         /\ MayReport(ns, SetState([Readied(ns, "False", "FailedProcessing", "zones-unknown")
                                      EXCEPT !.zones = 0], "Error"))
<1>1. /\ Dispatch!Reports(ns)["unlabelled"] =
           {Dispatch!Ready(ns, 0, "False", "FailedProcessing", "zone-label-missing")}
      /\ Dispatch!Reports(ns)["unknown"] =
           {Dispatch!SetState(Dispatch!Ready(ns, 0, "False", "FailedProcessing",
              "zones-unknown"), "Error")}
  BY DEF Dispatch!Reports
<1>2. /\ Dispatch!Ready(ns, 0, "False", "FailedProcessing", "zone-label-missing")
           \in Dispatch!Reports(ns)["unlabelled"]
      /\ Dispatch!SetState(Dispatch!Ready(ns, 0, "False", "FailedProcessing",
           "zones-unknown"), "Error") \in Dispatch!Reports(ns)["unknown"]
  BY <1>1
<1>3. \A status, reason, message :
        Dispatch!Ready(ns, 0, status, reason, message)
          = [Readied(ns, status, reason, message) EXCEPT !.zones = 0]
  BY SameReports
<1>4. \A s : Dispatch!SetState(s, "Error") = SetState(s, "Error")
  BY SameReports
<1>5. /\ [Readied(ns, "False", "FailedProcessing", "zone-label-missing") EXCEPT !.zones = 0]
           \in Dispatch!Reports(ns)["unlabelled"]
      /\ SetState([Readied(ns, "False", "FailedProcessing", "zones-unknown") EXCEPT !.zones = 0],
              "Error") \in Dispatch!Reports(ns)["unknown"]
  BY <1>2, <1>3, <1>4, Zenon
<1> QED BY <1>5 DEF MayReport, Findings

LEMMA ReadyReports ==
  ASSUME NEW ns, NEW used \in ZoneCounts
  PROVE  /\ MayReport(ns, [Readied(ns, "False", "NotConfigured", "not-in-cluster-mode")
                             EXCEPT !.zones = used])
         /\ MayReport(ns, [Readied(ns, "True", "Deployed", "different-zones")
                             EXCEPT !.zones = used])
         /\ MayReport(ns, SetState([Readied(ns, "False", "Unknown", "not-enough-zones")
                                      EXCEPT !.zones = used], "Warning"))
<1>1. /\ Dispatch!Reports(ns)["single"] =
           {Dispatch!Ready(ns, z, "False", "NotConfigured", "not-in-cluster-mode") :
              z \in ZoneCounts}
      /\ Dispatch!Reports(ns)["spread"] =
           {Dispatch!Ready(ns, z, "True", "Deployed", "different-zones") : z \in ZoneCounts}
      /\ Dispatch!Reports(ns)["crowded"] =
           {Dispatch!SetStateWarning(Dispatch!Ready(ns, z, "False", "Unknown",
              "not-enough-zones")) : z \in ZoneCounts}
  BY DEF Dispatch!Reports
<1>2. /\ Dispatch!Ready(ns, used, "False", "NotConfigured", "not-in-cluster-mode")
           \in Dispatch!Reports(ns)["single"]
      /\ Dispatch!Ready(ns, used, "True", "Deployed", "different-zones")
           \in Dispatch!Reports(ns)["spread"]
      /\ Dispatch!SetStateWarning(Dispatch!Ready(ns, used, "False", "Unknown",
              "not-enough-zones")) \in Dispatch!Reports(ns)["crowded"]
  BY <1>1
<1>3. \A status, reason, message :
        Dispatch!Ready(ns, used, status, reason, message)
          = [Readied(ns, status, reason, message) EXCEPT !.zones = used]
  BY SameReports
<1>4. \A s : Dispatch!SetStateWarning(s) = SetState(s, "Warning")
  BY SameReports
<1>5. /\ [Readied(ns, "False", "NotConfigured", "not-in-cluster-mode") EXCEPT !.zones = used]
           \in Dispatch!Reports(ns)["single"]
      /\ [Readied(ns, "True", "Deployed", "different-zones") EXCEPT !.zones = used]
           \in Dispatch!Reports(ns)["spread"]
      /\ SetState([Readied(ns, "False", "Unknown", "not-enough-zones") EXCEPT !.zones = used],
              "Warning") \in Dispatch!Reports(ns)["crowded"]
  BY <1>2, <1>3, <1>4, Zenon
<1> QED BY <1>5 DEF MayReport, Findings

-------------------------------------------------------------------------------
(* Each step, as the step of Reconciler it is.                             *)

LEMMA StateMayReport ==
  ASSUME TypeInv, HandleNATSState
  PROVE  /\ \E new \in Statuses : WithStatus(new) /\ MayReport(obj.status, new)
         /\ gauges'.size = gauges.size
<1> DEFINE ns == obj.status
<1>a. ns \in Statuses /\ podZones \in ZoneFindings
  BY ResourceParts DEF HandleNATSState, TypeInv, PassType
<1>b. \A zones : RecordAvailabilityZonesUsedMetric(zones) => gauges'.size = gauges.size
  BY DEF RecordAvailabilityZonesUsedMetric, TypeInv, ProcessType
<1> HIDE DEF ns
<1>1. ASSUME NEW status, NEW zones \in Nat, Report(status, zones),
             [status EXCEPT !.zones = zones] \in Statuses,
             MayReport(ns, [status EXCEPT !.zones = zones])
      PROVE  /\ \E new \in Statuses : WithStatus(new) /\ MayReport(ns, new)
             /\ gauges'.size = gauges.size
  <2>1. WithStatus([status EXCEPT !.zones = zones])
    BY <1>1 DEF Report, WithStatus
  <2>2. gauges'.size = gauges.size
    BY <1>1, <1>b DEF Report
  <2> QED BY <1>1, <2>1, <2>2
<1>2. CASE ReportUnknown
  <2>1. ClearURL(ns) \in Statuses /\ "sync-failed" \in Messages
    BY <1>a, SettersType DEF Messages
  <2>2. Failed(ClearURL(ns), "sync-failed") \in Statuses
    BY <2>1, FailedSays DEF SaysFailed
  <2>3. WithStatus(Failed(ClearURL(ns), "sync-failed"))
    BY <1>2 DEF ReportUnknown, Fail, WithStatus, Failed, ns
  <2>4. MayReport(ns, Failed(ClearURL(ns), "sync-failed"))
    BY FailedReports DEF FailureMessages
  <2>5. gauges'.size = gauges.size
    BY <1>2 DEF ReportUnknown
  <2> QED BY <2>2, <2>3, <2>4, <2>5 DEF ns
<1>3. CASE ReportWaiting
  <2> DEFINE status == SetWaitingStateForStatefulSet(ClearURL(ns))
  <2>1. [status EXCEPT !.zones = 0] = WaitingFor(ns)
    BY DEF WaitingFor
  <2>2. WaitingFor(ns) \in Statuses
    BY <1>a, WaitingSays DEF SaysWaiting
  <2>3. Report(status, 0)
    BY <1>3 DEF ReportWaiting, ns
  <2>4. MayReport(ns, WaitingFor(ns))
    BY WaitingReports
  <2> HIDE DEF status
  <2> QED BY <1>1, <2>1, <2>2, <2>3, <2>4 DEF ns
\* Ready pods: with the state as it is, or another.
<1>4. ASSUME NEW status \in {"True", "False"}, NEW reason \in Reasons, NEW message \in Messages,
             NEW zones \in Nat, Report(Readied(ns, status, reason, message), zones),
             MayReport(ns, [Readied(ns, status, reason, message) EXCEPT !.zones = zones])
      PROVE  /\ \E new \in Statuses : WithStatus(new) /\ MayReport(ns, new)
             /\ gauges'.size = gauges.size
  <2>1. Readied(ns, status, reason, message) \in Statuses
    BY <1>a, ReadiedSays DEF SaysReady
  <2>2. [Readied(ns, status, reason, message) EXCEPT !.zones = zones] \in Statuses
    BY <2>1, ZonesType
  <2> QED BY <1>1, <1>4, <2>2
<1>5. ASSUME NEW status \in {"True", "False"}, NEW reason \in Reasons, NEW message \in Messages,
             NEW zones \in Nat, NEW state \in States,
             Report(SetState(Readied(ns, status, reason, message), state), zones),
             MayReport(ns,
               SetState([Readied(ns, status, reason, message) EXCEPT !.zones = zones], state))
      PROVE  /\ \E new \in Statuses : WithStatus(new) /\ MayReport(ns, new)
             /\ gauges'.size = gauges.size
  <2> DEFINE ready == Readied(ns, status, reason, message)
  <2>1. ready \in Statuses
    BY <1>a, ReadiedSays DEF SaysReady
  <2> HIDE DEF ready
  <2>2. SetState(ready, state) \in Statuses
    BY <2>1, SetStateType
  <2>3. [SetState(ready, state) EXCEPT !.zones = zones] \in Statuses
    BY <2>2, ZonesType
  <2>4. [SetState(ready, state) EXCEPT !.zones = zones]
          = SetState([ready EXCEPT !.zones = zones], state)
    BY <2>1, ZonesAside
  <2>5. MayReport(ns, SetState([ready EXCEPT !.zones = zones], state))
        /\ Report(SetState(ready, state), zones)
    BY <1>5 DEF ready
  <2>6. MayReport(ns, [SetState(ready, state) EXCEPT !.zones = zones])
    BY <2>4, <2>5
  <2> QED BY <1>1, <2>3, <2>5, <2>6
<1>6. /\ {"FailedProcessing", "NotConfigured", "Deployed", "Unknown"} \subseteq Reasons
      /\ {"zone-label-missing", "zones-unknown", "not-in-cluster-mode", "different-zones",
          "not-enough-zones"} \subseteq Messages
      /\ {"Error", "Warning"} \subseteq States
  BY DEF Reasons, Messages, States
<1>7. podZones.used \in Nat /\ 0 \in Nat /\ (podZones.labelled => podZones.used \in ZoneCounts)
  BY <1>a, CountedZones
<1>8. CASE ReportReady
  <2>1. CASE Report(SetState(Readied(ns, "False", "FailedProcessing", "zones-unknown"),
                             "Error"), 0)
    BY <1>5, <1>6, <1>7, <2>1, UncountedReports DEF ns
  <2>2. CASE Report(Readied(ns, "False", "FailedProcessing", "zone-label-missing"), 0)
    BY <1>4, <1>6, <1>7, <2>2, UncountedReports DEF ns
  <2>3. CASE /\ podZones.labelled
             /\ Report(Readied(ns, "False", "NotConfigured", "not-in-cluster-mode"),
                       podZones.used)
    BY <1>4, <1>6, <1>7, <2>3, ReadyReports DEF ns
  <2>4. CASE /\ podZones.labelled
             /\ Report(Readied(ns, "True", "Deployed", "different-zones"), podZones.used)
    BY <1>4, <1>6, <1>7, <2>4, ReadyReports DEF ns
  <2>5. CASE /\ podZones.labelled
             /\ Report(SetState(Readied(ns, "False", "Unknown", "not-enough-zones"),
                                "Warning"), podZones.used)
    BY <1>5, <1>6, <1>7, <2>5, ReadyReports DEF ns
  <2> QED BY <1>8, <2>1, <2>2, <2>3, <2>4, <2>5 DEF ReportReady, Readied, SetStateWarning, ns
<1> QED BY <1>2, <1>3, <1>8 DEF HandleNATSState, ns

-------------------------------------------------------------------------------
(* Whether the pass's copy is the stored version.                          *)

TrackInv == TypeInv /\ objFresh \in BOOLEAN /\ (pc = "idle" => objFresh = FALSE)

LEMMA TrackSays ==
  ASSUME TrackInv, TrackedNext
  PROVE  /\ objFresh' \in BOOLEAN
         /\ pc' = "idle" => objFresh' = FALSE
         /\ pc = "idle" /\ pc' = "init" => objFresh' = fresh
         /\ pc' = pc /\ cr' = cr => objFresh' = objFresh
         /\ pc # "idle" /\ pc' # "idle" /\ cr' = cr => objFresh' = objFresh
         /\ pc' = pc /\ cr' # cr => objFresh' = FALSE
BY DEF TrackedNext, TrackInv, TypeInv, ResourceType

LEMMA CopiesSay ==
  ASSUME TrackInv
  PROVE  /\ Copies["nats"] = Protected(cache.status) /\ Crs["nats"] = Protected(cr.status)
         /\ ("nats" \in Flag(fresh)) = fresh
         /\ cr.status \in Statuses /\ cache.status \in Statuses
         /\ pc # "idle" => Mine = Protected(obj.status) /\ obj.status \in Statuses
BY OnlySays, FlagSays, ResourceParts
   DEF Copies, Crs, Mine, TrackInv, TypeInv, ResourceType, PassType

\* A step that Reconciler does not tell from no step.
LEMMA QuietStep ==
  ASSUME UNCHANGED <<cr, cache, fresh, queued, objFresh>>, Mine' = Mine,
         Where' = Where, gauges'.size = gauges.size
  PROVE  UNCHANGED Dispatch!vars
BY DEF Dispatch!vars, Dispatch!informerVars, Dispatch!passVars, Mine, Where

LEMMA StartPassStep ==
  ASSUME TrackInv, StartPass, TrackedNext, NEW size, Sizes = {size}
  PROVE  Dispatch!Next
<1> USE DEF resourceVars
<1>1. /\ pc = "idle" /\ pc' = "init" /\ queued /\ queued' = FALSE
      /\ obj' = [cache EXCEPT !.status = Initialize(cache.status)]
      /\ UNCHANGED <<cr, cache, fresh>>
  BY DEF StartPass
<1>2. Mine' = Protected(Initialize(cache.status))
  <2>1. cache \in Resources
    BY DEF TrackInv, TypeInv, ResourceType
  <2>2. obj'.status = Initialize(cache.status)
    BY <1>1, <2>1 DEF Resources
  <2> QED BY <1>1, <2>2 DEF Mine
<1>3. gauges'.size = [n \in {"nats"} |-> CHOOSE x \in Sizes : TRUE]["nats"]
  <2>1. gauges'.size = cache.spec.size
    BY DEF StartPass, RecordClusterSizeMetric, TrackInv, TypeInv, ProcessType
  <2>2. cache.spec.size \in Sizes
    BY ResourceParts, SpecParts DEF TrackInv, TypeInv, ResourceType
  <2>3. (CHOOSE x \in Sizes : TRUE) \in Sizes
    BY <2>2
  <2> QED BY <2>1, <2>2, <2>3
<1>4. Where = "idle" /\ Where' = "provision" /\ objFresh' = fresh
  BY <1>1, TrackSays DEF Where
<1>5. "nats" \in Flag(queued) /\ Flag(queued') = Flag(queued) \ {"nats"}
  BY <1>1 DEF Flag
<1>6. Copies["nats"].exists = TRUE /\ Copies["nats"].deleting = FALSE
      /\ Copies["nats"].status = cache.status
  BY CopiesSay, ProtectedSays
<1>7. [Copies["nats"] EXCEPT !.status = Dispatch!Initialize(@)]
        = Protected(Initialize(cache.status))
  <2>1. Initialize(cache.status) \in Statuses
    BY CopiesSay, SettersType
  <2>2. Dispatch!Initialize(cache.status) = Initialize(cache.status)
    BY SameReports
  <2>3. [Protected(cache.status) EXCEPT !.status = Initialize(cache.status)]
          = Protected(Initialize(cache.status))
    BY <2>1, CopiesSay, ProtectedWith
  <2> QED BY <1>6, <2>2, <2>3, CopiesSay
<1>8. Mine' = [Copies["nats"] EXCEPT !.status = Dispatch!Initialize(@)]
        /\ ~Copies["nats"].deleting /\ Copies["nats"].exists
        /\ objFresh' = ("nats" \in Flag(fresh))
  BY <1>2, <1>4, <1>6, <1>7, CopiesSay
<1>9. Dispatch!HandleNATSReconcile("nats")
  BY <1>3, <1>4, <1>8, Zenon
     DEF Dispatch!HandleNATSReconcile, Copies, Only, Flag, Where, Mine
<1>10. Dispatch!Reconcile("nats")
  BY <1>8, <1>9, Zenon DEF Dispatch!Reconcile, Copies, Only
<1>11. Dispatch!StartPass("nats")
  BY <1>1, <1>4, <1>5, <1>10 DEF Dispatch!StartPass, Dispatch!informerVars, Flag, Where
<1> QED BY <1>11 DEF Dispatch!Next, Dispatch!Work

\* The end of the work of a pass: a report.
LEMMA ReportedStep ==
  ASSUME TrackInv, TrackedNext, pc \notin {"idle", "sync"}, NEW status \in Statuses,
         WithStatus(status), MayReport(obj.status, status),
         UNCHANGED <<cr, cache, fresh, queued>>, gauges'.size = gauges.size
  PROVE  Dispatch!Next
<1>1. Where = "provision" /\ Where' = "report" /\ objFresh' = objFresh
  BY TrackSays DEF Where, WithStatus
<1>2. Mine = Protected(obj.status) /\ Mine.status = obj.status /\ Mine.finalizer
      /\ obj.status \in Statuses
  BY CopiesSay, ProtectedSays
<1>3. Mine' = [Mine EXCEPT !.status = status]
  <2>1. obj \in Resources
    BY DEF TrackInv, TypeInv, PassType
  <2>2. obj'.status = status /\ pc' = "sync"
    BY <2>1 DEF WithStatus, Resources
  <2>3. Mine' = Protected(status)
    BY <2>2 DEF Mine
  <2> QED BY <1>2, <2>3, ProtectedWith
<1>4. PICK verdict \in Findings : status \in Dispatch!Reports(Mine.status)[verdict]
  BY <1>2 DEF MayReport
<1>5. UNCHANGED <<Crs, Flag(fresh), Flag(queued), objFresh>>
  BY <1>1 DEF Crs
<1>6. Dispatch!Provision
  BY <1>1, <1>2, <1>3, <1>4, <1>5, Zenon
     DEF Dispatch!Provision, Crs, Only, Flag, Where, Mine, Findings
<1>7. UNCHANGED <<Copies, gauges.size>>
  BY DEF Copies
<1> QED BY <1>6, <1>7 DEF Dispatch!Next, Dispatch!Work, Copies, Only

\* A step of the work before its end.
LEMMA WorkingStep ==
  ASSUME TrackInv, TrackedNext, pc \notin {"idle", "sync"}, pc' \notin {"idle", "sync"},
         obj' = obj, UNCHANGED <<cr, cache, fresh, queued>>, gauges'.size = gauges.size
  PROVE  UNCHANGED Dispatch!vars
<1>1. Where' = Where /\ Mine' = Mine
  BY DEF Where, Mine
<1>2. objFresh' = objFresh
  BY TrackSays
<1> QED BY <1>1, <1>2, QuietStep

LEMMA EndPassStep ==
  ASSUME TrackInv, TrackedNext, NEW requeue \in BOOLEAN, EndPass(requeue)
  PROVE  Dispatch!EndPass(requeue)
<1>1. Flag(queued') = IF requeue THEN Flag(queued) \cup {"nats"} ELSE Flag(queued)
  BY FlagSays DEF EndPass, Flag, TrackInv, TypeInv, ResourceType
<1>2. Mine' = Dispatch!Gone /\ Where' = "idle" /\ objFresh' = FALSE
  BY SameStatuses, TrackSays DEF EndPass, Mine, Where
<1> QED BY <1>1, <1>2 DEF Dispatch!EndPass, Flag, Where, Mine

LEMMA SyncStatusStep ==
  ASSUME TrackInv, TrackedNext, SyncStatus
  PROVE  Dispatch!Next
<1> DEFINE status  == obj.status
           requeue == status.state \in {"Error", "Processing"}
           same    == IsEqual(cache.status, status)
<1> USE DEF processVars
<1>1. pc = "sync" /\ UNCHANGED <<cache, gauges>> /\ requeue \in BOOLEAN /\ requeue = Unfinished
  BY DEF SyncStatus, Unfinished
<1>2. Where = "report" /\ Mine.status = status /\ status \in Statuses
  BY <1>1, CopiesSay, ProtectedSays DEF Where
<1>3. /\ Copies["nats"].exists /\ Copies["nats"].status = cache.status
      /\ Crs["nats"] = Protected(cr.status) /\ ("nats" \in Flag(fresh) <=> fresh)
      /\ Dispatch!IsEqual(Copies["nats"].status, status) = same
      /\ cr.status \in Statuses
  BY CopiesSay, ProtectedSays, SameStatuses
<1> HIDE DEF same, requeue, status
<1>4. ASSUME same, EndPass(requeue), UNCHANGED <<cr, fresh>>
      PROVE  Dispatch!SyncStatus(status, requeue)
  <2>1. Dispatch!EndPass(requeue) /\ UNCHANGED <<Crs, Flag(fresh)>>
    BY <1>1, <1>4, EndPassStep DEF Crs
  <2> QED BY <1>3, <1>4, <2>1 DEF Dispatch!SyncStatus, Copies, Crs, Only, Flag
<1>5. ASSUME ~same, fresh, cr' = [cr EXCEPT !.status = status], fresh' = FALSE,
             EndPass(requeue)
      PROVE  Dispatch!SyncStatus(status, requeue)
  <2>1. Dispatch!EndPass(requeue)
    BY <1>1, <1>5, EndPassStep
  <2>2. [Crs["nats"] EXCEPT !.status = status] = Protected(status)
    BY <1>2, <1>3, ProtectedWith
  <2>3. cr'.status = status
    BY <1>5 DEF TrackInv, TypeInv, ResourceType, Resources
  <2>4. Crs' = [Crs EXCEPT !["nats"] = Protected(status)]
    BY <2>3, OnlySays DEF Crs
  <2>5. Flag(fresh') = Flag(fresh) \ {"nats"}
    BY <1>5 DEF Flag
  <2>6. Crs' = [Crs EXCEPT !["nats"] = [Crs["nats"] EXCEPT !.status = status]]
    BY <2>2, <2>4
  <2>7. Dispatch!Store("nats", [Crs["nats"] EXCEPT !.status = status])
    BY <2>5, <2>6, Zenon DEF Dispatch!Store, Crs, Only, Flag
  <2>8. "nats" \in Flag(fresh)
    BY <1>3, <1>5
  <2> QED BY <1>3, <1>5, <2>1, <2>7, <2>8, Zenon
       DEF Dispatch!SyncStatus, Copies, Crs, Only, Flag
<1>6. ASSUME ~same, EndPass(TRUE), UNCHANGED <<cr, fresh>>
      PROVE  Dispatch!SyncStatus(status, requeue)
  <2>1. Dispatch!EndPass(TRUE) /\ UNCHANGED <<Crs, Flag(fresh)>>
    BY <1>6, EndPassStep DEF Crs
  <2> QED BY <1>3, <1>6, <2>1 DEF Dispatch!SyncStatus, Copies, Crs, Only, Flag
<1>7. Dispatch!SyncStatus(status, requeue)
  BY <1>1, <1>4, <1>5, <1>6 DEF SyncStatus, same, status
<1>8. Dispatch!Report
  BY <1>2, <1>7 DEF Dispatch!Report, requeue, Where, Mine
<1> QED BY <1>1, <1>8 DEF Dispatch!Next, Dispatch!Work

\* The calls of a pass up to its report.
LEMMA WorkStep ==
  ASSUME TrackInv, TrackedNext, InitInstance \/ Deploy \/ WatchDestinationRule \/ HandleNATSState
  PROVE  Dispatch!Next \/ UNCHANGED Dispatch!vars
<1> USE DEF resourceVars, processVars
<1>1. /\ pc \in {"init", "deploy", "state"} /\ UNCHANGED <<cr, cache, fresh, queued>>
  BY DEF InitInstance, Deploy, ApplySecret, ApplyStatefulSet, ApplyDestinationRule,
         WatchDestinationRule, HandleNATSState
<1>2. obj.status \in Statuses
  BY <1>1, CopiesSay
<1>3. ASSUME NEW message \in FailureMessages, Fail(obj.status, message), gauges' = gauges
      PROVE  Dispatch!Next
  <2>1. message \in Messages
    BY DEF FailureMessages, Messages
  <2>2. Failed(obj.status, message) \in Statuses
    BY <1>2, <2>1, FailedSays DEF SaysFailed
  <2>3. WithStatus(Failed(obj.status, message))
    BY <1>3 DEF Fail, WithStatus, Failed
  <2>4. MayReport(obj.status, Failed(obj.status, message))
    BY FailedReports
  <2> QED BY <1>1, <1>3, <2>2, <2>3, <2>4, ReportedStep
<1>4. ASSUME pc' \in {"init", "deploy", "state"}, UNCHANGED <<obj, gauges>>
      PROVE  UNCHANGED Dispatch!vars
  BY <1>1, <1>4, WorkingStep
<1>5. CASE InitInstance
  BY <1>3, <1>4, <1>5 DEF InitInstance, FailureMessages
<1>6. CASE ApplySecret
  BY <1>3, <1>4, <1>6 DEF ApplySecret, ApplyFails, Applied, FailureMessages
<1>7. CASE ApplyStatefulSet
  <2>1. gauges' = gauges
        /\ (Fail(obj.status, "deploy-failed") \/ (pc' = pc /\ obj' = obj))
    BY <1>7 DEF ApplyStatefulSet, ApplyFails, Applied
  <2> QED BY <1>1, <1>3, <1>4, <2>1 DEF FailureMessages
<1>8. CASE ApplyDestinationRule
  BY <1>3, <1>4, <1>8 DEF ApplyDestinationRule, ApplyFails, Applied, FailureMessages
<1>9. CASE WatchDestinationRule
  BY <1>3, <1>4, <1>9 DEF WatchDestinationRule, FailureMessages
<1>10. CASE HandleNATSState
  <2>1. TypeInv
    BY DEF TrackInv
  <2>2. PICK new \in Statuses : WithStatus(new) /\ MayReport(obj.status, new)
    BY <1>10, <2>1, StateMayReport
  <2>3. gauges'.size = gauges.size
    BY <1>10, <2>1, StateMayReport
  <2> QED BY <1>1, <2>2, <2>3, ReportedStep
<1> QED BY <1>5, <1>6, <1>7, <1>8, <1>9, <1>10 DEF Deploy

-------------------------------------------------------------------------------
(* What goes on besides the pass.                                          *)

LEMMA CacheSyncStep ==
  ASSUME TrackInv, TrackedNext, CacheSync
  PROVE  Dispatch!Next
<1>1. /\ ~fresh /\ cache' = cr /\ fresh' = TRUE /\ queued' = TRUE
      /\ UNCHANGED <<cr, pc, obj, gauges>> /\ objFresh' = objFresh
  BY TrackSays DEF CacheSync, restOfProcess, passVars, processVars
<1>2. Copies' = [Copies EXCEPT !["nats"] = Crs["nats"]]
  BY <1>1, OnlySays DEF Copies, Crs
<1>3. /\ "nats" \notin Flag(fresh) /\ Flag(fresh') = Flag(fresh) \cup {"nats"}
      /\ Flag(queued') = Flag(queued) \cup {"nats"}
  BY <1>1 DEF Flag
<1>4. UNCHANGED <<Crs, Where, Mine, objFresh, gauges.size>>
  BY <1>1 DEF Crs, Where, Mine
<1>5. Dispatch!CacheSync("nats")
  BY <1>2, <1>3, <1>4
     DEF Dispatch!CacheSync, Dispatch!passVars, Copies, Crs, Only, Flag, Where, Mine
<1> QED BY <1>5 DEF Dispatch!Next, Dispatch!Environment

\* Whatever brings the resource into the queue may be an event of a pod.
LEMMA EventStep ==
  ASSUME TrackInv, TrackedNext, queued' = TRUE,
         UNCHANGED <<cr, cache, fresh, pc, obj, gauges>>
  PROVE  Dispatch!Next
<1>1. Flag(queued') = Flag(queued) \cup {"nats"}
  BY DEF Flag
<1>2. UNCHANGED <<Crs, Copies, Flag(fresh), Where, Mine, objFresh, gauges.size>>
  BY TrackSays DEF Crs, Copies, Where, Mine
<1>3. Dispatch!PodEvent
  BY <1>1, <1>2
     DEF Dispatch!PodEvent, Dispatch!informerVars, Dispatch!passVars, Crs, Copies, Only,
         Flag, Where, Mine
<1> QED BY <1>3 DEF Dispatch!Next, Dispatch!Environment

\* An edit of the spec is a new version, and no more.
LEMMA EditSpecStep ==
  ASSUME TrackInv, TrackedNext, EditSpec
  PROVE  Dispatch!Next
<1>1. /\ fresh' = FALSE /\ UNCHANGED <<cache, queued, pc, obj, gauges>>
      /\ cr'.status = cr.status /\ cr' # cr
  <2>1. PICK spec \in Specs : spec # cr.spec /\ cr' = [cr EXCEPT !.spec = spec]
    BY DEF EditSpec
  <2>2. cr \in Resources
    BY DEF TrackInv, TypeInv, ResourceType
  <2>3. cr'.spec = spec /\ cr'.status = cr.status
    BY <2>1, <2>2 DEF Resources
  <2> QED BY <2>1, <2>3 DEF EditSpec, passVars, processVars
<1>2. objFresh' = FALSE
  BY <1>1, TrackSays
<1>3. Crs' = [Crs EXCEPT !["nats"] = Crs["nats"]] /\ Flag(fresh') = Flag(fresh) \ {"nats"}
  BY <1>1, OnlySays DEF Crs, Flag
<1>4. Dispatch!Store("nats", Crs["nats"])
  BY <1>3, Zenon DEF Dispatch!Store, Crs, Only, Flag
<1>5. UNCHANGED <<Copies, Flag(queued), Where, Mine, gauges.size>>
  BY <1>1 DEF Copies, Where, Mine
<1>6. Dispatch!Write("nats", Crs["nats"])
  BY <1>2, <1>4, <1>5 DEF Dispatch!Write, Copies, Crs, Only, Flag, Where, Mine
<1>7. Crs["nats"].exists
  BY CopiesSay, ProtectedSays
<1>8. Dispatch!TouchCR("nats")
  BY <1>6, <1>7, Zenon DEF Dispatch!TouchCR, Crs, Only
<1> QED BY <1>8 DEF Dispatch!Next, Dispatch!Environment

LEMMA CrashStep ==
  ASSUME TrackInv, TrackedNext, Crash
  PROVE  Dispatch!Next
<1>1. /\ pc' = "idle" /\ cache' = cr /\ fresh' = TRUE /\ queued' = TRUE
      /\ gauges'.size = 0 /\ cr' = cr /\ objFresh' = FALSE
  BY TrackSays DEF Crash, NoGauges
<1>2. /\ Where' = "idle" /\ Mine' = Dispatch!Gone /\ Copies' = Crs /\ Crs' = Crs
      /\ Flag(fresh') = {"nats"} /\ Flag(queued') = {"nats"}
  BY <1>1, SameStatuses DEF Where, Mine, Copies, Crs, Flag
<1>3. Crs["nats"].exists
  BY CopiesSay, ProtectedSays
<1>4. Flag(queued') = {n \in {"nats"} : Crs[n].exists}
  BY <1>2, <1>3
<1>5. Dispatch!Crash
  BY <1>1, <1>2, <1>4 DEF Dispatch!Crash, Copies, Crs, Only, Flag, Where, Mine
<1> QED BY <1>5 DEF Dispatch!Next, Dispatch!Environment

-------------------------------------------------------------------------------
(* All of them together.                                                   *)

LEMMA TrackInvInit == TrackedInit => TrackInv
BY TypeInvInit DEF TrackedInit, TrackInv

LEMMA TrackInvNext == TrackInv /\ [TrackedNext]_<<vars, objFresh>> => TrackInv'
<1> SUFFICES ASSUME TrackInv, [TrackedNext]_<<vars, objFresh>> PROVE TrackInv'
  OBVIOUS
<1>1. TypeInv'
  BY TypeInvNext DEF TrackInv, TrackedNext
<1>2. CASE TrackedNext
  BY <1>1, <1>2, TrackSays DEF TrackInv
<1>3. CASE UNCHANGED <<vars, objFresh>>
  BY <1>1, <1>3 DEF TrackInv, vars, passVars
<1> QED BY <1>2, <1>3

LEMMA VerdictNext ==
  ASSUME NEW size, Sizes = {size}, TrackInv, [TrackedNext]_<<vars, objFresh>>
  PROVE  [Dispatch!Next]_(Dispatch!vars)
<1> DEFINE Step == Dispatch!Next \/ UNCHANGED Dispatch!vars
<1> USE DEF resourceVars, passVars, processVars, restOfProcess, restOfObjects
\* Steps of which Reconciler has nothing.
<1>1. ASSUME UNCHANGED <<cr, cache, fresh, queued, pc, obj, gauges, objFresh>> PROVE Step
  BY <1>1, QuietStep DEF Where, Mine
<1>2. CASE UNCHANGED <<vars, objFresh>>
  BY <1>1, <1>2 DEF vars
<1>3. CASE TrackedNext /\ Work
  BY <1>3, StartPassStep, WorkStep, SyncStatusStep DEF Work
<1>4. CASE TrackedNext /\ (CacheSync \/ EditSpec \/ Crash)
  BY <1>4, CacheSyncStep, EditSpecStep, CrashStep
<1>5. CASE TrackedNext /\ (SecretSync \/ StatefulSetSync \/ PodsChange \/ Resync)
  <2>1. queued' = TRUE /\ UNCHANGED <<cr, cache, fresh, pc, obj, gauges>>
    BY <1>5 DEF SecretSync, StatefulSetSync, PodsChange, Resync
  <2> QED BY <1>5, <2>1, EventStep
<1>6. CASE TrackedNext /\ DestinationRuleSync
  <2>1. queued' = (queued \/ ~dr) /\ UNCHANGED <<cr, cache, fresh, pc, obj, gauges>>
    BY <1>6 DEF DestinationRuleSync
  <2>2. queued \in BOOLEAN /\ dr \in BOOLEAN
    BY DEF TrackInv, TypeInv, ResourceType, ObjectType
  <2>3. CASE queued' = TRUE
    BY <1>6, <2>1, <2>3, EventStep
  <2>4. CASE queued' = queued
    BY <1>1, <1>6, <2>1, <2>4, TrackSays
  <2> QED BY <2>1, <2>2, <2>3, <2>4
<1>7. CASE TrackedNext /\ (Rollout \/ RemoveObject \/ StripLabel \/ ChangeIstio \/ CalmDown)
  <2>1. UNCHANGED <<cr, cache, fresh, queued, pc, obj, gauges>>
    BY <1>7 DEF Rollout, StartRollout, FinishRollout, RemoveObject, StripLabel, ChangeIstio,
                CalmDown
  <2> QED BY <1>1, <1>7, <2>1, TrackSays
<1> QED BY <1>2, <1>3, <1>4, <1>5, <1>6, <1>7 DEF TrackedNext, Next, Environment

\* For every provider, every set of specs of one size, any number of zones and
\* every disruption: whichever call of handleNATSReconcile fails, and whatever
\* handleNATSState finds, the pass moves the resource, the queue and the exported
\* size as the dispatch of Reconcile lets it, and ends in one of its verdicts.
THEOREM ProvisionerEndsInVerdict ==
  ASSUME NEW size, Sizes = {size}
  PROVE  TrackedSpec => EndsInVerdict
<1>1. TrackInv /\ [TrackedNext]_<<vars, objFresh>>
        => TrackInv' /\ [Dispatch!Next]_(Dispatch!vars)
  BY TrackInvNext, VerdictNext
<1> QED BY TrackInvInit, <1>1, PTL DEF TrackedSpec, EndsInVerdict

===============================================================================
