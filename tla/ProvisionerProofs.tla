-------------------------- MODULE ProvisionerProofs --------------------------
(***************************************************************************)
(* Theorems about Provisioner for every set of specs and labels, every     *)
(* provider, every number of zones and every set of disruptions.           *)
(***************************************************************************)
EXTENDS Provisioner, NatsStatusProofs

-------------------------------------------------------------------------------
(* The reports of a pass, part by part.                                    *)

\* A report about pods that are ready.
Readied(ns, status, reason, message) ==
  Zones(SetURL(SetStateReady(ns), ServiceURL), status, reason, message)

Untouched(new, ns) == FindCondition(new, "Deleted") = FindCondition(ns, "Deleted")

SaysReady(new, ns, state, status, zones) ==
  /\ new \in Statuses
  /\ new.state = state /\ new.url = ServiceURL /\ new.zones = zones
  /\ IsTrue(new, "StatefulSet") /\ IsTrue(new, "Available")
  /\ FindCondition(new, "AvailabilityZones").status = status
  /\ Untouched(new, ns)

LEMMA ZonesType ==
  ASSUME NEW ns \in Statuses, NEW zones \in Nat
  PROVE  [ns EXCEPT !.zones = zones] \in Statuses
BY DEF Statuses

LEMMA ReadiedSays ==
  ASSUME NEW ns \in Statuses, NEW status \in {"", "True", "False"},
         NEW reason \in Reasons, NEW message \in Messages
  PROVE  SaysReady(Readied(ns, status, reason, message), ns, "Ready", status, ns.zones)
<1> DEFINE a == SetStateReady(ns)
           b == SetURL(a, ServiceURL)
           c == UpdateCondition(b, "AvailabilityZones", status, reason, message)
<1>1. a \in Statuses /\ StateWith(a, ns, "Ready", "True", "Available", "Deployed")
  BY SettersType, SetStateReadySays
<1> HIDE DEF a
<1>2. b \in Statuses
  BY <1>1, SettersType
<1>3. WithParts(b, a, a.state, ServiceURL, a.zones)
  BY <1>1, SetPartsSay
<1> HIDE DEF b
<1>4. c \in Statuses /\ WithCondition(c, b, "AvailabilityZones", status, reason)
  BY <1>2, UpdateConditionType, UpdateConditionSays DEF ConditionTypes
<1>5. c = Readied(ns, status, reason, message)
  BY DEF Readied, Zones, UpdateConditionAvailabilityZones, a, b
<1> HIDE DEF c
<1>6. SaysReady(c, ns, "Ready", status, ns.zones)
  BY <1>1, <1>3, <1>4
     DEF SaysReady, StateWith, WithParts, WithCondition, IsTrue, Untouched, ConditionTypes
<1> QED BY <1>5, <1>6

\* Another state, or another number of zones, is all that may follow.
LEMMA SaysReadyState ==
  ASSUME NEW new, NEW ns, NEW old, NEW status, NEW zones, NEW state \in States,
         SaysReady(new, ns, old, status, zones)
  PROVE  SaysReady(SetState(new, state), ns, state, status, zones)
<1>1. new \in Statuses
  BY DEF SaysReady
<1>2. SetState(new, state) \in Statuses
  BY <1>1, SetStateType
<1>3. WithParts(SetState(new, state), new, state, new.url, new.zones)
  BY <1>1, SetPartsSay
<1> QED BY <1>2, <1>3 DEF SaysReady, WithParts, IsTrue, Untouched, ConditionTypes

LEMMA SaysReadyZones ==
  ASSUME NEW new, NEW ns, NEW state, NEW status, NEW old, NEW zones \in Nat,
         SaysReady(new, ns, state, status, old)
  PROVE  SaysReady([new EXCEPT !.zones = zones], ns, state, status, zones)
<1>1. new \in Statuses
  BY DEF SaysReady
<1>2. [new EXCEPT !.zones = zones] \in Statuses
  BY <1>1, ZonesType
<1>3. WithParts([new EXCEPT !.zones = zones], new, new.state, new.url, zones)
  BY <1>1, SetPartsSay
<1> QED BY <1>2, <1>3 DEF SaysReady, WithParts, IsTrue, Untouched, ConditionTypes

\* A report of a failure: the URL, the zones and the condition about them are
\* what they were.
Failed(ns, message) ==
  UpdateConditionAvailable(SetStateError(ns), "False", "FailedProcessing", message)

SaysFailed(new, ns) ==
  /\ new \in Statuses
  /\ new.state = "Error" /\ new.url = ns.url /\ new.zones = ns.zones
  /\ ~IsTrue(new, "StatefulSet") /\ ~IsTrue(new, "Available")
  /\ FindCondition(new, "AvailabilityZones") = FindCondition(ns, "AvailabilityZones")
  /\ Untouched(new, ns)

LEMMA FailedSays ==
  ASSUME NEW ns \in Statuses, NEW message \in Messages
  PROVE  SaysFailed(Failed(ns, message), ns)
<1> DEFINE a == SetStateError(ns)
           b == UpdateCondition(a, "Available", "False", "FailedProcessing", message)
<1>1. /\ a \in Statuses
      /\ StateWith(a, ns, "Error", "False", "FailedToSyncResources", "FailedProcessing")
      /\ SameZonesCondition(a, ns)
  BY SettersType, SetStateErrorSays
<1>2. b = Failed(ns, message)
  BY DEF Failed, UpdateConditionAvailable
<1> HIDE DEF a
<1>3. b \in Statuses /\ WithCondition(b, a, "Available", "False", "FailedProcessing")
  BY <1>1, UpdateConditionType, UpdateConditionSays DEF ConditionTypes, Reasons
<1> HIDE DEF b
<1>4. SaysFailed(b, ns)
  BY <1>1, <1>3
     DEF SaysFailed, StateWith, SameZonesCondition, WithCondition, IsTrue, Untouched,
         ConditionTypes
<1> QED BY <1>2, <1>4

\* A report of a StatefulSet that is waited for.
WaitingFor(ns) == [SetWaitingStateForStatefulSet(ClearURL(ns)) EXCEPT !.zones = 0]

SaysWaiting(new, ns) ==
  /\ new \in Statuses
  /\ new.state = "Processing" /\ new.url = "" /\ new.zones = 0
  /\ ~IsTrue(new, "StatefulSet") /\ ~IsTrue(new, "Available")
  /\ ~IsTrue(new, "AvailabilityZones")
  /\ Untouched(new, ns)

LEMMA WaitingSays ==
  ASSUME NEW ns \in Statuses
  PROVE  SaysWaiting(WaitingFor(ns), ns)
<1> DEFINE a == ClearURL(ns)
           b == SetWaitingStateForStatefulSet(a)
           c == [b EXCEPT !.zones = 0]
<1>1. a \in Statuses
  BY SettersType
<1>2. WithParts(a, ns, ns.state, "", ns.zones)
  BY SetPartsSay
<1> HIDE DEF a
<1>3. b \in Statuses
  BY <1>1, SettersType
<1>4. /\ StateWith(b, a, "Processing", "False", "Pending", "Deploying")
      /\ FindCondition(b, "AvailabilityZones").status = "False"
  BY <1>1, SetWaitingStateSays
<1> HIDE DEF b
<1>5. c \in Statuses /\ WithParts(c, b, b.state, b.url, 0)
  BY <1>3, ZonesType, SetPartsSay
<1>6. c = WaitingFor(ns)
  BY DEF WaitingFor, a, b
<1> HIDE DEF c
<1>7. SaysWaiting(c, ns)
  BY <1>2, <1>4, <1>5
     DEF SaysWaiting, StateWith, WithParts, IsTrue, Untouched, ConditionTypes
<1> QED BY <1>6, <1>7

-------------------------------------------------------------------------------
(* How handleNATSState reports, from where it can.                         *)

\* The verdict on the zones, and on the state with it.
Verdict(state, status, zones) ==
  \/ state = "Error" /\ status = "False" /\ zones = 0
  \/ ~podZones.labelled /\ state = "Ready" /\ status = "False" /\ zones = 0
  \/ /\ podZones.labelled /\ obj.spec.size < MinClusterSize
     /\ state = "Ready" /\ status = "False" /\ zones = podZones.used
  \/ /\ podZones.labelled /\ obj.spec.size >= MinClusterSize /\ podZones.used = obj.spec.size
     /\ state = "Ready" /\ status = "True" /\ zones = podZones.used
  \/ /\ podZones.labelled /\ obj.spec.size >= MinClusterSize /\ podZones.used # obj.spec.size
     /\ state = "Warning" /\ status = "False" /\ zones = podZones.used

WithStatus(status) == pc' = "sync" /\ obj' = [obj EXCEPT !.status = status]

Counted(status) == gauges' = [gauges EXCEPT !.zones = status.zones]

FailedReport(new) ==
  /\ SaysFailed(new, obj.status) \/ SaysFailed(new, ClearURL(obj.status))
  /\ UNCHANGED gauges

WaitingReport(new) == SaysWaiting(new, obj.status) /\ Counted(new)

ReadyReport(new) ==
  /\ StatefulSetFound /\ IsNATSStatefulSetReady
  /\ \E state \in States, status \in {"True", "False"} :
       /\ Verdict(state, status, new.zones)
       /\ SaysReady(new, obj.status, state, status, new.zones)
  /\ Counted(new)

LEMMA ReadySays ==
  ASSUME NEW ns \in Statuses, NEW state \in States, NEW status \in {"True", "False"},
         NEW reason \in Reasons, NEW message \in Messages, NEW zones \in Nat,
         NEW ready,
         \/ ready = Readied(ns, status, reason, message) /\ state = "Ready"
         \/ ready = SetState(Readied(ns, status, reason, message), state)
  PROVE  /\ SaysReady([ready EXCEPT !.zones = zones], ns, state, status, zones)
         /\ [ready EXCEPT !.zones = zones].zones = zones
<1>1. SaysReady(Readied(ns, status, reason, message), ns, "Ready", status, ns.zones)
  BY ReadiedSays
<1>2. SaysReady(ready, ns, state, status, ns.zones)
  BY <1>1, SaysReadyState
<1>3. SaysReady([ready EXCEPT !.zones = zones], ns, state, status, zones)
  BY <1>2, SaysReadyZones
<1> QED BY <1>3 DEF SaysReady

LEMMA CountedZones ==
  ASSUME podZones \in ZoneFindings
  PROVE  /\ podZones.used \in Nat /\ podZones.used \in ZoneCounts \cup {0}
         /\ podZones.labelled \in BOOLEAN
         /\ podZones.labelled => podZones.used \in ZoneCounts
<1>1. CASE podZones = [labelled |-> FALSE, used |-> 0]
  BY <1>1
<1>2. CASE podZones \in [labelled : {TRUE}, used : ZoneCounts]
  BY <1>2, ProvisionerAssumption
<1> QED BY <1>1, <1>2 DEF ZoneFindings

LEMMA ReportReadySays ==
  ASSUME ReportReady, obj.status \in Statuses, podZones \in ZoneFindings
  PROVE  \E new \in Statuses : WithStatus(new) /\ ReadyReport(new)
<1> DEFINE ns == obj.status
<1>1. /\ StatefulSetFound /\ IsNATSStatefulSetReady
      /\ podZones.used \in Nat /\ 0 \in Nat
  BY CountedZones DEF ReportReady
<1>2. /\ {"FailedProcessing", "NotConfigured", "Deployed", "Unknown"} \subseteq Reasons
      /\ {"zone-label-missing", "zones-unknown", "not-in-cluster-mode", "different-zones",
          "not-enough-zones"} \subseteq Messages
      /\ {"Ready", "Error", "Warning"} \subseteq States
  BY DEF Reasons, Messages, States
\* Each branch of the switch with the parts of its report.
<1>3. ASSUME NEW state \in States, NEW status \in {"True", "False"}, NEW zones \in Nat,
             NEW reason \in Reasons, NEW message \in Messages, NEW ready,
             \/ ready = Readied(ns, status, reason, message) /\ state = "Ready"
             \/ ready = SetState(Readied(ns, status, reason, message), state),
             Report(ready, zones), Verdict(state, status, zones)
      PROVE  \E new \in Statuses : WithStatus(new) /\ ReadyReport(new)
  <2> DEFINE new == [ready EXCEPT !.zones = zones]
  <2>1. SaysReady(new, ns, state, status, zones) /\ new.zones = zones
    BY <1>3, ReadySays
  <2>2. new \in Statuses
    BY <2>1 DEF SaysReady
  <2>3. WithStatus(new)
    BY <1>3 DEF Report, WithStatus
  <2>4. Counted(new)
    BY <1>3, <2>1 DEF Report, RecordAvailabilityZonesUsedMetric, Counted
  <2> HIDE DEF new
  <2>5. ReadyReport(new)
    BY <1>1, <1>3, <2>1, <2>4 DEF ReadyReport
  <2> QED BY <2>2, <2>3, <2>5
<1>4. \A status, reason, message :
        Zones(SetURL(SetStateReady(ns), ServiceURL), status, reason, message)
          = Readied(ns, status, reason, message)
  BY DEF Readied
<1>5. CASE Report(SetState(Readied(ns, "False", "FailedProcessing", "zones-unknown"),
                           "Error"), 0)
  <2>1. Verdict("Error", "False", 0)
    BY DEF Verdict
  <2> QED BY <1>1, <1>2, <1>3, <1>5, <2>1
<1>6. CASE ~podZones.labelled
           /\ Report(Readied(ns, "False", "FailedProcessing", "zone-label-missing"), 0)
  <2>1. Verdict("Ready", "False", 0)
    BY <1>6 DEF Verdict
  <2> QED BY <1>1, <1>2, <1>3, <1>6, <2>1
<1>7. CASE /\ podZones.labelled /\ obj.spec.size < MinClusterSize
           /\ Report(Readied(ns, "False", "NotConfigured", "not-in-cluster-mode"),
                     podZones.used)
  <2>1. Verdict("Ready", "False", podZones.used)
    BY <1>7 DEF Verdict
  <2> QED BY <1>1, <1>2, <1>3, <1>7, <2>1
<1>8. CASE /\ podZones.labelled /\ obj.spec.size >= MinClusterSize
           /\ podZones.used = obj.spec.size
           /\ Report(Readied(ns, "True", "Deployed", "different-zones"), podZones.used)
  <2>1. Verdict("Ready", "True", podZones.used)
    BY <1>8 DEF Verdict
  <2> QED BY <1>1, <1>2, <1>3, <1>8, <2>1
<1>9. CASE /\ podZones.labelled /\ obj.spec.size >= MinClusterSize
           /\ podZones.used # obj.spec.size
           /\ Report(SetState(Readied(ns, "False", "Unknown", "not-enough-zones"),
                              "Warning"), podZones.used)
  <2>1. Verdict("Warning", "False", podZones.used)
    BY <1>9 DEF Verdict
  <2> QED BY <1>1, <1>2, <1>3, <1>9, <2>1
<1> QED BY <1>5, <1>6, <1>7, <1>8, <1>9 DEF ReportReady, Readied, SetStateWarning

\* A failure says so, whatever step it is of.
LEMMA FailSays ==
  ASSUME NEW ns \in Statuses, NEW message \in Messages, Fail(ns, message)
  PROVE  \E new \in Statuses : WithStatus(new) /\ SaysFailed(new, ns)
<1>1. SaysFailed(Failed(ns, message), ns)
  BY FailedSays
<1>2. WithStatus(Failed(ns, message))
  BY DEF Fail, WithStatus, Failed
<1> QED BY <1>1, <1>2 DEF SaysFailed

LEMMA HandleNATSStateSays ==
  ASSUME HandleNATSState, obj.status \in Statuses, podZones \in ZoneFindings
  PROVE  \E new \in Statuses :
           WithStatus(new) /\ (FailedReport(new) \/ WaitingReport(new) \/ ReadyReport(new))
<1>1. CASE ReportUnknown
  <2>1. ClearURL(obj.status) \in Statuses /\ "sync-failed" \in Messages
    BY SettersType DEF Messages
  <2> QED BY <1>1, <2>1, FailSays DEF ReportUnknown, FailedReport
<1>2. CASE ReportWaiting
  <2> DEFINE new == WaitingFor(obj.status)
  <2>1. SaysWaiting(new, obj.status)
    BY WaitingSays
  <2>2. WithStatus(new) /\ gauges' = [gauges EXCEPT !.zones = 0]
    BY <1>2 DEF ReportWaiting, Report, RecordAvailabilityZonesUsedMetric, WithStatus, WaitingFor
  <2> HIDE DEF new
  <2> QED BY <2>1, <2>2 DEF WaitingReport, SaysWaiting, Counted
<1>3. CASE ReportReady
  BY <1>3, ReportReadySays
<1> QED BY <1>1, <1>2, <1>3 DEF HandleNATSState

-------------------------------------------------------------------------------
(* Every variable keeps its type, which takes one thing more: during a     *)
(* pass the working copy is a copy of the resource.                        *)

Wants == Templates \cup {NoCopy.spec}

ResourceType ==
  cr \in Resources /\ cache \in Resources /\ fresh \in BOOLEAN /\ queued \in BOOLEAN

PassType ==
  /\ pc \in Steps /\ obj \in Resources \cup {NoCopy}
  /\ pc # "idle" => obj \in Resources
  /\ inst \in [istio : BOOLEAN, rotate : BOOLEAN, want : Wants]
  /\ todo \subseteq Kinds

ProcessType ==
  /\ provider \in {"unknown", Provider} /\ chartLabels \subseteq Labels
  /\ watching \in BOOLEAN
  /\ gauges \in [size : Sizes \cup {0}, zones : ZoneCounts \cup {0}]

ObjectType ==
  /\ crd \in BOOLEAN /\ dr \in BOOLEAN
  /\ secret \in {0} \cup Passwords /\ sts \in StatefulSets /\ unlabelled \subseteq Kinds

SeenType == secretSeen \in BOOLEAN /\ stsSeen \in StatefulSets /\ behind \subseteq Kinds

TypeInv ==
  /\ ResourceType /\ PassType /\ ProcessType /\ ObjectType /\ SeenType
  /\ podZones \in ZoneFindings /\ calm \in BOOLEAN

LEMMA TypeInvImplies == TypeInv => TypeOK
BY DEF TypeInv, ResourceType, PassType, ProcessType, ObjectType, SeenType, TypeOK, Wants

LEMMA ResourceParts ==
  ASSUME NEW r \in Resources
  PROVE  r.spec \in Specs /\ r.status \in Statuses
BY DEF Resources

LEMMA SpecParts ==
  ASSUME NEW spec \in Specs
  PROVE  /\ spec.size \in Nat \ {0} /\ spec.storage \in Nat /\ spec.labels \subseteq Labels
         /\ spec.size \in Sizes
BY ProvisionerAssumption DEF Sizes

LEMMA WithStatusType ==
  ASSUME NEW r \in Resources, NEW status \in Statuses
  PROVE  LET new == [r EXCEPT !.status = status]
         IN  new \in Resources /\ new.spec = r.spec /\ new.status = status
BY DEF Resources

LEMMA InitialValues ==
  /\ NoCopy \in Resources \cup {NoCopy} /\ NoCopy.status \in Statuses
  /\ NoInstance \in [istio : BOOLEAN, rotate : BOOLEAN, want : Wants]
  /\ NoStatefulSet \in StatefulSets
  /\ NoGauges \in [size : Sizes \cup {0}, zones : ZoneCounts \cup {0}]
<1>1. NoCopy.status \in Statuses
  BY NewStatusType DEF NoCopy
<1>2. NoCopy.spec \in Wants
  BY DEF Wants
<1>3. NoInstance \in [istio : BOOLEAN, rotate : BOOLEAN, want : Wants]
  BY <1>2 DEF NoInstance
<1>4. NoStatefulSet \in StatefulSets
  BY <1>2 DEF NoStatefulSet, StatefulSets, Wants
<1>5. NoGauges \in [size : Sizes \cup {0}, zones : ZoneCounts \cup {0}]
  BY DEF NoGauges
<1> QED BY <1>1, <1>3, <1>4, <1>5

LEMMA StatefulSetParts ==
  ASSUME NEW s \in StatefulSets
  PROVE  /\ s.exists \in BOOLEAN /\ s.want \in Wants /\ s.counters \in Sizes \cup {0}
         /\ s.want.size \in Sizes \cup {0}
<1>1. s.exists \in BOOLEAN /\ s.want \in Wants /\ s.counters \in Sizes \cup {0}
  BY DEF StatefulSets, Wants
<1>2. NoCopy.spec.size = 0
  BY DEF NoCopy
<1>3. \A t \in Templates : t.size \in Sizes
  BY DEF Templates
<1> QED BY <1>1, <1>2, <1>3 DEF Wants

\* What may become of a StatefulSet.
LEMMA StatefulSetChanges ==
  ASSUME NEW s \in StatefulSets, NEW want \in Wants,
         NEW counters \in Sizes \cup {0}, NEW rolled \in BOOLEAN
  PROVE  /\ [NoStatefulSet EXCEPT !.exists = TRUE, !.want = want] \in StatefulSets
         /\ [s EXCEPT !.want = want, !.rolled = rolled] \in StatefulSets
         /\ [s EXCEPT !.counters = counters, !.rolled = rolled] \in StatefulSets
         /\ [s EXCEPT !.counters = counters] \in StatefulSets
BY DEF StatefulSets, NoStatefulSet, Wants

LEMMA ListedType ==
  ASSUME ObjectType
  PROVE  SecretListed \in BOOLEAN /\ StatefulSetListed \in StatefulSets
BY InitialValues DEF ObjectType, SecretListed, StatefulSetListed

LEMMA TemplateType ==
  ASSUME NEW spec \in Specs, chartLabels \subseteq Labels
  PROVE  /\ ChartLabels(spec) \subseteq Labels
         /\ Template(spec) \in Wants
         /\ Template(spec).size = spec.size
         /\ Template(spec).storage = ResolveFileStorageSize(spec, KnownProvider)
         /\ spec.labels \subseteq Template(spec).labels
<1>1. ChartLabels(spec) \subseteq Labels
  BY SpecParts DEF ChartLabels
<1>2. ResolveFileStorageSize(spec, KnownProvider) \in Nat
  BY SpecParts DEF ResolveFileStorageSize, MinFileSizeAlicloud
<1>3. Template(spec) \in Templates
  BY <1>1, <1>2, SpecParts DEF Template, Templates
<1> QED BY <1>1, <1>3 DEF Template, Wants, ChartLabels

LEMMA EndPassType ==
  ASSUME queued \in BOOLEAN, NEW requeue \in BOOLEAN, EndPass(requeue)
  PROVE  PassType' /\ queued' \in BOOLEAN
BY InitialValues DEF EndPass, PassType, Steps

\* A pass that goes on with a report.
LEMMA WithStatusKeepsType ==
  ASSUME obj \in Resources, NEW new \in Statuses, WithStatus(new),
         inst' \in [istio : BOOLEAN, rotate : BOOLEAN, want : Wants], todo' \subseteq Kinds
  PROVE  PassType'
BY WithStatusType DEF WithStatus, PassType, Steps

LEMMA FailType ==
  ASSUME obj \in Resources, NEW ns \in Statuses, NEW message \in Messages, Fail(ns, message),
         inst' \in [istio : BOOLEAN, rotate : BOOLEAN, want : Wants], todo' \subseteq Kinds
  PROVE  PassType'
<1>1. PICK new \in Statuses : WithStatus(new)
  BY FailSays
<1> QED BY <1>1, WithStatusKeepsType

LEMMA TypeInvInit == Init => TypeInv
<1> SUFFICES ASSUME Init PROVE TypeInv
  OBVIOUS
<1>1. PICK spec \in Specs : cr = [spec |-> spec, status |-> NewStatus]
  BY DEF Init
<1>2. cr \in Resources
  BY <1>1, NewStatusType DEF Resources
<1>3. ResourceType
  BY <1>2 DEF Init, ResourceType
<1>4. PassType
  BY InitialValues DEF Init, PassType, Steps
<1>5. ProcessType
  BY InitialValues DEF Init, ProcessType
<1>6. ObjectType
  BY InitialValues, ProvisionerAssumption DEF Init, ObjectType
<1>7. SeenType
  BY InitialValues DEF Init, SeenType
<1> QED BY <1>3, <1>4, <1>5, <1>6, <1>7 DEF Init, TypeInv

LEMMA StartPassType ==
  ASSUME TypeInv, StartPass
  PROVE  TypeInv'
<1> USE DEF resourceVars, objectVars, seenVars
<1>1. /\ cache \in Resources /\ cache.spec \in Specs /\ cache.status \in Statuses
      /\ cache.spec.size \in Sizes
  BY ResourceParts, SpecParts DEF TypeInv, ResourceType
<1>2. [cache EXCEPT !.status = Initialize(@)] \in Resources
  BY <1>1, SettersType, WithStatusType
<1>3. PassType'
  BY <1>2 DEF StartPass, TypeInv, PassType, Steps
<1>4. ProcessType'
  BY <1>1 DEF StartPass, SyncCloudProvider, RecordClusterSizeMetric, TypeInv, ProcessType
<1>5. ResourceType' /\ ObjectType' /\ SeenType' /\ (podZones \in ZoneFindings)' /\ calm' \in BOOLEAN
  BY DEF StartPass, TypeInv, ResourceType, ObjectType, SeenType
<1> QED BY <1>3, <1>4, <1>5 DEF TypeInv

LEMMA InitInstanceType ==
  ASSUME TypeInv, InitInstance
  PROVE  TypeInv'
<1> USE DEF resourceVars, objectVars, seenVars
<1>1. /\ obj \in Resources /\ obj.spec \in Specs /\ obj.status \in Statuses
      /\ chartLabels \subseteq Labels
  BY ResourceParts DEF InitInstance, TypeInv, PassType, ProcessType
<1>2. PassType' /\ ProcessType'
  <2>1. CASE GenerateNATSResources(IstioExists, ~SecretExists) /\ pc' = "deploy" /\ UNCHANGED obj
    <3>1. IstioExists \in BOOLEAN /\ (~SecretExists) \in BOOLEAN
      BY DEF TypeInv, ObjectType, SeenType, IstioExists, SecretExists
    <3>2. /\ inst' = [istio |-> IstioExists, rotate |-> ~SecretExists, want |-> Template(obj.spec)]
          /\ todo' \subseteq Kinds /\ chartLabels' \subseteq Labels
      BY <1>1, <2>1, TemplateType DEF GenerateNATSResources, Rendered
    <3>3. inst' \in [istio : BOOLEAN, rotate : BOOLEAN, want : Wants]
      BY <1>1, <3>1, <3>2, TemplateType
    <3> QED BY <1>1, <2>1, <3>2, <3>3 DEF InitInstance, TypeInv, PassType, ProcessType, Steps
  <2>2. CASE Fail(obj.status, "init-failed") /\ UNCHANGED <<inst, todo, chartLabels>>
    <3>1. "init-failed" \in Messages
      BY DEF Messages
    <3>2. PassType'
      BY <1>1, <2>2, <3>1, FailType DEF TypeInv, PassType
    <3>3. ProcessType'
      BY <2>2 DEF InitInstance, TypeInv, ProcessType
    <3> QED BY <3>2, <3>3
  <2> QED BY <2>1, <2>2 DEF InitInstance
<1>3. ResourceType' /\ ObjectType' /\ SeenType' /\ (podZones \in ZoneFindings)' /\ calm' \in BOOLEAN
  BY DEF InitInstance, TypeInv, ResourceType, ObjectType, SeenType
<1> QED BY <1>2, <1>3 DEF TypeInv

\* What the three applications have in common.
LEMMA ApplyType ==
  ASSUME TypeInv, pc = "deploy", NEW kind \in Kinds, Applied(kind) \/ ApplyFails,
         UNCHANGED inst
  PROVE  PassType'
<1>1. obj \in Resources /\ obj.status \in Statuses /\ "deploy-failed" \in Messages
  BY ResourceParts DEF TypeInv, PassType, Messages
<1>2. CASE Applied(kind)
  BY <1>2 DEF Applied, TypeInv, PassType
<1>3. CASE ApplyFails
  BY <1>1, <1>3, FailType DEF ApplyFails, TypeInv, PassType
<1> QED BY <1>2, <1>3

LEMMA DeployType ==
  ASSUME TypeInv, Deploy
  PROVE  TypeInv'
<1> USE DEF resourceVars, processVars
<1>1. PassType'
  BY ApplyType DEF Deploy, ApplySecret, ApplyStatefulSet, ApplyDestinationRule, Kinds
<1>2. ObjectType' /\ behind' \subseteq Kinds
  <2>1. CASE ApplySecret
    BY <2>1 DEF ApplySecret, AppliedChange, NewPassword, Passwords, Kinds, TypeInv,
                ObjectType, SeenType
  <2>2. CASE ApplyStatefulSet
    <3>1. inst.want \in Wants /\ sts.rolled \in BOOLEAN /\ sts \in StatefulSets
      BY DEF TypeInv, PassType, ObjectType, StatefulSets
    <3> DEFINE same == sts.rolled /\ sts.want = inst.want
    <3>2. same \in BOOLEAN
      BY <3>1
    <3>3. sts' = sts \/ sts' = [NoStatefulSet EXCEPT !.exists = TRUE, !.want = inst.want]
          \/ sts' = [sts EXCEPT !.want = inst.want, !.rolled = same]
      BY <2>2 DEF ApplyStatefulSet
    <3> HIDE DEF same
    <3>4. sts' \in StatefulSets
      <4>1. /\ [NoStatefulSet EXCEPT !.exists = TRUE, !.want = inst.want] \in StatefulSets
            /\ [sts EXCEPT !.want = inst.want, !.rolled = same] \in StatefulSets
        BY <3>1, <3>2, StatefulSetChanges
      <4> QED BY <3>1, <3>3, <4>1
    <3>5. behind' \subseteq Kinds /\ unlabelled' \subseteq Kinds
      BY <2>2 DEF ApplyStatefulSet, AppliedChange, Kinds, TypeInv, ObjectType, SeenType
    <3> QED BY <2>2, <3>4, <3>5 DEF ApplyStatefulSet, TypeInv, ObjectType
  <2>3. CASE ApplyDestinationRule
    BY <2>3 DEF ApplyDestinationRule, Changed, Kinds, TypeInv, ObjectType, SeenType
  <2> QED BY <2>1, <2>2, <2>3 DEF Deploy
<1>3. ResourceType' /\ ProcessType' /\ (podZones \in ZoneFindings)' /\ calm' \in BOOLEAN
      /\ secretSeen' \in BOOLEAN /\ stsSeen' \in StatefulSets
  BY DEF Deploy, ApplySecret, ApplyStatefulSet, ApplyDestinationRule, TypeInv,
         ResourceType, ProcessType, SeenType
<1> QED BY <1>1, <1>2, <1>3 DEF TypeInv, SeenType

LEMMA WatchDestinationRuleType ==
  ASSUME TypeInv, WatchDestinationRule
  PROVE  TypeInv'
<1> USE DEF resourceVars, objectVars
<1>1. obj \in Resources /\ obj.status \in Statuses /\ "watch-failed" \in Messages
  BY ResourceParts DEF WatchDestinationRule, TypeInv, PassType, Messages
<1>2. PassType'
  <2>1. CASE Fail(obj.status, "watch-failed")
    BY <1>1, <2>1, FailType DEF WatchDestinationRule, TypeInv, PassType
  <2>2. CASE pc' = "state" /\ UNCHANGED obj
    BY <1>1, <2>2 DEF WatchDestinationRule, TypeInv, PassType, Steps
  <2> QED BY <2>1, <2>2 DEF WatchDestinationRule
<1>3. ResourceType' /\ ProcessType' /\ ObjectType' /\ SeenType'
      /\ (podZones \in ZoneFindings)' /\ calm' \in BOOLEAN
  BY DEF WatchDestinationRule, TypeInv, ResourceType, ProcessType, ObjectType, SeenType
<1> QED BY <1>2, <1>3 DEF TypeInv

\* A ready StatefulSet is reported with the zones that were counted, or with 0.
LEMMA ReadyReportZones ==
  ASSUME podZones \in ZoneFindings, NEW new, ReadyReport(new)
  PROVE  new.zones \in ZoneCounts \cup {0}
BY CountedZones DEF ReadyReport, Verdict

LEMMA HandleNATSStateType ==
  ASSUME TypeInv, HandleNATSState
  PROVE  TypeInv'
<1> USE DEF resourceVars, objectVars, seenVars
<1>1. obj \in Resources /\ obj.status \in Statuses
  BY ResourceParts DEF HandleNATSState, TypeInv, PassType
<1>2. PICK new \in Statuses :
        WithStatus(new) /\ (FailedReport(new) \/ WaitingReport(new) \/ ReadyReport(new))
  BY <1>1, HandleNATSStateSays DEF TypeInv
<1>3. PassType'
  BY <1>1, <1>2, WithStatusKeepsType DEF HandleNATSState, TypeInv, PassType
<1>4. ProcessType'
  <2>1. gauges \in [size : Sizes \cup {0}, zones : ZoneCounts \cup {0}]
    BY DEF TypeInv, ProcessType
  <2>2. gauges' \in [size : Sizes \cup {0}, zones : ZoneCounts \cup {0}]
    <3>1. CASE FailedReport(new)
      BY <2>1, <3>1 DEF FailedReport
    <3>2. CASE Counted(new) /\ new.zones \in ZoneCounts \cup {0}
      BY <2>1, <3>2 DEF Counted
    <3>3. CASE WaitingReport(new)
      BY <3>2, <3>3 DEF WaitingReport, SaysWaiting
    <3>4. CASE ReadyReport(new)
      BY <3>2, <3>4, ReadyReportZones DEF ReadyReport, TypeInv
    <3> QED BY <1>2, <3>1, <3>3, <3>4
  <2> QED BY <2>2 DEF HandleNATSState, TypeInv, ProcessType
<1>5. ResourceType' /\ ObjectType' /\ SeenType' /\ (podZones \in ZoneFindings)' /\ calm' \in BOOLEAN
  BY DEF HandleNATSState, TypeInv, ResourceType, ObjectType, SeenType
<1> QED BY <1>3, <1>4, <1>5 DEF TypeInv

LEMMA SyncStatusType ==
  ASSUME TypeInv, SyncStatus
  PROVE  TypeInv'
<1> USE DEF processVars, objectVars, seenVars
<1>1. obj.status \in Statuses /\ cr \in Resources
  BY ResourceParts DEF SyncStatus, TypeInv, PassType, ResourceType
<1>2. [cr EXCEPT !.status = obj.status] \in Resources
  BY <1>1, WithStatusType
<1>3. EndPass(Unfinished) \/ EndPass(TRUE)
  BY DEF SyncStatus
<1>4. Unfinished \in BOOLEAN /\ queued \in BOOLEAN
  BY DEF Unfinished, TypeInv, ResourceType
<1>5. PassType' /\ queued' \in BOOLEAN
  BY <1>3, <1>4, EndPassType
<1>6. cr' \in Resources /\ fresh' \in BOOLEAN
  BY <1>2 DEF SyncStatus, TypeInv, ResourceType
<1>7. /\ cache' \in Resources /\ ProcessType' /\ ObjectType' /\ SeenType'
      /\ (podZones \in ZoneFindings)' /\ calm' \in BOOLEAN
  BY DEF SyncStatus, TypeInv, ResourceType, ProcessType, ObjectType, SeenType
<1> QED BY <1>5, <1>6, <1>7 DEF TypeInv, ResourceType

LEMMA InformersType ==
  ASSUME TypeInv,
         \/ CacheSync \/ SecretSync \/ StatefulSetSync \/ DestinationRuleSync
         \/ PodsChange \/ Resync
  PROVE  TypeInv'
<1> USE DEF restOfProcess, resourceVars, passVars, processVars, objectVars, seenVars
<1>1. SecretListed \in BOOLEAN /\ StatefulSetListed \in StatefulSets
  BY ListedType DEF TypeInv
<1>2. PassType' /\ ProcessType' /\ ObjectType'
  BY DEF CacheSync, SecretSync, StatefulSetSync, DestinationRuleSync, PodsChange, Resync,
         TypeInv, PassType, ProcessType, ObjectType
<1>3. ResourceType' /\ SeenType'
  BY <1>1 DEF CacheSync, SecretSync, StatefulSetSync, DestinationRuleSync, PodsChange, Resync,
              Delivered, TypeInv, ResourceType, SeenType, ObjectType
<1>4. (podZones \in ZoneFindings)' /\ calm' \in BOOLEAN
  BY DEF CacheSync, SecretSync, StatefulSetSync, DestinationRuleSync, PodsChange, Resync, TypeInv
<1> QED BY <1>2, <1>3, <1>4 DEF TypeInv

LEMMA EnvironmentType ==
  ASSUME TypeInv,
         \/ Rollout \/ RemoveObject \/ StripLabel \/ ChangeIstio
  PROVE  TypeInv'
<1> USE DEF restOfObjects, resourceVars, passVars, processVars
<1>1. /\ ResourceType' /\ PassType' /\ ProcessType'
      /\ secretSeen' \in BOOLEAN /\ stsSeen' \in StatefulSets
      /\ (podZones \in ZoneFindings)' /\ calm' \in BOOLEAN
  BY DEF Rollout, StartRollout, FinishRollout, RemoveObject, StripLabel, ChangeIstio,
         TypeInv, ResourceType, PassType, ProcessType, SeenType
<1>2. ObjectType' /\ behind' \subseteq Kinds
  <2>1. CASE Rollout
    <3>1. sts \in StatefulSets /\ sts.want.size \in Sizes \cup {0} /\ 0 \in Sizes \cup {0}
      BY StatefulSetParts DEF TypeInv, ObjectType
    <3>2. sts' = [sts EXCEPT !.counters = 0]
          \/ sts' = [sts EXCEPT !.counters = sts.want.size, !.rolled = TRUE]
      BY <2>1 DEF Rollout, StartRollout, FinishRollout
    <3>3. sts' \in StatefulSets
      <4>1. NoCopy.spec \in Wants /\ TRUE \in BOOLEAN
        BY DEF Wants
      <4> QED BY <3>1, <3>2, <4>1, StatefulSetChanges
    <3>4. behind' \subseteq Kinds
      BY <2>1 DEF Rollout, StartRollout, FinishRollout, Changed, Kinds, TypeInv, SeenType
    <3> QED BY <2>1, <3>3, <3>4 DEF Rollout, StartRollout, FinishRollout, TypeInv, ObjectType
  <2>2. CASE RemoveObject
    BY <2>2, InitialValues DEF RemoveObject, Changed, Kinds, TypeInv, ObjectType, SeenType
  <2>3. CASE StripLabel
    BY <2>3 DEF StripLabel, Changed, Kinds, TypeInv, ObjectType, SeenType
  <2>4. CASE ChangeIstio
    BY <2>4 DEF ChangeIstio, Changed, Kinds, TypeInv, ObjectType, SeenType
  <2> QED BY <2>1, <2>2, <2>3, <2>4
<1> QED BY <1>1, <1>2 DEF TypeInv, SeenType

LEMMA TypeInvNext == TypeInv /\ [Next]_vars => TypeInv'
<1> SUFFICES ASSUME TypeInv, [Next]_vars PROVE TypeInv'
  OBVIOUS
<1> USE DEF resourceVars, passVars, processVars, objectVars, seenVars
<1>1. CASE Work
  BY <1>1, StartPassType, InitInstanceType, DeployType, WatchDestinationRuleType,
     HandleNATSStateType, SyncStatusType DEF Work
<1>2. CASE \/ CacheSync \/ SecretSync \/ StatefulSetSync \/ DestinationRuleSync
           \/ PodsChange \/ Resync
  BY <1>2, InformersType
<1>3. CASE Rollout \/ RemoveObject \/ StripLabel \/ ChangeIstio
  BY <1>3, EnvironmentType
<1>4. CASE EditSpec
  <2>1. PICK spec \in Specs : cr' = [cr EXCEPT !.spec = spec]
    BY <1>4 DEF EditSpec
  <2>2. cr' \in Resources
    BY <2>1 DEF TypeInv, ResourceType, Resources
  <2>3. /\ fresh' = FALSE
        /\ UNCHANGED <<cache, queued, passVars, processVars, objectVars, seenVars,
                       podZones, calm>>
    BY <1>4 DEF EditSpec
  <2>4. ResourceType'
    BY <2>2, <2>3 DEF TypeInv, ResourceType
  <2>5. PassType' /\ ProcessType'
    BY <2>3 DEF TypeInv, PassType, ProcessType
  <2>6. ObjectType' /\ SeenType'
    BY <2>3 DEF TypeInv, ObjectType, SeenType
  <2> QED BY <2>3, <2>4, <2>5, <2>6 DEF TypeInv
<1>5. CASE Crash
  <2>1. PassType' /\ ProcessType'
    BY <1>5, InitialValues DEF Crash, PassType, Steps, ProcessType
  <2>2. SeenType'
    BY <1>5, ListedType DEF Crash, SeenType, TypeInv
  <2> QED BY <1>5, <2>1, <2>2 DEF Crash, TypeInv, ResourceType, ObjectType
<1>6. CASE CalmDown
  BY <1>6 DEF CalmDown, TypeInv, ResourceType, PassType, ProcessType, ObjectType, SeenType
<1>7. CASE UNCHANGED vars
  BY <1>7 DEF vars, TypeInv, ResourceType, PassType, ProcessType, ObjectType, SeenType
<1> QED BY <1>1, <1>2, <1>3, <1>4, <1>5, <1>6, <1>7 DEF Next, Environment

\* Every variable always holds a value of its kind.
THEOREM TypeCorrect == Spec => []TypeOK
BY TypeInvInit, TypeInvNext, TypeInvImplies, PTL DEF Spec

-------------------------------------------------------------------------------
(* The stored status is coherent.                                          *)
(*                                                                         *)
(* Between the first setter of a pass and its last the working copy is not *)
(* coherent: Initialize leaves the URL and the zones of the last report    *)
(* under a state they do not go with.  What holds there, Begun, is what    *)
(* each of the reports needs to come out coherent.                         *)

\* No provisioning pass touches the condition of the deletion.
Sound(s) == Coherent(s) /\ ~IsTrue(s, "Deleted")

Begun(s) ==
  /\ s.state = "Processing"
  /\ ~IsTrue(s, "StatefulSet") /\ ~IsTrue(s, "Available") /\ ~IsTrue(s, "Deleted")
  /\ IsTrue(s, "AvailabilityZones") => s.zones >= MinClusterSize

StatusInv ==
  /\ TypeInv
  /\ Sound(cr.status) /\ Sound(cache.status)
  /\ pc \in {"init", "deploy", "state"} => Begun(obj.status)
  /\ pc = "sync" => Sound(obj.status)

LEMMA NewStatusIsSound == Sound(NewStatus)
BY DEF Sound, Coherent, IsTrue, FindCondition, NewStatus, Unset, ConditionTypes

LEMMA InitializeBegins ==
  ASSUME NEW s \in Statuses, Sound(s)
  PROVE  Begun(Initialize(s))
BY InitializeSays
   DEF StateWith, SameZonesCondition, Sound, Coherent, Begun, IsTrue, ConditionTypes

LEMMA ClearURLKeepsBegun ==
  ASSUME NEW s \in Statuses, Begun(s)
  PROVE  Begun(ClearURL(s))
BY SetPartsSay DEF WithParts, Begun, IsTrue, ConditionTypes

LEMMA FailedIsSound ==
  ASSUME NEW s, Begun(s), NEW new, SaysFailed(new, s)
  PROVE  Sound(new)
BY DEF Begun, SaysFailed, Sound, Coherent, IsTrue, Untouched

LEMMA WaitingIsSound ==
  ASSUME NEW s, Begun(s), NEW new, SaysWaiting(new, s)
  PROVE  Sound(new)
BY DEF Begun, SaysWaiting, Sound, Coherent, IsTrue, Untouched, ConditionTypes

LEMMA ReadyIsSound ==
  ASSUME NEW new, ReadyReport(new), Begun(obj.status)
  PROVE  Sound(new)
<1>1. PICK state \in States, status \in {"True", "False"} :
        /\ Verdict(state, status, new.zones)
        /\ SaysReady(new, obj.status, state, status, new.zones)
  BY DEF ReadyReport
<1>2. /\ state \in {"Ready", "Warning", "Error"}
      /\ status = "True" => new.zones >= MinClusterSize
      /\ state = "Warning" => status # "True"
  BY <1>1 DEF Verdict
<1>3. new.state = state /\ new.url # ""
      /\ IsTrue(new, "StatefulSet") /\ IsTrue(new, "Available")
      /\ (IsTrue(new, "AvailabilityZones") => status = "True")
      /\ ~IsTrue(new, "Deleted")
  BY <1>1 DEF SaysReady, ServiceURL, IsTrue, Untouched, Begun
<1> QED BY <1>2, <1>3 DEF Sound, Coherent

LEMMA StatusInvInit == Init => StatusInv
<1> SUFFICES ASSUME Init PROVE StatusInv
  OBVIOUS
<1>1. cr.status = NewStatus /\ cache = cr /\ pc = "idle"
  BY DEF Init
<1> QED BY <1>1, TypeInvInit, NewStatusIsSound DEF StatusInv

\* A failure ends a pass with a status that is sound.
LEMMA FailKeepsStatusInv ==
  ASSUME StatusInv, TypeInv', NEW message \in Messages, Fail(obj.status, message),
         pc \in {"init", "deploy", "state"}, UNCHANGED <<cr, cache>>
  PROVE  StatusInv'
<1>1. obj \in Resources /\ obj.status \in Statuses
  BY ResourceParts DEF StatusInv, TypeInv, PassType
<1>2. PICK new \in Statuses : WithStatus(new) /\ SaysFailed(new, obj.status)
  BY <1>1, FailSays
<1>3. Sound(new)
  BY <1>2, FailedIsSound DEF StatusInv
<1>4. pc' = "sync" /\ obj'.status = new
  BY <1>1, <1>2, WithStatusType DEF WithStatus
<1> QED BY <1>3, <1>4 DEF StatusInv

LEMMA StatusInvNext == StatusInv /\ [Next]_vars => StatusInv'
<1> SUFFICES ASSUME StatusInv, [Next]_vars PROVE StatusInv'
  OBVIOUS
<1> USE DEF resourceVars, passVars, processVars, objectVars, seenVars, restOfProcess,
            restOfObjects
<1>1. TypeInv'
  BY TypeInvNext DEF StatusInv
<1>2. /\ cr.status \in Statuses /\ cache.status \in Statuses
      /\ cr \in Resources /\ cache \in Resources
      /\ pc # "idle" => obj \in Resources /\ obj.status \in Statuses
  BY ResourceParts DEF StatusInv, TypeInv, ResourceType, PassType
<1>3. CASE StartPass
  <2>1. pc' = "init" /\ obj' = [cache EXCEPT !.status = Initialize(@)]
        /\ UNCHANGED <<cr, cache>>
    BY <1>3 DEF StartPass
  <2>2. obj'.status = Initialize(cache.status)
    BY <1>2, <2>1, SettersType, WithStatusType
  <2> QED BY <1>1, <1>2, <2>1, <2>2, InitializeBegins DEF StatusInv
<1>4. CASE InitInstance
  <2>1. CASE Fail(obj.status, "init-failed")
    BY <1>1, <1>4, <2>1, FailKeepsStatusInv DEF InitInstance, Messages
  <2>2. CASE pc' = "deploy" /\ UNCHANGED obj
    BY <1>1, <1>4, <2>2 DEF InitInstance, StatusInv
  <2> QED BY <1>4, <2>1, <2>2 DEF InitInstance
<1>5. CASE Deploy
  <2>1. pc = "deploy" /\ UNCHANGED <<cr, cache>>
    BY <1>5 DEF Deploy, ApplySecret, ApplyStatefulSet, ApplyDestinationRule
  <2>2. CASE Fail(obj.status, "deploy-failed")
    BY <1>1, <2>1, <2>2, FailKeepsStatusInv DEF Messages
  <2>3. CASE UNCHANGED <<pc, obj>>
    BY <1>1, <2>1, <2>3 DEF StatusInv
  <2> QED BY <1>5, <2>2, <2>3
       DEF Deploy, ApplySecret, ApplyStatefulSet, ApplyDestinationRule, Applied, ApplyFails
<1>6. CASE WatchDestinationRule
  <2>1. CASE Fail(obj.status, "watch-failed")
    BY <1>1, <1>6, <2>1, FailKeepsStatusInv DEF WatchDestinationRule, Messages
  <2>2. CASE pc' = "state" /\ UNCHANGED obj
    BY <1>1, <1>6, <2>2 DEF WatchDestinationRule, StatusInv
  <2> QED BY <1>6, <2>1, <2>2 DEF WatchDestinationRule
<1>7. CASE HandleNATSState
  <2>1. pc = "state" /\ UNCHANGED <<cr, cache>> /\ Begun(obj.status)
    BY <1>7 DEF HandleNATSState, StatusInv
  <2>2. PICK new \in Statuses :
          WithStatus(new) /\ (FailedReport(new) \/ WaitingReport(new) \/ ReadyReport(new))
    BY <1>2, <1>7, <2>1, HandleNATSStateSays DEF StatusInv, TypeInv
  <2>3. Sound(new)
    BY <1>2, <2>1, <2>2, ClearURLKeepsBegun, FailedIsSound, WaitingIsSound, ReadyIsSound
       DEF FailedReport, WaitingReport
  <2>4. pc' = "sync" /\ obj'.status = new
    BY <1>2, <2>1, <2>2, WithStatusType DEF WithStatus
  <2> QED BY <1>1, <2>1, <2>3, <2>4 DEF StatusInv
<1>8. CASE SyncStatus
  <2>1. pc = "sync" /\ pc' = "idle" /\ UNCHANGED cache /\ Sound(obj.status)
    BY <1>8 DEF SyncStatus, EndPass, StatusInv
  <2>2. cr' = cr \/ cr' = [cr EXCEPT !.status = obj.status]
    BY <1>8 DEF SyncStatus
  <2>3. cr'.status = cr.status \/ cr'.status = obj.status
    BY <1>2, <2>1, <2>2, WithStatusType
  <2> QED BY <1>1, <2>1, <2>3 DEF StatusInv
<1>9. CASE CacheSync \/ Crash
  <2>1. cache' = cr /\ cr' = cr /\ ((pc' = pc /\ obj' = obj) \/ pc' = "idle")
    BY <1>9 DEF CacheSync, Crash
  <2> QED BY <1>1, <2>1 DEF StatusInv
<1>10. CASE EditSpec
  <2>1. PICK spec \in Specs : cr' = [cr EXCEPT !.spec = spec]
    BY <1>10 DEF EditSpec
  <2>2. cr'.status = cr.status
    BY <1>2, <2>1 DEF Resources
  <2>3. UNCHANGED <<cache, pc, obj>>
    BY <1>10 DEF EditSpec
  <2> QED BY <1>1, <2>2, <2>3 DEF StatusInv
<1>11. ASSUME UNCHANGED <<cr, cache, pc, obj>>
       PROVE  StatusInv'
  BY <1>1, <1>11 DEF StatusInv
<1>12. CASE SecretSync \/ StatefulSetSync \/ DestinationRuleSync \/ PodsChange \/ Resync
  BY <1>11, <1>12 DEF SecretSync, StatefulSetSync, DestinationRuleSync, PodsChange, Resync
<1>13. CASE Rollout \/ RemoveObject \/ StripLabel \/ ChangeIstio
  BY <1>11, <1>13 DEF Rollout, StartRollout, FinishRollout, RemoveObject, StripLabel, ChangeIstio
<1>14. CASE CalmDown \/ UNCHANGED vars
  BY <1>11, <1>14 DEF CalmDown, vars
<1> QED BY <1>3, <1>4, <1>5, <1>6, <1>7, <1>8, <1>9, <1>10, <1>12, <1>13, <1>14
     DEF Next, Work, Environment

\* Whatever passes have written, one on top of the other, and wherever one of
\* them failed, the stored status does not contradict itself.
THEOREM StoredStatusIsCoherent == Spec => []StatusIsCoherent
<1>1. StatusInv => StatusIsCoherent
  BY DEF StatusInv, Sound, StatusIsCoherent
<1> QED BY <1>1, StatusInvInit, StatusInvNext, PTL DEF Spec

-------------------------------------------------------------------------------
(* The file storage has the size the spec and the provider ask for.        *)
(*                                                                         *)
(* The provider is read from a ConfigMap, and a read that fails counts as  *)
(* no provider: with it the size may be the wrong one (the run             *)
(* default_size).  What follows is for reads that succeed.                 *)

Sized(want, spec) ==
  /\ want.storage = IF spec.storage # 0 THEN spec.storage
                    ELSE IF Provider = "alicloud" THEN 20 ELSE 1
  /\ Provider = "alicloud" => want.storage >= 20

StorageInv ==
  /\ TypeInv
  /\ cache.spec.storage = cr.spec.storage
  /\ pc # "idle" => provider = Provider /\ obj.spec.storage = cr.spec.storage
  /\ pc = "deploy" => Sized(inst.want, cr.spec)
  /\ sts.exists => Sized(sts.want, cr.spec)

\* What passes the check of the minimum is rendered with the size it is due.
LEMMA TemplateIsSized ==
  ASSUME NEW spec \in Specs, chartLabels \subseteq Labels, provider = Provider,
         ~BelowMinimum(spec, KnownProvider)
  PROVE  Sized(Template(spec), spec)
<1>1. Provider \in {"", "alicloud"} /\ KnownProvider = Provider /\ spec.storage \in Nat
  BY ProvisionerAssumption, SpecParts DEF KnownProvider
<1>2. Template(spec).storage = ResolveFileStorageSize(spec, Provider)
  BY <1>1, TemplateType
<1>3. Provider = "alicloud" => spec.storage = 0 \/ spec.storage >= 20
  BY <1>1 DEF BelowMinimum, MinFileSizeAlicloud
<1>4. Sized(Template(spec), spec)
  <2>1. CASE spec.storage # 0
    BY <1>2, <1>3, <2>1 DEF Sized, ResolveFileStorageSize
  <2>2. CASE spec.storage = 0 /\ Provider = "alicloud"
    BY <1>2, <2>2 DEF Sized, ResolveFileStorageSize, MinFileSizeAlicloud
  <2>3. CASE spec.storage = 0 /\ Provider # "alicloud"
    BY <1>2, <2>3 DEF Sized, ResolveFileStorageSize
  <2> QED BY <2>1, <2>2, <2>3
<1> QED BY <1>4

LEMMA StorageInvInit == Init => StorageInv
<1> SUFFICES ASSUME Init PROVE StorageInv
  OBVIOUS
<1>1. cache = cr /\ pc = "idle" /\ sts.exists = FALSE
  BY DEF Init, NoStatefulSet
<1> QED BY <1>1, TypeInvInit DEF StorageInv

\* A StatefulSet that is given a template is given what was rendered.
LEMMA StatefulSetIsGiven ==
  ASSUME ObjectType, ApplyStatefulSet
  PROVE  \/ ApplyFails /\ UNCHANGED sts
         \/ Applied("StatefulSet") /\ sts'.exists /\ sts'.want = inst.want
<1>1. [NoStatefulSet EXCEPT !.exists = TRUE, !.want = inst.want].want = inst.want
      /\ [NoStatefulSet EXCEPT !.exists = TRUE, !.want = inst.want].exists = TRUE
  BY DEF NoStatefulSet
<1> DEFINE same == sts.rolled /\ sts.want = inst.want
<1>2. sts.exists => [sts EXCEPT !.want = inst.want, !.rolled = same].want = inst.want
                    /\ [sts EXCEPT !.want = inst.want, !.rolled = same].exists
  BY DEF ObjectType, StatefulSets
<1>3. \/ ApplyFails /\ sts' = sts
      \/ /\ Applied("StatefulSet")
         /\ sts' = [NoStatefulSet EXCEPT !.exists = TRUE, !.want = inst.want]
      \/ /\ Applied("StatefulSet")
         /\ sts.exists /\ sts' = [sts EXCEPT !.want = inst.want, !.rolled = same]
  BY DEF ApplyStatefulSet
<1> HIDE DEF same
<1> QED BY <1>1, <1>2, <1>3

\* The rollout and the users leave the template alone, or remove it.
LEMMA StatefulSetIsLeft ==
  ASSUME ObjectType, Rollout \/ RemoveObject \/ StripLabel \/ ChangeIstio
  PROVE  ~sts'.exists \/ (sts'.exists = sts.exists /\ sts'.want = sts.want)
<1>1. CASE Rollout
  BY <1>1 DEF Rollout, StartRollout, FinishRollout, ObjectType, StatefulSets
<1>2. CASE RemoveObject
  BY <1>2 DEF RemoveObject, NoStatefulSet
<1>3. CASE StripLabel \/ ChangeIstio
  BY <1>3 DEF StripLabel, ChangeIstio
<1> QED BY <1>1, <1>2, <1>3

LEMMA StorageInvNext ==
  ASSUME "shootinfo" \notin Disruptions
  PROVE  StorageInv /\ [Next]_vars => StorageInv'
<1> SUFFICES ASSUME StorageInv, [Next]_vars PROVE StorageInv'
  OBVIOUS
<1> USE DEF resourceVars, passVars, processVars, objectVars, seenVars, restOfProcess,
            restOfObjects
<1>1. TypeInv'
  BY TypeInvNext DEF StorageInv
<1>2. /\ cr \in Resources /\ cache \in Resources /\ cr.status \in Statuses
      /\ cache.status \in Statuses /\ ObjectType
      /\ pc # "idle" => obj \in Resources /\ obj.spec \in Specs /\ obj.status \in Statuses
      /\ chartLabels \subseteq Labels /\ provider \in {"unknown", Provider}
  BY ResourceParts DEF StorageInv, TypeInv, ResourceType, PassType, ProcessType
\* Steps in which neither the specs nor the StatefulSet change.
<1>3. ASSUME UNCHANGED <<cr, cache, sts>>, pc' = "idle" \/ UNCHANGED <<provider, inst>>,
             pc' # "idle" => pc # "idle" /\ obj'.spec = obj.spec, pc' = "deploy" => pc = "deploy"
      PROVE  StorageInv'
  BY <1>1, <1>3 DEF StorageInv
<1>4. \A status \in Statuses : pc # "idle" /\ WithStatus(status) => obj'.spec = obj.spec
  BY <1>2, WithStatusType DEF WithStatus
<1>5. ASSUME NEW message \in Messages, Fail(obj.status, message), pc # "idle"
      PROVE  pc' = "sync" /\ obj'.spec = obj.spec
  <2>1. PICK new \in Statuses : WithStatus(new)
    BY <1>2, <1>5, FailSays
  <2> QED BY <1>4, <1>5, <2>1 DEF WithStatus
<1>6. {"init-failed", "deploy-failed", "watch-failed"} \subseteq Messages
  BY DEF Messages
<1>7. CASE StartPass
  <2>1. obj' = [cache EXCEPT !.status = Initialize(@)] /\ pc' = "init"
        /\ UNCHANGED <<cr, cache, sts>>
    BY <1>7 DEF StartPass
  <2>2. obj'.spec = cache.spec
    BY <1>2, <2>1, SettersType, WithStatusType
  <2>3. provider' = Provider
    BY <1>2, <1>7 DEF StartPass, SyncCloudProvider, Allowed
  <2> QED BY <1>1, <2>1, <2>2, <2>3 DEF StorageInv
<1>8. CASE InitInstance
  <2>1. pc = "init" /\ UNCHANGED <<cr, cache, sts, provider>>
    BY <1>8 DEF InitInstance
  <2>2. CASE Fail(obj.status, "init-failed") /\ UNCHANGED inst
    BY <1>3, <1>5, <1>6, <2>1, <2>2
  <2>3. CASE /\ ~BelowMinimum(obj.spec, KnownProvider)
             /\ GenerateNATSResources(IstioExists, ~SecretExists)
             /\ pc' = "deploy" /\ UNCHANGED obj
    <3>1. inst'.want = Template(obj.spec)
      BY <2>3 DEF GenerateNATSResources
    <3>2. Sized(Template(obj.spec), obj.spec)
      BY <1>2, <2>1, <2>3, TemplateIsSized DEF StorageInv
    <3>3. Sized(inst'.want, cr.spec)
      BY <2>1, <3>1, <3>2 DEF Sized, StorageInv
    <3> QED BY <1>1, <2>1, <2>3, <3>3 DEF StorageInv
  <2> QED BY <1>8, <2>2, <2>3 DEF InitInstance
<1>9. CASE Deploy
  <2>1. pc = "deploy" /\ UNCHANGED <<cr, cache, inst, provider>>
    BY <1>9 DEF Deploy, ApplySecret, ApplyStatefulSet, ApplyDestinationRule
  <2>2. \/ UNCHANGED <<pc, obj>>
        \/ Fail(obj.status, "deploy-failed")
    BY <1>9 DEF Deploy, ApplySecret, ApplyStatefulSet, ApplyDestinationRule, Applied, ApplyFails
  <2>3. obj'.spec = obj.spec /\ pc' \in {"deploy", "sync"}
    BY <1>5, <1>6, <2>1, <2>2
  <2>4. sts' = sts \/ (sts'.exists /\ sts'.want = inst.want)
    BY <1>2, <1>9, StatefulSetIsGiven DEF Deploy, ApplySecret, ApplyDestinationRule
  <2> QED BY <1>1, <2>1, <2>3, <2>4 DEF StorageInv
<1>10. CASE WatchDestinationRule
  <2>1. pc = "deploy" /\ UNCHANGED <<cr, cache, sts, inst, provider>>
    BY <1>10 DEF WatchDestinationRule
  <2>2. (pc' = "state" /\ UNCHANGED obj) \/ Fail(obj.status, "watch-failed")
    BY <1>10 DEF WatchDestinationRule
  <2> QED BY <1>3, <1>5, <1>6, <2>1, <2>2
<1>11. CASE HandleNATSState
  <2>1. pc = "state" /\ UNCHANGED <<cr, cache, sts, inst, provider>>
    BY <1>11 DEF HandleNATSState
  <2>2. PICK new \in Statuses : WithStatus(new)
    BY <1>2, <1>11, <2>1, HandleNATSStateSays DEF StorageInv, TypeInv
  <2> QED BY <1>3, <1>4, <2>1, <2>2 DEF WithStatus
<1>12. CASE SyncStatus
  <2>1. pc = "sync" /\ pc' = "idle" /\ UNCHANGED <<cache, sts>>
    BY <1>12 DEF SyncStatus, EndPass
  <2>2. cr' = cr \/ cr' = [cr EXCEPT !.status = obj.status]
    BY <1>12 DEF SyncStatus
  <2>3. cr'.spec = cr.spec
    <3>1. obj.status \in Statuses
      BY <1>2, <2>1
    <3>2. [cr EXCEPT !.status = obj.status].spec = cr.spec
      BY <1>2, <3>1, WithStatusType
    <3> QED BY <2>2, <3>2
  <2> QED BY <1>1, <2>1, <2>3 DEF StorageInv
<1>13. CASE CacheSync
  BY <1>1, <1>13 DEF CacheSync, StorageInv
<1>14. CASE Crash
  BY <1>1, <1>14 DEF Crash, StorageInv
<1>15. CASE EditSpec
  <2>1. PICK spec \in Specs : cr' = [cr EXCEPT !.spec = spec] /\ spec.storage = cr.spec.storage
    BY <1>15 DEF EditSpec
  <2>2. cr'.spec.storage = cr.spec.storage
    BY <1>2, <2>1 DEF Resources
  <2>3. UNCHANGED <<cache, pc, obj, inst, provider, sts>>
    BY <1>15 DEF EditSpec
  <2> QED BY <1>1, <2>2, <2>3 DEF StorageInv, Sized
<1>16. CASE Rollout \/ RemoveObject \/ StripLabel \/ ChangeIstio
  <2>1. UNCHANGED <<cr, cache, pc, obj, inst, provider>>
    BY <1>16 DEF Rollout, StartRollout, FinishRollout, RemoveObject, StripLabel, ChangeIstio
  <2> QED BY <1>1, <1>2, <1>16, <2>1, StatefulSetIsLeft DEF StorageInv
<1>17. CASE SecretSync \/ StatefulSetSync \/ DestinationRuleSync \/ PodsChange \/ Resync
            \/ CalmDown \/ UNCHANGED vars
  <2>1. UNCHANGED <<cr, cache, sts, pc, obj, inst, provider>>
    BY <1>17 DEF SecretSync, StatefulSetSync, DestinationRuleSync, PodsChange, Resync,
                 CalmDown, vars
  <2> QED BY <1>3, <2>1
<1> QED BY <1>7, <1>8, <1>9, <1>10, <1>11, <1>12, <1>13, <1>14, <1>15, <1>16, <1>17
     DEF Next, Work, Environment

\* As long as the ConfigMap with the provider can be read, the StatefulSet has
\* the storage the spec asks for or the provider's default, and never less than
\* the provider's minimum.
THEOREM StorageHasItsSize ==
  ASSUME "shootinfo" \notin Disruptions
  PROVE  Spec => []StorageIsSized
<1>1. StorageInv => StorageIsSized
  BY DEF StorageInv, Sized, StorageIsSized
<1> QED BY <1>1, StorageInvInit, StorageInvNext, PTL DEF Spec

-------------------------------------------------------------------------------
(* What holds at rest.                                                     *)
(*                                                                         *)
(* The controller is at rest when no pass runs, the key is not queued and  *)
(* the informers have delivered.  Whatever could make a finished pass      *)
(* obsolete queues the key; so while the key is not queued, each step of   *)
(* the pass has left behind what the steps after it rely on, and a pass    *)
(* that ends without being due again has left all of it.                   *)

\* An applied Secret is on its way to the informer, or there.
SecretKnown == secretSeen \/ "Secret" \in behind

Fits(want, spec) == want.size = spec.size /\ spec.labels \subseteq want.labels

Deployed(spec) == SecretKnown /\ (sts.exists => Fits(sts.want, spec))

IsTruth(status, spec) ==
  /\ stsSeen.exists /\ stsSeen.counters = stsSeen.want.size
  /\ status.state = IF /\ podZones.labelled
                       /\ spec.size >= MinClusterSize
                       /\ podZones.used # spec.size
                    THEN "Warning" ELSE "Ready"
  /\ status.zones = IF podZones.labelled THEN podZones.used ELSE 0
  /\ gauges.size = spec.size /\ gauges.zones = status.zones

\* The informers have what they are not behind with.
InformersAgree ==
  /\ fresh => cache = cr
  /\ unlabelled \subseteq {"Secret", "StatefulSet"}
  /\ "Secret" \notin behind => secretSeen = SecretListed
  /\ "StatefulSet" \notin behind => stsSeen = StatefulSetListed

PassIsCurrent ==
  pc # "idle" => obj.spec = cache.spec /\ gauges.size = obj.spec.size

DeployingInOrder ==
  pc = "deploy" =>
    /\ Fits(inst.want, obj.spec)
    /\ "Secret" \in todo \/ SecretKnown
    /\ "StatefulSet" \in todo \/ ~sts.exists \/ Fits(sts.want, obj.spec)

WorkIsDone ==
  /\ pc = "state" => Deployed(obj.spec)
  /\ pc = "sync" => Unfinished \/ (Deployed(obj.spec) /\ IsTruth(obj.status, obj.spec))
  /\ pc = "idle" /\ fresh => Deployed(cr.spec) /\ IsTruth(cr.status, cr.spec)

NothingMissed == PassIsCurrent /\ DeployingInOrder /\ WorkIsDone

SettledInv == TypeInv /\ InformersAgree /\ (~queued => NothingMissed)

Kept(kind) == kind \in behind => kind \in behind'

LEMMA InformersAgreeInit == Init => InformersAgree
BY DEF Init, InformersAgree, SecretListed, StatefulSetListed, NoStatefulSet

LEMMA ListedDiffer ==
  ASSUME SeenType, InformersAgree, "StatefulSet" \notin behind, stsSeen.exists
  PROVE  stsSeen = sts /\ "StatefulSet" \notin unlabelled
<1>1. NoStatefulSet.exists = FALSE
  BY DEF NoStatefulSet
<1> QED BY <1>1 DEF InformersAgree, StatefulSetListed

LEMMA SettledInvImplies ==
  ASSUME SettledInv, Settled
  PROVE  /\ SecretListed /\ stsSeen = sts /\ sts.exists /\ unlabelled = {}
         /\ Fits(sts.want, cr.spec) /\ IsTruth(cr.status, cr.spec)
<1>1. Deployed(cr.spec) /\ IsTruth(cr.status, cr.spec)
  BY DEF SettledInv, Settled, NothingMissed, WorkIsDone
<1>2. "Secret" \notin behind /\ "StatefulSet" \notin behind
  BY DEF Settled
<1>3. SecretListed
  BY <1>1, <1>2 DEF Deployed, SecretKnown, SettledInv, InformersAgree
<1>4. stsSeen = sts /\ "StatefulSet" \notin unlabelled
  BY <1>1, <1>2, ListedDiffer DEF IsTruth, SettledInv, TypeInv
<1>5. "Secret" \notin unlabelled
  BY <1>3 DEF SecretListed
<1>6. unlabelled = {}
  BY <1>4, <1>5 DEF SettledInv, InformersAgree
<1> QED BY <1>1, <1>3, <1>4, <1>6 DEF Deployed, IsTruth

\* A change of an object either goes on its way to the informer or is of an
\* object the informer does not list.
LEMMA InformersAgreeNext ==
  ASSUME TypeInv, InformersAgree, [Next]_vars
  PROVE  InformersAgree'
<1> USE DEF resourceVars, passVars, processVars, objectVars, seenVars, restOfProcess,
            restOfObjects
<1>1. ASSUME UNCHANGED <<cr, cache, fresh, secret, sts, unlabelled, secretSeen, stsSeen>>,
             Kept("Secret"), Kept("StatefulSet")
      PROVE  InformersAgree'
  BY <1>1 DEF InformersAgree, SecretListed, StatefulSetListed, Kept
<1>2. ASSUME UNCHANGED <<secret, sts, unlabelled, secretSeen, stsSeen, behind>>,
             fresh' => cache' = cr'
      PROVE  InformersAgree'
  BY <1>2 DEF InformersAgree, SecretListed, StatefulSetListed
<1>3. CASE StartPass \/ InitInstance \/ HandleNATSState
  BY <1>1, <1>3 DEF StartPass, InitInstance, HandleNATSState, Kept
<1>4. CASE ApplySecret
  <2>1. UNCHANGED <<cr, cache, fresh, sts, secretSeen, stsSeen>>
    BY <1>4 DEF ApplySecret
  <2>2. \/ behind' = behind \cup {"Secret"} /\ unlabelled' = unlabelled \ {"Secret"}
        \/ UNCHANGED <<secret, behind, unlabelled>>
    BY <1>4 DEF ApplySecret, AppliedChange
  <2> QED BY <2>1, <2>2 DEF InformersAgree, SecretListed, StatefulSetListed
<1>5. CASE ApplyStatefulSet
  <2>1. UNCHANGED <<cr, cache, fresh, secret, secretSeen, stsSeen>>
    BY <1>5 DEF ApplyStatefulSet
  <2>2. \/ behind' = behind \cup {"StatefulSet"} /\ unlabelled' = unlabelled \ {"StatefulSet"}
        \/ UNCHANGED <<sts, behind, unlabelled>>
    BY <1>5 DEF ApplyStatefulSet, AppliedChange
  <2> QED BY <2>1, <2>2 DEF InformersAgree, SecretListed, StatefulSetListed
<1>6. CASE ApplyDestinationRule
  BY <1>1, <1>6 DEF ApplyDestinationRule, Changed, Kept
<1>7. CASE WatchDestinationRule
  <2>1. behind' = behind \/ behind' = behind \ {"DestinationRule"}
    BY <1>7 DEF WatchDestinationRule
  <2>2. UNCHANGED <<cr, cache, fresh, secret, sts, unlabelled, secretSeen, stsSeen>>
    BY <1>7 DEF WatchDestinationRule
  <2> QED BY <1>1, <2>1, <2>2 DEF Kept
<1>8. CASE SyncStatus
  <2>1. fresh' = FALSE \/ UNCHANGED <<cr, fresh>>
    BY <1>8 DEF SyncStatus
  <2>2. UNCHANGED <<cache, secret, sts, unlabelled, secretSeen, stsSeen, behind>>
    BY <1>8 DEF SyncStatus
  <2> QED BY <1>2, <2>1, <2>2 DEF InformersAgree
<1>9. CASE CacheSync
  BY <1>2, <1>9 DEF CacheSync
<1>10. CASE SecretSync
  <2>1. /\ UNCHANGED <<cr, cache, fresh, secret, sts, unlabelled, stsSeen>>
        /\ secretSeen' = SecretListed /\ behind' = behind \ {"Secret"}
    BY <1>10 DEF SecretSync, Delivered
  <2> QED BY <2>1 DEF InformersAgree, SecretListed, StatefulSetListed
<1>11. CASE StatefulSetSync
  <2>1. /\ UNCHANGED <<cr, cache, fresh, secret, sts, unlabelled, secretSeen>>
        /\ stsSeen' = StatefulSetListed /\ behind' = behind \ {"StatefulSet"}
    BY <1>11 DEF StatefulSetSync, Delivered
  <2> QED BY <2>1 DEF InformersAgree, SecretListed, StatefulSetListed
<1>12. CASE DestinationRuleSync
  BY <1>1, <1>12 DEF DestinationRuleSync, Delivered, Kept
<1>13. CASE PodsChange \/ Resync
  BY <1>1, <1>13 DEF PodsChange, Resync, Kept
<1>14. CASE Rollout
  <2>1. UNCHANGED <<cr, cache, fresh, secret, secretSeen, stsSeen, unlabelled>>
    BY <1>14 DEF Rollout, StartRollout, FinishRollout
  <2>2. behind' = IF "StatefulSet" \in unlabelled THEN behind ELSE behind \cup {"StatefulSet"}
    BY <1>14 DEF Rollout, StartRollout, FinishRollout, Changed
  <2> QED BY <2>1, <2>2 DEF InformersAgree, SecretListed, StatefulSetListed
<1>15. CASE EditSpec
  <2>1. fresh' = FALSE /\ UNCHANGED <<secret, sts, unlabelled, secretSeen, stsSeen, behind>>
    BY <1>15 DEF EditSpec
  <2> QED BY <1>2, <2>1
<1>16. CASE RemoveObject
  <2>1. UNCHANGED <<cr, cache, fresh, secretSeen, stsSeen>>
    BY <1>16 DEF RemoveObject
  <2>2. CASE /\ secret' = 0 /\ Changed("Secret") /\ unlabelled' = unlabelled \ {"Secret"}
             /\ UNCHANGED <<sts, dr>>
    BY <2>1, <2>2 DEF Changed, InformersAgree, SecretListed, StatefulSetListed
  <2>3. CASE /\ sts' = NoStatefulSet /\ Changed("StatefulSet")
             /\ unlabelled' = unlabelled \ {"StatefulSet"} /\ UNCHANGED <<secret, dr>>
    BY <2>1, <2>3 DEF Changed, InformersAgree, SecretListed, StatefulSetListed
  <2>4. CASE Changed("DestinationRule") /\ UNCHANGED <<secret, sts, unlabelled>>
    BY <1>1, <2>1, <2>4 DEF Changed, Kept
  <2> QED BY <1>16, <2>2, <2>3, <2>4 DEF RemoveObject
<1>17. CASE StripLabel
  <2>1. UNCHANGED <<cr, cache, fresh, secret, sts, secretSeen, stsSeen>>
    BY <1>17 DEF StripLabel
  <2>2. PICK kind \in {"Secret", "StatefulSet"} \ unlabelled :
          unlabelled' = unlabelled \cup {kind} /\ behind' = behind \cup {kind}
    BY <1>17 DEF StripLabel, Changed
  <2> QED BY <2>1, <2>2 DEF InformersAgree, SecretListed, StatefulSetListed
<1>18. CASE ChangeIstio
  BY <1>1, <1>18 DEF ChangeIstio, Changed, Kept
<1>19. CASE Crash
  <2>1. /\ cache' = cr /\ UNCHANGED <<cr, secret, sts, unlabelled>>
        /\ secretSeen' = SecretListed /\ stsSeen' = StatefulSetListed
    BY <1>19 DEF Crash
  <2> QED BY <2>1 DEF InformersAgree, SecretListed, StatefulSetListed
<1>20. CASE CalmDown \/ UNCHANGED vars
  BY <1>1, <1>20 DEF CalmDown, vars, Kept
<1> QED BY <1>3, <1>4, <1>5, <1>6, <1>7, <1>8, <1>9, <1>10, <1>11, <1>12, <1>13, <1>14,
           <1>15, <1>16, <1>17, <1>18, <1>19, <1>20
     DEF Next, Work, Deploy, Environment

\* What the rest of the system does to a pass that goes on.
LEMMA LeftAlone ==
  ASSUME NothingMissed, Kept("Secret"),
         UNCHANGED <<cache, obj, pc, inst, todo, gauges, stsSeen, podZones, secretSeen>>,
         ~sts'.exists \/ (sts'.exists = sts.exists /\ sts'.want = sts.want),
         fresh' => fresh /\ cr' = cr
  PROVE  NothingMissed'
<1>1. PassIsCurrent'
  BY DEF NothingMissed, PassIsCurrent
<1>2. SecretKnown => SecretKnown'
  BY DEF SecretKnown, Kept
<1>3. \A spec : Deployed(spec) => Deployed(spec)'
  BY <1>2 DEF Deployed
<1>4. DeployingInOrder'
  BY <1>2 DEF NothingMissed, DeployingInOrder
<1>5. \A status, spec : IsTruth(status, spec) <=> IsTruth(status, spec)'
  BY DEF IsTruth
<1>6. Unfinished' <=> Unfinished
  BY DEF Unfinished
<1>7. WorkIsDone'
  BY <1>3, <1>5, <1>6 DEF NothingMissed, WorkIsDone
<1> QED BY <1>1, <1>4, <1>7 DEF NothingMissed

\* A pass that has failed comes back.
LEMMA FailedComesBack ==
  ASSUME obj \in Resources, NEW new \in Statuses, WithStatus(new),
         new.state \in {"Error", "Processing"},
         PassIsCurrent, pc # "idle", UNCHANGED cache, gauges'.size = gauges.size
  PROVE  NothingMissed'
<1>1. obj'.spec = obj.spec /\ obj'.status = new
  BY WithStatusType DEF WithStatus
<1>2. pc' = "sync"
  BY DEF WithStatus
<1>3. PassIsCurrent'
  BY <1>1 DEF PassIsCurrent
<1>4. Unfinished'
  BY <1>1 DEF Unfinished
<1> QED BY <1>2, <1>3, <1>4 DEF NothingMissed, DeployingInOrder, WorkIsDone

LEMMA FailComesBack ==
  ASSUME obj \in Resources, NEW message \in Messages, Fail(obj.status, message),
         PassIsCurrent, pc # "idle", UNCHANGED <<cache, gauges>>
  PROVE  NothingMissed'
<1>1. obj.status \in Statuses
  BY ResourceParts
<1>2. PICK new \in Statuses : WithStatus(new) /\ SaysFailed(new, obj.status)
  BY <1>1, FailSays
<1> QED BY <1>2, FailedComesBack DEF SaysFailed

LEMMA StartPassMissesNothing ==
  ASSUME TypeInv, StartPass
  PROVE  NothingMissed'
<1>1. cache \in Resources /\ Initialize(cache.status) \in Statuses
  BY ResourceParts, SettersType DEF TypeInv, ResourceType
<1>2. pc' = "init" /\ UNCHANGED cache
  BY DEF StartPass, resourceVars
<1>3. obj' = [cache EXCEPT !.status = Initialize(cache.status)]
  BY DEF StartPass
<1>4. obj'.spec = cache.spec
  BY <1>1, <1>3, WithStatusType
<1>5. gauges' = [gauges EXCEPT !.size = cache.spec.size]
  BY DEF StartPass, RecordClusterSizeMetric
<1>6. gauges'.size = cache.spec.size
  BY <1>5 DEF TypeInv, ProcessType
<1> QED BY <1>2, <1>4, <1>6 DEF NothingMissed, PassIsCurrent, DeployingInOrder, WorkIsDone

LEMMA InitInstanceMissesNothing ==
  ASSUME TypeInv, NothingMissed, InitInstance
  PROVE  NothingMissed'
<1>1. pc = "init" /\ obj \in Resources /\ obj.spec \in Specs
  BY ResourceParts DEF InitInstance, TypeInv, PassType
<1>2. UNCHANGED <<cache, sts, gauges, secretSeen, behind>>
  BY DEF InitInstance, resourceVars, objectVars, seenVars
<1>3. CASE Fail(obj.status, "init-failed")
  <2>1. "init-failed" \in Messages
    BY DEF Messages
  <2> QED BY <1>1, <1>2, <1>3, <2>1, FailComesBack DEF NothingMissed
<1>4. CASE GenerateNATSResources(IstioExists, ~SecretExists)
           /\ pc' = "deploy" /\ UNCHANGED obj
  <2>1. inst'.want = Template(obj.spec)
    BY <1>4 DEF GenerateNATSResources
  <2>2. Fits(Template(obj.spec), obj.spec)
    BY <1>1, TemplateType DEF Fits, TypeInv, ProcessType
  <2>3. "StatefulSet" \in todo'
    BY <1>4 DEF GenerateNATSResources, Rendered, Kinds
  <2>4. secretSeen \/ "Secret" \in todo'
    BY <1>4 DEF GenerateNATSResources, Rendered, Kinds, SecretExists
  <2>5. PassIsCurrent'
    BY <1>1, <1>2, <1>4 DEF NothingMissed, PassIsCurrent
  <2>6. DeployingInOrder'
    BY <1>2, <1>4, <2>1, <2>2, <2>3, <2>4 DEF DeployingInOrder, Fits, SecretKnown
  <2> QED BY <1>4, <2>5, <2>6 DEF NothingMissed, WorkIsDone
<1> QED BY <1>3, <1>4 DEF InitInstance

LEMMA DeployMissesNothing ==
  ASSUME TypeInv, NothingMissed, Deploy
  PROVE  NothingMissed'
<1> USE DEF resourceVars, processVars
<1>1. /\ pc = "deploy" /\ UNCHANGED <<cache, inst, gauges, secretSeen>>
      /\ obj \in Resources /\ "deploy-failed" \in Messages
  BY DEF Deploy, ApplySecret, ApplyStatefulSet, ApplyDestinationRule, TypeInv, PassType,
         Messages
<1>2. CASE ApplyFails
  BY <1>1, <1>2, FailComesBack DEF ApplyFails, NothingMissed
\* An object that has been applied is as the instance wants it.
<1>3. ASSUME NEW kind \in Kinds, Applied(kind),
             kind = "Secret" => "Secret" \in behind',
             behind \subseteq behind',
             \/ kind # "StatefulSet" /\ sts' = sts
             \/ sts'.exists /\ sts'.want = inst.want
      PROVE  NothingMissed'
  <2>1. todo' = todo \ {kind} /\ pc' = "deploy" /\ obj' = obj
    BY <1>1, <1>3 DEF Applied
  <2>2. PassIsCurrent'
    BY <1>1, <2>1 DEF NothingMissed, PassIsCurrent
  <2>3. DeployingInOrder
    BY DEF NothingMissed
  <2>4. "Secret" \in todo' \/ SecretKnown'
    BY <1>1, <1>3, <2>1, <2>3 DEF DeployingInOrder, SecretKnown
  <2>5. "StatefulSet" \in todo' \/ ~sts'.exists \/ Fits(sts'.want, obj.spec)
    BY <1>1, <1>3, <2>1, <2>3 DEF DeployingInOrder
  <2>6. DeployingInOrder'
    BY <1>1, <2>1, <2>3, <2>4, <2>5 DEF DeployingInOrder, Fits
  <2> QED BY <2>1, <2>2, <2>6 DEF NothingMissed, WorkIsDone
<1>4. CASE ApplySecret
  <2>1. ApplyFails \/ (AppliedChange("Secret") /\ Applied("Secret"))
    BY <1>4 DEF ApplySecret
  <2>2. sts' = sts
    BY <1>4 DEF ApplySecret
  <2> QED BY <1>2, <1>3, <2>1, <2>2 DEF AppliedChange, Kinds
<1>5. CASE ApplyStatefulSet
  <2>1. behind \subseteq behind'
    BY <1>5 DEF ApplyStatefulSet, AppliedChange
  <2> QED BY <1>2, <1>3, <1>5, <2>1, StatefulSetIsGiven DEF Kinds, TypeInv
<1>6. CASE ApplyDestinationRule
  <2>1. /\ ApplyFails \/ Applied("DestinationRule")
        /\ behind \subseteq behind' /\ sts' = sts
    BY <1>6 DEF ApplyDestinationRule, Changed
  <2> QED BY <1>2, <1>3, <2>1 DEF Kinds
<1> QED BY <1>4, <1>5, <1>6 DEF Deploy

LEMMA WatchMissesNothing ==
  ASSUME TypeInv, NothingMissed, WatchDestinationRule
  PROVE  NothingMissed'
<1>1. /\ pc = "deploy" /\ todo = {}
      /\ UNCHANGED <<cache, sts, gauges, secretSeen>>
      /\ obj \in Resources /\ "watch-failed" \in Messages
  BY DEF WatchDestinationRule, resourceVars, objectVars, TypeInv, PassType, Messages
<1>2. CASE Fail(obj.status, "watch-failed")
  BY <1>1, <1>2, FailComesBack DEF NothingMissed
<1>3. CASE pc' = "state" /\ UNCHANGED obj
  <2>1. behind' = behind \/ behind' = behind \ {"DestinationRule"}
    BY DEF WatchDestinationRule
  <2>2. PassIsCurrent'
    BY <1>1, <1>3 DEF NothingMissed, PassIsCurrent
  <2>3. SecretKnown /\ (sts.exists => Fits(sts.want, obj.spec))
    BY <1>1 DEF NothingMissed, DeployingInOrder
  <2>4. Deployed(obj.spec)'
    BY <1>1, <1>3, <2>1, <2>3 DEF Deployed, SecretKnown, Fits
  <2> QED BY <1>3, <2>2, <2>4 DEF NothingMissed, DeployingInOrder, WorkIsDone
<1> QED BY <1>2, <1>3 DEF WatchDestinationRule

LEMMA HandleNATSStateMissesNothing ==
  ASSUME TypeInv, NothingMissed, HandleNATSState
  PROVE  NothingMissed'
<1>1. /\ pc = "state" /\ obj \in Resources /\ obj.status \in Statuses
      /\ UNCHANGED <<cache, sts, stsSeen, podZones, secretSeen, behind>>
  BY ResourceParts DEF HandleNATSState, resourceVars, objectVars, seenVars, TypeInv, PassType
<1>2. PICK new \in Statuses :
        WithStatus(new) /\ (FailedReport(new) \/ WaitingReport(new) \/ ReadyReport(new))
  BY <1>1, HandleNATSStateSays DEF TypeInv
<1>3. Counted(new) => gauges'.size = gauges.size /\ gauges'.zones = new.zones
  BY DEF Counted, TypeInv, ProcessType
<1>4. CASE FailedReport(new)
  <2>1. new.state = "Error" /\ gauges'.size = gauges.size
    BY <1>4 DEF FailedReport, SaysFailed
  <2> QED BY <1>1, <1>2, <2>1, FailedComesBack DEF NothingMissed
<1>5. CASE WaitingReport(new)
  <2>1. new.state = "Processing" /\ gauges'.size = gauges.size
    BY <1>3, <1>5 DEF WaitingReport, SaysWaiting
  <2> QED BY <1>1, <1>2, <2>1, FailedComesBack DEF NothingMissed
<1>6. CASE ReadyReport(new)
  <2>1. PICK state \in States, status \in {"True", "False"} :
          /\ Verdict(state, status, new.zones)
          /\ SaysReady(new, obj.status, state, status, new.zones)
    BY <1>6 DEF ReadyReport
  <2>2. new.state = state /\ gauges'.size = gauges.size /\ gauges'.zones = new.zones
    BY <1>3, <1>6, <2>1 DEF ReadyReport, SaysReady
  <2>3. CASE state = "Error"
    BY <1>1, <1>2, <2>2, <2>3, FailedComesBack DEF NothingMissed
  <2>4. CASE state # "Error"
    <3>1. obj'.spec = obj.spec /\ obj'.status = new /\ pc' = "sync"
      BY <1>1, <1>2, WithStatusType DEF WithStatus
    <3>2. obj.spec = cache.spec /\ gauges.size = obj.spec.size
      BY <1>1 DEF NothingMissed, PassIsCurrent
    <3>3. PassIsCurrent'
      BY <1>1, <2>2, <3>1, <3>2 DEF PassIsCurrent
    <3>4. Deployed(obj.spec)
      BY <1>1 DEF NothingMissed, WorkIsDone
    <3>5. (Deployed(obj.spec))'
      BY <1>1, <3>1, <3>4 DEF Deployed, SecretKnown, Fits
    <3>6. stsSeen.exists /\ stsSeen.counters = stsSeen.want.size
      BY <1>6 DEF ReadyReport, StatefulSetFound, IsNATSStatefulSetReady
    <3>7. /\ new.state = IF /\ podZones.labelled
                             /\ obj.spec.size >= MinClusterSize
                             /\ podZones.used # obj.spec.size
                          THEN "Warning" ELSE "Ready"
          /\ new.zones = IF podZones.labelled THEN podZones.used ELSE 0
      <4>1. obj.spec.size \in Nat
        BY <1>1, ResourceParts, SpecParts
      <4> QED BY <2>1, <2>2, <2>4, <4>1 DEF Verdict, MinClusterSize
    <3>8. IsTruth(obj.status, obj.spec)'
      BY <1>1, <2>2, <3>1, <3>2, <3>6, <3>7 DEF IsTruth
    <3> QED BY <3>1, <3>3, <3>5, <3>8 DEF NothingMissed, DeployingInOrder, WorkIsDone
  <2> QED BY <2>3, <2>4
<1> QED BY <1>2, <1>4, <1>5, <1>6

LEMMA SyncStatusMissesNothing ==
  ASSUME TypeInv, InformersAgree, ~queued => NothingMissed, SyncStatus, ~queued'
  PROVE  NothingMissed'
<1>1. /\ pc = "sync" /\ pc' = "idle"
      /\ UNCHANGED <<cache, sts, stsSeen, gauges, podZones, secretSeen, behind>>
      /\ obj.status \in Statuses /\ cache.status \in Statuses
  BY ResourceParts DEF SyncStatus, EndPass, processVars, objectVars, seenVars, TypeInv, PassType,
                       ResourceType
<1>2. \/ IsEqual(cache.status, obj.status) /\ EndPass(Unfinished) /\ UNCHANGED <<cr, fresh>>
      \/ fresh' = FALSE /\ EndPass(Unfinished)
      \/ EndPass(TRUE)
  BY DEF SyncStatus
<1>3. EndPass(Unfinished) /\ ~queued /\ ~Unfinished
  BY <1>2 DEF EndPass
<1>4. /\ obj.spec = cache.spec
      /\ Deployed(obj.spec) /\ IsTruth(obj.status, obj.spec)
  BY <1>1, <1>3 DEF NothingMissed, PassIsCurrent, WorkIsDone
<1>5. ASSUME fresh'
      PROVE  Deployed(cr.spec)' /\ IsTruth(cr.status, cr.spec)'
  <2>1. IsEqual(cache.status, obj.status) /\ UNCHANGED <<cr, fresh>>
    BY <1>2, <1>5 DEF EndPass
  <2>2. cr = cache /\ cache.status = obj.status
    BY <1>1, <1>5, <2>1, EqualStatuses DEF InformersAgree
  <2>3. Deployed(cr.spec)'
    BY <1>1, <1>4, <2>1, <2>2 DEF Deployed, SecretKnown, Fits
  <2>4. IsTruth(cr.status, cr.spec)'
    BY <1>1, <1>4, <2>1, <2>2 DEF IsTruth
  <2> QED BY <2>3, <2>4
<1> QED BY <1>1, <1>5 DEF NothingMissed, PassIsCurrent, DeployingInOrder, WorkIsDone

\* What brings the resource back into the queue need not be seen by the pass.
LEMMA SettledInvNext == SettledInv /\ [Next]_vars => SettledInv'
<1> SUFFICES ASSUME SettledInv, [Next]_vars, ~queued' PROVE NothingMissed'
  BY TypeInvNext, InformersAgreeNext DEF SettledInv
<1> USE DEF resourceVars, passVars, processVars, objectVars, seenVars, restOfProcess,
            restOfObjects
<1>1. TypeInv /\ InformersAgree /\ (~queued => NothingMissed)
  BY DEF SettledInv
<1>2. CASE StartPass
  BY <1>1, <1>2, StartPassMissesNothing
<1>3. CASE InitInstance
  <2>1. ~queued
    BY <1>3 DEF InitInstance
  <2> QED BY <1>1, <1>3, <2>1, InitInstanceMissesNothing
<1>4. CASE Deploy
  <2>1. ~queued
    BY <1>4 DEF Deploy, ApplySecret, ApplyStatefulSet, ApplyDestinationRule
  <2> QED BY <1>1, <1>4, <2>1, DeployMissesNothing
<1>5. CASE WatchDestinationRule
  <2>1. ~queued
    BY <1>5 DEF WatchDestinationRule
  <2> QED BY <1>1, <1>5, <2>1, WatchMissesNothing
<1>6. CASE HandleNATSState
  <2>1. ~queued
    BY <1>6 DEF HandleNATSState
  <2> QED BY <1>1, <1>6, <2>1, HandleNATSStateMissesNothing
<1>7. CASE SyncStatus
  BY <1>1, <1>7, SyncStatusMissesNothing
<1>8. CASE CacheSync \/ SecretSync \/ StatefulSetSync \/ PodsChange \/ Resync \/ Crash
  <2>1. queued' = TRUE
    BY <1>8 DEF CacheSync, SecretSync, StatefulSetSync, PodsChange, Resync, Crash
  <2> QED BY <2>1
<1>9. CASE DestinationRuleSync
  <2>1. /\ ~queued /\ Kept("Secret") /\ sts' = sts
        /\ UNCHANGED <<cr, fresh, cache, obj, pc, inst, todo, gauges, stsSeen, podZones,
                       secretSeen>>
    BY <1>9 DEF DestinationRuleSync, Delivered, Kept
  <2> QED BY <1>1, <2>1, LeftAlone
<1>10. CASE Rollout \/ RemoveObject \/ StripLabel \/ ChangeIstio
  <2>1. UNCHANGED <<cr, fresh, queued, cache, obj, pc, inst, todo, gauges, stsSeen, podZones,
                    secretSeen>>
    BY <1>10 DEF Rollout, StartRollout, FinishRollout, RemoveObject, StripLabel, ChangeIstio
  <2>2. Kept("Secret")
    BY <1>10 DEF Rollout, StartRollout, FinishRollout, RemoveObject, StripLabel, ChangeIstio,
                 Changed, Kept
  <2>3. ~sts'.exists \/ (sts'.exists = sts.exists /\ sts'.want = sts.want)
    BY <1>1, <1>10, StatefulSetIsLeft DEF TypeInv
  <2> QED BY <1>1, <2>1, <2>2, <2>3, LeftAlone
<1>11. CASE EditSpec
  <2>1. /\ fresh' = FALSE /\ Kept("Secret")
        /\ UNCHANGED <<queued, cache, obj, pc, inst, todo, gauges, stsSeen, podZones,
                       secretSeen, sts>>
    BY <1>11 DEF EditSpec, Kept
  <2> QED BY <1>1, <2>1, LeftAlone
<1>12. CASE CalmDown \/ UNCHANGED vars
  <2>1. /\ UNCHANGED <<cr, fresh, queued, cache, obj, pc, inst, todo, gauges, stsSeen,
                       podZones, secretSeen, sts>>
        /\ Kept("Secret")
    BY <1>12 DEF CalmDown, vars, Kept
  <2> QED BY <1>1, <2>1, LeftAlone
<1> QED BY <1>2, <1>3, <1>4, <1>5, <1>6, <1>7, <1>8, <1>9, <1>10, <1>11, <1>12
     DEF Next, Work, Environment

LEMMA SettledInvInit == Init => SettledInv
BY TypeInvInit, InformersAgreeInit DEF Init, SettledInv

LEMMA SettledInvHolds == Spec => []SettledInv
BY SettledInvInit, SettledInvNext, PTL DEF Spec

\* At rest the objects exist as the resource asks for them, the informers have
\* them, and all of them are labelled, whoever removed, relabelled or edited what,
\* and whichever step of a pass it came between.
THEOREM SettledMeansDeployed == Spec => []SettledObjectsExist
<1>1. SettledInv => SettledObjectsExist
  BY SettledInvImplies DEF SettledObjectsExist, SecretListed, Fits
<1> QED BY <1>1, SettledInvHolds, PTL

\* At rest the stored status is the truth about the spec, the StatefulSet and the
\* zones, although the pass may skip its write and compares with an old copy.
THEOREM SettledMeansTrue == Spec => []SettledStatusIsTrue
<1>1. SettledInv => SettledStatusIsTrue
  <2> SUFFICES ASSUME SettledInv, Settled
               PROVE  /\ sts.counters = sts.want.size
                      /\ cr.status.state = IF /\ podZones.labelled
                                              /\ cr.spec.size >= MinClusterSize
                                              /\ podZones.used # cr.spec.size
                                           THEN "Warning" ELSE "Ready"
                      /\ cr.status.zones = IF podZones.labelled THEN podZones.used ELSE 0
    BY DEF SettledStatusIsTrue
  <2>1. stsSeen = sts /\ IsTruth(cr.status, cr.spec)
    BY SettledInvImplies
  <2> QED BY <2>1 DEF IsTruth
<1> QED BY <1>1, SettledInvHolds, PTL

\* At rest the exported values are those of the spec and of the stored status.
THEOREM SettledMeansExported == Spec => []SettledGauges
<1>1. SettledInv => SettledGauges
  <2> SUFFICES ASSUME SettledInv, Settled
               PROVE  gauges = [size |-> cr.spec.size, zones |-> cr.status.zones]
    BY DEF SettledGauges
  <2>1. gauges.size = cr.spec.size /\ gauges.zones = cr.status.zones
    BY SettledInvImplies DEF IsTruth
  <2>2. gauges = [size |-> gauges.size, zones |-> gauges.zones]
    BY DEF SettledInv, TypeInv, ProcessType
  <2> QED BY <2>1, <2>2
<1> QED BY <1>1, SettledInvHolds, PTL

===============================================================================
