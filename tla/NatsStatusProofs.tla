--------------------------- MODULE NatsStatusProofs ---------------------------
(***************************************************************************)
(* Lemmas about the operations on the status, for the proofs about the     *)
(* modules that work with it.                                              *)
(***************************************************************************)
EXTENDS NatsStatus, TLAPS

LEMMA UpdateConditionType ==
  ASSUME NEW ns \in Statuses, NEW type \in ConditionTypes,
         NEW status \in {"", "True", "False"},
         NEW reason \in Reasons, NEW message \in Messages
  PROVE  UpdateCondition(ns, type, status, reason, message) \in Statuses
BY DEF UpdateCondition, Statuses, Conditions

LEMMA SetStateType ==
  ASSUME NEW ns \in Statuses, NEW state \in States
  PROVE  SetState(ns, state) \in Statuses
BY DEF SetState, Statuses

LEMMA NewStatusType == NewStatus \in Statuses
<1>1. Unset \in Conditions
  BY DEF Unset, Conditions, Reasons, Messages
<1>2. [t \in ConditionTypes |-> Unset] \in [ConditionTypes -> Conditions]
  BY <1>1
<1>3. "" \in States /\ "" \in {"", ServiceURL} /\ 0 \in Nat
  BY DEF States
<1> QED BY <1>2, <1>3 DEF NewStatus, Statuses

\* Every setter the handlers use yields a status.
LEMMA SettersType ==
  ASSUME NEW ns \in Statuses
  PROVE  /\ SetStateWarning(ns) \in Statuses
         /\ SetStateDeleting(ns) \in Statuses
         /\ SetStateReady(ns) \in Statuses
         /\ SetWaitingStateForStatefulSet(ns) \in Statuses
         /\ SetStateError(ns) \in Statuses
         /\ Initialize(ns) \in Statuses
         /\ ClearURL(ns) \in Statuses
         /\ \A url \in {"", ServiceURL} : SetURL(ns, url) \in Statuses
<1>1. /\ "Available" \in ConditionTypes
      /\ "StatefulSet" \in ConditionTypes
      /\ "AvailabilityZones" \in ConditionTypes
  BY DEF ConditionTypes
<1>2. \A s \in {"Ready", "Processing", "Error", "Warning", "Deleting"} : SetState(ns, s) \in Statuses
  BY SetStateType DEF States
<1>3. SetStateWarning(ns) \in Statuses /\ SetStateDeleting(ns) \in Statuses
  BY <1>2 DEF SetStateWarning, SetStateDeleting
<1>4. SetStateReady(ns) \in Statuses
  BY <1>1, <1>2, UpdateConditionType
     DEF Reasons, Messages, SetStateReady, UpdateConditionAvailable, UpdateConditionStatefulSet
<1>5. SetWaitingStateForStatefulSet(ns) \in Statuses
  BY <1>1, <1>2, UpdateConditionType
     DEF Reasons, Messages, SetWaitingStateForStatefulSet, UpdateConditionAvailable,
         UpdateConditionStatefulSet, UpdateConditionAvailabilityZones
<1>6. SetStateError(ns) \in Statuses /\ Initialize(ns) \in Statuses
  BY <1>1, <1>2, UpdateConditionType
     DEF Reasons, Messages, SetStateError, Initialize, UpdateConditionAvailable, UpdateConditionStatefulSet
<1>7. ClearURL(ns) \in Statuses /\ \A url \in {"", ServiceURL} : SetURL(ns, url) \in Statuses
  BY DEF ClearURL, SetURL, Statuses
<1> QED BY <1>3, <1>4, <1>5, <1>6, <1>7

-------------------------------------------------------------------------------
(* What the operations say, part by part.                                  *)

\* new is ns with another entry for one type of condition.
WithCondition(new, ns, type, status, reason) ==
  /\ new.state = ns.state /\ new.url = ns.url /\ new.zones = ns.zones
  /\ FindCondition(new, type).status = status
  /\ FindCondition(new, type).reason = reason
  /\ \A t \in ConditionTypes \ {type} : FindCondition(new, t) = FindCondition(ns, t)

\* new is ns with another state, URL and number of zones.
WithParts(new, ns, state, url, zones) ==
  /\ new.state = state /\ new.url = url /\ new.zones = zones
  /\ \A t \in ConditionTypes : FindCondition(new, t) = FindCondition(ns, t)

LEMMA UpdateConditionSays ==
  ASSUME NEW ns \in Statuses, NEW type \in ConditionTypes,
         NEW status, NEW reason, NEW message
  PROVE  WithCondition(UpdateCondition(ns, type, status, reason, message), ns, type,
           status, reason)
BY DEF UpdateCondition, WithCondition, FindCondition, Statuses

LEMMA SetPartsSay ==
  ASSUME NEW ns \in Statuses
  PROVE  /\ \A state : WithParts(SetState(ns, state), ns, state, ns.url, ns.zones)
         /\ \A url : WithParts(SetURL(ns, url), ns, ns.state, url, ns.zones)
         /\ WithParts(ClearURL(ns), ns, ns.state, "", ns.zones)
         /\ \A used : WithParts([ns EXCEPT !.zones = used], ns, ns.state, ns.url, used)
BY DEF SetState, SetURL, ClearURL, WithParts, FindCondition, Statuses

\* The setters of the state that move the conditions of availability with it:
\* the state and those two conditions, and not the URL or the zones.
StateWith(new, ns, state, status, setReason, reason) ==
  /\ new.state = state /\ new.url = ns.url /\ new.zones = ns.zones
  /\ FindCondition(new, "StatefulSet").status = status
  /\ FindCondition(new, "StatefulSet").reason = setReason
  /\ FindCondition(new, "Available").status = status
  /\ FindCondition(new, "Available").reason = reason
  /\ FindCondition(new, "Deleted") = FindCondition(ns, "Deleted")

SameZonesCondition(new, ns) ==
  FindCondition(new, "AvailabilityZones") = FindCondition(ns, "AvailabilityZones")

TwoConditions(ns, state, status, setReason, setMessage, reason, message) ==
  UpdateCondition(
    UpdateCondition(SetState(ns, state), "StatefulSet", status, setReason, setMessage),
    "Available", status, reason, message)

TwoConditionsSet(new, ns, state, status, setReason, reason) ==
  /\ new \in Statuses
  /\ StateWith(new, ns, state, status, setReason, reason)
  /\ SameZonesCondition(new, ns)

LEMMA TwoConditionsSay ==
  ASSUME NEW ns \in Statuses, NEW state \in States,
         NEW status \in {"", "True", "False"}, NEW setReason \in Reasons,
         NEW setMessage \in Messages, NEW reason \in Reasons, NEW message \in Messages
  PROVE  TwoConditionsSet(
           TwoConditions(ns, state, status, setReason, setMessage, reason, message),
           ns, state, status, setReason, reason)
<1> DEFINE a == SetState(ns, state)
           b == UpdateCondition(a, "StatefulSet", status, setReason, setMessage)
           c == UpdateCondition(b, "Available", status, reason, message)
<1>1. /\ "StatefulSet" \in ConditionTypes /\ "Available" \in ConditionTypes
      /\ "Deleted" \in ConditionTypes /\ "AvailabilityZones" \in ConditionTypes
  BY DEF ConditionTypes
<1>2. a \in Statuses /\ WithParts(a, ns, state, ns.url, ns.zones)
  BY SetStateType, SetPartsSay
<1> HIDE DEF a
<1>3. /\ b \in Statuses
      /\ WithCondition(b, a, "StatefulSet", status, setReason)
  BY <1>1, <1>2, UpdateConditionType, UpdateConditionSays
<1> HIDE DEF b
<1>4. /\ c \in Statuses
      /\ WithCondition(c, b, "Available", status, reason)
  BY <1>1, <1>3, UpdateConditionType, UpdateConditionSays
<1>5. c = TwoConditions(ns, state, status, setReason, setMessage, reason, message)
  BY DEF TwoConditions, a, b
<1> HIDE DEF c
<1>6. TwoConditionsSet(c, ns, state, status, setReason, reason)
  BY <1>1, <1>2, <1>3, <1>4
     DEF WithParts, WithCondition, StateWith, SameZonesCondition, TwoConditionsSet
<1> QED BY <1>5, <1>6

LEMMA SetStateReadySays ==
  ASSUME NEW ns \in Statuses
  PROVE  /\ StateWith(SetStateReady(ns), ns, "Ready", "True", "Available", "Deployed")
         /\ SameZonesCondition(SetStateReady(ns), ns)
<1>1. SetStateReady(ns) = TwoConditions(ns, "Ready", "True", "Available",
                            "StatefulSet-is-ready", "Deployed", "NATS-is-deployed")
  BY DEF SetStateReady, TwoConditions, UpdateConditionAvailable, UpdateConditionStatefulSet
<1>2. /\ "Ready" \in States /\ "True" \in {"", "True", "False"}
      /\ "Available" \in Reasons /\ "StatefulSet-is-ready" \in Messages
      /\ "Deployed" \in Reasons /\ "NATS-is-deployed" \in Messages
  BY DEF States, Reasons, Messages
<1>3. TwoConditionsSet(TwoConditions(ns, "Ready", "True", "Available", "StatefulSet-is-ready", "Deployed", "NATS-is-deployed"),
        ns, "Ready", "True", "Available", "Deployed")
  BY <1>2, TwoConditionsSay
<1> QED BY <1>1, <1>3 DEF TwoConditionsSet

LEMMA SetStateErrorSays ==
  ASSUME NEW ns \in Statuses
  PROVE  /\ StateWith(SetStateError(ns), ns, "Error", "False",
              "FailedToSyncResources", "FailedProcessing")
         /\ SameZonesCondition(SetStateError(ns), ns)
<1>1. SetStateError(ns) = TwoConditions(ns, "Error", "False",
                            "FailedToSyncResources", "", "FailedProcessing", "")
  BY DEF SetStateError, TwoConditions, UpdateConditionAvailable, UpdateConditionStatefulSet
<1>2. /\ "Error" \in States /\ "False" \in {"", "True", "False"}
      /\ "FailedToSyncResources" \in Reasons /\ "" \in Messages
      /\ "FailedProcessing" \in Reasons /\ "" \in Messages
  BY DEF States, Reasons, Messages
<1>3. TwoConditionsSet(TwoConditions(ns, "Error", "False", "FailedToSyncResources", "", "FailedProcessing", ""),
        ns, "Error", "False", "FailedToSyncResources", "FailedProcessing")
  BY <1>2, TwoConditionsSay
<1> QED BY <1>1, <1>3 DEF TwoConditionsSet

LEMMA InitializeSays ==
  ASSUME NEW ns \in Statuses
  PROVE  /\ StateWith(Initialize(ns), ns, "Processing", "False", "Processing", "Processing")
         /\ SameZonesCondition(Initialize(ns), ns)
<1>1. Initialize(ns) = TwoConditions(ns, "Processing", "False",
                         "Processing", "", "Processing", "")
  BY DEF Initialize, TwoConditions, UpdateConditionAvailable, UpdateConditionStatefulSet
<1>2. /\ "Processing" \in States /\ "False" \in {"", "True", "False"}
      /\ "Processing" \in Reasons /\ "" \in Messages
      /\ "Processing" \in Reasons /\ "" \in Messages
  BY DEF States, Reasons, Messages
<1>3. TwoConditionsSet(TwoConditions(ns, "Processing", "False", "Processing", "", "Processing", ""),
        ns, "Processing", "False", "Processing", "Processing")
  BY <1>2, TwoConditionsSay
<1> QED BY <1>1, <1>3 DEF TwoConditionsSet

LEMMA SetWaitingStateSays ==
  ASSUME NEW ns \in Statuses
  PROVE  /\ StateWith(SetWaitingStateForStatefulSet(ns), ns, "Processing", "False",
              "Pending", "Deploying")
         /\ FindCondition(SetWaitingStateForStatefulSet(ns), "AvailabilityZones").status = "False"
<1> DEFINE a == TwoConditions(ns, "Processing", "False", "Pending", "", "Deploying", "")
           b == UpdateCondition(a, "AvailabilityZones", "False", "Pending", "")
<1>1. a \in Statuses /\ StateWith(a, ns, "Processing", "False", "Pending", "Deploying")
  <2>1. /\ "Processing" \in States /\ "False" \in {"", "True", "False"}
        /\ "Pending" \in Reasons /\ "Deploying" \in Reasons /\ "" \in Messages
    BY DEF States, Reasons, Messages
  <2>2. TwoConditionsSet(a, ns, "Processing", "False", "Pending", "Deploying")
    BY <2>1, TwoConditionsSay
  <2> QED BY <2>2 DEF TwoConditionsSet
<1>2. b = SetWaitingStateForStatefulSet(ns)
  BY DEF SetWaitingStateForStatefulSet, TwoConditions, UpdateConditionAvailabilityZones,
         UpdateConditionAvailable, UpdateConditionStatefulSet
<1> HIDE DEF a
<1>3. WithCondition(b, a, "AvailabilityZones", "False", "Pending")
  BY <1>1, UpdateConditionSays DEF ConditionTypes
<1> HIDE DEF b
<1>4. /\ StateWith(b, ns, "Processing", "False", "Pending", "Deploying")
      /\ FindCondition(b, "AvailabilityZones").status = "False"
  BY <1>1, <1>3 DEF WithCondition, StateWith, ConditionTypes
<1> QED BY <1>2, <1>4

-------------------------------------------------------------------------------
(* The comparison reads everything there is.                               *)

LEMMA ConditionParts ==
  ASSUME NEW c \in Conditions
  PROVE  c = [status |-> c.status, reason |-> c.reason, message |-> c.message]
BY DEF Conditions

LEMMA StatusParts ==
  ASSUME NEW ns \in Statuses
  PROVE  ns = [state |-> ns.state, url |-> ns.url, zones |-> ns.zones,
               conditions |-> ns.conditions]
BY DEF Statuses

LEMMA EqualStatuses ==
  ASSUME NEW ns \in Statuses, NEW status \in Statuses, IsEqual(ns, status)
  PROVE  ns = status
<1>1. /\ ns.conditions \in [ConditionTypes -> Conditions]
      /\ status.conditions \in [ConditionTypes -> Conditions]
  BY DEF Statuses
<1>2. \A t \in ConditionTypes : ns.conditions[t] = status.conditions[t]
  <2> SUFFICES ASSUME NEW t \in ConditionTypes
               PROVE  ns.conditions[t] = status.conditions[t]
    OBVIOUS
  <2>1. ns.conditions[t] \in Conditions /\ status.conditions[t] \in Conditions
    BY <1>1
  <2>2. ConditionEquals(ns.conditions[t], status.conditions[t])
    BY DEF IsEqual, ConditionsEquals
  <2> QED BY <2>1, <2>2, ConditionParts DEF ConditionEquals
<1>3. ns.conditions = status.conditions
  BY <1>1, <1>2
<1>4. ns.state = status.state /\ ns.url = status.url /\ ns.zones = status.zones
  BY DEF IsEqual
<1> QED BY <1>3, <1>4, StatusParts

===============================================================================
