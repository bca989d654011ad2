-------------------------- MODULE SensorAlertsProofs --------------------------
(***************************************************************************)
(* Theorems about SensorAlerts, for every number of events, workers,       *)
(* retries, errors and crashes.                                            *)
(***************************************************************************)
EXTENDS SensorAlerts, TLAPS

(***************************************************************************)
(* Types                                                                   *)
(***************************************************************************)

\* A message put back in front of a queue leaves a queue.
LEMMA PutBack ==
    ASSUME NEW S, NEW q \in Seq(S), NEW x \in S
    PROVE  <<x>> \o q \in Seq(S)
OBVIOUS

\* Taking the first message off a queue leaves a queue.
LEMMA TakeFirst ==
    ASSUME NEW S, NEW q \in Seq(S), q # <<>>
    PROVE  Tail(q) \in Seq(S)
OBVIOUS

\* A table whose rows are updated in place keeps its type and its length.
LEMMA UpdatedTable ==
    ASSUME NEW S, NEW q \in Seq(S), NEW f,
           f = [i \in DOMAIN q |-> f[i]],
           \A i \in DOMAIN q : f[i] \in S
    PROVE  f \in Seq(S)
OBVIOUS

\* Setting an escalation_status keeps the type of alert_history.
LEMMA LabelledType ==
    ASSUME alerts \in Seq(Alert), NEW i, NEW label \in {"ISP", "Support", "failed"}
    PROVE  Labelled(i, label) \in Seq(Alert)
<1> DEFINE f == Labelled(i, label)
<1>1. f = [j \in DOMAIN alerts |-> f[j]]
    BY DEF Labelled
<1>2. ASSUME NEW j \in DOMAIN alerts PROVE f[j] \in Alert
    <2>1. alerts[j] \in Alert
        BY <1>2
    <2> QED
        BY <2>1 DEF Labelled, Alert
<1> HIDE DEF f
<1>3. f \in Seq(Alert)
    BY <1>1, <1>2, UpdatedTable
<1> QED
    BY <1>3 DEF f

\* So does resolving the recent alerts.
LEMMA ResolvedType ==
    ASSUME alerts \in Seq(Alert), NEW m, ResolveAlerts(m)
    PROVE  alerts' \in Seq(Alert)
<1>1. alerts' = [i \in DOMAIN alerts |-> alerts'[i]]
    BY DEF ResolveAlerts
<1>2. ASSUME NEW i \in DOMAIN alerts PROVE alerts'[i] \in Alert
    <2>1. alerts[i] \in Alert
        BY <1>2
    <2> QED
        BY <2>1 DEF ResolveAlerts, Alert
<1> QED
    BY <1>1, <1>2, UpdatedTable

\* So does adding a row for an event of a status that raises alerts.
LEMMA CreatedType ==
    ASSUME alerts \in Seq(Alert), NEW m, CreateAlert(m)
    PROVE  alerts' \in Seq(Alert)
<1>1. [kind |-> event[m], resolved |-> FALSE, label |-> "Pending"] \in Alert
    BY DEF CreateAlert, Raises, Alert
<1> QED
    BY <1>1 DEF CreateAlert

\* A part of the type invariant whose variables do not change stays true.
LEMMA Frames ==
    /\ StoreTypeOK /\ UNCHANGED <<state, dbVars>> => StoreTypeOK'
    /\ BrokerTypeOK /\ UNCHANGED <<event, brokerVars>> => BrokerTypeOK'
    /\ TaskTypeOK /\ UNCHANGED <<pc, localVars>> => TaskTypeOK'
    /\ HistoryTypeOK /\ UNCHANGED historyVars => HistoryTypeOK'
    /\ BoundsOK /\ UNCHANGED boundVars => BoundsOK'
BY DEF StoreTypeOK, BrokerTypeOK, TaskTypeOK, HistoryTypeOK, BoundsOK, dbVars,
    brokerVars, localVars, historyVars, boundVars

\* Jumps between the stages of a task, and the end of a workflow.
LEMMA GotoType ==
    ASSUME TaskTypeOK, NEW m \in Event, NEW l \in PC, Goto(m, l),
           UNCHANGED localVars \/ Forget(m)
    PROVE  TaskTypeOK'
<1>1. pc' \in [Event -> PC]
    BY DEF TaskTypeOK, Goto
<1>2. CASE UNCHANGED localVars
    BY <1>1, <1>2 DEF TaskTypeOK, localVars
<1>3. CASE Forget(m)
    <2>1. alert' \in [Event -> Nat]
        BY <1>3 DEF TaskTypeOK, Forget
    <2>2. sent' \in [Event -> BOOLEAN]
        BY <1>3 DEF TaskTypeOK, Forget
    <2> QED
        BY <1>1, <2>1, <2>2 DEF TaskTypeOK
<1> QED
    BY <1>2, <1>3

LEMMA CompleteType ==
    ASSUME TaskTypeOK, HistoryTypeOK, NEW m \in Event, Complete(m),
           UNCHANGED <<overlapped, ignored, raised, mails>>
    PROVE  TaskTypeOK' /\ HistoryTypeOK'
<1>1. Goto(m, "worked") /\ Forget(m)
    BY DEF Complete
<1>2. "worked" \in PC
    BY DEF PC, Running
<1>3. TaskTypeOK'
    BY <1>1, <1>2, GotoType
<1>4. HistoryTypeOK'
    BY DEF Complete, HistoryTypeOK
<1> QED
    BY <1>3, <1>4

\* An error spends the budget of errors, and only that.
LEMMA FaultType ==
    ASSUME BoundsOK, Fault \/ UNCHANGED faults, UNCHANGED crashes
    PROVE  BoundsOK'
BY ConstantsAssumption DEF BoundsOK, Fault

LEMMA TypeInit == Init => TypeOK
<1> SUFFICES ASSUME Init PROVE TypeOK
    OBVIOUS
<1>1. StoreTypeOK
    BY DEF Init, StoreTypeOK
<1>2. BrokerTypeOK
    BY ConstantsAssumption DEF Init, BrokerTypeOK
<1>3. TaskTypeOK
    BY DEF Init, TaskTypeOK, PC
<1>4. HistoryTypeOK /\ BoundsOK
    <2>1. overlapped \in BOOLEAN
        BY DEF Init
    <2> QED
        BY <2>1, ConstantsAssumption DEF Init, HistoryTypeOK, BoundsOK
<1> QED
    BY <1>1, <1>2, <1>3, <1>4 DEF TypeOK

\* A mail to the support team changes where the task is and what it knows.
LEMMA MailedType ==
    ASSUME TaskTypeOK, NEW m \in Event, Goto(m, "acted"), UNCHANGED alert,
           sent' = [sent EXCEPT ![m] = TRUE] \/ UNCHANGED sent
    PROVE  TaskTypeOK'
<1>1. pc' \in [Event -> PC]
    BY DEF TaskTypeOK, Goto, PC, Running
<1>2. sent' \in [Event -> BOOLEAN]
    BY DEF TaskTypeOK
<1> QED
    BY <1>1, <1>2 DEF TaskTypeOK

\* Every step keeps the types: one case per action.
LEMMA TypeNext == TypeOK /\ [Next]_vars => TypeOK'
<1> SUFFICES ASSUME TypeOK, [Next]_vars PROVE TypeOK'
    OBVIOUS
<1> USE DEF TypeOK
<1>1. CASE ReceiveWebhook
    <2>1. last + 1 \in Event /\ last' \in 0 .. MaxEvents
        BY <1>1, ConstantsAssumption DEF ReceiveWebhook, BrokerTypeOK, Event
    <2>2. BrokerTypeOK'
        BY <1>1, <2>1 DEF ReceiveWebhook, BrokerTypeOK
    <2>3. TaskTypeOK'
        BY <1>1, <2>1, GotoType DEF ReceiveWebhook, PC
    <2> QED
        BY <1>1, <2>2, <2>3, Frames DEF ReceiveWebhook
<1>2. CASE StateTTL
    BY <1>2, Frames DEF StateTTL, StoreTypeOK, dbVars
<1>3. ASSUME NEW m \in Event, Deliver(m) PROVE TypeOK'
    <2>1. BrokerTypeOK'
        BY <1>3, TakeFirst DEF Deliver, BrokerTypeOK
    <2>2. TaskTypeOK'
        BY <1>3, GotoType DEF Deliver, PC, Running
    <2>3. HistoryTypeOK'
        <3>1. overlapped' \in BOOLEAN
            BY <1>3 DEF Deliver
        <3> QED
            BY <1>3, <3>1 DEF Deliver, HistoryTypeOK
    <2> QED
        BY <1>3, <2>1, <2>2, <2>3, Frames DEF Deliver
<1>4. ASSUME NEW m \in Event, Retry(m) PROVE TypeOK'
    <2>1. BrokerTypeOK'
        BY <1>4, ConstantsAssumption DEF Retry, BrokerTypeOK
    <2>2. TaskTypeOK'
        BY <1>4, GotoType DEF Retry, PC
    <2> QED
        BY <1>4, <2>1, <2>2, Frames, FaultType DEF Retry
<1>5. ASSUME NEW m \in Event, LoseWorker(m) PROVE TypeOK'
    <2>1. BrokerTypeOK'
        BY <1>5, PutBack DEF LoseWorker, BrokerTypeOK
    <2>2. TaskTypeOK'
        BY <1>5, GotoType DEF LoseWorker, PC
    <2>3. BoundsOK'
        BY <1>5, ConstantsAssumption DEF LoseWorker, BoundsOK
    <2> QED
        BY <1>5, <2>1, <2>2, <2>3, Frames DEF LoseWorker
<1>6. ASSUME NEW m \in Event, Task(m) PROVE TypeOK'
    <2>1. CASE IgnoreDuplicate(m)
        <3>1. TaskTypeOK'
            BY <2>1, GotoType DEF IgnoreDuplicate, PC, Running
        <3>2. HistoryTypeOK'
            BY <2>1 DEF IgnoreDuplicate, HistoryTypeOK
        <3> QED
            BY <2>1, <3>1, <3>2, Frames DEF IgnoreDuplicate
    <2>2. CASE Dispatch(m)
        BY <2>2, GotoType, Frames DEF Dispatch, PC, Running
    <2>3. CASE DispatchUnchecked(m)
        BY <2>3, GotoType, Frames, FaultType DEF DispatchUnchecked, PC, Running
    <2>4. CASE SensorNotFound(m)
        BY <2>4, CompleteType, Frames, FaultType DEF SensorNotFound
    <2>5. CASE CreateAlert(m)
        <3>1. StoreTypeOK'
            BY <2>5, CreatedType DEF CreateAlert, StoreTypeOK
        <3>2. TaskTypeOK'
            BY <2>5 DEF CreateAlert, StoreTypeOK, TaskTypeOK, Goto, PC, Running
        <3>3. HistoryTypeOK'
            BY <2>5 DEF CreateAlert, HistoryTypeOK
        <3> QED
            BY <2>5, <3>1, <3>2, <3>3, Frames DEF CreateAlert
    <2>6. CASE CreateAlertFails(m)
        BY <2>6, GotoType, Frames, FaultType DEF CreateAlertFails, PC, Running
    <2>7. CASE PingRecovered(m)
        <3>1. TaskTypeOK'
            BY <2>7, GotoType DEF PingRecovered, PC, Running
        <3>2. StoreTypeOK'
            BY <2>7 DEF PingRecovered, StoreTypeOK
        <3> QED
            BY <2>7, <3>1, <3>2, Frames, FaultType DEF PingRecovered
    <2>8. CASE PingUnreachable(m)
        <3>1. TaskTypeOK'
            BY <2>8, GotoType DEF PingUnreachable, PC, Running
        <3>2. StoreTypeOK'
            BY <2>8, LabelledType DEF PingUnreachable, StoreTypeOK
        <3>3. HistoryTypeOK'
            BY <2>8 DEF PingUnreachable, HistoryTypeOK
        <3> QED
            BY <2>8, <3>1, <3>2, <3>3, Frames, FaultType DEF PingUnreachable
    <2>9. CASE PingFails(m)
        <3>1. TaskTypeOK'
            BY <2>9, GotoType DEF PingFails, PC, Running
        <3>2. StoreTypeOK'
            BY <2>9, LabelledType DEF PingFails, StoreTypeOK
        <3> QED
            BY <2>9, <3>1, <3>2, Frames, FaultType DEF PingFails
    <2>10. CASE MailSupport(m)
        <3>1. TaskTypeOK'
            BY <2>10, MailedType DEF MailSupport
        <3>2. HistoryTypeOK'
            BY <2>10 DEF MailSupport, HistoryTypeOK
        <3> QED
            BY <2>10, <3>1, <3>2, Frames, FaultType DEF MailSupport
    <2>11. CASE RecordSupport(m)
        <3>1. TaskTypeOK' /\ HistoryTypeOK'
            BY <2>11, CompleteType DEF RecordSupport
        <3>2. StoreTypeOK'
            BY <2>11, LabelledType DEF RecordSupport, StoreTypeOK, dbVars
        <3> QED
            BY <2>11, <3>1, <3>2, Frames, FaultType DEF RecordSupport
    <2>12. CASE WriteLog(m)
        <3>1. TaskTypeOK' /\ HistoryTypeOK'
            BY <2>12, CompleteType DEF WriteLog
        <3>2. StoreTypeOK'
            BY <2>12 DEF WriteLog, StoreTypeOK, dbVars
        <3> QED
            BY <2>12, <3>1, <3>2, Frames, FaultType DEF WriteLog
    <2>13. CASE ResolveAlerts(m)
        <3>1. TaskTypeOK' /\ HistoryTypeOK'
            BY <2>13, CompleteType DEF ResolveAlerts
        <3>2. StoreTypeOK'
            BY <2>13, ResolvedType DEF ResolveAlerts, StoreTypeOK, dbVars
        <3> QED
            BY <2>13, <3>1, <3>2, Frames DEF ResolveAlerts
    <2>14. CASE ResolveRolledBack(m)
        BY <2>14, CompleteType, Frames, FaultType DEF ResolveRolledBack
    <2>15. CASE SetSensorState(m)
        <3>1. TaskTypeOK'
            BY <2>15, GotoType DEF SetSensorState, PC, Running
        <3>2. StoreTypeOK'
            BY <2>15, ConstantsAssumption DEF SetSensorState, StoreTypeOK, BrokerTypeOK, dbVars
        <3> QED
            BY <2>15, <3>1, <3>2, Frames DEF SetSensorState
    <2>16. CASE SetSensorStateFails(m)
        BY <2>16, GotoType, Frames, FaultType DEF SetSensorStateFails, PC, Running
    <2>17. CASE Acknowledge(m)
        BY <2>17, GotoType, Frames DEF Acknowledge, PC, Running
    <2> QED
        BY <1>6, <2>1, <2>2, <2>3, <2>4, <2>5, <2>6, <2>7, <2>8, <2>9, <2>10, <2>11, <2>12, <2>13, <2>14, <2>15, <2>16, <2>17 DEF Task, Workflow
<1>7. CASE UNCHANGED vars
    BY <1>7, Frames DEF vars
<1> QED
    BY <1>1, <1>2, <1>3, <1>4, <1>5, <1>6, <1>7 DEF Next

\* Types hold throughout, for any number of events, retries, errors and
\* crashes: in particular no retry passes max_retries.
THEOREM TypeCorrect == Spec => []TypeOK
<1>1. Init => TypeOK
    BY TypeInit
<1>2. TypeOK /\ [Next]_vars => TypeOK'
    BY TypeNext
<1> QED
    BY <1>1, <1>2, PTL DEF Spec

(***************************************************************************)
(* Duplicates.  IgnoredWasHandled is not inductive: a step that ignores an *)
(* event needs to know where the status in Redis came from, and the step   *)
(* that writes it that the workflow has returned.                          *)
(***************************************************************************)

Handled(s) == \E n \in completed : event[n] = s

StateHandled == state # "none" => Handled(state)

WorkedCompleted == \A m \in Event : pc[m] = "worked" => m \in completed

HandledInv == TypeOK /\ IgnoredWasHandled /\ StateHandled /\ WorkedCompleted

\* A step only adds to completed, and no step changes an event.
LEMMA HistoryGrows ==
    ASSUME TypeOK, [Next]_vars
    PROVE  completed \subseteq completed' /\ UNCHANGED event
<1>1. CASE ReceiveWebhook \/ StateTTL \/ UNCHANGED vars
    BY <1>1 DEF ReceiveWebhook, StateTTL, vars, historyVars
<1>2. ASSUME NEW m \in Event, Deliver(m) \/ Retry(m) \/ LoseWorker(m)
      PROVE  completed \subseteq completed' /\ UNCHANGED event
    BY <1>2 DEF Deliver, Retry, LoseWorker, historyVars
<1>3. ASSUME NEW m \in Event, Workflow(m)
      PROVE  completed \subseteq completed' /\ UNCHANGED event
    BY <1>3
    DEF Workflow, SensorNotFound, CreateAlert, CreateAlertFails, PingRecovered,
        PingUnreachable, PingFails, MailSupport, RecordSupport, WriteLog,
        ResolveAlerts, ResolveRolledBack, Complete, historyVars
<1>4. ASSUME NEW m \in Event, Task(m), ~Workflow(m)
      PROVE  completed \subseteq completed' /\ UNCHANGED event
    BY <1>4
    DEF Task, IgnoreDuplicate, Dispatch, DispatchUnchecked, SetSensorState,
        SetSensorStateFails, Acknowledge, historyVars
<1> QED
    BY <1>1, <1>2, <1>3, <1>4 DEF Next

\* A task is past its workflow only by a step that completes it.
LEMMA WorkedNext ==
    ASSUME TypeOK, WorkedCompleted, [Next]_vars
    PROVE  WorkedCompleted'
<1>1. completed \subseteq completed'
    BY HistoryGrows
<1>2. CASE ReceiveWebhook
    BY <1>1, <1>2 DEF ReceiveWebhook, Goto, WorkedCompleted, TypeOK, TaskTypeOK
<1>3. CASE StateTTL \/ UNCHANGED vars
    BY <1>1, <1>3 DEF StateTTL, vars, WorkedCompleted
<1>4. ASSUME NEW m \in Event, NEW l \in PC, Goto(m, l),
             l = "worked" => m \in completed'
      PROVE  WorkedCompleted'
    BY <1>1, <1>4 DEF Goto, WorkedCompleted, TypeOK, TaskTypeOK
<1>5. ASSUME NEW m \in Event, Deliver(m) \/ Task(m) \/ Retry(m) \/ LoseWorker(m)
      PROVE  WorkedCompleted'
    <2>1. CASE Workflow(m)
        BY <1>4, <2>1
        DEF Workflow, SensorNotFound, CreateAlert, CreateAlertFails, PingRecovered,
            PingUnreachable, PingFails, MailSupport, RecordSupport, WriteLog,
            ResolveAlerts, ResolveRolledBack, Complete, PC, Running
    <2>2. CASE Deliver(m) \/ Retry(m) \/ LoseWorker(m)
        BY <1>4, <2>2 DEF Deliver, Retry, LoseWorker, PC, Running
    <2>3. CASE IgnoreDuplicate(m) \/ Dispatch(m) \/ DispatchUnchecked(m)
        BY <1>4, <2>3 DEF IgnoreDuplicate, Dispatch, DispatchUnchecked, PC, Running
    <2>4. CASE SetSensorState(m) \/ SetSensorStateFails(m) \/ Acknowledge(m)
        BY <1>4, <2>4 DEF SetSensorState, SetSensorStateFails, Acknowledge, PC, Running
    <2> QED
        BY <1>5, <2>1, <2>2, <2>3, <2>4 DEF Task
<1> QED
    BY <1>2, <1>3, <1>5 DEF Next

\* Every action but three leaves the status in Redis and the ignored events.
LEMMA StateFrame ==
    ASSUME [Next]_vars
    PROVE  \/ UNCHANGED <<state, ignored>>
           \/ StateTTL
           \/ \E m \in Event : SetSensorState(m) \/ IgnoreDuplicate(m)
<1>1. CASE ReceiveWebhook \/ UNCHANGED vars
    BY <1>1 DEF ReceiveWebhook, vars, historyVars
<1>2. ASSUME NEW m \in Event, Deliver(m) \/ Retry(m) \/ LoseWorker(m)
      PROVE  UNCHANGED <<state, ignored>>
    BY <1>2 DEF Deliver, Retry, LoseWorker, historyVars
<1>3. ASSUME NEW m \in Event, Workflow(m) PROVE UNCHANGED <<state, ignored>>
    BY <1>3
    DEF Workflow, SensorNotFound, CreateAlert, CreateAlertFails, PingRecovered,
        PingUnreachable, PingFails, MailSupport, RecordSupport, WriteLog,
        ResolveAlerts, ResolveRolledBack, historyVars
<1>4. ASSUME NEW m \in Event, Task(m), ~Workflow(m)
      PROVE  UNCHANGED <<state, ignored>> \/ SetSensorState(m) \/ IgnoreDuplicate(m)
    BY <1>4
    DEF Task, Dispatch, DispatchUnchecked, SetSensorStateFails, Acknowledge, historyVars
<1> QED
    BY <1>1, <1>2, <1>3, <1>4 DEF Next

LEMMA HandledNext == HandledInv /\ [Next]_vars => HandledInv'
<1> SUFFICES ASSUME HandledInv, [Next]_vars PROVE HandledInv'
    OBVIOUS
<1> USE DEF HandledInv
<1>1. TypeOK' /\ WorkedCompleted'
    BY TypeNext, WorkedNext
<1>2. completed \subseteq completed' /\ UNCHANGED event
    BY HistoryGrows
<1>3. CASE UNCHANGED <<state, ignored>>
    BY <1>1, <1>2, <1>3 DEF IgnoredWasHandled, StateHandled, Handled
<1>4. CASE StateTTL
    BY <1>1, <1>2, <1>4 DEF StateTTL, historyVars, IgnoredWasHandled, StateHandled, Handled
<1>5. ASSUME NEW m \in Event, SetSensorState(m)
      PROVE  IgnoredWasHandled' /\ StateHandled'
    <2>1. m \in completed /\ state' = event[m] /\ ignored' = ignored
        BY <1>5 DEF SetSensorState, WorkedCompleted, historyVars
    <2> QED
        BY <1>2, <2>1 DEF IgnoredWasHandled, StateHandled, Handled
<1>6. ASSUME NEW m \in Event, IgnoreDuplicate(m)
      PROVE  IgnoredWasHandled' /\ StateHandled'
    <2>1. event[m] # "none"
        BY ConstantsAssumption DEF TypeOK, BrokerTypeOK, Status
    <2>2. Handled(event[m])
        BY <1>6, <2>1 DEF IgnoreDuplicate, StateHandled
    <2> QED
        BY <1>2, <1>6, <2>2
        DEF IgnoreDuplicate, IgnoredWasHandled, StateHandled, Handled
<1> QED
    BY <1>1, <1>3, <1>4, <1>5, <1>6, StateFrame

\* An event is ignored only if the workflow of an event of the same status ran
\* to its end: no retry is mistaken for a duplicate of its own failed attempt.
THEOREM DuplicatesHandled == Spec => []IgnoredWasHandled
<1>1. Init => HandledInv
    BY TypeInit DEF Init, HandledInv, IgnoredWasHandled, StateHandled, WorkedCompleted
<1>2. HandledInv /\ [Next]_vars => HandledInv'
    BY HandledNext
<1>3. HandledInv => IgnoredWasHandled
    BY DEF HandledInv
<1> QED
    BY <1>1, <1>2, <1>3, PTL DEF Spec

(***************************************************************************)
(* Effects.  An attempt that has not yet created its alert, or not yet     *)
(* sent its e-mail, has that one in hand; the bound alone does not say so. *)
(***************************************************************************)

\* An event beyond the last one reported has not been touched.
UnreportedOK == \A m \in Event : m > last => pc[m] = "unreported"

Unraised == {"unreported", "queued", "received", "dispatched"}
Unmailed == Unraised \cup {"alerted"}

InHand(m) ==
    /\ raised[m] + (IF pc[m] \in Unraised THEN 1 ELSE 0) <= Attempts(m)
    /\ mails[m] + (IF pc[m] \in Unmailed THEN 1 ELSE 0) <= Attempts(m)

EffectsInHand == \A m \in Event : InHand(m)

EffectsInv == TypeOK /\ UnreportedOK /\ EffectsInHand

Numbers ==
    /\ last \in Nat /\ crashes \in Nat /\ pc \in [Event -> PC]
    /\ retries \in [Event -> Nat]
    /\ raised \in [Event -> Nat] /\ mails \in [Event -> Nat]

LEMMA NumbersOK == TypeOK => Numbers
BY ConstantsAssumption
DEF TypeOK, BrokerTypeOK, TaskTypeOK, HistoryTypeOK, BoundsOK, Numbers

LEMMA NumbersNext == TypeOK' => Numbers'
BY ConstantsAssumption
DEF TypeOK, BrokerTypeOK, TaskTypeOK, HistoryTypeOK, BoundsOK, Numbers

\* A step of one started task leaves the others as they are, so only its own
\* effects matter.
LEMMA OneTask ==
    ASSUME Numbers, Numbers', UnreportedOK, EffectsInHand,
           NEW m \in Event, pc[m] # "unreported", UNCHANGED last,
           crashes <= crashes',
           \A n \in Event \ {m} :
               /\ pc'[n] = pc[n] /\ retries'[n] = retries[n]
               /\ raised'[n] = raised[n] /\ mails'[n] = mails[n],
           InHand(m)'
    PROVE  UnreportedOK' /\ EffectsInHand'
<1>1. UnreportedOK'
    <2>1. m <= last
        BY DEF UnreportedOK, Numbers, Event
    <2> QED
        BY <2>1 DEF UnreportedOK, Numbers, Event
<1>2. ASSUME NEW n \in Event PROVE InHand(n)'
    BY <1>2 DEF EffectsInHand, InHand, Attempts, Numbers
<1> QED
    BY <1>1, <1>2 DEF EffectsInHand

\* The same for a step that only moves the task: forward, or out of its way.
LEMMA Moves ==
    ASSUME Numbers, Numbers', UnreportedOK, EffectsInHand,
           NEW m \in Event, NEW l \in PC, Goto(m, l), pc[m] # "unreported",
           UNCHANGED <<last, retries, raised, mails, crashes>>,
           l \in Unraised => pc[m] \in Unraised,
           l \in Unmailed => pc[m] \in Unmailed
    PROVE  UnreportedOK' /\ EffectsInHand'
<1>1. InHand(m)'
    BY DEF EffectsInHand, InHand, Attempts, Numbers, Goto
<1> QED
    BY <1>1, OneTask DEF Goto, Numbers

LEMMA EffectsNext == EffectsInv /\ [Next]_vars => EffectsInv'
<1> SUFFICES ASSUME EffectsInv, [Next]_vars PROVE EffectsInv'
    OBVIOUS
<1> USE DEF EffectsInv
<1>1. TypeOK'
    BY TypeNext
<1>2. Numbers /\ Numbers'
    BY <1>1, NumbersOK, NumbersNext
<1>3. CASE ReceiveWebhook
    <2>1. last + 1 \in Event /\ pc[last + 1] = "unreported"
        BY <1>2, <1>3, ConstantsAssumption
        DEF ReceiveWebhook, UnreportedOK, Event, Numbers
    <2>2. \A m \in Event : m > last + 1 => m > last /\ m # last + 1
        BY <1>2 DEF Event, Numbers
    <2>3. UnreportedOK'
        BY <1>2, <1>3, <2>1, <2>2 DEF ReceiveWebhook, Goto, UnreportedOK, Numbers
    <2>4. EffectsInHand'
        BY <1>2, <1>3, <2>1
        DEF ReceiveWebhook, Goto, EffectsInHand, InHand, Attempts, Unraised,
            Unmailed, historyVars, boundVars, Numbers
    <2> QED
        BY <1>1, <2>3, <2>4
<1>4. CASE StateTTL \/ UNCHANGED vars
    BY <1>1, <1>4
    DEF StateTTL, vars, brokerVars, historyVars, boundVars, UnreportedOK,
        EffectsInHand, InHand, Attempts
<1>5. ASSUME NEW m \in Event, Deliver(m) \/ Task(m) \/ Retry(m) \/ LoseWorker(m)
      PROVE  UnreportedOK' /\ EffectsInHand'
    <2> USE DEF brokerVars, historyVars, boundVars
    <2>1. CASE Deliver(m)
        BY <1>2, <2>1, Moves DEF Deliver, PC, Running, Unraised, Unmailed
    <2>2. CASE IgnoreDuplicate(m) \/ Dispatch(m) \/ DispatchUnchecked(m)
        BY <1>2, <2>2, Moves
        DEF IgnoreDuplicate, Dispatch, DispatchUnchecked, PC, Running, Unraised,
            Unmailed
    <2>3. CASE SetSensorState(m) \/ SetSensorStateFails(m) \/ Acknowledge(m)
        BY <1>2, <2>3, Moves
        DEF SetSensorState, SetSensorStateFails, Acknowledge, PC, Running,
            Unraised, Unmailed
    <2>4. CASE SensorNotFound(m) \/ ResolveAlerts(m) \/ ResolveRolledBack(m)
        BY <1>2, <2>4, Moves
        DEF SensorNotFound, ResolveAlerts, ResolveRolledBack, Complete, PC,
            Running, Unraised, Unmailed
    <2>5. CASE RecordSupport(m) \/ WriteLog(m)
        BY <1>2, <2>5, Moves
        DEF RecordSupport, WriteLog, Complete, PC, Running, Unraised, Unmailed
    <2>6. CASE CreateAlertFails(m) \/ PingRecovered(m) \/ PingFails(m)
        BY <1>2, <2>6, Moves
        DEF CreateAlertFails, PingRecovered, PingFails, PC, Running, Unraised,
            Unmailed
    <2>7. CASE CreateAlert(m)
        <3>1. InHand(m)'
            BY <1>2, <2>7
            DEF CreateAlert, Goto, EffectsInHand, InHand, Attempts, Numbers,
                Unraised, Unmailed
        <3> QED
            BY <1>2, <2>7, <3>1, OneTask DEF CreateAlert, Goto, Numbers
    <2>8. CASE PingUnreachable(m) \/ MailSupport(m)
        <3>1. InHand(m)'
            BY <1>2, <2>8
            DEF PingUnreachable, MailSupport, Goto, EffectsInHand, InHand,
                Attempts, Numbers, Unraised, Unmailed
        <3> QED
            BY <1>2, <2>8, <3>1, OneTask
            DEF PingUnreachable, MailSupport, Goto, Numbers
    <2>9. CASE Retry(m)
        <3>1. InHand(m)'
            BY <1>2, <2>9
            DEF Retry, Goto, EffectsInHand, InHand, Attempts, Numbers, Unraised,
                Unmailed
        <3> QED
            BY <1>2, <2>9, <3>1, OneTask DEF Retry, Goto, Numbers
    <2>10. CASE LoseWorker(m)
        <3>1. raised[m] <= Attempts(m) /\ mails[m] <= Attempts(m)
            BY <1>2 DEF EffectsInHand, InHand, Attempts, Numbers
        <3>2. crashes' = crashes + 1 /\ UNCHANGED <<retries, raised, mails>>
            BY <2>10 DEF LoseWorker
        <3>3. pc'[m] = "queued"
            BY <1>2, <2>10 DEF LoseWorker, Goto, Numbers
        <3>4. InHand(m)'
            BY <1>2, <3>1, <3>2, <3>3 DEF InHand, Attempts, Numbers, Unraised, Unmailed
        <3> QED
            BY <1>2, <2>10, <3>4, OneTask DEF LoseWorker, Goto, Numbers, Running
    <2> QED
        BY <1>5, <2>1, <2>2, <2>3, <2>4, <2>5, <2>6, <2>7, <2>8, <2>9, <2>10
        DEF Task, Workflow
<1> QED
    BY <1>1, <1>3, <1>4, <1>5 DEF Next

\* However often an event is retried and redelivered, an attempt adds at most
\* one alert and one e-mail.
THEOREM EffectsPerAttempt == Spec => []EffectsBounded
<1>1. Init => EffectsInv
    <2> SUFFICES ASSUME Init PROVE EffectsInv
        OBVIOUS
    <2>1. UnreportedOK /\ EffectsInHand
        BY DEF Init, UnreportedOK, EffectsInHand, InHand, Attempts, Unraised, Unmailed
    <2> QED
        BY <2>1, TypeInit DEF EffectsInv
<1>2. EffectsInv /\ [Next]_vars => EffectsInv'
    BY EffectsNext
<1>3. EffectsInv => EffectsBounded
    <2> SUFFICES ASSUME EffectsInv, NEW m \in Event
                 PROVE  raised[m] <= Attempts(m) /\ mails[m] <= Attempts(m)
        BY DEF EffectsBounded
    <2>1. Numbers
        BY NumbersOK DEF EffectsInv
    <2> QED
        BY <2>1 DEF EffectsInv, EffectsInHand, InHand, Attempts, Numbers
<1> QED
    BY <1>1, <1>2, <1>3, PTL DEF Spec
===============================================================================
