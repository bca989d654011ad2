----------------------------- MODULE SensorAlerts -----------------------------
(***************************************************************************)
(* What the service does with the events PRTG reports about one sensor.    *)
(*                                                                         *)
(* The webhook queues every event; Celery workers check it against the     *)
(* status kept in Redis, run the workflow of its status (processors/*.py)  *)
(* and record the status (task_queue/tasks.py, process_prtg_webhook_task). *)
(* Every key and query names the sensor, so sensors do not interact and    *)
(* one is modelled.  One Redis command, one database transaction or one    *)
(* e-mail is a step; so is a diagnostic with the effect it ends in.        *)
(***************************************************************************)
EXTENDS Naturals, Sequences, FiniteSets

CONSTANTS
    Reported,     \* the statuses PRTG reports in this instance
    MaxEvents,    \* bound: events reported
    Workers,      \* Celery worker slots
    MaxRetries,   \* max_retries of the task
    RecentLimit,  \* how many alerts of the sensor the Up workflow looks at
    MaxFaults,    \* bound: errors
    MaxCrashes,   \* bound: lost worker processes
    StateExpires  \* TRUE: the TTL of the status in Redis may run out

Status == {"Up", "Down", "Warning", "Unusual", "Paused"}

ASSUME ConstantsAssumption ==
    /\ Reported \subseteq Status
    /\ MaxEvents \in Nat
    /\ Workers \in Nat
    /\ MaxRetries \in Nat
    /\ RecentLimit \in Nat
    /\ MaxFaults \in Nat
    /\ MaxCrashes \in Nat
    /\ StateExpires \in BOOLEAN

VARIABLES
    state,      \* Redis: state:sensor:<sensor id>
    alerts,     \* alert_history of the sensor, oldest first
    openLogs,   \* events whose sensor_logs row is OPENED
    event,      \* the status of each event
    last,       \* how many of them PRTG has reported
    queue,      \* prtg_webhook_queue
    eta,        \* retried messages, whose countdown a worker waits for
    pc,         \* progress of process_prtg_webhook_task
    retries,    \* request.retries of an event's message
    alert,      \* alert_id in the workflow: an index of alerts, 0 is None
    sent,       \* email_sent in the Warning and Paused workflows
    overlapped, \* history: an Up and another event have been under way at once
    ignored,    \* history: events ignored as duplicates
    completed,  \* history: events whose workflow returned
    raised,     \* history: alerts created for an event
    mails,      \* history: e-mails sent for an event
    faults, crashes

dbVars == <<alerts, openLogs>>
brokerVars == <<last, queue, eta, retries>>
localVars == <<alert, sent>>
historyVars == <<overlapped, ignored, completed, raised, mails>>
boundVars == <<faults, crashes>>
vars == <<state, dbVars, event, brokerVars, pc, localVars, historyVars, boundVars>>

Event == 1 .. MaxEvents

Alert == [kind: {"Down", "Warning", "Paused"}, resolved: BOOLEAN,
          label: {"Pending", "ISP", "Support", "failed"}]

Running == {"received", "dispatched", "alerted", "acted", "worked", "returned"}
PC == {"unreported", "queued", "acked", "dead"} \cup Running

StoreTypeOK ==
    /\ state \in Status \cup {"none"}
    /\ alerts \in Seq(Alert)
    /\ openLogs \in SUBSET Event

BrokerTypeOK ==
    /\ event \in [Event -> Reported]
    /\ last \in 0 .. MaxEvents
    /\ queue \in Seq(Event)
    /\ eta \in SUBSET Event
    /\ retries \in [Event -> 0 .. MaxRetries]

TaskTypeOK ==
    /\ pc \in [Event -> PC]
    /\ alert \in [Event -> Nat]
    /\ sent \in [Event -> BOOLEAN]

HistoryTypeOK ==
    /\ overlapped \in BOOLEAN
    /\ ignored \in SUBSET Event
    /\ completed \in SUBSET Event
    /\ raised \in [Event -> Nat]
    /\ mails \in [Event -> Nat]

BoundsOK == faults \in 0 .. MaxFaults /\ crashes \in 0 .. MaxCrashes

\* Every variable keeps its type; no message is retried more than max_retries.
TypeOK == StoreTypeOK /\ BrokerTypeOK /\ TaskTypeOK /\ HistoryTypeOK /\ BoundsOK

Init ==
    /\ state = "none"
    /\ alerts = <<>>
    /\ openLogs = {}
    /\ event \in [Event -> Reported]
    /\ last = 0
    /\ queue = <<>>
    /\ eta = {}
    /\ pc = [m \in Event |-> "unreported"]
    /\ retries = [m \in Event |-> 0]
    /\ alert = [m \in Event |-> 0]
    /\ sent = [m \in Event |-> FALSE]
    /\ overlapped = FALSE
    /\ ignored = {}
    /\ completed = {}
    /\ raised = [m \in Event |-> 0]
    /\ mails = [m \in Event |-> 0]
    /\ faults = 0
    /\ crashes = 0

Fault == faults < MaxFaults /\ faults' = faults + 1

Goto(m, label) == pc' = [pc EXCEPT ![m] = label]

\* The workflow's local variables end with it.
Forget(m) ==
    /\ alert' = [alert EXCEPT ![m] = 0]
    /\ sent' = [sent EXCEPT ![m] = FALSE]

\* The workflow returns to the task.
Complete(m) ==
    /\ Goto(m, "worked")
    /\ completed' = completed \cup {m}
    /\ Forget(m)

(***************************************************************************)
(* The queue                                                               *)
(***************************************************************************)

\* PRTG posts an event; receive_prtg_webhook queues it and answers 200.
ReceiveWebhook ==
    /\ last < MaxEvents
    /\ last' = last + 1
    /\ queue' = Append(queue, last')
    /\ Goto(last', "queued")
    /\ UNCHANGED <<state, dbVars, event, eta, retries, localVars, historyVars, boundVars>>

UnderWay == {m \in Event : pc[m] \in Running}
FreeWorker == Cardinality(UnderWay) < Workers

\* A worker takes the next message, or one whose countdown has run out.
Deliver(m) ==
    /\ pc[m] = "queued"
    /\ FreeWorker
    /\ \/ /\ queue # <<>> /\ m = Head(queue)
          /\ queue' = Tail(queue)
          /\ UNCHANGED eta
       \/ /\ m \in eta
          /\ eta' = eta \ {m}
          /\ UNCHANGED queue
    /\ Goto(m, "received")
    /\ overlapped' =
          (overlapped \/ \E n \in UnderWay : "Up" \in {event[m], event[n]})
    /\ UNCHANGED <<state, dbVars, event, last, retries, localVars, ignored, completed,
                   raised, mails, boundVars>>

\* Late acknowledgement: the message is done once the task has returned.
Acknowledge(m) ==
    /\ pc[m] = "returned"
    /\ Goto(m, "acked")
    /\ UNCHANGED <<state, dbVars, event, brokerVars, localVars, historyVars, boundVars>>

\* Faulty: a retry that starts the count of retries over.
RetryUncounted(m) ==
    /\ Fault
    /\ pc[m] \in {"dispatched", "alerted", "acted"}
    /\ eta' = eta \cup {m}
    /\ Goto(m, "queued")
    /\ Forget(m)
    /\ UNCHANGED <<state, dbVars, event, last, queue, retries, historyVars, crashes>>

\* Faulty: a retry without a limit.
RetryUnlimited(m) ==
    /\ Fault
    /\ pc[m] \in {"dispatched", "alerted", "acted"}
    /\ retries' = [retries EXCEPT ![m] = @ + 1]
    /\ eta' = eta \cup {m}
    /\ Goto(m, "queued")
    /\ Forget(m)
    /\ UNCHANGED <<state, dbVars, event, last, queue, historyVars, crashes>>

\* A transaction of the workflow fails, or the soft time limit interrupts it:
\* the exception reaches the task, which retries later; when no retry is left
\* the message is rejected and dead-lettered.
Retry(m) ==
    /\ Fault
    /\ pc[m] \in {"dispatched", "alerted", "acted"}
    /\ \/ /\ retries[m] < MaxRetries
          /\ retries' = [retries EXCEPT ![m] = @ + 1]
          /\ eta' = eta \cup {m}
          /\ Goto(m, "queued")
       \/ /\ retries[m] = MaxRetries
          /\ Goto(m, "dead")
          /\ UNCHANGED <<retries, eta>>
    /\ Forget(m)
    /\ UNCHANGED <<state, dbVars, event, last, queue, historyVars, crashes>>

\* Faulty: the message was acknowledged when the worker took it.
LoseMessage(m) ==
    /\ crashes < MaxCrashes
    /\ crashes' = crashes + 1
    /\ pc[m] \in Running
    /\ Goto(m, "unreported")
    /\ Forget(m)
    /\ UNCHANGED <<state, dbVars, event, brokerVars, historyVars, faults>>

\* A worker process dies: RabbitMQ puts its message back where it was.
LoseWorker(m) ==
    /\ crashes < MaxCrashes
    /\ crashes' = crashes + 1
    /\ pc[m] \in Running
    /\ queue' = <<m>> \o queue
    /\ Goto(m, "queued")
    /\ Forget(m)
    /\ UNCHANGED <<state, dbVars, event, last, eta, retries, historyVars, faults>>

(***************************************************************************)
(* Deduplication                                                           *)
(***************************************************************************)

\* is_duplicate_alert finds the status of the event in Redis: it is ignored.
IgnoreDuplicate(m) ==
    /\ pc[m] = "received"
    /\ state = event[m]
    /\ ignored' = ignored \cup {m}
    /\ Goto(m, "returned")
    /\ UNCHANGED <<state, dbVars, event, brokerVars, localVars, overlapped, completed, raised, mails, boundVars>>

\* Faulty: the status is recorded before the workflow runs.
DispatchRecorded(m) ==
    /\ pc[m] = "received"
    /\ state # event[m]
    /\ Goto(m, "dispatched")
    /\ state' = event[m]
    /\ UNCHANGED <<dbVars, event, brokerVars, localVars, historyVars, boundVars>>

\* It finds another status, or none: the workflow of the event's status runs.
Dispatch(m) ==
    /\ pc[m] = "received"
    /\ state # event[m]
    /\ Goto(m, "dispatched")
    /\ UNCHANGED <<state, dbVars, event, brokerVars, localVars, historyVars, boundVars>>

\* Redis does not answer: the check fails open.
DispatchUnchecked(m) ==
    /\ Fault
    /\ pc[m] = "received"
    /\ Goto(m, "dispatched")
    /\ UNCHANGED <<state, dbVars, event, brokerVars, localVars, historyVars, crashes>>

\* Faulty: only problems are recorded, so an Up leaves the status of the outage.
RecordProblemState(m) ==
    /\ pc[m] = "worked"
    /\ state' = IF event[m] = "Up" THEN state ELSE event[m]
    /\ Goto(m, "returned")
    /\ UNCHANGED <<dbVars, event, brokerVars, localVars, historyVars, boundVars>>

\* The workflow has returned: set_sensor_state records the status.
SetSensorState(m) ==
    /\ pc[m] = "worked"
    /\ state' = event[m]
    /\ Goto(m, "returned")
    /\ UNCHANGED <<dbVars, event, brokerVars, localVars, historyVars, boundVars>>

\* Redis does not answer: the old status stays, the task returns all the same.
SetSensorStateFails(m) ==
    /\ Fault
    /\ pc[m] = "worked"
    /\ Goto(m, "returned")
    /\ UNCHANGED <<state, dbVars, event, brokerVars, localVars, historyVars, crashes>>

\* The TTL of the status, a day, has run out.
StateTTL ==
    /\ StateExpires /\ state # "none"
    /\ state' = "none"
    /\ UNCHANGED <<dbVars, event, brokerVars, pc, localVars, historyVars, boundVars>>

(***************************************************************************)
(* The workflows                                                           *)
(***************************************************************************)

Raises(m) == event[m] \in {"Down", "Warning", "Paused"}

\* alerts with a new escalation_status for alert i; None (0) is no alert.
Labelled(i, label) ==
    [j \in DOMAIN alerts |->
        IF j = i THEN [alerts[j] EXCEPT !.label = label] ELSE alerts[j]]

\* The sensor or its site is not in the database: every workflow just returns.
SensorNotFound(m) ==
    /\ Fault
    /\ pc[m] = "dispatched"
    /\ Complete(m)
    /\ UNCHANGED <<state, dbVars, event, brokerVars, overlapped, ignored, raised, mails, crashes>>

\* Down, Warning, Paused, first transaction: the alert_history row.
CreateAlert(m) ==
    /\ pc[m] = "dispatched" /\ Raises(m)
    /\ alerts' = Append(alerts, [kind |-> event[m], resolved |-> FALSE,
                                 label |-> "Pending"])
    /\ alert' = [alert EXCEPT ![m] = Len(alerts) + 1]
    /\ raised' = [raised EXCEPT ![m] = @ + 1]
    /\ Goto(m, "alerted")
    /\ UNCHANGED <<state, openLogs, event, brokerVars, sent, overlapped, ignored, completed, mails, boundVars>>

\* The row cannot be created: logged, and the workflow goes on without it.
CreateAlertFails(m) ==
    /\ Fault
    /\ pc[m] = "dispatched" /\ Raises(m)
    /\ Goto(m, "alerted")
    /\ UNCHANGED <<state, dbVars, event, brokerVars, localVars, historyVars, crashes>>

\* Down, the diagnostic ends well: open logs are closed, unless that fails.
PingRecovered(m) ==
    /\ pc[m] = "alerted" /\ event[m] = "Down"
    /\ \/ openLogs' = {} /\ UNCHANGED faults
       \/ Fault /\ UNCHANGED openLogs
    /\ Goto(m, "acted")
    /\ UNCHANGED <<state, alerts, event, brokerVars, localVars, historyVars, crashes>>

\* Down, the site is unreachable: the ISP gets an e-mail, recorded at the alert
\* unless that fails.  Without an alert nothing is sent.
PingUnreachable(m) ==
    /\ pc[m] = "alerted" /\ event[m] = "Down"
    /\ mails' = IF alert[m] = 0 THEN mails ELSE [mails EXCEPT ![m] = @ + 1]
    /\ \/ alerts' = Labelled(alert[m], "ISP") /\ UNCHANGED faults
       \/ Fault /\ UNCHANGED alerts
    /\ Goto(m, "acted")
    /\ UNCHANGED <<state, openLogs, event, brokerVars, localVars, overlapped, ignored, completed, raised, crashes>>

\* Down, the diagnostic or its e-mail fails: execute raises, the dispatch gives
\* up, or _handle_escalation records the failure.
PingFails(m) ==
    /\ Fault
    /\ pc[m] = "alerted" /\ event[m] = "Down"
    /\ alerts' \in {alerts, Labelled(alert[m], "failed")}
    /\ Goto(m, "acted")
    /\ UNCHANGED <<state, openLogs, event, brokerVars, localVars, historyVars, crashes>>

\* Warning, Paused: the support team gets an e-mail, with or without an alert.
MailSupport(m) ==
    /\ pc[m] = "alerted" /\ event[m] # "Down"
    /\ \/ /\ sent' = [sent EXCEPT ![m] = TRUE]
          /\ mails' = [mails EXCEPT ![m] = @ + 1]
          /\ UNCHANGED faults
       \/ Fault /\ UNCHANGED <<sent, mails>>
    /\ Goto(m, "acted")
    /\ UNCHANGED <<state, dbVars, event, brokerVars, alert, overlapped, ignored, completed, raised, crashes>>

\* Warning, Paused, second transaction: the escalation and an OPENED log.  A
\* rejected escalation is logged and left out; a rejected log rolls back both.
RecordSupport(m) ==
    /\ pc[m] = "acted" /\ event[m] # "Down"
    /\ \/ /\ alerts' = Labelled(alert[m], IF sent[m] THEN "Support" ELSE "failed")
          /\ openLogs' = openLogs \cup {m}
          /\ UNCHANGED faults
       \/ Fault /\ openLogs' = openLogs \cup {m} /\ UNCHANGED alerts
       \/ Fault /\ UNCHANGED dbVars
    /\ Complete(m)
    /\ UNCHANGED <<state, event, brokerVars, overlapped, ignored, raised, mails, crashes>>

\* The last transaction of Down, the only one of Unusual: an OPENED log.  A
\* rejected row is logged and left out.
WriteLog(m) ==
    /\ \/ pc[m] = "acted" /\ event[m] = "Down"
       \/ pc[m] = "dispatched" /\ event[m] = "Unusual"
    /\ \/ openLogs' = openLogs \cup {m} /\ UNCHANGED faults
       \/ Fault /\ UNCHANGED openLogs
    /\ Complete(m)
    /\ UNCHANGED <<state, alerts, event, brokerVars, overlapped, ignored, raised, mails, crashes>>

\* list_for_sensor(limit=20): the most recent alerts.
Recent(i) == i + RecentLimit > Len(alerts)

\* Faulty: the Up workflow resolves the newest alert only.
ResolveNewest(m) ==
    /\ pc[m] = "dispatched" /\ event[m] = "Up"
    /\ openLogs' = {}
    /\ alerts' = [i \in DOMAIN alerts |->
          IF i = Len(alerts) THEN [alerts[i] EXCEPT !.resolved = TRUE] ELSE alerts[i]]
    /\ Complete(m)
    /\ UNCHANGED <<state, event, brokerVars, overlapped, ignored, raised, mails, boundVars>>

\* Up, its one transaction: open logs are closed and recent alerts resolved.
ResolveAlerts(m) ==
    /\ pc[m] = "dispatched" /\ event[m] = "Up"
    /\ openLogs' = {}
    /\ alerts' = [i \in DOMAIN alerts |->
          IF Recent(i) THEN [alerts[i] EXCEPT !.resolved = TRUE] ELSE alerts[i]]
    /\ Complete(m)
    /\ UNCHANGED <<state, event, brokerVars, overlapped, ignored, raised, mails, boundVars>>

\* The update of an alert or the CLOSED log is rejected: the repository rolls the
\* whole session back, the error is logged, and neither logs nor alerts change.
ResolveRolledBack(m) ==
    /\ Fault
    /\ pc[m] = "dispatched" /\ event[m] = "Up"
    /\ Complete(m)
    /\ UNCHANGED <<state, dbVars, event, brokerVars, overlapped, ignored, raised, mails, crashes>>

(***************************************************************************)
(* Specification                                                           *)
(***************************************************************************)

Workflow(m) ==
    \/ SensorNotFound(m)
    \/ CreateAlert(m) \/ CreateAlertFails(m)
    \/ PingRecovered(m) \/ PingUnreachable(m) \/ PingFails(m)
    \/ MailSupport(m) \/ RecordSupport(m)
    \/ WriteLog(m)
    \/ ResolveAlerts(m) \/ ResolveRolledBack(m)

Task(m) ==
    \/ IgnoreDuplicate(m) \/ Dispatch(m) \/ DispatchUnchecked(m)
    \/ Workflow(m)
    \/ SetSensorState(m) \/ SetSensorStateFails(m)
    \/ Acknowledge(m)

Next ==
    \/ ReceiveWebhook
    \/ StateTTL
    \/ \E m \in Event : Deliver(m) \/ Task(m) \/ Retry(m) \/ LoseWorker(m)

Spec == Init /\ [][Next]_vars

\* Some worker goes on as long as a message can be taken or a task can step.
Progress == \E m \in Event : Deliver(m) \/ Task(m)

Fairness == WF_vars(Progress)

FairSpec == Spec /\ Fairness

(***************************************************************************)
(* Properties                                                              *)
(***************************************************************************)

\* An event is ignored only if the workflow of an event of its status has run
\* to its end: neither the first delivery of a status nor the retry of a failed
\* one is mistaken for a duplicate (tasks.py, check at 120, write at 138).
IgnoredWasHandled ==
    \A m \in ignored : \E n \in completed : event[n] = event[m]

\* Retries and redeliveries repeat effects, but an attempt creates at most one
\* alert and sends at most one e-mail, and attempts are bounded.
Attempts(m) == retries[m] + 1 + crashes

EffectsBounded ==
    \A m \in Event : raised[m] <= Attempts(m) /\ mails[m] <= Attempts(m)

\* Every queued event is acknowledged or dead-lettered, whatever fails.
EventsSettle ==
    \A m \in Event : pc[m] = "queued" ~> pc[m] \in {"acked", "dead"}

OpenAlerts == {i \in DOMAIN alerts : ~alerts[i].resolved}

\* A Down event is dropped as a duplicate only while an alert of its outage is
\* open ("to ensure outages are never silently dropped", redis_cache.py:82).
OutagesRaised ==
    [][\A m \in Event : (pc[m] = "received" /\ pc'[m] = "returned" /\ event[m] = "Down")
          => \E i \in OpenAlerts : alerts[i].kind = "Down"]_vars

\* What can leave the status in Redis and the tables at odds: an error the code logs
\* and goes on from, or a recovery that was handled while another event was.
Disturbed == faults > 0 \/ overlapped

\* Without one of these two a Down event is dropped only while an alert of its outage
\* is open, however many workers there are, and whatever expired or was redelivered.
OutagesDroppedForCause ==
    [][\A m \in Event : (pc[m] = "received" /\ pc'[m] = "returned" /\ event[m] = "Down")
          => Disturbed \/ \E i \in OpenAlerts : alerts[i].kind = "Down"]_vars

AtRest == \A m \in Event : pc[m] \in {"unreported", "acked"}

\* When everything reported has been handled and the last report is Up, then, unless
\* one of the two has happened, no log of the sensor is open, and an alert is open
\* only if RecentLimit later ones hide it from the Up workflow (up_processor.py:73,
\* 77, 79).
RecoveryClosesAll ==
    (AtRest /\ last > 0 /\ event[last] = "Up" /\ ~Disturbed) =>
        /\ openLogs = {}
        /\ \A i \in OpenAlerts : Len(alerts) >= i + RecentLimit
===============================================================================
