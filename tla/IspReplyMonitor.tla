--------------------------- MODULE IspReplyMonitor ---------------------------
(***************************************************************************)
(* Automated reminders to an ISP that does not answer an escalation.       *)
(*                                                                         *)
(* Three kinds of Celery task share the monitor keys kept in Redis:        *)
(*   - the Down workflow escalates an alert by e-mail and registers a      *)
(*     monitor for it (clients/smtp_client.py, _handle_escalation);        *)
(*   - Celery Beat starts a scan every five minutes, which reminds the     *)
(*     ISP or gives up (services/isp_monitor_service.py, run_scan);        *)
(*   - an inbound reply cancels the monitor (handle_reply_received).       *)
(* A monitor is identified by its alert: an escalation e-mail has one      *)
(* Message-ID and belongs to one alert.  One Redis command (or MULTI       *)
(* pipeline), one database transaction or one SMTP dialogue is one step.   *)
(***************************************************************************)
EXTENDS Naturals

CONSTANTS
    Alerts,            \* alerts escalated to an ISP
    Workers,           \* Celery worker slots that may run a scan
    Replies,           \* inbound e-mails of the ISP
    NoAlert,           \* "no monitor is being processed"
    MaxReminders,      \* settings.isp_max_reminders
    MaxFaults,         \* bound: swallowed Redis, database and SMTP errors
    MaxCrashes,        \* bound: lost worker processes
    LockOutlivesScan,  \* TRUE: no scan lasts longer than the lock's TTL
    KeysExpire         \* TRUE: the seven day TTL of a monitor may run out

ASSUME ConstantsAssumption ==
    /\ NoAlert \notin Alerts
    /\ MaxReminders \in Nat
    /\ MaxFaults \in Nat
    /\ MaxCrashes \in Nat
    /\ LockOutlivesScan \in BOOLEAN
    /\ KeysExpire \in BOOLEAN

VARIABLES
    (* Redis *)
    monitor,     \* isp:monitor:<message id>
    index,       \* isp:monitor:index, the set the scans read
    alertKey,    \* alerts with an isp:monitor:alert:<alert id> key
    lock,        \* isp:monitor:lock:scan is set
    (* PostgreSQL *)
    status,      \* alert_history.escalation_status
    rows,        \* reminder_history: how many rows carry a number
    open,        \* reminder_history: numbers with response_received = false
    (* processes *)
    escalation,  \* progress of _handle_escalation
    pc,          \* progress of the scan in a worker slot
    seen,        \* the scan's list of states still to be processed
    cur,         \* the monitor the scan is processing
    copy,        \* the state it read in update_monitor or stop_monitoring
    reply,       \* progress of process_incoming_email_task
    (* history of what the outside world saw, and the bounds *)
    marked,      \* alerts whose monitor a reply cancelled in Redis
    total,       \* reminders the ISP received
    late,        \* reminders it received from a worker after the cancel
    elapsed,     \* alerts whose timeout elapsed since the last reminder
    notified,    \* alerts the support team was told about
    faults, crashes

redisVars == <<monitor, index, alertKey, lock>>
dbVars == <<status, rows, open>>
scanVars == <<pc, seen, cur, copy>>
historyVars == <<marked, total, late, elapsed, notified>>
boundVars == <<faults, crashes>>
vars == <<redisVars, dbVars, escalation, scanVars, reply, historyVars, boundVars>>

(***************************************************************************)
(* Types                                                                   *)
(***************************************************************************)

\* The JSON value of a monitor key; due: next_reminder_time has passed.
Monitor == [stored: BOOLEAN, count: Nat, responded: BOOLEAN,
            active: BOOLEAN, due: BOOLEAN]

NoMonitor == [stored |-> FALSE, count |-> 0, responded |-> FALSE,
              active |-> FALSE, due |-> FALSE]

NewMonitor == [stored |-> TRUE, count |-> 0, responded |-> FALSE,
               active |-> TRUE, due |-> FALSE]

Number == 1 .. MaxReminders

EscalationPC == {"new", "emailed", "unsent", "committed", "registered",
                 "unmonitored"}
ScanPC == {"idle", "locked", "scan", "record", "update", "write", "stop",
           "unindex", "unkey", "flag", "notify"}
ReplyPC == {"none", "queued", "stored", "mark", "rows", "done", "dead"}
Status == {"none", "failed", "escalated", "reminded", "exhausted"}

\* known: the monitor was already registered when the reply arrived.
Reply == [pc: ReplyPC, alert: Alerts \cup {NoAlert}, copy: Monitor,
          known: BOOLEAN]

NoReply == [pc |-> "none", alert |-> NoAlert, copy |-> NoMonitor,
            known |-> FALSE]

RedisTypeOK ==
    /\ monitor \in [Alerts -> Monitor]
    /\ index \in SUBSET Alerts
    /\ alertKey \in SUBSET Alerts
    /\ lock \in BOOLEAN

DbTypeOK ==
    /\ status \in [Alerts -> Status]
    /\ rows \in [Alerts -> [Number -> Nat]]
    /\ open \in [Alerts -> SUBSET Number]

ScanTypeOK ==
    /\ pc \in [Workers -> ScanPC]
    /\ seen \in [Workers -> [Alerts -> Monitor]]
    /\ cur \in [Workers -> Alerts \cup {NoAlert}]
    /\ copy \in [Workers -> Monitor]

TaskTypeOK ==
    /\ escalation \in [Alerts -> EscalationPC]
    /\ reply \in [Replies -> Reply]

HistoryTypeOK ==
    /\ marked \in SUBSET Alerts
    /\ total \in [Alerts -> Nat]
    /\ late \in [Alerts -> [Workers -> Nat]]
    /\ elapsed \in SUBSET Alerts
    /\ notified \in SUBSET Alerts

BoundsOK == faults \in 0 .. MaxFaults /\ crashes \in 0 .. MaxCrashes

\* Every variable keeps its type: no reminder is recorded in reminder_history with a
\* number past isp_max_reminders, no error path leaves a half-built state.
TypeOK ==
    RedisTypeOK /\ DbTypeOK /\ ScanTypeOK /\ TaskTypeOK /\ HistoryTypeOK /\ BoundsOK

Init ==
    /\ monitor = [a \in Alerts |-> NoMonitor]
    /\ index = {}
    /\ alertKey = {}
    /\ lock = FALSE
    /\ status = [a \in Alerts |-> "none"]
    /\ rows = [a \in Alerts |-> [n \in Number |-> 0]]
    /\ open = [a \in Alerts |-> {}]
    /\ escalation = [a \in Alerts |-> "new"]
    /\ pc = [w \in Workers |-> "idle"]
    /\ seen = [w \in Workers |-> [a \in Alerts |-> NoMonitor]]
    /\ cur = [w \in Workers |-> NoAlert]
    /\ copy = [w \in Workers |-> NoMonitor]
    /\ reply = [r \in Replies |-> NoReply]
    /\ marked = {}
    /\ total = [a \in Alerts |-> 0]
    /\ late = [a \in Alerts |-> [w \in Workers |-> 0]]
    /\ elapsed = {}
    /\ notified = {}
    /\ faults = 0
    /\ crashes = 0

\* An error the code logs and swallows; the bound keeps TLC's runs finite.
Fault ==
    /\ faults < MaxFaults
    /\ faults' = faults + 1
    /\ UNCHANGED crashes

Crash ==
    /\ crashes < MaxCrashes
    /\ crashes' = crashes + 1
    /\ UNCHANGED faults

NoFault == UNCHANGED boundVars

(***************************************************************************)
(* Escalation: send, then one transaction, then the Redis registration.    *)
(***************************************************************************)

\* An EmailDispatchError is logged; the attempt is recorded all the same.
SendEscalation(a) ==
    /\ escalation[a] = "new"
    /\ \/ escalation' = [escalation EXCEPT ![a] = "emailed"] /\ NoFault
       \/ escalation' = [escalation EXCEPT ![a] = "unsent"] /\ Fault
    /\ UNCHANGED <<redisVars, dbVars, scanVars, reply, historyVars>>

\* Escalation record, outgoing thread row and alert status in one transaction.
CommitEscalation(a) ==
    /\ \/ /\ escalation[a] = "emailed"
          /\ escalation' = [escalation EXCEPT ![a] = "committed"]
          /\ status' = [status EXCEPT ![a] = "escalated"]
          /\ NoFault
       \/ /\ escalation[a] = "unsent"
          /\ escalation' = [escalation EXCEPT ![a] = "unmonitored"]
          /\ status' = [status EXCEPT ![a] = "failed"]
          /\ NoFault
       \/ /\ escalation[a] \in {"emailed", "unsent"}
          /\ escalation' = [escalation EXCEPT ![a] = "unmonitored"]
          /\ status' = status
          /\ Fault
    /\ UNCHANGED <<redisVars, rows, open, scanVars, reply, historyVars>>

RegisterMonitor(a) ==
    /\ escalation[a] = "committed"
    /\ \/ /\ escalation' = [escalation EXCEPT ![a] = "registered"]
          /\ monitor' = [monitor EXCEPT ![a] = NewMonitor]
          /\ alertKey' = alertKey \cup {a}
          /\ index' = index \cup {a}
          /\ NoFault
       \/ /\ escalation' = [escalation EXCEPT ![a] = "unmonitored"]
          /\ UNCHANGED <<monitor, alertKey, index>>
          /\ Fault
    /\ UNCHANGED <<lock, dbVars, scanVars, reply, historyVars>>

\* The task is redelivered, but its next run escalates an alert of its own.
CrashEscalation(a) ==
    /\ escalation[a] \in {"emailed", "unsent", "committed"}
    /\ escalation' = [escalation EXCEPT ![a] = "unmonitored"]
    /\ Crash
    /\ UNCHANGED <<redisVars, dbVars, scanVars, reply, historyVars>>

(***************************************************************************)
(* Time.  Only what a scan can read matters: the flag of an indexed key.   *)
(***************************************************************************)

TimeoutElapses(a) ==
    /\ a \in index
    /\ monitor[a].stored /\ ~monitor[a].due
    /\ monitor' = [monitor EXCEPT ![a].due = TRUE]
    /\ elapsed' = elapsed \cup {a}
    /\ UNCHANGED <<index, alertKey, lock, dbVars, escalation, scanVars, reply,
                   marked, total, late, notified, boundVars>>

\* The monitor and its alert key were set with the same TTL by one pipeline.
MonitorExpires(a) ==
    /\ KeysExpire
    /\ monitor[a].stored
    /\ monitor' = [monitor EXCEPT ![a] = NoMonitor]
    /\ alertKey' = alertKey \ {a}
    /\ UNCHANGED <<index, lock, dbVars, escalation, scanVars, reply,
                   historyVars, boundVars>>

\* Faulty variant: SET NX without EX, so that only a release frees the lock.
LockNeverExpires == lock /\ ~lock /\ UNCHANGED vars

\* The TTL of the lock runs from the acquisition, whatever its holder does.
LockExpires ==
    /\ lock
    /\ LockOutlivesScan => \A w \in Workers : pc[w] = "idle"
    /\ lock' = FALSE
    /\ UNCHANGED <<monitor, index, alertKey, dbVars, escalation, scanVars,
                   reply, historyVars, boundVars>>

(***************************************************************************)
(* The scan                                                                *)
(***************************************************************************)

\* Faulty variant: SET without NX.
AcquireWithoutNX(w) ==
    /\ pc[w] = "idle"
    /\ lock' = TRUE
    /\ pc' = [pc EXCEPT ![w] = "locked"]
    /\ UNCHANGED <<monitor, index, alertKey, dbVars, escalation, seen, cur,
                   copy, reply, historyVars, boundVars>>

\* SET NX EX: a worker that finds the key returns at once.
AcquireScanLock(w) ==
    /\ pc[w] = "idle"
    /\ ~lock
    /\ lock' = TRUE
    /\ pc' = [pc EXCEPT ![w] = "locked"]
    /\ UNCHANGED <<monitor, index, alertKey, dbVars, escalation, seen, cur,
                   copy, reply, historyVars, boundVars>>

Pending(a) == monitor[a].stored /\ monitor[a].active /\ ~monitor[a].responded

\* Faulty variant: KEYS isp:monitor:* instead of the index.
GetEveryMonitor(w) ==
    /\ pc[w] = "locked"
    /\ pc' = [pc EXCEPT ![w] = "scan"]
    /\ seen' = [seen EXCEPT ![w] =
                  [a \in Alerts |-> IF Pending(a) THEN monitor[a] ELSE NoMonitor]]
    /\ index' = {a \in Alerts : Pending(a)}
    /\ UNCHANGED <<monitor, alertKey, lock, dbVars, escalation, cur, copy,
                   reply, historyVars, boundVars>>

\* The list of active states; every other member of the index is removed.
GetAllActiveMonitors(w) ==
    /\ pc[w] = "locked"
    /\ pc' = [pc EXCEPT ![w] = "scan"]
    /\ \/ LET live == {a \in index : Pending(a)}
          IN  /\ seen' = [seen EXCEPT ![w] =
                            [a \in Alerts |-> IF a \in live THEN monitor[a]
                                                            ELSE NoMonitor]]
              /\ index' = live
              /\ NoFault
       \/ \* a Redis error yields the empty list
          /\ UNCHANGED <<seen, index>>
          /\ Fault
    /\ UNCHANGED <<monitor, alertKey, lock, dbVars, escalation, cur, copy,
                   reply, historyVars>>

\* The next state of the list, in any order: SMEMBERS promises none.
InList(w, a) == pc[w] = "scan" /\ seen[w][a].stored

\* The state leaves the list and the scan goes on with the others.
Finish(w, a) ==
    /\ pc' = [pc EXCEPT ![w] = "scan"]
    /\ seen' = [seen EXCEPT ![w][a] = NoMonitor]
    /\ cur' = [cur EXCEPT ![w] = NoAlert]
    /\ copy' = [copy EXCEPT ![w] = NoMonitor]

Goto(w, label) == pc' = [pc EXCEPT ![w] = label]

SkipMonitor(w, a) ==
    /\ InList(w, a)
    /\ seen[w][a].count < MaxReminders
    /\ ~seen[w][a].due
    /\ Finish(w, a)
    /\ UNCHANGED <<redisVars, dbVars, escalation, reply, historyVars, boundVars>>

\* The e-mail leaves; the scan goes on with this monitor at the given label.
MailReminder(w, a, label) ==
    /\ Goto(w, label)
    /\ cur' = [cur EXCEPT ![w] = a]
    /\ total' = [total EXCEPT ![a] = @ + 1]
    /\ late' = IF a \in marked THEN [late EXCEPT ![a][w] = @ + 1] ELSE late
    /\ elapsed' = elapsed \ {a}
    /\ UNCHANGED <<redisVars, dbVars, escalation, seen, copy, reply, marked,
                   notified, boundVars>>

\* Faulty variant: the limit compared with <=.
SendOneTooMany(w, a) ==
    /\ InList(w, a)
    /\ seen[w][a].count <= MaxReminders
    /\ seen[w][a].due
    /\ MailReminder(w, a, "record")

\* Faulty variant: no reminder_history row.
SendUnrecorded(w, a) ==
    /\ InList(w, a)
    /\ seen[w][a].count < MaxReminders
    /\ seen[w][a].due
    /\ MailReminder(w, a, "update")

\* The decision and the number come from the scan's list, not from Redis.
SendReminder(w, a) ==
    /\ InList(w, a)
    /\ seen[w][a].count < MaxReminders
    /\ seen[w][a].due
    /\ MailReminder(w, a, "record")

\* A template or SMTP error: nothing is recorded, the next scan tries again.
SendReminderFails(w, a) ==
    /\ InList(w, a)
    /\ seen[w][a].count < MaxReminders
    /\ seen[w][a].due
    /\ Finish(w, a)
    /\ Fault
    /\ UNCHANGED <<redisVars, dbVars, escalation, reply, historyVars>>

ReminderNumber(w) == seen[w][cur[w]].count + 1

\* One transaction; when it fails the error is logged and the scan goes on.
RecordReminder(w) ==
    /\ pc[w] = "record"
    /\ Goto(w, "update")
    /\ \/ LET a == cur[w]
              n == ReminderNumber(w)
          IN  /\ rows' = [rows EXCEPT ![a][n] = @ + 1]
              /\ open' = [open EXCEPT ![a] = @ \cup {n}]
              /\ status' = [status EXCEPT ![a] = "reminded"]
              /\ NoFault
       \/ UNCHANGED dbVars /\ Fault
    /\ UNCHANGED <<redisVars, escalation, seen, cur, copy, reply, historyVars>>

\* update_monitor is a GET followed by a SETEX; without a key it does nothing.
ReadForUpdate(w) ==
    /\ pc[w] = "update"
    /\ IF monitor[cur[w]].stored
       THEN /\ Goto(w, "write")
            /\ copy' = [copy EXCEPT ![w] = monitor[cur[w]]]
            /\ UNCHANGED <<seen, cur>>
       ELSE Finish(w, cur[w])
    /\ UNCHANGED <<redisVars, dbVars, escalation, reply, historyVars, boundVars>>

\* SETEX of the copy with some fields set; the list entry is done.
SaveUpdate(w, state) ==
    /\ pc[w] = "write"
    /\ monitor' = [monitor EXCEPT ![cur[w]] = state]
    /\ Finish(w, cur[w])
    /\ UNCHANGED <<alertKey, lock, dbVars, escalation, reply, historyVars,
                   boundVars>>

\* Faulty variants: the count, the next reminder time, the index mishandled.
UpdateUncounted(w) ==
    SaveUpdate(w, [copy[w] EXCEPT !.due = FALSE]) /\ index' = index

UpdateStillDue(w) ==
    SaveUpdate(w, [copy[w] EXCEPT !.count = ReminderNumber(w)]) /\ index' = index

UpdateReindexing(w) ==
    /\ SaveUpdate(w, [copy[w] EXCEPT !.count = ReminderNumber(w), !.due = FALSE])
    /\ index' = index \cup {cur[w]}

\* The other fields are those of the copy, whatever Redis holds by now.
WriteUpdate(w) ==
    /\ SaveUpdate(w, [copy[w] EXCEPT !.count = ReminderNumber(w), !.due = FALSE])
    /\ index' = index

\* stop_monitoring: GET, SETEX, SREM and DEL are four separate commands.
ReadForStop(w, a) ==
    /\ InList(w, a)
    /\ seen[w][a].count >= MaxReminders
    /\ \/ /\ Goto(w, IF monitor[a].stored THEN "stop" ELSE "unindex")
          /\ copy' = [copy EXCEPT ![w] = monitor[a]]
          /\ NoFault
       \/ \* get_monitor logs an error and finds nothing
          /\ Goto(w, "unindex")
          /\ copy' = copy
          /\ Fault
    /\ cur' = [cur EXCEPT ![w] = a]
    /\ UNCHANGED <<redisVars, dbVars, escalation, seen, reply, historyVars>>

\* Faulty variant: the alert key is deleted first.
WriteStoppedKeyFirst(w) ==
    /\ pc[w] = "stop"
    /\ monitor' = [monitor EXCEPT ![cur[w]] = [copy[w] EXCEPT !.active = FALSE]]
    /\ alertKey' = alertKey \ {cur[w]}
    /\ Goto(w, "unindex")
    /\ UNCHANGED <<index, lock, dbVars, escalation, seen, cur, copy, reply,
                   historyVars, boundVars>>

WriteStopped(w) ==
    /\ pc[w] = "stop"
    /\ monitor' = [monitor EXCEPT ![cur[w]] = [copy[w] EXCEPT !.active = FALSE]]
    /\ Goto(w, "unindex")
    /\ UNCHANGED <<index, alertKey, lock, dbVars, escalation, seen, cur, copy,
                   reply, historyVars, boundVars>>

RemoveFromIndex(w) ==
    /\ pc[w] = "unindex"
    /\ index' = index \ {cur[w]}
    /\ Goto(w, "unkey")
    /\ UNCHANGED <<monitor, alertKey, lock, dbVars, escalation, seen, cur, copy,
                   reply, historyVars, boundVars>>

DeleteAlertKey(w) ==
    /\ pc[w] = "unkey"
    /\ alertKey' = alertKey \ {cur[w]}
    /\ Goto(w, "flag")
    /\ UNCHANGED <<monitor, index, lock, dbVars, escalation, seen, cur, copy,
                   reply, historyVars, boundVars>>

\* A Redis error ends stop_monitoring, and its caller does not notice.
StopFails(w) ==
    /\ pc[w] \in {"stop", "unindex", "unkey"}
    /\ Goto(w, "flag")
    /\ Fault
    /\ UNCHANGED <<redisVars, dbVars, escalation, seen, cur, copy, reply,
                   historyVars>>

FlagExhausted(w) ==
    /\ pc[w] = "flag"
    /\ Goto(w, "notify")
    /\ \/ status' = [status EXCEPT ![cur[w]] = "exhausted"] /\ NoFault
       \/ UNCHANGED status /\ Fault
    /\ UNCHANGED <<redisVars, rows, open, escalation, seen, cur, copy, reply,
                   historyVars>>

\* Faulty variant: no e-mail to the support team.
NoticeDropped(w) ==
    /\ pc[w] = "notify"
    /\ Finish(w, cur[w])
    /\ UNCHANGED <<redisVars, dbVars, escalation, reply, historyVars, boundVars>>

NotifySupport(w) ==
    /\ pc[w] = "notify"
    /\ notified' = notified \cup {cur[w]}
    /\ Finish(w, cur[w])
    /\ UNCHANGED <<redisVars, dbVars, escalation, reply, marked, total, late,
                   elapsed, boundVars>>

\* Errors of update_monitor and of the notice, and whatever the loop itself
\* catches (the soft time limit included): the state is abandoned.
MonitorAbandoned(w) ==
    /\ pc[w] \notin {"idle", "locked", "scan"}
    /\ Finish(w, cur[w])
    /\ Fault
    /\ UNCHANGED <<redisVars, dbVars, escalation, reply, historyVars>>

\* The key holds the word "locked", no owner: DELETE removes anybody's lock.
ReleaseScanLock(w) ==
    /\ pc[w] = "scan"
    /\ \A a \in Alerts : ~seen[w][a].stored
    /\ Goto(w, "idle")
    /\ \/ lock' = FALSE /\ NoFault
       \/ lock' = lock /\ Fault
    /\ UNCHANGED <<monitor, index, alertKey, dbVars, escalation, seen, cur,
                   copy, reply, historyVars>>

\* The process is killed: finally does not run and the lock stays.
CrashScan(w) ==
    /\ pc[w] # "idle"
    /\ Goto(w, "idle")
    /\ seen' = [seen EXCEPT ![w] = [a \in Alerts |-> NoMonitor]]
    /\ cur' = [cur EXCEPT ![w] = NoAlert]
    /\ copy' = [copy EXCEPT ![w] = NoMonitor]
    /\ Crash
    /\ UNCHANGED <<redisVars, dbVars, escalation, reply, historyVars>>

(***************************************************************************)
(* Replies                                                                 *)
(***************************************************************************)

SetReply(r, label) == reply' = [reply EXCEPT ![r].pc = label]

\* The mailbox watcher matches a reply by the thread row of the escalation.
ReplyArrives(r, a) ==
    /\ reply[r].pc = "none"
    /\ status[a] \in {"escalated", "reminded", "exhausted"}
    /\ reply' = [reply EXCEPT ![r] = [NoReply EXCEPT !.pc = "queued", !.alert = a,
                                      !.known = escalation[a] = "registered"]]
    /\ UNCHANGED <<redisVars, dbVars, escalation, scanVars, historyVars, boundVars>>

\* The transaction of the incoming thread row; it is skipped on redelivery.
StoreReply(r) ==
    /\ reply[r].pc = "queued"
    /\ \/ SetReply(r, "stored") /\ NoFault
       \/ SetReply(r, "dead") /\ Fault       \* after the last retry
    /\ UNCHANGED <<redisVars, dbVars, escalation, scanVars, historyVars>>

\* GET by a Message-ID the reply names, or by the alert key.
ReadForMark(r) ==
    LET a == reply[r].alert
    IN  /\ reply[r].pc = "stored"
        /\ \E named \in BOOLEAN :
              IF monitor[a].stored /\ (named \/ a \in alertKey)
              THEN reply' = [reply EXCEPT ![r].pc = "mark",
                                          ![r].copy = monitor[a]]
              ELSE SetReply(r, "rows")
        /\ UNCHANGED <<redisVars, dbVars, escalation, scanVars, historyVars,
                       boundVars>>

ReadForMarkFails(r) ==
    /\ reply[r].pc = "stored"
    /\ SetReply(r, "rows")
    /\ Fault
    /\ UNCHANGED <<redisVars, dbVars, escalation, scanVars, historyVars>>

\* Faulty variant: the pipeline without its SREM.
MarkWithoutSrem(r) ==
    LET a == reply[r].alert
    IN  /\ reply[r].pc = "mark"
        /\ monitor' = [monitor EXCEPT ![a] =
                         [reply[r].copy EXCEPT !.responded = TRUE, !.active = FALSE]]
        /\ alertKey' = alertKey \ {a}
        /\ marked' = marked \cup {a}
        /\ reply' = [reply EXCEPT ![r].pc = "rows", ![r].copy = NoMonitor]
        /\ UNCHANGED <<index, lock, dbVars, escalation, scanVars, total, late,
                       elapsed, notified, boundVars>>

\* One pipeline: SETEX of the copy as answered, SREM, DEL of the alert key.
MarkResponseReceived(r) ==
    LET a == reply[r].alert
    IN  /\ reply[r].pc = "mark"
        /\ monitor' = [monitor EXCEPT ![a] =
                         [reply[r].copy EXCEPT !.responded = TRUE, !.active = FALSE]]
        /\ index' = index \ {a}
        /\ alertKey' = alertKey \ {a}
        /\ marked' = marked \cup {a}
        /\ reply' = [reply EXCEPT ![r].pc = "rows", ![r].copy = NoMonitor]
        /\ UNCHANGED <<lock, dbVars, escalation, scanVars, total, late, elapsed,
                       notified, boundVars>>

MarkFails(r) ==
    /\ reply[r].pc = "mark"
    /\ reply' = [reply EXCEPT ![r].pc = "rows", ![r].copy = NoMonitor]
    /\ Fault
    /\ UNCHANGED <<redisVars, dbVars, escalation, scanVars, historyVars>>

MarkRemindersResponded(r) ==
    /\ reply[r].pc = "rows"
    /\ SetReply(r, "done")
    /\ \/ open' = [open EXCEPT ![reply[r].alert] = {}] /\ NoFault
       \/ UNCHANGED open /\ Fault
    /\ UNCHANGED <<redisVars, status, rows, escalation, scanVars, historyVars>>

\* acks_late: the message of a lost worker is delivered again.
CrashReply(r) ==
    /\ reply[r].pc \in {"stored", "mark", "rows"}
    /\ reply' = [reply EXCEPT ![r].pc = "queued", ![r].copy = NoMonitor]
    /\ Crash
    /\ UNCHANGED <<redisVars, dbVars, escalation, scanVars, historyVars>>

(***************************************************************************)
(* Specification                                                           *)
(***************************************************************************)

EscalationStep(a) == SendEscalation(a) \/ CommitEscalation(a) \/ RegisterMonitor(a)

\* The steps a running scan takes by itself.
ProcessMonitor(w) ==
    \/ \E a \in Alerts : \/ SkipMonitor(w, a)  \/ SendReminder(w, a)
                         \/ SendReminderFails(w, a) \/ ReadForStop(w, a)
    \/ RecordReminder(w) \/ ReadForUpdate(w) \/ WriteUpdate(w)
    \/ WriteStopped(w) \/ RemoveFromIndex(w) \/ DeleteAlertKey(w) \/ StopFails(w)
    \/ FlagExhausted(w) \/ NotifySupport(w) \/ MonitorAbandoned(w)

ScanStep(w) == GetAllActiveMonitors(w) \/ ProcessMonitor(w) \/ ReleaseScanLock(w)

ReplyStep(r) ==
    \/ StoreReply(r)
    \/ ReadForMark(r) \/ ReadForMarkFails(r)
    \/ MarkResponseReceived(r) \/ MarkFails(r)
    \/ MarkRemindersResponded(r)

Next ==
    \/ \E a \in Alerts : \/ EscalationStep(a) \/ CrashEscalation(a)
                         \/ TimeoutElapses(a) \/ MonitorExpires(a)
    \/ LockExpires
    \/ \E w \in Workers : AcquireScanLock(w) \/ ScanStep(w) \/ CrashScan(w)
    \/ \E r \in Replies : \/ \E a \in Alerts : ReplyArrives(r, a)
                          \/ ReplyStep(r) \/ CrashReply(r)

Spec == Init /\ [][Next]_vars

\* Beat keeps starting scans, clocks run, and Celery runs the tasks it holds.
Fairness ==
    /\ WF_vars(\E w \in Workers : AcquireScanLock(w))
    /\ WF_vars(LockExpires)
    /\ \A w \in Workers : WF_vars(ScanStep(w))
    /\ \A a \in Alerts : WF_vars(TimeoutElapses(a))
    /\ \A r \in Replies : WF_vars(ReplyStep(r))

FairSpec == Spec /\ Fairness

(***************************************************************************)
(* Properties                                                              *)
(***************************************************************************)

Scanning(w) == pc[w] # "idle"

\* As the docstring of acquire_scan_lock has it: scans do not overlap.
ScansExclusive ==
    \A v, w \in Workers : Scanning(v) /\ Scanning(w) => v = w

\* While the lock outlives every scan, scans do not overlap, and no crash,
\* failed release or unowned DELETE makes them.
LockProtectsScan == LockOutlivesScan => ScansExclusive

\* A reply that cancelled the monitor silences it, although update_monitor
\* and stop_monitoring may overwrite the answered state with an older copy:
\* a worker sends at most the one reminder of the list it read before.
ReplySilences == \A a \in Alerts, w \in Workers : late[a][w] <= 1

\* No ISP gets more than isp_max_reminders reminders, but for one more per
\* error or crash that kept a sent reminder from being counted in Redis.
RemindersBounded ==
    LockOutlivesScan =>
        \A a \in Alerts : total[a] <= MaxReminders + faults + crashes

\* Reminders are spaced by the reply timeout, unless a sent reminder was not
\* counted: each one answers for a timeout that elapsed after the one before.
RemindersSpaced ==
    [][LockOutlivesScan /\ faults = 0 /\ crashes = 0 =>
         \A a \in Alerts : total'[a] > total[a] => a \in elapsed]_vars

\* A scan decides on current data: what its list says of a monitor it has not
\* reached is what Redis says, as long as the monitor is indexed and stored.
ListIsCurrent ==
    LockOutlivesScan =>
        \A w \in Workers, a \in index :
            seen[w][a].stored /\ cur[w] # a /\ monitor[a].stored =>
                /\ seen[w][a].count = monitor[a].count
                /\ seen[w][a].due => monitor[a].due

\* The two stores agree: without errors or crashes, reminder_history has one
\* row for each number the Redis counter of an indexed monitor has reached,
\* and never a second row with the same number.
LedgerMatchesCounter ==
    LockOutlivesScan /\ faults = 0 /\ crashes = 0 =>
        \A a \in Alerts, n \in Number :
            /\ rows[a][n] <= 1
            /\ a \in index /\ n <= monitor[a].count => rows[a][n] = 1

\* A monitor that scans can see can be cancelled by a reply that names only
\* the alert: the alert key outlives the index entry.
AlertKeyBacksIndex == KeysExpire \/ index \subseteq alertKey

\* A handled reply to a registered monitor has cancelled it for good, unless
\* an error was swallowed, whatever scans and crashes ran in between.
AnsweredIsCancelled ==
    ~KeysExpire /\ faults = 0 =>
        \A r \in Replies :
            reply[r].pc = "done" /\ reply[r].known => reply[r].alert \notin index

\* As the comments at the call of handle_reply_received have it: processing a
\* reply cancels the reminder timers, so none is pending afterwards.
HandledReplyCancels ==
    faults = 0 =>
        \A r \in Replies :
            reply[r].pc = "done" => reply[r].alert \notin index

\* Once "Max Reminders Reached" is recorded, no later scan says "Reminder #n".
ExhaustedIsFinal ==
    [][LockOutlivesScan =>
         \A a \in Alerts : status[a] = "exhausted" => status'[a] # "reminded"]_vars

\* An alert enters the index once, at its registration: no reply, scan or
\* stale write brings a monitor back that has left it.
IndexedOnce ==
    [][\A a \in index' \ index : escalation[a] = "committed"]_vars

\* The reminder contract, with the index as the phase and the unprocessed
\* part of a scan's list as its grants.
Contract == INSTANCE ReminderContract WITH
    phase <- [a \in Alerts |-> IF a \in index THEN "on"
                               ELSE IF escalation[a] = "registered" THEN "closed"
                               ELSE "off"],
    granted <- [w \in Workers |->
                  {a \in Alerts : seen[w][a].stored /\ cur[w] # a}],
    sent <- total

ImplementsContract == Contract!Spec

\* Every monitor is eventually retired: answered, exhausted or given up.
MonitorsRetire == \A a \in Alerts : a \in index ~> a \notin index

\* Nobody is forgotten: unless an error or a crash interferes, a registered
\* monitor ends with an answer of the ISP or a notice to the support team.
SilenceIsReported ==
    \A a \in Alerts :
        escalation[a] = "registered" ~>
            (a \in marked \/ a \in notified \/ faults + crashes > 0)
=============================================================================
