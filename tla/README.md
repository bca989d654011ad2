# L1 Support Automation: specification, model checking and proofs

This directory specifies parts of the service in TLA+, checks small instances
with TLC and proves theorems with TLAPS. Paths and line numbers refer to the
repository's sources.

## 1. The system

PRTG posts sensor events to a webhook. Celery workers turn them into alerts,
diagnose the site by ping, escalate to the ISP by e-mail, remind an ISP that
does not answer, file its replies, and support staff close the incident through
a REST API. PostgreSQL holds the records, Redis the deduplication state, the
Message-ID cache and the reminder monitors, RabbitMQ the task queues, MinIO the
attachments.

| Component | State | Operations | What is hard | What makes it correct |
|---|---|---|---|---|
| ISP reply monitor (`cache/redis_cache.py`, `services/isp_monitor_service.py`) | monitor keys, index, alert keys, scan lock; `reminder_history`; escalation status | register, scan (remind, give up), cancel | three kinds of tasks on the same keys, read-then-write updates, a lock with a TTL, crashes | bounded, spaced reminders; silence after a reply; nobody forgotten |
| ISP escalation (`clients/smtp_client.py`) | escalation record, thread row | send, record, register | e-mail, database and Redis are three separate effects | a recorded escalation is monitored |
| Inbound e-mail task (`task_queue/tasks.py`) | thread rows, attachments, escalation flag | store, upload, cancel the monitor | redelivery, retries, two stores | idempotent; a handled reply cancels |
| Webhook task and deduplication (`api/webhook.py`, `tasks.py`, `IncidentStateTracker`) | last status per sensor | check, dispatch, record | check and write far apart, retries | no outage dropped, none doubled |
| Sensor workflows (`processors/*`) | `alert_history`, `sensor_logs` | Down, Up, Warning, Paused, Unusual | Down takes minutes and several transactions | a recovered sensor has no open alert or log |
| Ping diagnostic (`services/ping_service.py`) | batches, diagnostics | ten batches, recovered or escalate | timeouts, an executor thread that outlives its wait | one escalation per unreachable site |
| Incident closure (`services/closure_service.py`, `api/closure.py`, `api/root_cause.py`, `api/attachments.py`) | root cause, `resolved_at`, logs | attach, post root cause, close | concurrent requests, Up during closure | closed implies resolved and evidenced |
| Incident views (`services/incident_service.py`, `api/alerts.py`, `api/notifications.py`) | none | open, pending, history | two definitions of "pending", several statements per view | the lists cover every unclosed alert; a status never moves back |
| Mailbox watcher (`inbox_monitor.py`, `clients/email_utils.py`, `read_mail.py`) | IMAP flags, Message-ID cache | idle, fetch, match, publish | loss between fetch and publish, overlooked notices, a script on the same mailbox | a failure costs one message at most; the cache trails the database |
| Delivery and dead letters (`celery_app.py`, `tasks.py`) | queues | retry, dead-letter | retry exhaustion, redelivery | nothing disappears |
| Attachment storage (`services/minio_service.py`, `api/attachments.py`) | objects, `attachments` rows | upload, list, download | an object and its row are two effects | evidence that counts can be downloaded |
| Persistence, authentication, schemas, settings, logging | | | | see section 12 |

Interactions: the webhook task runs a workflow; Down calls the ping diagnostic,
which calls the escalation, which registers a monitor. The watcher publishes
matched mail; its task cancels the monitor. Beat starts the scans. Up and
closure both write `alert_history` and `sensor_logs`, and neither touches the
monitor.

## 2. Modules

| Module | Content |
|---|---|
| `IspReplyMonitor` | escalation, scan and reply tasks over the shared keys, with errors, crashes and time |
| `ReminderContract` | what the reminder machinery promises, without keys, lock or tasks; `IspReplyMonitor` implements it |
| `SensorAlerts` | webhook queue, worker slots, deduplication and the five workflows of one sensor, with retries, lost workers and errors |
| `IncidentClosure` | uploads, root causes, closures, histories and Up tasks as concurrent transactions with row locks |
| `IncidentLifecycle` | the status an engineer sees, open to closed; `IncidentClosure` implements it |
| `EmailIngestion` | mailbox, watcher, thread matching, cache, and the task of each reply |
| `PingDiagnostic` | the Down workflow's batches of pings and its escalation's thread |
| `MC...` | the instances TLC checks, with the `.cfg` files |
| `IspReplyMonitorProofs`, `IspContractProofs`, `IspReminderProofs` | theorems about `IspReplyMonitor`, each module extending the one before: types and silence after a reply; the contract and the cancellation by a reply; what holds while the lock outlives the scans |
| `SensorAlertsProofs`, `SensorOutageProofs` | theorems about `SensorAlerts`, for any number of workers: types, duplicates and effects; recoveries and outages |
| `IncidentClosureProofs`, `EmailIngestionProofs`, `PingDiagnosticProofs` | the theorems about the other modules |

Each module ends with its properties. The faulty variants used to test them
(marked `Faulty`) stand before the definitions they replace and are part of no
specification.

How they fit. `SensorAlerts` runs the workflows; its steps `PingRecovered`,
`PingUnreachable` and `PingFails` are what `PingDiagnostic` takes apart. The
escalation that ends there starts `IspReplyMonitor`, and the row it commits is
what `EmailIngestion` matches replies with (`RecordOutgoing`). The last step of
an e-mail task, `Acknowledge`, hides the calls `IspReplyMonitor` models from
`StoreReply` on. Up appears in `SensorAlerts` as one transaction among tasks, in
`IncidentClosure` statement by statement among requests. The modules are not
composed into one (section 11).

## 3. IspReplyMonitor and the code

A step is one Redis command or `MULTI` pipeline, one database transaction, or
one SMTP dialogue: whatever lies between two such effects can be interleaved
with other tasks or cut off by a crash.

| Variable | In the code |
|---|---|
| `monitor[a]` | JSON of `isp:monitor:<message id>`: `reminder_count`, `response_received`, `monitoring_active`; `due` stands for `next_reminder_time` having passed |
| `index`, `alertKey`, `lock` | `isp:monitor:index`, `isp:monitor:alert:<id>`, `isp:monitor:lock:scan` |
| `status`, `rows`, `open` | `alert_history.escalation_status`; `reminder_history` rows per number; numbers not yet answered |
| `escalation`, `pc`, `reply` | where `_handle_escalation`, the scan of a worker and `process_incoming_email_task` are |
| `seen`, `cur`, `copy` | the list a scan read, the entry it is at, the state it read before a write |
| `marked`, `total`, `late`, `elapsed`, `notified` | history: what ISP and support team saw |
| `faults`, `crashes` | errors and lost workers so far, bounded by `MaxFaults` and `MaxCrashes` |

| Actions | Code |
|---|---|
| `SendEscalation`, `CommitEscalation`, `RegisterMonitor` | `_handle_escalation`, `register_monitor` |
| `AcquireScanLock`, `GetAllActiveMonitors`, `ReleaseScanLock`, `LockExpires` | `run_scan` and the lock |
| `SkipMonitor`, `SendReminder`, `SendReminderFails`, `RecordReminder`, `ReadForUpdate`, `WriteUpdate` | `_process_single_monitor`, `_send_and_record_reminder`, `update_monitor` (GET, then SETEX) |
| `ReadForStop`, `WriteStopped`, `RemoveFromIndex`, `DeleteAlertKey`, `StopFails`, `FlagExhausted`, `NotifySupport` | `stop_monitoring` (four commands), `_emit_max_reminders_reached_notification` |
| `ReplyArrives`, `StoreReply`, `ReadForMark`, `MarkResponseReceived`, `MarkRemindersResponded` | `match_email_thread`, the transaction of the e-mail task, `mark_response_received`, `handle_reply_received` |
| `...Fails`, `MonitorAbandoned`, `Crash...`, `MonitorExpires`, `TimeoutElapses` | logged and swallowed errors, the soft time limit, lost workers, key TTLs, the clock |

Abstractions. A monitor is named by its alert, since one escalation e-mail has
one Message-ID and one alert. A reply names that Message-ID or, when it answers
a reminder, reaches the monitor by the alert key (`named` in `ReadForMark`).
SMEMBERS, the GET pipeline and the removal of stale members are one step: the
only write that removes nothing but members it found dead. The support address
is configured. Texts, headers and addresses are left out.

## 4. SensorAlerts and the code

A step is one Redis command, one database transaction or one e-mail; the ping
diagnostic is one step with the effect it ends in. Every key and query names
its sensor, so one sensor is modelled and any number of its events.

| Variable | In the code |
|---|---|
| `state` | Redis `state:sensor:<id>`, `none` when missing or expired |
| `alerts`, `openLogs` | `alert_history` rows of the sensor (kind, `resolved_at` set, `escalation_status`); events whose `sensor_logs` row is OPENED |
| `event`, `last` | the statuses PRTG reports and how many it has |
| `queue`, `eta`, `retries` | `prtg_webhook_queue`, messages a worker holds until their countdown ends, `request.retries` |
| `pc`, `alert`, `sent` | how far `process_prtg_webhook_task` is; `alert_id` and `email_sent` of its workflow |
| `ignored`, `completed`, `raised`, `mails` | history: duplicates, returned workflows, alerts and e-mails per event |
| `overlapped` | history: an Up has been under way together with another event |
| `faults`, `crashes` | errors and lost workers, bounded by `MaxFaults` and `MaxCrashes` |

| Actions | Code |
|---|---|
| `ReceiveWebhook`, `Deliver`, `Acknowledge`, `LoseWorker` | `receive_prtg_webhook`; late acknowledgement, redelivery and prefetch 1 (`celery_app.py:53-62`) |
| `IgnoreDuplicate`, `Dispatch`, `DispatchUnchecked` | `is_duplicate_alert` and the dispatch; Redis silent |
| `CreateAlert`, `CreateAlertFails`, `SensorNotFound` | first transaction of Down, Warning, Paused |
| `PingRecovered`, `PingUnreachable`, `PingFails`, `WriteLog` | the rest of Down (`WriteLog` also is Unusual) |
| `MailSupport`, `RecordSupport` | the rest of Warning and Paused, which differ in texts |
| `ResolveAlerts`, `ResolveRolledBack` | Up |
| `SetSensorState`, `SetSensorStateFails`, `StateTTL` | `set_sensor_state` and its TTL |
| `Retry` | the `except` of the task |

Celery. `self.retry(exc=exc)` raises `exc` itself when no retry is left, so the
task fails, the message is rejected and the broker dead-letters it; either way
it ends in the dead-letter queue. A retried message waits in a worker and may be
delivered in any order with the others; the message of a lost worker returns to
the head of the queue. The task's validation cannot fail, since the webhook
validated the payload with the same schema.

Errors. A rejected row (`IntegrityError`) rolls the session back and is
swallowed by the workflow; any other database error, and the soft time limit,
reaches the task (`Retry`). The dispatch thread that goes on after `wait_for` has
given up is in `PingDiagnostic`.

## 5. IncidentClosure and the code

One sensor, its alerts in the order they are raised, and a set of requests, each
of which is one call of the API or one task of the Up workflow. A session is a
READ COMMITTED transaction: a step is one SQL statement, an UPDATE locks its rows
until the commit, and nobody reads what is not committed. `held` is therefore
both the lock table and the pending writes: `Commit` applies them to the tables.

| Variable | In the code |
|---|---|
| `raised`, `resolved`, `cause`, `log` | `alert_history` rows, their `resolved_at` (named by the request that set it), their `root_cause` row (who wrote it, from which `resolved_at` its downtime was computed), `sensor_logs.log_status` |
| `objects`, `rows`, `mailed` | objects of uploads in MinIO; `attachments` rows of uploads; alerts with an attachment from an e-mail |
| `op`, `target`, `pc`, `retries` | what a request does, to which alert, how far it is; `request.retries` of an Up task |
| `read`, `found`, `label`, `todo` | `alert.resolved_at` as read; whether a root cause was found; the `current_status` of a history; alerts Up has still to resolve |
| `held` | rows written and not yet committed |
| `stale` | history: a transaction committed since the request read its alert |

| Actions | Code |
|---|---|
| `StoreObject`, `RejectFile`, `StoreFails`, `SaveMetadata` | `upload_attachment` of the API and of MinIO |
| `ReadAlert`, `Validate`, `Reject`, `ResolveAlert`, `FindRootCause`, `SaveRootCause`, `DuplicateRootCause`, `CloseOpenLogs` | `execute_closure_transaction`, `save_root_cause`, `upsert_for_alert` |
| `ClearLogs`, `ListAlerts`, `ResolveNewest`, `FinishUp`, `UpRolledBack` | `UpWorkflow.execute` |
| `ReadSummary`, `ReadRootCause` | `get_incident_history` |
| `Commit`, `Abort`, `Fail`, `DeadlockVictim` | end of a session; PostgreSQL breaks a deadlock |
| `RaiseAlert`, `OpenLog`, `MailAttachment` | Down, Warning, Paused; the e-mail task |
| `StatusLabel`, `OpenList`, `PendingList`, `Download` | `get_alert_summary`, `get_open_alerts`, `get_pending_closures`, `download_attachment` |

Row locks and deadlock detection are PostgreSQL's and marked external. The lock
order matters: closure updates the alert before the logs, Up the logs before the
alerts, so the two can deadlock, and one of them is failed. An error caught inside
Up that is no rejected row leaves its session unusable, and the next statement
fails the task (`Abort`). The form fields of a closure are left out: `Reject` may
happen whatever the evidence. `IncidentLifecycle` is the abstraction: its `status`
is `StatusLabel` of the committed tables.

## 6. EmailIngestion and the code

One escalation, the messages that may answer it or each other, one watcher
(`inbox_monitor.py` is a single process), a task per message.

| Variable | In the code |
|---|---|
| `outgoing`, `threads`, `answered`, `rows` | the escalation's dispatch; Message-IDs in `isp_email_threads`; `response_received`; rows in `attachments` |
| `arrived`, `seen`, `notice`, `overlooked` | INBOX, `\Seen`, how many EXISTS wait for the watcher's IDLE, unread messages no EXISTS announces any more |
| `ids`, `first` | In-Reply-To and References of a message, and the candidate tried first |
| `watcher`, `due`, `batch`, `stage`, `hit`, `known`, `ignored` | `monitor_inbox`, with the EXISTS of `idle_check`'s answer not yet searched for, and `process_new_email` of the least UID left |
| `cache` | `msgid:<id>`: missing, without (`"bare"`) or with the escalation's id |
| `task`, `retries`, `escalation`, `up`, `objects` | `process_incoming_email_task` of each message, its payload, its uploads |
| `faults`, `crashes`, `reads` | failed calls, lost processes, uses of `read_mail.py`, together at most `MaxTroubles` |

| Actions | Code |
|---|---|
| `RecordOutgoing`, `CacheOutgoing`, `OutgoingFails`, `Expire` | `_handle_escalation` and the mapping's TTL |
| `Arrive`, `ReadMail` | the mail server; `fetch_email_by_message_id`, whose `RFC822` fetch sets `\Seen` |
| `Connect`, `LeaveIdle`, `Notified`, `Idle`, `Disconnect`, `StopWatcher` | `monitor_inbox` |
| `Fetch`, `FetchFails`, `LookUpCache`, `LookUpThreads`, `CacheThread`, `IgnoreMessage`, `Publish`, `DropMessage` | `process_new_email`, `match_email_thread` |
| `StartTask`, `Upload`, `CommitMessage`, `CacheIncoming`, `Acknowledge`, `TaskFails`, `LoseWorker` | `process_incoming_email_task`, late acknowledgement |

`FetchFails` chooses whether the server had set `\Seen` when its answer was lost.
`TaskFails` may hit a task whose transaction has committed: the soft time limit
can pass later, and the answer to a commit can be lost; the retry then stores and
records the attachments again. Decoding, bodies and classification are left out.

IDLE. `LeaveIdle` is `idle_check` and `idle_done`: a time-out after 600 s or a
response other than EXISTS leaves IDLE without a search. From then until the next
IDLE the watcher is `working`, and a message that arrives may be `overlooked`: its
EXISTS comes with the answer to DONE or to another command, which
`inbox_monitor.py:212` discards. It may as well come late, with the next IDLE
(`notice`). An overlooked message is found by the next search.

Answer. `mark_response_received` may fail inside the task's transaction;
`tasks.py:266-277` logs the error, and the transaction commits without the answer
(`CommitMessage`). One case is left out: a SELECT there that the server itself
cancels leaves the transaction aborted, and what the code then takes for a commit
is a rollback.

## 7. PingDiagnostic and the code

One outage, from its Down task's first transaction to the end of its event loop.

| Variable | In the code |
|---|---|
| `job`, `batch`, `alert`, `opened` | `DownWorkflow.execute` and `PingIp.execute`; the alert's row; the OPENED row |
| `faults` | failed calls and processes no kill has ended so far |
| `ping`, `stuck` | the coroutines of a batch: waiting for the semaphore, with a process, killed, or with a verdict; processes that outlived their kill |
| `thread`, `mailed`, `escalated` | `send_alert_notification` in the executor, with what sendmail has reported (`sent`, `unsent`); the recipients, To and Cc, the server has accepted; the status in `escalation_records` |
| `diagnosed` | row in `ping_diagnostics` |

| Actions | Code |
|---|---|
| `RefuseTarget`, `SkipBatches`, `StartBatch`, `EndBatch` | `_validate_payload`, `execute` |
| `StartPing`, `StartFails`, `Exit`, `Kill`, `Reap`, `LeaveStuck` | `_run_ping_batch`, `_single_ping`, `_kill_process` |
| `CloseLogs`, `Persist`, `Dispatch`, `DispatchFails`, `Dispatched`, `GiveUp` | `_on_site_recovered`, `_persist_ping_diagnostic`, `_dispatch_smtp` |
| `Address`, `SendMail`, `Record` | `send_alert_notification`, `_handle_escalation` |
| `NoTarget`, `CreateAlert`, `CreateRaises` | first transaction of the workflow: nothing to diagnose; the alert, or none for want of a state or after an `IntegrityError`; another error |
| `OpenLog`, `OpenLogRaises`, `Finish` | the last transaction; `asyncio.run` waits for the executor, and returns or raises |

The workflow ends `untargeted` when the payload names no sensor or its sensor,
assignment or site is missing (`down_processor.py:40-43`, `61-82`): no ping, no log
and no error; `failed` when an error leaves it; `done` otherwise.

`SendMail`. `sendmail` succeeds when one recipient is accepted, and the refused
ones it returns are ignored (`smtp_client.py:156`): recorded as sent, the mail may
have reached the Cc alone. A call that fails after the server has accepted the mail,
as the answer to DATA or to QUIT may, reads as an error (`169-174`): recorded as not
sent though mailed. `RecordTruthful` says what is left.

A batch is recovered when its loss is below 100 %. The loss is rounded to two
decimals, so that of 20000 pings or more it reads 100.00 although one is answered
(`LossReadsTotal`). Round-trip times are left out. The job semaphore
(`_get_job_semaphore`) belongs to the event loop, and each task runs one of its own:
it never blocks and is left out. The soft time limit that may interrupt the task is
`Retry` in `SensorAlerts`.

## 8. Runs

| Run | Instance | Question | Result |
|---|---|---|---|
| `safety` | 1 alert, 2 workers, 1 reply, 2 reminders, 1 error, 1 crash; lock outlives scans; fair | are reminders bounded, spaced, recorded, and cancelled by a reply; are scans exclusive; is every monitor retired and every silent ISP reported | passes |
| `overlap` | as above without errors, scans may outlive the lock | does a reply silence the alert although scans overlap and write stale states | passes |
| `lists` | 2 alerts, 1 reminder, keys expire | is a scan's list current; is `ReminderContract` implemented | passes |
| `lock` | scans may outlive the lock | do scans ever overlap | violated: finding 1 |
| `earlyreply` | 1 reply | does a handled reply cancel the monitor | violated: finding 2 |
| `concurrent` | 2 events of Up, Down or Warning, 2 workers, 1 retry, 2 errors, 1 lost worker, fair | are only handled statuses ignored, are effects bounded by attempts, does every event settle | passes |
| `outages` | 3 events of any status, 2 workers, expiring state, 1 lost worker | without an error or overlap: does a recovery close everything, is every dropped Down covered by an open alert | passes |
| `race` | 3 events of Up or Down, 2 workers, no error | is every dropped Down covered by an open alert | violated: finding 3 |
| `closure` | 2 requests of any kind, 2 alerts, 1 retry, 1 error, fair | is what is closed resolved, explained and evidenced; is a history consistent; do recoveries keep their time; does a status only move forward; does every request end | passes |
| `openlist` | 2 requests, 1 alert | does the open list have what it is described to have | violated: finding 4 |
| `email` | 2 messages, 1 attachment, 1 retry, 2 troubles, fair | is what is acknowledged recorded, and the escalation answered but for failed calls; do rows have objects and mappings rows; what does a failure cost; does every message settle | passes |
| `ping` | 3 batches of 4 pings, 2 at a time, 3 errors, fair | is the ISP mailed only of silent sites; what do the records say of mail and outage; is nothing left running; does the task end | passes |

The first five check `MCIspReplyMonitor`, the next three `MCSensorAlerts`, then
`MCIncidentClosure` (two), `MCEmailIngestion` and `MCPingDiagnostic`.

Bounds, `IspReplyMonitor`. Two workers suffice for an overlap, and every action
concerns one worker. Two reminders are needed for a number to be repeated or
skipped; two alerts for a list in which one entry waits while another is
processed. One error and one crash place a failure at each step, and both can
hit the same reminder. One reply meets every stage of the others; a second would
find the monitor already cancelled. `LockOutlivesScan = TRUE` is the assumption
under which the code works as intended (TTL 60 s, `config/settings.py:212`);
`FALSE` is what the task time limit of 120 s allows (`config/settings.py:123`).
Symmetry is used in the safety runs without temporal properties only.

Bounds, `SensorAlerts`. Two events race on two workers; two errors and a lost
worker exhaust one retry and still hit another step. Three events are an outage,
its recovery and the next outage, or two problems and the recovery of both.
`RecentLimit = 2` stands for the 20 of `list_for_sensor`: two problems and the alert
a lost worker repeats reach past it, and `RecoveryClosesAll` says exactly which alert
may stay open.

`RecoveryClosesAll` and `OutagesDroppedForCause` excuse what follows two things
(`Disturbed`). After an error, a Down workflow that could not create its alert counts
as processed, and a retried message loses its place. And a recovery handled while
another event is (`overlapped`) may resolve the alert of a Down that then records its
status: that is finding 3, which `race` shows of the unconditional `OutagesRaised`.
Nothing else is excused: workers, expiry, lost workers and problems that overtake one
another are in the run, which has no errors because the excuse would cover them.

Bounds, `IncidentClosure`. Two requests suffice for every lock conflict, deadlock
and double insertion, since each of these is between two sessions; any pair of
operations is tried. Two alerts let an Up write rows of an incident while another
is being closed. One error hits any step of either request. Evidence may come from
an upload (then it is one of the two requests) or from an e-mail, which costs none.

Bounds, `EmailIngestion`. The second message may answer the escalation, the first
message, both or neither; two messages are needed for a batch in which one waits
while another is lost. Two troubles are a lost worker and an error, or exhaust the
one retry. Attachments: one and none, so that a repeated upload shows. The watcher
leaves IDLE without an EXISTS as often as it likes, which needs no bound.

Bounds, `PingDiagnostic`. Three batches have a first, a middle and a last. Four
pings on two slots wait and replace each other; three errors exhaust both slots
with stuck processes and leave one for the escalation, or hit the three records of
`OutageLogged`. Batches of 20000 pings, in which a loss is rounded up, are out of
reach of TLC; `NoFalseEscalation` covers them.

Deadlock is not checked where the model stops when its events, requests, messages
or its task are done, which all of these are; `EventsSettle`, `RequestsEnd`,
`ArrivedSettles` and `TaskEnds` show that it does not stop before.

Fairness. All conditions are weak: a step that is enabled for good is eventually
taken. Errors, crashes, arrivals, webhooks, retries and expiry have none, but for
the TTLs in `IspReplyMonitor`.

- `IspReplyMonitor`: Beat keeps starting scans (`celery_app.py:105`); Redis expires
  keys; clocks run; Celery runs the tasks it holds and redelivers those of lost
  workers (`task_acks_late`, `task_reject_on_worker_lost`).
- `SensorAlerts`: one condition; while some message can be taken or some task can
  step, some worker goes on. It names no event, so that no event is favoured.
- `IncidentClosure`: each request goes on when its statement does not wait for a
  row; PostgreSQL detects deadlocks.
- `EmailIngestion`: the watcher reconnects for ever (`inbox_monitor.py:188`), and
  workers take what is queued.
- `PingDiagnostic`: the event loop runs what can run, and the time-outs of pings and
  of smtplib end whatever waits.

Each property of a passing run has a faulty variant of one definition (for instance
a lock taken without NX, an update that forgets the counter, a root cause read
before the summary, an acknowledgement on receipt, a slot freed when the kill is
sent) that TLC finds to violate it.

## 9. Findings

1. *Scan lock.* "Acquire distributed lock to prevent overlapping Celery Beat
   executions" (`redis_cache.py:495`): nothing renews the lock, so a scan longer
   than its TTL overlaps with the next one, and its DELETE frees the other's
   lock. Run `lock`.
2. *Early reply.* "... cancel pending reminder timers in Redis immediately"
   (`tasks.py:332`): the thread row that lets a reply be matched is committed
   before the monitor is registered (`smtp_client.py:514`). A reply handled in
   between cancels nothing, and the ISP is reminded until the limit. Run
   `earlyreply`.
3. *Race of Down and Up.* Deduplication "fails open ... to ensure outages are
   never silently dropped" (`redis_cache.py:82`). Tasks of one sensor run
   concurrently: an Up resolves the alert of a Down workflow still running, which
   then records Down over the recovery (`tasks.py:138`). The next Down is
   ignored although no alert is open. Run `race`.
4. *Open list.* "Retrieve all unresolved alerts or recovered alerts awaiting Root
   Cause Analysis and closure" (`api/alerts.py:42`): the query joins recovered
   alerts to a root cause whose primary key is NULL (`incident_service.py:85`),
   which selects nothing. Recovered alerts are in the list of pending closures
   only. Run `openlist`.

## 10. Proofs

All theorems hold for every value of the constants, under the module's
`ConstantsAssumption` only (the bounds are naturals, the special values differ from
the others). Every invariant, action property and refinement a passing run checks is stated by one
of them. TLC has checked the inductive invariants on the instances of the runs.

`IspReplyMonitorProofs`:

| Theorem | Statement | Argument |
|---|---|---|
| `TypeCorrect` | `Spec => []TypeOK` | `TypeInv` adds that a busy worker is at an alert (`FocusOK`), that a reminder in progress has a number left, and that a reply that arrived has an alert: without these, writes through `cur` and `reply[r].alert` could leave the types |
| `Silenced` | `Spec => []ReplySilences` | `RegisteredInv`: whatever refers to a monitor refers to a registered alert. `SilenceInv`: a cancelled alert is not in the index, and an entry a scan has yet to process has cost no reminder since the cancel. Stale writes touch `monitor` only, which neither mentions |
| `IndexedByRegistration` | `Spec => IndexedOnce` | by cases on the actions: only `RegisterMonitor` adds to the index |
| `LockProtects` | `Spec => []LockProtectsScan` | `LockInv`: a scan in progress implies that the lock is set |

`IspContractProofs`, whether or not the lock outlives the scans:

| Theorem | Statement | Argument |
|---|---|---|
| `KeysBackIndex` | `Spec => []AlertKeyBacksIndex` | `KeyInv`: a worker about to delete the alert key has removed the index entry before, which is what the order of the commands in `stop_monitoring` is good for |
| `AnswersCancel` | `Spec => []AnsweredIsCancelled` | `StoredInv`: stale writes bring back copies of stored states, so the monitor of a registered alert is always found by its id. `AnswerInv`: a reply past the cancel has found the monitor off the index or taken it off; a redelivery starts from the alert it knew |
| `FulfilsContract` | `Spec => ImplementsContract` | the initial state maps to the initial state of `ReminderContract`; each action maps to the step named in its lemma or a stutter. `EntryInv`: a list does not survive its scan, and a busy worker keeps its entry |

`IspReminderProofs`. The properties have `LockOutlivesScan` as their hypothesis,
the assumption `redis_cache.py` makes of its lock; without it they fail as finding
1 shows. `OneScan` then says that all lists but one are empty. Seven actions
register, read, send, record, count, stop or flag something (`Special`);
`StepKinds` shows once and for all that every other step is `Ordinary`: it adds no
monitor, list or reminder. Each invariant is proved for the seven and for
`Ordinary`.

| Theorem | Statement | Argument |
|---|---|---|
| `ListsAreCurrent` | `Spec => []ListIsCurrent` | `ListInv` covers the entry being processed too, and the copy that `stop_monitoring` will write back |
| `ExhaustedForGood` | `Spec => ExhaustedIsFinal` | `ExhaustedInv`: whoever still sees a flagged alert, in Redis after a crash or in a list, sees that no reminder is left |
| `BoundedReminders` | `Spec => []RemindersBounded` | `BoundInv`: Redis counts every reminder but the one under way and those kept from it by an error or a crash (`Uncounted`), and so does a list. Only errors and crashes make a worker drop a reminder under way |
| `SpacedReminders` | `Spec => RemindersSpaced` | `SpacedInv`: a monitor that is due, in Redis or in a list, is so because its timeout has elapsed since the last reminder |
| `LedgersMatch` | `Spec => []LedgerMatchesCounter` | `LedgerInv`: the rows end with the number Redis has counted to, or with the next one while a reminder is recorded and not yet counted. The upper end, which the property does not mention, is what keeps a number from being used twice |

`SensorAlertsProofs`, for any number of events, workers, retries, errors and
crashes:

| Theorem | Statement | Argument |
|---|---|---|
| `TypeCorrect` | `Spec => []TypeOK` | inductive as it stands; one lemma per kind of update (`GotoType`, `CreatedType`, `LabelledType`, `TakeFirst`, ...) |
| `DuplicatesHandled` | `Spec => []IgnoredWasHandled` | `HandledInv`: the state in Redis, and that of an event past its workflow, belong to a completed event. Without the second conjunct `SetSensorState` could record a status nobody handled |
| `EffectsPerAttempt` | `Spec => []EffectsBounded` | `EffectsInv`: an event whose current attempt has not yet created its alert (sent its e-mail) has one attempt to spare; events not yet reported are untouched, so the attempts a lost worker adds cost nothing |

`SensorOutageProofs`, for any number of events, workers, retries, errors and crashes,
whatever expires. The excuses are part of the properties, and both are needed: without
`overlapped` finding 3 is a counterexample, without `faults > 0` a Down that could
not create its alert. `OutageInv` is `TypeOK`, and until either happens
`OrderOK /\ RecoveryInv`:

- `QueueOK`, `UpsInTurn`: problems may overtake one another, but nothing overtakes a
  recovery and a recovery overtakes nothing. It is taken when all before it is done,
  and done before more is taken: else there would be an overlap. A lost worker's
  message goes back to the head of the queue, which keeps the turn.
- `RecoveryInv`: the status in Redis says what the tables hold, unless an event on
  its way is about to open (`Opening`) or close (`Closing`) something.

| Theorem | Statement | Argument |
|---|---|---|
| `RecoveryCloses` | `Spec => []RecoveryClosesAll` | at rest nothing is on its way, so the tables are as the last recovery left them (`ResolveCleans`) |
| `OutagesHaveAlerts` | `Spec => OutagesDroppedForCause` | only `IgnoreDuplicate` takes an event from the check to its end (`OnlyDuplicatesEnd`); Redis says Down only while an alert of a Down is open, or while a recovery is in turn, and then no Down is checked |

`IncidentClosureProofs`, for any number of requests and alerts. `IInv` is `TypeOK`
and seven parts, proved inductive action by action:

- `Referring`: requests and rows refer to alerts that exist. `Holding`: which rows a
  request may have written at its stage.
- `Stages`: a closure past its root cause holds its row, and past its alert holds
  that if and only if it had to. `Fresh`: whoever no commit has overtaken has read
  the `resolved_at` in force, and is to resolve unresolved alerts only.
- `Backed`: rows have objects. `Evident`: a closure past its validation has
  evidence, and one that is done has closed its alert. `Told`: an alert that a
  history has seen closed has its root cause.

That evidence, root causes and recoveries are never lost is a lemma of its own
(`KeptStep`).

| Theorem | Statement | Argument |
|---|---|---|
| `TypeCorrect` | `Spec => []TypeOK` | `IInv` |
| `ClosuresAreFounded` | `Spec => []ClosedWithEvidence` | `Stages` and `Evident`; `KeptStep`: what they need is never lost |
| `HistoriesAreConsistent` | `Spec => []HistoryConsistent` | `Told` and `KeptStep` |
| `RecoveriesKeepTheirTime`, `DowntimesAgree` | `Spec => RecoveryTimeKept`, `Spec => DowntimeAgrees` | `Fresh` and `Holding`: what a commit writes is what was held |
| `ViewsFollowLifecycle` | `Spec => ImplementsLifecycle` | initial states map to initial states; each step maps to `Raise`, `Recover`, `Close` or a stutter, commits by whether they hold a root cause |

`EmailIngestionProofs`, for any number of messages, attachments and troubles. `IInv`
is `TypeOK` and: `Watching` (the message in the watcher's hands is of its batch and,
once fetched, seen), `Published`, `Backed`, `Recorded` and `Stored` (what each stage
of dispatch, watcher and task implies about the tables), `Repeated` (rows per
attempt), `FewAtRisk` and `FewUnanswered`.

| Theorem | Statement | Argument |
|---|---|---|
| `TypeCorrect` | `Spec => []TypeOK` | `IInv` |
| `AcknowledgedTasksRecorded` | `Spec => []AcknowledgedIsRecorded` | `Recorded`: from the commit on, whatever is retried only adds. `FewUnanswered`: while the escalation has no answer, each committed reply to it has cost a failed call of its own |
| `RowsAreBacked` | `Spec => []AttachmentsBacked` | `Stored` (an attempt's uploads are not among the rows) and `Repeated` |
| `MappingsAreBacked` | `Spec => []CacheBacked` | `Backed`: whoever is about to cache an id has seen its row |
| `LossesAreExplained` | `Spec => []LossesExplained` | `FewAtRisk`: the messages read, unpublished and not in the watcher's hands are at most the troubles; each trouble adds one, and no other step adds any |

`PingDiagnosticProofs`, for any number of batches, pings, slots and errors:
`TypeCorrect`, `NoFalseEscalation` (`EscalatedUnanswered`), `BoundedProcesses`
(`ProcessesBounded`), `QuietEnd` (`EndedIsQuiet`), `TruthfulRecord`
(`RecordTruthful`), `OutageIsLogged` (`OutageLogged`). One inductive invariant
relates the job's stage to the pings, the thread and the rows. Its part `Owed` counts,
at each stage of workflow and thread, the traces that will be missing at the end: each
has cost an error. `Unanswered` holds of every batch size, with `LossReadsTotal` as the
code computes it. The bound on
processes needs that a finite set gains one element at a time
(`FiniteSetTheorems`).

Model-checked only: the liveness properties `MonitorsRetire`, `SilenceIsReported`,
`EventsSettle`, `RequestsEnd`, `ArrivedSettles` and `TaskEnds`. They rest on
fairness, hence on `ENABLED`, which the prover does not reason about. The four
violations of section 9 are counterexamples and need no proof.

## 11. Plan

1. An abstract specification of deduplication (outage and recovery of a sensor,
   seen by support) that `SensorAlerts` implements until it is `Disturbed`;
   `SensorOutageProofs` has the invariant for it.
2. Composition of `SensorAlerts` with `IspReplyMonitor`: a recovery resolves the
   alert but leaves its monitor running (`up_processor.py:78`). The code promises
   nothing about it, so a property needs a decision of the team first.

## 12. Not modelled

Authentication (stateless token checks), schemas and JSON conversion, templates and
MIME parsing (data without control), logging and configuration (constants here),
`app/new_crud.py` and `app/new_models.py` (bridges without state), the e-mail thread
API (single-row reads and writes), pagination, timeline and notification feed
(single reads), queue names and declarations (configuration), and the database,
Redis, MinIO and the mail server themselves, modelled by what their commands and
transactions do. Hazards without a property are in `PROJECT.json`, each with the
reason.
