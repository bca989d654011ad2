---------------------------- MODULE IncidentClosure ----------------------------
(***************************************************************************)
(* How the alerts of one sensor are resolved and closed.                   *)
(*                                                                         *)
(* Engineers upload evidence, post root causes, close incidents and read   *)
(* their history through the API (api/attachments.py, api/root_cause.py,   *)
(* api/closure.py, api/alerts.py) while Celery runs the Up workflow of the *)
(* sensor (processors/up_processor.py).  Each request has a session of its *)
(* own: a READ COMMITTED transaction of PostgreSQL.  A statement is a      *)
(* step.  Its rows stay locked and its writes invisible until the commit,  *)
(* so the rows a request holds are exactly the rows it has written.        *)
(***************************************************************************)
EXTENDS Naturals, FiniteSetsExt

CONSTANTS
    Request,      \* requests and Up tasks, each made once
    MaxAlerts,    \* bound: outages of the sensor
    RecentLimit,  \* how many alerts of the sensor the Up workflow looks at
    MaxRetries,   \* max_retries of the webhook task
    MaxFaults,    \* bound: errors and lost processes
    NoRequest,    \* the writer of a column that is NULL
    Given         \* a downtime the engineer has entered

ASSUME ConstantsAssumption ==
    /\ MaxAlerts \in Nat \ {0}
    /\ RecentLimit \in Nat
    /\ MaxRetries \in Nat
    /\ MaxFaults \in Nat
    /\ NoRequest \notin Request
    /\ Given \notin Request \cup {NoRequest}

Alert == 1 .. MaxAlerts
Closure == {"complete", "manual"}
Operation == Closure \cup {"upload", "rootcause", "up", "history"}

VARIABLES
    raised,   \* alerts 1 .. raised are in alert_history, oldest first
    resolved, \* resolved_at of each alert, named by the request that set it
    cause,    \* its root_causes row: who wrote it, which resolved_at its downtime is from
    log,      \* log_status of the sensor_logs row its workflow wrote
    objects,  \* uploads stored in MinIO
    rows,     \* uploads with a row in attachments
    mailed,   \* alerts with an attachment from an e-mail of the ISP
    op, target, \* what a request asks for, and the alert
    pc, retries,
    read,     \* alert.resolved_at as the request has read it
    found,    \* whether it has found a root cause
    label,    \* current_status in the history it compiles
    todo,     \* alerts the Up workflow has still to resolve
    held,     \* rows the request has written and not yet committed
    stale,    \* history: a transaction has committed since the request read the alert
    faults

tables == <<raised, resolved, cause, log>>
files == <<objects, rows, mailed>>
identity == <<op, target>>
locals == <<read, found, label, todo>>
vars == <<tables, files, identity, pc, retries, locals, held, stale, faults>>

Row == {"alert", "cause", "log"} \X Alert

Cause == [by : Request \cup {NoRequest}, downtime : Request \cup {NoRequest, Given}]
NoCause == [by |-> NoRequest, downtime |-> NoRequest]

Ended == {"done", "rejected", "failed"}
PC == {"idle", "begun", "read", "valid", "located", "found", "saved", "stored",
       "cleared", "listed", "ready"} \cup Ended

Label == {"OPEN", "RECOVERED_PENDING_CLOSURE", "CLOSED"}

TablesTypeOK ==
    /\ raised \in 0 .. MaxAlerts
    /\ resolved \in [Alert -> Request \cup {NoRequest}]
    /\ cause \in [Alert -> Cause]
    /\ log \in [Alert -> {"none", "OPENED", "CLOSED"}]

FilesTypeOK == objects \subseteq Request /\ rows \subseteq Request /\ mailed \subseteq Alert

RequestsTypeOK ==
    /\ op \in [Request -> Operation]
    /\ target \in [Request -> Alert]
    /\ pc \in [Request -> PC]
    /\ retries \in [Request -> 0 .. MaxRetries]
    /\ read \in [Request -> Request \cup {NoRequest}]
    /\ found \in [Request -> BOOLEAN]
    /\ label \in [Request -> Label]
    /\ todo \in [Request -> SUBSET Alert]
    /\ held \in [Request -> SUBSET Row]
    /\ stale \in [Request -> BOOLEAN]

\* Every variable keeps its type; an Up task is not retried beyond max_retries.
TypeOK == TablesTypeOK /\ FilesTypeOK /\ RequestsTypeOK /\ faults \in 0 .. MaxFaults

Init ==
    /\ raised = 0
    /\ resolved = [a \in Alert |-> NoRequest]
    /\ cause = [a \in Alert |-> NoCause]
    /\ log = [a \in Alert |-> "none"]
    /\ objects = {} /\ rows = {} /\ mailed = {}
    /\ op = [r \in Request |-> "history"]
    /\ target = [r \in Request |-> 1]
    /\ pc = [r \in Request |-> "idle"]
    /\ retries = [r \in Request |-> 0]
    /\ read = [r \in Request |-> NoRequest]
    /\ found = [r \in Request |-> FALSE]
    /\ label = [r \in Request |-> "OPEN"]
    /\ todo = [r \in Request |-> {}]
    /\ held = [r \in Request |-> {}]
    /\ stale = [r \in Request |-> FALSE]
    /\ faults = 0

Raised == 1 .. raised
HasCause(a) == cause[a].by # NoRequest

InFlight(r) == pc[r] \notin {"idle"} \cup Ended

Goto(r, l) == pc' = [pc EXCEPT ![r] = l]
Fault == faults < MaxFaults /\ faults' = faults + 1

(***************************************************************************)
(* Views                                                                   *)
(***************************************************************************)

\* Faulty: a recovery hides the root cause.
StatusResolvedFirst(a) ==
    IF resolved[a] # NoRequest THEN "RECOVERED_PENDING_CLOSURE"
    ELSE IF HasCause(a) THEN "CLOSED"
    ELSE "OPEN"

\* get_alert_summary: the status of an alert.
StatusLabel(a) ==
    IF HasCause(a) THEN "CLOSED"
    ELSE IF resolved[a] # NoRequest THEN "RECOVERED_PENDING_CLOSURE"
    ELSE "OPEN"

\* get_open_alerts: not resolved, or joined to a root cause whose key is NULL.
\* A row's key never is, so the second condition selects nothing.
OpenList ==
    {a \in Raised : resolved[a] = NoRequest \/ (HasCause(a) /\ cause[a].by = NoRequest)}

\* get_pending_closures: resolved and without a root cause.
PendingList == {a \in Raised : resolved[a] # NoRequest /\ ~HasCause(a)}

\* download_attachment: the answer for an upload's row.
Download(u) ==
    IF u \notin rows THEN "404" ELSE IF u \in objects THEN "200" ELSE "502"

\* Attachments closure accepts: those of list_for_alert.
Attachments(a) == {u \in rows : target[u] = a}
HasEvidence(a) == a \in mailed \/ Attachments(a) # {}

(***************************************************************************)
(* Row locks                                                               *)
(***************************************************************************)

\* execute_closure_transaction sets resolved_at when the closure is manual or
\* the alert it has read is unresolved.
Resolves(r) == op[r] = "manual" \/ read[r] = NoRequest

\* close_open_logs updates every OPENED row of the sensor.
OpenLogs == {row \in Row : row[1] = "log" /\ log[row[2]] = "OPENED"}

\* The rows the next statement of a request updates.
Wants(r) ==
    CASE op[r] \in Closure /\ pc[r] = "valid" /\ Resolves(r) -> {<<"alert", target[r]>>}
      [] op[r] \in Closure \cup {"rootcause"} /\ pc[r] = "found" -> {<<"cause", target[r]>>}
      [] op[r] \in Closure /\ pc[r] = "saved" -> OpenLogs
      [] op[r] = "up" /\ pc[r] = "begun" -> OpenLogs
      [] op[r] = "up" /\ pc[r] = "listed" /\ todo[r] # {} -> {<<"alert", Max(todo[r])>>}
      [] OTHER -> {}

\* Whom the statement waits for: the requests that have written one of its rows.
Blockers(r) == {q \in Request \ {r} : held[q] \cap Wants(r) # {}}

\* The statement updates its rows, which no other request holds.
Write(r) ==
    /\ Blockers(r) = {}
    /\ held' = [held EXCEPT ![r] = @ \cup Wants(r)]

\* Requests that wait for each other in a circle.
Deadlocked(circle) ==
    /\ circle # {}
    /\ \A r \in circle : Blockers(r) \cap circle # {}
    /\ \A r \in circle : \E q \in circle : r \in Blockers(q)

(***************************************************************************)
(* Transactions                                                            *)
(***************************************************************************)

\* Faulty: closure takes the resolved_at it has read, set or not.
BasisRead(r) == read[r]

\* From which resolved_at a root cause computes its downtime, unless one is given.
Basis(r) == IF op[r] \in Closure /\ Resolves(r) THEN r ELSE read[r]

\* The session ends, and what it has read with it.
Forget(r) ==
    /\ read' = [read EXCEPT ![r] = NoRequest]
    /\ found' = [found EXCEPT ![r] = FALSE]
    /\ todo' = [todo EXCEPT ![r] = {}]
    /\ UNCHANGED label

\* Everything a request has written becomes visible.
Commit(r) ==
    /\ pc[r] = "ready"
    /\ \E downtime \in {Basis(r), Given} :
          cause' = [a \in Alert |-> IF <<"cause", a>> \in held[r]
                                    THEN [by |-> r, downtime |-> downtime] ELSE cause[a]]
    /\ resolved' = [a \in Alert |-> IF <<"alert", a>> \in held[r] THEN r ELSE resolved[a]]
    /\ log' = [a \in Alert |-> IF <<"log", a>> \in held[r] THEN "CLOSED" ELSE log[a]]
    /\ held' = [held EXCEPT ![r] = {}]
    /\ stale' = [q \in Request |-> q # r /\ InFlight(q)]
    /\ Goto(r, "done")
    /\ Forget(r)
    /\ UNCHANGED <<raised, files, identity, retries, faults>>

\* Faulty: the Up task is retried without limit.
AbortRetrying(r) ==
    /\ held' = [held EXCEPT ![r] = {}]
    /\ IF op[r] = "up"
       THEN Goto(r, "begun") /\ retries' = [retries EXCEPT ![r] = @ + 1]
       ELSE Goto(r, "failed") /\ UNCHANGED retries
    /\ stale' = [stale EXCEPT ![r] = FALSE]
    /\ Forget(r)
    /\ UNCHANGED <<tables, files, identity>>

\* Faulty: a request that fails leaves its session open.
AbortOpen(r) ==
    /\ Goto(r, "failed")
    /\ stale' = [stale EXCEPT ![r] = FALSE]
    /\ Forget(r)
    /\ UNCHANGED <<tables, files, identity, retries, held>>

\* The transaction is undone.  The API answers 500; the Up task is retried as
\* long as it has a retry left.
Abort(r) ==
    /\ held' = [held EXCEPT ![r] = {}]
    /\ IF op[r] = "up" /\ retries[r] < MaxRetries
       THEN Goto(r, "begun") /\ retries' = [retries EXCEPT ![r] = @ + 1]
       ELSE Goto(r, "failed") /\ UNCHANGED retries
    /\ stale' = [stale EXCEPT ![r] = FALSE]
    /\ Forget(r)
    /\ UNCHANGED <<tables, files, identity>>

\* PostgreSQL ends a deadlock by failing a statement of the circle.
DeadlockVictim(r) ==
    /\ \E circle \in SUBSET Request : r \in circle /\ Deadlocked(circle)
    /\ Abort(r)
    /\ UNCHANGED faults

\* The database fails, the process is lost or the soft time limit interrupts it.
Fail(r) ==
    /\ Fault
    /\ InFlight(r)
    /\ Abort(r)

(***************************************************************************)
(* Outages                                                                 *)
(***************************************************************************)

\* The first transaction of a Down, Warning or Paused workflow.
RaiseAlert ==
    /\ raised < MaxAlerts
    /\ raised' = raised + 1
    /\ UNCHANGED <<resolved, cause, log, files, identity, pc, retries, locals, held, stale, faults>>

\* Its last: an OPENED row in sensor_logs.
OpenLog(a) ==
    /\ a \in Raised /\ log[a] = "none"
    /\ log' = [log EXCEPT ![a] = "OPENED"]
    /\ UNCHANGED <<raised, resolved, cause, files, identity, pc, retries, locals, held, stale, faults>>

\* The task of an incoming e-mail commits an attachment of the alert.
MailAttachment(a) ==
    /\ a \in Raised \ mailed
    /\ mailed' = mailed \cup {a}
    /\ UNCHANGED <<tables, objects, rows, identity, pc, retries, locals, held, stale, faults>>

\* A request for an alert, answered 404 at once when there is none; an Up task
\* concerns the sensor, whatever its alerts.
Begin(r) ==
    /\ pc[r] = "idle"
    /\ \E o \in Operation, a \in Raised :
          /\ o = "up" => a = raised
          /\ op' = [op EXCEPT ![r] = o]
          /\ target' = [target EXCEPT ![r] = a]
    /\ Goto(r, "begun")
    /\ UNCHANGED <<tables, files, retries, locals, held, stale, faults>>

(***************************************************************************)
(* Uploads: the object first, its row afterwards                           *)
(***************************************************************************)

\* Faulty: the row is committed before the object is stored.
StoreRow(r) ==
    /\ op[r] = "upload" /\ pc[r] = "begun"
    /\ rows' = rows \cup {r}
    /\ Goto(r, "stored")
    /\ UNCHANGED <<tables, objects, mailed, identity, retries, locals, held, stale, faults>>

\* The file is stored in MinIO under a key of its own.
StoreObject(r) ==
    /\ op[r] = "upload" /\ pc[r] = "begun"
    /\ objects' = objects \cup {r}
    /\ Goto(r, "stored")
    /\ UNCHANGED <<tables, rows, mailed, identity, retries, locals, held, stale, faults>>

\* The file is not acceptable: its extension, no content, too much of it.
RejectFile(r) ==
    /\ op[r] = "upload" /\ pc[r] = "begun"
    /\ Goto(r, "rejected")
    /\ UNCHANGED <<tables, files, identity, retries, locals, held, stale, faults>>

\* Three attempts fail: 502.  An attempt whose answer was lost has stored it.
StoreFails(r) ==
    /\ Fault
    /\ op[r] = "upload" /\ pc[r] = "begun"
    /\ objects' \in {objects, objects \cup {r}}
    /\ Goto(r, "failed")
    /\ UNCHANGED <<tables, rows, mailed, identity, retries, locals, held, stale>>

\* The attachments row is committed.
SaveMetadata(r) ==
    /\ op[r] = "upload" /\ pc[r] = "stored"
    /\ rows' = rows \cup {r}
    /\ Goto(r, "done")
    /\ UNCHANGED <<tables, objects, mailed, identity, retries, locals, held, stale, faults>>

(***************************************************************************)
(* Root causes and closures                                                *)
(***************************************************************************)

\* alert_repo.get: what the request decides with from here on.
ReadAlert(r) ==
    /\ op[r] \in Closure \cup {"rootcause"} /\ pc[r] = "begun"
    /\ read' = [read EXCEPT ![r] = resolved[target[r]]]
    /\ stale' = [stale EXCEPT ![r] = FALSE]
    /\ Goto(r, "read")
    /\ UNCHANGED <<tables, files, identity, retries, found, label, todo, held, faults>>

\* Faulty: closure does not ask for evidence.
ValidateFields(r) ==
    /\ op[r] \in Closure /\ pc[r] = "read"
    /\ Goto(r, "valid")
    /\ UNCHANGED <<tables, files, identity, retries, locals, held, stale, faults>>

\* validate_closure_requirements: evidence is attached and the fields are good.
Validate(r) ==
    /\ op[r] \in Closure /\ pc[r] = "read"
    /\ HasEvidence(target[r])
    /\ Goto(r, "valid")
    /\ UNCHANGED <<tables, files, identity, retries, locals, held, stale, faults>>

\* It raises ClosureValidationError: no evidence, or a field is not good. 422.
Reject(r) ==
    /\ op[r] \in Closure /\ pc[r] = "read"
    /\ Goto(r, "rejected")
    /\ UNCHANGED <<tables, files, identity, retries, locals, held, stale, faults>>

\* Closure sets resolved_at, unless it keeps the time of the recovery.
ResolveAlert(r) ==
    /\ op[r] \in Closure /\ pc[r] = "valid"
    /\ Write(r)
    /\ Goto(r, "located")
    /\ UNCHANGED <<tables, files, identity, retries, locals, stale, faults>>

\* upsert_for_alert looks for the root cause of the alert.
FindRootCause(r) ==
    /\ \/ op[r] \in Closure /\ pc[r] = "located"
       \/ op[r] = "rootcause" /\ pc[r] = "read"
    /\ found' = [found EXCEPT ![r] = HasCause(target[r])]
    /\ Goto(r, "found")
    /\ UNCHANGED <<tables, files, identity, retries, read, label, todo, held, stale, faults>>

Unexpected(r) == HasCause(target[r]) /\ ~found[r]

\* It updates the one it has found, or inserts the first.
SaveRootCause(r) ==
    /\ op[r] \in Closure \cup {"rootcause"} /\ pc[r] = "found"
    /\ ~Unexpected(r)
    /\ Write(r)
    /\ Goto(r, IF op[r] = "rootcause" THEN "ready" ELSE "saved")
    /\ UNCHANGED <<tables, files, identity, retries, locals, stale, faults>>

\* Another request has inserted it meanwhile: alert_id is unique.
DuplicateRootCause(r) ==
    /\ pc[r] = "found" /\ Unexpected(r)
    /\ Blockers(r) = {}
    /\ Abort(r)
    /\ UNCHANGED faults

\* Closure closes the sensor's open logs and writes its audit entry.
CloseOpenLogs(r) ==
    /\ op[r] \in Closure /\ pc[r] = "saved"
    /\ Write(r)
    /\ Goto(r, "ready")
    /\ UNCHANGED <<tables, files, identity, retries, locals, stale, faults>>

(***************************************************************************)
(* The Up workflow                                                         *)
(***************************************************************************)

\* Open logs are closed first.
ClearLogs(r) ==
    /\ op[r] = "up" /\ pc[r] = "begun"
    /\ Write(r)
    /\ Goto(r, "cleared")
    /\ UNCHANGED <<tables, files, identity, retries, locals, stale, faults>>

Recent(a) == a + RecentLimit > raised

\* Faulty: every recent alert is resolved, resolved or not.
ListRecent(r) ==
    /\ op[r] = "up" /\ pc[r] = "cleared"
    /\ todo' = [todo EXCEPT ![r] = {a \in Raised : Recent(a)}]
    /\ stale' = [stale EXCEPT ![r] = FALSE]
    /\ Goto(r, "listed")
    /\ UNCHANGED <<tables, files, identity, retries, read, found, label, held, faults>>

\* list_for_sensor: the most recent alerts; those unresolved are to be resolved.
ListAlerts(r) ==
    /\ op[r] = "up" /\ pc[r] = "cleared"
    /\ todo' = [todo EXCEPT ![r] = {a \in Raised : Recent(a) /\ resolved[a] = NoRequest}]
    /\ stale' = [stale EXCEPT ![r] = FALSE]
    /\ Goto(r, "listed")
    /\ UNCHANGED <<tables, files, identity, retries, read, found, label, held, faults>>

\* One UPDATE each, the newest first.
ResolveNewest(r) ==
    /\ op[r] = "up" /\ pc[r] = "listed" /\ todo[r] # {}
    /\ Write(r)
    /\ todo' = [todo EXCEPT ![r] = @ \ {Max(@)}]
    /\ UNCHANGED <<tables, files, identity, pc, retries, read, found, label, stale, faults>>

\* All are resolved; the CLOSED log follows.
FinishUp(r) ==
    /\ op[r] = "up" /\ pc[r] = "listed" /\ todo[r] = {}
    /\ Goto(r, "ready")
    /\ UNCHANGED <<tables, files, identity, retries, locals, held, stale, faults>>

\* A row is rejected: the repository rolls the session back, the workflow logs
\* the error and returns, and nothing is resolved or closed.
UpRolledBack(r) ==
    /\ Fault
    /\ op[r] = "up" /\ pc[r] = "listed"
    /\ held' = [held EXCEPT ![r] = {}]
    /\ Goto(r, "done")
    /\ Forget(r)
    /\ UNCHANGED <<tables, files, identity, retries, stale>>

(***************************************************************************)
(* The history of an incident                                              *)
(***************************************************************************)

\* get_incident_history reads the summary first.
ReadSummary(r) ==
    /\ op[r] = "history" /\ pc[r] = "begun"
    /\ label' = [label EXCEPT ![r] = StatusLabel(target[r])]
    /\ Goto(r, "read")
    /\ UNCHANGED <<tables, files, identity, retries, read, found, todo, held, stale, faults>>

\* Faulty: the root cause first, the summary last.
ReadSummaryLast(r) ==
    /\ op[r] = "history"
    /\ \/ /\ pc[r] = "begun"
          /\ found' = [found EXCEPT ![r] = HasCause(target[r])]
          /\ Goto(r, "found")
          /\ UNCHANGED label
       \/ /\ pc[r] = "found"
          /\ label' = [label EXCEPT ![r] = StatusLabel(target[r])]
          /\ Goto(r, "done")
          /\ UNCHANGED found
    /\ UNCHANGED <<tables, files, identity, retries, read, todo, held, stale, faults>>

\* Then the root cause; the lists that follow have no part in the status.
ReadRootCause(r) ==
    /\ op[r] = "history" /\ pc[r] = "read"
    /\ found' = [found EXCEPT ![r] = HasCause(target[r])]
    /\ Goto(r, "done")
    /\ UNCHANGED <<tables, files, identity, retries, read, label, todo, held, stale, faults>>

(***************************************************************************)
(* Specification                                                           *)
(***************************************************************************)

Step(r) ==
    \/ StoreObject(r) \/ RejectFile(r) \/ SaveMetadata(r)
    \/ ReadAlert(r) \/ Validate(r) \/ Reject(r) \/ ResolveAlert(r)
    \/ FindRootCause(r) \/ SaveRootCause(r) \/ DuplicateRootCause(r) \/ CloseOpenLogs(r)
    \/ ClearLogs(r) \/ ListAlerts(r) \/ ResolveNewest(r) \/ FinishUp(r)
    \/ ReadSummary(r) \/ ReadRootCause(r)
    \/ Commit(r) \/ DeadlockVictim(r)

Failure(r) == Fail(r) \/ StoreFails(r) \/ UpRolledBack(r)

Next ==
    \/ RaiseAlert
    \/ \E a \in Alert : OpenLog(a) \/ MailAttachment(a)
    \/ \E r \in Request : Begin(r) \/ Step(r) \/ Failure(r)

Spec == Init /\ [][Next]_vars

\* A request goes on whenever its next statement does not wait for a row.
Fairness == \A r \in Request : WF_vars(Step(r))

FairSpec == Spec /\ Fairness

(***************************************************************************)
(* Properties                                                              *)
(***************************************************************************)

\* A closure that has succeeded leaves its alert resolved, explained, and with
\* evidence that can be downloaded (closure_service.py, rules 1 to 7).
ClosedWithEvidence ==
    \A r \in Request : (op[r] \in Closure /\ pc[r] = "done") =>
        /\ StatusLabel(target[r]) = "CLOSED" /\ resolved[target[r]] # NoRequest
        /\ \/ target[r] \in mailed
           \/ \E u \in Attachments(target[r]) : Download(u) = "200"

\* A history that calls its incident CLOSED shows its root cause, although the
\* two are read by different statements (get_incident_history).
HistoryConsistent ==
    \A r \in Request :
        (op[r] = "history" /\ pc[r] = "done" /\ label[r] = "CLOSED") => found[r]

Commits(r) == pc[r] = "ready" /\ pc'[r] = "done"

\* Only a manual closure moves a recorded recovery, or a request that some
\* commit has overtaken since it read the alert ("Updating resolved_at if manual
\* closure or unpopulated", closure_service.py:142).
RecoveryTimeKept ==
    [][\A r \in Request : (Commits(r) /\ op[r] # "manual" /\ ~stale[r]) =>
          \A a \in Alert : resolved[a] # NoRequest => resolved'[a] = resolved[a]]_vars

\* The downtime a closure stores is that of the resolved_at it leaves behind,
\* unless an engineer gave one or some commit has overtaken the closure.
DowntimeAgrees ==
    [][\A r \in Request : (Commits(r) /\ op[r] \in Closure /\ ~stale[r]) =>
          cause'[target[r]].downtime \in {resolved'[target[r]], Given}]_vars

\* Every request is answered and every Up task ends, although closure locks the
\* alert before the logs and Up the logs before the alert.
RequestsEnd ==
    \A r \in Request : pc[r] = "begun" ~> pc[r] \in Ended

Lifecycle == INSTANCE IncidentLifecycle
    WITH status <- [a \in Alert |-> IF a \in Raised THEN StatusLabel(a) ELSE "none"]

\* The status engineers see only moves forward: no interleaving of requests and
\* recoveries reopens an incident.
ImplementsLifecycle == Lifecycle!Spec

\* get_open_alerts lists "all unresolved alerts or recovered alerts awaiting
\* Root Cause Analysis and closure" (api/alerts.py:42); the latter are those of
\* get_pending_closures.
OpenListComplete ==
    {a \in Raised : resolved[a] = NoRequest} \cup PendingList \subseteq OpenList
===============================================================================
