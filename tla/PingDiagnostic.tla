----------------------------- MODULE PingDiagnostic -----------------------------
(***************************************************************************)
(* The Down workflow of one outage (processors/down_processor.py): the     *)
(* transaction that creates the alert, the diagnosis                       *)
(* (services/ping_service.py) with the thread that sends the escalation    *)
(* (clients/smtp_client.py), and the transaction that logs the outage.     *)
(*                                                                         *)
(* The pings of a batch are coroutines of one event loop; a semaphore      *)
(* bounds how many have a ping process at a time.  The escalation is sent  *)
(* from an executor thread, which goes on when the diagnosis has given it  *)
(* up after 30 seconds.                                                    *)
(***************************************************************************)
EXTENDS Naturals, FiniteSets

CONSTANTS
    BatchCount,    \* ping_batch_count
    PingsPerBatch, \* pings_per_batch
    MaxPings,      \* ping_diag_max_concurrent_pings
    MaxFaults      \* bound: calls that fail, ping processes that survive a kill

ASSUME ConstantsAssumption ==
    /\ BatchCount \in Nat
    /\ PingsPerBatch \in Nat
    /\ MaxPings \in Nat \ {0}
    /\ MaxFaults \in Nat

Ping == 1 .. PingsPerBatch

VARIABLES
    job,       \* where the workflow stands
    alert,     \* alert_history has the outage's row
    batch,     \* batches begun
    ping,      \* the pings of the batch
    stuck,     \* processes that outlived their kill
    diagnosed, \* ping_diagnostics has a row of the alert
    thread,    \* the escalation's thread
    mailed,    \* whose mail the SMTP server has accepted
    escalated, \* what escalation_records says of it: "none", "sent" or "not sent"
    opened,    \* its OPENED row is in sensor_logs
    faults

escalation == <<thread, mailed, escalated>>
vars == <<job, alert, batch, ping, stuck, diagnosed, escalation, opened, faults>>

Ended == {"done", "failed", "untargeted"}
Job == {"new", "triggered", "pinging", "pausing", "recovered", "unreachable",
        "persisted", "waiting", "logging", "closing", "raising"} \cup Ended
Recipient == {"isp", "support"} \* To: and Cc:
Slots == {p \in Ping : ping[p] \in {"running", "killed"}}

\* Every variable keeps its type; stuck processes are as rare as errors.
TypeOK ==
    /\ job \in Job
    /\ alert \in BOOLEAN
    /\ batch \in 0 .. BatchCount
    /\ ping \in [Ping -> {"waiting", "running", "killed", "lost", "answered"}]
    /\ stuck \in 0 .. MaxFaults
    /\ diagnosed \in BOOLEAN
    /\ thread \in {"none", "started", "addressed", "sent", "unsent", "ended"}
    /\ mailed \subseteq Recipient
    /\ escalated \in {"none", "sent", "not sent"}
    /\ opened \in BOOLEAN
    /\ faults \in 0 .. MaxFaults

Init ==
    /\ job = "new" /\ alert = FALSE /\ batch = 0
    /\ ping = [p \in Ping |-> "waiting"]
    /\ stuck = 0 /\ diagnosed = FALSE
    /\ thread = "none" /\ mailed = {} /\ escalated = "none"
    /\ opened = FALSE /\ faults = 0

Fault == faults < MaxFaults /\ faults' = faults + 1

\* A call that may fail; its caller logs the error and goes on.
MaybeFault(failed) == IF failed THEN Fault ELSE UNCHANGED faults

SetPing(p, state) == ping' = [ping EXCEPT ![p] = state]
Verdict == {"lost", "answered"}

(***************************************************************************)
(* The workflow                                                            *)
(***************************************************************************)

\* The payload names no sensor, or its sensor, assignment or site is not found.
NoTarget ==
    /\ job = "new"
    /\ job' = "untargeted"
    /\ UNCHANGED <<alert, batch, ping, stuck, diagnosed, escalation, opened, faults>>

\* Transaction 1: an alert, unless there is no state 'Down' or the insertion fails.
CreateAlert ==
    /\ job = "new"
    /\ \/ alert' \in BOOLEAN /\ UNCHANGED faults
       \/ alert' = FALSE /\ Fault
    /\ job' = "triggered"
    /\ UNCHANGED <<batch, ping, stuck, diagnosed, escalation, opened>>

\* A lookup fails, or the commit or its answer: the error leaves the workflow.
CreateRaises ==
    /\ Fault
    /\ job = "new"
    /\ alert' \in BOOLEAN
    /\ job' = "failed"
    /\ UNCHANGED <<batch, ping, stuck, diagnosed, escalation, opened>>

\* execute refuses the target's address; the workflow goes on to its log.
RefuseTarget ==
    /\ job = "triggered"
    /\ job' = "logging"
    /\ UNCHANGED <<alert, batch, ping, stuck, diagnosed, escalation, opened, faults>>

\* There is no ping executable, or not a batch to run.
SkipBatches ==
    /\ job = "triggered"
    /\ job' = "unreachable"
    /\ UNCHANGED <<alert, batch, ping, stuck, diagnosed, escalation, opened, faults>>

\* The first batch, or the next after a pause.
StartBatch ==
    /\ job \in {"triggered", "pausing"} /\ batch < BatchCount
    /\ batch' = batch + 1
    /\ ping' = [p \in Ping |-> "waiting"]
    /\ job' = "pinging"
    /\ UNCHANGED <<alert, stuck, diagnosed, escalation, opened, faults>>

\* Faulty: only a batch without a loss counts as a recovery.
EndBatchStrict ==
    /\ job = "pinging"
    /\ \A p \in Ping : ping[p] \in Verdict
    /\ job' = IF \A p \in Ping : ping[p] = "answered" THEN "recovered"
              ELSE IF batch < BatchCount THEN "pausing"
              ELSE "unreachable"
    /\ UNCHANGED <<alert, batch, ping, stuck, diagnosed, escalation, opened, faults>>

Answered == {p \in Ping : ping[p] = "answered"}

\* The loss is rounded to a hundredth of a percent, a half to even: one answer of
\* 20000 pings or more still reads 100.00.
LossReadsTotal == 20000 * Cardinality(Answered) <= PingsPerBatch

\* gather has all results: a loss below 100.00 is a recovery.
EndBatch ==
    /\ job = "pinging"
    /\ \A p \in Ping : ping[p] \in Verdict
    /\ job' = IF ~LossReadsTotal THEN "recovered"
              ELSE IF batch < BatchCount THEN "pausing"
              ELSE "unreachable"
    /\ UNCHANGED <<alert, batch, ping, stuck, diagnosed, escalation, opened, faults>>

\* _on_site_recovered closes the logs the sensor has open so far, or fails to.
CloseLogs ==
    /\ job = "recovered"
    /\ \E failed \in BOOLEAN : MaybeFault(failed)
    /\ job' = "logging"
    /\ UNCHANGED <<alert, batch, ping, stuck, diagnosed, escalation, opened>>

\* The diagnostic's row, if there is an alert it can belong to; after an error it
\* may be there nevertheless.
Persist ==
    /\ job = "unreachable"
    /\ \E failed \in BOOLEAN :
          /\ MaybeFault(failed)
          /\ diagnosed' \in IF failed THEN {FALSE, alert} ELSE {alert}
    /\ job' = "persisted"
    /\ UNCHANGED <<alert, batch, ping, stuck, escalation, opened>>

\* The escalation is handed to a thread.
Dispatch ==
    /\ job = "persisted"
    /\ thread' = "started"
    /\ job' = "waiting"
    /\ UNCHANGED <<alert, batch, ping, stuck, diagnosed, mailed, escalated, opened, faults>>

\* It cannot be.
DispatchFails ==
    /\ Fault
    /\ job = "persisted"
    /\ job' = "logging"
    /\ UNCHANGED <<alert, batch, ping, stuck, diagnosed, escalation, opened>>

\* The thread has ended in time.
Dispatched ==
    /\ job = "waiting" /\ thread = "ended"
    /\ job' = "logging"
    /\ UNCHANGED <<alert, batch, ping, stuck, diagnosed, escalation, opened, faults>>

\* Faulty: a dispatch that takes too long ends the workflow.
GiveUpJob ==
    /\ job = "waiting" /\ thread # "ended"
    /\ job' = "closing"
    /\ UNCHANGED <<alert, batch, ping, stuck, diagnosed, escalation, opened, faults>>

\* It has not: the workflow stops waiting, the thread goes on.
GiveUp ==
    /\ job = "waiting" /\ thread # "ended"
    /\ job' = "logging"
    /\ UNCHANGED <<alert, batch, ping, stuck, diagnosed, escalation, opened, faults>>

\* Transaction 2: the OPENED row, unless the insertion fails.
OpenLog ==
    /\ job = "logging"
    /\ \E failed \in BOOLEAN : MaybeFault(failed) /\ opened' = ~failed
    /\ job' = "closing"
    /\ UNCHANGED <<alert, batch, ping, stuck, diagnosed, escalation>>

\* Another error, the commit's or that of its answer, leaves the workflow.
OpenLogRaises ==
    /\ Fault
    /\ job = "logging"
    /\ opened' \in BOOLEAN
    /\ job' = "raising"
    /\ UNCHANGED <<alert, batch, ping, stuck, diagnosed, escalation>>

Outcome == IF job = "closing" THEN "done" ELSE "failed"

\* Faulty: the loop is closed while a thread still runs.
FinishAtOnce ==
    /\ job \in {"closing", "raising"}
    /\ job' = Outcome
    /\ UNCHANGED <<alert, batch, ping, stuck, diagnosed, escalation, opened, faults>>

\* Faulty: a thread is waited for even if none was started.
FinishAfterThread ==
    /\ job \in {"closing", "raising"} /\ thread = "ended"
    /\ job' = Outcome
    /\ UNCHANGED <<alert, batch, ping, stuck, diagnosed, escalation, opened, faults>>

\* asyncio.run ends, or raises, when the executor's threads have ended.
Finish ==
    /\ job \in {"closing", "raising"} /\ thread \in {"none", "ended"}
    /\ job' = Outcome
    /\ UNCHANGED <<alert, batch, ping, stuck, diagnosed, escalation, opened, faults>>

(***************************************************************************)
(* A ping                                                                  *)
(***************************************************************************)

\* Faulty: all pings of a batch start at once.
StartAtOnce(p) ==
    /\ job = "pinging" /\ ping[p] = "waiting"
    /\ SetPing(p, "running")
    /\ UNCHANGED <<job, alert, batch, stuck, diagnosed, escalation, opened, faults>>

\* A slot is free, and the process starts.
StartPing(p) ==
    /\ job = "pinging" /\ ping[p] = "waiting"
    /\ Cardinality(Slots) < MaxPings
    /\ SetPing(p, "running")
    /\ UNCHANGED <<job, alert, batch, stuck, diagnosed, escalation, opened, faults>>

\* It does not start.
StartFails(p) ==
    /\ Fault
    /\ job = "pinging" /\ ping[p] = "waiting"
    /\ Cardinality(Slots) < MaxPings
    /\ SetPing(p, "lost")
    /\ UNCHANGED <<job, alert, batch, stuck, diagnosed, escalation, opened>>

\* It exits: with code 0 it was answered, whatever its output says.
Exit(p) ==
    /\ ping[p] = "running"
    /\ \E verdict \in Verdict : SetPing(p, verdict)
    /\ UNCHANGED <<job, alert, batch, stuck, diagnosed, escalation, opened, faults>>

\* Faulty: the slot is free as soon as the kill is sent.
KillAndLeave(p) ==
    /\ ping[p] = "running"
    /\ SetPing(p, "lost")
    /\ stuck' = stuck + 1
    /\ UNCHANGED <<job, alert, batch, diagnosed, escalation, opened, faults>>

\* It does not exit in time and is killed.
Kill(p) ==
    /\ ping[p] = "running"
    /\ SetPing(p, "killed")
    /\ UNCHANGED <<job, alert, batch, stuck, diagnosed, escalation, opened, faults>>

\* The killed process ends.
Reap(p) ==
    /\ ping[p] = "killed"
    /\ SetPing(p, "lost")
    /\ UNCHANGED <<job, alert, batch, stuck, diagnosed, escalation, opened, faults>>

\* It does not within the grace period: the slot is free, the process remains.
LeaveStuck(p) ==
    /\ Fault
    /\ ping[p] = "killed"
    /\ SetPing(p, "lost")
    /\ stuck' = stuck + 1
    /\ UNCHANGED <<job, alert, batch, diagnosed, escalation, opened>>

(***************************************************************************)
(* The escalation's thread                                                 *)
(***************************************************************************)

\* send_alert_notification looks up whom to write to.  Without an alert there is
\* no escalation; without a contact of the ISP, or a template, neither.
Address ==
    /\ thread = "started"
    /\ thread' \in IF alert THEN {"addressed", "ended"} ELSE {"ended"}
    /\ UNCHANGED <<job, alert, batch, ping, stuck, diagnosed, mailed, escalated, opened, faults>>

\* The server accepts the mail for some of its recipients, which sendmail reports as
\* a success, or refuses all; or a call fails, of which the last ones come after the
\* mail was accepted.
SendMail ==
    /\ thread = "addressed"
    /\ \/ /\ mailed' \in (SUBSET Recipient) \ {{}}
          /\ thread' = "sent"
          /\ UNCHANGED faults
       \/ mailed' = {} /\ thread' = "unsent" /\ UNCHANGED faults
       \/ mailed' \in SUBSET Recipient /\ thread' = "unsent" /\ Fault
    /\ UNCHANGED <<job, alert, batch, ping, stuck, diagnosed, escalated, opened>>

\* Faulty: it is recorded as sent in any case.
RecordSent ==
    /\ thread \in {"sent", "unsent"}
    /\ escalated' = "sent"
    /\ thread' = "ended"
    /\ UNCHANGED <<job, alert, batch, ping, stuck, diagnosed, mailed, opened, faults>>

\* What sendmail has reported is recorded, unless the database fails; after an error
\* the record may be there nevertheless.
Record ==
    /\ thread \in {"sent", "unsent"}
    /\ \E failed \in BOOLEAN :
          LET report == IF thread = "sent" THEN "sent" ELSE "not sent" IN
          /\ MaybeFault(failed)
          /\ escalated' \in IF failed THEN {"none", report} ELSE {report}
    /\ thread' = "ended"
    /\ UNCHANGED <<job, alert, batch, ping, stuck, diagnosed, mailed, opened>>

(***************************************************************************)
(* Specification                                                           *)
(***************************************************************************)

Workflow ==
    \/ NoTarget \/ CreateAlert \/ CreateRaises
    \/ RefuseTarget \/ SkipBatches \/ StartBatch \/ EndBatch
    \/ CloseLogs \/ Persist \/ Dispatch \/ DispatchFails \/ Dispatched \/ GiveUp
    \/ OpenLog \/ OpenLogRaises \/ Finish

Pinging(p) ==
    StartPing(p) \/ StartFails(p) \/ Exit(p) \/ Kill(p) \/ Reap(p) \/ LeaveStuck(p)

Escalate == Address \/ SendMail \/ Record

Next == Workflow \/ Escalate \/ \E p \in Ping : Pinging(p)

Spec == Init /\ [][Next]_vars

\* The loop runs what can run, and smtplib's time-outs end the thread.
Fairness ==
    /\ WF_vars(Workflow)
    /\ WF_vars(Escalate)
    /\ \A p \in Ping : WF_vars(Pinging(p))

FairSpec == Spec /\ Fairness

(***************************************************************************)
(* Properties                                                              *)
(***************************************************************************)

\* The ISP hears of no outage whose site has answered the diagnosis: unless none was
\* sent, the loss of the last of all batches read 100.00 before, which takes more than
\* 19999 pings for each one that was answered (ping_service.py:155).
EscalatedUnanswered ==
    (thread # "none" /\ batch > 0) =>
        /\ batch = BatchCount
        /\ \A p \in Ping : ping[p] \in Verdict
        /\ LossReadsTotal

\* The semaphore bounds ping processes, but for those a kill could not end.
ProcessesBounded ==
    Cardinality(Slots) + stuck <= MaxPings + faults

\* When asyncio.run has ended or raised, no ping holds a slot and no escalation is
\* under way, although the diagnosis may have given it up.
EndedIsQuiet ==
    job \in Ended => Slots = {} /\ thread \in {"none", "ended"}

\* An escalation is recorded as sent only if somebody was mailed, and as not sent
\* although somebody was only after an error (_handle_escalation).  That the ISP is
\* among those who were mailed, nobody asks (smtp_client.py:156).
RecordTruthful ==
    /\ escalated = "sent" => mailed # {} /\ alert
    /\ escalated = "not sent" /\ mailed # {} => faults > 0

Count(missing) == IF missing THEN 1 ELSE 0

\* Each trace that a workflow run to its end has not left, of the outage in
\* sensor_logs, and of a mailed escalation in ping_diagnostics and
\* escalation_records, has cost an error of its own; no workflow raises without one.
OutageLogged ==
    /\ job = "done" =>
          Count(~opened) + Count(mailed # {} /\ ~diagnosed)
                         + Count(mailed # {} /\ escalated = "none") <= faults
    /\ job = "failed" => faults > 0

\* Every task ends, whatever its pings and its escalation do.
TaskEnds == job = "new" ~> job \in Ended
===============================================================================
