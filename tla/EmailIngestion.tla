----------------------------- MODULE EmailIngestion -----------------------------
(***************************************************************************)
(* How replies to an escalation are collected from the mailbox.            *)
(*                                                                         *)
(* One watcher (inbox_monitor.py) keeps an IMAP connection, fetches unread *)
(* messages, matches their headers with the Message-IDs it finds in Redis  *)
(* or, failing that, in isp_email_threads, and publishes a Celery task for *)
(* each message that matches.  The tasks (process_incoming_email_task) run *)
(* on workers of their own.  An engineer may run read_mail.py on the same  *)
(* mailbox.  IMAP, Redis, PostgreSQL, MinIO and the broker may fail at any *)
(* call, and the watcher or a worker may be lost between two.              *)
(***************************************************************************)
EXTENDS Naturals, FiniteSetsExt

CONSTANTS
    MaxMessages,    \* bound: incoming messages, numbered as they arrive
    Attached,       \* how many attachments each message has
    MaxRetries,     \* max_retries of the task
    MaxTroubles     \* bound: failed calls, lost processes and uses of read_mail.py

ASSUME ConstantsAssumption ==
    /\ MaxMessages \in Nat \ {0}
    /\ Attached \in [1 .. MaxMessages -> Nat]
    /\ MaxRetries \in Nat
    /\ MaxTroubles \in Nat

Message == 1 .. MaxMessages
Outgoing == 0               \* the Message-ID of the escalation
Id == Message \cup {Outgoing}

VARIABLES
    \* the dispatch of the escalation
    outgoing,   \* "sent", "recorded" in isp_email_threads, "cached" or "failed"
    \* the mailbox
    arrived,    \* messages 1 .. arrived are in INBOX
    seen,       \* those with the flag \Seen
    notice,     \* EXISTS responses that wait for the watcher's IDLE
    overlooked, \* unread messages that no EXISTS and no search is to bring up
    ids, first, \* the Message-IDs a message refers to, and which comes first
    \* the watcher
    watcher,    \* "offline", "working" or "idle"
    due,        \* searches to make for the EXISTS its last IDLE has returned
    batch,      \* unread messages its last search has found
    stage, hit, known, \* of the least of them: progress, thread found, escalation_id known
    ignored,    \* messages that matched no thread
    \* Redis and PostgreSQL
    cache,      \* msgid:<id>: "none", "bare" or with the "escalation"
    threads,    \* Message-IDs with a row in isp_email_threads
    answered,   \* response_received of the escalation
    \* the task of each message
    task, retries,
    escalation, \* its payload names the escalation
    up,         \* attachments this attempt has stored
    objects,    \* attachments stored by any attempt
    rows,       \* rows in attachments
    faults, crashes, reads

mailbox == <<arrived, seen, notice, overlooked, ids, first>>
watching == <<watcher, due, batch, stage, hit, known, ignored>>
tables == <<threads, answered, rows>>
running == <<task, retries, escalation, up, objects>>
bounds == <<faults, crashes, reads>>
vars == <<outgoing, mailbox, watching, cache, tables, running, bounds>>

Stage == {"next", "fetched", "missed", "located", "matched"}
Task == {"none", "queued", "open", "committed", "cached", "acked", "dead"}
Running == {"open", "committed", "cached"}

MailboxTypeOK ==
    /\ arrived \in 0 .. MaxMessages
    /\ seen \subseteq Message
    /\ notice \in Nat
    /\ overlooked \subseteq Message
    /\ ids \in [Message -> SUBSET Id]
    /\ first \in [Message -> Id]

WatcherTypeOK ==
    /\ watcher \in {"offline", "working", "idle"}
    /\ due \in Nat
    /\ batch \subseteq Message
    /\ stage \in Stage
    /\ hit \in Id
    /\ known \in BOOLEAN
    /\ ignored \subseteq Message

StoresTypeOK ==
    /\ outgoing \in {"sent", "recorded", "cached", "failed"}
    /\ cache \in [Id -> {"none", "bare", "escalation"}]
    /\ threads \subseteq Id
    /\ answered \in BOOLEAN

TasksTypeOK ==
    /\ task \in [Message -> Task]
    /\ retries \in [Message -> 0 .. MaxRetries]
    /\ escalation \in [Message -> BOOLEAN]
    /\ up \in [Message -> Nat]
    /\ objects \in [Message -> Nat]
    /\ rows \in [Message -> Nat]

\* Every variable keeps its type; no task is retried beyond max_retries.
TypeOK ==
    /\ MailboxTypeOK /\ WatcherTypeOK /\ StoresTypeOK /\ TasksTypeOK
    /\ faults \in Nat /\ crashes \in Nat /\ reads \in Nat
    /\ faults + crashes + reads <= MaxTroubles

Init ==
    /\ outgoing = "sent"
    /\ arrived = 0 /\ seen = {} /\ notice = 0 /\ overlooked = {}
    /\ ids = [m \in Message |-> {}]
    /\ first = [m \in Message |-> Outgoing]
    /\ watcher = "offline" /\ due = 0 /\ batch = {} /\ stage = "next"
    /\ hit = Outgoing /\ known = FALSE /\ ignored = {}
    /\ cache = [i \in Id |-> "none"]
    /\ threads = {} /\ answered = FALSE
    /\ task = [m \in Message |-> "none"]
    /\ retries = [m \in Message |-> 0]
    /\ escalation = [m \in Message |-> FALSE]
    /\ up = [m \in Message |-> 0]
    /\ objects = [m \in Message |-> 0]
    /\ rows = [m \in Message |-> 0]
    /\ faults = 0 /\ crashes = 0 /\ reads = 0

Trouble == faults + crashes + reads < MaxTroubles
Fault == Trouble /\ faults' = faults + 1 /\ UNCHANGED <<crashes, reads>>
Crash == Trouble /\ crashes' = crashes + 1 /\ UNCHANGED <<faults, reads>>

\* A call that may fail without a consequence of its own.
MaybeFault(failed) == IF failed THEN Fault ELSE UNCHANGED bounds

Arrived == 1 .. arrived
Unseen == Arrived \ seen
Current == Min(batch)

(***************************************************************************)
(* The escalation that is answered (clients/smtp_client.py)                *)
(***************************************************************************)

\* Once the e-mail has left, its row is committed; until then replies to it
\* match nothing.
RecordOutgoing ==
    /\ outgoing = "sent"
    /\ outgoing' = "recorded"
    /\ threads' = threads \cup {Outgoing}
    /\ UNCHANGED <<mailbox, watching, cache, answered, rows, running, bounds>>

\* Then its Message-ID is cached together with the escalation_id.
CacheOutgoing ==
    /\ outgoing = "recorded"
    /\ outgoing' = "cached"
    /\ \E failed \in BOOLEAN :
          /\ MaybeFault(failed)
          /\ cache' = IF failed THEN cache ELSE [cache EXCEPT ![Outgoing] = "escalation"]
    /\ UNCHANGED <<mailbox, watching, tables, running>>

\* The row is not written, or the worker is lost before the mapping is cached.
OutgoingFails ==
    /\ \/ outgoing = "sent" /\ Fault
       \/ outgoing = "recorded" /\ Crash
    /\ outgoing' = "failed"
    /\ UNCHANGED <<mailbox, watching, cache, tables, running>>

\* A mapping's TTL passes.
Expire(i) ==
    /\ cache[i] # "none"
    /\ cache' = [cache EXCEPT ![i] = "none"]
    /\ UNCHANGED <<outgoing, mailbox, watching, tables, running, bounds>>

(***************************************************************************)
(* The mailbox                                                             *)
(***************************************************************************)

\* A message arrives with the In-Reply-To and References its author's mail
\* program gave it.  EXISTS reaches the watcher in IDLE; outside of it the server
\* may report it in the answer to a command, DONE included, where nobody looks.
Arrive ==
    /\ arrived < MaxMessages
    /\ LET m == arrived + 1 IN
       /\ arrived' = m
       /\ \E refs \in SUBSET (0 .. arrived) :
             /\ ids' = [ids EXCEPT ![m] = refs]
             /\ \E f \in IF refs = {} THEN {Outgoing} ELSE refs : first' = [first EXCEPT ![m] = f]
       /\ \/ watcher = "offline" /\ UNCHANGED <<notice, overlooked>>
          \/ watcher # "offline" /\ notice' = notice + 1 /\ UNCHANGED overlooked
          \/ watcher = "working" /\ overlooked' = overlooked \cup {m} /\ UNCHANGED notice
    /\ UNCHANGED <<outgoing, seen, watching, cache, tables, running, bounds>>

\* read_mail.py selects INBOX read-write and fetches RFC822, which sets \Seen.
ReadMail(m) ==
    /\ Trouble /\ reads' = reads + 1
    /\ m \in Unseen
    /\ seen' = seen \cup {m}
    /\ UNCHANGED <<outgoing, arrived, notice, overlooked, ids, first, watching,
                   cache, tables, running, faults, crashes>>

(***************************************************************************)
(* The watcher                                                             *)
(***************************************************************************)

\* Faulty: what the search finds is marked as read at once.
SearchSeen ==
    /\ batch' = Unseen
    /\ seen' = seen \cup Unseen
    /\ watcher' = "working"
    /\ notice' = 0 /\ overlooked' = {}
    /\ UNCHANGED <<outgoing, arrived, ids, first, stage, hit, known, ignored,
                   cache, tables, running, bounds>>

\* A search finds everything unread.
Search ==
    /\ batch' = Unseen
    /\ watcher' = "working"
    /\ notice' = 0 /\ overlooked' = {}
    /\ UNCHANGED <<outgoing, arrived, seen, ids, first, stage, hit, known, ignored,
                   cache, tables, running, bounds>>

\* Faulty: nothing is searched for on connecting.
ConnectOnly ==
    /\ watcher = "offline"
    /\ watcher' = "idle"
    /\ notice' = 0
    /\ UNCHANGED <<outgoing, arrived, seen, overlooked, ids, first, due, batch, stage, hit,
                   known, ignored, cache, tables, running, bounds>>

\* A connection starts with a search.
Connect ==
    /\ watcher = "offline"
    /\ due' = 0
    /\ Search

\* idle_check returns: with the EXISTS that have come, or, at its time-out or for
\* another response, without any.
LeaveIdle ==
    /\ watcher = "idle"
    /\ IF notice = 0 THEN due' = 0 ELSE due' \in 1 .. notice
    /\ watcher' = "working" /\ notice' = 0
    /\ UNCHANGED <<outgoing, arrived, seen, overlooked, ids, first, batch, stage, hit,
                   known, ignored, cache, tables, running, bounds>>

\* Every EXISTS it has returned is followed by a search, one batch after another.
Notified ==
    /\ watcher = "working" /\ batch = {} /\ due > 0
    /\ due' = due - 1
    /\ Search

\* There is none, or all batches are done.
Idle ==
    /\ watcher = "working" /\ batch = {} /\ due = 0
    /\ watcher' = "idle"
    /\ UNCHANGED <<outgoing, mailbox, due, batch, stage, hit, known, ignored, cache, tables,
                   running, bounds>>

\* The connection breaks: what is left of the batch is fetched in vain.
Disconnect ==
    /\ Fault
    /\ watcher # "offline" /\ stage = "next"
    /\ watcher' = "offline"
    /\ due' = 0 /\ batch' = {}
    /\ UNCHANGED <<outgoing, mailbox, stage, hit, known, ignored, cache, tables, running>>

\* The watcher is stopped, and whatever it has fetched forgotten.
StopWatcher ==
    /\ Crash
    /\ watcher # "offline"
    /\ watcher' = "offline"
    /\ due' = 0 /\ batch' = {} /\ stage' = "next" /\ hit' = Outgoing /\ known' = FALSE
    /\ UNCHANGED <<outgoing, mailbox, ignored, cache, tables, running>>

\* process_new_email has finished with a message, for better or worse.
Proceed ==
    /\ batch' = batch \ {Current}
    /\ stage' = "next" /\ hit' = Outgoing /\ known' = FALSE
    /\ UNCHANGED <<watcher, due>>

\* Fetching RFC822 sets \Seen.
Fetch ==
    /\ watcher = "working" /\ batch # {} /\ stage = "next"
    /\ seen' = seen \cup {Current}
    /\ stage' = "fetched"
    /\ UNCHANGED <<outgoing, arrived, notice, overlooked, ids, first, watcher, due, batch,
                   hit, known, ignored, cache, tables, running, bounds>>

\* The server refuses, or the answer is lost or cannot be parsed.
FetchFails ==
    /\ Fault
    /\ watcher = "working" /\ batch # {} /\ stage = "next"
    /\ \/ seen' = seen \cup {Current} /\ UNCHANGED overlooked
       \/ UNCHANGED seen /\ overlooked' = overlooked \cup {Current}
    /\ Proceed
    /\ UNCHANGED <<outgoing, arrived, notice, ids, first, ignored, cache, tables, running>>

\* The candidate match_email_thread comes to first, of those in S.
FirstOf(m, S) == IF first[m] \in S THEN first[m] ELSE Min(S)

\* Redis is asked for each candidate; a GET that fails is a miss.
LookUpCache ==
    /\ watcher = "working" /\ stage = "fetched"
    /\ \E lost \in SUBSET ids[Current] :
          LET hits == {i \in ids[Current] : cache[i] # "none"} \ lost IN
          /\ MaybeFault(lost # {})
          /\ IF hits = {} THEN stage' = "missed" /\ UNCHANGED known
             ELSE stage' = "matched" /\ known' = (cache[FirstOf(Current, hits)] = "escalation")
    /\ UNCHANGED <<outgoing, mailbox, watcher, due, batch, hit, ignored, cache, tables, running>>

\* The database is asked for each candidate.
LookUpThreads ==
    /\ watcher = "working" /\ stage = "missed"
    /\ ids[Current] \cap threads # {}
    /\ hit' = FirstOf(Current, ids[Current] \cap threads)
    /\ stage' = "located"
    /\ UNCHANGED <<outgoing, mailbox, watcher, due, batch, known, ignored, cache, tables, running, bounds>>

\* No candidate has a thread: the message is ignored.
IgnoreMessage ==
    /\ watcher = "working" /\ stage = "missed"
    /\ ids[Current] \cap threads = {}
    /\ ignored' = ignored \cup {Current}
    /\ Proceed
    /\ UNCHANGED <<outgoing, mailbox, cache, tables, running, bounds>>

\* A thread found in the database is cached without its escalation.
CacheThread ==
    /\ watcher = "working" /\ stage = "located"
    /\ \E failed \in BOOLEAN :
          /\ MaybeFault(failed)
          /\ cache' = IF failed THEN cache ELSE [cache EXCEPT ![hit] = "bare"]
    /\ stage' = "matched"
    /\ UNCHANGED <<outgoing, mailbox, watcher, due, batch, hit, known, ignored, tables, running>>

\* The task of the message is published.
Publish ==
    /\ watcher = "working" /\ stage = "matched"
    /\ task' = [task EXCEPT ![Current] = "queued"]
    /\ escalation' = [escalation EXCEPT ![Current] = known]
    /\ Proceed
    /\ UNCHANGED <<outgoing, mailbox, ignored, cache, tables, retries, up, objects, bounds>>

\* A failed query counts as no match and a failed publication is only logged:
\* read, the message is not looked at again.
DropMessage ==
    /\ Fault
    /\ watcher = "working" /\ stage \in {"missed", "matched"}
    /\ Proceed
    /\ UNCHANGED <<outgoing, mailbox, ignored, cache, tables, running>>

(***************************************************************************)
(* The task of a message                                                   *)
(***************************************************************************)

\* A worker takes the task and opens its transaction.
StartTask(m) ==
    /\ task[m] = "queued"
    /\ task' = [task EXCEPT ![m] = "open"]
    /\ UNCHANGED <<outgoing, mailbox, watching, cache, tables, retries, escalation, up, objects,
                   bounds>>

\* Faulty: every attachment's row is committed at once.
UploadCommitted(m) ==
    /\ task[m] = "open" /\ up[m] < Attached[m]
    /\ up' = [up EXCEPT ![m] = @ + 1]
    /\ objects' = [objects EXCEPT ![m] = @ + 1]
    /\ rows' = [rows EXCEPT ![m] = @ + 1]
    /\ UNCHANGED <<outgoing, mailbox, watching, cache, threads, answered, task, retries,
                   escalation, bounds>>

\* An attachment is stored in MinIO under a key that was never used before.
Upload(m) ==
    /\ task[m] = "open" /\ up[m] < Attached[m]
    /\ up' = [up EXCEPT ![m] = @ + 1]
    /\ objects' = [objects EXCEPT ![m] = @ + 1]
    /\ UNCHANGED <<outgoing, mailbox, watching, cache, tables, task, retries, escalation, bounds>>

\* Faulty: the Message-ID is cached before its row is committed.
CacheFirst(m) ==
    /\ task[m] = "open"
    /\ cache' = [cache EXCEPT ![m] = "bare"]
    /\ UNCHANGED <<outgoing, mailbox, watching, tables, running, bounds>>

\* The thread's row unless it exists, a row for each object stored and, if the
\* escalation is known, its answer: should marking that fail, the error is logged
\* and the rest is committed.
CommitMessage(m) ==
    /\ task[m] = "open" /\ up[m] = Attached[m]
    /\ threads' = threads \cup {m}
    /\ \E failed \in BOOLEAN :
          /\ failed => escalation[m]
          /\ MaybeFault(failed)
          /\ answered' = (answered \/ (escalation[m] /\ ~failed))
    /\ rows' = [rows EXCEPT ![m] = @ + Attached[m]]
    /\ task' = [task EXCEPT ![m] = "committed"]
    /\ UNCHANGED <<outgoing, mailbox, watching, cache, retries, escalation, up, objects>>

\* Faulty: the task is retried without limit.
TaskFailsRetrying(m) ==
    /\ Fault
    /\ task[m] \in {"open", "committed"}
    /\ up' = [up EXCEPT ![m] = 0]
    /\ task' = [task EXCEPT ![m] = "queued"]
    /\ retries' = [retries EXCEPT ![m] = @ + 1]
    /\ UNCHANGED <<outgoing, mailbox, watching, cache, tables, escalation, objects>>

\* The database or three uploads fail, or the soft time limit passes: the task is
\* retried, or dead-lettered, and its transaction undone, if it is still open; the
\* limit may pass, or the answer to the commit be lost, when it no longer is.
TaskFails(m) ==
    /\ Fault
    /\ task[m] \in {"open", "committed"}
    /\ up' = [up EXCEPT ![m] = 0]
    /\ IF retries[m] < MaxRetries
       THEN /\ task' = [task EXCEPT ![m] = "queued"]
            /\ retries' = [retries EXCEPT ![m] = @ + 1]
       ELSE task' = [task EXCEPT ![m] = "dead"] /\ UNCHANGED retries
    /\ UNCHANGED <<outgoing, mailbox, watching, cache, tables, escalation, objects>>

\* The Message-ID is cached, without the escalation.
CacheIncoming(m) ==
    /\ task[m] = "committed"
    /\ \E failed \in BOOLEAN :
          /\ MaybeFault(failed)
          /\ cache' = IF failed THEN cache ELSE [cache EXCEPT ![m] = "bare"]
    /\ task' = [task EXCEPT ![m] = "cached"]
    /\ UNCHANGED <<outgoing, mailbox, watching, tables, retries, escalation, up, objects>>

\* The reply monitor is told (module IspReplyMonitor), and the task acknowledged.
Acknowledge(m) ==
    /\ task[m] = "cached"
    /\ task' = [task EXCEPT ![m] = "acked"]
    /\ UNCHANGED <<outgoing, mailbox, watching, cache, tables, retries, escalation, up, objects,
                   bounds>>

\* Faulty: a task is acknowledged when it is received.
LoseWorkerAcked(m) ==
    /\ Crash
    /\ task[m] \in Running
    /\ up' = [up EXCEPT ![m] = 0]
    /\ task' = [task EXCEPT ![m] = "acked"]
    /\ UNCHANGED <<outgoing, mailbox, watching, cache, tables, retries, escalation, objects>>

\* A worker is lost, killed by the hard time limit perhaps, and with it its
\* transaction; the broker delivers the task again.
LoseWorker(m) ==
    /\ Crash
    /\ task[m] \in Running
    /\ up' = [up EXCEPT ![m] = 0]
    /\ task' = [task EXCEPT ![m] = "queued"]
    /\ UNCHANGED <<outgoing, mailbox, watching, cache, tables, retries, escalation, objects>>

(***************************************************************************)
(* Specification                                                           *)
(***************************************************************************)

Watch ==
    \/ Connect \/ LeaveIdle \/ Notified \/ Idle \/ Fetch
    \/ LookUpCache \/ LookUpThreads \/ IgnoreMessage \/ CacheThread \/ Publish

Work(m) ==
    StartTask(m) \/ Upload(m) \/ CommitMessage(m) \/ CacheIncoming(m) \/ Acknowledge(m)

Next ==
    \/ RecordOutgoing \/ CacheOutgoing \/ OutgoingFails
    \/ \E i \in Id : Expire(i)
    \/ Arrive
    \/ Watch \/ Disconnect \/ StopWatcher \/ FetchFails \/ DropMessage
    \/ \E m \in Message : ReadMail(m) \/ Work(m) \/ TaskFails(m) \/ LoseWorker(m)

Spec == Init /\ [][Next]_vars

\* The watcher is restarted when it has stopped, and workers take what is queued.
Fairness == WF_vars(Watch) /\ \A m \in Message : WF_vars(Work(m))

FairSpec == Spec /\ Fairness

(***************************************************************************)
(* Properties                                                              *)
(***************************************************************************)

\* Tasks that are acknowledged and whose message was matched with the escalation.
Answers == {m \in Message : task[m] = "acked" /\ escalation[m]}

\* An acknowledged task has left its thread and its attachments, whatever was
\* retried or redelivered on the way; and an escalation goes without its answer
\* through as many acknowledged replies at most as calls have failed, each of which
\* swallowed one (process_incoming_email_task, acks_late, tasks.py:266-277).
AcknowledgedIsRecorded ==
    /\ \A m \in Message : task[m] = "acked" => m \in threads /\ rows[m] >= Attached[m]
    /\ ~answered => Cardinality(Answers) <= faults

\* Every attachment row has its object, and each attempt adds the rows of a message
\* at most once: attempts that were undone leave objects, but never rows.
AttachmentsBacked ==
    \A m \in Message :
        /\ rows[m] <= objects[m]
        /\ rows[m] <= Attached[m] * (1 + retries[m] + crashes)

\* Redis answers for no Message-ID that the database does not have.
CacheBacked == \A i \in Id : cache[i] # "none" => i \in threads

\* Read, and yet neither in the watcher's hands, nor ignored, nor published.
Dropped == {m \in seen : m \notin batch \cup ignored /\ task[m] = "none"}

\* A failure, a lost watcher or a use of read_mail.py costs one message at most,
\* however many the search had found (inbox_monitor.py:101).
LossesExplained == Cardinality(Dropped) <= faults + crashes + reads

\* The watcher catches up: time and again every message that has arrived is
\* recorded, dead-lettered, ignored or dropped.  A message whose EXISTS came outside
\* of IDLE is excused until the next search: it may wait for the next message.
ArrivedSettles ==
    []<>(\A m \in Arrived :
            task[m] \in {"acked", "dead"} \/ m \in ignored \cup Dropped \cup overlooked)
===============================================================================
