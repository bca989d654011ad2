------------------------- MODULE EmailIngestionProofs -------------------------
(***************************************************************************)
(* Theorems about EmailIngestion, for every number of messages and of      *)
(* attachments, and however many calls fail and processes are lost.        *)
(***************************************************************************)
EXTENDS EmailIngestion, FiniteSetTheorems, WellFoundedInduction, TLAPS

(***************************************************************************)
(* The least element of a set                                              *)
(***************************************************************************)

\* The message the watcher works on is one of its batch (search order).
LEMMA MinMember ==
    ASSUME NEW S \in SUBSET Nat, S # {}
    PROVE  Min(S) \in S
<1>1. PICK x \in S : \A y \in S : ~(y < x)
    <2>1. \E x \in S : \A y \in S : <<y, x>> \notin OpToRel(<, Nat)
        BY NatLessThanWellFounded, WFMin
    <2> QED
        BY <2>1 DEF OpToRel
<1>2. \A y \in S : x <= y
    BY <1>1
<1> QED
    BY <1>2 DEF Min

LEMMA MessagesAreNumbers == /\ MaxMessages \in Nat /\ MaxTroubles \in Nat /\ MaxRetries \in Nat
                            /\ Message \subseteq Nat /\ Id \subseteq Nat
                            /\ Message \subseteq Id /\ Outgoing \in Id
                            /\ \A m \in Message : Attached[m] \in Nat
<1>1. MaxMessages \in Nat /\ MaxTroubles \in Nat /\ MaxRetries \in Nat
    BY ConstantsAssumption
<1>2. \A m \in Message : Attached[m] \in Nat
    BY ConstantsAssumption DEF Message
<1> QED
    BY <1>1, <1>2 DEF Message, Id, Outgoing

LEMMA CurrentInBatch ==
    ASSUME batch \subseteq Message, batch # {}
    PROVE  Current \in batch
BY MinMember, MessagesAreNumbers DEF Current

\* The thread a message is matched with is one of those found.
LEMMA FirstOfMember ==
    ASSUME NEW m, NEW S \in SUBSET Id, S # {}
    PROVE  FirstOf(m, S) \in S
BY MinMember, MessagesAreNumbers DEF FirstOf

(***************************************************************************)
(* The inductive invariant                                                 *)
(***************************************************************************)

\* A batch is fetched while the watcher works, and the message in its hands has
\* been read.
Watching ==
    /\ watcher # "working" => batch = {} /\ stage = "next"
    /\ stage # "next" => batch # {} /\ Current \in seen

\* A task is published for a message that is read and no longer in the batch.
Published == \A m \in Message : task[m] # "none" => m \in seen /\ m \notin batch

\* What is about to be cached has a row.
Backed ==
    /\ outgoing \in {"recorded", "cached"} => Outgoing \in threads
    /\ stage = "located" => hit \in threads
    /\ CacheBacked

Written == {"committed", "cached", "acked"}

\* The transaction of a task has left its rows behind.
Recorded ==
    \A m \in Message : task[m] \in Written =>
        /\ m \in threads
        /\ rows[m] >= Attached[m]

\* Tasks that have committed a reply to the escalation: while it is unanswered,
\* each has swallowed an error.
Committed == {m \in Message : task[m] \in Written /\ escalation[m]}
FewUnanswered == ~answered => Cardinality(Committed) <= faults

\* An attempt that has not committed holds objects without rows.
Stored ==
    \A m \in Message :
        /\ task[m] \in {"none", "queued", "dead"} => up[m] = 0
        /\ rows[m] + (IF task[m] = "open" THEN up[m] ELSE 0) <= objects[m]

\* A task commits once more for each retry and for each worker that is lost.
Attempts(m) == retries[m] + crashes
Settled == Written \cup {"dead"}
Repeated ==
    \A m \in Message :
        rows[m] <= Attached[m] * Attempts(m)
                   + (IF task[m] \in Settled THEN Attached[m] ELSE 0)

\* Messages that are read and would be dropped if the watcher stopped now, other
\* than the one it works on.
InHand == IF stage = "next" THEN {} ELSE {Current}
AtRisk == {m \in seen : m \notin ignored /\ task[m] = "none"} \ InHand

FewAtRisk == Cardinality(AtRisk) <= faults + crashes + reads

IInv ==
    /\ TypeOK /\ Watching /\ Published /\ Backed
    /\ Recorded /\ FewUnanswered /\ Stored /\ Repeated /\ FewAtRisk


LEMMA InitInvariant == Init => IInv
<1> SUFFICES ASSUME Init PROVE IInv
    OBVIOUS
<1>0. Message \subseteq Nat /\ MaxTroubles \in Nat /\ MaxMessages \in Nat /\ Outgoing \in Id
      /\ MaxRetries \in Nat /\ \A m \in Message : Attached[m] \in Nat
    BY MessagesAreNumbers
<1>1. TypeOK
    <2>0. MailboxTypeOK
        <3>1. arrived \in 0 .. MaxMessages
            BY <1>0 DEF Init
        <3>2. ids \in [Message -> SUBSET Id] /\ first \in [Message -> Id]
            BY <1>0 DEF Init
        <3> QED
            BY <3>1, <3>2 DEF Init, MailboxTypeOK
    <2>1. WatcherTypeOK
        BY <1>0 DEF Init, WatcherTypeOK, Stage
    <2>2. StoresTypeOK
        BY DEF Init, StoresTypeOK
    <2>3. TasksTypeOK
        BY <1>0 DEF Init, TasksTypeOK, Task
    <2> QED
        BY <2>0, <2>1, <2>2, <2>3, <1>0 DEF Init, TypeOK
<1>2. Watching /\ Published /\ Backed
    BY <1>0 DEF Init, Watching, Published, Backed, CacheBacked
<1>3. Recorded /\ Stored /\ Repeated
    BY <1>0 DEF Init, Recorded, Stored, Repeated, Attempts, Settled, Written
<1>4. FewAtRisk
    <2>1. AtRisk = {}
        BY DEF Init, AtRisk
    <2> QED
        BY <2>1, FS_EmptySet DEF Init, FewAtRisk
<1>5. FewUnanswered
    <2>1. Committed = {}
        BY DEF Init, Committed, Written
    <2> QED
        BY <2>1, FS_EmptySet DEF Init, FewUnanswered
<1> QED
    BY <1>1, <1>2, <1>3, <1>4, <1>5 DEF IInv


\* The thread a lookup finds is one that has a row.
LEMMA HitIsThread == IInv /\ LookUpThreads => hit' \in threads /\ hit' \in Id
<1> SUFFICES ASSUME IInv, LookUpThreads PROVE hit' \in threads /\ hit' \in Id
    OBVIOUS
<1>1. threads \subseteq Id
    BY DEF IInv, TypeOK, StoresTypeOK
<1>2. ids[Current] \cap threads \in SUBSET Id
    BY <1>1
<1>3. FirstOf(Current, ids[Current] \cap threads) \in ids[Current] \cap threads
    BY <1>2, FirstOfMember DEF LookUpThreads
<1> QED
    BY <1>2, <1>3 DEF LookUpThreads


\* Every step keeps the types.
LEMMA TypeStep == IInv /\ [Next]_vars => TypeOK'
<1> SUFFICES ASSUME IInv, [Next]_vars PROVE TypeOK'
    OBVIOUS
<1>c. batch # {} => Current \in batch /\ Current \in Message
    BY CurrentInBatch DEF IInv, TypeOK, WatcherTypeOK
<1>u. Unseen \subseteq Message
    BY MessagesAreNumbers DEF IInv, TypeOK, MailboxTypeOK, Unseen, Arrived, Message
<1>1. CASE RecordOutgoing
    BY <1>1, MessagesAreNumbers
        DEF IInv, TypeOK, MailboxTypeOK, WatcherTypeOK, StoresTypeOK, TasksTypeOK, Stage,
            Task, RecordOutgoing, mailbox, watching, tables, running, bounds
<1>2. CASE CacheOutgoing
    BY <1>2, MessagesAreNumbers
        DEF IInv, TypeOK, MailboxTypeOK, WatcherTypeOK, StoresTypeOK, TasksTypeOK, Stage,
            Task, CacheOutgoing, MaybeFault, Fault, Trouble, mailbox, watching, tables,
            running, bounds
<1>3. CASE OutgoingFails
    BY <1>3, MessagesAreNumbers
        DEF IInv, TypeOK, MailboxTypeOK, WatcherTypeOK, StoresTypeOK, TasksTypeOK, Stage,
            Task, OutgoingFails, Fault, Crash, Trouble, mailbox, watching, tables, running,
            bounds
<1>4. ASSUME NEW i \in Id, Expire(i) PROVE TypeOK'
    BY <1>4, MessagesAreNumbers
        DEF IInv, TypeOK, MailboxTypeOK, WatcherTypeOK, StoresTypeOK, TasksTypeOK, Stage,
            Task, Expire, mailbox, watching, tables, running, bounds
<1>5. CASE Arrive
    <2>0. arrived \in Nat /\ arrived + 1 \in Message /\ 0 .. arrived \subseteq Id /\ Outgoing \in Id
        BY <1>5, MessagesAreNumbers DEF IInv, TypeOK, MailboxTypeOK, Arrive, Message, Id, Outgoing
    <2>a. PICK refs \in SUBSET (0 .. arrived) :
              /\ ids' = [ids EXCEPT ![arrived + 1] = refs]
              /\ \E f \in IF refs = {} THEN {Outgoing} ELSE refs :
                    first' = [first EXCEPT ![arrived + 1] = f]
        BY <1>5 DEF Arrive
    <2>b. PICK f \in IF refs = {} THEN {Outgoing} ELSE refs :
              first' = [first EXCEPT ![arrived + 1] = f]
        BY <2>a
    <2>d. refs \subseteq Id /\ f \in Id
        BY <2>0, <2>a, <2>b
    <2>e. ids' \in [Message -> SUBSET Id] /\ first' \in [Message -> Id]
        BY <2>0, <2>a, <2>b, <2>d DEF IInv, TypeOK, MailboxTypeOK
    <2>f. arrived' \in 0 .. MaxMessages
        BY <1>5, <2>0, MessagesAreNumbers DEF Arrive, Message
    <2>g. overlooked' \subseteq Message /\ notice' \in Nat
        BY <1>5, <2>0 DEF IInv, TypeOK, MailboxTypeOK, Arrive
    <2>1. MailboxTypeOK'
        BY <1>5, <2>e, <2>f, <2>g
            DEF IInv, TypeOK, MailboxTypeOK, Stage, Task, Arrive, mailbox, watching, tables,
                running, bounds
    <2>2. WatcherTypeOK'
        BY <1>5
            DEF IInv, TypeOK, WatcherTypeOK, Stage, Task, Arrive, mailbox, watching, tables,
                running, bounds
    <2>3. StoresTypeOK'
        BY <1>5
            DEF IInv, TypeOK, StoresTypeOK, Stage, Task, Arrive, mailbox, watching, tables,
                running, bounds
    <2>4. TasksTypeOK'
        BY <1>5
            DEF IInv, TypeOK, TasksTypeOK, Stage, Task, Arrive, mailbox, watching, tables,
                running, bounds
    <2>5. faults' \in Nat /\ crashes' \in Nat /\ reads' \in Nat
          /\ faults' + crashes' + reads' <= MaxTroubles
        BY <1>5, MessagesAreNumbers
            DEF IInv, TypeOK, Arrive, bounds
    <2> QED
        BY <2>1, <2>2, <2>3, <2>4, <2>5 DEF TypeOK
<1>6. CASE Connect
    <2>1. MailboxTypeOK'
        BY <1>6
            DEF IInv, TypeOK, MailboxTypeOK, Stage, Task, Connect, Search, Unseen, Arrived,
                mailbox, watching, tables, running, bounds
    <2>2. WatcherTypeOK'
        BY <1>6, <1>u
            DEF IInv, TypeOK, WatcherTypeOK, Stage, Task, Connect, Search, Unseen, Arrived,
                mailbox, watching, tables, running, bounds
    <2>3. StoresTypeOK'
        BY <1>6
            DEF IInv, TypeOK, StoresTypeOK, Stage, Task, Connect, Search, Unseen, Arrived,
                mailbox, watching, tables, running, bounds
    <2>4. TasksTypeOK'
        BY <1>6
            DEF IInv, TypeOK, TasksTypeOK, Stage, Task, Connect, Search, Unseen, Arrived,
                mailbox, watching, tables, running, bounds
    <2>5. faults' \in Nat /\ crashes' \in Nat /\ reads' \in Nat
          /\ faults' + crashes' + reads' <= MaxTroubles
        BY <1>6, MessagesAreNumbers
            DEF IInv, TypeOK, Connect, Search, Unseen, Arrived, bounds
    <2> QED
        BY <2>1, <2>2, <2>3, <2>4, <2>5 DEF TypeOK
<1>7. CASE Notified
    <2>1. MailboxTypeOK'
        BY <1>7
            DEF IInv, TypeOK, MailboxTypeOK, Stage, Task, Notified, Search, Unseen, Arrived,
                mailbox, watching, tables, running, bounds
    <2>2. WatcherTypeOK'
        BY <1>7, <1>u
            DEF IInv, TypeOK, WatcherTypeOK, Stage, Task, Notified, Search, Unseen, Arrived,
                mailbox, watching, tables, running, bounds
    <2>3. StoresTypeOK'
        BY <1>7
            DEF IInv, TypeOK, StoresTypeOK, Stage, Task, Notified, Search, Unseen, Arrived,
                mailbox, watching, tables, running, bounds
    <2>4. TasksTypeOK'
        BY <1>7
            DEF IInv, TypeOK, TasksTypeOK, Stage, Task, Notified, Search, Unseen, Arrived,
                mailbox, watching, tables, running, bounds
    <2>5. faults' \in Nat /\ crashes' \in Nat /\ reads' \in Nat
          /\ faults' + crashes' + reads' <= MaxTroubles
        BY <1>7, MessagesAreNumbers
            DEF IInv, TypeOK, Notified, Search, Unseen, Arrived, bounds
    <2> QED
        BY <2>1, <2>2, <2>3, <2>4, <2>5 DEF TypeOK
<1>7a. CASE LeaveIdle
    BY <1>7a, MessagesAreNumbers
        DEF IInv, TypeOK, MailboxTypeOK, WatcherTypeOK, StoresTypeOK, TasksTypeOK, Stage,
            Task, LeaveIdle, mailbox, watching, tables, running, bounds
<1>8. CASE Idle
    BY <1>8, MessagesAreNumbers
        DEF IInv, TypeOK, MailboxTypeOK, WatcherTypeOK, StoresTypeOK, TasksTypeOK, Stage,
            Task, Idle, mailbox, watching, tables, running, bounds
<1>9. CASE Fetch
    <2>1. MailboxTypeOK'
        BY <1>9, <1>c
            DEF IInv, TypeOK, MailboxTypeOK, Stage, Task, Fetch, mailbox, watching, tables,
                running, bounds
    <2>2. WatcherTypeOK'
        BY <1>9, <1>c, MessagesAreNumbers
            DEF IInv, TypeOK, WatcherTypeOK, Stage, Task, Fetch, mailbox, watching, tables,
                running, bounds
    <2>3. StoresTypeOK'
        BY <1>9
            DEF IInv, TypeOK, StoresTypeOK, Stage, Task, Fetch, mailbox, watching, tables,
                running, bounds
    <2>4. TasksTypeOK'
        BY <1>9
            DEF IInv, TypeOK, TasksTypeOK, Stage, Task, Fetch, mailbox, watching, tables,
                running, bounds
    <2>5. faults' \in Nat /\ crashes' \in Nat /\ reads' \in Nat
          /\ faults' + crashes' + reads' <= MaxTroubles
        BY <1>9, MessagesAreNumbers
            DEF IInv, TypeOK, Fetch, bounds
    <2> QED
        BY <2>1, <2>2, <2>3, <2>4, <2>5 DEF TypeOK
<1>10. CASE LookUpCache
    <2>1. MailboxTypeOK'
        BY <1>10
            DEF IInv, TypeOK, MailboxTypeOK, Stage, Task, LookUpCache, MaybeFault, Fault,
                Trouble, mailbox, watching, tables, running, bounds
    <2>2. WatcherTypeOK'
        BY <1>10, MessagesAreNumbers
            DEF IInv, TypeOK, WatcherTypeOK, Stage, Task, LookUpCache, MaybeFault, Fault,
                Trouble, mailbox, watching, tables, running, bounds
    <2>3. StoresTypeOK'
        BY <1>10
            DEF IInv, TypeOK, StoresTypeOK, Stage, Task, LookUpCache, MaybeFault, Fault,
                Trouble, mailbox, watching, tables, running, bounds
    <2>4. TasksTypeOK'
        BY <1>10
            DEF IInv, TypeOK, TasksTypeOK, Stage, Task, LookUpCache, MaybeFault, Fault,
                Trouble, mailbox, watching, tables, running, bounds
    <2>5. faults' \in Nat /\ crashes' \in Nat /\ reads' \in Nat
          /\ faults' + crashes' + reads' <= MaxTroubles
        BY <1>10, MessagesAreNumbers
            DEF IInv, TypeOK, LookUpCache, MaybeFault, Fault, Trouble, bounds
    <2> QED
        BY <2>1, <2>2, <2>3, <2>4, <2>5 DEF TypeOK
<1>11. CASE LookUpThreads
    <2>0. hit' \in Id
        BY <1>11, HitIsThread
    <2>1. MailboxTypeOK'
        BY <1>11
            DEF IInv, TypeOK, MailboxTypeOK, Stage, Task, LookUpThreads, mailbox, watching,
                tables, running, bounds
    <2>2. WatcherTypeOK'
        BY <1>11, MessagesAreNumbers, <2>0
            DEF IInv, TypeOK, WatcherTypeOK, Stage, Task, LookUpThreads, mailbox, watching,
                tables, running, bounds
    <2>3. StoresTypeOK'
        BY <1>11
            DEF IInv, TypeOK, StoresTypeOK, Stage, Task, LookUpThreads, mailbox, watching,
                tables, running, bounds
    <2>4. TasksTypeOK'
        BY <1>11
            DEF IInv, TypeOK, TasksTypeOK, Stage, Task, LookUpThreads, mailbox, watching,
                tables, running, bounds
    <2>5. faults' \in Nat /\ crashes' \in Nat /\ reads' \in Nat
          /\ faults' + crashes' + reads' <= MaxTroubles
        BY <1>11, MessagesAreNumbers
            DEF IInv, TypeOK, LookUpThreads, bounds
    <2> QED
        BY <2>1, <2>2, <2>3, <2>4, <2>5 DEF TypeOK
<1>12. CASE IgnoreMessage
    <2>1. MailboxTypeOK'
        BY <1>12, <1>c
            DEF IInv, TypeOK, MailboxTypeOK, Stage, Task, IgnoreMessage, Proceed, mailbox,
                watching, tables, running, bounds
    <2>2. WatcherTypeOK'
        BY <1>12, <1>c, MessagesAreNumbers
            DEF IInv, TypeOK, Watching, WatcherTypeOK, Stage, Task, IgnoreMessage, Proceed, mailbox,
                watching, tables, running, bounds
    <2>3. StoresTypeOK'
        BY <1>12
            DEF IInv, TypeOK, StoresTypeOK, Stage, Task, IgnoreMessage, Proceed, mailbox,
                watching, tables, running, bounds
    <2>4. TasksTypeOK'
        BY <1>12
            DEF IInv, TypeOK, TasksTypeOK, Stage, Task, IgnoreMessage, Proceed, mailbox,
                watching, tables, running, bounds
    <2>5. faults' \in Nat /\ crashes' \in Nat /\ reads' \in Nat
          /\ faults' + crashes' + reads' <= MaxTroubles
        BY <1>12, MessagesAreNumbers
            DEF IInv, TypeOK, IgnoreMessage, Proceed, bounds
    <2> QED
        BY <2>1, <2>2, <2>3, <2>4, <2>5 DEF TypeOK
<1>13. CASE CacheThread
    BY <1>13, MessagesAreNumbers
        DEF IInv, TypeOK, MailboxTypeOK, WatcherTypeOK, StoresTypeOK, TasksTypeOK, Stage,
            Task, CacheThread, MaybeFault, Fault, Trouble, mailbox, watching, tables,
            running, bounds
<1>14. CASE Publish
    BY <1>14, MessagesAreNumbers
        DEF IInv, TypeOK, MailboxTypeOK, WatcherTypeOK, StoresTypeOK, TasksTypeOK, Stage,
            Task, Publish, Proceed, mailbox, watching, tables, running, bounds
<1>15. CASE Disconnect
    BY <1>15, MessagesAreNumbers
        DEF IInv, TypeOK, MailboxTypeOK, WatcherTypeOK, StoresTypeOK, TasksTypeOK, Stage,
            Task, Disconnect, Fault, Trouble, mailbox, watching, tables, running, bounds
<1>16. CASE StopWatcher
    <2>1. MailboxTypeOK'
        BY <1>16
            DEF IInv, TypeOK, MailboxTypeOK, Stage, Task, StopWatcher, Crash, Trouble,
                mailbox, watching, tables, running, bounds
    <2>2. WatcherTypeOK'
        BY <1>16, MessagesAreNumbers
            DEF IInv, TypeOK, WatcherTypeOK, Stage, Task, StopWatcher, Crash, Trouble,
                mailbox, watching, tables, running, bounds
    <2>3. StoresTypeOK'
        BY <1>16
            DEF IInv, TypeOK, StoresTypeOK, Stage, Task, StopWatcher, Crash, Trouble,
                mailbox, watching, tables, running, bounds
    <2>4. TasksTypeOK'
        BY <1>16
            DEF IInv, TypeOK, TasksTypeOK, Stage, Task, StopWatcher, Crash, Trouble,
                mailbox, watching, tables, running, bounds
    <2>5. faults' \in Nat /\ crashes' \in Nat /\ reads' \in Nat
          /\ faults' + crashes' + reads' <= MaxTroubles
        BY <1>16, MessagesAreNumbers
            DEF IInv, TypeOK, StopWatcher, Crash, Trouble, bounds
    <2> QED
        BY <2>1, <2>2, <2>3, <2>4, <2>5 DEF TypeOK
<1>17. CASE FetchFails
    <2>1. MailboxTypeOK'
        BY <1>17, <1>c
            DEF IInv, TypeOK, MailboxTypeOK, Stage, Task, FetchFails, Proceed, Fault,
                Trouble, mailbox, watching, tables, running, bounds
    <2>2. WatcherTypeOK'
        BY <1>17, <1>c, MessagesAreNumbers
            DEF IInv, TypeOK, Watching, WatcherTypeOK, Stage, Task, FetchFails, Proceed, Fault,
                Trouble, mailbox, watching, tables, running, bounds
    <2>3. StoresTypeOK'
        BY <1>17
            DEF IInv, TypeOK, StoresTypeOK, Stage, Task, FetchFails, Proceed, Fault,
                Trouble, mailbox, watching, tables, running, bounds
    <2>4. TasksTypeOK'
        BY <1>17
            DEF IInv, TypeOK, TasksTypeOK, Stage, Task, FetchFails, Proceed, Fault, Trouble,
                mailbox, watching, tables, running, bounds
    <2>5. faults' \in Nat /\ crashes' \in Nat /\ reads' \in Nat
          /\ faults' + crashes' + reads' <= MaxTroubles
        BY <1>17, MessagesAreNumbers
            DEF IInv, TypeOK, FetchFails, Proceed, Fault, Trouble, bounds
    <2> QED
        BY <2>1, <2>2, <2>3, <2>4, <2>5 DEF TypeOK
<1>18. CASE DropMessage
    <2>1. MailboxTypeOK'
        BY <1>18, <1>c
            DEF IInv, TypeOK, MailboxTypeOK, Stage, Task, DropMessage, Proceed, Fault,
                Trouble, mailbox, watching, tables, running, bounds
    <2>2. WatcherTypeOK'
        BY <1>18, <1>c, MessagesAreNumbers
            DEF IInv, TypeOK, Watching, WatcherTypeOK, Stage, Task, DropMessage, Proceed, Fault,
                Trouble, mailbox, watching, tables, running, bounds
    <2>3. StoresTypeOK'
        BY <1>18
            DEF IInv, TypeOK, StoresTypeOK, Stage, Task, DropMessage, Proceed, Fault,
                Trouble, mailbox, watching, tables, running, bounds
    <2>4. TasksTypeOK'
        BY <1>18
            DEF IInv, TypeOK, TasksTypeOK, Stage, Task, DropMessage, Proceed, Fault,
                Trouble, mailbox, watching, tables, running, bounds
    <2>5. faults' \in Nat /\ crashes' \in Nat /\ reads' \in Nat
          /\ faults' + crashes' + reads' <= MaxTroubles
        BY <1>18, MessagesAreNumbers
            DEF IInv, TypeOK, DropMessage, Proceed, Fault, Trouble, bounds
    <2> QED
        BY <2>1, <2>2, <2>3, <2>4, <2>5 DEF TypeOK
<1>19. ASSUME NEW m \in Message, ReadMail(m) PROVE TypeOK'
    BY <1>19, MessagesAreNumbers
        DEF IInv, TypeOK, MailboxTypeOK, WatcherTypeOK, StoresTypeOK, TasksTypeOK, Stage,
            Task, ReadMail, Trouble, Unseen, Arrived, mailbox, watching, tables, running,
            bounds
<1>20. ASSUME NEW m \in Message, StartTask(m) PROVE TypeOK'
    BY <1>20, MessagesAreNumbers
        DEF IInv, TypeOK, MailboxTypeOK, WatcherTypeOK, StoresTypeOK, TasksTypeOK, Stage,
            Task, StartTask, mailbox, watching, tables, running, bounds
<1>21. ASSUME NEW m \in Message, Upload(m) PROVE TypeOK'
    BY <1>21, MessagesAreNumbers
        DEF IInv, TypeOK, MailboxTypeOK, WatcherTypeOK, StoresTypeOK, TasksTypeOK, Stage,
            Task, Upload, mailbox, watching, tables, running, bounds
<1>22. ASSUME NEW m \in Message, CommitMessage(m) PROVE TypeOK'
    BY <1>22, MessagesAreNumbers
        DEF IInv, TypeOK, MailboxTypeOK, WatcherTypeOK, StoresTypeOK, TasksTypeOK, Stage,
            Task, CommitMessage, MaybeFault, Fault, Trouble, mailbox, watching, tables, running, bounds
<1>23. ASSUME NEW m \in Message, CacheIncoming(m) PROVE TypeOK'
    BY <1>23, MessagesAreNumbers
        DEF IInv, TypeOK, MailboxTypeOK, WatcherTypeOK, StoresTypeOK, TasksTypeOK, Stage,
            Task, CacheIncoming, MaybeFault, Fault, Trouble, mailbox, watching, tables,
            running, bounds
<1>24. ASSUME NEW m \in Message, Acknowledge(m) PROVE TypeOK'
    BY <1>24, MessagesAreNumbers
        DEF IInv, TypeOK, MailboxTypeOK, WatcherTypeOK, StoresTypeOK, TasksTypeOK, Stage,
            Task, Acknowledge, mailbox, watching, tables, running, bounds
<1>25. ASSUME NEW m \in Message, TaskFails(m) PROVE TypeOK'
    BY <1>25, MessagesAreNumbers
        DEF IInv, TypeOK, MailboxTypeOK, WatcherTypeOK, StoresTypeOK, TasksTypeOK, Stage,
            Task, TaskFails, Fault, Trouble, mailbox, watching, tables, running, bounds
<1>26. ASSUME NEW m \in Message, LoseWorker(m) PROVE TypeOK'
    BY <1>26, MessagesAreNumbers
        DEF IInv, TypeOK, MailboxTypeOK, WatcherTypeOK, StoresTypeOK, TasksTypeOK, Stage,
            Task, LoseWorker, Crash, Trouble, Running, mailbox, watching, tables, running,
            bounds
<1>27. CASE UNCHANGED vars
    BY <1>27
        DEF IInv, TypeOK, MailboxTypeOK, WatcherTypeOK, StoresTypeOK, TasksTypeOK, Stage,
            Task, mailbox, watching, tables, running, bounds, vars
<1> QED
    BY <1>1, <1>2, <1>3, <1>4, <1>5, <1>6, <1>7, <1>7a, <1>8, <1>9, <1>10, <1>11, <1>12, <1>13,
        <1>14, <1>15, <1>16, <1>17, <1>18, <1>19, <1>20, <1>21, <1>22, <1>23, <1>24, <1>25,
        <1>26, <1>27
        DEF Next, Watch, Work

LEMMA OneMore ==
    ASSUME NEW a \in Nat, NEW c \in Nat
    PROVE  a * (c + 1) = a * c + a /\ a * c \in Nat
OBVIOUS


\* The watcher has read the message in its hands.
LEMMA WatchingStep == IInv /\ [Next]_vars => Watching'
<1> SUFFICES ASSUME IInv, [Next]_vars PROVE Watching'
    OBVIOUS
<1>c. batch # {} => Current \in batch /\ Current \in Message
    BY CurrentInBatch DEF IInv, TypeOK, WatcherTypeOK
<1>1. CASE RecordOutgoing
    BY <1>1
        DEF IInv, Watching, Current, RecordOutgoing, mailbox, watching, tables, running,
            bounds
<1>2. CASE CacheOutgoing
    BY <1>2
        DEF IInv, Watching, Current, CacheOutgoing, MaybeFault, Fault, Trouble, mailbox,
            watching, tables, running, bounds
<1>3. CASE OutgoingFails
    BY <1>3
        DEF IInv, Watching, Current, OutgoingFails, Fault, Crash, Trouble, mailbox,
            watching, tables, running, bounds
<1>4. ASSUME NEW i \in Id, Expire(i) PROVE Watching'
    BY <1>4
        DEF IInv, Watching, Current, Expire, mailbox, watching, tables, running, bounds
<1>5. CASE Arrive
    BY <1>5
        DEF IInv, Watching, Current, Arrive, mailbox, watching, tables, running, bounds
<1>6. CASE Connect
    BY <1>6
        DEF IInv, Watching, Current, Connect, Search, Unseen, Arrived, mailbox, watching,
            tables, running, bounds
<1>7. CASE Notified
    BY <1>7
        DEF IInv, Watching, Current, Notified, Search, Unseen, Arrived, mailbox, watching,
            tables, running, bounds
<1>7a. CASE LeaveIdle
    BY <1>7a
        DEF IInv, Watching, Current, LeaveIdle, mailbox, watching, tables, running, bounds
<1>8. CASE Idle
    BY <1>8
        DEF IInv, Watching, Current, Idle, mailbox, watching, tables, running, bounds
<1>9. CASE Fetch
    BY <1>9
        DEF IInv, Watching, Current, Fetch, mailbox, watching, tables, running, bounds
<1>10. CASE LookUpCache
    BY <1>10
        DEF IInv, Watching, Current, LookUpCache, MaybeFault, Fault, Trouble, mailbox,
            watching, tables, running, bounds
<1>11. CASE LookUpThreads
    BY <1>11
        DEF IInv, Watching, Current, LookUpThreads, mailbox, watching, tables, running,
            bounds
<1>12. CASE IgnoreMessage
    BY <1>12
        DEF IInv, Watching, Current, IgnoreMessage, Proceed, mailbox, watching, tables,
            running, bounds
<1>13. CASE CacheThread
    BY <1>13
        DEF IInv, Watching, Current, CacheThread, MaybeFault, Fault, Trouble, mailbox,
            watching, tables, running, bounds
<1>14. CASE Publish
    BY <1>14
        DEF IInv, Watching, Current, Publish, Proceed, mailbox, watching, tables, running,
            bounds
<1>15. CASE Disconnect
    BY <1>15
        DEF IInv, Watching, Current, Disconnect, Fault, Trouble, mailbox, watching, tables,
            running, bounds
<1>16. CASE StopWatcher
    BY <1>16
        DEF IInv, Watching, Current, StopWatcher, Crash, Trouble, mailbox, watching, tables,
            running, bounds
<1>17. CASE FetchFails
    BY <1>17
        DEF IInv, Watching, Current, FetchFails, Proceed, Fault, Trouble, mailbox, watching,
            tables, running, bounds
<1>18. CASE DropMessage
    BY <1>18
        DEF IInv, Watching, Current, DropMessage, Proceed, Fault, Trouble, mailbox,
            watching, tables, running, bounds
<1>19. ASSUME NEW m \in Message, ReadMail(m) PROVE Watching'
    BY <1>19
        DEF IInv, Watching, Current, ReadMail, Trouble, Unseen, Arrived, mailbox, watching,
            tables, running, bounds
<1>20. ASSUME NEW m \in Message, StartTask(m) PROVE Watching'
    BY <1>20
        DEF IInv, Watching, Current, StartTask, mailbox, watching, tables, running, bounds
<1>21. ASSUME NEW m \in Message, Upload(m) PROVE Watching'
    BY <1>21
        DEF IInv, Watching, Current, Upload, mailbox, watching, tables, running, bounds
<1>22. ASSUME NEW m \in Message, CommitMessage(m) PROVE Watching'
    BY <1>22
        DEF IInv, Watching, Current, CommitMessage, mailbox, watching, tables, running,
            bounds
<1>23. ASSUME NEW m \in Message, CacheIncoming(m) PROVE Watching'
    BY <1>23
        DEF IInv, Watching, Current, CacheIncoming, MaybeFault, Fault, Trouble, mailbox,
            watching, tables, running, bounds
<1>24. ASSUME NEW m \in Message, Acknowledge(m) PROVE Watching'
    BY <1>24
        DEF IInv, Watching, Current, Acknowledge, mailbox, watching, tables, running, bounds
<1>25. ASSUME NEW m \in Message, TaskFails(m) PROVE Watching'
    BY <1>25
        DEF IInv, Watching, Current, TaskFails, Fault, Trouble, mailbox, watching, tables,
            running, bounds
<1>26. ASSUME NEW m \in Message, LoseWorker(m) PROVE Watching'
    BY <1>26
        DEF IInv, Watching, Current, LoseWorker, Crash, Trouble, Running, mailbox, watching,
            tables, running, bounds
<1>27. CASE UNCHANGED vars
    BY <1>27
        DEF IInv, Watching, Current, mailbox, watching, tables, running, bounds, vars
<1> QED
    BY <1>1, <1>2, <1>3, <1>4, <1>5, <1>6, <1>7, <1>7a, <1>8, <1>9, <1>10, <1>11, <1>12, <1>13,
        <1>14, <1>15, <1>16, <1>17, <1>18, <1>19, <1>20, <1>21, <1>22, <1>23, <1>24, <1>25,
        <1>26, <1>27
        DEF Next, Watch, Work

\* A message is published once.
LEMMA PublishedStep == IInv /\ [Next]_vars => Published'
<1> SUFFICES ASSUME IInv, [Next]_vars PROVE Published'
    OBVIOUS
<1>c. batch # {} => Current \in batch /\ Current \in Message
    BY CurrentInBatch DEF IInv, TypeOK, WatcherTypeOK
<1>1. CASE RecordOutgoing
    BY <1>1, <1>c
        DEF IInv, Published, Watching, TypeOK, WatcherTypeOK, TasksTypeOK, RecordOutgoing,
            mailbox, watching, tables, running, bounds
<1>2. CASE CacheOutgoing
    BY <1>2, <1>c
        DEF IInv, Published, Watching, TypeOK, WatcherTypeOK, TasksTypeOK, CacheOutgoing,
            MaybeFault, Fault, Trouble, mailbox, watching, tables, running, bounds
<1>3. CASE OutgoingFails
    BY <1>3, <1>c
        DEF IInv, Published, Watching, TypeOK, WatcherTypeOK, TasksTypeOK, OutgoingFails,
            Fault, Crash, Trouble, mailbox, watching, tables, running, bounds
<1>4. ASSUME NEW i \in Id, Expire(i) PROVE Published'
    BY <1>4, <1>c
        DEF IInv, Published, Watching, TypeOK, WatcherTypeOK, TasksTypeOK, Expire, mailbox,
            watching, tables, running, bounds
<1>5. CASE Arrive
    BY <1>5, <1>c
        DEF IInv, Published, Watching, TypeOK, WatcherTypeOK, TasksTypeOK, Arrive, mailbox,
            watching, tables, running, bounds
<1>6. CASE Connect
    BY <1>6, <1>c
        DEF IInv, Published, Watching, TypeOK, WatcherTypeOK, TasksTypeOK, Connect, Search,
            Unseen, Arrived, mailbox, watching, tables, running, bounds
<1>7. CASE Notified
    BY <1>7, <1>c
        DEF IInv, Published, Watching, TypeOK, WatcherTypeOK, TasksTypeOK, Notified, Search,
            Unseen, Arrived, mailbox, watching, tables, running, bounds
<1>7a. CASE LeaveIdle
    BY <1>7a, <1>c
        DEF IInv, Published, Watching, TypeOK, WatcherTypeOK, TasksTypeOK, LeaveIdle, mailbox,
            watching, tables, running, bounds
<1>8. CASE Idle
    BY <1>8, <1>c
        DEF IInv, Published, Watching, TypeOK, WatcherTypeOK, TasksTypeOK, Idle, mailbox,
            watching, tables, running, bounds
<1>9. CASE Fetch
    BY <1>9, <1>c
        DEF IInv, Published, Watching, TypeOK, WatcherTypeOK, TasksTypeOK, Fetch, mailbox,
            watching, tables, running, bounds
<1>10. CASE LookUpCache
    BY <1>10, <1>c
        DEF IInv, Published, Watching, TypeOK, WatcherTypeOK, TasksTypeOK, LookUpCache,
            MaybeFault, Fault, Trouble, mailbox, watching, tables, running, bounds
<1>11. CASE LookUpThreads
    BY <1>11, <1>c
        DEF IInv, Published, Watching, TypeOK, WatcherTypeOK, TasksTypeOK, LookUpThreads,
            mailbox, watching, tables, running, bounds
<1>12. CASE IgnoreMessage
    BY <1>12, <1>c
        DEF IInv, Published, Watching, TypeOK, WatcherTypeOK, TasksTypeOK, IgnoreMessage,
            Proceed, mailbox, watching, tables, running, bounds
<1>13. CASE CacheThread
    BY <1>13, <1>c
        DEF IInv, Published, Watching, TypeOK, WatcherTypeOK, TasksTypeOK, CacheThread,
            MaybeFault, Fault, Trouble, mailbox, watching, tables, running, bounds
<1>14. CASE Publish
    BY <1>14, <1>c
        DEF IInv, Published, Watching, TypeOK, WatcherTypeOK, TasksTypeOK, Publish, Proceed,
            mailbox, watching, tables, running, bounds
<1>15. CASE Disconnect
    BY <1>15, <1>c
        DEF IInv, Published, Watching, TypeOK, WatcherTypeOK, TasksTypeOK, Disconnect,
            Fault, Trouble, mailbox, watching, tables, running, bounds
<1>16. CASE StopWatcher
    BY <1>16, <1>c
        DEF IInv, Published, Watching, TypeOK, WatcherTypeOK, TasksTypeOK, StopWatcher,
            Crash, Trouble, mailbox, watching, tables, running, bounds
<1>17. CASE FetchFails
    BY <1>17, <1>c
        DEF IInv, Published, Watching, TypeOK, WatcherTypeOK, TasksTypeOK, FetchFails,
            Proceed, Fault, Trouble, mailbox, watching, tables, running, bounds
<1>18. CASE DropMessage
    BY <1>18, <1>c
        DEF IInv, Published, Watching, TypeOK, WatcherTypeOK, TasksTypeOK, DropMessage,
            Proceed, Fault, Trouble, mailbox, watching, tables, running, bounds
<1>19. ASSUME NEW m \in Message, ReadMail(m) PROVE Published'
    BY <1>19, <1>c
        DEF IInv, Published, Watching, TypeOK, WatcherTypeOK, TasksTypeOK, ReadMail,
            Trouble, Unseen, Arrived, mailbox, watching, tables, running, bounds
<1>20. ASSUME NEW m \in Message, StartTask(m) PROVE Published'
    BY <1>20, <1>c
        DEF IInv, Published, Watching, TypeOK, WatcherTypeOK, TasksTypeOK, StartTask,
            mailbox, watching, tables, running, bounds
<1>21. ASSUME NEW m \in Message, Upload(m) PROVE Published'
    BY <1>21, <1>c
        DEF IInv, Published, Watching, TypeOK, WatcherTypeOK, TasksTypeOK, Upload, mailbox,
            watching, tables, running, bounds
<1>22. ASSUME NEW m \in Message, CommitMessage(m) PROVE Published'
    BY <1>22, <1>c
        DEF IInv, Published, Watching, TypeOK, WatcherTypeOK, TasksTypeOK, CommitMessage,
            mailbox, watching, tables, running, bounds
<1>23. ASSUME NEW m \in Message, CacheIncoming(m) PROVE Published'
    BY <1>23, <1>c
        DEF IInv, Published, Watching, TypeOK, WatcherTypeOK, TasksTypeOK, CacheIncoming,
            MaybeFault, Fault, Trouble, mailbox, watching, tables, running, bounds
<1>24. ASSUME NEW m \in Message, Acknowledge(m) PROVE Published'
    BY <1>24, <1>c
        DEF IInv, Published, Watching, TypeOK, WatcherTypeOK, TasksTypeOK, Acknowledge,
            mailbox, watching, tables, running, bounds
<1>25. ASSUME NEW m \in Message, TaskFails(m) PROVE Published'
    BY <1>25, <1>c
        DEF IInv, Published, Watching, TypeOK, WatcherTypeOK, TasksTypeOK, TaskFails, Fault,
            Trouble, mailbox, watching, tables, running, bounds
<1>26. ASSUME NEW m \in Message, LoseWorker(m) PROVE Published'
    BY <1>26, <1>c
        DEF IInv, Published, Watching, TypeOK, WatcherTypeOK, TasksTypeOK, LoseWorker,
            Crash, Trouble, Running, mailbox, watching, tables, running, bounds
<1>27. CASE UNCHANGED vars
    BY <1>27
        DEF IInv, Published, Watching, TypeOK, WatcherTypeOK, TasksTypeOK, mailbox,
            watching, tables, running, bounds, vars
<1> QED
    BY <1>1, <1>2, <1>3, <1>4, <1>5, <1>6, <1>7, <1>7a, <1>8, <1>9, <1>10, <1>11, <1>12, <1>13,
        <1>14, <1>15, <1>16, <1>17, <1>18, <1>19, <1>20, <1>21, <1>22, <1>23, <1>24, <1>25,
        <1>26, <1>27
        DEF Next, Watch, Work

\* Rows come before mappings.
LEMMA BackedStep == IInv /\ [Next]_vars => Backed'
<1> SUFFICES ASSUME IInv, [Next]_vars PROVE Backed'
    OBVIOUS
<1>c. batch # {} => Current \in batch /\ Current \in Message
    BY CurrentInBatch DEF IInv, TypeOK, WatcherTypeOK
<1>1. CASE RecordOutgoing
    BY <1>1, <1>c, MessagesAreNumbers
        DEF IInv, Backed, CacheBacked, Watching, Recorded, Written, TypeOK, WatcherTypeOK,
            StoresTypeOK, RecordOutgoing, mailbox, watching, tables, running, bounds
<1>2. CASE CacheOutgoing
    BY <1>2, <1>c, MessagesAreNumbers
        DEF IInv, Backed, CacheBacked, Watching, Recorded, Written, TypeOK, WatcherTypeOK,
            StoresTypeOK, CacheOutgoing, MaybeFault, Fault, Trouble, mailbox, watching,
            tables, running, bounds
<1>3. CASE OutgoingFails
    BY <1>3, <1>c, MessagesAreNumbers
        DEF IInv, Backed, CacheBacked, Watching, Recorded, Written, TypeOK, WatcherTypeOK,
            StoresTypeOK, OutgoingFails, Fault, Crash, Trouble, mailbox, watching, tables,
            running, bounds
<1>4. ASSUME NEW i \in Id, Expire(i) PROVE Backed'
    BY <1>4, <1>c, MessagesAreNumbers
        DEF IInv, Backed, CacheBacked, Watching, Recorded, Written, TypeOK, WatcherTypeOK,
            StoresTypeOK, Expire, mailbox, watching, tables, running, bounds
<1>5. CASE Arrive
    BY <1>5, <1>c, MessagesAreNumbers
        DEF IInv, Backed, CacheBacked, Watching, Recorded, Written, TypeOK, WatcherTypeOK,
            StoresTypeOK, Arrive, mailbox, watching, tables, running, bounds
<1>6. CASE Connect
    BY <1>6, <1>c, MessagesAreNumbers
        DEF IInv, Backed, CacheBacked, Watching, Recorded, Written, TypeOK, WatcherTypeOK,
            StoresTypeOK, Connect, Search, Unseen, Arrived, mailbox, watching, tables,
            running, bounds
<1>7. CASE Notified
    BY <1>7, <1>c, MessagesAreNumbers
        DEF IInv, Backed, CacheBacked, Watching, Recorded, Written, TypeOK, WatcherTypeOK,
            StoresTypeOK, Notified, Search, Unseen, Arrived, mailbox, watching, tables,
            running, bounds
<1>7a. CASE LeaveIdle
    BY <1>7a, <1>c, MessagesAreNumbers
        DEF IInv, Backed, CacheBacked, Watching, Recorded, Written, TypeOK, WatcherTypeOK,
            StoresTypeOK, LeaveIdle, mailbox, watching, tables, running, bounds
<1>8. CASE Idle
    BY <1>8, <1>c, MessagesAreNumbers
        DEF IInv, Backed, CacheBacked, Watching, Recorded, Written, TypeOK, WatcherTypeOK,
            StoresTypeOK, Idle, mailbox, watching, tables, running, bounds
<1>9. CASE Fetch
    BY <1>9, <1>c, MessagesAreNumbers
        DEF IInv, Backed, CacheBacked, Watching, Recorded, Written, TypeOK, WatcherTypeOK,
            StoresTypeOK, Fetch, mailbox, watching, tables, running, bounds
<1>10. CASE LookUpCache
    BY <1>10, <1>c, MessagesAreNumbers
        DEF IInv, Backed, CacheBacked, Watching, Recorded, Written, TypeOK, WatcherTypeOK,
            StoresTypeOK, LookUpCache, MaybeFault, Fault, Trouble, mailbox, watching,
            tables, running, bounds
<1>11. CASE LookUpThreads
    BY <1>11, HitIsThread
        DEF IInv, Backed, CacheBacked, LookUpThreads, mailbox, tables, running, bounds
<1>12. CASE IgnoreMessage
    BY <1>12, <1>c, MessagesAreNumbers
        DEF IInv, Backed, CacheBacked, Watching, Recorded, Written, TypeOK, WatcherTypeOK,
            StoresTypeOK, IgnoreMessage, Proceed, mailbox, watching, tables, running, bounds
<1>13. CASE CacheThread
    BY <1>13, <1>c, MessagesAreNumbers
        DEF IInv, Backed, CacheBacked, Watching, Recorded, Written, TypeOK, WatcherTypeOK,
            StoresTypeOK, CacheThread, MaybeFault, Fault, Trouble, mailbox, watching,
            tables, running, bounds
<1>14. CASE Publish
    BY <1>14, <1>c, MessagesAreNumbers
        DEF IInv, Backed, CacheBacked, Watching, Recorded, Written, TypeOK, WatcherTypeOK,
            StoresTypeOK, Publish, Proceed, mailbox, watching, tables, running, bounds
<1>15. CASE Disconnect
    BY <1>15, <1>c, MessagesAreNumbers
        DEF IInv, Backed, CacheBacked, Watching, Recorded, Written, TypeOK, WatcherTypeOK,
            StoresTypeOK, Disconnect, Fault, Trouble, mailbox, watching, tables, running,
            bounds
<1>16. CASE StopWatcher
    BY <1>16, <1>c, MessagesAreNumbers
        DEF IInv, Backed, CacheBacked, Watching, Recorded, Written, TypeOK, WatcherTypeOK,
            StoresTypeOK, StopWatcher, Crash, Trouble, mailbox, watching, tables, running,
            bounds
<1>17. CASE FetchFails
    BY <1>17, <1>c, MessagesAreNumbers
        DEF IInv, Backed, CacheBacked, Watching, Recorded, Written, TypeOK, WatcherTypeOK,
            StoresTypeOK, FetchFails, Proceed, Fault, Trouble, mailbox, watching, tables,
            running, bounds
<1>18. CASE DropMessage
    BY <1>18, <1>c, MessagesAreNumbers
        DEF IInv, Backed, CacheBacked, Watching, Recorded, Written, TypeOK, WatcherTypeOK,
            StoresTypeOK, DropMessage, Proceed, Fault, Trouble, mailbox, watching, tables,
            running, bounds
<1>19. ASSUME NEW m \in Message, ReadMail(m) PROVE Backed'
    BY <1>19, <1>c, MessagesAreNumbers
        DEF IInv, Backed, CacheBacked, Watching, Recorded, Written, TypeOK, WatcherTypeOK,
            StoresTypeOK, ReadMail, Trouble, Unseen, Arrived, mailbox, watching, tables,
            running, bounds
<1>20. ASSUME NEW m \in Message, StartTask(m) PROVE Backed'
    BY <1>20, <1>c, MessagesAreNumbers
        DEF IInv, Backed, CacheBacked, Watching, Recorded, Written, TypeOK, WatcherTypeOK,
            StoresTypeOK, StartTask, mailbox, watching, tables, running, bounds
<1>21. ASSUME NEW m \in Message, Upload(m) PROVE Backed'
    BY <1>21, <1>c, MessagesAreNumbers
        DEF IInv, Backed, CacheBacked, Watching, Recorded, Written, TypeOK, WatcherTypeOK,
            StoresTypeOK, Upload, mailbox, watching, tables, running, bounds
<1>22. ASSUME NEW m \in Message, CommitMessage(m) PROVE Backed'
    BY <1>22, <1>c, MessagesAreNumbers
        DEF IInv, Backed, CacheBacked, Watching, Recorded, Written, TypeOK, WatcherTypeOK,
            StoresTypeOK, CommitMessage, mailbox, watching, tables, running, bounds
<1>23. ASSUME NEW m \in Message, CacheIncoming(m) PROVE Backed'
    BY <1>23, <1>c, MessagesAreNumbers
        DEF IInv, Backed, CacheBacked, Watching, Recorded, Written, TypeOK, WatcherTypeOK,
            StoresTypeOK, CacheIncoming, MaybeFault, Fault, Trouble, mailbox, watching,
            tables, running, bounds
<1>24. ASSUME NEW m \in Message, Acknowledge(m) PROVE Backed'
    BY <1>24, <1>c, MessagesAreNumbers
        DEF IInv, Backed, CacheBacked, Watching, Recorded, Written, TypeOK, WatcherTypeOK,
            StoresTypeOK, Acknowledge, mailbox, watching, tables, running, bounds
<1>25. ASSUME NEW m \in Message, TaskFails(m) PROVE Backed'
    BY <1>25, <1>c, MessagesAreNumbers
        DEF IInv, Backed, CacheBacked, Watching, Recorded, Written, TypeOK, WatcherTypeOK,
            StoresTypeOK, TaskFails, Fault, Trouble, mailbox, watching, tables, running,
            bounds
<1>26. ASSUME NEW m \in Message, LoseWorker(m) PROVE Backed'
    BY <1>26, <1>c, MessagesAreNumbers
        DEF IInv, Backed, CacheBacked, Watching, Recorded, Written, TypeOK, WatcherTypeOK,
            StoresTypeOK, LoseWorker, Crash, Trouble, Running, mailbox, watching, tables,
            running, bounds
<1>27. CASE UNCHANGED vars
    BY <1>27
        DEF IInv, Backed, CacheBacked, Watching, Recorded, Written, TypeOK, WatcherTypeOK,
            StoresTypeOK, mailbox, watching, tables, running, bounds, vars
<1> QED
    BY <1>1, <1>2, <1>3, <1>4, <1>5, <1>6, <1>7, <1>7a, <1>8, <1>9, <1>10, <1>11, <1>12, <1>13,
        <1>14, <1>15, <1>16, <1>17, <1>18, <1>19, <1>20, <1>21, <1>22, <1>23, <1>24, <1>25,
        <1>26, <1>27
        DEF Next, Watch, Work

\* Whatever is retried or redelivered, a committed task has left its rows.
LEMMA RecordedStep == IInv /\ [Next]_vars => Recorded'
<1> SUFFICES ASSUME IInv, [Next]_vars PROVE Recorded'
    OBVIOUS
<1>c. batch # {} => Current \in batch /\ Current \in Message
    BY CurrentInBatch DEF IInv, TypeOK, WatcherTypeOK
<1>1. CASE RecordOutgoing
    BY <1>1, <1>c, MessagesAreNumbers
        DEF IInv, Recorded, Written, Watching, Published, TypeOK, TasksTypeOK, StoresTypeOK,
            RecordOutgoing, mailbox, watching, tables, running, bounds
<1>2. CASE CacheOutgoing
    BY <1>2, <1>c, MessagesAreNumbers
        DEF IInv, Recorded, Written, Watching, Published, TypeOK, TasksTypeOK, StoresTypeOK,
            CacheOutgoing, MaybeFault, Fault, Trouble, mailbox, watching, tables, running,
            bounds
<1>3. CASE OutgoingFails
    BY <1>3, <1>c, MessagesAreNumbers
        DEF IInv, Recorded, Written, Watching, Published, TypeOK, TasksTypeOK, StoresTypeOK,
            OutgoingFails, Fault, Crash, Trouble, mailbox, watching, tables, running, bounds
<1>4. ASSUME NEW i \in Id, Expire(i) PROVE Recorded'
    BY <1>4, <1>c, MessagesAreNumbers
        DEF IInv, Recorded, Written, Watching, Published, TypeOK, TasksTypeOK, StoresTypeOK,
            Expire, mailbox, watching, tables, running, bounds
<1>5. CASE Arrive
    BY <1>5, <1>c, MessagesAreNumbers
        DEF IInv, Recorded, Written, Watching, Published, TypeOK, TasksTypeOK, StoresTypeOK,
            Arrive, mailbox, watching, tables, running, bounds
<1>6. CASE Connect
    BY <1>6, <1>c, MessagesAreNumbers
        DEF IInv, Recorded, Written, Watching, Published, TypeOK, TasksTypeOK, StoresTypeOK,
            Connect, Search, Unseen, Arrived, mailbox, watching, tables, running, bounds
<1>7. CASE Notified
    BY <1>7, <1>c, MessagesAreNumbers
        DEF IInv, Recorded, Written, Watching, Published, TypeOK, TasksTypeOK, StoresTypeOK,
            Notified, Search, Unseen, Arrived, mailbox, watching, tables, running, bounds
<1>7a. CASE LeaveIdle
    BY <1>7a, <1>c, MessagesAreNumbers
        DEF IInv, Recorded, Written, Watching, Published, TypeOK, TasksTypeOK, StoresTypeOK,
            LeaveIdle, mailbox, watching, tables, running, bounds
<1>8. CASE Idle
    BY <1>8, <1>c, MessagesAreNumbers
        DEF IInv, Recorded, Written, Watching, Published, TypeOK, TasksTypeOK, StoresTypeOK,
            Idle, mailbox, watching, tables, running, bounds
<1>9. CASE Fetch
    BY <1>9, <1>c, MessagesAreNumbers
        DEF IInv, Recorded, Written, Watching, Published, TypeOK, TasksTypeOK, StoresTypeOK,
            Fetch, mailbox, watching, tables, running, bounds
<1>10. CASE LookUpCache
    BY <1>10, <1>c, MessagesAreNumbers
        DEF IInv, Recorded, Written, Watching, Published, TypeOK, TasksTypeOK, StoresTypeOK,
            LookUpCache, MaybeFault, Fault, Trouble, mailbox, watching, tables, running,
            bounds
<1>11. CASE LookUpThreads
    BY <1>11, <1>c, MessagesAreNumbers
        DEF IInv, Recorded, Written, Watching, Published, TypeOK, TasksTypeOK, StoresTypeOK,
            LookUpThreads, mailbox, watching, tables, running, bounds
<1>12. CASE IgnoreMessage
    BY <1>12, <1>c, MessagesAreNumbers
        DEF IInv, Recorded, Written, Watching, Published, TypeOK, TasksTypeOK, StoresTypeOK,
            IgnoreMessage, Proceed, mailbox, watching, tables, running, bounds
<1>13. CASE CacheThread
    BY <1>13, <1>c, MessagesAreNumbers
        DEF IInv, Recorded, Written, Watching, Published, TypeOK, TasksTypeOK, StoresTypeOK,
            CacheThread, MaybeFault, Fault, Trouble, mailbox, watching, tables, running,
            bounds
<1>14. CASE Publish
    BY <1>14, <1>c, MessagesAreNumbers
        DEF IInv, Recorded, Written, Watching, Published, TypeOK, TasksTypeOK, StoresTypeOK,
            Publish, Proceed, mailbox, watching, tables, running, bounds
<1>15. CASE Disconnect
    BY <1>15, <1>c, MessagesAreNumbers
        DEF IInv, Recorded, Written, Watching, Published, TypeOK, TasksTypeOK, StoresTypeOK,
            Disconnect, Fault, Trouble, mailbox, watching, tables, running, bounds
<1>16. CASE StopWatcher
    BY <1>16, <1>c, MessagesAreNumbers
        DEF IInv, Recorded, Written, Watching, Published, TypeOK, TasksTypeOK, StoresTypeOK,
            StopWatcher, Crash, Trouble, mailbox, watching, tables, running, bounds
<1>17. CASE FetchFails
    BY <1>17, <1>c, MessagesAreNumbers
        DEF IInv, Recorded, Written, Watching, Published, TypeOK, TasksTypeOK, StoresTypeOK,
            FetchFails, Proceed, Fault, Trouble, mailbox, watching, tables, running, bounds
<1>18. CASE DropMessage
    BY <1>18, <1>c, MessagesAreNumbers
        DEF IInv, Recorded, Written, Watching, Published, TypeOK, TasksTypeOK, StoresTypeOK,
            DropMessage, Proceed, Fault, Trouble, mailbox, watching, tables, running, bounds
<1>19. ASSUME NEW m \in Message, ReadMail(m) PROVE Recorded'
    BY <1>19, <1>c, MessagesAreNumbers
        DEF IInv, Recorded, Written, Watching, Published, TypeOK, TasksTypeOK, StoresTypeOK,
            ReadMail, Trouble, Unseen, Arrived, mailbox, watching, tables, running, bounds
<1>20. ASSUME NEW m \in Message, StartTask(m) PROVE Recorded'
    BY <1>20, <1>c, MessagesAreNumbers
        DEF IInv, Recorded, Written, Watching, Published, TypeOK, TasksTypeOK, StoresTypeOK,
            StartTask, mailbox, watching, tables, running, bounds
<1>21. ASSUME NEW m \in Message, Upload(m) PROVE Recorded'
    BY <1>21, <1>c, MessagesAreNumbers
        DEF IInv, Recorded, Written, Watching, Published, TypeOK, TasksTypeOK, StoresTypeOK,
            Upload, mailbox, watching, tables, running, bounds
<1>22. ASSUME NEW m \in Message, CommitMessage(m) PROVE Recorded'
    BY <1>22, <1>c, MessagesAreNumbers
        DEF IInv, Recorded, Written, Watching, Published, TypeOK, TasksTypeOK, StoresTypeOK,
            CommitMessage, mailbox, watching, tables, running, bounds
<1>23. ASSUME NEW m \in Message, CacheIncoming(m) PROVE Recorded'
    BY <1>23, <1>c, MessagesAreNumbers
        DEF IInv, Recorded, Written, Watching, Published, TypeOK, TasksTypeOK, StoresTypeOK,
            CacheIncoming, MaybeFault, Fault, Trouble, mailbox, watching, tables, running,
            bounds
<1>24. ASSUME NEW m \in Message, Acknowledge(m) PROVE Recorded'
    BY <1>24, <1>c, MessagesAreNumbers
        DEF IInv, Recorded, Written, Watching, Published, TypeOK, TasksTypeOK, StoresTypeOK,
            Acknowledge, mailbox, watching, tables, running, bounds
<1>25. ASSUME NEW m \in Message, TaskFails(m) PROVE Recorded'
    BY <1>25, <1>c, MessagesAreNumbers
        DEF IInv, Recorded, Written, Watching, Published, TypeOK, TasksTypeOK, StoresTypeOK,
            TaskFails, Fault, Trouble, mailbox, watching, tables, running, bounds
<1>26. ASSUME NEW m \in Message, LoseWorker(m) PROVE Recorded'
    BY <1>26, <1>c, MessagesAreNumbers
        DEF IInv, Recorded, Written, Watching, Published, TypeOK, TasksTypeOK, StoresTypeOK,
            LoseWorker, Crash, Trouble, Running, mailbox, watching, tables, running, bounds
<1>27. CASE UNCHANGED vars
    BY <1>27
        DEF IInv, Recorded, Written, Watching, Published, TypeOK, TasksTypeOK, StoresTypeOK,
            mailbox, watching, tables, running, bounds, vars
<1> QED
    BY <1>1, <1>2, <1>3, <1>4, <1>5, <1>6, <1>7, <1>7a, <1>8, <1>9, <1>10, <1>11, <1>12, <1>13,
        <1>14, <1>15, <1>16, <1>17, <1>18, <1>19, <1>20, <1>21, <1>22, <1>23, <1>24, <1>25,
        <1>26, <1>27
        DEF Next, Watch, Work

\* An attachment has an object before it has a row.
LEMMA StoredStep == IInv /\ [Next]_vars => Stored'
<1> SUFFICES ASSUME IInv, [Next]_vars PROVE Stored'
    OBVIOUS
<1>c. batch # {} => Current \in batch /\ Current \in Message
    BY CurrentInBatch DEF IInv, TypeOK, WatcherTypeOK
<1>1. CASE RecordOutgoing
    BY <1>1, <1>c, MessagesAreNumbers
        DEF IInv, Stored, Watching, Published, TypeOK, WatcherTypeOK, TasksTypeOK,
            RecordOutgoing, mailbox, watching, tables, running, bounds
<1>2. CASE CacheOutgoing
    BY <1>2, <1>c, MessagesAreNumbers
        DEF IInv, Stored, Watching, Published, TypeOK, WatcherTypeOK, TasksTypeOK,
            CacheOutgoing, MaybeFault, Fault, Trouble, mailbox, watching, tables, running,
            bounds
<1>3. CASE OutgoingFails
    BY <1>3, <1>c, MessagesAreNumbers
        DEF IInv, Stored, Watching, Published, TypeOK, WatcherTypeOK, TasksTypeOK,
            OutgoingFails, Fault, Crash, Trouble, mailbox, watching, tables, running, bounds
<1>4. ASSUME NEW i \in Id, Expire(i) PROVE Stored'
    BY <1>4, <1>c, MessagesAreNumbers
        DEF IInv, Stored, Watching, Published, TypeOK, WatcherTypeOK, TasksTypeOK, Expire,
            mailbox, watching, tables, running, bounds
<1>5. CASE Arrive
    BY <1>5, <1>c, MessagesAreNumbers
        DEF IInv, Stored, Watching, Published, TypeOK, WatcherTypeOK, TasksTypeOK, Arrive,
            mailbox, watching, tables, running, bounds
<1>6. CASE Connect
    BY <1>6, <1>c, MessagesAreNumbers
        DEF IInv, Stored, Watching, Published, TypeOK, WatcherTypeOK, TasksTypeOK, Connect,
            Search, Unseen, Arrived, mailbox, watching, tables, running, bounds
<1>7. CASE Notified
    BY <1>7, <1>c, MessagesAreNumbers
        DEF IInv, Stored, Watching, Published, TypeOK, WatcherTypeOK, TasksTypeOK, Notified,
            Search, Unseen, Arrived, mailbox, watching, tables, running, bounds
<1>7a. CASE LeaveIdle
    BY <1>7a, <1>c, MessagesAreNumbers
        DEF IInv, Stored, Watching, Published, TypeOK, WatcherTypeOK, TasksTypeOK, LeaveIdle,
            mailbox, watching, tables, running, bounds
<1>8. CASE Idle
    BY <1>8, <1>c, MessagesAreNumbers
        DEF IInv, Stored, Watching, Published, TypeOK, WatcherTypeOK, TasksTypeOK, Idle,
            mailbox, watching, tables, running, bounds
<1>9. CASE Fetch
    BY <1>9, <1>c, MessagesAreNumbers
        DEF IInv, Stored, Watching, Published, TypeOK, WatcherTypeOK, TasksTypeOK, Fetch,
            mailbox, watching, tables, running, bounds
<1>10. CASE LookUpCache
    BY <1>10, <1>c, MessagesAreNumbers
        DEF IInv, Stored, Watching, Published, TypeOK, WatcherTypeOK, TasksTypeOK,
            LookUpCache, MaybeFault, Fault, Trouble, mailbox, watching, tables, running,
            bounds
<1>11. CASE LookUpThreads
    BY <1>11, <1>c, MessagesAreNumbers
        DEF IInv, Stored, Watching, Published, TypeOK, WatcherTypeOK, TasksTypeOK,
            LookUpThreads, mailbox, watching, tables, running, bounds
<1>12. CASE IgnoreMessage
    BY <1>12, <1>c, MessagesAreNumbers
        DEF IInv, Stored, Watching, Published, TypeOK, WatcherTypeOK, TasksTypeOK,
            IgnoreMessage, Proceed, mailbox, watching, tables, running, bounds
<1>13. CASE CacheThread
    BY <1>13, <1>c, MessagesAreNumbers
        DEF IInv, Stored, Watching, Published, TypeOK, WatcherTypeOK, TasksTypeOK,
            CacheThread, MaybeFault, Fault, Trouble, mailbox, watching, tables, running,
            bounds
<1>14. CASE Publish
    BY <1>14, <1>c, MessagesAreNumbers
        DEF IInv, Stored, Watching, Published, TypeOK, WatcherTypeOK, TasksTypeOK, Publish,
            Proceed, mailbox, watching, tables, running, bounds
<1>15. CASE Disconnect
    BY <1>15, <1>c, MessagesAreNumbers
        DEF IInv, Stored, Watching, Published, TypeOK, WatcherTypeOK, TasksTypeOK,
            Disconnect, Fault, Trouble, mailbox, watching, tables, running, bounds
<1>16. CASE StopWatcher
    BY <1>16, <1>c, MessagesAreNumbers
        DEF IInv, Stored, Watching, Published, TypeOK, WatcherTypeOK, TasksTypeOK,
            StopWatcher, Crash, Trouble, mailbox, watching, tables, running, bounds
<1>17. CASE FetchFails
    BY <1>17, <1>c, MessagesAreNumbers
        DEF IInv, Stored, Watching, Published, TypeOK, WatcherTypeOK, TasksTypeOK,
            FetchFails, Proceed, Fault, Trouble, mailbox, watching, tables, running, bounds
<1>18. CASE DropMessage
    BY <1>18, <1>c, MessagesAreNumbers
        DEF IInv, Stored, Watching, Published, TypeOK, WatcherTypeOK, TasksTypeOK,
            DropMessage, Proceed, Fault, Trouble, mailbox, watching, tables, running, bounds
<1>19. ASSUME NEW m \in Message, ReadMail(m) PROVE Stored'
    BY <1>19, <1>c, MessagesAreNumbers
        DEF IInv, Stored, Watching, Published, TypeOK, WatcherTypeOK, TasksTypeOK, ReadMail,
            Trouble, Unseen, Arrived, mailbox, watching, tables, running, bounds
<1>20. ASSUME NEW m \in Message, StartTask(m) PROVE Stored'
    BY <1>20, <1>c, MessagesAreNumbers
        DEF IInv, Stored, Watching, Published, TypeOK, WatcherTypeOK, TasksTypeOK,
            StartTask, mailbox, watching, tables, running, bounds
<1>21. ASSUME NEW m \in Message, Upload(m) PROVE Stored'
    BY <1>21, <1>c, MessagesAreNumbers
        DEF IInv, Stored, Watching, Published, TypeOK, WatcherTypeOK, TasksTypeOK, Upload,
            mailbox, watching, tables, running, bounds
<1>22. ASSUME NEW m \in Message, CommitMessage(m) PROVE Stored'
    BY <1>22, <1>c, MessagesAreNumbers
        DEF IInv, Stored, Watching, Published, TypeOK, WatcherTypeOK, TasksTypeOK,
            CommitMessage, mailbox, watching, tables, running, bounds
<1>23. ASSUME NEW m \in Message, CacheIncoming(m) PROVE Stored'
    BY <1>23, <1>c, MessagesAreNumbers
        DEF IInv, Stored, Watching, Published, TypeOK, WatcherTypeOK, TasksTypeOK,
            CacheIncoming, MaybeFault, Fault, Trouble, mailbox, watching, tables, running,
            bounds
<1>24. ASSUME NEW m \in Message, Acknowledge(m) PROVE Stored'
    BY <1>24, <1>c, MessagesAreNumbers
        DEF IInv, Stored, Watching, Published, TypeOK, WatcherTypeOK, TasksTypeOK,
            Acknowledge, mailbox, watching, tables, running, bounds
<1>25. ASSUME NEW m \in Message, TaskFails(m) PROVE Stored'
    BY <1>25, <1>c, MessagesAreNumbers
        DEF IInv, Stored, Watching, Published, TypeOK, WatcherTypeOK, TasksTypeOK,
            TaskFails, Fault, Trouble, mailbox, watching, tables, running, bounds
<1>26. ASSUME NEW m \in Message, LoseWorker(m) PROVE Stored'
    BY <1>26, <1>c, MessagesAreNumbers
        DEF IInv, Stored, Watching, Published, TypeOK, WatcherTypeOK, TasksTypeOK,
            LoseWorker, Crash, Trouble, Running, mailbox, watching, tables, running, bounds
<1>27. CASE UNCHANGED vars
    BY <1>27
        DEF IInv, Stored, Watching, Published, TypeOK, WatcherTypeOK, TasksTypeOK, mailbox,
            watching, tables, running, bounds, vars
<1> QED
    BY <1>1, <1>2, <1>3, <1>4, <1>5, <1>6, <1>7, <1>7a, <1>8, <1>9, <1>10, <1>11, <1>12, <1>13,
        <1>14, <1>15, <1>16, <1>17, <1>18, <1>19, <1>20, <1>21, <1>22, <1>23, <1>24, <1>25,
        <1>26, <1>27
        DEF Next, Watch, Work

\* Only a lost worker makes a task commit again.
LEMMA RepeatedStep == IInv /\ [Next]_vars => Repeated'
<1> SUFFICES ASSUME IInv, [Next]_vars PROVE Repeated'
    OBVIOUS
<1>c. batch # {} => Current \in batch /\ Current \in Message
    BY CurrentInBatch DEF IInv, TypeOK, WatcherTypeOK
<1>1. CASE RecordOutgoing
    BY <1>1, <1>c
        DEF IInv, Repeated, Attempts, Settled, Written, Watching, Published, TypeOK, TasksTypeOK,
            RecordOutgoing, mailbox, watching, tables, running, bounds
<1>2. CASE CacheOutgoing
    BY <1>2, <1>c
        DEF IInv, Repeated, Attempts, Settled, Written, Watching, Published, TypeOK, TasksTypeOK,
            CacheOutgoing, MaybeFault, Fault, Trouble, mailbox, watching, tables, running,
            bounds
<1>3. CASE OutgoingFails
    <2>1. CASE Fault
        BY <1>3, <2>1 DEF IInv, Repeated, Attempts, Settled, Written, OutgoingFails, Fault, tables, running
    <2>2. CASE Crash
        <3>1. ASSUME NEW n \in Message
              PROVE  rows'[n] <= Attached[n] * Attempts(n)' + (IF task'[n] \in Settled THEN Attached[n] ELSE 0)
            <4>1. rows[n] \in Nat /\ Attached[n] \in Nat /\ Attempts(n) \in Nat /\ Attached[n] * Attempts(n) \in Nat
                BY MessagesAreNumbers DEF IInv, TypeOK, TasksTypeOK, Attempts
            <4>2. rows[n] <= Attached[n] * Attempts(n) + (IF task[n] \in Settled THEN Attached[n] ELSE 0)
                BY DEF IInv, Repeated
            <4>3. rows' = rows /\ Attempts(n)' = Attempts(n) + 1
                BY <1>3, <2>2 DEF OutgoingFails, Crash, tables, running, Attempts, IInv, TypeOK, TasksTypeOK
            <4>4. Attached[n] * (Attempts(n) + 1) = Attached[n] * Attempts(n) + Attached[n]
                BY <4>1, OneMore
            <4>5. rows[n] <= Attached[n] * (Attempts(n) + 1)
                BY <4>1, <4>2, <4>4
            <4>6. Attached[n] * (Attempts(n) + 1) \in Nat
                BY <4>1, <4>4
            <4> QED
                BY <4>1, <4>3, <4>5, <4>6
        <3> QED
            BY <3>1 DEF Repeated
    <2> QED
        BY <1>3, <2>1, <2>2 DEF OutgoingFails
<1>4. ASSUME NEW i \in Id, Expire(i) PROVE Repeated'
    BY <1>4, <1>c
        DEF IInv, Repeated, Attempts, Settled, Written, Watching, Published, TypeOK, TasksTypeOK, Expire,
            mailbox, watching, tables, running, bounds
<1>5. CASE Arrive
    BY <1>5, <1>c
        DEF IInv, Repeated, Attempts, Settled, Written, Watching, Published, TypeOK, TasksTypeOK, Arrive,
            mailbox, watching, tables, running, bounds
<1>6. CASE Connect
    BY <1>6, <1>c
        DEF IInv, Repeated, Attempts, Settled, Written, Watching, Published, TypeOK, TasksTypeOK, Connect,
            Search, Unseen, Arrived, mailbox, watching, tables, running, bounds
<1>7. CASE Notified
    BY <1>7, <1>c
        DEF IInv, Repeated, Attempts, Settled, Written, Watching, Published, TypeOK, TasksTypeOK, Notified,
            Search, Unseen, Arrived, mailbox, watching, tables, running, bounds
<1>7a. CASE LeaveIdle
    BY <1>7a, <1>c
        DEF IInv, Repeated, Attempts, Settled, Written, Watching, Published, TypeOK, TasksTypeOK, LeaveIdle,
            mailbox, watching, tables, running, bounds
<1>8. CASE Idle
    BY <1>8, <1>c
        DEF IInv, Repeated, Attempts, Settled, Written, Watching, Published, TypeOK, TasksTypeOK, Idle,
            mailbox, watching, tables, running, bounds
<1>9. CASE Fetch
    BY <1>9, <1>c
        DEF IInv, Repeated, Attempts, Settled, Written, Watching, Published, TypeOK, TasksTypeOK, Fetch,
            mailbox, watching, tables, running, bounds
<1>10. CASE LookUpCache
    BY <1>10, <1>c
        DEF IInv, Repeated, Attempts, Settled, Written, Watching, Published, TypeOK, TasksTypeOK, LookUpCache,
            MaybeFault, Fault, Trouble, mailbox, watching, tables, running, bounds
<1>11. CASE LookUpThreads
    BY <1>11, <1>c
        DEF IInv, Repeated, Attempts, Settled, Written, Watching, Published, TypeOK, TasksTypeOK,
            LookUpThreads, mailbox, watching, tables, running, bounds
<1>12. CASE IgnoreMessage
    BY <1>12, <1>c
        DEF IInv, Repeated, Attempts, Settled, Written, Watching, Published, TypeOK, TasksTypeOK,
            IgnoreMessage, Proceed, mailbox, watching, tables, running, bounds
<1>13. CASE CacheThread
    BY <1>13, <1>c
        DEF IInv, Repeated, Attempts, Settled, Written, Watching, Published, TypeOK, TasksTypeOK, CacheThread,
            MaybeFault, Fault, Trouble, mailbox, watching, tables, running, bounds
<1>14. CASE Publish
    BY <1>14, <1>c
        DEF IInv, Repeated, Attempts, Settled, Written, Watching, Published, TypeOK, TasksTypeOK, Publish,
            Proceed, mailbox, watching, tables, running, bounds
<1>15. CASE Disconnect
    BY <1>15, <1>c
        DEF IInv, Repeated, Attempts, Settled, Written, Watching, Published, TypeOK, TasksTypeOK, Disconnect,
            Fault, Trouble, mailbox, watching, tables, running, bounds
<1>16. CASE StopWatcher
    <2>1. ASSUME NEW n \in Message
          PROVE  rows'[n] <= Attached[n] * Attempts(n)' + (IF task'[n] \in Settled THEN Attached[n] ELSE 0)
        <3>1. rows[n] \in Nat /\ Attached[n] \in Nat /\ Attempts(n) \in Nat /\ Attached[n] * Attempts(n) \in Nat
            BY MessagesAreNumbers DEF IInv, TypeOK, TasksTypeOK, Attempts
        <3>2. rows[n] <= Attached[n] * Attempts(n) + (IF task[n] \in Settled THEN Attached[n] ELSE 0)
            BY DEF IInv, Repeated
        <3>3. rows' = rows /\ Attempts(n)' = Attempts(n) + 1
            BY <1>16 DEF StopWatcher, Crash, tables, running, Attempts, IInv, TypeOK, TasksTypeOK
        <3>4. Attached[n] * (Attempts(n) + 1) = Attached[n] * Attempts(n) + Attached[n]
            BY <3>1, OneMore
        <3>5. rows[n] <= Attached[n] * (Attempts(n) + 1)
            BY <3>1, <3>2, <3>4
        <3>6. Attached[n] * (Attempts(n) + 1) \in Nat
            BY <3>1, <3>4
        <3> QED
            BY <3>1, <3>3, <3>5, <3>6
    <2> QED
        BY <2>1 DEF Repeated
<1>17. CASE FetchFails
    BY <1>17, <1>c
        DEF IInv, Repeated, Attempts, Settled, Written, Watching, Published, TypeOK, TasksTypeOK, FetchFails,
            Proceed, Fault, Trouble, mailbox, watching, tables, running, bounds
<1>18. CASE DropMessage
    BY <1>18, <1>c
        DEF IInv, Repeated, Attempts, Settled, Written, Watching, Published, TypeOK, TasksTypeOK, DropMessage,
            Proceed, Fault, Trouble, mailbox, watching, tables, running, bounds
<1>19. ASSUME NEW m \in Message, ReadMail(m) PROVE Repeated'
    BY <1>19, <1>c
        DEF IInv, Repeated, Attempts, Settled, Written, Watching, Published, TypeOK, TasksTypeOK, ReadMail,
            Trouble, Unseen, Arrived, mailbox, watching, tables, running, bounds
<1>20. ASSUME NEW m \in Message, StartTask(m) PROVE Repeated'
    BY <1>20, <1>c
        DEF IInv, Repeated, Attempts, Settled, Written, Watching, Published, TypeOK, TasksTypeOK, StartTask,
            mailbox, watching, tables, running, bounds
<1>21. ASSUME NEW m \in Message, Upload(m) PROVE Repeated'
    BY <1>21, <1>c
        DEF IInv, Repeated, Attempts, Settled, Written, Watching, Published, TypeOK, TasksTypeOK, Upload,
            mailbox, watching, tables, running, bounds
<1>22. ASSUME NEW m \in Message, CommitMessage(m) PROVE Repeated'
    <2>1. ASSUME NEW n \in Message
          PROVE  rows'[n] <= Attached[n] * Attempts(n)' + (IF task'[n] \in Settled THEN Attached[n] ELSE 0)
        <3>1. rows[n] \in Nat /\ Attached[n] \in Nat /\ Attempts(n)' = Attempts(n) /\ Attached[n] * Attempts(n) \in Nat
            BY <1>22, MessagesAreNumbers
                DEF IInv, TypeOK, TasksTypeOK, CommitMessage, MaybeFault, Fault, Trouble, bounds, Attempts
        <3>2. rows[n] <= Attached[n] * Attempts(n) + (IF task[n] \in Settled THEN Attached[n] ELSE 0)
            BY DEF IInv, Repeated
        <3>3. CASE n = m
            <4>1. rows[n] <= Attached[n] * Attempts(n)
                BY <1>22, <3>2, <3>3, <3>1 DEF CommitMessage, Written, Settled
            <4>2. rows'[n] = rows[n] + Attached[n] /\ task'[n] \in Settled
                BY <1>22, <3>3 DEF IInv, TypeOK, TasksTypeOK, CommitMessage, Written, Settled
            <4>3. rows[n] + Attached[n] <= Attached[n] * Attempts(n) + Attached[n]
                BY <4>1, <3>1
            <4> QED
                BY <4>2, <4>3, <3>1
        <3>4. CASE n # m
            BY <1>22, <3>1, <3>2, <3>4 DEF IInv, TypeOK, TasksTypeOK, CommitMessage
        <3> QED
            BY <3>3, <3>4
    <2> QED
        BY <2>1 DEF Repeated
<1>23. ASSUME NEW m \in Message, CacheIncoming(m) PROVE Repeated'
    BY <1>23, <1>c
        DEF IInv, Repeated, Attempts, Settled, Written, Watching, Published, TypeOK, TasksTypeOK,
            CacheIncoming, MaybeFault, Fault, Trouble, mailbox, watching, tables, running,
            bounds
<1>24. ASSUME NEW m \in Message, Acknowledge(m) PROVE Repeated'
    BY <1>24, <1>c
        DEF IInv, Repeated, Attempts, Settled, Written, Watching, Published, TypeOK, TasksTypeOK, Acknowledge,
            mailbox, watching, tables, running, bounds
<1>25. ASSUME NEW m \in Message, TaskFails(m) PROVE Repeated'
    <2>1. ASSUME NEW n \in Message
          PROVE  rows'[n] <= Attached[n] * Attempts(n)' + (IF task'[n] \in Settled THEN Attached[n] ELSE 0)
        <3>1. rows[n] \in Nat /\ Attached[n] \in Nat /\ Attempts(n) \in Nat /\ Attached[n] * Attempts(n) \in Nat
            BY MessagesAreNumbers DEF IInv, TypeOK, TasksTypeOK, Attempts
        <3>2. rows[n] <= Attached[n] * Attempts(n) + (IF task[n] \in Settled THEN Attached[n] ELSE 0)
            BY DEF IInv, Repeated
        <3>3. rows' = rows /\ crashes' = crashes
            BY <1>25 DEF TaskFails, Fault, tables
        <3>4. CASE n = m /\ retries[m] < MaxRetries
            <4>1. Attempts(n)' = Attempts(n) + 1
                BY <1>25, <3>3, <3>4 DEF TaskFails, Attempts, IInv, TypeOK, TasksTypeOK
            <4>2. Attached[n] * (Attempts(n) + 1) = Attached[n] * Attempts(n) + Attached[n]
                BY <3>1, OneMore
            <4>3. rows[n] <= Attached[n] * (Attempts(n) + 1) /\ Attached[n] * (Attempts(n) + 1) \in Nat
                BY <3>1, <3>2, <4>2
            <4> QED
                BY <3>1, <3>3, <4>1, <4>3
        <3>5. CASE n = m /\ ~(retries[m] < MaxRetries)
            <4>1. Attempts(n)' = Attempts(n) /\ task'[n] \in Settled
                BY <1>25, <3>3, <3>5 DEF TaskFails, Attempts, Settled, IInv, TypeOK, TasksTypeOK
            <4> QED
                BY <3>1, <3>2, <3>3, <4>1
        <3>6. CASE n # m
            <4>1. Attempts(n)' = Attempts(n) /\ task'[n] = task[n]
                BY <1>25, <3>3, <3>6 DEF TaskFails, Attempts, IInv, TypeOK, TasksTypeOK
            <4> QED
                BY <3>1, <3>2, <3>3, <4>1
        <3> QED
            BY <3>4, <3>5, <3>6
    <2> QED
        BY <2>1 DEF Repeated
<1>26. ASSUME NEW m \in Message, LoseWorker(m) PROVE Repeated'
    <2>1. ASSUME NEW n \in Message
          PROVE  rows'[n] <= Attached[n] * Attempts(n)' + (IF task'[n] \in Settled THEN Attached[n] ELSE 0)
        <3>1. rows[n] \in Nat /\ Attached[n] \in Nat /\ Attempts(n) \in Nat /\ Attached[n] * Attempts(n) \in Nat
            BY MessagesAreNumbers DEF IInv, TypeOK, TasksTypeOK, Attempts
        <3>2. rows[n] <= Attached[n] * Attempts(n) + (IF task[n] \in Settled THEN Attached[n] ELSE 0)
            BY DEF IInv, Repeated
        <3>3. rows' = rows /\ Attempts(n)' = Attempts(n) + 1
            BY <1>26 DEF LoseWorker, Crash, tables, running, Attempts, IInv, TypeOK, TasksTypeOK
        <3>4. Attached[n] * (Attempts(n) + 1) = Attached[n] * Attempts(n) + Attached[n]
            BY <3>1, OneMore
        <3>5. rows[n] <= Attached[n] * (Attempts(n) + 1)
            BY <3>1, <3>2, <3>4
        <3>6. Attached[n] * (Attempts(n) + 1) \in Nat
            BY <3>1, <3>4
        <3> QED
            BY <3>1, <3>3, <3>5, <3>6
    <2> QED
        BY <2>1 DEF Repeated
<1>27. CASE UNCHANGED vars
    BY <1>27
        DEF IInv, Repeated, Attempts, Settled, Written, Watching, Published, TypeOK, TasksTypeOK, mailbox,
            watching, tables, running, bounds, vars
<1> QED
    BY <1>1, <1>2, <1>3, <1>4, <1>5, <1>6, <1>7, <1>7a, <1>8, <1>9, <1>10, <1>11, <1>12, <1>13,
        <1>14, <1>15, <1>16, <1>17, <1>18, <1>19, <1>20, <1>21, <1>22, <1>23, <1>24, <1>25,
        <1>26, <1>27
        DEF Next, Watch, Work

(***************************************************************************)
(* Messages at risk                                                        *)
(***************************************************************************)

LEMMA RiskFinite == ASSUME seen \subseteq Message PROVE IsFiniteSet(AtRisk)
<1>1. IsFiniteSet(Message)
    BY MessagesAreNumbers, FS_Interval DEF Message
<1>2. AtRisk \in SUBSET Message
    BY DEF AtRisk
<1> QED
    BY <1>1, <1>2, FS_Subset

LEMMA SmallerSet ==
    ASSUME NEW S, NEW T, IsFiniteSet(S), T \subseteq S,
           NEW n \in Nat, NEW k \in Nat, Cardinality(S) <= n, n <= k
    PROVE  Cardinality(T) <= k
<1>1. IsFiniteSet(T) /\ Cardinality(T) <= Cardinality(S)
    BY FS_Subset
<1>2. Cardinality(T) \in Nat /\ Cardinality(S) \in Nat
    BY <1>1, FS_CardinalityType
<1> QED
    BY <1>1, <1>2

LEMMA LargerSet ==
    ASSUME NEW S, NEW T, NEW x, IsFiniteSet(S), T \subseteq S \cup {x},
           NEW n \in Nat, Cardinality(S) <= n
    PROVE  Cardinality(T) <= n + 1
<1>1. IsFiniteSet(S \cup {x})
    BY FS_AddElement
<1>2. Cardinality(S) \in Nat
    BY FS_CardinalityType
<1>3. Cardinality(S \cup {x}) <= n + 1
    <2>1. Cardinality(S \cup {x}) = IF x \in S THEN Cardinality(S) ELSE Cardinality(S) + 1
        BY FS_AddElement
    <2> QED
        BY <2>1, <1>2
<1> QED
    BY <1>1, <1>3, SmallerSet

\* A step that puts no message at risk.
LEMMA NoMoreAtRisk ==
    ASSUME IInv, AtRisk' \subseteq AtRisk,
           faults' + crashes' + reads' \in Nat,
           faults + crashes + reads <= faults' + crashes' + reads'
    PROVE  FewAtRisk'
<1>1. IsFiniteSet(AtRisk)
    BY RiskFinite DEF IInv, TypeOK, MailboxTypeOK
<1>2. faults + crashes + reads \in Nat
    BY DEF IInv, TypeOK
<1>3. Cardinality(AtRisk) <= faults + crashes + reads
    BY DEF IInv, FewAtRisk
<1>4. Cardinality(AtRisk') <= faults' + crashes' + reads'
    BY <1>1, <1>2, <1>3, SmallerSet
<1> QED
    BY <1>4 DEF FewAtRisk

\* A step that puts one message at risk and counts as a trouble.
LEMMA OneMoreAtRisk ==
    ASSUME IInv, NEW m, AtRisk' \subseteq AtRisk \cup {m},
           faults' + crashes' + reads' = faults + crashes + reads + 1
    PROVE  FewAtRisk'
<1>1. IsFiniteSet(AtRisk)
    BY RiskFinite DEF IInv, TypeOK, MailboxTypeOK
<1>2. faults + crashes + reads \in Nat
    BY DEF IInv, TypeOK
<1>3. Cardinality(AtRisk) <= faults + crashes + reads
    BY DEF IInv, FewAtRisk
<1>4. Cardinality(AtRisk') <= faults + crashes + reads + 1
    BY <1>1, <1>2, <1>3, LargerSet
<1> QED
    BY <1>4 DEF FewAtRisk


\* One trouble puts one message at risk.
LEMMA AtRiskStep == IInv /\ [Next]_vars => FewAtRisk'
<1> SUFFICES ASSUME IInv, [Next]_vars PROVE FewAtRisk'
    OBVIOUS
<1>c. batch # {} => Current \in batch /\ Current \in Message
    BY CurrentInBatch DEF IInv, TypeOK, WatcherTypeOK
<1>1. CASE RecordOutgoing
    <2>1. faults' + crashes' + reads' \in Nat
          /\ faults + crashes + reads <= faults' + crashes' + reads'
        BY <1>1
            DEF IInv, TypeOK, RecordOutgoing, bounds
    <2>2. AtRisk' \subseteq AtRisk
        BY <1>1, <1>c
            DEF IInv, TypeOK, MailboxTypeOK, WatcherTypeOK, TasksTypeOK, AtRisk, InHand,
                Watching, Published, Current, RecordOutgoing, mailbox, watching, tables,
                running, bounds
    <2> QED
        BY <2>1, <2>2, NoMoreAtRisk
<1>2. CASE CacheOutgoing
    <2>1. faults' + crashes' + reads' \in Nat
          /\ faults + crashes + reads <= faults' + crashes' + reads'
        BY <1>2
            DEF IInv, TypeOK, CacheOutgoing, MaybeFault, Fault, Trouble, bounds
    <2>2. AtRisk' \subseteq AtRisk
        BY <1>2, <1>c
            DEF IInv, TypeOK, MailboxTypeOK, WatcherTypeOK, TasksTypeOK, AtRisk, InHand,
                Watching, Published, Current, CacheOutgoing, MaybeFault, Fault, Trouble,
                mailbox, watching, tables, running, bounds
    <2> QED
        BY <2>1, <2>2, NoMoreAtRisk
<1>3. CASE OutgoingFails
    <2>1. faults' + crashes' + reads' \in Nat
          /\ faults + crashes + reads <= faults' + crashes' + reads'
        BY <1>3
            DEF IInv, TypeOK, OutgoingFails, Fault, Crash, Trouble, bounds
    <2>2. AtRisk' \subseteq AtRisk
        BY <1>3, <1>c
            DEF IInv, TypeOK, MailboxTypeOK, WatcherTypeOK, TasksTypeOK, AtRisk, InHand,
                Watching, Published, Current, OutgoingFails, Fault, Crash, Trouble, mailbox,
                watching, tables, running, bounds
    <2> QED
        BY <2>1, <2>2, NoMoreAtRisk
<1>4. ASSUME NEW i \in Id, Expire(i) PROVE FewAtRisk'
    <2>1. faults' + crashes' + reads' \in Nat
          /\ faults + crashes + reads <= faults' + crashes' + reads'
        BY <1>4
            DEF IInv, TypeOK, Expire, bounds
    <2>2. AtRisk' \subseteq AtRisk
        BY <1>4, <1>c
            DEF IInv, TypeOK, MailboxTypeOK, WatcherTypeOK, TasksTypeOK, AtRisk, InHand,
                Watching, Published, Current, Expire, mailbox, watching, tables, running,
                bounds
    <2> QED
        BY <2>1, <2>2, NoMoreAtRisk
<1>5. CASE Arrive
    <2>1. faults' + crashes' + reads' \in Nat
          /\ faults + crashes + reads <= faults' + crashes' + reads'
        BY <1>5
            DEF IInv, TypeOK, Arrive, bounds
    <2>2. AtRisk' \subseteq AtRisk
        BY <1>5, <1>c
            DEF IInv, TypeOK, MailboxTypeOK, WatcherTypeOK, TasksTypeOK, AtRisk, InHand,
                Watching, Published, Current, Arrive, mailbox, watching, tables, running,
                bounds
    <2> QED
        BY <2>1, <2>2, NoMoreAtRisk
<1>6. CASE Connect
    <2>1. faults' + crashes' + reads' \in Nat
          /\ faults + crashes + reads <= faults' + crashes' + reads'
        BY <1>6
            DEF IInv, TypeOK, Connect, Search, Unseen, Arrived, bounds
    <2>2. AtRisk' \subseteq AtRisk
        BY <1>6, <1>c
            DEF IInv, TypeOK, MailboxTypeOK, WatcherTypeOK, TasksTypeOK, AtRisk, InHand,
                Watching, Published, Current, Connect, Search, Unseen, Arrived, mailbox,
                watching, tables, running, bounds
    <2> QED
        BY <2>1, <2>2, NoMoreAtRisk
<1>7. CASE Notified
    <2>1. faults' + crashes' + reads' \in Nat
          /\ faults + crashes + reads <= faults' + crashes' + reads'
        BY <1>7
            DEF IInv, TypeOK, Notified, Search, Unseen, Arrived, bounds
    <2>2. AtRisk' \subseteq AtRisk
        BY <1>7, <1>c
            DEF IInv, TypeOK, MailboxTypeOK, WatcherTypeOK, TasksTypeOK, AtRisk, InHand,
                Watching, Published, Current, Notified, Search, Unseen, Arrived, mailbox,
                watching, tables, running, bounds
    <2> QED
        BY <2>1, <2>2, NoMoreAtRisk
<1>7a. CASE LeaveIdle
    <2>1. faults' + crashes' + reads' \in Nat
          /\ faults + crashes + reads <= faults' + crashes' + reads'
        BY <1>7a
            DEF IInv, TypeOK, LeaveIdle, bounds
    <2>2. AtRisk' \subseteq AtRisk
        BY <1>7a, <1>c
            DEF IInv, TypeOK, MailboxTypeOK, WatcherTypeOK, TasksTypeOK, AtRisk, InHand,
                Watching, Published, Current, LeaveIdle, mailbox, watching, tables, running,
                bounds
    <2> QED
        BY <2>1, <2>2, NoMoreAtRisk
<1>8. CASE Idle
    <2>1. faults' + crashes' + reads' \in Nat
          /\ faults + crashes + reads <= faults' + crashes' + reads'
        BY <1>8
            DEF IInv, TypeOK, Idle, bounds
    <2>2. AtRisk' \subseteq AtRisk
        BY <1>8, <1>c
            DEF IInv, TypeOK, MailboxTypeOK, WatcherTypeOK, TasksTypeOK, AtRisk, InHand,
                Watching, Published, Current, Idle, mailbox, watching, tables, running,
                bounds
    <2> QED
        BY <2>1, <2>2, NoMoreAtRisk
<1>9. CASE Fetch
    <2>1. faults' + crashes' + reads' \in Nat
          /\ faults + crashes + reads <= faults' + crashes' + reads'
        BY <1>9
            DEF IInv, TypeOK, Fetch, bounds
    <2>2. AtRisk' \subseteq AtRisk
        BY <1>9, <1>c
            DEF IInv, TypeOK, MailboxTypeOK, WatcherTypeOK, TasksTypeOK, AtRisk, InHand,
                Watching, Published, Current, Fetch, mailbox, watching, tables, running,
                bounds
    <2> QED
        BY <2>1, <2>2, NoMoreAtRisk
<1>10. CASE LookUpCache
    <2>1. faults' + crashes' + reads' \in Nat
          /\ faults + crashes + reads <= faults' + crashes' + reads'
        BY <1>10
            DEF IInv, TypeOK, LookUpCache, MaybeFault, Fault, Trouble, bounds
    <2>2. AtRisk' \subseteq AtRisk
        BY <1>10, <1>c
            DEF IInv, TypeOK, MailboxTypeOK, WatcherTypeOK, TasksTypeOK, AtRisk, InHand,
                Watching, Published, Current, LookUpCache, MaybeFault, Fault, Trouble,
                mailbox, watching, tables, running, bounds
    <2> QED
        BY <2>1, <2>2, NoMoreAtRisk
<1>11. CASE LookUpThreads
    <2>1. faults' + crashes' + reads' \in Nat
          /\ faults + crashes + reads <= faults' + crashes' + reads'
        BY <1>11
            DEF IInv, TypeOK, LookUpThreads, bounds
    <2>2. AtRisk' \subseteq AtRisk
        BY <1>11, <1>c
            DEF IInv, TypeOK, MailboxTypeOK, WatcherTypeOK, TasksTypeOK, AtRisk, InHand,
                Watching, Published, Current, LookUpThreads, mailbox, watching, tables,
                running, bounds
    <2> QED
        BY <2>1, <2>2, NoMoreAtRisk
<1>12. CASE IgnoreMessage
    <2>1. faults' + crashes' + reads' \in Nat
          /\ faults + crashes + reads <= faults' + crashes' + reads'
        BY <1>12
            DEF IInv, TypeOK, IgnoreMessage, Proceed, bounds
    <2>2. AtRisk' \subseteq AtRisk
        BY <1>12, <1>c
            DEF IInv, TypeOK, MailboxTypeOK, WatcherTypeOK, TasksTypeOK, AtRisk, InHand,
                Watching, Published, Current, IgnoreMessage, Proceed, mailbox, watching,
                tables, running, bounds
    <2> QED
        BY <2>1, <2>2, NoMoreAtRisk
<1>13. CASE CacheThread
    <2>1. faults' + crashes' + reads' \in Nat
          /\ faults + crashes + reads <= faults' + crashes' + reads'
        BY <1>13
            DEF IInv, TypeOK, CacheThread, MaybeFault, Fault, Trouble, bounds
    <2>2. AtRisk' \subseteq AtRisk
        BY <1>13, <1>c
            DEF IInv, TypeOK, MailboxTypeOK, WatcherTypeOK, TasksTypeOK, AtRisk, InHand,
                Watching, Published, Current, CacheThread, MaybeFault, Fault, Trouble,
                mailbox, watching, tables, running, bounds
    <2> QED
        BY <2>1, <2>2, NoMoreAtRisk
<1>14. CASE Publish
    <2>1. faults' + crashes' + reads' \in Nat
          /\ faults + crashes + reads <= faults' + crashes' + reads'
        BY <1>14
            DEF IInv, TypeOK, Publish, Proceed, bounds
    <2>2. AtRisk' \subseteq AtRisk
        BY <1>14, <1>c
            DEF IInv, TypeOK, MailboxTypeOK, WatcherTypeOK, TasksTypeOK, AtRisk, InHand,
                Watching, Published, Current, Publish, Proceed, mailbox, watching, tables,
                running, bounds
    <2> QED
        BY <2>1, <2>2, NoMoreAtRisk
<1>15. CASE Disconnect
    <2>1. faults' + crashes' + reads' \in Nat
          /\ faults + crashes + reads <= faults' + crashes' + reads'
        BY <1>15
            DEF IInv, TypeOK, Disconnect, Fault, Trouble, bounds
    <2>2. AtRisk' \subseteq AtRisk
        BY <1>15, <1>c
            DEF IInv, TypeOK, MailboxTypeOK, WatcherTypeOK, TasksTypeOK, AtRisk, InHand,
                Watching, Published, Current, Disconnect, Fault, Trouble, mailbox, watching,
                tables, running, bounds
    <2> QED
        BY <2>1, <2>2, NoMoreAtRisk
<1>16. CASE StopWatcher
    <2>1. faults' + crashes' + reads' = faults + crashes + reads + 1
        BY <1>16
            DEF IInv, TypeOK, StopWatcher, Crash, Trouble, bounds
    <2>2. AtRisk' \subseteq AtRisk \cup {Current}
        BY <1>16, <1>c
            DEF IInv, TypeOK, MailboxTypeOK, WatcherTypeOK, AtRisk, InHand, Watching,
                Published, Current, StopWatcher, Crash, Trouble, mailbox, watching, tables,
                running, bounds
    <2> QED
        BY <2>1, <2>2, OneMoreAtRisk
<1>17. CASE FetchFails
    <2>1. faults' + crashes' + reads' = faults + crashes + reads + 1
        BY <1>17
            DEF IInv, TypeOK, FetchFails, Proceed, Fault, Trouble, bounds
    <2>2. AtRisk' \subseteq AtRisk \cup {Current}
        BY <1>17, <1>c
            DEF IInv, TypeOK, MailboxTypeOK, WatcherTypeOK, AtRisk, InHand, Watching,
                Published, Current, FetchFails, Proceed, Fault, Trouble, mailbox, watching,
                tables, running, bounds
    <2> QED
        BY <2>1, <2>2, OneMoreAtRisk
<1>18. CASE DropMessage
    <2>1. faults' + crashes' + reads' = faults + crashes + reads + 1
        BY <1>18
            DEF IInv, TypeOK, DropMessage, Proceed, Fault, Trouble, bounds
    <2>2. AtRisk' \subseteq AtRisk \cup {Current}
        BY <1>18, <1>c
            DEF IInv, TypeOK, MailboxTypeOK, WatcherTypeOK, AtRisk, InHand, Watching,
                Published, Current, DropMessage, Proceed, Fault, Trouble, mailbox, watching,
                tables, running, bounds
    <2> QED
        BY <2>1, <2>2, OneMoreAtRisk
<1>19. ASSUME NEW m \in Message, ReadMail(m) PROVE FewAtRisk'
    <2>1. faults' + crashes' + reads' = faults + crashes + reads + 1
        BY <1>19
            DEF IInv, TypeOK, ReadMail, Trouble, Unseen, Arrived, bounds
    <2>2. AtRisk' \subseteq AtRisk \cup {m}
        BY <1>19, <1>c
            DEF IInv, TypeOK, MailboxTypeOK, WatcherTypeOK, AtRisk, InHand, Watching,
                Published, Current, ReadMail, Trouble, Unseen, Arrived, mailbox, watching,
                tables, running, bounds
    <2> QED
        BY <2>1, <2>2, OneMoreAtRisk
<1>20. ASSUME NEW m \in Message, StartTask(m) PROVE FewAtRisk'
    <2>1. faults' + crashes' + reads' \in Nat
          /\ faults + crashes + reads <= faults' + crashes' + reads'
        BY <1>20
            DEF IInv, TypeOK, StartTask, bounds
    <2>2. AtRisk' \subseteq AtRisk
        BY <1>20, <1>c
            DEF IInv, TypeOK, MailboxTypeOK, WatcherTypeOK, TasksTypeOK, AtRisk, InHand,
                Watching, Published, Current, StartTask, mailbox, watching, tables, running,
                bounds
    <2> QED
        BY <2>1, <2>2, NoMoreAtRisk
<1>21. ASSUME NEW m \in Message, Upload(m) PROVE FewAtRisk'
    <2>1. faults' + crashes' + reads' \in Nat
          /\ faults + crashes + reads <= faults' + crashes' + reads'
        BY <1>21
            DEF IInv, TypeOK, Upload, bounds
    <2>2. AtRisk' \subseteq AtRisk
        BY <1>21, <1>c
            DEF IInv, TypeOK, MailboxTypeOK, WatcherTypeOK, TasksTypeOK, AtRisk, InHand,
                Watching, Published, Current, Upload, mailbox, watching, tables, running,
                bounds
    <2> QED
        BY <2>1, <2>2, NoMoreAtRisk
<1>22. ASSUME NEW m \in Message, CommitMessage(m) PROVE FewAtRisk'
    <2>1. faults' + crashes' + reads' \in Nat
          /\ faults + crashes + reads <= faults' + crashes' + reads'
        BY <1>22
            DEF IInv, TypeOK, CommitMessage, MaybeFault, Fault, Trouble, bounds
    <2>2. AtRisk' \subseteq AtRisk
        BY <1>22, <1>c
            DEF IInv, TypeOK, MailboxTypeOK, WatcherTypeOK, TasksTypeOK, AtRisk, InHand,
                Watching, Published, Current, CommitMessage, mailbox, watching, tables,
                running, bounds
    <2> QED
        BY <2>1, <2>2, NoMoreAtRisk
<1>23. ASSUME NEW m \in Message, CacheIncoming(m) PROVE FewAtRisk'
    <2>1. faults' + crashes' + reads' \in Nat
          /\ faults + crashes + reads <= faults' + crashes' + reads'
        BY <1>23
            DEF IInv, TypeOK, CacheIncoming, MaybeFault, Fault, Trouble, bounds
    <2>2. AtRisk' \subseteq AtRisk
        BY <1>23, <1>c
            DEF IInv, TypeOK, MailboxTypeOK, WatcherTypeOK, TasksTypeOK, AtRisk, InHand,
                Watching, Published, Current, CacheIncoming, MaybeFault, Fault, Trouble,
                mailbox, watching, tables, running, bounds
    <2> QED
        BY <2>1, <2>2, NoMoreAtRisk
<1>24. ASSUME NEW m \in Message, Acknowledge(m) PROVE FewAtRisk'
    <2>1. faults' + crashes' + reads' \in Nat
          /\ faults + crashes + reads <= faults' + crashes' + reads'
        BY <1>24
            DEF IInv, TypeOK, Acknowledge, bounds
    <2>2. AtRisk' \subseteq AtRisk
        BY <1>24, <1>c
            DEF IInv, TypeOK, MailboxTypeOK, WatcherTypeOK, TasksTypeOK, AtRisk, InHand,
                Watching, Published, Current, Acknowledge, mailbox, watching, tables,
                running, bounds
    <2> QED
        BY <2>1, <2>2, NoMoreAtRisk
<1>25. ASSUME NEW m \in Message, TaskFails(m) PROVE FewAtRisk'
    <2>1. faults' + crashes' + reads' \in Nat
          /\ faults + crashes + reads <= faults' + crashes' + reads'
        BY <1>25
            DEF IInv, TypeOK, TaskFails, Fault, Trouble, bounds
    <2>2. AtRisk' \subseteq AtRisk
        BY <1>25, <1>c
            DEF IInv, TypeOK, MailboxTypeOK, WatcherTypeOK, TasksTypeOK, AtRisk, InHand,
                Watching, Published, Current, TaskFails, Fault, Trouble, mailbox, watching,
                tables, running, bounds
    <2> QED
        BY <2>1, <2>2, NoMoreAtRisk
<1>26. ASSUME NEW m \in Message, LoseWorker(m) PROVE FewAtRisk'
    <2>1. faults' + crashes' + reads' \in Nat
          /\ faults + crashes + reads <= faults' + crashes' + reads'
        BY <1>26
            DEF IInv, TypeOK, LoseWorker, Crash, Trouble, Running, bounds
    <2>2. AtRisk' \subseteq AtRisk
        BY <1>26, <1>c
            DEF IInv, TypeOK, MailboxTypeOK, WatcherTypeOK, TasksTypeOK, AtRisk, InHand,
                Watching, Published, Current, LoseWorker, Crash, Trouble, Running, mailbox,
                watching, tables, running, bounds
    <2> QED
        BY <2>1, <2>2, NoMoreAtRisk
<1>27. CASE UNCHANGED vars
    BY <1>27 DEF IInv, FewAtRisk, AtRisk, InHand, Current, vars, mailbox, watching, running, bounds
<1> QED
    BY <1>1, <1>2, <1>3, <1>4, <1>5, <1>6, <1>7, <1>7a, <1>8, <1>9, <1>10, <1>11, <1>12, <1>13,
        <1>14, <1>15, <1>16, <1>17, <1>18, <1>19, <1>20, <1>21, <1>22, <1>23, <1>24, <1>25,
        <1>26, <1>27
        DEF Next, Watch, Work

LEMMA CommittedFinite == IsFiniteSet(Committed)
<1>1. IsFiniteSet(Message)
    BY MessagesAreNumbers, FS_Interval DEF Message
<1> QED
    BY <1>1, FS_Subset DEF Committed

\* A step that commits no reply and marks no answer.
LEMMA NoMoreCommitted ==
    ASSUME IInv, Committed' \subseteq Committed, answered' = answered,
           faults' \in Nat, faults <= faults'
    PROVE  FewUnanswered'
<1>1. faults \in Nat
    BY DEF IInv, TypeOK
<1>2. ASSUME ~answered PROVE Cardinality(Committed') <= faults'
    <2>1. Cardinality(Committed) <= faults
        BY <1>2 DEF IInv, FewUnanswered
    <2> QED
        BY <1>1, <2>1, CommittedFinite, SmallerSet
<1> QED
    BY <1>2 DEF FewUnanswered

\* An escalation that stays unanswered has cost an error for each reply committed.
LEMMA UnansweredStep == IInv /\ [Next]_vars => FewUnanswered'
<1> SUFFICES ASSUME IInv, [Next]_vars PROVE FewUnanswered'
    OBVIOUS
<1>c. batch # {} => Current \in batch /\ Current \in Message
    BY CurrentInBatch DEF IInv, TypeOK, WatcherTypeOK
<1>t. faults \in Nat /\ faults' \in Nat
    BY TypeStep DEF IInv, TypeOK
<1>m. faults <= faults'
    <2>1. UNCHANGED faults \/ faults' = faults + 1
        BY DEF Next, Watch, Work, RecordOutgoing, CacheOutgoing, OutgoingFails, Expire,
               Arrive, ReadMail, Connect, LeaveIdle, Notified, Search, Idle, Fetch,
               LookUpCache, LookUpThreads, IgnoreMessage, CacheThread, Publish,
               Disconnect, StopWatcher, FetchFails, DropMessage, StartTask, Upload,
               CommitMessage, CacheIncoming, Acknowledge, TaskFails, LoseWorker,
               MaybeFault, Fault, Crash, bounds, vars
    <2> QED
        BY <2>1, <1>t
<1>1. ASSUME UNCHANGED <<task, escalation, answered>> PROVE FewUnanswered'
    <2>1. Committed' = Committed
        BY <1>1 DEF Committed
    <2> QED
        BY <1>1, <1>t, <1>m, <2>1, NoMoreCommitted
<1>2. ASSUME NEW m \in Message, task' = [task EXCEPT ![m] = "queued"] \/
                                task' = [task EXCEPT ![m] = "open"] \/
                                task' = [task EXCEPT ![m] = "dead"],
             UNCHANGED <<escalation, answered>>
      PROVE  FewUnanswered'
    <2>1. Committed' \subseteq Committed
        BY <1>2 DEF IInv, TypeOK, TasksTypeOK, Committed, Written
    <2> QED
        BY <1>2, <1>t, <1>m, <2>1, NoMoreCommitted
<1>3. ASSUME NEW m \in Message, CacheIncoming(m) \/ Acknowledge(m) PROVE FewUnanswered'
    <2>1. Committed' \subseteq Committed /\ answered' = answered
        BY <1>3 DEF IInv, TypeOK, TasksTypeOK, Committed, Written, CacheIncoming, Acknowledge,
                    tables
    <2> QED
        BY <1>t, <1>m, <2>1, NoMoreCommitted
<1>4. CASE Publish
    <2>1. Current \in Message
        BY <1>4, <1>c DEF Publish, IInv, Watching
    <2>2. Committed' \subseteq Committed /\ answered' = answered
        BY <1>4, <2>1 DEF IInv, TypeOK, TasksTypeOK, Committed, Written, Publish, tables
    <2> QED
        BY <1>t, <1>m, <2>2, NoMoreCommitted
<1>5. ASSUME NEW m \in Message, CommitMessage(m) PROVE FewUnanswered'
    <2>1. CASE answered'
        BY <2>1 DEF FewUnanswered
    <2>2. CASE ~answered' /\ ~escalation[m]
        <3>1. Committed' \subseteq Committed
            BY <1>5, <2>2 DEF IInv, TypeOK, TasksTypeOK, Committed, Written, CommitMessage
        <3>2. ~answered
            BY <1>5, <2>2 DEF CommitMessage
        <3>3. Cardinality(Committed) <= faults
            BY <3>2 DEF IInv, FewUnanswered
        <3>4. Cardinality(Committed') <= faults'
            BY <1>t, <1>m, <3>1, <3>3, CommittedFinite, SmallerSet
        <3> QED
            BY <3>4 DEF FewUnanswered
    <2>3. CASE ~answered' /\ escalation[m]
        <3>1. Committed' \subseteq Committed \cup {m}
            BY <1>5 DEF IInv, TypeOK, TasksTypeOK, Committed, Written, CommitMessage
        <3>2. ~answered /\ faults' = faults + 1
            BY <1>5, <2>3 DEF CommitMessage, MaybeFault, Fault
        <3>3. Cardinality(Committed) <= faults
            BY <3>2 DEF IInv, FewUnanswered
        <3>4. Cardinality(Committed') <= faults + 1
            BY <1>t, <3>1, <3>3, CommittedFinite, LargerSet
        <3> QED
            BY <3>2, <3>4 DEF FewUnanswered
    <2> QED
        BY <2>1, <2>2, <2>3
<1>6. ASSUME NEW m \in Message, StartTask(m) \/ TaskFails(m) \/ LoseWorker(m)
      PROVE  FewUnanswered'
    BY <1>2, <1>6 DEF StartTask, TaskFails, LoseWorker, tables
<1>7. ASSUME NEW m \in Message, ReadMail(m) \/ Upload(m) PROVE FewUnanswered'
    BY <1>1, <1>7 DEF ReadMail, Upload, tables, running
<1>8. CASE \/ RecordOutgoing \/ CacheOutgoing \/ OutgoingFails \/ Arrive
           \/ \E i \in Id : Expire(i)
    BY <1>1, <1>8 DEF RecordOutgoing, CacheOutgoing, OutgoingFails, Arrive, Expire, tables, running
<1>9. CASE \/ Connect \/ LeaveIdle \/ Notified \/ Idle \/ Fetch
           \/ LookUpCache \/ LookUpThreads \/ IgnoreMessage \/ CacheThread
           \/ Disconnect \/ StopWatcher \/ FetchFails \/ DropMessage
    BY <1>1, <1>9 DEF Connect, LeaveIdle, Notified, Search, Idle, Fetch, LookUpCache,
        LookUpThreads, IgnoreMessage, CacheThread, Disconnect, StopWatcher, FetchFails,
        DropMessage, tables, running
<1>10. CASE UNCHANGED vars
    BY <1>1, <1>10 DEF vars, tables, running
<1> QED
    BY <1>3, <1>4, <1>5, <1>6, <1>7, <1>8, <1>9, <1>10 DEF Next, Watch, Work

(***************************************************************************)
(* The theorems                                                            *)
(***************************************************************************)

LEMMA NextInvariant == IInv /\ [Next]_vars => IInv'
BY TypeStep, WatchingStep, PublishedStep, BackedStep, RecordedStep, UnansweredStep, StoredStep,
   RepeatedStep, AtRiskStep
   DEF IInv

\* The inductive invariant holds in every reachable state.
THEOREM Invariance == Spec => []IInv
<1>1. Init => IInv
    BY InitInvariant
<1>2. IInv /\ [Next]_vars => IInv'
    BY NextInvariant
<1> QED
    BY <1>1, <1>2, PTL DEF Spec

\* Every variable keeps its type and no task is retried beyond max_retries
\* (process_incoming_email_task).
THEOREM TypeCorrect == Spec => []TypeOK
<1>1. IInv => TypeOK
    BY DEF IInv
<1> QED
    BY <1>1, Invariance, PTL

\* However often it was retried or redelivered, an acknowledged task has left its
\* thread and its attachments; and as many acknowledged replies can leave an
\* escalation unanswered as calls have failed (process_incoming_email_task).
THEOREM AcknowledgedTasksRecorded == Spec => []AcknowledgedIsRecorded
<1>1. IInv => AcknowledgedIsRecorded
    <2> SUFFICES ASSUME IInv PROVE AcknowledgedIsRecorded
        OBVIOUS
    <2>1. Answers \subseteq Committed
        BY DEF Answers, Committed, Written
    <2>2. faults \in Nat
        BY DEF IInv, TypeOK
    <2>3. ASSUME ~answered PROVE Cardinality(Answers) <= faults
        <3>1. Cardinality(Committed) <= faults
            BY <2>3 DEF IInv, FewUnanswered
        <3> QED
            BY <2>1, <2>2, <3>1, CommittedFinite, SmallerSet
    <2> QED
        BY <2>3 DEF IInv, Recorded, Written, AcknowledgedIsRecorded
<1> QED
    BY <1>1, Invariance, PTL

\* Attachment rows have their objects, and only retries and lost workers repeat them.
THEOREM RowsAreBacked == Spec => []AttachmentsBacked
<1>1. IInv => AttachmentsBacked
    <2> SUFFICES ASSUME IInv, NEW m \in Message
                 PROVE  /\ rows[m] <= objects[m]
                        /\ rows[m] <= Attached[m] * (1 + retries[m] + crashes)
        BY DEF AttachmentsBacked
    <2>1. /\ rows[m] \in Nat /\ objects[m] \in Nat /\ up[m] \in Nat
          /\ retries[m] \in Nat /\ crashes \in Nat /\ Attached[m] \in Nat
        BY MessagesAreNumbers DEF IInv, TypeOK, TasksTypeOK
    <2>2. rows[m] <= objects[m]
        BY <2>1 DEF IInv, Stored
    <2>3. rows[m] <= Attached[m] * Attempts(m)
                     + (IF task[m] \in Settled THEN Attached[m] ELSE 0)
        BY DEF IInv, Repeated
    <2>4. Attempts(m) \in Nat /\ 1 + retries[m] + crashes = Attempts(m) + 1
        BY <2>1 DEF Attempts
    <2>5. /\ Attached[m] * (Attempts(m) + 1) = Attached[m] * Attempts(m) + Attached[m]
          /\ Attached[m] * Attempts(m) \in Nat
        BY <2>1, <2>4, OneMore
    <2>6. rows[m] <= Attached[m] * Attempts(m) + Attached[m]
        BY <2>1, <2>3, <2>5
    <2>7. rows[m] <= Attached[m] * (1 + retries[m] + crashes)
        BY <2>4, <2>5, <2>6
    <2> QED
        BY <2>2, <2>7
<1> QED
    BY <1>1, Invariance, PTL

\* A Message-ID is in Redis only if its row is in isp_email_threads.
THEOREM MappingsAreBacked == Spec => []CacheBacked
<1>1. IInv => CacheBacked
    BY DEF IInv, Backed
<1> QED
    BY <1>1, Invariance, PTL

\* No trouble costs more than one message, however long the watcher's batch is.
THEOREM LossesAreExplained == Spec => []LossesExplained
<1>1. IInv => LossesExplained
    <2> SUFFICES ASSUME IInv PROVE LossesExplained
        OBVIOUS
    <2>1. Dropped \subseteq AtRisk
        BY CurrentInBatch
            DEF IInv, TypeOK, WatcherTypeOK, Watching, Dropped, AtRisk, InHand
    <2>2. IsFiniteSet(AtRisk)
        BY RiskFinite DEF IInv, TypeOK, MailboxTypeOK
    <2>3. faults + crashes + reads \in Nat
        BY DEF IInv, TypeOK
    <2>4. Cardinality(AtRisk) <= faults + crashes + reads
        BY DEF IInv, FewAtRisk
    <2>5. Cardinality(Dropped) <= faults + crashes + reads
        BY <2>1, <2>2, <2>3, <2>4, SmallerSet
    <2> QED
        BY <2>5 DEF LossesExplained
<1> QED
    BY <1>1, Invariance, PTL

===============================================================================
