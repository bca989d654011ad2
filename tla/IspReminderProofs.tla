-------------------------- MODULE IspReminderProofs --------------------------
(***************************************************************************)
(* Theorems about IspReplyMonitor under the assumption its code makes,     *)
(* that the scan lock outlives every scan: a scan decides on current data, *)
(* reminders are bounded, spaced and numbered like the Redis counter, and  *)
(* an exhausted alert is never reminded about again.                       *)
(***************************************************************************)
EXTENDS IspContractProofs

(***************************************************************************)
(* What the proofs below share: the invariants they build on, the          *)
(* exclusiveness of a scan, and the steps that need no thought.            *)
(***************************************************************************)

BaseInv == TypeInv /\ RegisteredInv /\ LockInv /\ EntryInv

\* The invariants of the other modules that all proofs below build on.
LEMMA BaseHolds == Spec => []BaseInv
<1>1. Init => LockInv
    BY DEF Init, LockInv, ScansExclusive, Scanning
<1>2. Init => BaseInv
    BY <1>1, TypeInit, RegisteredInit, EntryInit DEF BaseInv
<1>3. BaseInv /\ [Next]_vars => BaseInv'
    BY TypeNext, RegisteredNext, LockNext, EntryNext DEF BaseInv
<1>4. QED
    BY <1>2, <1>3, PTL DEF Spec

\* While one worker scans under a lock that outlives it, the lists of all
\* others are empty.
LEMMA OneScan ==
    ASSUME BaseInv, LockOutlivesScan, NEW w \in Workers, Scanning(w)
    PROVE  \A v \in Workers \ {w} :
               pc[v] = "idle" /\ cur[v] = NoAlert /\ \A a \in Alerts : ~seen[v][a].stored
BY DEF BaseInv, LockInv, ScansExclusive, Scanning, EntryInv, TypeInv, ScanInv, FocusOK,
    Busy

\* Reminders that were sent, but may not have been counted in Redis.
Uncounted == faults + crashes

\* No monitor becomes visible to the scans, and none that is changes its
\* count; the timeout of some may elapse.
MonitorsKept ==
    /\ index' \subseteq index
    /\ Registered \subseteq Registered'
    /\ \A a \in index' :
        /\ monitor'[a].count <= monitor[a].count
        /\ Pending(a)' => Pending(a)
        /\ monitor'[a].stored =>
            /\ monitor[a].stored
            /\ monitor'[a].count = monitor[a].count
            /\ monitor[a].due => monitor'[a].due
            /\ monitor'[a].due => monitor[a].due \/ a \in elapsed'

\* No list gets longer, no reminder gets under way, and what a worker is
\* about to write back as stopped is what it has just read.
ListsKept ==
    /\ \A w \in Workers, a \in Alerts :
        seen'[w][a].stored => seen'[w][a] = seen[w][a] /\ (cur'[w] # a => cur[w] # a)
    /\ \A w \in Workers : pc'[w] \in Reminding =>
        /\ UNCHANGED <<cur[w], seen[w]>>
        /\ pc[w] \in Reminding
        /\ pc'[w] = "record" <=> pc[w] = "record"
    /\ \A w \in Workers : pc'[w] = "stop" =>
        /\ UNCHANGED seen[w]
        /\ \/ pc[w] = "stop" /\ UNCHANGED <<cur[w], copy[w]>>
           \/ monitor[cur'[w]].stored /\ copy'[w] = monitor[cur'[w]]

\* A worker drops a reminder under way only on an error or a crash, or when
\* the monitor is no longer pending.
RemindersKept ==
    \/ Uncounted' > Uncounted
    \/ \A w \in Workers, a \in index' :
        pc[w] \in Reminding /\ cur[w] = a /\ Pending(a)' =>
            pc'[w] \in Reminding /\ cur'[w] = a

\* Nothing is sent, recorded or flagged.
OutcomesKept ==
    /\ UNCHANGED <<total, rows>>
    /\ elapsed \subseteq elapsed'
    /\ \A a \in Alerts :
        status'[a] \in {"reminded", "exhausted"} => status'[a] = status[a]
    /\ faults' \in Nat /\ crashes' \in Nat
    /\ faults' >= faults /\ crashes' >= crashes

Ordinary == MonitorsKept /\ ListsKept /\ RemindersKept /\ OutcomesKept

\* A step that leaves the monitors alone shows no new one.
LEMMA SameMonitors ==
    ASSUME TypeInv, UNCHANGED <<index, monitor>>, Registered \subseteq Registered'
    PROVE  MonitorsKept
BY DEF MonitorsKept, Pending, TypeInv, RedisTypeOK, Monitor

\* A step outside the scans leaves lists and reminders alone.
LEMMA SameLists == UNCHANGED scanVars => ListsKept /\ RemindersKept
BY DEF ListsKept, RemindersKept, scanVars

\* A step that only labels an alert otherwise sends and records nothing.
LEMMA SameOutcomes ==
    ASSUME TypeInv, NoFault \/ Fault \/ Crash, UNCHANGED <<total, rows, elapsed>>,
           \A a \in Alerts :
               status'[a] \in {"reminded", "exhausted"} => status'[a] = status[a]
    PROVE  OutcomesKept
BY ErrorsGrow DEF OutcomesKept, TypeInv, BoundsOK, NoFault, Fault, Crash, boundVars

\* A worker that goes on, keeping its list and its entry.
LEMMA GotoKeepsLists ==
    ASSUME TypeInv, NEW w \in Workers, NEW label \in ScanPC \ {"record", "stop"},
           label \in Reminding => pc[w] \in Reminding \ {"record"},
           pc[w] \in Reminding => label \in Reminding \/ Uncounted' > Uncounted,
           pc' = [pc EXCEPT ![w] = label], UNCHANGED <<seen, cur>>,
           \A v \in Workers \ {w} : UNCHANGED copy[v]
    PROVE  ListsKept /\ RemindersKept
BY DEF ListsKept, RemindersKept, TypeInv, ScanInv, ScanTypeOK, ScanPC, Reminding

\* A worker that drops an entry, which it was not reminding about unless
\* there was an error or the monitor has gone.
LEMMA FinishKeepsLists ==
    ASSUME TypeInv, NEW w \in Workers, NEW a \in Alerts, cur[w] \in {a, NoAlert},
           Finish(w, a),
           \/ pc[w] \notin Reminding
           \/ Uncounted' > Uncounted
           \/ a \in index' => ~Pending(a)'
    PROVE  ListsKept /\ RemindersKept
<1> USE DEF TypeInv
<1>1. ListsKept
    BY ConstantsAssumption DEF Finish, ListsKept, TypeInv, ScanInv, ScanTypeOK, ScanPC,
        Reminding, NoMonitor
<1>2. RemindersKept
    BY ConstantsAssumption DEF Finish, RemindersKept, ScanInv, ScanTypeOK, FocusOK, Busy, ScanPC, Reminding
<1>3. QED
    BY <1>1, <1>2

\* The steps that register, read, send, record, count, stop or flag something.
Special ==
    \/ \E a \in Alerts : RegisterMonitor(a)
    \/ \E w \in Workers : \/ GetAllActiveMonitors(w) \/ RecordReminder(w)
                          \/ WriteUpdate(w) \/ WriteStopped(w) \/ FlagExhausted(w)
    \/ \E w \in Workers, a \in Alerts : SendReminder(w, a)

\* Every other step is ordinary.
LEMMA StepKinds == TypeInv /\ [Next]_vars => Special \/ Ordinary
<1> SUFFICES ASSUME TypeInv, [Next]_vars PROVE Special \/ Ordinary
    OBVIOUS
<1> USE DEF Ordinary
<1>1. ASSUME NEW a \in Alerts, SendEscalation(a) PROVE Special \/ Ordinary
    <2>1. Registered \subseteq Registered'
        BY <1>1 DEF SendEscalation, Registered, TypeInv, TaskInv, TaskTypeOK
    <2>2. MonitorsKept
        BY <1>1, <2>1, SameMonitors DEF SendEscalation, redisVars
    <2>3. ListsKept /\ RemindersKept
        BY <1>1, SameLists DEF SendEscalation
    <2>4. OutcomesKept
        BY <1>1, SameOutcomes DEF SendEscalation, TypeInv, DbTypeOK, NoFault, dbVars, historyVars
    <2>5. QED
        BY <2>2, <2>3, <2>4
<1>2. ASSUME NEW a \in Alerts, CommitEscalation(a) PROVE Special \/ Ordinary
    <2>1. Registered \subseteq Registered'
        BY <1>2 DEF CommitEscalation, Registered, TypeInv, TaskInv, TaskTypeOK
    <2>2. MonitorsKept
        BY <1>2, <2>1, SameMonitors DEF CommitEscalation, redisVars
    <2>3. ListsKept /\ RemindersKept
        BY <1>2, SameLists DEF CommitEscalation
    <2>4. OutcomesKept
        BY <1>2, SameOutcomes DEF CommitEscalation, TypeInv, DbTypeOK, NoFault, dbVars, historyVars
    <2>5. QED
        BY <2>2, <2>3, <2>4
<1>3. ASSUME NEW a \in Alerts, RegisterMonitor(a) PROVE Special \/ Ordinary
    BY <1>3 DEF Special
<1>4. ASSUME NEW a \in Alerts, CrashEscalation(a) PROVE Special \/ Ordinary
    <2>1. Registered \subseteq Registered'
        BY <1>4 DEF CrashEscalation, Registered, TypeInv, TaskInv, TaskTypeOK
    <2>2. MonitorsKept
        BY <1>4, <2>1, SameMonitors DEF CrashEscalation, redisVars
    <2>3. ListsKept /\ RemindersKept
        BY <1>4, SameLists DEF CrashEscalation
    <2>4. OutcomesKept
        BY <1>4, SameOutcomes DEF CrashEscalation, TypeInv, DbTypeOK, NoFault, dbVars, historyVars
    <2>5. QED
        BY <2>2, <2>3, <2>4
<1>5. ASSUME NEW a \in Alerts, TimeoutElapses(a) PROVE Special \/ Ordinary
    <2>1. MonitorsKept
        BY <1>5 DEF TimeoutElapses, MonitorsKept, Registered, Pending, TypeInv, RedisTypeOK,
            Monitor
    <2>2. ListsKept /\ RemindersKept
        BY <1>5, SameLists DEF TimeoutElapses
    <2>3. OutcomesKept
        BY <1>5, ErrorsGrow
        DEF TimeoutElapses, OutcomesKept, dbVars, boundVars, NoFault, TypeInv, BoundsOK
    <2>4. QED
        BY <2>1, <2>2, <2>3
<1>6. ASSUME NEW a \in Alerts, MonitorExpires(a) PROVE Special \/ Ordinary
    <2>1. MonitorsKept
        BY <1>6 DEF MonitorExpires, MonitorsKept, Registered, Pending, TypeInv, RedisTypeOK,
            Monitor, NoMonitor
    <2>2. ListsKept /\ RemindersKept
        BY <1>6, SameLists DEF MonitorExpires
    <2>3. OutcomesKept
        BY <1>6, SameOutcomes DEF MonitorExpires, NoFault, dbVars, historyVars
    <2>4. QED
        BY <2>1, <2>2, <2>3
<1>7. CASE LockExpires
    <2>1. MonitorsKept
        BY <1>7, SameMonitors DEF LockExpires, Registered, redisVars
    <2>2. ListsKept /\ RemindersKept
        BY <1>7, SameLists DEF LockExpires
    <2>3. OutcomesKept
        BY <1>7, SameOutcomes DEF LockExpires, NoFault, dbVars, historyVars
    <2>4. QED
        BY <2>1, <2>2, <2>3
<1>8. ASSUME NEW w \in Workers, AcquireScanLock(w) PROVE Special \/ Ordinary
    <2>1. MonitorsKept
        BY <1>8, SameMonitors DEF AcquireScanLock, Registered, redisVars
    <2>2. ListsKept /\ RemindersKept
        BY <1>8, GotoKeepsLists DEF AcquireScanLock, Goto, ScanPC, Reminding
    <2>3. OutcomesKept
        BY <1>8, SameOutcomes DEF AcquireScanLock, NoFault, dbVars, historyVars
    <2>4. QED
        BY <2>1, <2>2, <2>3
<1>9. ASSUME NEW w \in Workers, GetAllActiveMonitors(w) PROVE Special \/ Ordinary
    BY <1>9 DEF Special
<1>10. ASSUME NEW w \in Workers, NEW a \in Alerts, SkipMonitor(w, a)
      PROVE  Special \/ Ordinary
    <2>1. MonitorsKept
        BY <1>10, SameMonitors DEF SkipMonitor, Registered, redisVars
    <2>2. ListsKept /\ RemindersKept
        BY <1>10, FinishKeepsLists DEF SkipMonitor, InList, TypeInv, ScanInv, FocusOK, Busy, Reminding
    <2>3. OutcomesKept
        BY <1>10, SameOutcomes DEF SkipMonitor, NoFault, dbVars, historyVars
    <2>4. QED
        BY <2>1, <2>2, <2>3
<1>11. ASSUME NEW w \in Workers, NEW a \in Alerts, SendReminder(w, a)
      PROVE  Special \/ Ordinary
    BY <1>11 DEF Special
<1>12. ASSUME NEW w \in Workers, NEW a \in Alerts, SendReminderFails(w, a)
      PROVE  Special \/ Ordinary
    <2>1. MonitorsKept
        BY <1>12, SameMonitors DEF SendReminderFails, Registered, redisVars
    <2>2. ListsKept /\ RemindersKept
        BY <1>12, FinishKeepsLists DEF SendReminderFails, InList, TypeInv, ScanInv, FocusOK, Busy, Reminding
    <2>3. OutcomesKept
        BY <1>12, SameOutcomes DEF SendReminderFails, NoFault, dbVars, historyVars
    <2>4. QED
        BY <2>1, <2>2, <2>3
<1>13. ASSUME NEW w \in Workers, RecordReminder(w) PROVE Special \/ Ordinary
    BY <1>13 DEF Special
<1>14. ASSUME NEW w \in Workers, ReadForUpdate(w) PROVE Special \/ Ordinary
    <2>1. MonitorsKept
        BY <1>14, SameMonitors DEF ReadForUpdate, Registered, redisVars
    <2>2. pc[w] = "update" /\ cur[w] \in Alerts /\ UNCHANGED <<index, monitor>>
        BY <1>14 DEF ReadForUpdate, TypeInv, ScanInv, FocusOK, Busy, ScanPC, redisVars
    <2>3. ListsKept /\ RemindersKept
        <3>1. CASE monitor[cur[w]].stored
            BY <1>14, <2>2, <3>1, GotoKeepsLists
            DEF ReadForUpdate, Goto, ScanPC, Reminding, TypeInv, ScanInv, ScanTypeOK
        <3>2. CASE ~monitor[cur[w]].stored
            <4>1. PICK a \in Alerts : a = cur[w]
                BY <2>2
            <4>2. Finish(w, a) /\ ~monitor'[a].stored
                BY <1>14, <2>2, <3>2, <4>1 DEF ReadForUpdate
            <4>3. ~Pending(a)'
                BY <4>2 DEF Pending
            <4>4. QED
                BY <4>1, <4>2, <4>3, FinishKeepsLists
        <3>3. QED
            BY <3>1, <3>2
    <2>4. OutcomesKept
        BY <1>14, SameOutcomes DEF ReadForUpdate, NoFault, dbVars, historyVars
    <2>5. QED
        BY <2>1, <2>3, <2>4
<1>15. ASSUME NEW w \in Workers, WriteUpdate(w) PROVE Special \/ Ordinary
    BY <1>15 DEF Special
<1>16. ASSUME NEW w \in Workers, NEW a \in Alerts, ReadForStop(w, a)
      PROVE  Special \/ Ordinary
    <2>1. MonitorsKept
        BY <1>16, SameMonitors DEF ReadForStop, Registered, redisVars
    <2>2. pc[w] = "scan" /\ cur[w] = NoAlert /\ cur' = [cur EXCEPT ![w] = a] /\ seen' = seen
        BY <1>16 DEF ReadForStop, InList, TypeInv, ScanInv, FocusOK, Busy
    <2>3. \/ /\ pc' = [pc EXCEPT ![w] = "stop"] /\ monitor[a].stored
             /\ copy' = [copy EXCEPT ![w] = monitor[a]]
          \/ /\ pc' = [pc EXCEPT ![w] = "unindex"]
             /\ \A v \in Workers \ {w} : UNCHANGED copy[v]
        BY <1>16 DEF ReadForStop, Goto, TypeInv, ScanInv, ScanTypeOK
    <2>4. ListsKept
        BY <2>2, <2>3, ConstantsAssumption DEF ListsKept, TypeInv, ScanInv, ScanTypeOK,
            Reminding
    <2>5. RemindersKept
        BY <2>2, <2>3 DEF RemindersKept, TypeInv, ScanInv, ScanTypeOK, Reminding
    <2>6. OutcomesKept
        BY <1>16, SameOutcomes DEF ReadForStop, NoFault, dbVars, historyVars
    <2>7. QED
        BY <2>1, <2>4, <2>5, <2>6
<1>17. ASSUME NEW w \in Workers, WriteStopped(w) PROVE Special \/ Ordinary
    BY <1>17 DEF Special
<1>18. ASSUME NEW w \in Workers, RemoveFromIndex(w) PROVE Special \/ Ordinary
    <2>1. MonitorsKept
        BY <1>18 DEF RemoveFromIndex, MonitorsKept, Registered, Pending, TypeInv,
            RedisTypeOK, Monitor
    <2>2. ListsKept /\ RemindersKept
        BY <1>18, GotoKeepsLists DEF RemoveFromIndex, Goto, ScanPC, Reminding
    <2>3. OutcomesKept
        BY <1>18, SameOutcomes DEF RemoveFromIndex, NoFault, dbVars, historyVars
    <2>4. QED
        BY <2>1, <2>2, <2>3
<1>19. ASSUME NEW w \in Workers, DeleteAlertKey(w) PROVE Special \/ Ordinary
    <2>1. MonitorsKept
        BY <1>19, SameMonitors DEF DeleteAlertKey, Registered, redisVars
    <2>2. ListsKept /\ RemindersKept
        BY <1>19, GotoKeepsLists DEF DeleteAlertKey, Goto, ScanPC, Reminding
    <2>3. OutcomesKept
        BY <1>19, SameOutcomes DEF DeleteAlertKey, NoFault, dbVars, historyVars
    <2>4. QED
        BY <2>1, <2>2, <2>3
<1>20. ASSUME NEW w \in Workers, StopFails(w) PROVE Special \/ Ordinary
    <2>1. MonitorsKept
        BY <1>20, SameMonitors DEF StopFails, Registered, redisVars
    <2>2. ListsKept /\ RemindersKept
        BY <1>20, GotoKeepsLists DEF StopFails, Goto, ScanPC, Reminding
    <2>3. OutcomesKept
        BY <1>20, SameOutcomes DEF StopFails, NoFault, dbVars, historyVars
    <2>4. QED
        BY <2>1, <2>2, <2>3
<1>21. ASSUME NEW w \in Workers, FlagExhausted(w) PROVE Special \/ Ordinary
    BY <1>21 DEF Special
<1>22. ASSUME NEW w \in Workers, NotifySupport(w) PROVE Special \/ Ordinary
    <2>1. MonitorsKept
        BY <1>22, SameMonitors DEF NotifySupport, Registered, redisVars
    <2>2. cur[w] \in Alerts /\ pc[w] \notin Reminding
        BY <1>22 DEF NotifySupport, TypeInv, ScanInv, FocusOK, Busy, ScanPC, Reminding
    <2>3. ListsKept /\ RemindersKept
        BY <1>22, <2>2, FinishKeepsLists DEF NotifySupport
    <2>4. OutcomesKept
        BY <1>22, SameOutcomes DEF NotifySupport, NoFault, dbVars, historyVars
    <2>5. QED
        BY <2>1, <2>3, <2>4
<1>23. ASSUME NEW w \in Workers, MonitorAbandoned(w) PROVE Special \/ Ordinary
    <2>1. MonitorsKept
        BY <1>23, SameMonitors DEF MonitorAbandoned, Registered, redisVars
    <2>2. cur[w] \in Alerts /\ Uncounted' > Uncounted
        BY <1>23 DEF MonitorAbandoned, Fault, Uncounted, TypeInv, BoundsOK, ScanInv, ScanTypeOK,
            FocusOK, Busy
    <2>3. ListsKept /\ RemindersKept
        BY <1>23, <2>2, FinishKeepsLists DEF MonitorAbandoned
    <2>4. OutcomesKept
        BY <1>23, SameOutcomes DEF MonitorAbandoned, NoFault, dbVars, historyVars
    <2>5. QED
        BY <2>1, <2>3, <2>4
<1>24. ASSUME NEW w \in Workers, ReleaseScanLock(w) PROVE Special \/ Ordinary
    <2>1. MonitorsKept
        BY <1>24, SameMonitors DEF ReleaseScanLock, Registered, redisVars
    <2>2. ListsKept /\ RemindersKept
        BY <1>24, GotoKeepsLists DEF ReleaseScanLock, Goto, ScanPC, Reminding
    <2>3. OutcomesKept
        BY <1>24, SameOutcomes DEF ReleaseScanLock, NoFault, dbVars, historyVars
    <2>4. QED
        BY <2>1, <2>2, <2>3
<1>25. ASSUME NEW w \in Workers, CrashScan(w) PROVE Special \/ Ordinary
    <2>1. MonitorsKept
        BY <1>25, SameMonitors DEF CrashScan, Registered, redisVars
    <2>2. Uncounted' > Uncounted
        BY <1>25 DEF CrashScan, Crash, Uncounted, TypeInv, BoundsOK
    <2>3. ListsKept
        BY <1>25, ConstantsAssumption DEF CrashScan, Goto, ListsKept, TypeInv, ScanInv,
            ScanTypeOK, ScanPC, Reminding, NoMonitor
    <2>4. OutcomesKept
        BY <1>25, SameOutcomes DEF CrashScan, NoFault, dbVars, historyVars
    <2>5. QED
        BY <2>1, <2>2, <2>3, <2>4 DEF RemindersKept
<1>26. ASSUME NEW r \in Replies, NEW a \in Alerts, ReplyArrives(r, a)
      PROVE  Special \/ Ordinary
    <2>1. MonitorsKept
        BY <1>26, SameMonitors DEF ReplyArrives, Registered, redisVars
    <2>2. ListsKept /\ RemindersKept
        BY <1>26, SameLists DEF ReplyArrives
    <2>3. OutcomesKept
        BY <1>26, SameOutcomes DEF ReplyArrives, NoFault, dbVars, historyVars
    <2>4. QED
        BY <2>1, <2>2, <2>3
<1>27. ASSUME NEW r \in Replies, StoreReply(r) PROVE Special \/ Ordinary
    <2>1. MonitorsKept
        BY <1>27, SameMonitors DEF StoreReply, Registered, redisVars
    <2>2. ListsKept /\ RemindersKept
        BY <1>27, SameLists DEF StoreReply
    <2>3. OutcomesKept
        BY <1>27, SameOutcomes DEF StoreReply, NoFault, dbVars, historyVars
    <2>4. QED
        BY <2>1, <2>2, <2>3
<1>28. ASSUME NEW r \in Replies, ReadForMark(r) PROVE Special \/ Ordinary
    <2>1. MonitorsKept
        BY <1>28, SameMonitors DEF ReadForMark, Registered, redisVars
    <2>2. ListsKept /\ RemindersKept
        BY <1>28, SameLists DEF ReadForMark
    <2>3. OutcomesKept
        BY <1>28, SameOutcomes DEF ReadForMark, NoFault, dbVars, historyVars
    <2>4. QED
        BY <2>1, <2>2, <2>3
<1>29. ASSUME NEW r \in Replies, ReadForMarkFails(r) PROVE Special \/ Ordinary
    <2>1. MonitorsKept
        BY <1>29, SameMonitors DEF ReadForMarkFails, Registered, redisVars
    <2>2. ListsKept /\ RemindersKept
        BY <1>29, SameLists DEF ReadForMarkFails
    <2>3. OutcomesKept
        BY <1>29, SameOutcomes DEF ReadForMarkFails, NoFault, dbVars, historyVars
    <2>4. QED
        BY <2>1, <2>2, <2>3
<1>30. ASSUME NEW r \in Replies, MarkResponseReceived(r) PROVE Special \/ Ordinary
    <2>1. MonitorsKept
        BY <1>30 DEF MarkResponseReceived, MonitorsKept, Registered, Pending, TypeInv,
            RedisTypeOK, Monitor
    <2>2. ListsKept /\ RemindersKept
        BY <1>30, SameLists DEF MarkResponseReceived
    <2>3. OutcomesKept
        BY <1>30, SameOutcomes DEF MarkResponseReceived, NoFault, dbVars, historyVars
    <2>4. QED
        BY <2>1, <2>2, <2>3
<1>31. ASSUME NEW r \in Replies, MarkFails(r) PROVE Special \/ Ordinary
    <2>1. MonitorsKept
        BY <1>31, SameMonitors DEF MarkFails, Registered, redisVars
    <2>2. ListsKept /\ RemindersKept
        BY <1>31, SameLists DEF MarkFails
    <2>3. OutcomesKept
        BY <1>31, SameOutcomes DEF MarkFails, NoFault, dbVars, historyVars
    <2>4. QED
        BY <2>1, <2>2, <2>3
<1>32. ASSUME NEW r \in Replies, MarkRemindersResponded(r) PROVE Special \/ Ordinary
    <2>1. MonitorsKept
        BY <1>32, SameMonitors DEF MarkRemindersResponded, Registered, redisVars
    <2>2. ListsKept /\ RemindersKept
        BY <1>32, SameLists DEF MarkRemindersResponded
    <2>3. OutcomesKept
        BY <1>32, SameOutcomes DEF MarkRemindersResponded, NoFault, dbVars, historyVars
    <2>4. QED
        BY <2>1, <2>2, <2>3
<1>33. ASSUME NEW r \in Replies, CrashReply(r) PROVE Special \/ Ordinary
    <2>1. MonitorsKept
        BY <1>33, SameMonitors DEF CrashReply, Registered, redisVars
    <2>2. ListsKept /\ RemindersKept
        BY <1>33, SameLists DEF CrashReply
    <2>3. OutcomesKept
        BY <1>33, SameOutcomes DEF CrashReply, NoFault, dbVars, historyVars
    <2>4. QED
        BY <2>1, <2>2, <2>3
<1>34. CASE UNCHANGED vars
    <2>1. MonitorsKept
        BY <1>34, SameMonitors DEF vars, redisVars, Registered
    <2>2. ListsKept /\ RemindersKept
        BY <1>34, SameLists DEF vars
    <2>3. OutcomesKept
        BY <1>34, SameOutcomes DEF vars, NoFault, dbVars, historyVars
    <2>4. QED
        BY <2>1, <2>2, <2>3
<1>35. QED
    BY <1>1, <1>2, <1>3, <1>4, <1>5, <1>6, <1>7, <1>8, <1>9, <1>10, <1>11, <1>12,
        <1>13, <1>14, <1>15, <1>16, <1>17, <1>18, <1>19, <1>20, <1>21, <1>22,
        <1>23, <1>24, <1>25, <1>26, <1>27, <1>28, <1>29, <1>30, <1>31, <1>32,
        <1>33, <1>34
    DEF Next, EscalationStep, ScanStep, ProcessMonitor, ReplyStep

(***************************************************************************)
(* The list of a scan is current.                                          *)
(***************************************************************************)

\* What a list says of a monitor, and what Redis or a copy says of it.
Matches(entry, state) == entry.count = state.count /\ (entry.due => state.due)

\* Every entry, also the one being processed, and the copy that
\* stop_monitoring is about to write back.
ListInv ==
    LockOutlivesScan =>
        /\ \A w \in Workers, a \in index :
               seen[w][a].stored /\ monitor[a].stored => Matches(seen[w][a], monitor[a])
        /\ \A w \in Workers, a \in index :
               pc[w] = "stop" /\ cur[w] = a => Matches(seen[w][a], copy[w])

\* There is no list yet.
LEMMA ListInit == Init => ListInv
BY DEF Init, ListInv

\* Writing a copy back: the lists of the other workers are empty.
LEMMA WriteStoppedKeepsList ==
    ASSUME BaseInv, ListInv, LockOutlivesScan, NEW w \in Workers, WriteStopped(w)
    PROVE  ListInv'
<1>1. PICK a \in Alerts : a = cur[w]
    BY DEF WriteStopped, BaseInv, TypeInv, ScanInv, FocusOK, Busy, ScanPC
<1>2. pc[w] = "stop" /\ pc' = [pc EXCEPT ![w] = "unindex"] /\ UNCHANGED <<index, seen, cur, copy>>
    BY DEF WriteStopped, Goto
<1>3. monitor' = [monitor EXCEPT ![a] = [copy[w] EXCEPT !.active = FALSE]]
    BY <1>1 DEF WriteStopped
<1>4. \A v \in Workers \ {w} : pc[v] = "idle" /\ \A b \in Alerts : ~seen[v][b].stored
    BY <1>2, OneScan DEF Scanning
<1>5. a \in index => Matches(seen[w][a], monitor'[a])
    BY <1>1, <1>2, <1>3
    DEF ListInv, Matches, BaseInv, TypeInv, ScanInv, ScanTypeOK, RedisTypeOK, Monitor
<1>6. \A b \in Alerts \ {a} : monitor'[b] = monitor[b]
    BY <1>3 DEF BaseInv, TypeInv, RedisTypeOK
<1>7. \A v \in Workers : pc'[v] # "stop"
    BY <1>2, <1>4 DEF BaseInv, TypeInv, ScanInv, ScanTypeOK
<1>8. QED
    BY <1>2, <1>4, <1>5, <1>6, <1>7 DEF ListInv, BaseInv, TypeInv, RedisTypeOK

\* Counting a reminder: its entry leaves the list in the same step.
LEMMA WriteUpdateKeepsList ==
    ASSUME BaseInv, ListInv, LockOutlivesScan, NEW w \in Workers, WriteUpdate(w)
    PROVE  ListInv'
<1>1. PICK a \in Alerts : a = cur[w]
    BY DEF WriteUpdate, SaveUpdate, BaseInv, TypeInv, ScanInv, FocusOK, Busy, ScanPC
<1>2. pc[w] = "write" /\ index' = index /\ Finish(w, a)
    BY <1>1 DEF WriteUpdate, SaveUpdate
<1>3. \A b \in Alerts \ {a} : monitor'[b] = monitor[b]
    BY <1>1 DEF WriteUpdate, SaveUpdate, BaseInv, TypeInv, RedisTypeOK
<1>4. \A v \in Workers \ {w} : pc[v] = "idle" /\ \A b \in Alerts : ~seen[v][b].stored
    BY <1>2, OneScan DEF Scanning
<1>5. \A v \in Workers : pc'[v] # "stop"
    BY <1>2, <1>4 DEF Finish, BaseInv, TypeInv, ScanInv, ScanTypeOK
<1>6. \A v \in Workers, b \in Alerts :
          seen'[v][b].stored => v = w /\ b # a /\ seen'[v][b] = seen[v][b]
    BY <1>2, <1>4 DEF Finish, BaseInv, TypeInv, ScanInv, ScanTypeOK, NoMonitor
<1>7. QED
    BY <1>2, <1>3, <1>5, <1>6 DEF ListInv, BaseInv, TypeInv, RedisTypeOK

\* Every step keeps ListInv: only the scan itself writes counters, and only of
\* the entry it has finished with.
LEMMA ListNext ==
    BaseInv /\ BaseInv' /\ ListInv /\ [Next]_vars => ListInv'
<1> SUFFICES ASSUME BaseInv, BaseInv', ListInv, [Next]_vars, LockOutlivesScan PROVE ListInv'
    BY DEF ListInv
<1> USE DEF BaseInv
<1>1. ASSUME NEW a \in Alerts, RegisterMonitor(a) PROVE ListInv'
    <2>1. \A w \in Workers : ~seen[w][a].stored /\ (pc[w] = "stop" => cur[w] # a)
        BY <1>1 DEF RegisterMonitor, RegisteredInv, Registered, Busy, ScanPC
    <2>2. \A b \in Alerts \ {a} : monitor'[b] = monitor[b]
        BY <1>1 DEF RegisterMonitor, TypeInv, RedisTypeOK
    <2>3. index' \subseteq index \cup {a} /\ UNCHANGED <<pc, seen, cur, copy>>
        BY <1>1 DEF RegisterMonitor, scanVars
    <2>4. QED
        BY <2>1, <2>2, <2>3 DEF ListInv, TypeInv, RedisTypeOK
<1>2. ASSUME NEW w \in Workers, GetAllActiveMonitors(w) PROVE ListInv'
    <2>1. index' \subseteq index /\ UNCHANGED <<monitor, cur, copy>>
        BY <1>2 DEF GetAllActiveMonitors
    <2>2. \A v \in Workers : pc'[v] = "stop" => pc[v] = "stop" /\ v # w
        BY <1>2 DEF GetAllActiveMonitors, TypeInv, ScanInv, ScanTypeOK
    <2>3. \A v \in Workers \ {w} : seen'[v] = seen[v]
        BY <1>2 DEF GetAllActiveMonitors, TypeInv, ScanInv, ScanTypeOK
    <2>4. \A a \in Alerts : seen'[w][a].stored => seen'[w][a] \in {monitor[a], seen[w][a]}
        BY <1>2 DEF GetAllActiveMonitors, TypeInv, ScanInv, ScanTypeOK, NoMonitor
    <2>5. QED
        BY <2>1, <2>2, <2>3, <2>4 DEF ListInv, Matches, TypeInv, RedisTypeOK
<1>3. ASSUME NEW w \in Workers, RecordReminder(w) PROVE ListInv'
    BY <1>3 DEF RecordReminder, Goto, ListInv, TypeInv, ScanInv, ScanTypeOK, redisVars
<1>4. ASSUME NEW w \in Workers, WriteUpdate(w) PROVE ListInv'
    BY <1>4, WriteUpdateKeepsList
<1>5. ASSUME NEW w \in Workers, WriteStopped(w) PROVE ListInv'
    BY <1>5, WriteStoppedKeepsList
<1>6. ASSUME NEW w \in Workers, FlagExhausted(w) PROVE ListInv'
    BY <1>6 DEF FlagExhausted, Goto, ListInv, TypeInv, ScanInv, ScanTypeOK, redisVars
<1>7. ASSUME NEW w \in Workers, NEW a \in Alerts, SendReminder(w, a) PROVE ListInv'
    BY <1>7 DEF SendReminder, MailReminder, Goto, ListInv, TypeInv, ScanInv, ScanTypeOK,
        redisVars
<1>8. CASE Ordinary
    <2>1. ASSUME NEW w \in Workers, NEW a \in index', seen'[w][a].stored, monitor'[a].stored
          PROVE  Matches(seen'[w][a], monitor'[a])
        BY <1>8, <2>1 DEF Ordinary, MonitorsKept, ListsKept, ListInv, Matches, TypeInv,
            RedisTypeOK
    <2>2. ASSUME NEW w \in Workers, NEW a \in index', pc'[w] = "stop", cur'[w] = a
          PROVE  Matches(seen'[w][a], copy'[w])
        <3>1. a \in index /\ seen'[w] = seen[w]
            BY <1>8, <2>2 DEF Ordinary, MonitorsKept, ListsKept
        <3>2. seen[w][a].stored
            BY <2>2, <3>1 DEF EntryInv, Busy, ScanPC
        <3>3. QED
            BY <1>8, <2>2, <3>1, <3>2 DEF Ordinary, ListsKept, ListInv, Matches
    <2>3. QED
        BY <2>1, <2>2 DEF ListInv
<1>9. QED
    BY <1>1, <1>2, <1>3, <1>4, <1>5, <1>6, <1>7, <1>8, StepKinds DEF Special

\* ListInv holds for good.
LEMMA ListHolds == Spec => []ListInv
BY BaseHolds, ListInit, ListNext, PTL DEF Spec

\* A scan decides on current data: what its list says of a monitor that is
\* still indexed and stored is what Redis says, however long ago it was read.
THEOREM ListsAreCurrent == Spec => []ListIsCurrent
<1>1. BaseInv /\ ListInv => ListIsCurrent
    BY DEF BaseInv, TypeInv, RedisTypeOK, ListInv, Matches, ListIsCurrent
<1>2. QED
    BY BaseHolds, ListHolds, <1>1, PTL

(***************************************************************************)
(* Exhausted alerts.                                                       *)
(***************************************************************************)

\* Whoever still sees an alert flagged as exhausted sees that no reminder
\* is left, in Redis as in a list.
ExhaustedInv ==
    LockOutlivesScan =>
        \A a \in Alerts : status[a] = "exhausted" =>
            /\ a \in Registered
            /\ a \in index /\ Pending(a) => monitor[a].count >= MaxReminders
            /\ \A w \in Workers : seen[w][a].stored => seen[w][a].count >= MaxReminders

\* No alert is flagged yet.
LEMMA ExhaustedInit == Init => ExhaustedInv
BY DEF Init, ExhaustedInv

\* A step of the scan after which the same is visible.
LEMMA SameKeepsExhausted ==
    ASSUME ExhaustedInv, UNCHANGED <<index, monitor, seen, escalation>>,
           \A a \in Alerts : status'[a] = "exhausted" => status[a] = "exhausted"
    PROVE  ExhaustedInv'
BY DEF ExhaustedInv, Registered, Pending

\* Every step keeps ExhaustedInv.
LEMMA ExhaustedNext ==
    BaseInv /\ ListInv /\ ExhaustedInv /\ [Next]_vars => ExhaustedInv'
<1> SUFFICES ASSUME BaseInv, ListInv, ExhaustedInv, [Next]_vars, LockOutlivesScan
             PROVE  ExhaustedInv'
    BY DEF ExhaustedInv
<1> USE DEF BaseInv
<1>1. ASSUME NEW a \in Alerts, RegisterMonitor(a) PROVE ExhaustedInv'
    <2>1. a \notin Registered /\ Registered \subseteq Registered'
        BY <1>1 DEF RegisterMonitor, Registered, TypeInv, TaskInv, TaskTypeOK
    <2>2. \A b \in Alerts \ {a} : monitor'[b] = monitor[b]
        BY <1>1 DEF RegisterMonitor, TypeInv, RedisTypeOK
    <2>3. index' \subseteq index \cup {a} /\ UNCHANGED <<status, seen>>
        BY <1>1 DEF RegisterMonitor, scanVars, dbVars
    <2>4. QED
        BY <2>1, <2>2, <2>3 DEF ExhaustedInv, Pending
<1>2. ASSUME NEW w \in Workers, GetAllActiveMonitors(w) PROVE ExhaustedInv'
    <2>1. index' \subseteq index /\ UNCHANGED <<monitor, status, escalation>>
        BY <1>2 DEF GetAllActiveMonitors, dbVars
    <2>2. \A v \in Workers, a \in Alerts :
              seen'[v][a].stored => \/ seen'[v][a] = seen[v][a]
                                    \/ seen'[v][a] = monitor[a] /\ a \in index /\ Pending(a)
        BY <1>2 DEF GetAllActiveMonitors, TypeInv, ScanInv, ScanTypeOK, NoMonitor
    <2>3. QED
        BY <2>1, <2>2 DEF ExhaustedInv, Registered, Pending
<1>3. ASSUME NEW w \in Workers, RecordReminder(w) PROVE ExhaustedInv'
    BY <1>3, SameKeepsExhausted DEF RecordReminder, redisVars, dbVars, TypeInv, DbTypeOK
<1>4. ASSUME NEW w \in Workers, WriteUpdate(w) PROVE ExhaustedInv'
    <2>1. PICK a \in Alerts : a = cur[w]
        BY <1>4 DEF WriteUpdate, SaveUpdate, TypeInv, ScanInv, FocusOK, Busy, ScanPC
    <2>2. seen[w][a].stored /\ seen[w][a].count < MaxReminders
        BY <1>4, <2>1 DEF WriteUpdate, SaveUpdate, EntryInv, TypeInv, ScanInv, FocusOK, Busy,
            ScanPC
    <2>3. status[a] # "exhausted"
        BY <2>2, ConstantsAssumption DEF ExhaustedInv, TypeInv, ScanInv, ScanTypeOK, Monitor
    <2>4. \A b \in Alerts \ {a} : monitor'[b] = monitor[b]
        BY <1>4, <2>1 DEF WriteUpdate, SaveUpdate, TypeInv, RedisTypeOK
    <2>5. \A v \in Workers, b \in Alerts : seen'[v][b].stored => seen'[v][b] = seen[v][b]
        BY <1>4, <2>1 DEF WriteUpdate, SaveUpdate, Finish, TypeInv, ScanInv, ScanTypeOK, NoMonitor
    <2>6. UNCHANGED <<index, status, escalation>>
        BY <1>4 DEF WriteUpdate, SaveUpdate, dbVars
    <2>7. QED
        BY <2>3, <2>4, <2>5, <2>6 DEF ExhaustedInv, Registered, Pending
<1>5. ASSUME NEW w \in Workers, WriteStopped(w) PROVE ExhaustedInv'
    <2>1. PICK a \in Alerts : a = cur[w]
        BY <1>5 DEF WriteStopped, TypeInv, ScanInv, FocusOK, Busy, ScanPC
    <2>2. ~monitor'[a].active
        BY <1>5, <2>1 DEF WriteStopped, TypeInv, RedisTypeOK, ScanInv, ScanTypeOK, Monitor
    <2>3. \A b \in Alerts \ {a} : monitor'[b] = monitor[b]
        BY <1>5, <2>1 DEF WriteStopped, TypeInv, RedisTypeOK
    <2>4. UNCHANGED <<index, status, escalation, seen>>
        BY <1>5 DEF WriteStopped, dbVars
    <2>5. QED
        BY <2>2, <2>3, <2>4 DEF ExhaustedInv, Registered, Pending
<1>6. ASSUME NEW w \in Workers, FlagExhausted(w) PROVE ExhaustedInv'
    <2>1. PICK a \in Alerts : a = cur[w]
        BY <1>6 DEF FlagExhausted, TypeInv, ScanInv, FocusOK, Busy, ScanPC
    <2>2. /\ a \in Registered
          /\ seen[w][a].stored
          /\ seen[w][a].count >= MaxReminders
        BY <1>6, <2>1 DEF FlagExhausted, RegisteredInv, EntryInv, Busy, ScanPC, Stopping
    <2>3. \A v \in Workers \ {w}, b \in Alerts : ~seen[v][b].stored
        BY <1>6, OneScan DEF FlagExhausted, Scanning
    <2>4. a \in index /\ Pending(a) => monitor[a].count >= MaxReminders
        BY <2>2 DEF ListInv, Matches, Pending
    <2>5. UNCHANGED <<index, monitor, seen, escalation>>
        BY <1>6 DEF FlagExhausted, redisVars
    <2>6. \A b \in Alerts \ {a} : status'[b] = status[b]
        BY <1>6, <2>1 DEF FlagExhausted, TypeInv, DbTypeOK
    <2>7. QED
        BY <2>2, <2>3, <2>4, <2>5, <2>6 DEF ExhaustedInv, Registered, Pending
<1>7. ASSUME NEW w \in Workers, NEW a \in Alerts, SendReminder(w, a) PROVE ExhaustedInv'
    BY <1>7, SameKeepsExhausted DEF SendReminder, MailReminder, redisVars, dbVars
<1>8. CASE Ordinary
    <2>1. index' \subseteq index /\ Registered \subseteq Registered'
        BY <1>8 DEF Ordinary, MonitorsKept
    <2>2. \A a \in index' : Pending(a)' => Pending(a) /\ monitor'[a].count = monitor[a].count
        BY <1>8 DEF Ordinary, MonitorsKept, Pending
    <2>3. \A w \in Workers, a \in Alerts : seen'[w][a].stored => seen'[w][a] = seen[w][a]
        BY <1>8 DEF Ordinary, ListsKept
    <2>4. \A a \in Alerts : status'[a] = "exhausted" => status[a] = "exhausted"
        BY <1>8 DEF Ordinary, OutcomesKept
    <2>5. QED
        BY <2>1, <2>2, <2>3, <2>4 DEF ExhaustedInv
<1>9. QED
    BY <1>1, <1>2, <1>3, <1>4, <1>5, <1>6, <1>7, <1>8, StepKinds DEF Special

\* ExhaustedInv holds for good.
LEMMA ExhaustedHolds == Spec => []ExhaustedInv
BY BaseHolds, ListHolds, ExhaustedInit, ExhaustedNext, PTL DEF Spec

\* No step reminds about an exhausted alert: the worker that could has an
\* entry with a reminder left, and an exhausted alert leaves none to anybody.
LEMMA ExhaustedStays ==
    BaseInv /\ ExhaustedInv /\ [Next]_vars =>
        (LockOutlivesScan =>
            \A a \in Alerts : status[a] = "exhausted" => status'[a] # "reminded")
<1> SUFFICES ASSUME BaseInv, ExhaustedInv, [Next]_vars, LockOutlivesScan,
                    NEW a \in Alerts, status[a] = "exhausted"
             PROVE  status'[a] # "reminded"
    OBVIOUS
<1> USE DEF BaseInv
<1>1. ASSUME NEW b \in Alerts, RegisterMonitor(b) PROVE status' = status
    BY <1>1 DEF RegisterMonitor, dbVars
<1>2. ASSUME NEW w \in Workers, \/ GetAllActiveMonitors(w) \/ WriteUpdate(w)
                                \/ WriteStopped(w)
      PROVE  status' = status
    BY <1>2 DEF GetAllActiveMonitors, WriteUpdate, SaveUpdate, WriteStopped, dbVars
<1>3. ASSUME NEW w \in Workers, NEW b \in Alerts, SendReminder(w, b) PROVE status' = status
    BY <1>3 DEF SendReminder, MailReminder, dbVars
<1>4. ASSUME NEW w \in Workers, FlagExhausted(w) PROVE status'[a] # "reminded"
    BY <1>4 DEF FlagExhausted, TypeInv, DbTypeOK
<1>5. ASSUME NEW w \in Workers, RecordReminder(w) PROVE status'[a] # "reminded"
    <2>1. cur[w] \in Alerts /\ seen[w][cur[w]].stored /\ seen[w][cur[w]].count < MaxReminders
        BY <1>5 DEF RecordReminder, EntryInv, TypeInv, ScanInv, FocusOK, Busy, ScanPC
    <2>2. cur[w] # a
        BY <2>1, ConstantsAssumption DEF ExhaustedInv, TypeInv, ScanInv, ScanTypeOK, Monitor
    <2>3. QED
        BY <1>5, <2>2 DEF RecordReminder, TypeInv, DbTypeOK, dbVars
<1>6. CASE Ordinary
    BY <1>6 DEF Ordinary, OutcomesKept
<1>7. QED
    BY <1>1, <1>2, <1>3, <1>4, <1>5, <1>6, StepKinds DEF Special

\* Once "Max Reminders Reached" is recorded for an alert, no scan records a
\* "Reminder #n" over it.
THEOREM ExhaustedForGood == Spec => ExhaustedIsFinal
<1>1. BaseInv /\ ExhaustedInv /\ [Next]_vars =>
          [LockOutlivesScan =>
              \A a \in Alerts : status[a] = "exhausted" => status'[a] # "reminded"]_vars
    BY ExhaustedStays
<1>2. QED
    BY BaseHolds, ExhaustedHolds, <1>1, PTL DEF Spec, ExhaustedIsFinal


(***************************************************************************)
(* The number of reminders.                                                *)
(***************************************************************************)

\* A worker has sent the next reminder of a monitor and not yet counted it.
Underway(a) == \E w \in Workers : cur[w] = a /\ pc[w] \in Reminding

\* Redis counts every reminder but the one under way and those an error or a
\* crash kept from being counted, and so does a list.
BoundInv ==
    LockOutlivesScan =>
        \A a \in Alerts :
            /\ total[a] <= MaxReminders + Uncounted
            /\ a \notin Registered => total[a] = 0
            /\ a \in index /\ Pending(a) /\ ~Underway(a) =>
                   total[a] <= monitor[a].count + Uncounted
            /\ \A w \in Workers :
                /\ seen[w][a].stored /\ cur[w] # a => total[a] <= seen[w][a].count + Uncounted
                /\ cur[w] = a /\ pc[w] \in Reminding =>
                       total[a] <= seen[w][a].count + 1 + Uncounted

\* No reminder has been sent.
LEMMA BoundInit == Init => BoundInv
<1> SUFFICES ASSUME Init PROVE BoundInv
    OBVIOUS
<1>1. Uncounted = 0 /\ index = {} /\ \A a \in Alerts : total[a] = 0
    BY DEF Init, Uncounted
<1>2. \A w \in Workers : pc[w] \notin Reminding /\ \A a \in Alerts : ~seen[w][a].stored
    BY DEF Init, Reminding, NoMonitor
<1>3. MaxReminders \in Nat
    BY ConstantsAssumption
<1>4. 0 <= MaxReminders + Uncounted
    BY <1>1, <1>3
<1>5. QED
    BY <1>1, <1>2, <1>4 DEF BoundInv

\* A worker at its list is not reminding, and neither is any other.
LEMMA NoneUnderway ==
    ASSUME BaseInv, LockOutlivesScan, NEW w \in Workers, Scanning(w), NEW a \in Alerts,
           cur[w] # a \/ pc[w] \notin Reminding
    PROVE  ~Underway(a)
BY OneScan DEF Underway, Reminding

\* The worker that reminds is the only one, at an entry with a number left.
LEMMA ReminderFocus ==
    ASSUME BaseInv, LockOutlivesScan, NEW w \in Workers, pc[w] \in Reminding
    PROVE  /\ cur[w] \in Registered /\ cur[w] \in Alerts
           /\ seen[w][cur[w]].stored /\ seen[w][cur[w]].count \in Nat
           /\ seen[w][cur[w]].count < MaxReminders
           /\ \A b \in Alerts \ {cur[w]} : ~Underway(b)
<1>1. pc[w] \in Busy /\ Scanning(w) /\ pc[w] \in {"record", "update", "write"}
    BY DEF Reminding, Busy, ScanPC, Scanning
<1>2. cur[w] \in Alerts /\ seen[w][cur[w]].count < MaxReminders
    BY <1>1 DEF BaseInv, TypeInv, ScanInv, FocusOK
<1>3. cur[w] \in Registered /\ seen[w][cur[w]].stored
    BY <1>1 DEF BaseInv, RegisteredInv, EntryInv
<1>4. seen[w][cur[w]].count \in Nat
    BY <1>2 DEF BaseInv, TypeInv, ScanInv, ScanTypeOK, Monitor
<1>5. \A b \in Alerts \ {cur[w]} : ~Underway(b)
    BY <1>1, NoneUnderway
<1>6. QED
    BY <1>2, <1>3, <1>4, <1>5

\* Sums of naturals grow with their terms.
LEMMA SumGrows ==
    ASSUME NEW i \in Nat, NEW j \in Nat, NEW m \in Nat, NEW n \in Nat, m >= i, n >= j
    PROVE  m + n \in Nat /\ m + n >= i + j
OBVIOUS

\* Errors and crashes are never taken back.
LEMMA UncountedGrows ==
    ASSUME BoundsOK, OutcomesKept
    PROVE  Uncounted' \in Nat /\ Uncounted' >= Uncounted
<1>1. faults \in Nat /\ crashes \in Nat
    BY ConstantsAssumption DEF BoundsOK
<1>2. faults' \in Nat /\ crashes' \in Nat /\ faults' >= faults /\ crashes' >= crashes
    BY DEF OutcomesKept
<1>3. faults' + crashes' \in Nat /\ faults' + crashes' >= faults + crashes
    BY <1>1, <1>2, SumGrows
<1>4. QED
    BY <1>3 DEF Uncounted

\* Sending: the count in the list has a number left, and is not behind.
LEMMA SendReminderKeepsBound ==
    ASSUME BaseInv, BoundInv, LockOutlivesScan,
           NEW w \in Workers, NEW a \in Alerts, SendReminder(w, a)
    PROVE  BoundInv'
<1>1. /\ pc[w] = "scan" /\ cur[w] = NoAlert /\ Scanning(w)
      /\ seen[w][a].stored /\ seen[w][a].count < MaxReminders
    BY DEF SendReminder, InList, BaseInv, TypeInv, ScanInv, FocusOK, Busy, Scanning
<1>2. a \in Registered
    BY <1>1 DEF BaseInv, RegisteredInv
<1>3. /\ pc' = [pc EXCEPT ![w] = "record"] /\ cur' = [cur EXCEPT ![w] = a]
      /\ total' = [total EXCEPT ![a] = @ + 1]
      /\ UNCHANGED <<index, monitor, escalation, seen, faults, crashes>>
    BY DEF SendReminder, MailReminder, Goto, redisVars, boundVars
<1>4. \A v \in Workers \ {w} : pc[v] = "idle" /\ \A b \in Alerts : ~seen[v][b].stored
    BY <1>1, OneScan
<1>5. cur'[w] = a /\ pc'[w] \in Reminding /\ \A v \in Workers \ {w} : UNCHANGED <<cur[v], pc[v]>>
    BY <1>3 DEF BaseInv, TypeInv, ScanInv, ScanTypeOK, Reminding
<1>6. /\ total[a] \in Nat /\ seen[w][a].count \in Nat /\ MaxReminders \in Nat
      /\ Uncounted \in Nat /\ Uncounted' = Uncounted
    BY <1>3, ConstantsAssumption
    DEF BaseInv, TypeInv, HistoryTypeOK, ScanInv, ScanTypeOK, Monitor, BoundsOK, Uncounted
<1>7. total'[a] = total[a] + 1 /\ total[a] <= seen[w][a].count + Uncounted
    BY <1>1, <1>3, ConstantsAssumption DEF BoundInv, BaseInv, TypeInv, HistoryTypeOK
<1>8. total'[a] <= seen[w][a].count + 1 + Uncounted /\ total'[a] <= MaxReminders + Uncounted
    BY <1>1, <1>6, <1>7
<1>9. Underway(a)'
    BY <1>5 DEF Underway
<1>10. ASSUME NEW b \in Alerts, b # a
       PROVE  /\ total'[b] = total[b]
              /\ ~Underway(b)' => ~Underway(b)
    <2>1. total'[b] = total[b]
        BY <1>3, <1>10 DEF BaseInv, TypeInv, HistoryTypeOK
    <2>2. ~Underway(b)
        BY <1>1, NoneUnderway DEF Reminding
    <2>3. QED
        BY <2>1, <2>2
<1>11. \A v \in Workers, b \in Alerts :
           /\ seen'[v][b].stored /\ cur'[v] # b => v = w /\ b # a
           /\ cur'[v] = b /\ pc'[v] \in Reminding => v = w /\ b = a
    BY <1>3, <1>4, <1>5 DEF Reminding
<1>12. \A b \in Alerts \ {a} : cur[w] # b
    BY <1>1, ConstantsAssumption
<1>13. QED
    BY <1>2, <1>3, <1>6, <1>8, <1>9, <1>10, <1>11, <1>12 DEF BoundInv, Registered, Pending

\* Counting: Redis catches up with the reminder under way.
LEMMA WriteUpdateKeepsBound ==
    ASSUME BaseInv, BoundInv, LockOutlivesScan, NEW w \in Workers, WriteUpdate(w)
    PROVE  BoundInv'
<1>1. pc[w] = "write" /\ pc[w] \in Reminding /\ Scanning(w)
    BY DEF WriteUpdate, SaveUpdate, Reminding, Scanning
<1>2. PICK a \in Alerts : a = cur[w]
    BY <1>1, ReminderFocus
<1>3. /\ a \in Registered /\ seen[w][a].count \in Nat
      /\ \A b \in Alerts \ {a} : ~Underway(b)
    BY <1>1, <1>2, ReminderFocus
<1>4. /\ Finish(w, a)
      /\ UNCHANGED <<index, escalation, total, faults, crashes>>
    BY <1>2 DEF WriteUpdate, SaveUpdate, historyVars, boundVars
<1>5. monitor'[a].count = seen[w][a].count + 1 /\ \A b \in Alerts \ {a} : monitor'[b] = monitor[b]
    BY <1>2 DEF WriteUpdate, SaveUpdate, ReminderNumber, BaseInv, TypeInv, RedisTypeOK,
        ScanInv, ScanTypeOK, Monitor
<1>6. total[a] <= seen[w][a].count + 1 + Uncounted
    BY <1>1, <1>2 DEF BoundInv
<1>7. \A v \in Workers \ {w} : pc[v] = "idle" /\ \A b \in Alerts : ~seen[v][b].stored
    BY <1>1, OneScan
<1>8. \A v \in Workers : pc'[v] \notin Reminding
    BY <1>4, <1>7 DEF Finish, BaseInv, TypeInv, ScanInv, ScanTypeOK, Reminding
<1>9. \A v \in Workers, b \in Alerts :
          seen'[v][b].stored => v = w /\ b # a /\ seen'[v][b] = seen[v][b]
    BY <1>4, <1>7 DEF Finish, BaseInv, TypeInv, ScanInv, ScanTypeOK, NoMonitor
<1>10. QED
    BY <1>2, <1>3, <1>4, <1>5, <1>6, <1>8, <1>9 DEF BoundInv, Registered, Pending, Uncounted

\* Every step keeps BoundInv.
LEMMA BoundNext ==
    BaseInv /\ BaseInv' /\ ListInv /\ BoundInv /\ [Next]_vars => BoundInv'
<1> SUFFICES ASSUME BaseInv, BaseInv', ListInv, BoundInv, [Next]_vars, LockOutlivesScan
             PROVE  BoundInv'
    BY DEF BoundInv
<1> USE DEF BaseInv
<1>0. /\ MaxReminders \in Nat /\ Uncounted \in Nat
      /\ total \in [Alerts -> Nat] /\ \A a \in Alerts : monitor[a].count \in Nat
      /\ \A w \in Workers, a \in Alerts : seen[w][a].count \in Nat
    BY ConstantsAssumption
    DEF TypeInv, HistoryTypeOK, RedisTypeOK, ScanInv, ScanTypeOK, Monitor, BoundsOK, Uncounted
<1>1. ASSUME NEW a \in Alerts, RegisterMonitor(a) PROVE BoundInv'
    <2>1. a \notin Registered /\ Registered \subseteq Registered'
        BY <1>1 DEF RegisterMonitor, Registered, TypeInv, TaskInv, TaskTypeOK
    <2>2. \A b \in Alerts \ {a} : monitor'[b] = monitor[b]
        BY <1>1 DEF RegisterMonitor, TypeInv, RedisTypeOK
    <2>3. /\ index' \subseteq index \cup {a} /\ UNCHANGED <<pc, seen, cur, total>>
          /\ monitor'[a].count \in Nat
        BY <1>1 DEF RegisterMonitor, scanVars, historyVars, TypeInv, RedisTypeOK, Monitor, NewMonitor
    <2>4. Uncounted' \in Nat /\ Uncounted' >= Uncounted
        BY <1>1, ErrorsGrow DEF RegisterMonitor, Uncounted, TypeInv
    <2>5. \A w \in Workers : ~seen[w][a].stored /\ (pc[w] \in Reminding => cur[w] # a)
        BY <2>1, ReminderFocus DEF RegisteredInv
    <2>6. total[a] = 0
        BY <2>1 DEF BoundInv
    <2>7. \A b \in Alerts : Underway(b)' = Underway(b)
        BY <2>3 DEF Underway
    <2>8. QED
        BY <1>0, <2>1, <2>2, <2>3, <2>4, <2>5, <2>6, <2>7 DEF BoundInv, Pending
<1>2. ASSUME NEW w \in Workers, GetAllActiveMonitors(w) PROVE BoundInv'
    <2>1. /\ index' \subseteq index /\ UNCHANGED <<monitor, cur, total, escalation>>
          /\ pc[w] = "locked" /\ Scanning(w) /\ pc' = [pc EXCEPT ![w] = "scan"]
        BY <1>2 DEF GetAllActiveMonitors, historyVars, Scanning
    <2>2. Uncounted' \in Nat /\ Uncounted' >= Uncounted
        BY <1>2, ErrorsGrow DEF GetAllActiveMonitors, Uncounted, TypeInv
    <2>3. \A a \in Alerts : ~Underway(a)
        BY <2>1, NoneUnderway DEF Reminding
    <2>4. \A v \in Workers, a \in Alerts :
              seen'[v][a].stored =>
                  \/ seen'[v][a] = seen[v][a]
                  \/ seen'[v][a] = monitor[a] /\ a \in index /\ Pending(a)
        BY <1>2 DEF GetAllActiveMonitors, TypeInv, ScanInv, ScanTypeOK, NoMonitor
    <2>5. \A v \in Workers : pc'[v] \in Reminding => pc[v] \in Reminding /\ cur[v] \in Alerts
        BY <2>1, ReminderFocus DEF TypeInv, ScanInv, ScanTypeOK, Reminding
    <2>6. \A v \in Workers : pc'[v] \notin Reminding
        BY <2>3, <2>5 DEF Underway
    <2>7. QED
        BY <1>0, <2>1, <2>2, <2>3, <2>4, <2>6 DEF BoundInv, Pending, Registered
<1>3. ASSUME NEW w \in Workers, RecordReminder(w) PROVE BoundInv'
    <2>1. /\ pc[w] = "record" /\ pc' = [pc EXCEPT ![w] = "update"]
          /\ UNCHANGED <<index, monitor, escalation, seen, cur, total>>
        BY <1>3 DEF RecordReminder, Goto, redisVars, historyVars
    <2>2. Uncounted' \in Nat /\ Uncounted' >= Uncounted
        BY <1>3, ErrorsGrow DEF RecordReminder, Uncounted, TypeInv
    <2>3. \A v \in Workers : pc'[v] \in Reminding <=> pc[v] \in Reminding
        BY <2>1 DEF TypeInv, ScanInv, ScanTypeOK, Reminding
    <2>4. \A b \in Alerts : Underway(b)' = Underway(b)
        BY <2>1, <2>3 DEF Underway
    <2>5. QED
        BY <1>0, <2>1, <2>2, <2>3, <2>4 DEF BoundInv, Registered, Pending
<1>4. ASSUME NEW w \in Workers, WriteUpdate(w) PROVE BoundInv'
    BY <1>4, WriteUpdateKeepsBound
<1>5. ASSUME NEW w \in Workers, WriteStopped(w) PROVE BoundInv'
    <2>1. PICK a \in Alerts : a = cur[w]
        BY <1>5 DEF WriteStopped, TypeInv, ScanInv, FocusOK, Busy, ScanPC
    <2>2. ~monitor'[a].active
        BY <1>5, <2>1 DEF WriteStopped, TypeInv, RedisTypeOK, ScanInv, ScanTypeOK, Monitor
    <2>3. \A b \in Alerts \ {a} : monitor'[b] = monitor[b]
        BY <1>5, <2>1 DEF WriteStopped, TypeInv, RedisTypeOK
    <2>4. /\ UNCHANGED <<index, escalation, seen, cur, total, faults, crashes>>
          /\ pc[w] = "stop" /\ pc' = [pc EXCEPT ![w] = "unindex"]
        BY <1>5 DEF WriteStopped, Goto, historyVars, boundVars
    <2>5. \A v \in Workers : pc'[v] \in Reminding <=> pc[v] \in Reminding
        BY <2>4 DEF TypeInv, ScanInv, ScanTypeOK, Reminding
    <2>6. \A b \in Alerts : Underway(b)' = Underway(b)
        BY <2>4, <2>5 DEF Underway
    <2>7. QED
        BY <2>2, <2>3, <2>4, <2>5, <2>6 DEF BoundInv, Registered, Pending, Uncounted
<1>6. ASSUME NEW w \in Workers, FlagExhausted(w) PROVE BoundInv'
    <2>1. /\ pc[w] = "flag" /\ pc' = [pc EXCEPT ![w] = "notify"]
          /\ UNCHANGED <<index, monitor, escalation, seen, cur, total>>
        BY <1>6 DEF FlagExhausted, Goto, redisVars, historyVars
    <2>2. Uncounted' \in Nat /\ Uncounted' >= Uncounted
        BY <1>6, ErrorsGrow DEF FlagExhausted, Uncounted, TypeInv
    <2>3. \A v \in Workers : pc'[v] \in Reminding <=> pc[v] \in Reminding
        BY <2>1 DEF TypeInv, ScanInv, ScanTypeOK, Reminding
    <2>4. \A b \in Alerts : Underway(b)' = Underway(b)
        BY <2>1, <2>3 DEF Underway
    <2>5. QED
        BY <1>0, <2>1, <2>2, <2>3, <2>4 DEF BoundInv, Registered, Pending
<1>7. ASSUME NEW w \in Workers, NEW a \in Alerts, SendReminder(w, a) PROVE BoundInv'
    BY <1>7, SendReminderKeepsBound
<1>8. CASE Ordinary
    <2>1. total' = total /\ Uncounted' \in Nat /\ Uncounted' >= Uncounted
        BY <1>8, UncountedGrows DEF Ordinary, OutcomesKept, TypeInv
    <2>2. Registered \subseteq Registered'
        BY <1>8 DEF Ordinary, MonitorsKept
    <2>3. ASSUME NEW a \in index', a \in Alerts, Pending(a)', ~Underway(a)'
          PROVE  total[a] <= monitor'[a].count + Uncounted'
        <3>1. a \in index /\ Pending(a) /\ monitor'[a].count = monitor[a].count
            BY <1>8, <2>3 DEF Ordinary, MonitorsKept, Pending
        <3>2. CASE ~Underway(a)
            BY <1>0, <2>1, <2>3, <3>1, <3>2 DEF BoundInv
        <3>3. CASE Underway(a)
            <4>1. PICK w \in Workers : cur[w] = a /\ pc[w] \in Reminding
                BY <3>3 DEF Underway
            <4>2. total[a] <= seen[w][a].count + 1 + Uncounted
                BY <2>3, <4>1 DEF BoundInv
            <4>3. seen[w][a].count = monitor[a].count
                BY <3>1, <4>1, ReminderFocus DEF ListInv, Matches, Pending
            <4>4. Uncounted' > Uncounted
                BY <1>8, <2>3, <4>1 DEF Ordinary, RemindersKept, Underway
            <4>5. QED
                BY <1>0, <2>1, <2>3, <3>1, <4>2, <4>3, <4>4
        <3>4. QED
            BY <3>2, <3>3
    <2>4. \A w \in Workers, a \in Alerts :
              seen'[w][a].stored /\ cur'[w] # a => seen'[w][a] = seen[w][a] /\ cur[w] # a
        BY <1>8 DEF Ordinary, ListsKept
    <2>5. \A w \in Workers : pc'[w] \in Reminding =>
              pc[w] \in Reminding /\ cur'[w] = cur[w] /\ seen'[w] = seen[w]
        BY <1>8 DEF Ordinary, ListsKept
    <2>6. QED
        BY <1>0, <2>1, <2>2, <2>3, <2>4, <2>5 DEF BoundInv
<1>9. QED
    BY <1>1, <1>2, <1>3, <1>4, <1>5, <1>6, <1>7, <1>8, StepKinds DEF Special

\* BoundInv holds for good.
LEMMA BoundHolds == Spec => []BoundInv
BY BaseHolds, ListHolds, BoundInit, BoundNext, PTL DEF Spec

\* No ISP gets more than isp_max_reminders reminders, but for one more per
\* error or crash that kept a sent reminder from being counted.
THEOREM BoundedReminders == Spec => []RemindersBounded
<1>1. BaseInv /\ BoundInv => RemindersBounded
    <2> SUFFICES ASSUME BaseInv, BoundInv, LockOutlivesScan, NEW a \in Alerts
                 PROVE  total[a] <= MaxReminders + faults + crashes
        BY DEF RemindersBounded
    <2>1. total[a] <= MaxReminders + Uncounted
        BY DEF BoundInv
    <2>2. /\ total[a] \in Nat /\ MaxReminders \in Nat
          /\ faults \in Nat /\ crashes \in Nat
        BY ConstantsAssumption DEF BaseInv, TypeInv, BoundsOK, HistoryTypeOK
    <2>3. QED
        BY <2>1, <2>2 DEF Uncounted
<1>2. QED
    BY BaseHolds, BoundHolds, <1>1, PTL


(***************************************************************************)
(* The time between reminders.                                             *)
(***************************************************************************)

FaultFree == faults = 0 /\ crashes = 0

\* A monitor that is due, in Redis or in a list, is so because its timeout
\* has elapsed since the last reminder.
SpacedInv ==
    LockOutlivesScan /\ FaultFree =>
        \A a \in Alerts :
            /\ a \in index /\ Pending(a) /\ monitor[a].due /\ ~Underway(a) => a \in elapsed
            /\ \A w \in Workers :
                   seen[w][a].stored /\ seen[w][a].due /\ cur[w] # a => a \in elapsed

\* Nothing is monitored yet.
LEMMA SpacedInit == Init => SpacedInv
<1> SUFFICES ASSUME Init PROVE SpacedInv
    OBVIOUS
<1>1. index = {} /\ \A w \in Workers, a \in Alerts : ~seen[w][a].stored
    BY DEF Init, NoMonitor
<1>2. QED
    BY <1>1 DEF SpacedInv

\* No error or crash so far means none before.
LEMMA WasFaultFree ==
    ASSUME BoundsOK, NoFault \/ Fault \/ Crash, FaultFree'
    PROVE  FaultFree /\ ~(Uncounted' > Uncounted)
BY ErrorsGrow, ConstantsAssumption DEF FaultFree, Uncounted, BoundsOK

\* The same for the steps that need no thought.
LEMMA OrdinaryWasFaultFree ==
    ASSUME BoundsOK, OutcomesKept, FaultFree'
    PROVE  FaultFree /\ ~(Uncounted' > Uncounted)
BY ConstantsAssumption DEF FaultFree, Uncounted, BoundsOK, OutcomesKept

\* Every step keeps SpacedInv: sending resets elapsed, and the write that
\* counts the reminder resets due before anyone can read it again.
LEMMA SpacedNext ==
    BaseInv /\ SpacedInv /\ [Next]_vars => SpacedInv'
<1> SUFFICES ASSUME BaseInv, SpacedInv, [Next]_vars, LockOutlivesScan, FaultFree'
             PROVE  SpacedInv'
    BY DEF SpacedInv
<1> USE DEF BaseInv
<1>1. ASSUME NEW a \in Alerts, RegisterMonitor(a) PROVE SpacedInv'
    <2>1. FaultFree
        BY <1>1, WasFaultFree DEF RegisterMonitor, TypeInv
    <2>2. a \notin Registered
        BY <1>1 DEF RegisterMonitor, Registered
    <2>3. a \in index' => ~monitor'[a].due
        BY <1>1, <2>2 DEF RegisterMonitor, RegisteredInv, TypeInv, RedisTypeOK, NewMonitor
    <2>4. \A b \in Alerts \ {a} : monitor'[b] = monitor[b] /\ (b \in index' => b \in index)
        BY <1>1 DEF RegisterMonitor, TypeInv, RedisTypeOK
    <2>5. UNCHANGED <<pc, seen, cur, elapsed>>
        BY <1>1 DEF RegisterMonitor, scanVars, historyVars
    <2>6. QED
        BY <2>1, <2>3, <2>4, <2>5 DEF SpacedInv, Pending, Underway
<1>2. ASSUME NEW w \in Workers, GetAllActiveMonitors(w) PROVE SpacedInv'
    <2>1. /\ index' \subseteq index /\ UNCHANGED <<monitor, cur, elapsed>>
          /\ pc[w] = "locked" /\ Scanning(w) /\ pc' = [pc EXCEPT ![w] = "scan"]
        BY <1>2 DEF GetAllActiveMonitors, historyVars, Scanning
    <2>2. FaultFree
        BY <1>2, WasFaultFree DEF GetAllActiveMonitors, TypeInv
    <2>3. \A a \in Alerts : ~Underway(a)
        BY <2>1, NoneUnderway DEF Reminding
    <2>4. \A v \in Workers, a \in Alerts :
              seen'[v][a].stored =>
                  \/ seen'[v][a] = seen[v][a]
                  \/ seen'[v][a] = monitor[a] /\ a \in index /\ Pending(a)
        BY <1>2 DEF GetAllActiveMonitors, TypeInv, ScanInv, ScanTypeOK, NoMonitor
    <2>5. QED
        BY <2>1, <2>2, <2>3, <2>4 DEF SpacedInv, Pending
<1>3. ASSUME NEW w \in Workers, RecordReminder(w) PROVE SpacedInv'
    <2>1. /\ pc[w] = "record" /\ pc' = [pc EXCEPT ![w] = "update"]
          /\ UNCHANGED <<index, monitor, seen, cur, elapsed>>
        BY <1>3 DEF RecordReminder, Goto, redisVars, historyVars
    <2>2. FaultFree
        BY <1>3, WasFaultFree DEF RecordReminder, TypeInv
    <2>3. \A v \in Workers : pc'[v] \in Reminding <=> pc[v] \in Reminding
        BY <2>1 DEF TypeInv, ScanInv, ScanTypeOK, Reminding
    <2>4. \A b \in Alerts : Underway(b)' = Underway(b)
        BY <2>1, <2>3 DEF Underway
    <2>5. QED
        BY <2>1, <2>2, <2>4 DEF SpacedInv, Pending
<1>4. ASSUME NEW w \in Workers, WriteUpdate(w) PROVE SpacedInv'
    <2>1. pc[w] = "write" /\ pc[w] \in Reminding /\ Scanning(w)
        BY <1>4 DEF WriteUpdate, SaveUpdate, Reminding, Scanning
    <2>2. PICK a \in Alerts : a = cur[w]
        BY <2>1, ReminderFocus
    <2>3. \A b \in Alerts \ {a} : ~Underway(b)
        BY <2>1, <2>2, ReminderFocus
    <2>4. Finish(w, a) /\ UNCHANGED <<index, elapsed>>
        BY <1>4, <2>2 DEF WriteUpdate, SaveUpdate, historyVars
    <2>5. ~monitor'[a].due /\ \A b \in Alerts \ {a} : monitor'[b] = monitor[b]
        BY <1>4, <2>2 DEF WriteUpdate, SaveUpdate, TypeInv, RedisTypeOK, ScanInv, ScanTypeOK,
            Monitor
    <2>6. \A v \in Workers \ {w} : \A b \in Alerts : ~seen[v][b].stored
        BY <2>1, OneScan
    <2>7. \A v \in Workers, b \in Alerts :
              seen'[v][b].stored => v = w /\ b # a /\ seen'[v][b] = seen[v][b]
        BY <2>4, <2>6 DEF Finish, TypeInv, ScanInv, ScanTypeOK, NoMonitor
    <2>8. FaultFree
        BY <1>4, WasFaultFree DEF WriteUpdate, SaveUpdate, NoFault, TypeInv
    <2>9. QED
        BY <2>2, <2>3, <2>4, <2>5, <2>7, <2>8 DEF SpacedInv, Pending
<1>5. ASSUME NEW w \in Workers, WriteStopped(w) PROVE SpacedInv'
    <2>1. PICK a \in Alerts : a = cur[w]
        BY <1>5 DEF WriteStopped, TypeInv, ScanInv, FocusOK, Busy, ScanPC
    <2>2. ~monitor'[a].active
        BY <1>5, <2>1 DEF WriteStopped, TypeInv, RedisTypeOK, ScanInv, ScanTypeOK, Monitor
    <2>3. \A b \in Alerts \ {a} : monitor'[b] = monitor[b]
        BY <1>5, <2>1 DEF WriteStopped, TypeInv, RedisTypeOK
    <2>4. /\ UNCHANGED <<index, seen, cur, elapsed>>
          /\ pc[w] = "stop" /\ pc' = [pc EXCEPT ![w] = "unindex"]
        BY <1>5 DEF WriteStopped, Goto, historyVars
    <2>5. \A v \in Workers : pc'[v] \in Reminding <=> pc[v] \in Reminding
        BY <2>4 DEF TypeInv, ScanInv, ScanTypeOK, Reminding
    <2>6. \A b \in Alerts : Underway(b)' = Underway(b)
        BY <2>4, <2>5 DEF Underway
    <2>7. FaultFree
        BY <1>5, WasFaultFree DEF WriteStopped, NoFault, TypeInv
    <2>8. QED
        BY <2>2, <2>3, <2>4, <2>6, <2>7 DEF SpacedInv, Pending
<1>6. ASSUME NEW w \in Workers, FlagExhausted(w) PROVE SpacedInv'
    <2>1. /\ pc[w] = "flag" /\ pc' = [pc EXCEPT ![w] = "notify"]
          /\ UNCHANGED <<index, monitor, seen, cur, elapsed>>
        BY <1>6 DEF FlagExhausted, Goto, redisVars, historyVars
    <2>2. FaultFree
        BY <1>6, WasFaultFree DEF FlagExhausted, TypeInv
    <2>3. \A v \in Workers : pc'[v] \in Reminding <=> pc[v] \in Reminding
        BY <2>1 DEF TypeInv, ScanInv, ScanTypeOK, Reminding
    <2>4. \A b \in Alerts : Underway(b)' = Underway(b)
        BY <2>1, <2>3 DEF Underway
    <2>5. QED
        BY <2>1, <2>2, <2>4 DEF SpacedInv, Pending
<1>7. ASSUME NEW w \in Workers, NEW a \in Alerts, SendReminder(w, a) PROVE SpacedInv'
    <2>1. pc[w] = "scan" /\ cur[w] = NoAlert /\ Scanning(w)
        BY <1>7 DEF SendReminder, InList, TypeInv, ScanInv, FocusOK, Busy, Scanning
    <2>2. /\ pc' = [pc EXCEPT ![w] = "record"] /\ cur' = [cur EXCEPT ![w] = a]
          /\ elapsed' = elapsed \ {a} /\ UNCHANGED <<index, monitor, seen, faults, crashes>>
        BY <1>7 DEF SendReminder, MailReminder, Goto, redisVars, boundVars
    <2>3. \A v \in Workers \ {w} : \A b \in Alerts : ~seen[v][b].stored
        BY <2>1, OneScan
    <2>4. cur'[w] = a /\ pc'[w] \in Reminding
        BY <2>2 DEF TypeInv, ScanInv, ScanTypeOK, Reminding
    <2>5. Underway(a)'
        BY <2>4 DEF Underway
    <2>6. \A b \in Alerts : ~Underway(b) /\ cur[w] # b
        BY <2>1, NoneUnderway, ConstantsAssumption DEF Reminding
    <2>7. \A v \in Workers, b \in Alerts :
              seen'[v][b].stored /\ cur'[v] # b => v = w /\ b # a
        BY <2>2, <2>3, <2>4
    <2>8. QED
        BY <2>2, <2>5, <2>6, <2>7 DEF SpacedInv, Pending, FaultFree
<1>8. CASE Ordinary
    <2>1. FaultFree /\ ~(Uncounted' > Uncounted) /\ elapsed \subseteq elapsed'
        BY <1>8, OrdinaryWasFaultFree DEF Ordinary, OutcomesKept, TypeInv
    <2>2. ASSUME NEW a \in index', a \in Alerts, Pending(a)', monitor'[a].due, ~Underway(a)'
          PROVE  a \in elapsed'
        <3>1. a \in index /\ Pending(a) /\ (monitor[a].due \/ a \in elapsed')
            BY <1>8, <2>2 DEF Ordinary, MonitorsKept, Pending
        <3>2. ~Underway(a)
            BY <1>8, <2>1, <2>2 DEF Ordinary, RemindersKept, Underway
        <3>3. QED
            BY <2>1, <2>2, <3>1, <3>2 DEF SpacedInv
    <2>3. \A w \in Workers, a \in Alerts :
              seen'[w][a].stored => seen'[w][a] = seen[w][a] /\ (cur'[w] # a => cur[w] # a)
        BY <1>8 DEF Ordinary, ListsKept
    <2>4. QED
        BY <2>1, <2>2, <2>3 DEF SpacedInv
<1>9. QED
    BY <1>1, <1>2, <1>3, <1>4, <1>5, <1>6, <1>7, <1>8, StepKinds DEF Special

\* SpacedInv holds for good.
LEMMA SpacedHolds == Spec => []SpacedInv
BY BaseHolds, SpacedInit, SpacedNext, PTL DEF Spec

\* Only SendReminder sends a reminder.
LEMMA OnlySendingCounts ==
    ASSUME BaseInv, [Next]_vars, NEW a \in Alerts, total'[a] > total[a]
    PROVE  \E w \in Workers : SendReminder(w, a)
<1> USE DEF BaseInv
<1>1. total[a] \in Nat
    BY DEF TypeInv, HistoryTypeOK
<1>2. total' # total
    BY <1>1
<1>3. ~Ordinary
    BY <1>2 DEF Ordinary, OutcomesKept
<1>4. PICK w \in Workers, b \in Alerts : SendReminder(w, b)
    BY <1>2, <1>3, StepKinds
    DEF Special, RegisterMonitor, GetAllActiveMonitors, RecordReminder, WriteUpdate, SaveUpdate,
        WriteStopped, FlagExhausted, historyVars
<1>5. b = a
    BY <1>1, <1>4 DEF SendReminder, MailReminder, TypeInv, HistoryTypeOK
<1>6. QED
    BY <1>4, <1>5

\* Reminders are spaced by the reply timeout: unless a sent reminder was not
\* counted, each one answers for a timeout that elapsed after the one before.
THEOREM SpacedReminders == Spec => RemindersSpaced
<1>1. BaseInv /\ SpacedInv /\ [Next]_vars =>
          [LockOutlivesScan /\ faults = 0 /\ crashes = 0 =>
              \A a \in Alerts : total'[a] > total[a] => a \in elapsed]_vars
    <2> SUFFICES ASSUME BaseInv, SpacedInv, [Next]_vars, LockOutlivesScan, FaultFree,
                        NEW a \in Alerts, total'[a] > total[a]
                 PROVE  a \in elapsed
        BY DEF FaultFree
    <2>1. PICK w \in Workers : SendReminder(w, a)
        BY OnlySendingCounts
    <2>2. seen[w][a].stored /\ seen[w][a].due /\ cur[w] = NoAlert
        BY <2>1 DEF SendReminder, InList, BaseInv, TypeInv, ScanInv, FocusOK, Busy
    <2>3. QED
        BY <2>2, ConstantsAssumption DEF SpacedInv
<1>2. QED
    BY BaseHolds, SpacedHolds, <1>1, PTL DEF Spec, RemindersSpaced


(***************************************************************************)
(* The two stores.                                                         *)
(***************************************************************************)

\* reminder_history has one row for each number up to k, or none after k.
Full(a, k) == \A n \in Number : n <= k => rows[a][n] = 1
Blank(a, k) == \A n \in Number : n > k => rows[a][n] = 0

\* A worker has recorded the reminder it sent and not yet counted it.
Recorded(a) == \E w \in Workers : cur[w] = a /\ pc[w] \in {"update", "write"}

\* The rows of a monitor end with the number Redis has counted to, or with
\* the next one while its reminder is recorded and not yet counted.
LedgerOf(a) ==
    /\ \A n \in Number : rows[a][n] <= 1
    /\ a \notin Registered => Blank(a, 0)
    /\ a \in index => Full(a, monitor[a].count)
    /\ a \in index /\ Pending(a) /\ ~Recorded(a) => Blank(a, monitor[a].count)
    /\ \A w \in Workers :
        /\ a \in index /\ seen[w][a].stored => Full(a, seen[w][a].count)
        /\ seen[w][a].stored /\ (cur[w] # a \/ pc[w] = "record") => Blank(a, seen[w][a].count)
        /\ cur[w] = a /\ pc[w] \in {"update", "write"} =>
               /\ Blank(a, seen[w][a].count + 1)
               /\ rows[a][seen[w][a].count + 1] = 1

LedgerInv == LockOutlivesScan /\ FaultFree => \A a \in Alerts : LedgerOf(a)

\* Both stores are empty.
LEMMA LedgerInit == Init => LedgerInv
<1> SUFFICES ASSUME Init, NEW a \in Alerts PROVE LedgerOf(a)
    BY DEF LedgerInv
<1>1. index = {} /\ \A w \in Workers : ~seen[w][a].stored
    BY DEF Init, NoMonitor
<1>2. \A w \in Workers : pc[w] \notin {"update", "write"}
    BY DEF Init
<1>3. \A n \in Number : rows[a][n] = 0
    BY DEF Init
<1>4. QED
    BY <1>1, <1>2, <1>3 DEF LedgerOf, Blank

\* Of a scan that excludes all others, nobody else has recorded anything.
LEMMA NoneRecorded ==
    ASSUME BaseInv, LockOutlivesScan, NEW w \in Workers, Scanning(w), NEW a \in Alerts,
           cur[w] # a \/ pc[w] \notin {"update", "write"}
    PROVE  ~Recorded(a)
BY OneScan DEF Recorded

\* A row is added with the number after the last one.
LEMMA RecordReminderKeepsLedger ==
    ASSUME BaseInv, LedgerInv, LockOutlivesScan, FaultFree,
           NEW w \in Workers, RecordReminder(w), NoFault
    PROVE  LedgerInv'
<1>1. pc[w] = "record" /\ pc[w] \in Reminding /\ Scanning(w)
    BY DEF RecordReminder, Reminding, Scanning
<1>2. PICK a \in Alerts : a = cur[w]
    BY <1>1, ReminderFocus
<1>3. PICK k \in Nat : k = seen[w][a].count
    BY <1>1, <1>2, ReminderFocus
<1>4. a \in Registered /\ seen[w][a].stored /\ k < MaxReminders
    BY <1>1, <1>2, <1>3, ReminderFocus
<1>5. k + 1 \in Number
    BY <1>4, ConstantsAssumption DEF Number
<1>6. /\ rows' = [rows EXCEPT ![a][k + 1] = @ + 1]
      /\ pc' = [pc EXCEPT ![w] = "update"]
      /\ UNCHANGED <<index, monitor, escalation, seen, cur>>
    <2>1. faults' = faults
        BY DEF NoFault, boundVars
    <2>2. ~Fault
        BY <2>1, ConstantsAssumption DEF Fault, BaseInv, TypeInv, BoundsOK
    <2>3. QED
        BY <1>2, <1>3, <2>2 DEF RecordReminder, ReminderNumber, Goto, redisVars
<1>7. LedgerOf(a) /\ Blank(a, k)
    BY <1>1, <1>3, <1>4 DEF LedgerInv, LedgerOf
<1>8. rows[a][k + 1] = 0
    BY <1>5, <1>7 DEF Blank
<1>9. /\ rows'[a][k + 1] = 1
      /\ \A n \in Number \ {k + 1} : rows'[a][n] = rows[a][n]
      /\ \A b \in Alerts \ {a} : rows'[b] = rows[b]
    BY <1>5, <1>6, <1>8 DEF BaseInv, TypeInv, DbTypeOK
<1>10. /\ Blank(a, k + 1)'
       /\ \A m : Full(a, m) => Full(a, m)'
       /\ \A n \in Number : rows'[a][n] <= 1
    <2>1. Blank(a, k + 1)'
        BY <1>7, <1>9 DEF Blank, Number
    <2>2. \A m : Full(a, m) => Full(a, m)'
        BY <1>9 DEF Full
    <2>3. \A n \in Number : rows[a][n] <= 1
        BY <1>7 DEF LedgerOf
    <2>4. QED
        BY <1>9, <2>1, <2>2, <2>3
<1>11. \A v \in Workers \ {w} : pc[v] = "idle" /\ \A b \in Alerts : ~seen[v][b].stored
    BY <1>1, OneScan
<1>12. pc'[w] = "update" /\ \A v \in Workers \ {w} : pc'[v] = "idle"
    BY <1>6, <1>11 DEF BaseInv, TypeInv, ScanInv, ScanTypeOK
<1>13. Recorded(a)'
    BY <1>2, <1>6, <1>12 DEF Recorded
<1>14. \A b \in Alerts \ {a} : ~Recorded(b)
    BY <1>1, <1>2, NoneRecorded
<1>15. LedgerOf(a)'
    BY <1>2, <1>3, <1>4, <1>6, <1>7, <1>9, <1>10, <1>11, <1>12, <1>13 DEF LedgerOf, Registered
<1>16. ASSUME NEW b \in Alerts, b # a PROVE LedgerOf(b)'
    <2>1. LedgerOf(b)
        BY DEF LedgerInv
    <2>2. \A m : (Full(b, m)' <=> Full(b, m)) /\ (Blank(b, m)' <=> Blank(b, m))
        BY <1>9, <1>16 DEF Full, Blank
    <2>3. ~Recorded(b)
        BY <1>14, <1>16
    <2>4. \A v \in Workers : cur'[v] # b \/ pc'[v] = "idle"
        BY <1>2, <1>6, <1>12, <1>16
    <2>5. QED
        BY <1>2, <1>6, <1>9, <1>11, <1>16, <2>1, <2>2, <2>3, <2>4 DEF LedgerOf, Registered, Pending
<1>17. QED
    BY <1>15, <1>16 DEF LedgerInv


\* Redis counts up to the row just added.
LEMMA WriteUpdateKeepsLedger ==
    ASSUME BaseInv, LedgerInv, LockOutlivesScan, FaultFree, NEW w \in Workers, WriteUpdate(w)
    PROVE  LedgerInv'
<1>1. pc[w] = "write" /\ pc[w] \in Reminding /\ Scanning(w)
    BY DEF WriteUpdate, SaveUpdate, Reminding, Scanning
<1>2. PICK a \in Alerts : a = cur[w]
    BY <1>1, ReminderFocus
<1>3. PICK k \in Nat : k = seen[w][a].count
    BY <1>1, <1>2, ReminderFocus
<1>4. a \in Registered /\ seen[w][a].stored
    BY <1>1, <1>2, ReminderFocus
<1>5. Finish(w, a) /\ UNCHANGED <<index, escalation, rows>>
    BY <1>2 DEF WriteUpdate, SaveUpdate, dbVars
<1>6. monitor'[a].count = k + 1 /\ \A b \in Alerts \ {a} : monitor'[b] = monitor[b]
    BY <1>2, <1>3 DEF WriteUpdate, SaveUpdate, ReminderNumber, BaseInv, TypeInv, RedisTypeOK,
        ScanInv, ScanTypeOK, Monitor
<1>7. \A v \in Workers \ {w} : pc[v] = "idle" /\ \A b \in Alerts : ~seen[v][b].stored
    BY <1>1, OneScan
<1>8. \A v \in Workers : pc'[v] \in {"idle", "scan"}
    BY <1>5, <1>7 DEF Finish, BaseInv, TypeInv, ScanInv, ScanTypeOK
<1>9. \A v \in Workers, b \in Alerts :
          seen'[v][b].stored => v = w /\ b # a /\ seen'[v][b] = seen[v][b]
    BY <1>5, <1>7 DEF Finish, BaseInv, TypeInv, ScanInv, ScanTypeOK, NoMonitor
<1>10. LedgerOf(a)'
    <2>1. LedgerOf(a) /\ rows[a][k + 1] = 1 /\ Blank(a, k + 1)
        BY <1>1, <1>2, <1>3 DEF LedgerInv, LedgerOf
    <2>2. a \in index => Full(a, k + 1)
        <3>1. a \in index => Full(a, k)
            BY <1>3, <1>4, <2>1 DEF LedgerOf
        <3>2. QED
            BY <2>1, <3>1 DEF Full, Number
    <2>3. \A m : (Full(a, m)' <=> Full(a, m)) /\ (Blank(a, m)' <=> Blank(a, m))
        BY <1>5 DEF Full, Blank
    <2>4. a \in Registered'
        BY <1>4, <1>5 DEF Registered
    <2>5. QED
        BY <1>5, <1>6, <1>8, <1>9, <2>1, <2>2, <2>3, <2>4 DEF LedgerOf
<1>11. ASSUME NEW b \in Alerts, b # a PROVE LedgerOf(b)'
    <2>1. LedgerOf(b)
        BY DEF LedgerInv
    <2>2. \A m : (Full(b, m)' <=> Full(b, m)) /\ (Blank(b, m)' <=> Blank(b, m))
        BY <1>5 DEF Full, Blank
    <2>3. ~Recorded(b)
        BY <1>1, <1>2, <1>11, NoneRecorded
    <2>4. \A v \in Workers : seen'[v][b].stored => cur[v] # b
        BY <1>2, <1>9, <1>11
    <2>5. QED
        BY <1>5, <1>6, <1>8, <1>9, <1>11, <2>1, <2>2, <2>3, <2>4 DEF LedgerOf, Registered, Pending
<1>12. QED
    BY <1>10, <1>11 DEF LedgerInv

\* A stopped monitor is written back with the count it had.
LEMMA WriteStoppedKeepsLedger ==
    ASSUME BaseInv, ListInv, LedgerInv, LockOutlivesScan, FaultFree,
           NEW w \in Workers, WriteStopped(w)
    PROVE  LedgerInv'
<1>1. pc[w] = "stop" /\ Scanning(w) /\ pc[w] \in Busy
    BY DEF WriteStopped, Scanning, Busy, ScanPC
<1>2. PICK a \in Alerts : a = cur[w]
    BY <1>1 DEF BaseInv, TypeInv, ScanInv, FocusOK
<1>3. a \in Registered /\ seen[w][a].stored
    BY <1>1, <1>2 DEF BaseInv, RegisteredInv, EntryInv
<1>4. pc' = [pc EXCEPT ![w] = "unindex"] /\ UNCHANGED <<index, escalation, rows, seen, cur>>
    BY DEF WriteStopped, Goto, dbVars
<1>5. /\ monitor'[a].count = copy[w].count /\ ~monitor'[a].active
      /\ \A b \in Alerts \ {a} : monitor'[b] = monitor[b]
    BY <1>2 DEF WriteStopped, BaseInv, TypeInv, RedisTypeOK, ScanInv, ScanTypeOK, Monitor
<1>6. a \in index => copy[w].count = seen[w][a].count
    BY <1>1, <1>2 DEF ListInv, Matches
<1>7. \A v \in Workers : /\ pc'[v] \in {"update", "write"} <=> pc[v] \in {"update", "write"}
                         /\ pc'[v] = "record" <=> pc[v] = "record"
    BY <1>1, <1>4 DEF BaseInv, TypeInv, ScanInv, ScanTypeOK
<1>8. \A b, m : (Full(b, m)' <=> Full(b, m)) /\ (Blank(b, m)' <=> Blank(b, m))
    BY <1>4 DEF Full, Blank
<1>9. \A b \in Alerts : LedgerOf(b) /\ (Recorded(b)' <=> Recorded(b))
    BY <1>4, <1>7 DEF LedgerInv, Recorded
<1>10. LedgerOf(a)'
    <2>1. a \in index => Full(a, monitor'[a].count)
        BY <1>3, <1>5, <1>6, <1>9 DEF LedgerOf
    <2>2. ~Pending(a)'
        BY <1>5 DEF Pending
    <2>3. QED
        BY <1>4, <1>7, <1>8, <1>9, <2>1, <2>2 DEF LedgerOf, Registered
<1>11. ASSUME NEW b \in Alerts, b # a PROVE LedgerOf(b)'
    BY <1>4, <1>5, <1>7, <1>8, <1>9, <1>11 DEF LedgerOf, Registered, Pending
<1>12. QED
    BY <1>10, <1>11 DEF LedgerInv

\* Sending makes no row yet.
LEMMA SendReminderKeepsLedger ==
    ASSUME BaseInv, LedgerInv, LockOutlivesScan, FaultFree,
           NEW w \in Workers, NEW a \in Alerts, SendReminder(w, a)
    PROVE  LedgerInv'
<1>1. pc[w] = "scan" /\ cur[w] = NoAlert /\ Scanning(w) /\ seen[w][a].stored
    BY DEF SendReminder, InList, BaseInv, TypeInv, ScanInv, FocusOK, Busy, Scanning
<1>2. /\ pc' = [pc EXCEPT ![w] = "record"] /\ cur' = [cur EXCEPT ![w] = a]
      /\ UNCHANGED <<index, monitor, escalation, rows, seen>>
    BY DEF SendReminder, MailReminder, Goto, redisVars, dbVars
<1>3. \A v \in Workers \ {w} : pc[v] = "idle" /\ \A b \in Alerts : ~seen[v][b].stored
    BY <1>1, OneScan
<1>4. \A v \in Workers : pc'[v] \notin {"update", "write"}
    BY <1>2, <1>3 DEF BaseInv, TypeInv, ScanInv, ScanTypeOK
<1>5. ASSUME NEW b \in Alerts PROVE LedgerOf(b)'
    <2>1. LedgerOf(b)
        BY DEF LedgerInv
    <2>2. \A m : (Full(b, m)' <=> Full(b, m)) /\ (Blank(b, m)' <=> Blank(b, m))
        BY <1>2 DEF Full, Blank
    <2>3. ~Recorded(b)
        BY <1>1, NoneRecorded
    <2>4. \A v \in Workers : seen'[v][b].stored => cur[v] # b
        BY <1>1, <1>2, <1>3, ConstantsAssumption
    <2>5. QED
        BY <1>2, <1>4, <2>1, <2>2, <2>3, <2>4 DEF LedgerOf, Registered, Pending
<1>6. QED
    BY <1>5 DEF LedgerInv

\* Every step keeps LedgerInv.
LEMMA LedgerNext ==
    BaseInv /\ RedisTypeOK' /\ ListInv /\ LedgerInv /\ [Next]_vars => LedgerInv'
<1> SUFFICES ASSUME BaseInv, RedisTypeOK', ListInv, LedgerInv, [Next]_vars, LockOutlivesScan, FaultFree'
             PROVE  LedgerInv'
    BY DEF LedgerInv
<1> USE DEF BaseInv
<1>1. ASSUME NEW a \in Alerts, RegisterMonitor(a) PROVE LedgerInv'
    <2>1. FaultFree
        BY <1>1, WasFaultFree DEF RegisterMonitor, TypeInv
    <2>2. a \notin Registered /\ Registered \subseteq Registered'
        BY <1>1 DEF RegisterMonitor, Registered, TypeInv, TaskInv, TaskTypeOK
    <2>3. a \notin index
        BY <2>2 DEF RegisteredInv
    <2>4. a \in index' => monitor'[a].count = 0
        BY <1>1, <2>3 DEF RegisterMonitor, TypeInv, RedisTypeOK, NewMonitor
    <2>5. \A b \in Alerts \ {a} : monitor'[b] = monitor[b] /\ (b \in index' => b \in index)
        BY <1>1 DEF RegisterMonitor, TypeInv, RedisTypeOK
    <2>6. UNCHANGED <<pc, seen, cur, rows>>
        BY <1>1 DEF RegisterMonitor, scanVars, dbVars
    <2>7. \A w \in Workers : ~seen[w][a].stored /\ (pc[w] \in {"update", "write"} => cur[w] # a)
        BY <2>2 DEF RegisteredInv, Busy, ScanPC
    <2>8. \A b, m : (Full(b, m)' <=> Full(b, m)) /\ (Blank(b, m)' <=> Blank(b, m))
        BY <2>6 DEF Full, Blank
    <2>9. \A b \in Alerts : LedgerOf(b) /\ (Recorded(b)' <=> Recorded(b))
        BY <2>1, <2>6 DEF LedgerInv, Recorded
    <2>10. LedgerOf(a)'
        <3>1. Full(a, 0)
            BY DEF Full, Number
        <3>2. Blank(a, 0)
            BY <2>2, <2>9 DEF LedgerOf
        <3>3. QED
            BY <2>4, <2>6, <2>7, <2>8, <2>9, <3>1, <3>2 DEF LedgerOf
    <2>11. ASSUME NEW b \in Alerts, b # a PROVE LedgerOf(b)'
        BY <2>2, <2>5, <2>6, <2>8, <2>9, <2>11 DEF LedgerOf, Pending
    <2>12. QED
        BY <2>10, <2>11 DEF LedgerInv
<1>2. ASSUME NEW w \in Workers, GetAllActiveMonitors(w) PROVE LedgerInv'
    <2>1. /\ index' \subseteq index /\ UNCHANGED <<monitor, cur, escalation, rows>>
          /\ pc[w] = "locked" /\ Scanning(w) /\ pc' = [pc EXCEPT ![w] = "scan"]
        BY <1>2 DEF GetAllActiveMonitors, dbVars, Scanning
    <2>2. FaultFree
        BY <1>2, WasFaultFree DEF GetAllActiveMonitors, TypeInv
    <2>3. \A v \in Workers, a \in Alerts :
              seen'[v][a].stored =>
                  \/ seen'[v][a] = seen[v][a]
                  \/ seen'[v][a] = monitor[a] /\ a \in index /\ Pending(a)
        BY <1>2 DEF GetAllActiveMonitors, TypeInv, ScanInv, ScanTypeOK, NoMonitor
    <2>4. \A v \in Workers \ {w} : pc[v] = "idle"
        BY <2>1, OneScan
    <2>5. \A v \in Workers : pc[v] \in {"idle", "locked"} /\ pc'[v] \in {"idle", "scan"}
        BY <2>1, <2>4 DEF TypeInv, ScanInv, ScanTypeOK
    <2>6. \A v \in Workers, a \in Alerts : cur[v] # a
        BY <2>5, ConstantsAssumption DEF TypeInv, ScanInv, FocusOK, Busy
    <2>7. ASSUME NEW a \in Alerts PROVE LedgerOf(a)'
        <3>1. LedgerOf(a)
            BY <2>2 DEF LedgerInv
        <3>2. \A m : (Full(a, m)' <=> Full(a, m)) /\ (Blank(a, m)' <=> Blank(a, m))
            BY <2>1 DEF Full, Blank
        <3>3. ~Recorded(a)
            BY <2>6 DEF Recorded
        <3>4. QED
            BY <2>1, <2>3, <2>5, <2>6, <3>1, <3>2, <3>3 DEF LedgerOf, Registered, Pending
    <2>8. QED
        BY <2>7 DEF LedgerInv
<1>3. ASSUME NEW w \in Workers, RecordReminder(w) PROVE LedgerInv'
    <2>1. FaultFree
        BY <1>3, WasFaultFree DEF RecordReminder, TypeInv
    <2>2. NoFault
        BY <2>1 DEF FaultFree, NoFault, boundVars
    <2>3. QED
        BY <1>3, <2>1, <2>2, RecordReminderKeepsLedger
<1>4. ASSUME NEW w \in Workers, WriteUpdate(w) PROVE LedgerInv'
    <2>1. FaultFree
        BY <1>4, WasFaultFree DEF WriteUpdate, SaveUpdate, NoFault, TypeInv
    <2>2. QED
        BY <1>4, <2>1, WriteUpdateKeepsLedger
<1>5. ASSUME NEW w \in Workers, WriteStopped(w) PROVE LedgerInv'
    <2>1. FaultFree
        BY <1>5, WasFaultFree DEF WriteStopped, NoFault, TypeInv
    <2>2. QED
        BY <1>5, <2>1, WriteStoppedKeepsLedger
<1>6. ASSUME NEW w \in Workers, FlagExhausted(w) PROVE LedgerInv'
    <2>1. /\ pc[w] = "flag" /\ pc' = [pc EXCEPT ![w] = "notify"]
          /\ UNCHANGED <<index, monitor, escalation, rows, seen, cur>>
        BY <1>6 DEF FlagExhausted, Goto, redisVars
    <2>2. FaultFree
        BY <1>6, WasFaultFree DEF FlagExhausted, TypeInv
    <2>3. \A v \in Workers : /\ pc'[v] \in {"update", "write"} <=> pc[v] \in {"update", "write"}
                             /\ pc'[v] = "record" <=> pc[v] = "record"
        BY <2>1 DEF TypeInv, ScanInv, ScanTypeOK
    <2>4. ASSUME NEW a \in Alerts PROVE LedgerOf(a)'
        <3>1. LedgerOf(a) /\ (Recorded(a)' <=> Recorded(a))
            BY <2>1, <2>2, <2>3 DEF LedgerInv, Recorded
        <3>2. \A m : (Full(a, m)' <=> Full(a, m)) /\ (Blank(a, m)' <=> Blank(a, m))
            BY <2>1 DEF Full, Blank
        <3>3. QED
            BY <2>1, <2>3, <3>1, <3>2 DEF LedgerOf, Registered, Pending
    <2>5. QED
        BY <2>4 DEF LedgerInv
<1>7. ASSUME NEW w \in Workers, NEW a \in Alerts, SendReminder(w, a) PROVE LedgerInv'
    <2>1. FaultFree
        BY <1>7, WasFaultFree DEF SendReminder, MailReminder, NoFault, TypeInv
    <2>2. QED
        BY <1>7, <2>1, SendReminderKeepsLedger
<1>8. CASE Ordinary
    <2>1. FaultFree /\ ~(Uncounted' > Uncounted) /\ rows' = rows
        BY <1>8, OrdinaryWasFaultFree DEF Ordinary, OutcomesKept, TypeInv
    <2>2. ASSUME NEW a \in Alerts PROVE LedgerOf(a)'
        <3>1. LedgerOf(a)
            BY <2>1 DEF LedgerInv
        <3>2. \A m : (Full(a, m)' <=> Full(a, m)) /\ (Blank(a, m)' <=> Blank(a, m))
            BY <2>1 DEF Full, Blank
        <3>3. a \in index' => Full(a, monitor'[a].count)
            <4>1. a \in index' => a \in index /\ monitor'[a].count <= monitor[a].count
                BY <1>8 DEF Ordinary, MonitorsKept
            <4>2. monitor'[a].count \in Nat /\ monitor[a].count \in Nat
                BY DEF TypeInv, RedisTypeOK, Monitor
            <4>3. QED
                BY <3>1, <4>1, <4>2 DEF LedgerOf, Full, Number
        <3>4. a \in index' /\ Pending(a)' =>
                  a \in index /\ Pending(a) /\ monitor'[a].count = monitor[a].count
            BY <1>8 DEF Ordinary, MonitorsKept, Pending
        <3>5. a \in index' /\ Pending(a)' /\ Recorded(a) => Recorded(a)'
            BY <1>8, <2>1 DEF Ordinary, RemindersKept, ListsKept, Recorded, Reminding
        <3>6. \A w \in Workers :
                  seen'[w][a].stored => seen'[w][a] = seen[w][a] /\ (cur'[w] # a => cur[w] # a)
            BY <1>8 DEF Ordinary, ListsKept
        <3>7. \A w \in Workers : pc'[w] \in Reminding =>
                  /\ UNCHANGED <<cur[w], seen[w]>>
                  /\ pc[w] \in Reminding
                  /\ pc'[w] = "record" <=> pc[w] = "record"
            BY <1>8 DEF Ordinary, ListsKept
        <3>8. a \in index' => a \in index
            BY <1>8 DEF Ordinary, MonitorsKept
        <3>9. a \notin Registered' => a \notin Registered
            BY <1>8 DEF Ordinary, MonitorsKept
        <3>10. QED
            BY <2>1, <3>1, <3>2, <3>3, <3>4, <3>5, <3>6, <3>7, <3>8, <3>9 DEF LedgerOf, Reminding
    <2>3. QED
        BY <2>2 DEF LedgerInv
<1>9. QED
    BY <1>1, <1>2, <1>3, <1>4, <1>5, <1>6, <1>7, <1>8, StepKinds DEF Special

\* LedgerInv holds for good.
LEMMA LedgerHolds == Spec => []LedgerInv
<1>1. BaseInv => RedisTypeOK
    BY DEF BaseInv, TypeInv
<1>2. QED
    BY <1>1, BaseHolds, ListHolds, LedgerInit, LedgerNext, PTL DEF Spec

\* PostgreSQL and Redis agree: without errors or crashes, reminder_history
\* has exactly one row for each number the counter of an indexed monitor has
\* reached, and no number twice.
THEOREM LedgersMatch == Spec => []LedgerMatchesCounter
<1>1. BaseInv /\ LedgerInv => LedgerMatchesCounter
    BY DEF BaseInv, TypeInv, RedisTypeOK, LedgerInv, LedgerOf, Full, FaultFree,
        LedgerMatchesCounter
<1>2. QED
    BY BaseHolds, LedgerHolds, <1>1, PTL
=============================================================================
