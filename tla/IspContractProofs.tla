-------------------------- MODULE IspContractProofs --------------------------
(***************************************************************************)
(* Theorems about IspReplyMonitor that need no assumption on the lock:     *)
(* it implements ReminderContract, an alert key outlives its index entry,  *)
(* and a handled reply has cancelled its monitor.                          *)
(***************************************************************************)
EXTENDS IspReplyMonitorProofs

(***************************************************************************)
(* The entries of a scan's list.                                           *)
(***************************************************************************)

\* A worker that reminds about its entry, and one that gives up on it.
Reminding == {"record", "update", "write"}

Stopping == {"stop", "unindex", "unkey", "flag", "notify"}

\* Nothing of a list survives its scan; a busy worker keeps its entry until
\* it has finished with it, and gives up only after the last reminder.
EntryInv ==
    /\ \A w \in Workers, a \in Alerts :
           pc[w] \in {"idle", "locked"} => ~seen[w][a].stored
    /\ \A w \in Workers : pc[w] \in Busy => seen[w][cur[w]].stored
    /\ \A w \in Workers : pc[w] \in Stopping => seen[w][cur[w]].count >= MaxReminders

\* No scan has read a list yet.
LEMMA EntryInit == Init => EntryInv
BY DEF Init, EntryInv, Busy, ScanPC, Stopping, NoMonitor

\* Only the scans touch lists and entries.
LEMMA EntryFrame == EntryInv /\ UNCHANGED <<pc, seen, cur>> => EntryInv'
BY DEF EntryInv

\* Once it has dropped its entry, the worker is back at its list.
LEMMA FinishKeepsEntries ==
    ASSUME ScanInv, EntryInv, NEW w \in Workers, NEW a \in Alerts, Finish(w, a),
           pc[w] \notin {"idle", "locked"}
    PROVE  EntryInv'
BY DEF Finish, EntryInv, ScanInv, ScanTypeOK, ScanPC, Busy, Stopping, NoMonitor

\* A busy worker that goes on with its entry.
LEMMA GotoKeepsEntries ==
    ASSUME ScanInv, EntryInv, NEW w \in Workers, pc[w] \in Busy,
           NEW label \in Busy, label \in Stopping => pc[w] \in Stopping,
           Goto(w, label), UNCHANGED <<seen, cur>>
    PROVE  EntryInv'
BY DEF Goto, EntryInv, ScanInv, ScanTypeOK, ScanPC, Busy, Stopping

\* Every step keeps EntryInv, the crash of a worker by emptying its list.
LEMMA EntryNext == TypeInv /\ EntryInv /\ [Next]_vars => EntryInv'
<1> SUFFICES ASSUME TypeInv, EntryInv, [Next]_vars PROVE EntryInv'
    OBVIOUS
<1> USE DEF TypeInv
<1>1. ASSUME NEW a \in Alerts, SendEscalation(a) PROVE EntryInv'
    BY <1>1, EntryFrame DEF SendEscalation, scanVars
<1>2. ASSUME NEW a \in Alerts, CommitEscalation(a) PROVE EntryInv'
    BY <1>2, EntryFrame DEF CommitEscalation, scanVars
<1>3. ASSUME NEW a \in Alerts, RegisterMonitor(a) PROVE EntryInv'
    BY <1>3, EntryFrame DEF RegisterMonitor, scanVars
<1>4. ASSUME NEW a \in Alerts, CrashEscalation(a) PROVE EntryInv'
    BY <1>4, EntryFrame DEF CrashEscalation, scanVars
<1>5. ASSUME NEW a \in Alerts, TimeoutElapses(a) PROVE EntryInv'
    BY <1>5, EntryFrame DEF TimeoutElapses, scanVars
<1>6. ASSUME NEW a \in Alerts, MonitorExpires(a) PROVE EntryInv'
    BY <1>6, EntryFrame DEF MonitorExpires, scanVars
<1>7. CASE LockExpires
    BY <1>7, EntryFrame DEF LockExpires, scanVars
<1>8. ASSUME NEW w \in Workers, AcquireScanLock(w) PROVE EntryInv'
    BY <1>8 DEF AcquireScanLock, EntryInv, ScanInv, ScanTypeOK, Busy, ScanPC, Stopping
<1>9. ASSUME NEW w \in Workers, GetAllActiveMonitors(w) PROVE EntryInv'
    <2>1. pc[w] = "locked" /\ pc' = [pc EXCEPT ![w] = "scan"] /\ cur' = cur
        BY <1>9 DEF GetAllActiveMonitors
    <2>2. \A v \in Workers : v # w => seen'[v] = seen[v]
        BY <1>9 DEF GetAllActiveMonitors, ScanInv, ScanTypeOK
    <2>3. QED
        BY <2>1, <2>2 DEF EntryInv, ScanInv, ScanTypeOK, Busy, ScanPC, Stopping
<1>10. ASSUME NEW w \in Workers, NEW a \in Alerts, SkipMonitor(w, a) PROVE EntryInv'
    BY <1>10, FinishKeepsEntries DEF SkipMonitor, InList, ScanInv, ScanTypeOK
<1>11. ASSUME NEW w \in Workers, NEW a \in Alerts, SendReminder(w, a)
      PROVE  EntryInv'
    BY <1>11 DEF SendReminder, MailReminder, InList, Goto, EntryInv, ScanInv, ScanTypeOK,
        Busy, ScanPC, Stopping
<1>12. ASSUME NEW w \in Workers, NEW a \in Alerts, SendReminderFails(w, a)
      PROVE  EntryInv'
    BY <1>12, FinishKeepsEntries DEF SendReminderFails, InList, ScanInv, ScanTypeOK
<1>13. ASSUME NEW w \in Workers, RecordReminder(w) PROVE EntryInv'
    BY <1>13, GotoKeepsEntries DEF RecordReminder, Busy, ScanPC, Stopping
<1>14. ASSUME NEW w \in Workers, ReadForUpdate(w) PROVE EntryInv'
    <2>1. pc[w] = "update" /\ cur[w] \in Alerts
        BY <1>14 DEF ReadForUpdate, ScanInv, FocusOK, Busy, ScanPC
    <2>2. CASE monitor[cur[w]].stored
        BY <1>14, <2>1, <2>2, GotoKeepsEntries DEF ReadForUpdate, Busy, ScanPC, Stopping
    <2>3. CASE ~monitor[cur[w]].stored
        BY <1>14, <2>1, <2>3, FinishKeepsEntries DEF ReadForUpdate
    <2>4. QED
        BY <2>2, <2>3
<1>15. ASSUME NEW w \in Workers, WriteUpdate(w) PROVE EntryInv'
    <2>1. cur[w] \in Alerts /\ Finish(w, cur[w]) /\ pc[w] \notin {"idle", "locked"}
        BY <1>15 DEF WriteUpdate, SaveUpdate, ScanInv, ScanTypeOK, FocusOK, Busy, ScanPC
    <2>2. QED
        BY <2>1, FinishKeepsEntries
<1>16. ASSUME NEW w \in Workers, NEW a \in Alerts, ReadForStop(w, a) PROVE EntryInv'
    <2>1. \E label \in {"stop", "unindex"} : pc' = [pc EXCEPT ![w] = label]
        BY <1>16 DEF ReadForStop, Goto
    <2>2. pc[w] = "scan" /\ seen[w][a].stored /\ seen[w][a].count >= MaxReminders
        BY <1>16 DEF ReadForStop, InList
    <2>3. cur' = [cur EXCEPT ![w] = a] /\ seen' = seen
        BY <1>16 DEF ReadForStop
    <2>4. QED
        BY <2>1, <2>2, <2>3 DEF EntryInv, ScanInv, ScanTypeOK, Busy, ScanPC, Stopping
<1>17. ASSUME NEW w \in Workers, WriteStopped(w) PROVE EntryInv'
    BY <1>17, GotoKeepsEntries DEF WriteStopped, Busy, ScanPC, Stopping
<1>18. ASSUME NEW w \in Workers, RemoveFromIndex(w) PROVE EntryInv'
    BY <1>18, GotoKeepsEntries DEF RemoveFromIndex, Busy, ScanPC, Stopping
<1>19. ASSUME NEW w \in Workers, DeleteAlertKey(w) PROVE EntryInv'
    BY <1>19, GotoKeepsEntries DEF DeleteAlertKey, Busy, ScanPC, Stopping
<1>20. ASSUME NEW w \in Workers, StopFails(w) PROVE EntryInv'
    BY <1>20, GotoKeepsEntries DEF StopFails, Busy, ScanPC, Stopping
<1>21. ASSUME NEW w \in Workers, FlagExhausted(w) PROVE EntryInv'
    BY <1>21, GotoKeepsEntries DEF FlagExhausted, Busy, ScanPC, Stopping
<1>22. ASSUME NEW w \in Workers, NotifySupport(w) PROVE EntryInv'
    <2>1. cur[w] \in Alerts /\ Finish(w, cur[w]) /\ pc[w] \notin {"idle", "locked"}
        BY <1>22 DEF NotifySupport, ScanInv, ScanTypeOK, FocusOK, Busy, ScanPC
    <2>2. QED
        BY <2>1, FinishKeepsEntries
<1>23. ASSUME NEW w \in Workers, MonitorAbandoned(w) PROVE EntryInv'
    <2>1. cur[w] \in Alerts /\ Finish(w, cur[w]) /\ pc[w] \notin {"idle", "locked"}
        BY <1>23 DEF MonitorAbandoned, ScanInv, ScanTypeOK, FocusOK, Busy, ScanPC
    <2>2. QED
        BY <2>1, FinishKeepsEntries
<1>24. ASSUME NEW w \in Workers, ReleaseScanLock(w) PROVE EntryInv'
    BY <1>24 DEF ReleaseScanLock, Goto, EntryInv, ScanInv, ScanTypeOK, Busy, ScanPC,
        Stopping
<1>25. ASSUME NEW w \in Workers, CrashScan(w) PROVE EntryInv'
    BY <1>25 DEF CrashScan, Goto, EntryInv, ScanInv, ScanTypeOK, Busy, ScanPC, Stopping,
        NoMonitor
<1>26. ASSUME NEW r \in Replies, NEW a \in Alerts, ReplyArrives(r, a)
      PROVE  EntryInv'
    BY <1>26, EntryFrame DEF ReplyArrives, scanVars
<1>27. ASSUME NEW r \in Replies, StoreReply(r) PROVE EntryInv'
    BY <1>27, EntryFrame DEF StoreReply, scanVars
<1>28. ASSUME NEW r \in Replies, ReadForMark(r) PROVE EntryInv'
    BY <1>28, EntryFrame DEF ReadForMark, scanVars
<1>29. ASSUME NEW r \in Replies, ReadForMarkFails(r) PROVE EntryInv'
    BY <1>29, EntryFrame DEF ReadForMarkFails, scanVars
<1>30. ASSUME NEW r \in Replies, MarkResponseReceived(r) PROVE EntryInv'
    BY <1>30, EntryFrame DEF MarkResponseReceived, scanVars
<1>31. ASSUME NEW r \in Replies, MarkFails(r) PROVE EntryInv'
    BY <1>31, EntryFrame DEF MarkFails, scanVars
<1>32. ASSUME NEW r \in Replies, MarkRemindersResponded(r) PROVE EntryInv'
    BY <1>32, EntryFrame DEF MarkRemindersResponded, scanVars
<1>33. ASSUME NEW r \in Replies, CrashReply(r) PROVE EntryInv'
    BY <1>33, EntryFrame DEF CrashReply, scanVars
<1>34. CASE UNCHANGED vars
    BY <1>34, EntryFrame DEF vars, scanVars
<1>35. QED
    BY <1>1, <1>2, <1>3, <1>4, <1>5, <1>6, <1>7, <1>8, <1>9, <1>10, <1>11, <1>12,
        <1>13, <1>14, <1>15, <1>16, <1>17, <1>18, <1>19, <1>20, <1>21, <1>22,
        <1>23, <1>24, <1>25, <1>26, <1>27, <1>28, <1>29, <1>30, <1>31, <1>32,
        <1>33, <1>34
    DEF Next, EscalationStep, ScanStep, ProcessMonitor, ReplyStep


(***************************************************************************)
(* The alert key.  stop_monitoring removes the index entry before the key, *)
(* a reply removes both at once, and registration sets both.               *)
(***************************************************************************)

KeyInv ==
    /\ ~KeysExpire => index \subseteq alertKey
    /\ \A w \in Workers : pc[w] = "unkey" => cur[w] \notin index

\* Only registration, stop_monitoring and replies touch index and keys.
LEMMA KeyFrame == KeyInv /\ UNCHANGED <<index, alertKey, pc, cur>> => KeyInv'
BY DEF KeyInv

\* A scan that takes some monitors off the index and goes on elsewhere.
LEMMA ScanKeepsKeys ==
    ASSUME ScanInv, KeyInv, NEW w \in Workers, NEW label \in ScanPC \ {"unkey"},
           index' \subseteq index, alertKey' = alertKey,
           pc' = [pc EXCEPT ![w] = label],
           \A v \in Workers \ {w} : cur'[v] = cur[v]
    PROVE  KeyInv'
BY DEF KeyInv, ScanInv, ScanTypeOK

\* Every step keeps KeyInv.
LEMMA KeyNext == TypeInv /\ RegisteredInv /\ KeyInv /\ [Next]_vars => KeyInv'
<1> SUFFICES ASSUME TypeInv, RegisteredInv, KeyInv, [Next]_vars PROVE KeyInv'
    OBVIOUS
<1> USE DEF TypeInv
<1>1. ASSUME NEW a \in Alerts, SendEscalation(a) PROVE KeyInv'
    BY <1>1, KeyFrame DEF SendEscalation, redisVars, scanVars
<1>2. ASSUME NEW a \in Alerts, CommitEscalation(a) PROVE KeyInv'
    BY <1>2, KeyFrame DEF CommitEscalation, redisVars, scanVars
<1>3. ASSUME NEW a \in Alerts, RegisterMonitor(a) PROVE KeyInv'
    <2>1. \A w \in Workers : pc[w] = "unkey" => cur[w] # a
        BY <1>3 DEF RegisterMonitor, RegisteredInv, Registered, Busy, ScanPC
    <2>2. QED
        BY <1>3, <2>1 DEF RegisterMonitor, KeyInv, scanVars
<1>4. ASSUME NEW a \in Alerts, CrashEscalation(a) PROVE KeyInv'
    BY <1>4, KeyFrame DEF CrashEscalation, redisVars, scanVars
<1>5. ASSUME NEW a \in Alerts, TimeoutElapses(a) PROVE KeyInv'
    BY <1>5, KeyFrame DEF TimeoutElapses, redisVars, scanVars
<1>6. ASSUME NEW a \in Alerts, MonitorExpires(a) PROVE KeyInv'
    BY <1>6 DEF MonitorExpires, KeyInv, scanVars
<1>7. CASE LockExpires
    BY <1>7, KeyFrame DEF LockExpires, redisVars, scanVars
<1>8. ASSUME NEW w \in Workers, AcquireScanLock(w) PROVE KeyInv'
    <2>1. index' = index /\ alertKey' = alertKey
        BY <1>8 DEF AcquireScanLock, redisVars
    <2>2. pc' = [pc EXCEPT ![w] = "locked"] /\ \A v \in Workers \ {w} : cur'[v] = cur[v]
        BY <1>8 DEF AcquireScanLock, Finish, Goto, ScanInv, ScanTypeOK
    <2>3. QED
        BY <2>1, <2>2, ScanKeepsKeys DEF ScanPC
<1>9. ASSUME NEW w \in Workers, GetAllActiveMonitors(w) PROVE KeyInv'
    <2>1. index' \subseteq index /\ alertKey' = alertKey
        BY <1>9 DEF GetAllActiveMonitors
    <2>2. pc' = [pc EXCEPT ![w] = "scan"] /\ cur' = cur
        BY <1>9 DEF GetAllActiveMonitors
    <2>3. QED
        BY <2>1, <2>2, ScanKeepsKeys DEF ScanPC
<1>10. ASSUME NEW w \in Workers, NEW a \in Alerts, SkipMonitor(w, a) PROVE KeyInv'
    <2>1. index' = index /\ alertKey' = alertKey
        BY <1>10 DEF SkipMonitor, redisVars
    <2>2. pc' = [pc EXCEPT ![w] = "scan"] /\ \A v \in Workers \ {w} : cur'[v] = cur[v]
        BY <1>10 DEF SkipMonitor, Finish, Goto, ScanInv, ScanTypeOK
    <2>3. QED
        BY <2>1, <2>2, ScanKeepsKeys DEF ScanPC
<1>11. ASSUME NEW w \in Workers, NEW a \in Alerts, SendReminder(w, a) PROVE KeyInv'
    <2>1. index' = index /\ alertKey' = alertKey
        BY <1>11 DEF SendReminder, MailReminder, redisVars
    <2>2. pc' = [pc EXCEPT ![w] = "record"] /\ \A v \in Workers \ {w} : cur'[v] = cur[v]
        BY <1>11 DEF SendReminder, MailReminder, Finish, Goto, ScanInv, ScanTypeOK
    <2>3. QED
        BY <2>1, <2>2, ScanKeepsKeys DEF ScanPC
<1>12. ASSUME NEW w \in Workers, NEW a \in Alerts, SendReminderFails(w, a)
      PROVE  KeyInv'
    <2>1. index' = index /\ alertKey' = alertKey
        BY <1>12 DEF SendReminderFails, redisVars
    <2>2. pc' = [pc EXCEPT ![w] = "scan"] /\ \A v \in Workers \ {w} : cur'[v] = cur[v]
        BY <1>12 DEF SendReminderFails, Finish, Goto, ScanInv, ScanTypeOK
    <2>3. QED
        BY <2>1, <2>2, ScanKeepsKeys DEF ScanPC
<1>13. ASSUME NEW w \in Workers, RecordReminder(w) PROVE KeyInv'
    <2>1. index' = index /\ alertKey' = alertKey
        BY <1>13 DEF RecordReminder, redisVars
    <2>2. pc' = [pc EXCEPT ![w] = "update"] /\ \A v \in Workers \ {w} : cur'[v] = cur[v]
        BY <1>13 DEF RecordReminder, Finish, Goto, ScanInv, ScanTypeOK
    <2>3. QED
        BY <2>1, <2>2, ScanKeepsKeys DEF ScanPC
<1>14. ASSUME NEW w \in Workers, ReadForUpdate(w) PROVE KeyInv'
    <2>1. index' = index /\ alertKey' = alertKey
        BY <1>14 DEF ReadForUpdate, redisVars
    <2>2. \E label \in {"write", "scan"} : pc' = [pc EXCEPT ![w] = label]
        BY <1>14 DEF ReadForUpdate, Finish, Goto
    <2>3. \A v \in Workers \ {w} : cur'[v] = cur[v]
        BY <1>14 DEF ReadForUpdate, Finish, ScanInv, ScanTypeOK
    <2>4. QED
        BY <2>1, <2>2, <2>3, ScanKeepsKeys DEF ScanPC
<1>15. ASSUME NEW w \in Workers, WriteUpdate(w) PROVE KeyInv'
    <2>1. index' = index /\ alertKey' = alertKey
        BY <1>15 DEF WriteUpdate, SaveUpdate, redisVars
    <2>2. pc' = [pc EXCEPT ![w] = "scan"] /\ \A v \in Workers \ {w} : cur'[v] = cur[v]
        BY <1>15 DEF WriteUpdate, SaveUpdate, Finish, Goto, ScanInv, ScanTypeOK
    <2>3. QED
        BY <2>1, <2>2, ScanKeepsKeys DEF ScanPC
<1>16. ASSUME NEW w \in Workers, NEW a \in Alerts, ReadForStop(w, a) PROVE KeyInv'
    <2>1. index' = index /\ alertKey' = alertKey
        BY <1>16 DEF ReadForStop, redisVars
    <2>2. \E label \in {"stop", "unindex"} : pc' = [pc EXCEPT ![w] = label]
        BY <1>16 DEF ReadForStop, Finish, Goto
    <2>3. \A v \in Workers \ {w} : cur'[v] = cur[v]
        BY <1>16 DEF ReadForStop, Finish, ScanInv, ScanTypeOK
    <2>4. QED
        BY <2>1, <2>2, <2>3, ScanKeepsKeys DEF ScanPC
<1>17. ASSUME NEW w \in Workers, WriteStopped(w) PROVE KeyInv'
    <2>1. index' = index /\ alertKey' = alertKey
        BY <1>17 DEF WriteStopped, redisVars
    <2>2. pc' = [pc EXCEPT ![w] = "unindex"] /\ \A v \in Workers \ {w} : cur'[v] = cur[v]
        BY <1>17 DEF WriteStopped, Finish, Goto, ScanInv, ScanTypeOK
    <2>3. QED
        BY <2>1, <2>2, ScanKeepsKeys DEF ScanPC
<1>18. ASSUME NEW w \in Workers, RemoveFromIndex(w) PROVE KeyInv'
    BY <1>18 DEF RemoveFromIndex, Goto, KeyInv, ScanInv, ScanTypeOK
<1>19. ASSUME NEW w \in Workers, DeleteAlertKey(w) PROVE KeyInv'
    BY <1>19 DEF DeleteAlertKey, Goto, KeyInv, ScanInv, ScanTypeOK
<1>20. ASSUME NEW w \in Workers, StopFails(w) PROVE KeyInv'
    <2>1. index' = index /\ alertKey' = alertKey
        BY <1>20 DEF StopFails, redisVars
    <2>2. pc' = [pc EXCEPT ![w] = "flag"] /\ \A v \in Workers \ {w} : cur'[v] = cur[v]
        BY <1>20 DEF StopFails, Finish, Goto, ScanInv, ScanTypeOK
    <2>3. QED
        BY <2>1, <2>2, ScanKeepsKeys DEF ScanPC
<1>21. ASSUME NEW w \in Workers, FlagExhausted(w) PROVE KeyInv'
    <2>1. index' = index /\ alertKey' = alertKey
        BY <1>21 DEF FlagExhausted, redisVars
    <2>2. pc' = [pc EXCEPT ![w] = "notify"] /\ \A v \in Workers \ {w} : cur'[v] = cur[v]
        BY <1>21 DEF FlagExhausted, Finish, Goto, ScanInv, ScanTypeOK
    <2>3. QED
        BY <2>1, <2>2, ScanKeepsKeys DEF ScanPC
<1>22. ASSUME NEW w \in Workers, NotifySupport(w) PROVE KeyInv'
    <2>1. index' = index /\ alertKey' = alertKey
        BY <1>22 DEF NotifySupport, redisVars
    <2>2. pc' = [pc EXCEPT ![w] = "scan"] /\ \A v \in Workers \ {w} : cur'[v] = cur[v]
        BY <1>22 DEF NotifySupport, Finish, Goto, ScanInv, ScanTypeOK
    <2>3. QED
        BY <2>1, <2>2, ScanKeepsKeys DEF ScanPC
<1>23. ASSUME NEW w \in Workers, MonitorAbandoned(w) PROVE KeyInv'
    <2>1. index' = index /\ alertKey' = alertKey
        BY <1>23 DEF MonitorAbandoned, redisVars
    <2>2. pc' = [pc EXCEPT ![w] = "scan"] /\ \A v \in Workers \ {w} : cur'[v] = cur[v]
        BY <1>23 DEF MonitorAbandoned, Finish, Goto, ScanInv, ScanTypeOK
    <2>3. QED
        BY <2>1, <2>2, ScanKeepsKeys DEF ScanPC
<1>24. ASSUME NEW w \in Workers, ReleaseScanLock(w) PROVE KeyInv'
    <2>1. index' = index /\ alertKey' = alertKey
        BY <1>24 DEF ReleaseScanLock, redisVars
    <2>2. pc' = [pc EXCEPT ![w] = "idle"] /\ \A v \in Workers \ {w} : cur'[v] = cur[v]
        BY <1>24 DEF ReleaseScanLock, Finish, Goto, ScanInv, ScanTypeOK
    <2>3. QED
        BY <2>1, <2>2, ScanKeepsKeys DEF ScanPC
<1>25. ASSUME NEW w \in Workers, CrashScan(w) PROVE KeyInv'
    <2>1. index' = index /\ alertKey' = alertKey
        BY <1>25 DEF CrashScan, redisVars
    <2>2. pc' = [pc EXCEPT ![w] = "idle"] /\ \A v \in Workers \ {w} : cur'[v] = cur[v]
        BY <1>25 DEF CrashScan, Finish, Goto, ScanInv, ScanTypeOK
    <2>3. QED
        BY <2>1, <2>2, ScanKeepsKeys DEF ScanPC
<1>26. ASSUME NEW r \in Replies, NEW a \in Alerts, ReplyArrives(r, a) PROVE KeyInv'
    BY <1>26, KeyFrame DEF ReplyArrives, redisVars, scanVars
<1>27. ASSUME NEW r \in Replies, StoreReply(r) PROVE KeyInv'
    BY <1>27, KeyFrame DEF StoreReply, redisVars, scanVars
<1>28. ASSUME NEW r \in Replies, ReadForMark(r) PROVE KeyInv'
    BY <1>28, KeyFrame DEF ReadForMark, redisVars, scanVars
<1>29. ASSUME NEW r \in Replies, ReadForMarkFails(r) PROVE KeyInv'
    BY <1>29, KeyFrame DEF ReadForMarkFails, redisVars, scanVars
<1>30. ASSUME NEW r \in Replies, MarkResponseReceived(r) PROVE KeyInv'
    BY <1>30 DEF MarkResponseReceived, KeyInv, scanVars
<1>31. ASSUME NEW r \in Replies, MarkFails(r) PROVE KeyInv'
    BY <1>31, KeyFrame DEF MarkFails, redisVars, scanVars
<1>32. ASSUME NEW r \in Replies, MarkRemindersResponded(r) PROVE KeyInv'
    BY <1>32, KeyFrame DEF MarkRemindersResponded, redisVars, scanVars
<1>33. ASSUME NEW r \in Replies, CrashReply(r) PROVE KeyInv'
    BY <1>33, KeyFrame DEF CrashReply, redisVars, scanVars
<1>34. CASE UNCHANGED vars
    BY <1>34, KeyFrame DEF vars, redisVars, scanVars
<1>35. QED
    BY <1>1, <1>2, <1>3, <1>4, <1>5, <1>6, <1>7, <1>8, <1>9, <1>10, <1>11, <1>12,
        <1>13, <1>14, <1>15, <1>16, <1>17, <1>18, <1>19, <1>20, <1>21, <1>22,
        <1>23, <1>24, <1>25, <1>26, <1>27, <1>28, <1>29, <1>30, <1>31, <1>32,
        <1>33, <1>34
    DEF Next, EscalationStep, ScanStep, ProcessMonitor, ReplyStep

\* While keys do not expire, an indexed monitor has its alert key: a reply
\* that names only the alert finds every monitor a scan can still see.
THEOREM KeysBackIndex == Spec => []AlertKeyBacksIndex
<1>1. Init => KeyInv
    BY DEF Init, KeyInv
<1>2. KeyInv => AlertKeyBacksIndex
    BY DEF KeyInv, AlertKeyBacksIndex
<1>3. QED
    BY TypeInit, TypeNext, RegisteredInit, RegisteredNext, KeyNext, <1>1, <1>2, PTL
    DEF Spec

(***************************************************************************)
(* A handled reply.  The states that stale writes bring back are copies of *)
(* stored ones, so the monitor of a registered alert is always found; and  *)
(* when it is found by no key, it has left the index already.              *)
(***************************************************************************)

\* Without expiry nothing that is stored, or will be written, gets lost.
StoredInv ==
    /\ ~KeysExpire => \A a \in Registered : monitor[a].stored
    /\ \A w \in Workers : pc[w] \in {"write", "stop"} => copy[w].stored
    /\ \A r \in Replies : reply[r].pc = "mark" => reply[r].copy.stored

\* Nothing is registered yet, nor copied.
LEMMA StoredInit == Init => StoredInv
BY DEF Init, StoredInv, Registered, NoReply

\* StoredInv reads monitors, registrations and copies only.
LEMMA StoredFrame ==
    StoredInv /\ UNCHANGED <<monitor, escalation, pc, copy, reply>> => StoredInv'
BY DEF StoredInv, Registered

\* A worker that goes on without anything to write.
LEMMA ScanKeepsStored ==
    ASSUME ScanInv, StoredInv, NEW w \in Workers, NEW label \in ScanPC \ {"write", "stop"},
           UNCHANGED <<monitor, escalation, reply>>, pc' = [pc EXCEPT ![w] = label],
           \A v \in Workers \ {w} : copy'[v] = copy[v]
    PROVE  StoredInv'
BY DEF StoredInv, Registered, ScanInv, ScanTypeOK

\* A reply that goes on without a copy of its own.
LEMMA ReplyKeepsStored ==
    ASSUME TaskInv, StoredInv, NEW r \in Replies, reply'[r].pc # "mark",
           UNCHANGED <<monitor, escalation, pc, copy>>,
           \A q \in Replies \ {r} : reply'[q] = reply[q]
    PROVE  StoredInv'
BY DEF StoredInv, Registered, TaskInv, TaskTypeOK

\* Every step keeps StoredInv: what is written back was stored when read.
LEMMA StoredNext == TypeInv /\ StoredInv /\ [Next]_vars => StoredInv'
<1> SUFFICES ASSUME TypeInv, StoredInv, [Next]_vars PROVE StoredInv'
    OBVIOUS
<1> USE DEF TypeInv
<1>1. ASSUME NEW a \in Alerts, SendEscalation(a) PROVE StoredInv'
    BY <1>1 DEF SendEscalation, StoredInv, Registered, TaskInv, TaskTypeOK, redisVars, scanVars
<1>2. ASSUME NEW a \in Alerts, CommitEscalation(a) PROVE StoredInv'
    BY <1>2 DEF CommitEscalation, StoredInv, Registered, TaskInv, TaskTypeOK, redisVars, scanVars
<1>3. ASSUME NEW a \in Alerts, RegisterMonitor(a) PROVE StoredInv'
    BY <1>3 DEF RegisterMonitor, StoredInv, Registered, TaskInv, TaskTypeOK, RedisTypeOK,
        NewMonitor, scanVars
<1>4. ASSUME NEW a \in Alerts, CrashEscalation(a) PROVE StoredInv'
    BY <1>4 DEF CrashEscalation, StoredInv, Registered, TaskInv, TaskTypeOK, redisVars, scanVars
<1>5. ASSUME NEW a \in Alerts, TimeoutElapses(a) PROVE StoredInv'
    BY <1>5 DEF TimeoutElapses, StoredInv, Registered, RedisTypeOK, Monitor, scanVars
<1>6. ASSUME NEW a \in Alerts, MonitorExpires(a) PROVE StoredInv'
    BY <1>6 DEF MonitorExpires, StoredInv, scanVars
<1>7. CASE LockExpires
    BY <1>7, StoredFrame DEF LockExpires, redisVars, scanVars
<1>8. ASSUME NEW w \in Workers, AcquireScanLock(w) PROVE StoredInv'
    <2>1. UNCHANGED <<monitor, escalation, reply>>
        BY <1>8 DEF AcquireScanLock, redisVars
    <2>2. pc' = [pc EXCEPT ![w] = "locked"] /\ \A v \in Workers \ {w} : copy'[v] = copy[v]
        BY <1>8 DEF AcquireScanLock, Finish, Goto, ScanInv, ScanTypeOK
    <2>3. QED
        BY <2>1, <2>2, ScanKeepsStored DEF ScanPC
<1>9. ASSUME NEW w \in Workers, GetAllActiveMonitors(w) PROVE StoredInv'
    <2>1. UNCHANGED <<monitor, escalation, reply>>
        BY <1>9 DEF GetAllActiveMonitors, redisVars
    <2>2. pc' = [pc EXCEPT ![w] = "scan"] /\ \A v \in Workers \ {w} : copy'[v] = copy[v]
        BY <1>9 DEF GetAllActiveMonitors, Finish, Goto, ScanInv, ScanTypeOK
    <2>3. QED
        BY <2>1, <2>2, ScanKeepsStored DEF ScanPC
<1>10. ASSUME NEW w \in Workers, NEW a \in Alerts, SkipMonitor(w, a)
      PROVE  StoredInv'
    <2>1. UNCHANGED <<monitor, escalation, reply>>
        BY <1>10 DEF SkipMonitor, redisVars
    <2>2. pc' = [pc EXCEPT ![w] = "scan"] /\ \A v \in Workers \ {w} : copy'[v] = copy[v]
        BY <1>10 DEF SkipMonitor, Finish, Goto, ScanInv, ScanTypeOK
    <2>3. QED
        BY <2>1, <2>2, ScanKeepsStored DEF ScanPC
<1>11. ASSUME NEW w \in Workers, NEW a \in Alerts, SendReminder(w, a)
      PROVE  StoredInv'
    <2>1. UNCHANGED <<monitor, escalation, reply>>
        BY <1>11 DEF SendReminder, MailReminder, redisVars
    <2>2. pc' = [pc EXCEPT ![w] = "record"] /\ \A v \in Workers \ {w} : copy'[v] = copy[v]
        BY <1>11 DEF SendReminder, MailReminder, Finish, Goto, ScanInv, ScanTypeOK
    <2>3. QED
        BY <2>1, <2>2, ScanKeepsStored DEF ScanPC
<1>12. ASSUME NEW w \in Workers, NEW a \in Alerts, SendReminderFails(w, a)
      PROVE  StoredInv'
    <2>1. UNCHANGED <<monitor, escalation, reply>>
        BY <1>12 DEF SendReminderFails, redisVars
    <2>2. pc' = [pc EXCEPT ![w] = "scan"] /\ \A v \in Workers \ {w} : copy'[v] = copy[v]
        BY <1>12 DEF SendReminderFails, Finish, Goto, ScanInv, ScanTypeOK
    <2>3. QED
        BY <2>1, <2>2, ScanKeepsStored DEF ScanPC
<1>13. ASSUME NEW w \in Workers, RecordReminder(w) PROVE StoredInv'
    <2>1. UNCHANGED <<monitor, escalation, reply>>
        BY <1>13 DEF RecordReminder, redisVars
    <2>2. pc' = [pc EXCEPT ![w] = "update"] /\ \A v \in Workers \ {w} : copy'[v] = copy[v]
        BY <1>13 DEF RecordReminder, Finish, Goto, ScanInv, ScanTypeOK
    <2>3. QED
        BY <2>1, <2>2, ScanKeepsStored DEF ScanPC
<1>14. ASSUME NEW w \in Workers, ReadForUpdate(w) PROVE StoredInv'
    <2>1. UNCHANGED <<monitor, escalation, reply>>
        BY <1>14 DEF ReadForUpdate, redisVars
    <2>2. CASE monitor[cur[w]].stored
        BY <1>14, <2>1, <2>2 DEF ReadForUpdate, Goto, StoredInv, Registered, ScanInv,
            ScanTypeOK
    <2>3. CASE ~monitor[cur[w]].stored
        BY <1>14, <2>1, <2>3, ScanKeepsStored
        DEF ReadForUpdate, Finish, ScanInv, ScanTypeOK, ScanPC
    <2>4. QED
        BY <2>2, <2>3
<1>15. ASSUME NEW w \in Workers, WriteUpdate(w) PROVE StoredInv'
    <2>1. cur[w] \in Alerts /\ copy[w] \in Monitor /\ copy[w].stored
        BY <1>15 DEF WriteUpdate, SaveUpdate, StoredInv, ScanInv, ScanTypeOK, FocusOK,
            Busy, ScanPC
    <2>2. \A a \in Alerts : monitor[a].stored => monitor'[a].stored
        BY <1>15, <2>1 DEF WriteUpdate, SaveUpdate, RedisTypeOK, Monitor
    <2>3. pc' = [pc EXCEPT ![w] = "scan"] /\ \A v \in Workers \ {w} : copy'[v] = copy[v]
        BY <1>15 DEF WriteUpdate, SaveUpdate, Finish, ScanInv, ScanTypeOK
    <2>4. UNCHANGED <<escalation, reply>>
        BY <1>15 DEF WriteUpdate, SaveUpdate
    <2>5. QED
        BY <2>2, <2>3, <2>4 DEF StoredInv, Registered, ScanInv, ScanTypeOK
<1>16. ASSUME NEW w \in Workers, NEW a \in Alerts, ReadForStop(w, a)
      PROVE  StoredInv'
    <2>1. UNCHANGED <<monitor, escalation, reply>>
        BY <1>16 DEF ReadForStop, redisVars
    <2>2. CASE /\ pc' = [pc EXCEPT ![w] = "stop"] /\ monitor[a].stored
               /\ copy' = [copy EXCEPT ![w] = monitor[a]]
        BY <2>1, <2>2 DEF StoredInv, Registered, ScanInv, ScanTypeOK
    <2>3. CASE pc' = [pc EXCEPT ![w] = "unindex"]
        <3>1. \A v \in Workers \ {w} : copy'[v] = copy[v]
            BY <1>16 DEF ReadForStop, ScanInv, ScanTypeOK
        <3>2. QED
            BY <2>1, <2>3, <3>1, ScanKeepsStored DEF ScanPC
    <2>4. QED
        BY <1>16, <2>2, <2>3 DEF ReadForStop, Goto
<1>17. ASSUME NEW w \in Workers, WriteStopped(w) PROVE StoredInv'
    <2>1. copy[w] \in Monitor /\ copy[w].stored
        BY <1>17 DEF WriteStopped, StoredInv, ScanInv, ScanTypeOK
    <2>2. \A a \in Alerts : monitor[a].stored => monitor'[a].stored
        BY <1>17, <2>1 DEF WriteStopped, RedisTypeOK, Monitor
    <2>3. pc' = [pc EXCEPT ![w] = "unindex"] /\ UNCHANGED <<copy, escalation, reply>>
        BY <1>17 DEF WriteStopped, Goto
    <2>4. QED
        BY <2>2, <2>3 DEF StoredInv, Registered, ScanInv, ScanTypeOK
<1>18. ASSUME NEW w \in Workers, RemoveFromIndex(w) PROVE StoredInv'
    <2>1. UNCHANGED <<monitor, escalation, reply>>
        BY <1>18 DEF RemoveFromIndex, redisVars
    <2>2. pc' = [pc EXCEPT ![w] = "unkey"] /\ \A v \in Workers \ {w} : copy'[v] = copy[v]
        BY <1>18 DEF RemoveFromIndex, Finish, Goto, ScanInv, ScanTypeOK
    <2>3. QED
        BY <2>1, <2>2, ScanKeepsStored DEF ScanPC
<1>19. ASSUME NEW w \in Workers, DeleteAlertKey(w) PROVE StoredInv'
    <2>1. UNCHANGED <<monitor, escalation, reply>>
        BY <1>19 DEF DeleteAlertKey, redisVars
    <2>2. pc' = [pc EXCEPT ![w] = "flag"] /\ \A v \in Workers \ {w} : copy'[v] = copy[v]
        BY <1>19 DEF DeleteAlertKey, Finish, Goto, ScanInv, ScanTypeOK
    <2>3. QED
        BY <2>1, <2>2, ScanKeepsStored DEF ScanPC
<1>20. ASSUME NEW w \in Workers, StopFails(w) PROVE StoredInv'
    <2>1. UNCHANGED <<monitor, escalation, reply>>
        BY <1>20 DEF StopFails, redisVars
    <2>2. pc' = [pc EXCEPT ![w] = "flag"] /\ \A v \in Workers \ {w} : copy'[v] = copy[v]
        BY <1>20 DEF StopFails, Finish, Goto, ScanInv, ScanTypeOK
    <2>3. QED
        BY <2>1, <2>2, ScanKeepsStored DEF ScanPC
<1>21. ASSUME NEW w \in Workers, FlagExhausted(w) PROVE StoredInv'
    <2>1. UNCHANGED <<monitor, escalation, reply>>
        BY <1>21 DEF FlagExhausted, redisVars
    <2>2. pc' = [pc EXCEPT ![w] = "notify"] /\ \A v \in Workers \ {w} : copy'[v] = copy[v]
        BY <1>21 DEF FlagExhausted, Finish, Goto, ScanInv, ScanTypeOK
    <2>3. QED
        BY <2>1, <2>2, ScanKeepsStored DEF ScanPC
<1>22. ASSUME NEW w \in Workers, NotifySupport(w) PROVE StoredInv'
    <2>1. UNCHANGED <<monitor, escalation, reply>>
        BY <1>22 DEF NotifySupport, redisVars
    <2>2. pc' = [pc EXCEPT ![w] = "scan"] /\ \A v \in Workers \ {w} : copy'[v] = copy[v]
        BY <1>22 DEF NotifySupport, Finish, Goto, ScanInv, ScanTypeOK
    <2>3. QED
        BY <2>1, <2>2, ScanKeepsStored DEF ScanPC
<1>23. ASSUME NEW w \in Workers, MonitorAbandoned(w) PROVE StoredInv'
    <2>1. UNCHANGED <<monitor, escalation, reply>>
        BY <1>23 DEF MonitorAbandoned, redisVars
    <2>2. pc' = [pc EXCEPT ![w] = "scan"] /\ \A v \in Workers \ {w} : copy'[v] = copy[v]
        BY <1>23 DEF MonitorAbandoned, Finish, Goto, ScanInv, ScanTypeOK
    <2>3. QED
        BY <2>1, <2>2, ScanKeepsStored DEF ScanPC
<1>24. ASSUME NEW w \in Workers, ReleaseScanLock(w) PROVE StoredInv'
    <2>1. UNCHANGED <<monitor, escalation, reply>>
        BY <1>24 DEF ReleaseScanLock, redisVars
    <2>2. pc' = [pc EXCEPT ![w] = "idle"] /\ \A v \in Workers \ {w} : copy'[v] = copy[v]
        BY <1>24 DEF ReleaseScanLock, Finish, Goto, ScanInv, ScanTypeOK
    <2>3. QED
        BY <2>1, <2>2, ScanKeepsStored DEF ScanPC
<1>25. ASSUME NEW w \in Workers, CrashScan(w) PROVE StoredInv'
    <2>1. UNCHANGED <<monitor, escalation, reply>>
        BY <1>25 DEF CrashScan, redisVars
    <2>2. pc' = [pc EXCEPT ![w] = "idle"] /\ \A v \in Workers \ {w} : copy'[v] = copy[v]
        BY <1>25 DEF CrashScan, Finish, Goto, ScanInv, ScanTypeOK
    <2>3. QED
        BY <2>1, <2>2, ScanKeepsStored DEF ScanPC
<1>26. ASSUME NEW r \in Replies, NEW a \in Alerts, ReplyArrives(r, a)
      PROVE  StoredInv'
    BY <1>26, ReplyKeepsStored
    DEF ReplyArrives, SetReply, NoReply, redisVars, scanVars, TaskInv, TaskTypeOK, Reply
<1>27. ASSUME NEW r \in Replies, StoreReply(r) PROVE StoredInv'
    BY <1>27, ReplyKeepsStored
    DEF StoreReply, SetReply, NoReply, redisVars, scanVars, TaskInv, TaskTypeOK, Reply
<1>28. ASSUME NEW r \in Replies, ReadForMark(r) PROVE StoredInv'
    BY <1>28 DEF ReadForMark, SetReply, StoredInv, Registered, TaskInv, TaskTypeOK, Reply,
        redisVars, scanVars
<1>29. ASSUME NEW r \in Replies, ReadForMarkFails(r) PROVE StoredInv'
    BY <1>29, ReplyKeepsStored
    DEF ReadForMarkFails, SetReply, NoReply, redisVars, scanVars, TaskInv, TaskTypeOK, Reply
<1>30. ASSUME NEW r \in Replies, MarkResponseReceived(r) PROVE StoredInv'
    <2>1. reply[r].copy \in Monitor /\ reply[r].copy.stored
        BY <1>30 DEF MarkResponseReceived, StoredInv, TaskInv, TaskTypeOK, Reply
    <2>2. \A a \in Alerts : monitor[a].stored => monitor'[a].stored
        BY <1>30, <2>1 DEF MarkResponseReceived, RedisTypeOK, Monitor
    <2>3. \A q \in Replies : reply'[q].pc = "mark" => reply'[q] = reply[q]
        BY <1>30 DEF MarkResponseReceived, TaskInv, TaskTypeOK, Reply
    <2>4. UNCHANGED <<pc, copy, escalation>>
        BY <1>30 DEF MarkResponseReceived, scanVars
    <2>5. QED
        BY <2>2, <2>3, <2>4 DEF StoredInv, Registered
<1>31. ASSUME NEW r \in Replies, MarkFails(r) PROVE StoredInv'
    BY <1>31, ReplyKeepsStored
    DEF MarkFails, SetReply, NoReply, redisVars, scanVars, TaskInv, TaskTypeOK, Reply
<1>32. ASSUME NEW r \in Replies, MarkRemindersResponded(r) PROVE StoredInv'
    BY <1>32, ReplyKeepsStored
    DEF MarkRemindersResponded, SetReply, NoReply, redisVars, scanVars, TaskInv, TaskTypeOK, Reply
<1>33. ASSUME NEW r \in Replies, CrashReply(r) PROVE StoredInv'
    BY <1>33, ReplyKeepsStored
    DEF CrashReply, SetReply, NoReply, redisVars, scanVars, TaskInv, TaskTypeOK, Reply
<1>34. CASE UNCHANGED vars
    BY <1>34, StoredFrame DEF vars, redisVars, scanVars
<1>35. QED
    BY <1>1, <1>2, <1>3, <1>4, <1>5, <1>6, <1>7, <1>8, <1>9, <1>10, <1>11, <1>12,
        <1>13, <1>14, <1>15, <1>16, <1>17, <1>18, <1>19, <1>20, <1>21, <1>22,
        <1>23, <1>24, <1>25, <1>26, <1>27, <1>28, <1>29, <1>30, <1>31, <1>32,
        <1>33, <1>34
    DEF Next, EscalationStep, ScanStep, ProcessMonitor, ReplyStep

\* A reply that knew its monitor, and whose task is past the cancel without a
\* swallowed error, has found the monitor off the index or taken it off.
AnswerInv ==
    /\ \A r \in Replies : reply[r].known => reply[r].alert \in Registered
    /\ ~KeysExpire /\ faults = 0 =>
           \A r \in Replies :
               reply[r].known /\ reply[r].pc \in {"rows", "done"} =>
                   reply[r].alert \notin index

\* No reply has arrived yet.
LEMMA AnswerInit == Init => AnswerInv
BY DEF Init, AnswerInv, NoReply

\* Errors are counted, never forgotten.
LEMMA ErrorsGrow == BoundsOK /\ (NoFault \/ Fault \/ Crash) =>
    /\ faults' = 0 => faults = 0
    /\ crashes' = 0 => crashes = 0
    /\ faults' \in Nat /\ crashes' \in Nat
    /\ faults' + crashes' >= faults + crashes
    /\ faults' >= faults
BY ConstantsAssumption DEF BoundsOK, NoFault, Fault, Crash, boundVars

\* A step outside the reply tasks that adds nothing to the index.
LEMMA OthersKeepAnswers ==
    ASSUME BoundsOK, AnswerInv, NoFault \/ Fault \/ Crash, reply' = reply,
           index' \subseteq index, Registered \subseteq Registered'
    PROVE  AnswerInv'
BY ErrorsGrow DEF AnswerInv

\* A reply task that is not past the cancel, or cannot be without an error.
LEMMA ReplyKeepsAnswers ==
    ASSUME BoundsOK, TaskInv, AnswerInv, NoFault \/ Fault \/ Crash, NEW r \in Replies,
           UNCHANGED <<index, escalation>>,
           \A q \in Replies \ {r} : reply'[q] = reply[q],
           reply'[r].known => reply'[r].alert \in Registered,
           \/ reply'[r].pc \notin {"rows", "done"}
           \/ faults' > 0
           \/ reply[r].pc = "rows" /\ reply'[r].known = reply[r].known
              /\ reply'[r].alert = reply[r].alert
    PROVE  AnswerInv'
<1>1. Registered' = Registered
    BY DEF Registered
<1>2. faults' = 0 => faults = 0
    BY ErrorsGrow
<1>3. QED
    BY <1>1, <1>2 DEF AnswerInv, TaskInv, TaskTypeOK

\* Every step keeps AnswerInv; a reply gets past the cancel only with the
\* monitor off the index.
LEMMA AnswerNext ==
    TypeInv /\ KeyInv /\ StoredInv /\ AnswerInv /\ [Next]_vars => AnswerInv'
<1> SUFFICES ASSUME TypeInv, KeyInv, StoredInv, AnswerInv, [Next]_vars
             PROVE  AnswerInv'
    OBVIOUS
<1> USE DEF TypeInv
<1>1. ASSUME NEW a \in Alerts, SendEscalation(a) PROVE AnswerInv'
    <2>1. Registered \subseteq Registered'
        BY <1>1 DEF SendEscalation, Registered, TaskInv, TaskTypeOK
    <2>2. QED
        BY <1>1, <2>1, OthersKeepAnswers DEF SendEscalation, redisVars
<1>2. ASSUME NEW a \in Alerts, CommitEscalation(a) PROVE AnswerInv'
    <2>1. Registered \subseteq Registered'
        BY <1>2 DEF CommitEscalation, Registered, TaskInv, TaskTypeOK
    <2>2. QED
        BY <1>2, <2>1, OthersKeepAnswers DEF CommitEscalation, redisVars
<1>3. ASSUME NEW a \in Alerts, RegisterMonitor(a) PROVE AnswerInv'
    <2>1. a \notin Registered /\ Registered \subseteq Registered' /\ index' \subseteq index \cup {a}
        BY <1>3 DEF RegisterMonitor, Registered, TaskInv, TaskTypeOK
    <2>2. reply' = reply /\ (NoFault \/ Fault)
        BY <1>3 DEF RegisterMonitor
    <2>3. QED
        BY <2>1, <2>2, ErrorsGrow DEF AnswerInv
<1>4. ASSUME NEW a \in Alerts, CrashEscalation(a) PROVE AnswerInv'
    <2>1. Registered \subseteq Registered'
        BY <1>4 DEF CrashEscalation, Registered, TaskInv, TaskTypeOK
    <2>2. QED
        BY <1>4, <2>1, OthersKeepAnswers DEF CrashEscalation, redisVars
<1>5. ASSUME NEW a \in Alerts, TimeoutElapses(a) PROVE AnswerInv'
    BY <1>5, OthersKeepAnswers
    DEF TimeoutElapses, Registered, redisVars, NoFault
<1>6. ASSUME NEW a \in Alerts, MonitorExpires(a) PROVE AnswerInv'
    BY <1>6, OthersKeepAnswers
    DEF MonitorExpires, Registered, redisVars, NoFault
<1>7. CASE LockExpires
    BY <1>7, OthersKeepAnswers
    DEF LockExpires, Registered, redisVars, NoFault
<1>8. ASSUME NEW w \in Workers, AcquireScanLock(w) PROVE AnswerInv'
    BY <1>8, OthersKeepAnswers
    DEF AcquireScanLock, Registered, redisVars, NoFault
<1>9. ASSUME NEW w \in Workers, GetAllActiveMonitors(w) PROVE AnswerInv'
    BY <1>9, OthersKeepAnswers
    DEF GetAllActiveMonitors, Registered, redisVars, NoFault
<1>10. ASSUME NEW w \in Workers, NEW a \in Alerts, SkipMonitor(w, a)
      PROVE  AnswerInv'
    BY <1>10, OthersKeepAnswers
    DEF SkipMonitor, Registered, redisVars, NoFault
<1>11. ASSUME NEW w \in Workers, NEW a \in Alerts, SendReminder(w, a)
      PROVE  AnswerInv'
    BY <1>11, OthersKeepAnswers
    DEF SendReminder, MailReminder, Registered, redisVars, NoFault
<1>12. ASSUME NEW w \in Workers, NEW a \in Alerts, SendReminderFails(w, a)
      PROVE  AnswerInv'
    BY <1>12, OthersKeepAnswers
    DEF SendReminderFails, Registered, redisVars, NoFault
<1>13. ASSUME NEW w \in Workers, RecordReminder(w) PROVE AnswerInv'
    BY <1>13, OthersKeepAnswers
    DEF RecordReminder, Registered, redisVars, NoFault
<1>14. ASSUME NEW w \in Workers, ReadForUpdate(w) PROVE AnswerInv'
    BY <1>14, OthersKeepAnswers
    DEF ReadForUpdate, Registered, redisVars, NoFault
<1>15. ASSUME NEW w \in Workers, WriteUpdate(w) PROVE AnswerInv'
    BY <1>15, OthersKeepAnswers
    DEF WriteUpdate, SaveUpdate, Registered, redisVars, NoFault
<1>16. ASSUME NEW w \in Workers, NEW a \in Alerts, ReadForStop(w, a)
      PROVE  AnswerInv'
    BY <1>16, OthersKeepAnswers
    DEF ReadForStop, Registered, redisVars, NoFault
<1>17. ASSUME NEW w \in Workers, WriteStopped(w) PROVE AnswerInv'
    BY <1>17, OthersKeepAnswers
    DEF WriteStopped, Registered, redisVars, NoFault
<1>18. ASSUME NEW w \in Workers, RemoveFromIndex(w) PROVE AnswerInv'
    BY <1>18, OthersKeepAnswers
    DEF RemoveFromIndex, Registered, redisVars, NoFault
<1>19. ASSUME NEW w \in Workers, DeleteAlertKey(w) PROVE AnswerInv'
    BY <1>19, OthersKeepAnswers
    DEF DeleteAlertKey, Registered, redisVars, NoFault
<1>20. ASSUME NEW w \in Workers, StopFails(w) PROVE AnswerInv'
    BY <1>20, OthersKeepAnswers
    DEF StopFails, Registered, redisVars, NoFault
<1>21. ASSUME NEW w \in Workers, FlagExhausted(w) PROVE AnswerInv'
    BY <1>21, OthersKeepAnswers
    DEF FlagExhausted, Registered, redisVars, NoFault
<1>22. ASSUME NEW w \in Workers, NotifySupport(w) PROVE AnswerInv'
    BY <1>22, OthersKeepAnswers
    DEF NotifySupport, Registered, redisVars, NoFault
<1>23. ASSUME NEW w \in Workers, MonitorAbandoned(w) PROVE AnswerInv'
    BY <1>23, OthersKeepAnswers
    DEF MonitorAbandoned, Registered, redisVars, NoFault
<1>24. ASSUME NEW w \in Workers, ReleaseScanLock(w) PROVE AnswerInv'
    BY <1>24, OthersKeepAnswers
    DEF ReleaseScanLock, Registered, redisVars, NoFault
<1>25. ASSUME NEW w \in Workers, CrashScan(w) PROVE AnswerInv'
    BY <1>25, OthersKeepAnswers
    DEF CrashScan, Registered, redisVars, NoFault
<1>26. ASSUME NEW r \in Replies, NEW a \in Alerts, ReplyArrives(r, a)
      PROVE  AnswerInv'
    <2>1. reply' = [reply EXCEPT ![r] = [NoReply EXCEPT !.pc = "queued", !.alert = a,
                                          !.known = escalation[a] = "registered"]]
        BY <1>26 DEF ReplyArrives
    <2>2. reply'[r].pc = "queued" /\ (reply'[r].known => reply'[r].alert \in Registered)
        BY <2>1 DEF NoReply, Registered, TaskInv, TaskTypeOK
    <2>3. \A q \in Replies \ {r} : reply'[q] = reply[q]
        BY <2>1 DEF TaskInv, TaskTypeOK
    <2>4. QED
        BY <1>26, <2>2, <2>3, ReplyKeepsAnswers DEF ReplyArrives, redisVars, NoFault
<1>27. ASSUME NEW r \in Replies, StoreReply(r) PROVE AnswerInv'
    BY <1>27, ReplyKeepsAnswers, ErrorsGrow, ConstantsAssumption
    DEF StoreReply, SetReply, AnswerInv, redisVars, NoFault, Fault, BoundsOK, TaskInv, TaskTypeOK,
        Reply, NoReply
<1>28. ASSUME NEW r \in Replies, ReadForMark(r) PROVE AnswerInv'
    <2> DEFINE a == reply[r].alert
    <2>1. reply[r].pc = "stored" /\ UNCHANGED <<index, escalation>> /\ NoFault
        BY <1>28 DEF ReadForMark, redisVars, NoFault
    <2>2. /\ \A q \in Replies \ {r} : reply'[q] = reply[q]
          /\ reply'[r].known = reply[r].known /\ reply'[r].alert = a
        BY <1>28 DEF ReadForMark, SetReply, TaskInv, TaskTypeOK, Reply
    <2>3. CASE reply'[r].pc = "mark"
        BY <2>1, <2>2, <2>3, ReplyKeepsAnswers DEF AnswerInv
    <2>4. CASE reply'[r].pc = "rows" /\ ~(monitor[a].stored /\ a \in alertKey)
        <3>1. ~KeysExpire /\ reply[r].known => a \notin index
            BY <2>4 DEF AnswerInv, StoredInv, KeyInv
        <3>2. Registered' = Registered /\ (faults' = 0 => faults = 0)
            BY <2>1, ErrorsGrow DEF Registered
        <3>3. QED
            BY <2>1, <2>2, <3>1, <3>2 DEF AnswerInv
    <2>5. QED
        BY <1>28, <2>3, <2>4 DEF ReadForMark, SetReply, TaskInv, TaskTypeOK, Reply
<1>29. ASSUME NEW r \in Replies, ReadForMarkFails(r) PROVE AnswerInv'
    BY <1>29, ReplyKeepsAnswers, ErrorsGrow, ConstantsAssumption
    DEF ReadForMarkFails, SetReply, AnswerInv, redisVars, NoFault, Fault, BoundsOK, TaskInv, TaskTypeOK,
        Reply, NoReply
<1>30. ASSUME NEW r \in Replies, MarkResponseReceived(r) PROVE AnswerInv'
    <2>1. /\ \A q \in Replies \ {r} : reply'[q] = reply[q]
          /\ reply'[r].known = reply[r].known /\ reply'[r].alert = reply[r].alert
        BY <1>30 DEF MarkResponseReceived, TaskInv, TaskTypeOK, Reply
    <2>2. index' = index \ {reply[r].alert} /\ UNCHANGED <<escalation, faults>>
        BY <1>30 DEF MarkResponseReceived, boundVars
    <2>3. Registered' = Registered
        BY <2>2 DEF Registered
    <2>4. QED
        BY <2>1, <2>2, <2>3 DEF AnswerInv
<1>31. ASSUME NEW r \in Replies, MarkFails(r) PROVE AnswerInv'
    BY <1>31, ReplyKeepsAnswers, ErrorsGrow, ConstantsAssumption
    DEF MarkFails, SetReply, AnswerInv, redisVars, NoFault, Fault, BoundsOK, TaskInv, TaskTypeOK,
        Reply, NoReply
<1>32. ASSUME NEW r \in Replies, MarkRemindersResponded(r) PROVE AnswerInv'
    BY <1>32, ReplyKeepsAnswers, ErrorsGrow, ConstantsAssumption
    DEF MarkRemindersResponded, SetReply, AnswerInv, redisVars, NoFault, Fault, BoundsOK, TaskInv, TaskTypeOK,
        Reply, NoReply
<1>33. ASSUME NEW r \in Replies, CrashReply(r) PROVE AnswerInv'
    BY <1>33, ReplyKeepsAnswers DEF CrashReply, AnswerInv, redisVars, TaskInv, TaskTypeOK
<1>34. CASE UNCHANGED vars
    BY <1>34, OthersKeepAnswers DEF vars, redisVars, Registered, NoFault
<1>35. QED
    BY <1>1, <1>2, <1>3, <1>4, <1>5, <1>6, <1>7, <1>8, <1>9, <1>10, <1>11, <1>12,
        <1>13, <1>14, <1>15, <1>16, <1>17, <1>18, <1>19, <1>20, <1>21, <1>22,
        <1>23, <1>24, <1>25, <1>26, <1>27, <1>28, <1>29, <1>30, <1>31, <1>32,
        <1>33, <1>34
    DEF Next, EscalationStep, ScanStep, ProcessMonitor, ReplyStep

\* A reply to a registered monitor, once handled without a swallowed error,
\* has taken the monitor off the index for good, whatever scans, crashes,
\* redeliveries and stale writes come in between.
THEOREM AnswersCancel == Spec => []AnsweredIsCancelled
<1>1. Init => KeyInv
    BY DEF Init, KeyInv
<1>2. AnswerInv => AnsweredIsCancelled
    BY DEF AnswerInv, AnsweredIsCancelled
<1>3. QED
    BY TypeInit, TypeNext, RegisteredInit, RegisteredNext, <1>1, KeyNext, StoredInit,
        StoredNext, AnswerInit, AnswerNext, <1>2, PTL DEF Spec

(***************************************************************************)
(* The reminder contract.  Phase and Granted are what the refinement       *)
(* substitutes for the variables of ReminderContract; sent is total.       *)
(***************************************************************************)

Phase ==
    [a \in Alerts |-> IF a \in index THEN "on"
                      ELSE IF escalation[a] = "registered" THEN "closed"
                      ELSE "off"]

Granted == [w \in Workers |-> {a \in Alerts : seen[w][a].stored /\ cur[w] # a}]

\* A step that neither registers, closes nor grants anything.
Stutters == UNCHANGED <<Phase, Granted, total>>

ContractStep == Contract!Next \/ Stutters

\* The phase follows the index and the end of the registration, no more.
LEMMA SamePhase ==
    UNCHANGED index /\ Registered' = Registered => UNCHANGED Phase
<1> SUFFICES ASSUME UNCHANGED index, Registered' = Registered PROVE Phase' = Phase
    OBVIOUS
<1>1. \A a \in Alerts : (escalation'[a] = "registered") <=> (escalation[a] = "registered")
    BY DEF Registered
<1>2. QED
    BY <1>1 DEF Phase

\* Grants depend on the lists and the entries being processed only.
LEMMA SameGranted == UNCHANGED <<seen, cur>> => UNCHANGED Granted
BY DEF Granted

\* Steps of the escalation and of the replies that leave the contract alone.
LEMMA QuietRefines ==
    UNCHANGED <<index, seen, cur, total>> /\ Registered' = Registered => Stutters
BY SamePhase, SameGranted DEF Stutters

\* The entry a busy worker drops was granted no longer.
LEMMA FinishRefines ==
    ASSUME ScanInv, NEW w \in Workers, NEW a \in Alerts, cur[w] = a, Finish(w, a),
           UNCHANGED <<index, escalation, total>>
    PROVE  Stutters
<1>1. Phase' = Phase
    BY SamePhase DEF Registered
<1>2. ASSUME NEW v \in Workers, NEW b \in Alerts
      PROVE  (seen'[v][b].stored /\ cur'[v] # b) <=> (seen[v][b].stored /\ cur[v] # b)
    BY ConstantsAssumption DEF Finish, ScanInv, ScanTypeOK, NoMonitor
<1>3. Granted' = Granted
    BY <1>2 DEF Granted
<1>4. QED
    BY <1>1, <1>3 DEF Stutters

\* A worker that gives up some of its grants without using them.
LEMMA RenounceRefines ==
    ASSUME NEW w \in Workers, UNCHANGED <<index, escalation, total>>,
           \A v \in Workers \ {w} : UNCHANGED <<seen[v], cur[v]>>,
           \A b \in Alerts : seen'[w][b].stored /\ cur'[w] # b =>
                                 seen[w][b].stored /\ cur[w] # b
    PROVE  ContractStep
<1> DEFINE kept == {b \in Alerts : seen'[w][b].stored /\ cur'[w] # b}
<1>1. Phase' = Phase
    BY SamePhase DEF Registered
<1>2. kept \in SUBSET Granted[w]
    BY DEF Granted
<1>3. \A v \in Workers : Granted'[v] = IF v = w THEN kept ELSE Granted[v]
    BY DEF Granted
<1> HIDE DEF kept
<1>4. Granted' = [Granted EXCEPT ![w] = kept]
    BY <1>3 DEF Granted
<1>5. Contract!Renounce(w)
    BY <1>1, <1>2, <1>4 DEF Contract!Renounce, Phase, Granted
<1>6. QED
    BY <1>5 DEF ContractStep, Contract!Next

\* The index loses at most one alert, and nothing is granted or sent.
LEMMA CloseRefines ==
    ASSUME RegisteredInv, NEW a \in Registered, index' = index \ {a},
           UNCHANGED <<escalation, seen, cur, total>>
    PROVE  ContractStep
<1>1. Granted' = Granted
    BY SameGranted
<1>2. CASE a \in index
    <2>1. Phase[a] = "on" /\ Phase' = [Phase EXCEPT ![a] = "closed"]
        BY <1>2 DEF Phase, Registered
    <2>2. Contract!Close(a)
        BY <1>1, <2>1 DEF Contract!Close, Phase, Granted
    <2>3. QED
        BY <2>2 DEF ContractStep, Contract!Next, Registered
<1>3. CASE a \notin index
    BY <1>1, <1>3, SamePhase DEF ContractStep, Stutters, Registered
<1>4. QED
    BY <1>2, <1>3

\* A registration opens the monitoring of its alert.
LEMMA RegisterRefines ==
    ASSUME TypeInv, RegisteredInv, NEW a \in Alerts, RegisterMonitor(a)
    PROVE  ContractStep
<1>1. a \notin Registered /\ a \notin index
    BY DEF RegisterMonitor, Registered, RegisteredInv
<1>2. Granted' = Granted /\ total' = total
    BY SameGranted DEF RegisterMonitor, scanVars, historyVars
<1>3. CASE escalation' = [escalation EXCEPT ![a] = "registered"] /\ index' = index \cup {a}
    <2>1. Phase[a] = "off" /\ Phase' = [Phase EXCEPT ![a] = "on"]
        BY <1>1, <1>3 DEF Phase, Registered, TypeInv, TaskInv, TaskTypeOK
    <2>2. Contract!Open(a)
        BY <1>2, <2>1 DEF Contract!Open, Phase, Granted
    <2>3. QED
        BY <2>2 DEF ContractStep, Contract!Next
<1>4. CASE escalation' = [escalation EXCEPT ![a] = "unmonitored"] /\ index' = index
    <2>1. Registered' = Registered
        BY <1>1, <1>4 DEF Registered, TypeInv, TaskInv, TaskTypeOK
    <2>2. QED
        BY <1>2, <1>4, <2>1, SamePhase DEF ContractStep, Stutters
<1>5. QED
    BY <1>3, <1>4 DEF RegisterMonitor

\* The list a scan reads is its grant; what it purges is closed.
LEMMA GrantRefines ==
    ASSUME TypeInv, RegisteredInv, EntryInv, NEW w \in Workers, GetAllActiveMonitors(w)
    PROVE  ContractStep
<1> DEFINE live == {a \in index : Pending(a)}
<1>1. pc[w] = "locked" /\ UNCHANGED <<escalation, cur, total>>
    BY DEF GetAllActiveMonitors, historyVars
<1>2. cur[w] = NoAlert /\ Granted[w] = {}
    BY <1>1 DEF EntryInv, Granted, TypeInv, ScanInv, FocusOK, Busy
<1>3. CASE UNCHANGED <<seen, index>>
    BY <1>1, <1>3, QuietRefines DEF ContractStep, Registered
<1>4. CASE /\ index' = live
           /\ seen' = [seen EXCEPT ![w] = [a \in Alerts |-> IF a \in live THEN monitor[a]
                                                            ELSE NoMonitor]]
    <2> DEFINE On == {a \in Alerts : Phase[a] = "on"}
    <2>1. live \in SUBSET On /\ On = index
        BY DEF Phase, TypeInv, RedisTypeOK
    <2>2. \A a \in Alerts : seen'[w][a].stored <=> a \in live
        BY <1>4 DEF TypeInv, ScanInv, ScanTypeOK, Pending, NoMonitor
    <2>3. \A v \in Workers \ {w} : Granted'[v] = Granted[v]
        BY <1>1, <1>4 DEF Granted, TypeInv, ScanInv, ScanTypeOK
    <2>4. Granted'[w] = live
        BY <1>1, <1>2, <2>1, <2>2, ConstantsAssumption DEF Granted
    <2>5. Granted' = [Granted EXCEPT ![w] = live]
        BY <2>3, <2>4 DEF Granted
    <2>6. Phase' = [a \in Alerts |-> IF a \in On \ live THEN "closed" ELSE Phase[a]]
        BY <1>1, <1>4, <2>1 DEF Phase, RegisteredInv, Registered
    <2> HIDE DEF live
    <2>7. Contract!Grant(w)
        BY <1>1, <1>2, <2>1, <2>5, <2>6 DEF Contract!Grant, Contract!On, Phase, Granted
    <2>8. QED
        BY <2>7 DEF ContractStep, Contract!Next
<1>5. QED
    BY <1>3, <1>4 DEF GetAllActiveMonitors

\* A reminder uses up the grant it was sent on.
LEMMA RemindRefines ==
    ASSUME TypeInv, NEW w \in Workers, NEW a \in Alerts, SendReminder(w, a)
    PROVE  ContractStep
<1>1. pc[w] = "scan" /\ seen[w][a].stored /\ cur[w] = NoAlert
    BY DEF SendReminder, InList, TypeInv, ScanInv, FocusOK, Busy
<1>2. UNCHANGED <<index, escalation, seen>> /\ cur' = [cur EXCEPT ![w] = a]
    BY DEF SendReminder, MailReminder, redisVars
<1>3. total' = [total EXCEPT ![a] = @ + 1]
    BY DEF SendReminder, MailReminder
<1>4. Phase' = Phase
    BY <1>2, SamePhase DEF Registered
<1>5. a \in Granted[w]
    BY <1>1, ConstantsAssumption DEF Granted
<1>6. \A v \in Workers \ {w} : Granted'[v] = Granted[v]
    BY <1>2 DEF Granted, TypeInv, ScanInv, ScanTypeOK
<1>7. Granted'[w] = Granted[w] \ {a}
    BY <1>1, <1>2, ConstantsAssumption DEF Granted, TypeInv, ScanInv, ScanTypeOK
<1>8. Granted' = [Granted EXCEPT ![w] = @ \ {a}]
    BY <1>6, <1>7 DEF Granted
<1>9. Contract!Remind(w, a)
    BY <1>3, <1>4, <1>5, <1>8 DEF Contract!Remind, Phase, Granted
<1>10. QED
    BY <1>9 DEF ContractStep, Contract!Next

\* Every step of the reminder machinery is one of the contract, or none.
LEMMA StepRefines ==
    TypeInv /\ RegisteredInv /\ EntryInv /\ [Next]_vars => ContractStep
<1> SUFFICES ASSUME TypeInv, RegisteredInv, EntryInv, [Next]_vars PROVE ContractStep
    OBVIOUS
<1> USE DEF TypeInv
<1>1. ASSUME NEW a \in Alerts, SendEscalation(a) PROVE ContractStep
    <2>1. Registered' = Registered
        BY <1>1 DEF SendEscalation, Registered, TaskInv, TaskTypeOK
    <2>2. QED
        BY <1>1, <2>1, QuietRefines DEF SendEscalation, ContractStep, redisVars, scanVars, historyVars
<1>2. ASSUME NEW a \in Alerts, CommitEscalation(a) PROVE ContractStep
    <2>1. Registered' = Registered
        BY <1>2 DEF CommitEscalation, Registered, TaskInv, TaskTypeOK
    <2>2. QED
        BY <1>2, <2>1, QuietRefines DEF CommitEscalation, ContractStep, redisVars, scanVars, historyVars
<1>3. ASSUME NEW a \in Alerts, RegisterMonitor(a) PROVE ContractStep
    BY <1>3, RegisterRefines
<1>4. ASSUME NEW a \in Alerts, CrashEscalation(a) PROVE ContractStep
    <2>1. Registered' = Registered
        BY <1>4 DEF CrashEscalation, Registered, TaskInv, TaskTypeOK
    <2>2. QED
        BY <1>4, <2>1, QuietRefines DEF CrashEscalation, ContractStep, redisVars, scanVars, historyVars
<1>5. ASSUME NEW a \in Alerts, TimeoutElapses(a) PROVE ContractStep
    BY <1>5, QuietRefines
    DEF TimeoutElapses, ContractStep, Registered, redisVars, scanVars, historyVars
<1>6. ASSUME NEW a \in Alerts, MonitorExpires(a) PROVE ContractStep
    BY <1>6, QuietRefines
    DEF MonitorExpires, ContractStep, Registered, redisVars, scanVars, historyVars
<1>7. CASE LockExpires
    BY <1>7, QuietRefines
    DEF LockExpires, ContractStep, Registered, redisVars, scanVars, historyVars
<1>8. ASSUME NEW w \in Workers, AcquireScanLock(w) PROVE ContractStep
    BY <1>8, QuietRefines
    DEF AcquireScanLock, ContractStep, Registered, redisVars, scanVars, historyVars
<1>9. ASSUME NEW w \in Workers, GetAllActiveMonitors(w) PROVE ContractStep
    BY <1>9, GrantRefines
<1>10. ASSUME NEW w \in Workers, NEW a \in Alerts, SkipMonitor(w, a)
      PROVE  ContractStep
    <2>1. UNCHANGED <<index, escalation, total>>
        BY <1>10 DEF SkipMonitor, redisVars, historyVars
    <2>2. \A v \in Workers \ {w} : UNCHANGED <<seen[v], cur[v]>>
        BY <1>10 DEF SkipMonitor, Finish, ScanInv, ScanTypeOK
    <2>3. \A b \in Alerts : seen'[w][b].stored /\ cur'[w] # b =>
                                seen[w][b].stored /\ cur[w] # b
        BY <1>10, ConstantsAssumption
        DEF SkipMonitor, InList, Finish, ScanInv, ScanTypeOK, FocusOK, Busy, NoMonitor
    <2>4. QED
        BY <2>1, <2>2, <2>3, RenounceRefines
<1>11. ASSUME NEW w \in Workers, NEW a \in Alerts, SendReminder(w, a)
      PROVE  ContractStep
    BY <1>11, RemindRefines
<1>12. ASSUME NEW w \in Workers, NEW a \in Alerts, SendReminderFails(w, a)
      PROVE  ContractStep
    <2>1. UNCHANGED <<index, escalation, total>>
        BY <1>12 DEF SendReminderFails, redisVars, historyVars
    <2>2. \A v \in Workers \ {w} : UNCHANGED <<seen[v], cur[v]>>
        BY <1>12 DEF SendReminderFails, Finish, ScanInv, ScanTypeOK
    <2>3. \A b \in Alerts : seen'[w][b].stored /\ cur'[w] # b =>
                                seen[w][b].stored /\ cur[w] # b
        BY <1>12, ConstantsAssumption
        DEF SendReminderFails, InList, Finish, ScanInv, ScanTypeOK, FocusOK, Busy, NoMonitor
    <2>4. QED
        BY <2>1, <2>2, <2>3, RenounceRefines
<1>13. ASSUME NEW w \in Workers, RecordReminder(w) PROVE ContractStep
    BY <1>13, QuietRefines
    DEF RecordReminder, ContractStep, Registered, redisVars, scanVars, historyVars
<1>14. ASSUME NEW w \in Workers, ReadForUpdate(w) PROVE ContractStep
    <2>1. cur[w] \in Alerts
        BY <1>14 DEF ReadForUpdate, ScanInv, FocusOK, Busy, ScanPC
    <2>2. CASE monitor[cur[w]].stored
        BY <1>14, <2>2, QuietRefines DEF ReadForUpdate, ContractStep, Registered,
            redisVars, historyVars
    <2>3. CASE ~monitor[cur[w]].stored
        BY <1>14, <2>1, <2>3, FinishRefines DEF ReadForUpdate, ContractStep, redisVars,
            historyVars
    <2>4. QED
        BY <2>2, <2>3
<1>15. ASSUME NEW w \in Workers, WriteUpdate(w) PROVE ContractStep
    <2>1. cur[w] \in Alerts
        BY <1>15 DEF WriteUpdate, SaveUpdate, ScanInv, ScanTypeOK, FocusOK, Busy, ScanPC
    <2>2. Finish(w, cur[w]) /\ UNCHANGED <<index, escalation, total>>
        BY <1>15 DEF WriteUpdate, SaveUpdate, redisVars, historyVars
    <2>3. QED
        BY <2>1, <2>2, FinishRefines DEF ContractStep
<1>16. ASSUME NEW w \in Workers, NEW a \in Alerts, ReadForStop(w, a)
      PROVE  ContractStep
    <2>1. UNCHANGED <<index, escalation, total>>
        BY <1>16 DEF ReadForStop, redisVars, historyVars
    <2>2. \A v \in Workers \ {w} : UNCHANGED <<seen[v], cur[v]>>
        BY <1>16 DEF ReadForStop, Finish, ScanInv, ScanTypeOK
    <2>3. \A b \in Alerts : seen'[w][b].stored /\ cur'[w] # b =>
                                seen[w][b].stored /\ cur[w] # b
        BY <1>16, ConstantsAssumption
        DEF ReadForStop, InList, Finish, ScanInv, ScanTypeOK, FocusOK, Busy, NoMonitor
    <2>4. QED
        BY <2>1, <2>2, <2>3, RenounceRefines
<1>17. ASSUME NEW w \in Workers, WriteStopped(w) PROVE ContractStep
    BY <1>17, QuietRefines
    DEF WriteStopped, ContractStep, Registered, redisVars, scanVars, historyVars
<1>18. ASSUME NEW w \in Workers, RemoveFromIndex(w) PROVE ContractStep
    <2>1. cur[w] \in Registered
        BY <1>18 DEF RemoveFromIndex, RegisteredInv, Busy, ScanPC
    <2>2. QED
        BY <1>18, <2>1, CloseRefines DEF RemoveFromIndex, historyVars
<1>19. ASSUME NEW w \in Workers, DeleteAlertKey(w) PROVE ContractStep
    BY <1>19, QuietRefines
    DEF DeleteAlertKey, ContractStep, Registered, redisVars, scanVars, historyVars
<1>20. ASSUME NEW w \in Workers, StopFails(w) PROVE ContractStep
    BY <1>20, QuietRefines
    DEF StopFails, ContractStep, Registered, redisVars, scanVars, historyVars
<1>21. ASSUME NEW w \in Workers, FlagExhausted(w) PROVE ContractStep
    BY <1>21, QuietRefines
    DEF FlagExhausted, ContractStep, Registered, redisVars, scanVars, historyVars
<1>22. ASSUME NEW w \in Workers, NotifySupport(w) PROVE ContractStep
    <2>1. cur[w] \in Alerts
        BY <1>22 DEF NotifySupport, ScanInv, ScanTypeOK, FocusOK, Busy, ScanPC
    <2>2. Finish(w, cur[w]) /\ UNCHANGED <<index, escalation, total>>
        BY <1>22 DEF NotifySupport, redisVars, historyVars
    <2>3. QED
        BY <2>1, <2>2, FinishRefines DEF ContractStep
<1>23. ASSUME NEW w \in Workers, MonitorAbandoned(w) PROVE ContractStep
    <2>1. cur[w] \in Alerts
        BY <1>23 DEF MonitorAbandoned, ScanInv, ScanTypeOK, FocusOK, Busy, ScanPC
    <2>2. Finish(w, cur[w]) /\ UNCHANGED <<index, escalation, total>>
        BY <1>23 DEF MonitorAbandoned, redisVars, historyVars
    <2>3. QED
        BY <2>1, <2>2, FinishRefines DEF ContractStep
<1>24. ASSUME NEW w \in Workers, ReleaseScanLock(w) PROVE ContractStep
    BY <1>24, QuietRefines
    DEF ReleaseScanLock, ContractStep, Registered, redisVars, scanVars, historyVars
<1>25. ASSUME NEW w \in Workers, CrashScan(w) PROVE ContractStep
    <2>1. UNCHANGED <<index, escalation, total>>
        BY <1>25 DEF CrashScan, redisVars, historyVars
    <2>2. \A v \in Workers \ {w} : UNCHANGED <<seen[v], cur[v]>>
        BY <1>25 DEF CrashScan, Finish, ScanInv, ScanTypeOK
    <2>3. \A b \in Alerts : seen'[w][b].stored /\ cur'[w] # b =>
                                seen[w][b].stored /\ cur[w] # b
        BY <1>25, ConstantsAssumption
        DEF CrashScan, InList, Finish, ScanInv, ScanTypeOK, FocusOK, Busy, NoMonitor
    <2>4. QED
        BY <2>1, <2>2, <2>3, RenounceRefines
<1>26. ASSUME NEW r \in Replies, NEW a \in Alerts, ReplyArrives(r, a)
      PROVE  ContractStep
    BY <1>26, QuietRefines
    DEF ReplyArrives, ContractStep, Registered, redisVars, scanVars, historyVars
<1>27. ASSUME NEW r \in Replies, StoreReply(r) PROVE ContractStep
    BY <1>27, QuietRefines
    DEF StoreReply, ContractStep, Registered, redisVars, scanVars, historyVars
<1>28. ASSUME NEW r \in Replies, ReadForMark(r) PROVE ContractStep
    BY <1>28, QuietRefines
    DEF ReadForMark, ContractStep, Registered, redisVars, scanVars, historyVars
<1>29. ASSUME NEW r \in Replies, ReadForMarkFails(r) PROVE ContractStep
    BY <1>29, QuietRefines
    DEF ReadForMarkFails, ContractStep, Registered, redisVars, scanVars, historyVars
<1>30. ASSUME NEW r \in Replies, MarkResponseReceived(r) PROVE ContractStep
    <2>1. reply[r].alert \in Registered
        BY <1>30 DEF MarkResponseReceived, RegisteredInv
    <2>2. QED
        BY <1>30, <2>1, CloseRefines DEF MarkResponseReceived, scanVars
<1>31. ASSUME NEW r \in Replies, MarkFails(r) PROVE ContractStep
    BY <1>31, QuietRefines
    DEF MarkFails, ContractStep, Registered, redisVars, scanVars, historyVars
<1>32. ASSUME NEW r \in Replies, MarkRemindersResponded(r) PROVE ContractStep
    BY <1>32, QuietRefines
    DEF MarkRemindersResponded, ContractStep, Registered, redisVars, scanVars, historyVars
<1>33. ASSUME NEW r \in Replies, CrashReply(r) PROVE ContractStep
    BY <1>33, QuietRefines
    DEF CrashReply, ContractStep, Registered, redisVars, scanVars, historyVars
<1>34. CASE UNCHANGED vars
    BY <1>34, QuietRefines DEF ContractStep, Registered, vars, redisVars, scanVars, historyVars
<1>35. QED
    BY <1>1, <1>2, <1>3, <1>4, <1>5, <1>6, <1>7, <1>8, <1>9, <1>10, <1>11, <1>12,
        <1>13, <1>14, <1>15, <1>16, <1>17, <1>18, <1>19, <1>20, <1>21, <1>22,
        <1>23, <1>24, <1>25, <1>26, <1>27, <1>28, <1>29, <1>30, <1>31, <1>32,
        <1>33, <1>34
    DEF Next, EscalationStep, ScanStep, ProcessMonitor, ReplyStep

\* The scans, replies and escalations keep the reminder contract: an alert is
\* monitored once, a reminder is sent only on a grant of a scan that found it
\* monitored, and a grant is used at most once, with or without the lock.
THEOREM FulfilsContract == Spec => ImplementsContract
<1>1. Init => Contract!Init
    BY DEF Init, Contract!Init, NoMonitor
<1>2. ContractStep => [Contract!Next]_Contract!contractVars
    BY DEF ContractStep, Stutters, Contract!contractVars, Phase, Granted
<1>3. QED
    BY TypeInit, TypeNext, RegisteredInit, RegisteredNext, EntryInit, EntryNext,
        StepRefines, <1>1, <1>2, PTL DEF Spec, ImplementsContract, Contract!Spec
=============================================================================
