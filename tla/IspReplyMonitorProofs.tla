----------------------- MODULE IspReplyMonitorProofs -----------------------
(***************************************************************************)
(* Theorems about IspReplyMonitor, for every value of its constants.       *)
(***************************************************************************)
EXTENDS IspReplyMonitor, TLAPS

(***************************************************************************)
(* Type correctness.  TypeOK is not inductive: a step that writes a state  *)
(* through cur needs to know that the worker is at some alert, and one     *)
(* that writes a number that the number is within the limit.               *)
(***************************************************************************)

Busy == ScanPC \ {"idle", "locked", "scan"}

\* A busy worker is at an entry of its list, any other is at none, and the
\* entry of a worker that reminds has a number left.
FocusOK ==
    \A w \in Workers :
        /\ pc[w] \in Busy => cur[w] \in Alerts
        /\ pc[w] \notin Busy => cur[w] = NoAlert
        /\ pc[w] \in {"record", "update", "write"} =>
               seen[w][cur[w]].count < MaxReminders

\* A reply that arrived belongs to an alert.
ReplyOK == \A r \in Replies : reply[r].pc # "none" => reply[r].alert \in Alerts

ScanInv == ScanTypeOK /\ FocusOK

TaskInv == TaskTypeOK /\ ReplyOK

TypeInv ==
    RedisTypeOK /\ DbTypeOK /\ ScanInv /\ TaskInv /\ HistoryTypeOK /\ BoundsOK

\* A conjunct whose variables do not change stays true.
LEMMA Frames ==
    /\ RedisTypeOK /\ UNCHANGED redisVars => RedisTypeOK'
    /\ DbTypeOK /\ UNCHANGED dbVars => DbTypeOK'
    /\ ScanInv /\ UNCHANGED scanVars => ScanInv'
    /\ TaskInv /\ UNCHANGED <<escalation, reply>> => TaskInv'
    /\ HistoryTypeOK /\ UNCHANGED historyVars => HistoryTypeOK'
    /\ BoundsOK /\ UNCHANGED boundVars => BoundsOK'
BY DEF RedisTypeOK, redisVars, DbTypeOK, dbVars, ScanInv, ScanTypeOK, FocusOK,
    scanVars, TaskInv, TaskTypeOK, ReplyOK, HistoryTypeOK, historyVars, BoundsOK,
    boundVars

\* Whatever made a worker drop an entry, it is at none of them afterwards.
LEMMA FinishKeepsScanInv ==
    ASSUME ScanInv, NEW w \in Workers, NEW a \in Alerts, Finish(w, a)
    PROVE  ScanInv'
<1>1. NoMonitor \in Monitor
    BY DEF NoMonitor, Monitor
<1>2. ScanTypeOK'
    BY <1>1 DEF Finish, ScanInv, ScanTypeOK, ScanPC
<1>3. FocusOK'
    BY ConstantsAssumption DEF Finish, ScanInv, ScanTypeOK, FocusOK, Busy, ScanPC
<1>4. QED
    BY <1>2, <1>3 DEF ScanInv

\* So does any step of one reply.
LEMMA ReplyKeepsTaskInv ==
    ASSUME TaskInv, NEW r \in Replies, NEW v \in Reply, v.alert \in Alerts,
           reply' = [reply EXCEPT ![r] = v], UNCHANGED escalation
    PROVE  TaskInv'
<1>1. reply \in [Replies -> Reply] /\ escalation \in [Alerts -> EscalationPC]
    BY DEF TaskInv, TaskTypeOK
<1>2. reply' \in [Replies -> Reply]
    <2> HIDE DEF Reply
    <2> QED
        BY <1>1
<1>3. ASSUME NEW q \in Replies, reply'[q].pc # "none" PROVE reply'[q].alert \in Alerts
    <2>1. CASE q = r
        BY <1>1, <2>1
    <2>2. CASE q # r
        BY <1>1, <1>3, <2>2 DEF TaskInv, ReplyOK
    <2> QED
        BY <2>1, <2>2
<1> QED
    BY <1>1, <1>2, <1>3 DEF TaskInv, TaskTypeOK, ReplyOK

\* A reply that was handled in part moves on with another copy.
LEMMA CopyKeepsTaskInv ==
    ASSUME TaskInv, NEW r \in Replies, reply[r].pc # "none", NEW label \in ReplyPC,
           NEW c \in Monitor, UNCHANGED escalation,
           reply' = [reply EXCEPT ![r].pc = label, ![r].copy = c]
    PROVE  TaskInv'
<1> DEFINE v == [reply[r] EXCEPT !.pc = label, !.copy = c]
<1>1. reply[r] \in Reply /\ reply[r].alert \in Alerts
    BY DEF TaskInv, TaskTypeOK, ReplyOK
<1>2. v \in Reply /\ v.alert = reply[r].alert
    BY <1>1 DEF Reply
<1>3. reply' = [reply EXCEPT ![r] = v]
    BY DEF TaskInv, TaskTypeOK
<1> HIDE DEF v
<1> QED
    BY <1>1, <1>2, <1>3, ReplyKeepsTaskInv

\* A worker in a scan turns to an entry of its list.
LEMMA TurnKeepsScanInv ==
    ASSUME ScanInv, NEW w \in Workers, NEW a \in Alerts, NEW c \in Monitor,
           NEW label \in {"stop", "unindex"},
           pc' = [pc EXCEPT ![w] = label], cur' = [cur EXCEPT ![w] = a],
           copy' = [copy EXCEPT ![w] = c], UNCHANGED seen
    PROVE  ScanInv'
<1>1. label \in Busy /\ label \notin {"record", "update", "write"} /\ label \in ScanPC
    BY DEF Busy, ScanPC
<1>2. ScanTypeOK'
    <2> HIDE DEF Monitor, ScanPC
    <2> QED
        BY <1>1 DEF ScanInv, ScanTypeOK
<1>3. FocusOK'
    <2> HIDE DEF Monitor, ScanPC, Busy
    <2> QED
        BY <1>1 DEF ScanInv, ScanTypeOK, FocusOK
<1> QED
    BY <1>2, <1>3 DEF ScanInv

LEMMA TypeInit == Init => TypeInv
<1> SUFFICES ASSUME Init PROVE TypeInv
    OBVIOUS
<1>1. RedisTypeOK
    BY DEF Init, RedisTypeOK, Monitor, NoMonitor
<1>2. DbTypeOK
    BY DEF Init, DbTypeOK, Status
<1>3. ScanInv
    BY ConstantsAssumption
    DEF Init, ScanInv, ScanTypeOK, FocusOK, Busy, ScanPC, Monitor, NoMonitor
<1>4. TaskInv
    BY DEF Init, TaskInv, TaskTypeOK, ReplyOK, EscalationPC, Reply, NoReply,
        ReplyPC, Monitor, NoMonitor
<1>5. HistoryTypeOK /\ BoundsOK
    BY ConstantsAssumption DEF Init, HistoryTypeOK, BoundsOK
<1>6. QED
    BY <1>1, <1>2, <1>3, <1>4, <1>5 DEF TypeInv

LEMMA TypeNext == TypeInv /\ [Next]_vars => TypeInv'
<1> SUFFICES ASSUME TypeInv, [Next]_vars PROVE TypeInv'
    OBVIOUS
<1> USE DEF TypeInv
<1>1. ASSUME NEW a \in Alerts, SendEscalation(a) PROVE TypeInv'
    <2>1. RedisTypeOK' /\ DbTypeOK' /\ ScanInv' /\ HistoryTypeOK'
        BY <1>1, Frames DEF SendEscalation
    <2>2. TaskInv'
        BY <1>1 DEF SendEscalation, TaskInv, TaskTypeOK, ReplyOK, EscalationPC
    <2>3. BoundsOK'
        BY <1>1, ConstantsAssumption DEF SendEscalation, BoundsOK, Fault,
            Crash, NoFault, boundVars
    <2>4. QED
        BY <2>1, <2>2, <2>3
<1>2. ASSUME NEW a \in Alerts, CommitEscalation(a) PROVE TypeInv'
    <2>1. RedisTypeOK' /\ ScanInv' /\ HistoryTypeOK'
        BY <1>2, Frames DEF CommitEscalation
    <2>2. DbTypeOK'
        BY <1>2 DEF CommitEscalation, DbTypeOK, Status
    <2>3. TaskInv'
        BY <1>2 DEF CommitEscalation, TaskInv, TaskTypeOK, ReplyOK,
            EscalationPC
    <2>4. BoundsOK'
        BY <1>2, ConstantsAssumption DEF CommitEscalation, BoundsOK, Fault,
            Crash, NoFault, boundVars
    <2>5. QED
        BY <2>1, <2>2, <2>3, <2>4
<1>3. ASSUME NEW a \in Alerts, RegisterMonitor(a) PROVE TypeInv'
    <2>1. DbTypeOK' /\ ScanInv' /\ HistoryTypeOK'
        BY <1>3, Frames DEF RegisterMonitor
    <2>2. RedisTypeOK'
        <3>1. NewMonitor \in Monitor
            BY DEF NewMonitor, Monitor
        <3>2. QED
            BY <1>3, <3>1 DEF RegisterMonitor, RedisTypeOK
    <2>3. TaskInv'
        BY <1>3 DEF RegisterMonitor, TaskInv, TaskTypeOK, ReplyOK,
            EscalationPC
    <2>4. BoundsOK'
        BY <1>3, ConstantsAssumption DEF RegisterMonitor, BoundsOK, Fault,
            Crash, NoFault, boundVars
    <2>5. QED
        BY <2>1, <2>2, <2>3, <2>4
<1>4. ASSUME NEW a \in Alerts, CrashEscalation(a) PROVE TypeInv'
    <2>1. RedisTypeOK' /\ DbTypeOK' /\ ScanInv' /\ HistoryTypeOK'
        BY <1>4, Frames DEF CrashEscalation
    <2>2. TaskInv'
        BY <1>4 DEF CrashEscalation, TaskInv, TaskTypeOK, ReplyOK,
            EscalationPC
    <2>3. BoundsOK'
        BY <1>4, ConstantsAssumption DEF CrashEscalation, BoundsOK, Fault,
            Crash, NoFault, boundVars
    <2>4. QED
        BY <2>1, <2>2, <2>3
<1>5. ASSUME NEW a \in Alerts, TimeoutElapses(a) PROVE TypeInv'
    <2>1. DbTypeOK' /\ ScanInv' /\ TaskInv' /\ BoundsOK'
        BY <1>5, Frames DEF TimeoutElapses, NoFault
    <2>2. RedisTypeOK'
        BY <1>5 DEF TimeoutElapses, RedisTypeOK, Monitor
    <2>3. HistoryTypeOK'
        BY <1>5 DEF TimeoutElapses, HistoryTypeOK
    <2>4. QED
        BY <2>1, <2>2, <2>3
<1>6. ASSUME NEW a \in Alerts, MonitorExpires(a) PROVE TypeInv'
    <2>1. DbTypeOK' /\ ScanInv' /\ TaskInv' /\ HistoryTypeOK' /\ BoundsOK'
        BY <1>6, Frames DEF MonitorExpires, NoFault
    <2>2. RedisTypeOK'
        BY <1>6 DEF MonitorExpires, RedisTypeOK, NoMonitor, Monitor
    <2>3. QED
        BY <2>1, <2>2
<1>7. CASE LockExpires
    <2>1. DbTypeOK' /\ ScanInv' /\ TaskInv' /\ HistoryTypeOK' /\ BoundsOK'
        BY <1>7, Frames DEF LockExpires, NoFault
    <2>2. RedisTypeOK'
        BY <1>7 DEF LockExpires, RedisTypeOK
    <2>3. QED
        BY <2>1, <2>2
<1>8. ASSUME NEW w \in Workers, AcquireScanLock(w) PROVE TypeInv'
    <2>1. DbTypeOK' /\ TaskInv' /\ HistoryTypeOK' /\ BoundsOK'
        BY <1>8, Frames DEF AcquireScanLock, NoFault
    <2>2. RedisTypeOK'
        BY <1>8 DEF AcquireScanLock, RedisTypeOK
    <2>3. ScanInv'
        BY <1>8, ConstantsAssumption DEF AcquireScanLock, ScanInv, ScanTypeOK,
            FocusOK, Busy, ScanPC, Goto
    <2>4. QED
        BY <2>1, <2>2, <2>3
<1>9. ASSUME NEW w \in Workers, GetAllActiveMonitors(w) PROVE TypeInv'
    <2>1. DbTypeOK' /\ TaskInv' /\ HistoryTypeOK'
        BY <1>9, Frames DEF GetAllActiveMonitors
    <2>2. RedisTypeOK'
        BY <1>9 DEF GetAllActiveMonitors, RedisTypeOK
    <2>3. ScanInv'
        <3>1. NoMonitor \in Monitor
            BY DEF NoMonitor, Monitor
        <3>2. seen' \in [Workers -> [Alerts -> Monitor]]
            <4> DEFINE list == [a \in Alerts |->
                                  IF a \in {b \in index : Pending(b)} THEN monitor[a]
                                                                     ELSE NoMonitor]
            <4>1. seen' = [seen EXCEPT ![w] = list] \/ seen' = seen
                BY <1>9 DEF GetAllActiveMonitors
            <4>2. list \in [Alerts -> Monitor]
                BY <3>1 DEF RedisTypeOK
            <4>3. seen \in [Workers -> [Alerts -> Monitor]]
                BY DEF ScanInv, ScanTypeOK
            <4> HIDE DEF list, Monitor
            <4> QED
                BY <4>1, <4>2, <4>3
        <3>3. ScanTypeOK'
            BY <1>9, <3>2 DEF GetAllActiveMonitors, ScanInv, ScanTypeOK, ScanPC
        <3>4. FocusOK'
            <4>1. pc[w] = "locked" /\ pc' = [pc EXCEPT ![w] = "scan"] /\ cur' = cur
                BY <1>9 DEF GetAllActiveMonitors
            <4>2. \A v \in Workers : v # w => seen'[v] = seen[v]
                BY <1>9 DEF GetAllActiveMonitors, ScanInv, ScanTypeOK
            <4>3. QED
                BY <4>1, <4>2 DEF ScanInv, ScanTypeOK, FocusOK, Busy, ScanPC
        <3>5. QED
            BY <3>3, <3>4 DEF ScanInv
    <2>4. BoundsOK'
        BY <1>9, ConstantsAssumption DEF GetAllActiveMonitors, BoundsOK,
            Fault, Crash, NoFault, boundVars
    <2>5. QED
        BY <2>1, <2>2, <2>3, <2>4
<1>10. ASSUME NEW w \in Workers, NEW a \in Alerts, SkipMonitor(w, a) PROVE TypeInv'
    <2>1. RedisTypeOK' /\ DbTypeOK' /\ TaskInv' /\ HistoryTypeOK' /\ BoundsOK'
        BY <1>10, Frames DEF SkipMonitor, NoFault
    <2>2. ScanInv'
        BY <1>10, ConstantsAssumption DEF SkipMonitor, ScanInv, ScanTypeOK,
            FocusOK, Busy, ScanPC, Finish, InList, NoMonitor, Monitor
    <2>3. QED
        BY <2>1, <2>2
<1>11. ASSUME NEW w \in Workers, NEW a \in Alerts, SendReminder(w, a) PROVE TypeInv'
    <2>1. RedisTypeOK' /\ DbTypeOK' /\ TaskInv' /\ BoundsOK'
        BY <1>11, Frames DEF SendReminder, MailReminder, NoFault
    <2>2. ScanInv'
        BY <1>11, ConstantsAssumption DEF SendReminder, ScanInv, ScanTypeOK,
            FocusOK, Busy, ScanPC, InList, MailReminder, Goto
    <2>3. HistoryTypeOK'
        BY <1>11 DEF SendReminder, HistoryTypeOK, MailReminder
    <2>4. QED
        BY <2>1, <2>2, <2>3
<1>12. ASSUME NEW w \in Workers, NEW a \in Alerts, SendReminderFails(w, a) PROVE TypeInv'
    <2>1. RedisTypeOK' /\ DbTypeOK' /\ TaskInv' /\ HistoryTypeOK'
        BY <1>12, Frames DEF SendReminderFails
    <2>2. ScanInv'
        BY <1>12, ConstantsAssumption DEF SendReminderFails, ScanInv,
            ScanTypeOK, FocusOK, Busy, ScanPC, Finish, InList, NoMonitor, Monitor
    <2>3. BoundsOK'
        BY <1>12, ConstantsAssumption DEF SendReminderFails, BoundsOK, Fault,
            Crash, NoFault, boundVars
    <2>4. QED
        BY <2>1, <2>2, <2>3
<1>13. ASSUME NEW w \in Workers, RecordReminder(w) PROVE TypeInv'
    <2>1. RedisTypeOK' /\ TaskInv' /\ HistoryTypeOK'
        BY <1>13, Frames DEF RecordReminder
    <2>2. DbTypeOK'
        <3>1. cur[w] \in Alerts /\ ReminderNumber(w) \in Number
            <4>1. cur[w] \in Alerts /\ seen[w][cur[w]].count < MaxReminders
                BY <1>13 DEF RecordReminder, ScanInv, FocusOK, Busy, ScanPC
            <4>2. seen[w][cur[w]].count \in Nat
                BY <4>1 DEF ScanInv, ScanTypeOK, Monitor
            <4>3. QED
                BY <4>1, <4>2, ConstantsAssumption DEF ReminderNumber, Number
        <3>2. status' \in [Alerts -> Status]
            BY <1>13, <3>1 DEF RecordReminder, DbTypeOK, dbVars, Status
        <3>3. rows' \in [Alerts -> [Number -> Nat]]
            <4> DEFINE a == cur[w]
            <4> DEFINE n == ReminderNumber(w)
            <4>1. a \in Alerts /\ n \in Number
                BY <3>1
            <4>2. rows[a] \in [Number -> Nat] /\ rows[a][n] \in Nat
                BY <4>1 DEF DbTypeOK
            <4>3. rows' = [rows EXCEPT ![a][n] = @ + 1] \/ rows' = rows
                BY <1>13 DEF RecordReminder, dbVars
            <4> HIDE DEF a, n
            <4>4. [rows[a] EXCEPT ![n] = rows[a][n] + 1] \in [Number -> Nat]
                <5> DEFINE f == rows[a]
                <5> DEFINE k == rows[a][n] + 1
                <5>1. f \in [Number -> Nat] /\ k \in Nat
                    BY <4>2
                <5> HIDE DEF f, k
                <5>2. [f EXCEPT ![n] = k] \in [Number -> Nat]
                    BY <5>1
                <5>3. QED
                    BY <5>2 DEF f, k
            <4>5. rows \in [Alerts -> [Number -> Nat]]
                BY DEF DbTypeOK
            <4>6. rows' = [rows EXCEPT ![a] = [rows[a] EXCEPT ![n] = rows[a][n] + 1]]
                    \/ rows' = rows
                BY <4>3
            <4>7. QED
                BY <4>1, <4>4, <4>5, <4>6
        <3>4. open' \in [Alerts -> SUBSET Number]
            BY <1>13, <3>1 DEF RecordReminder, DbTypeOK, dbVars
        <3>5. QED
            BY <3>2, <3>3, <3>4 DEF DbTypeOK
    <2>3. ScanInv'
        BY <1>13, ConstantsAssumption DEF RecordReminder, ScanInv, ScanTypeOK,
            FocusOK, Busy, ScanPC, Goto
    <2>4. BoundsOK'
        BY <1>13, ConstantsAssumption DEF RecordReminder, BoundsOK, Fault,
            Crash, NoFault, boundVars
    <2>5. QED
        BY <2>1, <2>2, <2>3, <2>4
<1>14. ASSUME NEW w \in Workers, ReadForUpdate(w) PROVE TypeInv'
    <2>1. RedisTypeOK' /\ DbTypeOK' /\ TaskInv' /\ HistoryTypeOK' /\ BoundsOK'
        BY <1>14, Frames DEF ReadForUpdate, NoFault
    <2>2. ScanInv'
        <3>1. NoMonitor \in Monitor
            BY DEF NoMonitor, Monitor
        <3>2. pc[w] = "update" /\ cur[w] \in Alerts
            BY <1>14 DEF ReadForUpdate, ScanInv, FocusOK, Busy, ScanPC
        <3>3. CASE monitor[cur[w]].stored
            <4>1. /\ pc' = [pc EXCEPT ![w] = "write"] /\ UNCHANGED <<seen, cur>>
                  /\ copy' = [copy EXCEPT ![w] = monitor[cur[w]]]
                BY <1>14, <3>3 DEF ReadForUpdate, Goto
            <4>2. ScanTypeOK'
                <5>1. monitor[cur[w]] \in Monitor
                    BY <3>2 DEF RedisTypeOK
                <5> QED
                    BY <4>1, <5>1 DEF ScanInv, ScanTypeOK, ScanPC
            <4>3. FocusOK'
                BY <3>2, <4>1 DEF ScanInv, ScanTypeOK, FocusOK, Busy, ScanPC
            <4> QED
                BY <4>2, <4>3 DEF ScanInv
        <3>4. CASE ~monitor[cur[w]].stored
            <4>1. Finish(w, cur[w])
                BY <1>14, <3>4 DEF ReadForUpdate
            <4>2. QED
                BY <4>1, FinishKeepsScanInv, <3>2
        <3>5. QED
            BY <3>3, <3>4
    <2>3. QED
        BY <2>1, <2>2
<1>15. ASSUME NEW w \in Workers, WriteUpdate(w) PROVE TypeInv'
    <2>1. DbTypeOK' /\ TaskInv' /\ HistoryTypeOK' /\ BoundsOK'
        BY <1>15, Frames DEF WriteUpdate, SaveUpdate, NoFault
    <2>2. RedisTypeOK'
        <3>1. cur[w] \in Alerts /\ copy[w] \in Monitor
            BY <1>15 DEF WriteUpdate, SaveUpdate, ScanInv, ScanTypeOK, FocusOK,
                Busy, ScanPC
        <3>2. ReminderNumber(w) \in Nat
            BY <3>1 DEF ReminderNumber, ScanInv, ScanTypeOK, Monitor
        <3>3. [copy[w] EXCEPT !.count = ReminderNumber(w), !.due = FALSE] \in Monitor
            BY <3>1, <3>2 DEF Monitor
        <3>4. QED
            BY <1>15, <3>1, <3>3 DEF WriteUpdate, SaveUpdate, RedisTypeOK
    <2>3. ScanInv'
        BY <1>15, ConstantsAssumption DEF WriteUpdate, ScanInv, ScanTypeOK,
            FocusOK, Busy, ScanPC, SaveUpdate, Finish, NoMonitor, Monitor
    <2>4. QED
        BY <2>1, <2>2, <2>3
<1>16. ASSUME NEW w \in Workers, NEW a \in Alerts, ReadForStop(w, a) PROVE TypeInv'
    <2>1. RedisTypeOK' /\ DbTypeOK' /\ TaskInv' /\ HistoryTypeOK'
        BY <1>16, Frames DEF ReadForStop
    <2>2. ScanInv'
        <3>1. UNCHANGED seen /\ cur' = [cur EXCEPT ![w] = a]
            BY <1>16 DEF ReadForStop
        <3>2. monitor[a] \in Monitor /\ copy[w] \in Monitor
            BY DEF RedisTypeOK, ScanInv, ScanTypeOK
        <3>3. CASE copy' = [copy EXCEPT ![w] = monitor[a]]
                   /\ Goto(w, IF monitor[a].stored THEN "stop" ELSE "unindex")
            BY <3>1, <3>2, <3>3, TurnKeepsScanInv DEF Goto
        <3>4. CASE copy' = copy /\ Goto(w, "unindex")
            <4>1. copy' = [copy EXCEPT ![w] = copy[w]]
                BY <3>4 DEF ScanInv, ScanTypeOK
            <4> QED
                BY <3>1, <3>2, <3>4, <4>1, TurnKeepsScanInv DEF Goto
        <3> QED
            BY <1>16, <3>3, <3>4 DEF ReadForStop
    <2>3. BoundsOK'
        BY <1>16, ConstantsAssumption DEF ReadForStop, BoundsOK, Fault, Crash,
            NoFault, boundVars
    <2>4. QED
        BY <2>1, <2>2, <2>3
<1>17. ASSUME NEW w \in Workers, WriteStopped(w) PROVE TypeInv'
    <2>1. DbTypeOK' /\ TaskInv' /\ HistoryTypeOK' /\ BoundsOK'
        BY <1>17, Frames DEF WriteStopped, NoFault
    <2>2. RedisTypeOK'
        <3>1. copy[w] \in Monitor
            BY DEF ScanInv, ScanTypeOK
        <3>2. [copy[w] EXCEPT !.active = FALSE] \in Monitor
            BY <3>1 DEF Monitor
        <3>3. QED
            BY <1>17, <3>2 DEF WriteStopped, RedisTypeOK
    <2>3. ScanInv'
        BY <1>17, ConstantsAssumption DEF WriteStopped, ScanInv, ScanTypeOK,
            FocusOK, Busy, ScanPC, Goto
    <2>4. QED
        BY <2>1, <2>2, <2>3
<1>18. ASSUME NEW w \in Workers, RemoveFromIndex(w) PROVE TypeInv'
    <2>1. DbTypeOK' /\ TaskInv' /\ HistoryTypeOK' /\ BoundsOK'
        BY <1>18, Frames DEF RemoveFromIndex, NoFault
    <2>2. RedisTypeOK'
        BY <1>18 DEF RemoveFromIndex, RedisTypeOK
    <2>3. ScanInv'
        BY <1>18, ConstantsAssumption DEF RemoveFromIndex, ScanInv,
            ScanTypeOK, FocusOK, Busy, ScanPC, Goto
    <2>4. QED
        BY <2>1, <2>2, <2>3
<1>19. ASSUME NEW w \in Workers, DeleteAlertKey(w) PROVE TypeInv'
    <2>1. DbTypeOK' /\ TaskInv' /\ HistoryTypeOK' /\ BoundsOK'
        BY <1>19, Frames DEF DeleteAlertKey, NoFault
    <2>2. RedisTypeOK'
        BY <1>19 DEF DeleteAlertKey, RedisTypeOK
    <2>3. ScanInv'
        BY <1>19, ConstantsAssumption DEF DeleteAlertKey, ScanInv, ScanTypeOK,
            FocusOK, Busy, ScanPC, Goto
    <2>4. QED
        BY <2>1, <2>2, <2>3
<1>20. ASSUME NEW w \in Workers, StopFails(w) PROVE TypeInv'
    <2>1. RedisTypeOK' /\ DbTypeOK' /\ TaskInv' /\ HistoryTypeOK'
        BY <1>20, Frames DEF StopFails
    <2>2. ScanInv'
        BY <1>20, ConstantsAssumption DEF StopFails, ScanInv, ScanTypeOK,
            FocusOK, Busy, ScanPC, Goto
    <2>3. BoundsOK'
        BY <1>20, ConstantsAssumption DEF StopFails, BoundsOK, Fault, Crash,
            NoFault, boundVars
    <2>4. QED
        BY <2>1, <2>2, <2>3
<1>21. ASSUME NEW w \in Workers, FlagExhausted(w) PROVE TypeInv'
    <2>1. RedisTypeOK' /\ TaskInv' /\ HistoryTypeOK'
        BY <1>21, Frames DEF FlagExhausted
    <2>2. DbTypeOK'
        BY <1>21 DEF FlagExhausted, DbTypeOK, Status
    <2>3. ScanInv'
        BY <1>21, ConstantsAssumption DEF FlagExhausted, ScanInv, ScanTypeOK,
            FocusOK, Busy, ScanPC, Goto
    <2>4. BoundsOK'
        BY <1>21, ConstantsAssumption DEF FlagExhausted, BoundsOK, Fault,
            Crash, NoFault, boundVars
    <2>5. QED
        BY <2>1, <2>2, <2>3, <2>4
<1>22. ASSUME NEW w \in Workers, NotifySupport(w) PROVE TypeInv'
    <2>1. RedisTypeOK' /\ DbTypeOK' /\ TaskInv' /\ BoundsOK'
        BY <1>22, Frames DEF NotifySupport, NoFault
    <2>2. ScanInv'
        BY <1>22, ConstantsAssumption DEF NotifySupport, ScanInv, ScanTypeOK,
            FocusOK, Busy, ScanPC, Finish, NoMonitor, Monitor
    <2>3. HistoryTypeOK'
        BY <1>22 DEF NotifySupport, HistoryTypeOK, ScanInv, FocusOK, Busy,
            ScanPC
    <2>4. QED
        BY <2>1, <2>2, <2>3
<1>23. ASSUME NEW w \in Workers, MonitorAbandoned(w) PROVE TypeInv'
    <2>1. RedisTypeOK' /\ DbTypeOK' /\ TaskInv' /\ HistoryTypeOK'
        BY <1>23, Frames DEF MonitorAbandoned
    <2>2. ScanInv'
        BY <1>23, ConstantsAssumption DEF MonitorAbandoned, ScanInv,
            ScanTypeOK, FocusOK, Busy, ScanPC, Finish, NoMonitor, Monitor
    <2>3. BoundsOK'
        BY <1>23, ConstantsAssumption DEF MonitorAbandoned, BoundsOK, Fault,
            Crash, NoFault, boundVars
    <2>4. QED
        BY <2>1, <2>2, <2>3
<1>24. ASSUME NEW w \in Workers, ReleaseScanLock(w) PROVE TypeInv'
    <2>1. DbTypeOK' /\ TaskInv' /\ HistoryTypeOK'
        BY <1>24, Frames DEF ReleaseScanLock
    <2>2. RedisTypeOK'
        BY <1>24 DEF ReleaseScanLock, RedisTypeOK
    <2>3. ScanInv'
        BY <1>24, ConstantsAssumption DEF ReleaseScanLock, ScanInv,
            ScanTypeOK, FocusOK, Busy, ScanPC, Goto
    <2>4. BoundsOK'
        BY <1>24, ConstantsAssumption DEF ReleaseScanLock, BoundsOK, Fault,
            Crash, NoFault, boundVars
    <2>5. QED
        BY <2>1, <2>2, <2>3, <2>4
<1>25. ASSUME NEW w \in Workers, CrashScan(w) PROVE TypeInv'
    <2>1. RedisTypeOK' /\ DbTypeOK' /\ TaskInv' /\ HistoryTypeOK'
        BY <1>25, Frames DEF CrashScan
    <2>2. ScanInv'
        BY <1>25, ConstantsAssumption DEF CrashScan, ScanInv, ScanTypeOK,
            FocusOK, Busy, ScanPC, NoMonitor, Monitor, Goto
    <2>3. BoundsOK'
        BY <1>25, ConstantsAssumption DEF CrashScan, BoundsOK, Fault, Crash,
            NoFault, boundVars
    <2>4. QED
        BY <2>1, <2>2, <2>3
<1>26. ASSUME NEW r \in Replies, NEW a \in Alerts, ReplyArrives(r, a) PROVE TypeInv'
    <2>1. RedisTypeOK' /\ DbTypeOK' /\ ScanInv' /\ HistoryTypeOK' /\ BoundsOK'
        BY <1>26, Frames DEF ReplyArrives, NoFault
    <2>2. TaskInv'
        BY <1>26 DEF ReplyArrives, TaskInv, TaskTypeOK, ReplyOK, SetReply,
            Reply, ReplyPC, NoReply, NoMonitor, Monitor
    <2>3. QED
        BY <2>1, <2>2
<1>27. ASSUME NEW r \in Replies, StoreReply(r) PROVE TypeInv'
    <2>1. RedisTypeOK' /\ DbTypeOK' /\ ScanInv' /\ HistoryTypeOK'
        BY <1>27, Frames DEF StoreReply, SetReply
    <2>2. TaskInv'
        BY <1>27 DEF StoreReply, TaskInv, TaskTypeOK, ReplyOK, SetReply,
            Reply, ReplyPC
    <2>3. BoundsOK'
        BY <1>27, ConstantsAssumption DEF StoreReply, BoundsOK, Fault, Crash,
            NoFault, boundVars
    <2>4. QED
        BY <2>1, <2>2, <2>3
<1>28. ASSUME NEW r \in Replies, ReadForMark(r) PROVE TypeInv'
    <2>1. RedisTypeOK' /\ DbTypeOK' /\ ScanInv' /\ HistoryTypeOK' /\ BoundsOK'
        BY <1>28, Frames DEF ReadForMark, SetReply, NoFault
    <2>2. TaskInv'
        <3>1. reply[r] \in Reply /\ reply[r].pc = "stored" /\ reply[r].alert \in Alerts
            BY <1>28 DEF ReadForMark, TaskInv, TaskTypeOK, ReplyOK
        <3>2. monitor[reply[r].alert] \in Monitor /\ reply[r].copy \in Monitor
            BY <3>1 DEF RedisTypeOK, Reply
        <3>3. UNCHANGED escalation /\ {"mark", "rows"} \subseteq ReplyPC
            BY <1>28 DEF ReadForMark, ReplyPC
        <3>4. CASE reply' = [reply EXCEPT ![r].pc = "mark",
                                          ![r].copy = monitor[reply[r].alert]]
            BY <3>1, <3>2, <3>3, <3>4, CopyKeepsTaskInv
        <3>5. CASE SetReply(r, "rows")
            <4>1. reply \in [Replies -> Reply]
                BY DEF TaskInv, TaskTypeOK
            <4>2. [reply[r] EXCEPT !.pc = "rows"] \in Reply
                BY <3>1, <3>3 DEF Reply
            <4>3. [reply[r] EXCEPT !.pc = "rows"].alert = reply[r].alert
                BY <3>1 DEF Reply
            <4>4. reply' = [reply EXCEPT ![r] = [reply[r] EXCEPT !.pc = "rows"]]
                BY <3>5, <4>1 DEF SetReply
            <4> QED
                BY <3>1, <3>3, <4>2, <4>3, <4>4, ReplyKeepsTaskInv
        <3> QED
            BY <1>28, <3>4, <3>5 DEF ReadForMark
    <2>3. QED
        BY <2>1, <2>2
<1>29. ASSUME NEW r \in Replies, ReadForMarkFails(r) PROVE TypeInv'
    <2>1. RedisTypeOK' /\ DbTypeOK' /\ ScanInv' /\ HistoryTypeOK'
        BY <1>29, Frames DEF ReadForMarkFails, SetReply
    <2>2. TaskInv'
        BY <1>29 DEF ReadForMarkFails, TaskInv, TaskTypeOK, ReplyOK, SetReply,
            Reply, ReplyPC
    <2>3. BoundsOK'
        BY <1>29, ConstantsAssumption DEF ReadForMarkFails, BoundsOK, Fault,
            Crash, NoFault, boundVars
    <2>4. QED
        BY <2>1, <2>2, <2>3
<1>30. ASSUME NEW r \in Replies, MarkResponseReceived(r) PROVE TypeInv'
    <2>1. DbTypeOK' /\ ScanInv' /\ BoundsOK'
        BY <1>30, Frames DEF MarkResponseReceived, NoFault
    <2>2. RedisTypeOK'
        <3>1. reply[r].copy \in Monitor
            BY DEF TaskInv, TaskTypeOK, Reply
        <3>2. [reply[r].copy EXCEPT !.responded = TRUE, !.active = FALSE] \in Monitor
            BY <3>1 DEF Monitor
        <3>3. QED
            BY <1>30, <3>2 DEF MarkResponseReceived, RedisTypeOK
    <2>3. TaskInv'
        <3>1. NoMonitor \in Monitor /\ "rows" \in ReplyPC
            BY DEF NoMonitor, Monitor, ReplyPC
        <3>2. /\ reply[r].pc # "none" /\ UNCHANGED escalation
              /\ reply' = [reply EXCEPT ![r].pc = "rows", ![r].copy = NoMonitor]
            BY <1>30 DEF MarkResponseReceived
        <3> QED
            BY <3>1, <3>2, CopyKeepsTaskInv
    <2>4. HistoryTypeOK'
        BY <1>30 DEF MarkResponseReceived, HistoryTypeOK, TaskInv, TaskTypeOK,
            ReplyOK, Reply
    <2>5. QED
        BY <2>1, <2>2, <2>3, <2>4
<1>31. ASSUME NEW r \in Replies, MarkFails(r) PROVE TypeInv'
    <2>1. RedisTypeOK' /\ DbTypeOK' /\ ScanInv' /\ HistoryTypeOK'
        BY <1>31, Frames DEF MarkFails
    <2>2. TaskInv'
        <3>1. NoMonitor \in Monitor /\ "rows" \in ReplyPC
            BY DEF NoMonitor, Monitor, ReplyPC
        <3>2. /\ reply[r].pc # "none" /\ UNCHANGED escalation
              /\ reply' = [reply EXCEPT ![r].pc = "rows", ![r].copy = NoMonitor]
            BY <1>31 DEF MarkFails
        <3> QED
            BY <3>1, <3>2, CopyKeepsTaskInv
    <2>3. BoundsOK'
        BY <1>31, ConstantsAssumption DEF MarkFails, BoundsOK, Fault, Crash,
            NoFault, boundVars
    <2>4. QED
        BY <2>1, <2>2, <2>3
<1>32. ASSUME NEW r \in Replies, MarkRemindersResponded(r) PROVE TypeInv'
    <2>1. RedisTypeOK' /\ ScanInv' /\ HistoryTypeOK'
        BY <1>32, Frames DEF MarkRemindersResponded, SetReply
    <2>2. DbTypeOK'
        BY <1>32 DEF MarkRemindersResponded, DbTypeOK
    <2>3. TaskInv'
        BY <1>32 DEF MarkRemindersResponded, TaskInv, TaskTypeOK, ReplyOK,
            SetReply, Reply, ReplyPC
    <2>4. BoundsOK'
        BY <1>32, ConstantsAssumption DEF MarkRemindersResponded, BoundsOK,
            Fault, Crash, NoFault, boundVars
    <2>5. QED
        BY <2>1, <2>2, <2>3, <2>4
<1>33. ASSUME NEW r \in Replies, CrashReply(r) PROVE TypeInv'
    <2>1. RedisTypeOK' /\ DbTypeOK' /\ ScanInv' /\ HistoryTypeOK'
        BY <1>33, Frames DEF CrashReply
    <2>2. TaskInv'
        <3>1. NoMonitor \in Monitor /\ "queued" \in ReplyPC
            BY DEF NoMonitor, Monitor, ReplyPC
        <3>2. /\ reply[r].pc # "none" /\ UNCHANGED escalation
              /\ reply' = [reply EXCEPT ![r].pc = "queued", ![r].copy = NoMonitor]
            BY <1>33 DEF CrashReply
        <3> QED
            BY <3>1, <3>2, CopyKeepsTaskInv
    <2>3. BoundsOK'
        BY <1>33, ConstantsAssumption DEF CrashReply, BoundsOK, Fault, Crash,
            NoFault, boundVars
    <2>4. QED
        BY <2>1, <2>2, <2>3
<1>34. CASE UNCHANGED vars
    BY <1>34, Frames DEF vars
<1>35. QED
    BY <1>1, <1>2, <1>3, <1>4, <1>5, <1>6, <1>7, <1>8, <1>9, <1>10, <1>11, <1>12, <1>13, <1>14, <1>15, <1>16, <1>17, <1>18, <1>19, <1>20, <1>21, <1>22, <1>23, <1>24, <1>25, <1>26, <1>27, <1>28, <1>29, <1>30, <1>31, <1>32, <1>33, <1>34
    DEF Next, EscalationStep, ScanStep, ProcessMonitor, ReplyStep

\* Every variable keeps its type, for any number of alerts, workers and
\* replies and any limit on the reminders.
THEOREM TypeCorrect == Spec => []TypeOK
<1>1. TypeInv => TypeOK
    BY DEF TypeInv, TypeOK, ScanInv, TaskInv
<1>2. QED
    BY TypeInit, TypeNext, <1>1, PTL DEF Spec

(***************************************************************************)
(* A cancelled monitor.  The index is what silences it: a stale write may  *)
(* bring the answered state back, but only the registration of an alert    *)
(* adds to the index, and only a registered alert can be cancelled.        *)
(***************************************************************************)

Registered == {a \in Alerts : escalation[a] = "registered"}

\* Whatever refers to a monitor refers to one whose registration is over.
RegisteredInv ==
    /\ index \subseteq Registered
    /\ \A a \in Alerts : monitor[a].stored => a \in Registered
    /\ \A w \in Workers, a \in Alerts : seen[w][a].stored => a \in Registered
    /\ \A w \in Workers : pc[w] \in Busy => cur[w] \in Registered
    /\ \A r \in Replies : reply[r].pc = "mark" => reply[r].alert \in Registered

LEMMA RegisteredInit == Init => RegisteredInv
BY DEF Init, RegisteredInv, Registered, NoMonitor, NoReply, Busy, ScanPC

LEMMA RegisteredFrame ==
    RegisteredInv /\ UNCHANGED <<index, monitor, escalation, seen, pc, cur, reply>>
        => RegisteredInv'
BY DEF RegisteredInv, Registered

LEMMA RegisteredNext == TypeInv /\ RegisteredInv /\ [Next]_vars => RegisteredInv'
<1> SUFFICES ASSUME TypeInv, RegisteredInv, [Next]_vars PROVE RegisteredInv'
    OBVIOUS
<1> USE DEF TypeInv, redisVars, dbVars, scanVars
<1>1. ASSUME NEW a \in Alerts, SendEscalation(a) PROVE RegisteredInv'
    BY <1>1 DEF SendEscalation, RegisteredInv, Registered, TaskInv, TaskTypeOK
<1>2. ASSUME NEW a \in Alerts, CommitEscalation(a) PROVE RegisteredInv'
    BY <1>2 DEF CommitEscalation, RegisteredInv, Registered, TaskInv,
        TaskTypeOK
<1>3. ASSUME NEW a \in Alerts, RegisterMonitor(a) PROVE RegisteredInv'
    BY <1>3 DEF RegisterMonitor, RegisteredInv, Registered, TaskInv,
        TaskTypeOK, RedisTypeOK, NewMonitor
<1>4. ASSUME NEW a \in Alerts, CrashEscalation(a) PROVE RegisteredInv'
    BY <1>4 DEF CrashEscalation, RegisteredInv, Registered, TaskInv,
        TaskTypeOK
<1>5. ASSUME NEW a \in Alerts, TimeoutElapses(a) PROVE RegisteredInv'
    BY <1>5 DEF TimeoutElapses, RegisteredInv, Registered, RedisTypeOK
<1>6. ASSUME NEW a \in Alerts, MonitorExpires(a) PROVE RegisteredInv'
    BY <1>6 DEF MonitorExpires, RegisteredInv, Registered, RedisTypeOK,
        NoMonitor
<1>7. CASE LockExpires
    BY <1>7, RegisteredFrame DEF LockExpires
<1>8. ASSUME NEW w \in Workers, AcquireScanLock(w) PROVE RegisteredInv'
    BY <1>8 DEF AcquireScanLock, RegisteredInv, Registered, ScanInv,
        ScanTypeOK, FocusOK, Busy, ScanPC
<1>9. ASSUME NEW w \in Workers, GetAllActiveMonitors(w) PROVE RegisteredInv'
    <2>1. UNCHANGED <<monitor, escalation, reply, cur>> /\ index' \subseteq index
        BY <1>9 DEF GetAllActiveMonitors
    <2>2. \A v \in Workers, a \in Alerts :
              seen'[v][a].stored => seen[v][a].stored \/ monitor[a].stored
        BY <1>9 DEF GetAllActiveMonitors, ScanInv, ScanTypeOK, NoMonitor
    <2>3. \A v \in Workers : pc'[v] \in Busy => pc[v] \in Busy
        BY <1>9 DEF GetAllActiveMonitors, ScanInv, ScanTypeOK, Busy, ScanPC
    <2> QED
        BY <2>1, <2>2, <2>3 DEF RegisteredInv, Registered
<1>10. ASSUME NEW w \in Workers, NEW a \in Alerts, SkipMonitor(w, a) PROVE RegisteredInv'
    BY <1>10 DEF SkipMonitor, Finish, InList, RegisteredInv, Registered,
        ScanInv, ScanTypeOK, FocusOK, Busy, ScanPC, NoMonitor
<1>11. ASSUME NEW w \in Workers, NEW a \in Alerts, SendReminder(w, a) PROVE RegisteredInv'
    BY <1>11 DEF SendReminder, MailReminder, Goto, InList, RegisteredInv,
        Registered, ScanInv, ScanTypeOK, FocusOK, Busy, ScanPC, NoMonitor
<1>12. ASSUME NEW w \in Workers, NEW a \in Alerts, SendReminderFails(w, a) PROVE RegisteredInv'
    BY <1>12 DEF SendReminderFails, Finish, InList, RegisteredInv, Registered,
        ScanInv, ScanTypeOK, FocusOK, Busy, ScanPC, NoMonitor
<1>13. ASSUME NEW w \in Workers, RecordReminder(w) PROVE RegisteredInv'
    BY <1>13 DEF RecordReminder, Goto, RegisteredInv, Registered, ScanInv,
        ScanTypeOK, FocusOK, Busy, ScanPC, NoMonitor
<1>14. ASSUME NEW w \in Workers, ReadForUpdate(w) PROVE RegisteredInv'
    <2>1. cur[w] \in Alerts /\ cur[w] \in Registered
        BY <1>14 DEF ReadForUpdate, ScanInv, FocusOK, RegisteredInv, Busy, ScanPC
    <2>2. CASE monitor[cur[w]].stored
        BY <1>14, <2>1, <2>2 DEF ReadForUpdate, Goto, RegisteredInv, Registered,
            ScanInv, ScanTypeOK, Busy, ScanPC
    <2>3. CASE ~monitor[cur[w]].stored
        <3>1. Finish(w, cur[w])
            BY <1>14, <2>3 DEF ReadForUpdate
        <3>2. UNCHANGED <<index, monitor, escalation, reply>>
            BY <1>14 DEF ReadForUpdate
        <3>3. QED
            BY <3>1, <3>2, <2>1 DEF Finish, RegisteredInv, Registered, ScanInv,
                ScanTypeOK, Busy, ScanPC, NoMonitor
    <2>4. QED
        BY <2>2, <2>3
<1>15. ASSUME NEW w \in Workers, WriteUpdate(w) PROVE RegisteredInv'
    BY <1>15 DEF WriteUpdate, SaveUpdate, Finish, RegisteredInv, Registered,
        ScanInv, ScanTypeOK, FocusOK, Busy, ScanPC, NoMonitor, RedisTypeOK,
        Monitor
<1>16. ASSUME NEW w \in Workers, NEW a \in Alerts, ReadForStop(w, a) PROVE RegisteredInv'
    BY <1>16 DEF ReadForStop, Goto, InList, RegisteredInv, Registered,
        ScanInv, ScanTypeOK, FocusOK, Busy, ScanPC, NoMonitor
<1>17. ASSUME NEW w \in Workers, WriteStopped(w) PROVE RegisteredInv'
    BY <1>17 DEF WriteStopped, Goto, RegisteredInv, Registered, ScanInv,
        ScanTypeOK, FocusOK, Busy, ScanPC, NoMonitor, RedisTypeOK, Monitor
<1>18. ASSUME NEW w \in Workers, RemoveFromIndex(w) PROVE RegisteredInv'
    BY <1>18 DEF RemoveFromIndex, Goto, RegisteredInv, Registered, ScanInv,
        ScanTypeOK, FocusOK, Busy, ScanPC, NoMonitor
<1>19. ASSUME NEW w \in Workers, DeleteAlertKey(w) PROVE RegisteredInv'
    BY <1>19 DEF DeleteAlertKey, Goto, RegisteredInv, Registered, ScanInv,
        ScanTypeOK, FocusOK, Busy, ScanPC, NoMonitor
<1>20. ASSUME NEW w \in Workers, StopFails(w) PROVE RegisteredInv'
    BY <1>20 DEF StopFails, Goto, RegisteredInv, Registered, ScanInv,
        ScanTypeOK, FocusOK, Busy, ScanPC, NoMonitor
<1>21. ASSUME NEW w \in Workers, FlagExhausted(w) PROVE RegisteredInv'
    BY <1>21 DEF FlagExhausted, Goto, RegisteredInv, Registered, ScanInv,
        ScanTypeOK, FocusOK, Busy, ScanPC, NoMonitor
<1>22. ASSUME NEW w \in Workers, NotifySupport(w) PROVE RegisteredInv'
    BY <1>22 DEF NotifySupport, Finish, RegisteredInv, Registered, ScanInv,
        ScanTypeOK, FocusOK, Busy, ScanPC, NoMonitor
<1>23. ASSUME NEW w \in Workers, MonitorAbandoned(w) PROVE RegisteredInv'
    BY <1>23 DEF MonitorAbandoned, Finish, RegisteredInv, Registered, ScanInv,
        ScanTypeOK, FocusOK, Busy, ScanPC, NoMonitor
<1>24. ASSUME NEW w \in Workers, ReleaseScanLock(w) PROVE RegisteredInv'
    BY <1>24 DEF ReleaseScanLock, Goto, RegisteredInv, Registered, ScanInv,
        ScanTypeOK, FocusOK, Busy, ScanPC, NoMonitor
<1>25. ASSUME NEW w \in Workers, CrashScan(w) PROVE RegisteredInv'
    BY <1>25 DEF CrashScan, Goto, RegisteredInv, Registered, ScanInv,
        ScanTypeOK, FocusOK, Busy, ScanPC, NoMonitor
<1>26. ASSUME NEW r \in Replies, NEW a \in Alerts, ReplyArrives(r, a) PROVE RegisteredInv'
    BY <1>26 DEF ReplyArrives, RegisteredInv, Registered, TaskInv, TaskTypeOK,
        Reply, NoReply
<1>27. ASSUME NEW r \in Replies, StoreReply(r) PROVE RegisteredInv'
    BY <1>27 DEF StoreReply, SetReply, RegisteredInv, Registered, TaskInv,
        TaskTypeOK, Reply
<1>28. ASSUME NEW r \in Replies, ReadForMark(r) PROVE RegisteredInv'
    BY <1>28 DEF ReadForMark, SetReply, RegisteredInv, Registered, TaskInv,
        TaskTypeOK, ReplyOK, Reply
<1>29. ASSUME NEW r \in Replies, ReadForMarkFails(r) PROVE RegisteredInv'
    BY <1>29 DEF ReadForMarkFails, SetReply, RegisteredInv, Registered,
        TaskInv, TaskTypeOK, Reply
<1>30. ASSUME NEW r \in Replies, MarkResponseReceived(r) PROVE RegisteredInv'
    BY <1>30 DEF MarkResponseReceived, RegisteredInv, Registered, TaskInv,
        TaskTypeOK, ReplyOK, Reply, RedisTypeOK
<1>31. ASSUME NEW r \in Replies, MarkFails(r) PROVE RegisteredInv'
    BY <1>31 DEF MarkFails, RegisteredInv, Registered, TaskInv, TaskTypeOK,
        Reply
<1>32. ASSUME NEW r \in Replies, MarkRemindersResponded(r) PROVE RegisteredInv'
    BY <1>32 DEF MarkRemindersResponded, SetReply, RegisteredInv, Registered,
        TaskInv, TaskTypeOK, Reply
<1>33. ASSUME NEW r \in Replies, CrashReply(r) PROVE RegisteredInv'
    BY <1>33 DEF CrashReply, RegisteredInv, Registered, TaskInv, TaskTypeOK,
        Reply
<1>34. CASE UNCHANGED vars
    BY <1>34, RegisteredFrame DEF vars, redisVars, dbVars, scanVars, historyVars
<1>35. QED
    BY <1>1, <1>2, <1>3, <1>4, <1>5, <1>6, <1>7, <1>8, <1>9, <1>10, <1>11,
        <1>12, <1>13, <1>14, <1>15, <1>16, <1>17, <1>18, <1>19, <1>20, <1>21,
        <1>22, <1>23, <1>24, <1>25, <1>26, <1>27, <1>28, <1>29, <1>30, <1>31,
        <1>32, <1>33, <1>34 DEF Next, EscalationStep, ScanStep, ProcessMonitor,
        ReplyStep

\* What is left of a cancelled monitor: no index entry, and in the list of a
\* scan that read it earlier at most one entry, good for one reminder.
SilenceInv ==
    /\ marked \subseteq Registered \ index
    /\ \A a \in Alerts, w \in Workers : late[a][w] = 0 \/ late[a][w] = 1
    /\ \A a \in Alerts, w \in Workers : a \notin marked => late[a][w] = 0
    /\ \A a \in Alerts, w \in Workers :
           seen[w][a].stored /\ cur[w] # a => late[a][w] = 0

LEMMA SilenceInit == Init => SilenceInv
BY DEF Init, SilenceInv, Registered, NoMonitor

LEMMA SilenceFrame ==
    SilenceInv /\ UNCHANGED <<index, escalation, seen, cur, marked, late>> => SilenceInv'
BY DEF SilenceInv, Registered

\* An entry that leaves a list leaves no reminder behind.
LEMMA FinishKeepsSilence ==
    ASSUME ScanInv, SilenceInv, NEW w \in Workers, NEW a \in Alerts,
           cur[w] \in {a, NoAlert}, Finish(w, a),
           UNCHANGED <<index, escalation, marked, late>>
    PROVE  SilenceInv'
<1>1. \A b \in Alerts, v \in Workers :
          seen'[v][b].stored /\ cur'[v] # b => seen[v][b].stored /\ cur[v] # b
    BY ConstantsAssumption DEF Finish, ScanInv, ScanTypeOK, NoMonitor
<1>2. QED
    BY <1>1 DEF SilenceInv, Registered

LEMMA SilenceNext ==
    TypeInv /\ RegisteredInv /\ SilenceInv /\ [Next]_vars => SilenceInv'
<1> SUFFICES ASSUME TypeInv, RegisteredInv, SilenceInv, [Next]_vars
             PROVE  SilenceInv'
    OBVIOUS
<1> USE DEF TypeInv
<1>1. ASSUME NEW a \in Alerts, SendEscalation(a) PROVE SilenceInv'
    BY <1>1 DEF SendEscalation, SilenceInv, Registered, TaskInv, TaskTypeOK,
        redisVars, dbVars, scanVars, historyVars
<1>2. ASSUME NEW a \in Alerts, CommitEscalation(a) PROVE SilenceInv'
    BY <1>2 DEF CommitEscalation, SilenceInv, Registered, TaskInv, TaskTypeOK,
        redisVars, dbVars, scanVars, historyVars
<1>3. ASSUME NEW a \in Alerts, RegisterMonitor(a) PROVE SilenceInv'
    <2>1. a \notin marked
        BY <1>3 DEF RegisterMonitor, SilenceInv, Registered
    <2>2. Registered \subseteq Registered'
        BY <1>3 DEF RegisterMonitor, Registered, TaskInv, TaskTypeOK
    <2>3. index' \subseteq index \cup {a} /\ UNCHANGED <<seen, cur, marked, late>>
        BY <1>3 DEF RegisterMonitor, scanVars, historyVars
    <2>4. QED
        BY <2>1, <2>2, <2>3 DEF SilenceInv
<1>4. ASSUME NEW a \in Alerts, CrashEscalation(a) PROVE SilenceInv'
    BY <1>4 DEF CrashEscalation, SilenceInv, Registered, TaskInv, TaskTypeOK,
        redisVars, dbVars, scanVars, historyVars
<1>5. ASSUME NEW a \in Alerts, TimeoutElapses(a) PROVE SilenceInv'
    BY <1>5, SilenceFrame DEF TimeoutElapses, redisVars, dbVars, scanVars, historyVars
<1>6. ASSUME NEW a \in Alerts, MonitorExpires(a) PROVE SilenceInv'
    BY <1>6, SilenceFrame DEF MonitorExpires, redisVars, dbVars, scanVars, historyVars
<1>7. CASE LockExpires
    BY <1>7, SilenceFrame DEF LockExpires, redisVars, dbVars, scanVars, historyVars
<1>8. ASSUME NEW w \in Workers, AcquireScanLock(w) PROVE SilenceInv'
    BY <1>8, SilenceFrame DEF AcquireScanLock, redisVars, dbVars, scanVars, historyVars
<1>9. ASSUME NEW w \in Workers, GetAllActiveMonitors(w) PROVE SilenceInv'
    <2>1. index' \subseteq index /\ UNCHANGED <<escalation, cur, marked, late>>
        BY <1>9 DEF GetAllActiveMonitors, historyVars
    <2>2. \A b \in Alerts, v \in Workers :
              seen'[v][b].stored => seen[v][b].stored \/ b \in index
        BY <1>9 DEF GetAllActiveMonitors, ScanInv, ScanTypeOK, NoMonitor
    <2>3. \A b \in Alerts, v \in Workers : b \in index => late[b][v] = 0
        BY DEF SilenceInv
    <2>4. QED
        BY <2>1, <2>2, <2>3 DEF SilenceInv, Registered
<1>10. ASSUME NEW w \in Workers, NEW a \in Alerts, SkipMonitor(w, a) PROVE SilenceInv'
    <2>1. cur[w] = NoAlert
        BY <1>10 DEF SkipMonitor, InList, ScanInv, FocusOK, Busy
    <2>2. Finish(w, a) /\ UNCHANGED <<index, escalation, marked, late>>
        BY <1>10 DEF SkipMonitor, redisVars, dbVars, scanVars, historyVars
    <2>3. QED
        BY <2>1, <2>2, FinishKeepsSilence
<1>11. ASSUME NEW w \in Workers, NEW a \in Alerts, SendReminder(w, a) PROVE SilenceInv'
    <2>1. pc[w] = "scan" /\ cur[w] = NoAlert /\ seen[w][a].stored
        BY <1>11 DEF SendReminder, InList, ScanInv, FocusOK, Busy
    <2>2. late[a][w] = 0
        BY <2>1, ConstantsAssumption DEF SilenceInv
    <2>3. UNCHANGED <<index, escalation, marked, seen>>
        BY <1>11 DEF SendReminder, MailReminder, redisVars
    <2>4. cur' = [cur EXCEPT ![w] = a]
        BY <1>11 DEF SendReminder, MailReminder
    <2>5. \/ late' = [late EXCEPT ![a][w] = late[a][w] + 1] /\ a \in marked
          \/ late' = late
        BY <1>11 DEF SendReminder, MailReminder
    <2>6. CASE late' = late
        BY <2>1, <2>3, <2>4, <2>6, ConstantsAssumption
        DEF SilenceInv, Registered, ScanInv, ScanTypeOK
    <2>7. CASE late' = [late EXCEPT ![a][w] = late[a][w] + 1] /\ a \in marked
        <3>1. \A b \in Alerts, v \in Workers :
                  late'[b][v] = IF b = a /\ v = w THEN 1 ELSE late[b][v]
            BY <2>2, <2>7 DEF HistoryTypeOK
        <3>2. QED
            BY <2>1, <2>3, <2>4, <2>7, <3>1, ConstantsAssumption
            DEF SilenceInv, Registered, ScanInv, ScanTypeOK
    <2>8. QED
        BY <2>5, <2>6, <2>7
<1>12. ASSUME NEW w \in Workers, NEW a \in Alerts, SendReminderFails(w, a) PROVE SilenceInv'
    <2>1. cur[w] = NoAlert
        BY <1>12 DEF SendReminderFails, InList, ScanInv, FocusOK, Busy
    <2>2. Finish(w, a) /\ UNCHANGED <<index, escalation, marked, late>>
        BY <1>12 DEF SendReminderFails, redisVars, dbVars, scanVars, historyVars
    <2>3. QED
        BY <2>1, <2>2, FinishKeepsSilence
<1>13. ASSUME NEW w \in Workers, RecordReminder(w) PROVE SilenceInv'
    BY <1>13, SilenceFrame DEF RecordReminder, redisVars, dbVars, scanVars, historyVars
<1>14. ASSUME NEW w \in Workers, ReadForUpdate(w) PROVE SilenceInv'
    <2>1. cur[w] \in Alerts
        BY <1>14 DEF ReadForUpdate, ScanInv, FocusOK, Busy, ScanPC
    <2>2. UNCHANGED <<index, escalation, marked, late>>
        BY <1>14 DEF ReadForUpdate, redisVars, dbVars, scanVars, historyVars
    <2>3. CASE monitor[cur[w]].stored
        BY <1>14, <2>2, <2>3, SilenceFrame DEF ReadForUpdate
    <2>4. CASE ~monitor[cur[w]].stored
        BY <1>14, <2>1, <2>2, <2>4, FinishKeepsSilence DEF ReadForUpdate
    <2>5. QED
        BY <2>3, <2>4
<1>15. ASSUME NEW w \in Workers, WriteUpdate(w) PROVE SilenceInv'
    <2>1. cur[w] \in Alerts
        BY <1>15 DEF WriteUpdate, SaveUpdate, ScanInv, ScanTypeOK, FocusOK, Busy, ScanPC
    <2>2. Finish(w, cur[w]) /\ UNCHANGED <<index, escalation, marked, late>>
        BY <1>15 DEF WriteUpdate, SaveUpdate, redisVars, dbVars, scanVars, historyVars
    <2>3. QED
        BY <2>1, <2>2, FinishKeepsSilence
<1>16. ASSUME NEW w \in Workers, NEW a \in Alerts, ReadForStop(w, a) PROVE SilenceInv'
    <2>1. cur[w] = NoAlert
        BY <1>16 DEF ReadForStop, InList, ScanInv, FocusOK, Busy
    <2>2. UNCHANGED <<index, escalation, marked, late, seen>>
        BY <1>16 DEF ReadForStop, redisVars, dbVars, scanVars, historyVars
    <2>3. \A b \in Alerts, v \in Workers : cur'[v] # b => cur[v] # b
        BY <1>16, <2>1, ConstantsAssumption DEF ReadForStop, ScanInv, ScanTypeOK
    <2>4. QED
        BY <2>2, <2>3 DEF SilenceInv, Registered
<1>17. ASSUME NEW w \in Workers, WriteStopped(w) PROVE SilenceInv'
    BY <1>17, SilenceFrame DEF WriteStopped, redisVars, dbVars, scanVars, historyVars
<1>18. ASSUME NEW w \in Workers, RemoveFromIndex(w) PROVE SilenceInv'
    BY <1>18 DEF RemoveFromIndex, SilenceInv, Registered, historyVars
<1>19. ASSUME NEW w \in Workers, DeleteAlertKey(w) PROVE SilenceInv'
    BY <1>19, SilenceFrame DEF DeleteAlertKey, redisVars, dbVars, scanVars, historyVars
<1>20. ASSUME NEW w \in Workers, StopFails(w) PROVE SilenceInv'
    BY <1>20, SilenceFrame DEF StopFails, redisVars, dbVars, scanVars, historyVars
<1>21. ASSUME NEW w \in Workers, FlagExhausted(w) PROVE SilenceInv'
    BY <1>21, SilenceFrame DEF FlagExhausted, redisVars, dbVars, scanVars, historyVars
<1>22. ASSUME NEW w \in Workers, NotifySupport(w) PROVE SilenceInv'
    <2>1. cur[w] \in Alerts
        BY <1>22 DEF NotifySupport, ScanInv, ScanTypeOK, FocusOK, Busy, ScanPC
    <2>2. Finish(w, cur[w]) /\ UNCHANGED <<index, escalation, marked, late>>
        BY <1>22 DEF NotifySupport, redisVars, dbVars, scanVars, historyVars
    <2>3. QED
        BY <2>1, <2>2, FinishKeepsSilence
<1>23. ASSUME NEW w \in Workers, MonitorAbandoned(w) PROVE SilenceInv'
    <2>1. cur[w] \in Alerts
        BY <1>23 DEF MonitorAbandoned, ScanInv, ScanTypeOK, FocusOK, Busy, ScanPC
    <2>2. Finish(w, cur[w]) /\ UNCHANGED <<index, escalation, marked, late>>
        BY <1>23 DEF MonitorAbandoned, redisVars, dbVars, scanVars, historyVars
    <2>3. QED
        BY <2>1, <2>2, FinishKeepsSilence
<1>24. ASSUME NEW w \in Workers, ReleaseScanLock(w) PROVE SilenceInv'
    BY <1>24, SilenceFrame DEF ReleaseScanLock, redisVars, dbVars, scanVars, historyVars
<1>25. ASSUME NEW w \in Workers, CrashScan(w) PROVE SilenceInv'
    <2>1. UNCHANGED <<index, escalation, marked, late>>
        BY <1>25 DEF CrashScan, redisVars, dbVars, scanVars, historyVars
    <2>2. \A b \in Alerts, v \in Workers :
              seen'[v][b].stored /\ cur'[v] # b => seen[v][b].stored /\ cur[v] # b
        BY <1>25 DEF CrashScan, ScanInv, ScanTypeOK, NoMonitor
    <2>3. QED
        BY <2>1, <2>2 DEF SilenceInv, Registered
<1>26. ASSUME NEW r \in Replies, NEW a \in Alerts, ReplyArrives(r, a) PROVE SilenceInv'
    BY <1>26, SilenceFrame DEF ReplyArrives, redisVars, dbVars, scanVars, historyVars
<1>27. ASSUME NEW r \in Replies, StoreReply(r) PROVE SilenceInv'
    BY <1>27, SilenceFrame DEF StoreReply, redisVars, dbVars, scanVars, historyVars
<1>28. ASSUME NEW r \in Replies, ReadForMark(r) PROVE SilenceInv'
    BY <1>28, SilenceFrame DEF ReadForMark, redisVars, dbVars, scanVars, historyVars
<1>29. ASSUME NEW r \in Replies, ReadForMarkFails(r) PROVE SilenceInv'
    BY <1>29, SilenceFrame DEF ReadForMarkFails, redisVars, dbVars, scanVars, historyVars
<1>30. ASSUME NEW r \in Replies, MarkResponseReceived(r) PROVE SilenceInv'
    <2> DEFINE a == reply[r].alert
    <2>1. a \in Registered
        BY <1>30 DEF MarkResponseReceived, RegisteredInv
    <2>2. index' = index \ {a} /\ marked' = marked \cup {a}
        BY <1>30 DEF MarkResponseReceived
    <2>3. UNCHANGED <<escalation, seen, cur, late>>
        BY <1>30 DEF MarkResponseReceived, scanVars
    <2>4. QED
        BY <2>1, <2>2, <2>3 DEF SilenceInv, Registered
<1>31. ASSUME NEW r \in Replies, MarkFails(r) PROVE SilenceInv'
    BY <1>31, SilenceFrame DEF MarkFails, redisVars, dbVars, scanVars, historyVars
<1>32. ASSUME NEW r \in Replies, MarkRemindersResponded(r) PROVE SilenceInv'
    BY <1>32, SilenceFrame DEF MarkRemindersResponded, redisVars, dbVars, scanVars, historyVars
<1>33. ASSUME NEW r \in Replies, CrashReply(r) PROVE SilenceInv'
    BY <1>33, SilenceFrame DEF CrashReply, redisVars, dbVars, scanVars, historyVars
<1>34. CASE UNCHANGED vars
    BY <1>34, SilenceFrame DEF vars, redisVars, scanVars, historyVars
<1>35. QED
    BY <1>1, <1>2, <1>3, <1>4, <1>5, <1>6, <1>7, <1>8, <1>9, <1>10, <1>11,
        <1>12, <1>13, <1>14, <1>15, <1>16, <1>17, <1>18, <1>19, <1>20, <1>21,
        <1>22, <1>23, <1>24, <1>25, <1>26, <1>27, <1>28, <1>29, <1>30, <1>31,
        <1>32, <1>33, <1>34 DEF Next, EscalationStep, ScanStep, ProcessMonitor,
        ReplyStep

\* After a reply cancelled the monitor in Redis, each worker sends the ISP at
\* most one more reminder, even if scans overlap and their writes overwrite
\* the answered state.
THEOREM Silenced == Spec => []ReplySilences
<1>1. SilenceInv => ReplySilences
    BY DEF SilenceInv, ReplySilences
<1>2. QED
    BY TypeInit, TypeNext, RegisteredInit, RegisteredNext, SilenceInit,
        SilenceNext, <1>1, PTL DEF Spec

\* Only the registration of an alert adds to the index.
THEOREM IndexedByRegistration == Spec => IndexedOnce
<1> DEFINE Entered == index' \ index
<1> SUFFICES ASSUME [Next]_vars
             PROVE  [\A a \in Entered : escalation[a] = "committed"]_vars
    BY PTL DEF Spec, IndexedOnce
<1>1. ASSUME NEW a \in Alerts, RegisterMonitor(a)
      PROVE  \A b \in Entered : escalation[b] = "committed"
    BY <1>1 DEF RegisterMonitor
<1>2. ASSUME NEW a \in Alerts,
             \/ SendEscalation(a) \/ CommitEscalation(a) \/ CrashEscalation(a)
             \/ TimeoutElapses(a) \/ MonitorExpires(a)
      PROVE  index' \subseteq index
    BY <1>2 DEF SendEscalation, CommitEscalation, CrashEscalation, TimeoutElapses,
        MonitorExpires, redisVars
<1>3. LockExpires => index' \subseteq index
    BY DEF LockExpires
<1>4. ASSUME NEW w \in Workers,
             \/ AcquireScanLock(w) \/ GetAllActiveMonitors(w) \/ RecordReminder(w)
             \/ ReadForUpdate(w) \/ WriteUpdate(w) \/ WriteStopped(w)
      PROVE  index' \subseteq index
    BY <1>4 DEF AcquireScanLock, GetAllActiveMonitors, RecordReminder,
        ReadForUpdate, WriteUpdate, WriteStopped, redisVars
<1>5. ASSUME NEW w \in Workers,
             \/ RemoveFromIndex(w) \/ DeleteAlertKey(w) \/ StopFails(w)
             \/ FlagExhausted(w) \/ NotifySupport(w) \/ MonitorAbandoned(w)
             \/ ReleaseScanLock(w) \/ CrashScan(w)
      PROVE  index' \subseteq index
    BY <1>5 DEF RemoveFromIndex, DeleteAlertKey, StopFails, FlagExhausted,
        NotifySupport, MonitorAbandoned, ReleaseScanLock, CrashScan, redisVars
<1>6. ASSUME NEW w \in Workers, NEW a \in Alerts,
             \/ SkipMonitor(w, a) \/ SendReminder(w, a)
             \/ SendReminderFails(w, a) \/ ReadForStop(w, a)
      PROVE  index' \subseteq index
    BY <1>6 DEF SkipMonitor, SendReminder, MailReminder, SendReminderFails,
        ReadForStop, redisVars
<1>7. ASSUME NEW r \in Replies, NEW a \in Alerts, ReplyArrives(r, a)
      PROVE  index' \subseteq index
    BY <1>7 DEF ReplyArrives, redisVars
<1>8. ASSUME NEW r \in Replies, ReplyStep(r) \/ CrashReply(r)
      PROVE  index' \subseteq index
    BY <1>8 DEF ReplyStep, StoreReply, ReadForMark, ReadForMarkFails,
        MarkResponseReceived, MarkFails, MarkRemindersResponded, CrashReply,
        redisVars
<1>9. QED
    BY <1>1, <1>2, <1>3, <1>4, <1>5, <1>6, <1>7, <1>8
    DEF Next, EscalationStep, ScanStep, ProcessMonitor

(***************************************************************************)
(* The scan lock.  As long as its TTL outlives the scans, a scan in        *)
(* progress implies that the key is set, and nobody else starts.           *)
(***************************************************************************)

LockInv ==
    LockOutlivesScan =>
        /\ ScansExclusive
        /\ \A w \in Workers : Scanning(w) => lock

LEMMA LockFrame == LockInv /\ UNCHANGED <<pc, lock>> => LockInv'
BY DEF LockInv, ScansExclusive, Scanning

\* A step of a scan in progress that keeps it in progress.
LEMMA ScanningOnKeepsLock ==
    ASSUME ScanInv, LockInv, NEW w \in Workers, NEW label \in ScanPC \ {"idle"},
           Scanning(w), pc' = [pc EXCEPT ![w] = label], lock' = lock
    PROVE  LockInv'
BY DEF LockInv, ScansExclusive, Scanning, ScanInv, ScanTypeOK

\* A step that ends a scan, whether or not it frees the lock.
LEMMA EndKeepsLock ==
    ASSUME ScanInv, LockInv, NEW w \in Workers, Scanning(w),
           pc' = [pc EXCEPT ![w] = "idle"]
    PROVE  LockInv'
BY DEF LockInv, ScansExclusive, Scanning, ScanInv, ScanTypeOK

LEMMA LockNext == TypeInv /\ LockInv /\ [Next]_vars => LockInv'
<1> SUFFICES ASSUME TypeInv, LockInv, [Next]_vars PROVE LockInv'
    OBVIOUS
<1> USE DEF TypeInv
<1>1. ASSUME NEW a \in Alerts, SendEscalation(a) PROVE LockInv'
    BY <1>1, LockFrame DEF SendEscalation, redisVars, scanVars
<1>2. ASSUME NEW a \in Alerts, CommitEscalation(a) PROVE LockInv'
    BY <1>2, LockFrame DEF CommitEscalation, redisVars, scanVars
<1>3. ASSUME NEW a \in Alerts, RegisterMonitor(a) PROVE LockInv'
    BY <1>3, LockFrame DEF RegisterMonitor, redisVars, scanVars
<1>4. ASSUME NEW a \in Alerts, CrashEscalation(a) PROVE LockInv'
    BY <1>4, LockFrame DEF CrashEscalation, redisVars, scanVars
<1>5. ASSUME NEW a \in Alerts, TimeoutElapses(a) PROVE LockInv'
    BY <1>5, LockFrame DEF TimeoutElapses, redisVars, scanVars
<1>6. ASSUME NEW a \in Alerts, MonitorExpires(a) PROVE LockInv'
    BY <1>6, LockFrame DEF MonitorExpires, redisVars, scanVars
<1>7. CASE LockExpires
    BY <1>7 DEF LockExpires, LockInv, ScansExclusive, Scanning, scanVars
<1>8. ASSUME NEW w \in Workers, AcquireScanLock(w) PROVE LockInv'
    BY <1>8 DEF AcquireScanLock, LockInv, ScansExclusive, Scanning, ScanInv, ScanTypeOK
<1>9. ASSUME NEW w \in Workers, GetAllActiveMonitors(w) PROVE LockInv'
    BY <1>9, ScanningOnKeepsLock
    DEF GetAllActiveMonitors, InList, SaveUpdate, MailReminder, Goto, Finish, redisVars, Scanning, ScanPC
<1>10. ASSUME NEW w \in Workers, NEW a \in Alerts, SkipMonitor(w, a) PROVE LockInv'
    BY <1>10, ScanningOnKeepsLock
    DEF SkipMonitor, InList, SaveUpdate, MailReminder, Goto, Finish, redisVars, Scanning, ScanPC
<1>11. ASSUME NEW w \in Workers, NEW a \in Alerts, SendReminder(w, a) PROVE LockInv'
    BY <1>11, ScanningOnKeepsLock
    DEF SendReminder, InList, SaveUpdate, MailReminder, Goto, Finish, redisVars, Scanning, ScanPC
<1>12. ASSUME NEW w \in Workers, NEW a \in Alerts, SendReminderFails(w, a) PROVE LockInv'
    BY <1>12, ScanningOnKeepsLock
    DEF SendReminderFails, InList, SaveUpdate, MailReminder, Goto, Finish, redisVars, Scanning, ScanPC
<1>13. ASSUME NEW w \in Workers, RecordReminder(w) PROVE LockInv'
    BY <1>13, ScanningOnKeepsLock
    DEF RecordReminder, InList, SaveUpdate, MailReminder, Goto, Finish, redisVars, Scanning, ScanPC
<1>14. ASSUME NEW w \in Workers, ReadForUpdate(w) PROVE LockInv'
    <2>1. \E label \in {"write", "scan"} : pc' = [pc EXCEPT ![w] = label]
        BY <1>14 DEF ReadForUpdate, Goto, Finish
    <2>2. QED
        BY <1>14, <2>1, ScanningOnKeepsLock DEF ReadForUpdate, redisVars, Scanning, ScanPC
<1>15. ASSUME NEW w \in Workers, WriteUpdate(w) PROVE LockInv'
    BY <1>15, ScanningOnKeepsLock
    DEF WriteUpdate, InList, SaveUpdate, MailReminder, Goto, Finish, redisVars, Scanning, ScanPC
<1>16. ASSUME NEW w \in Workers, NEW a \in Alerts, ReadForStop(w, a) PROVE LockInv'
    <2>1. \E label \in {"stop", "unindex"} : pc' = [pc EXCEPT ![w] = label]
        BY <1>16 DEF ReadForStop, Goto
    <2>2. QED
        BY <1>16, <2>1, ScanningOnKeepsLock DEF ReadForStop, InList, redisVars, Scanning, ScanPC
<1>17. ASSUME NEW w \in Workers, WriteStopped(w) PROVE LockInv'
    BY <1>17, ScanningOnKeepsLock
    DEF WriteStopped, InList, SaveUpdate, MailReminder, Goto, Finish, redisVars, Scanning, ScanPC
<1>18. ASSUME NEW w \in Workers, RemoveFromIndex(w) PROVE LockInv'
    BY <1>18, ScanningOnKeepsLock
    DEF RemoveFromIndex, InList, SaveUpdate, MailReminder, Goto, Finish, redisVars, Scanning, ScanPC
<1>19. ASSUME NEW w \in Workers, DeleteAlertKey(w) PROVE LockInv'
    BY <1>19, ScanningOnKeepsLock
    DEF DeleteAlertKey, InList, SaveUpdate, MailReminder, Goto, Finish, redisVars, Scanning, ScanPC
<1>20. ASSUME NEW w \in Workers, StopFails(w) PROVE LockInv'
    BY <1>20, ScanningOnKeepsLock
    DEF StopFails, InList, SaveUpdate, MailReminder, Goto, Finish, redisVars, Scanning, ScanPC
<1>21. ASSUME NEW w \in Workers, FlagExhausted(w) PROVE LockInv'
    BY <1>21, ScanningOnKeepsLock
    DEF FlagExhausted, InList, SaveUpdate, MailReminder, Goto, Finish, redisVars, Scanning, ScanPC
<1>22. ASSUME NEW w \in Workers, NotifySupport(w) PROVE LockInv'
    BY <1>22, ScanningOnKeepsLock
    DEF NotifySupport, InList, SaveUpdate, MailReminder, Goto, Finish, redisVars, Scanning, ScanPC
<1>23. ASSUME NEW w \in Workers, MonitorAbandoned(w) PROVE LockInv'
    BY <1>23, ScanningOnKeepsLock
    DEF MonitorAbandoned, InList, SaveUpdate, MailReminder, Goto, Finish, redisVars, Scanning, ScanPC
<1>24. ASSUME NEW w \in Workers, ReleaseScanLock(w) PROVE LockInv'
    BY <1>24, EndKeepsLock DEF ReleaseScanLock, Goto, Scanning
<1>25. ASSUME NEW w \in Workers, CrashScan(w) PROVE LockInv'
    BY <1>25, EndKeepsLock DEF CrashScan, Goto, Scanning
<1>26. ASSUME NEW r \in Replies, NEW a \in Alerts, ReplyArrives(r, a) PROVE LockInv'
    BY <1>26, LockFrame DEF ReplyArrives, redisVars, scanVars
<1>27. ASSUME NEW r \in Replies, StoreReply(r) PROVE LockInv'
    BY <1>27, LockFrame DEF StoreReply, redisVars, scanVars
<1>28. ASSUME NEW r \in Replies, ReadForMark(r) PROVE LockInv'
    BY <1>28, LockFrame DEF ReadForMark, redisVars, scanVars
<1>29. ASSUME NEW r \in Replies, ReadForMarkFails(r) PROVE LockInv'
    BY <1>29, LockFrame DEF ReadForMarkFails, redisVars, scanVars
<1>30. ASSUME NEW r \in Replies, MarkResponseReceived(r) PROVE LockInv'
    BY <1>30, LockFrame DEF MarkResponseReceived, redisVars, scanVars
<1>31. ASSUME NEW r \in Replies, MarkFails(r) PROVE LockInv'
    BY <1>31, LockFrame DEF MarkFails, redisVars, scanVars
<1>32. ASSUME NEW r \in Replies, MarkRemindersResponded(r) PROVE LockInv'
    BY <1>32, LockFrame DEF MarkRemindersResponded, redisVars, scanVars
<1>33. ASSUME NEW r \in Replies, CrashReply(r) PROVE LockInv'
    BY <1>33, LockFrame DEF CrashReply, redisVars, scanVars
<1>34. CASE UNCHANGED vars
    BY <1>34, LockFrame DEF vars, redisVars, scanVars
<1>35. QED
    BY <1>1, <1>2, <1>3, <1>4, <1>5, <1>6, <1>7, <1>8, <1>9, <1>10, <1>11,
        <1>12, <1>13, <1>14, <1>15, <1>16, <1>17, <1>18, <1>19, <1>20, <1>21,
        <1>22, <1>23, <1>24, <1>25, <1>26, <1>27, <1>28, <1>29, <1>30, <1>31,
        <1>32, <1>33, <1>34 DEF Next, EscalationStep, ScanStep,
        ProcessMonitor, ReplyStep

\* Scans do not overlap while the lock outlives them: no crash, no failed
\* release and no DELETE of a lock without an owner lets a second one start.
THEOREM LockProtects == Spec => []LockProtectsScan
<1>1. Init => LockInv
    BY DEF Init, LockInv, ScansExclusive, Scanning
<1>2. LockInv => LockProtectsScan
    BY DEF LockInv, LockProtectsScan
<1>3. QED
    BY TypeInit, TypeNext, LockNext, <1>1, <1>2, PTL DEF Spec
=============================================================================
