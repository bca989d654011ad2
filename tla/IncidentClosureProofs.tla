------------------------- MODULE IncidentClosureProofs -------------------------
(***************************************************************************)
(* Theorems about IncidentClosure, for every set of requests, number of    *)
(* alerts, number of retries and number of errors.                         *)
(***************************************************************************)
EXTENDS IncidentClosure, WellFoundedInduction, TLAPS

(***************************************************************************)
(* Helpers                                                                 *)
(***************************************************************************)

LEMMA LeastExists ==
    ASSUME NEW S \in SUBSET Nat, S # {}
    PROVE  \E x \in S : \A y \in S : ~(y < x)
<1>1. \E x \in S : \A y \in S : <<y, x>> \notin OpToRel(<, Nat)
    BY NatLessThanWellFounded, WFMin
<1> QED
    BY <1>1 DEF OpToRel

LEMMA MaxMember ==
    ASSUME NEW alerts \in SUBSET Alert, alerts # {}
    PROVE  Max(alerts) \in alerts
<1>0. MaxAlerts \in Nat
    BY ConstantsAssumption
<1> DEFINE ages == {MaxAlerts - a : a \in alerts}
<1>1. ages \subseteq Nat /\ ages # {}
    BY <1>0 DEF Alert
<1>2. PICK x \in ages : \A y \in ages : ~(y < x)
    <2> HIDE DEF ages
    <2> QED
        BY <1>1, LeastExists
<1>3. PICK a \in alerts : x = MaxAlerts - a
    OBVIOUS
<1>4. ASSUME NEW b \in alerts PROVE b <= a
    <2>1. ~(MaxAlerts - b < MaxAlerts - a)
        BY <1>2, <1>3
    <2>2. a \in Nat /\ b \in Nat
        BY DEF Alert
    <2> QED
        BY <1>0, <2>1, <2>2
<1> QED
    BY <1>4 DEF Max

LEMMA OpenLogsAreLogs == OpenLogs \subseteq {"log"} \X Alert /\ OpenLogs \subseteq Row
BY DEF OpenLogs, Row

LEMMA RaisedAreAlerts == TypeOK => Raised \subseteq Alert /\ raised \in Nat
<1>1. MaxAlerts \in Nat
    BY ConstantsAssumption
<1> QED
    BY <1>1 DEF TypeOK, TablesTypeOK, Raised, Alert

LEMMA NobodyIsNoRequest == \A r \in Request : r # NoRequest
BY ConstantsAssumption

\* A closure updates its alert.
LEMMA WantsAlert ==
    ASSUME NEW r \in Request, op[r] \in Closure, pc[r] = "valid"
    PROVE  Wants(r) = IF Resolves(r) THEN {<<"alert", target[r]>>} ELSE {}
BY DEF Wants, Closure

\* A root cause is saved.
LEMMA WantsCause ==
    ASSUME NEW r \in Request, op[r] \in Closure \cup {"rootcause"}, pc[r] = "found"
    PROVE  Wants(r) = {<<"cause", target[r]>>}
BY DEF Wants, Closure

\* Open logs are closed.
LEMMA WantsLogs ==
    ASSUME NEW r \in Request, CloseOpenLogs(r) \/ ClearLogs(r)
    PROVE  Wants(r) = OpenLogs
<1>1. (op[r] \in Closure /\ pc[r] = "saved") \/ (op[r] = "up" /\ pc[r] = "begun")
    BY DEF CloseOpenLogs, ClearLogs
<1> QED
    BY <1>1 DEF Wants, Closure

\* An Up task resolves the newest of its alerts.
LEMMA WantsNewest ==
    ASSUME NEW r \in Request, op[r] = "up", pc[r] = "listed", todo[r] # {}
    PROVE  Wants(r) = {<<"alert", Max(todo[r])>>}
BY DEF Wants, Closure

\* Only a request in flight is aborted.
LEMMA Aborted ==
    ASSUME NEW r \in Request, DuplicateRootCause(r) \/ DeadlockVictim(r) \/ Fail(r)
    PROVE  Abort(r) /\ pc[r] # "idle"
<1>1. CASE DuplicateRootCause(r)
    BY <1>1 DEF DuplicateRootCause
<1>2. CASE DeadlockVictim(r)
    <2>1. Abort(r) /\ Blockers(r) # {}
        BY <1>2 DEF DeadlockVictim, Deadlocked
    <2>2. Wants(r) # {}
        BY <2>1 DEF Blockers
    <2> QED
        BY <2>1, <2>2 DEF Wants
<1>3. CASE Fail(r)
    BY <1>3 DEF Fail, InFlight
<1> QED
    BY <1>1, <1>2, <1>3

\* An abort keeps the types.
LEMMA AbortType ==
    ASSUME RequestsTypeOK, NEW r \in Request, Abort(r)
    PROVE  RequestsTypeOK'
<1>1. MaxRetries \in Nat
    BY ConstantsAssumption
<1>2. pc' \in [Request -> PC] /\ retries' \in [Request -> 0 .. MaxRetries]
    <2>1. CASE op[r] = "up" /\ retries[r] < MaxRetries
        <3>1. retries[r] + 1 \in 0 .. MaxRetries
            BY <1>1, <2>1 DEF RequestsTypeOK
        <3> QED
            BY <2>1, <3>1 DEF RequestsTypeOK, Abort, Goto, PC
    <2>2. CASE ~(op[r] = "up" /\ retries[r] < MaxRetries)
        BY <2>2 DEF RequestsTypeOK, Abort, Goto, PC, Ended
    <2> QED
        BY <2>1, <2>2
<1> QED
    BY <1>2 DEF RequestsTypeOK, Abort, Forget, identity, Row

(***************************************************************************)
(* The inductive invariant                                                 *)
(***************************************************************************)

\* Rows refer to alerts that are in alert_history.
Referring ==
    /\ \A a \in Alert : a > raised => resolved[a] = NoRequest /\ ~HasCause(a)
    /\ \A r \in Request :
          /\ pc[r] # "idle" => target[r] <= raised
          /\ todo[r] \subseteq Raised

\* Which rows a request may have written.
Holding ==
    \A r \in Request :
        /\ pc[r] \in {"idle", "begun", "read", "valid", "stored"} \cup Ended => held[r] = {}
        /\ \A a \in Alert : <<"alert", a>> \in held[r] =>
              /\ a <= raised
              /\ op[r] = "up" \/ (op[r] \in Closure /\ a = target[r])
        /\ \A a \in Alert : <<"cause", a>> \in held[r] =>
              op[r] \in Closure \cup {"rootcause"} /\ a = target[r]
        /\ pc[r] = "cleared" => \A a \in Alert : <<"alert", a>> \notin held[r]

Reading == {"read", "valid", "located", "found", "saved", "ready"}

\* How far a request is shows in the rows it has written.
Stages ==
    \A r \in Request :
        /\ pc[r] = "ready" => op[r] \in Closure \cup {"rootcause", "up"}
        /\ op[r] \in Closure /\ pc[r] \in {"located", "found", "saved", "ready"} =>
              (<<"alert", target[r]>> \in held[r] <=> Resolves(r))
        /\ op[r] \in Closure /\ pc[r] \in {"saved", "ready"} => <<"cause", target[r]>> \in held[r]
        /\ op[r] \in Closure /\ pc[r] \in Reading /\ read[r] # NoRequest =>
              resolved[target[r]] # NoRequest

\* What a request has read is still so until another commits.
Fresh ==
    \A r \in Request : ~stale[r] =>
        /\ op[r] \in Closure /\ pc[r] \in Reading => read[r] = resolved[target[r]]
        /\ op[r] = "up" /\ pc[r] \in {"listed", "ready"} =>
              \A a \in Alert : <<"alert", a>> \in held[r] \/ a \in todo[r] =>
                  resolved[a] = NoRequest

\* Objects are stored before their rows, by requests that keep their alert.
Backed ==
    /\ rows \subseteq objects
    /\ \A r \in Request :
          /\ op[r] = "upload" /\ pc[r] = "stored" => r \in objects
          /\ r \in rows => pc[r] # "idle"

Evidenced == {a \in Alert : HasEvidence(a)}
Explained == {a \in Alert : HasCause(a)}
Recovered == {a \in Alert : resolved[a] # NoRequest}

\* A validated closure has evidence, and one that is done has closed its alert.
Evident ==
    \A r \in Request : op[r] \in Closure =>
        /\ pc[r] \in {"valid", "located", "found", "saved", "ready", "done"} =>
              target[r] \in Evidenced
        /\ pc[r] = "done" => target[r] \in Explained \cap Recovered

\* An alert a history has seen closed has its root cause.
Told ==
    \A r \in Request : op[r] = "history" /\ label[r] = "CLOSED" =>
        /\ pc[r] = "read" => target[r] \in Explained
        /\ pc[r] = "done" => found[r]

IInv ==
    /\ TypeOK /\ Referring /\ Holding /\ Stages
    /\ Fresh /\ Backed /\ Evident /\ Told


LEMMA InitInvariant == Init => IInv
<1> SUFFICES ASSUME Init PROVE IInv
    OBVIOUS
<1>0. MaxAlerts \in Nat \ {0} /\ MaxRetries \in Nat /\ MaxFaults \in Nat
    BY ConstantsAssumption
<1>1. TypeOK
    <2>1. TablesTypeOK
        BY <1>0 DEF Init, TablesTypeOK, Cause, NoCause
    <2>2. FilesTypeOK
        BY DEF Init, FilesTypeOK
    <2>3. RequestsTypeOK
        <3>1. 1 \in Alert /\ 0 \in 0 .. MaxRetries
            BY <1>0 DEF Alert
        <3> QED
            BY <3>1 DEF Init, RequestsTypeOK, Operation, Closure, PC, Label, Ended
    <2>4. faults \in 0 .. MaxFaults
        BY <1>0 DEF Init
    <2> QED
        BY <2>1, <2>2, <2>3, <2>4 DEF TypeOK
<1>2. Referring /\ Holding
    BY DEF Init, Referring, HasCause, NoCause, Holding
<1>3. Stages /\ Fresh
    BY DEF Init, Stages, Fresh, Reading, Closure
<1>4. Backed /\ Evident /\ Told
    BY DEF Init, Backed, Evident, Told, Closure
<1> QED
    BY <1>1, <1>2, <1>3, <1>4 DEF IInv


\* Every step keeps the types of the requests.
LEMMA RequestsTypeStep == IInv /\ [Next]_vars => RequestsTypeOK'
<1> SUFFICES ASSUME IInv, [Next]_vars PROVE RequestsTypeOK'
    OBVIOUS
<1>1. CASE RaiseAlert
    BY <1>1
        DEF IInv, TypeOK, RequestsTypeOK, PC, RaiseAlert, Goto, tables, files, identity,
            locals
<1>2. ASSUME NEW a \in Alert, OpenLog(a) PROVE RequestsTypeOK'
    BY <1>2
        DEF IInv, TypeOK, RequestsTypeOK, PC, OpenLog, Goto, tables, files, identity, locals
<1>3. ASSUME NEW a \in Alert, MailAttachment(a) PROVE RequestsTypeOK'
    BY <1>3
        DEF IInv, TypeOK, RequestsTypeOK, PC, MailAttachment, Goto, tables, files, identity,
            locals
<1>4. ASSUME NEW r \in Request, Begin(r) PROVE RequestsTypeOK'
    <2>1. PICK o \in Operation, a \in Raised :
              op' = [op EXCEPT ![r] = o] /\ target' = [target EXCEPT ![r] = a]
        BY <1>4 DEF Begin
    <2>2. a \in Alert
        BY RaisedAreAlerts DEF IInv
    <2> QED
        BY <1>4, <2>1, <2>2 DEF IInv, TypeOK, RequestsTypeOK, PC, Begin, Goto, locals
<1>5. ASSUME NEW r \in Request, StoreObject(r) PROVE RequestsTypeOK'
    BY <1>5
        DEF IInv, TypeOK, RequestsTypeOK, PC, StoreObject, Goto, tables, files, identity,
            locals
<1>6. ASSUME NEW r \in Request, RejectFile(r) PROVE RequestsTypeOK'
    BY <1>6
        DEF IInv, TypeOK, RequestsTypeOK, PC, RejectFile, Goto, tables, files, identity,
            locals, Ended
<1>7. ASSUME NEW r \in Request, SaveMetadata(r) PROVE RequestsTypeOK'
    BY <1>7
        DEF IInv, TypeOK, RequestsTypeOK, PC, SaveMetadata, Goto, tables, files, identity,
            locals, Ended
<1>8. ASSUME NEW r \in Request, ReadAlert(r) PROVE RequestsTypeOK'
    BY <1>8
        DEF IInv, TypeOK, RequestsTypeOK, PC, ReadAlert, Goto, tables, files, identity,
            locals, TablesTypeOK
<1>9. ASSUME NEW r \in Request, Validate(r) PROVE RequestsTypeOK'
    BY <1>9
        DEF IInv, TypeOK, RequestsTypeOK, PC, Validate, Goto, tables, files, identity,
            locals
<1>10. ASSUME NEW r \in Request, Reject(r) PROVE RequestsTypeOK'
    BY <1>10
        DEF IInv, TypeOK, RequestsTypeOK, PC, Reject, Goto, tables, files, identity, locals,
            Ended
<1>11. ASSUME NEW r \in Request, ResolveAlert(r) PROVE RequestsTypeOK'
    BY <1>11, WantsAlert
        DEF IInv, TypeOK, RequestsTypeOK, PC, ResolveAlert, Write, Goto, tables, files,
            identity, locals, Row
<1>12. ASSUME NEW r \in Request, FindRootCause(r) PROVE RequestsTypeOK'
    BY <1>12
        DEF IInv, TypeOK, RequestsTypeOK, PC, FindRootCause, Goto, tables, files, identity,
            locals, HasCause
<1>13. ASSUME NEW r \in Request, SaveRootCause(r) PROVE RequestsTypeOK'
    BY <1>13, WantsCause
        DEF IInv, TypeOK, RequestsTypeOK, PC, SaveRootCause, Write, Goto, tables, files,
            identity, locals, Row, Closure
<1>14. ASSUME NEW r \in Request, DuplicateRootCause(r) PROVE RequestsTypeOK'
    BY <1>14, Aborted, AbortType DEF IInv, TypeOK
<1>15. ASSUME NEW r \in Request, CloseOpenLogs(r) PROVE RequestsTypeOK'
    <2>0. Wants(r) = OpenLogs
        BY <1>15, WantsLogs
    <2>1. Wants(r) \subseteq Row
        BY <2>0, OpenLogsAreLogs
    <2> QED
        BY <1>15, <2>1
            DEF IInv, TypeOK, RequestsTypeOK, PC, CloseOpenLogs, Write, Goto, identity, locals
<1>16. ASSUME NEW r \in Request, ClearLogs(r) PROVE RequestsTypeOK'
    <2>0. Wants(r) = OpenLogs
        BY <1>16, WantsLogs
    <2>1. Wants(r) \subseteq Row
        BY <2>0, OpenLogsAreLogs
    <2> QED
        BY <1>16, <2>1
            DEF IInv, TypeOK, RequestsTypeOK, PC, ClearLogs, Write, Goto, identity, locals
<1>17. ASSUME NEW r \in Request, ListAlerts(r) PROVE RequestsTypeOK'
    <2>1. todo' \in [Request -> SUBSET Alert]
        BY <1>17, RaisedAreAlerts DEF IInv, TypeOK, RequestsTypeOK, ListAlerts
    <2> QED
        BY <1>17, <2>1 DEF IInv, TypeOK, RequestsTypeOK, PC, ListAlerts, Goto, identity
<1>18. ASSUME NEW r \in Request, ResolveNewest(r) PROVE RequestsTypeOK'
    <2>1. Max(todo[r]) \in Alert
        BY <1>18, MaxMember DEF IInv, TypeOK, RequestsTypeOK, ResolveNewest
    <2>2. Wants(r) \subseteq Row
        BY <1>18, <2>1, WantsNewest DEF ResolveNewest, Row
    <2> QED
        BY <1>18, <2>2 DEF IInv, TypeOK, RequestsTypeOK, ResolveNewest, Write, identity
<1>19. ASSUME NEW r \in Request, FinishUp(r) PROVE RequestsTypeOK'
    BY <1>19
        DEF IInv, TypeOK, RequestsTypeOK, PC, FinishUp, Goto, tables, files, identity,
            locals
<1>20. ASSUME NEW r \in Request, ReadSummary(r) PROVE RequestsTypeOK'
    BY <1>20
        DEF IInv, TypeOK, RequestsTypeOK, PC, ReadSummary, Goto, tables, files, identity,
            locals, StatusLabel, Label
<1>21. ASSUME NEW r \in Request, ReadRootCause(r) PROVE RequestsTypeOK'
    BY <1>21
        DEF IInv, TypeOK, RequestsTypeOK, PC, ReadRootCause, Goto, tables, files, identity,
            locals, HasCause, Ended
<1>22. ASSUME NEW r \in Request, Commit(r) PROVE RequestsTypeOK'
    BY <1>22
        DEF IInv, TypeOK, RequestsTypeOK, PC, Commit, Goto, Forget, tables, files, identity,
            locals, Ended, Row, InFlight
<1>23. ASSUME NEW r \in Request, DeadlockVictim(r) PROVE RequestsTypeOK'
    BY <1>23, Aborted, AbortType DEF IInv, TypeOK
<1>24. ASSUME NEW r \in Request, Fail(r) PROVE RequestsTypeOK'
    BY <1>24, Aborted, AbortType DEF IInv, TypeOK
<1>25. ASSUME NEW r \in Request, StoreFails(r) PROVE RequestsTypeOK'
    BY <1>25
        DEF IInv, TypeOK, RequestsTypeOK, PC, StoreFails, Goto, Fault, tables, files,
            identity, locals, Ended
<1>26. ASSUME NEW r \in Request, UpRolledBack(r) PROVE RequestsTypeOK'
    BY <1>26
        DEF IInv, TypeOK, RequestsTypeOK, PC, UpRolledBack, Goto, Forget, Fault, tables,
            files, identity, locals, Ended, Row
<1>27. CASE UNCHANGED vars
    BY <1>27
        DEF IInv, TypeOK, RequestsTypeOK, PC, vars, tables, files, identity, locals
<1> QED
    BY <1>1, <1>2, <1>3, <1>4, <1>5, <1>6, <1>7, <1>8, <1>9, <1>10, <1>11, <1>12, <1>13,
        <1>14, <1>15, <1>16, <1>17, <1>18, <1>19, <1>20, <1>21, <1>22, <1>23, <1>24, <1>25,
        <1>26, <1>27
        DEF Next, Step, Failure

\* Every step keeps the types of the rows and files.
LEMMA TablesTypeStep == IInv /\ [Next]_vars => (TablesTypeOK /\ FilesTypeOK /\ faults \in 0 .. MaxFaults)'
<1> SUFFICES ASSUME IInv, [Next]_vars PROVE (TablesTypeOK /\ FilesTypeOK /\ faults \in 0 .. MaxFaults)'
    OBVIOUS
<1>0. MaxAlerts \in Nat /\ MaxFaults \in Nat
    BY ConstantsAssumption
<1>1. CASE RaiseAlert
    BY <1>1, <1>0
        DEF IInv, TypeOK, TablesTypeOK, FilesTypeOK, RaiseAlert, Goto, tables, files,
            identity, locals
<1>2. ASSUME NEW a \in Alert, OpenLog(a) PROVE (TablesTypeOK /\ FilesTypeOK /\ faults \in 0 .. MaxFaults)'
    BY <1>2, <1>0
        DEF IInv, TypeOK, TablesTypeOK, FilesTypeOK, OpenLog, Goto, tables, files, identity,
            locals
<1>3. ASSUME NEW a \in Alert, MailAttachment(a) PROVE (TablesTypeOK /\ FilesTypeOK /\ faults \in 0 .. MaxFaults)'
    BY <1>3, <1>0
        DEF IInv, TypeOK, TablesTypeOK, FilesTypeOK, MailAttachment, Goto, tables, files,
            identity, locals
<1>4. ASSUME NEW r \in Request, Begin(r) PROVE (TablesTypeOK /\ FilesTypeOK /\ faults \in 0 .. MaxFaults)'
    BY <1>4, <1>0
        DEF IInv, TypeOK, TablesTypeOK, FilesTypeOK, Begin, Goto, Raised, tables, files,
            identity, locals
<1>5. ASSUME NEW r \in Request, StoreObject(r) PROVE (TablesTypeOK /\ FilesTypeOK /\ faults \in 0 .. MaxFaults)'
    BY <1>5, <1>0
        DEF IInv, TypeOK, TablesTypeOK, FilesTypeOK, StoreObject, Goto, tables, files,
            identity, locals
<1>6. ASSUME NEW r \in Request, RejectFile(r) PROVE (TablesTypeOK /\ FilesTypeOK /\ faults \in 0 .. MaxFaults)'
    BY <1>6, <1>0
        DEF IInv, TypeOK, TablesTypeOK, FilesTypeOK, RejectFile, Goto, tables, files,
            identity, locals
<1>7. ASSUME NEW r \in Request, SaveMetadata(r) PROVE (TablesTypeOK /\ FilesTypeOK /\ faults \in 0 .. MaxFaults)'
    BY <1>7, <1>0
        DEF IInv, TypeOK, TablesTypeOK, FilesTypeOK, SaveMetadata, Goto, tables, files,
            identity, locals
<1>8. ASSUME NEW r \in Request, ReadAlert(r) PROVE (TablesTypeOK /\ FilesTypeOK /\ faults \in 0 .. MaxFaults)'
    BY <1>8, <1>0
        DEF IInv, TypeOK, TablesTypeOK, FilesTypeOK, ReadAlert, Goto, tables, files,
            identity, locals
<1>9. ASSUME NEW r \in Request, Validate(r) PROVE (TablesTypeOK /\ FilesTypeOK /\ faults \in 0 .. MaxFaults)'
    BY <1>9, <1>0
        DEF IInv, TypeOK, TablesTypeOK, FilesTypeOK, Validate, Goto, tables, files,
            identity, locals
<1>10. ASSUME NEW r \in Request, Reject(r) PROVE (TablesTypeOK /\ FilesTypeOK /\ faults \in 0 .. MaxFaults)'
    BY <1>10, <1>0
        DEF IInv, TypeOK, TablesTypeOK, FilesTypeOK, Reject, Goto, tables, files, identity,
            locals
<1>11. ASSUME NEW r \in Request, ResolveAlert(r) PROVE (TablesTypeOK /\ FilesTypeOK /\ faults \in 0 .. MaxFaults)'
    BY <1>11, <1>0, WantsAlert
        DEF IInv, TypeOK, TablesTypeOK, FilesTypeOK, ResolveAlert, Write, Goto, tables,
            files, identity, locals
<1>12. ASSUME NEW r \in Request, FindRootCause(r) PROVE (TablesTypeOK /\ FilesTypeOK /\ faults \in 0 .. MaxFaults)'
    BY <1>12, <1>0
        DEF IInv, TypeOK, TablesTypeOK, FilesTypeOK, FindRootCause, Goto, tables, files,
            identity, locals
<1>13. ASSUME NEW r \in Request, SaveRootCause(r) PROVE (TablesTypeOK /\ FilesTypeOK /\ faults \in 0 .. MaxFaults)'
    BY <1>13, <1>0, WantsCause
        DEF IInv, TypeOK, TablesTypeOK, FilesTypeOK, SaveRootCause, Write, Goto, tables,
            files, identity, locals
<1>14. ASSUME NEW r \in Request, DuplicateRootCause(r) PROVE (TablesTypeOK /\ FilesTypeOK /\ faults \in 0 .. MaxFaults)'
    <2>1. Abort(r) /\ pc[r] # "idle"
        BY <1>14, Aborted
    <2> QED
        BY <1>14, <2>1, <1>0
            DEF IInv, TypeOK, TablesTypeOK, FilesTypeOK, DuplicateRootCause, Abort, Goto,
                Forget, tables, files, identity, locals
<1>15. ASSUME NEW r \in Request, CloseOpenLogs(r) PROVE (TablesTypeOK /\ FilesTypeOK /\ faults \in 0 .. MaxFaults)'
    BY <1>15, <1>0, WantsLogs
        DEF IInv, TypeOK, TablesTypeOK, FilesTypeOK, CloseOpenLogs, Write, Goto, tables,
            files, identity, locals
<1>16. ASSUME NEW r \in Request, ClearLogs(r) PROVE (TablesTypeOK /\ FilesTypeOK /\ faults \in 0 .. MaxFaults)'
    BY <1>16, <1>0, WantsLogs
        DEF IInv, TypeOK, TablesTypeOK, FilesTypeOK, ClearLogs, Write, Goto, tables, files,
            identity, locals
<1>17. ASSUME NEW r \in Request, ListAlerts(r) PROVE (TablesTypeOK /\ FilesTypeOK /\ faults \in 0 .. MaxFaults)'
    BY <1>17, <1>0
        DEF IInv, TypeOK, TablesTypeOK, FilesTypeOK, ListAlerts, Goto, tables, files,
            identity, locals
<1>18. ASSUME NEW r \in Request, ResolveNewest(r) PROVE (TablesTypeOK /\ FilesTypeOK /\ faults \in 0 .. MaxFaults)'
    BY <1>18, <1>0, WantsNewest
        DEF IInv, TypeOK, TablesTypeOK, FilesTypeOK, ResolveNewest, Write, Goto, tables,
            files, identity, locals
<1>19. ASSUME NEW r \in Request, FinishUp(r) PROVE (TablesTypeOK /\ FilesTypeOK /\ faults \in 0 .. MaxFaults)'
    BY <1>19, <1>0
        DEF IInv, TypeOK, TablesTypeOK, FilesTypeOK, FinishUp, Goto, tables, files,
            identity, locals
<1>20. ASSUME NEW r \in Request, ReadSummary(r) PROVE (TablesTypeOK /\ FilesTypeOK /\ faults \in 0 .. MaxFaults)'
    BY <1>20, <1>0
        DEF IInv, TypeOK, TablesTypeOK, FilesTypeOK, ReadSummary, Goto, tables, files,
            identity, locals
<1>21. ASSUME NEW r \in Request, ReadRootCause(r) PROVE (TablesTypeOK /\ FilesTypeOK /\ faults \in 0 .. MaxFaults)'
    BY <1>21, <1>0
        DEF IInv, TypeOK, TablesTypeOK, FilesTypeOK, ReadRootCause, Goto, tables, files,
            identity, locals
<1>22. ASSUME NEW r \in Request, Commit(r) PROVE (TablesTypeOK /\ FilesTypeOK /\ faults \in 0 .. MaxFaults)'
    <2>1. PICK downtime \in {Basis(r), Given} :
              cause' = [a \in Alert |-> IF <<"cause", a>> \in held[r]
                                        THEN [by |-> r, downtime |-> downtime] ELSE cause[a]]
        BY <1>22 DEF Commit
    <2>2. Basis(r) \in Request \cup {NoRequest}
        BY DEF IInv, TypeOK, RequestsTypeOK, Basis
    <2>3. [by |-> r, downtime |-> downtime] \in Cause
        BY <2>2 DEF Cause
    <2>4. cause' \in [Alert -> Cause]
        BY <2>1, <2>3 DEF IInv, TypeOK, TablesTypeOK
    <2>5. resolved' \in [Alert -> Request \cup {NoRequest}]
        BY <1>22 DEF IInv, TypeOK, TablesTypeOK, Commit
    <2>6. log' \in [Alert -> {"none", "OPENED", "CLOSED"}]
        BY <1>22 DEF IInv, TypeOK, TablesTypeOK, Commit
    <2> QED
        BY <1>22, <2>4, <2>5, <2>6
            DEF IInv, TypeOK, TablesTypeOK, FilesTypeOK, Commit, files
<1>23. ASSUME NEW r \in Request, DeadlockVictim(r) PROVE (TablesTypeOK /\ FilesTypeOK /\ faults \in 0 .. MaxFaults)'
    <2>1. Abort(r) /\ pc[r] # "idle"
        BY <1>23, Aborted
    <2> QED
        BY <1>23, <2>1, <1>0
            DEF IInv, TypeOK, TablesTypeOK, FilesTypeOK, DeadlockVictim, Abort, Goto,
                Forget, tables, files, identity, locals
<1>24. ASSUME NEW r \in Request, Fail(r) PROVE (TablesTypeOK /\ FilesTypeOK /\ faults \in 0 .. MaxFaults)'
    <2>1. Abort(r) /\ pc[r] # "idle"
        BY <1>24, Aborted
    <2> QED
        BY <1>24, <2>1, <1>0
            DEF IInv, TypeOK, TablesTypeOK, FilesTypeOK, Fail, Fault, Abort, Goto, Forget,
                tables, files, identity, locals
<1>25. ASSUME NEW r \in Request, StoreFails(r) PROVE (TablesTypeOK /\ FilesTypeOK /\ faults \in 0 .. MaxFaults)'
    BY <1>25, <1>0
        DEF IInv, TypeOK, TablesTypeOK, FilesTypeOK, StoreFails, Goto, Fault, tables, files,
            identity, locals
<1>26. ASSUME NEW r \in Request, UpRolledBack(r) PROVE (TablesTypeOK /\ FilesTypeOK /\ faults \in 0 .. MaxFaults)'
    BY <1>26, <1>0
        DEF IInv, TypeOK, TablesTypeOK, FilesTypeOK, UpRolledBack, Goto, Forget, Fault,
            tables, files, identity, locals
<1>27. CASE UNCHANGED vars
    BY <1>27, <1>0
        DEF IInv, TypeOK, TablesTypeOK, FilesTypeOK, vars, tables, files, identity, locals
<1> QED
    BY <1>1, <1>2, <1>3, <1>4, <1>5, <1>6, <1>7, <1>8, <1>9, <1>10, <1>11, <1>12, <1>13,
        <1>14, <1>15, <1>16, <1>17, <1>18, <1>19, <1>20, <1>21, <1>22, <1>23, <1>24, <1>25,
        <1>26, <1>27
        DEF Next, Step, Failure

\* Alerts are never deleted.
LEMMA RaisedGrows ==
    ASSUME IInv, [Next]_vars
    PROVE  raised \in Nat /\ raised' \in Nat /\ raised <= raised'
<1>1. raised \in Nat
    BY RaisedAreAlerts DEF IInv
<1>2. CASE RaiseAlert
    BY <1>1, <1>2 DEF RaiseAlert
<1>3. CASE raised' = raised
    BY <1>1, <1>3
<1>4. RaiseAlert \/ raised' = raised
    <2>1. ASSUME NEW a \in Alert, OpenLog(a) \/ MailAttachment(a) PROVE raised' = raised
        BY <2>1 DEF OpenLog, MailAttachment, tables
    <2>2. ASSUME NEW r \in Request, Begin(r) \/ Step(r) \/ Failure(r) PROVE raised' = raised
        BY <2>2 DEF Begin, Step, StoreObject, RejectFile, SaveMetadata, ReadAlert, Validate,
            Reject, ResolveAlert, FindRootCause, SaveRootCause, DuplicateRootCause,
            CloseOpenLogs, ClearLogs, ListAlerts, ResolveNewest, FinishUp, ReadSummary,
            ReadRootCause, Commit, DeadlockVictim, Abort, Failure, Fail, StoreFails,
            UpRolledBack, tables
    <2> QED
        BY <2>1, <2>2 DEF Next, vars, tables
<1> QED
    BY <1>2, <1>3, <1>4


\* Nothing refers to an alert that is not there.
LEMMA ReferringStep == IInv /\ [Next]_vars => Referring'
<1> SUFFICES ASSUME IInv, [Next]_vars PROVE Referring'
    OBVIOUS
<1>0. raised \in Nat /\ raised' \in Nat /\ raised <= raised'
    BY RaisedGrows
<1>1. CASE RaiseAlert
    <2>1. Raised \subseteq Raised'
        BY <1>0 DEF Raised
    <2>2. \A a \in Alert : a > raised' => a > raised
        BY <1>0 DEF Alert
    <2>3. \A q \in Request : pc[q] # "idle" => target[q] <= raised'
        BY <1>0 DEF IInv, Referring, TypeOK, RequestsTypeOK, Alert
    <2> QED
        BY <1>1, <2>1, <2>2, <2>3 DEF IInv, Referring, HasCause, RaiseAlert, identity, locals
<1>2. ASSUME NEW a \in Alert, OpenLog(a) PROVE Referring'
    BY <1>2, <1>0
        DEF IInv, Referring, HasCause, Raised, TypeOK, TablesTypeOK, RequestsTypeOK,
            OpenLog, Goto, tables, files, identity, locals
<1>3. ASSUME NEW a \in Alert, MailAttachment(a) PROVE Referring'
    BY <1>3, <1>0
        DEF IInv, Referring, HasCause, Raised, TypeOK, TablesTypeOK, RequestsTypeOK,
            MailAttachment, Goto, tables, files, identity, locals
<1>4. ASSUME NEW r \in Request, Begin(r) PROVE Referring'
    <2>1. PICK a \in Raised : target' = [target EXCEPT ![r] = a]
        BY <1>4 DEF Begin
    <2>2. a <= raised
        BY <1>0 DEF Raised
    <2> QED
        BY <1>4, <2>1, <2>2
            DEF IInv, Referring, HasCause, Raised, TypeOK, RequestsTypeOK, Begin, Goto, tables, locals
<1>5. ASSUME NEW r \in Request, StoreObject(r) PROVE Referring'
    BY <1>5, <1>0
        DEF IInv, Referring, HasCause, Raised, TypeOK, TablesTypeOK, RequestsTypeOK,
            StoreObject, Goto, tables, files, identity, locals
<1>6. ASSUME NEW r \in Request, RejectFile(r) PROVE Referring'
    BY <1>6, <1>0
        DEF IInv, Referring, HasCause, Raised, TypeOK, TablesTypeOK, RequestsTypeOK,
            RejectFile, Goto, tables, files, identity, locals
<1>7. ASSUME NEW r \in Request, SaveMetadata(r) PROVE Referring'
    BY <1>7, <1>0
        DEF IInv, Referring, HasCause, Raised, TypeOK, TablesTypeOK, RequestsTypeOK,
            SaveMetadata, Goto, tables, files, identity, locals
<1>8. ASSUME NEW r \in Request, ReadAlert(r) PROVE Referring'
    BY <1>8, <1>0
        DEF IInv, Referring, HasCause, Raised, TypeOK, TablesTypeOK, RequestsTypeOK,
            ReadAlert, Goto, tables, files, identity, locals
<1>9. ASSUME NEW r \in Request, Validate(r) PROVE Referring'
    BY <1>9, <1>0
        DEF IInv, Referring, HasCause, Raised, TypeOK, TablesTypeOK, RequestsTypeOK,
            Validate, Goto, tables, files, identity, locals
<1>10. ASSUME NEW r \in Request, Reject(r) PROVE Referring'
    BY <1>10, <1>0
        DEF IInv, Referring, HasCause, Raised, TypeOK, TablesTypeOK, RequestsTypeOK, Reject,
            Goto, tables, files, identity, locals
<1>11. ASSUME NEW r \in Request, ResolveAlert(r) PROVE Referring'
    BY <1>11, <1>0, WantsAlert
        DEF IInv, Referring, HasCause, Raised, TypeOK, TablesTypeOK, RequestsTypeOK,
            ResolveAlert, Write, Goto, tables, files, identity, locals
<1>12. ASSUME NEW r \in Request, FindRootCause(r) PROVE Referring'
    BY <1>12, <1>0
        DEF IInv, Referring, HasCause, Raised, TypeOK, TablesTypeOK, RequestsTypeOK,
            FindRootCause, Goto, tables, files, identity, locals
<1>13. ASSUME NEW r \in Request, SaveRootCause(r) PROVE Referring'
    BY <1>13, <1>0, WantsCause
        DEF IInv, Referring, HasCause, Raised, TypeOK, TablesTypeOK, RequestsTypeOK,
            SaveRootCause, Write, Goto, tables, files, identity, locals
<1>14. ASSUME NEW r \in Request, DuplicateRootCause(r) PROVE Referring'
    <2>1. Abort(r) /\ pc[r] # "idle"
        BY <1>14, Aborted
    <2> QED
        BY <2>1, <1>0
            DEF IInv, Referring, HasCause, Raised, TypeOK, TablesTypeOK, RequestsTypeOK,
                Abort, Goto, Forget, tables, files, identity, locals
<1>15. ASSUME NEW r \in Request, CloseOpenLogs(r) PROVE Referring'
    BY <1>15, <1>0, WantsLogs
        DEF IInv, Referring, HasCause, Raised, TypeOK, TablesTypeOK, RequestsTypeOK,
            CloseOpenLogs, Write, Goto, tables, files, identity, locals
<1>16. ASSUME NEW r \in Request, ClearLogs(r) PROVE Referring'
    BY <1>16, <1>0, WantsLogs
        DEF IInv, Referring, HasCause, Raised, TypeOK, TablesTypeOK, RequestsTypeOK,
            ClearLogs, Write, Goto, tables, files, identity, locals
<1>17. ASSUME NEW r \in Request, ListAlerts(r) PROVE Referring'
    BY <1>17, <1>0
        DEF IInv, Referring, HasCause, Raised, TypeOK, TablesTypeOK, RequestsTypeOK,
            ListAlerts, Goto, tables, files, identity, locals
<1>18. ASSUME NEW r \in Request, ResolveNewest(r) PROVE Referring'
    BY <1>18, <1>0, WantsNewest
        DEF IInv, Referring, HasCause, Raised, TypeOK, TablesTypeOK, RequestsTypeOK,
            ResolveNewest, Write, Goto, tables, files, identity, locals
<1>19. ASSUME NEW r \in Request, FinishUp(r) PROVE Referring'
    BY <1>19, <1>0
        DEF IInv, Referring, HasCause, Raised, TypeOK, TablesTypeOK, RequestsTypeOK,
            FinishUp, Goto, tables, files, identity, locals
<1>20. ASSUME NEW r \in Request, ReadSummary(r) PROVE Referring'
    BY <1>20, <1>0
        DEF IInv, Referring, HasCause, Raised, TypeOK, TablesTypeOK, RequestsTypeOK,
            ReadSummary, Goto, tables, files, identity, locals
<1>21. ASSUME NEW r \in Request, ReadRootCause(r) PROVE Referring'
    BY <1>21, <1>0
        DEF IInv, Referring, HasCause, Raised, TypeOK, TablesTypeOK, RequestsTypeOK,
            ReadRootCause, Goto, tables, files, identity, locals
<1>22. ASSUME NEW r \in Request, Commit(r) PROVE Referring'
    <2>1. ASSUME NEW a \in Alert, a > raised'
          PROVE  resolved'[a] = NoRequest /\ ~HasCause(a)'
        <3>1. a > raised
            BY <1>22, <2>1 DEF Commit
        <3>2. ~(a <= raised)
            BY <1>0, <3>1 DEF Alert
        <3>3. pc[r] # "idle"
            BY <1>22 DEF Commit
        <3>4. <<"alert", a>> \notin held[r] /\ <<"cause", a>> \notin held[r]
            BY <3>2, <3>3 DEF IInv, Holding, Referring
        <3> QED
            BY <1>22, <3>1, <3>4 DEF IInv, Referring, HasCause, Commit
    <2>2. ASSUME NEW q \in Request
          PROVE  (pc'[q] # "idle" => target'[q] <= raised') /\ todo'[q] \subseteq Raised'
        BY <1>22 DEF IInv, Referring, TypeOK, RequestsTypeOK, Raised, Commit, Goto, Forget, identity
    <2> QED
        BY <2>1, <2>2 DEF Referring
<1>23. ASSUME NEW r \in Request, DeadlockVictim(r) PROVE Referring'
    <2>1. Abort(r) /\ pc[r] # "idle"
        BY <1>23, Aborted
    <2> QED
        BY <2>1, <1>0
            DEF IInv, Referring, HasCause, Raised, TypeOK, TablesTypeOK, RequestsTypeOK,
                Abort, Goto, Forget, tables, files, identity, locals
<1>24. ASSUME NEW r \in Request, Fail(r) PROVE Referring'
    <2>1. Abort(r) /\ pc[r] # "idle"
        BY <1>24, Aborted
    <2> QED
        BY <2>1, <1>0
            DEF IInv, Referring, HasCause, Raised, TypeOK, TablesTypeOK, RequestsTypeOK,
                Abort, Goto, Forget, tables, files, identity, locals
<1>25. ASSUME NEW r \in Request, StoreFails(r) PROVE Referring'
    BY <1>25, <1>0
        DEF IInv, Referring, HasCause, Raised, TypeOK, TablesTypeOK, RequestsTypeOK,
            StoreFails, Goto, Fault, tables, files, identity, locals
<1>26. ASSUME NEW r \in Request, UpRolledBack(r) PROVE Referring'
    BY <1>26, <1>0
        DEF IInv, Referring, HasCause, Raised, TypeOK, TablesTypeOK, RequestsTypeOK,
            UpRolledBack, Goto, Forget, Fault, tables, files, identity, locals
<1>27. CASE UNCHANGED vars
    BY <1>27, <1>0
        DEF IInv, Referring, HasCause, Raised, TypeOK, TablesTypeOK, RequestsTypeOK, vars,
            tables, files, identity, locals
<1> QED
    BY <1>1, <1>2, <1>3, <1>4, <1>5, <1>6, <1>7, <1>8, <1>9, <1>10, <1>11, <1>12, <1>13,
        <1>14, <1>15, <1>16, <1>17, <1>18, <1>19, <1>20, <1>21, <1>22, <1>23, <1>24, <1>25,
        <1>26, <1>27
        DEF Next, Step, Failure

\* A request writes only rows of its kind.
LEMMA HoldingStep == IInv /\ [Next]_vars => Holding'
<1> SUFFICES ASSUME IInv, [Next]_vars PROVE Holding'
    OBVIOUS
<1>0. raised \in Nat /\ raised' \in Nat /\ raised <= raised'
    BY RaisedGrows
<1>1. CASE RaiseAlert
    <2>1. \A a \in Alert : a <= raised => a <= raised'
        BY <1>0 DEF Alert
    <2> QED
        BY <1>1, <2>1 DEF IInv, Holding, RaiseAlert, identity
<1>2. ASSUME NEW a \in Alert, OpenLog(a) PROVE Holding'
    BY <1>2
        DEF IInv, Holding, TypeOK, RequestsTypeOK, Ended, OpenLog, Goto, tables, files,
            identity, locals
<1>3. ASSUME NEW a \in Alert, MailAttachment(a) PROVE Holding'
    BY <1>3
        DEF IInv, Holding, TypeOK, RequestsTypeOK, Ended, MailAttachment, Goto, tables,
            files, identity, locals
<1>4. ASSUME NEW r \in Request, Begin(r) PROVE Holding'
    BY <1>4
        DEF IInv, Holding, TypeOK, RequestsTypeOK, Ended, Begin, Goto, Raised, tables,
            files, identity, locals
<1>5. ASSUME NEW r \in Request, StoreObject(r) PROVE Holding'
    BY <1>5
        DEF IInv, Holding, TypeOK, RequestsTypeOK, Ended, StoreObject, Goto, tables, files,
            identity, locals
<1>6. ASSUME NEW r \in Request, RejectFile(r) PROVE Holding'
    BY <1>6
        DEF IInv, Holding, TypeOK, RequestsTypeOK, Ended, RejectFile, Goto, tables, files,
            identity, locals
<1>7. ASSUME NEW r \in Request, SaveMetadata(r) PROVE Holding'
    BY <1>7
        DEF IInv, Holding, TypeOK, RequestsTypeOK, Ended, SaveMetadata, Goto, tables, files,
            identity, locals
<1>8. ASSUME NEW r \in Request, ReadAlert(r) PROVE Holding'
    BY <1>8
        DEF IInv, Holding, TypeOK, RequestsTypeOK, Ended, ReadAlert, Goto, tables, files,
            identity, locals
<1>9. ASSUME NEW r \in Request, Validate(r) PROVE Holding'
    BY <1>9
        DEF IInv, Holding, TypeOK, RequestsTypeOK, Ended, Validate, Goto, tables, files,
            identity, locals
<1>10. ASSUME NEW r \in Request, Reject(r) PROVE Holding'
    BY <1>10
        DEF IInv, Holding, TypeOK, RequestsTypeOK, Ended, Reject, Goto, tables, files,
            identity, locals
<1>11. ASSUME NEW r \in Request, ResolveAlert(r) PROVE Holding'
    <2>1. Wants(r) \subseteq {<<"alert", target[r]>>} /\ target[r] <= raised
        BY <1>11, WantsAlert DEF IInv, Referring, ResolveAlert
    <2> QED
        BY <1>11, <2>1
            DEF IInv, Holding, TypeOK, RequestsTypeOK, ResolveAlert, Write, Goto, Ended, tables,
                identity
<1>12. ASSUME NEW r \in Request, FindRootCause(r) PROVE Holding'
    BY <1>12
        DEF IInv, Holding, TypeOK, RequestsTypeOK, Ended, FindRootCause, Goto, tables,
            files, identity, locals
<1>13. ASSUME NEW r \in Request, SaveRootCause(r) PROVE Holding'
    BY <1>13, WantsCause
        DEF IInv, Holding, TypeOK, RequestsTypeOK, Ended, SaveRootCause, Write, Goto,
            tables, files, identity, locals
<1>14. ASSUME NEW r \in Request, DuplicateRootCause(r) PROVE Holding'
    <2>1. Abort(r) /\ pc[r] # "idle"
        BY <1>14, Aborted
    <2> QED
        BY <2>1
            DEF IInv, Holding, TypeOK, RequestsTypeOK, Ended, Abort, Goto, Forget, tables,
                files, identity, locals
<1>15. ASSUME NEW r \in Request, CloseOpenLogs(r) PROVE Holding'
    <2>1. Wants(r) = OpenLogs
        BY <1>15, WantsLogs
    <2>2. \A a \in Alert : <<"alert", a>> \notin Wants(r) /\ <<"cause", a>> \notin Wants(r)
        BY <2>1, OpenLogsAreLogs
    <2> QED
        BY <1>15, <2>2
            DEF IInv, Holding, TypeOK, RequestsTypeOK, CloseOpenLogs, Write, Goto, Ended, tables, identity
<1>16. ASSUME NEW r \in Request, ClearLogs(r) PROVE Holding'
    <2>1. Wants(r) = OpenLogs
        BY <1>16, WantsLogs
    <2>2. \A a \in Alert : <<"alert", a>> \notin Wants(r) /\ <<"cause", a>> \notin Wants(r)
        BY <2>1, OpenLogsAreLogs
    <2> QED
        BY <1>16, <2>2
            DEF IInv, Holding, TypeOK, RequestsTypeOK, ClearLogs, Write, Goto, Ended, tables, identity
<1>17. ASSUME NEW r \in Request, ListAlerts(r) PROVE Holding'
    BY <1>17
        DEF IInv, Holding, TypeOK, RequestsTypeOK, Ended, ListAlerts, Goto, tables, files,
            identity, locals
<1>18. ASSUME NEW r \in Request, ResolveNewest(r) PROVE Holding'
    <2>1. Max(todo[r]) \in todo[r]
        BY <1>18, MaxMember DEF IInv, TypeOK, RequestsTypeOK, ResolveNewest
    <2>2. Max(todo[r]) <= raised
        BY <1>0, <2>1 DEF IInv, Referring, Raised
    <2>3. Wants(r) = {<<"alert", Max(todo[r])>>}
        BY <1>18, WantsNewest DEF ResolveNewest
    <2> QED
        BY <1>18, <2>2, <2>3
            DEF IInv, Holding, TypeOK, RequestsTypeOK, ResolveNewest, Write, Ended, tables, identity
<1>19. ASSUME NEW r \in Request, FinishUp(r) PROVE Holding'
    BY <1>19
        DEF IInv, Holding, TypeOK, RequestsTypeOK, Ended, FinishUp, Goto, tables, files,
            identity, locals
<1>20. ASSUME NEW r \in Request, ReadSummary(r) PROVE Holding'
    BY <1>20
        DEF IInv, Holding, TypeOK, RequestsTypeOK, Ended, ReadSummary, Goto, tables, files,
            identity, locals
<1>21. ASSUME NEW r \in Request, ReadRootCause(r) PROVE Holding'
    BY <1>21
        DEF IInv, Holding, TypeOK, RequestsTypeOK, Ended, ReadRootCause, Goto, tables,
            files, identity, locals
<1>22. ASSUME NEW r \in Request, Commit(r) PROVE Holding'
    BY <1>22
        DEF IInv, Holding, TypeOK, RequestsTypeOK, Ended, Commit, Goto, Forget, tables,
            files, identity, locals
<1>23. ASSUME NEW r \in Request, DeadlockVictim(r) PROVE Holding'
    <2>1. Abort(r) /\ pc[r] # "idle"
        BY <1>23, Aborted
    <2> QED
        BY <2>1
            DEF IInv, Holding, TypeOK, RequestsTypeOK, Ended, Abort, Goto, Forget, tables,
                files, identity, locals
<1>24. ASSUME NEW r \in Request, Fail(r) PROVE Holding'
    <2>1. Abort(r) /\ pc[r] # "idle"
        BY <1>24, Aborted
    <2> QED
        BY <2>1
            DEF IInv, Holding, TypeOK, RequestsTypeOK, Ended, Abort, Goto, Forget, tables,
                files, identity, locals
<1>25. ASSUME NEW r \in Request, StoreFails(r) PROVE Holding'
    BY <1>25
        DEF IInv, Holding, TypeOK, RequestsTypeOK, Ended, StoreFails, Goto, Fault, tables,
            files, identity, locals
<1>26. ASSUME NEW r \in Request, UpRolledBack(r) PROVE Holding'
    BY <1>26
        DEF IInv, Holding, TypeOK, RequestsTypeOK, Ended, UpRolledBack, Goto, Forget, Fault,
            tables, files, identity, locals
<1>27. CASE UNCHANGED vars
    BY <1>27
        DEF IInv, Holding, TypeOK, RequestsTypeOK, Ended, vars, tables, files, identity,
            locals
<1> QED
    BY <1>1, <1>2, <1>3, <1>4, <1>5, <1>6, <1>7, <1>8, <1>9, <1>10, <1>11, <1>12, <1>13,
        <1>14, <1>15, <1>16, <1>17, <1>18, <1>19, <1>20, <1>21, <1>22, <1>23, <1>24, <1>25,
        <1>26, <1>27
        DEF Next, Step, Failure

\* A request that is aborted is at a stage that says nothing of rows.
LEMMA AbortKeepsStages ==
    ASSUME IInv, NEW r \in Request, Abort(r)
    PROVE  Stages'
<1>1. pc'[r] \in {"begun", "failed"}
    BY DEF IInv, TypeOK, RequestsTypeOK, Abort, Goto
<1>2. \A q \in Request \ {r} :
          pc'[q] = pc[q] /\ read'[q] = read[q] /\ held'[q] = held[q]
    BY DEF IInv, TypeOK, RequestsTypeOK, Abort, Goto, Forget
<1>3. UNCHANGED <<op, target, resolved>>
    BY DEF Abort, tables, identity
<1> QED
    BY <1>1, <1>2, <1>3 DEF IInv, Stages, Resolves, Reading

\* Progress shows in the rows written.
LEMMA StagesStep == IInv /\ [Next]_vars => Stages'
<1> SUFFICES ASSUME IInv, [Next]_vars PROVE Stages'
    OBVIOUS
<1>1. CASE RaiseAlert
    BY <1>1
        DEF IInv, Stages, Resolves, Reading, Closure, Holding, TypeOK, TablesTypeOK,
            RequestsTypeOK, Ended, RaiseAlert, Goto, tables, files, identity, locals
<1>2. ASSUME NEW a \in Alert, OpenLog(a) PROVE Stages'
    BY <1>2
        DEF IInv, Stages, Resolves, Reading, Closure, Holding, TypeOK, TablesTypeOK,
            RequestsTypeOK, Ended, OpenLog, Goto, tables, files, identity, locals
<1>3. ASSUME NEW a \in Alert, MailAttachment(a) PROVE Stages'
    BY <1>3
        DEF IInv, Stages, Resolves, Reading, Closure, Holding, TypeOK, TablesTypeOK,
            RequestsTypeOK, Ended, MailAttachment, Goto, tables, files, identity, locals
<1>4. ASSUME NEW r \in Request, Begin(r) PROVE Stages'
    BY <1>4
        DEF IInv, Stages, Resolves, Reading, Closure, Holding, TypeOK, TablesTypeOK,
            RequestsTypeOK, Ended, Begin, Goto, Raised, tables, files, identity, locals
<1>5. ASSUME NEW r \in Request, StoreObject(r) PROVE Stages'
    BY <1>5
        DEF IInv, Stages, Resolves, Reading, Closure, Holding, TypeOK, TablesTypeOK,
            RequestsTypeOK, Ended, StoreObject, Goto, tables, files, identity, locals
<1>6. ASSUME NEW r \in Request, RejectFile(r) PROVE Stages'
    BY <1>6
        DEF IInv, Stages, Resolves, Reading, Closure, Holding, TypeOK, TablesTypeOK,
            RequestsTypeOK, Ended, RejectFile, Goto, tables, files, identity, locals
<1>7. ASSUME NEW r \in Request, SaveMetadata(r) PROVE Stages'
    BY <1>7
        DEF IInv, Stages, Resolves, Reading, Closure, Holding, TypeOK, TablesTypeOK,
            RequestsTypeOK, Ended, SaveMetadata, Goto, tables, files, identity, locals
<1>8. ASSUME NEW r \in Request, ReadAlert(r) PROVE Stages'
    <2>1. pc'[r] = "read" /\ read'[r] = resolved[target[r]]
        BY <1>8 DEF IInv, TypeOK, RequestsTypeOK, ReadAlert, Goto
    <2>2. \A q \in Request \ {r} : pc'[q] = pc[q] /\ read'[q] = read[q]
        BY <1>8 DEF IInv, TypeOK, RequestsTypeOK, ReadAlert, Goto
    <2>3. UNCHANGED <<op, target, held, resolved>>
        BY <1>8 DEF ReadAlert, tables, identity
    <2> QED
        BY <2>1, <2>2, <2>3 DEF IInv, Stages, Resolves, Reading
<1>9. ASSUME NEW r \in Request, Validate(r) PROVE Stages'
    <2>1. pc[r] = "read" /\ pc' = [pc EXCEPT ![r] = "valid"]
        BY <1>9 DEF Validate, Goto
    <2>2. UNCHANGED <<op, target, read, held, resolved>>
        BY <1>9 DEF Validate, tables, identity, locals
    <2>3. pc'[r] = "valid" /\ \A q \in Request \ {r} : pc'[q] = pc[q]
        BY <2>1 DEF IInv, TypeOK, RequestsTypeOK
    <2> QED
        BY <2>1, <2>2, <2>3 DEF IInv, Stages, Resolves, Reading
<1>10. ASSUME NEW r \in Request, Reject(r) PROVE Stages'
    BY <1>10
        DEF IInv, Stages, Resolves, Reading, Closure, Holding, TypeOK, TablesTypeOK,
            RequestsTypeOK, Ended, Reject, Goto, tables, files, identity, locals
<1>11. ASSUME NEW r \in Request, ResolveAlert(r) PROVE Stages'
    <2>1. Wants(r) = IF Resolves(r) THEN {<<"alert", target[r]>>} ELSE {}
        BY <1>11, WantsAlert DEF ResolveAlert
    <2>2. held[r] = {} /\ held'[r] = Wants(r) /\ pc'[r] = "located" /\ target'[r] = target[r]
          /\ op'[r] = op[r] /\ read'[r] = read[r]
        BY <1>11 DEF IInv, Holding, TypeOK, RequestsTypeOK, ResolveAlert, Write, Goto, identity, locals
    <2>3. <<"alert", target'[r]>> \in held'[r] <=> Resolves(r)'
        BY <2>1, <2>2 DEF Resolves
    <2> QED
        BY <1>11, <2>2, <2>3
            DEF IInv, Stages, Resolves, Reading, TypeOK, RequestsTypeOK, ResolveAlert, Write,
                Goto, tables, identity, locals
<1>12. ASSUME NEW r \in Request, FindRootCause(r) PROVE Stages'
    BY <1>12
        DEF IInv, Stages, Resolves, Reading, Closure, Holding, TypeOK, TablesTypeOK,
            RequestsTypeOK, Ended, FindRootCause, Goto, tables, files, identity, locals
<1>13. ASSUME NEW r \in Request, SaveRootCause(r) PROVE Stages'
    <2>1. Wants(r) = {<<"cause", target[r]>>}
        BY <1>13, WantsCause DEF SaveRootCause
    <2> QED
        BY <1>13, <2>1
            DEF IInv, Stages, Resolves, Reading, Closure, TypeOK, RequestsTypeOK,
                SaveRootCause, Write, Goto, tables, identity, locals
<1>14. ASSUME NEW r \in Request, DuplicateRootCause(r) PROVE Stages'
    <2>1. Abort(r) /\ pc[r] # "idle"
        BY <1>14, Aborted
    <2> QED
        BY <2>1, AbortKeepsStages
<1>15. ASSUME NEW r \in Request, CloseOpenLogs(r) PROVE Stages'
    <2>1. Wants(r) = OpenLogs
        BY <1>15, WantsLogs
    <2>2. \A a \in Alert : <<"alert", a>> \notin Wants(r) /\ <<"cause", a>> \notin Wants(r)
        BY <2>1, OpenLogsAreLogs
    <2> QED
        BY <1>15, <2>2
            DEF IInv, Stages, Resolves, Reading, TypeOK, RequestsTypeOK, CloseOpenLogs, Write,
                Goto, tables, identity, locals
<1>16. ASSUME NEW r \in Request, ClearLogs(r) PROVE Stages'
    BY <1>16, WantsLogs
        DEF IInv, Stages, Resolves, Reading, Closure, Holding, TypeOK, TablesTypeOK,
            RequestsTypeOK, Ended, ClearLogs, Write, Goto, tables, files, identity, locals
<1>17. ASSUME NEW r \in Request, ListAlerts(r) PROVE Stages'
    BY <1>17
        DEF IInv, Stages, Resolves, Reading, Closure, Holding, TypeOK, TablesTypeOK,
            RequestsTypeOK, Ended, ListAlerts, Goto, tables, files, identity, locals
<1>18. ASSUME NEW r \in Request, ResolveNewest(r) PROVE Stages'
    BY <1>18, WantsNewest
        DEF IInv, Stages, Resolves, Reading, Closure, Holding, TypeOK, TablesTypeOK,
            RequestsTypeOK, Ended, ResolveNewest, Write, Goto, tables, files, identity,
            locals
<1>19. ASSUME NEW r \in Request, FinishUp(r) PROVE Stages'
    BY <1>19
        DEF IInv, Stages, Resolves, Reading, Closure, Holding, TypeOK, TablesTypeOK,
            RequestsTypeOK, Ended, FinishUp, Goto, tables, files, identity, locals
<1>20. ASSUME NEW r \in Request, ReadSummary(r) PROVE Stages'
    BY <1>20
        DEF IInv, Stages, Resolves, Reading, Closure, Holding, TypeOK, TablesTypeOK,
            RequestsTypeOK, Ended, ReadSummary, Goto, tables, files, identity, locals
<1>21. ASSUME NEW r \in Request, ReadRootCause(r) PROVE Stages'
    BY <1>21
        DEF IInv, Stages, Resolves, Reading, Closure, Holding, TypeOK, TablesTypeOK,
            RequestsTypeOK, Ended, ReadRootCause, Goto, tables, files, identity, locals
<1>22. ASSUME NEW r \in Request, Commit(r) PROVE Stages'
    <2>1. \A a \in Alert : resolved[a] # NoRequest => resolved'[a] # NoRequest
        BY <1>22, NobodyIsNoRequest DEF Commit
    <2>2. pc'[r] = "done" /\ \A q \in Request \ {r} :
              /\ pc'[q] = pc[q] /\ held'[q] = held[q] /\ read'[q] = read[q]
              /\ op'[q] = op[q] /\ target'[q] = target[q]
        BY <1>22 DEF IInv, TypeOK, RequestsTypeOK, Commit, Goto, Forget, identity
    <2>3. op'[r] = op[r]
        BY <1>22 DEF Commit, identity
    <2>4. ASSUME NEW q \in Request \ {r}, op[q] \in Closure, pc[q] \in Reading,
                 read[q] # NoRequest
          PROVE  resolved'[target[q]] # NoRequest
        <3>1. target[q] \in Alert /\ resolved[target[q]] # NoRequest
            BY <2>4 DEF IInv, Stages, TypeOK, RequestsTypeOK
        <3> QED
            BY <2>1, <3>1
    <2> QED
        BY <2>2, <2>3, <2>4 DEF IInv, Stages, Resolves, Reading
<1>23. ASSUME NEW r \in Request, DeadlockVictim(r) PROVE Stages'
    <2>1. Abort(r) /\ pc[r] # "idle"
        BY <1>23, Aborted
    <2> QED
        BY <2>1, AbortKeepsStages
<1>24. ASSUME NEW r \in Request, Fail(r) PROVE Stages'
    <2>1. Abort(r) /\ pc[r] # "idle"
        BY <1>24, Aborted
    <2> QED
        BY <2>1, AbortKeepsStages
<1>25. ASSUME NEW r \in Request, StoreFails(r) PROVE Stages'
    BY <1>25
        DEF IInv, Stages, Resolves, Reading, Closure, Holding, TypeOK, TablesTypeOK,
            RequestsTypeOK, Ended, StoreFails, Goto, Fault, tables, files, identity, locals
<1>26. ASSUME NEW r \in Request, UpRolledBack(r) PROVE Stages'
    BY <1>26
        DEF IInv, Stages, Resolves, Reading, Closure, Holding, TypeOK, TablesTypeOK,
            RequestsTypeOK, Ended, UpRolledBack, Goto, Forget, Fault, tables, files,
            identity, locals
<1>27. CASE UNCHANGED vars
    BY <1>27
        DEF IInv, Stages, Resolves, Reading, Closure, Holding, TypeOK, TablesTypeOK,
            RequestsTypeOK, Ended, vars, tables, files, identity, locals
<1> QED
    BY <1>1, <1>2, <1>3, <1>4, <1>5, <1>6, <1>7, <1>8, <1>9, <1>10, <1>11, <1>12, <1>13,
        <1>14, <1>15, <1>16, <1>17, <1>18, <1>19, <1>20, <1>21, <1>22, <1>23, <1>24, <1>25,
        <1>26, <1>27
        DEF Next, Step, Failure

\* What was read holds until a commit.
LEMMA FreshStep == IInv /\ [Next]_vars => Fresh'
<1> SUFFICES ASSUME IInv, [Next]_vars PROVE Fresh'
    OBVIOUS
<1>1. CASE RaiseAlert
    BY <1>1
        DEF IInv, Fresh, Reading, Closure, Holding, TypeOK, TablesTypeOK, RequestsTypeOK,
            Ended, RaiseAlert, Goto, tables, files, identity, locals
<1>2. ASSUME NEW a \in Alert, OpenLog(a) PROVE Fresh'
    BY <1>2
        DEF IInv, Fresh, Reading, Closure, Holding, TypeOK, TablesTypeOK, RequestsTypeOK,
            Ended, OpenLog, Goto, tables, files, identity, locals
<1>3. ASSUME NEW a \in Alert, MailAttachment(a) PROVE Fresh'
    BY <1>3
        DEF IInv, Fresh, Reading, Closure, Holding, TypeOK, TablesTypeOK, RequestsTypeOK,
            Ended, MailAttachment, Goto, tables, files, identity, locals
<1>4. ASSUME NEW r \in Request, Begin(r) PROVE Fresh'
    BY <1>4
        DEF IInv, Fresh, Reading, Closure, Holding, TypeOK, TablesTypeOK, RequestsTypeOK,
            Ended, Begin, Goto, Raised, tables, files, identity, locals
<1>5. ASSUME NEW r \in Request, StoreObject(r) PROVE Fresh'
    BY <1>5
        DEF IInv, Fresh, Reading, Closure, Holding, TypeOK, TablesTypeOK, RequestsTypeOK,
            Ended, StoreObject, Goto, tables, files, identity, locals
<1>6. ASSUME NEW r \in Request, RejectFile(r) PROVE Fresh'
    BY <1>6
        DEF IInv, Fresh, Reading, Closure, Holding, TypeOK, TablesTypeOK, RequestsTypeOK,
            Ended, RejectFile, Goto, tables, files, identity, locals
<1>7. ASSUME NEW r \in Request, SaveMetadata(r) PROVE Fresh'
    BY <1>7
        DEF IInv, Fresh, Reading, Closure, Holding, TypeOK, TablesTypeOK, RequestsTypeOK,
            Ended, SaveMetadata, Goto, tables, files, identity, locals
<1>8. ASSUME NEW r \in Request, ReadAlert(r) PROVE Fresh'
    BY <1>8
        DEF IInv, Fresh, Reading, Closure, Holding, TypeOK, TablesTypeOK, RequestsTypeOK,
            Ended, ReadAlert, Goto, tables, files, identity, locals
<1>9. ASSUME NEW r \in Request, Validate(r) PROVE Fresh'
    BY <1>9
        DEF IInv, Fresh, Reading, Closure, Holding, TypeOK, TablesTypeOK, RequestsTypeOK,
            Ended, Validate, Goto, tables, files, identity, locals
<1>10. ASSUME NEW r \in Request, Reject(r) PROVE Fresh'
    BY <1>10
        DEF IInv, Fresh, Reading, Closure, Holding, TypeOK, TablesTypeOK, RequestsTypeOK,
            Ended, Reject, Goto, tables, files, identity, locals
<1>11. ASSUME NEW r \in Request, ResolveAlert(r) PROVE Fresh'
    BY <1>11, WantsAlert
        DEF IInv, Fresh, Reading, Closure, Holding, TypeOK, TablesTypeOK, RequestsTypeOK,
            Ended, ResolveAlert, Write, Goto, tables, files, identity, locals
<1>12. ASSUME NEW r \in Request, FindRootCause(r) PROVE Fresh'
    BY <1>12
        DEF IInv, Fresh, Reading, Closure, Holding, TypeOK, TablesTypeOK, RequestsTypeOK,
            Ended, FindRootCause, Goto, tables, files, identity, locals
<1>13. ASSUME NEW r \in Request, SaveRootCause(r) PROVE Fresh'
    <2>1. Wants(r) = {<<"cause", target[r]>>}
        BY <1>13, WantsCause DEF SaveRootCause
    <2> QED
        BY <1>13, <2>1
            DEF IInv, Fresh, Reading, Closure, TypeOK, RequestsTypeOK, SaveRootCause, Write, Goto,
                tables, identity, locals
<1>14. ASSUME NEW r \in Request, DuplicateRootCause(r) PROVE Fresh'
    <2>1. Abort(r) /\ pc[r] # "idle"
        BY <1>14, Aborted
    <2> QED
        BY <2>1
            DEF IInv, Fresh, Reading, Closure, Holding, TypeOK, TablesTypeOK,
                RequestsTypeOK, Ended, Abort, Goto, Forget, tables, files, identity, locals
<1>15. ASSUME NEW r \in Request, CloseOpenLogs(r) PROVE Fresh'
    <2>1. Wants(r) = OpenLogs
        BY <1>15, WantsLogs
    <2>2. \A a \in Alert : <<"alert", a>> \notin Wants(r) /\ <<"cause", a>> \notin Wants(r)
        BY <2>1, OpenLogsAreLogs
    <2> QED
        BY <1>15, <2>2
            DEF IInv, Fresh, Reading, Closure, TypeOK, RequestsTypeOK, CloseOpenLogs, Write, Goto, tables,
                identity, locals
<1>16. ASSUME NEW r \in Request, ClearLogs(r) PROVE Fresh'
    <2>1. Wants(r) = OpenLogs
        BY <1>16, WantsLogs
    <2>2. \A a \in Alert : <<"alert", a>> \notin Wants(r) /\ <<"cause", a>> \notin Wants(r)
        BY <2>1, OpenLogsAreLogs
    <2> QED
        BY <1>16, <2>2
            DEF IInv, Fresh, Reading, Closure, TypeOK, RequestsTypeOK, ClearLogs, Write, Goto, tables,
                identity, locals
<1>17. ASSUME NEW r \in Request, ListAlerts(r) PROVE Fresh'
    BY <1>17
        DEF IInv, Fresh, Reading, Closure, Holding, TypeOK, TablesTypeOK, RequestsTypeOK,
            Ended, ListAlerts, Goto, tables, files, identity, locals
<1>18. ASSUME NEW r \in Request, ResolveNewest(r) PROVE Fresh'
    <2>1. Max(todo[r]) \in todo[r]
        BY <1>18, MaxMember DEF IInv, TypeOK, RequestsTypeOK, ResolveNewest
    <2>2. Wants(r) = {<<"alert", Max(todo[r])>>}
        BY <1>18, WantsNewest DEF ResolveNewest
    <2> QED
        BY <1>18, <2>1, <2>2
            DEF IInv, Fresh, Reading, Closure, TypeOK, RequestsTypeOK, ResolveNewest, Write, tables,
                identity
<1>19. ASSUME NEW r \in Request, FinishUp(r) PROVE Fresh'
    BY <1>19
        DEF IInv, Fresh, Reading, Closure, Holding, TypeOK, TablesTypeOK, RequestsTypeOK,
            Ended, FinishUp, Goto, tables, files, identity, locals
<1>20. ASSUME NEW r \in Request, ReadSummary(r) PROVE Fresh'
    BY <1>20
        DEF IInv, Fresh, Reading, Closure, Holding, TypeOK, TablesTypeOK, RequestsTypeOK,
            Ended, ReadSummary, Goto, tables, files, identity, locals
<1>21. ASSUME NEW r \in Request, ReadRootCause(r) PROVE Fresh'
    BY <1>21
        DEF IInv, Fresh, Reading, Closure, Holding, TypeOK, TablesTypeOK, RequestsTypeOK,
            Ended, ReadRootCause, Goto, tables, files, identity, locals
<1>22. ASSUME NEW r \in Request, Commit(r) PROVE Fresh'
    <2>1. pc'[r] = "done"
        BY <1>22 DEF IInv, TypeOK, RequestsTypeOK, Commit, Goto
    <2>2. \A q \in Request \ {r} : (InFlight(q) => stale'[q]) /\ pc'[q] = pc[q]
        BY <1>22 DEF IInv, TypeOK, RequestsTypeOK, InFlight, Commit, Goto
    <2> QED
        BY <2>1, <2>2 DEF Fresh, Reading, InFlight, Ended
<1>23. ASSUME NEW r \in Request, DeadlockVictim(r) PROVE Fresh'
    <2>1. Abort(r) /\ pc[r] # "idle"
        BY <1>23, Aborted
    <2> QED
        BY <2>1
            DEF IInv, Fresh, Reading, Closure, Holding, TypeOK, TablesTypeOK,
                RequestsTypeOK, Ended, Abort, Goto, Forget, tables, files, identity, locals
<1>24. ASSUME NEW r \in Request, Fail(r) PROVE Fresh'
    <2>1. Abort(r) /\ pc[r] # "idle"
        BY <1>24, Aborted
    <2> QED
        BY <2>1
            DEF IInv, Fresh, Reading, Closure, Holding, TypeOK, TablesTypeOK,
                RequestsTypeOK, Ended, Abort, Goto, Forget, tables, files, identity, locals
<1>25. ASSUME NEW r \in Request, StoreFails(r) PROVE Fresh'
    BY <1>25
        DEF IInv, Fresh, Reading, Closure, Holding, TypeOK, TablesTypeOK, RequestsTypeOK,
            Ended, StoreFails, Goto, Fault, tables, files, identity, locals
<1>26. ASSUME NEW r \in Request, UpRolledBack(r) PROVE Fresh'
    BY <1>26
        DEF IInv, Fresh, Reading, Closure, Holding, TypeOK, TablesTypeOK, RequestsTypeOK,
            Ended, UpRolledBack, Goto, Forget, Fault, tables, files, identity, locals
<1>27. CASE UNCHANGED vars
    BY <1>27
        DEF IInv, Fresh, Reading, Closure, Holding, TypeOK, TablesTypeOK, RequestsTypeOK,
            Ended, vars, tables, files, identity, locals
<1> QED
    BY <1>1, <1>2, <1>3, <1>4, <1>5, <1>6, <1>7, <1>8, <1>9, <1>10, <1>11, <1>12, <1>13,
        <1>14, <1>15, <1>16, <1>17, <1>18, <1>19, <1>20, <1>21, <1>22, <1>23, <1>24, <1>25,
        <1>26, <1>27
        DEF Next, Step, Failure

\* An object comes before its row.
LEMMA BackedStep == IInv /\ [Next]_vars => Backed'
<1> SUFFICES ASSUME IInv, [Next]_vars PROVE Backed'
    OBVIOUS
<1>1. CASE RaiseAlert
    BY <1>1
        DEF IInv, Backed, TypeOK, FilesTypeOK, RequestsTypeOK, RaiseAlert, Goto, tables,
            files, identity, locals
<1>2. ASSUME NEW a \in Alert, OpenLog(a) PROVE Backed'
    BY <1>2
        DEF IInv, Backed, TypeOK, FilesTypeOK, RequestsTypeOK, OpenLog, Goto, tables, files,
            identity, locals
<1>3. ASSUME NEW a \in Alert, MailAttachment(a) PROVE Backed'
    BY <1>3
        DEF IInv, Backed, TypeOK, FilesTypeOK, RequestsTypeOK, MailAttachment, Goto, tables,
            files, identity, locals
<1>4. ASSUME NEW r \in Request, Begin(r) PROVE Backed'
    BY <1>4
        DEF IInv, Backed, TypeOK, FilesTypeOK, RequestsTypeOK, Begin, Goto, Raised, tables,
            files, identity, locals
<1>5. ASSUME NEW r \in Request, StoreObject(r) PROVE Backed'
    BY <1>5
        DEF IInv, Backed, TypeOK, FilesTypeOK, RequestsTypeOK, StoreObject, Goto, tables,
            files, identity, locals
<1>6. ASSUME NEW r \in Request, RejectFile(r) PROVE Backed'
    BY <1>6
        DEF IInv, Backed, TypeOK, FilesTypeOK, RequestsTypeOK, RejectFile, Goto, tables,
            files, identity, locals
<1>7. ASSUME NEW r \in Request, SaveMetadata(r) PROVE Backed'
    BY <1>7
        DEF IInv, Backed, TypeOK, FilesTypeOK, RequestsTypeOK, SaveMetadata, Goto, tables,
            files, identity, locals
<1>8. ASSUME NEW r \in Request, ReadAlert(r) PROVE Backed'
    BY <1>8
        DEF IInv, Backed, TypeOK, FilesTypeOK, RequestsTypeOK, ReadAlert, Goto, tables,
            files, identity, locals
<1>9. ASSUME NEW r \in Request, Validate(r) PROVE Backed'
    BY <1>9
        DEF IInv, Backed, TypeOK, FilesTypeOK, RequestsTypeOK, Validate, Goto, tables,
            files, identity, locals
<1>10. ASSUME NEW r \in Request, Reject(r) PROVE Backed'
    BY <1>10
        DEF IInv, Backed, TypeOK, FilesTypeOK, RequestsTypeOK, Reject, Goto, tables, files,
            identity, locals
<1>11. ASSUME NEW r \in Request, ResolveAlert(r) PROVE Backed'
    BY <1>11, WantsAlert
        DEF IInv, Backed, TypeOK, FilesTypeOK, RequestsTypeOK, ResolveAlert, Write, Goto,
            tables, files, identity, locals
<1>12. ASSUME NEW r \in Request, FindRootCause(r) PROVE Backed'
    BY <1>12
        DEF IInv, Backed, TypeOK, FilesTypeOK, RequestsTypeOK, FindRootCause, Goto, tables,
            files, identity, locals
<1>13. ASSUME NEW r \in Request, SaveRootCause(r) PROVE Backed'
    BY <1>13, WantsCause
        DEF IInv, Backed, TypeOK, FilesTypeOK, RequestsTypeOK, SaveRootCause, Write, Goto,
            tables, files, identity, locals
<1>14. ASSUME NEW r \in Request, DuplicateRootCause(r) PROVE Backed'
    <2>1. Abort(r) /\ pc[r] # "idle"
        BY <1>14, Aborted
    <2> QED
        BY <2>1
            DEF IInv, Backed, TypeOK, FilesTypeOK, RequestsTypeOK, Abort, Goto, Forget,
                tables, files, identity, locals
<1>15. ASSUME NEW r \in Request, CloseOpenLogs(r) PROVE Backed'
    BY <1>15, WantsLogs
        DEF IInv, Backed, TypeOK, FilesTypeOK, RequestsTypeOK, CloseOpenLogs, Write, Goto,
            tables, files, identity, locals
<1>16. ASSUME NEW r \in Request, ClearLogs(r) PROVE Backed'
    BY <1>16, WantsLogs
        DEF IInv, Backed, TypeOK, FilesTypeOK, RequestsTypeOK, ClearLogs, Write, Goto,
            tables, files, identity, locals
<1>17. ASSUME NEW r \in Request, ListAlerts(r) PROVE Backed'
    BY <1>17
        DEF IInv, Backed, TypeOK, FilesTypeOK, RequestsTypeOK, ListAlerts, Goto, tables,
            files, identity, locals
<1>18. ASSUME NEW r \in Request, ResolveNewest(r) PROVE Backed'
    BY <1>18, WantsNewest
        DEF IInv, Backed, TypeOK, FilesTypeOK, RequestsTypeOK, ResolveNewest, Write, Goto,
            tables, files, identity, locals
<1>19. ASSUME NEW r \in Request, FinishUp(r) PROVE Backed'
    BY <1>19
        DEF IInv, Backed, TypeOK, FilesTypeOK, RequestsTypeOK, FinishUp, Goto, tables,
            files, identity, locals
<1>20. ASSUME NEW r \in Request, ReadSummary(r) PROVE Backed'
    BY <1>20
        DEF IInv, Backed, TypeOK, FilesTypeOK, RequestsTypeOK, ReadSummary, Goto, tables,
            files, identity, locals
<1>21. ASSUME NEW r \in Request, ReadRootCause(r) PROVE Backed'
    BY <1>21
        DEF IInv, Backed, TypeOK, FilesTypeOK, RequestsTypeOK, ReadRootCause, Goto, tables,
            files, identity, locals
<1>22. ASSUME NEW r \in Request, Commit(r) PROVE Backed'
    BY <1>22
        DEF IInv, Backed, TypeOK, FilesTypeOK, RequestsTypeOK, Commit, Goto, Forget, tables,
            files, identity, locals
<1>23. ASSUME NEW r \in Request, DeadlockVictim(r) PROVE Backed'
    <2>1. Abort(r) /\ pc[r] # "idle"
        BY <1>23, Aborted
    <2> QED
        BY <2>1
            DEF IInv, Backed, TypeOK, FilesTypeOK, RequestsTypeOK, Abort, Goto, Forget,
                tables, files, identity, locals
<1>24. ASSUME NEW r \in Request, Fail(r) PROVE Backed'
    <2>1. Abort(r) /\ pc[r] # "idle"
        BY <1>24, Aborted
    <2> QED
        BY <2>1
            DEF IInv, Backed, TypeOK, FilesTypeOK, RequestsTypeOK, Abort, Goto, Forget,
                tables, files, identity, locals
<1>25. ASSUME NEW r \in Request, StoreFails(r) PROVE Backed'
    BY <1>25
        DEF IInv, Backed, TypeOK, FilesTypeOK, RequestsTypeOK, StoreFails, Goto, Fault,
            tables, files, identity, locals
<1>26. ASSUME NEW r \in Request, UpRolledBack(r) PROVE Backed'
    BY <1>26
        DEF IInv, Backed, TypeOK, FilesTypeOK, RequestsTypeOK, UpRolledBack, Goto, Forget,
            Fault, tables, files, identity, locals
<1>27. CASE UNCHANGED vars
    BY <1>27
        DEF IInv, Backed, TypeOK, FilesTypeOK, RequestsTypeOK, vars, tables, files,
            identity, locals
<1> QED
    BY <1>1, <1>2, <1>3, <1>4, <1>5, <1>6, <1>7, <1>8, <1>9, <1>10, <1>11, <1>12, <1>13,
        <1>14, <1>15, <1>16, <1>17, <1>18, <1>19, <1>20, <1>21, <1>22, <1>23, <1>24, <1>25,
        <1>26, <1>27
        DEF Next, Step, Failure

\* Evidence, root causes and recoveries are never lost.
Kept == Evidenced \subseteq Evidenced' /\ Explained \subseteq Explained' /\ Recovered \subseteq Recovered'


\* Every step keeps them.
LEMMA KeptStep == IInv /\ [Next]_vars => Kept
<1> SUFFICES ASSUME IInv, [Next]_vars PROVE Kept
    OBVIOUS
<1>1. CASE RaiseAlert
    BY <1>1
        DEF IInv, Kept, Evidenced, Explained, Recovered, HasEvidence, Attachments, HasCause,
            RaiseAlert, Goto, tables, files, identity, locals
<1>2. ASSUME NEW a \in Alert, OpenLog(a) PROVE Kept
    BY <1>2
        DEF IInv, Kept, Evidenced, Explained, Recovered, HasEvidence, Attachments, HasCause,
            OpenLog, Goto, tables, files, identity, locals
<1>3. ASSUME NEW a \in Alert, MailAttachment(a) PROVE Kept
    BY <1>3
        DEF IInv, Kept, Evidenced, Explained, Recovered, HasEvidence, Attachments, HasCause,
            MailAttachment, Goto, tables, files, identity, locals
<1>4. ASSUME NEW r \in Request, Begin(r) PROVE Kept
    <2>1. Explained' = Explained /\ Recovered' = Recovered
        BY <1>4 DEF Begin, Explained, Recovered, HasCause, tables
    <2>2. \A u \in rows : target'[u] = target[u]
        BY <1>4 DEF IInv, Backed, TypeOK, FilesTypeOK, RequestsTypeOK, Begin
    <2>3. Evidenced \subseteq Evidenced'
        BY <1>4, <2>2 DEF Begin, Evidenced, HasEvidence, Attachments, files
    <2> QED
        BY <2>1, <2>3 DEF Kept
<1>5. ASSUME NEW r \in Request, StoreObject(r) PROVE Kept
    BY <1>5
        DEF IInv, Kept, Evidenced, Explained, Recovered, HasEvidence, Attachments, HasCause,
            StoreObject, Goto, tables, files, identity, locals
<1>6. ASSUME NEW r \in Request, RejectFile(r) PROVE Kept
    BY <1>6
        DEF IInv, Kept, Evidenced, Explained, Recovered, HasEvidence, Attachments, HasCause,
            RejectFile, Goto, tables, files, identity, locals
<1>7. ASSUME NEW r \in Request, SaveMetadata(r) PROVE Kept
    BY <1>7
        DEF IInv, Kept, Evidenced, Explained, Recovered, HasEvidence, Attachments, HasCause,
            SaveMetadata, Goto, tables, files, identity, locals
<1>8. ASSUME NEW r \in Request, ReadAlert(r) PROVE Kept
    BY <1>8
        DEF IInv, Kept, Evidenced, Explained, Recovered, HasEvidence, Attachments, HasCause,
            ReadAlert, Goto, tables, files, identity, locals
<1>9. ASSUME NEW r \in Request, Validate(r) PROVE Kept
    BY <1>9
        DEF IInv, Kept, Evidenced, Explained, Recovered, HasEvidence, Attachments, HasCause,
            Validate, Goto, tables, files, identity, locals
<1>10. ASSUME NEW r \in Request, Reject(r) PROVE Kept
    BY <1>10
        DEF IInv, Kept, Evidenced, Explained, Recovered, HasEvidence, Attachments, HasCause,
            Reject, Goto, tables, files, identity, locals
<1>11. ASSUME NEW r \in Request, ResolveAlert(r) PROVE Kept
    BY <1>11, WantsAlert
        DEF IInv, Kept, Evidenced, Explained, Recovered, HasEvidence, Attachments, HasCause,
            ResolveAlert, Write, Goto, tables, files, identity, locals
<1>12. ASSUME NEW r \in Request, FindRootCause(r) PROVE Kept
    BY <1>12
        DEF IInv, Kept, Evidenced, Explained, Recovered, HasEvidence, Attachments, HasCause,
            FindRootCause, Goto, tables, files, identity, locals
<1>13. ASSUME NEW r \in Request, SaveRootCause(r) PROVE Kept
    BY <1>13, WantsCause
        DEF IInv, Kept, Evidenced, Explained, Recovered, HasEvidence, Attachments, HasCause,
            SaveRootCause, Write, Goto, tables, files, identity, locals
<1>14. ASSUME NEW r \in Request, DuplicateRootCause(r) PROVE Kept
    <2>1. Abort(r) /\ pc[r] # "idle"
        BY <1>14, Aborted
    <2> QED
        BY <2>1
            DEF IInv, Kept, Evidenced, Explained, Recovered, HasEvidence, Attachments,
                HasCause, Abort, Goto, Forget, tables, files, identity, locals
<1>15. ASSUME NEW r \in Request, CloseOpenLogs(r) PROVE Kept
    BY <1>15, WantsLogs
        DEF IInv, Kept, Evidenced, Explained, Recovered, HasEvidence, Attachments, HasCause,
            CloseOpenLogs, Write, Goto, tables, files, identity, locals
<1>16. ASSUME NEW r \in Request, ClearLogs(r) PROVE Kept
    BY <1>16, WantsLogs
        DEF IInv, Kept, Evidenced, Explained, Recovered, HasEvidence, Attachments, HasCause,
            ClearLogs, Write, Goto, tables, files, identity, locals
<1>17. ASSUME NEW r \in Request, ListAlerts(r) PROVE Kept
    BY <1>17
        DEF IInv, Kept, Evidenced, Explained, Recovered, HasEvidence, Attachments, HasCause,
            ListAlerts, Goto, tables, files, identity, locals
<1>18. ASSUME NEW r \in Request, ResolveNewest(r) PROVE Kept
    BY <1>18, WantsNewest
        DEF IInv, Kept, Evidenced, Explained, Recovered, HasEvidence, Attachments, HasCause,
            ResolveNewest, Write, Goto, tables, files, identity, locals
<1>19. ASSUME NEW r \in Request, FinishUp(r) PROVE Kept
    BY <1>19
        DEF IInv, Kept, Evidenced, Explained, Recovered, HasEvidence, Attachments, HasCause,
            FinishUp, Goto, tables, files, identity, locals
<1>20. ASSUME NEW r \in Request, ReadSummary(r) PROVE Kept
    BY <1>20
        DEF IInv, Kept, Evidenced, Explained, Recovered, HasEvidence, Attachments, HasCause,
            ReadSummary, Goto, tables, files, identity, locals
<1>21. ASSUME NEW r \in Request, ReadRootCause(r) PROVE Kept
    BY <1>21
        DEF IInv, Kept, Evidenced, Explained, Recovered, HasEvidence, Attachments, HasCause,
            ReadRootCause, Goto, tables, files, identity, locals
<1>22. ASSUME NEW r \in Request, Commit(r) PROVE Kept
    <2>1. \A a \in Alert : resolved[a] # NoRequest => resolved'[a] # NoRequest
        BY <1>22, NobodyIsNoRequest DEF Commit
    <2>2. \A a \in Alert : cause[a].by # NoRequest => cause'[a].by # NoRequest
        BY <1>22, NobodyIsNoRequest DEF Commit
    <2>3. Evidenced' = Evidenced
        BY <1>22 DEF Commit, Evidenced, HasEvidence, Attachments, files, identity
    <2> QED
        BY <2>1, <2>2, <2>3 DEF Kept, Explained, Recovered, HasCause
<1>23. ASSUME NEW r \in Request, DeadlockVictim(r) PROVE Kept
    <2>1. Abort(r) /\ pc[r] # "idle"
        BY <1>23, Aborted
    <2> QED
        BY <2>1
            DEF IInv, Kept, Evidenced, Explained, Recovered, HasEvidence, Attachments,
                HasCause, Abort, Goto, Forget, tables, files, identity, locals
<1>24. ASSUME NEW r \in Request, Fail(r) PROVE Kept
    <2>1. Abort(r) /\ pc[r] # "idle"
        BY <1>24, Aborted
    <2> QED
        BY <2>1
            DEF IInv, Kept, Evidenced, Explained, Recovered, HasEvidence, Attachments,
                HasCause, Abort, Goto, Forget, tables, files, identity, locals
<1>25. ASSUME NEW r \in Request, StoreFails(r) PROVE Kept
    BY <1>25
        DEF IInv, Kept, Evidenced, Explained, Recovered, HasEvidence, Attachments, HasCause,
            StoreFails, Goto, Fault, tables, files, identity, locals
<1>26. ASSUME NEW r \in Request, UpRolledBack(r) PROVE Kept
    BY <1>26
        DEF IInv, Kept, Evidenced, Explained, Recovered, HasEvidence, Attachments, HasCause,
            UpRolledBack, Goto, Forget, Fault, tables, files, identity, locals
<1>27. CASE UNCHANGED vars
    BY <1>27
        DEF IInv, Kept, Evidenced, Explained, Recovered, HasEvidence, Attachments, HasCause,
            vars, tables, files, identity, locals
<1> QED
    BY <1>1, <1>2, <1>3, <1>4, <1>5, <1>6, <1>7, <1>8, <1>9, <1>10, <1>11, <1>12, <1>13,
        <1>14, <1>15, <1>16, <1>17, <1>18, <1>19, <1>20, <1>21, <1>22, <1>23, <1>24, <1>25,
        <1>26, <1>27
        DEF Next, Step, Failure

\* A closure has evidence and leaves its alert closed.
LEMMA EvidentStep == IInv /\ [Next]_vars => Evident'
<1> SUFFICES ASSUME IInv, [Next]_vars PROVE Evident'
    OBVIOUS
<1>0. Kept
    BY KeptStep
<1>1. CASE RaiseAlert
    BY <1>1, <1>0
        DEF IInv, Evident, Kept, Closure, Ended, TypeOK, RequestsTypeOK, RaiseAlert, Goto,
            tables, files, identity, locals
<1>2. ASSUME NEW a \in Alert, OpenLog(a) PROVE Evident'
    BY <1>2, <1>0
        DEF IInv, Evident, Kept, Closure, Ended, TypeOK, RequestsTypeOK, OpenLog, Goto,
            tables, files, identity, locals
<1>3. ASSUME NEW a \in Alert, MailAttachment(a) PROVE Evident'
    BY <1>3, <1>0
        DEF IInv, Evident, Kept, Closure, Ended, TypeOK, RequestsTypeOK, MailAttachment,
            Goto, tables, files, identity, locals
<1>4. ASSUME NEW r \in Request, Begin(r) PROVE Evident'
    BY <1>4, <1>0
        DEF IInv, Evident, Kept, Closure, Ended, TypeOK, RequestsTypeOK, Begin, Goto,
            Raised, tables, files, identity, locals
<1>5. ASSUME NEW r \in Request, StoreObject(r) PROVE Evident'
    BY <1>5, <1>0
        DEF IInv, Evident, Kept, Closure, Ended, TypeOK, RequestsTypeOK, StoreObject, Goto,
            tables, files, identity, locals
<1>6. ASSUME NEW r \in Request, RejectFile(r) PROVE Evident'
    BY <1>6, <1>0
        DEF IInv, Evident, Kept, Closure, Ended, TypeOK, RequestsTypeOK, RejectFile, Goto,
            tables, files, identity, locals
<1>7. ASSUME NEW r \in Request, SaveMetadata(r) PROVE Evident'
    BY <1>7, <1>0
        DEF IInv, Evident, Kept, Closure, Ended, TypeOK, RequestsTypeOK, SaveMetadata, Goto,
            tables, files, identity, locals
<1>8. ASSUME NEW r \in Request, ReadAlert(r) PROVE Evident'
    BY <1>8, <1>0
        DEF IInv, Evident, Kept, Closure, Ended, TypeOK, RequestsTypeOK, ReadAlert, Goto,
            tables, files, identity, locals
<1>9. ASSUME NEW r \in Request, Validate(r) PROVE Evident'
    <2>1. target[r] \in Evidenced
        BY <1>9 DEF IInv, TypeOK, RequestsTypeOK, Validate, Evidenced
    <2> QED
        BY <1>9, <1>0, <2>1
            DEF IInv, Evident, Kept, TypeOK, RequestsTypeOK, Validate, Goto, identity
<1>10. ASSUME NEW r \in Request, Reject(r) PROVE Evident'
    BY <1>10, <1>0
        DEF IInv, Evident, Kept, Closure, Ended, TypeOK, RequestsTypeOK, Reject, Goto,
            tables, files, identity, locals
<1>11. ASSUME NEW r \in Request, ResolveAlert(r) PROVE Evident'
    BY <1>11, <1>0, WantsAlert
        DEF IInv, Evident, Kept, Closure, Ended, TypeOK, RequestsTypeOK, ResolveAlert,
            Write, Goto, tables, files, identity, locals
<1>12. ASSUME NEW r \in Request, FindRootCause(r) PROVE Evident'
    BY <1>12, <1>0
        DEF IInv, Evident, Kept, Closure, Ended, TypeOK, RequestsTypeOK, FindRootCause,
            Goto, tables, files, identity, locals
<1>13. ASSUME NEW r \in Request, SaveRootCause(r) PROVE Evident'
    BY <1>13, <1>0, WantsCause
        DEF IInv, Evident, Kept, Closure, Ended, TypeOK, RequestsTypeOK, SaveRootCause,
            Write, Goto, tables, files, identity, locals
<1>14. ASSUME NEW r \in Request, DuplicateRootCause(r) PROVE Evident'
    <2>1. Abort(r) /\ pc[r] # "idle"
        BY <1>14, Aborted
    <2> QED
        BY <2>1, <1>0
            DEF IInv, Evident, Kept, Closure, Ended, TypeOK, RequestsTypeOK, Abort, Goto,
                Forget, tables, files, identity, locals
<1>15. ASSUME NEW r \in Request, CloseOpenLogs(r) PROVE Evident'
    BY <1>15, <1>0, WantsLogs
        DEF IInv, Evident, Kept, Closure, Ended, TypeOK, RequestsTypeOK, CloseOpenLogs,
            Write, Goto, tables, files, identity, locals
<1>16. ASSUME NEW r \in Request, ClearLogs(r) PROVE Evident'
    BY <1>16, <1>0, WantsLogs
        DEF IInv, Evident, Kept, Closure, Ended, TypeOK, RequestsTypeOK, ClearLogs, Write,
            Goto, tables, files, identity, locals
<1>17. ASSUME NEW r \in Request, ListAlerts(r) PROVE Evident'
    BY <1>17, <1>0
        DEF IInv, Evident, Kept, Closure, Ended, TypeOK, RequestsTypeOK, ListAlerts, Goto,
            tables, files, identity, locals
<1>18. ASSUME NEW r \in Request, ResolveNewest(r) PROVE Evident'
    BY <1>18, <1>0, WantsNewest
        DEF IInv, Evident, Kept, Closure, Ended, TypeOK, RequestsTypeOK, ResolveNewest,
            Write, Goto, tables, files, identity, locals
<1>19. ASSUME NEW r \in Request, FinishUp(r) PROVE Evident'
    BY <1>19, <1>0
        DEF IInv, Evident, Kept, Closure, Ended, TypeOK, RequestsTypeOK, FinishUp, Goto,
            tables, files, identity, locals
<1>20. ASSUME NEW r \in Request, ReadSummary(r) PROVE Evident'
    BY <1>20, <1>0
        DEF IInv, Evident, Kept, Closure, Ended, TypeOK, RequestsTypeOK, ReadSummary, Goto,
            tables, files, identity, locals
<1>21. ASSUME NEW r \in Request, ReadRootCause(r) PROVE Evident'
    BY <1>21, <1>0
        DEF IInv, Evident, Kept, Closure, Ended, TypeOK, RequestsTypeOK, ReadRootCause,
            Goto, tables, files, identity, locals
<1>22. ASSUME NEW r \in Request, Commit(r) PROVE Evident'
    <2>1. pc[r] = "ready" /\ op'[r] = op[r] /\ target'[r] = target[r] /\ target[r] \in Alert
        BY <1>22 DEF IInv, TypeOK, RequestsTypeOK, Commit, identity
    <2>2. ASSUME op[r] \in Closure PROVE target[r] \in Explained' \cap Recovered'
        <3>1. <<"cause", target[r]>> \in held[r]
            BY <2>1, <2>2 DEF IInv, Stages
        <3>2. target[r] \in Explained'
            BY <1>22, <2>1, <3>1, NobodyIsNoRequest DEF Commit, Explained, HasCause
        <3>3. CASE Resolves(r)
            <4>1. <<"alert", target[r]>> \in held[r]
                BY <2>1, <2>2, <3>3 DEF IInv, Stages
            <4> QED
                BY <1>22, <2>1, <3>2, <4>1, NobodyIsNoRequest DEF Commit, Recovered
        <3>4. CASE ~Resolves(r)
            <4>1. target[r] \in Recovered
                BY <2>1, <2>2, <3>4 DEF IInv, Stages, Resolves, Reading, Recovered
            <4> QED
                BY <1>0, <3>2, <4>1 DEF Kept
        <3> QED
            BY <3>3, <3>4
    <2>3. \A q \in Request \ {r} : pc'[q] = pc[q] /\ op'[q] = op[q] /\ target'[q] = target[q]
        BY <1>22 DEF IInv, TypeOK, RequestsTypeOK, Commit, Goto, identity
    <2>4. \A q \in Request : op[q] \in Closure /\ pc'[q] \in {"valid", "located", "found", "saved", "ready", "done"}
              => target[q] \in Evidenced'
        BY <1>0, <2>1, <2>3 DEF IInv, Evident, Kept
    <2>5. \A q \in Request \ {r} : op[q] \in Closure /\ pc'[q] = "done"
              => target[q] \in Explained' \cap Recovered'
        BY <1>0, <2>3 DEF IInv, Evident, Kept
    <2> QED
        BY <2>1, <2>2, <2>3, <2>4, <2>5 DEF Evident
<1>23. ASSUME NEW r \in Request, DeadlockVictim(r) PROVE Evident'
    <2>1. Abort(r) /\ pc[r] # "idle"
        BY <1>23, Aborted
    <2> QED
        BY <2>1, <1>0
            DEF IInv, Evident, Kept, Closure, Ended, TypeOK, RequestsTypeOK, Abort, Goto,
                Forget, tables, files, identity, locals
<1>24. ASSUME NEW r \in Request, Fail(r) PROVE Evident'
    <2>1. Abort(r) /\ pc[r] # "idle"
        BY <1>24, Aborted
    <2> QED
        BY <2>1, <1>0
            DEF IInv, Evident, Kept, Closure, Ended, TypeOK, RequestsTypeOK, Abort, Goto,
                Forget, tables, files, identity, locals
<1>25. ASSUME NEW r \in Request, StoreFails(r) PROVE Evident'
    BY <1>25, <1>0
        DEF IInv, Evident, Kept, Closure, Ended, TypeOK, RequestsTypeOK, StoreFails, Goto,
            Fault, tables, files, identity, locals
<1>26. ASSUME NEW r \in Request, UpRolledBack(r) PROVE Evident'
    BY <1>26, <1>0
        DEF IInv, Evident, Kept, Closure, Ended, TypeOK, RequestsTypeOK, UpRolledBack, Goto,
            Forget, Fault, tables, files, identity, locals
<1>27. CASE UNCHANGED vars
    BY <1>27, <1>0
        DEF IInv, Evident, Kept, Closure, Ended, TypeOK, RequestsTypeOK, vars, tables,
            files, identity, locals
<1> QED
    BY <1>1, <1>2, <1>3, <1>4, <1>5, <1>6, <1>7, <1>8, <1>9, <1>10, <1>11, <1>12, <1>13,
        <1>14, <1>15, <1>16, <1>17, <1>18, <1>19, <1>20, <1>21, <1>22, <1>23, <1>24, <1>25,
        <1>26, <1>27
        DEF Next, Step, Failure

\* A closed incident has its root cause to show.
LEMMA ToldStep == IInv /\ [Next]_vars => Told'
<1> SUFFICES ASSUME IInv, [Next]_vars PROVE Told'
    OBVIOUS
<1>0. Kept
    BY KeptStep
<1>1. CASE RaiseAlert
    BY <1>1, <1>0
        DEF IInv, Told, Kept, Closure, Stages, Ended, TypeOK, RequestsTypeOK, RaiseAlert,
            Goto, tables, files, identity, locals
<1>2. ASSUME NEW a \in Alert, OpenLog(a) PROVE Told'
    BY <1>2, <1>0
        DEF IInv, Told, Kept, Closure, Stages, Ended, TypeOK, RequestsTypeOK, OpenLog, Goto,
            tables, files, identity, locals
<1>3. ASSUME NEW a \in Alert, MailAttachment(a) PROVE Told'
    BY <1>3, <1>0
        DEF IInv, Told, Kept, Closure, Stages, Ended, TypeOK, RequestsTypeOK,
            MailAttachment, Goto, tables, files, identity, locals
<1>4. ASSUME NEW r \in Request, Begin(r) PROVE Told'
    BY <1>4, <1>0
        DEF IInv, Told, Kept, Closure, Stages, Ended, TypeOK, RequestsTypeOK, Begin, Goto,
            Raised, tables, files, identity, locals
<1>5. ASSUME NEW r \in Request, StoreObject(r) PROVE Told'
    BY <1>5, <1>0
        DEF IInv, Told, Kept, Closure, Stages, Ended, TypeOK, RequestsTypeOK, StoreObject,
            Goto, tables, files, identity, locals
<1>6. ASSUME NEW r \in Request, RejectFile(r) PROVE Told'
    BY <1>6, <1>0
        DEF IInv, Told, Kept, Closure, Stages, Ended, TypeOK, RequestsTypeOK, RejectFile,
            Goto, tables, files, identity, locals
<1>7. ASSUME NEW r \in Request, SaveMetadata(r) PROVE Told'
    BY <1>7, <1>0
        DEF IInv, Told, Kept, Closure, Stages, Ended, TypeOK, RequestsTypeOK, SaveMetadata,
            Goto, tables, files, identity, locals
<1>8. ASSUME NEW r \in Request, ReadAlert(r) PROVE Told'
    BY <1>8, <1>0
        DEF IInv, Told, Kept, Closure, Stages, Ended, TypeOK, RequestsTypeOK, ReadAlert,
            Goto, tables, files, identity, locals
<1>9. ASSUME NEW r \in Request, Validate(r) PROVE Told'
    BY <1>9, <1>0
        DEF IInv, Told, Kept, Closure, Stages, Ended, TypeOK, RequestsTypeOK, Validate,
            Goto, tables, files, identity, locals
<1>10. ASSUME NEW r \in Request, Reject(r) PROVE Told'
    BY <1>10, <1>0
        DEF IInv, Told, Kept, Closure, Stages, Ended, TypeOK, RequestsTypeOK, Reject, Goto,
            tables, files, identity, locals
<1>11. ASSUME NEW r \in Request, ResolveAlert(r) PROVE Told'
    BY <1>11, <1>0, WantsAlert
        DEF IInv, Told, Kept, Closure, Stages, Ended, TypeOK, RequestsTypeOK, ResolveAlert,
            Write, Goto, tables, files, identity, locals
<1>12. ASSUME NEW r \in Request, FindRootCause(r) PROVE Told'
    BY <1>12, <1>0
        DEF IInv, Told, Kept, Closure, Stages, Ended, TypeOK, RequestsTypeOK, FindRootCause,
            Goto, tables, files, identity, locals
<1>13. ASSUME NEW r \in Request, SaveRootCause(r) PROVE Told'
    BY <1>13, <1>0, WantsCause
        DEF IInv, Told, Kept, Closure, Stages, Ended, TypeOK, RequestsTypeOK, SaveRootCause,
            Write, Goto, tables, files, identity, locals
<1>14. ASSUME NEW r \in Request, DuplicateRootCause(r) PROVE Told'
    <2>1. Abort(r) /\ pc[r] # "idle"
        BY <1>14, Aborted
    <2> QED
        BY <2>1, <1>0
            DEF IInv, Told, Kept, Closure, Stages, Ended, TypeOK, RequestsTypeOK, Abort,
                Goto, Forget, tables, files, identity, locals
<1>15. ASSUME NEW r \in Request, CloseOpenLogs(r) PROVE Told'
    BY <1>15, <1>0, WantsLogs
        DEF IInv, Told, Kept, Closure, Stages, Ended, TypeOK, RequestsTypeOK, CloseOpenLogs,
            Write, Goto, tables, files, identity, locals
<1>16. ASSUME NEW r \in Request, ClearLogs(r) PROVE Told'
    BY <1>16, <1>0, WantsLogs
        DEF IInv, Told, Kept, Closure, Stages, Ended, TypeOK, RequestsTypeOK, ClearLogs,
            Write, Goto, tables, files, identity, locals
<1>17. ASSUME NEW r \in Request, ListAlerts(r) PROVE Told'
    BY <1>17, <1>0
        DEF IInv, Told, Kept, Closure, Stages, Ended, TypeOK, RequestsTypeOK, ListAlerts,
            Goto, tables, files, identity, locals
<1>18. ASSUME NEW r \in Request, ResolveNewest(r) PROVE Told'
    BY <1>18, <1>0, WantsNewest
        DEF IInv, Told, Kept, Closure, Stages, Ended, TypeOK, RequestsTypeOK, ResolveNewest,
            Write, Goto, tables, files, identity, locals
<1>19. ASSUME NEW r \in Request, FinishUp(r) PROVE Told'
    BY <1>19, <1>0
        DEF IInv, Told, Kept, Closure, Stages, Ended, TypeOK, RequestsTypeOK, FinishUp,
            Goto, tables, files, identity, locals
<1>20. ASSUME NEW r \in Request, ReadSummary(r) PROVE Told'
    <2>1. label'[r] = "CLOSED" => target[r] \in Explained
        BY <1>20 DEF IInv, TypeOK, RequestsTypeOK, ReadSummary, StatusLabel, Explained
    <2> QED
        BY <1>20, <1>0, <2>1
            DEF IInv, Told, Kept, TypeOK, RequestsTypeOK, ReadSummary, Goto, identity
<1>21. ASSUME NEW r \in Request, ReadRootCause(r) PROVE Told'
    <2>1. found'[r] <=> target[r] \in Explained
        BY <1>21 DEF IInv, TypeOK, RequestsTypeOK, ReadRootCause, Explained, HasCause
    <2> QED
        BY <1>21, <1>0, <2>1
            DEF IInv, Told, Kept, TypeOK, RequestsTypeOK, ReadRootCause, Goto, identity
<1>22. ASSUME NEW r \in Request, Commit(r) PROVE Told'
    BY <1>22, <1>0
        DEF IInv, Told, Kept, Closure, Stages, Ended, TypeOK, RequestsTypeOK, Commit, Goto,
            Forget, tables, files, identity, locals
<1>23. ASSUME NEW r \in Request, DeadlockVictim(r) PROVE Told'
    <2>1. Abort(r) /\ pc[r] # "idle"
        BY <1>23, Aborted
    <2> QED
        BY <2>1, <1>0
            DEF IInv, Told, Kept, Closure, Stages, Ended, TypeOK, RequestsTypeOK, Abort,
                Goto, Forget, tables, files, identity, locals
<1>24. ASSUME NEW r \in Request, Fail(r) PROVE Told'
    <2>1. Abort(r) /\ pc[r] # "idle"
        BY <1>24, Aborted
    <2> QED
        BY <2>1, <1>0
            DEF IInv, Told, Kept, Closure, Stages, Ended, TypeOK, RequestsTypeOK, Abort,
                Goto, Forget, tables, files, identity, locals
<1>25. ASSUME NEW r \in Request, StoreFails(r) PROVE Told'
    BY <1>25, <1>0
        DEF IInv, Told, Kept, Closure, Stages, Ended, TypeOK, RequestsTypeOK, StoreFails,
            Goto, Fault, tables, files, identity, locals
<1>26. ASSUME NEW r \in Request, UpRolledBack(r) PROVE Told'
    BY <1>26, <1>0
        DEF IInv, Told, Kept, Closure, Stages, Ended, TypeOK, RequestsTypeOK, UpRolledBack,
            Goto, Forget, Fault, tables, files, identity, locals
<1>27. CASE UNCHANGED vars
    BY <1>27, <1>0
        DEF IInv, Told, Kept, Closure, Stages, Ended, TypeOK, RequestsTypeOK, vars, tables,
            files, identity, locals
<1> QED
    BY <1>1, <1>2, <1>3, <1>4, <1>5, <1>6, <1>7, <1>8, <1>9, <1>10, <1>11, <1>12, <1>13,
        <1>14, <1>15, <1>16, <1>17, <1>18, <1>19, <1>20, <1>21, <1>22, <1>23, <1>24, <1>25,
        <1>26, <1>27
        DEF Next, Step, Failure

LEMMA NextInvariant == IInv /\ [Next]_vars => IInv'
BY RequestsTypeStep, TablesTypeStep, ReferringStep, HoldingStep, StagesStep, FreshStep,
   BackedStep, EvidentStep, ToldStep
   DEF IInv, TypeOK

(***************************************************************************)
(* The theorems                                                            *)
(***************************************************************************)

\* The inductive invariant holds in every reachable state.
THEOREM Invariance == Spec => []IInv
<1>1. Init => IInv
    BY InitInvariant
<1>2. IInv /\ [Next]_vars => IInv'
    BY NextInvariant
<1> QED
    BY <1>1, <1>2, PTL DEF Spec

\* Every variable keeps its type and no Up task is retried beyond max_retries.
THEOREM TypeCorrect == Spec => []TypeOK
<1>1. IInv => TypeOK
    BY DEF IInv
<1> QED
    BY <1>1, Invariance, PTL

\* A closure that has succeeded has evidence to download, and its alert stays
\* resolved and explained whatever is committed later (rules 1 to 7).
THEOREM ClosuresAreFounded == Spec => []ClosedWithEvidence
<1>1. IInv => ClosedWithEvidence
    <2> SUFFICES ASSUME IInv, NEW r \in Request, op[r] \in Closure, pc[r] = "done"
                 PROVE  /\ StatusLabel(target[r]) = "CLOSED" /\ resolved[target[r]] # NoRequest
                        /\ \/ target[r] \in mailed
                           \/ \E u \in Attachments(target[r]) : Download(u) = "200"
        BY DEF ClosedWithEvidence
    <2>1. target[r] \in Evidenced /\ target[r] \in Explained \cap Recovered
        BY DEF IInv, Evident
    <2>2. \A u \in rows : u \in objects
        BY DEF IInv, Backed
    <2>3. StatusLabel(target[r]) = "CLOSED" /\ resolved[target[r]] # NoRequest
        BY <2>1 DEF Explained, Recovered, StatusLabel
    <2>4. target[r] \in mailed \/ \E u \in Attachments(target[r]) : Download(u) = "200"
        BY <2>1, <2>2 DEF Evidenced, HasEvidence, Attachments, Download
    <2> QED
        BY <2>3, <2>4
<1> QED
    BY <1>1, Invariance, PTL

\* A history that calls an incident closed shows its root cause.
THEOREM HistoriesAreConsistent == Spec => []HistoryConsistent
<1>1. IInv => HistoryConsistent
    BY DEF IInv, Told, HistoryConsistent
<1> QED
    BY <1>1, Invariance, PTL

\* Only Commit takes a request from "ready" to "done".
LEMMA OnlyCommit ==
    ASSUME IInv, Next, NEW r \in Request, Commits(r)
    PROVE  Commit(r)
<1>0. pc \in [Request -> PC] /\ pc[r] = "ready" /\ pc'[r] = "done"
    BY DEF IInv, TypeOK, RequestsTypeOK, Commits
<1>1. ~RaiseAlert /\ \A a \in Alert : ~OpenLog(a) /\ ~MailAttachment(a)
    BY <1>0 DEF RaiseAlert, OpenLog, MailAttachment
<1>2. ASSUME NEW q \in Request, Begin(q) \/ Step(q) \/ Failure(q), ~Commit(q) PROVE FALSE
    <2>1. ~(DuplicateRootCause(q) \/ DeadlockVictim(q) \/ Fail(q))
        <3>1. ASSUME Abort(q) PROVE FALSE
            BY <1>0, <3>1 DEF Abort, Goto
        <3> QED
            BY <3>1, Aborted
    <2>2. CASE Begin(q)
        BY <1>0, <2>2 DEF Begin, Goto
    <2>3. CASE StoreObject(q) \/ RejectFile(q) \/ SaveMetadata(q) \/ StoreFails(q)
        BY <1>0, <2>3 DEF StoreObject, RejectFile, SaveMetadata, StoreFails, Goto
    <2>4. CASE ReadAlert(q) \/ Validate(q) \/ Reject(q) \/ ResolveAlert(q) \/ FindRootCause(q)
        BY <1>0, <2>4 DEF ReadAlert, Validate, Reject, ResolveAlert, FindRootCause, Goto
    <2>5. CASE SaveRootCause(q) \/ CloseOpenLogs(q) \/ ClearLogs(q)
        BY <1>0, <2>5 DEF SaveRootCause, CloseOpenLogs, ClearLogs, Goto
    <2>6. CASE ListAlerts(q) \/ ResolveNewest(q) \/ FinishUp(q) \/ UpRolledBack(q)
        BY <1>0, <2>6 DEF ListAlerts, ResolveNewest, FinishUp, UpRolledBack, Goto
    <2>7. CASE ReadSummary(q) \/ ReadRootCause(q)
        BY <1>0, <2>7 DEF ReadSummary, ReadRootCause, Goto
    <2> QED
        BY <1>2, <2>1, <2>2, <2>3, <2>4, <2>5, <2>6, <2>7 DEF Step, Failure
<1>3. PICK q \in Request : Commit(q)
    BY <1>1, <1>2 DEF Next
<1>4. q = r
    BY <1>0, <1>3 DEF Commit, Goto
<1> QED
    BY <1>3, <1>4

\* Only a manual closure, or a request that a commit has overtaken, moves the
\* time of a recovery (execute_closure_transaction).
THEOREM RecoveriesKeepTheirTime == Spec => RecoveryTimeKept
<1> DEFINE Keeps == \A r \in Request : (Commits(r) /\ op[r] # "manual" /\ ~stale[r]) =>
                        \A a \in Alert : resolved[a] # NoRequest => resolved'[a] = resolved[a]
<1>1. IInv /\ [Next]_vars => [Keeps]_vars
    <2> SUFFICES ASSUME IInv, Next, NEW r \in Request, Commits(r), op[r] # "manual", ~stale[r],
                        NEW a \in Alert, resolved[a] # NoRequest
                 PROVE  resolved'[a] = resolved[a]
        OBVIOUS
    <2>1. Commit(r)
        BY OnlyCommit
    <2>2. pc[r] = "ready"
        BY <2>1 DEF Commit
    <2>3. <<"alert", a>> \notin held[r]
        <3>1. CASE op[r] = "up"
            BY <2>2, <3>1 DEF IInv, Fresh
        <3>2. CASE op[r] \in Closure
            <4>1. read[r] = resolved[target[r]]
                BY <2>2, <3>2 DEF IInv, Fresh, Reading
            <4>2. <<"alert", target[r]>> \in held[r] <=> read[r] = NoRequest
                BY <2>2, <3>2 DEF IInv, Stages, Resolves
            <4>3. <<"alert", a>> \in held[r] => a = target[r]
                BY <3>2 DEF IInv, Holding, Closure
            <4> QED
                BY <4>1, <4>2, <4>3
        <3>3. CASE op[r] \notin Closure \cup {"up"}
            BY <3>3 DEF IInv, Holding
        <3> QED
            BY <3>1, <3>2, <3>3
    <2> QED
        BY <2>1, <2>3 DEF Commit
<1> QED
    BY <1>1, Invariance, PTL DEF Spec, RecoveryTimeKept

\* A closure no commit has overtaken stores the downtime of the resolved_at it
\* leaves behind, unless an engineer gave one.
THEOREM DowntimesAgree == Spec => DowntimeAgrees
<1> DEFINE Agrees == \A r \in Request : (Commits(r) /\ op[r] \in Closure /\ ~stale[r]) =>
                         cause'[target[r]].downtime \in {resolved'[target[r]], Given}
<1>1. IInv /\ [Next]_vars => [Agrees]_vars
    <2> SUFFICES ASSUME IInv, Next, NEW r \in Request, Commits(r), op[r] \in Closure, ~stale[r]
                 PROVE  cause'[target[r]].downtime \in {resolved'[target[r]], Given}
        OBVIOUS
    <2>1. Commit(r)
        BY OnlyCommit
    <2>2. pc[r] = "ready" /\ target[r] \in Alert
        BY <2>1 DEF Commit, IInv, TypeOK, RequestsTypeOK
    <2>3. read[r] = resolved[target[r]]
        BY <2>2 DEF IInv, Fresh, Reading
    <2>4. /\ <<"alert", target[r]>> \in held[r] <=> Resolves(r)
          /\ <<"cause", target[r]>> \in held[r]
        BY <2>2 DEF IInv, Stages
    <2>5. cause'[target[r]].downtime \in {Basis(r), Given}
        BY <2>1, <2>2, <2>4 DEF Commit
    <2>6. Basis(r) = resolved'[target[r]]
        BY <2>1, <2>2, <2>3, <2>4 DEF Commit, Basis
    <2> QED
        BY <2>5, <2>6
<1> QED
    BY <1>1, Invariance, PTL DEF Spec, DowntimeAgrees


(***************************************************************************)
(* The lifecycle of an incident                                            *)
(***************************************************************************)

Status == [a \in Alert |-> IF a \in Raised THEN StatusLabel(a) ELSE "none"]

\* What the views read is written by RaiseAlert and Commit only.
LEMMA OtherSteps ==
    ASSUME [Next]_vars
    PROVE  \/ RaiseAlert
           \/ \E r \in Request : Commit(r)
           \/ UNCHANGED <<raised, resolved, cause>>
<1>1. ASSUME NEW a \in Alert, OpenLog(a) \/ MailAttachment(a)
      PROVE  UNCHANGED <<raised, resolved, cause>>
    BY <1>1 DEF OpenLog, MailAttachment, tables
<1>2. ASSUME NEW r \in Request, Begin(r) \/ Step(r) \/ Failure(r)
      PROVE  Commit(r) \/ UNCHANGED <<raised, resolved, cause>>
    BY <1>2 DEF Begin, Step, StoreObject, RejectFile, SaveMetadata, ReadAlert, Validate,
        Reject, ResolveAlert, FindRootCause, SaveRootCause, DuplicateRootCause,
        CloseOpenLogs, ClearLogs, ListAlerts, ResolveNewest, FinishUp, ReadSummary,
        ReadRootCause, DeadlockVictim, Abort, Failure, Fail, StoreFails, UpRolledBack, tables
<1> QED
    BY <1>1, <1>2 DEF Next, vars, tables

\* A new alert has neither a recovery nor a root cause yet.
LEMMA RaiseRefines ==
    ASSUME IInv, RaiseAlert
    PROVE  \E a \in Alert : Status[a] = "none" /\ Status' = [Status EXCEPT ![a] = "OPEN"]
<1>0. raised \in Nat /\ MaxAlerts \in Nat /\ Raised \subseteq Alert
    BY RaisedAreAlerts, ConstantsAssumption DEF IInv
<1>1. raised + 1 \in Alert /\ raised + 1 \notin Raised /\ raised + 1 > raised
    BY <1>0 DEF RaiseAlert, Alert, Raised
<1>2. Raised' = Raised \cup {raised + 1}
    BY <1>0 DEF RaiseAlert, Raised
<1>3. resolved[raised + 1] = NoRequest /\ cause[raised + 1].by = NoRequest
    BY <1>1 DEF IInv, Referring, HasCause
<1>4. resolved' = resolved /\ cause' = cause
    BY DEF RaiseAlert
<1>5. Status[raised + 1] = "none"
    BY <1>1 DEF Status
<1>6. \A a \in Alert : Status'[a] = IF a = raised + 1 THEN "OPEN" ELSE Status[a]
    BY <1>1, <1>2, <1>3, <1>4 DEF Status, StatusLabel, HasCause
<1>7. Status' = [Status EXCEPT ![raised + 1] = "OPEN"]
    BY <1>1, <1>6 DEF Status
<1> QED
    BY <1>1, <1>5, <1>7

\* A root cause, saved alone or by a closure, closes its alert.
LEMMA CloseRefines ==
    ASSUME IInv, NEW r \in Request, Commit(r), op[r] # "up"
    PROVE  \/ \E a \in Alert : /\ Status[a] \in {"OPEN", "RECOVERED_PENDING_CLOSURE"}
                               /\ Status' = [Status EXCEPT ![a] = "CLOSED"]
           \/ Status' = Status
<1> DEFINE t == target[r]
<1>0. t \in Alert /\ t <= raised /\ raised \in Nat /\ t \in Raised
    <2>1. t \in Alert /\ t <= raised /\ raised \in Nat
        BY RaisedAreAlerts DEF IInv, Referring, TypeOK, RequestsTypeOK, Commit
    <2> QED
        BY <2>1 DEF Alert, Raised
<1>1. op[r] \in Closure \cup {"rootcause"}
    BY DEF IInv, Stages, Commit
<1>2. \A a \in Alert \ {t} : <<"alert", a>> \notin held[r] /\ <<"cause", a>> \notin held[r]
    BY <1>1 DEF IInv, Holding
<1>3. Raised' = Raised
    BY DEF Commit, Raised
<1>4. \A a \in Alert \ {t} : Status'[a] = Status[a]
    BY <1>2, <1>3 DEF Commit, Status, StatusLabel, HasCause
<1>6. CASE <<"cause", t>> \in held[r]
    <2>1. Status'[t] = "CLOSED"
        BY <1>0, <1>3, <1>6, NobodyIsNoRequest DEF Commit, Status, StatusLabel, HasCause
    <2>2. Status' = [Status EXCEPT ![t] = "CLOSED"]
        BY <1>0, <1>4, <2>1 DEF Status
    <2>3. Status[t] \in {"OPEN", "RECOVERED_PENDING_CLOSURE", "CLOSED"}
        BY <1>0 DEF Status, StatusLabel
    <2>4. Status[t] = "CLOSED" => Status' = Status
        BY <2>2 DEF Status
    <2> QED
        BY <1>0, <2>2, <2>3, <2>4
<1>7. CASE <<"cause", t>> \notin held[r]
    <2>1. op[r] = "rootcause"
        BY <1>1, <1>7 DEF IInv, Stages, Commit
    <2>2. <<"alert", t>> \notin held[r]
        BY <1>0, <2>1 DEF IInv, Holding, Closure
    <2>3. Status'[t] = Status[t]
        BY <1>0, <1>3, <1>7, <2>2 DEF Commit, Status, StatusLabel, HasCause
    <2>4. Status' = Status
        BY <1>4, <2>3 DEF Status
    <2> QED
        BY <2>4
<1> QED
    BY <1>6, <1>7

\* A recovery reaches the open alerts among those the Up task has updated.
LEMMA RecoverRefines ==
    ASSUME IInv, NEW r \in Request, Commit(r), op[r] = "up"
    PROVE  \E recovered \in SUBSET Alert :
              /\ \A a \in recovered : Status[a] = "OPEN"
              /\ Status' = [a \in Alert |-> IF a \in recovered THEN "RECOVERED_PENDING_CLOSURE"
                                            ELSE Status[a]]
<1> DEFINE recovered == {a \in Alert : <<"alert", a>> \in held[r] /\ Status[a] = "OPEN"}
<1>1. \A a \in Alert : <<"cause", a>> \notin held[r]
    BY DEF IInv, Holding, Closure
<1>2. \A a \in Alert : <<"alert", a>> \in held[r] => a \in Raised
    <2>1. raised \in Nat
        BY RaisedAreAlerts DEF IInv
    <2>2. \A a \in Alert : <<"alert", a>> \in held[r] => a <= raised
        BY DEF IInv, Holding
    <2> QED
        BY <2>1, <2>2 DEF Alert, Raised
<1>3. Raised' = Raised
    BY DEF Commit, Raised
<1>5. ASSUME NEW a \in Alert
      PROVE  Status'[a] = IF a \in recovered THEN "RECOVERED_PENDING_CLOSURE" ELSE Status[a]
    <2>1. CASE <<"alert", a>> \in held[r]
        BY <1>1, <1>2, <1>3, <2>1, NobodyIsNoRequest DEF Commit, Status, StatusLabel, HasCause
    <2>2. CASE <<"alert", a>> \notin held[r]
        BY <1>1, <1>3, <2>2 DEF Commit, Status, StatusLabel, HasCause
    <2> QED
        BY <2>1, <2>2
<1>6. Status' = [a \in Alert |-> IF a \in recovered THEN "RECOVERED_PENDING_CLOSURE" ELSE Status[a]]
    BY <1>5 DEF Status
<1>7. recovered \in SUBSET Alert /\ \A a \in recovered : Status[a] = "OPEN"
    OBVIOUS
<1> QED
    BY <1>6, <1>7

\* The status the views report only moves forward, along IncidentLifecycle.
THEOREM ViewsFollowLifecycle == Spec => ImplementsLifecycle
<1>1. Init => Lifecycle!Init
    BY DEF Init, Lifecycle!Init, Raised, Alert
<1>2. IInv /\ [Next]_vars => [Lifecycle!Next]_Status
    <2> SUFFICES ASSUME IInv, [Next]_vars PROVE Lifecycle!Next \/ Status' = Status
        OBVIOUS
    <2>1. CASE RaiseAlert
        <3>1. \E a \in Alert : Lifecycle!Raise(a)
            BY <2>1, RaiseRefines DEF Lifecycle!Raise, Status
        <3> QED
            BY <3>1 DEF Lifecycle!Next
    <2>2. ASSUME NEW r \in Request, Commit(r) PROVE Lifecycle!Next \/ Status' = Status
        <3>1. CASE op[r] = "up"
            <4>1. \E recovered \in SUBSET Alert : Lifecycle!Recover(recovered)
                BY <2>2, <3>1, RecoverRefines DEF Lifecycle!Recover, Status
            <4> QED
                BY <4>1 DEF Lifecycle!Next
        <3>2. CASE op[r] # "up"
            <4>1. (\E a \in Alert : Lifecycle!Close(a)) \/ Status' = Status
                BY <2>2, <3>2, CloseRefines DEF Lifecycle!Close, Status
            <4> QED
                BY <4>1 DEF Lifecycle!Next
        <3> QED
            BY <3>1, <3>2
    <2>3. CASE UNCHANGED <<raised, resolved, cause>>
        BY <2>3 DEF Status, Raised, StatusLabel, HasCause
    <2> QED
        BY <2>1, <2>2, <2>3, OtherSteps
<1> QED
    BY <1>1, <1>2, Invariance, PTL DEF Spec, ImplementsLifecycle, Lifecycle!Spec, Status


===============================================================================
