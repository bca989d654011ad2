-------------------------- MODULE PingDiagnosticProofs --------------------------
(***************************************************************************)
(* Theorems about PingDiagnostic, for every number of batches, of pings,   *)
(* of slots and of errors.                                                 *)
(***************************************************************************)
EXTENDS PingDiagnostic, FiniteSetTheorems, TLAPS

(***************************************************************************)
(* The inductive invariant                                                 *)
(***************************************************************************)

\* Ping processes run during a batch only.
Quiet == job # "pinging" => \A p \in Ping : ping[p] \notin {"running", "killed"}

\* The thread is started when the workflow waits for it, and ends before it does.
ThreadStage ==
    /\ job \in {"new", "triggered", "pinging", "pausing", "recovered", "unreachable", "persisted"}
          => thread = "none"
    /\ job = "waiting" => thread # "none"
    /\ job \in Ended => thread \in {"none", "ended"}

AllLost == batch > 0 => /\ batch = BatchCount
                        /\ \A p \in Ping : ping[p] \in Verdict
                        /\ LossReadsTotal

\* On the way to an escalation every batch has read as lost, if there was any.
Unanswered ==
    /\ job \in {"new", "triggered"} => batch = 0
    /\ job \in {"unreachable", "persisted", "waiting"} => AllLost
    /\ thread # "none" => AllLost

\* What the thread knows and has recorded at each of its stages.
Recorded ==
    /\ thread \in {"none", "started", "addressed"} => mailed = {}
    /\ thread # "ended" => escalated = "none"
    /\ thread \in {"addressed", "sent", "unsent"} => alert
    /\ thread = "sent" => mailed # {}
    /\ thread = "unsent" /\ mailed # {} => faults > 0
    /\ mailed # {} => alert
    /\ RecordTruthful

\* What the workflow has failed to write where it has passed by.
LogOwed == job \in {"closing", "done"} /\ ~opened
DiagnosisOwed == (job = "persisted" \/ thread # "none") /\ alert /\ ~diagnosed
RecordOwed == thread = "ended" /\ mailed # {} /\ escalated = "none"

\* Each of it has cost an error.
Owed ==
    /\ Count(LogOwed) + Count(DiagnosisOwed) + Count(RecordOwed) <= faults
    /\ job \in {"raising", "failed"} => faults > 0

IInv == TypeOK /\ stuck <= faults /\ Quiet /\ ThreadStage /\ Unanswered /\ Recorded /\ Owed

LEMMA InitInvariant == Init => IInv
<1> SUFFICES ASSUME Init PROVE IInv
    OBVIOUS
<1>0. BatchCount \in Nat /\ MaxFaults \in Nat
    BY ConstantsAssumption
<1>1. TypeOK
    <2>1. ping \in [Ping -> {"waiting", "running", "killed", "lost", "answered"}]
        BY DEF Init
    <2>2. batch \in 0 .. BatchCount /\ stuck \in 0 .. MaxFaults /\ faults \in 0 .. MaxFaults
        BY <1>0 DEF Init
    <2> QED
        BY <2>1, <2>2 DEF Init, TypeOK, Job, Recipient
<1>2. Quiet /\ ThreadStage
    BY DEF Init, Quiet, ThreadStage, Ended
<1>3. Unanswered
    BY DEF Init, Unanswered, AllLost
<1>4. Recorded
    BY DEF Init, Recorded, RecordTruthful
<1>5. Owed
    BY DEF Init, Owed, Count, LogOwed, DiagnosisOwed, RecordOwed
<1> QED
    BY <1>1, <1>2, <1>3, <1>4, <1>5 DEF Init, IInv

\* Errors are counted within their bound.
LEMMA FaultsGrow ==
    ASSUME faults \in 0 .. MaxFaults, stuck \in 0 .. MaxFaults, stuck <= faults,
           Fault \/ UNCHANGED faults
    PROVE  /\ faults' \in 0 .. MaxFaults /\ faults' \in Nat /\ faults \in Nat
           /\ faults <= faults' /\ stuck <= faults'
           /\ Fault => faults' = faults + 1 /\ faults' > 0 /\ stuck + 1 <= faults'
           /\ Fault => stuck + 1 \in 0 .. MaxFaults
<1>1. MaxFaults \in Nat
    BY ConstantsAssumption
<1> QED
    BY <1>1 DEF Fault

\* A step after which nothing more is owed.
LEMMA NothingOwed ==
    ASSUME faults \in Nat, faults' \in Nat, faults <= faults', Owed,
           LogOwed' => LogOwed, DiagnosisOwed' => DiagnosisOwed, RecordOwed' => RecordOwed
    PROVE  (Count(LogOwed) + Count(DiagnosisOwed) + Count(RecordOwed) <= faults)'
<1> DEFINE l == LogOwed d == DiagnosisOwed r == RecordOwed
<1>1. Count(l) \in {0, 1} /\ Count(d) \in {0, 1} /\ Count(r) \in {0, 1}
    BY DEF Count
<1>2. /\ Count(l') \in {0, 1} /\ Count(d') \in {0, 1} /\ Count(r') \in {0, 1}
      /\ Count(l') <= Count(l) /\ Count(d') <= Count(d) /\ Count(r') <= Count(r)
    BY DEF Count
<1>3. Count(l) + Count(d) + Count(r) <= faults
    BY DEF Owed
<1> HIDE DEF l, d, r
<1>4. Count(l') + Count(d') + Count(r') <= faults'
    BY <1>1, <1>2, <1>3
<1> QED
    BY <1>4 DEF l, d, r, Count

\* An error may leave one thing more to be owed.
LEMMA OneOwed ==
    ASSUME faults \in Nat, faults' = faults + 1, Owed,
           \/ (LogOwed' => LogOwed) /\ (DiagnosisOwed' => DiagnosisOwed)
           \/ (LogOwed' => LogOwed) /\ (RecordOwed' => RecordOwed)
           \/ (DiagnosisOwed' => DiagnosisOwed) /\ (RecordOwed' => RecordOwed)
    PROVE  (Count(LogOwed) + Count(DiagnosisOwed) + Count(RecordOwed) <= faults)'
<1> DEFINE l == LogOwed d == DiagnosisOwed r == RecordOwed
<1>1. Count(l) \in {0, 1} /\ Count(d) \in {0, 1} /\ Count(r) \in {0, 1}
    BY DEF Count
<1>2. /\ Count(l') \in {0, 1} /\ Count(d') \in {0, 1} /\ Count(r') \in {0, 1}
      /\ \/ Count(l') <= Count(l) /\ Count(d') <= Count(d)
         \/ Count(l') <= Count(l) /\ Count(r') <= Count(r)
         \/ Count(d') <= Count(d) /\ Count(r') <= Count(r)
    BY DEF Count
<1>3. Count(l) + Count(d) + Count(r) <= faults
    BY DEF Owed
<1> HIDE DEF l, d, r
<1>4. Count(l') + Count(d') + Count(r') <= faults'
    BY <1>1, <1>2, <1>3
<1> QED
    BY <1>4 DEF l, d, r, Count

PingState == {"waiting", "running", "killed", "lost", "answered"}

\* A ping that changes its state keeps its type.
LEMMA PingKeepsType ==
    ASSUME ping \in [Ping -> PingState], NEW p \in Ping,
           \E state \in PingState : SetPing(p, state)
    PROVE  ping' \in [Ping -> PingState]
<1> HIDE DEF PingState
<1> QED
    BY DEF SetPing

LEMMA NextInvariant == IInv /\ [Next]_vars => IInv'
<1> SUFFICES ASSUME IInv, [Next]_vars PROVE IInv'
    OBVIOUS
<1> USE DEF RecordTruthful
<1>0. BatchCount \in Nat /\ MaxFaults \in Nat
    BY ConstantsAssumption
<1>a. faults \in 0 .. MaxFaults /\ stuck \in 0 .. MaxFaults /\ stuck <= faults
    BY DEF IInv, TypeOK
<1>b. ping' = ping /\ batch' = batch /\ AllLost => AllLost'
    BY DEF AllLost, LossReadsTotal, Answered
<1>1. CASE NoTarget
    <2>0. UNCHANGED faults
        BY <1>1 DEF NoTarget
    <2>f. /\ faults' \in 0 .. MaxFaults /\ faults' \in Nat /\ faults \in Nat
          /\ faults <= faults' /\ stuck <= faults'
          /\ Fault => faults' = faults + 1 /\ faults' > 0 /\ stuck + 1 <= faults'
          /\ Fault => stuck + 1 \in 0 .. MaxFaults
        BY <1>a, <2>0, FaultsGrow
    <2>1. TypeOK'
        BY <1>1, <2>f, <2>0 DEF IInv, TypeOK, Job, Ended, Recipient, NoTarget,
            escalation
    <2>2. stuck' <= faults'
        BY <1>1, <2>0, <2>f DEF NoTarget, escalation
    <2>3. Quiet'
        BY <1>1 DEF IInv, TypeOK, Quiet, NoTarget, escalation
    <2>4. ThreadStage'
        BY <1>1 DEF IInv, TypeOK, ThreadStage, Ended, NoTarget, escalation
    <2>5. Unanswered'
        BY <1>1, <1>b DEF IInv, TypeOK, ThreadStage, Unanswered, NoTarget, escalation
    <2>6. Recorded'
        BY <1>1, <2>0, <2>f DEF IInv, TypeOK, Recipient, ThreadStage, Recorded,
            NoTarget, escalation
    <2>7. Owed'
        <3>1. (LogOwed' => LogOwed) /\ (DiagnosisOwed' => DiagnosisOwed) /\ (RecordOwed' => RecordOwed)
            BY <1>1 DEF IInv, ThreadStage, Recorded, LogOwed, DiagnosisOwed,
                RecordOwed, NoTarget, escalation
        <3>2. job' \in {"raising", "failed"} => faults' > 0
            BY <1>1 DEF IInv, Owed, NoTarget, escalation
        <3>3. (Count(LogOwed) + Count(DiagnosisOwed) + Count(RecordOwed) <= faults)'
            BY <2>f, <3>1, NothingOwed DEF IInv
        <3> QED
            BY <3>2, <3>3 DEF Owed
    <2> QED
        BY <2>1, <2>2, <2>3, <2>4, <2>5, <2>6, <2>7 DEF IInv
<1>2. CASE CreateAlert
    <2>0. Fault \/ UNCHANGED faults
        BY <1>2 DEF CreateAlert
    <2>f. /\ faults' \in 0 .. MaxFaults /\ faults' \in Nat /\ faults \in Nat
          /\ faults <= faults' /\ stuck <= faults'
          /\ Fault => faults' = faults + 1 /\ faults' > 0 /\ stuck + 1 <= faults'
          /\ Fault => stuck + 1 \in 0 .. MaxFaults
        BY <1>a, <2>0, FaultsGrow
    <2>1. TypeOK'
        BY <1>2, <2>f, <2>0 DEF IInv, TypeOK, Job, Ended, Recipient, CreateAlert,
            escalation
    <2>2. stuck' <= faults'
        BY <1>2, <2>0, <2>f DEF CreateAlert, escalation
    <2>3. Quiet'
        BY <1>2 DEF IInv, TypeOK, Quiet, CreateAlert, escalation
    <2>4. ThreadStage'
        BY <1>2 DEF IInv, TypeOK, ThreadStage, Ended, CreateAlert, escalation
    <2>5. Unanswered'
        BY <1>2, <1>b DEF IInv, TypeOK, ThreadStage, Unanswered, CreateAlert,
            escalation
    <2>6. Recorded'
        BY <1>2, <2>0, <2>f DEF IInv, TypeOK, Recipient, ThreadStage, Recorded,
            CreateAlert, escalation
    <2>7. Owed'
        <3>1. \/ /\ UNCHANGED faults
                 /\ (LogOwed' => LogOwed) /\ (DiagnosisOwed' => DiagnosisOwed) /\ (RecordOwed' => RecordOwed)
              \/ /\ Fault
                 /\ \/ (LogOwed' => LogOwed) /\ (DiagnosisOwed' => DiagnosisOwed)
                    \/ (LogOwed' => LogOwed) /\ (RecordOwed' => RecordOwed)
                    \/ (DiagnosisOwed' => DiagnosisOwed) /\ (RecordOwed' => RecordOwed)
            BY <1>2 DEF IInv, TypeOK, ThreadStage, Recorded, LogOwed, DiagnosisOwed,
                RecordOwed, CreateAlert, escalation
        <3>2. job' \in {"raising", "failed"} => faults' > 0
            BY <1>2, <2>0, <2>f DEF IInv, Owed, CreateAlert, escalation
        <3>3. (Count(LogOwed) + Count(DiagnosisOwed) + Count(RecordOwed) <= faults)'
            BY <2>f, <3>1, NothingOwed, OneOwed DEF IInv
        <3> QED
            BY <3>2, <3>3 DEF Owed
    <2> QED
        BY <2>1, <2>2, <2>3, <2>4, <2>5, <2>6, <2>7 DEF IInv
<1>3. CASE CreateRaises
    <2>0. Fault
        BY <1>3 DEF CreateRaises
    <2>f. /\ faults' \in 0 .. MaxFaults /\ faults' \in Nat /\ faults \in Nat
          /\ faults <= faults' /\ stuck <= faults'
          /\ Fault => faults' = faults + 1 /\ faults' > 0 /\ stuck + 1 <= faults'
          /\ Fault => stuck + 1 \in 0 .. MaxFaults
        BY <1>a, <2>0, FaultsGrow
    <2>1. TypeOK'
        BY <1>3, <2>f, <2>0 DEF IInv, TypeOK, Job, Ended, Recipient, CreateRaises,
            escalation
    <2>2. stuck' <= faults'
        BY <1>3, <2>0, <2>f DEF CreateRaises, escalation
    <2>3. Quiet'
        BY <1>3 DEF IInv, TypeOK, Quiet, CreateRaises, escalation
    <2>4. ThreadStage'
        BY <1>3 DEF IInv, TypeOK, ThreadStage, Ended, CreateRaises, escalation
    <2>5. Unanswered'
        BY <1>3, <1>b DEF IInv, TypeOK, ThreadStage, Unanswered, CreateRaises,
            escalation
    <2>6. Recorded'
        BY <1>3, <2>0, <2>f DEF IInv, TypeOK, Recipient, ThreadStage, Recorded,
            CreateRaises, escalation
    <2>7. Owed'
        <3>1. \/ /\ UNCHANGED faults
                 /\ (LogOwed' => LogOwed) /\ (DiagnosisOwed' => DiagnosisOwed) /\ (RecordOwed' => RecordOwed)
              \/ /\ Fault
                 /\ \/ (LogOwed' => LogOwed) /\ (DiagnosisOwed' => DiagnosisOwed)
                    \/ (LogOwed' => LogOwed) /\ (RecordOwed' => RecordOwed)
                    \/ (DiagnosisOwed' => DiagnosisOwed) /\ (RecordOwed' => RecordOwed)
            BY <1>3 DEF IInv, TypeOK, ThreadStage, Recorded, LogOwed, DiagnosisOwed,
                RecordOwed, CreateRaises, escalation
        <3>2. job' \in {"raising", "failed"} => faults' > 0
            BY <1>3, <2>0, <2>f DEF IInv, Owed, CreateRaises, escalation
        <3>3. (Count(LogOwed) + Count(DiagnosisOwed) + Count(RecordOwed) <= faults)'
            BY <2>f, <3>1, NothingOwed, OneOwed DEF IInv
        <3> QED
            BY <3>2, <3>3 DEF Owed
    <2> QED
        BY <2>1, <2>2, <2>3, <2>4, <2>5, <2>6, <2>7 DEF IInv
<1>4. CASE RefuseTarget
    <2>0. UNCHANGED faults
        BY <1>4 DEF RefuseTarget
    <2>f. /\ faults' \in 0 .. MaxFaults /\ faults' \in Nat /\ faults \in Nat
          /\ faults <= faults' /\ stuck <= faults'
          /\ Fault => faults' = faults + 1 /\ faults' > 0 /\ stuck + 1 <= faults'
          /\ Fault => stuck + 1 \in 0 .. MaxFaults
        BY <1>a, <2>0, FaultsGrow
    <2>1. TypeOK'
        BY <1>4, <2>f, <2>0 DEF IInv, TypeOK, Job, Ended, Recipient, RefuseTarget,
            escalation
    <2>2. stuck' <= faults'
        BY <1>4, <2>0, <2>f DEF RefuseTarget, escalation
    <2>3. Quiet'
        BY <1>4 DEF IInv, TypeOK, Quiet, RefuseTarget, escalation
    <2>4. ThreadStage'
        BY <1>4 DEF IInv, TypeOK, ThreadStage, Ended, RefuseTarget, escalation
    <2>5. Unanswered'
        BY <1>4, <1>b DEF IInv, TypeOK, ThreadStage, Unanswered, RefuseTarget,
            escalation
    <2>6. Recorded'
        BY <1>4, <2>0, <2>f DEF IInv, TypeOK, Recipient, ThreadStage, Recorded,
            RefuseTarget, escalation
    <2>7. Owed'
        <3>1. (LogOwed' => LogOwed) /\ (DiagnosisOwed' => DiagnosisOwed) /\ (RecordOwed' => RecordOwed)
            BY <1>4 DEF IInv, ThreadStage, Recorded, LogOwed, DiagnosisOwed,
                RecordOwed, RefuseTarget, escalation
        <3>2. job' \in {"raising", "failed"} => faults' > 0
            BY <1>4 DEF IInv, Owed, RefuseTarget, escalation
        <3>3. (Count(LogOwed) + Count(DiagnosisOwed) + Count(RecordOwed) <= faults)'
            BY <2>f, <3>1, NothingOwed DEF IInv
        <3> QED
            BY <3>2, <3>3 DEF Owed
    <2> QED
        BY <2>1, <2>2, <2>3, <2>4, <2>5, <2>6, <2>7 DEF IInv
<1>5. CASE SkipBatches
    <2>0. UNCHANGED faults
        BY <1>5 DEF SkipBatches
    <2>f. /\ faults' \in 0 .. MaxFaults /\ faults' \in Nat /\ faults \in Nat
          /\ faults <= faults' /\ stuck <= faults'
          /\ Fault => faults' = faults + 1 /\ faults' > 0 /\ stuck + 1 <= faults'
          /\ Fault => stuck + 1 \in 0 .. MaxFaults
        BY <1>a, <2>0, FaultsGrow
    <2>1. TypeOK'
        BY <1>5, <2>f, <2>0 DEF IInv, TypeOK, Job, Ended, Recipient, SkipBatches,
            escalation
    <2>2. stuck' <= faults'
        BY <1>5, <2>0, <2>f DEF SkipBatches, escalation
    <2>3. Quiet'
        BY <1>5 DEF IInv, TypeOK, Quiet, SkipBatches, escalation
    <2>4. ThreadStage'
        BY <1>5 DEF IInv, TypeOK, ThreadStage, Ended, SkipBatches, escalation
    <2>5. Unanswered'
        <3>1. job = "triggered" /\ thread = "none" /\ batch = 0
            BY <1>5 DEF IInv, ThreadStage, Unanswered, SkipBatches
        <3>2. job' = "unreachable" /\ thread' = "none" /\ batch' = 0
            BY <1>5, <3>1 DEF SkipBatches, escalation
        <3> QED
            BY <3>2 DEF Unanswered, AllLost
    <2>6. Recorded'
        BY <1>5, <2>0, <2>f DEF IInv, TypeOK, Recipient, ThreadStage, Recorded,
            SkipBatches, escalation
    <2>7. Owed'
        <3>1. (LogOwed' => LogOwed) /\ (DiagnosisOwed' => DiagnosisOwed) /\ (RecordOwed' => RecordOwed)
            BY <1>5 DEF IInv, ThreadStage, Recorded, LogOwed, DiagnosisOwed,
                RecordOwed, SkipBatches, escalation
        <3>2. job' \in {"raising", "failed"} => faults' > 0
            BY <1>5 DEF IInv, Owed, SkipBatches, escalation
        <3>3. (Count(LogOwed) + Count(DiagnosisOwed) + Count(RecordOwed) <= faults)'
            BY <2>f, <3>1, NothingOwed DEF IInv
        <3> QED
            BY <3>2, <3>3 DEF Owed
    <2> QED
        BY <2>1, <2>2, <2>3, <2>4, <2>5, <2>6, <2>7 DEF IInv
<1>6. CASE StartBatch
    <2>0. UNCHANGED faults
        BY <1>6 DEF StartBatch
    <2>f. /\ faults' \in 0 .. MaxFaults /\ faults' \in Nat /\ faults \in Nat
          /\ faults <= faults' /\ stuck <= faults'
          /\ Fault => faults' = faults + 1 /\ faults' > 0 /\ stuck + 1 <= faults'
          /\ Fault => stuck + 1 \in 0 .. MaxFaults
        BY <1>a, <2>0, FaultsGrow
    <2>1. TypeOK'
        <3>1. batch' \in 0 .. BatchCount
            <4>1. batch \in 0 .. BatchCount /\ batch < BatchCount /\ batch' = batch + 1
                BY <1>6 DEF IInv, TypeOK, StartBatch
            <4> QED
                BY <4>1, <1>0
        <3>2. ping' \in [Ping -> {"waiting", "running", "killed", "lost", "answered"}]
            BY <1>6 DEF StartBatch
        <3> QED
            BY <1>6, <2>f, <3>1, <3>2 DEF IInv, TypeOK, Job, Ended, StartBatch,
                escalation
    <2>2. stuck' <= faults'
        BY <1>6, <2>0, <2>f DEF StartBatch, escalation
    <2>3. Quiet'
        BY <1>6 DEF IInv, TypeOK, Quiet, StartBatch, escalation
    <2>4. ThreadStage'
        BY <1>6 DEF IInv, TypeOK, ThreadStage, Ended, StartBatch, escalation
    <2>5. Unanswered'
        <3>1. thread' = "none" /\ job' = "pinging"
            BY <1>6 DEF IInv, Quiet, ThreadStage, StartBatch, escalation
        <3> QED
            BY <3>1 DEF Unanswered
    <2>6. Recorded'
        BY <1>6, <2>0, <2>f DEF IInv, TypeOK, Recipient, ThreadStage, Recorded,
            StartBatch, escalation
    <2>7. Owed'
        <3>1. (LogOwed' => LogOwed) /\ (DiagnosisOwed' => DiagnosisOwed) /\ (RecordOwed' => RecordOwed)
            BY <1>6 DEF IInv, ThreadStage, Recorded, LogOwed, DiagnosisOwed,
                RecordOwed, StartBatch, escalation
        <3>2. job' \in {"raising", "failed"} => faults' > 0
            BY <1>6 DEF IInv, Owed, StartBatch, escalation
        <3>3. (Count(LogOwed) + Count(DiagnosisOwed) + Count(RecordOwed) <= faults)'
            BY <2>f, <3>1, NothingOwed DEF IInv
        <3> QED
            BY <3>2, <3>3 DEF Owed
    <2> QED
        BY <2>1, <2>2, <2>3, <2>4, <2>5, <2>6, <2>7 DEF IInv
<1>7. CASE EndBatch
    <2>0. UNCHANGED faults
        BY <1>7 DEF EndBatch, Verdict
    <2>f. /\ faults' \in 0 .. MaxFaults /\ faults' \in Nat /\ faults \in Nat
          /\ faults <= faults' /\ stuck <= faults'
          /\ Fault => faults' = faults + 1 /\ faults' > 0 /\ stuck + 1 <= faults'
          /\ Fault => stuck + 1 \in 0 .. MaxFaults
        BY <1>a, <2>0, FaultsGrow
    <2>1. TypeOK'
        BY <1>7, <2>f, <2>0 DEF IInv, TypeOK, Job, Ended, Recipient, EndBatch,
            Verdict, escalation
    <2>2. stuck' <= faults'
        BY <1>7, <2>0, <2>f DEF EndBatch, Verdict, escalation
    <2>3. Quiet'
        BY <1>7 DEF IInv, TypeOK, Quiet, EndBatch, Verdict, escalation
    <2>4. ThreadStage'
        BY <1>7 DEF IInv, TypeOK, ThreadStage, Ended, EndBatch, Verdict, escalation
    <2>5. Unanswered'
        <3>1. /\ job = "pinging" /\ thread = "none" /\ batch \in 0 .. BatchCount
              /\ \A p \in Ping : ping[p] \in Verdict
            BY <1>7 DEF IInv, TypeOK, ThreadStage, EndBatch
        <3>2. /\ job' \in {"recovered", "pausing", "unreachable"}
              /\ job' = "unreachable" => LossReadsTotal /\ ~(batch < BatchCount)
              /\ thread' = thread /\ batch' = batch /\ ping' = ping
            BY <1>7 DEF EndBatch, escalation
        <3>3. job' = "unreachable" => batch = BatchCount
            BY <3>1, <3>2, <1>0
        <3>4. LossReadsTotal' = LossReadsTotal
            BY <3>2 DEF LossReadsTotal, Answered
        <3>5. job' = "unreachable" => AllLost'
            BY <3>1, <3>2, <3>3, <3>4 DEF AllLost
        <3> QED
            BY <3>1, <3>2, <3>5 DEF Unanswered
    <2>6. Recorded'
        BY <1>7, <2>0, <2>f DEF IInv, TypeOK, Recipient, ThreadStage, Recorded,
            EndBatch, Verdict, escalation
    <2>7. Owed'
        <3>1. (LogOwed' => LogOwed) /\ (DiagnosisOwed' => DiagnosisOwed) /\ (RecordOwed' => RecordOwed)
            BY <1>7 DEF IInv, ThreadStage, Recorded, LogOwed, DiagnosisOwed,
                RecordOwed, EndBatch, Verdict, escalation
        <3>2. job' \in {"raising", "failed"} => faults' > 0
            BY <1>7 DEF IInv, Owed, EndBatch, Verdict, escalation
        <3>3. (Count(LogOwed) + Count(DiagnosisOwed) + Count(RecordOwed) <= faults)'
            BY <2>f, <3>1, NothingOwed DEF IInv
        <3> QED
            BY <3>2, <3>3 DEF Owed
    <2> QED
        BY <2>1, <2>2, <2>3, <2>4, <2>5, <2>6, <2>7 DEF IInv
<1>8. CASE CloseLogs
    <2>0. Fault \/ UNCHANGED faults
        BY <1>8 DEF CloseLogs, MaybeFault
    <2>f. /\ faults' \in 0 .. MaxFaults /\ faults' \in Nat /\ faults \in Nat
          /\ faults <= faults' /\ stuck <= faults'
          /\ Fault => faults' = faults + 1 /\ faults' > 0 /\ stuck + 1 <= faults'
          /\ Fault => stuck + 1 \in 0 .. MaxFaults
        BY <1>a, <2>0, FaultsGrow
    <2>1. TypeOK'
        BY <1>8, <2>f, <2>0 DEF IInv, TypeOK, Job, Ended, Recipient, CloseLogs,
            MaybeFault, escalation
    <2>2. stuck' <= faults'
        BY <1>8, <2>0, <2>f DEF CloseLogs, MaybeFault, escalation
    <2>3. Quiet'
        BY <1>8 DEF IInv, TypeOK, Quiet, CloseLogs, MaybeFault, escalation
    <2>4. ThreadStage'
        BY <1>8 DEF IInv, TypeOK, ThreadStage, Ended, CloseLogs, MaybeFault,
            escalation
    <2>5. Unanswered'
        BY <1>8, <1>b DEF IInv, TypeOK, ThreadStage, Unanswered, CloseLogs,
            MaybeFault, escalation
    <2>6. Recorded'
        BY <1>8, <2>0, <2>f DEF IInv, TypeOK, Recipient, ThreadStage, Recorded,
            CloseLogs, MaybeFault, escalation
    <2>7. Owed'
        <3>1. \/ /\ UNCHANGED faults
                 /\ (LogOwed' => LogOwed) /\ (DiagnosisOwed' => DiagnosisOwed) /\ (RecordOwed' => RecordOwed)
              \/ /\ Fault
                 /\ \/ (LogOwed' => LogOwed) /\ (DiagnosisOwed' => DiagnosisOwed)
                    \/ (LogOwed' => LogOwed) /\ (RecordOwed' => RecordOwed)
                    \/ (DiagnosisOwed' => DiagnosisOwed) /\ (RecordOwed' => RecordOwed)
            BY <1>8 DEF IInv, TypeOK, ThreadStage, Recorded, LogOwed, DiagnosisOwed,
                RecordOwed, CloseLogs, MaybeFault, escalation
        <3>2. job' \in {"raising", "failed"} => faults' > 0
            BY <1>8, <2>0, <2>f DEF IInv, Owed, CloseLogs, MaybeFault, escalation
        <3>3. (Count(LogOwed) + Count(DiagnosisOwed) + Count(RecordOwed) <= faults)'
            BY <2>f, <3>1, NothingOwed, OneOwed DEF IInv
        <3> QED
            BY <3>2, <3>3 DEF Owed
    <2> QED
        BY <2>1, <2>2, <2>3, <2>4, <2>5, <2>6, <2>7 DEF IInv
<1>9. CASE Persist
    <2>0. Fault \/ UNCHANGED faults
        BY <1>9 DEF Persist, MaybeFault
    <2>f. /\ faults' \in 0 .. MaxFaults /\ faults' \in Nat /\ faults \in Nat
          /\ faults <= faults' /\ stuck <= faults'
          /\ Fault => faults' = faults + 1 /\ faults' > 0 /\ stuck + 1 <= faults'
          /\ Fault => stuck + 1 \in 0 .. MaxFaults
        BY <1>a, <2>0, FaultsGrow
    <2>1. TypeOK'
        BY <1>9, <2>f, <2>0 DEF IInv, TypeOK, Job, Ended, Recipient, Persist,
            MaybeFault, escalation
    <2>2. stuck' <= faults'
        BY <1>9, <2>0, <2>f DEF Persist, MaybeFault, escalation
    <2>3. Quiet'
        BY <1>9 DEF IInv, TypeOK, Quiet, Persist, MaybeFault, escalation
    <2>4. ThreadStage'
        BY <1>9 DEF IInv, TypeOK, ThreadStage, Ended, Persist, MaybeFault, escalation
    <2>5. Unanswered'
        BY <1>9, <1>b DEF IInv, TypeOK, ThreadStage, Unanswered, Persist, MaybeFault,
            escalation
    <2>6. Recorded'
        BY <1>9, <2>0, <2>f DEF IInv, TypeOK, Recipient, ThreadStage, Recorded,
            Persist, MaybeFault, escalation
    <2>7. Owed'
        <3>1. \/ /\ UNCHANGED faults
                 /\ (LogOwed' => LogOwed) /\ (DiagnosisOwed' => DiagnosisOwed) /\ (RecordOwed' => RecordOwed)
              \/ /\ Fault
                 /\ \/ (LogOwed' => LogOwed) /\ (DiagnosisOwed' => DiagnosisOwed)
                    \/ (LogOwed' => LogOwed) /\ (RecordOwed' => RecordOwed)
                    \/ (DiagnosisOwed' => DiagnosisOwed) /\ (RecordOwed' => RecordOwed)
            BY <1>9 DEF IInv, TypeOK, ThreadStage, Recorded, LogOwed, DiagnosisOwed,
                RecordOwed, Persist, MaybeFault, escalation
        <3>2. job' \in {"raising", "failed"} => faults' > 0
            BY <1>9, <2>0, <2>f DEF IInv, Owed, Persist, MaybeFault, escalation
        <3>3. (Count(LogOwed) + Count(DiagnosisOwed) + Count(RecordOwed) <= faults)'
            BY <2>f, <3>1, NothingOwed, OneOwed DEF IInv
        <3> QED
            BY <3>2, <3>3 DEF Owed
    <2> QED
        BY <2>1, <2>2, <2>3, <2>4, <2>5, <2>6, <2>7 DEF IInv
<1>10. CASE Dispatch
    <2>0. UNCHANGED faults
        BY <1>10 DEF Dispatch
    <2>f. /\ faults' \in 0 .. MaxFaults /\ faults' \in Nat /\ faults \in Nat
          /\ faults <= faults' /\ stuck <= faults'
          /\ Fault => faults' = faults + 1 /\ faults' > 0 /\ stuck + 1 <= faults'
          /\ Fault => stuck + 1 \in 0 .. MaxFaults
        BY <1>a, <2>0, FaultsGrow
    <2>1. TypeOK'
        BY <1>10, <2>f, <2>0 DEF IInv, TypeOK, Job, Ended, Recipient, Dispatch,
            escalation
    <2>2. stuck' <= faults'
        BY <1>10, <2>0, <2>f DEF Dispatch, escalation
    <2>3. Quiet'
        BY <1>10 DEF IInv, TypeOK, Quiet, Dispatch, escalation
    <2>4. ThreadStage'
        BY <1>10 DEF IInv, TypeOK, ThreadStage, Ended, Dispatch, escalation
    <2>5. Unanswered'
        BY <1>10, <1>b DEF IInv, TypeOK, ThreadStage, Unanswered, Dispatch, escalation
    <2>6. Recorded'
        BY <1>10, <2>0, <2>f DEF IInv, TypeOK, Recipient, ThreadStage, Recorded,
            Dispatch, escalation
    <2>7. Owed'
        <3>1. (LogOwed' => LogOwed) /\ (DiagnosisOwed' => DiagnosisOwed) /\ (RecordOwed' => RecordOwed)
            BY <1>10 DEF IInv, ThreadStage, Recorded, LogOwed, DiagnosisOwed,
                RecordOwed, Dispatch, escalation
        <3>2. job' \in {"raising", "failed"} => faults' > 0
            BY <1>10 DEF IInv, Owed, Dispatch, escalation
        <3>3. (Count(LogOwed) + Count(DiagnosisOwed) + Count(RecordOwed) <= faults)'
            BY <2>f, <3>1, NothingOwed DEF IInv
        <3> QED
            BY <3>2, <3>3 DEF Owed
    <2> QED
        BY <2>1, <2>2, <2>3, <2>4, <2>5, <2>6, <2>7 DEF IInv
<1>11. CASE DispatchFails
    <2>0. Fault
        BY <1>11 DEF DispatchFails
    <2>f. /\ faults' \in 0 .. MaxFaults /\ faults' \in Nat /\ faults \in Nat
          /\ faults <= faults' /\ stuck <= faults'
          /\ Fault => faults' = faults + 1 /\ faults' > 0 /\ stuck + 1 <= faults'
          /\ Fault => stuck + 1 \in 0 .. MaxFaults
        BY <1>a, <2>0, FaultsGrow
    <2>1. TypeOK'
        BY <1>11, <2>f, <2>0 DEF IInv, TypeOK, Job, Ended, Recipient, DispatchFails,
            escalation
    <2>2. stuck' <= faults'
        BY <1>11, <2>0, <2>f DEF DispatchFails, escalation
    <2>3. Quiet'
        BY <1>11 DEF IInv, TypeOK, Quiet, DispatchFails, escalation
    <2>4. ThreadStage'
        BY <1>11 DEF IInv, TypeOK, ThreadStage, Ended, DispatchFails, escalation
    <2>5. Unanswered'
        BY <1>11, <1>b DEF IInv, TypeOK, ThreadStage, Unanswered, DispatchFails,
            escalation
    <2>6. Recorded'
        BY <1>11, <2>0, <2>f DEF IInv, TypeOK, Recipient, ThreadStage, Recorded,
            DispatchFails, escalation
    <2>7. Owed'
        <3>1. \/ /\ UNCHANGED faults
                 /\ (LogOwed' => LogOwed) /\ (DiagnosisOwed' => DiagnosisOwed) /\ (RecordOwed' => RecordOwed)
              \/ /\ Fault
                 /\ \/ (LogOwed' => LogOwed) /\ (DiagnosisOwed' => DiagnosisOwed)
                    \/ (LogOwed' => LogOwed) /\ (RecordOwed' => RecordOwed)
                    \/ (DiagnosisOwed' => DiagnosisOwed) /\ (RecordOwed' => RecordOwed)
            BY <1>11 DEF IInv, TypeOK, ThreadStage, Recorded, LogOwed, DiagnosisOwed,
                RecordOwed, DispatchFails, escalation
        <3>2. job' \in {"raising", "failed"} => faults' > 0
            BY <1>11, <2>0, <2>f DEF IInv, Owed, DispatchFails, escalation
        <3>3. (Count(LogOwed) + Count(DiagnosisOwed) + Count(RecordOwed) <= faults)'
            BY <2>f, <3>1, NothingOwed, OneOwed DEF IInv
        <3> QED
            BY <3>2, <3>3 DEF Owed
    <2> QED
        BY <2>1, <2>2, <2>3, <2>4, <2>5, <2>6, <2>7 DEF IInv
<1>12. CASE Dispatched
    <2>0. UNCHANGED faults
        BY <1>12 DEF Dispatched
    <2>f. /\ faults' \in 0 .. MaxFaults /\ faults' \in Nat /\ faults \in Nat
          /\ faults <= faults' /\ stuck <= faults'
          /\ Fault => faults' = faults + 1 /\ faults' > 0 /\ stuck + 1 <= faults'
          /\ Fault => stuck + 1 \in 0 .. MaxFaults
        BY <1>a, <2>0, FaultsGrow
    <2>1. TypeOK'
        BY <1>12, <2>f, <2>0 DEF IInv, TypeOK, Job, Ended, Recipient, Dispatched,
            escalation
    <2>2. stuck' <= faults'
        BY <1>12, <2>0, <2>f DEF Dispatched, escalation
    <2>3. Quiet'
        BY <1>12 DEF IInv, TypeOK, Quiet, Dispatched, escalation
    <2>4. ThreadStage'
        BY <1>12 DEF IInv, TypeOK, ThreadStage, Ended, Dispatched, escalation
    <2>5. Unanswered'
        BY <1>12, <1>b DEF IInv, TypeOK, ThreadStage, Unanswered, Dispatched,
            escalation
    <2>6. Recorded'
        BY <1>12, <2>0, <2>f DEF IInv, TypeOK, Recipient, ThreadStage, Recorded,
            Dispatched, escalation
    <2>7. Owed'
        <3>1. (LogOwed' => LogOwed) /\ (DiagnosisOwed' => DiagnosisOwed) /\ (RecordOwed' => RecordOwed)
            BY <1>12 DEF IInv, ThreadStage, Recorded, LogOwed, DiagnosisOwed,
                RecordOwed, Dispatched, escalation
        <3>2. job' \in {"raising", "failed"} => faults' > 0
            BY <1>12 DEF IInv, Owed, Dispatched, escalation
        <3>3. (Count(LogOwed) + Count(DiagnosisOwed) + Count(RecordOwed) <= faults)'
            BY <2>f, <3>1, NothingOwed DEF IInv
        <3> QED
            BY <3>2, <3>3 DEF Owed
    <2> QED
        BY <2>1, <2>2, <2>3, <2>4, <2>5, <2>6, <2>7 DEF IInv
<1>13. CASE GiveUp
    <2>0. UNCHANGED faults
        BY <1>13 DEF GiveUp
    <2>f. /\ faults' \in 0 .. MaxFaults /\ faults' \in Nat /\ faults \in Nat
          /\ faults <= faults' /\ stuck <= faults'
          /\ Fault => faults' = faults + 1 /\ faults' > 0 /\ stuck + 1 <= faults'
          /\ Fault => stuck + 1 \in 0 .. MaxFaults
        BY <1>a, <2>0, FaultsGrow
    <2>1. TypeOK'
        BY <1>13, <2>f, <2>0 DEF IInv, TypeOK, Job, Ended, Recipient, GiveUp,
            escalation
    <2>2. stuck' <= faults'
        BY <1>13, <2>0, <2>f DEF GiveUp, escalation
    <2>3. Quiet'
        BY <1>13 DEF IInv, TypeOK, Quiet, GiveUp, escalation
    <2>4. ThreadStage'
        BY <1>13 DEF IInv, TypeOK, ThreadStage, Ended, GiveUp, escalation
    <2>5. Unanswered'
        BY <1>13, <1>b DEF IInv, TypeOK, ThreadStage, Unanswered, GiveUp, escalation
    <2>6. Recorded'
        BY <1>13, <2>0, <2>f DEF IInv, TypeOK, Recipient, ThreadStage, Recorded,
            GiveUp, escalation
    <2>7. Owed'
        <3>1. (LogOwed' => LogOwed) /\ (DiagnosisOwed' => DiagnosisOwed) /\ (RecordOwed' => RecordOwed)
            BY <1>13 DEF IInv, ThreadStage, Recorded, LogOwed, DiagnosisOwed,
                RecordOwed, GiveUp, escalation
        <3>2. job' \in {"raising", "failed"} => faults' > 0
            BY <1>13 DEF IInv, Owed, GiveUp, escalation
        <3>3. (Count(LogOwed) + Count(DiagnosisOwed) + Count(RecordOwed) <= faults)'
            BY <2>f, <3>1, NothingOwed DEF IInv
        <3> QED
            BY <3>2, <3>3 DEF Owed
    <2> QED
        BY <2>1, <2>2, <2>3, <2>4, <2>5, <2>6, <2>7 DEF IInv
<1>14. CASE OpenLog
    <2>0. Fault \/ UNCHANGED faults
        BY <1>14 DEF OpenLog, MaybeFault
    <2>f. /\ faults' \in 0 .. MaxFaults /\ faults' \in Nat /\ faults \in Nat
          /\ faults <= faults' /\ stuck <= faults'
          /\ Fault => faults' = faults + 1 /\ faults' > 0 /\ stuck + 1 <= faults'
          /\ Fault => stuck + 1 \in 0 .. MaxFaults
        BY <1>a, <2>0, FaultsGrow
    <2>1. TypeOK'
        BY <1>14, <2>f, <2>0 DEF IInv, TypeOK, Job, Ended, Recipient, OpenLog,
            MaybeFault, escalation
    <2>2. stuck' <= faults'
        BY <1>14, <2>0, <2>f DEF OpenLog, MaybeFault, escalation
    <2>3. Quiet'
        BY <1>14 DEF IInv, TypeOK, Quiet, OpenLog, MaybeFault, escalation
    <2>4. ThreadStage'
        BY <1>14 DEF IInv, TypeOK, ThreadStage, Ended, OpenLog, MaybeFault, escalation
    <2>5. Unanswered'
        BY <1>14, <1>b DEF IInv, TypeOK, ThreadStage, Unanswered, OpenLog, MaybeFault,
            escalation
    <2>6. Recorded'
        BY <1>14, <2>0, <2>f DEF IInv, TypeOK, Recipient, ThreadStage, Recorded,
            OpenLog, MaybeFault, escalation
    <2>7. Owed'
        <3>1. \/ /\ UNCHANGED faults
                 /\ (LogOwed' => LogOwed) /\ (DiagnosisOwed' => DiagnosisOwed) /\ (RecordOwed' => RecordOwed)
              \/ /\ Fault
                 /\ \/ (LogOwed' => LogOwed) /\ (DiagnosisOwed' => DiagnosisOwed)
                    \/ (LogOwed' => LogOwed) /\ (RecordOwed' => RecordOwed)
                    \/ (DiagnosisOwed' => DiagnosisOwed) /\ (RecordOwed' => RecordOwed)
            BY <1>14 DEF IInv, TypeOK, ThreadStage, Recorded, LogOwed, DiagnosisOwed,
                RecordOwed, OpenLog, MaybeFault, escalation
        <3>2. job' \in {"raising", "failed"} => faults' > 0
            BY <1>14, <2>0, <2>f DEF IInv, Owed, OpenLog, MaybeFault, escalation
        <3>3. (Count(LogOwed) + Count(DiagnosisOwed) + Count(RecordOwed) <= faults)'
            BY <2>f, <3>1, NothingOwed, OneOwed DEF IInv
        <3> QED
            BY <3>2, <3>3 DEF Owed
    <2> QED
        BY <2>1, <2>2, <2>3, <2>4, <2>5, <2>6, <2>7 DEF IInv
<1>15. CASE OpenLogRaises
    <2>0. Fault
        BY <1>15 DEF OpenLogRaises
    <2>f. /\ faults' \in 0 .. MaxFaults /\ faults' \in Nat /\ faults \in Nat
          /\ faults <= faults' /\ stuck <= faults'
          /\ Fault => faults' = faults + 1 /\ faults' > 0 /\ stuck + 1 <= faults'
          /\ Fault => stuck + 1 \in 0 .. MaxFaults
        BY <1>a, <2>0, FaultsGrow
    <2>1. TypeOK'
        BY <1>15, <2>f, <2>0 DEF IInv, TypeOK, Job, Ended, Recipient, OpenLogRaises,
            escalation
    <2>2. stuck' <= faults'
        BY <1>15, <2>0, <2>f DEF OpenLogRaises, escalation
    <2>3. Quiet'
        BY <1>15 DEF IInv, TypeOK, Quiet, OpenLogRaises, escalation
    <2>4. ThreadStage'
        BY <1>15 DEF IInv, TypeOK, ThreadStage, Ended, OpenLogRaises, escalation
    <2>5. Unanswered'
        BY <1>15, <1>b DEF IInv, TypeOK, ThreadStage, Unanswered, OpenLogRaises,
            escalation
    <2>6. Recorded'
        BY <1>15, <2>0, <2>f DEF IInv, TypeOK, Recipient, ThreadStage, Recorded,
            OpenLogRaises, escalation
    <2>7. Owed'
        <3>1. \/ /\ UNCHANGED faults
                 /\ (LogOwed' => LogOwed) /\ (DiagnosisOwed' => DiagnosisOwed) /\ (RecordOwed' => RecordOwed)
              \/ /\ Fault
                 /\ \/ (LogOwed' => LogOwed) /\ (DiagnosisOwed' => DiagnosisOwed)
                    \/ (LogOwed' => LogOwed) /\ (RecordOwed' => RecordOwed)
                    \/ (DiagnosisOwed' => DiagnosisOwed) /\ (RecordOwed' => RecordOwed)
            BY <1>15 DEF IInv, TypeOK, ThreadStage, Recorded, LogOwed, DiagnosisOwed,
                RecordOwed, OpenLogRaises, escalation
        <3>2. job' \in {"raising", "failed"} => faults' > 0
            BY <1>15, <2>0, <2>f DEF IInv, Owed, OpenLogRaises, escalation
        <3>3. (Count(LogOwed) + Count(DiagnosisOwed) + Count(RecordOwed) <= faults)'
            BY <2>f, <3>1, NothingOwed, OneOwed DEF IInv
        <3> QED
            BY <3>2, <3>3 DEF Owed
    <2> QED
        BY <2>1, <2>2, <2>3, <2>4, <2>5, <2>6, <2>7 DEF IInv
<1>16. CASE Finish
    <2>0. UNCHANGED faults
        BY <1>16 DEF Finish, Outcome
    <2>f. /\ faults' \in 0 .. MaxFaults /\ faults' \in Nat /\ faults \in Nat
          /\ faults <= faults' /\ stuck <= faults'
          /\ Fault => faults' = faults + 1 /\ faults' > 0 /\ stuck + 1 <= faults'
          /\ Fault => stuck + 1 \in 0 .. MaxFaults
        BY <1>a, <2>0, FaultsGrow
    <2>1. TypeOK'
        BY <1>16, <2>f, <2>0 DEF IInv, TypeOK, Job, Ended, Recipient, Finish, Outcome,
            escalation
    <2>2. stuck' <= faults'
        BY <1>16, <2>0, <2>f DEF Finish, Outcome, escalation
    <2>3. Quiet'
        BY <1>16 DEF IInv, TypeOK, Quiet, Finish, Outcome, escalation
    <2>4. ThreadStage'
        BY <1>16 DEF IInv, TypeOK, ThreadStage, Ended, Finish, Outcome, escalation
    <2>5. Unanswered'
        BY <1>16, <1>b DEF IInv, TypeOK, ThreadStage, Unanswered, Finish, Outcome,
            escalation
    <2>6. Recorded'
        BY <1>16, <2>0, <2>f DEF IInv, TypeOK, Recipient, ThreadStage, Recorded,
            Finish, Outcome, escalation
    <2>7. Owed'
        <3>1. (LogOwed' => LogOwed) /\ (DiagnosisOwed' => DiagnosisOwed) /\ (RecordOwed' => RecordOwed)
            BY <1>16 DEF IInv, ThreadStage, Recorded, LogOwed, DiagnosisOwed,
                RecordOwed, Finish, Outcome, escalation
        <3>2. job' \in {"raising", "failed"} => faults' > 0
            BY <1>16 DEF IInv, Owed, Finish, Outcome, escalation
        <3>3. (Count(LogOwed) + Count(DiagnosisOwed) + Count(RecordOwed) <= faults)'
            BY <2>f, <3>1, NothingOwed DEF IInv
        <3> QED
            BY <3>2, <3>3 DEF Owed
    <2> QED
        BY <2>1, <2>2, <2>3, <2>4, <2>5, <2>6, <2>7 DEF IInv
<1>17. CASE Address
    <2>0. UNCHANGED faults
        BY <1>17 DEF Address
    <2>f. /\ faults' \in 0 .. MaxFaults /\ faults' \in Nat /\ faults \in Nat
          /\ faults <= faults' /\ stuck <= faults'
          /\ Fault => faults' = faults + 1 /\ faults' > 0 /\ stuck + 1 <= faults'
          /\ Fault => stuck + 1 \in 0 .. MaxFaults
        BY <1>a, <2>0, FaultsGrow
    <2>1. TypeOK'
        BY <1>17, <2>f, <2>0 DEF IInv, TypeOK, Job, Ended, Recipient, Address,
            escalation
    <2>2. stuck' <= faults'
        BY <1>17, <2>0, <2>f DEF Address, escalation
    <2>3. Quiet'
        BY <1>17 DEF IInv, TypeOK, Quiet, Address, escalation
    <2>4. ThreadStage'
        BY <1>17 DEF IInv, TypeOK, ThreadStage, Ended, Address, escalation
    <2>5. Unanswered'
        BY <1>17, <1>b DEF IInv, TypeOK, ThreadStage, Unanswered, Address, escalation
    <2>6. Recorded'
        BY <1>17, <2>0, <2>f DEF IInv, TypeOK, Recipient, ThreadStage, Recorded,
            Address, escalation
    <2>7. Owed'
        <3>1. (LogOwed' => LogOwed) /\ (DiagnosisOwed' => DiagnosisOwed) /\ (RecordOwed' => RecordOwed)
            BY <1>17 DEF IInv, ThreadStage, Recorded, LogOwed, DiagnosisOwed,
                RecordOwed, Address, escalation
        <3>2. job' \in {"raising", "failed"} => faults' > 0
            BY <1>17 DEF IInv, Owed, Address, escalation
        <3>3. (Count(LogOwed) + Count(DiagnosisOwed) + Count(RecordOwed) <= faults)'
            BY <2>f, <3>1, NothingOwed DEF IInv
        <3> QED
            BY <3>2, <3>3 DEF Owed
    <2> QED
        BY <2>1, <2>2, <2>3, <2>4, <2>5, <2>6, <2>7 DEF IInv
<1>18. CASE SendMail
    <2>0. Fault \/ UNCHANGED faults
        BY <1>18 DEF SendMail
    <2>f. /\ faults' \in 0 .. MaxFaults /\ faults' \in Nat /\ faults \in Nat
          /\ faults <= faults' /\ stuck <= faults'
          /\ Fault => faults' = faults + 1 /\ faults' > 0 /\ stuck + 1 <= faults'
          /\ Fault => stuck + 1 \in 0 .. MaxFaults
        BY <1>a, <2>0, FaultsGrow
    <2>1. TypeOK'
        BY <1>18, <2>f, <2>0 DEF IInv, TypeOK, Job, Ended, Recipient, SendMail,
            escalation
    <2>2. stuck' <= faults'
        BY <1>18, <2>0, <2>f DEF SendMail, escalation
    <2>3. Quiet'
        BY <1>18 DEF IInv, TypeOK, Quiet, SendMail, escalation
    <2>4. ThreadStage'
        BY <1>18 DEF IInv, TypeOK, ThreadStage, Ended, SendMail, escalation
    <2>5. Unanswered'
        BY <1>18, <1>b DEF IInv, TypeOK, ThreadStage, Unanswered, SendMail, escalation
    <2>6. Recorded'
        <3>1. thread = "addressed" /\ alert /\ escalated = "none"
            BY <1>18 DEF IInv, Recorded, SendMail
        <3>2. alert' = alert /\ escalated' = escalated
            BY <1>18 DEF SendMail
        <3>3. \/ thread' = "sent" /\ mailed' # {}
              \/ thread' = "unsent" /\ mailed' = {}
              \/ thread' = "unsent" /\ faults' > 0
            <4>1. CASE mailed' \in (SUBSET Recipient) \ {{}} /\ thread' = "sent"
                BY <4>1
            <4>2. CASE mailed' = {} /\ thread' = "unsent"
                BY <4>2
            <4>3. CASE thread' = "unsent" /\ Fault
                BY <4>3, <2>f
            <4> QED
                BY <1>18, <4>1, <4>2, <4>3 DEF SendMail
        <3> QED
            BY <3>1, <3>2, <3>3 DEF Recorded, RecordTruthful
    <2>7. Owed'
        <3>1. \/ /\ UNCHANGED faults
                 /\ (LogOwed' => LogOwed) /\ (DiagnosisOwed' => DiagnosisOwed) /\ (RecordOwed' => RecordOwed)
              \/ /\ Fault
                 /\ \/ (LogOwed' => LogOwed) /\ (DiagnosisOwed' => DiagnosisOwed)
                    \/ (LogOwed' => LogOwed) /\ (RecordOwed' => RecordOwed)
                    \/ (DiagnosisOwed' => DiagnosisOwed) /\ (RecordOwed' => RecordOwed)
            BY <1>18 DEF IInv, TypeOK, ThreadStage, Recorded, LogOwed, DiagnosisOwed,
                RecordOwed, SendMail, escalation
        <3>2. job' \in {"raising", "failed"} => faults' > 0
            BY <1>18, <2>0, <2>f DEF IInv, Owed, SendMail, escalation
        <3>3. (Count(LogOwed) + Count(DiagnosisOwed) + Count(RecordOwed) <= faults)'
            BY <2>f, <3>1, NothingOwed, OneOwed DEF IInv
        <3> QED
            BY <3>2, <3>3 DEF Owed
    <2> QED
        BY <2>1, <2>2, <2>3, <2>4, <2>5, <2>6, <2>7 DEF IInv
<1>19. CASE Record
    <2>0. Fault \/ UNCHANGED faults
        BY <1>19 DEF Record, MaybeFault
    <2>f. /\ faults' \in 0 .. MaxFaults /\ faults' \in Nat /\ faults \in Nat
          /\ faults <= faults' /\ stuck <= faults'
          /\ Fault => faults' = faults + 1 /\ faults' > 0 /\ stuck + 1 <= faults'
          /\ Fault => stuck + 1 \in 0 .. MaxFaults
        BY <1>a, <2>0, FaultsGrow
    <2>1. TypeOK'
        BY <1>19, <2>f, <2>0 DEF IInv, TypeOK, Job, Ended, Recipient, Record,
            MaybeFault, escalation
    <2>2. stuck' <= faults'
        BY <1>19, <2>0, <2>f DEF Record, MaybeFault, escalation
    <2>3. Quiet'
        BY <1>19 DEF IInv, TypeOK, Quiet, Record, MaybeFault, escalation
    <2>4. ThreadStage'
        BY <1>19 DEF IInv, TypeOK, ThreadStage, Ended, Record, MaybeFault, escalation
    <2>5. Unanswered'
        BY <1>19, <1>b DEF IInv, TypeOK, ThreadStage, Unanswered, Record, MaybeFault,
            escalation
    <2>6. Recorded'
        BY <1>19, <2>0, <2>f DEF IInv, TypeOK, Recipient, ThreadStage, Recorded,
            Record, MaybeFault, escalation
    <2>7. Owed'
        <3>1. \/ /\ UNCHANGED faults
                 /\ (LogOwed' => LogOwed) /\ (DiagnosisOwed' => DiagnosisOwed) /\ (RecordOwed' => RecordOwed)
              \/ /\ Fault
                 /\ \/ (LogOwed' => LogOwed) /\ (DiagnosisOwed' => DiagnosisOwed)
                    \/ (LogOwed' => LogOwed) /\ (RecordOwed' => RecordOwed)
                    \/ (DiagnosisOwed' => DiagnosisOwed) /\ (RecordOwed' => RecordOwed)
            BY <1>19 DEF IInv, TypeOK, ThreadStage, Recorded, LogOwed, DiagnosisOwed,
                RecordOwed, Record, MaybeFault, escalation
        <3>2. job' \in {"raising", "failed"} => faults' > 0
            BY <1>19, <2>0, <2>f DEF IInv, Owed, Record, MaybeFault, escalation
        <3>3. (Count(LogOwed) + Count(DiagnosisOwed) + Count(RecordOwed) <= faults)'
            BY <2>f, <3>1, NothingOwed, OneOwed DEF IInv
        <3> QED
            BY <3>2, <3>3 DEF Owed
    <2> QED
        BY <2>1, <2>2, <2>3, <2>4, <2>5, <2>6, <2>7 DEF IInv
<1>20. ASSUME NEW p \in Ping, StartPing(p) PROVE IInv'
    <2>0. UNCHANGED faults
        BY <1>20 DEF StartPing, SetPing
    <2>f. /\ faults' \in 0 .. MaxFaults /\ faults' \in Nat /\ faults \in Nat
          /\ faults <= faults' /\ stuck <= faults'
          /\ Fault => faults' = faults + 1 /\ faults' > 0 /\ stuck + 1 <= faults'
          /\ Fault => stuck + 1 \in 0 .. MaxFaults
        BY <1>a, <2>0, FaultsGrow
    <2>1. TypeOK'
        BY <1>20, <2>f, <2>0 DEF IInv, TypeOK, Job, Ended, Recipient, StartPing,
            SetPing, escalation
    <2>2. stuck' <= faults'
        BY <1>20, <2>0, <2>f DEF StartPing, SetPing, escalation
    <2>3. Quiet'
        BY <1>20 DEF IInv, TypeOK, Quiet, StartPing, SetPing, escalation
    <2>4. ThreadStage'
        BY <1>20 DEF IInv, TypeOK, ThreadStage, Ended, StartPing, SetPing, escalation
    <2>5. Unanswered'
        <3>1. thread' = "none" /\ job' = "pinging"
            BY <1>20 DEF IInv, Quiet, ThreadStage, StartPing, SetPing, escalation
        <3> QED
            BY <3>1 DEF Unanswered
    <2>6. Recorded'
        BY <1>20, <2>0, <2>f DEF IInv, TypeOK, Recipient, ThreadStage, Recorded,
            StartPing, SetPing, escalation
    <2>7. Owed'
        <3>1. (LogOwed' => LogOwed) /\ (DiagnosisOwed' => DiagnosisOwed) /\ (RecordOwed' => RecordOwed)
            BY <1>20 DEF IInv, ThreadStage, Recorded, LogOwed, DiagnosisOwed,
                RecordOwed, StartPing, SetPing, escalation
        <3>2. job' \in {"raising", "failed"} => faults' > 0
            BY <1>20 DEF IInv, Owed, StartPing, SetPing, escalation
        <3>3. (Count(LogOwed) + Count(DiagnosisOwed) + Count(RecordOwed) <= faults)'
            BY <2>f, <3>1, NothingOwed DEF IInv
        <3> QED
            BY <3>2, <3>3 DEF Owed
    <2> QED
        BY <2>1, <2>2, <2>3, <2>4, <2>5, <2>6, <2>7 DEF IInv
<1>21. ASSUME NEW p \in Ping, StartFails(p) PROVE IInv'
    <2>0. Fault
        BY <1>21 DEF StartFails, SetPing
    <2>f. /\ faults' \in 0 .. MaxFaults /\ faults' \in Nat /\ faults \in Nat
          /\ faults <= faults' /\ stuck <= faults'
          /\ Fault => faults' = faults + 1 /\ faults' > 0 /\ stuck + 1 <= faults'
          /\ Fault => stuck + 1 \in 0 .. MaxFaults
        BY <1>a, <2>0, FaultsGrow
    <2>1. TypeOK'
        BY <1>21, <2>f, <2>0 DEF IInv, TypeOK, Job, Ended, Recipient, StartFails,
            SetPing, escalation
    <2>2. stuck' <= faults'
        BY <1>21, <2>0, <2>f DEF StartFails, SetPing, escalation
    <2>3. Quiet'
        BY <1>21 DEF IInv, TypeOK, Quiet, StartFails, SetPing, escalation
    <2>4. ThreadStage'
        BY <1>21 DEF IInv, TypeOK, ThreadStage, Ended, StartFails, SetPing, escalation
    <2>5. Unanswered'
        <3>1. thread' = "none" /\ job' = "pinging"
            BY <1>21 DEF IInv, Quiet, ThreadStage, StartFails, SetPing, escalation
        <3> QED
            BY <3>1 DEF Unanswered
    <2>6. Recorded'
        BY <1>21, <2>0, <2>f DEF IInv, TypeOK, Recipient, ThreadStage, Recorded,
            StartFails, SetPing, escalation
    <2>7. Owed'
        <3>1. \/ /\ UNCHANGED faults
                 /\ (LogOwed' => LogOwed) /\ (DiagnosisOwed' => DiagnosisOwed) /\ (RecordOwed' => RecordOwed)
              \/ /\ Fault
                 /\ \/ (LogOwed' => LogOwed) /\ (DiagnosisOwed' => DiagnosisOwed)
                    \/ (LogOwed' => LogOwed) /\ (RecordOwed' => RecordOwed)
                    \/ (DiagnosisOwed' => DiagnosisOwed) /\ (RecordOwed' => RecordOwed)
            BY <1>21 DEF IInv, TypeOK, ThreadStage, Recorded, LogOwed, DiagnosisOwed,
                RecordOwed, StartFails, SetPing, escalation
        <3>2. job' \in {"raising", "failed"} => faults' > 0
            BY <1>21, <2>0, <2>f DEF IInv, Owed, StartFails, SetPing, escalation
        <3>3. (Count(LogOwed) + Count(DiagnosisOwed) + Count(RecordOwed) <= faults)'
            BY <2>f, <3>1, NothingOwed, OneOwed DEF IInv
        <3> QED
            BY <3>2, <3>3 DEF Owed
    <2> QED
        BY <2>1, <2>2, <2>3, <2>4, <2>5, <2>6, <2>7 DEF IInv
<1>22. ASSUME NEW p \in Ping, Exit(p) PROVE IInv'
    <2>0. UNCHANGED faults
        BY <1>22 DEF Exit, Verdict, SetPing
    <2>f. /\ faults' \in 0 .. MaxFaults /\ faults' \in Nat /\ faults \in Nat
          /\ faults <= faults' /\ stuck <= faults'
          /\ Fault => faults' = faults + 1 /\ faults' > 0 /\ stuck + 1 <= faults'
          /\ Fault => stuck + 1 \in 0 .. MaxFaults
        BY <1>a, <2>0, FaultsGrow
    <2>1. TypeOK'
        <3>1. \E state \in PingState : SetPing(p, state)
            BY <1>22 DEF Exit, Verdict, PingState
        <3>2. stuck' \in 0 .. MaxFaults /\ UNCHANGED <<job, alert, batch, diagnosed, opened, escalation>>
            BY <1>22, <2>f DEF IInv, TypeOK, Exit
        <3> QED
            BY <2>f, <3>1, <3>2, PingKeepsType DEF IInv, TypeOK, PingState, escalation
    <2>2. stuck' <= faults'
        BY <1>22, <2>0, <2>f DEF Exit, Verdict, SetPing, escalation
    <2>3. Quiet'
        BY <1>22 DEF IInv, TypeOK, Quiet, Exit, Verdict, SetPing, escalation
    <2>4. ThreadStage'
        BY <1>22 DEF IInv, TypeOK, ThreadStage, Ended, Exit, Verdict, SetPing,
            escalation
    <2>5. Unanswered'
        <3>1. thread' = "none" /\ job' = "pinging"
            BY <1>22 DEF IInv, Quiet, ThreadStage, Exit, Verdict, SetPing, escalation
        <3> QED
            BY <3>1 DEF Unanswered
    <2>6. Recorded'
        BY <1>22, <2>0, <2>f DEF IInv, TypeOK, Recipient, ThreadStage, Recorded, Exit,
            Verdict, SetPing, escalation
    <2>7. Owed'
        <3>1. (LogOwed' => LogOwed) /\ (DiagnosisOwed' => DiagnosisOwed) /\ (RecordOwed' => RecordOwed)
            BY <1>22 DEF IInv, ThreadStage, Recorded, LogOwed, DiagnosisOwed,
                RecordOwed, Exit, Verdict, SetPing, escalation
        <3>2. job' \in {"raising", "failed"} => faults' > 0
            BY <1>22 DEF IInv, Owed, Exit, Verdict, SetPing, escalation
        <3>3. (Count(LogOwed) + Count(DiagnosisOwed) + Count(RecordOwed) <= faults)'
            BY <2>f, <3>1, NothingOwed DEF IInv
        <3> QED
            BY <3>2, <3>3 DEF Owed
    <2> QED
        BY <2>1, <2>2, <2>3, <2>4, <2>5, <2>6, <2>7 DEF IInv
<1>23. ASSUME NEW p \in Ping, Kill(p) PROVE IInv'
    <2>0. UNCHANGED faults
        BY <1>23 DEF Kill, SetPing
    <2>f. /\ faults' \in 0 .. MaxFaults /\ faults' \in Nat /\ faults \in Nat
          /\ faults <= faults' /\ stuck <= faults'
          /\ Fault => faults' = faults + 1 /\ faults' > 0 /\ stuck + 1 <= faults'
          /\ Fault => stuck + 1 \in 0 .. MaxFaults
        BY <1>a, <2>0, FaultsGrow
    <2>1. TypeOK'
        <3>1. \E state \in PingState : SetPing(p, state)
            BY <1>23 DEF Kill, PingState
        <3>2. stuck' \in 0 .. MaxFaults /\ UNCHANGED <<job, alert, batch, diagnosed, opened, escalation>>
            BY <1>23, <2>f DEF IInv, TypeOK, Kill
        <3> QED
            BY <2>f, <3>1, <3>2, PingKeepsType DEF IInv, TypeOK, PingState, escalation
    <2>2. stuck' <= faults'
        BY <1>23, <2>0, <2>f DEF Kill, SetPing, escalation
    <2>3. Quiet'
        BY <1>23 DEF IInv, TypeOK, Quiet, Kill, SetPing, escalation
    <2>4. ThreadStage'
        BY <1>23 DEF IInv, TypeOK, ThreadStage, Ended, Kill, SetPing, escalation
    <2>5. Unanswered'
        <3>1. thread' = "none" /\ job' = "pinging"
            BY <1>23 DEF IInv, Quiet, ThreadStage, Kill, SetPing, escalation
        <3> QED
            BY <3>1 DEF Unanswered
    <2>6. Recorded'
        BY <1>23, <2>0, <2>f DEF IInv, TypeOK, Recipient, ThreadStage, Recorded, Kill,
            SetPing, escalation
    <2>7. Owed'
        <3>1. (LogOwed' => LogOwed) /\ (DiagnosisOwed' => DiagnosisOwed) /\ (RecordOwed' => RecordOwed)
            BY <1>23 DEF IInv, ThreadStage, Recorded, LogOwed, DiagnosisOwed,
                RecordOwed, Kill, SetPing, escalation
        <3>2. job' \in {"raising", "failed"} => faults' > 0
            BY <1>23 DEF IInv, Owed, Kill, SetPing, escalation
        <3>3. (Count(LogOwed) + Count(DiagnosisOwed) + Count(RecordOwed) <= faults)'
            BY <2>f, <3>1, NothingOwed DEF IInv
        <3> QED
            BY <3>2, <3>3 DEF Owed
    <2> QED
        BY <2>1, <2>2, <2>3, <2>4, <2>5, <2>6, <2>7 DEF IInv
<1>24. ASSUME NEW p \in Ping, Reap(p) PROVE IInv'
    <2>0. UNCHANGED faults
        BY <1>24 DEF Reap, SetPing
    <2>f. /\ faults' \in 0 .. MaxFaults /\ faults' \in Nat /\ faults \in Nat
          /\ faults <= faults' /\ stuck <= faults'
          /\ Fault => faults' = faults + 1 /\ faults' > 0 /\ stuck + 1 <= faults'
          /\ Fault => stuck + 1 \in 0 .. MaxFaults
        BY <1>a, <2>0, FaultsGrow
    <2>1. TypeOK'
        <3>1. \E state \in PingState : SetPing(p, state)
            BY <1>24 DEF Reap, PingState
        <3>2. stuck' \in 0 .. MaxFaults /\ UNCHANGED <<job, alert, batch, diagnosed, opened, escalation>>
            BY <1>24, <2>f DEF IInv, TypeOK, Reap
        <3> QED
            BY <2>f, <3>1, <3>2, PingKeepsType DEF IInv, TypeOK, PingState, escalation
    <2>2. stuck' <= faults'
        BY <1>24, <2>0, <2>f DEF Reap, SetPing, escalation
    <2>3. Quiet'
        BY <1>24 DEF IInv, TypeOK, Quiet, Reap, SetPing, escalation
    <2>4. ThreadStage'
        BY <1>24 DEF IInv, TypeOK, ThreadStage, Ended, Reap, SetPing, escalation
    <2>5. Unanswered'
        <3>1. thread' = "none" /\ job' = "pinging"
            BY <1>24 DEF IInv, Quiet, ThreadStage, Reap, SetPing, escalation
        <3> QED
            BY <3>1 DEF Unanswered
    <2>6. Recorded'
        BY <1>24, <2>0, <2>f DEF IInv, TypeOK, Recipient, ThreadStage, Recorded, Reap,
            SetPing, escalation
    <2>7. Owed'
        <3>1. (LogOwed' => LogOwed) /\ (DiagnosisOwed' => DiagnosisOwed) /\ (RecordOwed' => RecordOwed)
            BY <1>24 DEF IInv, ThreadStage, Recorded, LogOwed, DiagnosisOwed,
                RecordOwed, Reap, SetPing, escalation
        <3>2. job' \in {"raising", "failed"} => faults' > 0
            BY <1>24 DEF IInv, Owed, Reap, SetPing, escalation
        <3>3. (Count(LogOwed) + Count(DiagnosisOwed) + Count(RecordOwed) <= faults)'
            BY <2>f, <3>1, NothingOwed DEF IInv
        <3> QED
            BY <3>2, <3>3 DEF Owed
    <2> QED
        BY <2>1, <2>2, <2>3, <2>4, <2>5, <2>6, <2>7 DEF IInv
<1>25. ASSUME NEW p \in Ping, LeaveStuck(p) PROVE IInv'
    <2>0. Fault
        BY <1>25 DEF LeaveStuck, SetPing
    <2>f. /\ faults' \in 0 .. MaxFaults /\ faults' \in Nat /\ faults \in Nat
          /\ faults <= faults' /\ stuck <= faults'
          /\ Fault => faults' = faults + 1 /\ faults' > 0 /\ stuck + 1 <= faults'
          /\ Fault => stuck + 1 \in 0 .. MaxFaults
        BY <1>a, <2>0, FaultsGrow
    <2>1. TypeOK'
        <3>1. \E state \in PingState : SetPing(p, state)
            BY <1>25 DEF LeaveStuck, PingState
        <3>2. stuck' \in 0 .. MaxFaults /\ UNCHANGED <<job, alert, batch, diagnosed, opened, escalation>>
            BY <1>25, <2>f DEF IInv, TypeOK, LeaveStuck
        <3> QED
            BY <2>f, <3>1, <3>2, PingKeepsType DEF IInv, TypeOK, PingState, escalation
    <2>2. stuck' <= faults'
        BY <1>25, <2>0, <2>f DEF LeaveStuck, SetPing, escalation
    <2>3. Quiet'
        BY <1>25 DEF IInv, TypeOK, Quiet, LeaveStuck, SetPing, escalation
    <2>4. ThreadStage'
        BY <1>25 DEF IInv, TypeOK, ThreadStage, Ended, LeaveStuck, SetPing, escalation
    <2>5. Unanswered'
        <3>1. thread' = "none" /\ job' = "pinging"
            BY <1>25 DEF IInv, Quiet, ThreadStage, LeaveStuck, SetPing, escalation
        <3> QED
            BY <3>1 DEF Unanswered
    <2>6. Recorded'
        BY <1>25, <2>0, <2>f DEF IInv, TypeOK, Recipient, ThreadStage, Recorded,
            LeaveStuck, SetPing, escalation
    <2>7. Owed'
        <3>1. \/ /\ UNCHANGED faults
                 /\ (LogOwed' => LogOwed) /\ (DiagnosisOwed' => DiagnosisOwed) /\ (RecordOwed' => RecordOwed)
              \/ /\ Fault
                 /\ \/ (LogOwed' => LogOwed) /\ (DiagnosisOwed' => DiagnosisOwed)
                    \/ (LogOwed' => LogOwed) /\ (RecordOwed' => RecordOwed)
                    \/ (DiagnosisOwed' => DiagnosisOwed) /\ (RecordOwed' => RecordOwed)
            BY <1>25 DEF IInv, TypeOK, ThreadStage, Recorded, LogOwed, DiagnosisOwed,
                RecordOwed, LeaveStuck, SetPing, escalation
        <3>2. job' \in {"raising", "failed"} => faults' > 0
            BY <1>25, <2>0, <2>f DEF IInv, Owed, LeaveStuck, SetPing, escalation
        <3>3. (Count(LogOwed) + Count(DiagnosisOwed) + Count(RecordOwed) <= faults)'
            BY <2>f, <3>1, NothingOwed, OneOwed DEF IInv
        <3> QED
            BY <3>2, <3>3 DEF Owed
    <2> QED
        BY <2>1, <2>2, <2>3, <2>4, <2>5, <2>6, <2>7 DEF IInv
<1>26. CASE UNCHANGED vars
    <2>1. Owed'
        BY <1>26 DEF IInv, Owed, LogOwed, DiagnosisOwed, RecordOwed, Count, escalation, vars
    <2>2. Unanswered'
        BY <1>26, <1>b DEF IInv, Unanswered, escalation, vars
    <2> QED
        BY <1>26, <2>1, <2>2 DEF IInv, TypeOK, Quiet, ThreadStage, Recorded, escalation, vars
<1> QED
    BY <1>1, <1>2, <1>3, <1>4, <1>5, <1>6, <1>7, <1>8, <1>9, <1>10, <1>11, <1>12, <1>13,
       <1>14, <1>15, <1>16, <1>17, <1>18, <1>19, <1>20, <1>21, <1>22, <1>23, <1>24,
       <1>25, <1>26
    DEF Next, Workflow, Pinging, Escalate

THEOREM Invariance == Spec => []IInv
BY InitInvariant, NextInvariant, PTL DEF Spec

(***************************************************************************)
(* Its consequences                                                        *)
(***************************************************************************)

\* Variables keep their types.
THEOREM TypeCorrect == Spec => []TypeOK
<1>1. IInv => TypeOK
    BY DEF IInv
<1> QED
    BY Invariance, <1>1, PTL

\* The ISP hears of no outage whose site has answered a ping of the diagnosis.
THEOREM NoFalseEscalation == Spec => []EscalatedUnanswered
<1>1. IInv => EscalatedUnanswered
    BY DEF IInv, Unanswered, AllLost, EscalatedUnanswered
<1> QED
    BY Invariance, <1>1, PTL

\* A task ends with no ping process and no escalation under way.
THEOREM QuietEnd == Spec => []EndedIsQuiet
<1>1. IInv => EndedIsQuiet
    BY DEF IInv, Quiet, ThreadStage, Ended, EndedIsQuiet, Slots
<1> QED
    BY Invariance, <1>1, PTL

\* An escalation is recorded as sent only if somebody was mailed, and as not sent
\* although somebody was only after an error.
THEOREM TruthfulRecord == Spec => []RecordTruthful
<1>1. IInv => RecordTruthful
    BY DEF IInv, Recorded
<1> QED
    BY Invariance, <1>1, PTL

\* Each trace a finished workflow has not left of an outage or of a mailed escalation
\* has cost an error of its own.
THEOREM OutageIsLogged == Spec => []OutageLogged
<1>1. IInv => OutageLogged
    <2> SUFFICES ASSUME IInv PROVE OutageLogged
        OBVIOUS
    <2>1. job = "failed" => faults > 0
        BY DEF IInv, Owed
    <2>2. ASSUME job = "done"
          PROVE  /\ ~opened => LogOwed
                 /\ mailed # {} /\ ~diagnosed => DiagnosisOwed
                 /\ mailed # {} /\ escalated = "none" => RecordOwed
        <3>1. thread \in {"none", "ended"}
            BY <2>2 DEF IInv, ThreadStage, Ended
        <3> QED
            BY <2>2, <3>1 DEF IInv, Recorded, LogOwed, DiagnosisOwed, RecordOwed
    <2>3. ASSUME job = "done"
          PROVE  Count(~opened) + Count(mailed # {} /\ ~diagnosed)
                     + Count(mailed # {} /\ escalated = "none") <= faults
        <3> DEFINE l == ~opened
                   d == mailed # {} /\ ~diagnosed
                   r == mailed # {} /\ escalated = "none"
        <3>1. /\ Count(l) \in {0, 1} /\ Count(d) \in {0, 1} /\ Count(r) \in {0, 1}
              /\ Count(LogOwed) \in {0, 1} /\ Count(DiagnosisOwed) \in {0, 1}
              /\ Count(RecordOwed) \in {0, 1}
            BY DEF Count
        <3>2. /\ Count(l) <= Count(LogOwed) /\ Count(d) <= Count(DiagnosisOwed)
              /\ Count(r) <= Count(RecordOwed)
            BY <2>2, <2>3 DEF Count
        <3>3. /\ Count(LogOwed) + Count(DiagnosisOwed) + Count(RecordOwed) <= faults
              /\ faults \in Nat
            <4>1. MaxFaults \in Nat /\ faults \in 0 .. MaxFaults
                BY ConstantsAssumption DEF IInv, TypeOK
            <4> QED
                BY <4>1 DEF IInv, Owed
        <3> HIDE DEF l, d, r
        <3>4. Count(l) + Count(d) + Count(r) <= faults
            BY <3>1, <3>2, <3>3
        <3> QED
            BY <3>4 DEF l, d, r
    <2> QED
        BY <2>1, <2>3 DEF OutageLogged
<1> QED
    BY Invariance, <1>1, PTL

(***************************************************************************)
(* The semaphore                                                           *)
(***************************************************************************)

Bounded == Cardinality(Slots) <= MaxPings

\* A set of slots within another is finite and no larger.
LEMMA SlotsShrink ==
    ASSUME NEW S \in SUBSET Ping, NEW T \in SUBSET S, Cardinality(S) <= MaxPings
    PROVE  Cardinality(T) <= MaxPings
<1>1. IsFiniteSet(Ping)
    BY ConstantsAssumption, FS_Interval DEF Ping
<1>2. IsFiniteSet(S)
    BY <1>1, FS_Subset
<1>3. Cardinality(T) <= Cardinality(S) /\ IsFiniteSet(T)
    BY <1>2, FS_Subset
<1>4. Cardinality(S) \in Nat /\ Cardinality(T) \in Nat /\ MaxPings \in Nat
    BY <1>2, <1>3, FS_CardinalityType, ConstantsAssumption
<1> QED
    BY <1>3, <1>4

\* One more slot, where fewer than MaxPings are taken, keeps the bound.
LEMMA SlotsGrow ==
    ASSUME NEW S \in SUBSET Ping, NEW p, Cardinality(S) < MaxPings
    PROVE  Cardinality(S \cup {p}) <= MaxPings
<1>1. IsFiniteSet(Ping)
    BY ConstantsAssumption, FS_Interval DEF Ping
<1>2. IsFiniteSet(S)
    BY <1>1, FS_Subset
<1>3. Cardinality(S \cup {p}) \in {Cardinality(S), Cardinality(S) + 1}
    BY <1>2, FS_AddElement
<1>4. Cardinality(S) \in Nat /\ MaxPings \in Nat
    BY <1>2, FS_CardinalityType, ConstantsAssumption
<1> QED
    BY <1>3, <1>4

LEMMA BoundedInit == Init => Bounded
<1> SUFFICES ASSUME Init PROVE Bounded
    OBVIOUS
<1>1. Slots = {}
    BY DEF Init, Slots
<1>2. Cardinality({}) = 0
    BY FS_EmptySet
<1> QED
    BY <1>1, <1>2, ConstantsAssumption DEF Bounded

LEMMA BoundedNext == TypeOK /\ Bounded /\ [Next]_vars => Bounded'
<1> SUFFICES ASSUME TypeOK, Bounded, [Next]_vars PROVE Bounded'
    OBVIOUS
<1>1. Slots \in SUBSET Ping
    BY DEF Slots
<1>2. ASSUME Slots' \subseteq Slots PROVE Bounded'
    BY <1>1, <1>2, SlotsShrink DEF Bounded
<1>3. ASSUME NEW p \in Ping, StartPing(p) PROVE Bounded'
    <2>1. Slots' \subseteq Slots \cup {p}
        BY <1>3 DEF TypeOK, StartPing, SetPing, Slots
    <2>2. Cardinality(Slots \cup {p}) <= MaxPings
        BY <1>1, <1>3, SlotsGrow DEF StartPing
    <2>3. Slots \cup {p} \in SUBSET Ping
        BY <1>1
    <2> QED
        BY <2>1, <2>2, <2>3, SlotsShrink DEF Bounded
<1>4. CASE StartBatch
    <2>1. Slots' \subseteq Slots
        BY <1>4 DEF StartBatch, Slots
    <2> QED
        BY <1>2, <2>1
<1>5. ASSUME NEW p \in Ping, Pinging(p), ~StartPing(p) PROVE Bounded'
    <2>1. Slots' \subseteq Slots
        BY <1>5 DEF TypeOK, Slots, Pinging, StartFails, Exit, Kill, Reap, LeaveStuck, SetPing,
            Verdict
    <2> QED
        BY <1>2, <2>1
<1>6. CASE UNCHANGED ping
    <2>1. Slots' \subseteq Slots
        BY <1>6 DEF Slots
    <2> QED
        BY <1>2, <2>1
<1> QED
    BY <1>3, <1>4, <1>5, <1>6
    DEF Next, Workflow, Escalate, NoTarget, CreateAlert, CreateRaises, RefuseTarget,
        SkipBatches, EndBatch, CloseLogs, Persist, Dispatch, DispatchFails, Dispatched, GiveUp,
        OpenLog, OpenLogRaises, Finish, Address, SendMail, Record, vars

\* No more ping processes than slots, but for those a kill could not end.
THEOREM BoundedProcesses == Spec => []ProcessesBounded
<1>1. IInv /\ Bounded => ProcessesBounded
    <2> SUFFICES ASSUME IInv, Bounded PROVE ProcessesBounded
        OBVIOUS
    <2>1. IsFiniteSet(Slots)
        <3>1. IsFiniteSet(Ping)
            BY ConstantsAssumption, FS_Interval DEF Ping
        <3> QED
            BY <3>1, FS_Subset DEF Slots
    <2>2. Cardinality(Slots) \in Nat /\ MaxPings \in Nat
        BY <2>1, FS_CardinalityType, ConstantsAssumption
    <2>3. stuck \in 0 .. MaxFaults /\ faults \in 0 .. MaxFaults /\ stuck <= faults
        BY DEF IInv, TypeOK
    <2>4. MaxFaults \in Nat
        BY ConstantsAssumption
    <2> QED
        BY <2>2, <2>3, <2>4 DEF Bounded, ProcessesBounded
<1>2. Spec => []Bounded
    BY TypeCorrect, BoundedInit, BoundedNext, PTL DEF Spec
<1> QED
    BY Invariance, <1>1, <1>2, PTL
===============================================================================
