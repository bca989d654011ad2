-------------------------- MODULE SensorOutageProofs --------------------------
(***************************************************************************)
(* Theorems about SensorAlerts, for any number of workers: until the first *)
(* error and the first overlap of a recovery with another event, whatever  *)
(* is reported, expires or crashes, recoveries close everything they can   *)
(* see and no outage is dropped.  After either, neither holds.             *)
(***************************************************************************)
EXTENDS SensorAlertsProofs

Up(m) == event[m] = "Up"

(***************************************************************************)
(* Order.  Problems may overtake one another, but no event overtakes a     *)
(* recovery and no recovery an event: a crash puts the message back in     *)
(* front of the queue, and before the first error nothing is retried.      *)
(***************************************************************************)

\* A message is in the queue once, and its event has been reported.
QueueOK ==
    /\ eta = {}
    /\ \A m \in Event :
        /\ pc[m] # "dead"
        /\ pc[m] = "unreported" <=> m > last
        /\ pc[m] = "queued" <=> \E i \in DOMAIN queue : queue[i] = m
    /\ \A i, j \in DOMAIN queue : i < j =>
        /\ queue[i] # queue[j]
        /\ Up(queue[i]) \/ Up(queue[j]) => queue[i] < queue[j]

\* A recovery is taken when all before it is done, and done before more is taken.
UpsInTurn ==
    \A u \in Event : Up(u) =>
        /\ pc[u] \in Running \cup {"acked"} => \A n \in Event : n < u => pc[n] = "acked"
        /\ pc[u] # "acked" => \A n \in Event : n > u => pc[n] \in {"queued", "unreported"}

OrderOK == QueueOK /\ UpsInTurn

\* Nothing is reported yet.
LEMMA OrderInit == Init => OrderOK
<1> SUFFICES ASSUME Init PROVE OrderOK
    OBVIOUS
<1>1. last = 0 /\ eta = {} /\ DOMAIN queue = {}
    BY DEF Init
<1>2. \A m \in Event : m > 0 /\ pc[m] = "unreported"
    BY DEF Init, Event
<1> QED
    BY <1>1, <1>2 DEF OrderOK, QueueOK, UpsInTurn, Running

\* The types the arithmetic on the queue needs.
LEMMA OrderTypes ==
    ASSUME TypeOK
    PROVE  /\ last \in Nat /\ last <= MaxEvents
           /\ queue \in Seq(Event) /\ Len(queue) \in Nat /\ DOMAIN queue = 1 .. Len(queue)
           /\ Event \subseteq Nat /\ \A m \in Event : m >= 1
           /\ pc \in [Event -> PC] /\ event \in [Event -> Reported]
BY ConstantsAssumption DEF TypeOK, BrokerTypeOK, TaskTypeOK, Event

\* While a task runs, a recovery that is not done yet is its own or one that follows,
\* and while a recovery runs, nothing else does.
LEMMA RunsInTurn ==
    ASSUME TypeOK, OrderOK, NEW m \in Event, pc[m] \in Running
    PROVE  /\ \A u \in Event : Up(u) /\ pc[u] # "acked" => u = m \/ m < u
           /\ Up(m) => /\ \A n \in Event : n < m => pc[n] = "acked"
                       /\ \A n \in Event \ {m} : pc[n] \in {"acked", "queued", "unreported"}
           /\ ~Up(m) => \A u \in Event :
                  Up(u) => pc[u] \in {"acked", "queued", "unreported"}
           /\ pc[last] # "acked" \/ ~Up(last) \/ last \notin Event
<1>1. \A n \in Event : n \in Nat
    BY OrderTypes
<1>2. pc[m] \notin {"queued", "unreported", "acked"}
    BY DEF Running
<1>3. ASSUME NEW u \in Event, Up(u), pc[u] # "acked" PROVE u = m \/ m < u
    BY <1>1, <1>2, <1>3 DEF OrderOK, UpsInTurn
<1>4. ASSUME Up(m)
      PROVE  /\ \A n \in Event : n < m => pc[n] = "acked"
             /\ \A n \in Event \ {m} : pc[n] \in {"acked", "queued", "unreported"}
    <2>1. /\ \A n \in Event : n < m => pc[n] = "acked"
          /\ \A n \in Event : n > m => pc[n] \in {"queued", "unreported"}
        BY <1>2, <1>4 DEF OrderOK, UpsInTurn
    <2>2. \A n \in Event \ {m} : n < m \/ n > m
        BY <1>1
    <2> QED
        BY <2>1, <2>2
<1>5. ASSUME ~Up(m), NEW u \in Event, Up(u)
      PROVE  pc[u] \in {"acked", "queued", "unreported"}
    <2>1. u # m /\ (u < m \/ m < u)
        BY <1>1, <1>5
    <2>2. u < m => pc[u] = "acked"
        BY <1>1, <1>3, <1>5
    <2>3. pc[u] \in Running => ~(m < u)
        BY <1>2, <1>5 DEF OrderOK, UpsInTurn
    <2>4. pc[u] \in Running \cup {"acked", "queued", "unreported"}
        BY OrderTypes DEF PC, OrderOK, QueueOK
    <2> QED
        BY <2>1, <2>2, <2>3, <2>4
<1>6. ASSUME last \in Event, Up(last), pc[last] = "acked" PROVE FALSE
    <2>1. ~(m < last)
        BY <1>2, <1>6 DEF OrderOK, UpsInTurn
    <2>2. ~(m > last)
        BY <1>2 DEF OrderOK, QueueOK
    <2>3. m # last /\ (m < last \/ m > last)
        BY <1>1, <1>2, <1>6
    <2> QED
        BY <2>1, <2>2, <2>3
<1> QED
    BY <1>3, <1>4, <1>5, <1>6

\* Up to the first error no step has failed, and errors are never forgotten.
LEMMA NoFaults == ASSUME TypeOK, faults' = 0 PROVE ~Fault
BY ConstantsAssumption DEF TypeOK, BoundsOK, Fault

\* Errors are counted, and overlaps noted, for good.
LEMMA DisturbedStays ==
    ASSUME TypeOK, [Next]_vars, ~overlapped', faults' = 0
    PROVE  faults = 0 /\ ~overlapped
<1>1. ~Fault
    BY NoFaults
<1>2. faults = faults' /\ (overlapped => overlapped')
    <2>1. CASE ReceiveWebhook \/ StateTTL \/ UNCHANGED vars
        BY <2>1 DEF ReceiveWebhook, StateTTL, vars, boundVars, historyVars
    <2>2. ASSUME NEW m \in Event, Deliver(m) \/ Retry(m) \/ LoseWorker(m)
          PROVE  faults = faults' /\ (overlapped => overlapped')
        <3>1. CASE Deliver(m)
            <4>1. overlapped' = (overlapped \/ \E n \in UnderWay : "Up" \in {event[m], event[n]})
                BY <3>1 DEF Deliver
            <4>2. overlapped => overlapped'
                BY <4>1
            <4> QED
                BY <3>1, <4>2 DEF Deliver, boundVars
        <3>2. ~Retry(m)
            BY <1>1 DEF Retry
        <3>3. CASE LoseWorker(m)
            BY <3>3 DEF LoseWorker, historyVars
        <3> QED
            BY <2>2, <3>1, <3>2, <3>3
    <2>3. ASSUME NEW m \in Event, Workflow(m)
          PROVE  faults = faults' /\ (overlapped => overlapped')
        BY <1>1, <2>3
        DEF Workflow, SensorNotFound, CreateAlert, CreateAlertFails, PingRecovered,
            PingUnreachable, PingFails, MailSupport, RecordSupport, WriteLog,
            ResolveAlerts, ResolveRolledBack, boundVars, historyVars
    <2>4. ASSUME NEW m \in Event, Task(m), ~Workflow(m)
          PROVE  faults = faults' /\ (overlapped => overlapped')
        BY <1>1, <2>4
        DEF Task, IgnoreDuplicate, Dispatch, DispatchUnchecked, SetSensorState,
            SetSensorStateFails, Acknowledge, boundVars, historyVars
    <2> QED
        BY <2>1, <2>2, <2>3, <2>4 DEF Next
<1> QED
    BY <1>2

\* Every step of a task leaves the broker's messages and moves the task on.
LEMMA TaskMoves ==
    ASSUME TypeOK, faults' = 0, NEW m \in Event, Task(m)
    PROVE  /\ pc[m] \in Running /\ UNCHANGED <<event, last, queue, eta>>
           /\ \E l \in Running \cup {"acked"} : Goto(m, l)
<1>1. ~Fault
    BY NoFaults
<1>2. UNCHANGED <<event, last, queue, eta>>
    BY <1>1
    DEF Task, IgnoreDuplicate, Dispatch, DispatchUnchecked, SetSensorState,
        SetSensorStateFails, Acknowledge, Workflow, SensorNotFound, CreateAlert,
        CreateAlertFails, PingRecovered, PingUnreachable, PingFails, MailSupport,
        RecordSupport, WriteLog, ResolveAlerts, ResolveRolledBack, brokerVars
<1>3. CASE Workflow(m)
    BY <1>1, <1>2, <1>3
    DEF Workflow, SensorNotFound, CreateAlert, CreateAlertFails, PingRecovered,
        PingUnreachable, PingFails, MailSupport, RecordSupport, WriteLog,
        ResolveAlerts, ResolveRolledBack, Complete, Running
<1>4. CASE IgnoreDuplicate(m) \/ Dispatch(m) \/ SetSensorState(m) \/ Acknowledge(m)
    BY <1>2, <1>4 DEF IgnoreDuplicate, Dispatch, SetSensorState, Acknowledge, Running
<1> QED
    BY <1>1, <1>3, <1>4 DEF Task, DispatchUnchecked, SetSensorStateFails

\* A new message goes to the end of the queue.
LEMMA ReceiveKeepsOrder ==
    ASSUME TypeOK, OrderOK, ReceiveWebhook
    PROVE  OrderOK'
<1>0. /\ last \in Nat /\ queue \in Seq(Event) /\ DOMAIN queue = 1 .. Len(queue)
      /\ Len(queue) \in Nat /\ \A n \in Event : n \in Nat
    BY OrderTypes
<1> DEFINE m == last + 1
<1>1. m \in Event /\ m > last /\ last' = m /\ eta' = eta /\ event' = event
    BY <1>0, ConstantsAssumption DEF ReceiveWebhook, Event
<1>2. pc'[m] = "queued" /\ pc[m] = "unreported" /\ \A n \in Event \ {m} : pc'[n] = pc[n]
    BY <1>1, OrderTypes DEF ReceiveWebhook, Goto, OrderOK, QueueOK
<1>3. /\ DOMAIN queue' = 1 .. (Len(queue) + 1)
      /\ queue'[Len(queue) + 1] = m
      /\ \A i \in DOMAIN queue : queue'[i] = queue[i] /\ queue[i] \in Event
    BY <1>0, <1>1 DEF ReceiveWebhook
<1>4. \A i \in DOMAIN queue' : i \in DOMAIN queue \/ i = Len(queue) + 1
    BY <1>0, <1>3
<1>5. \A i \in DOMAIN queue : queue[i] < m /\ i < Len(queue) + 1
    <2> TAKE i \in DOMAIN queue
    <2>1. queue[i] \in Event /\ pc[queue[i]] = "queued"
        BY <1>3 DEF OrderOK, QueueOK
    <2>2. ~(queue[i] > last)
        BY <2>1 DEF OrderOK, QueueOK
    <2> QED
        BY <1>0, <2>1, <2>2
<1>6. \A n \in Event : /\ pc'[n] # "dead"
                       /\ pc'[n] = "unreported" <=> n > last'
    <2> TAKE n \in Event
    <2>1. CASE n = m
        BY <1>0, <1>1, <1>2, <2>1
    <2>2. CASE n # m
        <3>1. n > last <=> n > m
            BY <1>0, <2>2
        <3> QED
            BY <1>1, <1>2, <2>2, <3>1 DEF OrderOK, QueueOK
    <2> QED
        BY <2>1, <2>2
<1>7. \A n \in Event : pc'[n] = "queued" <=> \E i \in DOMAIN queue' : queue'[i] = n
    <2> TAKE n \in Event
    <2>1. pc[n] = "queued" <=> \E i \in DOMAIN queue : queue[i] = n
        BY DEF OrderOK, QueueOK
    <2>2. (\E i \in DOMAIN queue' : queue'[i] = n)
              <=> (n = m \/ \E i \in DOMAIN queue : queue[i] = n)
        BY <1>0, <1>3, <1>4
    <2> QED
        BY <1>2, <2>1, <2>2
<1>8. \A i, j \in DOMAIN queue' : i < j =>
          /\ queue'[i] # queue'[j]
          /\ Up(queue'[i]) \/ Up(queue'[j]) => queue'[i] < queue'[j]
    <2> SUFFICES ASSUME NEW i \in DOMAIN queue', NEW j \in DOMAIN queue', i < j
                 PROVE  /\ queue'[i] # queue'[j]
                        /\ Up(queue'[i]) \/ Up(queue'[j]) => queue'[i] < queue'[j]
        OBVIOUS
    <2>1. i \in DOMAIN queue
        BY <1>0, <1>3
    <2>2. CASE j \in DOMAIN queue
        BY <1>3, <2>1, <2>2 DEF OrderOK, QueueOK
    <2>3. CASE j = Len(queue) + 1
        BY <1>0, <1>3, <1>5, <2>1, <2>3
    <2> QED
        BY <1>4, <2>2, <2>3
<1>9. QueueOK'
    BY <1>1, <1>6, <1>7, <1>8 DEF OrderOK, QueueOK, Up
<1>10. UpsInTurn'
    <2>1. pc'[m] \notin Running \cup {"acked"} /\ pc[m] # "acked"
        BY <1>2 DEF Running
    <2> QED
        BY <1>1, <1>2, <2>1 DEF OrderOK, UpsInTurn, Up
<1> QED
    BY <1>9, <1>10 DEF OrderOK

\* A message is taken from the front, of a recovery only when nothing runs, and while
\* a recovery runs none.
LEMMA DeliverKeepsOrder ==
    ASSUME TypeOK, OrderOK, ~overlapped', NEW m \in Event, Deliver(m)
    PROVE  OrderOK'
<1>0. /\ queue \in Seq(Event) /\ DOMAIN queue = 1 .. Len(queue)
      /\ Len(queue) \in Nat /\ \A n \in Event : n \in Nat
    BY OrderTypes
<1>1. /\ queue # <<>> /\ m = Head(queue) /\ queue' = Tail(queue)
      /\ eta' = eta /\ last' = last /\ event' = event /\ pc[m] = "queued"
    BY DEF Deliver, OrderOK, QueueOK
<1>2. pc'[m] = "received" /\ \A n \in Event \ {m} : pc'[n] = pc[n]
    BY OrderTypes DEF Deliver, Goto
<1>3. \A n \in Event : pc[n] \in Running => ~Up(m) /\ ~Up(n)
    BY DEF Deliver, UnderWay, Up
<1>4. /\ DOMAIN queue' = 1 .. (Len(queue) - 1) /\ Len(queue) >= 1
      /\ \A i \in DOMAIN queue' : i + 1 \in DOMAIN queue /\ queue'[i] = queue[i + 1]
      /\ 1 \in DOMAIN queue /\ queue[1] = m
    BY <1>0, <1>1
<1>5. \A i \in DOMAIN queue : i = 1 \/ (i - 1 \in DOMAIN queue' /\ queue'[i - 1] = queue[i])
    BY <1>0, <1>4
<1>6. ASSUME NEW n \in Event, n # m, pc[n] = "queued", Up(m) \/ Up(n) PROVE m < n
    <2>1. PICK j \in DOMAIN queue : queue[j] = n
        BY <1>6 DEF OrderOK, QueueOK
    <2>2. 1 < j
        BY <1>0, <1>4, <1>6, <2>1
    <2> QED
        BY <1>4, <1>6, <2>1, <2>2 DEF OrderOK, QueueOK
<1>7. \A n \in Event : /\ pc'[n] # "dead"
                       /\ pc'[n] = "unreported" <=> n > last'
    BY <1>1, <1>2 DEF OrderOK, QueueOK
<1>8. \A n \in Event : pc'[n] = "queued" <=> \E i \in DOMAIN queue' : queue'[i] = n
    <2> TAKE n \in Event
    <2>1. pc[n] = "queued" <=> \E i \in DOMAIN queue : queue[i] = n
        BY DEF OrderOK, QueueOK
    <2>2. CASE n = m
        <3>1. \A i \in DOMAIN queue' : queue'[i] # m
            <4> TAKE i \in DOMAIN queue'
            <4>1. 1 < i + 1
                BY <1>4, <1>0
            <4> QED
                BY <1>4, <4>1 DEF OrderOK, QueueOK
        <3> QED
            BY <1>2, <2>2, <3>1
    <2>3. CASE n # m
        BY <1>2, <1>4, <1>5, <2>1, <2>3
    <2> QED
        BY <2>2, <2>3
<1>9. \A i, j \in DOMAIN queue' : i < j =>
          /\ queue'[i] # queue'[j]
          /\ Up(queue'[i]) \/ Up(queue'[j]) => queue'[i] < queue'[j]
    <2> SUFFICES ASSUME NEW i \in DOMAIN queue', NEW j \in DOMAIN queue', i < j
                 PROVE  /\ queue'[i] # queue'[j]
                        /\ Up(queue'[i]) \/ Up(queue'[j]) => queue'[i] < queue'[j]
        OBVIOUS
    <2>1. i + 1 < j + 1
        BY <1>0, <1>4
    <2> QED
        BY <1>4, <2>1 DEF OrderOK, QueueOK
<1>10. QueueOK'
    BY <1>1, <1>7, <1>8, <1>9 DEF OrderOK, QueueOK, Up
<1>11. ASSUME NEW u \in Event, Up(u), pc'[u] \in Running \cup {"acked"}, NEW n \in Event, n < u
       PROVE  pc'[n] = "acked"
    <2>1. CASE u = m
        <3>1. n # m /\ pc[n] \notin Running
            BY <1>0, <1>3, <1>11, <2>1
        <3>2. pc[n] # "queued"
            BY <1>0, <1>6, <1>11, <2>1, <3>1
        <3>3. pc[n] # "unreported"
            <4>1. ~(m > last) /\ last \in Nat
                BY <1>1, OrderTypes DEF OrderOK, QueueOK
            <4>2. ~(n > last)
                BY <1>0, <1>11, <2>1, <4>1
            <4> QED
                BY <4>2 DEF OrderOK, QueueOK
        <3>4. pc[n] \in PC /\ pc[n] # "dead"
            BY OrderTypes DEF OrderOK, QueueOK
        <3> QED
            BY <1>2, <3>1, <3>2, <3>3, <3>4 DEF PC
    <2>2. CASE u # m
        <3>1. pc[n] = "acked"
            BY <1>2, <1>11, <2>2 DEF OrderOK, UpsInTurn
        <3> QED
            BY <1>1, <1>2, <3>1
    <2> QED
        BY <2>1, <2>2
<1>12. ASSUME NEW u \in Event, Up(u), pc'[u] # "acked", NEW n \in Event, n > u
       PROVE  pc'[n] \in {"queued", "unreported"}
    <2>1. pc[u] # "acked"
        BY <1>1, <1>2, <1>12
    <2>2. pc[n] \in {"queued", "unreported"}
        BY <1>12, <2>1 DEF OrderOK, UpsInTurn
    <2>3. CASE n # m
        BY <1>2, <2>2, <2>3
    <2>4. CASE n = m
        <3>1. u # m /\ pc[u] \notin Running /\ ~(m < u)
            BY <1>0, <1>3, <1>12, <2>4
        <3>2. pc[u] # "queued"
            BY <1>6, <1>12, <3>1
        <3>3. pc[u] # "unreported"
            <4>1. ~(m > last) /\ last \in Nat
                BY <1>1, OrderTypes DEF OrderOK, QueueOK
            <4>2. ~(u > last)
                BY <1>0, <1>12, <2>4, <4>1
            <4> QED
                BY <4>2 DEF OrderOK, QueueOK
        <3>4. pc[u] \in PC /\ pc[u] # "dead"
            BY OrderTypes DEF OrderOK, QueueOK
        <3> QED
            BY <2>1, <3>1, <3>2, <3>3, <3>4 DEF PC
    <2> QED
        BY <2>3, <2>4
<1>13. UpsInTurn'
    BY <1>1, <1>11, <1>12 DEF UpsInTurn, Up
<1> QED
    BY <1>10, <1>13 DEF OrderOK

\* A message put back in front is there once, and in turn.
LEMMA LoseKeepsOrder ==
    ASSUME TypeOK, OrderOK, NEW m \in Event, LoseWorker(m)
    PROVE  OrderOK'
<1>0. /\ queue \in Seq(Event) /\ DOMAIN queue = 1 .. Len(queue)
      /\ Len(queue) \in Nat /\ \A n \in Event : n \in Nat
    BY OrderTypes
<1>1. /\ pc[m] \in Running /\ queue' = <<m>> \o queue
      /\ eta' = eta /\ last' = last /\ event' = event
    BY DEF LoseWorker
<1>2. pc'[m] = "queued" /\ \A n \in Event \ {m} : pc'[n] = pc[n]
    BY OrderTypes DEF LoseWorker, Goto
<1>3. pc[m] \notin {"queued", "unreported", "acked", "dead"}
    BY <1>1 DEF Running
<1>4. /\ DOMAIN queue' = 1 .. (Len(queue) + 1) /\ queue'[1] = m
      /\ \A i \in DOMAIN queue : queue'[i + 1] = queue[i] /\ queue[i] \in Event
    BY <1>0, <1>1
<1>5. \A i \in DOMAIN queue' : i = 1 \/ i - 1 \in DOMAIN queue
    BY <1>0, <1>4
<1>6. \A i \in DOMAIN queue : pc[queue[i]] = "queued" /\ queue[i] # m
    BY <1>3, <1>4 DEF OrderOK, QueueOK
<1>7. ASSUME NEW n \in Event, pc[n] = "queued", Up(m) \/ Up(n) PROVE m < n
    <2>1. n # m /\ ~(n < m /\ Up(m))
        BY <1>1, <1>3, <1>7, RunsInTurn
    <2>2. Up(n) => n = m \/ m < n
        BY <1>1, <1>7, RunsInTurn
    <2> QED
        BY <1>0, <1>7, <2>1, <2>2
<1>8. \A n \in Event : /\ pc'[n] # "dead"
                       /\ pc'[n] = "unreported" <=> n > last'
    BY <1>1, <1>2, <1>3 DEF OrderOK, QueueOK
<1>9. \A n \in Event : pc'[n] = "queued" <=> \E i \in DOMAIN queue' : queue'[i] = n
    <2> TAKE n \in Event
    <2>1. pc[n] = "queued" <=> \E i \in DOMAIN queue : queue[i] = n
        BY DEF OrderOK, QueueOK
    <2>2. (\E i \in DOMAIN queue : queue[i] = n) => \E i \in DOMAIN queue' : queue'[i] = n
        <3> SUFFICES ASSUME NEW i \in DOMAIN queue, queue[i] = n
                     PROVE  \E k \in DOMAIN queue' : queue'[k] = n
            OBVIOUS
        <3>1. i + 1 \in DOMAIN queue' /\ queue'[i + 1] = n
            BY <1>0, <1>4
        <3> QED
            BY <3>1
    <2>3. ASSUME NEW i \in DOMAIN queue', queue'[i] = n
          PROVE  n = m \/ \E k \in DOMAIN queue : queue[k] = n
        <3>1. CASE i = 1
            BY <1>4, <2>3, <3>1
        <3>2. CASE i - 1 \in DOMAIN queue
            <4>1. queue'[(i - 1) + 1] = queue[i - 1] /\ (i - 1) + 1 = i
                BY <1>0, <1>4, <3>2
            <4> QED
                BY <2>3, <3>2, <4>1
        <3> QED
            BY <1>5, <3>1, <3>2
    <2>4. 1 \in DOMAIN queue'
        BY <1>0, <1>4
    <2> QED
        BY <1>2, <1>4, <2>1, <2>2, <2>3, <2>4
<1>10. \A i, j \in DOMAIN queue' : i < j =>
          /\ queue'[i] # queue'[j]
          /\ Up(queue'[i]) \/ Up(queue'[j]) => queue'[i] < queue'[j]
    <2> SUFFICES ASSUME NEW i \in DOMAIN queue', NEW j \in DOMAIN queue', i < j
                 PROVE  /\ queue'[i] # queue'[j]
                        /\ Up(queue'[i]) \/ Up(queue'[j]) => queue'[i] < queue'[j]
        OBVIOUS
    <2>1. j - 1 \in DOMAIN queue /\ queue'[j] = queue[j - 1]
        <3>1. j - 1 \in DOMAIN queue /\ (j - 1) + 1 = j
            BY <1>0, <1>4
        <3> QED
            BY <1>4, <3>1
    <2>2. CASE i = 1
        BY <1>4, <1>6, <1>7, <2>1, <2>2
    <2>3. CASE i - 1 \in DOMAIN queue
        <3>1. (i - 1) + 1 = i /\ i - 1 < j - 1
            BY <1>0, <1>4, <2>3
        <3>2. queue'[i] = queue[i - 1]
            BY <1>4, <2>3, <3>1
        <3> QED
            BY <2>1, <2>3, <3>1, <3>2 DEF OrderOK, QueueOK
    <2> QED
        BY <1>5, <2>2, <2>3
<1>11. QueueOK'
    <2>1. eta' = {} /\ event' = event
        BY <1>1 DEF OrderOK, QueueOK
    <2> QED
        BY <1>8, <1>9, <1>10, <2>1 DEF QueueOK, Up
<1>12. UpsInTurn'
    <2>1. \A n \in Event : pc'[n] = "acked" <=> pc[n] = "acked"
        BY <1>2, <1>3
    <2>2. \A n \in Event : pc'[n] \in Running => pc[n] \in Running
        BY <1>1, <1>2
    <2>3. \A n \in Event : pc[n] \in {"queued", "unreported"} => pc'[n] \in {"queued", "unreported"}
        BY <1>2
    <2> QED
        BY <1>1, <2>1, <2>2, <2>3 DEF OrderOK, UpsInTurn, Up
<1> QED
    BY <1>11, <1>12 DEF OrderOK

\* A task moves on, or is done.
LEMMA TaskKeepsOrder ==
    ASSUME TypeOK, OrderOK, faults' = 0, NEW m \in Event, Task(m)
    PROVE  OrderOK'
<1>1. pc[m] \in Running /\ UNCHANGED <<event, last, queue, eta>>
    BY TaskMoves
<1>2. PICK l \in Running \cup {"acked"} : pc' = [pc EXCEPT ![m] = l]
    BY TaskMoves DEF Goto
<1>3. pc'[m] = l /\ \A n \in Event \ {m} : pc'[n] = pc[n]
    BY <1>2, OrderTypes
<1>4. /\ pc[m] \notin {"queued", "unreported", "acked", "dead"}
      /\ l \notin {"queued", "unreported", "dead"}
    BY <1>1 DEF Running
<1>5. QueueOK'
    <2>1. \A n \in Event : /\ pc'[n] # "dead"
                           /\ pc'[n] = "unreported" <=> pc[n] = "unreported"
                           /\ pc'[n] = "queued" <=> pc[n] = "queued"
        BY <1>3, <1>4 DEF OrderOK, QueueOK
    <2> QED
        BY <1>1, <2>1 DEF OrderOK, QueueOK, Up
<1>6. ASSUME NEW u \in Event, Up(u), pc'[u] \in Running \cup {"acked"}, NEW n \in Event, n < u
      PROVE  pc'[n] = "acked"
    <2>1. pc[u] \in Running \cup {"acked"}
        BY <1>1, <1>3, <1>6
    <2>2. pc[n] = "acked"
        BY <1>6, <2>1 DEF OrderOK, UpsInTurn
    <2> QED
        BY <1>3, <1>4, <2>2
<1>7. ASSUME NEW u \in Event, Up(u), pc'[u] # "acked", NEW n \in Event, n > u
      PROVE  pc'[n] \in {"queued", "unreported"}
    <2>1. pc[u] # "acked"
        BY <1>3, <1>4, <1>7
    <2>2. pc[n] \in {"queued", "unreported"}
        BY <1>7, <2>1 DEF OrderOK, UpsInTurn
    <2> QED
        BY <1>3, <1>4, <2>2
<1>8. UpsInTurn'
    BY <1>1, <1>6, <1>7 DEF UpsInTurn, Up
<1> QED
    BY <1>5, <1>8 DEF OrderOK

\* Until it is disturbed, every step keeps the order.
LEMMA OrderNext ==
    ASSUME TypeOK, ~overlapped', faults' = 0, OrderOK, [Next]_vars
    PROVE  OrderOK'
<1>1. CASE StateTTL \/ UNCHANGED vars
    BY <1>1 DEF StateTTL, vars, brokerVars, OrderOK, QueueOK, UpsInTurn, Up
<1>2. ASSUME NEW m \in Event, Retry(m) PROVE FALSE
    BY <1>2, NoFaults DEF Retry
<1> QED
    BY <1>1, <1>2, ReceiveKeepsOrder, DeliverKeepsOrder, LoseKeepsOrder, TaskKeepsOrder
    DEF Next

(***************************************************************************)
(* Recovery.  The status in Redis says what the tables hold, except while  *)
(* a problem has begun to open alerts and logs, or a recovery to close     *)
(* them; a crash may put that event back in the queue, but no recovery     *)
(* overtakes the one, and nothing the other.                               *)
(***************************************************************************)

\* The event is on its way to a change of the status.
OnItsWay(m) == pc[m] \in ({"queued"} \cup Running) \ {"returned"}

\* A problem that comes before the next recovery, and a recovery that is next.
Opening ==
    \E m \in Event : ~Up(m) /\ OnItsWay(m)
                     /\ \A u \in Event : Up(u) /\ pc[u] # "acked" => m < u

Closing ==
    \E u \in Event : Up(u) /\ OnItsWay(u) /\ \A n \in Event : n < u => pc[n] = "acked"

\* What a recovery leaves: nothing open that the Up workflow can see.
Clean == openLogs = {} /\ \A i \in OpenAlerts : Len(alerts) >= i + RecentLimit

OutageOpen == \E i \in OpenAlerts : alerts[i].kind = "Down"

RecoveryInv ==
    /\ state = "Up" => Clean \/ Opening
    /\ state = "Down" => OutageOpen \/ Closing
    /\ \A m \in Event : Up(m) =>
        /\ pc[m] \in {"worked", "returned"} => Clean
        /\ m = last /\ pc[m] = "acked" => Clean
        /\ pc[m] \notin {"alerted", "acted"}
    /\ \A m \in Event :
        event[m] = "Down" /\ pc[m] \in {"alerted", "acted", "worked"} => OutageOpen

InOrder == OrderOK /\ RecoveryInv

OutageInv == TypeOK /\ (faults = 0 /\ ~overlapped => InOrder)

\* Messages that come, go or return change nothing else.
LEMMA MovesKeepRecovery ==
    ASSUME TypeOK, RecoveryInv, NEW m \in Event, NEW l \in {"queued", "received"},
           Goto(m, l), pc[m] # "acked",
           UNCHANGED <<state, alerts, openLogs, event>>,
           last' = last \/ last' = m
    PROVE  RecoveryInv'
<1>1. pc'[m] = l /\ \A n \in Event \ {m} : pc'[n] = pc[n]
    BY OrderTypes DEF Goto
<1>2. \A n \in Event : pc'[n] = "acked" <=> pc[n] = "acked"
    BY <1>1
<1>3. \A n \in Event : OnItsWay(n) => OnItsWay(n)'
    BY <1>1 DEF OnItsWay, Running
<1>4. (Opening => Opening') /\ (Closing => Closing')
    BY <1>2, <1>3 DEF Opening, Closing, Up
<1>5. (Clean' <=> Clean) /\ (OutageOpen' <=> OutageOpen)
    BY DEF Clean, OutageOpen, OpenAlerts
<1> QED
    BY <1>1, <1>2, <1>4, <1>5 DEF RecoveryInv, Up

\* A step of a running task: the invariant only has to be shown for its own event.
LEMMA StepKeepsRecovery ==
    ASSUME TypeOK, OrderOK, RecoveryInv, NEW m \in Event, pc[m] \in Running,
           NEW l \in Running, Goto(m, l), UNCHANGED <<event, last>>,
           state' = "Up" => Clean' \/ (~Up(m) /\ l # "returned"),
           state' = "Down" => OutageOpen' \/ (Up(m) /\ l # "returned"),
           Up(m) /\ l \in {"worked", "returned"} => Clean',
           Up(m) => l \notin {"alerted", "acted"},
           ~Up(m) /\ OutageOpen => OutageOpen',
           event[m] = "Down" /\ l \in {"alerted", "acted", "worked"} => OutageOpen'
    PROVE  RecoveryInv'
<1>1. pc'[m] = l /\ \A n \in Event \ {m} : pc'[n] = pc[n]
    BY OrderTypes DEF Goto
<1>2. /\ \A u \in Event : Up(u) /\ pc[u] # "acked" => u = m \/ m < u
      /\ Up(m) => /\ \A n \in Event : n < m => pc[n] = "acked"
                  /\ \A n \in Event \ {m} : pc[n] \in {"acked", "queued", "unreported"}
      /\ ~Up(m) => \A u \in Event : Up(u) => pc[u] \in {"acked", "queued", "unreported"}
      /\ pc[last] # "acked" \/ ~Up(last) \/ last \notin Event
    BY RunsInTurn
<1>3. l \notin {"acked", "queued", "unreported"} /\ pc[m] # "acked"
    BY DEF Running
<1>4. \A n \in Event : pc'[n] = "acked" <=> pc[n] = "acked"
    BY <1>1, <1>3
<1>5. ~Up(m) /\ l # "returned" => Opening'
    BY <1>1, <1>2, <1>4 DEF Opening, OnItsWay, Up
<1>6. Up(m) /\ l # "returned" => Closing'
    <2>1. \A n \in Event : n < m /\ Up(m) => pc'[n] = "acked"
        BY <1>2, <1>4
    <2> QED
        BY <1>1, <2>1 DEF Closing, OnItsWay, Up
<1>7. ASSUME NEW n \in Event, Up(n)'
      PROVE  /\ pc'[n] \in {"worked", "returned"} => Clean'
             /\ n = last' /\ pc'[n] = "acked" => Clean'
             /\ pc'[n] \notin {"alerted", "acted"}
    <2>1. Up(n)
        BY <1>7 DEF Up
    <2>2. n # m => pc'[n] \in {"acked", "queued", "unreported"}
        BY <1>1, <1>2, <2>1
    <2>3. ~(n = last' /\ pc'[n] = "acked")
        BY <1>2, <1>4, <2>1
    <2> QED
        BY <1>1, <2>1, <2>2, <2>3
<1>8. ASSUME NEW n \in Event, event'[n] = "Down", pc'[n] \in {"alerted", "acted", "worked"}
      PROVE  OutageOpen'
    <2>1. CASE n = m
        BY <1>1, <1>8, <2>1
    <2>2. CASE n # m
        <3>1. pc[n] \in {"alerted", "acted", "worked"} /\ event[n] = "Down"
            BY <1>1, <1>8, <2>2
        <3>2. OutageOpen
            BY <3>1 DEF RecoveryInv
        <3> QED
            BY <1>2, <2>2, <3>1, <3>2
    <2> QED
        BY <2>1, <2>2
<1> QED
    BY <1>5, <1>6, <1>7, <1>8 DEF RecoveryInv

\* What is known when a task steps.
LEMMA KnownToTask ==
    ASSUME TypeOK, InOrder, NEW m \in Event, pc[m] \in Running
    PROVE  /\ state = "Up" /\ Up(m) => Clean
           /\ state = "Down" /\ ~Up(m) => OutageOpen
           /\ Up(m) /\ pc[m] \in {"worked", "returned"} => Clean
           /\ Up(m) => pc[m] \notin {"alerted", "acted"}
           /\ event[m] = "Down" /\ pc[m] \in {"alerted", "acted", "worked"} => OutageOpen
<1>1. pc[m] # "acked"
    BY DEF Running
<1>2. Up(m) => ~Opening
    <2> SUFFICES ASSUME Up(m), NEW n \in Event, OnItsWay(n), n < m PROVE FALSE
        BY <1>1 DEF Opening
    <2>1. pc[n] = "acked"
        BY RunsInTurn DEF InOrder
    <2> QED
        BY <2>1 DEF OnItsWay, Running
<1>3. ~Up(m) => ~Closing
    <2> SUFFICES ASSUME ~Up(m), NEW u \in Event, Up(u), OnItsWay(u),
                        \A n \in Event : n < u => pc[n] = "acked"
                 PROVE  FALSE
        BY DEF Closing
    <2>1. u # m /\ pc[u] # "acked"
        BY DEF OnItsWay, Running
    <2>2. m < u
        BY <2>1, RunsInTurn DEF InOrder
    <2> QED
        BY <1>1, <2>2
<1> QED
    BY <1>2, <1>3 DEF InOrder, RecoveryInv

\* Clean and OutageOpen read the tables only.
LEMMA SameTables ==
    ASSUME UNCHANGED <<alerts, openLogs>>
    PROVE  (Clean' <=> Clean) /\ (OutageOpen' <=> OutageOpen)
BY DEF Clean, OutageOpen, OpenAlerts

\* A new alert and a new label leave an outage that is open, open.
LEMMA LabelKeepsOutage ==
    ASSUME TypeOK, NEW i, NEW label, OutageOpen, alerts' = Labelled(i, label)
    PROVE  OutageOpen'
<1>1. PICK j \in DOMAIN alerts : ~alerts[j].resolved /\ alerts[j].kind = "Down"
    BY DEF OutageOpen, OpenAlerts
<1>2. alerts[j] \in Alert
    BY <1>1 DEF TypeOK, StoreTypeOK
<1>3. j \in DOMAIN alerts' /\ ~alerts'[j].resolved /\ alerts'[j].kind = "Down"
    BY <1>1, <1>2 DEF Labelled, Alert
<1> QED
    BY <1>3 DEF OutageOpen, OpenAlerts

\* A new alert leaves an open outage open, and is one if it is a Down.
LEMMA CreateKeepsOutage ==
    ASSUME TypeOK, NEW m \in Event, CreateAlert(m), OutageOpen \/ event[m] = "Down"
    PROVE  OutageOpen'
<1>1. alerts \in Seq(Alert) /\ Len(alerts) \in Nat
    BY DEF TypeOK, StoreTypeOK
<1> DEFINE row == [kind |-> event[m], resolved |-> FALSE, label |-> "Pending"]
<1>2. alerts' = Append(alerts, row)
    BY DEF CreateAlert
<1>3. /\ DOMAIN alerts' = 1 .. (Len(alerts) + 1)
      /\ alerts'[Len(alerts) + 1] = row
      /\ \A j \in DOMAIN alerts : j \in DOMAIN alerts' /\ alerts'[j] = alerts[j]
    <2>1. row \in Alert
        BY DEF CreateAlert, Raises, Alert
    <2> HIDE DEF row
    <2> QED
        BY <1>1, <1>2, <2>1
<1>4. CASE OutageOpen
    BY <1>3, <1>4 DEF OutageOpen, OpenAlerts
<1>5. CASE event[m] = "Down"
    <2>1. Len(alerts) + 1 \in DOMAIN alerts' /\ ~row.resolved /\ row.kind = "Down"
        BY <1>1, <1>3, <1>5
    <2> QED
        BY <1>3, <2>1 DEF OutageOpen, OpenAlerts
<1> QED
    BY <1>4, <1>5

\* The Up workflow leaves open only what RecentLimit later alerts hide.
LEMMA ResolveCleans ==
    ASSUME TypeOK, NEW m \in Event, ResolveAlerts(m)
    PROVE  Clean'
<1>1. alerts \in Seq(Alert) /\ alerts' \in Seq(Alert)
    BY ResolvedType DEF TypeOK, StoreTypeOK
<1>2. DOMAIN alerts' = DOMAIN alerts
    BY DEF ResolveAlerts
<1>3. Len(alerts') = Len(alerts)
    BY <1>1, <1>2
<1>4. ASSUME NEW i \in DOMAIN alerts', ~alerts'[i].resolved
      PROVE  Len(alerts') >= i + RecentLimit
    <2>1. alerts[i] \in Alert /\ i \in Nat /\ Len(alerts) \in Nat
        BY <1>1, <1>2
    <2>2. ~Recent(i)
        BY <1>2, <1>4, <2>1 DEF ResolveAlerts, Alert
    <2> QED
        BY <1>3, <2>1, <2>2, ConstantsAssumption DEF Recent
<1> QED
    BY <1>4 DEF Clean, OpenAlerts, ResolveAlerts

\* Every step of a task, the worker's crash aside, keeps the invariant.
LEMMA TaskKeepsRecovery ==
    ASSUME TypeOK, InOrder, faults' = 0, NEW m \in Event, Task(m)
    PROVE  RecoveryInv'
<1>1. ~Fault /\ pc[m] \in Running /\ UNCHANGED <<event, last>>
    BY NoFaults, TaskMoves
<1>2. /\ state = "Up" /\ Up(m) => Clean
      /\ state = "Down" /\ ~Up(m) => OutageOpen
      /\ Up(m) /\ pc[m] \in {"worked", "returned"} => Clean
      /\ Up(m) => pc[m] \notin {"alerted", "acted"}
      /\ event[m] = "Down" /\ pc[m] \in {"alerted", "acted", "worked"} => OutageOpen
    BY <1>1, KnownToTask
<1>3. TypeOK /\ OrderOK /\ RecoveryInv
    BY DEF InOrder
<1>4. CASE IgnoreDuplicate(m)
    <2>1. Goto(m, "returned") /\ state' = state /\ state = event[m]
        BY <1>4 DEF IgnoreDuplicate
    <2>2. (Clean' <=> Clean) /\ (OutageOpen' <=> OutageOpen)
        BY <1>4, SameTables DEF IgnoreDuplicate, dbVars
    <2>3. Up(m) <=> state = "Up"
        BY <2>1 DEF Up
    <2> QED
        BY <1>1, <1>2, <1>3, <2>1, <2>2, <2>3, StepKeepsRecovery DEF Running
<1>5. CASE Dispatch(m)
    <2>1. Goto(m, "dispatched") /\ state' = state
        BY <1>5 DEF Dispatch
    <2>2. (Clean' <=> Clean) /\ (OutageOpen' <=> OutageOpen)
        BY <1>5, SameTables DEF Dispatch, dbVars
    <2> QED
        BY <1>1, <1>2, <1>3, <2>1, <2>2, StepKeepsRecovery DEF Running
<1>6. CASE SetSensorState(m)
    <2>1. Goto(m, "returned") /\ state' = event[m] /\ pc[m] = "worked"
        BY <1>6 DEF SetSensorState
    <2>2. (Clean' <=> Clean) /\ (OutageOpen' <=> OutageOpen)
        BY <1>6, SameTables DEF SetSensorState, dbVars
    <2>3. Up(m) <=> state' = "Up"
        BY <2>1 DEF Up
    <2> QED
        BY <1>1, <1>2, <1>3, <2>1, <2>2, <2>3, StepKeepsRecovery DEF Running
<1>7. CASE Acknowledge(m)
    <2>1. state' = state /\ pc[m] = "returned" /\ UNCHANGED dbVars
        BY <1>7 DEF Acknowledge
    <2>2. (Clean' <=> Clean) /\ (OutageOpen' <=> OutageOpen)
        BY <2>1, SameTables DEF dbVars
    <2>3. pc'[m] = "acked" /\ \A n \in Event \ {m} : pc'[n] = pc[n]
        BY <1>7, OrderTypes DEF Acknowledge, Goto
    <2>4. \A n \in Event : OnItsWay(n) => OnItsWay(n)' /\ n # m
        BY <2>1, <2>3 DEF OnItsWay
    <2>5. \A n \in Event : pc[n] = "acked" => pc'[n] = "acked"
        BY <2>3
    <2>6. (Opening => Opening') /\ (Closing => Closing')
        BY <1>1, <2>4, <2>5 DEF Opening, Closing, Up
    <2> QED
        BY <1>1, <1>2, <1>3, <2>1, <2>2, <2>3, <2>6 DEF RecoveryInv, Up
<1>8. CASE CreateAlert(m)
    <2>1. Goto(m, "alerted") /\ state' = state /\ ~Up(m)
        BY <1>8 DEF CreateAlert, Raises, Up
    <2>2. OutageOpen \/ event[m] = "Down" => OutageOpen'
        BY <1>3, <1>8, CreateKeepsOutage
    <2> QED
        BY <1>1, <1>2, <1>3, <2>1, <2>2, StepKeepsRecovery DEF Running
<1>9. CASE PingRecovered(m) \/ PingUnreachable(m)
    <2>1. Goto(m, "acted") /\ state' = state /\ event[m] = "Down" /\ pc[m] = "alerted"
        BY <1>9 DEF PingRecovered, PingUnreachable
    <2>2. alerts' = alerts \/ alerts' = Labelled(alert[m], "ISP")
        BY <1>9 DEF PingRecovered, PingUnreachable
    <2>3. OutageOpen => OutageOpen'
        BY <1>3, <2>2, LabelKeepsOutage DEF OutageOpen, OpenAlerts
    <2>4. ~Up(m)
        BY <2>1 DEF Up
    <2> QED
        BY <1>1, <1>2, <1>3, <2>1, <2>3, <2>4, StepKeepsRecovery DEF Running
<1>10. CASE MailSupport(m)
    <2>1. Goto(m, "acted") /\ state' = state /\ event[m] # "Down" /\ pc[m] = "alerted"
        BY <1>10 DEF MailSupport
    <2>2. (Clean' <=> Clean) /\ (OutageOpen' <=> OutageOpen)
        BY <1>10, SameTables DEF MailSupport, dbVars
    <2> QED
        BY <1>1, <1>2, <1>3, <2>1, <2>2, StepKeepsRecovery DEF Running
<1>11. CASE RecordSupport(m)
    <2>1. Goto(m, "worked") /\ state' = state /\ event[m] # "Down" /\ pc[m] = "acted"
        BY <1>11 DEF RecordSupport, Complete
    <2>2. OutageOpen => OutageOpen'
        BY <1>1, <1>3, <1>11, LabelKeepsOutage DEF RecordSupport
    <2> QED
        BY <1>1, <1>2, <1>3, <2>1, <2>2, StepKeepsRecovery DEF Running
<1>12. CASE WriteLog(m)
    <2>1. Goto(m, "worked") /\ state' = state /\ ~Up(m)
        BY <1>12 DEF WriteLog, Complete, Up
    <2>2. alerts' = alerts /\ (event[m] = "Down" => pc[m] = "acted")
        BY <1>12 DEF WriteLog
    <2>3. OutageOpen' <=> OutageOpen
        BY <2>2 DEF OutageOpen, OpenAlerts
    <2>4. event[m] = "Down" => OutageOpen'
        BY <1>2, <2>2, <2>3
    <2> QED
        BY <1>1, <1>2, <1>3, <2>1, <2>3, <2>4, StepKeepsRecovery DEF Running
<1>13. CASE ResolveAlerts(m)
    <2>1. Goto(m, "worked") /\ state' = state /\ event[m] = "Up"
        BY <1>13 DEF ResolveAlerts, Complete
    <2>2. Clean'
        BY <1>3, <1>13, ResolveCleans
    <2>3. Up(m) /\ event[m] # "Down"
        BY <2>1 DEF Up
    <2> QED
        BY <1>1, <1>3, <2>1, <2>2, <2>3, StepKeepsRecovery DEF Running
<1> QED
    BY <1>1, <1>4, <1>5, <1>6, <1>7, <1>8, <1>9, <1>10, <1>11, <1>12, <1>13
    DEF Task, Workflow, DispatchUnchecked, SetSensorStateFails, SensorNotFound,
        CreateAlertFails, PingFails, ResolveRolledBack

\* Every step keeps OutageInv.
LEMMA OutageNext ==
    ASSUME OutageInv, [Next]_vars
    PROVE  OutageInv'
<1>1. TypeOK /\ TypeOK'
    BY TypeNext DEF OutageInv
<1> SUFFICES ASSUME faults' = 0, ~overlapped' PROVE InOrder'
    BY <1>1 DEF OutageInv
<1>2. TypeOK /\ InOrder /\ OrderOK /\ RecoveryInv
    BY <1>1, DisturbedStays DEF OutageInv, InOrder
<1>9. OrderOK'
    BY <1>1, <1>2, OrderNext
<1>3. ASSUME ReceiveWebhook PROVE RecoveryInv'
    <2>1. last' = last + 1 /\ last' \in Event /\ Goto(last', "queued")
        BY <1>2, <1>3, ConstantsAssumption DEF ReceiveWebhook, Event, TypeOK, BrokerTypeOK
    <2>2. PICK m \in Event : m = last'
        BY <2>1
    <2>3. pc[m] # "acked" /\ Goto(m, "queued")
        BY <1>2, <2>1, <2>2, OrderTypes DEF OrderOK, QueueOK
    <2> QED
        BY <1>2, <1>3, <2>2, <2>3, MovesKeepRecovery DEF ReceiveWebhook, dbVars
<1>4. ASSUME StateTTL \/ UNCHANGED vars PROVE RecoveryInv'
    <2>1. UNCHANGED <<alerts, openLogs, event, last, pc>> /\ (state' = state \/ state' = "none")
        BY <1>4 DEF StateTTL, vars, dbVars, brokerVars
    <2>2. /\ (Clean' <=> Clean) /\ (OutageOpen' <=> OutageOpen)
          /\ (Opening' <=> Opening) /\ (Closing' <=> Closing)
        BY <2>1, SameTables DEF Opening, Closing, OnItsWay, Up
    <2> QED
        BY <1>2, <2>1, <2>2 DEF RecoveryInv, Up
<1>5. ASSUME NEW m \in Event, Deliver(m) PROVE RecoveryInv'
    BY <1>2, <1>5, MovesKeepRecovery DEF Deliver, dbVars
<1>6. ASSUME NEW m \in Event, Task(m) PROVE RecoveryInv'
    BY <1>2, <1>6, TaskKeepsRecovery
<1>7. ASSUME NEW m \in Event, Retry(m) PROVE FALSE
    BY <1>2, <1>7, NoFaults DEF Retry
<1>8. ASSUME NEW m \in Event, LoseWorker(m) PROVE RecoveryInv'
    BY <1>2, <1>8, MovesKeepRecovery DEF LoseWorker, dbVars, Running
<1> QED
    BY <1>3, <1>4, <1>5, <1>6, <1>7, <1>8, <1>9 DEF Next, InOrder

\* OutageInv holds for good.
LEMMA OutageHolds == Spec => []OutageInv
<1>1. Init => OutageInv
    <2> SUFFICES ASSUME Init PROVE OutageInv
        OBVIOUS
    <2>1. RecoveryInv
        BY DEF Init, RecoveryInv
    <2> QED
        BY <2>1, TypeInit, OrderInit DEF OutageInv, InOrder
<1>2. OutageInv /\ [Next]_vars => OutageInv'
    BY OutageNext
<1> QED
    BY <1>1, <1>2, PTL DEF Spec

\* Without an error, and without a recovery that overlaps another event: when
\* everything reported has been handled and the last report is Up, no log of the
\* sensor is open, and an alert is open only if RecentLimit later ones hide it from
\* the Up workflow, whatever crashed or expired on the way.
THEOREM RecoveryCloses == Spec => []RecoveryClosesAll
<1>1. OutageInv => RecoveryClosesAll
    <2> SUFFICES ASSUME TypeOK, OutageInv, AtRest, last > 0, event[last] = "Up", ~Disturbed
                 PROVE  Clean
        BY DEF RecoveryClosesAll, Clean, OutageInv
    <2>1. InOrder
        <3>1. ~overlapped /\ ~(faults > 0) /\ faults \in 0 .. MaxFaults
            BY DEF Disturbed, TypeOK, BoundsOK
        <3>2. faults = 0
            BY <3>1, ConstantsAssumption
        <3> QED
            BY <3>1, <3>2 DEF OutageInv
    <2>2. last \in Event /\ ~(last > last)
        BY OrderTypes DEF Event, TypeOK, BrokerTypeOK
    <2>3. pc[last] = "acked"
        <3>1. pc[last] # "unreported"
            BY <2>1, <2>2 DEF InOrder, OrderOK, QueueOK
        <3> QED
            BY <2>2, <3>1 DEF AtRest
    <2> QED
        BY <2>1, <2>2, <2>3 DEF InOrder, RecoveryInv, Up
<1> QED
    BY <1>1, OutageHolds, PTL

\* Only the duplicate check takes a task from its start to its end at once.
LEMMA OnlyDuplicatesEnd ==
    ASSUME TypeOK, [Next]_vars, NEW m \in Event, pc[m] = "received", pc'[m] = "returned"
    PROVE  IgnoreDuplicate(m)
<1>1. ~ReceiveWebhook /\ ~StateTTL /\ ~UNCHANGED vars
    BY DEF ReceiveWebhook, Goto, StateTTL, vars, TypeOK, TaskTypeOK
<1>2. ASSUME NEW n \in Event, Deliver(n) \/ Retry(n) \/ LoseWorker(n) PROVE FALSE
    BY <1>2 DEF Deliver, Retry, LoseWorker, Goto, TypeOK, TaskTypeOK
<1>3. ASSUME NEW n \in Event, Workflow(n) PROVE FALSE
    BY <1>3
    DEF Workflow, SensorNotFound, CreateAlert, CreateAlertFails, PingRecovered,
        PingUnreachable, PingFails, MailSupport, RecordSupport, WriteLog,
        ResolveAlerts, ResolveRolledBack, Complete, Goto, TypeOK, TaskTypeOK
<1>4. ASSUME NEW n \in Event, Task(n), ~Workflow(n) PROVE IgnoreDuplicate(m)
    BY <1>4
    DEF Task, IgnoreDuplicate, Dispatch, DispatchUnchecked, SetSensorState,
        SetSensorStateFails, Acknowledge, Goto, TypeOK, TaskTypeOK
<1> QED
    BY <1>1, <1>2, <1>3, <1>4 DEF Next

\* A Down event is dropped as a duplicate only while an alert of its outage is open,
\* unless an error or an overlapped recovery has come before.
THEOREM OutagesHaveAlerts == Spec => OutagesDroppedForCause
<1>1. OutageInv /\ [Next]_vars =>
          [\A m \in Event : (pc[m] = "received" /\ pc'[m] = "returned" /\ event[m] = "Down")
              => Disturbed \/ \E i \in OpenAlerts : alerts[i].kind = "Down"]_vars
    <2> SUFFICES ASSUME OutageInv, ~Disturbed, [Next]_vars, NEW m \in Event,
                        pc[m] = "received", pc'[m] = "returned", event[m] = "Down"
                 PROVE  OutageOpen
        BY DEF OutageOpen
    <2>1. TypeOK /\ state = "Down"
        BY OnlyDuplicatesEnd DEF OutageInv, IgnoreDuplicate
    <2>2. InOrder
        <3>1. ~overlapped /\ ~(faults > 0) /\ faults \in 0 .. MaxFaults
            BY <2>1 DEF Disturbed, TypeOK, BoundsOK
        <3>2. faults = 0
            BY <3>1, ConstantsAssumption
        <3> QED
            BY <3>1, <3>2 DEF OutageInv
    <2>3. ~Up(m)
        BY DEF Up
    <2> QED
        BY <2>1, <2>2, <2>3, KnownToTask DEF Running
<1> QED
    BY <1>1, OutageHolds, PTL DEF Spec, OutagesDroppedForCause
===============================================================================
