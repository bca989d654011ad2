--------------------------- MODULE IncidentLifecycle ---------------------------
(***************************************************************************)
(* What the incident views promise an engineer: the status of an alert, as *)
(* get_alert_summary reports it, only moves forward.                       *)
(***************************************************************************)
CONSTANT Alert

VARIABLE status

Status == {"none", "OPEN", "RECOVERED_PENDING_CLOSURE", "CLOSED"}

Init == status = [a \in Alert |-> "none"]

\* An outage is raised.
Raise(a) ==
    /\ status[a] = "none"
    /\ status' = [status EXCEPT ![a] = "OPEN"]

\* A recovery reaches any number of open alerts of the sensor.
Recover(recovered) ==
    /\ \A a \in recovered : status[a] = "OPEN"
    /\ status' = [a \in Alert |-> IF a \in recovered THEN "RECOVERED_PENDING_CLOSURE"
                                  ELSE status[a]]

\* A root cause is recorded, before the recovery or after it.
Close(a) ==
    /\ status[a] \in {"OPEN", "RECOVERED_PENDING_CLOSURE"}
    /\ status' = [status EXCEPT ![a] = "CLOSED"]

Next ==
    \/ \E a \in Alert : Raise(a) \/ Close(a)
    \/ \E recovered \in SUBSET Alert : Recover(recovered)

Spec == Init /\ [][Next]_status
===============================================================================
