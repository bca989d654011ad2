-------------------------- MODULE ReminderContract --------------------------
(***************************************************************************)
(* What the reminder machinery promises, without its keys, lock or tasks.  *)
(* An alert is monitored once: off, on, closed.  A scan that starts is     *)
(* granted the right to remind about alerts that are on, each right is     *)
(* used at most once, and an alert that is closed grants nothing any more. *)
(***************************************************************************)
EXTENDS Naturals

CONSTANTS Alerts, Workers

VARIABLES phase,    \* of the monitoring of an alert
          granted,  \* alerts a worker may still send one reminder for
          sent      \* reminders sent for an alert

contractVars == <<phase, granted, sent>>

Init ==
    /\ phase = [a \in Alerts |-> "off"]
    /\ granted = [w \in Workers |-> {}]
    /\ sent = [a \in Alerts |-> 0]

On == {a \in Alerts : phase[a] = "on"}

Open(a) ==
    /\ phase[a] = "off"
    /\ phase' = [phase EXCEPT ![a] = "on"]
    /\ UNCHANGED <<granted, sent>>

Close(a) ==
    /\ phase[a] = "on"
    /\ phase' = [phase EXCEPT ![a] = "closed"]
    /\ UNCHANGED <<granted, sent>>

\* The scan keeps some alerts and closes the others that are on.
Grant(w) ==
    /\ granted[w] = {}
    /\ \E kept \in SUBSET On :
          /\ granted' = [granted EXCEPT ![w] = kept]
          /\ phase' = [a \in Alerts |-> IF a \in On \ kept THEN "closed"
                                                           ELSE phase[a]]
    /\ UNCHANGED sent

Remind(w, a) ==
    /\ a \in granted[w]
    /\ granted' = [granted EXCEPT ![w] = @ \ {a}]
    /\ sent' = [sent EXCEPT ![a] = @ + 1]
    /\ UNCHANGED phase

Renounce(w) ==
    /\ \E kept \in SUBSET granted[w] : granted' = [granted EXCEPT ![w] = kept]
    /\ UNCHANGED <<phase, sent>>

Next ==
    \/ \E a \in Alerts : Open(a) \/ Close(a)
    \/ \E w \in Workers : Grant(w) \/ Renounce(w)
    \/ \E w \in Workers, a \in Alerts : Remind(w, a)

Spec == Init /\ [][Next]_contractVars
=============================================================================
