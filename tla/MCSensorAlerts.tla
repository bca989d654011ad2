---------------------------- MODULE MCSensorAlerts ----------------------------
(* TLC instances of SensorAlerts; the .cfg files give the other constants.    *)
EXTENDS SensorAlerts

Problems == {"Up", "Down", "Warning"}
Outages == {"Up", "Down"}
===============================================================================
