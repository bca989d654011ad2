--------------------------- MODULE MCIncidentClosure ---------------------------
(* TLC instances of IncidentClosure.                                           *)
EXTENDS IncidentClosure
===============================================================================
