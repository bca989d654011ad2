------------------------- MODULE MCIspReplyMonitor -------------------------
(***************************************************************************)
(* Instances of IspReplyMonitor for TLC.                                   *)
(***************************************************************************)
EXTENDS IspReplyMonitor, TLC

\* Workers and replies are interchangeable; so are the alerts.
Symmetry == Permutations(Workers) \cup Permutations(Replies) \cup Permutations(Alerts)
=============================================================================
