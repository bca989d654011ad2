---------------------------- MODULE MCPingDiagnostic ----------------------------
(* TLC instances of PingDiagnostic.                                            *)
EXTENDS PingDiagnostic
===============================================================================
