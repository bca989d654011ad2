---------------------------- MODULE MCEmailIngestion ----------------------------
(* TLC instances of EmailIngestion.                                            *)
EXTENDS EmailIngestion

\* The first message has an attachment, the others have none.
OneAttachment == [m \in 1 .. MaxMessages |-> IF m = 1 THEN 1 ELSE 0]
===============================================================================
