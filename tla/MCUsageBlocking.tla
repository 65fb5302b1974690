--------------------------- MODULE MCUsageBlocking ---------------------------
(* Small instances of UsageBlocking for TLC.                               *)
EXTENDS UsageBlocking, TLC

CONSTANTS j1, j2, p1, p2
=============================================================================
