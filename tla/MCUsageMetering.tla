-------------------------- MODULE MCUsageMetering --------------------------
(* Small instances of UsageMetering for TLC.                               *)
EXTENDS UsageMetering, TLC

CONSTANTS j1, j2
=============================================================================
