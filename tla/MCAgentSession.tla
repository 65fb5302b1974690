--------------------------- MODULE MCAgentSession ---------------------------
(* Instances of AgentSession: two messages, two DELETEs.              *)
EXTENDS AgentSession, TLC

CONSTANTS m1, m2, d1, d2

TwoMsg == {m1, m2}
TwoDel == {d1, d2}
=============================================================================
