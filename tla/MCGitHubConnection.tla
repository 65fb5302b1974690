------------------------- MODULE MCGitHubConnection -------------------------
(* GitHubConnection with an account that also belongs to an organisation.  *)
EXTENDS GitHubConnection, TLC

CONSTANTS t1, t2, me, colleague, own, org

MCAccess == [a \in Account |-> IF a = me THEN {own, org} ELSE {org}]
=============================================================================
