----------------------------- MODULE MCBrowser ------------------------------
(***************************************************************************)
(* A small instance of Browser: two names, which are also the two messages *)
(* that are sent and the two ranges of dates, three traces of two users    *)
(* and one session, and two ways through the pages of settings.            *)
(***************************************************************************)
EXTENDS Browser, TLC

CONSTANTS s1, s2, day, week, o1, na, nb, nc, openai, azure, bedrock

(* Openai's label serves for Azure's too: the names stay three.            *)
MCLabelOf == [n \in {openai, azure, bedrock} |-> IF n = azure THEN openai ELSE n]

MCTraces == <<na, nb, nc>>
MCUserOf == (na :> day) @@ (nb :> week) @@ (nc :> day)
MCSessionOf == (na :> o1) @@ (nb :> o1) @@ (nc :> None)

(* All pages with one request at a time, and the two that show workspaces  *)
(* with two requests and something done by others.                         *)
MCTours ==
  {[pages |-> {"workspaces", "projects", "general", "members", "project"},
    slots |-> {1}, acts |-> 3, others |-> 0],
   [pages |-> {"workspaces", "general"}, slots |-> {1, 2}, acts |-> 4, others |-> 1]}

(* s1 and s2 stand for custom date ranges, messages and names: alike in all. *)
Symmetry == Permutations({s1, s2})
=============================================================================
