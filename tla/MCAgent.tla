------------------------------ MODULE MCAgent -------------------------------
(***************************************************************************)
(* A small instance of AgentDesk.                                          *)
(***************************************************************************)
EXTENDS AgentDesk, TLC

CONSTANTS
  t1, t2, na, nb, nc, nd, nx, ny      (* traces, and spans of the tree     *)

(* Characters of one and two bytes.                                        *)
MCLine == {<<>>, <<2>>, <<1, 2>>, <<2, 2>>}

MCOrder == <<na, nb, nc, nd, nx, ny>>
MCTraceOf == [s \in {na, nb, nc, nd, nx, ny} |-> IF s \in {nx, ny} THEN t2 ELSE t1]

(* A chain with a second root beside a trace of two spans, and a tree with *)
(* a branch whose parent is never sent.                                    *)
Chain  == (nb :> na) @@ (nc :> nb) @@ (ny :> nx) @@ [s \in {na, nd, nx} |-> Null]
Branch == (nb :> na) @@ (nc :> na) @@ (nd :> nc) @@ (nx :> ny) @@ [s \in {na, ny} |-> Null]

(* And, with nothing in the other trace, every forest of four spans: some  *)
(* ranking puts parents first.                                             *)
Four == {na, nb, nc, nd}
Ranks == {r \in [Four -> 1 .. 4] : \A s, t \in Four : s # t => r[s] # r[t]}
Forests ==
  {p \in [Four -> Four \cup {Null}] :
     \E r \in Ranks : \A s \in Four : p[s] = Null \/ r[p[s]] < r[s]}

MCParents == {Chain, Branch} \cup Forests
=============================================================================
