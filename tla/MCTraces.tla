------------------------------ MODULE MCTraces ------------------------------
(***************************************************************************)
(* A small instance of Traces.                                             *)
(***************************************************************************)
EXTENDS Traces, TLC

CONSTANTS
  r1, r2, c1, c2, x,                  (* spans                             *)
  ta, tb, tc, td, sess, eve, max      (* traces, a session and users       *)

(* To call, flush and shut down; to fill a queue besides; and to nest      *)
(* blocks and calls.                                                       *)
MCBounds ==
  {[depth |-> 1, acts |-> 3, faults |-> 1, queue |-> 2],
   [depth |-> 2, acts |-> 2, faults |-> 1, queue |-> 1],
   [depth |-> 3, acts |-> 0, faults |-> 0, queue |-> 2]}

(* A root and two children, and a broken span of another trace; and two    *)
(* roots and a child.                                                      *)
MCFamilies ==
  {[trace |-> [s \in {r1, c1, c2, x} |-> IF s = x THEN "other" ELSE "one"],
    roots |-> {r1, x}, broken |-> {x}],
   [trace |-> [s \in {r1, r2, c1} |-> "one"], roots |-> {r1, r2}, broken |-> {}]}

(* Token counts: up to two keys have one, or the first keys of all three.  *)
MCReports ==
  LET keys == {"prompt", "promptLast", "completion", "completionLast", "total", "totalLast"}
      said(r) == {k \in keys : r[k] # None} IN
  {r \in [keys -> {None, 0, 1}] :
     Cardinality(said(r)) <= 2 \/ said(r) = {"prompt", "completion", "total"}}

Open == [after |-> None, before |-> None]

(* To walk a list: four traces, each at any of four times on two days.     *)
MCWalkTraces ==
  [id : {ta, tb, tc, td}, time : 0 .. 3, session : {None}, user : {eve}]
MCWalkWindows == {Open, [after |-> 1, before |-> 3]}

(* To sum up: two traces of a session, on one or two days, of two users,   *)
(* and spans that are open or closed, priced or not, or come twice.        *)
MCSumTraces ==
  [id : {ta, tb}, time : {0, 2}, session : {sess, None}, user : {eve, max}]
MCSumSpans ==
  [id : {"s1"}, trace : {ta}, kind : {"LLM"}, start : {0}, end : {2}, tokens : {1, None}]
  \cup [id : {"s2"}, trace : {ta, tb}, kind : {"LLM", "TOOL"}, start : {1}, end : {3, None},
        tokens : {2}]
MCSumWindows == {Open, [after |-> None, before |-> 2], [after |-> 1, before |-> 3]}

(* Tasks, spans, processors and users of the SDK are alike; so are the     *)
(* processes that keep prices and the users that spans name.               *)
Symmetry == Permutations(Tasks) \cup Permutations(SpanIds) \cup Permutations(Processors)
            \cup Permutations(Processes) \cup Permutations(Users)
=============================================================================
