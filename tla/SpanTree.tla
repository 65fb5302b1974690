------------------------------ MODULE SpanTree ------------------------------
(* The trace viewer's tree (features/traces/utils/index.ts,                *)
(* components/SpanTreeView.tsx, SpanTreeConnector.tsx, TraceViewerPanel):  *)
(* how the spans of a trace become rows with levels and connecting lines,  *)
(* which rows a collapsed one hides, and what stays collapsed or selected  *)
(* when spans arrive late and when the user moves to another trace.  The   *)
(* tree the agent downloads (tools/download-trace.ts) is made here as well.*)
EXTENDS Naturals, Sequences, SequencesExt

CONSTANTS
  Trace,
  Order,       \* spans in the order of their start, which the reader sorts by
  TraceOf,     \* the trace of a span
  Parents,     \* the cases looked at: the parent_span_id of the spans there are
  Null

Span == ToSet(Order)

\* The collapsed id of the trace's own row.
TraceId == "trace"

TreeAssumption ==
  /\ Order \in Seq(Span) /\ \A i, j \in DOMAIN Order : Order[i] = Order[j] => i = j
  /\ TraceOf \in [Span -> Trace] /\ Null \notin Span /\ TraceId \notin Span
  /\ \A p \in Parents : DOMAIN p \subseteq Span /\ p \in [DOMAIN p -> Span \union {Null}]

VARIABLES
  parent,      \* parent_span_id
  stored,      \* the spans that have been ingested
  fetched,     \* the query cache: what was fetched of a trace, <<>> if nothing was
  opened,      \* the viewer's traceId
  collapsed,   \* collapsedIds
  selection,   \* TraceId, or the span selected
  resets       \* the effect that resets the selection has yet to run

vars == <<parent, stored, fetched, opened, collapsed, selection, resets>>

-----------------------------------------------------------------------------
(* utils/index.ts.                                                         *)

\* What is in S, in the order of spans.
Filter(spans, S) ==
  LET upTo[i \in 0 .. Len(spans)] ==
        IF i = 0 THEN <<>>
        ELSE IF spans[i] \in S THEN Append(upTo[i - 1], spans[i]) ELSE upTo[i - 1]
  IN  upTo[Len(spans)]

Children(spans, p) == Filter(spans, {s \in ToSet(spans) : parent[s] = p})

\* A row has the arguments of the call of traverse that made it.
Row == [span : Span, level : Nat, isTerminal : BOOLEAN, parentLevels : SUBSET Nat]

RowOf(children, i, level, lines) ==
  [span |-> children[i], level |-> level, isTerminal |-> i = Len(children),
   parentLevels |-> lines]

\* The call for the i-th child: the parent's level has a line unless it is the last.
Below(r, children, i) ==
  RowOf(children, i, r.level + 1,
        IF i = Len(children) THEN r.parentLevels ELSE r.parentLevels \union {r.level})

\* traverse: a span's row, and then its children's.  No branch is longer than
\* there are spans.
TraverseFlat(spans, r) ==
  LET rows[depth \in 0 .. Len(spans)] ==
        [q \in Row |->
           LET children == Children(spans, q.span)
           IN  IF depth = 0 THEN <<>>
               ELSE FlattenSeq([i \in 1 .. Len(children) |->
                                  rows[depth - 1][Below(q, children, i)]]) \o <<q>>]
  IN  rows[Len(spans)][r]

Traverse(spans, r) ==
  LET rows[depth \in 0 .. Len(spans)] ==
        [q \in Row |->
           LET children == Children(spans, q.span)
           IN  IF depth = 0 THEN <<>>
               ELSE <<q>> \o FlattenSeq([i \in 1 .. Len(children) |->
                                           rows[depth - 1][Below(q, children, i)]])]
  IN  rows[Len(spans)][r]

buildSpanTree(spans) ==
  LET roots == Children(spans, Null)
  IN  FlattenSeq([i \in 1 .. Len(roots) |-> Traverse(spans, RowOf(roots, i, 0, {}))])

-----------------------------------------------------------------------------
(* SpanTreeView and SpanTreeConnector.                                     *)

View == fetched[opened]
Loaded == View # <<>>
Rows == buildSpanTree(View)

\* The ids that the walk of isVisible meets on its way up from a span, which
\* ends at a parent that is not there.
Met(s, i) ==
  LET walk[n \in 0 .. i] ==
        LET id == walk[n - 1]
        IN  IF n = 0 THEN s ELSE IF id \in ToSet(View) THEN parent[id] ELSE Null
  IN  walk[i]

AncestorIdsAndOwn(s) == {Met(s, i) : i \in 0 .. Len(View)} \ {Null}
AncestorIds(s) == {Met(s, i) : i \in 1 .. Len(View)} \ {Null}

isVisible(s) == AncestorIds(s) \intersect collapsed = {}

Visible ==
  IF TraceId \in collapsed THEN {} ELSE {s \in {r.span : r \in ToSet(Rows)} : isVisible(s)}

\* The rows that have a button to collapse them.
Toggles ==
  (IF Children(View, Null) # <<>> THEN {TraceId} ELSE {}) \union
  {s \in Visible : Children(View, s) # <<>>}

\* The columns, counted from the trace's, in which a row draws a vertical line
\* that reaches its lower edge.
LinesOwnColumn(r) ==  \* mutant: a level's line in the column of the level above
  (IF r.isTerminal THEN {} ELSE {r.level}) \union {l \in 0 .. r.level - 1 : l \in r.parentLevels}

Lines(r) ==
  (IF r.isTerminal THEN {} ELSE {r.level}) \union
  {l \in 0 .. r.level - 1 : \E p \in r.parentLevels : p + 1 = l}

-----------------------------------------------------------------------------
(* download-trace.ts: tree.json, as the paths of its keys.                 *)

\* The keys of the object that a path leads to.
KeysOfAll(spans, path) ==
  {s \in ToSet(spans) : IF path = <<>> THEN parent[s] \notin ToSet(spans)
                        ELSE parent[s] = Last(path)}

Keys(spans, path) == ToSet(Children(spans, IF path = <<>> THEN Null ELSE Last(path)))

\* buildSubtree, all of a depth at a time.
Tree(spans) ==
  LET paths[n \in 0 .. Len(spans)] ==
        IF n = 0 THEN {<<>>}
        ELSE UNION {{Append(path, key) : key \in Keys(spans, path)} : path \in paths[n - 1]}
  IN  UNION {paths[n] : n \in 1 .. Len(spans)}

-----------------------------------------------------------------------------
(* The viewer.                                                             *)

Init ==
  /\ parent \in Parents
  /\ stored = {} /\ fetched = [t \in Trace |-> <<>>]
  /\ opened \in Trace
  /\ collapsed = {} /\ selection = TraceId /\ resets = FALSE

\* A span is ingested, in no particular order.
Arrive ==
  /\ \E s \in DOMAIN parent \ stored : stored' = stored \union {s}
  /\ UNCHANGED <<parent, fetched, opened, collapsed, selection, resets>>

Fetch ==
  LET spans == Filter(Order, {s \in stored : TraceOf[s] = opened})
  IN  /\ spans # <<>>
      /\ fetched' = [fetched EXCEPT ![opened] = spans]
      /\ UNCHANGED <<parent, stored, opened, collapsed, selection, resets>>

\* onNavigate, or the click of a row of the list behind.  A trace that is not
\* in the cache takes the tree away while it loads, and what was collapsed.
NavigateKeepsSelection ==
  /\ \E t \in Trace \ {opened} :
       /\ opened' = t
       /\ collapsed' = IF fetched[t] = <<>> THEN {} ELSE collapsed
  /\ UNCHANGED <<parent, stored, fetched, selection, resets>>

Navigate ==
  /\ \E t \in Trace \ {opened} :
       /\ opened' = t
       /\ collapsed' = IF fetched[t] = <<>> THEN {} ELSE collapsed
  /\ resets' = TRUE
  /\ UNCHANGED <<parent, stored, fetched, selection>>

\* The viewer is closed, and opened at any row of the list.
Reopen ==
  /\ opened' \in Trace
  /\ collapsed' = {} /\ selection' = TraceId /\ resets' = TRUE
  /\ UNCHANGED <<parent, stored, fetched>>

\* The effect on traceId, after the render with the other trace and before any
\* further click.
Reset ==
  /\ resets
  /\ selection' = TraceId /\ resets' = FALSE
  /\ UNCHANGED <<parent, stored, fetched, opened, collapsed>>

\* onSelect.
Select ==
  /\ Loaded /\ ~resets
  /\ \E s \in Visible \union {TraceId} : selection' = s
  /\ UNCHANGED <<parent, stored, fetched, opened, collapsed, resets>>

\* toggleCollapse, and the button of the trace's row.
Toggle ==
  /\ Loaded /\ ~resets
  /\ \E id \in Toggles :
       collapsed' = IF id \in collapsed THEN collapsed \ {id} ELSE collapsed \union {id}
  /\ UNCHANGED <<parent, stored, fetched, opened, selection, resets>>

Next == Arrive \/ Fetch \/ Navigate \/ Reopen \/ Reset \/ Select \/ Toggle

Spec == Init /\ [][Next]_vars

-----------------------------------------------------------------------------
(* Properties.                                                             *)

\* The state has its shape.  (TraceViewerPanel, SpanTreeView)
TypeOK ==
  /\ parent \in Parents /\ stored \subseteq DOMAIN parent
  /\ \A t \in Trace : ToSet(fetched[t]) \subseteq {s \in stored : TraceOf[s] = t}
  /\ opened \in Trace
  /\ collapsed \subseteq Span \union {TraceId}
  /\ selection \in Span \union {TraceId}
  /\ resets \in BOOLEAN

\* The ancestors of a span, from its root to itself, for as long as they are there.
Ancestry(s) ==
  LET up[n \in 0 .. Len(View)] ==
        [t \in Span \union {Null} |->
           IF t = Null THEN <<>>
           ELSE IF n = 0 \/ t \notin ToSet(View) THEN <<Null>>
           ELSE Append(up[n - 1][parent[t]], t)]
  IN  up[Len(View)][s]

\* The spans whose ancestors are all there.
Reachable == {s \in ToSet(View) : Head(Ancestry(s)) # Null}

Earlier(s, t) == \E i, j \in DOMAIN Order : i < j /\ Order[i] = s /\ Order[j] = t

\* b is the path that comes after a when children come below their parents, and
\* siblings in the order of their start.
Follows(b, a) ==
  \/ Front(b) = a
  \/ Len(b) <= Len(a) /\ Front(b) = SubSeq(a, 1, Len(b) - 1) /\ Earlier(a[Len(b)], Last(b))

\* Each span whose ancestors are there has one row: below its parent's, one
\* level deeper, its subtree in one piece, siblings in the order of their start.
\* (buildSpanTree)
RowsAreTheTree ==
  LET rows == Rows
      path == [s \in ToSet(View) |-> Ancestry(s)]
  IN  /\ {rows[i].span : i \in DOMAIN rows} = Reachable
      /\ \A i, j \in DOMAIN rows : rows[i].span = rows[j].span => i = j
      /\ \A i \in DOMAIN rows : rows[i].level + 1 = Len(path[rows[i].span])
      /\ \A i \in 2 .. Len(rows) : Follows(path[rows[i].span], path[rows[i - 1].span])

\* Right of the roots' column, the line below a row in some column is taken up
\* by a row of that level before any row further left: it joins siblings.
\* (buildSpanTree with SpanTreeConnector)
LinesJoinSiblings ==
  LET rows == Rows
  IN  \A i \in DOMAIN rows : \A l \in 1 .. rows[i].level :
        l \in Lines(rows[i]) <=>
          \E j \in i + 1 .. Len(rows) :
            rows[j].level = l /\ \A k \in i + 1 .. j : rows[k].level >= l

\* The agent's tree.json is the tree of the viewer.  (download-trace.ts)
TreeAgrees == Tree(View) = {Ancestry(r.span) : r \in ToSet(Rows)}

\* Whatever is hidden can be brought back: a row that shows is collapsed, and
\* has its button.  (isVisible, toggleCollapse)
HiddenCanBeShown ==
  \A r \in ToSet(Rows) : r.span \in Visible \/
    \E id \in Toggles \intersect collapsed : id = TraceId \/ id \in AncestorIds(r.span)

\* Once the effect has run, the panel shows the open trace or a span of it that
\* the tree has a row of, though the selection outlives refetches and the trace
\* it was made in.  (TraceViewerPanel)
SelectionIsOfTrace ==
  ~resets /\ selection # TraceId => \E r \in ToSet(Rows) : r.span = selection

\* Rows, lines and the agent's tree are all the one tree of the spans.
OneTree == RowsAreTheTree /\ LinesJoinSiblings /\ TreeAgrees

\* What the panel hides can be shown, and what it selects is there.
PanelIsSound == HiddenCanBeShown /\ SelectionIsOfTrace
=============================================================================
