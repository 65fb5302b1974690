---------------------------- MODULE TraceReader ----------------------------
(***************************************************************************)
(* What the read API makes of the two ClickHouse tables while ingestion    *)
(* writes them: the list of traces that a user walks page by page, the     *)
(* sessions and users derived from it, and the session's own page.  Each   *)
(* answer is computed by several queries, and nothing holds the tables     *)
(* still between them or between two pages.                                *)
(*                                                                         *)
(* A time is a number; DayLen of them make a day.  FINAL keeps, of the     *)
(* rows with one sorting key, the one written last; the key of a trace     *)
(* holds its day and the key of a span its kind and its day.               *)
(***************************************************************************)
EXTENDS Naturals, FiniteSets, FiniteSetsExt, SequencesExt

CONSTANTS
  TraceRows, SpanRows,  (* the rows ingestion may insert                   *)
  Windows,              (* [after, before] of the date filter              *)
  DayLen, Limit,
  MaxInserts,           (* bound: rows inserted                            *)
  MaxWalks,             (* bound: walks through the list                   *)
  Null

ReaderAssumption ==
  /\ DayLen \in Nat \ {0} /\ Limit \in Nat \ {0}
  /\ \A r \in TraceRows : r.time \in Nat
  /\ \A s \in SpanRows : s.tokens = Null \/ s.tokens \in Nat
  /\ \A w \in Windows : {w.after, w.before} \subseteq Nat \cup {Null}
  /\ Null \notin Nat

VARIABLES
  traces, spans,  (* the rows of each table after FINAL                    *)
  walk,           (* the list page of one user                             *)
  inserts, walks

vars == <<traces, spans, walk, inserts, walks>>

TraceId == {r.id : r \in TraceRows}
Day(t) == t \div DayLen
NoWindow == [after |-> Null, before |-> Null]

Init ==
  /\ traces = {} /\ spans = {} /\ inserts = 0 /\ walks = 0
  /\ walk = [at |-> "idle", window |-> NoWindow, page |-> 0, total |-> 0,
             seen |-> {}, held |-> {}, plain |-> TRUE]

-----------------------------------------------------------------------------
(* The queries.                                                            *)
InWindow(t, w) ==
  /\ w.after = Null \/ t >= w.after
  /\ w.before = Null \/ t < w.before

Matching(w) == {r \in traces : InWindow(r.time, w)}

(* ORDER BY trace_start_time DESC leaves the order of equal times open.    *)
Listings(w) ==
  {q \in SetToSeqs(Matching(w)) : \A i, j \in DOMAIN q : i < j => q[i].time >= q[j].time}

Page(q, p) == {q[i] : i \in (p * Limit + 1 .. (p + 1) * Limit) \cap DOMAIN q}

Total(w) == Cardinality({r.id : r \in Matching(w)})

TotalPagesFloor(total) == total \div Limit  \* mutant: a page that is not full is lost
TotalPages(total) == (total + Limit - 1) \div Limit

SpansOf(ids) == {s \in spans : s.trace \in ids}

Duration(id) ==
  LET ends == {s.end : s \in SpansOf({id})} \ {Null} IN
  IF ends = {} THEN Null ELSE Max(ends) - Min({s.start : s \in SpansOf({id})})

(* sum skips NULL, and is NULL when nothing else is there.                 *)
SumOf(S, f(_)) ==
  LET known == {x \in S : f(x) # Null} IN
  IF known = {} THEN Null ELSE MapThenSumSet(f, known)

Tokens(S) == SumOf(S, LAMBDA s : s.tokens)
Durations(rows) == SumOf(rows, LAMBDA r : Duration(r.id))
JoinedTokens(rows) == SumOf(rows, LAMBDA r : Tokens(SpansOf({r.id})))

(* list_sessions, of one session: sums of sums, by a join.                 *)
ListedRows(session, w) == {r \in Matching(w) : r.session = session}
SessionEntry(session, w) ==
  LET rows == ListedRows(session, w) IN
  [count |-> Cardinality(rows),
   users |-> {r.user : r \in rows} \ {Null},
   first |-> Min({r.time : r \in rows}), last |-> Max({r.time : r \in rows}),
   duration |-> Durations(rows),
   tokens |-> JoinedTokens(rows)]

(* get_session.                                                            *)
DetailRowsUntil(session, w) ==  \* mutant: the window's end belongs to it
  {r \in traces : r.session = session /\ (w.after = Null \/ r.time >= w.after)
                                      /\ (w.before = Null \/ r.time <= w.before)}
DetailRows(session, w) == {r \in traces : r.session = session /\ InWindow(r.time, w)}
SessionDetail(session, w) ==
  LET rows == DetailRows(session, w) IN
  [count |-> Cardinality(rows),
   users |-> {r.user : r \in rows} \ {Null},
   first |-> Min({r.time : r \in rows}), last |-> Max({r.time : r \in rows}),
   duration |-> Durations(rows),
   tokens |-> Tokens(SpansOf({r.id : r \in rows}))]

(* list_users, of one user: the end of the window belongs to it.           *)
UserRows(user, w) ==
  {r \in traces : /\ r.user = user
                  /\ w.after = Null \/ r.time >= w.after
                  /\ w.before = Null \/ r.time <= w.before}
UserTracesPerRow(user, w) == Cardinality(UserRows(user, w))  \* mutant: rows, not traces
UserTraces(user, w) == Cardinality({r.id : r \in UserRows(user, w)})

-----------------------------------------------------------------------------
(* Ingestion.                                                              *)
TraceKey(r) == <<Day(r.time), r.id>>
SpanKey(s) == <<s.kind, Day(s.start), s.id>>

Plain(rows) == \A r, x \in rows : r # x => r.time # x.time /\ r.id # x.id

InsertTrace(r) ==
  LET old == {x \in traces : TraceKey(x) = TraceKey(r)} IN
  /\ inserts < MaxInserts /\ inserts' = inserts + 1
  /\ traces' = (traces \ old) \cup {r}
  /\ walk' = [walk EXCEPT !.plain = @ /\ old \subseteq {r} /\ Plain(traces')]
  /\ UNCHANGED <<spans, walks>>

InsertSpan(s) ==
  /\ inserts < MaxInserts /\ inserts' = inserts + 1
  /\ spans' = {x \in spans : SpanKey(x) # SpanKey(s)} \cup {s}
  /\ UNCHANGED <<traces, walk, walks>>

-----------------------------------------------------------------------------
(* A user opens the list and goes on to its end.                           *)
Open(w) ==
  /\ walk.at \in {"idle", "shown"} /\ walks < MaxWalks /\ walks' = walks + 1
  /\ walk' = [at |-> "rows", window |-> w, page |-> 0, total |-> 0, seen |-> {},
              held |-> {r.id : r \in Matching(w)}, plain |-> Plain(traces)]
  /\ UNCHANGED <<traces, spans, inserts>>

(* list_traces sends two queries, the rows and the total.                  *)
QueryRows ==
  /\ walk.at = "rows"
  /\ \E q \in Listings(walk.window) :
       walk' = [walk EXCEPT !.at = "total",
                            !.seen = @ \cup {r.id : r \in Page(q, walk.page)}]
  /\ UNCHANGED <<traces, spans, inserts, walks>>

QueryTotal ==
  /\ walk.at = "total"
  /\ walk' = [walk EXCEPT !.at = "shown", !.total = Total(walk.window)]
  /\ UNCHANGED <<traces, spans, inserts, walks>>

AtLastPage == walk.page + 1 >= TotalPages(walk.total)

NextPage ==
  /\ walk.at = "shown" /\ ~AtLastPage
  /\ walk' = [walk EXCEPT !.at = "rows", !.page = @ + 1]
  /\ UNCHANGED <<traces, spans, inserts, walks>>

Next ==
  \/ \E r \in TraceRows : InsertTrace(r)
  \/ \E s \in SpanRows : InsertSpan(s)
  \/ \E w \in Windows : Open(w)
  \/ QueryRows \/ QueryTotal \/ NextPage

Spec == Init /\ [][Next]_vars

-----------------------------------------------------------------------------
TypeOK ==
  /\ traces \subseteq TraceRows /\ spans \subseteq SpanRows
  /\ walk.at \in {"idle", "rows", "total", "shown"}
  /\ walk.seen \subseteq TraceId /\ walk.held \subseteq TraceId
  /\ walk.total \in 0 .. Cardinality({r.id : r \in traces}) /\ walk.plain \in BOOLEAN

(* A walk to the last page meets every trace that was there when it began, *)
(* whatever is inserted meanwhile, unless two traces start together, a     *)
(* trace has two rows, or a row is replaced by another one.                *)
NothingIsSkipped == walk.at = "shown" /\ AtLastPage /\ walk.plain => walk.held \subseteq walk.seen

Sessions == {r.session : r \in traces} \ {Null}
OneRowEach(rows) == \A r, x \in rows : r.id = x.id => r = x

(* The list of sessions and the page of a session agree on everything they *)
(* both show, though one joins and groups and the other sums in Python;    *)
(* on the tokens only as long as each trace has one row.                   *)
SessionsAgree ==
  \A session \in Sessions, w \in Windows :
    ListedRows(session, w) # {} =>
      LET a == SessionEntry(session, w) b == SessionDetail(session, w) IN
      /\ DetailRows(session, w) # {}
      /\ \A f \in {"count", "users", "first", "last", "duration"} : a[f] = b[f]
      /\ OneRowEach(ListedRows(session, w)) => a.tokens = b.tokens

(* The number beside a user is the total of the list it links to, unless a *)
(* trace starts at the very end of the window.                             *)
UsersAgree ==
  \A user \in {r.user : r \in traces} \ {Null}, w \in Windows :
    (\A r \in traces : r.time # w.before) =>
      UserTraces(user, w) = Cardinality({r.id : r \in {x \in Matching(w) : x.user = user}})

(* The numbers beside sessions and users are those of the pages behind.    *)
NumbersAgree == SessionsAgree /\ UsersAgree
=============================================================================
