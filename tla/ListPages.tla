----------------------------- MODULE ListPages -----------------------------
(* The traces, users and sessions pages of a project and the ways between  *)
(* them: rows, tabs, the panel that slides over a list, the links in it,   *)
(* back, forward and refresh.  The page, its user filter and its page      *)
(* number are the URL's; which row's panel is open is React state that     *)
(* takes the URL's traceId or sessionId only when the page is mounted, and *)
(* a link to the same page does not mount it again.                        *)
(*                                                                         *)
(* Rows come out of the query cache, under a key made of what was asked.   *)
(* How state and URL drift apart within a page is module ListPageState's;  *)
(* here they change together, and the date filter stays the same.          *)
EXTENDS Naturals, FiniteSets, Sequences, SequencesExt

CONSTANTS
  Traces,      \* a sequence: the traces in the order they arrive
  UserOf, SessionOf,   \* a trace's user and session, or None
  None,
  Limit,       \* rows of a page
  MaxActs      \* bound: what the user does

Trace == ToSet(Traces)
User == {UserOf[t] : t \in Trace} \ {None}
Session == {SessionOf[t] : t \in Trace} \ {None}

ListPagesAssumption ==
  /\ Traces # <<>> /\ Traces \in Seq(Trace)
  /\ UserOf \in [Trace -> User \union {None}] /\ SessionOf \in [Trace -> Session \union {None}]
  /\ Trace \intersect Session = {}
  /\ None \notin Trace /\ Limit \in Nat \ {0} /\ MaxActs \in Nat

VARIABLES
  arrived,     \* how many traces the server has
  url,         \* page, user_id, traceId or sessionId, page_index
  selected,    \* selectedTraceId, selectedSessionId
  cache,       \* the answers: a set of [key, answer]
  behind, ahead,  \* the browser's history
  landed,      \* history: the link that was followed last, if it was the last act
  acts

vars == <<arrived, url, selected, cache, behind, ahead, landed, acts>>

Page == {"traces", "users", "sessions"}
Url == [page : Page, user : User \union {None}, open : Trace \union Session \union {None},
        index : Nat]

-----------------------------------------------------------------------------
(* What the server answers, newest first.                                  *)

\* The f of the traces that arrived at P, the latest first.
Latest(f, P) ==
  [k \in 1 .. Cardinality(P) |->
     f[Traces[CHOOSE p \in P : Cardinality({q \in P : q > p}) = k - 1]]]

OfUser(user, n) == {p \in 1 .. n : user \in {None, UserOf[Traces[p]]}}

\* Where a value of f came last.
LastOf(f, n) ==
  {p \in 1 .. n : f[Traces[p]] # None /\ \A q \in p + 1 .. n : f[Traces[q]] # f[Traces[p]]}

All(u, n) ==
  CASE u.page = "traces" -> Latest([t \in Trace |-> t], OfUser(u.user, n))
    [] u.page = "users" -> Latest(UserOf, LastOf(UserOf, n))
    [] u.page = "sessions" -> Latest(SessionOf, LastOf(SessionOf, n))

Answer(u, n) ==
  LET all == All(u, n)
      from == u.index * Limit
      to == IF from + Limit < Len(all) THEN from + Limit ELSE Len(all)
  IN  [rows |-> SubSeq(all, from + 1, to), total |-> Len(all)]

-----------------------------------------------------------------------------
(* The query of the page that is shown.                                    *)

KeyNoUser(u) == <<u.page, u.index>>  \* mutant: the key lacks the user filter
Key(u) == <<u.page, u.index, IF u.page = "traces" THEN u.user ELSE None>>

Cached == {c \in cache : c.key = Key(url)}
Data == IF Cached = {} THEN [rows |-> <<>>, total |-> 0]
        ELSE (CHOOSE c \in Cached : TRUE).answer
Rows == Data.rows
totalPages == (Data.total + Limit - 1) \div Limit

\* First, or because what is cached is stale.
Fetch ==
  /\ cache' = (cache \ Cached) \union {[key |-> Key(url), answer |-> Answer(url, arrived)]}
  /\ UNCHANGED <<arrived, url, selected, behind, ahead, landed, acts>>

Arrive ==
  /\ arrived < Len(Traces) /\ arrived' = arrived + 1
  /\ UNCHANGED <<url, selected, cache, behind, ahead, landed, acts>>

Init ==
  /\ arrived = 1 /\ cache = {} /\ behind = <<>> /\ ahead = <<>> /\ acts = 0
  /\ url = [page |-> "traces", user |-> None, open |-> None, index |-> 0]
  /\ selected = None /\ landed = None

Act == acts < MaxActs /\ acts' = acts + 1

-----------------------------------------------------------------------------
(* Links.                                                                  *)

\* A page is mounted when another one was shown.
Mount(to, else) == IF to.page # url.page THEN to.open ELSE else

\* router.push and <Link>.  else is the selection if the page stays mounted; a
\* URL that is shown already makes no entry of the history.
Push(page, user, open, else) ==
  LET to == [page |-> page, user |-> user, open |-> open, index |-> 0] IN
  /\ Act
  /\ url' = to /\ selected' = Mount(to, else)
  /\ IF to = url THEN UNCHANGED <<behind, ahead>>
     ELSE behind' = Append(behind, url) /\ ahead' = <<>>
  /\ landed' = [to |-> to, from |-> url.page]
  /\ UNCHANGED <<arrived, cache>>

Tab(p) == Push(p, None, None, selected)

ClearUser == url.user # None /\ Push("traces", None, None, selected)

handleUserClick(i) ==
  /\ i \in DOMAIN Rows
  /\ Push("traces", Rows[i], None, None)

InSession(s) == {t \in ToSet(SubSeq(Traces, 1, arrived)) : SessionOf[t] = s}

\* What the panel's links offer: the trace's user and session, or the users of
\* a session.
Offered(f) ==
  CASE url.page = "traces" /\ selected # None -> {f[selected]} \ {None}
    [] url.page = "sessions" /\ selected # None ->
         {f[t] : t \in InSession(selected)} \ {None}
    [] OTHER -> {}

UserLinkStays == \E u \in Offered(UserOf) : Push("traces", u, None, selected)  \* mutant: no onClose
UserLink == \E u \in Offered(UserOf) : Push("traces", u, None, None)

SessionLink ==
  /\ url.page = "traces"
  /\ \E s \in Offered(SessionOf) : Push("sessions", None, s, None)

TraceCard ==
  /\ url.page = "sessions" /\ selected # None
  /\ \E t \in InSession(selected) : Push("traces", None, t, selected)

Back ==
  /\ Act /\ behind # <<>>
  /\ url' = Last(behind) /\ selected' = Mount(Last(behind), selected)
  /\ behind' = Front(behind) /\ ahead' = <<url>> \o ahead /\ landed' = None
  /\ UNCHANGED <<arrived, cache>>

Forward ==
  /\ Act /\ ahead # <<>>
  /\ url' = Head(ahead) /\ selected' = Mount(Head(ahead), selected)
  /\ behind' = Append(behind, url) /\ ahead' = Tail(ahead) /\ landed' = None
  /\ UNCHANGED <<arrived, cache>>

Reload ==
  /\ Act
  /\ selected' = url.open /\ cache' = {} /\ landed' = None
  /\ UNCHANGED <<arrived, url, behind, ahead>>

-----------------------------------------------------------------------------
(* On a page.                                                              *)

Stay == landed' = None /\ UNCHANGED <<arrived, cache, behind, ahead>>

Select(i) ==
  /\ Act /\ i \in DOMAIN Rows
  /\ selected' = Rows[i]
  /\ UNCHANGED url /\ Stay

onClose == Act /\ selected # None /\ selected' = None /\ UNCHANGED url /\ Stay

\* The bar under the rows.  router.replace keeps the other parameters.
goToPage(n) ==
  /\ Act /\ Rows # <<>> /\ n # url.index /\ n < totalPages
  /\ url' = [url EXCEPT !.index = n]
  /\ UNCHANGED selected /\ Stay

\* findIndex, 0 for a row that is not there.
Index(x) == IF x \in ToSet(Rows) THEN CHOOSE i \in DOMAIN Rows : Rows[i] = x ELSE 0

canNavigateUp == selected # None /\ Index(selected) > 1
canNavigateDown == selected # None /\ Index(selected) < Len(Rows)

Onto(i) == IF i \in DOMAIN Rows THEN Rows[i] ELSE None

onNavigate ==
  /\ Act
  /\ \/ canNavigateUp /\ selected' = Onto(Index(selected) - 1)
     \/ canNavigateDown /\ selected' = Onto(Index(selected) + 1)
  /\ UNCHANGED url /\ Stay

Numbers == 0 .. Len(Traces)

TracesPage ==
  /\ url.page = "traces"
  /\ \/ ClearUser \/ onClose \/ onNavigate
     \/ \E i \in 1 .. Limit : Select(i)
     \/ \E n \in Numbers : goToPage(n)

UsersPage ==
  /\ url.page = "users"
  /\ \/ \E i \in 1 .. Limit : handleUserClick(i)
     \/ \E n \in Numbers : goToPage(n)

SessionsPage ==
  /\ url.page = "sessions"
  /\ \/ onClose \/ onNavigate
     \/ \E i \in 1 .. Limit : Select(i)
     \/ \E n \in Numbers : goToPage(n)

Next ==
  \/ Fetch \/ Arrive
  \/ \E p \in Page : Tab(p)
  \/ TracesPage \/ UsersPage \/ SessionsPage
  \/ UserLink \/ SessionLink \/ TraceCard \/ Back \/ Forward \/ Reload

Spec == Init /\ [][Next]_vars

-----------------------------------------------------------------------------
(* Properties.                                                             *)

TypeOK ==
  /\ arrived \in 0 .. Len(Traces) /\ url \in Url
  /\ selected \in Trace \union Session \union {None}
  /\ selected # None => url.page # "users" /\ (url.page = "traces") = (selected \in Trace)

\* The rows on the screen are an answer to what the URL asks, given when the
\* server had no more traces than now: never another filter's, another page's
\* or another list's.  (useTraces, useUsers, useSessions)
RowsAnswer ==
  Cached # {} => \E n \in 0 .. arrived : Data = Answer(url, n)

\* A link out of a panel, or to another page, shows what it names and nothing
\* else: its panel if it names one, and none otherwise.  Only a tab of the page
\* that is shown and the clearing of the filter keep the panel.
\* (SpanInfoPanel, SessionDetailPanel, useState(traceIdFromUrl))
LinksLand ==
  landed # None =>
    /\ url = landed.to
    /\ selected = landed.to.open \/ (landed.from = url.page /\ landed.to.user = None)

ListIsFollowed == RowsAnswer /\ LinksLand
=============================================================================
