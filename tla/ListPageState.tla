--------------------------- MODULE ListPageState ---------------------------
(***************************************************************************)
(* The traces, users and sessions pages keep page, page size and date      *)
(* filter twice: in React state and in the URL.  A handler sets the state  *)
(* and asks the router to replace the URL; the URL changes later, and an   *)
(* effect then copies it back into the state, unless it believes that the  *)
(* change is its own.  Every handler builds the new URL from the URL of    *)
(* the last render, and a navigation that has not happened yet gives way   *)
(* to the next one.                                                        *)
(*                                                                         *)
(* Effects run before the next event, so an action is a handler, the       *)
(* render after it and the effects of that render.                         *)
(***************************************************************************)
EXTENDS Naturals

CONSTANTS
  Preset, Range,   (* date filters with a duration; custom date ranges     *)
  DefaultFilter,   (* DEFAULT_DATE_FILTER                                  *)
  Limit, DefaultLimit,
  MaxPage,         (* bound: the last page of the list                     *)
  MaxActs,         (* bound: what the user does                            *)
  None             (* no such parameter in the URL, no date in the state   *)

VARIABLES
  page, limit,  (* useUrlPagination                                        *)
  skip,         (* its isProgrammaticUpdate ref                            *)
  date,         (* useUrlDateFilter: the filter and the custom range       *)
  url,          (* the query parameters of the last render                 *)
  nav,          (* the navigation the router has not completed, or None    *)
  hist,         (* the other entries of the browser's history              *)
  wanted,       (* history: the page and date filter the user chose last   *)
  clash,        (* history: two updates met, see Meets                     *)
  acts

vars == <<page, limit, skip, date, url, nav, hist, wanted, clash, acts>>

Page   == 0 .. MaxPage
Filter == Preset \cup {"custom"}
Url    == [page : Page, limit : Limit, id : Filter \cup {None}, range : Range \cup {None}]
Date   == [id : Filter, range : Range \cup {None}]
Nav    == [to : Url, push : BOOLEAN]

ListPageAssumption ==
  /\ DefaultFilter \in Preset /\ DefaultLimit \in Limit /\ "custom" \notin Preset
  /\ None \notin Filter \cup Range \cup Nav
  /\ MaxPage \in Nat /\ MaxActs \in Nat

DateOf(u) == [id |-> IF u.id = None THEN DefaultFilter ELSE u.id, range |-> u.range]

Mounted(u) ==
  /\ page = u.page /\ limit = u.limit /\ skip = FALSE /\ date = DateOf(u)

Init ==
  /\ url \in {u \in Url : u.id \in Preset \cup {None} /\ u.range = None /\ u.limit = DefaultLimit}
  /\ Mounted(url)
  /\ nav = None /\ hist = {} /\ acts = 0 /\ clash = FALSE
  /\ wanted = [page |-> url.page, date |-> DateOf(url)]

(* The effect of useUrlDateFilter: what the URL says wins over the state.  *)
Synced(d, u) ==
  [id    |-> IF u.id = None THEN d.id ELSE u.id,
   range |-> IF u.range = None THEN d.range ELSE u.range]

To(u, push) == [to |-> u, push |-> push]

(* Two updates meet: the URL of an unfinished navigation is overwritten,   *)
(* or the URL asked for is the one already there.                          *)
Meets(u) == nav # None \/ u = url

Acted == acts < MaxActs /\ acts' = acts + 1

-----------------------------------------------------------------------------
PageUrl(p, l) == [url EXCEPT !.page = p, !.limit = l]

GoToPage(p) ==
  /\ Acted /\ p # page
  /\ page' = p /\ skip' = TRUE /\ nav' = To(PageUrl(p, limit), FALSE)
  /\ wanted' = [wanted EXCEPT !.page = p]
  /\ clash' = (clash \/ Meets(PageUrl(p, limit)))
  /\ UNCHANGED <<limit, date, url, hist>>

SetLimit(l) ==
  /\ Acted
  /\ limit' = l /\ page' = 0 /\ skip' = TRUE /\ nav' = To(PageUrl(0, l), FALSE)
  /\ wanted' = [wanted EXCEPT !.page = 0]
  /\ clash' = (clash \/ Meets(PageUrl(0, l)))
  /\ UNCHANGED <<date, url, hist>>

(* resetPage, called last by a handler that has asked for navigation n (or *)
(* for none): on another page than the first it asks for a URL of its own, *)
(* built from the same last render.                                        *)
ResetPage(n) ==
  \/ /\ page # 0
     /\ page' = 0 /\ skip' = TRUE /\ nav' = To(PageUrl(0, limit), FALSE)
  \/ /\ page = 0
     /\ nav' = n
     /\ UNCHANGED <<page, skip>>

Choose(d) ==
  LET u == [url EXCEPT !.id = d.id, !.range = IF d.id = "custom" THEN d.range ELSE None] IN
  /\ Acted
  /\ date' = Synced(d, url)
  /\ ResetPage(To(u, FALSE))
  /\ wanted' = [page |-> 0, date |-> d]
  /\ clash' = (clash \/ page # 0 \/ nav # None)
  /\ UNCHANGED <<limit, url, hist>>

SetDateFilter(f) == Choose([date EXCEPT !.id = f])

(* The dialog chooses the custom option and its range in one handler.      *)
SetCustomRange(r) == Choose([id |-> "custom", range |-> r])

(* The debounced keyword changed.                                          *)
Search ==
  /\ Acted
  /\ ResetPage(nav)
  /\ wanted' = [wanted EXCEPT !.page = 0]
  /\ clash' = (clash \/ (page # 0 /\ Meets(PageUrl(0, limit))) \/ nav # None)
  /\ UNCHANGED <<limit, date, url, hist>>

-----------------------------------------------------------------------------
(* A tab, or the button that clears the user filter: buildUrlWithFilters   *)
(* keeps the date filter of the state and nothing else.                    *)
Link ==
  LET u == [page |-> 0, limit |-> DefaultLimit, id |-> date.id,
            range |-> IF date.id = "custom" THEN date.range ELSE None] IN
  /\ Acted
  /\ nav' = To(u, TRUE)
  /\ wanted' = [wanted EXCEPT !.page = 0]
  /\ clash' = (clash \/ nav # None)
  /\ UNCHANGED <<page, limit, skip, date, url, hist>>

(* Back or forward to an entry of the history.                             *)
Back(u) ==
  /\ Acted
  /\ nav' = To(u, TRUE)
  /\ wanted' = [page |-> u.page, date |-> Synced(wanted.date, u)]
  /\ clash' = (clash \/ nav # None \/ u.id = None)
  /\ UNCHANGED <<page, limit, skip, date, url, hist>>

Reload ==
  /\ Acted
  /\ page' = url.page /\ limit' = url.limit /\ skip' = FALSE /\ date' = DateOf(url)
  /\ nav' = None
  /\ wanted' = [page |-> url.page, date |-> DateOf(url)]
  /\ clash' = FALSE
  /\ UNCHANGED <<url, hist>>

(* The effect of useUrlPagination after the URL changed.                   *)
SyncPageTwice(u) ==  \* mutant: the ref stays set
  IF skip THEN UNCHANGED <<page, limit, skip>>
  ELSE page' = u.page /\ limit' = u.limit /\ UNCHANGED skip
SyncPage(u) ==
  IF skip THEN skip' = FALSE /\ UNCHANGED <<page, limit>>
  ELSE page' = u.page /\ limit' = u.limit /\ UNCHANGED skip

(* The router completes a navigation; the effects depend on its URL.       *)
Commit ==
  /\ nav # None
  /\ url' = nav.to /\ nav' = None
  /\ hist' = IF nav.push THEN hist \cup {url} ELSE hist
  /\ IF nav.to = url THEN UNCHANGED <<page, limit, skip>> ELSE SyncPage(nav.to)
  /\ date' = Synced(date, nav.to)
  /\ UNCHANGED <<wanted, clash, acts>>

Next ==
  \/ \E p \in Page : GoToPage(p)
  \/ \E l \in Limit : SetLimit(l)
  \/ \E f \in Preset : SetDateFilter(f)
  \/ \E r \in Range : SetCustomRange(r)
  \/ Search \/ Link \/ Reload \/ Commit
  \/ \E u \in hist : Back(u)

Spec == Init /\ [][Next]_vars

-----------------------------------------------------------------------------
TypeOK ==
  /\ page \in Page /\ limit \in Limit /\ skip \in BOOLEAN
  /\ date \in Date /\ url \in Url /\ hist \subseteq Url
  /\ nav \in Nav \cup {None} /\ wanted \in [page : Page, date : Date]

Shown(d) == [id |-> d.id, range |-> IF d.id = "custom" THEN d.range ELSE None]

Quiet == nav = None

(* Once the router is at rest the page shows what the user chose last and  *)
(* a refresh shows the same, unless two updates met since the page was     *)
(* loaded.                                                                 *)
DriftNeedsClash ==
  Quiet /\ ~clash =>
    /\ page = wanted.page /\ Shown(date) = Shown(wanted.date)
    /\ url.page = page /\ url.limit = limit /\ Shown(DateOf(url)) = Shown(date)
=============================================================================
