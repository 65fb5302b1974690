--------------------------- MODULE BrowserProofs ---------------------------
(***************************************************************************)
(* The dashboard in the browser, for any number of filters, messages,      *)
(* providers, keys, traces, requests and clicks: every part keeps its      *)
(* types, a list follows its URL, nothing is mixed by one thing at a time, *)
(* and the pages show what was followed, chosen or stored.                 *)
(*                                                                         *)
(* Each part has an invariant of its own, kept by its initial states and   *)
(* steps; the theorems about the whole are at the end.                     *)
(*                                                                         *)
(* First the state of a list page.  Unless two updates met, page, filter   *)
(* and URL are what the user chose last, or the choice is on its way from  *)
(* the state to the URL (Paging) or from the URL to the state (Going).     *)
(***************************************************************************)
EXTENDS Browser, FiniteSetTheorems, SequenceTheorems, TLAPS

(* Whoever says "custom" has a range.                                      *)
Ranged(u) == u.id = "custom" => u.range # None

UrlInv ==
  /\ index \in Lists!Page /\ limit \in Limits /\ skip \in BOOLEAN /\ clash \in BOOLEAN
  /\ date \in Lists!Date /\ params \in Lists!Url /\ entries \subseteq Lists!Url
  /\ nav \in Lists!Nav \cup {None}
  /\ wanted \in [page : Lists!Page, date : Lists!Date]
  /\ Ranged(params) /\ Ranged(date) /\ (nav # None => Ranged(nav.to))
  /\ \A u \in entries : Ranged(u)

(* What the URL shows is what the state shows.                             *)
Agrees(u) == u.page = index /\ u.limit = limit
Dated(u) == Lists!Shown(Lists!DateOf(u)) = Lists!Shown(date)

(* Nothing is under way, a change of page that the effect will leave alone, *)
(* or a change that the effect will copy into the state.                   *)
ListAtRest == nav = None /\ ~skip /\ Agrees(params) /\ Dated(params)
              /\ index = wanted.page /\ Lists!Shown(date) = Lists!Shown(wanted.date)

Paging == nav # None /\ skip /\ nav.to # params /\ Agrees(nav.to) /\ Dated(nav.to)
          /\ index = wanted.page /\ Lists!Shown(date) = Lists!Shown(wanted.date)

Going == nav # None /\ ~skip /\ Agrees(params) /\ nav.to.page = wanted.page
         /\ Lists!Shown(Lists!Synced(date, nav.to)) = Lists!Shown(wanted.date)
         /\ Lists!Shown(Lists!DateOf(nav.to)) = Lists!Shown(Lists!Synced(date, nav.to))

ListInv == UrlInv /\ (~clash => ListAtRest \/ Paging \/ Going)

LEMMA DateType ==
  ASSUME Lists!ListPageAssumption, NEW u \in Lists!Url
  PROVE  Lists!DateOf(u) \in Lists!Date
BY DEF Lists!ListPageAssumption, Lists!Url, Lists!Date, Lists!DateOf, Lists!Filter

LEMMA SyncedType ==
  ASSUME NEW d \in Lists!Date, NEW u \in Lists!Url
  PROVE  /\ Lists!Synced(d, u) \in Lists!Date
         /\ Ranged(d) /\ Ranged(u) => Ranged(Lists!Synced(d, u))
BY DEF Lists!Url, Lists!Date, Lists!Synced, Lists!Filter, Ranged

(* Copying a URL that shows the same date changes nothing that is shown.   *)
LEMMA SyncedSame ==
  ASSUME NEW d \in Lists!Date, NEW u \in Lists!Url, Lists!Shown(Lists!DateOf(u)) = Lists!Shown(d),
         Lists!ListPageAssumption
  PROVE  Lists!Shown(Lists!Synced(d, u)) = Lists!Shown(d)
BY DEF Lists!Url, Lists!Date, Lists!Synced, Lists!Filter, Lists!Shown, Lists!DateOf,
       Lists!ListPageAssumption

LEMMA PageUrlType ==
  ASSUME UrlInv, NEW p \in Lists!Page, NEW l \in Limits
  PROVE  /\ Lists!PageUrl(p, l) \in Lists!Url /\ Ranged(Lists!PageUrl(p, l))
         /\ Lists!DateOf(Lists!PageUrl(p, l)) = Lists!DateOf(params)
         /\ Lists!PageUrl(p, l).page = p /\ Lists!PageUrl(p, l).limit = l
BY DEF UrlInv, Lists!PageUrl, Lists!Url, Ranged, Lists!DateOf

LEMMA ToType ==
  ASSUME NEW u \in Lists!Url, NEW b \in BOOLEAN
  PROVE  Lists!To(u, b) \in Lists!Nav /\ Lists!To(u, b).to = u
BY DEF Lists!To, Lists!Nav

LEMMA InitList == ASSUME Lists!ListPageAssumption, Lists!Init PROVE ListInv
<1>1. params \in Lists!Url /\ params.id \in Presets \cup {None} /\ params.range = None
  BY DEF Lists!Init
<1>2. Lists!DateOf(params) \in Lists!Date /\ Ranged(Lists!DateOf(params)) /\ Ranged(params)
  BY <1>1, DateType DEF Ranged, Lists!DateOf, Lists!ListPageAssumption, Lists!Filter
<1>3. index = params.page /\ limit = params.limit /\ skip = FALSE /\ date = Lists!DateOf(params)
      /\ wanted = [page |-> params.page, date |-> Lists!DateOf(params)] /\ nav = None
      /\ entries = {} /\ clash = FALSE
  BY DEF Lists!Init, Lists!Mounted
<1>4. index \in Lists!Page /\ limit \in Limits
  BY <1>1, <1>3 DEF Lists!Url
<1>5. UrlInv
  BY <1>1, <1>2, <1>3, <1>4 DEF UrlInv
<1> QED BY <1>3, <1>5 DEF ListInv, ListAtRest, Agrees, Dated, Lists!DateOf

LEMMA GoToPageStep ==
  ASSUME Lists!ListPageAssumption, ListInv, NEW p \in Lists!Page, Lists!GoToPage(p) PROVE ListInv'
<1> DEFINE u == Lists!PageUrl(p, limit)
<1>1. u \in Lists!Url /\ Ranged(u) /\ Lists!DateOf(u) = Lists!DateOf(params) /\ u.page = p
        /\ u.limit = limit
  BY PageUrlType DEF ListInv, UrlInv
<1>2. /\ index' = p /\ skip' = TRUE /\ nav' = Lists!To(u, FALSE) /\ p # index
      /\ wanted' = [wanted EXCEPT !.page = p] /\ clash' = (clash \/ nav # None \/ u = params)
      /\ UNCHANGED <<limit, date, params, entries>>
  BY DEF Lists!GoToPage, Lists!Meets
<1> HIDE DEF u
<1>3. nav' \in Lists!Nav /\ nav'.to = u /\ nav' # None
  BY <1>1, <1>2, ToType DEF Lists!ListPageAssumption
<1>4. wanted' \in [page : Lists!Page, date : Lists!Date] /\ wanted'.page = p
        /\ wanted'.date = wanted.date
  BY <1>2 DEF ListInv, UrlInv
<1>5. UrlInv'
  BY <1>1, <1>2, <1>3, <1>4 DEF ListInv, UrlInv, Ranged
<1>6. ASSUME ~clash' PROVE Paging'
  <2>1. ListAtRest /\ u # params
    BY <1>2, <1>6 DEF ListInv, Paging, Going
  <2> QED BY <2>1, <1>1, <1>2, <1>3, <1>4 DEF ListAtRest, Paging, Agrees, Dated
<1> QED BY <1>5, <1>6 DEF ListInv

LEMMA SetLimitStep ==
  ASSUME Lists!ListPageAssumption, ListInv, NEW l \in Limits, Lists!SetLimit(l) PROVE ListInv'
<1> DEFINE u == Lists!PageUrl(0, l)
<1>0. 0 \in Lists!Page
  BY DEF Lists!Page, Lists!ListPageAssumption
<1>1. u \in Lists!Url /\ Ranged(u) /\ Lists!DateOf(u) = Lists!DateOf(params) /\ u.page = 0
        /\ u.limit = l
  BY <1>0, PageUrlType DEF ListInv
<1>2. /\ index' = 0 /\ limit' = l /\ skip' = TRUE /\ nav' = Lists!To(u, FALSE)
      /\ wanted' = [wanted EXCEPT !.page = 0] /\ clash' = (clash \/ nav # None \/ u = params)
      /\ UNCHANGED <<date, params, entries>>
  BY DEF Lists!SetLimit, Lists!Meets
<1> HIDE DEF u
<1>3. nav' \in Lists!Nav /\ nav'.to = u /\ nav' # None
  BY <1>1, <1>2, ToType DEF Lists!ListPageAssumption
<1>4. wanted' \in [page : Lists!Page, date : Lists!Date] /\ wanted'.page = 0
        /\ wanted'.date = wanted.date
  BY <1>0, <1>2 DEF ListInv, UrlInv
<1>5. UrlInv'
  BY <1>0, <1>1, <1>2, <1>3, <1>4 DEF ListInv, UrlInv, Ranged
<1>6. ASSUME ~clash' PROVE Paging'
  <2>1. ListAtRest /\ u # params
    BY <1>2, <1>6 DEF ListInv, Paging, Going
  <2> QED BY <2>1, <1>1, <1>2, <1>3, <1>4 DEF ListAtRest, Paging, Agrees, Dated
<1> QED BY <1>5, <1>6 DEF ListInv

(* The first page, and the navigation that is asked for.                   *)
LEMMA ResetType ==
  ASSUME Lists!ListPageAssumption, UrlInv, NEW n \in Lists!Nav \cup {None},
         n # None => Ranged(n.to), Lists!ResetPage(n)
  PROVE  /\ index' = 0 /\ index' \in Lists!Page /\ skip' \in BOOLEAN
         /\ nav' \in Lists!Nav \cup {None}
         /\ nav' # None => Ranged(nav'.to)
         /\ index = 0 => nav' = n /\ skip' = skip
         /\ index # 0 => nav' = Lists!To(Lists!PageUrl(0, limit), FALSE) /\ skip' = TRUE
<1>1. 0 \in Lists!Page
  BY DEF Lists!Page, Lists!ListPageAssumption
<1>2. Lists!To(Lists!PageUrl(0, limit), FALSE) \in Lists!Nav
        /\ Lists!To(Lists!PageUrl(0, limit), FALSE).to = Lists!PageUrl(0, limit)
      /\ Ranged(Lists!PageUrl(0, limit))
  BY <1>1, PageUrlType, ToType DEF UrlInv
<1>3. CASE index = 0
  BY <1>1, <1>3 DEF Lists!ResetPage, UrlInv
<1>4. CASE index # 0
  BY <1>1, <1>2, <1>4 DEF Lists!ResetPage
<1> QED BY <1>3, <1>4

LEMMA ChooseStep ==
  ASSUME Lists!ListPageAssumption, ListInv, NEW d \in Lists!Date, Ranged(d),
         d.id \in Presets \/ d.range \in Dates, Lists!Choose(d)
  PROVE  ListInv'
<1> DEFINE u == [params EXCEPT !.id = d.id, !.range = IF d.id = "custom" THEN d.range ELSE None]
<1>1. /\ u \in Lists!Url /\ Ranged(u) /\ u.page = params.page /\ u.limit = params.limit
      /\ u.id = d.id /\ u.id # None /\ u.range = IF d.id = "custom" THEN d.range ELSE None
  BY DEF ListInv, UrlInv, Lists!Url, Lists!Date, Ranged, Lists!ListPageAssumption
<1>2. /\ date' = Lists!Synced(d, params) /\ Lists!ResetPage(Lists!To(u, FALSE))
      /\ wanted' = [page |-> 0, date |-> d]
      /\ clash' = (clash \/ index # 0 \/ nav # None) /\ UNCHANGED <<limit, params, entries>>
  BY DEF Lists!Choose
<1> HIDE DEF u
<1>3. Lists!To(u, FALSE) \in Lists!Nav /\ Lists!To(u, FALSE).to = u /\ Lists!To(u, FALSE) # None
  BY <1>1, ToType DEF Lists!ListPageAssumption
<1>4. /\ index' = 0 /\ index' \in Lists!Page /\ skip' \in BOOLEAN /\ nav' \in Lists!Nav \cup {None}
      /\ nav' # None => Ranged(nav'.to)
      /\ index = 0 => nav' = Lists!To(u, FALSE) /\ skip' = skip
  BY <1>1, <1>2, <1>3, ResetType DEF ListInv
<1>5. date' \in Lists!Date /\ Ranged(date')
  BY <1>2, SyncedType DEF ListInv, UrlInv
<1>6. wanted' \in [page : Lists!Page, date : Lists!Date] /\ wanted'.page = 0 /\ wanted'.date = d
  BY <1>2, <1>4
<1>7. UrlInv'
  BY <1>2, <1>4, <1>5, <1>6 DEF ListInv, UrlInv, Ranged
<1>8. ASSUME ~clash' PROVE Going'
  <2>1. ListAtRest /\ index = 0
    BY <1>2, <1>8 DEF ListInv, Paging, Going
  <2>2. Lists!Synced(date', u) \in Lists!Date /\ Lists!Synced(date', u).id = d.id
        /\ (d.id = "custom" => Lists!Synced(date', u).range = d.range)
    BY <1>1, <1>5, SyncedType DEF Lists!Synced, Ranged
  <2>3. Lists!Shown(Lists!Synced(date', u)) = Lists!Shown(d)
          /\ Lists!Shown(Lists!DateOf(u)) = Lists!Shown(d)
    BY <1>1, <2>2 DEF Lists!Shown, Lists!DateOf
  <2> QED BY <2>1, <2>3, <1>1, <1>2, <1>3, <1>4, <1>6 DEF ListAtRest, Going, Agrees
<1> QED BY <1>7, <1>8 DEF ListInv

LEMMA SearchStep == ASSUME Lists!ListPageAssumption, ListInv, Lists!Search PROVE ListInv'
<1>1. /\ Lists!ResetPage(nav) /\ wanted' = [wanted EXCEPT !.page = 0]
      /\ clash' = (clash \/ (index # 0 /\ Lists!Meets(Lists!PageUrl(0, limit))) \/ nav # None)
      /\ UNCHANGED <<limit, date, params, entries>>
  BY DEF Lists!Search
<1>2. /\ index' = 0 /\ index' \in Lists!Page /\ skip' \in BOOLEAN /\ nav' \in Lists!Nav \cup {None}
      /\ nav' # None => Ranged(nav'.to)
      /\ index = 0 => nav' = nav /\ skip' = skip
      /\ index # 0 => nav' = Lists!To(Lists!PageUrl(0, limit), FALSE) /\ skip' = TRUE
  BY <1>1, ResetType DEF ListInv, UrlInv
<1>3. wanted' \in [page : Lists!Page, date : Lists!Date] /\ wanted'.page = 0
        /\ wanted'.date = wanted.date
  BY <1>1, <1>2 DEF ListInv, UrlInv
<1>4. UrlInv'
  BY <1>1, <1>2, <1>3 DEF ListInv, UrlInv, Ranged
<1>5. ASSUME ~clash' PROVE ListAtRest' \/ Paging'
  <2>1. ListAtRest
    BY <1>1, <1>5 DEF ListInv, Paging, Going
  <2>2. CASE index = 0
    BY <2>1, <2>2, <1>1, <1>2, <1>3 DEF ListAtRest, Agrees, Dated
  <2>3. CASE index # 0
    <3> DEFINE u == Lists!PageUrl(0, limit)
    <3>1. u # params
      BY <1>1, <1>5, <2>3 DEF Lists!Meets
    <3>2. u \in Lists!Url /\ Lists!DateOf(u) = Lists!DateOf(params) /\ u.page = 0 /\ u.limit = limit
      BY <1>2, PageUrlType DEF ListInv, UrlInv
    <3>3. nav' = Lists!To(u, FALSE)
      BY <1>2, <2>3
    <3> HIDE DEF u
    <3>4. nav'.to = u /\ nav' # None
      BY <3>2, <3>3, ToType DEF Lists!ListPageAssumption
    <3> QED BY <2>1, <2>3, <3>1, <3>2, <3>4, <1>1, <1>2, <1>3 DEF ListAtRest, Paging, Agrees, Dated
  <2> QED BY <2>2, <2>3
<1> QED BY <1>4, <1>5 DEF ListInv

LEMMA LinkStep == ASSUME Lists!ListPageAssumption, ListInv, Lists!Link PROVE ListInv'
<1> DEFINE u == [page |-> 0, limit |-> FirstLimit, id |-> date.id,
                 range |-> IF date.id = "custom" THEN date.range ELSE None]
<1>0. 0 \in Lists!Page
  BY DEF Lists!Page, Lists!ListPageAssumption
<1>1. /\ u \in Lists!Url /\ Ranged(u) /\ u.page = 0 /\ u.id = date.id /\ u.id # None
      /\ u.range = IF date.id = "custom" THEN date.range ELSE None
  BY <1>0 DEF ListInv, UrlInv, Lists!Url, Lists!Date, Ranged, Lists!ListPageAssumption
<1>2. /\ nav' = Lists!To(u, TRUE) /\ wanted' = [wanted EXCEPT !.page = 0]
      /\ clash' = (clash \/ nav # None) /\ UNCHANGED <<index, limit, skip, date, params, entries>>
  BY DEF Lists!Link
<1> HIDE DEF u
<1>3. nav' \in Lists!Nav /\ nav'.to = u /\ nav' # None
  BY <1>1, <1>2, ToType DEF Lists!ListPageAssumption
<1>4. wanted' \in [page : Lists!Page, date : Lists!Date] /\ wanted'.page = 0
        /\ wanted'.date = wanted.date
  BY <1>0, <1>2 DEF ListInv, UrlInv
<1>5. UrlInv'
  BY <1>1, <1>2, <1>3, <1>4 DEF ListInv, UrlInv, Ranged
<1>6. ASSUME ~clash' PROVE Going'
  <2>1. ListAtRest
    BY <1>2, <1>6 DEF ListInv, Paging, Going
  <2>2. Lists!Shown(Lists!Synced(date, u)) = Lists!Shown(date)
          /\ Lists!Shown(Lists!DateOf(u)) = Lists!Shown(date)
    BY <1>1 DEF Lists!Shown, Lists!DateOf, Lists!Synced
  <2> QED BY <2>1, <2>2, <1>1, <1>2, <1>3, <1>4 DEF ListAtRest, Going, Agrees
<1> QED BY <1>5, <1>6 DEF ListInv

LEMMA ListBackStep ==
  ASSUME Lists!ListPageAssumption, ListInv, NEW u \in entries, Lists!Back(u) PROVE ListInv'
<1>1. u \in Lists!Url /\ Ranged(u) /\ u.page \in Lists!Page
  BY DEF ListInv, UrlInv, Lists!Url
<1>2. /\ nav' = Lists!To(u, TRUE)
      /\ wanted' = [page |-> u.page, date |-> Lists!Synced(wanted.date, u)]
      /\ clash' = (clash \/ nav # None \/ u.id = None)
      /\ UNCHANGED <<index, limit, skip, date, params, entries>>
  BY DEF Lists!Back
<1>3. nav' \in Lists!Nav /\ nav'.to = u /\ nav' # None
  BY <1>1, <1>2, ToType DEF Lists!ListPageAssumption
<1>4. Lists!Synced(wanted.date, u) \in Lists!Date
  BY <1>1, SyncedType DEF ListInv, UrlInv
<1>5. wanted' \in [page : Lists!Page, date : Lists!Date] /\ wanted'.page = u.page
      /\ wanted'.date = Lists!Synced(wanted.date, u)
  BY <1>1, <1>2, <1>4
<1>6. UrlInv'
  BY <1>1, <1>2, <1>3, <1>5 DEF ListInv, UrlInv, Ranged
<1>7. ASSUME ~clash' PROVE Going'
  <2>1. ListAtRest /\ u.id # None
    BY <1>2, <1>7 DEF ListInv, Paging, Going
  <2>2. Lists!Shown(Lists!Synced(date, u)) = Lists!Shown(Lists!Synced(wanted.date, u))
        /\ Lists!Shown(Lists!DateOf(u)) = Lists!Shown(Lists!Synced(date, u))
    BY <1>1, <2>1 DEF Lists!Shown, Lists!DateOf, Lists!Synced, Ranged
  <2> QED BY <2>1, <2>2, <1>2, <1>3, <1>5 DEF ListAtRest, Going, Agrees
<1> QED BY <1>6, <1>7 DEF ListInv

LEMMA ListReloadStep == ASSUME Lists!ListPageAssumption, ListInv, Lists!Reload PROVE ListInv'
<1>1. Lists!DateOf(params) \in Lists!Date /\ Ranged(Lists!DateOf(params))
        /\ params.page \in Lists!Page /\ params.limit \in Limits
  BY DateType DEF ListInv, UrlInv, Ranged, Lists!DateOf, Lists!ListPageAssumption, Lists!Url
<1>2. /\ index' = params.page /\ limit' = params.limit /\ skip' = FALSE
      /\ date' = Lists!DateOf(params)
      /\ nav' = None /\ wanted' = [page |-> params.page, date |-> Lists!DateOf(params)]
      /\ UNCHANGED <<params, entries>> /\ clash' = FALSE
  BY DEF Lists!Reload
<1>3. UrlInv'
  BY <1>1, <1>2 DEF ListInv, UrlInv, Ranged
<1>4. ListAtRest'
  BY <1>2 DEF ListAtRest, Agrees, Dated
<1> QED BY <1>3, <1>4 DEF ListInv

LEMMA ListCommitStep == ASSUME Lists!ListPageAssumption, ListInv, Lists!Commit PROVE ListInv'
<1> DEFINE u == nav.to
<1>1. u \in Lists!Url /\ Ranged(u) /\ nav.push \in BOOLEAN /\ nav # None
        /\ u.page \in Lists!Page /\ u.limit \in Limits
  BY DEF ListInv, UrlInv, Lists!Nav, Lists!Commit, Lists!Url
<1>2. /\ params' = u /\ nav' = None /\ entries' \subseteq entries \cup {params}
      /\ date' = Lists!Synced(date, u) /\ UNCHANGED <<wanted, clash>>
  BY DEF Lists!Commit
<1>3. \/ u = params /\ UNCHANGED <<index, limit, skip>>
      \/ u # params /\ skip /\ skip' = FALSE /\ UNCHANGED <<index, limit>>
      \/ u # params /\ ~skip /\ index' = u.page /\ limit' = u.limit /\ UNCHANGED skip
  BY DEF Lists!Commit, Lists!SyncPage
<1>4. date' \in Lists!Date /\ Ranged(date')
  BY <1>1, <1>2, SyncedType DEF ListInv, UrlInv
<1>5. UrlInv'
  BY <1>1, <1>2, <1>3, <1>4 DEF ListInv, UrlInv, Ranged
<1>6. CASE ~clash /\ Paging
  <2>1. Lists!Shown(date') = Lists!Shown(date)
    BY <1>1, <1>2, <1>6, SyncedSame DEF Paging, Dated, ListInv, UrlInv
  <2>2. skip' = FALSE /\ UNCHANGED <<index, limit>>
    BY <1>3, <1>6 DEF Paging
  <2> QED BY <1>2, <1>5, <1>6, <2>1, <2>2 DEF ListInv, Paging, ListAtRest, Agrees, Dated
<1>7. CASE ~clash /\ Going
  <2>1. index' = u.page /\ limit' = u.limit /\ ~skip'
    BY <1>3, <1>7 DEF Going, Agrees
  <2> QED BY <1>2, <1>5, <1>7, <2>1 DEF ListInv, Going, ListAtRest, Agrees, Dated
<1>8. CASE clash
  BY <1>2, <1>5, <1>8 DEF ListInv
<1> QED BY <1>1, <1>6, <1>7, <1>8 DEF ListInv, ListAtRest

LEMMA NextList == ASSUME Lists!ListPageAssumption, ListInv, [Lists!Next]_(Lists!vars) PROVE ListInv'
<1>1. ASSUME NEW f \in Presets, Lists!SetDateFilter(f) PROVE ListInv'
  <2>1. [date EXCEPT !.id = f] \in Lists!Date /\ Ranged([date EXCEPT !.id = f])
        /\ [date EXCEPT !.id = f].id \in Presets
    BY DEF ListInv, UrlInv, Lists!Date, Lists!Filter, Ranged, Lists!ListPageAssumption
  <2> QED BY <1>1, <2>1, ChooseStep DEF Lists!SetDateFilter
<1>2. ASSUME NEW r \in Dates, Lists!SetCustomRange(r) PROVE ListInv'
  <2>1. [id |-> "custom", range |-> r] \in Lists!Date /\ Ranged([id |-> "custom", range |-> r])
    BY DEF Lists!Date, Lists!Filter, Ranged, Lists!ListPageAssumption
  <2> QED BY <1>2, <2>1, ChooseStep DEF Lists!SetCustomRange
<1>3. CASE UNCHANGED Lists!vars
  BY <1>3 DEF Lists!vars, ListInv, UrlInv, ListAtRest, Paging, Going, Agrees, Dated
<1> QED BY <1>1, <1>2, <1>3, GoToPageStep, SetLimitStep, SearchStep, LinkStep, ListBackStep,
           ListReloadStep, ListCommitStep DEF Lists!Next

LEMMA ListSays ==
  ASSUME Lists!ListPageAssumption, ListInv
  PROVE  Lists!TypeOK /\ Lists!DriftNeedsClash
<1>1. Lists!TypeOK
  BY DEF ListInv, UrlInv, Lists!TypeOK
<1>2. Lists!DriftNeedsClash
  BY DEF ListInv, Lists!DriftNeedsClash, ListAtRest, Paging, Going, Agrees, Dated, Lists!Quiet
<1> QED BY <1>1, <1>2

-----------------------------------------------------------------------------
(* The chat panel.  As long as one thing runs at a time, what is open and  *)
(* live is the bubble of the send that runs, in the session that is shown. *)

(* A send that runs is the only thing that does: its session is the one    *)
(* that is shown, and what is open and live is its own bubble.             *)
Runs(s) ==
  /\ \A t \in Chat!Running : t = s
  /\ loading = {}
  /\ st[s] = "creating" => session = None /\ live = {} /\ cur = Chat!NoBubble /\ ~streaming
  /\ st[s] = "fetching" => live = {} /\ cur = Chat!NoBubble
  /\ st[s] \in {"fetching", "reading"} =>
       to[s] = session /\ session # None /\ ctl.abort = s /\ live \subseteq {cur}
       /\ (cur = Chat!NoBubble \/ cur.by = s)

Rests == Chat!Running = {} /\ live = {} /\ ~streaming /\ cur = Chat!NoBubble
  /\ loading \subseteq {session}

ChatClean ==
  /\ \A m \in shown : m.of = session
  /\ \A b \in Chat!Bubble : text[b] \subseteq {b.by}
  /\ Rests \/ \E s \in Chat!Running : Runs(s)

ChatSent == \A s \in Sends : st[s] \in {"fetching", "reading"} => to[s] \in Chat!Session

ChatInv == Chat!TypeOK /\ ChatSent /\ overlap \in BOOLEAN /\ (~overlap => ChatClean)

LEMMA InitChat == ASSUME Chat!ChatPanelAssumption, Chat!Init PROVE ChatInv
<1>5. opened \in [Sends -> 0 .. MaxBubbles] /\ text \in [Chat!Bubble -> SUBSET Sends]
  BY DEF Chat!Init, Chat!ChatPanelAssumption
<1>1. Chat!TypeOK
  BY <1>5 DEF Chat!Init, Chat!TypeOK
<1>2. Chat!Running = {}
  BY DEF Chat!Init, Chat!Running
<1>3. \A b \in Chat!Bubble : text[b] = {}
  BY DEF Chat!Init
<1>4. ChatClean
  BY <1>2, <1>3 DEF Chat!Init, ChatClean, Rests
<1> QED BY <1>1, <1>4 DEF ChatInv, ChatSent, Chat!Init

(* Who runs after a step that moves one send.                              *)
LEMMA Moves ==
  ASSUME Chat!TypeOK, NEW s \in Sends, NEW v \in {"new", "creating", "fetching", "reading", "over"},
         st' = [st EXCEPT ![s] = v]
  PROVE  /\ st'[s] = v /\ \A t \in Sends \ {s} : st'[t] = st[t]
         /\ v \in {"creating", "fetching", "reading"} => Chat!Running' = Chat!Running \cup {s}
         /\ v \notin {"creating", "fetching", "reading"} => Chat!Running' = Chat!Running \ {s}
<1>1. st \in [Sends -> {"new", "creating", "fetching", "reading", "over"}]
  BY DEF Chat!TypeOK
<1>2. st'[s] = v /\ \A t \in Sends \ {s} : st'[t] = st[t]
  BY <1>1
<1> QED BY <1>2 DEF Chat!Running

LEMMA NoBubbleIsNone == ASSUME Chat!ChatPanelAssumption PROVE Chat!NoBubble \notin Chat!Bubble
BY DEF Chat!ChatPanelAssumption, Chat!NoBubble, Chat!Bubble

LEMMA NextBubbleType ==
  ASSUME Chat!TypeOK, NEW s \in Sends, opened[s] < MaxBubbles, Chat!ChatPanelAssumption
  PROVE  /\ Chat!NextBubble(s) \in Chat!Bubble /\ Chat!NextBubble(s).by = s
         /\ [opened EXCEPT ![s] = @ + 1] \in [Sends -> 0 .. MaxBubbles]
<1>1. opened \in [Sends -> 0 .. MaxBubbles] /\ MaxBubbles \in Nat
  BY DEF Chat!TypeOK, Chat!ChatPanelAssumption
<1> QED BY <1>1 DEF Chat!NextBubble, Chat!Bubble

(* A message in shown.                                                     *)
Shown == [of : Chat!Session, bubble : [by : Sends, n : 0..MaxBubbles] \cup {Chat!NoBubble}]

LEMMA BeginStep ==
  ASSUME Chat!ChatPanelAssumption, Chat!TypeOK, ChatSent, NEW s \in Sends, NEW ses \in Chat!Session,
         Chat!Begin(s, ses), session' = ses,
         ~overlap' =>
           ChatClean /\ (session = ses \/ session = None)
             /\ (Chat!Running \subseteq {s} /\ loading = {})
                      /\ live = {},
         UNCHANGED <<live, text, stopped, opened, loading>>, overlap' \in BOOLEAN
  PROVE  ChatInv'
<1>1. /\ st' = [st EXCEPT ![s] = "fetching"] /\ to' = [to EXCEPT ![s] = ses]
      /\ shown' = shown \cup {[of |-> ses, bubble |-> [by |-> s, n |-> 0]]}
      /\ streaming' = TRUE /\ sending' = FALSE
      /\ cur' = Chat!NoBubble /\ ctl' = [ctl EXCEPT !.abort = s]
  BY DEF Chat!Begin
<1>2. [of |-> ses, bubble |-> [by |-> s, n |-> 0]] \in Shown
  BY DEF Shown, Chat!ChatPanelAssumption
<1>3. ctl' \in [abort : Sends \cup {None}, reader : Sends \cup {None}] /\ ctl'.abort = s
  BY <1>1 DEF Chat!TypeOK
<1>4. to' \in [Sends -> Chat!Session \cup {None}] /\ to'[s] = ses
      /\ st' \in [Sends -> {"new", "creating", "fetching", "reading", "over"}]
  BY <1>1 DEF Chat!TypeOK
<1>5. Chat!TypeOK'
  BY <1>1, <1>2, <1>3, <1>4 DEF Chat!TypeOK, Shown, Chat!Session
<1>6. /\ Chat!Running' = Chat!Running \cup {s} /\ st'[s] = "fetching"
      /\ \A t \in Sends \ {s} : st'[t] = st[t]
  BY <1>1, Moves
<1>9. \A t \in Sends \ {s} : to'[t] = to[t]
  BY <1>1 DEF Chat!TypeOK
<1>8. ChatSent'
  BY <1>4, <1>6, <1>9 DEF ChatSent
<1>7. ASSUME ~overlap' PROVE ChatClean'
  <2>1. ChatClean /\ (session = ses \/ session = None) /\ Chat!Running \subseteq {s}
          /\ loading = {} /\ live = {}
    BY <1>7
  <2>2. \A m \in shown : m \in Shown
    BY DEF Chat!TypeOK, Shown
  <2>3. \A m \in shown : m.of = ses
    <3>1. ASSUME NEW m \in shown PROVE m.of = ses
      <4>1. m.of \in Chat!Session /\ m.of = session
        BY <2>1, <2>2 DEF Shown, ChatClean
      <4>2. None \notin Chat!Session
        BY DEF Chat!Session, Chat!ChatPanelAssumption
      <4> QED BY <2>1, <4>1, <4>2
    <3> QED BY <3>1
  <2>4. \A m \in shown' : m.of = session'
    BY <1>1, <2>3
  <2>5. Chat!Running' = {s}
    BY <1>6, <2>1
  <2>6. ses # None
    BY DEF Chat!Session, Chat!ChatPanelAssumption
  <2>7. Runs(s)'
    BY <1>1, <1>3, <1>4, <1>6, <2>1, <2>5, <2>6 DEF Runs
  <2>8. \A b \in Chat!Bubble : text'[b] \subseteq {b.by}
    BY <2>1 DEF ChatClean
  <2> QED BY <2>4, <2>5, <2>7, <2>8 DEF ChatClean
<1> QED BY <1>5, <1>7, <1>8 DEF ChatInv

LEMMA HandleSendStep ==
  ASSUME Chat!ChatPanelAssumption, ChatInv, NEW s \in Sends, Chat!HandleSend(s) PROVE ChatInv'
<1>1. /\ st[s] = "new" /\ overlap' = (overlap \/ Chat!Busy)
      /\ UNCHANGED <<session, live, text, stopped, opened, loading>>
  BY DEF Chat!HandleSend
<1>2. ~overlap' => ChatClean /\ Chat!Running = {} /\ loading = {} /\ Rests
  BY <1>1 DEF Chat!Busy, ChatInv, ChatClean, Runs
<1>3. CASE session # None
  <2>1. Chat!Begin(s, session) /\ session \in Chat!Session
    BY <1>3 DEF Chat!HandleSend, ChatInv, Chat!TypeOK
  <2> QED BY <1>1, <1>2, <2>1, BeginStep DEF ChatInv, Rests
<1>4. CASE session = None
  <2>1. st' = [st EXCEPT ![s] = "creating"] /\ sending' = TRUE
        /\ UNCHANGED <<streaming, shown, Chat!refs, to>>
    BY <1>4 DEF Chat!HandleSend
  <2>2. Chat!TypeOK'
    BY <1>1, <2>1 DEF ChatInv, Chat!TypeOK, Chat!refs
  <2>3. /\ Chat!Running' = Chat!Running \cup {s} /\ st'[s] = "creating"
        /\ \A t \in Sends \ {s} : st'[t] = st[t]
    BY <2>1, Moves DEF ChatInv
  <2>5. ChatSent' /\ overlap' \in BOOLEAN
    BY <1>1, <2>1, <2>3 DEF ChatInv, ChatSent, Chat!Session, Chat!Busy
  <2>4. ASSUME ~overlap' PROVE ChatClean'
    <3>1. Chat!Running' = {s} /\ ChatClean /\ Rests /\ loading = {}
      BY <1>2, <2>3, <2>4
    <3>2. Runs(s)'
      BY <1>1, <1>4, <2>1, <2>3, <3>1 DEF Runs, Rests, Chat!refs
    <3> QED BY <1>1, <2>1, <3>1, <3>2 DEF ChatClean
  <2> QED BY <2>2, <2>4, <2>5 DEF ChatInv
<1> QED BY <1>3, <1>4

LEMMA SessionCreatedStep ==
  ASSUME Chat!ChatPanelAssumption, ChatInv, NEW s \in Sends, Chat!SessionCreated(s) PROVE ChatInv'
<1>1. st[s] = "creating" /\ session' = s /\ Chat!Begin(s, s)
      /\ UNCHANGED <<live, text, stopped, opened, loading, overlap>>
  BY DEF Chat!SessionCreated
<1>2. s \in Chat!Session /\ s \in Chat!Running
  BY <1>1 DEF Chat!Session, Chat!Running
<1>3. ~overlap => ChatClean /\ Runs(s)
  BY <1>2 DEF ChatInv, ChatClean, Rests, Runs
<1>4. ~overlap => session = None /\ Chat!Running \subseteq {s} /\ loading = {} /\ live = {}
  BY <1>1, <1>3 DEF Runs
<1> QED BY <1>1, <1>2, <1>3, <1>4, BeginStep DEF ChatInv

LEMMA SessionFailsStep ==
  ASSUME Chat!ChatPanelAssumption, ChatInv, NEW s \in Sends, Chat!SessionFails(s) PROVE ChatInv'
<1>1. /\ st[s] = "creating" /\ st' = [st EXCEPT ![s] = "over"] /\ sending' = FALSE
      /\ UNCHANGED <<session, streaming, Chat!msgs, Chat!refs, to, stopped, opened, loading,
                     overlap>>
  BY DEF Chat!SessionFails
<1>2. Chat!TypeOK'
  BY <1>1 DEF ChatInv, Chat!TypeOK, Chat!msgs, Chat!refs
<1>3. /\ Chat!Running' = Chat!Running \ {s} /\ s \in Chat!Running /\ st'[s] = "over"
      /\ \A t \in Sends \ {s} : st'[t] = st[t]
  BY <1>1, Moves DEF ChatInv, Chat!Running
<1>5. ChatSent' /\ overlap' \in BOOLEAN
  BY <1>1, <1>3 DEF ChatInv, ChatSent, Chat!Session
<1>4. ASSUME ~overlap' PROVE ChatClean'
  <2>1. ChatClean /\ Runs(s)
    BY <1>1, <1>3, <1>4 DEF ChatInv, ChatClean, Rests, Runs
  <2>2. Rests'
    BY <1>1, <1>3, <2>1 DEF Runs, Rests, Chat!refs, Chat!msgs
  <2> QED BY <1>1, <2>1, <2>2 DEF ChatClean, Chat!msgs
<1> QED BY <1>2, <1>4, <1>5 DEF ChatInv

(* What ends a stream leaves nothing that runs or is live.                 *)
LEMMA FinallyStep ==
  ASSUME Chat!ChatPanelAssumption, ChatInv, NEW s \in Sends, st[s] \in {"fetching", "reading"},
         Chat!Finally(s),
         UNCHANGED <<session, to, loading, overlap>>
  PROVE  /\ ChatSent' /\ live' \subseteq live
         /\ st' \in [Sends -> {"new", "creating", "fetching", "reading", "over"}]
         /\ cur' = Chat!NoBubble /\ streaming' = FALSE
         /\ ctl' \in [abort : Sends \cup {None}, reader : Sends \cup {None}]
         /\ ~overlap => Rests' /\ ChatClean /\ Runs(s)
<1>1. /\ st' = [st EXCEPT ![s] = "over"]
      /\ cur' = Chat!NoBubble /\ ctl' = [abort |-> None, reader |-> None]
      /\ streaming' = FALSE /\ live' = live \ {cur}
  BY DEF Chat!Finally
<1>2. /\ Chat!Running' = Chat!Running \ {s} /\ s \in Chat!Running /\ st'[s] = "over"
      /\ \A t \in Sends \ {s} : st'[t] = st[t]
  BY <1>1, Moves DEF ChatInv, Chat!Running
<1>5. ChatSent'
  BY <1>2 DEF ChatInv, ChatSent, Chat!Session
<1>3. st' \in [Sends -> {"new", "creating", "fetching", "reading", "over"}]
  BY <1>1 DEF ChatInv, Chat!TypeOK
<1>4. ASSUME ~overlap PROVE Rests' /\ ChatClean /\ Runs(s)
  <2>1. ChatClean /\ Runs(s)
    BY <1>2, <1>4 DEF ChatInv, ChatClean, Rests, Runs
  <2>2. live \subseteq {cur} /\ Chat!Running = {s} /\ loading = {}
    BY <2>1, <1>2 DEF Runs
  <2> QED BY <1>1, <1>2, <2>1, <2>2 DEF Rests
<1> QED BY <1>1, <1>3, <1>4, <1>5

LEMMA EndStep ==
  ASSUME Chat!ChatPanelAssumption, ChatInv, NEW s \in Sends, Chat!End(s) PROVE ChatInv'
<1>1. /\ st[s] \in {"fetching", "reading"} /\ Chat!Finally(s)
      /\ UNCHANGED <<session, sending, shown, text, to, stopped, opened, loading, overlap>>
  BY DEF Chat!End
<1>2. /\ ChatSent' /\ live' \subseteq live
      /\ st' \in [Sends -> {"new", "creating", "fetching", "reading", "over"}]
      /\ cur' = Chat!NoBubble /\ streaming' = FALSE
      /\ ctl' \in [abort : Sends \cup {None}, reader : Sends \cup {None}]
      /\ ~overlap => Rests' /\ ChatClean /\ Runs(s)
  BY <1>1, FinallyStep
<1>3. Chat!TypeOK'
  BY <1>1, <1>2 DEF ChatInv, Chat!TypeOK
<1> QED BY <1>1, <1>2, <1>3 DEF ChatInv, ChatClean

LEMMA RequestFailsStep ==
  ASSUME Chat!ChatPanelAssumption, ChatInv, NEW s \in Sends, Chat!RequestFails(s) PROVE ChatInv'
<1>1. /\ st[s] \in {"fetching", "reading"} /\ Chat!Finally(s)
      /\ UNCHANGED <<session, sending, to, stopped, loading, overlap>>
  BY DEF Chat!RequestFails
<1>2. /\ ChatSent' /\ live' \subseteq live
      /\ st' \in [Sends -> {"new", "creating", "fetching", "reading", "over"}]
      /\ cur' = Chat!NoBubble /\ streaming' = FALSE
      /\ ctl' \in [abort : Sends \cup {None}, reader : Sends \cup {None}]
      /\ ~overlap => Rests' /\ ChatClean /\ Runs(s)
  BY <1>1, FinallyStep
<1>0. text \in [Chat!Bubble -> SUBSET Sends] /\ shown \subseteq Shown
        /\ to \in [Sends -> Chat!Session \cup {None}]
  BY DEF ChatInv, Chat!TypeOK, Shown
<1>3. CASE cur # Chat!NoBubble
  <2>1. text' = [text EXCEPT ![cur] = {s}] /\ UNCHANGED <<shown, opened>> /\ cur \in Chat!Bubble
    BY <1>3 DEF Chat!RequestFails, ChatInv, Chat!TypeOK
  <2>2. text' \in [Chat!Bubble -> SUBSET Sends] /\ text'[cur] = {s}
          /\ \A b \in Chat!Bubble \ {cur} : text'[b] = text[b]
    BY <1>0, <2>1
  <2>3. Chat!TypeOK'
    BY <1>1, <1>2, <2>1, <2>2 DEF ChatInv, Chat!TypeOK
  <2>4. ASSUME ~overlap' PROVE ChatClean'
    <3>1. cur.by = s /\ ChatClean
      BY <1>1, <1>2, <1>3, <2>4 DEF Runs
    <3> QED BY <1>1, <1>2, <2>1, <2>2, <2>4, <3>1 DEF ChatClean
  <2> QED BY <1>1, <1>2, <2>3, <2>4 DEF ChatInv
<1>4. CASE cur = Chat!NoBubble
  <2>1. /\ opened[s] < MaxBubbles
        /\ text' = [text EXCEPT ![Chat!NextBubble(s)] = {s}]
        /\ shown' = shown \cup {Chat!Msg(s, Chat!NextBubble(s))}
        /\ opened' = [opened EXCEPT ![s] = @ + 1]
    BY <1>4 DEF Chat!RequestFails
  <2>2. Chat!NextBubble(s) \in Chat!Bubble /\ Chat!NextBubble(s).by = s
          /\ opened' \in [Sends -> 0 .. MaxBubbles]
    BY <2>1, NextBubbleType DEF ChatInv
  <2>3. text' \in [Chat!Bubble -> SUBSET Sends] /\ text'[Chat!NextBubble(s)] = {s}
        /\ \A b \in Chat!Bubble \ {Chat!NextBubble(s)} : text'[b] = text[b]
    BY <1>0, <2>1, <2>2
  <2>4. to[s] \in Chat!Session /\ Chat!Msg(s, Chat!NextBubble(s)) \in Shown
        /\ Chat!Msg(s, Chat!NextBubble(s)).of = to[s]
    BY <1>1, <2>2 DEF ChatInv, ChatSent, Chat!Msg, Shown, Chat!Bubble
  <2>5. Chat!TypeOK'
    BY <1>0, <1>1, <1>2, <2>1, <2>2, <2>3, <2>4 DEF ChatInv, Chat!TypeOK, Shown
  <2>6. ASSUME ~overlap' PROVE ChatClean'
    <3>1. to[s] = session /\ ChatClean
      BY <1>1, <1>2, <2>6 DEF Runs
    <3> QED BY <1>1, <1>2, <2>1, <2>2, <2>3, <2>4, <2>6, <3>1 DEF ChatClean
  <2> QED BY <1>1, <1>2, <2>5, <2>6 DEF ChatInv
<1> QED BY <1>3, <1>4

LEMMA RespondStep ==
  ASSUME Chat!ChatPanelAssumption, ChatInv, NEW s \in Sends, Chat!Respond(s) PROVE ChatInv'
<1>1. /\ st[s] = "fetching" /\ st' = [st EXCEPT ![s] = "reading"]
      /\ ctl' = [ctl EXCEPT !.reader = s]
      /\ UNCHANGED <<session, sending, streaming, Chat!msgs, cur, to, stopped, opened, loading,
                     overlap>>
  BY DEF Chat!Respond
<1>2. ctl' \in [abort : Sends \cup {None}, reader : Sends \cup {None}] /\ ctl'.abort = ctl.abort
  BY <1>1 DEF ChatInv, Chat!TypeOK
<1>3. /\ Chat!Running' = Chat!Running \cup {s} /\ s \in Chat!Running /\ st'[s] = "reading"
      /\ \A t \in Sends \ {s} : st'[t] = st[t]
  BY <1>1, Moves DEF ChatInv, Chat!Running
<1>4. Chat!TypeOK'
  BY <1>1, <1>2 DEF ChatInv, Chat!TypeOK, Chat!msgs
<1>5. ChatSent' /\ overlap' \in BOOLEAN
  BY <1>1, <1>3 DEF ChatInv, ChatSent, Chat!Session
<1>6. ASSUME ~overlap' PROVE ChatClean'
  <2>1. ChatClean /\ Runs(s)
    BY <1>1, <1>3, <1>6 DEF ChatInv, ChatClean, Rests, Runs
  <2>2. Chat!Running' = Chat!Running
    BY <1>3
  <2>3. Runs(s)'
    BY <1>1, <1>2, <1>3, <2>1, <2>2 DEF Runs, Chat!msgs
  <2> QED BY <1>1, <1>3, <2>1, <2>3 DEF ChatClean, Chat!msgs
<1> QED BY <1>4, <1>5, <1>6 DEF ChatInv

LEMMA DeltaStep ==
  ASSUME Chat!ChatPanelAssumption, ChatInv, NEW s \in Sends, Chat!Delta(s) PROVE ChatInv'
<1>1. /\ st[s] = "reading"
      /\ UNCHANGED <<session, sending, streaming, ctl, st, to, stopped, loading, overlap>>
  BY DEF Chat!Delta
<1>2. s \in Chat!Running /\ Chat!Running' = Chat!Running
  BY <1>1 DEF Chat!Running
<1>3. ~overlap => ChatClean /\ Runs(s)
  BY <1>2 DEF ChatInv, ChatClean, Rests, Runs
<1>0. text \in [Chat!Bubble -> SUBSET Sends] /\ shown \subseteq Shown
        /\ to \in [Sends -> Chat!Session \cup {None}]
  BY DEF ChatInv, Chat!TypeOK, Shown
<1>4. CASE cur # Chat!NoBubble
  <2>1. text' = [text EXCEPT ![cur] = @ \cup {s}] /\ UNCHANGED <<cur, shown, live, opened>>
          /\ cur \in Chat!Bubble
    BY <1>4 DEF Chat!Delta, ChatInv, Chat!TypeOK
  <2>2. text' \in [Chat!Bubble -> SUBSET Sends] /\ text'[cur] = text[cur] \cup {s}
        /\ \A b \in Chat!Bubble \ {cur} : text'[b] = text[b]
    BY <1>0, <2>1
  <2>3. Chat!TypeOK'
    BY <1>1, <2>1, <2>2 DEF ChatInv, Chat!TypeOK
  <2>4. ASSUME ~overlap' PROVE ChatClean'
    <3>1. cur.by = s /\ ChatClean /\ Runs(s)
      BY <1>1, <1>3, <1>4, <2>4 DEF Runs
    <3>2. Runs(s)'
      BY <1>1, <1>2, <2>1, <3>1 DEF Runs
    <3> QED BY <1>1, <1>2, <2>1, <2>2, <3>1, <3>2 DEF ChatClean
  <2> QED BY <1>1, <2>3, <2>4 DEF ChatInv, ChatSent
<1>5. CASE cur = Chat!NoBubble
  <2> DEFINE b == Chat!NextBubble(s)
  <2>1. /\ opened[s] < MaxBubbles /\ cur' = b
        /\ shown' = shown \cup {Chat!Msg(s, b)} /\ live' = live \cup {b}
        /\ text' = [text EXCEPT ![b] = {s}]
        /\ opened' = [opened EXCEPT ![s] = @ + 1]
    BY <1>5 DEF Chat!Delta
  <2>2. b \in Chat!Bubble /\ b.by = s /\ opened' \in [Sends -> 0 .. MaxBubbles]
    BY <2>1, NextBubbleType DEF ChatInv
  <2>4. to[s] \in Chat!Session /\ Chat!Msg(s, b) \in Shown /\ Chat!Msg(s, b).of = to[s]
    BY <1>1, <2>2 DEF ChatInv, ChatSent, Chat!Msg, Shown, Chat!Bubble
  <2> HIDE DEF b
  <2>3. text' \in [Chat!Bubble -> SUBSET Sends] /\ text'[b] = {s}
        /\ \A c \in Chat!Bubble \ {b} : text'[c] = text[c]
    BY <1>0, <2>1, <2>2
  <2>5. Chat!TypeOK'
    BY <1>0, <1>1, <2>1, <2>2, <2>3, <2>4 DEF ChatInv, Chat!TypeOK, Shown
  <2>6. ASSUME ~overlap' PROVE ChatClean'
    <3>1. to[s] = session /\ ChatClean /\ Runs(s)
      BY <1>1, <1>3, <2>6 DEF Runs
    <3>2. live \subseteq {Chat!NoBubble} /\ live \subseteq Chat!Bubble
            /\ Chat!NoBubble \notin Chat!Bubble
      BY <1>1, <1>5, <3>1, NoBubbleIsNone DEF Runs, ChatInv, Chat!TypeOK
    <3>3. Runs(s)'
      BY <1>1, <1>2, <2>1, <2>2, <3>1, <3>2 DEF Runs
    <3> QED BY <1>1, <1>2, <2>1, <2>2, <2>3, <2>4, <3>1, <3>3 DEF ChatClean
  <2> QED BY <1>1, <2>5, <2>6 DEF ChatInv, ChatSent
<1> QED BY <1>4, <1>5

LEMMA FreezeStep ==
  ASSUME Chat!ChatPanelAssumption, ChatInv, NEW s \in Sends, Chat!Freeze(s) PROVE ChatInv'
<1>1. /\ st[s] = "reading" /\ cur # Chat!NoBubble /\ cur \in Chat!Bubble
      /\ live' = live \ {cur} /\ cur' = Chat!NoBubble
      /\ text' \in {text, [text EXCEPT ![cur] = {s}]}
      /\ UNCHANGED <<session, sending, streaming, shown, ctl, Chat!sends, loading, overlap>>
  BY DEF Chat!Freeze, ChatInv, Chat!TypeOK
<1>2. s \in Chat!Running /\ Chat!Running' = Chat!Running
  BY <1>1 DEF Chat!Running, Chat!sends
<1>3. ~overlap => ChatClean /\ Runs(s)
  BY <1>2 DEF ChatInv, ChatClean, Rests, Runs
<1>4. text' \in [Chat!Bubble -> SUBSET Sends] /\ text'[cur] \in {text[cur], {s}}
      /\ \A b \in Chat!Bubble \ {cur} : text'[b] = text[b]
  BY <1>1 DEF ChatInv, Chat!TypeOK
<1>5. Chat!TypeOK'
  BY <1>1, <1>4 DEF ChatInv, Chat!TypeOK, Chat!sends
<1>6. ASSUME ~overlap' PROVE ChatClean'
  <2>1. cur.by = s /\ ChatClean /\ Runs(s)
    BY <1>1, <1>3, <1>6 DEF Runs
  <2>2. Runs(s)'
    BY <1>1, <1>2, <2>1 DEF Runs, Chat!sends
  <2> QED BY <1>1, <1>2, <1>4, <2>1, <2>2 DEF ChatClean
<1> QED BY <1>1, <1>5, <1>6 DEF ChatInv, ChatSent, Chat!sends

LEMMA AbortStep == ASSUME ChatInv, Chat!Abort PROVE ChatInv'
<1>1. /\ stopped' = stopped \cup ({ctl.abort, ctl.reader} \ {None})
      /\ UNCHANGED <<session, sending, streaming, Chat!msgs, Chat!refs, st, to, opened, loading,
                     overlap>>
  BY DEF Chat!Abort
<1>2. Chat!TypeOK'
  BY <1>1 DEF ChatInv, Chat!TypeOK, Chat!msgs, Chat!refs
<1> QED BY <1>1, <1>2 DEF ChatInv, ChatSent, ChatClean, Rests, Runs, Chat!Running, Chat!msgs,
                          Chat!refs

LEMMA NewSessionStep == ASSUME ChatInv, Chat!NewSession PROVE ChatInv'
<1>1. /\ session' = None /\ shown' = {} /\ live' = {} /\ overlap' = (overlap \/ Chat!Busy)
      /\ UNCHANGED <<sending, streaming, text, Chat!refs, Chat!sends, loading>>
  BY DEF Chat!NewSession
<1>2. Chat!TypeOK'
  BY <1>1 DEF ChatInv, Chat!TypeOK, Chat!sends, Chat!refs
<1>3. ASSUME ~overlap' PROVE ChatClean'
  <2>1. ChatClean /\ Rests /\ loading = {} /\ Chat!Running = {}
    BY <1>1, <1>3 DEF ChatInv, Chat!Busy, ChatClean, Runs
  <2>2. Rests'
    BY <1>1, <2>1 DEF Rests, Chat!Running, Chat!sends, Chat!refs
  <2> QED BY <1>1, <2>1, <2>2 DEF ChatClean
<1> QED BY <1>1, <1>2, <1>3 DEF ChatInv, ChatSent, Chat!Busy, Chat!sends

LEMMA SelectSessionStep ==
  ASSUME ChatInv, NEW o \in OldSessions, Chat!SelectSession(o) PROVE ChatInv'
<1>1. /\ session' = o /\ shown' = {} /\ live' = {} /\ overlap' = (overlap \/ Chat!Busy)
      /\ loading' = loading \cup {o}
      /\ UNCHANGED <<sending, streaming, text, Chat!refs, Chat!sends>>
  BY DEF Chat!SelectSession
<1>2. Chat!TypeOK'
  BY <1>1 DEF ChatInv, Chat!TypeOK, Chat!sends, Chat!refs, Chat!Session
<1>3. ASSUME ~overlap' PROVE ChatClean'
  <2>1. ChatClean /\ Rests /\ loading = {} /\ Chat!Running = {}
    BY <1>1, <1>3 DEF ChatInv, Chat!Busy, ChatClean, Runs
  <2>2. Rests'
    BY <1>1, <2>1 DEF Rests, Chat!Running, Chat!sends, Chat!refs
  <2> QED BY <1>1, <2>1, <2>2 DEF ChatClean
<1> QED BY <1>1, <1>2, <1>3 DEF ChatInv, ChatSent, Chat!Busy, Chat!sends

LEMMA LoadedStep ==
  ASSUME ChatInv, NEW o \in OldSessions, Chat!Loaded(o) PROVE ChatInv'
<1>1. /\ o \in loading /\ loading' = loading \ {o}
      /\ UNCHANGED <<session, sending, streaming, text, Chat!refs, Chat!sends, overlap>>
      /\ \/ shown' = {[of |-> o, bubble |-> Chat!NoBubble]} /\ live' = {}
         \/ UNCHANGED <<shown, live>>
  BY DEF Chat!Loaded
<1>2. [of |-> o, bubble |-> Chat!NoBubble] \in Shown
  BY DEF Shown, Chat!Session
<1>3. Chat!TypeOK'
  BY <1>1, <1>2 DEF ChatInv, Chat!TypeOK, Shown, Chat!sends, Chat!refs
<1>4. ASSUME ~overlap' PROVE ChatClean'
  <2>1. ChatClean /\ Rests /\ o = session
    BY <1>1, <1>4 DEF ChatInv, ChatClean, Runs, Rests
  <2>2. Rests'
    BY <1>1, <2>1 DEF Rests, Chat!Running, Chat!sends, Chat!refs
  <2> QED BY <1>1, <2>1, <2>2 DEF ChatClean
<1> QED BY <1>1, <1>3, <1>4 DEF ChatInv, ChatSent, Chat!sends

LEMMA NextChat == ASSUME Chat!ChatPanelAssumption, ChatInv, [Chat!Next]_(Chat!vars) PROVE ChatInv'
<1>1. CASE UNCHANGED Chat!vars
  BY <1>1 DEF Chat!vars, Chat!msgs, Chat!refs, Chat!sends, ChatInv, Chat!TypeOK, ChatSent,
              ChatClean, Rests, Runs, Chat!Running
<1> QED BY <1>1, HandleSendStep, SessionCreatedStep, SessionFailsStep, RespondStep,
           RequestFailsStep, DeltaStep, FreezeStep, EndStep, AbortStep, NewSessionStep,
           SelectSessionStep, LoadedStep DEF Chat!Next

LEMMA ChatSays == ASSUME ChatInv PROVE Chat!AloneIsClean
<1> SUFFICES ASSUME ~overlap, ChatClean PROVE Chat!AloneIsClean
  BY DEF ChatInv, Chat!AloneIsClean
<1>1. ASSUME streaming \/ live # {} PROVE \E s \in Chat!Running : s \in {ctl.abort, ctl.reader}
  <2>1. PICK s \in Chat!Running : Runs(s)
    BY <1>1 DEF ChatClean, Rests
  <2>2. st[s] \in {"fetching", "reading"}
    BY <1>1, <2>1 DEF Runs, Chat!Running
  <2> QED BY <2>1, <2>2 DEF Runs
<1> QED BY <1>1 DEF ChatClean, Chat!AloneIsClean

-----------------------------------------------------------------------------
(* The form of the providers.  A dialog that edits was filled from a row,  *)
(* and what the admin has not touched is as it was there (Filled); a       *)
(* request has what the form had; a list that is old will be asked again.  *)

Sendable ==
  [adapter : Adapters, name : Providers, key : Credentials \union {None},
   url : BaseUrls \union {None},
   models : SUBSET Models, over : (SUBSET Models) \union {None}]
OpenDialog ==
  [open : {TRUE}, edit : 0 .. MaxRow, form : Form!Form, base : Form!RowType \union {None},
   touched : SUBSET Form!Field]
UnderWay ==
  [on : {TRUE}, st : {"sent", "ok", "failed"}, edit : 0 .. MaxRow, data : Sendable,
   form : Form!Form, base : Form!RowType \union {None}, touched : SUBSET Form!Field]

(* What the admin has not touched is what the row had, but the credential. *)
Filled(d) ==
  /\ d.base \in Form!RowType
  /\ \A f \in Form!Field \ d.touched : d.form[f] = IF f = "key" THEN None ELSE d.base[f]

FormSent(form) ==
  [form EXCEPT !.over = IF form.over \intersect form.models = {} THEN None
                        ELSE form.over \intersect form.models]

(* A list that is old was invalidated or is about to be.                   *)
Answering == (save.on /\ save.st = "ok") \/ deleting.done
FormListed == lost = 0 /\ ~refetch /\ ~Answering => list = rows

FormType ==
  /\ rows \in [Form!Id -> Form!RowType \union {None}]
  /\ list \in [Form!Id -> Form!RowType \union {None}]
  /\ dialog = Form!Closed \/ dialog \in OpenDialog
  /\ save = Form!NoSave \/ save \in UnderWay
  /\ late = Form!NoSave \/ late \in UnderWay
  /\ deleting \in [id : 0 .. MaxRow, done : BOOLEAN] /\ (deleting.done => deleting.id # 0)
  /\ refetch \in BOOLEAN /\ steps \in 0 .. FormActs /\ lost \in 0 .. MaxLost
DialogInv == dialog.open /\ dialog.edit # 0 => Filled(dialog)
SaveInv ==
  save.on => save.data = FormSent(save.form) /\ (save.edit # 0 => Filled(save))

LateInv ==
  late.on => /\ late.st = "sent" /\ lost # 0 /\ late.data = FormSent(late.form)
             /\ late.edit # 0 => Filled(late)

FormInv == FormType /\ DialogInv /\ SaveInv /\ LateInv /\ FormListed

LEMMA InitForm == ASSUME Form!FormAssumption, Form!Init PROVE FormInv
<1>1. 0 \in 0 .. MaxRow /\ 0 \in 0 .. FormActs /\ 0 \in 0 .. MaxLost
  BY DEF Form!FormAssumption
<1>2. FormType
  BY <1>1 DEF Form!Init, FormType, Form!NoDelete
<1> QED BY <1>2 DEF Form!Init, FormInv, DialogInv, SaveInv, LateInv, FormListed, Form!Closed, Form!NoSave

LEMMA Shape ==
  ASSUME FormInv
  PROVE  /\ dialog.open =>
              dialog \in OpenDialog /\ dialog.form \in Form!Form /\ dialog.edit \in 0 .. MaxRow
         /\ save.on =>
              /\ save \in UnderWay /\ save.form \in Form!Form /\ save.data \in Sendable
              /\ save.edit \in 0 .. MaxRow /\ save.st \in {"sent", "ok", "failed"}
         /\ late.on => late \in UnderWay /\ late.edit \in 0 .. MaxRow /\ late.st = "sent"
<1>1. ASSUME dialog.open
      PROVE  dialog \in OpenDialog /\ dialog.form \in Form!Form /\ dialog.edit \in 0 .. MaxRow
  <2>1. dialog \in OpenDialog
    BY <1>1 DEF FormInv, FormType, Form!Closed
  <2> QED BY <2>1 DEF OpenDialog
<1>2. ASSUME save.on
      PROVE  /\ save \in UnderWay /\ save.form \in Form!Form /\ save.data \in Sendable
             /\ save.edit \in 0 .. MaxRow /\ save.st \in {"sent", "ok", "failed"}
  <2>1. save \in UnderWay
    BY <1>2 DEF FormInv, FormType, Form!NoSave
  <2> QED BY <2>1 DEF UnderWay
<1>3. ASSUME late.on PROVE late \in UnderWay /\ late.edit \in 0 .. MaxRow /\ late.st = "sent"
  <2>1. late \in UnderWay /\ late.st = "sent"
    BY <1>3 DEF FormInv, FormType, LateInv, Form!NoSave
  <2> QED BY <2>1 DEF UnderWay
<1> QED BY <1>1, <1>2, <1>3

LEMMA ActSteps ==
  ASSUME Form!FormAssumption, FormInv, Form!Act PROVE steps' \in 0 .. FormActs
BY DEF Form!FormAssumption, FormInv, FormType, Form!Act

-----------------------------------------------------------------------------
(* The dialog.                                                             *)

LEMMA FormDialogStep ==
  ASSUME Form!FormAssumption, FormInv, dialog' = Form!Closed \/ dialog' \in OpenDialog,
         dialog'.open /\ dialog'.edit # 0 => Filled(dialog'),
         UNCHANGED <<rows, list, refetch, save, late, deleting, lost>>, steps' \in 0 .. FormActs
  PROVE  FormInv'
<1>1. FormType'
  BY DEF FormInv, FormType
<1>2. DialogInv'
  BY DEF DialogInv, Filled
<1>3. SaveInv' /\ LateInv' /\ FormListed'
  BY DEF FormInv, SaveInv, LateInv, Filled, FormListed, Answering
<1> QED BY <1>1, <1>2, <1>3 DEF FormInv

LEMMA OpenStep ==
  ASSUME Form!FormAssumption, FormInv, Form!openAddDialog \/ Form!openEditDialog \/ Form!closeDialog
  PROVE  FormInv'
<1>1. CASE Form!openAddDialog
  <2>1. Form!Cleared \in Form!Form
    BY DEF Form!Cleared, Form!Form
  <2>2. dialog' = [open |-> TRUE, edit |-> 0, form |-> Form!Cleared, base |-> None, touched |-> {}]
    BY <1>1 DEF Form!openAddDialog, Form!Opened
  <2>3. dialog' \in OpenDialog /\ dialog'.edit = 0
    BY <2>1, <2>2 DEF OpenDialog, Form!FormAssumption
  <2> QED BY <1>1, <2>3, ActSteps, FormDialogStep DEF Form!openAddDialog
<1>2. CASE Form!openEditDialog
  <2>1. PICK i \in Form!Id : list[i] # None
          /\ dialog' = Form!Opened(i, [list[i] EXCEPT !.key = None], list[i])
    BY <1>2 DEF Form!openEditDialog
  <2> DEFINE form == [list[i] EXCEPT !.key = None]
  <2>2. list[i] \in Form!RowType /\ i \in 0 .. MaxRow
    BY <2>1 DEF FormInv, FormType, Form!Id, Form!FormAssumption
  <2>3. form \in Form!Form /\ \A f \in Form!Field : form[f] = IF f = "key" THEN None ELSE list[i][f]
    BY <2>2 DEF Form!Form, Form!RowType, Form!Field
  <2> HIDE DEF form
  <2>4. dialog' = [open |-> TRUE, edit |-> i, form |-> form, base |-> list[i], touched |-> {}]
    BY <2>1 DEF Form!Opened, form
  <2>5. dialog' \in OpenDialog
    BY <2>2, <2>3, <2>4 DEF OpenDialog
  <2>6. Filled(dialog')
    BY <2>2, <2>3, <2>4 DEF Filled
  <2> QED BY <1>2, <2>5, <2>6, ActSteps, FormDialogStep DEF Form!openEditDialog
<1>3. CASE Form!closeDialog
  <2>1. dialog' = Form!Closed /\ ~dialog'.open
    BY <1>3 DEF Form!closeDialog, Form!Closed
  <2> QED BY <1>3, <2>1, FormDialogStep DEF Form!closeDialog, FormInv, FormType
<1> QED BY <1>1, <1>2, <1>3

LEMMA SetStep ==
  ASSUME Form!FormAssumption, FormInv, Form!Act, dialog.open, NEW field \in Form!Field, NEW value,
         Form!Set(field, value), [dialog.form EXCEPT ![field] = value] \in Form!Form,
         UNCHANGED <<rows, list, refetch, save, late, deleting, lost>>
  PROVE  FormInv'
<1> DEFINE form == [dialog.form EXCEPT ![field] = value]
           touched == dialog.touched \union {field}
<1>1. dialog \in OpenDialog
  BY DEF FormInv, FormType, Form!Closed
<1>2. dialog' = [dialog EXCEPT !.form = form, !.touched = touched]
  BY DEF Form!Set
<1>3. form \in Form!Form /\ touched \in SUBSET Form!Field
  BY <1>1 DEF OpenDialog
<1>4. \A f \in Form!Field \ touched : form[f] = dialog.form[f]
  <2>1. dialog.form \in Form!Form
    BY <1>1 DEF OpenDialog
  <2> QED BY <2>1 DEF Form!Form, Form!Field
<1> HIDE DEF form, touched
<1>5. /\ dialog' \in OpenDialog /\ dialog'.edit = dialog.edit /\ dialog'.base = dialog.base
      /\ dialog'.form = form /\ dialog'.touched = touched
  BY <1>1, <1>2, <1>3 DEF OpenDialog
<1>6. dialog'.edit # 0 => Filled(dialog')
  <2>1. SUFFICES ASSUME dialog.edit # 0 PROVE Filled(dialog')
    BY <1>5
  <2>2. Filled(dialog)
    BY <2>1 DEF FormInv, DialogInv
  <2>3. ASSUME NEW f \in Form!Field \ touched
        PROVE  form[f] = IF f = "key" THEN None ELSE dialog.base[f]
    <3>1. f \in Form!Field \ dialog.touched
      BY DEF touched
    <3> QED BY <1>4, <2>2, <3>1 DEF Filled
  <2> QED BY <1>5, <2>2, <2>3 DEF Filled
<1> QED BY <1>5, <1>6, ActSteps, FormDialogStep

(* The dialog with the adapter and the name it suggests.                   *)
WithAdapter(a, n) ==
  [dialog EXCEPT !.form.adapter = a, !.form.over = {}, !.form.name = n,
                 !.touched = @ \union {"adapter", "name", "over"}]

LEMMA AdapterStep ==
  ASSUME Form!FormAssumption, FormInv, Form!Act, dialog.open, NEW a \in Adapters,
         Form!handleAdapterChange(a),
         UNCHANGED <<rows, list, refetch, save, late, deleting, lost>>
  PROVE  FormInv'
<1>1. dialog \in OpenDialog /\ dialog.form \in Form!Form
  BY Shape
<1>2. PICK n \in Providers \union {None} : dialog' = WithAdapter(a, n)
  <2>1. LabelOf[a] \in Providers /\ dialog.form.name \in Providers \union {None}
    BY <1>1 DEF Form!FormAssumption, Form!Form
  <2>2. dialog' = WithAdapter(a, LabelOf[a]) \/ dialog' = WithAdapter(a, dialog.form.name)
    BY <1>1 DEF Form!handleAdapterChange, WithAdapter, OpenDialog, Form!Form
  <2> QED BY <2>1, <2>2
<1> DEFINE form == [dialog.form EXCEPT !.adapter = a, !.over = {}, !.name = n]
           touched == dialog.touched \union {"adapter", "name", "over"}
<1>3. dialog' = [dialog EXCEPT !.form = form, !.touched = touched]
  BY <1>2 DEF WithAdapter
<1>4. form \in Form!Form /\ touched \in SUBSET Form!Field
  BY <1>1 DEF Form!Form, OpenDialog, Form!Field
<1> HIDE DEF form, touched
<1>5. dialog' \in OpenDialog /\ dialog'.edit = dialog.edit
  BY <1>1, <1>3, <1>4 DEF OpenDialog
<1>6. dialog.edit = 0
  BY DEF Form!handleAdapterChange
<1> QED BY <1>5, <1>6, ActSteps, FormDialogStep

LEMMA TypeStep == ASSUME Form!FormAssumption, FormInv, Form!Type PROVE FormInv'
<1>0. /\ Form!Act /\ dialog.open /\ UNCHANGED <<rows, list, refetch, save, late, deleting, lost>>
      /\ dialog.form \in Form!Form
  BY Shape DEF Form!Type
<1>1. ASSUME NEW a \in Adapters, Form!handleAdapterChange(a) PROVE FormInv'
  BY <1>0, <1>1, AdapterStep
<1>2. ASSUME NEW n \in Providers, Form!Set("name", n) PROVE FormInv'
  <2>1. [dialog.form EXCEPT !["name"] = n] \in Form!Form
    BY <1>0 DEF Form!Form
  <2> QED BY <1>0, <1>2, <2>1, SetStep DEF Form!Field
<1>3. ASSUME NEW k \in Credentials \union {None}, Form!Set("key", k) PROVE FormInv'
  <2>1. [dialog.form EXCEPT !["key"] = k] \in Form!Form
    BY <1>0 DEF Form!Form
  <2> QED BY <1>0, <1>3, <2>1, SetStep DEF Form!Field
<1>4. ASSUME NEW m \in Models, Form!Set("models", Form!Toggled(m, dialog.form.models))
      PROVE  FormInv'
  <2>1. Form!Toggled(m, dialog.form.models) \in SUBSET Models
    BY <1>0 DEF Form!Form, Form!Toggled
  <2>2. [dialog.form EXCEPT !["models"] = Form!Toggled(m, dialog.form.models)] \in Form!Form
    BY <1>0, <2>1 DEF Form!Form
  <2> QED BY <1>0, <1>4, <2>2, SetStep DEF Form!Field
<1>5. ASSUME NEW u \in BaseUrls \union {None}, Form!Set("url", u) PROVE FormInv'
  <2>1. [dialog.form EXCEPT !["url"] = u] \in Form!Form
    BY <1>0 DEF Form!Form
  <2> QED BY <1>0, <1>5, <2>1, SetStep DEF Form!Field
<1>6. ASSUME NEW m \in dialog.form.models, Form!Set("over", Form!Toggled(m, dialog.form.over))
      PROVE  FormInv'
  <2>1. Form!Toggled(m, dialog.form.over) \in SUBSET Models
    BY <1>0 DEF Form!Form, Form!Toggled
  <2>2. [dialog.form EXCEPT !["over"] = Form!Toggled(m, dialog.form.over)] \in Form!Form
    BY <1>0, <2>1 DEF Form!Form
  <2> QED BY <1>0, <1>6, <2>2, SetStep DEF Form!Field
<1> QED BY <1>1, <1>2, <1>3, <1>4, <1>5, <1>6 DEF Form!Type

-----------------------------------------------------------------------------
(* Saving.                                                                 *)

LEMMA HandleSaveStep == ASSUME Form!FormAssumption, FormInv, Form!handleSave PROVE FormInv'
<1>0. /\ dialog \in OpenDialog /\ dialog.form \in Form!Form /\ Form!CanSave /\ Form!Act /\ ~save.on
      /\ save' = [on |-> TRUE, st |-> "sent", edit |-> dialog.edit, data |-> Form!Payload,
                  form |-> dialog.form, base |-> dialog.base, touched |-> dialog.touched]
      /\ UNCHANGED <<rows, list, refetch, dialog, late, deleting, lost>>
  BY Shape DEF Form!handleSave
<1>1. Form!Payload = FormSent(dialog.form) /\ Form!Payload \in Sendable
  <2>1. Form!Payload = FormSent(dialog.form)
    BY DEF Form!Payload, FormSent
  <2>2. dialog.form.adapter \in Adapters /\ dialog.form.name \in Providers
    BY <1>0 DEF Form!CanSave, Form!Form
  <2> DEFINE o == IF dialog.form.over \intersect dialog.form.models = {} THEN None
                  ELSE dialog.form.over \intersect dialog.form.models
  <2>3. o \in (SUBSET Models) \union {None}
    BY <1>0 DEF Form!Form
  <2>4. Form!Payload = [dialog.form EXCEPT !.over = o]
    BY DEF Form!Payload
  <2> HIDE DEF o
  <2>5. Form!Payload \in Sendable
    BY <1>0, <2>2, <2>3, <2>4 DEF Form!Form, Sendable
  <2> QED BY <2>1, <2>5
<1>2. /\ save' \in UnderWay /\ save'.on /\ save'.st = "sent" /\ save'.data = FormSent(save'.form)
      /\ save'.edit = dialog.edit /\ save'.base = dialog.base /\ save'.form = dialog.form
      /\ save'.touched = dialog.touched
  BY <1>0, <1>1 DEF OpenDialog, UnderWay
<1>3. FormType'
  BY <1>0, <1>2, ActSteps DEF FormInv, FormType
<1>4. DialogInv' /\ LateInv'
  BY <1>0 DEF FormInv, DialogInv, LateInv, Filled
<1>5. SaveInv'
  <2>1. save'.edit # 0 => Filled(dialog)
    BY <1>0, <1>2 DEF FormInv, DialogInv, OpenDialog
  <2> QED BY <1>2, <2>1 DEF SaveInv, Filled, FormSent
<1>6. FormListed'
  BY <1>0, <1>2 DEF FormInv, FormListed, Answering
<1> QED BY <1>3, <1>4, <1>5, <1>6 DEF FormInv

(* One row is written.                                                     *)
LEMMA WrittenRow ==
  ASSUME Form!FormAssumption, FormInv, NEW i, NEW r \in Form!RowType
  PROVE  [rows EXCEPT ![i] = r] \in [Form!Id -> Form!RowType \union {None}]
BY DEF FormInv, FormType

(* The row that POST makes of what was sent.                               *)
MadeRow(d) == [d EXCEPT !.over = IF d.over = None THEN {} ELSE d.over]
WithOver(r, o) == [r EXCEPT !.over = o]

LEMMA MadeType ==
  ASSUME Form!FormAssumption, NEW d \in Sendable, d.key # None
  PROVE  /\ MadeRow(d) \in Form!RowType
         /\ \A o \in SUBSET Models : WithOver(MadeRow(d), o) \in Form!RowType
<1> DEFINE over == IF d.over = None THEN {} ELSE d.over
<1>1. over \in SUBSET Models
  BY DEF Sendable
<1>2. MadeRow(d) = [d EXCEPT !.over = over]
  BY DEF MadeRow
<1> HIDE DEF over
<1>3. MadeRow(d) \in Form!RowType
  BY <1>1, <1>2 DEF Sendable, Form!RowType
<1>4. ASSUME NEW r \in Form!RowType, NEW o \in SUBSET Models
      PROVE  WithOver(r, o) \in Form!RowType
  BY DEF WithOver, Form!RowType
<1> QED BY <1>3, <1>4

LEMMA Upserted ==
  ASSUME Form!FormAssumption, FormInv, NEW d \in Sendable, NEW ok, Form!Upsert(d, ok)
  PROVE  UNCHANGED rows \/ (ok /\ rows' \in [Form!Id -> Form!RowType \union {None}])
<1>1. \/ UNCHANGED rows
      \/ /\ d.key # None /\ ok
         /\ \E i \in Form!Named(d.name) :
              rows' = [rows EXCEPT ![i] = WithOver(MadeRow(d),
                                            IF d.over # None THEN MadeRow(d).over
                                            ELSE IF d.adapter \in AwsAdapters THEN {}
                                            ELSE rows[i].over)]
      \/ /\ d.key # None /\ ok
         /\ \E i : rows' = [rows EXCEPT ![i] = MadeRow(d)]
  BY Zenon DEF Form!Upsert, MadeRow, WithOver
<1>2. ASSUME d.key # None, NEW i \in Form!Named(d.name),
             rows' = [rows EXCEPT ![i] = WithOver(MadeRow(d),
                                            IF d.over # None THEN MadeRow(d).over
                                            ELSE IF d.adapter \in AwsAdapters THEN {}
                                            ELSE rows[i].over)]
      PROVE  rows' \in [Form!Id -> Form!RowType \union {None}]
  <2>1. MadeRow(d).over \in SUBSET Models
    BY <1>2, MadeType DEF Form!RowType
  <2>2. rows[i].over \in SUBSET Models
    BY DEF FormInv, FormType, Form!Named, Form!RowType
  <2>3. PICK o \in SUBSET Models : rows' = [rows EXCEPT ![i] = WithOver(MadeRow(d), o)]
    BY <1>2, <2>1, <2>2
  <2>4. WithOver(MadeRow(d), o) \in Form!RowType
    BY <1>2, MadeType
  <2> QED BY <2>3, <2>4, WrittenRow
<1>3. ASSUME d.key # None, NEW i, rows' = [rows EXCEPT ![i] = MadeRow(d)]
      PROVE  rows' \in [Form!Id -> Form!RowType \union {None}]
  <2>1. MadeRow(d) \in Form!RowType
    BY <1>3, MadeType
  <2> QED BY <1>3, <2>1, WrittenRow
<1> QED BY <1>1, <1>2, <1>3

(* The row that PATCH makes of the one there was.                          *)
PatchedRow(old, d) ==
  [adapter |-> old.adapter, name |-> d.name,
   key |-> IF d.key = None THEN old.key ELSE d.key,
   url |-> IF d.url = None THEN old.url ELSE d.url,
   models |-> d.models,
   over |-> IF d.over = None THEN old.over ELSE d.over]

LEMMA PatchEffect ==
  ASSUME Form!FormAssumption, FormInv, NEW i \in Form!Id, NEW d \in Sendable, NEW ok,
         Form!Patch(i, d, ok)
  PROVE  \/ UNCHANGED rows
         \/ /\ ok /\ rows[i] \in Form!RowType
            /\ rows' = [rows EXCEPT ![i] = PatchedRow(rows[i], d)]
            /\ PatchedRow(rows[i], d) \in Form!RowType
<1>1. rows \in [Form!Id -> Form!RowType \union {None}]
  BY DEF FormInv, FormType
<1>2. CASE ~ok
  BY <1>2 DEF Form!Patch
<1>3. CASE ok
  <2>1. rows[i] \in Form!RowType
    BY <1>1, <1>3 DEF Form!Patch, Form!Refused
  <2>2. rows' = [rows EXCEPT ![i] = PatchedRow(rows[i], d)]
    BY <1>1, <1>3 DEF Form!Patch, PatchedRow
  <2>3. PatchedRow(rows[i], d) \in Form!RowType
    BY <2>1 DEF PatchedRow, Form!RowType, Sendable
  <2> QED BY <1>3, <2>1, <2>2, <2>3
<1> QED BY <1>2, <1>3

(* What a request writes are rows, and one that fails writes nothing.      *)
LEMMA RequestWrites ==
  ASSUME Form!FormAssumption, FormInv, NEW q \in UnderWay, NEW ok, Form!Write(q, ok)
  PROVE  /\ rows' \in [Form!Id -> Form!RowType \union {None}]
         /\ UNCHANGED rows \/ ok
<1>0. q.data \in Sendable /\ q.edit \in 0 .. MaxRow
      /\ rows \in [Form!Id -> Form!RowType \union {None}]
  BY DEF UnderWay, FormInv, FormType
<1>1. CASE q.edit = 0
  <2>1. Form!Upsert(q.data, ok)
    BY <1>1 DEF Form!Write
  <2> QED BY <1>0, <2>1, Upserted
<1>2. CASE q.edit # 0
  <2>1. Form!Patch(q.edit, q.data, ok) /\ q.edit \in Form!Id
    BY <1>0, <1>2 DEF Form!Write, Form!Id, Form!FormAssumption
  <2>2. CASE UNCHANGED rows
    BY <1>0, <2>2
  <2>3. CASE /\ ok /\ rows' = [rows EXCEPT ![q.edit] = PatchedRow(rows[q.edit], q.data)]
             /\ PatchedRow(rows[q.edit], q.data) \in Form!RowType
    BY <2>3, WrittenRow
  <2> QED BY <1>0, <2>1, <2>2, <2>3, PatchEffect
<1> QED BY <1>1, <1>2

LEMMA FormCommitStep == ASSUME Form!FormAssumption, FormInv, Form!Commit PROVE FormInv'
<1>0. save.on /\ save.st = "sent" /\ UNCHANGED <<list, refetch, dialog, late, deleting, steps, lost>>
  BY DEF Form!Commit
<1>1. save \in UnderWay
  BY <1>0, Shape
<1>2. PICK ok \in BOOLEAN : Form!Write(save, ok)
                            /\ save' = [save EXCEPT !.st = IF ok THEN "ok" ELSE "failed"]
  BY DEF Form!Commit
<1>3. rows' \in [Form!Id -> Form!RowType \union {None}] /\ (UNCHANGED rows \/ ok)
  BY <1>1, <1>2, RequestWrites
<1> DEFINE w == IF ok THEN "ok" ELSE "failed"
<1>4. /\ save' \in UnderWay /\ save'.on = save.on /\ save'.st = w /\ save'.data = save.data
      /\ save'.edit = save.edit /\ save'.base = save.base /\ save'.form = save.form
      /\ save'.touched = save.touched
  BY <1>1, <1>2 DEF UnderWay
<1>5. FormType'
  BY <1>0, <1>3, <1>4 DEF FormInv, FormType
<1>6. DialogInv' /\ SaveInv' /\ LateInv'
  BY <1>0, <1>4 DEF FormInv, DialogInv, SaveInv, LateInv, Filled, FormSent
<1>7. FormListed'
  BY <1>0, <1>3, <1>4 DEF FormInv, FormListed, Answering
<1> QED BY <1>5, <1>6, <1>7 DEF FormInv

LEMMA CommitLateStep == ASSUME Form!FormAssumption, FormInv, Form!CommitLate PROVE FormInv'
<1>0. /\ late.on /\ late' = Form!NoSave /\ ~late'.on
      /\ UNCHANGED <<list, refetch, dialog, save, deleting, steps, lost>>
  BY DEF Form!CommitLate, Form!NoSave
<1>1. late \in UnderWay
  BY <1>0, Shape
<1>2. PICK ok \in BOOLEAN : Form!Write(late, ok)
  BY DEF Form!CommitLate
<1>3. rows' \in [Form!Id -> Form!RowType \union {None}]
  BY <1>1, <1>2, RequestWrites
<1>4. FormType'
  BY <1>0, <1>3 DEF FormInv, FormType
<1>5. DialogInv' /\ SaveInv' /\ LateInv'
  BY <1>0 DEF FormInv, DialogInv, SaveInv, LateInv, Filled, FormSent
<1>6. FormListed'
  BY <1>0 DEF FormInv, LateInv, FormListed
<1> QED BY <1>4, <1>5, <1>6 DEF FormInv

LEMMA SaveEndsStep ==
  ASSUME Form!FormAssumption, FormInv, Form!Saved \/ Form!LoseSave
  PROVE  FormInv'
<1>1. /\ save.on /\ save' = Form!NoSave /\ ~save'.on
      /\ UNCHANGED <<rows, list, deleting, steps>>
      /\ \/ lost' = lost /\ save.st = "ok" /\ dialog' = Form!Closed /\ refetch' = TRUE
            /\ UNCHANGED late
         \/ lost' = lost /\ save.st = "failed" /\ UNCHANGED <<dialog, refetch, late>>
         \/ /\ lost < MaxLost /\ lost' = lost + 1 /\ UNCHANGED <<dialog, refetch>>
            /\ UNCHANGED late \/ (save.st = "sent" /\ late' = save)
  BY DEF Form!Saved, Form!LoseSave, Form!NoSave
<1>2. lost' \in 0 .. MaxLost /\ (lost' = 0 => lost' = lost)
  BY <1>1 DEF FormInv, FormType, Form!FormAssumption
<1>3. FormType'
  BY <1>1, <1>2 DEF FormInv, FormType
<1>4. DialogInv' /\ SaveInv'
  BY <1>1 DEF FormInv, DialogInv, SaveInv, Filled, Form!Closed
<1>6. LateInv'
  <2>1. lost \in 0 .. MaxLost
    BY DEF FormInv, FormType
  <2>2. CASE UNCHANGED late
    <3>1. late.on => lost' # 0
      BY <1>1, <2>1, <2>2 DEF FormInv, LateInv, Form!FormAssumption
    <3> QED BY <2>2, <3>1 DEF FormInv, LateInv, Filled, FormSent
  <2>3. CASE save.st = "sent" /\ late' = save /\ lost' = lost + 1
    <3>1. lost' # 0
      BY <2>1, <2>3 DEF Form!FormAssumption
    <3> QED BY <1>1, <2>3, <3>1 DEF FormInv, SaveInv, LateInv, Filled, FormSent
  <2> QED BY <1>1, <2>2, <2>3
<1>5. FormListed'
  <2>1. CASE lost' = 0
    BY <1>1, <1>2, <2>1 DEF FormInv, FormType, Form!FormAssumption, FormListed, Answering
  <2> QED BY <2>1 DEF FormListed
<1> QED BY <1>3, <1>4, <1>5, <1>6 DEF FormInv

-----------------------------------------------------------------------------
(* Deleting, and the list.                                                 *)

LEMMA FormDeleteStep ==
  ASSUME Form!FormAssumption, FormInv, Form!AskDelete \/ Form!CommitDelete \/ Form!Deleted \/ Form!Refetch
  PROVE  FormInv'
<1>0. /\ rows \in [Form!Id -> Form!RowType \union {None}]
           /\ deleting \in [id : 0 .. MaxRow, done : BOOLEAN]
      /\ Form!NoDelete \in [id : 0 .. MaxRow, done : BOOLEAN] /\ ~Form!NoDelete.done
      /\ steps \in 0 .. FormActs
      /\ deleting.done => deleting.id # 0
  BY DEF FormInv, FormType, Form!NoDelete, Form!FormAssumption
<1>1. CASE Form!AskDelete
  <2>1. PICK i \in Form!Id : deleting' = [id |-> i, done |-> FALSE]
    BY <1>1 DEF Form!AskDelete
  <2>2. deleting' \in [id : 0 .. MaxRow, done : BOOLEAN] /\ ~deleting'.done
    <3>1. i \in 0 .. MaxRow
      BY DEF Form!Id, Form!FormAssumption
    <3> QED BY <2>1, <3>1
  <2>3. ~deleting.done /\ steps' \in 0 .. FormActs /\ UNCHANGED <<rows, list, refetch, dialog,
                                                                  save, late, lost>>
    BY <1>0, <1>1, ActSteps DEF Form!AskDelete
  <2>4. FormType' /\ DialogInv' /\ SaveInv' /\ LateInv'
    BY <2>2, <2>3 DEF FormInv, FormType, DialogInv, SaveInv, LateInv, Filled, FormSent
  <2> QED BY <2>2, <2>3, <2>4 DEF FormInv, FormListed, Answering
<1>2. CASE Form!CommitDelete
  <2>1. /\ deleting.id \in Form!Id /\ ~deleting.done
        /\ rows' = [rows EXCEPT ![deleting.id] = None]
        /\ deleting' = (IF rows[deleting.id] = None THEN Form!NoDelete
                        ELSE [deleting EXCEPT !.done = TRUE])
        /\ UNCHANGED <<list, refetch, dialog, save, late, steps, lost>>
    BY <1>0, <1>2 DEF Form!CommitDelete, Form!Id, Form!FormAssumption
  <2>2. rows' \in [Form!Id -> Form!RowType \union {None}]
    BY <1>0, <2>1
  <2>3. /\ deleting' \in [id : 0 .. MaxRow, done : BOOLEAN] /\ (~deleting'.done => rows' = rows)
        /\ deleting'.done => deleting'.id # 0
    <3>1. CASE rows[deleting.id] = None
      BY <1>0, <2>1, <3>1
    <3>2. CASE rows[deleting.id] # None
      <4>1. deleting' = [deleting EXCEPT !.done = TRUE]
        BY <2>1, <3>2
      <4>2. deleting'.done = TRUE /\ deleting'.id = deleting.id
        BY <1>0, <4>1
      <4>3. deleting.id # 0
        BY <2>1 DEF Form!Id, Form!FormAssumption
      <4> QED BY <1>0, <4>1, <4>2, <4>3
    <3> QED BY <3>1, <3>2
  <2>4. FormType' /\ DialogInv' /\ SaveInv' /\ LateInv'
    BY <2>1, <2>2, <2>3 DEF FormInv, FormType, DialogInv, SaveInv, LateInv, Filled, FormSent
  <2>5. FormListed'
    <3>1. SUFFICES ASSUME lost = 0, ~refetch, ~Answering' PROVE list = rows'
      BY <2>1 DEF FormListed
    <3>2. ~Answering /\ rows' = rows
      BY <2>1, <2>3, <3>1 DEF Answering
    <3> QED BY <3>1, <3>2 DEF FormInv, FormListed
  <2> QED BY <2>4, <2>5 DEF FormInv
<1>3. CASE Form!Deleted
  BY <1>0, <1>3 DEF Form!Deleted, FormInv, FormType, DialogInv, SaveInv, LateInv, Filled, FormSent,
                    FormListed
<1>4. CASE Form!Refetch
  BY <1>0, <1>4 DEF Form!Refetch, FormInv, FormType, DialogInv, SaveInv, LateInv, Filled, FormSent,
                    FormListed
<1> QED BY <1>1, <1>2, <1>3, <1>4

LEMMA NextForm == ASSUME Form!FormAssumption, FormInv, [Form!Next]_(Form!vars) PROVE FormInv'
<1>1. CASE UNCHANGED Form!vars
  BY <1>1 DEF Form!vars, FormInv, FormType, DialogInv, SaveInv, LateInv, Filled, FormSent,
              FormListed, Answering
<1> QED BY <1>1, OpenStep, TypeStep, HandleSaveStep, FormCommitStep, CommitLateStep, SaveEndsStep,
           FormDeleteStep
        DEF Form!Next

LEMMA FormSays ==
  ASSUME Form!FormAssumption, FormInv PROVE Form!TypeOK /\ Form!ListIsCurrent
<1>1. Form!TypeOK
  BY Shape DEF FormInv, FormType, Form!TypeOK
<1>2. Form!ListIsCurrent
  BY DEF FormInv, FormListed, Answering, Form!ListIsCurrent, Form!NoDelete
<1> QED BY <1>1, <1>2

(* A request that edits was filled from the row it is about to write.      *)
LEMMA WriteKeeps ==
  ASSUME Form!FormAssumption, FormInv, NEW q \in UnderWay, NEW ok, Form!Write(q, ok),
         q.data = FormSent(q.form), q.edit # 0 => Filled(q)
  PROVE  Form!Keeps(q)
<1> DEFINE i == q.edit
<1> SUFFICES ASSUME i # 0, rows[i] = q.base, rows[i] # None
             PROVE  rows'[i] = None \/ Form!Kept(q, rows[i], rows'[i])
  BY DEF Form!Keeps
<1>0. /\ i \in Form!Id /\ rows \in [Form!Id -> Form!RowType \union {None}]
      /\ q.form \in Form!Form /\ q.data \in Sendable
  BY DEF UnderWay, FormInv, FormType, Form!Id, Form!FormAssumption
<1>1. CASE UNCHANGED rows
  BY <1>1 DEF Form!Kept
<1>2. \/ UNCHANGED rows
      \/ /\ rows[i] \in Form!RowType
         /\ rows'[i] = PatchedRow(rows[i], q.data)
  <2>1. Form!Patch(i, q.data, ok)
    BY DEF Form!Write
  <2> QED BY <1>0, <2>1, PatchEffect
<1>3. /\ q.base \in Form!RowType
      /\ \A f \in Form!Field \ q.touched : q.form[f] = IF f = "key" THEN None ELSE q.base[f]
  BY DEF Filled
<1>4. ASSUME rows'[i] = PatchedRow(rows[i], q.data),
             NEW f \in Form!Field \ (q.touched \union {"over"})
      PROVE  rows'[i][f] = rows[i][f]
  <2>1. q.form[f] = IF f = "key" THEN None ELSE rows[i][f]
    BY <1>3
  <2>2. q.data[f] = q.form[f]
    BY <1>0 DEF FormSent, Form!Form, Form!Field
  <2> QED BY <1>4, <2>1, <2>2 DEF PatchedRow, Form!Field
<1>5. ASSUME rows'[i] = PatchedRow(rows[i], q.data), "over" \notin q.touched
      PROVE  rows'[i].over \intersect rows'[i].models = rows[i].over \intersect rows'[i].models
  <2> DEFINE both == q.form.over \intersect q.form.models
  <2>1. q.form.over = rows[i].over
    BY <1>3, <1>5 DEF Form!Field
  <2>2. q.data.models = q.form.models /\ q.data.over = IF both = {} THEN None ELSE both
    BY <1>0 DEF FormSent, Form!Form
  <2>3. both # None
    BY <1>0 DEF Form!Form, Form!FormAssumption
  <2>4. /\ rows'[i].models = q.form.models
        /\ rows'[i].over = IF both = {} THEN rows[i].over ELSE both
    BY <1>5, <2>2, <2>3 DEF PatchedRow
  <2> QED BY <2>1, <2>4
<1> QED BY <1>1, <1>2, <1>4, <1>5 DEF Form!Kept

LEMMA UntouchedKept ==
  ASSUME Form!FormAssumption, FormInv, [Form!Next]_(Form!vars) PROVE Form!KeepsUntouched
<1>1. CASE Form!Commit
  <2>1. save \in UnderWay /\ late' = late
    BY <1>1, Shape DEF Form!Commit
  <2>2. PICK ok \in BOOLEAN : Form!Write(save, ok)
    BY <1>1 DEF Form!Commit
  <2>3. save.data = FormSent(save.form) /\ (save.edit # 0 => Filled(save))
    BY <1>1 DEF Form!Commit, FormInv, SaveInv
  <2>4. Form!Keeps(save)
    BY <2>1, <2>2, <2>3, WriteKeeps
  <2> QED BY <2>1, <2>4 DEF Form!KeepsUntouched
<1>2. CASE Form!CommitLate
  <2>1. late \in UnderWay /\ save' = save
    BY <1>2, Shape DEF Form!CommitLate
  <2>2. PICK ok \in BOOLEAN : Form!Write(late, ok)
    BY <1>2 DEF Form!CommitLate
  <2>3. late.data = FormSent(late.form) /\ (late.edit # 0 => Filled(late))
    BY <1>2 DEF Form!CommitLate, FormInv, LateInv
  <2>4. Form!Keeps(late)
    BY <2>1, <2>2, <2>3, WriteKeeps
  <2> QED BY <2>1, <2>4 DEF Form!KeepsUntouched
<1>3. CASE UNCHANGED rows
  BY <1>3 DEF Form!KeepsUntouched, Form!Keeps, Form!Kept
<1>4. CASE Form!CommitDelete
  BY <1>4 DEF Form!CommitDelete, Form!KeepsUntouched
<1> QED BY <1>1, <1>2, <1>3, <1>4 DEF Form!Next, Form!vars, Form!openAddDialog, Form!openEditDialog,
                                Form!closeDialog, Form!Type, Form!handleSave,
        Form!Saved, Form!LoseSave, Form!AskDelete, Form!Deleted, Form!Refetch

LEMMA FormStepsHold ==
  ASSUME Form!FormAssumption, FormInv, [Form!Next]_(Form!vars) PROVE Form!FormSteps
<1>1. FormInv'
  BY NextForm
<1>2. Form!ListIsCurrent'
  BY <1>1, FormSays, PTL
<1> QED BY <1>2, UntouchedKept DEF Form!FormSteps

-----------------------------------------------------------------------------
(* The tab of the API keys.  The text that confirms a deletion was typed   *)
(* for the key the dialog shows; what the list has or has read is the      *)
(* table, unless an answer is awaited; and a user who waits for one        *)
(* request of a kind finds the dialog as it was left.                      *)

Table == [Keys!Id -> Keys!Note \union {"unused", "gone"}]
KeysHistory == [typedFor : 0 .. MaxKey, twice : BOOLEAN, wentOn : BOOLEAN, behind : BOOLEAN,
                unseen : BOOLEAN, wiped : BOOLEAN]

(* Without a request that was done and not yet answered, what the list has *)
(* or has read is the table.                                               *)
Served == \A s \in Keys!Slot : calls[s] # None => calls[s].st # "ok"
Fetched ==
  ~past.behind /\ Served =>
    /\ query.st = "idle" => seen = table
    /\ query.st = "read" => query.rows = table

(* The text in the dialog was typed for the key it shows.                  *)
Typed == dropping.id # 0 /\ dropping.text # None => past.typedFor = dropping.id

(* A user who waits has one request of a kind at most, and the dialog      *)
(* still holds what it was made of.                                        *)
Waits(s) ==
  /\ calls[s].last
  /\ \A t \in Keys!Slot : calls[t] # None /\ calls[t].op = calls[s].op => t = s
  /\ calls[s].op = "create" =>
       creating = [open |-> TRUE, name |-> calls[s].name] /\ box \in {0, calls[s].box}
  /\ calls[s].op = "rename" =>
       editing = [id |-> calls[s].id, name |-> calls[s].name] /\ editing.id # 0
  /\ calls[s].op = "delete" => dropping.id = calls[s].id /\ dropping.id # 0

Calm == ~past.unseen /\ ~past.wiped /\ \A s \in Keys!Slot : calls[s] # None => Waits(s)

KeysType ==
  Keys!TypeOK /\ past \in KeysHistory
    /\ query \in [st : {"idle", "asked", "read"}, rows : Table \union {None}]
    /\ (query.st = "read" => query.rows \in Table)

KeysInv == KeysType /\ Fetched /\ Typed /\ (~past.twice /\ ~past.wentOn => Calm)

LEMMA InitKeys == ASSUME Keys!KeysTabAssumption, Keys!Init PROVE KeysInv
<1>1. table \in Table /\ 0 \in 0 .. MaxKey /\ None \in Keys!Note
  BY DEF Keys!Init, Table, Keys!Note, Keys!KeysTabAssumption
<1>2. past \in KeysHistory /\ ~past.unseen /\ ~past.wiped
  BY <1>1 DEF Keys!Init, KeysHistory
<1>3. KeysType
  BY <1>1, <1>2 DEF Keys!Init, KeysType, Keys!TypeOK, Table, Keys!Closed
<1> QED BY <1>2, <1>3 DEF Keys!Init, KeysInv, Fetched, Typed, Calm

(* One field of the history is set.                                        *)
LEMMA HistoryFields ==
  ASSUME NEW h \in KeysHistory, NEW b \in BOOLEAN, NEW k \in 0 .. MaxKey
  PROVE  /\ [h EXCEPT !.typedFor = k] \in KeysHistory
         /\ [h EXCEPT !.twice = b] \in KeysHistory /\ [h EXCEPT !.wentOn = b] \in KeysHistory
         /\ [h EXCEPT !.behind = b] \in KeysHistory
BY DEF KeysHistory

LEMMA WentOnType ==
  ASSUME KeysType, NEW op, past' = Keys!WentOn(op)
  PROVE  /\ past' \in KeysHistory /\ past'.typedFor = past.typedFor
         /\ past'.twice = past.twice /\ past'.behind = past.behind
         /\ past'.unseen = past.unseen /\ past'.wiped = past.wiped
         /\ ~past'.wentOn => ~past.wentOn /\ \A s \in Keys!Slot : calls[s] # None =>
              calls[s].op # op
<1>1. past \in KeysHistory
  BY DEF KeysType
<1>2. PICK b \in BOOLEAN : b = (past.wentOn \/ Keys!UnderWay(op) # {})
  BY <1>1
<1>3. past' = [past EXCEPT !.wentOn = b]
  BY <1>2 DEF Keys!WentOn
<1>4. past' \in KeysHistory /\ past'.wentOn = b
  BY <1>1, <1>3, HistoryFields DEF KeysHistory
<1> QED BY <1>1, <1>2, <1>3, <1>4 DEF Keys!UnderWay, KeysHistory

(* What the table, the list and the answers are stays the same.            *)
Still == UNCHANGED <<table, seen, query, calls>>

(* A dialog is opened, filled or closed.  Kinds are the kinds of requests  *)
(* the dialog is for.                                                      *)
LEMMA KeysDialogStep ==
  ASSUME Keys!KeysTabAssumption, KeysInv, Still, past' \in KeysHistory, Keys!TypeOK',
         past'.twice = past.twice, past'.behind = past.behind,
         past'.unseen = past.unseen, past'.wiped = past.wiped,
         ~past'.wentOn => ~past.wentOn, Typed',
         ~past'.twice /\ ~past'.wentOn =>
           \A s \in Keys!Slot : calls[s] # None /\ Waits(s) =>
             /\ calls[s].op = "create" => creating' = creating /\ box' \in {0, box}
             /\ calls[s].op = "rename" => editing' = editing
             /\ calls[s].op = "delete" => dropping'.id = dropping.id
  PROVE  KeysInv'
<1>1. KeysType'
  BY DEF KeysInv, KeysType, Still
<1>2. Fetched'
  BY DEF KeysInv, Fetched, Served, Still
<1>3. ASSUME ~past'.twice /\ ~past'.wentOn PROVE Calm'
  <2>1. Calm
    BY <1>3 DEF KeysInv
  <2>2. ASSUME NEW s \in Keys!Slot, calls'[s] # None PROVE Waits(s)'
    <3>1. Waits(s) /\ calls' = calls
      BY <2>1, <2>2 DEF Calm, Still
    <3> QED BY <1>3, <2>2, <3>1 DEF Waits
  <2> QED BY <2>1, <2>2 DEF Calm
<1> QED BY <1>1, <1>2, <1>3 DEF KeysInv

(* Nobody has what a dialog that is closed was filled with.                *)
LEMMA ClosedHasNone ==
  ASSUME KeysInv, ~past.twice, ~past.wentOn, NEW s \in Keys!Slot, calls[s] # None
  PROVE  /\ calls[s].op = "create" => creating.open
         /\ calls[s].op = "rename" => editing.id # 0
         /\ calls[s].op = "delete" => dropping.id # 0
BY DEF KeysInv, Calm, Waits

LEMMA CreateDialog ==
  ASSUME Keys!KeysTabAssumption, KeysInv,
         Keys!OpenCreate \/ Keys!CancelCreate \/ Keys!TypeName \/ Keys!handleCloseNewKey
  PROVE  KeysInv'
<1>1. CASE Keys!OpenCreate
  <2>1. /\ ~creating.open /\ creating' = [creating EXCEPT !.open = TRUE] /\ Still
        /\ UNCHANGED <<box, editing, dropping, past>>
    BY <1>1 DEF Keys!OpenCreate, Still
  <2>2. Keys!TypeOK' /\ Typed'
    BY <2>1 DEF KeysInv, KeysType, Keys!TypeOK, Typed, Still
  <2> QED BY <2>1, <2>2, KeysDialogStep, ClosedHasNone DEF KeysInv, KeysType
<1>2. CASE Keys!CancelCreate \/ Keys!TypeName
  <2>1. PICK c : /\ c \in [open : BOOLEAN, name : Keys!Note] /\ creating' = c
    <3>1. CASE Keys!CancelCreate
      BY <3>1 DEF Keys!CancelCreate, KeysInv, KeysType, Keys!TypeOK
    <3>2. CASE Keys!TypeName
      BY <3>2 DEF Keys!TypeName, KeysInv, KeysType, Keys!TypeOK, Keys!Note
    <3> QED BY <1>2, <3>1, <3>2
  <2>2. Still /\ UNCHANGED <<box, editing, dropping>> /\ past' = Keys!WentOn("create")
    BY <1>2 DEF Keys!CancelCreate, Keys!TypeName, Still
  <2>3. Keys!TypeOK'
    BY <2>1, <2>2 DEF KeysInv, KeysType, Keys!TypeOK, Still
  <2> QED BY <2>2, <2>3, WentOnType, KeysDialogStep DEF KeysInv, KeysType, Typed
<1>3. CASE Keys!handleCloseNewKey
  <2>1. Still /\ UNCHANGED <<creating, editing, dropping, past>> /\ box' = 0
    BY <1>3 DEF Keys!handleCloseNewKey, Still
  <2>2. Keys!TypeOK' /\ Typed'
    BY <2>1 DEF KeysInv, KeysType, Keys!TypeOK, Typed, Still, Keys!KeysTabAssumption
  <2> QED BY <2>1, <2>2, KeysDialogStep DEF KeysInv, KeysType
<1> QED BY <1>1, <1>2, <1>3

LEMMA EditDialog ==
  ASSUME Keys!KeysTabAssumption, KeysInv, Keys!OpenEdit \/ Keys!TypeNote \/ Keys!CancelEdit
  PROVE  KeysInv'
<1>0. seen \in Table /\ editing \in [id : 0 .. MaxKey, name : Keys!Note] /\ None \in Keys!Note
        /\ 0 \in 0 .. MaxKey
  BY DEF KeysInv, KeysType, Keys!TypeOK, Table, Keys!Note, Keys!KeysTabAssumption
<1>1. CASE Keys!OpenEdit
  <2>1. PICK k \in Keys!Rows(seen) : editing' = [id |-> k, name |-> seen[k]]
    BY <1>1 DEF Keys!OpenEdit
  <2>2. k \in 0 .. MaxKey /\ seen[k] \in Keys!Note
    BY <1>0 DEF Keys!Rows, Table, Keys!Id, Keys!KeysTabAssumption
  <2>3. Still /\ UNCHANGED <<box, creating, dropping, past>> /\ editing.id = 0
    BY <1>1 DEF Keys!OpenEdit, Still
  <2>4. Keys!TypeOK' /\ Typed'
    BY <2>1, <2>2, <2>3 DEF KeysInv, KeysType, Keys!TypeOK, Typed, Still
  <2> QED BY <2>3, <2>4, KeysDialogStep, ClosedHasNone DEF KeysInv, KeysType
<1>2. CASE Keys!TypeNote \/ Keys!CancelEdit
  <2>1. PICK e : /\ e \in [id : 0 .. MaxKey, name : Keys!Note] /\ editing' = e
    <3>1. CASE Keys!TypeNote
      BY <1>0, <3>1 DEF Keys!TypeNote, Keys!Note
    <3>2. CASE Keys!CancelEdit
      BY <1>0, <3>2 DEF Keys!CancelEdit, Keys!Closed
    <3> QED BY <1>2, <3>1, <3>2
  <2>2. Still /\ UNCHANGED <<box, creating, dropping>> /\ past' = Keys!WentOn("rename")
    BY <1>2 DEF Keys!TypeNote, Keys!CancelEdit, Still
  <2>3. Keys!TypeOK'
    BY <2>1, <2>2 DEF KeysInv, KeysType, Keys!TypeOK, Still
  <2> QED BY <2>2, <2>3, WentOnType, KeysDialogStep DEF KeysInv, KeysType, Typed
<1> QED BY <1>1, <1>2

LEMMA DeleteDialog ==
  ASSUME Keys!KeysTabAssumption, KeysInv, Keys!OpenDelete \/ Keys!TypeConfirm \/ Keys!CancelDelete
  PROVE  KeysInv'
<1> DEFINE Dialog == [id : 0 .. MaxKey, name : Keys!Note, text : Keys!Note \union {Word}]
<1>0. seen \in Table /\ dropping \in Dialog /\ None \in Keys!Note /\ 0 \in 0 .. MaxKey
        /\ past \in KeysHistory
  BY DEF KeysInv, KeysType, Keys!TypeOK, Table, Keys!Note, Keys!KeysTabAssumption
<1>1. CASE Keys!OpenDelete
  <2>1. PICK k \in Keys!Rows(seen) : dropping' = [id |-> k, name |-> seen[k], text |-> None]
    BY <1>1 DEF Keys!OpenDelete
  <2>2. k \in 0 .. MaxKey /\ seen[k] \in Keys!Note
    BY <1>0 DEF Keys!Rows, Table, Keys!Id, Keys!KeysTabAssumption
  <2>3. Still /\ UNCHANGED <<box, creating, editing>> /\ dropping.id = 0
        /\ past' = [past EXCEPT !.typedFor = 0]
    BY <1>1 DEF Keys!OpenDelete, Still
  <2>4. past' \in KeysHistory /\ past'.twice = past.twice /\ past'.behind = past.behind
        /\ past'.unseen = past.unseen /\ past'.wiped = past.wiped /\ past'.wentOn = past.wentOn
    BY <1>0, <2>3, HistoryFields DEF KeysHistory
  <2>5. Keys!TypeOK' /\ Typed'
    BY <1>0, <2>1, <2>2, <2>3 DEF KeysInv, KeysType, Keys!TypeOK, Typed, Still
  <2> QED BY <2>3, <2>4, <2>5, KeysDialogStep, ClosedHasNone
<1>2. CASE Keys!TypeConfirm
  <2>1. PICK w \in KeyNames \union {Word} : dropping' = [dropping EXCEPT !.text = w]
    BY <1>2 DEF Keys!TypeConfirm
  <2>2. Still /\ UNCHANGED <<box, creating, editing>>
          /\ past' = [past EXCEPT !.typedFor = dropping.id]
    BY <1>2 DEF Keys!TypeConfirm, Still
  <2>3. dropping' \in Dialog /\ dropping'.id = dropping.id
    BY <1>0, <2>1 DEF Keys!Note
  <2>4. past' \in KeysHistory /\ past'.twice = past.twice /\ past'.behind = past.behind
        /\ past'.unseen = past.unseen /\ past'.wiped = past.wiped /\ past'.wentOn = past.wentOn
        /\ past'.typedFor = dropping.id
    BY <1>0, <2>2, HistoryFields DEF KeysHistory
  <2>5. Keys!TypeOK' /\ Typed'
    BY <2>2, <2>3, <2>4 DEF KeysInv, KeysType, Keys!TypeOK, Typed, Still
  <2> QED BY <2>2, <2>3, <2>4, <2>5, KeysDialogStep
<1>3. CASE Keys!CancelDelete
  <2>1. PICK w \in Keys!Note \union {Word} : dropping' = [id |-> 0, name |-> None, text |-> w]
    BY <1>0, <1>3 DEF Keys!CancelDelete
  <2>2. Still /\ UNCHANGED <<box, creating, editing>> /\ past' = Keys!WentOn("delete")
    BY <1>3 DEF Keys!CancelDelete, Still
  <2>3. Keys!TypeOK' /\ Typed'
    BY <1>0, <2>1, <2>2 DEF KeysInv, KeysType, Keys!TypeOK, Typed, Still
  <2>4. /\ past' \in KeysHistory /\ past'.twice = past.twice /\ past'.behind = past.behind
        /\ past'.unseen = past.unseen /\ past'.wiped = past.wiped
        /\ ~past'.wentOn => ~past.wentOn /\ \A s \in Keys!Slot : calls[s] # None =>
             calls[s].op # "delete"
    BY <2>2, WentOnType DEF KeysInv
  <2> QED BY <2>2, <2>3, <2>4, KeysDialogStep
<1> QED BY <1>1, <1>2, <1>3

-----------------------------------------------------------------------------
(* A request is made.                                                      *)
LEMMA AskEffect ==
  ASSUME Keys!KeysTabAssumption, KeysType, NEW op \in {"create", "rename", "delete"},
         NEW id \in 0 .. MaxKey, NEW name \in Keys!Note, Keys!Ask(op, id, name)
  PROVE  /\ calls' \in [Keys!Slot -> Keys!Request \union {None}]
         /\ \A s \in Keys!Slot : calls[s] # None => calls'[s] # None /\ calls'[s].st = calls[s].st
         /\ \E s \in Keys!Slot :
              /\ calls[s] = None
              /\ calls'[s] = [op |-> op, id |-> id, name |-> name, st |-> "asked",
                              last |-> TRUE, box |-> box]
              /\ calls'[s] # None
              /\ \A t \in Keys!Slot : t # s /\ ~(calls[t] # None /\ calls[t].op = op) =>
                   calls'[t] = calls[t]
         /\ \A s \in Keys!Slot : calls[s] = None /\ calls'[s] # None =>
              calls'[s].op = op /\ calls'[s].id = id
<1>0. calls \in [Keys!Slot -> Keys!Request \union {None}] /\ box \in 0 .. MaxKey
        /\ None \notin Keys!Request
  BY DEF KeysType, Keys!TypeOK, Keys!KeysTabAssumption
<1>1. PICK s \in Keys!Slot :
        /\ calls[s] = None
        /\ calls' = [t \in Keys!Slot |->
             IF t = s THEN [op |-> op, id |-> id, name |-> name, st |-> "asked", last |-> TRUE,
                            box |-> box]
             ELSE IF t \in Keys!UnderWay(op) THEN [calls[t] EXCEPT !.last = FALSE] ELSE calls[t]]
  BY DEF Keys!Ask
<1> DEFINE r == [op |-> op, id |-> id, name |-> name, st |-> "asked", last |-> TRUE, box |-> box]
<1>2. r \in Keys!Request
  BY <1>0 DEF Keys!Request
<1>3. \A t \in Keys!UnderWay(op) : /\ [calls[t] EXCEPT !.last = FALSE] \in Keys!Request
                                   /\ [calls[t] EXCEPT !.last = FALSE].st = calls[t].st
  BY <1>0 DEF Keys!UnderWay, Keys!Request
<1>4. /\ calls'[s] = r /\ \A t \in Keys!Slot \ {s} : t \in Keys!UnderWay(op) =>
                                 calls'[t] = [calls[t] EXCEPT !.last = FALSE]
      /\ \A t \in Keys!Slot \ {s} : t \notin Keys!UnderWay(op) => calls'[t] = calls[t]
      /\ DOMAIN calls' = Keys!Slot /\ calls' = [t \in Keys!Slot |-> calls'[t]]
  BY <1>1
<1>5. r.op = op /\ r.id = id
  OBVIOUS
<1> HIDE DEF r
<1>6. \A t \in Keys!Slot : calls'[t] \in Keys!Request \union {None}
  BY <1>0, <1>2, <1>3, <1>4
<1>7. \A t \in Keys!Slot : calls[t] # None => calls'[t] # None /\ calls'[t].st = calls[t].st
  BY <1>0, <1>1, <1>3, <1>4 DEF Keys!UnderWay
<1>8. \A t \in Keys!Slot : calls[t] = None /\ calls'[t] # None =>
        calls'[t].op = op /\ calls'[t].id = id
  BY <1>1, <1>4, <1>5 DEF Keys!UnderWay
<1>9. \A t \in Keys!Slot : t # s /\ ~(calls[t] # None /\ calls[t].op = op) => calls'[t] = calls[t]
  BY <1>4 DEF Keys!UnderWay
<1>10. calls'[s] = r /\ calls'[s] # None /\ calls[s] = None
  BY <1>0, <1>1, <1>2, <1>4
<1>11. calls' \in [Keys!Slot -> Keys!Request \union {None}]
  BY <1>4, <1>6
<1> QED BY <1>7, <1>8, <1>9, <1>10, <1>11 DEF r

LEMMA KeysAskStep ==
  ASSUME Keys!KeysTabAssumption, KeysInv, NEW op \in {"create", "rename", "delete"},
         NEW id \in 0 .. MaxKey, NEW name \in Keys!Note, Keys!Ask(op, id, name),
         UNCHANGED <<table, seen, query, creating, box, editing, dropping>>,
         past' \in KeysHistory, past'.typedFor = past.typedFor, past'.behind = past.behind,
         past'.unseen = past.unseen, past'.wiped = past.wiped, past'.wentOn = past.wentOn,
         ~past'.twice => ~past.twice /\ ~Keys!isPending(op),
         op = "create" => creating = [open |-> TRUE, name |-> name],
         op = "rename" => editing = [id |-> id, name |-> name] /\ id # 0,
         op = "delete" => dropping.id = id /\ id # 0
  PROVE  KeysInv'
<1>1. /\ calls' \in [Keys!Slot -> Keys!Request \union {None}]
      /\ \A s \in Keys!Slot : calls[s] # None => calls'[s] # None /\ calls'[s].st = calls[s].st
  BY AskEffect DEF KeysInv
<1>2. PICK s \in Keys!Slot :
        /\ calls[s] = None
        /\ calls'[s] = [op |-> op, id |-> id, name |-> name, st |-> "asked",
                        last |-> TRUE, box |-> box]
        /\ calls'[s] # None
        /\ \A t \in Keys!Slot : t # s /\ ~(calls[t] # None /\ calls[t].op = op) =>
             calls'[t] = calls[t]
  BY AskEffect DEF KeysInv
<1>3. KeysType'
  BY <1>1 DEF KeysInv, KeysType, Keys!TypeOK
<1>4. Served' => Served
  BY <1>1 DEF Served
<1>5. Fetched' /\ Typed'
  BY <1>4 DEF KeysInv, Fetched, Typed
<1>6. ASSUME ~past'.twice /\ ~past'.wentOn PROVE Calm'
  <2>1. Calm /\ ~Keys!isPending(op)
    BY <1>6 DEF KeysInv
  <2>2. \A t \in Keys!Slot : calls[t] # None => calls[t].op # op
    BY <2>1 DEF Calm, Waits, Keys!isPending, Keys!UnderWay
  <2>3. \A t \in Keys!Slot \ {s} : calls'[t] = calls[t]
    BY <1>2, <2>2
  <2>4. /\ calls'[s].op = op /\ calls'[s].last /\ calls'[s].id = id /\ calls'[s].name = name
        /\ calls'[s].box = box
    BY <1>2
  <2>5. Waits(s)'
    BY <2>2, <2>3, <2>4 DEF Waits
  <2>6. ASSUME NEW t \in Keys!Slot, t # s, calls'[t] # None PROVE Waits(t)'
    <3>1. calls'[t] = calls[t] /\ calls[t] # None /\ Waits(t) /\ calls[t].op # op
      BY <2>1, <2>2, <2>3, <2>6 DEF Calm
    <3> QED BY <2>3, <2>4, <3>1 DEF Waits
  <2> QED BY <2>1, <2>5, <2>6 DEF Calm
<1> QED BY <1>3, <1>5, <1>6 DEF KeysInv

LEMMA AsksStep ==
  ASSUME Keys!KeysTabAssumption, KeysInv,
         Keys!handleCreate \/ Keys!handleSaveNote \/ Keys!ConfirmDelete
  PROVE  KeysInv'
<1>0. /\ past \in KeysHistory /\ creating \in [open : BOOLEAN, name : Keys!Note]
      /\ editing \in [id : 0 .. MaxKey, name : Keys!Note] /\ dropping.id \in 0 .. MaxKey
      /\ 0 \in 0 .. MaxKey /\ None \in Keys!Note
  BY DEF KeysInv, KeysType, Keys!TypeOK, Keys!Note, Keys!KeysTabAssumption
<1>1. \A op : [past EXCEPT !.twice = @ \/ Keys!isPending(op)] \in KeysHistory
              /\ [past EXCEPT !.twice = @ \/ Keys!isPending(op)].twice =
                   (past.twice \/ Keys!isPending(op))
  <2>1. SUFFICES ASSUME NEW op, NEW b \in BOOLEAN, b = (past.twice \/ Keys!isPending(op))
                 PROVE  [past EXCEPT !.twice = b] \in KeysHistory
                          /\ [past EXCEPT !.twice = b].twice = b
    OBVIOUS
  <2> QED BY <1>0, HistoryFields DEF KeysHistory
<1>2. CASE Keys!handleCreate
  <2>1. /\ creating.open /\ Keys!Ask("create", 0, creating.name)
        /\ past' = [past EXCEPT !.twice = @ \/ Keys!isPending("create")]
        /\ UNCHANGED <<table, seen, query, creating, box, editing, dropping>>
    BY <1>2 DEF Keys!handleCreate
  <2>2. creating = [open |-> TRUE, name |-> creating.name] /\ creating.name \in Keys!Note
    BY <1>0, <2>1
  <2>3. /\ past'.typedFor = past.typedFor /\ past'.behind = past.behind
        /\ past'.unseen = past.unseen /\ past'.wiped = past.wiped /\ past'.wentOn = past.wentOn
    BY <1>0, <2>1 DEF KeysHistory
  <2> QED BY <1>0, <1>1, <2>1, <2>2, <2>3, KeysAskStep
<1>3. CASE Keys!handleSaveNote
  <2>1. /\ editing.id # 0 /\ Keys!Ask("rename", editing.id, editing.name)
        /\ past' = [past EXCEPT !.twice = @ \/ Keys!isPending("rename")]
        /\ UNCHANGED <<table, seen, query, creating, box, editing, dropping>>
    BY <1>3 DEF Keys!handleSaveNote
  <2>2. /\ editing = [id |-> editing.id, name |-> editing.name] /\ editing.name \in Keys!Note
        /\ editing.id \in 0 .. MaxKey
    BY <1>0
  <2>3. /\ past'.typedFor = past.typedFor /\ past'.behind = past.behind
        /\ past'.unseen = past.unseen /\ past'.wiped = past.wiped /\ past'.wentOn = past.wentOn
    BY <1>0, <2>1 DEF KeysHistory
  <2> QED BY <1>0, <1>1, <2>1, <2>2, <2>3, KeysAskStep
<1>4. CASE Keys!ConfirmDelete
  BY <1>0, <1>4, KeysAskStep DEF Keys!ConfirmDelete
<1> QED BY <1>2, <1>3, <1>4

-----------------------------------------------------------------------------
(* Requests and the query.                                                 *)

(* A request takes a step of the server or loses its answer: it stays what *)
(* it was, but for its state and the key that it made.                     *)
LEMMA ProgressStep ==
  ASSUME Keys!KeysTabAssumption, KeysInv, NEW s \in Keys!Slot, calls[s] # None,
         NEW r \in Keys!Request, calls' = [calls EXCEPT ![s] = r], table' \in Table,
         r.op = calls[s].op, r.name = calls[s].name, r.last = calls[s].last, r.box = calls[s].box,
         r.op # "create" => r.id = calls[s].id,
         calls[s].st = "asked" \/ past'.behind, r.st # "ok" => table' = table,
         UNCHANGED <<seen, query, creating, box, editing, dropping>>,
         past' \in KeysHistory, past'.typedFor = past.typedFor,
         past'.twice = past.twice, past'.wentOn = past.wentOn, past.behind => past'.behind,
         past'.unseen = past.unseen, past'.wiped = past.wiped
  PROVE  KeysInv'
<1>0. calls \in [Keys!Slot -> Keys!Request \union {None}] /\ None \notin Keys!Request
  BY DEF KeysInv, KeysType, Keys!TypeOK, Keys!KeysTabAssumption
<1>1. /\ calls' \in [Keys!Slot -> Keys!Request \union {None}] /\ calls'[s] = r /\ r # None
      /\ \A t \in Keys!Slot \ {s} : calls'[t] = calls[t]
  BY <1>0
<1>2. KeysType'
  BY <1>1 DEF KeysInv, KeysType, Keys!TypeOK, Table
<1>3. Fetched'
  <2>1. ASSUME ~past'.behind, Served' PROVE Served /\ table' = table /\ ~past.behind
    BY <1>1, <2>1 DEF Served
  <2> QED BY <2>1 DEF KeysInv, Fetched
<1>4. Typed'
  BY DEF KeysInv, Typed
<1>5. ASSUME Calm PROVE Calm'
  <2>1. Waits(s)'
    BY <1>1, <1>5 DEF Calm, Waits
  <2>2. ASSUME NEW t \in Keys!Slot, t # s, calls'[t] # None PROVE Waits(t)'
    BY <1>1, <1>5, <2>2 DEF Calm, Waits
  <2> QED BY <1>5, <2>1, <2>2 DEF Calm
<1> QED BY <1>2, <1>3, <1>4, <1>5 DEF KeysInv

LEMMA KeysServeStep ==
  ASSUME Keys!KeysTabAssumption, KeysInv, NEW s \in Keys!Slot, Keys!Serve(s) PROVE KeysInv'
<1>0. /\ calls[s] # None /\ calls[s] \in Keys!Request
      /\ calls[s].st = "asked" /\ table \in Table /\ past \in KeysHistory
      /\ UNCHANGED <<seen, query, creating, box, editing, dropping, past, moves>>
  BY DEF Keys!Serve, KeysInv, KeysType, Keys!TypeOK, Table
<1>1. ASSUME NEW k \in Keys!Id, calls[s].op = "create",
             table' = [table EXCEPT ![k] = calls[s].name],
             calls' = [calls EXCEPT ![s].st = "ok", ![s].id = k]
      PROVE  KeysInv'
  <2> DEFINE r == [calls[s] EXCEPT !.st = "ok", !.id = k]
  <2>1. r \in Keys!Request /\ r.op = "create" /\ r.name = calls[s].name /\ r.last = calls[s].last
        /\ r.box = calls[s].box /\ r.st = "ok"
    <3>1. k \in 0 .. MaxKey
      BY DEF Keys!Id, Keys!KeysTabAssumption
    <3> QED BY <1>0, <1>1, <3>1 DEF Keys!Request
  <2>2. calls' = [calls EXCEPT ![s] = r]
    BY <1>1
  <2>3. table' \in Table
    BY <1>0, <1>1 DEF Table, Keys!Request
  <2> HIDE DEF r
  <2> QED BY <1>0, <1>1, <2>1, <2>2, <2>3, ProgressStep
<1>2. ASSUME NEW v \in Keys!Note \union {"gone"}, table' = [table EXCEPT ![calls[s].id] = v],
             calls' = [calls EXCEPT ![s].st = "ok"]
      PROVE  KeysInv'
  <2> DEFINE r == [calls[s] EXCEPT !.st = "ok"]
  <2>1. r \in Keys!Request /\ r.op = calls[s].op /\ r.name = calls[s].name /\ r.last = calls[s].last
        /\ r.box = calls[s].box /\ r.st = "ok" /\ r.id = calls[s].id
    BY <1>0 DEF Keys!Request
  <2>2. calls' = [calls EXCEPT ![s] = r]
    BY <1>2
  <2>3. table' \in Table
    BY <1>0, <1>2 DEF Table
  <2> HIDE DEF r
  <2> QED BY <1>0, <2>1, <2>2, <2>3, ProgressStep
<1>3. ASSUME calls' = [calls EXCEPT ![s].st = "error"], UNCHANGED table PROVE KeysInv'
  <2> DEFINE r == [calls[s] EXCEPT !.st = "error"]
  <2>1. r \in Keys!Request /\ r.op = calls[s].op /\ r.name = calls[s].name /\ r.last = calls[s].last
        /\ r.box = calls[s].box /\ r.id = calls[s].id
    BY <1>0 DEF Keys!Request
  <2>2. calls' = [calls EXCEPT ![s] = r]
    BY <1>3
  <2> HIDE DEF r
  <2> QED BY <1>0, <1>3, <2>1, <2>2, ProgressStep
<1>4. \/ /\ calls[s].op = "create"
         /\ \E k \in Keys!Id : /\ table' = [table EXCEPT ![k] = calls[s].name]
                               /\ calls' = [calls EXCEPT ![s].st = "ok", ![s].id = k]
      \/ /\ table' = [table EXCEPT ![calls[s].id] =
                         IF calls[s].op = "rename" THEN calls[s].name ELSE "gone"]
         /\ calls' = [calls EXCEPT ![s].st = "ok"]
      \/ calls' = [calls EXCEPT ![s].st = "error"] /\ UNCHANGED table
  BY DEF Keys!Serve
<1>5. (IF calls[s].op = "rename" THEN calls[s].name ELSE "gone") \in Keys!Note \union {"gone"}
  BY <1>0 DEF Keys!Request
<1> QED BY <1>1, <1>2, <1>3, <1>4, <1>5

LEMMA KeysLoseStep ==
  ASSUME Keys!KeysTabAssumption, KeysInv, NEW s \in Keys!Slot, Keys!Lose(s) PROVE KeysInv'
<1>0. /\ calls[s] # None /\ calls[s] \in Keys!Request /\ table \in Table /\ past \in KeysHistory
      /\ calls' = [calls EXCEPT ![s].st = "error"] /\ past' = [past EXCEPT !.behind = TRUE]
      /\ UNCHANGED <<table, seen, query, creating, box, editing, dropping>>
  BY DEF Keys!Lose, KeysInv, KeysType, Keys!TypeOK, Table
<1> DEFINE r == [calls[s] EXCEPT !.st = "error"]
<1>1. r \in Keys!Request /\ r.op = calls[s].op /\ r.name = calls[s].name /\ r.last = calls[s].last
      /\ r.box = calls[s].box /\ r.id = calls[s].id
  BY <1>0 DEF Keys!Request
<1>2. calls' = [calls EXCEPT ![s] = r]
  BY <1>0
<1>3. /\ past' \in KeysHistory /\ past'.typedFor = past.typedFor /\ past'.behind
      /\ past'.twice = past.twice /\ past'.wentOn = past.wentOn
      /\ past'.unseen = past.unseen /\ past'.wiped = past.wiped
  BY <1>0, HistoryFields DEF KeysHistory
<1> HIDE DEF r
<1> QED BY <1>0, <1>1, <1>2, <1>3, ProgressStep

(* The request is over and what is left still waits.                       *)
LEMMA Over ==
  ASSUME Keys!KeysTabAssumption, KeysInv, NEW s \in Keys!Slot, calls' = [calls EXCEPT ![s] = None]
  PROVE  /\ calls' \in [Keys!Slot -> Keys!Request \union {None}] /\ calls'[s] = None
         /\ \A t \in Keys!Slot \ {s} : calls'[t] = calls[t]
BY DEF KeysInv, KeysType, Keys!TypeOK

LEMMA KeysFailedStep ==
  ASSUME Keys!KeysTabAssumption, KeysInv, NEW s \in Keys!Slot, Keys!Failed(s) PROVE KeysInv'
<1>0. /\ calls[s].st = "error" /\ calls' = [calls EXCEPT ![s] = None]
      /\ UNCHANGED <<table, seen, query, creating, box, editing, dropping, past>>
  BY DEF Keys!Failed
<1>1. /\ calls' \in [Keys!Slot -> Keys!Request \union {None}] /\ calls'[s] = None
      /\ \A t \in Keys!Slot \ {s} : calls'[t] = calls[t]
  BY <1>0, Over
<1>2. KeysType'
  BY <1>0, <1>1 DEF KeysInv, KeysType, Keys!TypeOK
<1>3. Fetched'
  <2>1. Served' => Served
    BY <1>0, <1>1 DEF Served
  <2> QED BY <1>0, <2>1 DEF KeysInv, Fetched
<1>4. ASSUME Calm PROVE Calm'
  <2>1. ASSUME NEW t \in Keys!Slot, calls'[t] # None PROVE Waits(t)'
    <3>1. calls'[t] = calls[t] /\ Waits(t)
      BY <1>1, <1>4, <2>1 DEF Calm
    <3> QED BY <1>0, <1>1, <3>1 DEF Waits
  <2> QED BY <1>0, <1>4, <2>1 DEF Calm
<1> QED BY <1>0, <1>2, <1>3, <1>4 DEF KeysInv, Typed

(* A request that was done: the query is asked again, and what the user    *)
(* has open was opened for this request.                                   *)
LEMMA KeysAnsweredStep ==
  ASSUME Keys!KeysTabAssumption, KeysInv, NEW s \in Keys!Slot, NEW op, Keys!Succeeds(s, op),
         query' = Keys!Invalidated, UNCHANGED <<table, seen>>, Keys!TypeOK', Typed',
         past' \in KeysHistory, past'.typedFor = past.typedFor,
         past'.twice = past.twice, past'.wentOn = past.wentOn, past'.behind = past.behind,
         Calm /\ Waits(s) => ~past'.unseen /\ ~past'.wiped,
         op # "create" => UNCHANGED <<creating, box>>,
         op # "rename" => UNCHANGED editing,
         op # "delete" => UNCHANGED dropping
  PROVE  KeysInv'
<1>0. calls[s] # None /\ calls[s].op = op /\ calls' = [calls EXCEPT ![s] = None]
  BY DEF Keys!Succeeds
<1>1. /\ calls'[s] = None /\ \A t \in Keys!Slot \ {s} : calls'[t] = calls[t]
  BY <1>0, Over
<1>2. KeysType'
  BY DEF KeysInv, KeysType, Keys!Invalidated
<1>3. Fetched'
  BY DEF Fetched, Keys!Invalidated
<1>4. ASSUME Calm PROVE Calm'
  <2>0. Waits(s)
    BY <1>0, <1>4 DEF Calm
  <2>1. ASSUME NEW t \in Keys!Slot, calls'[t] # None PROVE Waits(t)'
    <3>1. calls'[t] = calls[t] /\ Waits(t) /\ t # s
      BY <1>1, <1>4, <2>1 DEF Calm
    <3>2. calls[t].op # op
      BY <1>0, <1>1, <2>0, <2>1, <3>1 DEF Waits
    <3> QED BY <1>1, <2>1, <3>1, <3>2 DEF Waits
  <2> QED BY <1>4, <2>0, <2>1 DEF Calm
<1> QED BY <1>2, <1>3, <1>4 DEF KeysInv

LEMMA AnswersStep ==
  ASSUME Keys!KeysTabAssumption, KeysInv, NEW s \in Keys!Slot,
         Keys!Created(s) \/ Keys!Renamed(s) \/ Keys!Deleted(s)
  PROVE  KeysInv'
<1>0. /\ past \in KeysHistory /\ calls \in [Keys!Slot -> Keys!Request \union {None}]
      /\ None \notin Keys!Request /\ 0 \in 0 .. MaxKey /\ None \in Keys!Note
  BY DEF KeysInv, KeysType, Keys!TypeOK, Keys!KeysTabAssumption, Keys!Note
<1>1. CASE Keys!Created(s)
  <2>1. /\ Keys!Succeeds(s, "create") /\ query' = Keys!Invalidated /\ UNCHANGED <<table, seen,
                                                                                  editing,
                                                                                  dropping>>
        /\ box' = calls[s].id /\ creating' = [open |-> FALSE, name |-> None]
        /\ past' = [past EXCEPT
             !.unseen = @ \/ box \notin {0, calls[s].box},
             !.wiped = @ \/ (creating.open /\ creating.name # calls[s].name)]
    BY <1>1 DEF Keys!Created
  <2>2. calls[s] \in Keys!Request /\ calls' \in [Keys!Slot -> Keys!Request \union {None}]
    BY <1>0, <2>1, Over DEF Keys!Succeeds
  <2>3. Keys!TypeOK' /\ past'.typedFor = past.typedFor
    BY <1>0, <2>1, <2>2 DEF KeysInv, KeysType, Keys!TypeOK, Keys!Request, KeysHistory
  <2>4. /\ past' \in KeysHistory
        /\ past'.twice = past.twice /\ past'.wentOn = past.wentOn /\ past'.behind = past.behind
        /\ past'.unseen = (past.unseen \/ box \notin {0, calls[s].box})
        /\ past'.wiped = (past.wiped \/ (creating.open /\ creating.name # calls[s].name))
    BY <1>0, <2>1 DEF KeysHistory
  <2>5. Calm /\ Waits(s) => ~past'.unseen /\ ~past'.wiped
    <3>1. calls[s] # None /\ calls[s].op = "create"
      BY <2>1 DEF Keys!Succeeds
    <3>2. ASSUME Calm, Waits(s)
          PROVE  /\ creating = [open |-> TRUE, name |-> calls[s].name]
                 /\ box \in {0, calls[s].box} /\ ~past.unseen /\ ~past.wiped
      BY <3>1, <3>2 DEF Calm, Waits
    <3>3. ASSUME Calm, Waits(s) PROVE creating.name = calls[s].name
      BY <3>2, <3>3
    <3> QED BY <2>4, <3>2, <3>3
  <2>6. Typed'
    BY <2>1, <2>3 DEF KeysInv, Typed
  <2> QED BY <2>1, <2>3, <2>4, <2>5, <2>6, KeysAnsweredStep
<1>2. CASE Keys!Renamed(s)
  <2>1. /\ Keys!Succeeds(s, "rename") /\ query' = Keys!Invalidated
        /\ UNCHANGED <<table, seen, creating, box, dropping>> /\ editing' = Keys!Closed
        /\ past' = [past EXCEPT
             !.wiped = @ \/ editing \notin {Keys!Closed, [id |-> calls[s].id, name |-> calls[s].name]}]
    BY <1>2 DEF Keys!Renamed
  <2>2. calls' \in [Keys!Slot -> Keys!Request \union {None}]
    BY <1>0, <2>1, Over DEF Keys!Succeeds
  <2>3. Keys!TypeOK' /\ past'.typedFor = past.typedFor
    BY <1>0, <2>1, <2>2 DEF KeysInv, KeysType, Keys!TypeOK, Keys!Closed, KeysHistory
  <2>4. /\ past' \in KeysHistory
        /\ past'.twice = past.twice /\ past'.wentOn = past.wentOn /\ past'.behind = past.behind
        /\ past'.unseen = past.unseen
        /\ past'.wiped = (past.wiped \/ editing \notin {Keys!Closed, [id |-> calls[s].id, name |-> calls[s].name]})
    BY <1>0, <2>1 DEF KeysHistory
  <2>5. Calm /\ Waits(s) => ~past'.unseen /\ ~past'.wiped
    <3>1. calls[s] # None /\ calls[s].op = "rename"
      BY <2>1 DEF Keys!Succeeds
    <3> QED BY <2>4, <3>1 DEF Calm, Waits
  <2>6. Typed'
    BY <2>1, <2>3 DEF KeysInv, Typed
  <2> QED BY <2>1, <2>3, <2>4, <2>5, <2>6, KeysAnsweredStep
<1>3. CASE Keys!Deleted(s)
  <2>1. /\ Keys!Succeeds(s, "delete") /\ query' = Keys!Invalidated
        /\ UNCHANGED <<table, seen, creating, box, editing>>
        /\ dropping' = [id |-> 0, name |-> None, text |-> None]
        /\ past' = [past EXCEPT !.wiped = @ \/ dropping.id \notin {0, calls[s].id}]
    BY <1>3 DEF Keys!Deleted
  <2>2. calls' \in [Keys!Slot -> Keys!Request \union {None}]
    BY <1>0, <2>1, Over DEF Keys!Succeeds
  <2>3. Keys!TypeOK' /\ past'.typedFor = past.typedFor
    BY <1>0, <2>1, <2>2 DEF KeysInv, KeysType, Keys!TypeOK, KeysHistory
  <2>4. /\ past' \in KeysHistory
        /\ past'.twice = past.twice /\ past'.wentOn = past.wentOn /\ past'.behind = past.behind
        /\ past'.unseen = past.unseen
        /\ past'.wiped = (past.wiped \/ dropping.id \notin {0, calls[s].id})
    BY <1>0, <2>1 DEF KeysHistory
  <2>5. Calm /\ Waits(s) => ~past'.unseen /\ ~past'.wiped
    <3>1. calls[s] # None /\ calls[s].op = "delete"
      BY <2>1 DEF Keys!Succeeds
    <3> QED BY <2>4, <3>1 DEF Calm, Waits
  <2>6. Typed'
    BY <2>1 DEF Typed
  <2> QED BY <2>1, <2>3, <2>4, <2>5, <2>6, KeysAnsweredStep
<1> QED BY <1>1, <1>2, <1>3

LEMMA RefetchStep == ASSUME Keys!KeysTabAssumption, KeysInv, Keys!Refetch PROVE KeysInv'
<1>0. UNCHANGED <<table, creating, box, editing, dropping, calls, past, moves>>
  BY DEF Keys!Refetch
<1>1. /\ KeysType' /\ Fetched'
  <2>1. table \in Table
    BY DEF KeysInv, KeysType, Keys!TypeOK, Table
  <2>2. \/ query' = [st |-> "asked", rows |-> None] /\ UNCHANGED seen
        \/ query' = [st |-> "read", rows |-> table] /\ UNCHANGED seen
        \/ query.st = "read" /\ seen' = query.rows /\ query' = [st |-> "idle", rows |-> None]
    BY DEF Keys!Refetch, Keys!Invalidated
  <2> QED BY <1>0, <2>1, <2>2 DEF KeysInv, KeysType, Keys!TypeOK, Table, Fetched, Served
<1> QED BY <1>0, <1>1 DEF KeysInv, Typed, Calm, Waits

LEMMA KeysElsewhereStep == ASSUME Keys!KeysTabAssumption, KeysInv, Keys!Elsewhere PROVE KeysInv'
<1>1. PICK k \in Keys!Rows(table) : table' = [table EXCEPT ![k] = "gone"]
  BY DEF Keys!Elsewhere
<1>2. /\ past' = [past EXCEPT !.behind = TRUE] /\ past \in KeysHistory
      /\ UNCHANGED <<seen, query, creating, box, editing, dropping, calls>>
  BY DEF Keys!Elsewhere, KeysInv, KeysType
<1>3. /\ past' \in KeysHistory /\ past'.behind /\ past'.typedFor = past.typedFor
      /\ past'.twice = past.twice /\ past'.wentOn = past.wentOn
      /\ past'.unseen = past.unseen /\ past'.wiped = past.wiped
  BY <1>2, HistoryFields DEF KeysHistory
<1>4. table' \in Table
  BY <1>1 DEF KeysInv, KeysType, Keys!TypeOK, Table
<1>5. KeysType' /\ Fetched' /\ Typed'
  BY <1>2, <1>3, <1>4 DEF KeysInv, KeysType, Keys!TypeOK, Table, Fetched, Typed
<1>6. Calm => Calm'
  BY <1>2, <1>3 DEF Calm, Waits
<1> QED BY <1>3, <1>5, <1>6 DEF KeysInv

LEMMA NextKeys == ASSUME Keys!KeysTabAssumption, KeysInv, [Keys!Next]_(Keys!vars) PROVE KeysInv'
<1>1. CASE UNCHANGED Keys!vars
  BY <1>1 DEF Keys!vars, KeysInv, KeysType, Keys!TypeOK, Fetched, Served, Typed, Calm, Waits
<1> QED BY <1>1, CreateDialog, EditDialog, DeleteDialog, AsksStep, KeysServeStep, KeysLoseStep,
           KeysFailedStep,
           AnswersStep, RefetchStep, KeysElsewhereStep DEF Keys!Next

LEMMA KeysSay ==
  ASSUME KeysInv
  PROVE  Keys!TypeOK /\ Keys!AloneIsClean /\ Keys!ListIsCurrent
BY DEF KeysInv, KeysType, Keys!AloneIsClean, Calm, Keys!ListIsCurrent, Fetched, Served

(* The one step that asks for a deletion.                                  *)
LEMMA DeletesTyped ==
  ASSUME Keys!KeysTabAssumption, KeysInv, [Keys!Next]_(Keys!vars) PROVE Keys!DeleteIsTyped
<1> SUFFICES ASSUME NEW s \in Keys!Slot, calls[s] = None, calls'[s] # None, calls'[s].op = "delete"
             PROVE  calls'[s].id = past.typedFor
  BY DEF Keys!DeleteIsTyped
<1>0. /\ calls \in [Keys!Slot -> Keys!Request \union {None}] /\ None \notin Keys!Request
      /\ 0 \in 0 .. MaxKey /\ creating.name \in Keys!Note /\ editing.id \in 0 .. MaxKey
      /\ editing.name \in Keys!Note /\ dropping.id \in 0 .. MaxKey /\ None \in Keys!Note
  BY DEF KeysInv, KeysType, Keys!TypeOK, Keys!KeysTabAssumption, Keys!Note
<1>1. CASE Keys!handleCreate
  BY <1>0, <1>1, AskEffect DEF Keys!handleCreate, KeysInv
<1>2. CASE Keys!handleSaveNote
  BY <1>0, <1>2, AskEffect DEF Keys!handleSaveNote, KeysInv
<1>3. CASE Keys!ConfirmDelete
  <2>1. /\ dropping.id # 0 /\ Keys!Ask("delete", dropping.id, None)
        /\ dropping.text = IF dropping.name = None THEN Word ELSE dropping.name
    BY <1>3 DEF Keys!ConfirmDelete
  <2>2. dropping.text # None
    BY <2>1 DEF Keys!KeysTabAssumption
  <2>3. past.typedFor = dropping.id
    BY <2>1, <2>2 DEF KeysInv, Typed
  <2> QED BY <1>0, <2>1, <2>3, AskEffect DEF KeysInv
<1>4. ASSUME NEW q \in Keys!Slot,
             Keys!Serve(q) \/ Keys!Lose(q) \/ Keys!Failed(q) \/ Keys!Created(q)
               \/ Keys!Renamed(q) \/ Keys!Deleted(q)
      PROVE  FALSE
  <2>1. calls[q] # None
    BY <1>4 DEF Keys!Serve, Keys!Lose, Keys!Failed, Keys!Created, Keys!Renamed, Keys!Deleted,
                Keys!Succeeds
  <2>2. \A t \in Keys!Slot \ {q} : calls'[t] = calls[t]
    BY <1>0, <1>4 DEF Keys!Serve, Keys!Lose, Keys!Failed, Keys!Created, Keys!Renamed, Keys!Deleted,
                      Keys!Succeeds
  <2> QED BY <2>1, <2>2
<1>5. CASE UNCHANGED calls
  BY <1>5
<1> QED BY <1>1, <1>2, <1>3, <1>4, <1>5
        DEF Keys!Next, Keys!vars, Keys!OpenCreate, Keys!CancelCreate, Keys!TypeName,
            Keys!handleCloseNewKey, Keys!OpenEdit, Keys!TypeNote,
            Keys!CancelEdit, Keys!OpenDelete, Keys!TypeConfirm, Keys!CancelDelete, Keys!Refetch,
            Keys!Elsewhere

LEMMA KeysSteps ==
  ASSUME Keys!KeysTabAssumption, KeysInv, [Keys!Next]_(Keys!vars) PROVE Keys!TabSteps
<1>1. Keys!ListIsCurrent'
  BY NextKeys, KeysSay, PTL
<1> QED BY <1>1, DeletesTyped DEF Keys!TabSteps

-----------------------------------------------------------------------------
(* The ways between the lists.  What is open is of the page that is shown  *)
(* (LandInv), and every answer that is kept was given to its key           *)
(* (WaysCacheInv).                                                         *)

(* How many elements a set has, in the parts as here.                      *)
LEMMA SameSize ==
  ASSUME NEW S
  PROVE  Ways!Cardinality(S) = Cardinality(S) /\ Pages!Cardinality(S) = Cardinality(S)
<1>1. Ways!Cardinality(S) = Cardinality(S)
  BY DEF Ways!Cardinality, Cardinality
<1>2. Pages!Cardinality(S) = Cardinality(S)
  BY DEF Pages!Cardinality, Cardinality
<1> QED BY <1>1, <1>2

(* What a page may have open.                                              *)
OpenOn(p) == (IF p = "traces" THEN Ways!Trace ELSE IF p = "sessions" THEN Ways!Session ELSE {})
             \union {None}

(* What the rows of a list are.                                            *)
WaysListed(u) == IF u.page = "traces" THEN Ways!Trace ELSE IF u.page = "users" THEN Ways!User
  ELSE Ways!Session

UrlOK(u) == u \in Ways!Url /\ u.open \in OpenOn(u.page)

LandInv ==
  /\ arrived \in 1 .. Len(Traces) /\ UrlOK(where) /\ selected \in OpenOn(where.page)
  /\ behind \in Seq({u \in Ways!Url : UrlOK(u)}) /\ ahead \in Seq({u \in Ways!Url : UrlOK(u)})
  /\ Ways!LinksLand

(* Every answer that is kept was given to its key.                         *)
WaysCacheInv ==
  \A c \in answers : \E u \in Ways!Url : \E n \in 0 .. arrived :
    c.key = Ways!Key(u) /\ c.answer = Ways!Answer(u, n)

WaysInv == LandInv /\ WaysCacheInv

LEMMA RankedPlaces ==
  ASSUME NEW P, IsFiniteSet(P), P \subseteq Nat, NEW k \in 1 .. Cardinality(P)
  PROVE  \E p \in P : Cardinality({q \in P : q > p}) = k - 1
<1> DEFINE above(p) == {q \in P : q > p}
           rank == [p \in P |-> Cardinality(above(p))]
           T == 0 .. Cardinality(P) - 1
<1>1. Cardinality(P) \in Nat
  BY FS_CardinalityType
<1>2. ASSUME NEW p \in P
      PROVE  IsFiniteSet(above(p)) /\ Cardinality(above(p)) \in Nat
             /\ Cardinality(above(p)) < Cardinality(P)
  <2>1. above(p) \in SUBSET P /\ above(p) # P
    OBVIOUS
  <2>2. /\ IsFiniteSet(above(p)) /\ Cardinality(above(p)) <= Cardinality(P)
        /\ Cardinality(P) # Cardinality(above(p))
    BY <2>1, FS_Subset
  <2>3. Cardinality(above(p)) \in Nat
    BY <2>2, FS_CardinalityType
  <2> QED BY <1>1, <2>2, <2>3
<1>3. rank \in [P -> T]
  BY <1>1, <1>2
<1>4. ASSUME NEW p \in P, NEW q \in P, p < q PROVE rank[q] < rank[p]
  <2>0. p \in Nat /\ q \in Nat /\ \A r \in P : r \in Nat
    OBVIOUS
  <2>5. \A r \in P : r > q => r > p
    BY <2>0, <1>4
  <2>6. q \in above(p) /\ q \notin above(q)
    BY <2>0, <1>4
  <2>1. above(q) \in SUBSET above(p) /\ above(p) # above(q)
    BY <2>5, <2>6
  <2>2. IsFiniteSet(above(p)) /\ IsFiniteSet(above(q))
    BY <1>2
  <2>3. Cardinality(above(q)) <= Cardinality(above(p))
          /\ Cardinality(above(p)) # Cardinality(above(q))
    BY <2>1, <2>2, FS_Subset
  <2>4. Cardinality(above(p)) \in Nat /\ Cardinality(above(q)) \in Nat
    BY <1>2
  <2> HIDE DEF above
  <2> QED BY <2>3, <2>4
<1>5. \A p, q \in P : rank[p] = rank[q] => p = q
  <2>1. SUFFICES ASSUME NEW p \in P, NEW q \in P, p # q PROVE rank[p] # rank[q]
    OBVIOUS
  <2>2. p \in Nat /\ q \in Nat
    OBVIOUS
  <2>3. rank[p] \in Nat /\ rank[q] \in Nat
    BY <1>2
  <2>4. p < q \/ q < p
    BY <2>1, <2>2
  <2> HIDE DEF rank
  <2> QED BY <2>3, <2>4, <1>4
<1>6. rank \in Injection(P, T)
  BY <1>3, <1>5 DEF Injection, IsInjective
<1>7. IsFiniteSet(T) /\ Cardinality(T) = Cardinality(P)
  <2> DEFINE b == Cardinality(P) - 1
  <2>1. b \in Int /\ 0 \in Int /\ IF 0 > b THEN 0 = Cardinality(P) ELSE b - 0 + 1 = Cardinality(P)
    BY <1>1
  <2> HIDE DEF b
  <2>2. IsFiniteSet(0 .. b) /\ Cardinality(0 .. b) = IF 0 > b THEN 0 ELSE b - 0 + 1
    BY <2>1, FS_Interval
  <2>3. IsFiniteSet(0 .. b) /\ Cardinality(0 .. b) = Cardinality(P)
    BY <2>1, <2>2
  <2> QED BY <2>3 DEF b
<1>8. rank \in Surjection(P, T)
  BY <1>6, <1>7, FS_Injection
<1>9. k - 1 \in T
  BY <1>1
<1>10. \E p \in P : rank[p] = k - 1
  BY <1>8, <1>9 DEF Surjection
<1> QED BY <1>10

LEMMA LatestType ==
  ASSUME NEW n \in Nat, NEW P \in SUBSET (1 .. n), NEW f, NEW S,
         \A p \in P : f[Traces[p]] \in S
  PROVE  Ways!Latest(f, P) \in Seq(S)
<1>1. n \in Nat /\ P \subseteq Nat
  OBVIOUS
<1>2. IsFiniteSet(P)
  <2>1. 1 \in Int /\ n \in Int
    OBVIOUS
  <2>2. IsFiniteSet(1 .. n)
    BY <2>1, FS_Interval
  <2> QED BY <2>2, FS_Subset
<1>3. Cardinality(P) \in Nat
  BY <1>2, FS_CardinalityType
<1> DEFINE ranked(k) == CHOOSE p \in P : Ways!Cardinality({q \in P : q > p}) = k - 1
<1>4. ASSUME NEW k \in 1 .. Cardinality(P) PROVE ranked(k) \in P
  <2>1. PICK p \in P : Cardinality({q \in P : q > p}) = k - 1
    BY <1>1, <1>2, RankedPlaces
  <2>2. Ways!Cardinality({q \in P : q > p}) = k - 1
    BY <2>1, SameSize
  <2> QED BY <2>2
<1>5. \A k \in 1 .. Cardinality(P) : f[Traces[ranked(k)]] \in S
  BY <1>4
<1>6. Ways!Latest(f, P) = [k \in 1 .. Cardinality(P) |-> f[Traces[ranked(k)]]]
  <2>1. Ways!Latest(f, P) = [k \in 1 .. Ways!Cardinality(P) |-> f[Traces[ranked(k)]]]
    BY DEF Ways!Latest
  <2> HIDE DEF ranked
  <2> QED BY <2>1, SameSize
<1> HIDE DEF ranked
<1>7. Ways!Latest(f, P) \in [1 .. Cardinality(P) -> S]
  BY <1>5, <1>6
<1> HIDE DEF Ways!Latest
<1>8. \A m \in Nat : \A g \in [1 .. m -> S] : g \in Seq(S)
  OBVIOUS
<1> QED BY <1>3, <1>7, <1>8

(* An answer is rows of what the page lists.                               *)
LEMMA AnswerType ==
  ASSUME Ways!ListPagesAssumption, NEW u \in Ways!Url, NEW n \in 0 .. Len(Traces)
  PROVE  Ways!Answer(u, n).rows \in Seq(WaysListed(u)) /\ Ways!Answer(u, n).total \in Nat
<1>1. Len(Traces) \in Nat /\ DOMAIN Traces = 1 .. Len(Traces) /\ PageRows \in Nat /\ n \in Nat
      /\ u.index \in Nat /\ u.page \in Ways!Page
  BY DEF Ways!ListPagesAssumption, Ways!Url
<1>2. \A p \in 1 .. n : Traces[p] \in Ways!Trace
  BY <1>1 DEF Ways!Trace, Ways!ToSet
<1>3. Ways!All(u, n) \in Seq(WaysListed(u))
  <2>1. CASE u.page = "traces"
    <3> DEFINE P == Ways!OfUser(u.user, n)
               f == [t \in Ways!Trace |-> t]
    <3>1. P \in SUBSET (1 .. n)
      BY DEF Ways!OfUser
    <3>2. \A p \in P : f[Traces[p]] \in Ways!Trace
      BY <1>2, <3>1
    <3> HIDE DEF P, f
    <3>3. Ways!Latest(f, P) \in Seq(Ways!Trace)
      BY <1>1, <3>1, <3>2, LatestType
    <3> QED BY <2>1, <3>3 DEF Ways!All, WaysListed, P, f
  <2>2. CASE u.page = "users"
    <3> DEFINE P == Ways!LastOf(UserOf, n)
    <3>1. P \in SUBSET (1 .. n) /\ \A p \in P : UserOf[Traces[p]] # None
      BY DEF Ways!LastOf
    <3>2. \A p \in P : UserOf[Traces[p]] \in Ways!User
      BY <1>2, <3>1 DEF Ways!User
    <3> HIDE DEF P
    <3>3. Ways!Latest(UserOf, P) \in Seq(Ways!User)
      BY <1>1, <3>1, <3>2, LatestType
    <3> QED BY <2>2, <3>3 DEF Ways!All, WaysListed, P
  <2>3. CASE u.page = "sessions"
    <3> DEFINE P == Ways!LastOf(SessionOf, n)
    <3>1. P \in SUBSET (1 .. n) /\ \A p \in P : SessionOf[Traces[p]] # None
      BY DEF Ways!LastOf
    <3>2. \A p \in P : SessionOf[Traces[p]] \in Ways!Session
      BY <1>2, <3>1 DEF Ways!Session
    <3> HIDE DEF P
    <3>3. Ways!Latest(SessionOf, P) \in Seq(Ways!Session)
      BY <1>1, <3>1, <3>2, LatestType
    <3> QED BY <2>3, <3>3 DEF Ways!All, WaysListed, P
  <2> QED BY <1>1, <2>1, <2>2, <2>3 DEF Ways!Page
<1> DEFINE all == Ways!All(u, n)
           from == u.index * PageRows
           upto == IF from + PageRows < Len(all) THEN from + PageRows ELSE Len(all)
<1>4. Len(all) \in Nat /\ all \in Seq(WaysListed(u))
  BY <1>3
<1>5. from \in Nat
  BY <1>1
<1>6. Ways!Answer(u, n) = [rows |-> SubSeq(all, from + 1, upto), total |-> Len(all)]
  BY DEF Ways!Answer
<1> HIDE DEF all, from
<1>8. upto \in Nat /\ upto <= Len(all)
  BY <1>1, <1>4, <1>5
<1> HIDE DEF upto
<1>9. SubSeq(all, from + 1, upto) \in Seq(WaysListed(u))
  <2>1. \A i \in from + 1 .. upto : i \in 1 .. Len(all)
    BY <1>4, <1>5, <1>8
  <2>2. \A i \in from + 1 .. upto : all[i] \in WaysListed(u)
    BY <2>1, <1>4
  <2> QED BY <1>4, <1>5, <1>8, <2>2
<1> QED BY <1>4, <1>6, <1>9

(* What is asked is all in the key.                                        *)
LEMMA KeySays ==
  ASSUME NEW u \in Ways!Url, NEW v \in Ways!Url, NEW n, Ways!Key(u) = Ways!Key(v)
  PROVE  Ways!Answer(u, n) = Ways!Answer(v, n)
<1>1. u.page = v.page /\ u.index = v.index /\ (u.page = "traces" => u.user = v.user)
  BY DEF Ways!Key
<1>2. Ways!All(u, n) = Ways!All(v, n)
  BY <1>1 DEF Ways!All, Ways!Url, Ways!Page
<1> QED BY <1>1, <1>2 DEF Ways!Answer

(* The rows on the screen, if the page has an answer.                      *)
LEMMA RowsOfAnswer ==
  ASSUME Ways!ListPagesAssumption, WaysInv
  PROVE  /\ Ways!Cached # {} => \E n \in 0 .. arrived : Ways!Data = Ways!Answer(where, n)
         /\ Ways!Rows \in Seq(WaysListed(where))
<1>0. where \in Ways!Url /\ arrived \in 1 .. Len(Traces) /\ Len(Traces) \in Nat
  BY DEF WaysInv, LandInv, UrlOK, Ways!ListPagesAssumption
<1>1. CASE Ways!Cached = {}
  <2>1. Ways!Rows = <<>>
    BY <1>1 DEF Ways!Rows, Ways!Data
  <2> QED BY <1>1, <2>1
<1>2. CASE Ways!Cached # {}
  <2>1. PICK c \in Ways!Cached : Ways!Data = c.answer
    BY <1>2 DEF Ways!Data
  <2>2. c \in answers /\ c.key = Ways!Key(where)
    BY DEF Ways!Cached
  <2>3. PICK u \in Ways!Url : \E n \in 0 .. arrived :
          c.key = Ways!Key(u) /\ c.answer = Ways!Answer(u, n)
    BY <2>2 DEF WaysInv, WaysCacheInv
  <2>4. PICK n \in 0 .. arrived : c.key = Ways!Key(u) /\ c.answer = Ways!Answer(u, n)
    BY <2>3
  <2>5. Ways!Data = Ways!Answer(where, n)
    BY <1>0, <2>1, <2>2, <2>4, KeySays
  <2>6. n \in 0 .. Len(Traces)
    BY <1>0
  <2>7. Ways!Answer(where, n).rows \in Seq(WaysListed(where))
    BY <1>0, <2>6, AnswerType
  <2> QED BY <2>4, <2>5, <2>7 DEF Ways!Rows
<1> QED BY <1>1, <1>2

LEMMA RowsType ==
  ASSUME Ways!ListPagesAssumption, WaysInv
  PROVE  /\ DOMAIN Ways!Rows = 1 .. Len(Ways!Rows) /\ Len(Ways!Rows) \in Nat
         /\ \A i \in DOMAIN Ways!Rows : Ways!Rows[i] \in WaysListed(where)
<1>1. Ways!Rows \in Seq(WaysListed(where))
  BY RowsOfAnswer
<1> HIDE DEF Ways!Rows
<1> QED BY <1>1

LEMMA WaysSay == ASSUME Ways!ListPagesAssumption, WaysInv PROVE Ways!TypeOK /\ Ways!ListIsFollowed
<1>1. Ways!RowsAnswer
  BY RowsOfAnswer DEF Ways!RowsAnswer
<1>2. Ways!LinksLand
  BY DEF WaysInv, LandInv
<1>3. Ways!TypeOK
  <2>1. None \notin Ways!Trace \union Ways!Session /\ Ways!Trace \intersect Ways!Session = {}
    BY DEF Ways!ListPagesAssumption, Ways!Session
  <2>2. Len(Traces) \in Nat /\ arrived \in 1 .. Len(Traces) /\ where \in Ways!Url
          /\ where.page \in Ways!Page
        /\ selected \in OpenOn(where.page)
    BY DEF WaysInv, LandInv, UrlOK, Ways!Url, Ways!ListPagesAssumption
  <2>3. arrived \in 0 .. Len(Traces)
    BY <2>2
  <2> QED BY <2>1, <2>2, <2>3 DEF Ways!TypeOK, OpenOn, Ways!Page
<1> QED BY <1>1, <1>2, <1>3 DEF Ways!ListIsFollowed

LEMMA InitWays == ASSUME Ways!ListPagesAssumption, Ways!Init PROVE WaysInv
<1>1. Len(Traces) \in Nat /\ Len(Traces) # 0
  BY DEF Ways!ListPagesAssumption
<1>2. arrived \in 1 .. Len(Traces)
  BY <1>1 DEF Ways!Init
<1>3. UrlOK(where) /\ selected \in OpenOn(where.page)
  BY DEF Ways!Init, UrlOK, Ways!Url, Ways!Page, OpenOn
<1> QED BY <1>2, <1>3 DEF Ways!Init, WaysInv, LandInv, WaysCacheInv, Ways!LinksLand

(* More traces, the same answers.                                          *)
LEMMA CacheStays ==
  ASSUME WaysInv, answers' = answers, arrived' = arrived PROVE WaysCacheInv'
BY DEF WaysInv, WaysCacheInv

LEMMA FetchStep == ASSUME Ways!ListPagesAssumption, WaysInv, Ways!Fetch PROVE WaysInv'
<1>1. LandInv'
  BY DEF WaysInv, LandInv, Ways!Fetch, Ways!LinksLand, UrlOK
<1>2. where \in Ways!Url /\ arrived \in 0 .. arrived
  BY DEF WaysInv, LandInv, UrlOK, Ways!ListPagesAssumption
<1>3. ASSUME NEW c \in answers'
      PROVE  \E u \in Ways!Url : \E n \in 0 .. arrived :
               c.key = Ways!Key(u) /\ c.answer = Ways!Answer(u, n)
  <2>1. CASE c \in answers
    BY <2>1 DEF WaysInv, WaysCacheInv
  <2>2. CASE c \notin answers
    <3>1. c = [key |-> Ways!Key(where), answer |-> Ways!Answer(where, arrived)]
      BY <2>2 DEF Ways!Fetch
    <3>2. c.key = Ways!Key(where) /\ c.answer = Ways!Answer(where, arrived)
      BY <3>1
    <3> QED BY <3>2, <1>2
  <2> QED BY <2>1, <2>2
<1>4. WaysCacheInv'
  BY <1>3 DEF WaysCacheInv, Ways!Fetch
<1> QED BY <1>1, <1>4 DEF WaysInv

LEMMA ArriveStep == ASSUME Ways!ListPagesAssumption, WaysInv, Ways!Arrive PROVE WaysInv'
<1>0. arrived \in Nat /\ arrived \in 1 .. Len(Traces) /\ Len(Traces) \in Nat
  BY DEF WaysInv, LandInv, Ways!ListPagesAssumption
<1>1. arrived' \in 1 .. Len(Traces) /\ \A n \in 0 .. arrived : n \in 0 .. arrived'
  BY <1>0 DEF Ways!Arrive
<1>2. LandInv'
  BY <1>1 DEF WaysInv, LandInv, Ways!Arrive, Ways!LinksLand, UrlOK
<1>3. WaysCacheInv'
  BY <1>1 DEF WaysInv, WaysCacheInv, Ways!Arrive
<1> QED BY <1>2, <1>3 DEF WaysInv

LEMMA PushStep ==
  ASSUME Ways!ListPagesAssumption, WaysInv, NEW p \in Ways!Page,
         NEW user \in Ways!User \union {None},
         NEW open \in OpenOn(p), NEW else \in OpenOn(where.page),
         p = where.page => else = open \/ user = None,
         Ways!Push(p, user, open, else)
  PROVE  WaysInv'
<1> DEFINE upto == [page |-> p, user |-> user, open |-> open, index |-> 0]
           OK == {u \in Ways!Url : UrlOK(u)}
<1>1. upto \in OK /\ upto.page = p /\ upto.open = open /\ upto.user = user
  BY DEF Ways!Url, UrlOK, OpenOn
<1>2. /\ where' = upto /\ selected' = (IF p # where.page THEN open ELSE else)
      /\ landed' = [to |-> upto, from |-> where.page]
      /\ arrived' = arrived /\ answers' = answers
      /\ \/ behind' = behind /\ ahead' = ahead
         \/ behind' = Append(behind, where) /\ ahead' = <<>>
  BY DEF Ways!Push, Ways!Mount
<1> HIDE DEF upto
<1>3. behind' \in Seq(OK) /\ ahead' \in Seq(OK)
  <2>1. behind \in Seq(OK) /\ ahead \in Seq(OK) /\ where \in OK
    BY DEF WaysInv, LandInv, UrlOK
  <2> HIDE DEF OK
  <2>2. Append(behind, where) \in Seq(OK) /\ <<>> \in Seq(OK)
    BY <2>1
  <2> QED BY <1>2, <2>1, <2>2
<1>4. selected' \in OpenOn(p)
  BY <1>2
<1>5. Ways!LinksLand'
  BY <1>1, <1>2 DEF Ways!LinksLand
<1>6. LandInv'
  BY <1>1, <1>2, <1>3, <1>4, <1>5 DEF WaysInv, LandInv, UrlOK
<1> QED BY <1>2, <1>6, CacheStays DEF WaysInv

(* The panel's links.                                                      *)
LEMMA OfferedType ==
  ASSUME Ways!ListPagesAssumption, WaysInv
  PROVE  /\ Ways!Offered(UserOf) \subseteq Ways!User
         /\ Ways!Offered(SessionOf) \subseteq Ways!Session
         /\ \A s : Ways!InSession(s) \subseteq Ways!Trace
<1>0. arrived \in 1 .. Len(Traces) /\ Len(Traces) \in Nat /\ Traces \in Seq(Ways!Trace)
  BY DEF WaysInv, LandInv, Ways!ListPagesAssumption
<1>1. ASSUME NEW s, NEW t \in Ways!InSession(s) PROVE t \in Ways!Trace
  <2>1. SubSeq(Traces, 1, arrived) \in Seq(Ways!Trace)
    BY <1>0
  <2>2. t \in Ways!ToSet(SubSeq(Traces, 1, arrived))
    BY DEF Ways!InSession
  <2> QED BY <2>1, <2>2 DEF Ways!ToSet
<1>2. UserOf \in [Ways!Trace -> Ways!User \union {None}]
        /\ SessionOf \in [Ways!Trace -> Ways!Session \union {None}]
  BY DEF Ways!ListPagesAssumption
<1>3. where.page = "traces" /\ selected # None => selected \in Ways!Trace
  BY DEF WaysInv, LandInv, OpenOn
<1> HIDE DEF Ways!InSession
<1> QED BY <1>1, <1>2, <1>3 DEF Ways!Offered

LEMMA WaysBackStep == ASSUME Ways!ListPagesAssumption, WaysInv, Ways!Back PROVE WaysInv'
<1> DEFINE OK == {u \in Ways!Url : UrlOK(u)}
<1>1. behind \in Seq(OK) /\ ahead \in Seq(OK) /\ where \in OK /\ behind # <<>>
  BY DEF WaysInv, LandInv, UrlOK, Ways!Back
<1>2. \A u \in OK : UrlOK(u) /\ u.open \in OpenOn(u.page)
  BY DEF UrlOK
<1> HIDE DEF OK
<1>3. Ways!Last(behind) \in OK /\ Ways!Front(behind) \in Seq(OK) /\ <<where>> \o ahead \in Seq(OK)
  <2>1. Len(behind) \in 1 .. Len(behind) /\ behind[Len(behind)] \in OK
    BY <1>1
  <2>2. Ways!Last(behind) \in OK
    BY <2>1 DEF Ways!Last
  <2>3. SubSeq(behind, 1, Len(behind) - 1) \in Seq(OK)
    BY <1>1
  <2>4. <<where>> \in Seq(OK)
    BY <1>1
  <2> QED BY <1>1, <2>2, <2>3, <2>4 DEF Ways!Front
<1>4. /\ where' = Ways!Last(behind) /\ behind' = Ways!Front(behind) /\ ahead' = <<where>> \o ahead
      /\ selected' = (IF Ways!Last(behind).page # where.page THEN Ways!Last(behind).open
                      ELSE selected)
      /\ landed' = None /\ arrived' = arrived /\ answers' = answers
  BY DEF Ways!Back, Ways!Mount
<1>5. UrlOK(where') /\ selected' \in OpenOn(where'.page)
  BY <1>2, <1>3, <1>4 DEF WaysInv, LandInv
<1>6. LandInv'
  BY <1>3, <1>4, <1>5 DEF WaysInv, LandInv, UrlOK, Ways!LinksLand, OK
<1> QED BY <1>4, <1>6, CacheStays DEF WaysInv

LEMMA ForwardStep == ASSUME Ways!ListPagesAssumption, WaysInv, Ways!Forward PROVE WaysInv'
<1> DEFINE OK == {u \in Ways!Url : UrlOK(u)}
<1>1. behind \in Seq(OK) /\ ahead \in Seq(OK) /\ where \in OK /\ ahead # <<>>
  BY DEF WaysInv, LandInv, UrlOK, Ways!Forward
<1>2. \A u \in OK : UrlOK(u) /\ u.open \in OpenOn(u.page)
  BY DEF UrlOK
<1> HIDE DEF OK
<1>3. Head(ahead) \in OK /\ Tail(ahead) \in Seq(OK) /\ Append(behind, where) \in Seq(OK)
  BY <1>1
<1>4. /\ where' = Head(ahead) /\ behind' = Append(behind, where) /\ ahead' = Tail(ahead)
      /\ selected' = (IF Head(ahead).page # where.page THEN Head(ahead).open ELSE selected)
      /\ landed' = None /\ arrived' = arrived /\ answers' = answers
  BY DEF Ways!Forward, Ways!Mount
<1>5. UrlOK(where') /\ selected' \in OpenOn(where'.page)
  BY <1>2, <1>3, <1>4 DEF WaysInv, LandInv
<1>6. LandInv'
  BY <1>3, <1>4, <1>5 DEF WaysInv, LandInv, UrlOK, Ways!LinksLand, OK
<1> QED BY <1>4, <1>6, CacheStays DEF WaysInv

LEMMA WaysReloadStep == ASSUME Ways!ListPagesAssumption, WaysInv, Ways!Reload PROVE WaysInv'
<1>1. LandInv'
  BY DEF WaysInv, LandInv, Ways!Reload, Ways!LinksLand, UrlOK
<1>2. WaysCacheInv'
  BY DEF WaysCacheInv, Ways!Reload
<1> QED BY <1>1, <1>2 DEF WaysInv

(* A page that stays.                                                      *)
LEMMA StayStep ==
  ASSUME Ways!ListPagesAssumption, WaysInv, Ways!Stay, UNCHANGED where,
         selected' \in OpenOn(where.page)
  PROVE  WaysInv'
<1>1. landed' = None /\ UNCHANGED <<arrived, answers, behind, ahead, where>>
  BY DEF Ways!Stay
<1>2. LandInv'
  BY <1>1 DEF WaysInv, LandInv, Ways!LinksLand, UrlOK
<1> QED BY <1>1, <1>2, CacheStays DEF WaysInv

LEMMA OpensARow ==
  ASSUME Ways!ListPagesAssumption, WaysInv, where.page # "users", NEW i \in DOMAIN Ways!Rows
  PROVE  Ways!Rows[i] \in OpenOn(where.page)
<1>1. Ways!Rows[i] \in WaysListed(where)
  BY RowsType
<1>2. where.page \in Ways!Page
  BY DEF WaysInv, LandInv, UrlOK, Ways!Url
<1> HIDE DEF Ways!Rows
<1> QED BY <1>1, <1>2 DEF WaysListed, OpenOn, Ways!Page

LEMMA SelectStep ==
  ASSUME Ways!ListPagesAssumption, WaysInv, where.page # "users", NEW i, Ways!Select(i)
  PROVE  WaysInv'
<1>1. i \in DOMAIN Ways!Rows /\ selected' = Ways!Rows[i] /\ UNCHANGED where /\ Ways!Stay
  BY DEF Ways!Select
<1>2. Ways!Rows[i] \in OpenOn(where.page)
  BY <1>1, OpensARow
<1> QED BY <1>1, <1>2, StayStep

LEMMA CloseStep == ASSUME Ways!ListPagesAssumption, WaysInv, Ways!onClose PROVE WaysInv'
<1>1. selected' = None /\ UNCHANGED where /\ Ways!Stay
  BY DEF Ways!onClose
<1> QED BY <1>1, StayStep DEF OpenOn

LEMMA NavigateStep ==
  ASSUME Ways!ListPagesAssumption, WaysInv, where.page # "users", Ways!onNavigate PROVE WaysInv'
<1>1. PICK i : selected' = Ways!Onto(i)
  BY DEF Ways!onNavigate
<1>2. UNCHANGED where /\ Ways!Stay
  BY DEF Ways!onNavigate
<1>3. Ways!Onto(i) \in OpenOn(where.page)
  BY OpensARow DEF Ways!Onto, OpenOn
<1> QED BY <1>1, <1>2, <1>3, StayStep

LEMMA GoToStep ==
  ASSUME Ways!ListPagesAssumption, WaysInv, NEW n \in Ways!Numbers, Ways!goToPage(n) PROVE WaysInv'
<1>0. Len(Traces) \in Nat
  BY DEF Ways!ListPagesAssumption
<1>1. where' = [where EXCEPT !.index = n] /\ landed' = None
      /\ UNCHANGED <<arrived, answers, behind, ahead, selected>> /\ n \in Nat
  BY <1>0 DEF Ways!goToPage, Ways!Stay, Ways!Numbers
<1>2. where \in Ways!Url /\ UrlOK(where)
  BY DEF WaysInv, LandInv, UrlOK
<1>3. UrlOK(where') /\ where'.page = where.page
  BY <1>1, <1>2 DEF UrlOK, Ways!Url
<1>4. LandInv'
  BY <1>1, <1>3 DEF WaysInv, LandInv, Ways!LinksLand, UrlOK
<1> QED BY <1>1, <1>4, CacheStays DEF WaysInv

LEMMA NextWays ==
  ASSUME Ways!ListPagesAssumption, WaysInv, [Ways!Next]_(Ways!vars) PROVE WaysInv'
<1>0. /\ selected \in OpenOn(where.page) /\ where.page \in Ways!Page
      /\ where.user \in Ways!User \union {None}
      /\ \A p : None \in OpenOn(p)
  BY DEF WaysInv, LandInv, UrlOK, Ways!Url, OpenOn
<1>1. ASSUME NEW p \in Ways!Page, Ways!Tab(p) PROVE WaysInv'
  BY <1>0, <1>1, PushStep DEF Ways!Tab
<1>2. CASE Ways!ClearUser
  BY <1>0, <1>2, PushStep DEF Ways!ClearUser, Ways!Page
<1>3. ASSUME where.page = "users", NEW i, Ways!handleUserClick(i) PROVE WaysInv'
  <2>1. i \in DOMAIN Ways!Rows /\ Ways!Push("traces", Ways!Rows[i], None, None)
    BY <1>3 DEF Ways!handleUserClick
  <2>2. Ways!Rows[i] \in Ways!User
    BY <1>3, <2>1, RowsType DEF WaysListed
  <2> HIDE DEF Ways!Rows
  <2> QED BY <1>0, <1>3, <2>1, <2>2, PushStep DEF Ways!Page
<1>4. CASE Ways!UserLink
  <2>1. PICK u \in Ways!Offered(UserOf) : Ways!Push("traces", u, None, None)
    BY <1>4 DEF Ways!UserLink
  <2>2. u \in Ways!User
    BY OfferedType
  <2> QED BY <1>0, <2>1, <2>2, PushStep DEF Ways!Page
<1>5. CASE Ways!SessionLink
  <2>1. PICK s \in Ways!Offered(SessionOf) : Ways!Push("sessions", None, s, None)
    BY <1>5 DEF Ways!SessionLink
  <2>2. s \in OpenOn("sessions") /\ where.page = "traces"
    BY <1>5, OfferedType DEF OpenOn, Ways!SessionLink
  <2> QED BY <1>0, <2>1, <2>2, PushStep DEF Ways!Page
<1>6. CASE Ways!TraceCard
  <2>1. PICK t \in Ways!InSession(selected) : Ways!Push("traces", None, t, selected)
    BY <1>6 DEF Ways!TraceCard
  <2>2. t \in OpenOn("traces")
    BY OfferedType DEF OpenOn
  <2> QED BY <1>0, <2>1, <2>2, PushStep DEF Ways!Page
<1>7. CASE Ways!TracesPage
  BY <1>2, <1>7, CloseStep, NavigateStep, SelectStep, GoToStep DEF Ways!TracesPage
<1>8. CASE Ways!UsersPage
  BY <1>3, <1>8, GoToStep DEF Ways!UsersPage
<1>9. CASE Ways!SessionsPage
  BY <1>9, CloseStep, NavigateStep, SelectStep, GoToStep DEF Ways!SessionsPage
<1>10. CASE UNCHANGED Ways!vars
  BY <1>10 DEF WaysInv, LandInv, WaysCacheInv, Ways!LinksLand, UrlOK, Ways!vars
<1> QED
  BY <1>1, <1>4, <1>5, <1>6, <1>7, <1>8, <1>9, <1>10,
     FetchStep, ArriveStep, WaysBackStep, ForwardStep, WaysReloadStep DEF Ways!Next

-----------------------------------------------------------------------------
(* The billing tab.  Nobody who pays is on the way to pay again but by a   *)
(* page that was late, who has a subscription has a plan, and what the tab *)
(* says of it is what Stripe has or will be asked again.                   *)

BillHistory == [behind : BOOLEAN, lagged : BOOLEAN, doubled : BOOLEAN]

(* A request of a page that is gone has not been served; away from the tab *)
(* there is no other, and nowhere to go yet.                               *)
Mounts ==
  /\ \A s \in Billing!Slot : requests[s] # None /\ requests[s].page = "gone" =>
       requests[s].st = "asked"
  /\ ~Billing!OnTab => /\ place.next = None
                       /\ \A s \in Billing!Slot : requests[s] # None => requests[s].page = "gone"

(* Nobody who pays is on the way to pay again, but by a page that was late.*)
PaysOnce ==
  ~since.lagged =>
    /\ ~since.doubled
    /\ bill.on => /\ place.at # "checkout" /\ place.next # "checkout"
                  /\ \A s \in Billing!Slot : requests[s] # None /\ requests[s].op = "checkout" =>
                               requests[s].page = "gone"

(* Who has a subscription has a plan, so that what is called an upgrade of *)
(* one is to the highest plan and what is called a downgrade is not.       *)
Paid ==
  /\ bill.on => bill.plan # Billing!Free
  /\ row.sub => row.plan # Billing!Free
  /\ known.sub => known.plan # Billing!Free
  /\ place.at = "checkout" \/ place.next = "checkout" => place.plan # Billing!Free
  /\ \A s \in Billing!Slot : requests[s] # None =>
       /\ requests[s].op = "checkout" => requests[s].plan # Billing!Free
       /\ requests[s].op = "change" /\ requests[s].label = "Upgrade" => requests[s].plan = 2
       /\ requests[s].label = "Downgrade" => requests[s].plan # 2

(* What Stripe would say, as long as no change is on its way to the page.  *)
Truth == IF bill.on THEN [cancel |-> bill.cancel, next |-> bill.next] ELSE Billing!NoNotice
Changed == \E s \in Billing!Slot :
  requests[s] # None /\ requests[s].op = "change" /\ requests[s].st = "ok"
Noticed ==
  /\ bill.on => (known.sub => row.sub) /\ (Billing!Asked \in asking => known.sub)
  /\ ~since.behind /\ ~bill.on =>
       info = Billing!NoNotice /\ \A a \in asking : a.st = "read" => a.info = Billing!NoNotice
  /\ ~since.behind /\ bill.on /\ Billing!OnTab /\ place.next = None /\ ~Changed =>
       /\ \A a \in asking : a.st = "read" => a.info = Truth
       /\ known.sub => asking # {} \/ info = Truth

BillType == Billing!TypeOK /\ since \in BillHistory
BillInv == BillType /\ Mounts /\ PaysOnce /\ Paid /\ Noticed

LEMMA BillTypes ==
  ASSUME Billing!BillingTabAssumption, BillInv
  PROVE  /\ bill \in [on : BOOLEAN, plan : Billing!Plan, cancel : BOOLEAN, next : {1, 2, None}]
         /\ row \in Billing!Known /\ known \in Billing!Known /\ info \in Billing!Notice
         /\ asking \subseteq [st : {"asked", "read"}, info : Billing!Notice]
         /\ requests \in [Billing!Slot -> Billing!Request \union {None}]
         /\ None \notin Billing!Request
         /\ place \in [at : {"tab", "checkout", "portal"}, plan : Billing!Plan,
                       next : {"tab", "checkout", "portal", None}]
         /\ since \in BillHistory
         /\ Billing!Billed \in Billing!Known /\ Billing!NoNotice \in Billing!Notice
         /\ Billing!Asked \in [st : {"asked", "read"}, info : Billing!Notice]
              /\ Billing!Asked.st = "asked"
         /\ None \notin Billing!Plan /\ None \notin {"tab", "checkout", "portal"}
         /\ Billing!Free \in Billing!Plan /\ Billing!Plan = {0, 1, 2}
BY DEF BillInv, BillType, Billing!TypeOK, Billing!Notice, Billing!Known, Billing!NoNotice,
       Billing!Asked, Billing!Billed, Billing!Plan, Billing!Free, Billing!BillingTabAssumption

LEMMA InitBill == ASSUME Billing!BillingTabAssumption, Billing!Init PROVE BillInv
<1>1. /\ bill.on => bill.plan = 2
      /\ bill \in [on : BOOLEAN, plan : Billing!Plan, cancel : BOOLEAN, next : {1, 2, None}]
      /\ bill.cancel = FALSE /\ bill.next = None
  <2>1. CASE bill = [on |-> FALSE, plan |-> Billing!Free, cancel |-> FALSE, next |-> None]
    BY <2>1 DEF Billing!Plan, Billing!Free
  <2>2. CASE bill = [on |-> TRUE, plan |-> 2, cancel |-> FALSE, next |-> None]
    BY <2>2 DEF Billing!Plan, Billing!Free
  <2> QED BY <2>1, <2>2 DEF Billing!Init
<1>2. /\ row \in Billing!Known /\ row.sub = bill.on /\ (row.sub => row.plan = 2) /\ known = row
      /\ Billing!NoNotice \in Billing!Notice
           /\ Billing!Asked \in [st : {"asked", "read"}, info : Billing!Notice]
      /\ Billing!Asked.st = "asked"
  <2>1. row = Billing!Billed /\ known = row
    BY DEF Billing!Init
  <2>2. row = IF bill.on THEN [plan |-> bill.plan, sub |-> TRUE]
          ELSE [plan |-> Billing!Free, sub |-> FALSE]
    BY <2>1 DEF Billing!Billed
  <2>3. row \in Billing!Known /\ row.sub = bill.on /\ (row.sub => row.plan = 2)
    <3>1. CASE bill.on
      <4>1. row = [plan |-> bill.plan, sub |-> TRUE]
        BY <2>2, <3>1
      <4> QED BY <1>1, <3>1, <4>1 DEF Billing!Known, Billing!Plan, Billing!Free
    <3>2. CASE ~bill.on
      <4>1. row = [plan |-> Billing!Free, sub |-> FALSE]
        BY <2>2, <3>2
      <4>2. bill.on = FALSE
        BY <1>1, <3>2
      <4>3. row.sub = FALSE /\ row \in Billing!Known
        BY <4>1 DEF Billing!Known, Billing!Plan, Billing!Free
      <4> QED BY <4>2, <4>3
    <3> QED BY <3>1, <3>2
  <2> QED BY <2>1, <2>3 DEF Billing!Notice, Billing!NoNotice, Billing!Asked
<1>3. BillType
  BY <1>1, <1>2 DEF Billing!Init, BillType, Billing!TypeOK, BillHistory, Billing!Plan, Billing!Free
<1>4. Mounts /\ PaysOnce
  BY DEF Billing!Init, Mounts, PaysOnce, Billing!OnTab, Billing!BillingTabAssumption
<1>5. Paid
  BY <1>1, <1>2 DEF Billing!Init, Paid, Billing!Free, Billing!BillingTabAssumption
<1>6. Noticed
  BY <1>1, <1>2 DEF Billing!Init, Noticed
<1> QED BY <1>3, <1>4, <1>5, <1>6 DEF BillInv

-----------------------------------------------------------------------------
(* What the page knows.                                                    *)

LEMMA BillRefocusStep ==
  ASSUME Billing!BillingTabAssumption, BillInv, Billing!Refocus
  PROVE  BillInv'
<1>0. /\ known # row /\ known' = row
      /\ asking' = (IF row.sub /\ ~known.sub THEN asking \union {Billing!Asked} ELSE asking)
      /\ UNCHANGED <<bill, row, info, priced, isLoading, requests, place, tries, ends, since>>
  BY DEF Billing!Refocus
<1>1. BillType'
  BY <1>0, BillTypes DEF BillInv, BillType, Billing!TypeOK, Billing!Notice, Billing!Known
<1>2. Mounts' /\ PaysOnce'
  BY <1>0 DEF BillInv, Mounts, PaysOnce, Billing!OnTab
<1>3. Paid'
  BY <1>0 DEF BillInv, Paid
<1>4. Noticed'
  <2>1. Changed' = Changed /\ Truth' = Truth /\ Billing!OnTab' = Billing!OnTab
    BY <1>0 DEF Changed, Truth, Billing!OnTab
  <2>2. bill.on => (Billing!Asked \in asking' => row.sub)
    BY <1>0 DEF BillInv, Noticed
  <2>3. \A a \in asking' : a.st = "read" => a \in asking
    BY <1>0, BillTypes
  <2>4. row.sub /\ bill.on => asking' # {} \/ (known.sub /\ asking' = asking)
    BY <1>0
  <2> QED BY <1>0, <2>1, <2>2, <2>3, <2>4 DEF BillInv, Noticed
<1> QED BY <1>1, <1>2, <1>3, <1>4 DEF BillInv

LEMMA ReadInfoStep == ASSUME Billing!BillingTabAssumption, BillInv, Billing!ReadInfo PROVE BillInv'
<1> DEFINE a == [st |-> "read", info |-> Billing!SubscriptionInfo]
<1>0. /\ Billing!Asked \in asking /\ asking' = (asking \ {Billing!Asked}) \union {a}
      /\ UNCHANGED <<bill, row, known, info, priced, isLoading, requests, place, tries, ends,
                     since>>
  BY DEF Billing!ReadInfo
<1>1. a \in [st : {"asked", "read"}, info : Billing!Notice] /\ a # Billing!Asked
      /\ a.info = Billing!SubscriptionInfo
  BY BillTypes DEF Billing!SubscriptionInfo, Billing!Notice
<1>2. /\ bill.on /\ known.sub => a.info = Truth
      /\ ~bill.on => a.info = Billing!NoNotice
  BY <1>1 DEF Billing!SubscriptionInfo, Truth, BillInv, Noticed
<1> HIDE DEF a
<1>3. BillType'
  BY <1>0, <1>1, BillTypes DEF BillInv, BillType, Billing!TypeOK
<1>4. Mounts' /\ PaysOnce' /\ Paid'
  BY <1>0 DEF BillInv, Mounts, PaysOnce, Billing!OnTab, Paid
<1>5. Noticed'
  <2>1. Changed' = Changed /\ Truth' = Truth /\ Billing!OnTab' = Billing!OnTab
    BY <1>0 DEF Changed, Truth, Billing!OnTab
  <2>2. Billing!Asked \notin asking' /\ asking' # {}
    BY <1>0, <1>1
  <2>3. bill.on => known.sub
    BY <1>0 DEF BillInv, Noticed
  <2> QED BY <1>0, <1>2, <2>1, <2>2, <2>3 DEF BillInv, Noticed
<1> QED BY <1>3, <1>4, <1>5 DEF BillInv

LEMMA InfoStep ==
  ASSUME Billing!BillingTabAssumption, BillInv, NEW a \in asking,
         Billing!SetInfo(a) \/ Billing!InfoFails(a)
  PROVE  BillInv'
<1>0. /\ asking' = asking \ {a}
      /\ UNCHANGED <<bill, row, known, priced, isLoading, requests, place, tries, ends>>
      /\ \/ a.st = "read" /\ info' = a.info /\ since' = since
         \/ info' = info /\ since' = [since EXCEPT !.behind = TRUE]
  BY DEF Billing!SetInfo, Billing!InfoFails
<1>1. /\ since' \in BillHistory /\ since'.lagged = since.lagged /\ since'.doubled = since.doubled
      /\ ~since'.behind => ~since.behind /\ a.st = "read" /\ info' = a.info
      /\ info' \in Billing!Notice
  BY <1>0, BillTypes DEF BillHistory
<1>2. BillType'
  BY <1>0, <1>1, BillTypes DEF BillInv, BillType, Billing!TypeOK
<1>3. Mounts' /\ PaysOnce' /\ Paid'
  BY <1>0, <1>1 DEF BillInv, Mounts, PaysOnce, Billing!OnTab, Paid
<1>4. Noticed'
  <2>1. Changed' = Changed /\ Truth' = Truth /\ Billing!OnTab' = Billing!OnTab
    BY <1>0 DEF Changed, Truth, Billing!OnTab
  <2> QED BY <1>0, <1>1, <2>1 DEF BillInv, Noticed
<1> QED BY <1>2, <1>3, <1>4 DEF BillInv

LEMMA PricingStep ==
  ASSUME Billing!BillingTabAssumption, BillInv, Billing!setShowPricingDialog
  PROVE  BillInv'
BY DEF Billing!setShowPricingDialog, BillInv, BillType, Billing!TypeOK, Mounts, PaysOnce,
       Billing!OnTab, Paid, Noticed, Changed,
       Truth

-----------------------------------------------------------------------------
(* The buttons.                                                            *)

LEMMA RequestStep ==
  ASSUME Billing!BillingTabAssumption, BillInv, NEW s \in Billing!Slot, NEW c \in Billing!Request,
         Billing!Call(s, c), Billing!OnTab,
         c.st = "asked", c.page = "here",
         c.op = "checkout" => ~known.sub /\ c.plan # Billing!Free,
         c.op = "change" /\ c.label = "Upgrade" => c.plan = 2,
         c.label = "Downgrade" => c.plan # 2,
         UNCHANGED <<bill, row, known, info, asking, place>>,
         since' \in BillHistory, since'.behind = since.behind, since'.doubled = since.doubled,
         ~since'.lagged => ~since.lagged /\ ~(c.op = "checkout" /\ bill.on)
  PROVE  BillInv'
<1>1. /\ requests' \in [Billing!Slot -> Billing!Request \union {None}] /\ requests'[s] = c
      /\ requests[s] = None
      /\ \A t \in Billing!Slot \ {s} : requests'[t] = requests[t]
  BY BillTypes DEF Billing!Call
<1>2. BillType'
  BY <1>1 DEF BillInv, BillType, Billing!TypeOK
<1>3. Mounts' /\ PaysOnce'
  BY <1>1 DEF BillInv, Mounts, PaysOnce, Billing!OnTab
<1>4. Paid'
  BY <1>1 DEF BillInv, Paid
<1>5. Noticed'
  <2>1. Changed' = Changed /\ Truth' = Truth /\ Billing!OnTab' = Billing!OnTab
    BY <1>1 DEF Changed, Truth, Billing!OnTab
  <2> QED BY <2>1 DEF BillInv, Noticed
<1> QED BY <1>2, <1>3, <1>4, <1>5 DEF BillInv

LEMMA BillAskStep ==
  ASSUME Billing!BillingTabAssumption, BillInv, NEW p \in Billing!Plan, Billing!handlePlanSelect(p)
  PROVE  BillInv'
<1> DEFINE op == IF ~known.sub /\ p # Billing!Free THEN "checkout" ELSE "change"
           c == [op |-> op, plan |-> p, label |-> Billing!getButtonText(p), st |-> "asked",
                 page |-> "here"]
<1>0. /\ Billing!OnTab /\ p # known.plan /\ UNCHANGED <<bill, row, known, info, asking, place>>
      /\ \E s \in Billing!Slot : Billing!Call(s, c)
      /\ since' = [since EXCEPT !.lagged = @ \/ (op = "checkout" /\ bill.on /\ ~known.sub)]
  BY DEF Billing!handlePlanSelect, Billing!Ask
<1>1. known \in Billing!Known /\ p \in {0, 1, 2} /\ Billing!Free = 0 /\ known.plan \in {0, 1, 2}
      /\ (known.sub => known.plan # 0)
  BY BillTypes DEF Billing!Known, Billing!Plan, BillInv, Paid, Billing!Free
<1>2. /\ Billing!getButtonText(p) \in {"Upgrade", "Downgrade"}
      /\ Billing!getButtonText(p) = "Upgrade" => p > known.plan
      /\ Billing!getButtonText(p) = "Downgrade" => ~(p > known.plan /\ p # 0)
  BY <1>1 DEF Billing!getButtonText, Billing!isUpgrade
<1>3. /\ c \in Billing!Request /\ c.st = "asked" /\ c.page = "here" /\ c.op = op /\ c.plan = p
      /\ c.label = Billing!getButtonText(p)
  BY <1>2 DEF Billing!Request
<1>4. /\ op = "checkout" => ~known.sub /\ p # Billing!Free
      /\ op = "change" /\ Billing!getButtonText(p) = "Upgrade" => p = 2
      /\ Billing!getButtonText(p) = "Downgrade" => p # 2
  BY <1>0, <1>1, <1>2
<1>5. /\ since' \in BillHistory /\ since'.behind = since.behind /\ since'.doubled = since.doubled
      /\ ~since'.lagged => ~since.lagged /\ ~(op = "checkout" /\ bill.on)
  <2>1. PICK b \in BOOLEAN : b = (since.lagged \/ (op = "checkout" /\ bill.on /\ ~known.sub))
    BY BillTypes
  <2>2. since' = [since EXCEPT !.lagged = b]
    BY <1>0, <2>1
  <2>3. since' \in BillHistory /\ since'.behind = since.behind /\ since'.doubled = since.doubled
        /\ since'.lagged = b
    BY <2>2, BillTypes DEF BillHistory
  <2> QED BY <1>4, <2>1, <2>3
<1> HIDE DEF c, op
<1> QED BY <1>0, <1>3, <1>4, <1>5, RequestStep

LEMMA PortalStep ==
  ASSUME Billing!BillingTabAssumption, BillInv, Billing!handleOpenPortal
  PROVE  BillInv'
<1> DEFINE c == [op |-> "portal", plan |-> Billing!Free, label |-> "Portal", st |-> "asked",
                 page |-> "here"]
<1>0. /\ Billing!OnTab /\ UNCHANGED <<bill, row, known, info, asking, place, since>>
      /\ \E s \in Billing!Slot : Billing!Call(s, c)
  BY DEF Billing!handleOpenPortal
<1>1. /\ c \in Billing!Request /\ c.st = "asked" /\ c.page = "here" /\ c.op = "portal"
      /\ c.label = "Portal"
  BY DEF Billing!Request, Billing!Free, Billing!Plan
<1> HIDE DEF c
<1> QED BY <1>0, <1>1, BillTypes, RequestStep

-----------------------------------------------------------------------------
(* The server, and its answers.                                            *)

(* What a request to change the plan does to a subscription.               *)
LEMMA ChangeEffect ==
  ASSUME Billing!BillingTabAssumption, BillInv, NEW p \in Billing!Plan, Billing!ChangePlan(p)
  PROVE  \/ UNCHANGED <<bill, row>>
         \/ /\ bill.on /\ row.sub
            /\ bill' \in [on : BOOLEAN, plan : Billing!Plan, cancel : BOOLEAN, next : {1, 2, None}]
            /\ bill'.on /\ bill'.plan # Billing!Free /\ row' \in Billing!Known /\ row'.sub
            /\ row'.plan # Billing!Free
            /\ \/ p = Billing!Free /\ bill'.plan = bill.plan
               \/ p > row.plan /\ bill'.plan = p /\ ~bill'.cancel
               \/ p < row.plan /\ p # Billing!Free /\ bill'.plan = bill.plan
<1>0. /\ bill \in [on : BOOLEAN, plan : Billing!Plan, cancel : BOOLEAN, next : {1, 2, None}]
      /\ row \in Billing!Known /\ Billing!Free = 0 /\ Billing!Plan = {0, 1, 2}
      /\ row.plan \in {0, 1, 2}
      /\ (bill.on => bill.plan # 0) /\ (row.sub => row.plan # 0)
  BY BillTypes DEF Billing!Free, BillInv, Paid, Billing!Known
<1>1. ASSUME p # row.plan, row.sub, bill.on, p = Billing!Free,
             bill' = [bill EXCEPT !.cancel = TRUE, !.next = None], row' = row
      PROVE  /\ bill' \in [on : BOOLEAN, plan : Billing!Plan, cancel : BOOLEAN, next : {1, 2, None}]
             /\ bill'.on /\ bill'.plan = bill.plan
  BY <1>0, <1>1
<1>2. ASSUME p # row.plan, row.sub, bill.on, p > row.plan,
             bill' = [bill EXCEPT !.plan = p, !.cancel = FALSE, !.next = None],
             row' = [row EXCEPT !.plan = p]
      PROVE  /\ bill' \in [on : BOOLEAN, plan : Billing!Plan, cancel : BOOLEAN, next : {1, 2, None}]
             /\ bill'.on /\ bill'.plan = p /\ p # 0 /\ ~bill'.cancel
             /\ row' \in Billing!Known /\ row'.sub /\ row'.plan = p
  <2>1. p # 0 /\ p \in Billing!Plan
    BY <1>0, <1>2
  <2>2. /\ bill' \in [on : BOOLEAN, plan : Billing!Plan, cancel : BOOLEAN, next : {1, 2, None}]
        /\ bill'.on /\ bill'.plan = p /\ ~bill'.cancel
    <3>1. bill \in [on : BOOLEAN, plan : Billing!Plan, cancel : BOOLEAN, next : {1, 2, None}]
      BY <1>0
    <3> QED BY <1>2, <2>1, <3>1
  <2>3. row' \in Billing!Known /\ row'.sub /\ row'.plan = p
    <3>1. row \in Billing!Known
      BY <1>0
    <3> QED BY <1>2, <2>1, <3>1 DEF Billing!Known
  <2> QED BY <2>1, <2>2, <2>3
<1>3. ASSUME p # row.plan, row.sub, bill.on, p # Billing!Free, ~(p > row.plan),
             bill' = [bill EXCEPT !.next = p, !.cancel = FALSE], row' = row
      PROVE  /\ bill' \in [on : BOOLEAN, plan : Billing!Plan, cancel : BOOLEAN, next : {1, 2, None}]
             /\ bill'.on /\ bill'.plan = bill.plan /\ p < row.plan
  <2>1. p < row.plan /\ p \in {1, 2}
    BY <1>0, <1>3
  <2>2. bill \in [on : BOOLEAN, plan : Billing!Plan, cancel : BOOLEAN, next : {1, 2, None}]
    BY <1>0
  <2> QED BY <1>3, <2>1, <2>2
<1> QED BY <1>0, <1>1, <1>2, <1>3 DEF Billing!ChangePlan, Billing!isUpgrade

LEMMA ServeEffect ==
  ASSUME Billing!BillingTabAssumption, BillInv, NEW s \in Billing!Slot, Billing!Serve(s)
  PROVE  /\ requests[s] # None /\ requests[s] \in Billing!Request /\ requests[s].st = "asked"
         /\ requests' \in [Billing!Slot -> Billing!Request \union {None}]
         /\ \A t \in Billing!Slot \ {s} : requests'[t] = requests[t]
         /\ requests[s].page = "gone" => requests'[s] = None
         /\ requests[s].page # "gone" => /\ requests'[s] # None
              /\ requests'[s].op = requests[s].op /\ requests'[s].plan = requests[s].plan
              /\ requests'[s].label = requests[s].label /\ requests'[s].page = requests[s].page
         /\ \/ UNCHANGED <<bill, row>>
            \/ /\ requests[s].op = "change" /\ Billing!ChangePlan(requests[s].plan)
               /\ requests[s].page # "gone" => requests'[s].st = "ok"
         /\ since' \in BillHistory /\ since'.lagged = since.lagged /\ since'.doubled = since.doubled
         /\ ~since'.behind => ~since.behind /\ (requests[s].page = "gone" => bill' = bill)
         /\ UNCHANGED <<known, info, asking, priced, isLoading, place, tries, ends>>
<1>0. /\ requests[s] # None /\ requests[s] \in Billing!Request /\ requests[s].st = "asked"
      /\ requests \in [Billing!Slot -> Billing!Request \union {None}] /\ None \notin Billing!Request
  BY BillTypes DEF Billing!Serve
<1>1. PICK got \in {"ok", "error"} :
        /\ Billing!Answer(s, got)
        /\ \/ UNCHANGED <<bill, row>>
           \/ requests[s].op = "change" /\ Billing!ChangePlan(requests[s].plan) /\ got = "ok"
  BY DEF Billing!Serve
<1> DEFINE r == [requests[s] EXCEPT !.st = got]
           v == IF requests[s].page = "gone" THEN None ELSE r
<1>2. /\ r \in Billing!Request /\ r.op = requests[s].op /\ r.plan = requests[s].plan
      /\ r.label = requests[s].label /\ r.page = requests[s].page /\ r.st = got
  BY <1>0 DEF Billing!Request
<1>3. requests' = [requests EXCEPT ![s] = v]
  BY <1>1 DEF Billing!Answer
<1> HIDE DEF r
<1>4. /\ requests' \in [Billing!Slot -> Billing!Request \union {None}] /\ requests'[s] = v
      /\ \A t \in Billing!Slot \ {s} : requests'[t] = requests[t]
  BY <1>0, <1>2, <1>3
<1>5. /\ since' \in BillHistory /\ since'.lagged = since.lagged /\ since'.doubled = since.doubled
      /\ ~since'.behind => ~since.behind /\ (requests[s].page = "gone" => bill' = bill)
  <2>1. PICK b \in BOOLEAN : b = (since.behind \/ (requests[s].page = "gone" /\ bill' # bill))
    BY BillTypes
  <2>2. since' = [since EXCEPT !.behind = b]
    BY <2>1 DEF Billing!Serve
  <2>3. since' \in BillHistory /\ since'.lagged = since.lagged /\ since'.doubled = since.doubled
        /\ since'.behind = b
    BY <2>2, BillTypes DEF BillHistory
  <2> QED BY <2>1, <2>3
<1>6. UNCHANGED <<known, info, asking, priced, isLoading, place, tries, ends>>
  BY DEF Billing!Serve
<1> QED BY <1>0, <1>1, <1>2, <1>4, <1>5, <1>6

LEMMA BillServeStep ==
  ASSUME Billing!BillingTabAssumption, BillInv, NEW s \in Billing!Slot, Billing!Serve(s)
  PROVE  BillInv'
<1>1. /\ requests[s] # None /\ requests[s] \in Billing!Request /\ requests[s].st = "asked"
      /\ requests' \in [Billing!Slot -> Billing!Request \union {None}]
      /\ \A t \in Billing!Slot \ {s} : requests'[t] = requests[t]
      /\ requests[s].page = "gone" => requests'[s] = None
      /\ requests[s].page # "gone" => /\ requests'[s] # None
           /\ requests'[s].op = requests[s].op /\ requests'[s].plan = requests[s].plan
           /\ requests'[s].label = requests[s].label /\ requests'[s].page = requests[s].page
  BY ServeEffect
<1>2. /\ since' \in BillHistory /\ since'.lagged = since.lagged /\ since'.doubled = since.doubled
      /\ ~since'.behind => ~since.behind /\ (requests[s].page = "gone" => bill' = bill)
      /\ UNCHANGED <<known, info, asking, priced, isLoading, place, tries, ends>>
  BY ServeEffect
<1>3. \/ UNCHANGED <<bill, row>>
      \/ requests[s].op = "change" /\ (requests[s].page # "gone" => requests'[s].st = "ok")
  BY ServeEffect
<1>4. \/ UNCHANGED <<bill, row>>
      \/ /\ bill.on /\ row.sub
         /\ bill' \in [on : BOOLEAN, plan : Billing!Plan, cancel : BOOLEAN, next : {1, 2, None}]
         /\ bill'.on /\ bill'.plan # Billing!Free /\ row' \in Billing!Known /\ row'.sub
         /\ row'.plan # Billing!Free
  <2>1. requests[s].plan \in Billing!Plan
    BY <1>1 DEF Billing!Request
  <2> QED BY <2>1, ServeEffect, ChangeEffect
<1>5. BillType'
  BY <1>1, <1>2, <1>4, BillTypes DEF BillInv, BillType, Billing!TypeOK
<1>6. Mounts' /\ PaysOnce'
  BY <1>1, <1>2, <1>4 DEF BillInv, Mounts, PaysOnce, Billing!OnTab
<1>7. Paid'
  BY <1>1, <1>2, <1>4 DEF BillInv, Paid
<1>8. Noticed'
  <2>1. bill'.on = bill.on /\ (bill.on => row'.sub = row.sub) /\ Billing!OnTab' = Billing!OnTab
    BY <1>2, <1>4 DEF Billing!OnTab
  <2>2. ~Changed' => ~Changed
    BY <1>1 DEF Changed
  <2>3. ~Changed' /\ ~since'.behind => Truth' = Truth
    BY <1>1, <1>2, <1>3, <1>4 DEF Changed, Truth
  <2> QED BY <1>2, <2>1, <2>2, <2>3 DEF BillInv, Noticed
<1> QED BY <1>5, <1>6, <1>7, <1>8 DEF BillInv

LEMMA BillAnsweredStep ==
  ASSUME Billing!BillingTabAssumption, BillInv, NEW s \in Billing!Slot, Billing!Answered(s)
  PROVE  BillInv'
<1>0. /\ requests[s] # None /\ requests[s] \in Billing!Request /\ requests[s].st # "asked"
      /\ requests' = [requests EXCEPT ![s] = None]
      /\ UNCHANGED <<bill, row, known, info, asking, tries, ends, since>>
      /\ \/ requests[s].st = "error" /\ UNCHANGED place
         \/ place' = [place EXCEPT !.plan = requests[s].plan,
                           !.next = IF requests[s].op = "change" THEN "tab" ELSE requests[s].op]
  BY BillTypes DEF Billing!Answered
<1>1. /\ requests' \in [Billing!Slot -> Billing!Request \union {None}] /\ requests'[s] = None
      /\ \A t \in Billing!Slot \ {s} : requests'[t] = requests[t]
  BY <1>0, BillTypes
<1>2. Billing!OnTab /\ requests[s].page # "gone"
  BY <1>0 DEF BillInv, Mounts
<1>3. /\ place' \in [at : {"tab", "checkout", "portal"}, plan : Billing!Plan,
                     next : {"tab", "checkout", "portal", None}]
      /\ place'.at = place.at
      /\ \/ requests[s].st = "error" /\ UNCHANGED place
         \/ /\ place'.plan = requests[s].plan /\ place'.next # None
            /\ place'.next = "checkout" => requests[s].op = "checkout"
  <2> DEFINE n == IF requests[s].op = "change" THEN "tab" ELSE requests[s].op
  <2>1. n \in {"tab", "checkout", "portal"} /\ (n = "checkout" => requests[s].op = "checkout")
        /\ requests[s].plan \in Billing!Plan
    BY <1>0 DEF Billing!Request
  <2>2. n # None
    BY <2>1, BillTypes
  <2>3. \/ requests[s].st = "error" /\ UNCHANGED place
        \/ place' = [place EXCEPT !.plan = requests[s].plan, !.next = n]
    BY <1>0
  <2> HIDE DEF n
  <2> QED BY <2>1, <2>2, <2>3, BillTypes
<1>4. BillType'
  BY <1>0, <1>1, <1>3 DEF BillInv, BillType, Billing!TypeOK
<1>5. Mounts' /\ PaysOnce'
  BY <1>0, <1>1, <1>2, <1>3 DEF BillInv, Mounts, PaysOnce, Billing!OnTab
<1>6. Paid'
  <2>1. place'.at = "tab"
    BY <1>2, <1>3 DEF Billing!OnTab
  <2> QED BY <1>0, <1>1, <1>3, <2>1 DEF BillInv, Paid
<1>7. Noticed'
  <2>1. Truth' = Truth /\ Billing!OnTab' = Billing!OnTab
    BY <1>0, <1>3 DEF Billing!OnTab, Truth
  <2>2. place'.next = None => requests[s].st = "error" /\ place.next = None
    BY <1>3
  <2>3. ~Changed' /\ place'.next = None => ~Changed
    BY <1>1, <2>2 DEF Changed
  <2> QED BY <1>0, <2>1, <2>2, <2>3 DEF BillInv, Noticed
<1> QED BY <1>4, <1>5, <1>6, <1>7 DEF BillInv

-----------------------------------------------------------------------------
(* Leaving and coming back.                                                *)

LEMMA MountedTypes ==
  ASSUME Billing!BillingTabAssumption, BillInv, NEW k \in Billing!Known, Billing!Mounted(k)
  PROVE  /\ known' = k /\ info' = Billing!NoNotice
              /\ asking' = IF k.sub THEN {Billing!Asked} ELSE {}
         /\ info' \in Billing!Notice
              /\ asking' \subseteq [st : {"asked", "read"}, info : Billing!Notice]
         /\ \A a \in asking' : a.st = "asked"
         /\ Billing!Asked \in asking' => k.sub
         /\ k.sub => asking' # {}
BY BillTypes DEF Billing!Mounted

LEMMA RemountStep == ASSUME Billing!BillingTabAssumption, BillInv, Billing!Remount PROVE BillInv'
<1>0. /\ Billing!OnTab /\ Billing!Mounted(known) /\ UNCHANGED <<bill, row, place, ends, since>>
      /\ requests' = [s \in Billing!Slot |-> IF requests[s] # None /\ requests[s].page = "here"
                                         THEN [requests[s] EXCEPT !.page = "app"] ELSE requests[s]]
  BY DEF Billing!Remount
<1>1. \A s \in Billing!Slot : requests[s] # None =>
        /\ [requests[s] EXCEPT !.page = "app"] \in Billing!Request
        /\ [requests[s] EXCEPT !.page = "app"].op = requests[s].op
        /\ [requests[s] EXCEPT !.page = "app"].plan = requests[s].plan
        /\ [requests[s] EXCEPT !.page = "app"].label = requests[s].label
        /\ [requests[s] EXCEPT !.page = "app"].st = requests[s].st
        /\ [requests[s] EXCEPT !.page = "app"].page = "app"
  BY BillTypes DEF Billing!Request
<1>2. /\ requests' \in [Billing!Slot -> Billing!Request \union {None}]
      /\ \A s \in Billing!Slot : requests'[s] # None =>
           /\ requests[s] # None /\ requests'[s].op = requests[s].op
           /\ requests'[s].plan = requests[s].plan
           /\ requests'[s].label = requests[s].label /\ requests'[s].st = requests[s].st
           /\ (requests'[s].page = "gone") = (requests[s].page = "gone")
      /\ \A s \in Billing!Slot : requests[s] # None => requests'[s] # None
  BY <1>0, <1>1, BillTypes
<1>3. known \in Billing!Known
  BY BillTypes
<1>4. BillType'
  BY <1>0, <1>2, <1>3, MountedTypes DEF BillInv, BillType, Billing!TypeOK
<1>5. Mounts' /\ PaysOnce'
  BY <1>0, <1>2 DEF BillInv, Mounts, PaysOnce, Billing!OnTab
<1>6. Paid'
  BY <1>0, <1>2, <1>3, MountedTypes DEF BillInv, Paid
<1>7. Noticed'
  <2>1. Truth' = Truth
    BY <1>0 DEF Truth
  <2> QED BY <1>0, <1>3, <2>1, MountedTypes DEF BillInv, Noticed
<1> QED BY <1>4, <1>5, <1>6, <1>7 DEF BillInv

LEMMA LeaveStep == ASSUME Billing!BillingTabAssumption, BillInv, Billing!Leave PROVE BillInv'
<1>0. /\ Billing!OnTab /\ place.next # None
      /\ place' = [place EXCEPT !.at = place.next, !.next = None]
      /\ Billing!Mounted(row) /\ UNCHANGED <<bill, row, tries, ends>>
      /\ since' = [since EXCEPT !.behind = FALSE]
      /\ requests' = [s \in Billing!Slot |-> IF requests[s] # None /\ requests[s].st = "asked"
                                       THEN [requests[s] EXCEPT !.page = "gone"] ELSE None]
  BY DEF Billing!Leave, Billing!Unloaded
<1>1. \A s \in Billing!Slot : requests[s] # None =>
        /\ [requests[s] EXCEPT !.page = "gone"] \in Billing!Request
        /\ [requests[s] EXCEPT !.page = "gone"].op = requests[s].op
        /\ [requests[s] EXCEPT !.page = "gone"].plan = requests[s].plan
        /\ [requests[s] EXCEPT !.page = "gone"].label = requests[s].label
        /\ [requests[s] EXCEPT !.page = "gone"].st = requests[s].st
        /\ [requests[s] EXCEPT !.page = "gone"].page = "gone"
  BY BillTypes DEF Billing!Request
<1>2. /\ requests' \in [Billing!Slot -> Billing!Request \union {None}]
      /\ \A s \in Billing!Slot : requests'[s] # None =>
           /\ requests[s] # None /\ requests'[s].op = requests[s].op
           /\ requests'[s].plan = requests[s].plan
           /\ requests'[s].label = requests[s].label /\ requests'[s].st = "asked"
           /\ requests'[s].page = "gone"
  BY <1>0, <1>1, BillTypes
<1>3. row \in Billing!Known
  BY BillTypes
<1>4. /\ place' \in [at : {"tab", "checkout", "portal"}, plan : Billing!Plan,
                     next : {"tab", "checkout", "portal", None}]
      /\ place'.at = place.next /\ place'.next = None /\ place'.plan = place.plan
  BY <1>0, BillTypes
<1>5. /\ since' \in BillHistory /\ since'.lagged = since.lagged /\ since'.doubled = since.doubled
  BY <1>0, BillTypes DEF BillHistory
<1>6. BillType'
  BY <1>0, <1>2, <1>3, <1>4, <1>5, MountedTypes DEF BillInv, BillType, Billing!TypeOK
<1>7. Mounts' /\ PaysOnce'
  BY <1>0, <1>2, <1>4, <1>5, BillTypes DEF BillInv, Mounts, PaysOnce, Billing!OnTab
<1>8. Paid'
  BY <1>0, <1>2, <1>3, <1>4, MountedTypes, BillTypes DEF BillInv, Paid
<1>9. Noticed'
  BY <1>0, <1>3, MountedTypes DEF BillInv, Noticed
<1> QED BY <1>6, <1>7, <1>8, <1>9 DEF BillInv

LEMMA ReturnStep == ASSUME Billing!BillingTabAssumption, BillInv, Billing!Return PROVE BillInv'
<1>0. /\ ~Billing!OnTab /\ place' = [place EXCEPT !.at = "tab"] /\ Billing!Mounted(row)
      /\ UNCHANGED <<row, requests, ends>>
  BY DEF Billing!Return
<1>1. /\ bill' \in [on : BOOLEAN, plan : Billing!Plan, cancel : BOOLEAN, next : {1, 2, None}]
      /\ since' \in BillHistory /\ since'.lagged = since.lagged
      /\ bill'.on => bill'.plan # Billing!Free
      /\ ~since.lagged => ~since'.doubled
  <2>1. CASE UNCHANGED <<bill, since>>
    BY <2>1, BillTypes DEF BillInv, Paid, PaysOnce
  <2>2. CASE /\ place.at = "checkout"
             /\ bill' = [on |-> TRUE, plan |-> place.plan, cancel |-> FALSE, next |-> None]
             /\ since' = [since EXCEPT !.doubled = @ \/ bill.on]
    <3>1. place.plan \in Billing!Plan /\ place.plan # Billing!Free
      BY <2>2, BillTypes DEF BillInv, Paid
    <3>2. PICK b \in BOOLEAN : b = (since.doubled \/ bill.on)
      BY BillTypes
    <3>3. since' = [since EXCEPT !.doubled = b]
      BY <2>2, <3>2
    <3>4. since' \in BillHistory /\ since'.lagged = since.lagged /\ since'.doubled = b
      BY <3>3, BillTypes DEF BillHistory
    <3> QED BY <2>2, <3>1, <3>2, <3>4 DEF BillInv, PaysOnce
  <2>3. CASE bill.on /\ bill' = [bill EXCEPT !.cancel = ~@] /\ UNCHANGED since
    <3>1. PICK b \in BOOLEAN : b = ~bill.cancel
      BY BillTypes
    <3>2. bill' = [bill EXCEPT !.cancel = b]
      BY <2>3, <3>1
    <3>3. /\ bill' \in [on : BOOLEAN, plan : Billing!Plan, cancel : BOOLEAN, next : {1, 2, None}]
          /\ bill'.plan = bill.plan
      BY <3>2, BillTypes
    <3> QED BY <2>3, <3>3, BillTypes DEF BillInv, Paid, PaysOnce
  <2> QED BY <2>1, <2>2, <2>3 DEF Billing!Return
<1>2. row \in Billing!Known
  BY BillTypes
<1>3. /\ place' \in [at : {"tab", "checkout", "portal"}, plan : Billing!Plan,
                     next : {"tab", "checkout", "portal", None}]
      /\ place'.at = "tab" /\ place'.next = None
  BY <1>0, BillTypes DEF BillInv, Mounts
<1>4. \A s \in Billing!Slot : requests[s] # None => requests[s].page = "gone"
  BY <1>0 DEF BillInv, Mounts
<1>5. BillType'
  BY <1>0, <1>1, <1>2, <1>3, MountedTypes DEF BillInv, BillType, Billing!TypeOK
<1>6. Mounts' /\ PaysOnce'
  BY <1>0, <1>1, <1>3, <1>4, BillTypes DEF BillInv, Mounts, PaysOnce, Billing!OnTab
<1>7. Paid'
  BY <1>0, <1>1, <1>2, <1>3, MountedTypes, BillTypes DEF BillInv, Paid
<1>8. Noticed'
  BY <1>0, <1>2, MountedTypes DEF BillInv, Noticed
<1> QED BY <1>5, <1>6, <1>7, <1>8 DEF BillInv

-----------------------------------------------------------------------------
(* Stripe.                                                                 *)

LEMMA WebhookStep == ASSUME Billing!BillingTabAssumption, BillInv, Billing!Webhook PROVE BillInv'
<1>0. /\ row' = Billing!Billed
      /\ UNCHANGED <<bill, known, info, asking, priced, isLoading, requests, place, tries, ends,
                     since>>
  BY DEF Billing!Webhook
<1>1. row' \in Billing!Known /\ row'.sub = bill.on /\ (row'.sub => row'.plan # Billing!Free)
  BY <1>0, BillTypes DEF Billing!Billed, BillInv, Paid
<1>2. BillType'
  BY <1>0, <1>1 DEF BillInv, BillType, Billing!TypeOK, Billing!Notice, Billing!Known
<1>3. Mounts' /\ PaysOnce' /\ Paid'
  BY <1>0, <1>1 DEF BillInv, Mounts, PaysOnce, Billing!OnTab, Paid
<1>4. Noticed'
  <2>1. Changed' = Changed /\ Truth' = Truth /\ Billing!OnTab' = Billing!OnTab
    BY <1>0 DEF Changed, Truth, Billing!OnTab
  <2> QED BY <1>0, <1>1, <2>1 DEF BillInv, Noticed
<1> QED BY <1>2, <1>3, <1>4 DEF BillInv

LEMMA PeriodEndStep ==
  ASSUME Billing!BillingTabAssumption, BillInv, Billing!PeriodEnd
  PROVE  BillInv'
<1>0. /\ bill.on /\ Billing!NoNotice # [cancel |-> bill.cancel, next |-> bill.next]
      /\ bill' = (IF bill.cancel THEN [bill EXCEPT !.on = FALSE, !.cancel = FALSE]
                  ELSE [bill EXCEPT !.plan = bill.next, !.next = None])
      /\ since' = [since EXCEPT !.behind = TRUE]
      /\ UNCHANGED <<row, known, info, asking, priced, isLoading, requests, place, tries>>
  BY DEF Billing!PeriodEnd
<1>1. /\ bill' \in [on : BOOLEAN, plan : Billing!Plan, cancel : BOOLEAN, next : {1, 2, None}]
      /\ bill'.on => bill'.plan # Billing!Free
  <2>1. CASE bill.cancel
    BY <1>0, <2>1, BillTypes
  <2>2. CASE ~bill.cancel
    <3>1. bill.next # None
      BY <1>0, <2>2, BillTypes DEF Billing!NoNotice
    <3>2. bill.next \in {1, 2} /\ bill.next \in Billing!Plan /\ bill.next # Billing!Free
      BY <3>1, BillTypes DEF Billing!Free
    <3> QED BY <1>0, <2>2, <3>2, BillTypes
  <2> QED BY <2>1, <2>2, BillTypes
<1>2. /\ since' \in BillHistory /\ since'.lagged = since.lagged /\ since'.doubled = since.doubled
      /\ since'.behind
  BY <1>0, BillTypes DEF BillHistory
<1>3. BillType'
  BY <1>0, <1>1, <1>2 DEF BillInv, BillType, Billing!TypeOK, Billing!Notice, Billing!Known
<1>4. Mounts' /\ PaysOnce' /\ Paid'
  BY <1>0, <1>1, <1>2 DEF BillInv, Mounts, PaysOnce, Billing!OnTab, Paid
<1>5. Noticed'
  BY <1>0, <1>2 DEF BillInv, Noticed
<1> QED BY <1>3, <1>4, <1>5 DEF BillInv

LEMMA NextBill ==
  ASSUME Billing!BillingTabAssumption, BillInv, [Billing!Next]_(Billing!vars)
  PROVE  BillInv'
<1>1. CASE UNCHANGED Billing!vars
  BY <1>1 DEF Billing!vars, BillInv, BillType, Billing!TypeOK, Billing!Notice, Billing!Known,
              Mounts, PaysOnce, Billing!OnTab, Paid, Noticed,
              Changed, Truth
<1> QED BY <1>1, BillRefocusStep, ReadInfoStep, InfoStep, PricingStep, BillAskStep, PortalStep,
           BillServeStep,
           BillAnsweredStep, RemountStep, LeaveStep, ReturnStep, WebhookStep,
           PeriodEndStep DEF Billing!Next

LEMMA BillSays ==
  ASSUME Billing!BillingTabAssumption, BillInv
  PROVE  Billing!TypeOK /\ Billing!DoubleNeedsLag /\ Billing!NoticesAreCurrent
<1>1. Billing!DoubleNeedsLag /\ Billing!TypeOK
  BY DEF BillInv, BillType, PaysOnce, Billing!DoubleNeedsLag
<1>2. Billing!NoticesAreCurrent
  <2> SUFFICES ASSUME Billing!OnTab, place.next = None, asking = {},
                      \A s \in Billing!Slot : requests[s] = None,
                      known = row, row = Billing!Billed, ~since.behind
               PROVE  info = Truth
    BY DEF Billing!NoticesAreCurrent, Truth
  <2>1. ~Changed /\ (bill.on => known.sub)
    BY DEF Changed, Billing!Billed
  <2> QED BY <2>1 DEF BillInv, Noticed, Truth
<1> QED BY <1>1, <1>2

LEMMA Ranks ==
  ASSUME NEW p \in {0, 1, 2}, NEW q \in {0, 1, 2}
  PROVE  (p = 2 => ~(p < q)) /\ (p # 2 /\ q # 0 => ~(p > q))
OBVIOUS

LEMMA LabelsKept ==
  ASSUME Billing!BillingTabAssumption, BillInv, [Billing!Next]_(Billing!vars)
  PROVE  Billing!LabelIsKept
<1> SUFFICES ASSUME NEW s \in Billing!Slot, requests[s] # None, requests[s].st = "asked",
                    requests'[s] # requests[s],
                    bill' # bill
             PROVE  /\ requests[s].label = "Downgrade" => bill'.plan = bill.plan
                    /\ requests[s].label = "Upgrade" =>
                         bill'.plan = requests[s].plan /\ ~bill'.cancel
  BY DEF Billing!LabelIsKept
<1>1. ASSUME NEW t \in Billing!Slot, Billing!Serve(t) PROVE t = s
  BY <1>1, ServeEffect
<1>2. Billing!Serve(s)
  BY <1>1 DEF Billing!Next, Billing!vars, Billing!Refocus, Billing!ReadInfo, Billing!SetInfo,
              Billing!InfoFails, Billing!setShowPricingDialog, Billing!handlePlanSelect,
              Billing!Ask, Billing!handleOpenPortal, Billing!Answered, Billing!Remount,
              Billing!Leave, Billing!Return, Billing!Webhook, Billing!PeriodEnd
<1>3. requests[s].op = "change" /\ Billing!ChangePlan(requests[s].plan)
        /\ requests[s].plan \in Billing!Plan
  BY <1>2, ServeEffect DEF Billing!Request
<1>4. /\ row.plan \in {0, 1, 2}
      /\ row.sub => row.plan # 0
      /\ Billing!Free = 0 /\ requests[s].plan \in {0, 1, 2}
      /\ requests[s].label = "Upgrade" => requests[s].plan = 2
      /\ requests[s].label = "Downgrade" => requests[s].plan # 2
  BY <1>3, BillTypes DEF BillInv, Paid, Billing!Known, Billing!Plan, Billing!Free
<1>5. \/ requests[s].plan = Billing!Free /\ bill'.plan = bill.plan
      \/ requests[s].plan > row.plan /\ bill'.plan = requests[s].plan /\ ~bill'.cancel
      \/ requests[s].plan < row.plan /\ requests[s].plan # Billing!Free /\ bill'.plan = bill.plan
  BY <1>3, ChangeEffect
<1>6. row.sub
  BY <1>3, ChangeEffect
<1>7. ASSUME requests[s].label = "Upgrade" PROVE bill'.plan = requests[s].plan /\ ~bill'.cancel
  <2>1. requests[s].plan = 2 /\ requests[s].plan # Billing!Free
    BY <1>4, <1>7
  <2>2. ~(requests[s].plan < row.plan)
    BY <1>4, <2>1, Ranks
  <2> QED BY <1>5, <2>1, <2>2
<1>8. ASSUME requests[s].label = "Downgrade" PROVE bill'.plan = bill.plan
  <2>1. ~(requests[s].plan > row.plan)
    BY <1>4, <1>6, <1>8, Ranks
  <2> QED BY <1>5, <2>1
<1> QED BY <1>7, <1>8

LEMMA BillSteps ==
  ASSUME Billing!BillingTabAssumption, BillInv, [Billing!Next]_(Billing!vars) PROVE Billing!TabSteps
<1>1. BillInv'
  BY NextBill
<1>2. Billing!NoticesAreCurrent'
  BY <1>1, BillSays, PTL
<1> QED BY <1>2, LabelsKept DEF Billing!TabSteps

-----------------------------------------------------------------------------
(* The pages of settings.  What is cached and not marked, and what a fetch *)
(* has read, is what the route would answer, but for known gaps, or the    *)
(* form has yet to hear of its change (PagesCacheInv); what is marked and  *)
(* shown is asked again (MarkInv); one rename or deletion is under way at  *)
(* a time, of the present name (EditInv, DeleteInv); and a name that was   *)
(* typed is not replaced by what is known already (TypedInv, KeptInv).     *)

(* What is read off the rows d, as an operator of the rows.                *)
MineIn(d) == d.name # None /\ d.role["me"] # None
LiveIn(d) == {p \in Pages!Project : d.projects[p] \in Titles}
CountIn(d) == Cardinality({w \in Pages!Who : d.role[w] # None})
ListedIn(d) == {<<p, d.projects[p]>> : p \in LiveIn(d)}
CardOf(d) ==
  [name |-> d.name, role |-> d.role["me"], count |-> CountIn(d), projects |-> ListedIn(d)]

ViewOf(q, d) ==
  CASE q = "workspaces" -> [rows |-> IF MineIn(d) THEN {CardOf(d)} ELSE {}, more |-> d.more]
    [] q = "workspace"  -> [card |-> CardOf(d), usage |-> d.usage]
    [] q = "project"    -> [name |-> d.projects[1]]
    [] q = "members"    -> [role |-> d.role]
    [] q = "invites"    -> [pending |-> d.invited]

AllowedIn(q, d) ==
  CASE q = "workspaces" -> TRUE
    [] q = "project"    -> MineIn(d) /\ 1 \in LiveIn(d)
    [] q = "invites"    -> MineIn(d) /\ d.role["me"] = "ADMIN"
    [] OTHER            -> MineIn(d)

Firsts(s) == {p[1] : p \in s}

SameIn(c, e, gaps) ==
  /\ c.name = e.name
  /\ IF "project names" \in gaps THEN Firsts(c.projects) = Firsts(e.projects)
     ELSE c.projects = e.projects
  /\ "members" \notin gaps => c.role = e.role /\ c.count = e.count

CurrentIn(q, x, d, gaps) ==
  CASE q = "workspaces" ->
         /\ x.more = d.more
         /\ IF MineIn(d) THEN \E c \in x.rows : SameIn(c, CardOf(d), gaps)
            ELSE "members" \in gaps \/ x.rows = {}
    [] q = "workspace" -> SameIn(x.card, CardOf(d), gaps)
    [] OTHER -> x = ViewOf(q, d)

Db == [name : Titles \union {None}, projects : [Pages!Project -> Titles \union {None}],
       role : [Pages!Who -> Pages!Role \union {None}], invited : SUBSET Titles,
       more : 0 .. 1, usage : 0 .. 1]

LEMMA SameViews ==
  ASSUME NEW q \in Pages!Query
  PROVE  /\ Pages!View(q) = ViewOf(q, base) /\ Pages!Allowed(q) = AllowedIn(q, base)
         /\ \A x : Pages!Current(q, x) = CurrentIn(q, x, base, told.gaps)
<1>1. /\ Pages!Mine = MineIn(base) /\ Pages!Live = LiveIn(base) /\ Pages!Card = CardOf(base)
  BY SameSize DEF Pages!Mine, MineIn, Pages!Live, LiveIn, Pages!Card, CardOf, CountIn, ListedIn
<1>2. Pages!View(q) = ViewOf(q, base)
  BY <1>1 DEF Pages!View, ViewOf, Pages!GetWorkspaces, Pages!GetWorkspace, Pages!GetProject,
              Pages!GetMembers, Pages!GetInvites
<1>3. Pages!Allowed(q) = AllowedIn(q, base)
  BY <1>1 DEF Pages!Allowed, AllowedIn
<1>4. ASSUME NEW c, NEW e PROVE Pages!SameCard(c, e) = SameIn(c, e, told.gaps)
  BY DEF Pages!SameCard, SameIn, Firsts
<1>5. ASSUME NEW x PROVE Pages!Current(q, x) = CurrentIn(q, x, base, told.gaps)
  BY <1>1, <1>2, <1>4 DEF Pages!Current, CurrentIn, Pages!Data
<1> QED BY <1>2, <1>3, <1>5

LEMMA CountType == ASSUME NEW d PROVE CountIn(d) \in 0 .. 2
<1>1. IsFiniteSet(Pages!Who) /\ Cardinality(Pages!Who) = 2
  <2>1. IsFiniteSet({"me"}) /\ Cardinality({"me"}) = 1
    BY FS_Singleton
  <2>2. Pages!Who = {"me"} \union {"other"} /\ "other" \notin {"me"}
    BY DEF Pages!Who
  <2> QED BY <2>1, <2>2, FS_AddElement
<1> DEFINE W == {w \in Pages!Who : d.role[w] # None}
<1>2. W \in SUBSET Pages!Who
  OBVIOUS
<1> HIDE DEF W
<1>3. IsFiniteSet(W) /\ Cardinality(W) <= 2
  BY <1>1, <1>2, FS_Subset
<1>4. Cardinality(W) \in Nat
  BY <1>3, FS_CardinalityType
<1> QED BY <1>3, <1>4 DEF CountIn, W

LEMMA CardType == ASSUME NEW d \in Db PROVE CardOf(d) \in Pages!AnyCard
<1>1. CountIn(d) \in 0 .. 2
  BY CountType
<1>2. ListedIn(d) \in SUBSET (Pages!Project \X Titles)
  BY DEF ListedIn, LiveIn
<1>3. d.name \in Titles \union {None} /\ d.role["me"] \in Pages!Role \union {None}
  BY DEF Db, Pages!Who
<1> QED BY <1>1, <1>2, <1>3 DEF CardOf, Pages!AnyCard

LEMMA ViewType ==
  ASSUME NEW d \in Db, NEW q \in Pages!Query, AllowedIn(q, d)
  PROVE  ViewOf(q, d) \in Pages!Answer(q)
<1>1. CardOf(d) \in Pages!AnyCard
  BY CardType
<1> HIDE DEF CardOf, Pages!AnyCard
<1>2. d.more \in 0 .. 1 /\ d.usage \in 0 .. 1 /\ d.invited \in SUBSET Titles
      /\ d.role \in [Pages!Who -> Pages!Role \union {None}]
  BY DEF Db
<1>3. q = "project" => d.projects[1] \in Titles
  BY DEF AllowedIn, LiveIn
<1>4. CASE q = "workspaces"
  <2>1. (IF MineIn(d) THEN {CardOf(d)} ELSE {}) \in SUBSET Pages!AnyCard
    BY <1>1
  <2> QED BY <1>2, <1>4, <2>1 DEF ViewOf, Pages!Answer
<1>5. CASE q = "workspace"
  BY <1>1, <1>2, <1>5 DEF ViewOf, Pages!Answer
<1>6. CASE q = "project"
  BY <1>3, <1>6 DEF ViewOf, Pages!Answer
<1>7. CASE q = "members"
  BY <1>2, <1>7 DEF ViewOf, Pages!Answer
<1>8. CASE q = "invites"
  BY <1>2, <1>8 DEF ViewOf, Pages!Answer
<1> QED BY <1>4, <1>5, <1>6, <1>7, <1>8 DEF Pages!Query

LEMMA ViewIsCurrent ==
  ASSUME NEW d, NEW q \in Pages!Query, NEW gaps PROVE CurrentIn(q, ViewOf(q, d), d, gaps)
BY DEF CurrentIn, ViewOf, SameIn, Pages!Query

(* The projects that are listed, without their names.                      *)
LEMMA FirstsAreLive == ASSUME NEW d PROVE Firsts(CardOf(d).projects) = LiveIn(d)
<1>1. CardOf(d).projects = ListedIn(d)
  BY DEF CardOf
<1>2. \A p \in LiveIn(d) : <<p, d.projects[p]>>[1] = p
  OBVIOUS
<1> QED BY <1>1, <1>2 DEF Firsts, ListedIn

-----------------------------------------------------------------------------
(* What a request that is done does: queries its form will not ask again   *)
(* stay current, but for the gaps, and nothing is allowed that was not.    *)
CallOK(c) ==
  /\ (c.op \in {"rename", "delete"}) = (c.page \in {"general", "project"})
  /\ (c.op = "create") = (c.page \in {"workspaces", "projects"})
  /\ c.op \in {"rename", "create", "invite", "cancel"} => c.value \in Titles
  /\ c.op \in {"role", "remove"} => c.who \in Pages!Who /\ c.value \in Pages!Role \union {None}
  /\ c.op = "role" => c.value \in Pages!Role

Keeps(d, e, c) ==
  /\ e \in Db /\ e.usage = d.usage
  /\ \A q \in Pages!Query : AllowedIn(q, e) => AllowedIn(q, d)
  /\ \A q \in Pages!Query \ Pages!Changed(c) : AllowedIn(q, e) =>
       \A x, gaps : CurrentIn(q, x, d, gaps) => CurrentIn(q, x, e, gaps \union Pages!Gap(c))

LEMMA SameGrows ==
  ASSUME NEW c, NEW e, NEW g, NEW h, SameIn(c, e, g) PROVE SameIn(c, e, g \union h)
<1>1. c.projects = e.projects => Firsts(c.projects) = Firsts(e.projects)
  OBVIOUS
<1> QED BY <1>1 DEF SameIn

LEMMA RenameWorkspace ==
  ASSUME Pages!SettingsAssumption, NEW d \in Db, NEW c \in Pages!Call, c.page = "general",
         c.op = "rename", c.value \in Titles, MineIn(d), NEW e, e = [d EXCEPT !.name = c.value]
  PROVE  Keeps(d, e, c)
<1>1. e \in Db /\ e.usage = d.usage /\ e.projects = d.projects /\ e.role = d.role
      /\ e.invited = d.invited
  BY DEF Db
<1>2. LiveIn(e) = LiveIn(d)
  BY <1>1 DEF LiveIn
<1>3. \A q \in Pages!Query : AllowedIn(q, e) => AllowedIn(q, d)
  BY <1>1, <1>2 DEF AllowedIn, Pages!Query
<1>4. Pages!Changed(c) = {"workspaces", "workspace"}
  BY DEF Pages!Changed, Pages!ChangedByGeneral, Pages!Lists
<1>5. ASSUME NEW q \in Pages!Query \ Pages!Changed(c) PROVE ViewOf(q, e) = ViewOf(q, d)
  BY <1>1, <1>4 DEF ViewOf, Pages!Query
<1>6. \A q \in Pages!Query \ Pages!Changed(c) : \A x, gaps :
        CurrentIn(q, x, d, gaps) => CurrentIn(q, x, e, gaps \union Pages!Gap(c))
  BY <1>4, <1>5 DEF CurrentIn, Pages!Query
<1> QED BY <1>1, <1>3, <1>6 DEF Keeps

LEMMA DeleteWorkspaceKeeps ==
  ASSUME Pages!SettingsAssumption, NEW d \in Db, NEW c \in Pages!Call, c.page = "general",
         c.op = "delete", NEW e, e = [d EXCEPT !.name = None]
  PROVE  Keeps(d, e, c)
<1>1. e \in Db /\ e.usage = d.usage /\ e.name = None
  BY DEF Db
<1>2. \A q \in Pages!Query : AllowedIn(q, e) => q = "workspaces"
  BY <1>1 DEF AllowedIn, Pages!Query, MineIn
<1>3. "workspaces" \in Pages!Changed(c) /\ AllowedIn("workspaces", d)
  BY DEF Pages!Changed, Pages!ChangedByGeneral, AllowedIn
<1> QED BY <1>1, <1>2, <1>3 DEF Keeps

LEMMA NewWorkspace ==
  ASSUME Pages!SettingsAssumption, NEW d \in Db, NEW c \in Pages!Call, c.page = "workspaces",
         NEW e, e = [d EXCEPT !.more = 1]
  PROVE  Keeps(d, e, c)
<1>1. e \in Db /\ e.usage = d.usage /\ e.projects = d.projects /\ e.role = d.role
      /\ e.invited = d.invited /\ e.name = d.name
  BY DEF Db
<1>2. LiveIn(e) = LiveIn(d) /\ MineIn(e) = MineIn(d) /\ CardOf(e) = CardOf(d)
  BY <1>1 DEF LiveIn, MineIn, CardOf, CountIn, ListedIn
<1>3. \A q \in Pages!Query : AllowedIn(q, e) => AllowedIn(q, d)
  BY <1>1, <1>2 DEF AllowedIn, Pages!Query
<1>4. Pages!Changed(c) = {"workspaces"}
  BY DEF Pages!Changed, Pages!ChangedByNewWorkspace
<1>5. ASSUME NEW q \in Pages!Query \ Pages!Changed(c) PROVE ViewOf(q, e) = ViewOf(q, d)
  BY <1>1, <1>2, <1>4 DEF ViewOf, Pages!Query
<1>6. \A q \in Pages!Query \ Pages!Changed(c) : \A x, gaps :
        CurrentIn(q, x, d, gaps) => CurrentIn(q, x, e, gaps \union Pages!Gap(c))
  BY <1>2, <1>4, <1>5, SameGrows DEF CurrentIn, Pages!Query
<1> QED BY <1>1, <1>3, <1>6 DEF Keeps

(* The lists keep the old name of a project.                               *)
LEMMA RenameProject ==
  ASSUME Pages!SettingsAssumption, NEW d \in Db, NEW c \in Pages!Call, c.page = "project",
         c.op = "rename", c.value \in Titles, 1 \in LiveIn(d), MineIn(d),
         NEW e, e = [d EXCEPT !.projects[1] = c.value]
  PROVE  Keeps(d, e, c)
<1>1. e \in Db /\ e.usage = d.usage /\ e.role = d.role /\ e.invited = d.invited
      /\ e.name = d.name /\ e.more = d.more
      /\ e.projects = [d.projects EXCEPT ![1] = c.value]
  BY DEF Db, Pages!Project
<1>2. LiveIn(e) = LiveIn(d)
  <2>1. d.projects \in [Pages!Project -> Titles \union {None}]
    BY DEF Db
  <2> QED BY <1>1, <2>1 DEF LiveIn, Pages!Project
<1>3. MineIn(e) = MineIn(d) /\ CountIn(e) = CountIn(d)
      /\ Firsts(CardOf(e).projects) = Firsts(CardOf(d).projects)
      /\ CardOf(e).name = CardOf(d).name /\ CardOf(e).role = CardOf(d).role
      /\ CardOf(e).count = CardOf(d).count
  <2>1. MineIn(e) = MineIn(d) /\ CountIn(e) = CountIn(d)
    BY <1>1 DEF MineIn, CountIn
  <2> QED BY <1>1, <1>2, <2>1, FirstsAreLive DEF CardOf
<1>4. \A q \in Pages!Query : AllowedIn(q, e) => AllowedIn(q, d)
  BY <1>1, <1>2, <1>3 DEF AllowedIn, Pages!Query
<1>5. Pages!Changed(c) = {"project"} /\ Pages!Gap(c) = {"project names"}
  BY DEF Pages!Changed, Pages!ChangedByProject, Pages!Gap
<1>6. ASSUME NEW x, NEW gaps, SameIn(x, CardOf(d), gaps)
      PROVE  SameIn(x, CardOf(e), gaps \union Pages!Gap(c))
  <2>1. "project names" \in gaps \union Pages!Gap(c)
        /\ ("members" \notin gaps \union Pages!Gap(c) => "members" \notin gaps)
    BY <1>5
  <2>2. Firsts(x.projects) = Firsts(CardOf(d).projects)
    BY <1>6 DEF SameIn
  <2> QED BY <1>3, <1>6, <2>1, <2>2 DEF SameIn
<1>7. ASSUME NEW q \in Pages!Query \ Pages!Changed(c), NEW x, NEW gaps, CurrentIn(q, x, d, gaps)
      PROVE  CurrentIn(q, x, e, gaps \union Pages!Gap(c))
  <2>1. CASE q = "workspaces"
    BY <1>1, <1>3, <1>6, <1>7, <2>1 DEF CurrentIn
  <2>2. CASE q = "workspace"
    BY <1>6, <1>7, <2>2 DEF CurrentIn
  <2>3. CASE q \in {"members", "invites"}
    BY <1>1, <1>7, <2>3 DEF CurrentIn, ViewOf
  <2> QED BY <1>5, <2>1, <2>2, <2>3 DEF Pages!Query
<1> QED BY <1>1, <1>4, <1>7 DEF Keeps

LEMMA DeleteProjectKeeps ==
  ASSUME Pages!SettingsAssumption, NEW d \in Db, NEW c \in Pages!Call, c.page = "project",
         c.op = "delete", NEW e, e = [d EXCEPT !.projects[1] = None]
  PROVE  Keeps(d, e, c)
<1>1. e \in Db /\ e.usage = d.usage /\ e.role = d.role /\ e.invited = d.invited
      /\ e.name = d.name /\ e.more = d.more
      /\ e.projects = [d.projects EXCEPT ![1] = None]
  BY DEF Db, Pages!Project
<1>2. 1 \notin LiveIn(e)
  <2>1. d.projects \in [Pages!Project -> Titles \union {None}] /\ None \notin Titles
    BY DEF Db, Pages!SettingsAssumption
  <2> QED BY <1>1, <2>1 DEF LiveIn, Pages!Project
<1>3. MineIn(e) = MineIn(d)
  BY <1>1 DEF MineIn
<1>4. \A q \in Pages!Query : AllowedIn(q, e) => AllowedIn(q, d) /\ q # "project"
  BY <1>1, <1>2, <1>3 DEF AllowedIn, Pages!Query
<1>5. Pages!Changed(c) = {"workspaces", "workspace"}
  BY DEF Pages!Changed, Pages!ChangedByProject, Pages!Lists
<1>6. \A q \in Pages!Query \ Pages!Changed(c) : \A x, gaps :
        q # "project" /\ CurrentIn(q, x, d, gaps) => CurrentIn(q, x, e, gaps \union Pages!Gap(c))
  BY <1>1, <1>5 DEF CurrentIn, Pages!Query, ViewOf
<1> QED BY <1>1, <1>4, <1>6 DEF Keeps

LEMMA NewProject ==
  ASSUME Pages!SettingsAssumption, NEW d \in Db, NEW c \in Pages!Call, c.page = "projects",
         c.value \in Titles, NEW e, e = [d EXCEPT !.projects[2] = c.value]
  PROVE  Keeps(d, e, c)
<1>1. e \in Db /\ e.usage = d.usage /\ e.role = d.role /\ e.invited = d.invited
      /\ e.name = d.name /\ e.more = d.more /\ e.projects[1] = d.projects[1]
  BY DEF Db, Pages!Project
<1>2. MineIn(e) = MineIn(d) /\ (1 \in LiveIn(e)) = (1 \in LiveIn(d))
  BY <1>1 DEF MineIn, LiveIn, Pages!Project
<1>3. \A q \in Pages!Query : AllowedIn(q, e) => AllowedIn(q, d)
  BY <1>1, <1>2 DEF AllowedIn, Pages!Query
<1>4. Pages!Changed(c) = {"workspaces", "workspace"}
  BY DEF Pages!Changed, Pages!ChangedByNewProject, Pages!Lists
<1>5. \A q \in Pages!Query \ Pages!Changed(c) : \A x, gaps :
        CurrentIn(q, x, d, gaps) => CurrentIn(q, x, e, gaps \union Pages!Gap(c))
  BY <1>1, <1>4 DEF CurrentIn, Pages!Query, ViewOf
<1> QED BY <1>1, <1>3, <1>5 DEF Keeps

LEMMA ChangeRole ==
  ASSUME Pages!SettingsAssumption, NEW d \in Db, NEW c \in Pages!Call, c.page = "members",
         c.op \in {"role", "remove"}, c.who \in Pages!Who, c.value \in Pages!Role \union {None},
         c.op = "role" => c.value # None,
         d.role[c.who] # None, MineIn(d), d.role["me"] = "ADMIN",
         NEW e, e = [d EXCEPT !.role = [d.role EXCEPT ![c.who] = c.value]]
  PROVE  Keeps(d, e, c)
<1>1. e \in Db /\ e.usage = d.usage /\ e.projects = d.projects /\ e.invited = d.invited
      /\ e.name = d.name /\ e.more = d.more
      /\ e.role = [d.role EXCEPT ![c.who] = c.value]
  BY DEF Db
<1>2. LiveIn(e) = LiveIn(d) /\ ListedIn(e) = ListedIn(d)
  BY <1>1 DEF LiveIn, ListedIn
<1>3. \A q \in Pages!Query : AllowedIn(q, e) => AllowedIn(q, d)
  BY <1>1, <1>2 DEF AllowedIn, Pages!Query, MineIn
<1>4. Pages!Changed(c) = {"members"}
  BY DEF Pages!Changed, Pages!ChangedByMembers
<1>5. CASE c.op = "remove" \/ c.who = "me"
  <2>1. Pages!Gap(c) = {"members"}
    BY <1>5 DEF Pages!Gap
  <2>2. ASSUME NEW x, NEW gaps, SameIn(x, CardOf(d), gaps)
        PROVE  SameIn(x, CardOf(e), gaps \union Pages!Gap(c))
    <3>1. CardOf(e).name = CardOf(d).name /\ CardOf(e).projects = CardOf(d).projects
      BY <1>1, <1>2 DEF CardOf
    <3>2. SameIn(x, CardOf(d), gaps \union Pages!Gap(c))
      BY <2>2, SameGrows
    <3> QED BY <2>1, <3>1, <3>2 DEF SameIn
  <2>3. ASSUME NEW q \in Pages!Query \ Pages!Changed(c), AllowedIn(q, e), NEW x, NEW gaps,
               CurrentIn(q, x, d, gaps)
        PROVE  CurrentIn(q, x, e, gaps \union Pages!Gap(c))
    <3>1. CASE q = "workspaces"
      BY <1>1, <2>1, <2>2, <2>3, <3>1 DEF CurrentIn
    <3>2. CASE q = "workspace"
      BY <2>2, <2>3, <3>2 DEF CurrentIn
    <3>3. CASE q \in {"project", "invites"}
      BY <1>1, <2>3, <3>3 DEF CurrentIn, ViewOf
    <3> QED BY <1>4, <3>1, <3>2, <3>3 DEF Pages!Query
  <2> QED BY <1>1, <1>3, <2>3 DEF Keeps
<1>6. CASE c.op = "role" /\ c.who # "me"
  <2>1. c.who = "other" /\ c.value \in Pages!Role
    BY <1>6 DEF Pages!Who
  <2>2. \A w \in Pages!Who : (e.role[w] # None) = (d.role[w] # None)
    BY <1>1, <2>1 DEF Db, Pages!Who, Pages!SettingsAssumption
  <2>3. CountIn(e) = CountIn(d)
    BY <2>2 DEF CountIn
  <2>4. e.role["me"] = d.role["me"]
    BY <1>1, <2>1 DEF Db
  <2>5. CardOf(e) = CardOf(d) /\ MineIn(e) = MineIn(d)
    BY <1>1, <1>2, <2>3, <2>4 DEF CardOf, MineIn
  <2>6. ASSUME NEW q \in Pages!Query \ Pages!Changed(c) PROVE ViewOf(q, e) = ViewOf(q, d)
    BY <1>1, <1>4, <2>5 DEF ViewOf, Pages!Query
  <2>7. \A q \in Pages!Query \ Pages!Changed(c) : \A x, gaps :
          CurrentIn(q, x, d, gaps) => CurrentIn(q, x, e, gaps \union Pages!Gap(c))
    BY <1>1, <1>4, <2>5, <2>6, SameGrows DEF CurrentIn, Pages!Query
  <2> QED BY <1>1, <1>3, <2>7 DEF Keeps
<1> QED BY <1>5, <1>6

LEMMA ChangeInvites ==
  ASSUME Pages!SettingsAssumption, NEW d \in Db, NEW c \in Pages!Call, c.page = "members",
         c.op \in {"invite", "cancel"}, NEW invited \in SUBSET Titles,
         NEW e, e = [d EXCEPT !.invited = invited]
  PROVE  Keeps(d, e, c)
<1>1. e \in Db /\ e.usage = d.usage /\ e.role = d.role /\ e.projects = d.projects
      /\ e.name = d.name /\ e.more = d.more
  BY DEF Db
<1>2. LiveIn(e) = LiveIn(d) /\ MineIn(e) = MineIn(d) /\ CardOf(e) = CardOf(d)
  BY <1>1 DEF LiveIn, MineIn, CardOf, CountIn, ListedIn
<1>3. \A q \in Pages!Query : AllowedIn(q, e) => AllowedIn(q, d)
  BY <1>1, <1>2 DEF AllowedIn, Pages!Query
<1>4. Pages!Changed(c) = {"invites"}
  BY DEF Pages!Changed, Pages!ChangedByMembers
<1>5. ASSUME NEW q \in Pages!Query \ Pages!Changed(c) PROVE ViewOf(q, e) = ViewOf(q, d)
  BY <1>1, <1>2, <1>4 DEF ViewOf, Pages!Query
<1>6. \A q \in Pages!Query \ Pages!Changed(c) : \A x, gaps :
        CurrentIn(q, x, d, gaps) => CurrentIn(q, x, e, gaps \union Pages!Gap(c))
  BY <1>1, <1>2, <1>4, <1>5, SameGrows DEF CurrentIn, Pages!Query
<1> QED BY <1>1, <1>3, <1>6 DEF Keeps

(* Only renames and deletions touch the names of the pages.                *)
SameNames(d, e) == e.name = d.name /\ e.projects[1] = d.projects[1]

LEMMA DoneKeeps ==
  ASSUME Pages!SettingsAssumption, base \in Db, NEW c \in Pages!Call, CallOK(c),
         Pages!Done(c)
  PROVE  /\ Keeps(base, base', c)
         /\ c.op \notin {"rename", "delete"} => SameNames(base, base')
<1>1. Pages!Mine = MineIn(base) /\ Pages!Live = LiveIn(base)
        /\ Pages!Admin = (MineIn(base) /\ base.role["me"] = "ADMIN")
  BY DEF Pages!Mine, MineIn, Pages!Live, LiveIn, Pages!Admin
<1>2. CASE c.page = "general"
  <2>1. Pages!PutWorkspace(c) \/ Pages!DeleteWorkspace(c)
    BY <1>2 DEF Pages!Done
  <2>2. c.op \in {"rename", "delete"}
    BY <2>1 DEF Pages!PutWorkspace, Pages!DeleteWorkspace
  <2>3. CASE Pages!PutWorkspace(c)
    BY <1>1, <1>2, <2>2, <2>3, RenameWorkspace DEF Pages!PutWorkspace, CallOK
  <2>4. CASE Pages!DeleteWorkspace(c)
    BY <1>1, <1>2, <2>2, <2>4, DeleteWorkspaceKeeps DEF Pages!DeleteWorkspace
  <2> QED BY <2>1, <2>2, <2>3, <2>4
<1>3. CASE c.page = "project"
  <2>1. Pages!PatchProject(c) \/ Pages!DeleteProject(c)
    BY <1>3 DEF Pages!Done
  <2>2. c.op \in {"rename", "delete"}
    BY <2>1 DEF Pages!PatchProject, Pages!DeleteProject
  <2>3. CASE Pages!PatchProject(c)
    BY <1>1, <1>3, <2>2, <2>3, RenameProject DEF Pages!PatchProject, CallOK
  <2>4. CASE Pages!DeleteProject(c)
    BY <1>1, <1>3, <2>2, <2>4, DeleteProjectKeeps DEF Pages!DeleteProject
  <2> QED BY <2>1, <2>2, <2>3, <2>4
<1>4. CASE c.page = "workspaces"
  <2>1. base' = [base EXCEPT !.more = 1]
    BY <1>4 DEF Pages!Done, Pages!PostWorkspace
  <2>2. SameNames(base, base')
    BY <2>1 DEF SameNames, Db
  <2> QED BY <1>4, <2>1, <2>2, NewWorkspace
<1>5. CASE c.page = "projects"
  <2>1. base' = [base EXCEPT !.projects[2] = c.value] /\ c.value \in Titles
    BY <1>5 DEF Pages!Done, Pages!PostProject, CallOK
  <2>2. SameNames(base, base')
    BY <2>1 DEF SameNames, Db
  <2> QED BY <1>5, <2>1, <2>2, NewProject
<1>6. CASE c.page = "members"
  <2>1. Pages!ChangeMembers(c) /\ base.invited \subseteq Titles
    BY <1>6 DEF Pages!Done, Db
  <2>2. CASE c.op \in {"role", "remove"}
    <3>1. base' = [base EXCEPT !.role = [base.role EXCEPT ![c.who] = c.value]]
          /\ base.role[c.who] # None
      BY <2>1, <2>2 DEF Pages!ChangeMembers
    <3>2. SameNames(base, base')
      BY <3>1 DEF SameNames, Db
    <3>3. c.who \in Pages!Who /\ c.value \in Pages!Role \union {None} /\ Pages!Admin
          /\ (c.op = "role" => c.value # None)
      BY <2>1, <2>2 DEF CallOK, Pages!ChangeMembers, Pages!SettingsAssumption
    <3> QED BY <1>1, <1>6, <2>2, <3>1, <3>2, <3>3, ChangeRole
  <2>3. CASE c.op \notin {"role", "remove"}
    <3>1. PICK invited \in SUBSET Titles : base' = [base EXCEPT !.invited = invited]
      BY <2>1, <2>3 DEF Pages!ChangeMembers, CallOK
    <3>2. SameNames(base, base') /\ c.op \in {"invite", "cancel"}
      BY <2>1, <2>3, <3>1 DEF SameNames, Db, Pages!ChangeMembers
    <3> QED BY <1>6, <3>1, <3>2, ChangeInvites
  <2> QED BY <2>2, <2>3
<1> QED BY <1>2, <1>3, <1>4, <1>5, <1>6 DEF Pages!Call, Pages!Page

-----------------------------------------------------------------------------
(* The cache.                                                              *)
Entry(q) ==
  [data : Pages!Answer(q) \union {None}, marked : BOOLEAN, st : {"idle", "asked", "read"},
   ans : Pages!Answer(q) \union {None}]

QueriesOK(Q) ==
  /\ Q = [q \in Pages!Query |-> Q[q]]
  /\ \A q \in Pages!Query : Q[q] \in Entry(q) /\ (Q[q].st = "read") = (Q[q].ans # None)

(* The data of q is the same, and nothing has been read for it.            *)
Stays(Q, R, q) ==
  /\ R[q].data = Q[q].data /\ R[q].marked = Q[q].marked
  /\ R[q].st = "read" => Q[q].st = "read" /\ R[q].ans = Q[q].ans

LEMMA MountedKeeps ==
  ASSUME NEW Q, QueriesOK(Q), NEW page, NEW old
  PROVE  /\ QueriesOK(Pages!Mounted(Q, page, old))
         /\ \A q \in Pages!Query : Stays(Q, Pages!Mounted(Q, page, old), q)
         /\ \A q \in Pages!Query \intersect Pages!Reads(page, Q) :
              Pages!Mounted(Q, page, old)[q].st = "idle" => ~Q[q].marked /\ Q[q].data # None
<1> DEFINE R == Pages!Mounted(Q, page, old)
<1>1. R = [q \in Pages!Query |-> R[q]]
  BY DEF Pages!Mounted
<1>2. ASSUME NEW q \in Pages!Query
      PROVE  /\ R[q] \in Entry(q) /\ (R[q].st = "read") = (R[q].ans # None) /\ Stays(Q, R, q)
             /\ q \in Pages!Reads(page, Q) /\ R[q].st = "idle" => ~Q[q].marked /\ Q[q].data # None
  <2>1. Q[q] \in Entry(q) /\ (Q[q].st = "read") = (Q[q].ans # None)
    BY DEF QueriesOK
  <2>2. CASE R[q] = Q[q]
    <3>1. q \in Pages!Reads(page, Q) /\ Q[q].st = "idle" => ~Q[q].marked /\ Q[q].data # None
      <4>1. SUFFICES ASSUME q \in Pages!Reads(page, Q), Q[q].st = "idle",
                            Q[q].marked \/ Q[q].data = None
                     PROVE  FALSE
        OBVIOUS
      <4>2. R[q] = Pages!Fetching(Q, q)
        BY <4>1 DEF Pages!Mounted
      <4>3. R[q].st = "asked"
        BY <2>1, <4>2 DEF Pages!Fetching, Entry
      <4> QED BY <2>2, <4>1, <4>3
    <3> QED BY <2>1, <2>2, <3>1 DEF Stays
  <2>3. CASE R[q] = Pages!Fetching(Q, q)
    <3>1. /\ R[q] \in Entry(q) /\ R[q].st = "asked" /\ R[q].ans = None
          /\ R[q].data = Q[q].data /\ R[q].marked = Q[q].marked
      BY <2>1, <2>3 DEF Pages!Fetching, Entry
    <3> QED BY <3>1 DEF Stays
  <2>4. R[q] = Q[q] \/ R[q] = Pages!Fetching(Q, q)
    BY DEF Pages!Mounted
  <2> QED BY <2>2, <2>3, <2>4
<1> QED BY <1>1, <1>2 DEF QueriesOK

LEMMA ReadsSame ==
  ASSUME NEW Q, NEW R, (R["project"].data = None) = (Q["project"].data = None), NEW page
  PROVE  Pages!Reads(page, R) = Pages!Reads(page, Q)
BY DEF Pages!Reads, Pages!ProjectTab

LEMMA ReadsQueries ==
  ASSUME NEW Q, NEW page \in Pages!Page
  PROVE  Pages!Reads(page, Q) \subseteq Pages!Query
BY DEF Pages!Reads, Pages!Page, Pages!Query, Pages!WorkspacesPage, Pages!ProjectsPage,
       Pages!GeneralTab, Pages!MembersTab, Pages!ProjectTab

LEMMA InvalidatedKeeps ==
  ASSUME QueriesOK(cached), NEW qs \in SUBSET Pages!Query, NEW R, R = Pages!Invalidated(qs)
  PROVE  /\ QueriesOK(R)
         /\ \A q \in Pages!Query :
                    /\ R[q].data = cached[q].data
                    /\ q \notin qs => R[q] = cached[q]
                    /\ q \in qs => R[q].marked \/ R[q].data = None
                    /\ q \in qs /\ R[q].st = "read" => q \in Pages!Crossed(qs)
                    /\ R[q].st = "read" => cached[q].st = "read" /\ R[q].ans = cached[q].ans
                    /\ q \in qs /\ Pages!IsActive(q) /\ R[q].st = "idle" => ~R[q].marked
<1>1. R = [q \in Pages!Query |-> R[q]]
  BY DEF Pages!Invalidated
<1>2. ASSUME NEW q \in Pages!Query
      PROVE  /\ R[q] \in Entry(q) /\ (R[q].st = "read") = (R[q].ans # None)
             /\ R[q].data = cached[q].data
             /\ q \notin qs => R[q] = cached[q]
             /\ q \in qs => R[q].marked \/ R[q].data = None
             /\ q \in qs /\ R[q].st = "read" => q \in Pages!Crossed(qs)
             /\ R[q].st = "read" => cached[q].st = "read" /\ R[q].ans = cached[q].ans
             /\ q \in qs /\ Pages!IsActive(q) /\ R[q].st = "idle" => ~R[q].marked
  <2>1. cached[q] \in Entry(q) /\ (cached[q].st = "read") = (cached[q].ans # None)
    BY DEF QueriesOK
  <2>2. CASE q \notin qs
    BY <2>1, <2>2 DEF Pages!Invalidated
  <2>3. CASE q \in qs /\ cached[q] = Pages!Empty
    <3>1. R[q] = Pages!Empty
      BY <2>3 DEF Pages!Invalidated
    <3> QED BY <2>1, <2>3, <3>1 DEF Pages!Empty
  <2>4. CASE q \in qs /\ cached[q] # Pages!Empty /\ (Pages!GoesOn(q) \/ ~Pages!IsActive(q))
    <3>1. R[q] = [cached[q] EXCEPT !.marked = TRUE]
      BY <2>4 DEF Pages!Invalidated
    <3>2. /\ R[q] \in Entry(q) /\ R[q].marked /\ R[q].st = cached[q].st
          /\ R[q].ans = cached[q].ans /\ R[q].data = cached[q].data
      BY <2>1, <3>1 DEF Entry
    <3>3. R[q].st = "read" => Pages!GoesOn(q)
      BY <2>4, <3>2 DEF Pages!GoesOn
    <3>4. R[q].st = "read" => q \in Pages!Crossed(qs)
      BY <2>4, <3>2, <3>3 DEF Pages!Crossed
    <3>5. Pages!IsActive(q) => R[q].st # "idle"
      BY <2>4, <3>2 DEF Pages!GoesOn
    <3> QED BY <2>1, <2>4, <3>2, <3>4, <3>5
  <2>5. CASE q \in qs /\ cached[q] # Pages!Empty /\ ~(Pages!GoesOn(q) \/ ~Pages!IsActive(q))
    <3>1. R[q] = [Pages!Fetching(cached, q) EXCEPT !.marked = TRUE]
      BY <2>5 DEF Pages!Invalidated
    <3>2. /\ R[q] \in Entry(q) /\ R[q].marked /\ R[q].st = "asked" /\ R[q].ans = None
          /\ R[q].data = cached[q].data
      BY <2>1, <3>1 DEF Entry, Pages!Fetching
    <3> QED BY <2>5, <3>2
  <2> QED BY <2>2, <2>3, <2>4, <2>5
<1> QED BY <1>1, <1>2 DEF QueriesOK

-----------------------------------------------------------------------------
(* The invariant.                                                          *)
Hist ==
  [behind : BOOLEAN, crossed : SUBSET Pages!Query, gaps : SUBSET {"project names", "members"},
   eager : BOOLEAN, wiped : BOOLEAN]

Draft == [name : Titles \union {None}, confirm : Titles \union {None}]

PagesInv ==
  /\ tour \in Tours /\ base \in Db /\ QueriesOK(cached)
  /\ at \in tour.pages \union {"workspaces", "projects"}
  /\ typed \in Draft /\ told \in Hist
  /\ asked \in [Slots -> Pages!Call \union {None}]
  /\ \A s \in Slots : asked[s] # None => CallOK(asked[s])

(* A change whose form has yet to hear of it.                              *)
ExcusedBy(C, q) == \E s \in Slots : C[s] # None /\ C[s].st = "ok" /\ q \in Pages!Changed(C[s])

(* What is not marked is current, and so is what a fetch has read.         *)
PagesCacheInv ==
  ~told.behind => \A q \in Pages!Query \ told.crossed :
    AllowedIn(q, base) /\ ~ExcusedBy(asked, q) =>
      /\ cached[q].data # None /\ ~cached[q].marked
           => CurrentIn(q, cached[q].data, base, told.gaps)
      /\ cached[q].st = "read" => CurrentIn(q, cached[q].ans, base, told.gaps)

(* What is marked and shown is asked again.                                *)
MarkInv ==
  ~told.behind => \A q \in Pages!Reads(at, cached) :
    cached[q].marked /\ cached[q].st = "idle" => ~AllowedIn(q, base)

(* Only the job writes the usage.                                          *)
UsageInv ==
  ~told.behind =>
    /\ base.usage = 0
    /\ cached["workspace"].data # None => cached["workspace"].data.usage = 0
    /\ cached["workspace"].st = "read" => cached["workspace"].ans.usage = 0

(* One rename or deletion at a time, and a deletion of the present name.   *)
Edits(C, s) == C[s] # None /\ C[s].op \in {"rename", "delete"}
EditInv == ~told.eager => \A s, t \in Slots : Edits(asked, s) /\ Edits(asked, t) => s = t

Straight == ~told.behind /\ ~told.eager /\ told.crossed = {}
NameOf(q, d) == IF q = "workspace" THEN d.name ELSE d.projects[1]

DeleteInv ==
  Straight => \A s \in Slots :
    /\ asked[s] # None /\ asked[s].op = "delete" /\ asked[s].st = "asked"
    /\ AllowedIn(Pages!Shown(asked[s].page), base)
    => asked[s].value = NameOf(Pages!Shown(asked[s].page), base)

(* What is typed is nowhere yet, or on its way to become the name.         *)
PagesClean == Straight /\ told.gaps = {}
TypedInv ==
  PagesClean /\ Pages!OnGeneral /\ typed.name # Pages!NameShown =>
    /\ \A s \in Slots : asked[s] # None =>
         /\ asked[s].page = at /\ Edits(asked, s)
         /\ asked[s].op = "rename" => asked[s].value = typed.name
    /\ AllowedIn(Pages!Shown(at), base) =>
         \/ ViewOf(Pages!Shown(at), base) = cached[Pages!Shown(at)].data
         \/ NameOf(Pages!Shown(at), base) = typed.name
    /\ cached[Pages!Shown(at)].st = "read" =>
         \/ cached[Pages!Shown(at)].ans = cached[Pages!Shown(at)].data
         \/ Pages!NameIn(Pages!Shown(at), cached[Pages!Shown(at)].ans) = typed.name

KeptInv == told.wiped => ~PagesClean

SettingsInv ==
  /\ PagesInv /\ PagesCacheInv /\ MarkInv /\ UsageInv
  /\ EditInv /\ DeleteInv /\ TypedInv /\ KeptInv

LEMMA SettingsSay ==
  ASSUME Pages!SettingsAssumption, SettingsInv
  PROVE  Pages!TypeOK /\ Pages!CacheIsCurrent /\ Pages!TypingIsKept
<1>1. Pages!TypeOK
  BY DEF SettingsInv, PagesInv, Pages!TypeOK, Db, QueriesOK, Entry, Pages!Data, Draft
<1>2. ASSUME \A s \in Slots : asked[s] = None, \A q \in Pages!Query : cached[q].st = "idle",
             ~told.behind, NEW q \in Pages!Query \ told.crossed,
             Pages!Data(q) # None, ~cached[q].marked, Pages!Allowed(q)
      PROVE  Pages!Current(q, Pages!Data(q))
  <2>1. ~ExcusedBy(asked, q)
    BY <1>2 DEF ExcusedBy
  <2>2. CurrentIn(q, cached[q].data, base, told.gaps)
    BY <1>2, <2>1, SameViews DEF SettingsInv, PagesCacheInv, Pages!Data
  <2> QED BY <2>2, SameViews DEF Pages!Data
<1>3. Pages!TypingIsKept
  BY DEF SettingsInv, KeptInv, Pages!TypingIsKept, PagesClean, Straight
<1> QED BY <1>1, <1>2, <1>3 DEF Pages!CacheIsCurrent

(* A step of the cache alone, or of what the user does, leaves what is     *)
(* current so.                                                             *)
LEMMA CacheKept ==
  ASSUME PagesCacheInv, base' = base, told.behind => told'.behind, told'.gaps = told.gaps,
         told.crossed \subseteq told'.crossed,
         \A q \in Pages!Query : q \notin told'.crossed /\ ~ExcusedBy(asked', q) =>
           \/ Stays(cached, cached', q) /\ ~ExcusedBy(asked, q)
           \/ (cached'[q].data = None \/ cached'[q].marked) /\ cached'[q].st # "read"
  PROVE  PagesCacheInv'
BY DEF PagesCacheInv, Stays

LEMMA UsageKept ==
  ASSUME UsageInv, base'.usage = base.usage, told.behind => told'.behind,
         cached'["workspace"].data = cached["workspace"].data,
         cached'["workspace"].st = "read" =>
           /\ cached["workspace"].st = "read"
           /\ cached'["workspace"].ans = cached["workspace"].ans
  PROVE  UsageInv'
BY DEF UsageInv

(* The pages of names, the data they show and the name it says.            *)
LEMMA ShownName ==
  ASSUME Pages!SettingsAssumption, PagesInv, Pages!OnGeneral
  PROVE  /\ Pages!Shown(at) \in Pages!Query \intersect Pages!Reads(at, cached)
         /\ cached[Pages!Shown(at)].data \in Pages!Answer(Pages!Shown(at))
         /\ Pages!NameShown \in Titles \union {None}
<1>1. at \in {"general", "project"} /\ cached[Pages!Shown(at)].data # None
  BY DEF Pages!OnGeneral, Pages!Data
<1>2. Pages!Shown(at) \in Pages!Query \intersect Pages!Reads(at, cached)
  BY <1>1 DEF Pages!Shown, Pages!Query, Pages!Reads, Pages!GeneralTab, Pages!ProjectTab
<1>3. cached[Pages!Shown(at)].data \in Pages!Answer(Pages!Shown(at))
  BY <1>1, <1>2 DEF PagesInv, QueriesOK, Entry
<1>4. Pages!NameIn(Pages!Shown(at), cached[Pages!Shown(at)].data) \in Titles \union {None}
  <2>1. CASE at = "general"
    <3>1. cached["workspace"].data.card \in Pages!AnyCard
      BY <1>3, <2>1 DEF Pages!Shown, Pages!Answer
    <3> QED BY <2>1, <3>1 DEF Pages!Shown, Pages!NameIn, Pages!AnyCard
  <2>2. CASE at = "project"
    BY <1>3, <2>2 DEF Pages!Shown, Pages!Answer, Pages!NameIn
  <2> QED BY <1>1, <2>1, <2>2
<1> QED BY <1>2, <1>3, <1>4 DEF Pages!NameShown, Pages!Data

LEMMA NameOfView ==
  ASSUME NEW d, NEW q \in {"workspace", "project"}
  PROVE  Pages!NameIn(q, ViewOf(q, d)) = NameOf(q, d)
BY DEF Pages!NameIn, ViewOf, NameOf, CardOf

(* While nothing is awaited, the page shows what is stored.                *)
LEMMA PagesAtRest ==
  ASSUME Pages!SettingsAssumption, SettingsInv, Pages!OnGeneral, ~Pages!Busy, ~told.behind,
         Pages!Shown(at) \notin told.crossed, AllowedIn(Pages!Shown(at), base)
  PROVE  /\ Pages!NameShown = NameOf(Pages!Shown(at), base)
         /\ told.gaps = {} => ViewOf(Pages!Shown(at), base) = cached[Pages!Shown(at)].data
         /\ cached[Pages!Shown(at)].st = "idle"
<1> DEFINE q == Pages!Shown(at)
           x == cached[q].data
<1>1. q \in Pages!Query \intersect Pages!Reads(at, cached) /\ q \in {"workspace", "project"}
      /\ x \in Pages!Answer(q) /\ x # None /\ Pages!NameShown = Pages!NameIn(q, x)
  BY ShownName DEF SettingsInv, Pages!OnGeneral, Pages!Shown, Pages!NameShown, Pages!Data
<1>2. (\A s \in Slots : asked[s] = None) /\ cached[q].st = "idle"
  BY <1>1 DEF Pages!Busy, Pages!IsActive
<1>3. ~cached[q].marked /\ ~ExcusedBy(asked, q)
  BY <1>1, <1>2 DEF SettingsInv, MarkInv, ExcusedBy
<1>4. CurrentIn(q, x, base, told.gaps)
  BY <1>1, <1>3 DEF SettingsInv, PagesCacheInv
<1>5. CASE q = "project"
  BY <1>1, <1>2, <1>4, <1>5, NameOfView DEF CurrentIn
<1>6. CASE q = "workspace"
  <2>1. SameIn(x.card, CardOf(base), told.gaps) /\ x.usage = base.usage
    BY <1>1, <1>4, <1>6 DEF CurrentIn, SettingsInv, UsageInv
  <2>2. x.card \in Pages!AnyCard /\ x = [card |-> x.card, usage |-> x.usage]
    BY <1>1, <1>6 DEF Pages!Answer
  <2>3. Pages!NameShown = base.name
    BY <1>1, <1>6, <2>1 DEF Pages!NameIn, SameIn, CardOf
  <2>4. told.gaps = {} => x.card = CardOf(base)
    <3>1. x.card = [name |-> x.card.name, role |-> x.card.role, count |-> x.card.count,
                    projects |-> x.card.projects]
      BY <2>2 DEF Pages!AnyCard
    <3> QED BY <2>1, <3>1 DEF SameIn, CardOf
  <2> QED BY <1>2, <1>6, <2>1, <2>2, <2>3, <2>4 DEF ViewOf, NameOf
<1> QED BY <1>1, <1>5, <1>6

-----------------------------------------------------------------------------
(* The user's steps.                                                       *)
LEMMA EagerSays ==
  ASSUME told \in Hist
  PROVE  /\ Pages!Eager \in Hist /\ Pages!Eager.behind = told.behind
         /\ Pages!Eager.crossed = told.crossed
         /\ Pages!Eager.gaps = told.gaps /\ Pages!Eager.wiped = told.wiped
         /\ Pages!Eager.eager = (told.eager \/ Pages!Busy)
<1>1. PICK b \in BOOLEAN : b = (told.eager \/ Pages!Busy)
  BY DEF Hist, Pages!Busy
<1>2. Pages!Eager = [told EXCEPT !.eager = b]
  BY <1>1 DEF Pages!Eager
<1> QED BY <1>1, <1>2 DEF Hist

LEMMA InitSettings == ASSUME Pages!SettingsAssumption, Pages!Init PROVE SettingsInv
<1>1. tour \in Tours /\ at \in tour.pages /\ None \notin Titles /\ tour.pages \subseteq Pages!Page
  BY DEF Pages!Init, Pages!SettingsAssumption, Pages!Tour
<1>2. PICK r \in Pages!Role, n \in Titles :
        base = [name |-> n, projects |-> [p \in Pages!Project |-> IF p = 1 THEN n ELSE None],
                role |-> [w \in Pages!Who |-> IF w = "me" THEN "ADMIN" ELSE r],
                invited |-> {}, more |-> 0, usage |-> 0]
  BY DEF Pages!Init
<1>3. base \in Db /\ base.usage = 0
  BY <1>2 DEF Db, Pages!Role
<1>4. \A q \in Pages!Query : AllowedIn(q, base)
  BY <1>1, <1>2 DEF AllowedIn, MineIn, LiveIn, Pages!Query, Pages!Project, Pages!Who,
                    Pages!SettingsAssumption, Pages!Role
<1>5. \A q \in Pages!Query : ViewOf(q, base) \in Pages!Answer(q)
  BY <1>3, <1>4, ViewType
<1> DEFINE None0 == [q \in Pages!Query |-> Pages!Empty]
           Full == [q \in Pages!Query |-> [Pages!Empty EXCEPT !.data = Pages!View(q)]]
<1>6. QueriesOK(None0) /\ \A q \in Pages!Query : None0[q].data = None /\ None0[q].st = "idle"
  BY DEF QueriesOK, Entry, Pages!Empty
<1>7. \A q \in Pages!Query : Full[q].data = ViewOf(q, base) /\ Full[q].st = "idle"
        /\ Full[q].ans = None
                             /\ Full[q].marked = FALSE
  BY SameViews DEF Pages!Empty
<1>8. QueriesOK(Full)
  BY <1>5, SameViews DEF QueriesOK, Entry, Pages!Empty
<1>9. /\ QueriesOK(cached)
      /\ \A q \in Pages!Query : /\ cached[q].data = None \/ cached[q].data = ViewOf(q, base)
                                /\ cached[q].st # "read" /\ ~cached[q].marked
  <2>1. CASE cached = Pages!Mounted(None0, at, TRUE)
    <3>1. QueriesOK(cached) /\ \A q \in Pages!Query : Stays(None0, cached, q)
      BY <1>6, <2>1, MountedKeeps
    <3>2. \A q \in Pages!Query : None0[q].marked = FALSE
      BY DEF Pages!Empty
    <3> QED BY <1>6, <3>1, <3>2 DEF Stays
  <2>2. CASE cached = Full
    BY <1>7, <1>8, <2>2
  <2> QED BY <2>1, <2>2 DEF Pages!Init
<1>10. /\ typed = Pages!DraftOf(at, cached) /\ asked = [s \in Slots |-> None]
       /\ told = [behind |-> FALSE, crossed |-> {}, gaps |-> {}, eager |-> FALSE,
                  wiped |-> FALSE]
  BY DEF Pages!Init
<1>11. told \in Hist
  BY <1>10 DEF Hist
<1>12. typed \in Draft /\ (Pages!OnGeneral => typed.name = Pages!NameShown)
  <2>1. CASE Pages!OnGeneral
    <3>1. \A q \in Pages!Query \intersect Pages!Reads(at, cached) : ~cached[q].marked
      BY <1>9
    <3>2. Pages!Shown(at) \in {"workspace", "project"} /\ at \in {"general", "project"}
          /\ cached[Pages!Shown(at)].data # None
      BY <2>1 DEF Pages!OnGeneral, Pages!Shown, Pages!Data
    <3>3. cached[Pages!Shown(at)].data = ViewOf(Pages!Shown(at), base)
      BY <1>9, <3>2 DEF Pages!Query
    <3>4. Pages!NameShown = NameOf(Pages!Shown(at), base)
      BY <3>2, <3>3, NameOfView DEF Pages!NameShown, Pages!Data
    <3>5. NameOf(Pages!Shown(at), base) \in Titles \union {None}
      BY <1>3 DEF NameOf, Db, Pages!Project
    <3>6. typed = [Pages!Blank EXCEPT !.name = Pages!NameShown]
      BY <1>10, <3>2 DEF Pages!DraftOf, Pages!NameShown, Pages!Data
    <3> QED BY <3>4, <3>5, <3>6 DEF Pages!Blank, Draft
  <2>2. CASE ~Pages!OnGeneral
    <3>1. typed = Pages!Blank
      BY <1>10, <2>2 DEF Pages!DraftOf, Pages!OnGeneral, Pages!Data
    <3> QED BY <2>2, <3>1 DEF Pages!Blank, Draft
  <2> QED BY <2>1, <2>2
<1>13. PagesInv
  BY <1>1, <1>3, <1>9, <1>10, <1>11, <1>12 DEF PagesInv
<1>14. PagesCacheInv
  BY <1>9, ViewIsCurrent DEF PagesCacheInv
<1>15. MarkInv
  <2>1. Pages!Reads(at, cached) \subseteq Pages!Query
    BY <1>1, ReadsQueries
  <2> QED BY <1>9, <2>1 DEF MarkInv
<1>16. UsageInv
  BY <1>3, <1>9 DEF UsageInv, Pages!Query, ViewOf
<1>17. EditInv /\ DeleteInv /\ KeptInv
  BY <1>10 DEF EditInv, Edits, DeleteInv, KeptInv
<1>18. TypedInv
  BY <1>12 DEF TypedInv
<1> QED BY <1>13, <1>14, <1>15, <1>16, <1>17, <1>18 DEF SettingsInv

(* Typing.                                                                 *)
LEMMA DraftStep ==
  ASSUME Pages!SettingsAssumption, SettingsInv, Pages!OnGeneral, typed' \in Draft,
         told' = Pages!Eager,
         UNCHANGED <<tour, base, cached, at, asked, elses>>
  PROVE  SettingsInv'
<1>1. /\ told' \in Hist /\ told'.behind = told.behind /\ told'.crossed = told.crossed
      /\ told'.gaps = told.gaps /\ told'.wiped = told.wiped
      /\ told'.eager = (told.eager \/ Pages!Busy)
  BY EagerSays DEF SettingsInv, PagesInv
<1>2. PagesInv'
  BY <1>1 DEF SettingsInv, PagesInv
<1>3. PagesCacheInv' /\ MarkInv' /\ UsageInv'
  BY <1>1 DEF SettingsInv, PagesCacheInv, MarkInv, UsageInv
<1>4. EditInv' /\ DeleteInv' /\ KeptInv'
  BY <1>1 DEF SettingsInv, EditInv, DeleteInv, KeptInv, PagesClean, Straight
<1>5. TypedInv'
  <2>1. SUFFICES ASSUME PagesClean' PROVE TypedInv'
    BY DEF TypedInv
  <2>2. ~Pages!Busy /\ PagesClean
    BY <1>1, <2>1 DEF PagesClean, Straight
  <2>3. \A s \in Slots : asked'[s] = None
    BY <2>2 DEF Pages!Busy
  <2>4. Pages!Shown(at) \in Pages!Query
    BY ShownName DEF SettingsInv
  <2>5. AllowedIn(Pages!Shown(at), base) =>
          ViewOf(Pages!Shown(at), base) = cached[Pages!Shown(at)].data
    BY <2>2, <2>4, PagesAtRest DEF PagesClean, Straight
  <2>6. cached[Pages!Shown(at)].st = "idle"
    BY <2>2, ShownName DEF SettingsInv, Pages!Busy, Pages!IsActive
  <2> QED BY <2>3, <2>5, <2>6 DEF TypedInv
<1> QED BY <1>2, <1>3, <1>4, <1>5 DEF SettingsInv

LEMMA TypeNameStep ==
  ASSUME Pages!SettingsAssumption, SettingsInv, Pages!TypeName, UNCHANGED tour PROVE SettingsInv'
<1>1. PICK n \in Titles : typed' = [typed EXCEPT !.name = n]
  BY DEF Pages!TypeName
<1>2. typed' \in Draft
  BY <1>1 DEF SettingsInv, PagesInv, Draft
<1> QED BY <1>2, DraftStep DEF Pages!TypeName

LEMMA TypeConfirmStep ==
  ASSUME Pages!SettingsAssumption, SettingsInv, NEW page, Pages!TypeConfirm(page), UNCHANGED tour
  PROVE  SettingsInv'
<1>1. PICK n \in Titles : typed' = [typed EXCEPT !.confirm = n]
  BY DEF Pages!TypeConfirm
<1>2. typed' \in Draft
  BY <1>1 DEF SettingsInv, PagesInv, Draft
<1> QED BY <1>2, DraftStep DEF Pages!TypeConfirm

(* What every request has in common.                                       *)
Asks(s, c) ==
  /\ s \in Slots /\ asked[s] = None /\ asked' = [asked EXCEPT ![s] = c]
  /\ c \in Pages!Call /\ c.st = "asked" /\ CallOK(c) /\ c.page = at

LEMMA AskSays ==
  ASSUME Pages!SettingsAssumption, PagesInv,
         NEW op \in {"rename", "delete", "create", "invite", "cancel", "role", "remove"},
         NEW who \in Pages!Who \union {None}, NEW value \in Titles \union Pages!Role \union {None},
         at \in Pages!Page,
         CallOK([op |-> op, page |-> at, who |-> who, value |-> value, st |-> "asked",
                 here |-> TRUE]),
         Pages!Ask(op, who, value)
  PROVE  \E s, c : Asks(s, c) /\ c.op = op /\ c.value = value
<1> DEFINE c == [op |-> op, page |-> at, who |-> who, value |-> value, st |-> "asked",
                 here |-> TRUE]
<1>1. c \in Pages!Call /\ c.st = "asked" /\ c.page = at /\ c.op = op /\ c.value = value
  BY DEF Pages!Call
<1>2. CallOK(c)
  OBVIOUS
<1>3. tour.slots \subseteq Slots
  BY DEF Pages!SettingsAssumption, PagesInv, Pages!Tour
<1>4. PICK s \in tour.slots : asked[s] = None /\ asked' = [asked EXCEPT ![s] = c]
  BY DEF Pages!Ask
<1> HIDE DEF c
<1> QED BY <1>1, <1>2, <1>3, <1>4 DEF Asks

LEMMA AskFrame ==
  ASSUME Pages!SettingsAssumption, SettingsInv, NEW s, NEW c, Asks(s, c),
         told' \in {told, Pages!Eager},
         UNCHANGED <<tour, base, cached, at, typed>>
  PROVE  /\ PagesInv' /\ PagesCacheInv' /\ MarkInv' /\ UsageInv' /\ KeptInv'
         /\ asked'[s] = c /\ \A t \in Slots : t # s => asked'[t] = asked[t]
<1>1. /\ told' \in Hist /\ told'.behind = told.behind /\ told'.crossed = told.crossed
      /\ told'.gaps = told.gaps /\ told'.wiped = told.wiped
      /\ (told.eager => told'.eager)
  BY EagerSays DEF SettingsInv, PagesInv
<1>2. asked \in [Slots -> Pages!Call \union {None}] /\ c # None
  BY DEF SettingsInv, PagesInv, Asks, Pages!SettingsAssumption
<1>3. asked'[s] = c /\ \A t \in Slots : t # s => asked'[t] = asked[t]
  BY <1>2 DEF Asks
<1>4. asked' \in [Slots -> Pages!Call \union {None}] /\ \A t \in Slots : asked'[t] # None =>
        CallOK(asked'[t])
  <2>1. asked' \in [Slots -> Pages!Call \union {None}]
    BY <1>2 DEF Asks
  <2>2. CallOK(c) /\ \A t \in Slots : asked[t] # None => CallOK(asked[t])
    BY DEF Asks, SettingsInv, PagesInv
  <2> QED BY <1>3, <2>1, <2>2
<1>5. PagesInv'
  BY <1>1, <1>4 DEF SettingsInv, PagesInv
<1>6. \A q : ExcusedBy(asked', q) = ExcusedBy(asked, q)
  <2>1. c.st # "ok" /\ asked[s] = None
    BY DEF Asks
  <2> QED BY <1>3, <2>1 DEF ExcusedBy
<1>7. PagesCacheInv'
  BY <1>1, <1>6 DEF SettingsInv, PagesCacheInv
<1>8. MarkInv' /\ UsageInv' /\ KeptInv'
  BY <1>1 DEF SettingsInv, MarkInv, UsageInv, KeptInv, PagesClean, Straight
<1> QED BY <1>3, <1>5, <1>7, <1>8

(* A rename or a deletion is begun alone, or eagerly.                      *)
LEMMA EditStep ==
  ASSUME Pages!SettingsAssumption, SettingsInv, NEW s, NEW c, Asks(s, c), told' = Pages!Eager,
         Pages!OnGeneral, UNCHANGED <<tour, base, cached, at, typed>>,
         c.op \in {"rename", "delete"},
         c.op = "rename" => c.value = typed.name,
         c.op = "delete" => c.value = Pages!NameShown
  PROVE  SettingsInv'
<1>1. PagesInv' /\ PagesCacheInv' /\ MarkInv' /\ UsageInv' /\ KeptInv'
      /\ asked'[s] = c /\ \A t \in Slots : t # s => asked'[t] = asked[t]
  BY AskFrame
<1>2. /\ told'.behind = told.behind /\ told'.crossed = told.crossed
      /\ told'.gaps = told.gaps /\ told'.eager = (told.eager \/ Pages!Busy)
  BY EagerSays DEF SettingsInv, PagesInv
<1>3. ASSUME ~told'.eager PROVE \A t \in Slots : asked'[t] # None => t = s
  BY <1>1, <1>2, <1>3 DEF Pages!Busy
<1>4. EditInv'
  BY <1>3 DEF EditInv, Edits
<1>5. c.page = at /\ c.st = "asked" /\ at \in {"general", "project"}
  BY DEF Asks, Pages!OnGeneral
<1>6. DeleteInv'
  <2>1. SUFFICES ASSUME Straight', c.op = "delete", AllowedIn(Pages!Shown(at), base)
                 PROVE  c.value = NameOf(Pages!Shown(at), base)
    BY <1>1, <1>3, <1>5 DEF DeleteInv, Straight
  <2>2. ~Pages!Busy /\ ~told.behind /\ told.crossed = {}
    BY <1>2, <2>1 DEF Straight
  <2> QED BY <2>1, <2>2, PagesAtRest
<1>7. TypedInv'
  <2>1. SUFFICES ASSUME PagesClean', typed.name # Pages!NameShown PROVE TypedInv'
    BY DEF TypedInv, Pages!NameShown, Pages!Data
  <2>2. PagesClean /\ ~Pages!Busy
    BY <1>2, <2>1 DEF PagesClean, Straight
  <2>3. ~told'.eager
    BY <2>1 DEF PagesClean, Straight
  <2>4. \A t \in Slots : asked'[t] # None =>
          /\ asked'[t].page = at' /\ Edits(asked', t)
          /\ asked'[t].op = "rename" => asked'[t].value = typed'.name
    BY <1>1, <1>3, <1>5, <2>3 DEF Edits
  <2> QED BY <2>1, <2>2, <2>4 DEF TypedInv, SettingsInv
<1> QED BY <1>1, <1>4, <1>6, <1>7 DEF SettingsInv

LEMMA SaveStep ==
  ASSUME Pages!SettingsAssumption, SettingsInv, NEW page, Pages!handleSave(page), UNCHANGED tour
  PROVE  SettingsInv'
<1>1. typed.name \in Titles /\ at \in {"general", "project"} /\ at \in Pages!Page
  BY DEF Pages!handleSave, SettingsInv, PagesInv, Draft, Pages!OnGeneral, Pages!Page
<1>2. \E s, c : Asks(s, c) /\ c.op = "rename" /\ c.value = typed.name
  BY <1>1, AskSays DEF SettingsInv, Pages!handleSave, CallOK
<1> QED BY <1>2, EditStep DEF Pages!handleSave

LEMMA PagesDeleteStep ==
  ASSUME Pages!SettingsAssumption, SettingsInv, NEW page, Pages!handleDelete(page), UNCHANGED tour
  PROVE  SettingsInv'
<1>1. typed.confirm \in Titles \union {None} /\ at \in {"general", "project"} /\ at \in Pages!Page
      /\ typed.confirm = Pages!NameShown
  BY DEF Pages!handleDelete, SettingsInv, PagesInv, Draft, Pages!OnGeneral, Pages!Page
<1>2. \E s, c : Asks(s, c) /\ c.op = "delete" /\ c.value = Pages!NameShown
  BY <1>1, AskSays DEF SettingsInv, Pages!handleDelete, CallOK
<1> QED BY <1>2, EditStep DEF Pages!handleDelete

(* The forms of the other pages.                                           *)
LEMMA FormStep ==
  ASSUME Pages!SettingsAssumption, SettingsInv, NEW s, NEW c, Asks(s, c),
         UNCHANGED <<tour, base, cached, at, typed, told>>,
         c.op \notin {"rename", "delete"}
  PROVE  SettingsInv'
<1>1. PagesInv' /\ PagesCacheInv' /\ MarkInv' /\ UsageInv' /\ KeptInv'
      /\ asked'[s] = c /\ \A t \in Slots : t # s => asked'[t] = asked[t]
  BY AskFrame
<1>2. ~Edits(asked', s) /\ \A t \in Slots : t # s => Edits(asked', t) = Edits(asked, t)
  BY <1>1 DEF Edits
<1>3. EditInv'
  BY <1>2 DEF SettingsInv, EditInv
<1>4. DeleteInv'
  BY <1>1 DEF SettingsInv, DeleteInv, Straight
<1>5. at \notin {"general", "project"}
  BY DEF Asks, CallOK
<1>6. TypedInv'
  BY <1>5 DEF TypedInv, Pages!OnGeneral
<1> QED BY <1>1, <1>3, <1>4, <1>6 DEF SettingsInv

LEMMA SubmitStep ==
  ASSUME Pages!SettingsAssumption, SettingsInv, NEW page \in {"workspaces", "projects"},
         Pages!handleSubmit(page), UNCHANGED tour
  PROVE  SettingsInv'
<1>1. PICK n \in Titles : Pages!Ask("create", None, n)
  BY DEF Pages!handleSubmit
<1>2. at = page /\ at \in Pages!Page
  BY DEF Pages!handleSubmit, Pages!Page
<1>3. \E s, c : Asks(s, c) /\ c.op = "create"
  BY <1>1, <1>2, AskSays DEF SettingsInv, CallOK
<1> QED BY <1>3, FormStep DEF Pages!handleSubmit

LEMMA MembersStep ==
  ASSUME Pages!SettingsAssumption, SettingsInv, UNCHANGED tour,
         Pages!handleInviteMember \/ Pages!handleUpdateRole \/ Pages!RemoveMember
           \/ Pages!CancelInvite
  PROVE  SettingsInv'
<1>1. at = "members" /\ at \in Pages!Page
      /\ UNCHANGED <<base, cached, at, typed, elses, told>>
  BY DEF Pages!handleInviteMember, Pages!handleUpdateRole, Pages!RemoveMember, Pages!CancelInvite,
         Pages!Page
<1>2. Pages!MembersShown \subseteq Pages!Who
  BY DEF Pages!MembersShown
<1>3. Pages!Data("invites") # None => Pages!Data("invites").pending \subseteq Titles
  BY DEF SettingsInv, PagesInv, QueriesOK, Pages!Query, Entry, Pages!Answer, Pages!Data
<1>4. PICK op \in {"invite", "cancel", "role", "remove"}, who \in Pages!Who \union {None},
           value \in Titles \union Pages!Role \union {None} :
        /\ Pages!Ask(op, who, value)
        /\ op \in {"invite", "cancel"} => value \in Titles
        /\ op \in {"role", "remove"} => who \in Pages!Who /\ value \in Pages!Role \union {None}
        /\ op = "role" => value \in Pages!Role
  <2>1. CASE Pages!handleInviteMember
    BY <2>1 DEF Pages!handleInviteMember
  <2>2. CASE Pages!handleUpdateRole
    BY <1>2, <2>2 DEF Pages!handleUpdateRole
  <2>3. CASE Pages!RemoveMember
    BY <1>2, <2>3 DEF Pages!RemoveMember
  <2>4. CASE Pages!CancelInvite
    BY <1>3, <2>4 DEF Pages!CancelInvite
  <2> QED BY <2>1, <2>2, <2>3, <2>4
<1>5. \E s, c : Asks(s, c) /\ c.op = op
  BY <1>1, <1>4, AskSays DEF SettingsInv, CallOK
<1> QED BY <1>1, <1>5, FormStep

LEMMA VisitStep ==
  ASSUME Pages!SettingsAssumption, SettingsInv, Pages!Visit, UNCHANGED tour
  PROVE  SettingsInv'
<1>1. PICK page \in tour.pages, old \in BOOLEAN :
        /\ at' = page /\ cached' = Pages!Mounted(cached, page, old)
        /\ typed' = Pages!DraftOf(page, cached)
  BY DEF Pages!Visit
<1>2. /\ UNCHANGED <<base, told>>
      /\ asked' = [s \in Slots |->
           IF asked[s] = None THEN None ELSE [asked[s] EXCEPT !.here = FALSE]]
  BY DEF Pages!Visit
<1>3. PagesInv /\ page \in Pages!Page
  BY DEF SettingsInv, PagesInv, Pages!SettingsAssumption, Pages!Tour
<1>4. /\ QueriesOK(cached') /\ \A q \in Pages!Query : Stays(cached, cached', q)
      /\ \A q \in Pages!Query \intersect Pages!Reads(page, cached) :
           cached'[q].st = "idle" => ~cached[q].marked /\ cached[q].data # None
  BY <1>1, <1>3, MountedKeeps DEF PagesInv
<1>5. ASSUME NEW s \in Slots
      PROVE  IF asked[s] = None THEN asked'[s] = None
             ELSE /\ asked'[s] \in Pages!Call /\ asked'[s] # None /\ CallOK(asked'[s])
                  /\ asked'[s].op = asked[s].op /\ asked'[s].page = asked[s].page
                  /\ asked'[s].st = asked[s].st /\ asked'[s].value = asked[s].value
                  /\ Pages!Changed(asked'[s]) = Pages!Changed(asked[s])
  <2>1. CASE asked[s] = None
    BY <1>2, <2>1
  <2>2. CASE asked[s] # None
    <3>1. asked[s] \in Pages!Call /\ CallOK(asked[s])
      BY <1>3, <2>2 DEF PagesInv
    <3>2. asked'[s] = [asked[s] EXCEPT !.here = FALSE]
      BY <1>2, <2>2
    <3>3. /\ asked'[s] \in Pages!Call /\ asked'[s].op = asked[s].op
          /\ asked'[s].page = asked[s].page
          /\ asked'[s].st = asked[s].st /\ asked'[s].value = asked[s].value
          /\ asked'[s].who = asked[s].who
      BY <3>1, <3>2 DEF Pages!Call
    <3>4. CallOK(asked'[s]) /\ Pages!Changed(asked'[s]) = Pages!Changed(asked[s])
      BY <3>1, <3>3 DEF CallOK, Pages!Changed
    <3>5. asked'[s] # None
      BY <3>3 DEF Pages!SettingsAssumption
    <3> QED BY <2>2, <3>3, <3>4, <3>5
  <2> QED BY <2>1, <2>2
<1>6. \A q : ExcusedBy(asked', q) = ExcusedBy(asked, q)
  BY <1>5 DEF ExcusedBy
<1>7. typed' \in Draft /\ (Pages!OnGeneral' => typed'.name = Pages!NameShown')
  <2> DEFINE q == Pages!Shown(page)
  <2>0. cached'["project"].data = cached["project"].data
        /\ cached'["workspace"].data = cached["workspace"].data
    BY <1>4 DEF Pages!Query, Stays
  <2>1. CASE page \notin {"general", "project"} \/ cached[q].data = None
    <3>1. typed' = Pages!Blank
      BY <1>1, <2>1 DEF Pages!DraftOf
    <3>2. ~Pages!OnGeneral'
      BY <1>1, <2>0, <2>1 DEF Pages!OnGeneral, Pages!Data, Pages!Shown
    <3> QED BY <3>1, <3>2 DEF Draft, Pages!Blank
  <2>2. CASE page \in {"general", "project"} /\ cached[q].data # None
    <3>1. q \in {"workspace", "project"} /\ cached'[q].data = cached[q].data
      BY <2>0, <2>2 DEF Pages!Shown
    <3>2. typed' = [Pages!Blank EXCEPT !.name = Pages!NameIn(q, cached[q].data)]
      BY <1>1, <2>2 DEF Pages!DraftOf
    <3>3. Pages!NameShown' = Pages!NameIn(q, cached[q].data)
      BY <1>1, <3>1 DEF Pages!NameShown, Pages!Data
    <3>4. Pages!NameIn(q, cached[q].data) \in Titles \union {None}
      <4>1. cached[q].data \in Pages!Answer(q)
        BY <1>3, <2>2, <3>1 DEF PagesInv, QueriesOK, Entry, Pages!Query
      <4>2. q = "workspace" => cached[q].data.card \in Pages!AnyCard
        BY <4>1 DEF Pages!Answer
      <4> QED BY <3>1, <4>1, <4>2 DEF Pages!NameIn, Pages!AnyCard, Pages!Answer
    <3> QED BY <3>2, <3>3, <3>4 DEF Draft, Pages!Blank
  <2> QED BY <2>1, <2>2
<1>8. PagesInv'
  <2>1. asked' \in [Slots -> Pages!Call \union {None}]
    BY <1>2, <1>5
  <2> QED BY <1>1, <1>2, <1>3, <1>4, <1>5, <1>7, <2>1 DEF PagesInv
<1>9. PagesCacheInv'
  BY <1>2, <1>4, <1>6, CacheKept DEF SettingsInv
<1>10. MarkInv'
  <2>1. Pages!Reads(page, cached') = Pages!Reads(page, cached)
    BY <1>4, ReadsSame DEF Stays, Pages!Query
  <2>2. Pages!Reads(page, cached) \subseteq Pages!Query
    BY <1>3, ReadsQueries
  <2> QED BY <1>1, <1>4, <2>1, <2>2 DEF MarkInv, Stays
<1>11. UsageInv'
  BY <1>2, <1>4, UsageKept DEF SettingsInv, Stays, Pages!Query
<1>12. EditInv' /\ DeleteInv' /\ KeptInv'
  BY <1>2, <1>5 DEF SettingsInv, EditInv, Edits, DeleteInv, KeptInv, Straight, PagesClean
<1>13. TypedInv'
  BY <1>7 DEF TypedInv
<1> QED BY <1>8, <1>9, <1>10, <1>11, <1>12, <1>13 DEF SettingsInv

LEMMA PagesRefocusStep ==
  ASSUME Pages!SettingsAssumption, SettingsInv, Pages!Refocus, UNCHANGED tour PROVE SettingsInv'
<1>1. cached' = Pages!Mounted(cached, at, TRUE) /\ UNCHANGED <<base, at, typed, asked, told>>
  BY DEF Pages!Refocus
<1>2. /\ QueriesOK(cached') /\ \A q \in Pages!Query : Stays(cached, cached', q)
      /\ \A q \in Pages!Query \intersect Pages!Reads(at, cached) :
           cached'[q].st = "idle" => ~cached[q].marked /\ cached[q].data # None
  BY <1>1, MountedKeeps DEF SettingsInv, PagesInv
<1>3. PagesInv'
  BY <1>1, <1>2 DEF SettingsInv, PagesInv
<1>4. PagesCacheInv'
  BY <1>1, <1>2, CacheKept DEF SettingsInv
<1>5. MarkInv'
  <2>1. Pages!Reads(at, cached') = Pages!Reads(at, cached)
    BY <1>2, ReadsSame DEF Stays, Pages!Query
  <2>2. at \in Pages!Page
    BY DEF SettingsInv, PagesInv, Pages!SettingsAssumption, Pages!Tour, Pages!Page
  <2>3. Pages!Reads(at, cached) \subseteq Pages!Query
    BY <2>2, ReadsQueries
  <2> QED BY <1>1, <1>2, <2>1, <2>3 DEF MarkInv, Stays
<1>6. UsageInv'
  BY <1>1, <1>2, UsageKept DEF SettingsInv, Stays, Pages!Query
<1>7. EditInv' /\ DeleteInv' /\ KeptInv'
  BY <1>1 DEF SettingsInv, EditInv, DeleteInv, KeptInv, Straight, PagesClean
<1>8. TypedInv'
  <2>1. SUFFICES ASSUME PagesClean', Pages!OnGeneral', typed'.name # Pages!NameShown'
                 PROVE  TypedInv'
    BY DEF TypedInv
  <2>2. Pages!Shown(at) \in Pages!Query
    BY <1>1, <2>1 DEF Pages!OnGeneral, Pages!Shown, Pages!Query
  <2>3. cached'[Pages!Shown(at)].data = cached[Pages!Shown(at)].data
        /\ (cached'[Pages!Shown(at)].st = "read" =>
              /\ cached[Pages!Shown(at)].st = "read"
              /\ cached'[Pages!Shown(at)].ans = cached[Pages!Shown(at)].ans)
    BY <1>2, <2>2 DEF Stays
  <2>4. Pages!OnGeneral /\ typed.name # Pages!NameShown /\ PagesClean
    BY <1>1, <2>1, <2>3 DEF Pages!OnGeneral, Pages!NameShown, Pages!Data, PagesClean, Straight
  <2> QED BY <1>1, <2>3, <2>4 DEF TypedInv, SettingsInv
<1> QED BY <1>3, <1>4, <1>5, <1>6, <1>7, <1>8 DEF SettingsInv

-----------------------------------------------------------------------------
(* The server's steps.  What others do ends every promise but the types.   *)
LEMMA BehindStep ==
  ASSUME SettingsInv, PagesInv', told' = [told EXCEPT !.behind = TRUE],
         \A s \in Slots : Edits(asked', s) => Edits(asked, s)
  PROVE  SettingsInv'
<1>1. told'.behind = TRUE /\ told'.eager = told.eager
  BY DEF SettingsInv, PagesInv, Hist
<1>2. PagesCacheInv' /\ MarkInv' /\ UsageInv' /\ DeleteInv' /\ TypedInv' /\ KeptInv'
  BY <1>1 DEF PagesCacheInv, MarkInv, UsageInv, DeleteInv, TypedInv, KeptInv, PagesClean, Straight
<1>3. EditInv'
  BY <1>1 DEF SettingsInv, EditInv
<1> QED BY <1>2, <1>3 DEF SettingsInv

LEMMA BehindType ==
  ASSUME told \in Hist, told' = [told EXCEPT !.behind = TRUE] PROVE told' \in Hist
BY DEF Hist

LEMMA PagesElsewhereStep ==
  ASSUME Pages!SettingsAssumption, SettingsInv, Pages!Elsewhere, UNCHANGED tour PROVE SettingsInv'
<1>1. told' = [told EXCEPT !.behind = TRUE] /\ UNCHANGED <<cached, at, typed, asked>>
  BY DEF Pages!Elsewhere, Pages!Else
<1>2. base' \in Db
  <2>1. base \in Db /\ 1 \in Pages!Project /\ "me" \in Pages!Who
    BY DEF SettingsInv, PagesInv, Pages!Project, Pages!Who
  <2>2. CASE \E n \in Titles : base' = [base EXCEPT !.name = n]
    BY <2>1, <2>2 DEF Db
  <2>3. CASE base' = [base EXCEPT !.usage = 1 - @]
    <3>1. base.usage \in 0 .. 1 /\ 1 - base.usage \in 0 .. 1
      BY <2>1 DEF Db
    <3> QED BY <2>1, <2>3, <3>1 DEF Db
  <2>4. CASE \E r \in Pages!Role \union {None} : base' = [base EXCEPT !.role["me"] = r]
    BY <2>1, <2>4 DEF Db
  <2>5. CASE base' = [base EXCEPT !.projects[1] = None]
    BY <2>1, <2>5 DEF Db
  <2> QED BY <2>2, <2>3, <2>4, <2>5 DEF Pages!Elsewhere
<1>3. PagesInv'
  BY <1>1, <1>2, BehindType DEF SettingsInv, PagesInv
<1> QED BY <1>1, <1>3, BehindStep DEF Edits

(* The outcome of one request, r, or nothing more of it.                   *)
Ends(c, r) ==
  \/ r = None
  \/ /\ r \in Pages!Call /\ r.op = c.op /\ r.page = c.page /\ r.who = c.who /\ r.value = c.value
     /\ r.st # "asked"

LEMMA EndsSays ==
  ASSUME Pages!SettingsAssumption, PagesInv, NEW s \in Slots, asked[s] # None,
         NEW r, Ends(asked[s], r), asked' = [asked EXCEPT ![s] = r]
  PROVE  /\ asked' \in [Slots -> Pages!Call \union {None}]
         /\ \A t \in Slots : asked'[t] # None => CallOK(asked'[t])
         /\ \A t \in Slots : asked'[t] # None =>
              /\ asked[t] # None /\ asked'[t].op = asked[t].op /\ asked'[t].page = asked[t].page
              /\ asked'[t].value = asked[t].value
              /\ asked'[t].st = "asked" => asked[t].st = "asked" /\ t # s
         /\ \A t \in Slots : Edits(asked', t) => Edits(asked, t)
         /\ asked'[s] = r /\ \A t \in Slots : t # s => asked'[t] = asked[t]
<1>1. asked \in [Slots -> Pages!Call \union {None}] /\ asked[s] \in Pages!Call /\ CallOK(asked[s])
  BY DEF PagesInv
<1>2. asked'[s] = r /\ \A t \in Slots : t # s => asked'[t] = asked[t]
  BY <1>1
<1>3. asked' \in [Slots -> Pages!Call \union {None}]
  BY <1>1 DEF Ends
<1>4. r # None => CallOK(r)
  BY <1>1 DEF Ends, CallOK
<1>5. \A t \in Slots : asked'[t] # None =>
              /\ asked[t] # None /\ asked'[t].op = asked[t].op /\ asked'[t].page = asked[t].page
              /\ asked'[t].value = asked[t].value
              /\ asked'[t].st = "asked" => asked[t].st = "asked" /\ t # s
  BY <1>1, <1>2 DEF Ends
<1>6. \A t \in Slots : asked'[t] # None => CallOK(asked'[t])
  BY <1>2, <1>4 DEF PagesInv
<1> QED BY <1>2, <1>3, <1>5, <1>6 DEF Edits

LEMMA PagesLoseStep ==
  ASSUME Pages!SettingsAssumption, SettingsInv, NEW s \in Slots, Pages!Lose(s), UNCHANGED tour
  PROVE  SettingsInv'
<1>1. /\ told' = [told EXCEPT !.behind = TRUE] /\ UNCHANGED <<base, cached, at, typed>>
      /\ asked[s] # None /\ asked' = [asked EXCEPT ![s].st = "error"]
  BY DEF Pages!Lose, Pages!Else
<1> DEFINE r == [asked[s] EXCEPT !.st = "error"]
<1>2. asked' = [asked EXCEPT ![s] = r] /\ asked[s] \in Pages!Call
  BY <1>1 DEF SettingsInv, PagesInv
<1>3. Ends(asked[s], r)
  BY <1>2 DEF Ends, Pages!Call
<1> HIDE DEF r
<1>4. /\ asked' \in [Slots -> Pages!Call \union {None}]
      /\ \A t \in Slots : asked'[t] # None => CallOK(asked'[t])
      /\ \A t \in Slots : Edits(asked', t) => Edits(asked, t)
  BY <1>1, <1>2, <1>3, EndsSays DEF SettingsInv
<1>5. PagesInv'
  BY <1>1, <1>4, BehindType DEF SettingsInv, PagesInv
<1> QED BY <1>1, <1>4, <1>5, BehindStep

(* A request fails, or its form has heard that it did.                     *)
LEMMA FailStep ==
  ASSUME Pages!SettingsAssumption, SettingsInv, NEW s \in Slots, asked[s] # None,
         asked[s].st # "ok", NEW r, Ends(asked[s], r), r # None => r.st = "error",
         asked' = [asked EXCEPT ![s] = r],
         UNCHANGED <<tour, base, cached, at, typed, told>>
  PROVE  SettingsInv'
<1>1. /\ asked' \in [Slots -> Pages!Call \union {None}]
      /\ \A t \in Slots : asked'[t] # None => CallOK(asked'[t])
      /\ \A t \in Slots : asked'[t] # None =>
           /\ asked[t] # None /\ asked'[t].op = asked[t].op /\ asked'[t].page = asked[t].page
           /\ asked'[t].value = asked[t].value
           /\ asked'[t].st = "asked" => asked[t].st = "asked" /\ t # s
      /\ \A t \in Slots : Edits(asked', t) => Edits(asked, t)
      /\ asked'[s] = r /\ \A t \in Slots : t # s => asked'[t] = asked[t]
  BY EndsSays DEF SettingsInv
<1>2. \A q : ExcusedBy(asked', q) = ExcusedBy(asked, q)
  BY <1>1 DEF ExcusedBy
<1>3. PagesInv'
  BY <1>1 DEF SettingsInv, PagesInv
<1>4. PagesCacheInv' /\ MarkInv' /\ UsageInv' /\ KeptInv'
  BY <1>2 DEF SettingsInv, PagesCacheInv, MarkInv, UsageInv, KeptInv, PagesClean, Straight
<1>5. EditInv' /\ DeleteInv'
  BY <1>1 DEF SettingsInv, EditInv, DeleteInv, Straight
<1>6. TypedInv'
  <2>1. SUFFICES ASSUME PagesClean', Pages!OnGeneral', typed'.name # Pages!NameShown'
                 PROVE  TypedInv'
    BY DEF TypedInv
  <2>2. PagesClean /\ Pages!OnGeneral /\ typed.name # Pages!NameShown /\ TypedInv
    BY <2>1 DEF PagesClean, Straight, Pages!OnGeneral, Pages!NameShown, Pages!Data, SettingsInv
  <2>3. \A t \in Slots : asked'[t] # None =>
          /\ asked'[t].page = at /\ Edits(asked', t)
          /\ asked'[t].op = "rename" => asked'[t].value = typed.name
    BY <1>1, <2>2 DEF TypedInv, Edits
  <2> QED BY <2>2, <2>3 DEF TypedInv
<1> QED BY <1>3, <1>4, <1>5, <1>6 DEF SettingsInv

LEMMA PagesFailedStep ==
  ASSUME Pages!SettingsAssumption, SettingsInv, NEW s \in Slots, Pages!Failed(s), UNCHANGED tour
  PROVE  SettingsInv'
<1>1. asked[s] # None /\ asked[s].st = "error" /\ asked' = [asked EXCEPT ![s] = None]
      /\ UNCHANGED <<base, cached, at, typed, told>>
  BY DEF Pages!Failed
<1>2. Ends(asked[s], None)
  BY DEF Ends
<1> QED BY <1>1, <1>2, FailStep

(* A rename gives the name that was asked for, and what is deleted is gone. *)
LEMMA EditSays ==
  ASSUME Pages!SettingsAssumption, base \in Db, NEW c \in Pages!Call, CallOK(c), Pages!Done(c)
  PROVE  /\ c.op = "rename" /\ c.page = "general" => NameOf("workspace", base') = c.value
         /\ c.op = "rename" /\ c.page = "project" => Pages!Gap(c) # {}
         /\ c.op = "delete" => ~AllowedIn(Pages!Shown(c.page), base')
<1>1. CASE c.op = "rename"
  <2>1. c.page \in {"general", "project"}
    BY <1>1 DEF CallOK
  <2>2. CASE c.page = "general"
    <3>1. base' = [base EXCEPT !.name = c.value]
      BY <1>1, <2>2 DEF Pages!Done, Pages!PutWorkspace, Pages!DeleteWorkspace
    <3> QED BY <1>1, <2>2, <3>1 DEF Db, NameOf
  <2>3. CASE c.page = "project"
    BY <1>1, <2>3 DEF Pages!Gap
  <2> QED BY <1>1, <2>1, <2>2, <2>3
<1>2. CASE c.op = "delete"
  <2>1. c.page \in {"general", "project"}
    BY <1>2 DEF CallOK
  <2>2. CASE c.page = "general"
    <3>1. base' = [base EXCEPT !.name = None]
      BY <1>2, <2>2 DEF Pages!Done, Pages!PutWorkspace, Pages!DeleteWorkspace
    <3>2. base'.name = None
      BY <3>1 DEF Db
    <3> QED BY <1>2, <2>2, <3>2 DEF AllowedIn, MineIn, Pages!Shown
  <2>3. CASE c.page = "project"
    <3>1. base' = [base EXCEPT !.projects[1] = None]
      BY <1>2, <2>3 DEF Pages!Done, Pages!PatchProject, Pages!DeleteProject
    <3>2. base'.projects[1] = None /\ None \notin Titles
      BY <3>1 DEF Db, Pages!Project, Pages!SettingsAssumption
    <3> QED BY <1>2, <2>3, <3>2 DEF AllowedIn, LiveIn, Pages!Shown
  <2> QED BY <2>1, <2>2, <2>3
<1> QED BY <1>1, <1>2

LEMMA DoneStep ==
  ASSUME Pages!SettingsAssumption, SettingsInv, NEW s \in Slots, asked[s] # None,
         asked[s].st = "asked", Pages!Done(asked[s]), asked' = [asked EXCEPT ![s].st = "ok"],
         told' = [told EXCEPT !.gaps = @ \union Pages!Gap(asked[s])],
         UNCHANGED <<tour, cached, at, typed>>
  PROVE  SettingsInv'
<1> DEFINE c == asked[s]
           r == [c EXCEPT !.st = "ok"]
<1>1. c \in Pages!Call /\ CallOK(c) /\ base \in Db /\ told \in Hist
      /\ asked' = [asked EXCEPT ![s] = r]
  BY DEF SettingsInv, PagesInv
<1>2. /\ r \in Pages!Call /\ r.op = c.op /\ r.page = c.page /\ r.who = c.who /\ r.value = c.value
      /\ r.st = "ok"
  BY <1>1 DEF Pages!Call
<1>3. Pages!Changed(r) = Pages!Changed(c) /\ Ends(c, r) /\ r # None
  BY <1>2 DEF Pages!Changed, Ends, Pages!SettingsAssumption
<1>4. Keeps(base, base', c) /\ (c.op \notin {"rename", "delete"} => SameNames(base, base'))
  BY <1>1, DoneKeeps
<1>5. /\ c.op = "rename" /\ c.page = "general" => NameOf("workspace", base') = c.value
      /\ c.op = "rename" /\ c.page = "project" => Pages!Gap(c) # {}
      /\ c.op = "delete" => ~AllowedIn(Pages!Shown(c.page), base')
  BY <1>1, EditSays
<1>6. /\ told' \in Hist /\ told'.behind = told.behind /\ told'.crossed = told.crossed
      /\ told'.gaps = told.gaps \union Pages!Gap(c) /\ told'.eager = told.eager
      /\ told'.wiped = told.wiped
  <2>1. Pages!Gap(c) \subseteq {"project names", "members"}
    BY DEF Pages!Gap
  <2> QED BY <1>1, <2>1 DEF Hist
<1> HIDE DEF r
<1>7. /\ asked' \in [Slots -> Pages!Call \union {None}]
      /\ \A t \in Slots : asked'[t] # None => CallOK(asked'[t])
      /\ \A t \in Slots : asked'[t] # None =>
           /\ asked[t] # None /\ asked'[t].op = asked[t].op /\ asked'[t].page = asked[t].page
           /\ asked'[t].value = asked[t].value
           /\ asked'[t].st = "asked" => asked[t].st = "asked" /\ t # s
      /\ \A t \in Slots : Edits(asked', t) => Edits(asked, t)
      /\ asked'[s] = r /\ \A t \in Slots : t # s => asked'[t] = asked[t]
  BY <1>1, <1>3, EndsSays DEF SettingsInv
<1>8. PagesInv'
  BY <1>4, <1>6, <1>7 DEF SettingsInv, PagesInv, Keeps
<1>9. PagesCacheInv'
  <2>1. SUFFICES ASSUME ~told.behind, NEW q \in Pages!Query \ told.crossed, AllowedIn(q, base'),
                        ~ExcusedBy(asked', q)
        PROVE  /\ cached[q].data # None /\ ~cached[q].marked
                    => CurrentIn(q, cached[q].data, base', told'.gaps)
               /\ cached[q].st = "read" => CurrentIn(q, cached[q].ans, base', told'.gaps)
    BY <1>6 DEF PagesCacheInv
  <2>2. q \notin Pages!Changed(c)
    BY <1>2, <1>3, <1>7, <2>1 DEF ExcusedBy
  <2>3. ~ExcusedBy(asked, q)
    BY <1>7, <2>1 DEF ExcusedBy
  <2>4. AllowedIn(q, base) /\ \A x, gaps : CurrentIn(q, x, base, gaps)
          => CurrentIn(q, x, base', gaps \union Pages!Gap(c))
    BY <1>4, <2>1, <2>2 DEF Keeps
  <2> QED BY <1>6, <2>1, <2>3, <2>4 DEF SettingsInv, PagesCacheInv
<1>10. MarkInv'
  <2>1. Pages!Reads(at, cached) \subseteq Pages!Query
    BY ReadsQueries DEF SettingsInv, PagesInv, Pages!SettingsAssumption, Pages!Tour, Pages!Page
  <2> QED BY <1>4, <1>6, <2>1 DEF SettingsInv, MarkInv, Keeps
<1>11. UsageInv'
  BY <1>4, <1>6 DEF SettingsInv, UsageInv, Keeps
<1>12. EditInv' /\ KeptInv'
  BY <1>6, <1>7 DEF SettingsInv, EditInv, KeptInv, PagesClean, Straight
<1>13. DeleteInv'
  <2>1. SUFFICES ASSUME Straight', NEW t \in Slots, asked'[t] # None, asked'[t].op = "delete",
                        asked'[t].st = "asked", AllowedIn(Pages!Shown(asked'[t].page), base')
                 PROVE  asked'[t].value = NameOf(Pages!Shown(asked'[t].page), base')
    BY DEF DeleteInv
  <2>2. /\ asked[t] # None /\ asked[t].op = "delete" /\ asked[t].st = "asked" /\ t # s
        /\ asked'[t] = asked[t] /\ Straight
    BY <1>6, <1>7, <2>1 DEF Straight
  <2>3. Pages!Shown(asked[t].page) \in Pages!Query
    BY DEF Pages!Shown, Pages!Query
  <2>4. AllowedIn(Pages!Shown(asked[t].page), base)
    BY <1>4, <2>1, <2>2, <2>3 DEF Keeps
  <2>5. asked[t].value = NameOf(Pages!Shown(asked[t].page), base)
    BY <2>2, <2>4 DEF SettingsInv, DeleteInv
  <2>6. c.op \notin {"rename", "delete"}
    BY <2>2 DEF SettingsInv, EditInv, Edits, Straight
  <2> QED BY <1>4, <2>2, <2>5, <2>6 DEF SameNames, NameOf
<1>14. TypedInv'
  <2>1. SUFFICES ASSUME PagesClean', Pages!OnGeneral', typed'.name # Pages!NameShown'
                 PROVE  TypedInv'
    BY DEF TypedInv
  <2>2. PagesClean /\ Pages!OnGeneral /\ typed.name # Pages!NameShown /\ Pages!Gap(c) = {}
    BY <1>6, <2>1 DEF PagesClean, Straight, Pages!OnGeneral, Pages!NameShown, Pages!Data
  <2>3. TypedInv
    BY DEF SettingsInv
  <2>4. c.page = at /\ c.op \in {"rename", "delete"}
        /\ (c.op = "rename" => c.value = typed.name)
    BY <2>2, <2>3 DEF TypedInv, Edits
  <2>5. AllowedIn(Pages!Shown(at), base') => NameOf(Pages!Shown(at), base') = typed.name
    <3>1. c.op = "rename" => c.page = "general"
      BY <1>5, <2>2, <2>4 DEF Pages!OnGeneral
    <3> QED BY <1>5, <2>4, <3>1 DEF Pages!Shown
  <2>6. \A t \in Slots : asked'[t] # None =>
          /\ asked'[t].page = at /\ Edits(asked', t)
          /\ asked'[t].op = "rename" => asked'[t].value = typed.name
    BY <1>7, <2>2, <2>3 DEF TypedInv, Edits
  <2> QED BY <2>2, <2>3, <2>5, <2>6 DEF TypedInv
<1> QED BY <1>8, <1>9, <1>10, <1>11, <1>12, <1>13, <1>14 DEF SettingsInv

LEMMA PagesServeStep ==
  ASSUME Pages!SettingsAssumption, SettingsInv, NEW s \in Slots, Pages!Serve(s), UNCHANGED tour
  PROVE  SettingsInv'
<1>1. asked[s] # None /\ asked[s].st = "asked" /\ UNCHANGED <<cached, at, typed>>
  BY DEF Pages!Serve
<1>2. CASE Pages!Done(asked[s]) /\ asked' = [asked EXCEPT ![s].st = "ok"]
           /\ told' = [told EXCEPT !.gaps = @ \union Pages!Gap(asked[s])]
  BY <1>1, <1>2, DoneStep
<1>3. CASE asked' = [asked EXCEPT ![s].st = "error"] /\ UNCHANGED <<base, told>>
  <2> DEFINE r == [asked[s] EXCEPT !.st = "error"]
  <2>1. asked' = [asked EXCEPT ![s] = r] /\ asked[s] \in Pages!Call
    BY <1>1, <1>3 DEF SettingsInv, PagesInv
  <2>2. Ends(asked[s], r) /\ r.st = "error"
    BY <2>1 DEF Ends, Pages!Call
  <2> HIDE DEF r
  <2> QED BY <1>1, <1>3, <2>1, <2>2, FailStep
<1> QED BY <1>2, <1>3 DEF Pages!Serve

-----------------------------------------------------------------------------
(* A form hears of its success: the queries it names are asked again.      *)
LEMMA ChangedQueries == ASSUME NEW c \in Pages!Call PROVE Pages!Changed(c) \subseteq Pages!Query
BY DEF Pages!Changed, Pages!ChangedByGeneral, Pages!ChangedByProject, Pages!ChangedByMembers,
       Pages!ChangedByNewProject,
       Pages!ChangedByNewWorkspace, Pages!Lists, Pages!Query, Pages!Call, Pages!Page

LEMMA SuccessSays ==
  ASSUME Pages!SettingsAssumption, SettingsInv, NEW s \in Slots, Pages!Succeeds(s),
         NEW R, R = Pages!Invalidated(Pages!Changed(asked[s])), UNCHANGED <<tour, base>>,
         told' = [told EXCEPT !.crossed = @ \union Pages!Crossed(Pages!Changed(asked[s]))],
         QueriesOK(cached'), \A q \in Pages!Query : Stays(R, cached', q)
  PROVE  /\ PagesCacheInv' /\ UsageInv' /\ EditInv' /\ DeleteInv' /\ KeptInv'
         /\ told' \in Hist /\ told'.behind = told.behind /\ (PagesClean' => PagesClean)
         /\ asked' \in [Slots -> Pages!Call \union {None}]
         /\ \A t \in Slots : asked'[t] # None => asked[t] # None /\ asked'[t] = asked[t]
         /\ QueriesOK(R)
         /\ \A q \in Pages!Query :
              /\ R[q].data = cached[q].data
              /\ R[q].st = "read" => cached[q].st = "read" /\ R[q].ans = cached[q].ans
              /\ Pages!IsActive(q) /\ R[q].st = "idle" /\ R[q].marked
                   => cached[q].marked /\ cached[q].st = "idle"
<1> DEFINE c == asked[s]
           qs == Pages!Changed(c)
<1>1. c \in Pages!Call /\ CallOK(c) /\ QueriesOK(cached) /\ told \in Hist
      /\ c.st = "ok" /\ c # None /\ asked' = [asked EXCEPT ![s] = None]
  BY DEF SettingsInv, PagesInv, Pages!Succeeds
<1>2. qs \in SUBSET Pages!Query
  BY <1>1, ChangedQueries
<1>3. Pages!Crossed(qs) \subseteq qs
  BY DEF Pages!Crossed
<1>4. /\ QueriesOK(R)
      /\ \A q \in Pages!Query :
           /\ R[q].data = cached[q].data
           /\ q \notin qs => R[q] = cached[q]
           /\ q \in qs => R[q].marked \/ R[q].data = None
           /\ q \in qs /\ R[q].st = "read" => q \in Pages!Crossed(qs)
           /\ R[q].st = "read" => cached[q].st = "read" /\ R[q].ans = cached[q].ans
           /\ q \in qs /\ Pages!IsActive(q) /\ R[q].st = "idle" => ~R[q].marked
  BY <1>1, <1>2, InvalidatedKeeps
<1>5. /\ told' \in Hist /\ told'.behind = told.behind /\ told'.gaps = told.gaps
      /\ told'.eager = told.eager /\ told'.wiped = told.wiped
      /\ told'.crossed = told.crossed \union Pages!Crossed(qs)
  BY <1>1, <1>2, <1>3 DEF Hist
<1> HIDE DEF qs
<1>6. /\ asked' \in [Slots -> Pages!Call \union {None}]
      /\ \A t \in Slots : asked'[t] # None => asked[t] # None /\ asked'[t] = asked[t] /\ t # s
      /\ \A t \in Slots : t # s => asked'[t] = asked[t]
  BY <1>1 DEF SettingsInv, PagesInv
<1>7. \A q : q \notin qs /\ ~ExcusedBy(asked', q) => ~ExcusedBy(asked, q)
  BY <1>6 DEF ExcusedBy, qs
<1>8. PagesCacheInv'
  <2>1. ASSUME NEW q \in Pages!Query, q \notin told'.crossed, ~ExcusedBy(asked', q)
        PROVE \/ Stays(cached, cached', q) /\ ~ExcusedBy(asked, q)
              \/ (cached'[q].data = None \/ cached'[q].marked) /\ cached'[q].st # "read"
    BY <1>4, <1>5, <1>7, <2>1 DEF Stays
  <2>2. told.crossed \subseteq told'.crossed
    BY <1>5
  <2> QED BY <1>5, <2>1, <2>2, CacheKept DEF SettingsInv
<1>9. UsageInv'
  BY <1>4, <1>5, UsageKept DEF SettingsInv, Stays, Pages!Query
<1>10. PagesClean' => PagesClean
  BY <1>5 DEF PagesClean, Straight
<1>11. EditInv' /\ DeleteInv' /\ KeptInv'
  BY <1>5, <1>6, <1>10 DEF SettingsInv, EditInv, Edits, DeleteInv, KeptInv, Straight
<1> QED BY <1>4, <1>5, <1>6, <1>8, <1>9, <1>10, <1>11

LEMMA PlaceReads ==
  ASSUME Pages!SettingsAssumption, PagesInv
  PROVE  at \in Pages!Page /\ Pages!Reads(at, cached) \subseteq Pages!Query
<1>1. at \in Pages!Page
  BY DEF PagesInv, Pages!SettingsAssumption, Pages!Tour, Pages!Page
<1> QED BY <1>1, ReadsQueries

LEMMA SavedStep ==
  ASSUME Pages!SettingsAssumption, SettingsInv, NEW s \in Slots, Pages!Saved(s), UNCHANGED tour
  PROVE  SettingsInv'
<1> DEFINE R == Pages!Invalidated(Pages!Changed(asked[s]))
<1>1. /\ Pages!Succeeds(s) /\ cached' = R /\ UNCHANGED <<base, at, typed>>
      /\ told' = [told EXCEPT !.crossed = @ \union Pages!Crossed(Pages!Changed(asked[s]))]
  BY DEF Pages!Saved
<1>2. QueriesOK(R)
  <2>1. Pages!Changed(asked[s]) \subseteq Pages!Query
    BY <1>1, ChangedQueries DEF SettingsInv, PagesInv, Pages!Succeeds
  <2> QED BY <2>1, InvalidatedKeeps DEF SettingsInv, PagesInv
<1>3. \A q \in Pages!Query : Stays(R, cached', q)
  BY <1>1 DEF Stays
<1> HIDE DEF R
<1>4. /\ PagesCacheInv' /\ UsageInv' /\ EditInv' /\ DeleteInv' /\ KeptInv'
      /\ told' \in Hist /\ told'.behind = told.behind /\ (PagesClean' => PagesClean)
      /\ asked' \in [Slots -> Pages!Call \union {None}]
      /\ \A t \in Slots : asked'[t] # None => asked[t] # None /\ asked'[t] = asked[t]
      /\ \A q \in Pages!Query :
           /\ R[q].data = cached[q].data
           /\ R[q].st = "read" => cached[q].st = "read" /\ R[q].ans = cached[q].ans
           /\ Pages!IsActive(q) /\ R[q].st = "idle" /\ R[q].marked
                => cached[q].marked /\ cached[q].st = "idle"
  BY <1>1, <1>2, <1>3, SuccessSays DEF R
<1>5. PagesInv'
  BY <1>1, <1>2, <1>4 DEF SettingsInv, PagesInv
<1>6. MarkInv'
  <2>1. Pages!Reads(at, cached') = Pages!Reads(at, cached)
    BY <1>1, <1>4, ReadsSame DEF Pages!Query
  <2>2. Pages!Reads(at, cached) \subseteq Pages!Query
    BY PlaceReads DEF SettingsInv
  <2> QED BY <1>1, <1>4, <2>1, <2>2 DEF SettingsInv, MarkInv, Pages!IsActive
<1>7. TypedInv'
  <2>1. SUFFICES ASSUME PagesClean', Pages!OnGeneral', typed'.name # Pages!NameShown'
                 PROVE  TypedInv'
    BY DEF TypedInv
  <2>2. Pages!Shown(at) \in Pages!Query
    BY <1>1, <2>1 DEF Pages!OnGeneral, Pages!Shown, Pages!Query
  <2>3. cached'[Pages!Shown(at)].data = cached[Pages!Shown(at)].data
        /\ (cached'[Pages!Shown(at)].st = "read" =>
              /\ cached[Pages!Shown(at)].st = "read"
              /\ cached'[Pages!Shown(at)].ans = cached[Pages!Shown(at)].ans)
    BY <1>1, <1>4, <2>2
  <2>4. Pages!OnGeneral /\ typed.name # Pages!NameShown /\ PagesClean /\ TypedInv
    BY <1>1, <1>4, <2>1, <2>3 DEF Pages!OnGeneral, Pages!NameShown, Pages!Data, SettingsInv
  <2>5. \A t \in Slots : asked'[t] # None =>
          /\ asked'[t].page = at /\ Edits(asked', t)
          /\ asked'[t].op = "rename" => asked'[t].value = typed.name
    BY <1>4, <2>4 DEF TypedInv, Edits
  <2> QED BY <1>1, <2>3, <2>4, <2>5 DEF TypedInv
<1> QED BY <1>4, <1>5, <1>6, <1>7 DEF SettingsInv

LEMMA GoneStep ==
  ASSUME Pages!SettingsAssumption, SettingsInv, NEW s \in Slots, Pages!Gone(s), UNCHANGED tour
  PROVE  SettingsInv'
<1> DEFINE R == Pages!Invalidated(Pages!Changed(asked[s]))
<1>1. PICK page \in {"workspaces", "projects"} :
        /\ Pages!Succeeds(s) /\ at' = page /\ UNCHANGED base
        /\ cached' = IF page = at THEN R ELSE Pages!Mounted(R, page, FALSE)
        /\ typed' = IF page = at THEN typed ELSE Pages!Blank
        /\ told' = [told EXCEPT !.crossed = @ \union Pages!Crossed(Pages!Changed(asked[s]))]
  BY DEF Pages!Gone
<1>2. QueriesOK(R)
  <2>1. Pages!Changed(asked[s]) \subseteq Pages!Query
    BY <1>1, ChangedQueries DEF SettingsInv, PagesInv, Pages!Succeeds
  <2> QED BY <2>1, InvalidatedKeeps DEF SettingsInv, PagesInv
<1>3. QueriesOK(cached') /\ \A q \in Pages!Query : Stays(R, cached', q)
  <2>1. CASE page = at
    BY <1>1, <1>2, <2>1 DEF Stays
  <2>2. CASE page # at
    <3> HIDE DEF R
    <3> QED BY <1>1, <1>2, <2>2, MountedKeeps
  <2> QED BY <2>1, <2>2
<1>4. /\ PagesCacheInv' /\ UsageInv' /\ EditInv' /\ DeleteInv' /\ KeptInv'
      /\ told' \in Hist /\ told'.behind = told.behind /\ (PagesClean' => PagesClean)
      /\ asked' \in [Slots -> Pages!Call \union {None}]
      /\ \A t \in Slots : asked'[t] # None => asked[t] # None /\ asked'[t] = asked[t]
      /\ \A q \in Pages!Query :
           /\ R[q].data = cached[q].data
           /\ R[q].st = "read" => cached[q].st = "read" /\ R[q].ans = cached[q].ans
           /\ Pages!IsActive(q) /\ R[q].st = "idle" /\ R[q].marked
                => cached[q].marked /\ cached[q].st = "idle"
  BY <1>1, <1>3, SuccessSays
<1> HIDE DEF R
<1>5. PagesInv'
  <2>1. typed' \in Draft
    BY <1>1 DEF SettingsInv, PagesInv, Pages!Blank, Draft
  <2> QED BY <1>1, <1>3, <1>4, <2>1 DEF SettingsInv, PagesInv
<1>6. MarkInv'
  <2>1. Pages!Reads(page, cached') = Pages!Reads(page, R)
    BY <1>3, ReadsSame DEF Stays, Pages!Query
  <2>2. Pages!Reads(page, R) \subseteq Pages!Query
    BY ReadsQueries DEF Pages!Page
  <2>3. CASE page # at
    <3>1. \A q \in Pages!Query \intersect Pages!Reads(page, R) : cached'[q].st = "idle" =>
            ~R[q].marked
      BY <1>1, <1>2, <2>3, MountedKeeps
    <3>2. \A q \in Pages!Query : cached'[q].marked = R[q].marked
      BY <1>3 DEF Stays
    <3> QED BY <1>1, <2>1, <2>2, <3>1, <3>2 DEF MarkInv
  <2>4. CASE page = at
    <3>1. Pages!Reads(page, R) = Pages!Reads(at, cached)
      BY <1>4, <2>4, ReadsSame DEF Pages!Query
    <3> QED BY <1>1, <1>4, <2>1, <2>2, <2>4, <3>1 DEF SettingsInv, MarkInv, Pages!IsActive
  <2> QED BY <2>3, <2>4
<1>7. TypedInv'
  BY <1>1 DEF TypedInv, Pages!OnGeneral
<1> QED BY <1>4, <1>5, <1>6, <1>7 DEF SettingsInv

-----------------------------------------------------------------------------
(* The steps of a fetch.                                                   *)
LEMMA ReadStep ==
  ASSUME Pages!SettingsAssumption, SettingsInv, NEW q \in Pages!Query, Pages!Read(q), UNCHANGED tour
  PROVE  SettingsInv'
<1> DEFINE v == ViewOf(q, base)
<1>1. /\ cached[q].st = "asked" /\ AllowedIn(q, base) /\ v = Pages!View(q)
      /\ cached' = [cached EXCEPT ![q].st = "read", ![q].ans = v]
      /\ UNCHANGED <<base, at, typed, asked, told>>
  BY SameViews DEF Pages!Read
<1>2. v \in Pages!Answer(q) /\ v # None
  BY <1>1, ViewType DEF SettingsInv, PagesInv, Pages!SettingsAssumption
<1> HIDE DEF v
<1>3. QueriesOK(cached) /\ cached[q] \in Entry(q)
  BY DEF SettingsInv, PagesInv, QueriesOK
<1>4. /\ cached' = [p \in Pages!Query |-> cached'[p]]
      /\ \A p \in Pages!Query : p # q => cached'[p] = cached[p]
      /\ cached'[q] = [cached[q] EXCEPT !.st = "read", !.ans = v]
  BY <1>1, <1>3 DEF QueriesOK
<1>5. /\ cached'[q] \in Entry(q) /\ cached'[q].st = "read" /\ cached'[q].ans = v
      /\ cached'[q].data = cached[q].data /\ cached'[q].marked = cached[q].marked
  BY <1>2, <1>3, <1>4 DEF Entry
<1>6. QueriesOK(cached')
  BY <1>2, <1>3, <1>4, <1>5 DEF QueriesOK
<1>7. PagesInv'
  BY <1>1, <1>6 DEF SettingsInv, PagesInv
<1>8. PagesCacheInv'
  <2>1. CurrentIn(q, v, base, told.gaps)
    BY ViewIsCurrent DEF v
  <2>2. PagesCacheInv
    BY DEF SettingsInv
  <2>3. SUFFICES ASSUME ~told.behind, NEW p \in Pages!Query \ told.crossed, AllowedIn(p, base),
                        ~ExcusedBy(asked, p)
                 PROVE  /\ cached'[p].data # None /\ ~cached'[p].marked
                                   => CurrentIn(p, cached'[p].data, base, told.gaps)
                        /\ cached'[p].st = "read"
                                   => CurrentIn(p, cached'[p].ans, base, told.gaps)
    BY <1>1 DEF PagesCacheInv
  <2>4. CASE p = q
    BY <1>5, <2>1, <2>2, <2>3, <2>4 DEF PagesCacheInv
  <2>5. CASE p # q
    BY <1>4, <2>2, <2>3, <2>5 DEF PagesCacheInv
  <2> QED BY <2>4, <2>5
<1>9. MarkInv'
  <2>1. (cached'["project"].data = None) = (cached["project"].data = None)
    BY <1>4, <1>5 DEF Pages!Query
  <2>2. Pages!Reads(at, cached') = Pages!Reads(at, cached)
    BY <2>1, ReadsSame
  <2>3. Pages!Reads(at, cached) \subseteq Pages!Query /\ MarkInv
    BY PlaceReads DEF SettingsInv
  <2>4. SUFFICES ASSUME ~told.behind, NEW p \in Pages!Reads(at, cached), cached'[p].marked,
                        cached'[p].st = "idle"
                 PROVE  ~AllowedIn(p, base)
    BY <1>1, <2>2 DEF MarkInv
  <2>5. p \in Pages!Query /\ p # q
    BY <1>5, <2>3, <2>4
  <2> QED BY <1>4, <2>3, <2>4, <2>5 DEF MarkInv
<1>10. UsageInv'
  <2>1. q = "workspace" => v.usage = base.usage
    BY DEF v, ViewOf
  <2>2. UsageInv
    BY DEF SettingsInv
  <2>3. CASE q = "workspace"
    BY <1>1, <1>5, <2>1, <2>2, <2>3 DEF UsageInv
  <2>4. CASE q # "workspace"
    <3>1. cached'["workspace"] = cached["workspace"]
      BY <1>4, <2>4 DEF Pages!Query
    <3> QED BY <1>1, <2>2, <3>1 DEF UsageInv
  <2> QED BY <2>3, <2>4
<1>11. EditInv' /\ DeleteInv' /\ KeptInv'
  BY <1>1 DEF SettingsInv, EditInv, DeleteInv, KeptInv, PagesClean, Straight
<1>12. TypedInv'
  <2>1. SUFFICES ASSUME PagesClean', Pages!OnGeneral', typed'.name # Pages!NameShown'
                 PROVE  TypedInv'
    BY DEF TypedInv
  <2>2. Pages!Shown(at) \in Pages!Query /\ Pages!Shown(at) \in {"workspace", "project"}
    BY <1>1, <2>1 DEF Pages!OnGeneral, Pages!Shown, Pages!Query
  <2>3. cached'[Pages!Shown(at)].data = cached[Pages!Shown(at)].data
    BY <1>4, <1>5, <2>2
  <2>4. Pages!OnGeneral /\ typed.name # Pages!NameShown /\ PagesClean /\ TypedInv
    BY <1>1, <2>1, <2>3 DEF Pages!OnGeneral, Pages!NameShown, Pages!Data, SettingsInv, PagesClean,
                            Straight
  <2>5. cached'[Pages!Shown(at)].st = "read" =>
          \/ cached'[Pages!Shown(at)].ans = cached'[Pages!Shown(at)].data
          \/ Pages!NameIn(Pages!Shown(at), cached'[Pages!Shown(at)].ans) = typed.name
    <3>1. CASE q = Pages!Shown(at)
      <4>1. v = cached[q].data \/ NameOf(q, base) = typed.name
        BY <1>1, <2>4, <3>1 DEF TypedInv, v
      <4>2. Pages!NameIn(q, v) = NameOf(q, base)
        BY <2>2, <3>1, NameOfView DEF v
      <4> QED BY <1>5, <3>1, <4>1, <4>2
    <3>2. CASE q # Pages!Shown(at)
      BY <1>4, <2>2, <2>4, <3>2 DEF TypedInv
    <3> QED BY <3>1, <3>2
  <2> QED BY <1>1, <2>3, <2>4, <2>5 DEF TypedInv
<1> QED BY <1>7, <1>8, <1>9, <1>10, <1>11, <1>12 DEF SettingsInv

LEMMA ReadFailsStep ==
  ASSUME Pages!SettingsAssumption, SettingsInv, NEW q \in Pages!Query, Pages!ReadFails(q),
         UNCHANGED tour
  PROVE  SettingsInv'
<1>1. /\ cached[q].st = "asked" /\ cached' = [cached EXCEPT ![q].st = "idle"]
      /\ UNCHANGED <<base, at, typed, asked>>
      /\ told' = [told EXCEPT !.behind = TRUE] \/ (~AllowedIn(q, base) /\ told' = told)
  BY SameViews DEF Pages!ReadFails, Pages!Else
<1>2. QueriesOK(cached) /\ cached[q] \in Entry(q) /\ cached[q].ans = None
  BY <1>1 DEF SettingsInv, PagesInv, QueriesOK
<1>3. /\ cached' = [p \in Pages!Query |-> cached'[p]]
      /\ \A p \in Pages!Query : p # q => cached'[p] = cached[p]
      /\ cached'[q] = [cached[q] EXCEPT !.st = "idle"]
  BY <1>1, <1>2 DEF QueriesOK
<1>4. /\ cached'[q] \in Entry(q) /\ cached'[q].st = "idle" /\ cached'[q].ans = None
      /\ cached'[q].data = cached[q].data /\ cached'[q].marked = cached[q].marked
  BY <1>2, <1>3 DEF Entry
<1>5. QueriesOK(cached')
  BY <1>2, <1>3, <1>4 DEF QueriesOK
<1>6. PagesInv'
  BY <1>1, <1>5, BehindType DEF SettingsInv, PagesInv
<1>7. CASE told' = [told EXCEPT !.behind = TRUE]
  BY <1>1, <1>6, <1>7, BehindStep
<1>8. CASE ~AllowedIn(q, base) /\ told' = told
  <2>1. \A p \in Pages!Query : Stays(cached, cached', p)
    BY <1>3, <1>4 DEF Stays
  <2>2. PagesCacheInv'
    BY <1>1, <1>8, <2>1, CacheKept DEF SettingsInv
  <2>3. MarkInv'
    <3>1. Pages!Reads(at, cached') = Pages!Reads(at, cached)
      BY <2>1, ReadsSame DEF Pages!Query, Stays
    <3>2. Pages!Reads(at, cached) \subseteq Pages!Query
      BY PlaceReads DEF SettingsInv
    <3> QED BY <1>1, <1>3, <1>8, <3>1, <3>2 DEF SettingsInv, MarkInv
  <2>4. UsageInv'
    BY <1>1, <1>8, <2>1, UsageKept DEF SettingsInv, Stays, Pages!Query
  <2>5. EditInv' /\ DeleteInv' /\ KeptInv'
    BY <1>1, <1>8 DEF SettingsInv, EditInv, DeleteInv, KeptInv, PagesClean, Straight
  <2>6. TypedInv'
    <3>1. SUFFICES ASSUME PagesClean', Pages!OnGeneral', typed'.name # Pages!NameShown'
                   PROVE  TypedInv'
      BY DEF TypedInv
    <3>2. Pages!Shown(at) \in Pages!Query
      BY <1>1, <3>1 DEF Pages!OnGeneral, Pages!Shown, Pages!Query
    <3>3. cached'[Pages!Shown(at)].data = cached[Pages!Shown(at)].data
          /\ (cached'[Pages!Shown(at)].st = "read" =>
                /\ cached[Pages!Shown(at)].st = "read"
                /\ cached'[Pages!Shown(at)].ans = cached[Pages!Shown(at)].ans)
      BY <2>1, <3>2 DEF Stays
    <3>4. Pages!OnGeneral /\ typed.name # Pages!NameShown /\ PagesClean /\ TypedInv
      BY <1>1, <1>8, <3>1, <3>3 DEF Pages!OnGeneral, Pages!NameShown, Pages!Data, SettingsInv,
                                    PagesClean, Straight
    <3> QED BY <1>1, <3>3, <3>4 DEF TypedInv
  <2> QED BY <1>6, <2>2, <2>3, <2>4, <2>5, <2>6 DEF SettingsInv
<1> QED BY <1>1, <1>7, <1>8

LEMMA SettleStep ==
  ASSUME Pages!SettingsAssumption, SettingsInv, NEW q \in Pages!Query, Pages!Settle(q),
         UNCHANGED tour
  PROVE  SettingsInv'
<1> DEFINE old == cached[q].data
           new == cached[q].ans
           e == [Pages!Empty EXCEPT !.data = new]
           Q == [cached EXCEPT ![q] = e]
           wipes == Pages!HasEffect(q) /\ old # None
                    /\ typed.name \notin {Pages!NameIn(q, old), Pages!NameIn(q, new)}
<1>1. /\ cached[q].st = "read"
      /\ cached' = IF q = "project" /\ old = None THEN Pages!Mounted(Q, at, FALSE) ELSE Q
      /\ typed' = IF Pages!HasEffect(q) THEN [typed EXCEPT !.name = Pages!NameIn(q, new)] ELSE typed
      /\ told' = [told EXCEPT !.wiped = @ \/ wipes]
      /\ UNCHANGED <<base, at, asked>>
  BY DEF Pages!Settle, Pages!Data
<1>2. QueriesOK(cached) /\ cached[q] \in Entry(q) /\ new \in Pages!Answer(q) /\ new # None
  BY <1>1 DEF SettingsInv, PagesInv, QueriesOK, Entry
<1>3. /\ e \in Entry(q) /\ e.st = "idle" /\ e.ans = None /\ e.data = new /\ e.marked = FALSE
  BY <1>2 DEF Entry, Pages!Empty
<1> HIDE DEF e
<1>4. /\ Q = [p \in Pages!Query |-> Q[p]] /\ Q[q] = e
      /\ \A p \in Pages!Query : p # q => Q[p] = cached[p]
  BY <1>2 DEF QueriesOK
<1> HIDE DEF Q
<1>5. QueriesOK(Q)
  BY <1>2, <1>3, <1>4 DEF QueriesOK
<1>6. QueriesOK(cached') /\ \A p \in Pages!Query : Stays(Q, cached', p)
  <2>1. CASE q = "project" /\ old = None
    BY <1>1, <1>5, <2>1, MountedKeeps
  <2>2. CASE ~(q = "project" /\ old = None)
    BY <1>1, <1>5, <2>2 DEF Stays
  <2> QED BY <2>1, <2>2
<1>7. /\ cached'[q].data = new /\ cached'[q].marked = FALSE /\ cached'[q].st # "read"
      /\ \A p \in Pages!Query : p # q =>
           /\ cached'[p].data = cached[p].data /\ cached'[p].marked = cached[p].marked
           /\ cached'[p].st = "read" =>
                cached[p].st = "read" /\ cached'[p].ans = cached[p].ans
  BY <1>3, <1>4, <1>6 DEF Stays
<1>8. /\ told' \in Hist /\ told'.behind = told.behind /\ told'.crossed = told.crossed
      /\ told'.gaps = told.gaps /\ told'.eager = told.eager
      /\ told'.wiped = (told.wiped \/ wipes)
  <2>1. PICK b \in BOOLEAN : b = (told.wiped \/ wipes)
    BY DEF SettingsInv, PagesInv, Hist
  <2>2. told' = [told EXCEPT !.wiped = b] /\ told \in Hist
    BY <1>1, <2>1 DEF SettingsInv, PagesInv
  <2> QED BY <2>1, <2>2 DEF Hist
<1>9. Pages!HasEffect(q) => q = Pages!Shown(at) /\ at \in {"general", "project"} /\ new # old
  BY DEF Pages!HasEffect, Pages!ShowsName, Pages!Data
<1>10. typed' \in Draft
  <2>1. ASSUME Pages!HasEffect(q) PROVE Pages!NameIn(q, new) \in Titles \union {None}
    <3>1. q \in {"workspace", "project"}
      BY <1>9, <2>1 DEF Pages!Shown
    <3>2. q = "workspace" => new.card \in Pages!AnyCard
      BY <1>2 DEF Pages!Answer
    <3> QED BY <1>2, <3>1, <3>2 DEF Pages!NameIn, Pages!AnyCard, Pages!Answer
  <2> QED BY <1>1, <2>1 DEF SettingsInv, PagesInv, Draft
<1>11. PagesInv'
  BY <1>1, <1>6, <1>8, <1>10 DEF SettingsInv, PagesInv
<1>12. PagesCacheInv'
  BY <1>1, <1>7, <1>8 DEF SettingsInv, PagesCacheInv
<1>13. MarkInv'
  <2>1. at \in Pages!Page /\ Pages!Reads(at, cached) \subseteq Pages!Query
    BY PlaceReads DEF SettingsInv
  <2>2. CASE q = "project" /\ old = None
    <3>1. Pages!Reads(at, cached') = Pages!Reads(at, Q)
      BY <1>6, ReadsSame DEF Pages!Query, Stays
    <3>2. \A p \in Pages!Query \intersect Pages!Reads(at, Q) : cached'[p].st = "idle" =>
            ~Q[p].marked
      BY <1>1, <1>5, <2>2, MountedKeeps
    <3>3. Pages!Reads(at, Q) \subseteq Pages!Query /\ \A p \in Pages!Query :
            cached'[p].marked = Q[p].marked
      BY <1>6, <2>1, ReadsQueries DEF Stays
    <3> QED BY <1>1, <3>1, <3>2, <3>3 DEF MarkInv
  <2>3. CASE ~(q = "project" /\ old = None)
    <3>1. (cached'["project"].data = None) = (cached["project"].data = None)
      BY <1>2, <1>7, <2>3 DEF Pages!Query
    <3>2. Pages!Reads(at, cached') = Pages!Reads(at, cached)
      BY <3>1, ReadsSame
    <3>3. \A p \in Pages!Query : p # q => cached'[p] = cached[p]
      BY <1>1, <1>4, <2>3
    <3> QED BY <1>1, <1>7, <1>8, <2>1, <3>2, <3>3 DEF SettingsInv, MarkInv
  <2> QED BY <2>2, <2>3
<1>14. UsageInv'
  BY <1>1, <1>7, <1>8 DEF SettingsInv, UsageInv, Pages!Query
<1>15. EditInv' /\ DeleteInv'
  BY <1>1, <1>8 DEF SettingsInv, EditInv, DeleteInv, Straight
<1>16. KeptInv'
  <2>1. SUFFICES ASSUME PagesClean', wipes PROVE FALSE
    BY <1>8 DEF SettingsInv, KeptInv, PagesClean, Straight
  <2>2. Pages!OnGeneral /\ q = Pages!Shown(at) /\ new # old /\ PagesClean
          /\ Pages!NameShown = Pages!NameIn(q, old)
    BY <1>8, <1>9, <2>1 DEF Pages!OnGeneral, Pages!Data, PagesClean, Straight, Pages!NameShown
  <2>3. typed.name # Pages!NameShown
    BY <2>1, <2>2
  <2>4. new = old \/ Pages!NameIn(q, new) = typed.name
    BY <1>1, <2>2, <2>3 DEF SettingsInv, TypedInv
  <2> QED BY <2>1, <2>2, <2>4
<1>17. TypedInv'
  <2>1. SUFFICES ASSUME PagesClean', Pages!OnGeneral', typed'.name # Pages!NameShown'
                 PROVE  TypedInv'
    BY DEF TypedInv
  <2>2. at \in {"general", "project"} /\ Pages!Shown(at) \in Pages!Query
    BY <1>1, <2>1 DEF Pages!OnGeneral, Pages!Shown, Pages!Query
  <2>3. CASE q = Pages!Shown(at) /\ Pages!HasEffect(q)
    <3>1. typed'.name = Pages!NameIn(q, new)
      BY <1>1, <2>3 DEF SettingsInv, PagesInv, Draft
    <3>2. Pages!NameShown' = Pages!NameIn(q, new)
      BY <1>1, <1>7, <2>3 DEF Pages!NameShown, Pages!Data
    <3> QED BY <2>1, <3>1, <3>2
  <2>4. CASE q # Pages!Shown(at) \/ ~Pages!HasEffect(q)
    <3>1. typed' = typed
      BY <1>1, <1>9, <2>4
    <3>2. cached'[Pages!Shown(at)].data = cached[Pages!Shown(at)].data
          /\ (cached'[Pages!Shown(at)].st = "read" =>
                /\ cached[Pages!Shown(at)].st = "read"
                /\ cached'[Pages!Shown(at)].ans = cached[Pages!Shown(at)].ans)
      <4>1. CASE q # Pages!Shown(at)
        BY <1>7, <2>2, <4>1
      <4>2. CASE q = Pages!Shown(at)
        <5>1. new = old
          BY <2>2, <2>4, <4>2 DEF Pages!HasEffect, Pages!ShowsName, Pages!Data
        <5> QED BY <1>7, <4>2, <5>1
      <4> QED BY <4>1, <4>2
    <3>3. Pages!OnGeneral /\ typed.name # Pages!NameShown /\ PagesClean /\ TypedInv
      BY <1>1, <1>8, <2>1, <3>1, <3>2 DEF Pages!OnGeneral, Pages!NameShown, Pages!Data,
                                          SettingsInv, PagesClean, Straight
    <3> QED BY <1>1, <3>1, <3>2, <3>3 DEF TypedInv
  <2> QED BY <2>3, <2>4
<1> QED BY <1>11, <1>12, <1>13, <1>14, <1>15, <1>16, <1>17 DEF SettingsInv

LEMMA NextSettings ==
  ASSUME Pages!SettingsAssumption, SettingsInv, [Pages!Next]_(Pages!vars) PROVE SettingsInv'
<1>1. ASSUME UNCHANGED tour, Pages!WorkspaceForms \/ Pages!ProjectForms PROVE SettingsInv'
  BY <1>1, SaveStep, TypeConfirmStep, PagesDeleteStep DEF Pages!WorkspaceForms, Pages!ProjectForms
<1>2. ASSUME UNCHANGED tour, Pages!CreateWorkspaceDialog \/ Pages!CreateProjectDialog
      PROVE  SettingsInv'
  <2>1. \E page \in {"workspaces", "projects"} : Pages!handleSubmit(page)
    BY <1>2 DEF Pages!CreateWorkspaceDialog, Pages!CreateProjectDialog
  <2> QED BY <1>2, <2>1, SubmitStep
<1>3. CASE UNCHANGED Pages!vars
  BY <1>3 DEF SettingsInv, PagesInv, PagesCacheInv, MarkInv, UsageInv, EditInv, DeleteInv,
              TypedInv, KeptInv, PagesClean, Straight, Pages!OnGeneral, Pages!NameShown,
              Pages!Data, Pages!vars
<1> QED
  BY <1>1, <1>2, <1>3, VisitStep, TypeNameStep, MembersStep, PagesElsewhereStep, PagesRefocusStep,
     PagesServeStep, PagesLoseStep, PagesFailedStep, SavedStep, GoneStep, ReadStep, ReadFailsStep,
     SettleStep
  DEF Pages!Next

(* Steps: only Serve changes the rows by a request.                        *)
LEMMA SettingsSteps ==
  ASSUME Pages!SettingsAssumption, SettingsInv, [Pages!Next]_(Pages!vars)
  PROVE  Pages!DeletesWhatWasTyped
<1>1. SUFFICES ASSUME NEW s \in Slots, asked[s] # None, asked[s].op = "delete", base' # base,
                      asked'[s] # asked[s], Straight
               PROVE  asked[s].value = IF asked[s].page = "general" THEN base.name
                                       ELSE base.projects[1]
  BY DEF Pages!DeletesWhatWasTyped, Straight
<1>2. PICK t \in Slots : Pages!Serve(t)
  BY <1>1 DEF Pages!Next, Pages!vars, Pages!Visit, Pages!TypeName, Pages!WorkspaceForms,
              Pages!ProjectForms, Pages!handleSave,
       Pages!TypeConfirm, Pages!handleDelete, Pages!CreateWorkspaceDialog,
       Pages!CreateProjectDialog, Pages!handleSubmit,
       Pages!handleInviteMember, Pages!CancelInvite, Pages!handleUpdateRole, Pages!RemoveMember,
       Pages!Elsewhere, Pages!Refocus,
       Pages!Lose, Pages!Failed, Pages!Saved, Pages!Gone, Pages!Read, Pages!ReadFails, Pages!Settle
<1>3. t = s
  BY <1>1, <1>2 DEF Pages!Serve, SettingsInv, PagesInv
<1>4. asked[s].st = "asked" /\ Pages!Done(asked[s])
  BY <1>1, <1>2, <1>3 DEF Pages!Serve
<1>5. asked[s] \in Pages!Call /\ CallOK(asked[s])
  BY <1>1 DEF SettingsInv, PagesInv
<1>6. AllowedIn(Pages!Shown(asked[s].page), base)
  <2>1. Pages!Mine = MineIn(base) /\ Pages!Live = LiveIn(base)
    BY DEF Pages!Mine, MineIn, Pages!Live, LiveIn
  <2>2. asked[s].page \in {"general", "project"}
    BY <1>1, <1>5 DEF CallOK
  <2>3. CASE asked[s].page = "general"
    BY <1>1, <1>4, <2>1, <2>3 DEF Pages!Done, Pages!PutWorkspace, Pages!DeleteWorkspace,
                                  Pages!Admin, AllowedIn, Pages!Shown
  <2>4. CASE asked[s].page = "project"
    BY <1>1, <1>4, <2>1, <2>4 DEF Pages!Done, Pages!PatchProject, Pages!DeleteProject, Pages!Admin,
                                  AllowedIn, Pages!Shown
  <2> QED BY <2>2, <2>3, <2>4
<1> QED BY <1>1, <1>4, <1>6 DEF SettingsInv, DeleteInv, NameOf, Pages!Shown

-----------------------------------------------------------------------------
(* The browser: the part that is shown keeps its own invariant.            *)
BrowserInv ==
  /\ part = "list"     => ListInv
  /\ part = "chat"     => ChatInv
  /\ part = "form"     => FormInv
  /\ part = "keys tab" => KeysInv
  /\ part = "ways"     => WaysInv
  /\ part = "billing"  => BillInv
  /\ part = "settings" => SettingsInv

LEMMA Assumed ==
  /\ Lists!ListPageAssumption /\ Chat!ChatPanelAssumption
  /\ Form!FormAssumption
  /\ Keys!KeysTabAssumption /\ Ways!ListPagesAssumption
  /\ Billing!BillingTabAssumption /\ Pages!SettingsAssumption
BY BrowserAssumption DEF BrowserAssumption

LEMMA InitBrowser == Init => BrowserInv
<1>1. /\ Init /\ part = "list" => Lists!Init
      /\ Init /\ part = "chat" => Chat!Init
      /\ Init /\ part = "form" => Form!Init
      /\ Init /\ part = "keys tab" => Keys!Init
      /\ Init /\ part = "ways" => Ways!Init
      /\ Init /\ part = "billing" => Billing!Init
      /\ Init /\ part = "settings" => Pages!Init
  BY DEF Init
<1> QED BY <1>1, Assumed, InitList, InitChat, InitForm, InitKeys, InitWays, InitBill, InitSettings
        DEF BrowserInv

LEMMA PartSteps ==
  ASSUME [Next]_vars
  PROVE  /\ part' = part
         /\ part = "list" => [Lists!Next]_(Lists!vars)
         /\ part = "chat" => [Chat!Next]_(Chat!vars)
         /\ part = "form" => [Form!Next]_(Form!vars)
         /\ part = "keys tab" => [Keys!Next]_(Keys!vars)
         /\ part = "ways" => [Ways!Next]_(Ways!vars)
         /\ part = "billing" => [Billing!Next]_(Billing!vars)
         /\ part = "settings" => [Pages!Next]_(Pages!vars)
<1>1. CASE UNCHANGED vars
  BY <1>1 DEF vars, listVars, chatVars, formVars, keysVars, waysVars, billingVars, settingsVars,
       Lists!vars, Chat!vars, Chat!msgs, Chat!refs, Chat!sends, Form!vars, Keys!vars, Ways!vars,
       Billing!vars, Pages!vars
<1>2. CASE Next
  BY <1>2 DEF Next
<1> QED BY <1>1, <1>2

LEMMA NextBrowser == BrowserInv /\ [Next]_vars => BrowserInv'
<1> SUFFICES ASSUME BrowserInv, [Next]_vars PROVE BrowserInv'
  OBVIOUS
<1>1. part = "list" => ListInv'
  BY PartSteps, Assumed, NextList DEF BrowserInv
<1>2. part = "chat" => ChatInv'
  BY PartSteps, Assumed, NextChat DEF BrowserInv
<1>3. part = "form" => FormInv'
  BY PartSteps, Assumed, NextForm DEF BrowserInv
<1>4. part = "keys tab" => KeysInv'
  BY PartSteps, Assumed, NextKeys DEF BrowserInv
<1>5. part = "ways" => WaysInv'
  BY PartSteps, Assumed, NextWays DEF BrowserInv
<1>6. part = "billing" => BillInv'
  BY PartSteps, Assumed, NextBill DEF BrowserInv
<1>7. part = "settings" => SettingsInv'
  BY PartSteps, Assumed, NextSettings DEF BrowserInv
<1> QED BY PartSteps, <1>1, <1>2, <1>3, <1>4, <1>5, <1>6, <1>7 DEF BrowserInv

(* URLs, bubbles, forms, rows, requests and answers keep their types, in   *)
(* every part.                                                             *)
THEOREM TypeCorrect == Spec => []TypeOK
<1>1. BrowserInv => TypeOK
  BY Assumed, ListSays, FormSays, KeysSay, WaysSay, BillSays, SettingsSay
  DEF BrowserInv, TypeOK, ChatInv
<1> QED BY <1>1, InitBrowser, NextBrowser, PTL DEF Spec

(* At rest the page, the filter and the URL of a list are one choice, the  *)
(* user's last, unless two updates met: useUrlPagination and               *)
(* useUrlDateFilter each write the URL from their own state and read it    *)
(* back in an effect.                                                      *)
THEOREM ListsFollowTheUrl == Spec => []DriftNeedsClash
<1>1. BrowserInv => DriftNeedsClash
  BY Assumed, ListSays DEF BrowserInv, DriftNeedsClash
<1> QED BY <1>1, InitBrowser, NextBrowser, PTL DEF Spec

(* One thing at a time mixes nothing: a chat shows the bubbles of its own  *)
(* session with the text of one message each and offers Stop while there   *)
(* is something to stop, the tab of the keys keeps what is typed and the   *)
(* secret on the screen, a plan is bought twice only from a page that is   *)
(* behind, and a typed name is only replaced by an answer that was awaited *)
(* or brings something new.                                                *)
THEOREM OneAtATimeIsClean == Spec => []AloneIsClean
<1>1. BrowserInv => AloneIsClean
  BY Assumed, ChatSays, KeysSay, BillSays, SettingsSay DEF BrowserInv, AloneIsClean
<1> QED BY <1>1, InitBrowser, NextBrowser, PTL DEF Spec

(* What two of the parts show in a state: the ways between the lists and   *)
(* the pages of settings.                                                  *)
Showing ==
  /\ part = "ways" => Ways!ListIsFollowed
  /\ part = "settings" => Pages!CacheIsCurrent

(* What the pages show is what was followed, chosen or stored: rows and    *)
(* links of a list, the saves of a provider, deletions as they were        *)
(* typed, plans as the button named them, and the cached answers at rest.  *)
THEOREM PagesShowWhatIsStored == Spec => PagesAreFaithful
<1>1. BrowserInv => Showing
  BY Assumed, WaysSay, SettingsSay DEF BrowserInv, Showing
<1>2. BrowserInv /\ [Next]_vars => Showing'
  BY <1>1, NextBrowser, PTL
<1>3. ASSUME BrowserInv, [Next]_vars
      PROVE  /\ part = "form" => Form!FormSteps
             /\ part = "keys tab" => Keys!TabSteps
             /\ part = "billing" => Billing!TabSteps
             /\ part = "settings" => Pages!DeletesWhatWasTyped
  BY <1>3, PartSteps, Assumed, FormStepsHold, KeysSteps, BillSteps, SettingsSteps DEF BrowserInv
<1>4. ASSUME BrowserInv, [Next]_vars
      PROVE  /\ part = "ways" => (Ways!ListIsFollowed)'
             /\ part = "settings" => (Pages!CacheIsCurrent)'
  BY <1>2, <1>4, PartSteps DEF Showing
<1>5. BrowserInv /\ [Next]_vars =>
        [/\ part = "ways" => (Ways!ListIsFollowed)'
         /\ part = "form" => Form!FormSteps
         /\ part = "keys tab" => Keys!TabSteps
         /\ part = "billing" => Billing!TabSteps
         /\ part = "settings" =>
              (Pages!CacheIsCurrent)' /\ Pages!DeletesWhatWasTyped]_vars
  BY <1>3, <1>4
<1> QED BY <1>5, InitBrowser, NextBrowser, PTL DEF Spec, PagesAreFaithful
==============================================================================
