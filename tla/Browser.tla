------------------------------- MODULE Browser -------------------------------
(***************************************************************************)
(* Seven parts of the dashboard in the browser: the state of a list page   *)
(* (ListPageState), the ways between the lists (ListPages), the chat panel *)
(* (ChatPanel), the form of the model providers (ProviderForm), the tab of *)
(* the API keys (KeysTab), the billing tab (BillingTab) and the pages of   *)
(* settings (SettingsPages).  They share no variable, so a behaviour shows *)
(* one part: part says which, and the variables of the others stay Off.    *)
(***************************************************************************)
EXTENDS Naturals, FiniteSets, Sequences

CONSTANTS
  Presets, Dates, DefaultPreset, Limits, FirstLimit, MaxPage, ListActs,
  Sends, OldSessions, MaxBubbles,
  Adapters, AwsAdapters, UrlAdapters, Providers, LabelOf, Credentials, BaseUrls, Models,
  MaxRow, FormActs, MaxLost,
  KeyNames, Word, MaxKey, KeyActs,
  Traces, UserOf, SessionOf, PageRows, WayActs,
  BillingActs, MaxEnds,
  Titles, Slots, Tours,
  None, Off

VARIABLES
  part,
  index, limit, skip, date, params, nav, entries, wanted, clash, acts,
  session, sending, streaming, shown, live, text, cur, ctl, st, to, stopped,
  opened, loading, overlap,
  rows, list, refetch, dialog, save, late, deleting, steps, lost,
  table, seen, query, creating, box, editing, dropping, calls, past, moves,
  arrived, where, selected, answers, behind, ahead, landed, clicks,
  bill, row, known, info, asking, priced, isLoading, requests, place, tries,
  ends, since,
  tour, base, cached, at, typed, asked, ticks, elses, told

listVars == <<index, limit, skip, date, params, nav, entries, wanted, clash, acts>>
chatVars == <<session, sending, streaming, shown, live, text, cur, ctl, st,
              to, stopped, opened, loading, overlap>>
formVars == <<rows, list, refetch, dialog, save, late, deleting, steps, lost>>
keysVars == <<table, seen, query, creating, box, editing, dropping, calls,
              past, moves>>
waysVars == <<arrived, where, selected, answers, behind, ahead, landed,
              clicks>>
billingVars == <<bill, row, known, info, asking, priced, isLoading,
                 requests, place, tries, ends, since>>
settingsVars == <<tour, base, cached, at, typed, asked, ticks, elses, told>>
vars == <<part, listVars, chatVars, formVars, keysVars, waysVars, billingVars, settingsVars>>

Lists == INSTANCE ListPageState WITH
  Preset <- Presets, Range <- Dates, DefaultFilter <- DefaultPreset,
  Limit <- Limits, DefaultLimit <- FirstLimit, MaxActs <- ListActs,
  page <- index, url <- params, hist <- entries

Chat == INSTANCE ChatPanel WITH Send <- Sends, Old <- OldSessions

Form == INSTANCE ProviderForm WITH
  Adapter <- Adapters, Aws <- AwsAdapters, NeedsUrl <- UrlAdapters,
  Name <- Providers, Label <- LabelOf,
  Key <- Credentials, Url <- BaseUrls, Model <- Models, Null <- None,
  MaxStep <- FormActs

Keys == INSTANCE KeysTab WITH
  Name <- KeyNames, MaxStep <- KeyActs,
  stored <- table, list <- seen, fetch <- query, deleting <- dropping,
  hist <- past, steps <- moves

Ways == INSTANCE ListPages WITH
  Limit <- PageRows, MaxActs <- WayActs,
  url <- where, cache <- answers, acts <- clicks

Billing == INSTANCE BillingTab WITH
  MaxActs <- BillingActs, seen <- known, dialog <- priced, calls <- requests,
  acts <- tries, hist <- since

Pages == INSTANCE SettingsPages WITH
  Name <- Titles, Slot <- Slots,
  db <- base, queries <- cached, place <- at, draft <- typed, calls <- asked,
  acts <- ticks, others <- elses, hist <- told

ASSUME BrowserAssumption ==
  /\ Lists!ListPageAssumption /\ Chat!ChatPanelAssumption
  /\ Form!FormAssumption
  /\ Keys!KeysTabAssumption /\ Ways!ListPagesAssumption
  /\ Billing!BillingTabAssumption /\ Pages!SettingsAssumption

ListOff ==
  /\ index = Off /\ limit = Off /\ skip = Off /\ date = Off /\ params = Off
  /\ nav = Off /\ entries = Off /\ wanted = Off /\ clash = Off /\ acts = Off
ChatOff ==
  /\ session = Off /\ sending = Off /\ streaming = Off /\ shown = Off
  /\ live = Off /\ text = Off /\ cur = Off /\ ctl = Off /\ st = Off
  /\ to = Off /\ stopped = Off /\ opened = Off /\ loading = Off
  /\ overlap = Off
FormOff ==
  /\ rows = Off /\ list = Off /\ refetch = Off /\ dialog = Off
  /\ save = Off /\ late = Off /\ deleting = Off /\ steps = Off /\ lost = Off
KeysOff ==
  /\ table = Off /\ seen = Off /\ query = Off /\ creating = Off
  /\ box = Off /\ editing = Off /\ dropping = Off /\ calls = Off
  /\ past = Off /\ moves = Off
WaysOff ==
  /\ arrived = Off /\ where = Off /\ selected = Off /\ answers = Off
  /\ behind = Off /\ ahead = Off /\ landed = Off /\ clicks = Off
BillingOff ==
  /\ bill = Off /\ row = Off /\ known = Off /\ info = Off /\ asking = Off
  /\ priced = Off /\ isLoading = Off /\ requests = Off /\ place = Off
  /\ tries = Off /\ ends = Off /\ since = Off
SettingsOff ==
  /\ tour = Off /\ base = Off /\ cached = Off /\ at = Off /\ typed = Off /\ asked = Off
  /\ ticks = Off /\ elses = Off /\ told = Off

Init ==
  \/ /\ part = "list" /\ Lists!Init
     /\ ChatOff /\ FormOff /\ KeysOff /\ WaysOff /\ BillingOff
     /\ SettingsOff
  \/ /\ part = "chat" /\ Chat!Init
     /\ ListOff /\ FormOff /\ KeysOff /\ WaysOff /\ BillingOff
     /\ SettingsOff
  \/ /\ part = "form" /\ Form!Init
     /\ ListOff /\ ChatOff /\ KeysOff /\ WaysOff /\ BillingOff
     /\ SettingsOff
  \/ /\ part = "keys tab" /\ Keys!Init
     /\ ListOff /\ ChatOff /\ FormOff /\ WaysOff /\ BillingOff
     /\ SettingsOff
  \/ /\ part = "ways" /\ Ways!Init
     /\ ListOff /\ ChatOff /\ FormOff /\ KeysOff /\ BillingOff
     /\ SettingsOff
  \/ /\ part = "billing" /\ Billing!Init
     /\ ListOff /\ ChatOff /\ FormOff /\ KeysOff /\ WaysOff
     /\ SettingsOff
  \/ /\ part = "settings" /\ Pages!Init
     /\ ListOff /\ ChatOff /\ FormOff /\ KeysOff /\ WaysOff
     /\ BillingOff

Next ==
  \/ /\ part = "list" /\ Lists!Next
     /\ UNCHANGED <<part, chatVars, formVars, keysVars, waysVars,
                    billingVars, settingsVars>>
  \/ /\ part = "chat" /\ Chat!Next
     /\ UNCHANGED <<part, listVars, formVars, keysVars, waysVars,
                    billingVars, settingsVars>>
  \/ /\ part = "form" /\ Form!Next
     /\ UNCHANGED <<part, listVars, chatVars, keysVars, waysVars,
                    billingVars, settingsVars>>
  \/ /\ part = "keys tab" /\ Keys!Next
     /\ UNCHANGED <<part, listVars, chatVars, formVars, waysVars,
                    billingVars, settingsVars>>
  \/ /\ part = "ways" /\ Ways!Next
     /\ UNCHANGED <<part, listVars, chatVars, formVars, keysVars,
                    billingVars, settingsVars>>
  \/ /\ part = "billing" /\ Billing!Next
     /\ UNCHANGED <<part, listVars, chatVars, formVars, keysVars,
                    waysVars, settingsVars>>
  \/ /\ part = "settings" /\ Pages!Next
     /\ UNCHANGED <<part, listVars, chatVars, formVars, keysVars, waysVars,
                    billingVars>>

Spec == Init /\ [][Next]_vars

-----------------------------------------------------------------------------
(* The properties are those of the part that is shown.                      *)

(* Every part keeps its types.                                             *)
TypeOK ==
  /\ part = "list"   => Lists!TypeOK
  /\ part = "chat"   => Chat!TypeOK
  /\ part = "form"   => Form!TypeOK
  /\ part = "keys tab" => Keys!TypeOK
  /\ part = "ways"   => Ways!TypeOK
  /\ part = "billing" => Billing!TypeOK
  /\ part = "settings" => Pages!TypeOK

(* Page, URL and choice of a list agree at rest unless two updates met.    *)
DriftNeedsClash == part = "list" => Lists!DriftNeedsClash

(* The chat panel and the tab of the keys mix nothing as long as one thing *)
(* runs at a time, a typed name is kept as long as nothing is awaited, and *)
(* only a page that is behind buys a plan twice.                           *)
AloneIsClean ==
  /\ part = "chat" => Chat!AloneIsClean
  /\ part = "keys tab" => Keys!AloneIsClean
  /\ part = "billing" => Billing!DoubleNeedsLag
  /\ part = "settings" => Pages!TypingIsKept

(* Links and rows show what they name and the pages what is stored, but    *)
(* for known gaps; a save of a provider changes what the admin changed;    *)
(* keys, projects and workspaces are only deleted as typed, a plan only    *)
(* changes as its button says, and the pages come to show it.              *)
PagesAreFaithful ==
  [][/\ part = "ways" => (Ways!ListIsFollowed)'
     /\ part = "form" => Form!FormSteps
     /\ part = "keys tab" => Keys!TabSteps
     /\ part = "billing" => Billing!TabSteps
     /\ part = "settings" =>
          (Pages!CacheIsCurrent)' /\ Pages!DeletesWhatWasTyped]_vars
=============================================================================
