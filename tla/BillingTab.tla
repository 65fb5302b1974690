----------------------------- MODULE BillingTab -----------------------------
(* The billing tab (BillingTab.tsx): what its buttons say and do on what   *)
(* the page knows of the workspace, which follows the database, which      *)
(* follows Stripe by the webhook.  A change ends in leaving the page: it   *)
(* is loaded again, or gives way to Stripe's checkout or portal.  Until it *)
(* is gone the buttons are enabled, for isLoading is reset before.         *)
(*                                                                         *)
(* A request to the server is one step here; its steps, failures and races *)
(* with the webhook are module Subscription's.  Plans are their ranks      *)
(* (getPlanOrder); Enterprise only opens a window and is left out, and so  *)
(* are error texts.                                                        *)
EXTENDS Naturals

CONSTANTS
  None,
  MaxActs,   \* bound: what the user does
  MaxEnds    \* bound: periods that end

VARIABLES
  bill,      \* the subscription at Stripe
  row,       \* billingPlan, and whether there is a billingSubscriptionId
  seen,      \* the same as the page has it: currentPlan, hasSubscription
  info,      \* subscriptionInfo: cancellation and scheduledChange
  asking,    \* requests for it under way, and their answers
  dialog,    \* showPricingDialog
  isLoading,
  calls,     \* requests of the buttons, two at most
  place,     \* where the user is, and where the page is about to go
  acts, ends,
  hist       \* history for the properties

vars == <<bill, row, seen, info, asking, dialog, isLoading, calls, place, acts, ends, hist>>

Plan == 0 .. 2
Free == 0
Slot == {1, 2}
NoNotice == [cancel |-> FALSE, next |-> None]
Asked == [st |-> "asked", info |-> NoNotice]
Request ==
  [op : {"change", "checkout", "portal"}, plan : Plan, page : {"here", "app", "gone"},
   label : {"Upgrade", "Downgrade", "Portal"}, st : {"asked", "ok", "error"}]

BillingTabAssumption ==
  /\ None \notin Plan /\ None \notin {"tab", "checkout", "portal"} /\ None \notin Request
  /\ MaxActs \in Nat /\ MaxEnds \in Nat

Billed == IF bill.on THEN [plan |-> bill.plan, sub |-> TRUE] ELSE [plan |-> Free, sub |-> FALSE]

Init ==
  /\ bill \in {[on |-> FALSE, plan |-> Free, cancel |-> FALSE, next |-> None],
               [on |-> TRUE, plan |-> 2, cancel |-> FALSE, next |-> None]}
  /\ row = Billed /\ seen = row
  /\ info = NoNotice /\ asking = IF row.sub THEN {Asked} ELSE {}
  /\ dialog = FALSE /\ isLoading = FALSE /\ calls = [s \in Slot |-> None]
  /\ place = [at |-> "tab", plan |-> Free, next |-> None]
  /\ acts = 0 /\ ends = 0
  /\ hist = [behind |-> FALSE, lagged |-> FALSE, doubled |-> FALSE]

Act == acts < MaxActs /\ acts' = acts + 1
OnTab == place.at = "tab"

-----------------------------------------------------------------------------
(* What the page knows.                                                    *)

\* The query is refetched.  The effect asks when a subscription appears; when
\* it goes, what was known of it stays.
Refocus ==
  /\ OnTab /\ seen # row
  /\ seen' = row
  /\ asking' = IF row.sub /\ ~seen.sub THEN asking \union {Asked} ELSE asking
  /\ UNCHANGED <<bill, row, info, dialog, isLoading, calls, place, acts, ends, hist>>

\* GET subscription-info: the row, then Stripe.
SubscriptionInfo ==
  IF row.sub /\ bill.on THEN [cancel |-> bill.cancel, next |-> bill.next] ELSE NoNotice

ReadInfo ==
  /\ Asked \in asking
  /\ asking' = (asking \ {Asked}) \union {[st |-> "read", info |-> SubscriptionInfo]}
  /\ UNCHANGED <<bill, row, seen, info, dialog, isLoading, calls, place, acts, ends, hist>>

SetInfo(a) ==
  /\ a.st = "read"
  /\ asking' = asking \ {a} /\ info' = a.info
  /\ UNCHANGED <<bill, row, seen, dialog, isLoading, calls, place, acts, ends, hist>>

\* The error is only logged.
InfoFails(a) ==
  /\ asking' = asking \ {a} /\ hist' = [hist EXCEPT !.behind = TRUE]
  /\ UNCHANGED <<bill, row, seen, info, dialog, isLoading, calls, place, acts, ends>>

-----------------------------------------------------------------------------
(* The buttons.                                                            *)

Call(s, c) == calls[s] = None /\ calls' = [calls EXCEPT ![s] = c]

setShowPricingDialog ==
  /\ Act /\ OnTab
  /\ dialog' = ~dialog
  /\ UNCHANGED <<bill, row, seen, info, asking, isLoading, calls, place, ends, hist>>

isUpgrade(from, to) == to > from
getButtonTextSwapped(p) ==  \* mutant: the arguments of isUpgrade swapped
  IF p # Free /\ isUpgrade(p, seen.plan) THEN "Upgrade" ELSE "Downgrade"
getButtonText(p) == IF p # Free /\ isUpgrade(seen.plan, p) THEN "Upgrade" ELSE "Downgrade"

Ask(p, op) ==
  /\ Act /\ OnTab /\ dialog /\ ~isLoading /\ p # seen.plan
  /\ isLoading' = TRUE
  /\ \E s \in Slot :
       Call(s, [op |-> op, plan |-> p, label |-> getButtonText(p), st |-> "asked", page |-> "here"])
  /\ hist' = [hist EXCEPT !.lagged = @ \/ (op = "checkout" /\ bill.on /\ ~seen.sub)]
  /\ UNCHANGED <<bill, row, seen, info, asking, dialog, place, ends>>

\* mutant: every upgrade goes to checkout
handlePlanSelectUpgrades(p) ==
  Ask(p, IF isUpgrade(seen.plan, p) THEN "checkout" ELSE "change")
handlePlanSelect(p) ==
  Ask(p, IF ~seen.sub /\ p # Free THEN "checkout" ELSE "change")

handleOpenPortal ==
  /\ Act /\ OnTab /\ ~dialog /\ seen.sub /\ ~isLoading
  /\ isLoading' = TRUE
  /\ \E s \in Slot :
       Call(s, [op |-> "portal", plan |-> Free, label |-> "Portal", st |-> "asked", page |-> "here"])
  /\ UNCHANGED <<bill, row, seen, info, asking, dialog, place, ends, hist>>

-----------------------------------------------------------------------------
(* The server.  A request of a page that is gone is served all the same.   *)

\* POST change-plan: nothing to do, cancel at the end of the period, change at
\* once, or change at the end of the period.
ChangePlan(p) ==
  \/ (p = row.plan \/ (p = Free /\ ~row.sub)) /\ UNCHANGED <<bill, row>>
  \/ /\ p # row.plan /\ row.sub /\ bill.on
     /\ \/ /\ p = Free
           /\ bill' = [bill EXCEPT !.cancel = TRUE, !.next = None] /\ UNCHANGED row
        \/ /\ isUpgrade(row.plan, p)
           /\ bill' = [bill EXCEPT !.plan = p, !.cancel = FALSE, !.next = None]
           /\ row' = [row EXCEPT !.plan = p]
        \/ /\ p # Free /\ ~isUpgrade(row.plan, p)
           /\ bill' = [bill EXCEPT !.next = p, !.cancel = FALSE] /\ UNCHANGED row

Answer(s, st) ==
  calls' = [calls EXCEPT ![s] = IF @.page = "gone" THEN None ELSE [@ EXCEPT !.st = st]]

\* checkout and portal only make a session at Stripe.
Serve(s) ==
  /\ calls[s] # None /\ calls[s].st = "asked"
  /\ \/ calls[s].op = "change" /\ ChangePlan(calls[s].plan) /\ Answer(s, "ok")
     \/ calls[s].op # "change" /\ UNCHANGED <<bill, row>> /\ Answer(s, "ok")
     \/ UNCHANGED <<bill, row>> /\ Answer(s, "error")
  /\ hist' = [hist EXCEPT !.behind = @ \/ (calls[s].page = "gone" /\ bill' # bill)]
  /\ UNCHANGED <<seen, info, asking, dialog, isLoading, place, acts, ends>>

AnsweredNoReload(s) ==  \* mutant: the page is not loaded again
  /\ calls[s] # None /\ calls[s].st # "asked"
  /\ calls' = [calls EXCEPT ![s] = None] /\ isLoading' = FALSE
  /\ UNCHANGED <<bill, row, seen, info, asking, dialog, place, acts, ends, hist>>

\* The answer, and finally.  The page's going is under way, and what an answer
\* to an earlier mount of the tab sets there is lost but for that.
Answered(s) ==
  LET c == calls[s] IN
  /\ c # None /\ c.st # "asked"
  /\ calls' = [calls EXCEPT ![s] = None]
  /\ isLoading' = IF c.page = "here" THEN FALSE ELSE isLoading
  /\ IF c.st = "error" THEN UNCHANGED <<dialog, place>>
     ELSE /\ dialog' = (dialog /\ ~(c.op = "change" /\ c.page = "here"))
          /\ place' = [place EXCEPT !.plan = c.plan,
                         !.next = IF c.op = "change" THEN "tab" ELSE c.op]
  /\ UNCHANGED <<bill, row, seen, info, asking, acts, ends, hist>>

-----------------------------------------------------------------------------
(* Leaving and coming back.                                                *)

\* The tab as it is mounted, on what the query has.
Mounted(known) ==
  /\ seen' = known /\ info' = NoNotice /\ asking' = IF known.sub THEN {Asked} ELSE {}
  /\ dialog' = FALSE /\ isLoading' = FALSE

\* Another settings tab and back: the query's data may be a minute old.
Remount ==
  /\ Act /\ OnTab /\ \E s \in Slot : calls[s] # None /\ calls[s].page = "here"
  /\ Mounted(seen)
  /\ calls' = [s \in Slot |-> IF calls[s] # None /\ calls[s].page = "here"
                              THEN [calls[s] EXCEPT !.page = "app"] ELSE calls[s]]
  /\ UNCHANGED <<bill, row, place, ends, hist>>

Unloaded ==
  calls' = [s \in Slot |-> IF calls[s] # None /\ calls[s].st = "asked"
                           THEN [calls[s] EXCEPT !.page = "gone"] ELSE None]

Leave ==
  /\ OnTab /\ place.next # None
  /\ place' = [place EXCEPT !.at = place.next, !.next = None]
  /\ Mounted(row) /\ Unloaded
  /\ hist' = [hist EXCEPT !.behind = FALSE]
  /\ UNCHANGED <<bill, row, acts, ends>>

\* At Stripe: checkout makes a subscription, the portal ends one or keeps it.
\* The page is loaded when the user comes back.
Return ==
  /\ Act /\ ~OnTab
  /\ \/ UNCHANGED <<bill, hist>>
     \/ /\ place.at = "checkout"
        /\ bill' = [on |-> TRUE, plan |-> place.plan, cancel |-> FALSE, next |-> None]
        /\ hist' = [hist EXCEPT !.doubled = @ \/ bill.on]
     \/ /\ place.at = "portal" /\ bill.on /\ bill.next = None
        /\ bill' = [bill EXCEPT !.cancel = ~@] /\ UNCHANGED hist
  /\ place' = [place EXCEPT !.at = "tab"]
  /\ Mounted(row)
  /\ UNCHANGED <<row, calls, ends>>

-----------------------------------------------------------------------------
Webhook ==
  /\ row # Billed /\ row' = Billed
  /\ UNCHANGED <<bill, seen, info, asking, dialog, isLoading, calls, place, acts, ends, hist>>

PeriodEnd ==
  /\ ends < MaxEnds /\ ends' = ends + 1
  /\ bill.on /\ NoNotice # [cancel |-> bill.cancel, next |-> bill.next]
  /\ bill' = IF bill.cancel THEN [bill EXCEPT !.on = FALSE, !.cancel = FALSE]
             ELSE [bill EXCEPT !.plan = bill.next, !.next = None]
  /\ hist' = [hist EXCEPT !.behind = TRUE]
  /\ UNCHANGED <<row, seen, info, asking, dialog, isLoading, calls, place, acts>>

Next ==
  \/ Refocus \/ ReadInfo \/ setShowPricingDialog \/ handleOpenPortal
  \/ \E a \in asking : SetInfo(a) \/ InfoFails(a)
  \/ \E p \in Plan : handlePlanSelect(p)
  \/ \E s \in Slot : Serve(s) \/ Answered(s)
  \/ Remount \/ Leave \/ Return \/ Webhook \/ PeriodEnd

Spec == Init /\ [][Next]_vars

-----------------------------------------------------------------------------
(* Properties.                                                             *)

Notice == [cancel : BOOLEAN, next : {1, 2, None}]
Known == [plan : Plan, sub : BOOLEAN]

TypeOK ==
  /\ bill \in [on : BOOLEAN, plan : Plan, cancel : BOOLEAN, next : {1, 2, None}]
  /\ row \in Known /\ seen \in Known /\ info \in Notice
  /\ asking \subseteq [st : {"asked", "read"}, info : Notice]
  /\ calls \in [Slot -> Request \union {None}]
  /\ place \in [at : {"tab", "checkout", "portal"}, plan : Plan,
                next : {"tab", "checkout", "portal", None}]

\* A workspace is only made to pay for two subscriptions by a page that did
\* not know of the first one when its button was pressed: one that was loaded
\* before the webhook came.  (handlePlanSelect, checkout/route.ts)
DoubleNeedsLag == hist.doubled => hist.lagged

\* Whatever has happened to the workspace since the page was loaded, what says
\* Downgrade changes no plan at once, and what says Upgrade ends or lowers
\* none.  (getButtonText, change-plan/route.ts)
LabelIsKept ==
  \A s \in Slot :
    calls[s] # None /\ calls[s].st = "asked" /\ calls'[s] # calls[s] /\ bill' # bill =>
      /\ calls[s].label = "Downgrade" => bill'.plan = bill.plan
      /\ calls[s].label = "Upgrade" => bill'.plan = calls[s].plan /\ ~bill'.cancel

\* Once page, database and Stripe agree and nothing is under way, the notices
\* on the page are Stripe's, also after an answer that came to an earlier
\* mount, unless a period ended under the page, a request of a page that was
\* gone was served or the info could not be fetched.  (subscriptionInfo)
NoticesAreCurrent ==
  OnTab /\ place.next = None /\ asking = {} /\ (\A s \in Slot : calls[s] = None)
    /\ seen = row /\ row = Billed /\ ~hist.behind
  => info = IF bill.on THEN [cancel |-> bill.cancel, next |-> bill.next] ELSE NoNotice

TabSteps == LabelIsKept /\ NoticesAreCurrent'
=============================================================================
