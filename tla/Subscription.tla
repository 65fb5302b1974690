---------------------------- MODULE Subscription ----------------------------
(***************************************************************************)
(* The plan of a workspace in the database and its subscription at Stripe. *)
(* POST checkout and POST change-plan call Stripe step by step, on what    *)
(* they read at first; Stripe tells the webhook of every change with an    *)
(* event that is retried when the webhook fails, and then comes late.      *)
(* A plan is its rank (getPlanOrder): 0 FREE, 1 STARTER, 2 PRO; Enterprise *)
(* has no price.                                                           *)
(***************************************************************************)
EXTENDS Naturals

CONSTANTS
  Req,          (* requests to checkout or change-plan                     *)
  Sub,          (* subscriptions Stripe may create for the workspace       *)
  None,         (* no subscription, customer or schedule                   *)
  MaxChanges,   (* bound: changes at Stripe                                *)
  MaxFaults     (* bound: failed calls and failed or repeated deliveries   *)

SubscriptionAssumption ==
  /\ MaxChanges \in Nat /\ MaxFaults \in Nat /\ None \notin Sub \cup Req

Plan == 0 .. 2
Free == 0
Paid == {1, 2}

VARIABLES
  ws,       (* billingPlan, billingSubscriptionId, billingCustomerId       *)
  sub,      (* the subscriptions at Stripe                                 *)
  events,   (* events not yet acknowledged by the webhook                  *)
  changes,  (* changes at Stripe so far, each with one event               *)
  req,      (* requests: progress and what they read                       *)
  faults,   (* faults so far                                               *)
  applied,  (* history: latest change an applied event was about           *)
  raced     (* history: a write came after a later one, or twice over      *)

vars == <<ws, sub, events, changes, req, faults, applied, raced>>

NoSub == [st |-> "none", plan |-> Free, customer |-> None,
          next |-> None, cancel |-> FALSE]
NoReq == [st |-> "new", plan |-> Free, from |-> Free, sub |-> None, customer |-> None,
          cancel |-> FALSE, schedule |-> FALSE, n |-> 0]

Active(s) == sub[s].st = "active"

Init ==
  /\ ws = [plan |-> Free, sub |-> None, customer |-> None]
  /\ sub = [s \in Sub |-> NoSub]
  /\ events = {} /\ changes = 0
  /\ req = [r \in Req |-> NoReq]
  /\ faults = 0 /\ applied = 0 /\ raced = FALSE

-----------------------------------------------------------------------------
(* Stripe.                                                                 *)

(* The subscription takes its new value and an event tells of it.          *)
Changed(s, value, kind) ==
  /\ changes < MaxChanges /\ changes' = changes + 1
  /\ sub' = [sub EXCEPT ![s] = value]
  /\ events' = events \cup {[kind |-> kind, sub |-> s, plan |-> value.plan,
                             customer |-> value.customer, n |-> changes + 1,
                             fetched |-> FALSE, late |-> FALSE]}

(* A renewal, a scheduled change or the end that was asked for.            *)
PeriodEnd(s) ==
  /\ Active(s)
  /\ \/ sub[s].cancel /\ Changed(s, [sub[s] EXCEPT !.st = "ended"], "deleted")
     \/ /\ ~sub[s].cancel /\ sub[s].next \in Paid
        /\ Changed(s, [sub[s] EXCEPT !.plan = sub[s].next, !.next = None], "updated")
     \/ ~sub[s].cancel /\ sub[s].next \notin Paid /\ Changed(s, sub[s], "updated")
  /\ UNCHANGED <<ws, req, faults, applied, raced>>

(* Unpaid invoices and the customer portal end a subscription at once.     *)
EndNow(s) ==
  /\ Active(s) /\ Changed(s, [sub[s] EXCEPT !.st = "ended"], "deleted")
  /\ UNCHANGED <<ws, req, faults, applied, raced>>

-----------------------------------------------------------------------------
(* The routes.  Next to each step a call may fail: the answer is 500.      *)

At(r, st) == req[r].st = st
Go(r, st) == req' = [req EXCEPT ![r].st = st]
Quiet     == UNCHANGED <<ws, sub, events, changes, faults, applied, raced>>

(* Checkout looks at the plan that is asked for only, not at a subscription *)
(* the workspace may have; change-plan needs one.                          *)
CheckoutStep(p) ==
  IF p = Free THEN "done" ELSE IF ws.customer = None THEN "customer" ELSE "session"
ChangeStep(p) == IF p = ws.plan \/ ws.sub = None THEN "done" ELSE "retrieve"

Read(r) ==
  /\ At(r, "new")
  /\ \E p \in Plan : \E st \in {CheckoutStep(p), ChangeStep(p)} :
       req' = [req EXCEPT ![r] =
         [NoReq EXCEPT !.plan = p, !.from = ws.plan, !.sub = ws.sub, !.customer = ws.customer,
            !.st = st]]
  /\ Quiet

(* Checkout: the customer is created at Stripe (named after its request),  *)
(* then saved; the session is paid any time later, or never.               *)
SaveCustomer(r) ==
  /\ At(r, "customer")
  /\ ws' = [ws EXCEPT !.customer = r]
  /\ req' = [req EXCEPT ![r].st = "session", ![r].customer = r]
  /\ raced' = (raced \/ ws.customer # None)
  /\ UNCHANGED <<sub, events, changes, faults, applied>>

Pay(r, s) ==
  /\ At(r, "session") /\ sub[s].st = "none"
  /\ Changed(s, [NoSub EXCEPT !.st = "active", !.plan = req[r].plan,
                             !.customer = req[r].customer], "updated")
  /\ Go(r, "done")
  /\ raced' = (raced \/ \E t \in Sub : Active(t))
  /\ UNCHANGED <<ws, faults, applied>>

(* Change of plan: the subscription is read once.                          *)
Retrieve(r) ==
  /\ At(r, "retrieve")
  /\ LET s == req[r].sub IN
     req' = [req EXCEPT ![r].cancel = sub[s].cancel, ![r].schedule = sub[s].next # None,
               ![r].st = IF req[r].plan # Free /\ sub[s].cancel THEN "uncancel" ELSE "release"]
  /\ Quiet

Uncancel(r) ==
  /\ At(r, "uncancel") /\ Active(req[r].sub)
  /\ Changed(req[r].sub, [sub[req[r].sub] EXCEPT !.cancel = FALSE], "updated")
  /\ Go(r, "release")
  /\ UNCHANGED <<ws, faults, applied, raced>>

Target(r) == IF req[r].plan = Free THEN "cancel"
             ELSE IF req[r].plan > req[r].from THEN "upgrade" ELSE "schedule"

(* Only a schedule that was there when the subscription was read.          *)
Release(r) ==
  /\ At(r, "release")
  /\ \/ ~req[r].schedule /\ UNCHANGED sub
     \/ /\ req[r].schedule /\ Active(req[r].sub) /\ sub[req[r].sub].next # None
        /\ sub' = [sub EXCEPT ![req[r].sub].next = None]
  /\ Go(r, Target(r))
  /\ UNCHANGED <<ws, events, changes, faults, applied, raced>>

(* Stripe refuses it while a schedule manages the subscription.            *)
CancelAtPeriodEnd(r) ==
  /\ At(r, "cancel") /\ Active(req[r].sub) /\ sub[req[r].sub].next = None
  /\ Changed(req[r].sub, [sub[req[r].sub] EXCEPT !.cancel = TRUE], "updated")
  /\ Go(r, "done")
  /\ UNCHANGED <<ws, faults, applied, raced>>

Upgrade(r) ==
  /\ At(r, "upgrade") /\ Active(req[r].sub)
  /\ Changed(req[r].sub, [sub[req[r].sub] EXCEPT !.plan = req[r].plan], "updated")
  /\ req' = [req EXCEPT ![r].st = "save", ![r].n = changes + 1]
  /\ UNCHANGED <<ws, faults, applied, raced>>

(* The database at once, without a look at what the webhook wrote since.   *)
SaveUpgrade(r) ==
  /\ At(r, "save")
  /\ ws' = [ws EXCEPT !.plan = req[r].plan]
  /\ Go(r, "upgraded")
  /\ raced' = (raced \/ applied > req[r].n)
  /\ UNCHANGED <<sub, events, changes, faults, applied>>

CreateSchedule(r) ==
  /\ At(r, "schedule") /\ Active(req[r].sub) /\ sub[req[r].sub].next = None
  /\ sub' = [sub EXCEPT ![req[r].sub].next = Free]  \* no phases of its own yet
  /\ Go(r, "phases")
  /\ UNCHANGED <<ws, events, changes, faults, applied, raced>>

SetPhases(r) ==
  /\ At(r, "phases") /\ Active(req[r].sub) /\ sub[req[r].sub].next # None
  /\ sub' = [sub EXCEPT ![req[r].sub].next = req[r].plan]
  /\ Go(r, "done")
  /\ UNCHANGED <<ws, events, changes, faults, applied, raced>>

Ended(st) == st \in {"done", "upgraded", "failed"}

(* A call fails: by a fault, or because Stripe refuses it by now.          *)
Refused(r) ==
  LET s == req[r].sub IN
  \/ At(r, "uncancel") /\ ~Active(s)
  \/ At(r, "release") /\ req[r].schedule /\ (~Active(s) \/ sub[s].next = None)
  \/ (At(r, "cancel") \/ At(r, "schedule")) /\ (~Active(s) \/ sub[s].next # None)
  \/ At(r, "upgrade") /\ ~Active(s)
  \/ At(r, "phases") /\ (~Active(s) \/ sub[s].next = None)

Fail(r) ==
  /\ ~At(r, "new") /\ ~Ended(req[r].st)
  /\ \/ Refused(r) /\ UNCHANGED faults
     \/ faults < MaxFaults /\ faults' = faults + 1
  /\ Go(r, "failed")
  /\ UNCHANGED <<ws, sub, events, changes, applied, raced>>

-----------------------------------------------------------------------------
(* POST webhook.  Stripe keeps the order of events until one of them fails *)
(* and is retried later.                                                   *)

Turn(e) == e.late \/ \A f \in events : f.late \/ f.n >= e.n

(* An event without the dates of the period: Stripe is asked for the       *)
(* subscription, whatever has become of it.                                *)
Fetch(e) ==
  /\ Turn(e) /\ e.kind = "updated" /\ ~e.fetched
  /\ events' = (events \ {e}) \cup {[e EXCEPT !.fetched = TRUE, !.plan = sub[e.sub].plan]}
  /\ UNCHANGED <<ws, sub, changes, req, faults, applied, raced>>

WrittenKeepsPlan(e) ==  \* mutant: the end clears the subscription, not the plan
  IF e.kind = "updated" THEN [plan |-> e.plan, sub |-> e.sub, customer |-> e.customer]
  ELSE [ws EXCEPT !.sub = None]

Written(e) == IF e.kind = "updated" THEN [plan |-> e.plan, sub |-> e.sub, customer |-> e.customer]
              ELSE [plan |-> Free, sub |-> None, customer |-> ws.customer]

(* Once it is written the answer may still be lost: the event comes again. *)
Apply(e) ==
  /\ Turn(e)
  /\ ws' = Written(e)
  /\ raced' = (raced \/ e.n < applied)
  /\ applied' = IF e.n > applied THEN e.n ELSE applied
  /\ \/ events' = events \ {e} /\ UNCHANGED faults
     \/ /\ faults < MaxFaults /\ faults' = faults + 1
        /\ events' = (events \ {e}) \cup {[e EXCEPT !.late = TRUE]}
  /\ UNCHANGED <<sub, changes, req>>

Miss(e) ==
  /\ Turn(e) /\ ~e.late /\ faults < MaxFaults /\ faults' = faults + 1
  /\ events' = (events \ {e}) \cup {[e EXCEPT !.late = TRUE]}
  /\ UNCHANGED <<ws, sub, changes, req, applied, raced>>

-----------------------------------------------------------------------------
Route(r) ==
  \/ Read(r) \/ SaveCustomer(r) \/ Retrieve(r) \/ Uncancel(r) \/ Release(r)
  \/ CancelAtPeriodEnd(r) \/ Upgrade(r) \/ SaveUpgrade(r) \/ CreateSchedule(r)
  \/ SetPhases(r) \/ Fail(r) \/ \E s \in Sub : Pay(r, s)

Next ==
  \/ \E r \in Req : Route(r)
  \/ \E s \in Sub : PeriodEnd(s) \/ EndNow(s)
  \/ \E e \in events : Fetch(e) \/ Apply(e) \/ Miss(e)

Spec == Init /\ [][Next]_vars

-----------------------------------------------------------------------------
(* Properties.                                                             *)

Progress == {"new", "customer", "session", "retrieve", "uncancel", "release", "cancel",
             "upgrade", "save", "schedule", "phases", "done", "upgraded", "failed"}

TypeOK ==
  /\ ws \in [plan : Plan, sub : Sub \cup {None}, customer : Req \cup {None}]
  /\ sub \in [Sub -> [st : {"none", "active", "ended"}, plan : Plan,
                      customer : Req \cup {None}, next : Plan \cup {None},
                      cancel : BOOLEAN]]
  /\ events \subseteq [kind : {"updated", "deleted"}, sub : Sub, plan : Paid,
                       customer : Req, n : 1 .. MaxChanges, fetched : BOOLEAN, late : BOOLEAN]
  /\ changes \in 0 .. MaxChanges /\ applied \in 0 .. changes
  /\ req \in [Req -> [st : Progress, plan : Plan, from : Plan, sub : Sub \cup {None},
                      customer : Req \cup {None}, cancel : BOOLEAN, schedule : BOOLEAN,
                      n : 0 .. changes]]
  /\ faults \in 0 .. MaxFaults /\ raced \in BOOLEAN

(* Nothing is under way between Stripe and the database.                   *)
Settled == events = {} /\ \A r \in Req : ~At(r, "save")

Agrees ==
  IF \E s \in Sub : Active(s)
  THEN \E s \in Sub : Active(s) /\ ws.sub = s /\ ws.plan = sub[s].plan
                                /\ ws.customer = sub[s].customer
  ELSE ws.plan = Free /\ ws.sub = None

(* Once every event is handled the workspace has the plan, subscription    *)
(* and customer Stripe bills, unless a write came out of order or the      *)
(* workspace checked out twice: no sequence of plan changes, ends and      *)
(* failures of the change-plan route alone makes the two differ.           *)
DriftNeedsRace == Settled /\ ~raced => Agrees
=============================================================================
