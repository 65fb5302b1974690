---------------------------- MODULE UsageMetering ----------------------------
(***************************************************************************)
(* How the hourly billing job charges one paid workspace for AI runs.  It  *)
(* adds up what the runs of the billing period cost, compares the sum with *)
(* what it says it reported before and sends Stripe a meter event for the  *)
(* difference.  What was reported lives in currentUsage, which every run   *)
(* of the job rebuilds from scratch.                                       *)
(*                                                                         *)
(* node-cron starts a run whether or not the last one has ended, so runs   *)
(* may overlap; a run works on the rows it read at its start.  The plan    *)
(* and the blocking flags are modules Subscription and UsageBlocking.      *)
(***************************************************************************)
EXTENDS Integers

CONSTANTS
  Job,         (* runs of the job that may be under way at once            *)
  MaxPeriod,   (* bound: billing periods                                   *)
  MaxRuns,     (* bound: AI runs in a period                               *)
  MaxFaults,   (* bound: failures, crashes, overlaps and late events       *)
  Included,    (* AI_RUN_QUOTAS[plan].included (100)                       *)
  RunBlock,    (* runs that are charged as one block (100)                 *)
  BlockUnits,  (* units of a block (1000)                                  *)
  TokenUnits   (* units of the tokens of one run on a system model         *)

ASSUME MeteringAssumption ==
  /\ MaxPeriod \in Nat \ {0} /\ MaxRuns \in Nat /\ MaxFaults \in Nat
  /\ Included \in Nat /\ BlockUnits \in Nat /\ TokenUnits \in Nat
  /\ RunBlock \in Nat \ {0}

Period == 1 .. MaxPeriod

VARIABLES
  paid,     (* the plan is not FREE                                        *)
  period,   (* the billing period stored with the workspace                *)
  begun,    (* the latest billing period: new messages fall into it        *)
  runs,     (* assistant messages in each period                           *)
  last,     (* currentUsage.ai: units reported, for which period           *)
  billed,   (* units Stripe received for each period                       *)
  job,      (* per run of the job: progress and what it read               *)
  peak,     (* the most runs a period ever held                            *)
  faults    (* failures, crashes, overlapping starts and late events so far *)

usage == <<paid, period, begun, runs, peak>>
vars  == <<usage, last, billed, job, faults>>

Unreported == [units |-> 0, period |-> 0]
Idle == [st |-> "off", paid |-> FALSE, period |-> 1, last |-> Unreported,
         over |-> 0, units |-> 0]
Off(j) == job[j].st = "off"

Overage(n) == IF n > Included THEN n - Included ELSE 0
Blocks(over) == (over + RunBlock - 1) \div RunBlock

Init ==
  /\ paid = TRUE /\ period = 1 /\ begun = 1
  /\ runs = [p \in Period |-> 0]
  /\ last = Unreported
  /\ billed = [p \in Period |-> 0]
  /\ job = [j \in Job |-> Idle]
  /\ peak = [p \in Period |-> 0]
  /\ faults = 0

Fault == faults < MaxFaults /\ faults' = faults + 1

-----------------------------------------------------------------------------
(* What the job meters.                                                    *)

(* An assistant message is stored.                                         *)
AiRun ==
  /\ runs[begun] < MaxRuns
  /\ runs' = [runs EXCEPT ![begun] = @ + 1]
  /\ peak' = [peak EXCEPT ![begun] = IF runs[begun] + 1 > @ THEN runs[begun] + 1 ELSE @]
  /\ UNCHANGED <<paid, period, begun, last, billed, job, faults>>

(* Deleting a chat session deletes its messages, old ones too.             *)
DeleteSession ==
  /\ \E p \in 1 .. begun : runs[p] > 0 /\ runs' = [runs EXCEPT ![p] = @ - 1]
  /\ UNCHANGED <<paid, period, begun, peak, last, billed, job, faults>>

(* The webhook stores the dates of the next period, or a new subscription. *)
Renew ==
  /\ begun < MaxPeriod
  /\ begun' = begun + 1 /\ period' = begun + 1 /\ paid' = TRUE
  /\ UNCHANGED <<runs, peak, last, billed, job, faults>>

(* An 'updated' event that comes late or again stores its plan and dates,  *)
(* those of an older period too, even after the subscription has ended.    *)
LateEvent ==
  /\ Fault
  /\ paid' = TRUE /\ period' \in 1 .. begun
  /\ UNCHANGED <<begun, runs, peak, last, billed, job>>

(* The subscription ends.                                                  *)
Unsubscribe ==
  /\ paid /\ paid' = FALSE
  /\ UNCHANGED <<period, begun, runs, peak, last, billed, job, faults>>

-----------------------------------------------------------------------------
(* One run of the job over the workspace.                                  *)

(* runBillingJob reads all workspaces at once, before the first is served. *)
StartUndated(j) ==  \* mutant: billingPeriodStart is not selected with the row
  /\ Off(j)
  /\ job' = [job EXCEPT ![j] = [Idle EXCEPT !.st = "started", !.paid = paid,
                                            !.period = 0, !.last = last]]
  /\ UNCHANGED <<usage, last, billed, faults>>

Start(j) ==
  /\ Off(j)
  /\ IF \A k \in Job : Off(k) THEN UNCHANGED faults ELSE Fault
  /\ job' = [job EXCEPT ![j] = [Idle EXCEPT !.st = "started", !.paid = paid,
                                            !.period = period, !.last = last]]
  /\ UNCHANGED <<usage, last, billed>>

Count(j) ==
  /\ job[j].st = "started"
  /\ job' = [job EXCEPT ![j].st   = IF job[j].paid THEN "counted" ELSE "free",
                        ![j].over = Overage(runs[job[j].period])]
  /\ UNCHANGED <<usage, last, billed, faults>>

(* The tokens are summed by a later query than the one that counted runs.  *)
Price(j) ==
  /\ job[j].st = "counted"
  /\ job' = [job EXCEPT
       ![j].st    = "priced",
       ![j].over  = 0,
       ![j].units = IF job[j].over = 0 THEN 0
                    ELSE Blocks(job[j].over) * BlockUnits
                         + Overage(runs[job[j].period]) * TokenUnits]
  /\ UNCHANGED <<usage, last, billed, faults>>

LastOfAnyPeriod(j) == job[j].last.units  \* mutant: not reset at the rollover
(* lastReportedUnits, which starts from zero in a new period.              *)
LastOf(j) == IF job[j].last.period = job[j].period THEN job[j].last.units ELSE 0

Received(j) ==
  [billed EXCEPT ![job[j].period] = @ + (job[j].units - LastOf(j))]

ReportTotal(j) ==  \* mutant: the total is sent, not the increase
  /\ job[j].st = "priced"
  /\ job' = [job EXCEPT ![j].st = "reported"]
  /\ billed' = [billed EXCEPT ![job[j].period] = @ + job[j].units]
  /\ UNCHANGED <<usage, last, faults>>

(* reportAiRunOverageToStripe; an error may come back although Stripe has  *)
(* the event.  Nothing is sent when nothing was added.                     *)
Report(j) ==
  /\ job[j].st = "priced"
  /\ \/ /\ job[j].units <= LastOf(j)
        /\ job' = [job EXCEPT ![j].st = "unchanged"]
        /\ UNCHANGED <<billed, faults>>
     \/ /\ job[j].units > LastOf(j)
        /\ job' = [job EXCEPT ![j].st = "reported"]
        /\ billed' = Received(j)
        /\ UNCHANGED faults
     \/ /\ job[j].units > LastOf(j)
        /\ job' = [job EXCEPT ![j].st = "failed"]
        /\ billed' \in {billed, Received(j)}
        /\ Fault
  /\ UNCHANGED <<usage, last>>

MarkedAnyway(j) ==  \* mutant: the units are marked whether or not Stripe took them
  IF job[j].st = "free" THEN Unreported
  ELSE [units |-> job[j].units, period |-> job[j].period]

(* What the rebuilt currentUsage says was reported: nothing for a free     *)
(* plan and nothing after a failed report.                                 *)
Marked(j) ==
  IF job[j].st \in {"free", "failed"} THEN Unreported
  ELSE [units  |-> IF job[j].st = "reported" THEN job[j].units ELSE LastOf(j),
        period |-> job[j].period]

(* workspace.update; an error is caught by the loop over the workspaces.   *)
Write(j) ==
  /\ job[j].st \in {"free", "unchanged", "reported", "failed"}
  /\ \/ last' = Marked(j) /\ UNCHANGED faults
     \/ UNCHANGED last /\ Fault
  /\ job' = [job EXCEPT ![j] = Idle]
  /\ UNCHANGED <<usage, billed>>

(* The worker process dies with everything that was under way.             *)
Crash ==
  /\ \E j \in Job : ~Off(j)
  /\ Fault
  /\ job' = [j \in Job |-> Idle]
  /\ UNCHANGED <<usage, last, billed>>

-----------------------------------------------------------------------------
Step(j) == Count(j) \/ Price(j) \/ Report(j) \/ Write(j)

Next ==
  \/ AiRun \/ DeleteSession \/ Renew \/ LateEvent \/ Unsubscribe
  \/ \E j \in Job : Start(j) \/ Step(j)
  \/ Crash

Spec == Init /\ [][Next]_vars

(* The schedule keeps starting runs and a run that started goes on.        *)
FairSpec ==
  /\ Spec
  /\ \A j \in Job : WF_vars(Start(j) \/ Step(j))

-----------------------------------------------------------------------------
(* Properties.                                                             *)

Reported == [units : Nat, period : 0 .. MaxPeriod]
JobState == {"off", "started", "counted", "free", "priced", "unchanged",
             "reported", "failed"}

TypeOK ==
  /\ paid \in BOOLEAN /\ period \in Period /\ begun \in Period
  /\ runs \in [Period -> Nat] /\ peak \in [Period -> Nat]
  /\ last \in Reported
  /\ billed \in [Period -> Nat]
  /\ job \in [Job -> [st : JobState, paid : BOOLEAN, period : Period,
                      last : Reported, over : Nat, units : Nat]]
  /\ faults \in Nat

Units(n) ==
  IF Overage(n) = 0 THEN 0
  ELSE Blocks(Overage(n)) * BlockUnits + Overage(n) * TokenUnits

(* Units are marked as reported only when Stripe received them: whatever   *)
(* fails or overlaps, no usage is taken for billed that was not.           *)
ReportedIsBilled ==
  last.period \in Period => last.units <= billed[last.period]

(* Charging twice takes a failure, a crash, an overlap or a late event     *)
(* each time: a period is charged at most its dearest usage once more for  *)
(* each.                                                                   *)
OverbillingNeedsFault ==
  \A p \in Period : billed[p] <= Units(peak[p]) * (1 + faults)

(* The worker comment "only report the increase since last worker run": no *)
(* period is charged more than its dearest usage.                          *)
NeverOverbilled == \A p \in Period : billed[p] <= Units(peak[p])

(* What a paid workspace uses is billed by some later run of the job, if   *)
(* the period lasts, the plan stays and nobody deletes the sessions.       *)
Uses(p, n) == paid /\ period = p /\ Units(runs[p]) >= n
UsageIsBilled ==
  \A p \in Period, n \in 1 .. Units(MaxRuns) :
    Uses(p, n) ~> (billed[p] >= n \/ ~Uses(p, n))
=============================================================================
