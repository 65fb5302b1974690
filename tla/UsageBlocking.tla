---------------------------- MODULE UsageBlocking ----------------------------
(***************************************************************************)
(* The two blocking flags of a workspace.  The billing job counts usage    *)
(* and sets them; POST /public/traces and the chat route refuse work while *)
(* they are set.  Plans change by webhook at any moment, usage shrinks     *)
(* when a project or a chat session is deleted, and a run of the job works *)
(* with the plan and the flags it read at its start.                       *)
(***************************************************************************)
EXTENDS Naturals, FiniteSetsExt

CONSTANTS
  Job,         (* runs of the job that may be under way at once            *)
  Project,     (* projects that the workspace ever has                     *)
  EventQuota,  (* USAGE_CONFIG.includedUnits (50 000)                      *)
  RunQuota,    (* AI_RUN_QUOTAS.free.included (30)                         *)
  MaxUsage,    (* bound: usage above a quota                               *)
  MaxFaults    (* bound: failures of a run of the job                      *)

ASSUME BlockingAssumption ==
  /\ EventQuota \in Nat \ {0} /\ RunQuota \in Nat \ {0}
  /\ MaxUsage \in Nat /\ MaxFaults \in Nat

VARIABLES
  free,              (* billingPlan = FREE                                 *)
  project,           (* "none" | "live" | "deleted"                        *)
  events,            (* traces and spans of each project, of all time      *)
  aiRuns,            (* assistant messages of the workspace, of all time   *)
  ingestionBlocked, aiBlocked,
  job,               (* per run of the job: progress, what it read         *)
  faults             (* failures so far                                    *)

usage == <<project, events, aiRuns>>
flags == <<ingestionBlocked, aiBlocked>>
vars  == <<free, usage, flags, job, faults>>

Live == {p \in Project : project[p] = "live"}

EventsOf(P) == MapThenSumSet(LAMBDA p : events[p], P)

OverEventsBeyond(P) == EventsOf(P) > EventQuota  \* mutant: > instead of >=
OverEvents(P) == EventsOf(P) >= EventQuota
OverRuns      == aiRuns >= RunQuota

Idle == [st |-> "off", free |-> FALSE, ingestion |-> FALSE, ai |-> FALSE,
         projects |-> {}, overEvents |-> FALSE, overRuns |-> FALSE]

Init ==
  /\ free = TRUE
  /\ project = [p \in Project |-> "none"] /\ events = [p \in Project |-> 0]
  /\ aiRuns = 0
  /\ ingestionBlocked = FALSE /\ aiBlocked = FALSE
  /\ job = [j \in Job |-> Idle]
  /\ faults = 0

-----------------------------------------------------------------------------
(* Usage and plan.                                                         *)

CreateProject(p) ==
  /\ project[p] = "none"
  /\ project' = [project EXCEPT ![p] = "live"]
  /\ UNCHANGED <<free, events, aiRuns, flags, job, faults>>

DeleteProject(p) ==
  /\ project[p] = "live"
  /\ project' = [project EXCEPT ![p] = "deleted"]
  /\ UNCHANGED <<free, events, aiRuns, flags, job, faults>>

Ingest(p) ==
  /\ project[p] = "live" /\ ~ingestionBlocked
  /\ events[p] < EventQuota + MaxUsage
  /\ events' = [events EXCEPT ![p] = @ + 1]
  /\ UNCHANGED <<free, project, aiRuns, flags, job, faults>>

AiRun ==
  /\ ~aiBlocked /\ aiRuns < RunQuota + MaxUsage
  /\ aiRuns' = aiRuns + 1
  /\ UNCHANGED <<free, project, events, flags, job, faults>>

(* A chat session goes with all its messages.                              *)
DeleteSession ==
  /\ \E n \in 0 .. aiRuns : n < aiRuns /\ aiRuns' = n
  /\ UNCHANGED <<free, project, events, flags, job, faults>>

(* The webhook writes the plan and leaves the flags to the job.            *)
ChangePlan ==
  /\ free' = ~free
  /\ UNCHANGED <<usage, flags, job, faults>>

-----------------------------------------------------------------------------
(* A run of the job.                                                       *)

(* One query reads the workspace and its projects with no deleteTime.      *)
Start(j) ==
  /\ job[j].st = "off"
  /\ job' = [job EXCEPT ![j] = [Idle EXCEPT !.st = "started", !.free = free,
                 !.ingestion = ingestionBlocked, !.ai = aiBlocked, !.projects = Live]]
  /\ UNCHANGED <<free, usage, flags, faults>>

CountStuck(j) ==  \* mutant: a failed run is never over
  /\ job[j].st = "started"
  /\ \/ /\ job' = [job EXCEPT ![j].st = "counted", ![j].overRuns = OverRuns,
                              ![j].overEvents = OverEvents(job[j].projects)]
        /\ UNCHANGED faults
     \/ /\ faults < MaxFaults /\ faults' = faults + 1
        /\ job' = [job EXCEPT ![j].st = "failed"]
  /\ UNCHANGED <<free, usage, flags>>

(* The usage service or the database may fail: the workspace is skipped.   *)
Count(j) ==
  /\ job[j].st = "started"
  /\ \/ /\ job' = [job EXCEPT ![j].st = "counted", ![j].overRuns = OverRuns,
                              ![j].overEvents = OverEvents(job[j].projects)]
        /\ UNCHANGED faults
     \/ /\ faults < MaxFaults /\ faults' = faults + 1
        /\ job' = [job EXCEPT ![j] = Idle]
  /\ UNCHANGED <<free, usage, flags>>

(* A flag is written only when it differs from the one that was read.      *)
Updated(flag, read, should) == IF read = should THEN flag ELSE should

WriteOnly(j) ==  \* mutant: flags are set and never cleared on a free plan
  /\ job[j].st = "counted"
  /\ IF job[j].free
     THEN /\ ingestionBlocked' = (ingestionBlocked \/ job[j].overEvents)
          /\ aiBlocked' = (aiBlocked \/ job[j].overRuns)
     ELSE aiBlocked' = Updated(aiBlocked, job[j].ai, FALSE) /\ UNCHANGED ingestionBlocked
  /\ job' = [job EXCEPT ![j] = Idle]
  /\ UNCHANGED <<free, usage, faults>>

WriteForFree(j) ==  \* mutant: paid plans are passed over
  /\ job[j].st = "counted"
  /\ IF job[j].free
     THEN /\ ingestionBlocked' = Updated(ingestionBlocked, job[j].ingestion, job[j].overEvents)
          /\ aiBlocked' = Updated(aiBlocked, job[j].ai, job[j].overRuns)
     ELSE UNCHANGED flags
  /\ job' = [job EXCEPT ![j] = Idle]
  /\ UNCHANGED <<free, usage, faults>>

Write(j) ==
  /\ job[j].st = "counted"
  /\ IF job[j].free
     THEN /\ ingestionBlocked' = Updated(ingestionBlocked, job[j].ingestion, job[j].overEvents)
          /\ aiBlocked' = Updated(aiBlocked, job[j].ai, job[j].overRuns)
     ELSE aiBlocked' = Updated(aiBlocked, job[j].ai, FALSE) /\ UNCHANGED ingestionBlocked
  /\ job' = [job EXCEPT ![j] = Idle]
  /\ UNCHANGED <<free, usage, faults>>

-----------------------------------------------------------------------------
Next ==
  \/ \E p \in Project : CreateProject(p) \/ DeleteProject(p) \/ Ingest(p)
  \/ AiRun \/ DeleteSession \/ ChangePlan
  \/ \E j \in Job : Start(j) \/ Count(j) \/ Write(j)

(* The schedule keeps starting runs and a run that started goes on.        *)
Spec ==
  /\ Init /\ [][Next]_vars
  /\ \A j \in Job : WF_vars(Start(j) \/ Count(j) \/ Write(j))

-----------------------------------------------------------------------------
(* Properties.                                                             *)

TypeOK ==
  /\ free \in BOOLEAN /\ ingestionBlocked \in BOOLEAN /\ aiBlocked \in BOOLEAN
  /\ project \in [Project -> {"none", "live", "deleted"}]
  /\ events \in [Project -> 0 .. EventQuota + MaxUsage]
  /\ aiRuns \in 0 .. RunQuota + MaxUsage
  /\ job \in [Job -> [st : {"off", "started", "counted"}, free : BOOLEAN,
                      ingestion : BOOLEAN, ai : BOOLEAN, projects : SUBSET Project,
                      overEvents : BOOLEAN, overRuns : BOOLEAN]]
  /\ faults \in 0 .. MaxFaults

(* What the quotas are about: the events of the projects there are.       *)
EventsAtQuota == EventsOf({p \in Project : project[p] = "live"}) >= EventQuota
RunsAtQuota   == aiRuns >= RunQuota

(* "Hard cap (upgrade to continue)": a free workspace that stays over a    *)
(* quota is blocked by some later run, even if overlapping runs read the   *)
(* flags before one another wrote them.                                    *)
OverQuotaIsBlocked ==
  /\ (free /\ EventsAtQuota) ~> (ingestionBlocked \/ ~free \/ ~EventsAtQuota)
  /\ (free /\ RunsAtQuota) ~> (aiBlocked \/ ~free \/ ~RunsAtQuota)

(* A free workspace that is back under its quotas for good works again.    *)
UnderQuotaIsUnblocked ==
  /\ (free /\ ~EventsAtQuota) ~> (~ingestionBlocked \/ ~free \/ EventsAtQuota)
  /\ (free /\ ~RunsAtQuota) ~> (~aiBlocked \/ ~free \/ RunsAtQuota)

(* The flags of a free workspace follow its quotas, in both directions.    *)
FlagsFollowQuota == OverQuotaIsBlocked /\ UnderQuotaIsUnblocked

(* "Paid plans: always unblock AI": also when a run that read the free     *)
(* plan writes its flag after the upgrade.                                 *)
UpgradeUnblocksAi == (~free /\ aiBlocked) ~> (~aiBlocked \/ free)

(* "Please upgrade to continue", "Paid plan user should never be blocked": *)
(* a workspace that upgrades and stays paid may ingest again.              *)
UpgradeUnblocksIngestion == (~free /\ ingestionBlocked) ~> (~ingestionBlocked \/ free)
=============================================================================
