# Traceroot, modelled

TLA+ modules of Traceroot, the TLC configurations that check them on small
instances, and proofs that TLAPS checks. Every definition is translated from the
code; `PROJECT.json` gives the lines of each (`map`), the runs, the mutants that
show a property can fail, the hazards, and the theorems.

Contents: [the system](#the-system), [the modules](#the-modules),
[the runs](#the-runs), [fairness](#fairness), [the proofs](#the-proofs),
[where code and documents disagree](#where-code-and-documents-disagree),
[what is not modelled](#what-is-not-modelled), [the plan](#the-plan).

To run: `tlc -config Ingestion.cfg MCIngestion.tla`, and so on for each row of the
table of runs; `tlapm IngestionProofs.tla`, and so on for each module whose name ends in
`Proofs`.

## The system

Traceroot collects traces of programs that call language models, shows them, and
lets an agent work on them. Seven programs take part:

| program | source | keeps |
|---|---|---|
| SDK | `frontend/packages/sdk-node` | one global client, a span processor, the context of each async task |
| REST server | `backend/rest` (FastAPI) | nothing; writes S3 and Redis, reads ClickHouse |
| ingestion worker | `backend/worker` (Celery) | a price cache; writes ClickHouse |
| dashboard, browser side | `frontend/ui/src/features`, `components` | React state, the URL, a query cache |
| dashboard, server side | `frontend/ui/src/app/api` (34 routes) | nothing; writes PostgreSQL, calls Stripe, GitHub and the agent service |
| billing worker | `frontend/worker` | nothing between runs; writes PostgreSQL, calls Stripe |
| agent service | `frontend/packages/agent` | maps from session to agent and to container, a key cache |

The stores are S3 (uploads), Redis (the Celery queue), ClickHouse (`traces`, `spans`)
and PostgreSQL (everything else, through Prisma). No program takes a lock, and
almost no handler uses a transaction: a route reads, checks, and then writes, each by
a statement of its own, and other requests run in between. That is what most of
this project is about.

### Components, their state, their hard parts, and what makes them correct

**Trace ingestion** (`routers/public/traces.py`, `services/s3.py`,
`worker/ingest_tasks.py`). `POST /public/traces` authenticates, decodes, stores the
batch in S3 under a fresh key and enqueues a task that names the key. A worker
downloads, transforms, inserts trace rows, then span rows. The queue delivers at
least once (`task_acks_late`, `task_reject_on_worker_lost`, a visibility timeout),
a failing task is retried five times, and the rows are merged by key later.
Hard: a failure or crash between any two steps, two deliveries at once, errors that
are swallowed. Correct when nothing published is lost, nothing refused leaves a trace,
and copies come only from failures.

**Span transformation** (`worker/otel_transform.py`). One batch becomes rows with no
knowledge of other batches. Hard: the spans of a trace arrive split and in any order,
tasks repeat, attributes overlap. Correct when the rows do not depend on the order of
the tasks as far as the batches allow, and what a span says of itself is kept.

**Model pricing** (`worker/tokens/pricing.py`, `core/src/model-pricing`). The billing
worker copies a price file into PostgreSQL when it starts; the others cache what they
read first. Hard: a deployment restarts everything in no order. Correct when prices
read after the copy are the release's and no reader finds a model without a price.

**Read API** (`services/trace_reader.py`, `routers/{traces,sessions,users}.py`). Lists,
counts and pages, each by several queries over tables that grow. Correct when a list
and the pages behind it agree, and paging misses nothing it began with.

**Node SDK** (`sdk-node/src`). A global client made lazily by whatever comes first,
observed functions, blocks of attributes, flush and shutdown over OpenTelemetry. Hard:
a shutdown that is awaited while spans go on ending, batches that a timer has taken out
of the queue, a queue that is full, a shutdown that fails. Correct when an ended span is
exported once, by the return of a flush, with the user of its block.

**Projects and API keys** (`api/projects`, `api/workspaces/[workspaceId]/projects`,
`api/internal/validate-*`). Create, rename, delete; create and delete keys; validate.
Correct when a key stops working with its project, a read or write is allowed by a
role the caller had, and what is deleted stays deleted.

**Membership, invites and seats** (`members`, `invites`, `invites/[inviteId]/accept`).
Correct when no single request removes the last admin, an invite is spent once, and
seats are checked.

**Subscriptions and plans** (`api/billing`). Checkout and change-plan call Stripe step
by step; Stripe's webhook reports back, possibly late and more than once. Correct when the
plan in the database follows the subscription.

**Usage metering** and **usage blocking** (`frontend/worker/src/ee/billing`). An hourly
job that may overlap with itself counts usage, charges AI overage by meter events and
sets two blocking flags that ingestion and chat obey; the period it charges is the one
Stripe's last event wrote, which may be an older one's. Correct when everything reported
was billed, nothing is charged twice without a failure, and the flags follow the quota.

**Model providers and key caches** (`model-providers` routes, `agent/src/agent.ts`).
Correct when a message that comes after a key was replaced runs with the new key.

**Agent sessions and containers** (`agent/src/index.ts`, `session.ts`,
`executors/docker.ts`). Messages, DELETE, SIGTERM and crashes in one event loop. Correct
when containers go with their session, answers are stored, contexts are complete.

**Agent file tools** (`tools/sandbox.ts`, `truncate.ts`). Correct when a file read by
following the offsets is read whole.

**GitHub connection** (`api/github`, `packages/github`). OAuth and App installation that
redirect to each other, with cookies that tabs share. Correct when a flow ends and
returns where it began, and a half connection has a flow under way.

**List pages, chat panel, trace viewer, provider form** (`ui/src/features`). State kept
twice (React and URL), refs shared by streams, selections that outlive what they select,
answers that come to a dialog that is not theirs. Correct when each shows what is there.

**Keys tab, billing tab, workspaces and settings pages** (`AccessKeysTab.tsx`,
`BillingTab.tsx`, `features/settings`, `features/workspaces`, `app/workspaces`). Forms whose
answers come to whatever is open by then, buttons labelled by what the page knew when it was
loaded, and one cache of answers that every form must mark where it changes something.
Correct when a secret is shown before it is gone for good, a button does what it says,
what is typed is kept and confirms what it names, and the pages come to show what is
stored.

**Not modelled**, with reasons below: SDK serialisation and git context, migrations,
authentication, the provider registry, encryption, licence and e-mail, other pages,
deployment.

### How they interact

```
 program --SDK--> POST /public/traces --S3, Redis--> worker --> ClickHouse --> read API --> dashboard
                    |  ^                               |  prices                 |
          validate  v  | ingestionBlocked              v                         v
            PostgreSQL <--- billing worker ------ model prices           agent service (tools)
               ^   ^            |  meter events                                  ^
   dashboard --+   +-- webhook -+- Stripe                 provider keys, sessions|
   routes -------------------------- invalidate ---------------------------------+
```

A module takes what it needs from another component as an action of its environment,
one that may do whatever the other component can do: `SetRole`, `SetBlocked` and
`Expire` in `AccessKeys` (by Membership, UsageBlocking and time), `ChangePlan` in
`Membership` and `UsageBlocking` (by Subscription), `Ingest` and `AiRun` in
`UsageBlocking` and `UsageMetering` (by Ingestion and AgentSession), the answer of
authentication in `Ingestion` (by AccessKeys).

## The modules

One module per component; its variables are the component's state, its actions the
steps of its handlers. A step is what the code does between two awaits (or, in Python,
between two calls of another system), so that whatever can run in between does. What a
handler read earlier is kept in its record (`call`, `request`, `req`, `job`, `msg`), and
used when the code uses it, stale or not. Answers are states of that record: "200",
"404", "failed". An id, a name, a key or a payload is a model value; a database row is a
record; a cookie or a cache entry is a variable. Failures, crashes, lost answers and late
deliveries are actions or disjuncts of their own, counted by `faults`. The variables
called *history* in the comments (`past`, `rough`, `raced`, `clash`, `overlap`, `mixed`,
`missed`, `early`) are no part of the code: they remember what a property needs to know
of earlier states and guard no action.

| module | code | state | actions |
|---|---|---|---|
| `Ingestion` | POST /public/traces, Celery task and broker, ClickHouse | requests, bucket, queue, workers, rows | `Receive`, `Upload`, `Enqueue`, `ServerCrash`; `Fetch`, `Download`, `InsertTraces`, `InsertSpans`, `Retry`, `Ack`, `WorkerCrash`, `Redeliver`, `Merge` |
| `IngestContract` | what ingestion promises (abstract) | verdicts, bodies, rows shown, requests abandoned | `Refuse`, `Admit`, `Show`, `Abandon` |
| `OtelTransform` | `transform_otel_to_clickhouse` | batches, rows | a task runs, ends, or runs again |
| `SpanFields` | kind, model, counts and metadata of a span | attributes, row | `_transform_span` |
| `ModelPricing` | price file, table and caches | release, table, caches | `Deploy`, `Restart`, `Sync`, `SyncRestarts`, `Load` |
| `TraceReader` | lists, sessions, users, pages | rows, a walk through the list | inserts, the queries of a page |
| `SdkClient` | global client, spans, context, flush, shutdown | client, processors with queue and batches, spans, stacks of tasks | initialize, observed calls, blocks, updates, flush, shutdown, batches sent or lost |
| `AccessKeys` | routes of projects and keys, two validation routes | projects, keys, roles, block flag, requests | `Arrive` and one action per step of each route |
| `Membership` | routes of members and invites | members, invites, plan, requests | likewise |
| `Subscription` | checkout, change-plan, webhook | workspace, subscriptions at Stripe, events | the steps of both routes, `Fetch`, `Apply`, `Miss`, `PeriodEnd`, `EndNow` |
| `UsageMetering` | AI overage in the billing job | runs, what is reported, what is billed, runs of the job | `Start` and the steps of a run; usage, plan, a new period, an event that comes late |
| `UsageBlocking` | the blocking flags in the billing job | usage, projects, flags, runs of the job | `Start`, `Count`, `Write`; usage and plan |
| `AgentKeys` | provider routes, both key caches of the agent service | row, caches, handlers | the steps of a message and of a write |
| `AgentSession` | messages, DELETE, signal, containers | maps, containers, database, handlers | the steps of each handler, crash, restart |
| `AgentTools` | `read`, `bash`, truncation | a file, the agent's reading | `wc`, `cat` or `tail`, appends |
| `GitHubConnection` | OAuth and installation | tabs, cookies, the connection | the routes, GitHub's redirects, signed out meanwhile |
| `ListPageState` | hooks of a list page | React state, URL, pending navigation | handlers with the render and effects after them |
| `ChatPanel` | `useAiChat`, `useAIStream` | refs, bubbles, sends | sends, events, Stop, New, selecting a session |
| `SpanTree` | the viewer's tree; `tree.json` of the agent | spans, cache, collapsed, selection | ingest, fetch, move, collapse, select, effect |
| `ListPages` | traces, users and sessions pages, session panel | URL, open panel, query cache, browser history | rows, tabs, links, arrows, back, forward, reload, answers |
| `KeysTab` | `AccessKeysTab` | dialogs, mutations, the list and its refetch | opening, typing, sending, cancelling, the route's answer, what the hook does with it |
| `BillingTab` | billing tab, its two queries | the page's workspace, notices, requests, where the user is | plan buttons, portal, cancel, answers, leaving, return, webhook, end of a period |
| `SettingsPages` | pages of workspaces, projects, members, both general tabs; the React Query cache | rows, cached answers, typed texts, requests | opening a page, fetches, the forms, routes, lost answers, what others do |
| `ProviderForm` | settings form over the provider routes | rows, list, dialog, requests | handlers, the routes, answers, lost answers, writes after their error |

`IngestContract` is the abstract specification: a request is refused or admitted
once, only rows of admitted batches appear and stay, spans never before their trace, and
only admitted requests are abandoned. `Ingestion` refines it: `verdict` is computed
from the stage of a request and whether its object is stored, `body` from its batch,
`shown` from the counts of rows, `abandoned` is `given_up`.

Names that begin a mutant (`AdmittedUnchecked`, `UploadSwallowed`, ...) stand before the
definition they deform and are used by no specification; each is a bug the code could
have: a dropped check, a step out of order, a swallowed error, a missing reset.

### Instances

`MCIngestion`, `MCUsageMetering`, `MCUsageBlocking`, `MCAgentSession` and
`MCGitHubConnection` extend their module. `MCWorkspace`, `AgentDesk`, `Traces` and
`Browser` (`MCAgent`, `MCTraces` and `MCBrowser` extend the last three) bring several
components together that belong to one part of the system and share no variable. A product of them would multiply states that have
nothing to do with each other, so a behaviour shows one part: `part` is chosen in `Init` and
never changes, the variables of the other parts are `Off`, and each property speaks of its
part. What a part needs of another is its environment (see above), so nothing is lost by that:
the environment is freer than the other module. Some modules are instantiated more than once,
with constants that bring out different things:

- `MCWorkspace`: *keys* (AccessKeys), *roles*, *seats*, *full*, *invites* (Membership: two
  admins who act on each other; a workspace filling its seats; one without a seat; one
  invite and those who hold it), *plan* (Subscription), *providers* (AgentKeys).
- `AgentDesk`: *tools* (AgentTools) and *tree* (SpanTree: a user of the viewer who moves between
  two traces, or every forest of four spans in every order of arrival, as the viewer and the
  agent see it; which one is chosen at the start).
- `Traces`: *sdk* (SdkClient, whose bounds are chosen at the start: many calls of the client,
  or blocks within blocks), *batch* (OtelTransform; the family of spans is chosen at the start:
  one root or two), *fields* (SpanFields), *prices* (ModelPricing), *walks* and *sums*
  (TraceReader: paging; numbers).
- `Browser`: *list* (ListPageState), *chat* (ChatPanel), *form* (ProviderForm), *keys tab*
  (KeysTab), *ways* (ListPages), *billing* (BillingTab) and *settings* (SettingsPages, whose
  bounds are a *tour* chosen at the start: three acts on any of the five pages, one request
  at a time; or four acts on two of the pages with two requests at once and one thing others
  do).

The compositions, which all have theorems, take all that
bounds their parts as CONSTANTS, named once for each part where the parts need different
values; the `.cfg` gives the small ones, and the theorems hold for all.

## The runs

All with deadlock checking off but `agent_session` and `usage_blocking`: elsewhere
requests, acts or faults are used up and the system really stops. State counts are TLC's
distinct states.

| run | question and instance | states |
|---|---|---|
| `ingestion` | Two requests, five kinds of batch, two workers, one retry, two failures anywhere | 341 000 |
| `ingestion_promise` | (violated) is what was accepted processed? One request, one failure | |
| `usage_metering` | Two runs of the job, two periods, two AI runs each, one included, blocks of two, one fault | 264 000 |
| `usage_metering_once` | (violated) is nothing charged twice? One run of the job, one fault | |
| `usage_blocking` | Two runs of the job, a project, both quotas 1, one fault | 182 000 |
| `usage_blocking_upgrade` | (violated) does an upgrade lift the ingestion block? | |
| `agent_session` | Two messages, two DELETEs, a signal, a crash and restarts | 523 000 |
| `github_connection` | Two tabs, two accounts, an installation of one and one of both, three acts, one fault | 1 642 000 |
| `workspace` | Two or three requests at once to each group of routes; two messages, sessions and writes of a provider key | 4 715 000 |
| `agent` | Files of up to four lines, results of two lines or three bytes; forests of four spans, a viewer of two traces | 649 000 |
| `traces` | Four spans in two uploads; two tasks, spans and processors, queues of one or two; four traces on two days; three releases | 2 049 000 |
| `browser` | Six acts on a list of three pages; two sends and an old session; two providers, nine acts; three keys, six acts; three traces on pages of two, four acts; a subscription over one period, seven acts; five settings pages | 4 329 000 |

What they show:

- **`ingestion`** `StoreIsOrdered`: a waiting or running task has its object, a refused
  request (400, 401, 402, 503) leaves nothing, no span row precedes its trace row.
  `PublishedIsNotLost`: what was enqueued is waiting, reserved, in ClickHouse, or given up
  in state FAILURE. `CopiesAreBounded`: physical copies of a row come from failures only.
  `PublishedIsSettled`: it lands or is given up in the end. `Refines`: `IngestContract`.
- **`usage_metering`** `ReportedIsBilled`: units are marked as reported only when Stripe has
  them. `OverbillingNeedsFault`: a period is charged its dearest usage, and at most once
  more for every fault, overlap or event that comes late. `UsageIsBilled`: usage of a period that lasts is billed.
- **`usage_blocking`** `FlagsFollowQuota`: at the quota a free workspace is blocked in the
  end, under it unblocked, over overlapping runs with stale flags. `UpgradeUnblocksAi`: also
  when a run that read the free plan writes after the upgrade.
- **`agent_session`** `LeakNeedsOverlap`: a container that nothing will remove takes
  requests that met or a crash. `HistoryIsComplete`: an agent that answers knows every
  question so far (unless requests met), and a stream that said done is stored.
  `EveryStreamEnds`.
- **`github_connection`** `ReturnsHome`: a flow that met no other returns to its page.
  `HalfIsUnderWay`: a connection without installation is one some tab is completing, unless
  something failed. `FlowEnds`, though the two halves redirect to each other.
- **`workspace`** `AccessIsChecked`: a key dead before the request opens nothing, the block
  flag that is obeyed is one the workspace had meanwhile, and no route succeeds for a user
  who never had the role while it ran. `BreachNeedsOverlap`: two projects of one name, or no
  admin, take two requests that met, and handled one after the other the checks suffice.
  `GoneStaysGone`: no late write brings back a deleted project or key or a removed member, and
  an acceptance lets in nobody but the one who was invited.
  `InvitesAreChecked`: an invite or acceptance that succeeds found a seat, an invite lets
  one request in and only while open. `DriftNeedsRace`: when everything is delivered, the
  plan is Stripe's, unless a write came out of order. `OldKeyNeedsMiss`: a message runs with
  an older key only after an invalidation failed, met a handler filling the caches, or was
  never sent (POST).
- **`agent`** `ReadingIsFaithful`: reading by offsets loses and repeats no line, names no
  offset that is refused, moves on, gets to the end, and shows as much as fits.
  `TreeIsFaithful`: the rows, lines and the agent's tree are the one tree of the spans that
  arrived; what is hidden can be shown; what is selected exists.
- **`traces`** `SpansAreDelivered`: a span that ends under a live client is exported once, by
  the return of a flush called after it, with its block's user. `RowsAreFaithful`: a trace
  with one root gets the row of the upload that brought it, in every order and number of
  tasks; the user is that of the last root, or else of the first child; kind, counts
  and custom attributes that were given are kept. `PricesAreCurrent`: no model is without
  prices, and who reads after the copy has the release's. `ListsAgree`: a walk meets every
  trace it began with, as long as none is replaced and starts are distinct; sessions and
  users have the numbers of the pages behind them.
- **`browser`** `DriftNeedsClash`: at rest, list, URL and choice agree unless two updates
  met. `AloneIsClean`: the chat mixes nothing while one thing runs at a time; a user of the
  keys tab who waits for answers sees every secret and loses no dialog; only a page loaded
  before the webhook came makes a workspace pay for two subscriptions; a typed name is
  wiped only by an answer that was awaited or brings what others did (`TypingIsKept`).
  `PagesAreFaithful`: the rows of a list answer what the URL asks, a link lands on what it
  names; cached answers at rest are what the routes would answer
  (`CacheIsCurrent`), but for the gaps named below; a save changes what the admin changed, also
  one that is written after its error was shown, and the list comes to show it; a key, project or workspace is deleted on a text typed for it;
  Downgrade changes no plan at once and Upgrade ends none; the notices of the billing tab
  become Stripe's.

Properties of the form *X needs Y* say exactly how far the code's checks go: they are
enough as long as requests do not meet, calls do not fail, or clicks do not overlap, and the run
has the cases where they do. They do not refute what happens then: the `note` of a hazard in
`PROJECT.json` says which outcome its property allows. A property that had no such condition is the subject of
the section on disagreements.

### The bounds, and why they are enough

- *Requests, messages, sends, tabs, tasks, runs of a job*: two, or three where a third can
  come between two that met (`keys`, `roles`, `invites`, `plan`). Every hazard listed in
  `PROJECT.json` needs two actors, or one actor and a failure; a property that takes two
  requests to violate was seen violated by a mutant within these bounds.
- *Faults* (`MaxFaults`, `MaxFail`, `MaxLost`): one or two, at any point. `ingestion` has
  two, as a failure of a retry after a failure of the first try is what `max_retries` = 1
  needs to give up.
- *Retries*: `MaxRetries` is 1 for the code's 5. Nothing in the code tells one retry
  from another, and the proofs are for every value.
- *Quotas and prices*: 1 for 50 000 events and 30 runs, so that a few events reach them,
  pass them and fall back; one included run, blocks of two, so that a partial and a
  full block occur.
- *Times, days and pages*: four times on two days, pages of one or two rows.
- *Texts*: lines of up to two characters of one or two bytes, a limit of three bytes and
  two lines: both limits are met, missed by one, and met inside a character.
- *Acts of a user* (`MaxActs`, `MaxStep`): enough for a flow, its interruption and a second
  one; three on any of the settings pages are a change, a move to a page that shows it, and
  a second change. *What others do* (`others`): one. *Periods*: two, so that one can roll
  over under a run. *Releases*: three (1 to 3), so that a deployment meets an older one
  still under way.
- *Rows* (`MaxRows`, `MaxRow`, `MaxKey`): two or three, so that a user or a provider can
  come back.

Request ids, processors, sessions and the like are interchangeable in every module that is
run with `SYMMETRY`, and the runs with liveness use none.

## Fairness

Only what the scheduling of the code justifies:

- `Ingestion`: an upload and an enqueue follow a request that was admitted (a running
  handler goes on; a crash is an action that may happen instead), and each
  worker goes on consuming. No fairness for requests, failures or merges.
- `UsageMetering`, `UsageBlocking`: node-cron keeps starting runs
  (`frontend/worker/src/index.ts:53`), and a run goes on. A run may fail, but failures
  are bounded by `MaxFaults`: it is assumed that they do not go on for ever.
- `AgentSession`: handlers of messages, DELETEs and the signal go on. Nobody has to send
  anything.
- `GitHubConnection`: a flow goes on, as redirects do, until the user leaves it or a call
  fails, which both count as faults.

The other modules have safety and action properties only. Where progress matters there it
is stated of a step: `ReadingIsFaithful` says that every read names an offset further on.

## The proofs

Proved by TLAPS for every value of the constants that satisfies the assumption
named, so for any number of requests, workers, retries, failures and prices.

**`IngestionProofs`** (from `IngestionAssumption`: kinds, a Boolean, naturals, two values
that are nothing else). `PublishedIsNotLost` is not inductive: it counts a worker that has
ended its task and still reserves it, and the next step drops that reservation. The
invariant is

    IInv     == StoreInv /\ TrackedInv
    StoreInv == TypeInv /\ RequestInv /\ TaskHasObject /\ WorkerInv
                /\ SpansFollowTraces /\ RowsInv

`TypeInv` adds to `TypeOK` that a busy worker has a task; `RequestInv` ties the stage of a
request to its object and to `sent`; `WorkerInv` says that a worker in stage "traces" or
"spans" has a batch that transforms, and in "spans" has inserted its trace rows; `RowsInv`
that rows come from stored batches of admitted requests; `Tracked(r)`, for a published
file, that it is waiting, run by a worker that reserves it and has not ended, or
settled. Lemmas say what the helpers do to queue, workers and rows, that rows and settled
files stay, and that each action preserves each part it can disturb. Theorems:

- `TypeCorrect`: `Spec => []TypeOK`.
- `InductiveInvariant`: `Spec => []IInv`.
- `AtLeastOnce`: `Spec => []PublishedIsNotLost`.
- `StorageOrder`: `Spec => []StoreIsOrdered`.
- `CopiesArePaidFor`: `Spec => []CopiesAreBounded`. `CountInv` is a ledger: the rows a table
  has of a batch, the copies of its tasks in the queue, and the workers still to insert it
  are together no more than the requests announced for it and the failures so far. A redelivery
  or a second try is paid for by the failure that caused it. The copies in the queue are counted
  as a set of pairs (task, number), so that no sum over tasks is needed.
- `Refinement`: `Spec => Refines`. Initial states map to initial states; of every
  step, lemmas say whether it stutters (`QuietStep`: enqueue, fetch, ack, crash, redelivery,
  merge, for which counts of rows do not fall to 0), decides a request
  (`ServerRefines`), shows rows (`InsertRefines`, which needs `WorkerInv` and `RowsInv`)
  or abandons one (`TaskRefines`).

**`UsageMeteringProofs`** (from `MeteringAssumption`: naturals, at least one period and a
block of at least one run). `ReportedIsBilled` is not inductive as a run that read
`last` long ago may write now, so `JobInv` says of every run of the job that
what it read, and what it has reported since, is covered by what Stripe received for that
period: `IInv == TypeOK /\ Covered(last, billed) /\ JobInv`. What Stripe received only grows,
so what is covered stays covered. Theorems:

- `TypeCorrect`: `Spec => []TypeOK`.
- `NothingMarkedUnbilled`: `Spec => []ReportedIsBilled`.
- `OverbillingIsPaidFor`: `Spec => []OverbillingNeedsFault`. Each fault lets one more run be
  active, and each active run may report what another has reported. `LedgerInv` bounds what a
  period is charged by its dearest usage times the faults that no active run stands for yet
  (`Margin`), above what some active run has read as reported: at any time (`Bounded`), when a
  run is about to write what it reported (`Handed`), and when none is active (`Rested`).
  `WorkInv` says what a run can have read and that at most `1 + faults` of them are active.
  Whichever period an event puts back, no run has read one that has not begun, so the dearest
  usage of a period only changes in its own time.
- `NoFaultNoOverbilling`: where no report fails, no run overlaps, the worker does not die and no
  event comes late, no period is charged more than its usage.

**`WorkspaceProofs`** (from `WorkspaceAssumption`, the assumptions of the parts) has one theorem
for each property of the run `workspace`. Its invariant is one invariant per part, and a step of
a part is a step of its module, whose proofs begin with lemmas on what a step does to one
request's record and leaves alone in the others, and then have one lemma for each step of the
code.

- *Keys.* What a request is granted is decided by what it read a step ago, so `AccessIsChecked`
  is not inductive: `Seen` says that while a request runs, its history has seen the role, block
  flag and state of the key that hold now; `Granted` that it has come as far as it has by what
  was seen; `Created` that what a request names was created, so that it can only die. For two
  projects of one name, `Met` makes overlap symmetric, `FoundFree` says that whoever holds by now
  the name another is about to write got it from a request that one met, and `TwinsMet` draws
  the conclusion.
- *Plan.* `DriftNeedsRace` speaks of moments at which nothing is under way; `Follows` says what
  must hold in between, as long as nothing raced: at most one subscription is active; the event of
  the latest change says what Stripe has now, even after it was fetched again or failed; that
  event is still under way or applied; once it is applied the workspace agrees; and an upgrade
  about to be saved that is the latest change is the plan of the active subscription. `Shape`
  adds that whatever a request will still send is there and is paid.
- *Providers.* Unless an invalidation was missed, every copy of a key (service cache, closure of
  an agent, handler about to store or keep one) is no older than the latest answered change
  (`Current`); `Ordered` says that what is acknowledged was written and which model a step of a
  handler implies.
- *Roles, seats, full, invites* are instances of `MembershipProofs`, whose invariant and theorems
  are used four times.

Theorems: `TypeCorrect`; `GrantsAreChecked`: `[]AccessIsChecked`; `BreachesNeedOverlap`:
`[]BreachNeedsOverlap`; `SeatsAndInvitesAreChecked`: `[]InvitesAreChecked`; `PlanFollowsStripe`:
`[]DriftNeedsRace`; `NoOldKey`: `[]OldKeyNeedsMiss`; `DeletedForGood`: `GoneStaysGone`.

**`MembershipProofs`** (at least one admin and one invite, bounds and the seat limit naturals;
each theorem names the assumption, `ASSUME MembershipAssumption PROVE Spec => ...`, as the module
is only instantiated). `Seen` and `Seated` are the same idea as above for seats and invites. That
a workspace loses its last admin only by overlap needs `Spares`: a request that takes an admin
away has an admin as its caller until it has counted, and has counted another one after that, or
has met a request that took one too; `Led` is what then remains true: an admin, or two rivals.
`IInv == TypeOK /\ Shape /\ Seen /\ Seated /\ Spent /\ Spares /\ Led`. Cardinality of the
seats is used through the library's theorems on finite sets.

- `TypeCorrect`; `SeatsAreChecked`: `[]SeatIsChecked`; `InvitesAreSpentOnce`:
  `[]InviteIsSpentOnce`; `LastAdminGoesByOverlap`: `[]LastAdminNeedsOverlap`;
  `RemovedStaysOut`: `[][LetIn]_vars`.

**`TracesProofs`** (from `TracesAssumption`: times and tokens are naturals or missing, pages and
days are not empty, roots and broken spans are spans of their family). `TracesInv` has an invariant
for each part:

- *Sdk.* `ClientInv`: an enabled live client has an open processor, and no other one is open or
  holds a span; `FrameInv`: a call on the stack of a task has an open span that is on no other
  place of a stack; `QueueInv`: an ended span that was not lost is in the queue, in one batch, or
  was sent, and once; `FlushInv`: what a flush that is done owes was sent, and what one under way
  owes is on its way (`OnItsWay`): in its own batch, or in one of the shutdown it awaits;
  `SaidInv`: a frame, and so a span, that heard of a user has the one of the innermost block.
- *Batch.* The worker folds over the spans of an upload. `FoldSays` tells where the fold has got
  to after i spans: the row of a trace is of its last root so far, its user of the last root
  that names one, else of the first child. That each turn keeps it is `TurnSays`, and `RowsSay`
  concludes for the whole upload. `BatchInv`: a stored row is one that some upload makes, and a
  task that is over has left its rows and spans.
- *Fields* (`FieldInv`): a row is what the operators make of the attributes.
- *Prices* (`PriceInv`): up to the model being copied the table has the prices of the file, and
  who read after the copy has them too.
- *Walks* (`WalkInv`): as long as no two rows tie or replace each other, a row stands in the
  list right after the newer ones (`Position`), so the pages read so far hold every row that
  was there at the beginning and has fewer newer ones than they have places (`Behind`); inserts
  push rows back and never forward.
- *Sums* (`SumTypes`): there is nothing to keep but the types. That the join and the sum in
  Python agree is `JoinsAgree`, on any set of rows with one row for each trace: the sum over
  the spans of the rows is the sum of the sums (`SumsOfSums`).

Two parts need induction: over the positions of an upload, over the rows that are summed. The
library states it with an operator as a parameter, which the provers cannot instantiate, so
the module proves it for sets, from the well-foundedness of the subsets of a finite set
(`SubsetInduction`, `NaturalInduction`); by it, that a fold over a finite set is the function
its recursion defines (`FoldIsThere`), and that a sum does not depend on the order in which
its elements are taken (`SumTakesOut`) and splits (`SumSplits`).

- `SpansReachTheApi`: `SpansAreDelivered`; `PricesMoveWithReleases`: `PricesAreCurrent`;
  `RowsKeepWhatWasSaid`: `[]RowsAreFaithful`; `ListsTellTheSame`: `[]ListsAgree`;
  `TypeCorrect`.

**`BrowserProofs`** (from `BrowserAssumption`). `BrowserInv` has an invariant for each part:

- *List* (`ListInv`): unless two updates met, the page is at rest and agrees with the URL and the
  user's last choice, or a page change is on its way whose effect will be skipped (`Paging`), or
  a navigation is whose effect will bring the choice (`Going`).
- *Chat* (`ChatInv`): while nothing overlapped, either nothing runs, or exactly one send does,
  whose session, controller and bubble are the panel's (`Runs`).
- *Form* (`FormInv`): a dialog or a save that edits a row, and a write whose error was shown
  before it was done (`LateInv`), has what the row it was opened from had, but for what was
  touched (`Filled`); what is sent is made of the form; the list is the rows
  unless something is still to come.
- *Keys tab* (`KeysInv`): the list is the table unless a fetch or an answer is under way
  (`Fetched`); a text that confirms was typed for the key the dialog is about (`Typed`); who
  waits for answers has the dialog of each request still open (`Calm`).
- *Ways* (`WaysInv`): a URL names only what its page can open, and the last link landed
  (`LandInv`); every cached answer is the answer to its key at some earlier moment
  (`WaysCacheInv`), where the answer of the server is defined without recursion, by where each
  value came last.
- *Billing* (`BillInv`): a request outlives the page only unanswered (`Mounts`); unless the page
  lagged, no checkout is open beside a subscription (`PaysOnce`); labels mean what they say
  (`Paid`); what the notices read is Stripe's unless more is to come (`Noticed`).
- *Settings* (`SettingsInv`): of every query that no change crossed, what is cached and not
  marked, and what a fetch has read, is current, unless an answered form is about to mark it
  (`PagesCacheInv`); what a page reads and is marked is being fetched (`MarkInv`); one request
  that renames or deletes at a time (`EditInv`), so that it deletes the name it was typed for
  (`DeleteInv`) and the name half typed survives the answers under way (`TypedInv`, `KeptInv`).
  That each route changes no more than its form marks is one lemma over all of them (`Keeps`).

Theorems: `TypeCorrect`; `ListsFollowTheUrl`: `[]DriftNeedsClash`; `OneAtATimeIsClean`:
`[]AloneIsClean`; `PagesShowWhatIsStored`: `PagesAreFaithful`.

The proof of the form found a property that was too strong: `KeepsUntouched` said that an edit
which leaves the overrides of a provider alone leaves them as they are. With two models that is
false of the code: a row can have an override of a model it no longer has, and a save drops it or
keeps it as the others come out. The property now speaks of the overrides of models the row has
(`Kept`); the run, with one model, could not tell the two apart.

**`AgentProofs`** has the proofs of `AgentSession` and of `AgentDesk`.

*Sessions* (`AgentSessionAssumption`: None is no message, the signal no DELETE). While nothing was rough, at most one handler is at work (`Alone`), every container
is the one in the map or being removed (`BoxesKnown`), and the agent knows every question
but the one about to be put to it (`AgentKnows`): `IInv == TypeOK /\ Handlers /\
DoneIsStored /\ (~rough => Alone /\ BoxesKnown /\ AgentKnows)`.

- `TypeCorrect`; `NoLeakAlone`: `[]LeakNeedsOverlap`; `ConversationIsWhole`:
  `[]HistoryIsComplete`.

*Reading* (`ToolsAssumption`: positive limits, lines of positive widths, the empty line among
them). Bytes are sums, and the loop of the truncation is a walk over the lines, both defined as
recursive functions. `AddUpIsThere` and `TakenSays` say that these functions exist and what they are, by induction
over the numbers up to n (`UptoInduction`, `WalkIsThere`). `SizeTo` is the size of the lines before
a place, newlines included: lines are taken while it keeps to the limit, and the line after the
last one taken would not. From that: what `truncateHead` and `truncateTail` show is a beginning
and an end of the text, within both limits, and one line more would not be. `ReadsOn` is no
property of a state alone; the invariant `ToolInv` says that while a reading goes on the offset
is one past the lines read so far and names a line the file has, and that a read between `wc`
and `cat` stands there, at a file no shorter than it was counted. A file that grows changes its
last line or adds one, so what was read stays a beginning of the file but for a last line.

*The tree* (`TreeAssumption`: every span comes once in the order of starts; of the parents
nothing but that they are spans or none: they may be missing, and may go in circles, of which no
row is made). A *stem* is a sequence of spans of the view, a root first, each the parent of the next:
the ancestors of a span there are exactly a stem that ends in it (`AncestryIs`), which has no
span twice and so is no longer than the view. Each of `Traverse`, `Ancestry`, `Met` and `Tree` is a
recursive function over the depth, and an induction over the depth says of it what it gives for a
stem of any length. For the rows, the statement that goes through is that of a *grove*: the
sequence for the children of a span consists of one piece for each child, in their order, each
the row of the child and then the grove of its own children, and all stems in a piece begin with
the stem of its first row. Then:

- every stem has its row once, as pieces do not overlap and a stem is in the piece of its child;
- two rows that follow each other are in one piece, or the second begins the next piece, so its
  stem without its last span is a beginning of the first's (`Follows`);
- a line is drawn in the column of a level exactly if the branch at that level goes on: it goes on
  inside the piece, or with the next piece, and that is what the levels handed down say
  (`JoinsInside`, `JoinsAcross`);
- the paths of the keys of tree.json are the stems;
- what isVisible meets on its way up is the stem, so the outermost collapsed span on it is a
  row that shows and has its button.

The invariant `TreeInv` adds to the types that what is fetched of a trace is sorted by start and
was ingested, and that the selection, once the effect has run, ends a stem of the open trace. A
stem stays one when spans arrive (`StemsStay`); a refetch only adds spans.

- `DeskTypeCorrect`: `[]DeskTypeOK`; `TheTreeIsOne`: `[]TreeIsFaithful`; `ReadingGetsThrough`:
  `ReadingIsFaithful`.

**`GitHubConnectionProofs`** (`GitHubAssumption`: None is no tab or installation).
The page to return to is in the URL on the way to a route and in the cookie on the way
through GitHub (`WayHome`), as long as one flow runs; a half connection has a tab that is sent to
install or whose cookie is the one its callback looks for (`Completes`), however many
tabs overwrite each other's cookie. An installation may come back at the OAuth callback, which
takes a state of no login for ours only where no login's state is in the cookie; `Owns` says
that such a state belongs to a login still on its way, so only where one was refused
(`refused`) is nobody left to complete the connection.

- `TypeCorrect`; `FlowsReturnHome`: `[]ReturnsHome`; `HalfIsCompleted`: `[]HalfIsUnderWay`.

Only model-checked:

- all liveness (`PublishedIsSettled`, `UsageIsBilled`, `FlagsFollowQuota`, `UpgradeUnblocksAi`,
  `EveryStreamEnds`, `FlowEnds`), as fairness and ENABLED are out of the prover's reach;
- `TypeOK` of `usage_blocking`, whose promises are liveness.

## Where code and documents disagree

Three disagreements are runs that TLC refutes (`findings` in `PROJECT.json`):

- `ingestion_promise`, `backend/rest/routers/public/traces.py:233`: a broker error is
  logged, the client is answered 200, and nothing ever processes the object.
- `usage_metering_once`, `frontend/worker/src/ee/billing/usageMetering.ts:363`: when a meter
  event fails, or the workspace cannot be updated after it, the next run finds nothing
  reported and reports the whole sum again.
- `usage_blocking_upgrade`, `usageMetering.ts:256`: a free workspace that is blocked and
  upgrades keeps its ingestion block, as no branch clears it on a paid plan.

The others were met while modelling. The modules do what the code does, and the
properties are stated so that they hold of it: with the condition under which the
documented behaviour is there, or of what is left of it. Paths are shortened to the file
and, for routes, to what follows `frontend/ui/src/app/api`.

*Checks before writes* (`BreachNeedsOverlap`, `InvitesAreChecked`):

- `workspaces/[workspaceId]/projects/route.ts:82` "Check for duplicate name in workspace":
  check and create are two statements without a unique index, so two requests at once
  create two projects of one name.
- `members/[userId]/route.ts:57` "Cannot demote yourself from ADMIN if you're the last
  admin": admins are counted only when one acts on itself, and before the write; two who
  demote each other leave none.
- `invites/route.ts:140` and `plans.ts:239` enforce seats, `members/route.ts:106` adds
  without a seat check.

*Subscriptions* (`DriftNeedsRace`):

- `billing/webhook/route.ts:54` writes the plan of whatever event comes; one that is retried
  after "Subscription ended" (line 75) puts an ended workspace on a paid plan.
- `billing/change-plan/route.ts:136` "Update database immediately": an older event that
  comes after that write sets the old plan again.
- `change-plan/route.ts:163` lists only the plan's price in both phases of a downgrade and
  so drops the metered AI item, where `plans.ts:54` says "overage is billed via Stripe".

*Agent service* (`OldKeyNeedsMiss`, `LeakNeedsOverlap`, `HistoryIsComplete`):

- `model-providers/[providerId]/route.ts:148` "so the new key takes effect immediately": a
  handler that fills the caches meanwhile keeps the old key; and for `:27` "cache will
  expire via TTL", the agent of a session holds the key in a closure that never expires.
- `agent.ts:316` "System models: always use env var, never fall through to BYOK keys":
  without the variable, `getApiKey` goes on to the BYOK key.
- `agent/src/index.ts:24` "executor lifecycle tied to session", `:285` "Destroy all active
  executors": an agent that is answering starts a container after the DELETE or signal
  has looked for one.
- `agent.ts:131` "one Agent per conversation session": two first messages make two.

*Transformation, prices and lists* (`RowsAreFaithful`, `PricesAreCurrent`, `ListsAgree`):

- `otel_transform.py:234` "collected from ANY span": only of the same batch as the root.
- `otel_transform.py:329` "Try API-provided token counts first": a reported 0 counts as none.
- `otel_transform.py:44` "already extracted into dedicated fields": keys of known prefixes are
  left out of the metadata whether or not they are read.
- `pricing.py:6` "prices only change on deploy/restart": what is read before the billing
  worker has copied the file is kept for the life of the process.
- `trace_reader.py:70` "Use FINAL to deduplicate": a trace whose start moved to another day
  keeps two rows; `:33`, the count of a trace without spans is 1, as an outer join fills in
  empty strings; `:534` includes the end of the window that the other lists exclude; `:450`
  may show an empty input of a span that has an output only; `:327` reads outside the window.

*SDK* (`SpansAreDelivered`):

- `typescript-sdk.mdx:47`: `usingAttributes` does nothing for the spans of a block when no
  client was made before it.
- `overview.mdx:6` "Once you have initialized": `initialize` keeps an existing client, made by
  an earlier call or being shut down, and drops the options.
- `global-client.ts:28`: a shutdown whose last export fails rejects, and the client that was
  shut down stays the global one, whose processor takes no more spans.

*Settings and billing pages* (`PagesAreFaithful`, `AloneIsClean`):

- `settings/project/components/GeneralTab.tsx:46`, where line 92 says "Changes will take effect
  immediately": a new name of a project marks the project's own query, not the lists of
  workspaces and projects, which go on showing the old name.
- `settings/workspace/components/MembersTab.tsx:84` to 98 mark the members only: one's own
  role and the number of members stay as they were in the lists of workspaces.
- `CreateWorkspaceDialog.tsx:31` marks a list that may be under way for the first time; that
  fetch is not begun again, and what it read before takes the mark away.
- Both general tabs take the name from each new answer (`useEffect`), also one that differs
  elsewhere, and so wipe a name half typed; the text that confirms a deletion stays when the
  dialog is cancelled.
- `BillingTab.tsx`: a page that does not yet know of the subscription sends a second
  checkout; isLoading is reset before the page is gone, so its buttons can be pressed again.
- `AccessKeysTab.tsx`: the box with the only view of a secret is replaced by the next key's,
  and an answer closes whichever dialog is open.

*Browser and GitHub*: the input of the chat stays enabled while a stream runs and both
sends use the same refs (`use-ai-stream.ts:23`, `use-ai-chat.ts:23`; `AloneIsClean`); a
filter chosen on another page than the first is undone by the navigation that resets the
page (`use-url-date-filter.ts:2`; `DriftNeedsClash`), and a flag set for a navigation
that never happens swallows the next (`use-url-pagination.ts:2`); rows are made from
the roots down, so a span whose parent is missing has none (`introduction.mdx:9`), and the
line of a root with a next one stops below it (`types/index.ts:14`; `TreeIsFaithful`);
an empty URL or no override is sent as nothing and cannot be cleared
(`ModelProvidersTab.tsx:485`, `:156`), adding under an existing name replaces the
row (`:404`; `PagesAreFaithful`); the output of a command that ends with a newline after a
line too long is shown as "(no output)" (`sandbox.ts:62`; `ReadingIsFaithful`);
`github/status/route.ts:5` "Only returns connected:true if both" answers true for any row;
`callback-validation.ts:68` compares with the first installation only;
`github/disconnect/route.ts:29` answers success for any error (`HalfIsUnderWay`, `FlowEnds`).

## What is not modelled

- *SDK serialisation and git context*: pure conversions of values, of the environment
  and of `.git`. (`serialize.ts` takes an object met twice for a cycle.)
- *Migrations*: one call of goose per worker, which locks by itself. The worker takes tasks
  meanwhile; a missing table is a failed insert of `Ingestion`.
- *Authentication*: better-auth keeps the state; the modules start from a user.
- *Provider registry, connection test, encryption, licence, e-mail*: constants, one request
  each, or library calls, with nothing stored.
- *In the SDK*: the time limits of an export and a flush, answers that are lost after the server
  had the batch (the span would come twice), a second flush beside the first, and the order and
  size of the batches within one export: a taker sends what it took at once.
- *In the fields of a span*: counts are small numbers. One that is not a number fails the whole
  task (`int()` raises), which is a batch that does not transform in `Ingestion`.
- *In metering*: a paid workspace without stored dates of a period is metered by the calendar
  month (`usageMetering.ts:151`), which overlaps the periods it gets later; one without a
  subscription is not metered.
- *In subscriptions*: prices no plan has, and which item of a subscription comes first
  (`webhook/route.ts:51`).
- *In the key caches*: another workspace, or another provider of the same kind, whose cached key
  `fetchProviderKey` would take (`agent.ts:84`), and the default AWS credentials.
- *Event-block billing*: an absolute quantity that each run sets again. The job meters the
  period stored now (`usageMetering.ts:127`), so what is used between the last run of a period
  and its end is never charged; no property says so, as the code promises nothing else.
- *Users across batches*: a child that carries the user and comes in another batch than the root
  does not reach the trace (`otel_transform.py:494`); `RowsAreFaithful` says what does.
- *The sidebar* and other layout: they read the same queries as the pages and change nothing.
- *Bars, rendering, wording, other pages, deployment, examples*: layout and configuration.
- Within the modules: times are marks (still fresh, expired), passwords and keys are
  values, and SQL is what it selects. Matching of model names, arithmetic of costs and
  the full-text filters of the lists are left out. `github/token/route.ts` stores
  nothing and is left for the plan. Two containers made in one millisecond get one name
  (`executors/docker.ts:20`); a container here is named after its message.

## The plan

Order: what loses data or charges money first, then access, then what users see.

1. *Done.* `Ingestion` with `IngestContract`; `UsageMetering`, `UsageBlocking`,
   `Subscription`; `AccessKeys`, `Membership`; `AgentKeys`, `AgentSession`; `OtelTransform`,
   `SpanFields`, `ModelPricing`, `TraceReader`, `SdkClient`; `GitHubConnection`,
   `ListPageState`, `ChatPanel`, `SpanTree`, `ProviderForm`, `AgentTools`; `ListPages`,
   `KeysTab`, `BillingTab`, `SettingsPages`. The proofs of every safety property the runs
   `ingestion`, `usage_metering`, `agent_session`, `github_connection`, `workspace`, `agent`, `traces`
   and `browser` check.
2. *Next, models.* A composition of `AccessKeys` and `Membership` over one variable of
   roles in place of `SetRole`; of `AccessKeys` and `Ingestion`, with the key's validation as
   the answer of authentication, and of `UsageBlocking` and `Subscription` over one plan. An
   abstract specification of access (who may do what, when) that `AccessKeys` implements,
   and of a subscription (one plan, in order) that `Subscription` implements while nothing
   races. The token route in `GitHubConnection`; `serialize.ts` as an operator over small
   object graphs against a reference definition; event-block billing; liveness of a shutdown in
   `SdkClient`.
3. *Next, proofs.* `AgentKeys` and `Subscription` as refinements of those abstract
   specifications.
