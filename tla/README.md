# Bex in TLA+

[Bex](../src/README.md) is an open-source platform that runs people's services
on Kubernetes with the API of Render. This directory holds TLA+ models of the
five protocols at its core, the runs which check them and the proofs about
them:

- **deploys**: a push, a click or a saved setting opens a deploy, which builds
  an artifact, runs a pre-deploy command, rolls out and serves;
- **outbound webhooks**: what happens is read from a feed, queued for each
  endpoint and sent until it arrives or its retries are spent;
- **inbound git webhooks**: a signed delivery of a git host is acted on once,
  by whichever replica it reaches, however often it is delivered;
- **agent sessions**: turns of a coding agent, each dispatched to a sandbox
  that has to be bound, reported on and torn down;
- **usage export**: metered usage is reported to a payment provider, once.

Paths below are relative to `src/lego/` unless they say otherwise.

## 1. Inventory

### 1.1 The parts

| part | state it keeps | operations |
|---|---|---|
| **deploy store** `backend/internal/store/store.go`, `deploy_lifecycle.go`, migrations 0080, 0142 | the `deploys` table in Postgres: status, generation, `overlap_pending`, pre-deploy status, trigger | `CreateApp`, `CreateDeploy`, `CreateRestartDeploy`, `CreateRollbackDeploy`, `EnsureCheckedDeploy` (one insert, `insertDeploy`), `TransitionDeploy`, `SetDeployPreDeployStatus`, `SettleCanceledPreDeploy` |
| **deploy verbs** `backend/internal/deploys` | the per-App trigger lock | trigger (API, hook, push, Manual Deploy), rollback, restart, cancel |
| **rollout tracker** `backend/internal/rollout` | none of its own; pending-source holds on the App | a settings change that rolls a release: stamp, patch, open the row |
| **service settings** `backend/internal/apps` | the desired App row and the App's spec | create, settings, scale, suspend, resume, domains, disks, previews |
| **deploy projector** `backend/internal/store/reconciler.go` | none between passes | every 30 s or when kicked: write desired specs to Apps, read their status back into deploy rows |
| **App resource** `types/v1alpha1` | `metadata.generation`, three release annotations, spec; status | shared memory of the control plane (spec, annotations) and the operator (status) |
| **operator** `operator/internal/controller`, `predeploy`, `build` | `App.status` and the Jobs, Deployments and routes it owns | reconcile: decide the release, build, step, roll out, settle, park |
| **outbound webhooks** `store/feedtail.go`, `store/webhooks.go`, `webhooks/worker.go`, migrations 0084, 0148 | watermark, eligibility intervals of endpoints, outbox rows, leased attempts | tail the event feed, enqueue, claim, deliver, retry, resend, disable, sweep |
| **push and alert mail** `notifications` | as webhooks, with receipts | as webhooks |
| **inbound git webhooks** `apps/webhook.go`, `store/gitwebhook.go`, `cmd/api/main.go`, migration 0104 | claims per tenant scope, leases of replicas, retired epochs | claim, act, release; register an epoch, heartbeat, sweep and retire, give the lease back |
| **agent sessions** `agentsessions`, `store/agentsessions.go`, `store/agentdispatch.go`, `sandbox` | the session's row, dispatch intents, sandboxes in the cluster | accept, dispatch, bind, abandon, recover, finalize, reap, sweep, resume, cancel, delete |
| **usage export** `billing/emitter.go`, `settle.go`, `store/billing.go`, `billing_operations.go` | usage rows with their first attempt, export issues | record, export (full and fast pass), settle, quarantine, resolve |
| **billing accounts** `billing/lifecycle.go`, `store/billing_lifecycle.go` | lifecycle of unpaid accounts | react to the provider, enforce deadlines |
| **activator** `operator/cmd/activator` | held requests | wake a parked App |
| **drain guard** `operator/internal/drainguard` | a hook per machine | hold a machine until its Apps moved, or a bound |
| env groups and secrets; datastores; jobs, crash loops, free hours, disks; workspaces, projects, blueprints; proxies and static server; API, authentication; SSH and sandboxes | rows and resources of their own | mostly one transaction or one translation each |

`bex-api` (the control plane) runs as two replicas with no leader election
(`operator/config/prod/kustomization.yaml`): every periodic loop runs in both at
once and only the database and the Kubernetes API order them. The operator is
one elected process; its work queue never runs two passes on the same App.

### 1.2 How they interact

    user -> deploy verbs / rollout / settings        (bex-api, 2 replicas)
              | 1. patch spec + annotations                | 2. insert row
              v                                            v
          App resource  <---- status ---- operator     deploys table
              |                                            ^
              +--------- projector: list Apps, then rows --+

No transaction spans the App and the table. A request patches first and inserts
after; a cancel reads a row, stamps the App, then closes the row; the projector
lists Apps, then lists rows, then writes row by row; the operator decides on
the spec it read and writes its status at the end of the pass. Everything else
may happen in between, and the identity that ties the two sides together is
the *release generation*: the annotation `app.bex.co/release-generation` on the
App, `generation` on the row, `status.releaseGeneration` from the operator.

The other protocols have the same shape: a Postgres table that every
replica works on, something outside it that a replica acts on between two
transactions, and loops that repeat whatever a dead replica left.

    writers -> event feed -> FeedTailer (per replica) -> outbox rows
                                                           | lease, post, report
                                                           v
                                                        endpoint
    git host -> ServeHTTP (any replica): claim -> work, or release
    user -> verb: session row + intent -> dispatch -> sandbox <- Completer (per replica)
    meters -> usage rows -> full pass / fast pass / settle -> provider

Deploys, agent sessions, datastores and the rest write the facts the feed
serves; agent sessions and sandboxes are metered. These couplings are one-way
insertions, so each protocol is a module of its own.

### 1.3 What is hard, and what is correct

- **Table.** Inserts arrive in another order than their patches, verdicts
  arrive after the row has moved on. Correct: one executing and one waiting
  row, the waiting one the newest; outcomes final; one live row; no closed row
  claims a running step; a trigger never preempts the executing row.
- **Release decision.** The spec keeps moving while a release is in flight.
  Correct: a release in flight is finished before a newer one is adopted, what
  serves only moves forward, a failed or canceled release stays down, a cancel
  ends the deploy it names and no other, a suspended App starts nothing.
- **Projection.** Rows are judged from readings of two different moments, by
  two replicas, either of which may die. Correct: history says live only of
  what served, the newest of those is the live one, every row comes to an end.
- **Feed.** Events commit after they are stamped, endpoints are toggled while
  a pass reads, two replicas move one watermark. Correct: no owed event is
  skipped, none is queued that the endpoint was not enabled for.
- **Outbox.** Leases run out under a sender that is still posting, resends
  park the scheduled retry, an older replica's completions arrive through a
  trigger. Correct: one attempt pending, none stranded, the automatic budget
  spent by automatic attempts only, a delivered notification never reopened.
- **Agent dispatch.** A replica may die between creating a sandbox and binding
  it, or bind late what recovery has given up. Correct: a cleanup never works
  on a bound turn, no handle of a sandbox is dropped while it runs, a turn
  completes by its own driver's report, nothing provisions for ever.
- **Usage export.** Sending and stamping are two steps, two replicas and a
  settle export the same row. Correct: counted once and in full, held back
  exactly while an issue says so, nothing left behind by a settle.
- **Git webhooks.** A delivery fans out to several tenants and may fail after
  some of them; two replicas count a tenant's rows and insert at once; a secret
  is retired while another replica registers it or claims under it. Correct: a
  push acts once on a scope, a claim stands for work, capacities are kept, a
  retired secret is retired for good.
- **Push, mail:** outboxes of the same kind.

`PROJECT.json` lists each hazard at its line with the properties aimed at it.

## 2. The modules

| module | what it is |
|---|---|
| `DeployRows` | the deploys table as a value; each transaction as a function from table to table |
| `DeployStore` | the abstract specification: any caller may call any transaction at any time |
| `DeployRowsProofs` | lemmas on the transactions: what each does to any sound table |
| `DeployStoreProofs` | its safety properties, proved for any sets of deploys and generations |
| `AppRelease` | the App resource, what control-plane writes make of it, and the operator's pass |
| `DeployProjection` | `observedDeployStatus`: what a row is to become, from one reading of the App |
| `DeployLifecycle` | all of it together: requests, cancels, projector passes, the operator, crashes |
| `DeployLifecycleProofs` | its invariants, and that it implements `DeployStore`, for any bound, Apps and replicas |
| `WebhookFeed` | the feed tailer: from events and eligibility intervals to queued notifications |
| `WebhookFeedProofs` | its invariants, proved for any events, endpoints' toggles, page sizes and dispatchers |
| `WebhookDelivery` | the abstract specification of an outbox: a notification is queued once and ends once |
| `WebhookOutbox` | the outbox of one endpoint: attempts, leases, resends, the bridge trigger, retention |
| `WebhookOutboxProofs` | its invariants, and that it implements `WebhookDelivery`, for any notifications, senders and budget |
| `AgentDispatch` | one agent session: verbs, dispatches, sandboxes and the Completers of the replicas |
| `AgentDispatchProofs` | its safety properties, proved for any numbers of turns and Completers |
| `UsageExport` | one usage row, the passes that export it, and the operator's repairs |
| `UsageExportProofs` | its invariants, proved for any numbers of passes and any horizons |
| `GitWebhooks` | the replay ledger: claims of deliveries, the requests that make them, epochs and their sweeps |
| `GitWebhooksProofs` | its invariants, proved for any numbers of processes, secrets, deliveries and scopes |
| `MC...` | symmetry, model values and bounds for TLC, one per checked module |

`DeployLifecycle` extends `DeployProjection`, which extends `DeployRows` and
`AppRelease`; it instantiates `DeployStore` to say that it implements it
(`StoreSpec`). `WebhookOutbox` instantiates `WebhookDelivery` in the same way
(`DeliverySpec`). `WebhookFeed` ends where `WebhookOutbox` begins: what it puts
into `queued` is what the other enqueues, and what the other ends leaves `open`.

### 2.1 Deploys: state

- `deploys[g]` is the row of release generation *g* (a generation is never
  reused, so it names the row; in `DeployStore` ids and generations are
  separate). A row is its status, generation, `overlap` (`overlap_pending`),
  `preDeploy` and trigger. The triggers are grouped into what a cancel tells
  apart: `source`, `manual`, `config`, `selected`.
- `spec` is what the control plane writes on the App: `gen`
  (`metadata.generation`), `stamp`, `cancel`, `surv` (the three release
  annotations), `susp`, `want` (the fingerprint of the saved settings, named by
  the generation that last changed them), `sel` (`spec.releaseConfig`), `kind`.
- `status` is what the operator writes: the release it works on with its
  fingerprint and artifact, the release that serves (`active`), the phase, the
  generation the Ready condition was written for, the releases which the Build
  and Rollout conditions fail, the pre-deploy record.
- `pass` is the spec a reconcile pass has read and not yet written about;
  `opening` the releases patched and not yet inserted; `settings` the reads of
  unlocked saves; `cancels` and `recs` the requests and projector passes in
  progress, with what they have read so far.
- `served` and `ended` are history variables: which generations have served,
  whose cancel stamp has landed and whether a user or a suspend asked for it.
  No action reads them.

### 2.2 Deploys: actions and code

| action | code |
|---|---|
| `CreateApp` | `store.CreateApp`, then the resource as `materializeNewApp` leaves it |
| `OpenRelease`, `InsertOpened`, `DropOpened` | `deploys.openRelease` under the trigger lock: patch, insert; or the replica dies between |
| `ChangeConfig` | `rollout.PatchLocked`: secrets, environment groups, references |
| `SettingsRead`, `SettingsPatch` | `rollout.Patch`: an unlocked merge patch of a Settings save |
| `Scale`, `Suspend`, `Resume` | the writes of `apps` that move the generation without rolling a release |
| `CancelReads`, `CancelStamps`, `CancelCloses` | `deploys.Cancel` with `cancelSurvivor`, `CancelRelease`, `TransitionDeploy` |
| `RecordLists` ... `RecordSettlesStep` | `ReconcileOnce`, `recordObservations`, `recordDeploy`, `recordCanceledPreDeploy`: each read and each write a step |
| `PassBegins`, `PassEnds`, `PassAbandons` | one reconcile of the App: `prepareAppReleaseDecision`, then the branch the decided release is in (`CancelSettles`, `Builds`, `Parks`, `StepRuns`, `Serves`, `RolloutFails`, ...) |

The operator has two kinds of status write and the model keeps them apart,
because they lose different races: `updateStatusRetrying` re-applies the
whole status over whatever has come in (`WriteRetrying`); a plain update is
refused when the App has changed (`WriteChecked`).

### 2.3 Deploys: abstractions

- A store transaction is one step: it locks the App's row (inserts) or the
  deploy's row (transitions) before it reads. What READ COMMITTED allows two
  transitions of *different* rows is left to a later module.
- An operator pass ends with its status write. Where the code writes again in
  the same pass, the model takes a further pass, which may read a newer spec or
  the same one.
- Equal settings are equal generations of `want`; an artifact is identified by
  the settings it was built from. Digests, images and commits are left out.
- `Cancel`'s two reads of the table are one step; a cancel that dies is one
  that takes no further step. A suspend's two writes (its desired row, then
  the App) are one step.
- Row deletion, time and gate lengths are left out: with `Timeouts`, any row
  may be past its gate whenever a pass judges it.
- Settings are not saved on a suspended App (`Patches`): the code holds their
  source back (`pending-source`), which is not modelled.

### 2.4 Webhook feed

`WebhookFeed` is the tailer every replica runs (`FeedTailer.RunOnce`,
`EnqueueWebhookDeliveries`) for one endpoint. An event has the time at which it
happened (`at`, by which it is eligible) and the time at which it was recorded,
which orders the feed and is stamped *before* its transaction commits; so are
the toggles of the endpoint, whose intervals a trigger keeps
(`bex_track_webhook_endpoint_eligibility`, migration 0148).

| action | code |
|---|---|
| `EventStamps`, `EventCommits`; `ToggleStamps`, `ToggleCommits` | the writers' transactions: the stamp, then the moment it is visible |
| `PassBegins`, `ReadsEndpoints` | the window's end is fixed, then the endpoints are read, with `lateFactAllowance` |
| `ReadsPage`, `CommitsPage`, `CommitAnswerLost`, `Parks` | a page from the cursor; notifications and watermark in one transaction; its answer is lost; a quiet window |
| `Fails`, `Dies` | a call fails, a process restarts and loads the durable watermark |

Abstractions: one endpoint; other workspaces appear as `Platform`, which
decides whether passes go on without it; a transaction commits before the
feed's lag is over, the assumption the code states at `FeedCommitLag`; which
kinds an endpoint subscribes to is part of "event".

### 2.5 Webhook outbox

`WebhookOutbox` is what happens to a notification from there on. `parent[n]` is
its row in `webhook_deliveries`, `attempts[n]` its rows in
`webhook_delivery_attempts`, `senders` the claims in progress.

| action | code |
|---|---|
| `Enqueue` | the parent's insert, and the trigger that reserves attempt 1 |
| `Claim`, `Complete`, `SenderDies`, `LeaseLapses` | `ClaimDueWebhookAttempts`, the post outside any transaction, `CompleteWebhookAttempt` |
| `LegacyBridge` (part of `Complete`) | the trigger of migration 0084 that takes an older replica's completion |
| `QueueResend` | `QueueWebhookResend`: parks the automatic retry, remembers to restore it |
| `SetEnabled`, `SetDisabled`, `DeleteEndpoint` | the endpoint's verbs; an exhausted budget disables it too |
| `SweepSelects`, `SweepDeletes`, `SweepAbandons` | retention: what it selects, what it deletes later, what waits too long |

Time is left out: whether an attempt is due only delays its claim, and a lease
may lapse at any moment. Payload, signature and the response are left out.

### 2.6 Agent sessions

`session` is the `agent_sessions` row, `intent[t]` the row of turn *t* in
`agent_session_dispatches`. A turn has one dispatch, so a sandbox is named by
the turn on its label: `pod[t]`, with `report[t]` what its driver wrote.
`dispatch[t]`, `job[c]`, `resume`, `cancel`, `delete` are what the goroutines
hold between two of their calls: every read, remote call and write is a step.

| action | code |
|---|---|
| `Init`, `Steer` | `CreateAgentSession`, `BeginAgentSessionTurn`: row and intent in one transaction |
| `TearsPredecessorDown`, `Provisions`, `Binds`, `BindFails`, `GivesUp`, `CleansUp`, `DispatchDies`, `LateSandbox` | the background dispatch: `runSteerDispatch`, `RecordAgentSessionDispatch`, `abandonDispatch`; it may die anywhere, and a create call it had sent may land later |
| `ListsActive`, `ReadsStatus`, `Finalizes`; `ListsIdle`, `Terminates`, `Clears` | a Completer files reports and tears finished sandboxes down |
| `ListsPredecessor`, `Cleans`, `Forgets` | `reapPreviousSandboxes` |
| `ListsDispatch`, `Recovers`, `Cleans`, `RepairsIntent` | `recoverDispatches`, `AbandonAgentDispatch`, `CleanupAgentDispatches` |
| `FindsOrphan`, `SweepsOrphan` | `reconcileSandboxInventory` |
| `ResumeReads` .. `ResumeSettles`, `CancelMarks` .., `DeleteReads` .. | the verbs, each a read, a call and a write |

Abstractions: one session (others share quotas, which only delay it); clocks
(an intent may be due and a grace over at any moment); transcripts, results,
pull requests, tickets. The inventory's stop of sandboxes past their maximal
life is a `SandboxVanishes`. `Steer` takes the predecessor from the row it
locks; the code takes it from the row it read just before (`Get`), which is the
same unless the row has changed in between.

Two switches name what the properties need. With `LateReports` a turn may be
accepted while a Completer still holds a report of the turn before; with
`LateClears` a turn may be bound while a Completer has still to blank the
sandbox it terminated for the turn before. Both are possible in the code,
across a remote call each; section 5 says what happens then.

### 2.7 Usage export

`UsageExport` follows one row of `usage_hourly`, that of hour 1, of either of
two meters: the agent's model cost (a *fast* kind: it grows while pending and
unattempted, and is exported as soon as its hour is over) or a sandbox's
compute (*metered*: it grows as the sandbox is observed, and is exported
`SealHours` later). Other rows appear as what they may do to a pass: a batch
before it, a batch that is not all pending, a sibling that fails.

| action | code |
|---|---|
| `ReportArrives`, `ReportRecorded` | `RecordAgentModelUsage`, `addAgentModelUsage` |
| `SandboxStarts`, `SandboxObserved` | `ObserveSandboxMeter`, `accrueSandboxInterval` |
| `Begins`, `Selects`, `Marks` | `emitOnce` or `ExportWorkspace`: quarantine (full pass only), a batch of pending rows, `MarkUsageAttempted` |
| `Accepts`, `Rejects`, `LosesAnswer`, `Records` | `IngestBatch`, `RecordUsageExportResult` |
| `Returns`, `PassDies` | the settle is done and the deletion goes on; a replica dies, a statement fails |
| `Acknowledge`, `Retry`, `MarkRepaired` | `ResolveBillingExportIssue` |

Time is counted in hours, and four assumptions are guards of `HourPasses`,
`Retry` and `Rejects`: a pass begins and ends within an hour; a report is
recorded within an hour of its arrival (`DefaultFastSeal` waits five minutes
for it); a running sandbox is observed more often than `SealHours`; and the
provider rejects a row consistently, until an operator has dealt with it and
when no pass holds the row. `provider.blind` and `provider.settled` are
history: no action's guard reads them.

### 2.8 Inbound git webhooks

`claims` is `git_webhook_replays`, `leases` `git_webhook_replay_epoch_leases`,
`retired` `git_webhook_replay_retired_epochs`; an *epoch* is the digest of the
signing secret, and `instance[i].epoch` the one process *i* was started with.
`request[r]` is a delivery in the hands of a handler, with the scopes it still
has to go through and the claims it has taken; `sweep[i]` is the maintenance
pass of a process, with what its transaction has read and deleted so far.

| action | code |
|---|---|
| `Receives`, `Passes` | `ServeHTTP` and `serveDelete` for a signed delivery, scope by scope; a workspace that tracks neither repository nor branch |
| `Refreshes`, `LocksScope`, `Reads`, `Inserts` | the statements of `ClaimGitWebhookDelivery` and `claimGitWebhookDelivery`; the insert stands for the commit, which follows it |
| `Works`, `WorkFails` | the check or the Blueprint intent of the scope |
| `InsertAnswerLost`, `Stumbles`, `Releases`, `ReleaseFails` | a claim whose answer is lost, a failed call before it, `deliveryClaims.release` claim by claim |
| `Starts`, `Registers`, `Enlists` | a process starts; `MaintainGitWebhookReplayEpochs` registers its epoch |
| `Expires`, `LocksEpoch`, `Purges`, `Commits` | the statements of its sweep, epoch by epoch |
| `PassFails`, `Lapses`, `Stops`, `Dies` | a pass fails and is undone; no heartbeat within the TTL; `ReleaseGitWebhookReplayEpoch`; a crash |

The transactions are modelled statement by statement, under READ COMMITTED:
`LeaseHeld`, `ScopeHeld` and `EpochHeld` derive who holds which row lock or
advisory lock from how far each transaction is.

Abstractions: the commit of a claim follows its insert in one step, with the
lost answer as an action of its own; the legacy partition and the two key
classes, which differ in digests and lock keys only; `check_suite` deliveries,
which claim nothing; what the work itself does (opening a deploy is the subject
of section 2.1); a restarted replica is another process.

## 3. The runs

Each run's properties are the ones its `.cfg` names.

| run | question | bounds | states |
|---|---|---|---|
| `MCDeployStore` | do the transactions keep the table sound, whoever calls them? | 3 deploys (symmetric), 3 generations | 304,893 |
| `LifeCore` | is history truthful with triggers, saves, scaling and suspension; does a cancel end the right release, and only it? | a source App with 3 generations, and with 2 and a canceler; a gated source App with 2; a gated image App with 2 and one cancel | 1,346,495 |
| `LifeReplicas` | do two projectors that may die still implement the store, with stale saves, suspends and gate timeouts; does what a suspend ends stay ended? | image App, 2 generations and a third of a stale save, 2 symmetric reconcilers | 328,867 |
| `LifeProgress` | does every deploy end? | gated source App and image App, 2 generations, fairness | 38,390 |
| `WebhookFeed` | is every owed event queued, and nothing else? | 2 events, 2 symmetric dispatchers, time 0–2, 3 toggles, pages of 1 | 1,951,115 |
| `WebhookOutbox` | does every notification end once, with an honest budget? | 1 notification, 2 senders, 3 resends, a budget of 3, fairness | 122,406 |
| `AgentDispatch` | what may binding, abandoning, finalizing and tearing down never do? | 2 turns, 2 symmetric Completers, steer, cancel, resume, lost sandboxes | 3,025,889 |
| `AgentProgress` | does every turn settle and every superseded sandbox go? | 2 turns, 1 Completer, steer, delete, fairness | 44,232 |
| `UsageExport` | is usage counted once and in full, and never left behind? | 2 emitters, 1 settle, 4 hours, 2 units | 508,564 |
| `GitWebhooks` | does a push act once, and what may claims, sweeps and secrets never do? | 2 symmetric processes, 2 secrets, 2 symmetric deliveries of a push over 2 scopes and a deletion, capacity 1 | 4,542,472 |

Two more runs, `FindOlderLive` and `FindReapedBound`, show where the code departs
from what its comments say; section 5.

**Properties.** Of the deploys table: `OneActiveOnePending`, `PendingIsNewest`,
`OneLive`, `ClosedRowSettled`, `TerminalIsFinal`. Of
history against what ran: `LiveWasServed`,
`StepVerdictTruthful`, `OpenRowIsRequested`. Of what the operator serves:
`ServesForward`, `FailedStaysDown`, `CanceledStaysEnded`,
`CancelEndsOneDeploy`, `SuspendedServesNothingNew`. Of the composition:
`StoreSpec` (every row is inserted and moved only as the store's transactions
allow). Of progress: `EveryDeployEnds`, `RequestsAreAdopted`.
Of the feed: `NoEventLost`, `OnlyEligibleQueued`. Of the outbox: `OnePending`,
`OpenIsScheduled`, `EndedIsQuiet`, `BudgetAccounts`, `SweepSparesPending`,
`DeliverySpec` (it implements `WebhookDelivery`) and
`OutboxDrains`. Of agent sessions: `BoundIntentIsTombstone`,
`AbandonedIsNeverBound`, `CompletedByItsReport`, `HandleKept`,
`ProvisioningEnds`, `SupersededReclaimed`. Of usage export: `HeldByItsIssue`,
`CountedOnce`, `BilledInFull`, `SettleLeavesNothing`. Of git webhooks:
`ActedOnce`, `CapKept`, `RetiredIsFinal`, `ClaimsAreWork`.

**Why the bounds are enough to be interesting.**

- *Deploys.* Two generations give an executing and a waiting row. A third gives
  the trigger that supersedes the waiting one, and the generation that moves
  without a release (scale, suspend) between two that carry one. Two
  reconcilers give the two replicas. One canceler may cancel again once its
  request is over, so several cancels in a row happen, but not two at once. One
  stale save at a time is enough for its stamp to fall behind, but not with two
  generations: it takes the write that was read, the write in between and the
  save itself. `LifeReplicas` therefore has a third generation for a stale save
  alone (`ReplicaBounds`), with one reconciler at work while such a save is
  under way and after it, and releases that come from saved settings. `LifeCore`
  splits its cases (`CoreBounds`), because all at once are too many states: three
  releases where nothing is canceled or gated, all requested in the same way
  (configuration changes take no lock, so their rows may be inserted out of
  order); cancels with two releases, of an App with a build or a step, and where
  there is a step of one of the two, whose
  deploys take their config from source, for which alone a cancel is to spare
  the release ahead of it. The theorems of section 4.2 have no such bound. `MaxGen` bounds
  `metadata.generation`: writes that would pass it are disabled, so states at
  the bound may stop, and the runs do not check deadlock.
- *Feed.* The lag and the allowance are one tick, pages hold one event and the
  backlog one notification: so a window closes between two events, a page ends
  between them, the limit refuses one of them, an event can be later than the
  allowance. Three toggles enable, disable and enable again. Two dispatchers
  are enough for one to hold an old cursor while the other moves the watermark.
- *Outbox.* Notifications share the endpoint and the keys and nothing else, so
  one is followed. Three attempts are a budget with a first, a middle and a
  last one. Two senders may hold the same attempt across a lapsed lease. Three
  resends allow one to park a retry, fail, and be followed by another twice.
- *Agents.* A turn and its successor are all that any intent or cleanup
  relates. Two Completers give two readings of different ages.
- *Usage.* `SealHours` 2 and `DedupHours` 1 keep the order of 48 h and 24 h: a
  full pass reaches a metered row in hour 3, and an attempt made in hour 2, of a
  fast row or by a settle, is forgotten, quarantined and repaired in hour 4. Two
  units make a row that grows between being read and being sent.
- *Git webhooks.* The push goes through both scopes and the deletion through
  the first, so a scope is contended by the same body and by another one, and a
  capacity of 1 makes each insert the last that fits. Two processes are enough
  for one to retire what the other registers, comes back with or still claims
  under, with equal secrets or a rotation between them.

**Exceptions the properties make.** `FailedStaysDown` excepts a release a
cancel named its survivor: `redispatchSurvivor` rolls a saved image
again under its old generation, although its row may have failed meanwhile.
`EveryDeployEnds` excepts a row named survivor after the canceled release had
served: it waits for its gate timeout (`awaitingSurvivor`). `LiveWasServed`
says nothing of a row that was closed by its gate timeout and whose release
serves afterwards; the code allows that. `CancelEndsOneDeploy` is about Apps
that run, whose deploys all take their config from source (a cancel also ends
other kinds ahead of it, by `cancelSurvivor`), and about a release whose deploy
has not ended yet: what another deploy's cancel undoes afterwards it may undo.
It excepts the stamp of a suspend, which names no survivor: section 5 says how
such a stamp can end a release in flight after a resume.
`StepVerdictTruthful` excepts a saved image that a later cancel rolls again,
step and all. `OpenRowIsRequested` is claimed only without stale settings
saves; section 5 says what such a save does. `CanceledStaysEnded` and
`CancelEndsOneDeploy` hold with such saves too, of Apps whose newest settings
carry their own stamp. `NoEventLost` is about events recorded
within `LateAllowance`, and an event the backlog limit refuses counts as
handled. `CountedOnce` excepts blind replays, `BilledInFull` rows a settle has
sent or an operator vouches for: section 5. `ActedOnce` is about pushes: a
deletion may act again after a failure in a later scope. `ClaimsAreWork` excepts the
claims a crash, a lost answer or a failed release has left behind, which
`orphaned` records.

**Fairness** (`FairSpec`, liveness only). *Deploys:* requests finish what they
began and the projector's passes go on, since the loops are periodic and
restarted with the process; the operator passes over a changed App again,
because its work queue keeps it until a pass has ended without error; a stage
that passes could end infinitely often is ended (strong fairness), because
build, step and rollout each have a deadline; a release that serves does not
lose its readiness for ever. Nobody is assumed to trigger, scale, suspend,
resume or cancel, and no help from gate timeouts is assumed. *Outbox:* the send
pass runs periodically and takes a due attempt in the end, a lease lapses by
time alone, and a process does not die in every send it begins (strong
fairness of the report). *Agents:* `Completer.Run` ticks as long as its replica
runs and does every part of its pass on each tick, so each part is tried again
and again, and a teardown tried again and again succeeds; dispatches and verbs
may die and drivers may never report. The feed, usage export and git webhooks
have no liveness property: the first two promise progress only through
operators and clocks, and a git host need not deliver again.

**Mutants.** For every property `PROJECT.json` names a variant of a mapped
definition, the way a plausible mistake would write it, under which the
property fails. The variants are the operators marked *Variant* in the modules,
each beside the definition it varies.

## 4. The proofs

### 4.1 `DeployStoreProofs`

For any sets `Deploys`, `Triggers` and `Generations`, every property
`MCDeployStore` checks (`StoreSlots`, `StorePendingIsNewest`, `StoreOneLive`,
`StoreClosedRowSettled`, `StoreTerminalIsFinal`), type correctness
(`StoreTypeCorrect`) and that an insert never moves the executing row
(`StoreActiveRowUndisturbed`).

*Assumptions.* Generations are positive naturals (`GenerationsAssumption`), and
`source` is a trigger (`TriggersAssumption`, for `NoRow`).

*Argument.* The inductive invariant `IInv` is the conjunction of the five
invariants, which hold only together. A transition may not put an older row
behind the pending one: that needs the CHECK that only queued rows wait. An
insert may take the pending slot only if it is the newest: that needs the
test for an open row of its generation or later, and `OneActiveOnePending`, so that
clearing the slot clears all of it. Settling a close needs a row whose step is
not already running in a closed row.

What a transaction does to any sound table is proved in `DeployRowsProofs`,
which `DeployLifecycleProofs` uses too. Every operation is one of two things. A *table step* moves existing rows, each
by a legal `RowStep`, and shows no second live row: `PendingCanceledStep`,
`RequestedStep`, `PreDeploySetStep` and `CanceledStepSettledStep` show that the
transactions are such steps, `TableStepInv` that a table step which leaves the
indexes satisfied preserves `IInv` and every outcome. An *insert* clears the
slot by a table step and adds one row: `InsertRowStep` and `CreateInv`. The
action properties follow from the same invariant.

### 4.2 `DeployLifecycleProofs`

For any `MaxGen`, any kinds of App, triggers, reconcilers and cancelers:
`TypeCorrect`, `LiveIsHonest` (history calls live only what has served),
`ReleasesServeForward`, `SuspendStops`, and `ImplementsStore`: every behaviour
of the protocol, with crashes, gate timeouts and stale saves, is one of
`DeployStore`, so the theorems of section 4.1 hold of its table; `CanceledStays`
and `CancelSpares`. Assuming `StaleSettings = FALSE`, also
`OpenRowsAreRequested`; assuming `Timeouts = FALSE` besides, `FailedStays` and
`StepVerdicts`. So every safety property the runs check of the protocol is
proved.

*Assumptions.* `MaxGen` is a positive natural, kinds are records of two
Booleans (`AppReleaseAssumption`), the switches are Boolean, and stale saves
need the trigger they open (`LifecycleAssumption`), `source` is a trigger
(`TriggersAssumption`).

*Argument.* `IInv` says of each actor what it may rely on although others have
gone on. `InOrder`: a pass of the operator has read no newer App than there is,
and the status names no release that the pass does not know; without it a pass that
writes could let a release serve that is older than the active one. `Filed`: a
row stands under its own generation, a release waiting for its insert has no
row yet, and a canceler's row exists. `Sound`, one per reconciler: a reading of
the App shows as active only what has served, and each row it is about to
record was there and still is, with `live` only for what has served. `Honest`
is `LiveWasServed` with the part of the status it rests on: a projector
never reads the history variable, so what it writes is true only because
what it read was. `TableSound` is the table's own part, from `DeployRowsProofs`.

The operator's pass is the hard actor. Its decision is one of four (`NowCases`):
it settles a cancel, pins the release in flight, rolls a survivor again, or
adopts what was requested. Its end is one of four (`PassOutcome`): the status
stays, the cancel is settled, the release is worked on, or it starts to serve,
and that only if the App is as the pass has read it. `OperateOutcome` goes
through the dozen branches once; all else is proved from `PassOutcome` and
`NowCases`. `ImplementsStore` reuses the
invariant: each step on `deploys` is named as a store operation (`StoreCreates`,
`StoreMoves`, `StoreRecords`, `StoreCancels`) or leaves the table alone; `Filed`
gives the store's guards (no row with that id, the row exists), which the
concrete steps do not test.

The second part strengthens `IInv` by `RInv`, with any saves
(`RequestsInvariance`). Its measure is `want`, the settings saved last, and not
the stamp: `AllRequested` and `SavedAsRequested` say that no row, release to be
inserted, stamp or cancel is ahead of it; `Adopting`, what the operator reports
before and after it has adopted those settings; `PassBehind`, that a pass which
has not read the latest settings was scheduled before they were saved. A release
starts to serve only by a write that is refused when the App has changed, so
the pass that makes it has read the cancel, and each outcome of its decision is
excluded for the canceled release; the last, that it adopts what was requested,
because the operator names no release only when the latest was canceled
(`Adopting`, `PassBehind`). The two of these that tie the stamp to the release
have `stamp = want` as a premise, and so have the properties: a stale save
repeats an older stamp, under which a canceled release may serve after all. Where no
save is stale every stamp is its own (`Stamped`, `StampsInvariance`), and
`AllRequested` becomes `OpenRowIsRequested`. That theorem keeps its assumption:
with a stale save the stamp falls behind the row, and the property is false.

The third part is about failures, which three parties know of: the App's
status, a reconciler that has read it or is about to record it, and the row.
`Known(g)` and `StepKnown(g)` are true when one of them does, so they are
stable while a verdict travels from the operator to the table. `FInv` says what a
known failure does to the operator (`FailedIsStuck`): while the release is the
one to roll out, something that failed it still holds it back (a failed
rollout, a failed step, or a failed build without an artifact), and a newer
request leaves it behind for good. `Ranked` keeps the operator from going back:
nothing it reports is ahead of the settings it adopted, and a release behind
them that does not serve is a saved image which a cancel had rolled again.
`Selected` is needed because a selected release is rolled out without
its build; `Tells`, because a reconciler takes a failure from the phase, and
the phase outlives the stage that set it; `StepsServe`, because a step's
verdict may reach its row long after it was read. The proof has the two sides
that the code has. `OperateRecords` goes through the operator's branches once
more, for what a pass may note, show and serve; the three ways in which a pass
goes on (`NowReleases`) then keep each part of `FInv`. For requests and
reconcilers it is enough that they write the App as `Rewrites` says and bring
nothing to light that was not known (`NothingNew`): `JudgedFails` shows that no
judgement invents a failure, `TransitionFails`, `InsertFails` and
`StepColumnFails` that no transaction does. `Timeouts = FALSE` is needed:
`timedOutDeployStatus` closes a row as failed after its gate timeout whatever the
operator is doing, and a build or rollout that ends later serves. So is
`StaleSettings = FALSE`: a stamp that falls back may name the failed release again.

The last part is about cancels, and relates three readings of different ages:
the rows as the canceler read them, the App its stamp is written to, and the
App a pass of the operator has read. `CInv` says of the App, and of what the
pass has read of it, that a user's cancel of the latest request names as
survivor every deploy which is still open ahead of it (`Spares`; at most one
is, for `OneActiveOnePending`), that what it cancels has a row and was recorded
as ended (`CancelFiled`), and that a recorded release is selected only by a row
of its own (`SelectFiled`). `SparesRead` says it of a canceler that has not
stamped yet. That holds although rows are opened, settled and closed meanwhile:
no step on the table opens a closed row again or changes how it was requested
(`RowStep`), and a trigger that opens a newer row raises the latest request
too, after which the cancel no longer names it. `OneTriggered` is the trigger
lock as the table sees it: no row is inserted behind one that a later trigger
opened, so none appears ahead of a cancel after it was read. When the operator
then leaves the release in flight, it has settled the cancel or rolled a
survivor again (`DecidedRedispatches`); in either case the release it left is
the survivor, which `survivorInFlight` spares, or has been ended itself.

### 4.3 `WebhookFeedProofs`

For any events and dispatchers, any lag, allowance, page size and
backlog limit: `TypeCorrect`, `NoEventSkipped`, `QueuedWasEligible`.

*Assumption.* `TimesAssumption`, the ranges of the constants. That a transaction
commits within the feed's lag is a guard of the model (section 2.4), not an
assumption of the proof.

*Argument.* `FactsTimely` and `TogglesTimely` turn that guard into what a pass
can use: whatever is still invisible is younger than the lag, so a window that
ends behind the lag never changes again. `Safe(p)` says that nothing owed up to
position *p* is missing; it holds of the durable watermark and of the cursor
each pass has loaded, also an old one. A pass carries `Judges` (the intervals it
has read decide eligibility as the present ones do, throughout its window),
`Paged` (its page has every eligible event from the cursor to its last) and
`Quiet` (a window with no row holds none that is eligible). Committing a page
moves the watermark to its last event, which is safe by `Paged`, or to the
window's end, which is safe by `Quiet`. That a finite page has a first and a last event in the order of
positions follows from `MinimalElement`.

### 4.4 `WebhookOutboxProofs`

For any notifications, senders and keys, and any budget: `TypeCorrect`,
`OneSendSlot`, `NeverStranded`, `EndStaysQuiet`, `BudgetIsAttempts`,
`SweepIsSafe`, and `Refinement`: the outbox implements `WebhookDelivery`.

*Assumptions.* The budget is a positive natural; `NoKey` is no key.

*Argument.* No one of the invariants is inductive alone. `Consistent` relates a
parent to its attempts: they are numbered upwards, only the last may be
pending (`Lined`), a superseded reservation is followed by the resend that
superseded it (`Gaps`, `Ends`), an open parent has a pending attempt which is
automatic or remembers to restore the automatic schedule (`Scheduled`), an
ended one has only resends (`Quiet`), and the count is the number of automatic
attempts made. `Current` says of a sender that what it read when it claimed
still holds if its attempt is still pending: so a completion after a lapsed
lease either finds the attempt settled or spends the budget it was claimed
with. Each action changes one notification (`OneMoves`), and the lemmas on rows
say what it does to that one's attempts. The refinement forgets the attempts: `BooksFollow` shows that a
report ends an open notification or delivers a failed one, whichever of several
senders of an attempt comes last, and leaves any other outcome as it was.

### 4.5 `AgentDispatchProofs`

For any number of turns, any set of Completers, any verbs, and with
`LateReports`, `LateClears` and `PodLoss` either way: the row names a sandbox
of its newest turn only (`RowNamesItsTurn`), `BoundTurnsAreSettled`,
`AbandonedTurnsStayUnbound`, `HandlesAreKept`, and type correctness
(`TypeCorrect`). Assuming `LateReports = FALSE`, also `CompletionsAreReported`.

*Assumption.* `MaxTurns` is a positive natural.

*Argument.* `IInv` adds seven parts to `BoundIntentIsTombstone`. The one that
carries `AbandonedIsNeverBound` is `CleanInv`: a Completer that cleans up after
a turn holds a turn that was superseded, or whose session has no sandbox and is
past provisioning. That is what `AbandonAgentDispatch` establishes when it
leaves the tombstone and fails the turn in one transaction, and no later step
undoes it, because `RecordAgentSessionDispatch` asks for a provisioning phase.
Its second half needs `RowInv` and `IntentInv`: an intent names an older turn
than its own. `HandleKept` needs `HandleInv`: a sandbox which an intent names
was bound once, so its dispatch is over and no create call that lands late can
bring it back after `Forgets` has seen it gone; and `ReapInv`, that a reap which
is about to forget has seen that.

`CompletionsAreReported` rests on `ReportInv`: a report a Completer holds is the
newest turn's, and a success it is about to file is what that turn's driver
wrote. The first half needs `LateReports = FALSE`, and is false without it
(section 5).

The actions fall into groups. Twenty-one are *quiet*: they touch no intent
and no dispatch, bind nothing and enter no provisioning phase; one lemma shows
each of them quiet, and `QuietStep` that a quiet step preserves `IInv`. Five
move one dispatch on and leave both tables alone (`DispatchingStep`). The other
ten each have a lemma of their own, one step per conjunct.

### 4.6 `UsageExportProofs`

For any disjoint sets of emitters and settles, any horizons and any amount of
usage, every property `UsageExport` checks: `RowsAreHeldByTheirIssue`,
`RowsAreCountedOnce`, `RowsAreBilledInFull`, `SettlesLeaveNothing`; and
`TypeCorrect`.

*Assumption.* `UsageAssumption`: horizons and bounds are positive naturals, and
no emitter is a settle. It is not assumed that the provider remembers for less
time than the seal.

*Argument.* `Once` says that a counted row was counted no earlier than its
first attempt, which is why the attempt must never be stamped anew. `Fresh`
says that a full pass holds a row only while the provider still remembers its
first attempt: it has quarantined older ones, and no hour passes before it
ends. Together a second count is a blind replay by a pass of another kind.
`Whole` says that an emitter's pass holds a row that can no longer grow, with
the quantity it has; that needs `Observed`, how usage still arrives. `Owes`
follows a settle: a row that was due when it began stays due, so it is done
only when the row has left *pending*, or an operator has put it back. What a
pass action does to its own pass is stated once (`PassOver`, `SelectsPass`,
`AcceptsPass` and the rest); each conjunct then has a lemma with one step per
action that disturbs it.

### 4.7 `GitWebhooksProofs`

For any processes, secrets, deliveries in progress, bodies and fan-outs, and
any capacity: `LedgerInvariant` (the inductive invariant), `LedgerTypeCorrect`,
`LedgerActsOnce`, `LedgerKeepsCap`, `LedgerRetiresForGood`,
`LedgerClaimsAreWork`, every property `GitWebhooks` checks.

*Assumption.* `GitWebhooksAssumption`: secrets are numbered, for a sweep takes
them in order; every body fans out to at least one scope; the capacity is a
positive natural.

*Argument.* The locks come first. `EpochLocks`, `LeaseLocks` and `ScopeLocks`
say of the locks, as they follow from program counters, that each excludes the
others of its kind; without them no later part is inductive. `DoomInv` is what
a sweep has established about an epoch it deletes claims of: it holds the
epoch's lock, and every lease under it is one the sweep itself is deleting. So
nobody can claim under the epoch (`LeaseLocks`: a claim holds its lease's row)
or register it (`EpochLocks`) before the sweep commits, and afterwards the
tombstone refuses both: `RetireInv`. `TakenInv` says of the claims a request
holds that they belong to it alone, exist or were retired, are not orphaned,
and, for a push, have not been acted on; with `ActedInv`, that what a push did
is remembered while its epoch is accepted, `FreshClaim` gives `ActedOnce`: a
claim just inserted was absent and its epoch is not retired, so it was not
acted on. `RoomInv` keeps what a request has counted true until it inserts,
under the lock of the scope.

Requests that only advance are one lemma (`AdvanceStep`), as are the locks of
those that settle a claim (`SettlesLocks`), of passes that keep requests as
they are (`KeepsRequests`), and of passes that end (`EndsLocks`); every action
then has a lemma of its own, and `NextInv` puts them together.

### 4.8 Only model-checked

Every safety property a passing run checks is stated by a theorem. What remains
is every liveness property (`EveryDeployEnds`,
`RequestsAreAdopted`, `OutboxDrains`, `ProvisioningEnds`,
`SupersededReclaimed`): the prover reasons about neither fairness with `ENABLED`
nor induction over data.

## 5. Where code and documents disagree

| run | what it shows |
|---|---|
| `FindOlderLive` | `TransitionDeploy` records a row live and deactivates every other live row, newer ones included. A row whose insert is delayed past the end of the next release is born open, for `insertDeploy` compares it with open rows only; a replica that listed the App while the older release served then records it live, over the newer one that serves. `deploy_lifecycle.go` (lines 123–124) and ADR006 (line 265) say that a *newer* live deploy makes the prior one historical. The counterexample has 17 states. |
| `FindReapedBound` | `reapPreviousSandboxes` retries the teardown of a predecessor through `CleanupAgentDispatches`, which also terminates every sandbox that wears the intent's own turn. The intent of a steer is filed under the new turn and stays, as a tombstone, when that turn is bound: the retry terminates the sandbox just bound. Its comment says it deletes only the abandoned generation, never a newer sandbox. The counterexample has 13 steps. |

More was met while modelling. The models contain it; where a property would
fail for it, the property says what it excepts, and no run is kept for it.

*Deploys.* A trigger closes the waiting row (`cancelPendingDeploys`) although
the operator has adopted and served its release since the projector last
looked: history says canceled, where ADR060 says that the intermediate
generation that actually serves traffic reaches `live`. One
annotation holds the newest cancel only: a release in flight is
canceled, a newer one is canceled before the operator's next pass, and the
first finishes and serves, although `CancelRelease` says that once the stamp
lands the release is ended (`CanceledStaysEnded` is about the newest cancel).
`rollout.Patch` stamps read + 1 without an optimistic lock: a write in between
leaves an open row whose generation was never stamped (`OpenRowIsRequested`
is checked without such saves). The stamp may then name again a release that
has failed, and a cancel of the newest row, which the stamp does not name, ends
the release in flight but not its own: the operator falls back to the
App's generation, which is the canceled one. A release that serves and is suspended before
the projector records it has no verdict while suspended, until its gate timeout
closes it as failed. The stamp of a suspend (`suspendEndsRollout`) may end a
release other than the one whose row it closes: while the first pass over a new
App has not reported a release yet, a row that a trigger opened next to the
suspend is taken for the current one (`appReleaseGeneration` falls back to
`metadata.generation`) and stamped without a survivor; after a resume the first
release begins to build, and the next pass settles the stamp and gives it up
while its row is open. `CancelEndsOneDeploy` excepts that stamp; it takes a
fourth generation, one more than `LifeCore` has. `sourceOnlyTriggers` leaves out Manual Deploy, so
canceling a pending one gives up the release executing ahead of it, although
ADR060 counts it as source-only.

*Agents.* `FinalizeAgentSession` compares the phase and not the sandbox: a
Completer that read a report before a steer files it against the next turn
(`CompletedByItsReport` fails with `LateReports` and two Completers).
`ClearAgentSessionSandbox` blanks whatever sandbox the row names, also that of
a turn bound since the teardown (`LateClears`). `Resume` checks the phase,
spends its quota checks and marks the row unconditionally: a session canceled
in between is resuming again.

*Git webhooks.* A crash after a claim, a lost answer of the insert, or a
failed release (`deliveryClaims.release` ignores errors and gives up after two
seconds) leaves a claim without work: the host's retry is answered as a replay,
which is what the comment of `deliveryClaims` says a retry must not meet. The
same happens for a moment to a redelivery that arrives while the first delivery
is still at work and then fails. The deletion paths never set `claims.taken`
to nil, so a scope that fails also releases the claims of the scopes completed
before it, although the push path says that they must be retained. The fact of
a deletion is recorded once nevertheless (its key is the delivery and the
App); `disableAutoDeploy` runs again, and undoes a change of mind made in
between. A registration and a sweep may wait for each other's lease row and epoch lock:
Postgres ends one (`PassFails`). A process whose secret was retired while its
lease had lapsed stays up, but its claims and its passes fail from then on; a
rollback to a retired secret does not start.

*Usage.* Only the full pass quarantines attempts older than the provider
remembers; a fast pass or a settle sends them again, although
`billing/emitter.go` and ADR040 say that they are quarantined instead of being
replayed blindly (`provider.blind`). A settle reads a fast row of the open hour
and marks it in two statements: a report recorded in between is in the row and
not in the event, although `settleSeal` says that exporting it early loses
nothing (`provider.settled`).

## 6. Not modelled

*Deploys:* the projection of desired specs onto Apps, availability
facts and notifications, pending-source holds and batches, auto-hibernation,
early verdicts on image pulls, static sites and cron jobs, registry gates,
informer-cache lag, lost status writes of a pass that goes on. The operator's
effects on Deployments, routes and Jobs appear only as the outcomes a pass may
observe.

*Webhooks:* payloads and signatures, failure notifications, several endpoints
with their own subscriptions. *Agents:* quotas, transcripts, results, pull
requests, tickets, archives, egress. *Git webhooks:* `check_suite` deliveries, pull
requests, the resolver that finds candidates, the legacy partition's import.
*Usage:* activation floors, excluded
workspaces, held kinds, prices, the charge at the end of a settle, the rollup
of App usage. The rollup is where two more questions lie: `catchUpDisksThrough`
keeps one cursor for all disks of a kind, and the rollup's floor may pass the
seal horizon when two replicas race.

The other components of section 1.1 are not modelled yet, or not at
all where they are one transaction or a translation into resources of other
operators; `PROJECT.json` gives each its reason. `src/` is far larger than the
protocols in it: most of its lines are request handling, rendering of
Kubernetes resources and the dashboard's API, which keep no state of their own
between two calls.

## 7. Plan

Done, in this order: `DeployRows`, `DeployStore` and its proofs, `AppRelease`,
`DeployProjection`, `DeployLifecycle`; `WebhookDelivery`, `WebhookOutbox`,
`WebhookFeed`; `AgentDispatch` and its proofs; `UsageExport` and its proofs;
`GitWebhooks` and its proofs; the proofs of `WebhookOutbox`, `WebhookFeed` and
`DeployLifecycle`, with both refinements.
What would come next:

1. **`DrainGuard`, `Activator`** with auto-hibernation in `AppRelease`.
2. **`DeployTxn`**: transitions statement by statement under READ COMMITTED,
   shown to implement `DeployStore` or not.
3. **`AppProjection`**: desired rows written over a suspend; availability
   debounce; `ReleasePlan` with pending-source holds; build admission.
4. The push and mail outboxes as instances of the webhook ones.
