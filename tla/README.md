# adept-engine: TLA+ specifications and proofs

adept-engine is the background worker of Adept. It takes rows of one PostgreSQL
table, `processing_jobs`, written by adept-api and by the engine itself, runs a
handler for each, and records the outcome in the row. Several worker processes
share the table, each runs several consumer threads, and the schema belongs to
adept-api. This directory specifies the engine's control, model-checks it on
small instances with TLC and proves its central promises with TLAPS.

| file | what it is |
|---|---|
| `JobQueue.tla` | what the queue promises about each row (abstract) |
| `WorkerPool.tla` | worker processes, claims, leases, outcomes, crashes, time |
| `MCWorkerPool.tla`, `WorkerPoolFaults.cfg`, `WorkerPoolScopes.cfg`, `WorkerPoolLostSession.cfg` | its instances |
| `RecalcQueue.tla` | the merged `RECALCULATE_METRICS` rows of one repository |
| `MCRecalcQueue.tla`, `RecalcQueue.cfg`, `RecalcCollision.cfg` | its instances |
| `DoraMetrics.tla` | links, incidents, calendar buckets and observations as pure operators |
| `MetricFreshness.tla` | deliveries, settings, backfill and recalculations over them |
| `MCMetricFreshness.tla`, `MetricFreshness.cfg`, `MetricMoved.cfg` | its instances |
| `Alerts.tla`, `MCAlerts.tla`, `Alerts.cfg` | alert rules, evaluations, cooldowns |
| `GithubEvents.tla` | the deliveries about one pull request |
| `MCGithubEvents.tla`, `GithubEvents.cfg`, `ImportRetried.cfg` | its instances |
| `RepositoryBackfill.tla`, `MCRepositoryBackfill.tla`, `RepositoryBackfill.cfg` | one backfill job, page by page |
| `JiraIntegration.tla`, `MCJiraIntegration.tla`, `JiraIntegration.cfg` | credentials, webhook renewal and project catalogue |
| `WorkerPoolProofs.tla` | proofs: types, attempts, dead letters, one executor, kept claims, exclusive scopes, a graceful stop leaves no claim |
| `WorkerPoolRefinement.tla` | proof: the pool implements `JobQueue` |
| `RecalcCoverage.tla` | proofs: no recalculation is lost |
| `MetricFreshnessProofs.tla` | proofs: what handlers ask for suffices, alert windows are exact |
| `AlertsProofs.tla` | proofs: cooldowns hold, silence is explained, no evaluation is lost |
| `GithubConvergence.tla` | proofs: row and lists follow GitHub, merges are measured |
| `BackfillProofs.tla` | proofs: windows leave no gap and fit, the import is whole, issues are reconciled |
| `JiraIntegrationProofs.tla` | proofs: tokens, the kept renewal, the catalogue |

## 1. The system

| component | state | operations | hard behaviour | what makes it correct |
|---|---|---|---|---|
| Worker process, consumer loop (`worker.py`) | stop event, threads, boot id | poll, lease, dispatch, defer, stop, `os._exit` | crash at any point, stop between claim and start, several processes | every row finishes; a graceful stop leaves nothing claimed |
| Claiming (`jobs/claimer.py`) | `status`, `attempts`, `locked_by`, `locked_at`, `available_at` | recover stale rows and claim, one transaction | recovery racing a slow but living owner | a row of a running handler is never recovered; attempts are exact |
| Lease (`jobs/lease.py`) | a session, its advisory locks, its guard thread | take locks, check row, heartbeat, close | session dies, heartbeat skips a locked row, lock modes | one handler per job; conflicting scopes exclude each other |
| Outcomes (`jobs/retry.py`, `jobs/dispatcher.py`) | the row | succeed, fail, requeue | outcome of a lost claim, off-by-one in the budget | only the owner writes; dead only when the budget is spent |
| Workspace deletion (`handlers/delete_workspace.py`) | the workspace and all that references it | delete with cascade | cascades over rows of other consumers | never under a running handler |
| Recalculation requests (`metrics/service.py`) | one waiting row per repository with a range | merge a request, read, upsert snapshots | commit and enqueue are two transactions, unique index | no committed change is forgotten |
| Metric calculation (`metrics/`) | links, incidents, snapshots | relink, reconcile, bucket, calculate | moved deployments, timezone boundaries | the buckets of every changed instant are rebuilt |
| Alert evaluation (`handlers/evaluate_alerts.py`) | rules' `last_triggered_at`, deliveries | evaluate, cooldown, queue a delivery | two jobs for one rule, retries, edited rules | at most one delivery per cooldown and per job; every publication evaluated |
| Jira credentials (`handlers/provider_support.py`, `renew_jira_webhook.py`) | encrypted tokens, status, webhook expiry | refresh, renew, mark error | one-time refresh token lost between provider and commit | a token is submitted once; renewal continues after a crash |
| Catalogue sync (`handlers/sync_*.py`) | catalogue rows, cursor in the payload | page, mark, sweep | page retried, webhook between page and sweep | what exists is not swept |
| Backfill (`handlers/backfill_repository.py`) | cursor, windows in the payload | page, split a capped window | splitting, 64-window cap | no gap between windows |
| Webhook processing (`handlers/github_event.py`, `jira_event.py`) | raw event's status, normalized rows | process one delivery | duplicated, reordered and retried deliveries | the newest delivery wins |
| Normalization (`normalization/`) | deployments, pull requests, issues | guarded upserts | guard passed by one table, not by its children | rows and children agree |
| Monitoring, health, configuration, clients, risk, training | none that decides anything | | | out of scope |

How they interact: adept-api inserts rows and raw events; consumers claim rows,
and the lease (a separate session) protects the claim; webhook and backfill
handlers write normalized data and enqueue recalculations; a recalculation
writes snapshots and enqueues an alert evaluation; an evaluation writes a
delivery that adept-api sends. All communication is through PostgreSQL rows and
advisory locks, no messages are passed between processes. The complete list of
hazards, each at its line, is in `PROJECT.json`.

## 2. WorkerPool

State and code:

| variable | code |
|---|---|
| `status`, `attempts`, `lockedBy` | columns of `processing_jobs`; `ABSENT` before the insert, `GONE` after a workspace deletion |
| `lockedAge` | `now() - locked_at` in ticks, capped at `StaleAfter` |
| `available` | `available_at <= now()` |
| `boot` | a process incarnation: `uuid4().hex` of `worker.run`; `stopping` is the stop event |
| `phase`, `task`, `claimed` | where the thread is in `consume_jobs`, its `ClaimedJob` and the attempts it was claimed with |
| `held`, `beat`, `missed`, `lost` | the lease session: advisory locks, time since the last heartbeat, heartbeats that found the row locked, a dead session nobody has noticed |
| `spent` (history) | claims that failed or were abandoned since the last reset; read by properties only |
| `faults`, `losses`, `continuations` | counters for the bounds |

Actions and code: `Claim` is the transaction of `claim_jobs` (both recovery
statements and the claim, with `limit = 1` as `worker.py:159` calls it);
`DeferShutdown`, `OpenLease`, `ScopeBusy`, `DeferBusy`, `ClaimLost`, `LeaseFault`
are the ways on from a claim in `consume_jobs`; `TakeLock` takes one advisory
lock of `_acquire` at a time (job and row check, workspace, repository), so
several consumers interleave between locks; `StartHandler` is the first
heartbeat; `Heartbeat`, `LoseSession` and `FailClosed` are the guard thread;
`Succeed`, `Fail`, `Continue`, `OutcomeFault` are what `dispatch_job` does with
the handler's result; `DeleteWorkspace` is the deletion's transaction;
`CloseLease` is `JobLease.__exit__`; `StartBoot`, `RequestStop`, `LeaveLoop`,
`Crash`, `Insert`, `BackoffElapses` and `Tick` are processes, producers and
time. `Insert` stands for every producer: the engine's own, such as
`enqueue_recalculate_metrics_job`, and adept-api.

`JobQueue` says what all of this amounts to for one row: it is submitted, taken,
run by one worker at a time, and completed, failed, handed back, continued or
abandoned, within a budget of attempts that only failures and abandonments
spend. `ImplementsQueue` maps the detailed state to it: `used` is read off the
`attempts` column, less one while a claim is open.

Modelling decisions:

- A handler's business work is one step that ends in an outcome. The scope of a
  job (workspace, repository) is fixed; `_acquire` resolves it from the row, the
  raw event and the payload.
- A deletion's own row references no workspace: `delete_workspace.py:58-62`
  refuses any other. What else goes with a workspace is decided by adept-api's
  foreign keys; that job rows go with it is what
  `tests/test_delete_workspace.py:376` relies on.
- A heartbeat skips its row only while someone else has it locked. Only the
  deletion holds such a lock for long; at most `MaxMissedBeats` beats in a row
  fail on it.
- The guard thread is timely (`Tick` waits for a due heartbeat). A guard delayed
  by more than `StaleAfter - HeartbeatEvery` is outside the model; with the
  defaults that is 870 of 900 seconds.
- A lost session releases its locks at once (PostgreSQL ends the backend); a
  crashed process has lost its sessions too.
- All rows share one `max_attempts`.

## 3. RecalcQueue

One repository, its `RECALCULATE_METRICS` rows, one webhook handler that changes
normalized data, and the consumers of those rows. `WriterCommit` is the commit
of the change (`_run_upsert` of a deployment), `WriterEnqueue` the later
transaction of `enqueue_recalculate_metrics_job`: the waiting row, if there is
one, takes the hull of both ranges and starts over. `holder` is the repository's
lease: webhook handler and recalculation exclude each other, but neither
excludes the claim of a second recalculation row. `RunReads` and `RunSucceeds`
separate what a recalculation reads from when it writes. A row that goes back to
waiting beside another waiting row violates the partial unique index the enqueue
names in `ON CONFLICT (repository_id, job_type) WHERE ... status IN ('PENDING',
'FAILED')` (`metrics/service.py:687-690`); the whole transaction aborts. The index
itself is created by adept-api and is inferred from that clause.

`dirty` (the instants whose snapshots lag behind the data) and `seen` (what a run
has read) are history; the properties speak about them.

`affected = 0` is a request without a range (a deployment without `finished_at`);
such a deployment enters no metric, so it makes no instant dirty.

## 4. DoraMetrics and MetricFreshness

`DoraMetrics` holds what the engine derives from a repository's rows, as
functions of those rows: links by commit and by merge window, incidents with
their recoveries, the buckets that a range of instants asks for
(`get_recalculation_buckets`), the observations of each of the four metrics and of
the cycle stages in a bucket, and the observations an alert's rolling window
takes. A calendar is a set of boundaries per granularity, of unequal length, as
months and daylight-saving days are. A snapshot is the set of observations it is
computed from; its average or percentile is a function of that set and is not
taken.

`MetricFreshness` runs deliveries of deployments and pull requests, changes of
the environment patterns, backfills and recalculations over those rows, one
handler at a time under the repository's lease, phase by phase: upsert, links,
incidents, enqueue are transactions of their own, and a handler that dies between
two of them is retried after whatever came in between. `request` is the waiting
row's range; that its merging is sound is `RecalcQueue`'s subject. Every delivery
replaces the commits and dates of a pull request (`pull_requests.py:201-251`), so
those of an open one may become anything from one delivery to the next; a merge
and what was merged stay. A full backfill imports pull requests without asking for
a recalculation, classifies every deployment of the repository again
(`deployments.py:96-174`), and recalculates the periods from its cutoff to the day
after its start itself (`backfill_repository.py:127-135`): `BackfillRanges`.

Some changes reach buckets that no handler asks for. A history variable,
`outdated`, collects these buckets until a recalculation has rebuilt them; no
action reads it. A bucket enters it for one of these reasons, each of them the
code's:

- a deployment is not newer than all others: it was late, as the older ones of a
  backfill are, or finished again. Its new instant is enqueued
  (`deployments.py:233-239`), but it may also leave an old bucket, end another
  failure or ship another pull request, so every bucket is taken as outdated;
- a reclassification changed some row, perhaps one before the cutoff of the
  recalculation that follows: again every bucket. After a change of the patterns
  day snapshots older than the cutoff stay as they were classified before;
- a backfill imports a pull request: the buckets of its merge and of its first
  shipment before and after;
- links are rebuilt and the first shipment of a pull request changes that is not
  the one being handled: the bucket of its former shipment. This happens to an
  open pull request that was pushed over after it had been shipped, and to a merged
  one whose handler died before it had rebuilt the links;
- the handler of a merged pull request dies between its links and its enqueue: the
  retry reads `previous_affected_at` (`github_event.py:306`) from the links the
  dead attempt has rebuilt, so the bucket that the pull request left is asked for
  by nobody.

`SnapshotsCorrect` says that every other bucket is right whenever no request, no
handler and no retry is left, so handlers ask for enough in all other cases, and
that a recalculation repairs whatever it rebuilds: a bucket leaves `outdated` only
when it was rebuilt. `BurstsRecalculated` is the same without the exception, which
`MetricMoved.cfg` refutes. Unmerged pull requests are left out of the comparison of
lead times: they enter the metrics when they are merged.

Simplifications. The three transactions of a pull request's upsert (row, commits,
reviews) are one step here; `GithubEvents` has them apart. A dead handler's delivery is
retried in the end; one whose attempts run out leaves the rows as they are, and the
queue says so by a dead row. Deployments of source MANUAL keep their classification
through a reclassification; the model has those of one automatic source. The
recalculation of a reviews-only backfill classifies and imports nothing and is left
out.

## 5. Alerts

One repository's rules, two kinds of publishers and the `EVALUATE_ALERTS` rows.
The snapshot publisher commits before it enqueues; the risk publisher enqueues
in the transaction of its prediction (`risk/service.py:128`), which is why its
data are not visible to an evaluation that is claimed meanwhile. The PENDING
check and the insert are two steps (`evaluate_alerts.py:158`). An evaluation
loads the enabled rules once, compares them one by one, opens a transaction
(whose start is PostgreSQL's `now()`, `task.start`), waits for the rule's row
lock, and decides with the `last_triggered_at` it then reads and the cooldown it
had read before. A delivery's key holds the job's id, so a retried job meets its
own delivery. Users edit and disable rules between any two steps; one lease
session may die, which lets two handlers run at once.

A rule's metric is one level per publisher; comparators are those of the code,
thresholds and cooldowns small sets.

## 6. GithubEvents

One pull request of a tracked repository. GitHub changes it and sends one
delivery per change, possibly twice; jobs run in any order. The handler's calls
are steps of their own: it marks the raw event PROCESSING, reads the pull request
as it is now, upserts the row under its date guard, replaces commits and reviews
(without a guard, `pull_requests.py:217`), links, scores an open pull request,
enqueues the recalculation of a merged one, and marks the raw event. A list of
commits or reviews is known by its version. Claim and lease are one step here;
`WorkerPool` has them apart. Retries are unbounded: the budget is `WorkerPool`'s
subject, and `MaxFaults` bounds what makes them necessary. Every change of the pull
request has a date of its own in the model. GitHub's dates count seconds, so two
changes of one second pass the row's guard (`>=`) in either order; what the row
then holds is the later handled reading of the two.

`ListsConverge` assumes that no session is lost under a handler, because nothing
else orders two replacements. With two faults (5.5 million states) the four
properties hold too. Not claimed: that `ready_for_review_at` is the newest of
several (`pull_requests.py:159` keeps the last one handled).

## 7. RepositoryBackfill

One `BACKFILL_REPOSITORY` job in any of its modes: the whole import (open pull
requests, closed ones, workflow runs or deployments), risk only, issues only, or
reviews only. `Process` is one page: it reads one listing of GitHub as it is
then, stores its items, moves the cursor and requeues. A page is atomic, since the
repository's lease keeps webhook handlers out for its whole length, but a page
that fails may have stored any part of its items. Between pages GitHub changes
and deliveries are handled. The listings' order, filters and paging by offset
come from the queries in `providers/github.py`, which the handler calls.

A window of workflow runs with `Cap` results or more is halved at once, the
older half waiting (`Split`); halving ends at one second (`TooDense`), and a cursor
with more than `MaxWindows` windows would be refused (`Refused`,
`backfill_repository.py:548-550`).

A job ends DEAD for what the code raises as permanent or can no longer retry: the
integration is not ACTIVE (`active`, lines 58-59), GitHub or a payload is wrong for
good (`denied`), the attempts are spent (`failures`), the repository's
`deploymentSignal` is no known one (`InvalidSignal`, line 351), or one second holds
too many runs. A job whose repository is archived or no longer tracked ends without work and
succeeds (lines 60-67). `Withdraw` takes the integration or the tracking
away while the job waits for a page. `CursorAccepted` says that the list is
complete: no job ever dies of its own cursor. The requeue after a page gives back
the attempt of its own claim, not those of failures (`retry.py:134-181`), so
`failures` only grows; its initial value is any number below the budget.

The recalculation at the end of a full or reviews-only job is made by the handler
itself, for the whole interval (lines 117-135, `recalculated`); none is queued.

`owed` is what there was to import when the job was
queued and has not changed since; `drifted` says that an item changed pages
under the job, which no offset paging survives. It is a real limit of the sweep
over issues: a comment on an open issue of a page to come moves it to the first
page, which has been read, so no page lists it and the sweep closes it, though it
is open. The comment at `backfill_repository.py:485-486` takes such an issue for
"absent from GitHub's complete open result". `IssuesReconciled` excludes the
case through `drifted`; the next delivery or backfill repairs it.

The cutoff is fixed when the job starts. The 3,000-file cap of the risk features
is abstracted. Environment changes are limited to the stage that reads what they
change: for the others they would be deliveries between pages, which
`GithubEvents` and `MetricFreshness` have.

## 8. JiraIntegration

One integration, its renewal job and its catalogue job. `theirs` is the refresh
token Atlassian will take and `live` the webhook registered there. The refresh
follows `get_valid_jira_access_token`: row lock, re-read, the provider's rotation,
the commit; the answer may be lost on its way (`lostAnswer`), the commit may fail.
The jobs share the workspace's lease exclusively, so two of them meet only when a
session has been lost; adept-api's reconnect and Atlassian's revocation come at
any time outside the row lock. The renewal's single row starts over for the next
round with its attempts reset (`renew_jira_webhook.py:86-89`); the delay of that
round is not modelled, it is claimable at once. The catalogue is a paged mark and
sweep: every page dates its projects with the start of the synchronisation, the
last one untracks what is older.

A handler that fails for good ends in two transactions: it marks the integration
ERROR (`mark_jira_integration_error`, `provider_support.py:315-326`) or has found it
not ACTIVE (lines 166-167), and raises (stage `failed`); the dispatcher then records
DEAD (`GiveUp`, `dispatcher.py:76-85`). Anything may happen between the two. If the
user reconnects there, adept-api finds a RUNNING renewal and queues none; the
integration is ACTIVE, the renewal then ends DEAD, and nobody is told that the
webhook will run out. `RenewalKept` does not hold of this trace.

`orphaned` names the cases it excepts, all of them the code's: that reconnection; a
crash that took the renewal's last attempt; and a webhook that was replaced by a
reconnection while the call renewed it, which `handle_renew_jira_webhook` (lines 64-84)
raises as a permanent error without a mark. A reconnection after the end queues a
new renewal and clears it. A handler that fails with the old credentials may also
mark an integration ERROR that was reconnected meanwhile (`provider_support.py:315`);
the model takes this step, and no documentation says what should happen.

## 9. Runs

| run | instance | what it shows |
|---|---|---|
| `pool_faults` | 1 job, 3 consumers of 2 processes, 2 attempts, 1 fault, 1 lost session, 1 continuation | types, one executor, kept claims, no stranded job, exact attempts, dead letters, `JobQueue` implemented, every job finishes |
| `pool_scopes` | 2 repository jobs and the deletion of their workspace, 2 processes of 1 consumer, 1 attempt | exclusive scopes, deletion spares running handlers, graceful stop hands back and drains, every job finishes |
| `pool_lost_session` | as `pool_scopes`, 1 lost session | violation of `ScopeExclusion`, see below |
| `recalc` | 3 rows, 2 instants, 3 changes, 2 attempts, 1 crash | no lost recalculation; snapshots catch up unless recovery collides |
| `recalc_collision` | 2 rows, 1 instant, 2 changes, no crash | violation of `StaleClaimsRecovered`, see below |
| `metric_freshness` | 3 deployments, 1 pull request, 4 instants, 4 days in 2 weeks, 3 deliveries in any order, 1 crash or change of settings, 2 backfill ranges | buckets not outdated are right once no request is left; alert windows over them are exact |
| `metric_moved` | 1 deployment delivered twice | violation of `BurstsRecalculated`, see below |
| `alerts` | 2 rules of 2 publishers, 2 evaluations, 2 attempts, 2 instants, 1 edit, 2 faults | cooldowns, explained silence, no lost evaluation, evaluations catch up |
| `github_events` | 3 deliveries, 1 fault | row and lists converge, merged is measured, PROCESSED means mirrored |
| `import_retried` | 1 review delivery, 1 fault | violation of `ImportIsWhole`, see below |
| `repository_backfill` | 3 issues, 3 pull requests, 5 runs, pages of 1, cap 3, 3 windows, 2 attempts, 2 changes, 1 failed page or withdrawal | nothing omitted, windows cover, cursors accepted, pull requests, reviews and issues complete, the job ends |
| `jira_integration` | 2 projects on 2 pages, 2 attempts, 2 events, 1 fault | tokens once, stored token good, renewal kept and done, catalogue matches |

Why these bounds.

- Pool: the promises of `pool_faults` are about one row and the consumers that
  compete for it; three consumers in two processes give a stale owner, its
  successor and a bystander in the same or another process. Those of
  `pool_scopes` are about pairs of jobs: two of one repository and one
  workspace-wide cover both lock modes. `StaleAfter = 3` and `HeartbeatEvery = 1`
  with one missed beat is the tightest ratio the configuration allows
  (`interval = min(30, timeout / 3)`). Two attempts separate a retry from a dead
  letter; one is enough for scopes.
- `recalc`: three changes let one request wait while another runs and a third
  merges.
- Metrics: a window link needs a previous deployment, a recovery a failure before
  it; three deliveries give two deployments and a merge, or a push between two
  shipments; four instants put them in different days of two weeks. Of the two
  backfill ranges one covers all of the past and one does not. Deployments are
  interchangeable, hence the symmetry.
- Alerts: two evaluations are what deduplication and the row lock are about; two
  faults let one handler lose its session and another be retried.
- GitHub: three deliveries give an old, a new and a repeated one.
- Backfill: pages of one item make every item a page. Four runs against a cap of
  three need halvings down to one second; the three of one instant are too dense
  for the cap, and are not when one of them has not completed yet, so the windows
  end both ways. An interval of eight halves three times, which is what three
  pending windows allow. `MaxAttempts = 2` separates a failed page that is retried
  from one that was the last attempt, because jobs start with any number of failures
  below it.
- Jira: the sweep needs a first and a last page, the token a rotation and a second
  reader.

Sizes. The largest runs are `metric_freshness` (1,057,726 distinct states),
`repository_backfill` (890,733) and `jira_integration` (711,923); each ends within
three minutes.

Deadlock is not checked: every system here may stop when its processes are
stopped, its jobs done and its bounded events used up.

Fairness. Pool: weak fairness on every consumer (a live thread is scheduled; a
handler returns, since its HTTP and database calls time out), on the guard thread,
on the clock and on the backoff timer. Alerts: weak fairness on each running
handler and on claims; strong fairness on getting the lease and on the retry of a
publisher, since both are deferred and tried again for ever while others hold the
lease for a while. Backfill: weak fairness on `Process`. Jira: weak fairness on
each job. Nothing forces a start, a stop, an insert, an event, a crash or a fault.
Liveness of the pool is claimed while some process stays up
(`EveryJobFinishes`): the restart policy of the container is not in this
repository's code.

Four disagreements between code and documentation came up while modelling.

1. `recalc_collision`. A recalculation is claimed while the repository is busy
   and, before it is deferred, a webhook enqueues a new row. The deferral would
   make a second row wait: it aborts, is logged, and the row stays RUNNING. After
   the lock timeout recovery tries to make it FAILED and aborts too, and since
   recovery and claim are one transaction (`claimer.py:132`), so does every claim
   of every worker while the newer row waits, which it does, because nobody can
   claim it. `docs/worker-monitoring.md:58` and `worker.py:87` say stale rows are
   recovered. The renewal handler avoids such a successor deliberately
   (`renew_jira_webhook.py:86-89`).
2. `pool_lost_session`. `lease.py:1` promises to serialize conflicting repository
   work and `lease.py:192` to fail closed. Between the death of a session and the
   next heartbeat a second handler may run in the same repository. Job-level
   promises survive this, by the stale timeout.
3. `metric_moved`. A workflow run that is run again finishes later; the upsert
   moves `finished_at` (`deployments.py:338`) but only the new instant is enqueued
   (`deployments.py:233-239`). The bucket it left, unless it is the one just
   before, keeps counting it, where `calculator.py:130-132` promises every bucket
   of the burst.
4. `import_retried`. A review whose pull request is unknown imports it whole
   (`github_event.py:345-348`). If the handler fails after the row is committed,
   the retry finds it, refreshes only the reviews and succeeds: commits and risk
   stay missing until another delivery.

## 10. Proofs

Every safety property that a passing run checks is a theorem as well, and so is
the refinement of `JobQueue`. A theorem holds for all values of the constants
that satisfy the module's named assumption, which TLC evaluates in each run; a
further hypothesis is named below. An assumption says what kind of thing a
constant is (finite sets, natural bounds, `None` unlike anything stored, initial
rows dated in the past); where it says more, this is discussed here.

**The pool** (`WorkerPoolProofs`, `WorkerPoolRefinement`). Of `PoolAssumption`
only one part is quantitative,
`(MaxMissedBeats + 1) * HeartbeatEvery < StaleAfter`, which `min(30, timeout / 3)`
guarantees for one missed beat.

`BudgetInv` is types, that a consumer has a task exactly when it is past polling,
and `Sound` for every row, which ties `attempts` to `spent` by status. Types alone
are not inductive: that `attempts + 1` stays within `MaxAttempts` needs "a waiting
row has attempts left", and that needs every write of `retry.py` and the claim
transaction to preserve `Sound`. One lemma per kind of write (`RequeueSound`,
`MarkFailedSound`, `MarkSucceededSound`, `ClaimSound`) keeps the case analysis of
`BudgetStep` short. `TypeCorrect`, `AttemptsAccountedFor`, `NoJobStranded` and
`DeadWhenSpent` follow.

`LeaseInv` says, for each consumer, that its session's state fits its phase
(`Calm`), that the claim of an active consumer still carries its name and attempts
(`Keeps`), and that `locked_at` is no older than the missed heartbeats allow
(`Renewed`); for each pair, that their advisory locks do not conflict and that
active consumers work on different jobs (`Apart`). `OneExecutor` is not inductive
because a dead session holds no lock: `Renewed` is what then keeps recovery away
from the row. `OneExecutorPerJob` and `ExecutorKeepsClaim` hold whatever is lost;
`ScopesExclude` and `DeletionSpares` assume `MaxLosses = 0`, and the run
`pool_lost_session` shows that the first needs it.

`StopHandsBack` proves `GracefulStopHandsBack` from an invariant that turns it
round: while no write has failed, a row that carries a consumer's name is RUNNING,
claimed with the attempts this consumer knows, and the consumer is in a phase
that still owes it an outcome, unless its process is gone. Every way out of such a
phase writes the row or has found that it is another's.

`PoolImplementsQueue` is `Spec => ImplementsQueue` for `Deletions = {}` (a
deletion makes rows disappear, which the queue does not know). `used` is read off
`attempts`; `BudgetInv` makes it equal to `spent`, which only failures and
abandonments change (`UsedIsSpent`). `LeaseInv` gives that whoever runs a row has
claimed it, alone (`RunnerOwns`). Four lemmas then name the row-level steps
(`Stays`, `Quiet`, `Begins`, `Ends`) and one lemma per action says which of them
each row takes. A lost session is covered: nothing here assumes `MaxLosses = 0`.

**Recalculation requests** (`RecalcCoverage`). `NoLostRecalculation` is not
inductive: a payload without a range covers every instant, until a request with
one merges into it. `CoverageInv` therefore asks, for every dirty instant, for a
row whose own range holds it (and, once the row has read, which has read it), and
for ranges with both ends or none. The lemma `HullHolds` is what `LEAST` and
`GREATEST` of `metrics/service.py:691-700` are for.

**Metrics** (`MetricFreshnessProofs`). `SnapshotsCorrect` speaks of a moment when
no request is left; the invariant has to speak of all others. `SnapshotsInv`: a
snapshot of a bucket that is not `outdated`, and that the rows contradict, meets a
range that somebody owes. For the four metrics (`OwedMetrics`) these are the waiting
request, the one being recalculated, the instant of a production deployment whose
handler or retry has stored it, and the first shipments, before and after, of a
pull request in the hands of one. The stages (`OwedStages`) count at the merge
instead, and may also be reached through a merge that a deployment of such a range
shipped, the detour `_cycle_time_snapshots` takes (`service.py:453-497`). `HandlerInv`
says that a handler asks for all of this and that a recalculation writes from fresh
links, `PullsInv` that a retry still knows the instant of its pull request's merge,
`LinksInv` that links are of stored deployments. `UnmergedInv` was found by a failing
proof: unmerged pull requests are left out of the comparison, so what a snapshot
holds of one must still be its first shipment by the links, or the merge would not
ask for that bucket.

The work is in what a change of the rows can alter. The `Adds` lemmas say it of a
deployment later than all others: the buckets of its own instant, of the failures
it ends and of the pull requests it is the first to ship. `MovesLinks`, `MovesShipped`
and `MovesCycle` say it of a pull request's new state, whatever its commits became:
the buckets of its first shipment before and after. Every other change puts all it
may alter into `outdated`, which is why the theorems need no hypothesis about
order, crashes or backfills. Then `RunStored`, `PullStored`, `ImportStep`, `RelinkStep`,
`DeathStep` and `AskStep` say who owes the difference after each step, and
`SnapshotsWritten` that a bucket is right once it is rebuilt, also when it leaves
`outdated`.

`AlertWindowsExact` needs more of the calendar than the others: days start at 0 and
go on beyond the `Horizon`, so every instant has one day (`DayOf`), in whose snapshot
alone it is counted. Week and month boundaries are any sets of naturals with a last
one.

**Alerts** (`AlertsProofs`). `CooldownRespected` and `SilencedByDelivery` are
proved together: the newest delivery of a rule is its `last_triggered_at`, so
that the decision under the row lock compares with every earlier delivery, even
though its own instant is the start of a transaction that waited for the lock.
`NoLostEvaluation` needs to know what an evaluation has read: while no session is
lost, whoever writes or reads the data holds the lease (`LeaseInv`), hence what a
reader has seen is current and the row on which a publisher decided not to insert
another is still unread when it commits (`SeenInv`).

**Webhooks** (`GithubConvergence`). In `RowInv`, every reading of the pull request
(in the row, or in the hands of a handler) is dated no later than GitHub, and
differs from it only if a delivery newer than the reading has been sent
(`Reads`); and every delivery's job is still to run, at work on a reading at least
that new, or done with the row at least that new (`Informed`, `Mirrored`). When
all are done, the row is newer than every delivery, so it is GitHub's:
`RowsConverge` and `ProcessedIsMirrored`. `MeasureInv` for `MergesAreMeasured`: a
merged row is measured with the data mirrored last, or some handler still has to
enqueue, retries included. `ListsInv` for `ListsFollow` adds the lease: a handler
that replaces a list read GitHub later than any handler before it, which holds
while no session is lost, as section 6 says.

**Backfill** (`BackfillProofs`). That the pending windows cover what lies below
the current one is not inductive; their order is what keeps it when the first of
them becomes the current one (`Descending`). That the cursor always has room is a
matter of widths: the k-th pending window is no wider than the k-th halving of the
interval (`Shallow`), so when all `MaxWindows` are taken the current one is a
second wide. `BackfillAssumption` asks that as many halvings suffice; 64 do, for
any interval a `timedelta` can hold. Hence no cursor is ever refused, and with the
causes of the other ends (`Cause`) `CursorsAccepted` follows.

What pages bring is kept by the rank of an item in its listing: ranks leave no
gap, an item is stored or its rank lies beyond the pages read (`ToCome`), and what
GitHub changes between pages moves only items not owed any more, or raises
`drifted`. `ImportInv` says so of each stage; `NoRunOmitted`, `PullsImported` and
`ReviewsRefreshed` are its reading at the end of the job. For issues it is the
newest news that counts, wherever it is (`NewsInv`): a closed issue's row is closed
or the delivery that closes it is to come (`ClosedInv`); an open one is on a page
to come, held open by a row that no delivery to come can close, or about to be
opened by the newest of them (`OpenedInv`).

**Jira** (`JiraIntegrationProofs`). For the tokens: the handler between its reading
of the token and its commit is the one with the row lock (`LockHeld`), what it
read is still there (`ReadingHolds`), and Atlassian's token is in its hands or in
the row (`TokenKnown`). For the renewal: a job is RUNNING exactly while its
handler has it (`JobInv`), so every end of an attempt is one that the property's
own cases name, and a renewal that has failed but is not recorded leaves the
integration marked, unless it was reconnected in between (`FailedMarked`). For the catalogue: what the sweep is to untrack is dated before
the synchronisation (`GoneInv`), and what it must not is dated by it, or on the
page in hand or one to come (`OwedInv`), retried pages included.

**Only model-checked.** Liveness: `EveryJobFinishes`, `StopDrains`,
`SnapshotsCatchUp`, `EvaluationsCatchUp`, `BackfillEnds` and `WebhookRenewed`.
Fairness is about `ENABLED`, which the prover does not support. The disagreements
of section 9 are counterexamples, for which one instance each is enough.

## 11. What could follow

In the order of what it would add: the Jira event handler and the paged sweep over
Jira issues (whose cursor is an index into the tracked projects,
`sync_jira_projects.py:294`), two overlapping synchronisations of the GitHub
catalogue (`sync_github_repositories.py:79`), installation and repository events; a
composition of `MetricFreshness` with `RecalcQueue` instead of its single request.

## 12. Not modelled, and why

Monitoring counters, logging and the health endpoints derive from the steps
above and decide nothing. Configuration and engine creation are set-up. HTTP,
its retries and the ciphers of the provider clients have no state; their results
are nondeterministic. The GitHub catalogue has the mark and sweep of the Jira one
and no error mark, and is not repeated. Risk scoring is a statistical model over
floating-point features; what its predictions were computed from is in
`GithubEvents`. Outcome labelling and model training are numerical. Averages and
percentiles are functions of the observations and are not taken. adept-api
(schema, inserts, delivery of notifications) is external and appears only through
what this code assumes of it.
