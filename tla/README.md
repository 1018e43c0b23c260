# TLA+ model of web-observer

web-observer watches web pages: a scheduler finds the monitors that are due, workers fetch
and compare the page, and a detected change is announced over e-mail, Slack, Discord and
webhooks. PostgreSQL holds the state, Redis carries the Dramatiq queues and a few counters.
There is no coordinator: the API, the scheduler loop (which also runs three reapers) and any
number of worker threads write the same rows, and each may die at any statement. What holds
the system together is a handful of conditional UPDATEs, row locks, unique keys, expiries and
re-sends. This directory models those and checks what they achieve.

Paths below are relative to `src/`; `app/` is `backend/app/`.

## 1. Inventory

| component | state it keeps | operations | what is hard | module |
|---|---|---|---|---|
| scheduler `app/scheduler.py` | `monitors.next_run_at`, lease columns, the in-memory list of runs still to send | `claim_due_monitors`, `enqueue_check`, `release_expired_logic`, the three reapers, then sleep | dies between commit and send; two schedulers; an API request inserts beside it | `RunLifecycle`, `MonitorSchedule`, `DailyQuota` |
| run reaper `app/services/run_reaper.py` | none of its own; locks a batch of `monitor_runs` | `reap_stuck_runs` | the first commit drops all locks and expires every loaded row | `RunLifecycle` |
| worker run guard `app/workers/run_guard.py` | `monitor_runs.status`, `started_at`; a domain slot | `execute_monitored_run`: gate, hook, atomic claim, body, handlers; `fail_run` | redelivery, a reaper in the middle, exceptions after a commit | `RunLifecycle` |
| check actors `app/workers/checks.py`, `browser_checks.py` | receipts and a counter in Redis; pictures in the object store | bounce to the other queue, browser quota, three kinds of capture | a status written before the claim; a receipt that outlives a refusal; one key for all captures of a run | `RunLifecycle`, `BrowserQuota`, `Screenshots` |
| check pipeline `app/services/pipeline.py` | Snapshot, ChangeEvent, outbox rows, `monitor_runs.status` | `apply_fetch_result`: entry fence, snapshot, compare, change event, gates, pre-commit fence, terminal commit | three ways to write SUCCEEDED; sync and async enrichment | `RunLifecycle`, `ChangeAlerts`, `SnapshotStore` |
| monitors API `app/routers/monitors.py` | `monitors`, `monitor_runs` | create with `run_now`, `manual_run`, edit, pause, resume, delete, live stream | no lock in common with the scheduler or the worker | `RunLifecycle`, `MonitorSchedule`, `SnapshotStore`, `LiveEvents` |
| notification outbox `app/workers/notifications.py` | `notification_outbox` | claim, deliver, retry; `reap_stuck_outbox_messages` | double send, lost message, dead worker, end of the retry budget | `NotificationOutbox` |
| webhook delivery `app/services/webhooks.py`, `app/workers/webhooks.py`, `app/routers/enterprise.py` | `webhook_deliveries` | load, early failure, claim, post; reaper; manual retry | unfenced writes by three kinds of process | `WebhookDelivery` |
| domain guard `app/services/domain_guard.py` | `conc:<domain>` counter with expiry; rate and circuit keys | take a slot (script or fallback), give it back (two commands) | death with a slot, expiry while slots are held, lost replies | `DomainSlots` |
| failure notification `app/services/failure_notify.py` | `monitors.consecutive_failures`, alert keys | `record_run_outcome` from worker and reaper | read, add, write by two processes; keys that are reused | `FailureAlerts` |
| usage and quota `app/services/usage.py`, `plans.py` | daily counters | read at a claim and for a check now, not read for a first check; incremented with the result | overshoot by what is in flight; a look and an insert apart; transactions that wait in a circle | `DailyQuota` |
| adaptive interval `app/services/adaptive.py` | `schedule_interval_minutes`, the streak of quiet runs | `note_check_outcome` | edits of the interval; the slot grid moves with it | `MonitorSchedule` |
| conditional alerts `app/services/conditional.py` | none; counts change events | cool-down, flapping | counts what was never announced | `ChangeAlerts` |
| AI enrichment `app/workers/ai_enrich.py`, `app/services/ai_summary.py`, `model_catalog.py`, `subq.py` | summary of a change, outbox rows; cached answers; circuits; provider settings | enrich and announce after the check; call a model within a budget | repeated messages, idempotency by a placeholder; budget over models, modes and addresses; whose key goes where | `ChangeAlerts`, `Enrichment` |
| live events `app/services/live_events.py` | Redis pub/sub, cached clients, a circuit | wake-up with a poll as fallback | published before the commit; outages of Redis | `LiveEvents` |
| digest `app/services/digest.py`, `digest_job.py` | outbox rows under the key of a period | periodic passes over the 24 hours before each | two jobs, partial passes, changes between two passes, room for the newest only | `Digest` |
| retention `app/services/retention.py`, storage `app/services/storage.py` | objects, and rows that name them | purge; delete of a monitor | no transaction covers both; a change may refer to a snapshot that is going | `SnapshotStore` |
| members, invites, keys, links `app/routers/enterprise.py`, `sharing.py`, `app/services/api_keys.py`, `audit.py` | `workspace_members`, `workspace_invites`, `api_keys`, `share_links`, audit rows | change and remove members, create, redeem and revoke | count of owners read before the write; redeems at once | `Team` |
| sign-in `app/auth.py`, `app/routers/workspaces.py`, `internal.py` | `users`, `workspaces`, default membership | background provisioning | the first page makes several such requests at once | `Provisioning` |
| fetchers `app/services/fetcher.py`, `browser_fetch.py`, `app/workers/playwright_job.py`, `app/security/ssrf.py` | none that lasts | validate, pin, follow, connect; local browser, child process, edge | name service changes its answer; a response that never ends; a page that changes after its test; fall-back after a failure | `PageFetch` |
| extraction, diff, other routers, import, feeds, frontend, Cloudflare workers, migrations | one row per request, or none | text, views, proxies | nothing between processes | none (section 6) |

How they interact: scheduler and API insert a run and send its id; the worker claims the run,
takes a domain slot, fetches, and runs the pipeline, which in its terminal commit leaves a change
event, outbox rows and webhook rows; their ids are sent after the commit; delivery workers claim
those rows. The reapers, at the head of each scheduler pass, repair what a lost message or a dead
process left behind. Enrichment, captures and live hints hang on the same run by messages of
their own. Everything is shared state in the database; a message holds only an id, and may be
lost, late or repeated.

What makes each part correct:

- **runs**: one execution per run; a run that started is never QUEUED again; a change is visible
  only if its run succeeded, and in that very commit; an abandoned run ends, as until then the
  scheduler skips the monitor; a run that is over stays over the way it ended.
- **schedule**: no monitor is forgotten, and its interval stays within what was asked and four
  times that; a change is found between two pages of one configuration.
- **outbox and webhooks**: one deliverer per row; a second send only after an unconfirmed first;
  bounded attempts; SENT and FAILED are final; a committed row is attempted; a row whose worker
  died is attempted again.
- **alerts**: an enriched signal is announced or refused; once; a cool-down apart; a failure count
  past the threshold has its alert; each digest comes once, and tells of each change of the day before it
  as far as it has room and the passes do not drift.
- **slots and quotas**: never beyond the limit by more than the stated excess; no slot is lost for
  good; the day's counter is exact.
- **pictures and snapshots**: what was compared is kept; what the inbox shows can be read.
- **workspace**: owners are made by owners; an invite brings no more members than it has uses; who
  is known has a workspace; the server's key goes to the server's provider only.
- **fetch, live view**: a plain fetch connects to public addresses only; a plain fetch and the edge
  return no challenge for a page; a fetch ends, except where the code gives it no end; what stays
  committed is shown.

The hazards behind these are listed with their lines in `PROJECT.json`.

## 2. Modules

| module | models |
|---|---|
| `RunLifecycle` | one `monitor_runs` row from insert to its last status: scheduler, run reaper, worker, pipeline, API |
| `RunContract` | abstract: absent, waiting, started, over; published with the end |
| `Dramatiq` | the broker: copies of a message per number of retries made (`workers/broker.py` and the actors' options; external otherwise) |
| `NotificationOutbox` (extends `Dramatiq`) | `notification_outbox` rows, worker, retries, reaper |
| `WebhookDelivery` (extends `Dramatiq`) | `webhook_deliveries` rows, worker, retries, reaper, manual retry |
| `DeliveryContract` | abstract: a queue with one attempt at a time and a budget |
| `DomainSlots` | the concurrency counter of one domain |
| `MonitorSchedule` | one monitor's schedule: claims, leases, slot grid, adaptive interval, edits |
| `ChangeAlerts` | from a change to its notification rows: gates, placeholder, enrichment workers |
| `FailureAlerts` | the failure count with its recorders and alert keys |
| `Digest` | the daily digest of a workspace with two jobs |
| `Screenshots` | the pictures of one run and the notifications that point at them |
| `DailyQuota` | the day's counter with its row locks, upsert and quota test |
| `BrowserQuota` | the browser counter and receipts in Redis |
| `SnapshotStore` | snapshot rows and objects: checks, retention, removal |
| `Team` | members, invites, API keys, share links |
| `Provisioning` | user rows and default workspaces |
| `Enrichment` | provider settings and the calls made under them |
| `LiveEvents` | publisher, subscription and generator of the live stream |
| `PageFetch` | plain and browser fetches with the address guard |
| `MCRunLifecycle` | the symmetry of the workers for TLC |
| `MCServices` | `DomainSlots`, `LiveEvents`, `PageFetch` side by side |
| `MCMonitoring` | `MonitorSchedule`, `ChangeAlerts`, `FailureAlerts`, `Digest`, `Screenshots` side by side |
| `MCWorkspace` | `Team`, `Provisioning`, `Enrichment`, `DailyQuota`, `BrowserQuota`, `SnapshotStore` side by side |
| `RunLifecycleProofs`, `NotificationOutboxProofs`, `WebhookDeliveryProofs`, `MonitorScheduleProofs`, `DramatiqProofs` | the theorems about the module of that name |
| `ServicesProofs`, `MonitoringProofs`, `WorkspaceProofs` | the theorems about `MCServices`, `MCMonitoring`, `MCWorkspace` and their parts |

The parts of a side-by-side module share no state. Its variable `part` picks one part in the
initial state and the others stay put, so the run checks the sum of the parts and not their
product: each part runs exactly as it would in a run of its own, under its own fairness, and a
property names the part it is about. Where parts do share state they are one module: run, reaper
and pipeline in `RunLifecycle`; rows, messages and retries through `Dramatiq`; schedule grid and
adaptive interval in `MonitorSchedule`; gates, enrichment and rows in `ChangeAlerts`; scheduler,
requests, workers and counter in `DailyQuota`; checks, retention and removal in `SnapshotStore`.

### Conventions

- **Atomicity.** An action is one database statement with the decisions the code takes on its
  result, up to the next statement of another process that could matter. Where the code commits,
  the action's effects become visible; where it only flushes, the model keeps them in the
  process's control point and a crash forgets them.
- **ORM writes.** SQLAlchemy sends an UPDATE only for columns that differ from what was loaded.
  `Bounce` of `RunLifecycle`, `Write` and `RetryCommit` of `WebhookDelivery`, `Write` of
  `FailureAlerts` and `WriteSettings` of `Enrichment` therefore compare with the loaded value: an
  assignment of an equal value writes nothing.
- **Sessions expire at commit** (`expire_on_commit` is on): a later read of a loaded row is a new,
  unlocked query. `ReapRead` and `RaiseOrEnd` are such reads.
- **Row locks.** `KeyShared`, `RowLocked`, `ReaperHolds` and `Writable` of `RunLifecycle` say who
  waits for whom: a flushed Snapshot key-shares its run, which blocks the reaper's `FOR UPDATE` but
  not its UPDATE; a flushed ChangeEvent flushes the run's staged columns and holds the row lock
  until the commit; the reaper holds its batch until its first commit. In `DailyQuota` `holder` and
  `fresh` say who holds the counter row, and whether it is an insert that is not yet committed: an upsert
  waits for a holder in either case, as `ON CONFLICT DO NOTHING` waits for the transaction of any
  conflicting version that is not committed; in
  `Team` and `Provisioning` an UPDATE, DELETE or insert of a unique key waits for the transaction
  that has the row.
- **Unique keys** refuse a second insert: slots of the schedule, outbox rows, failure alerts,
  digests, users.
- **Messages** saturate: a copy beyond `MaxMsgs`, `MaxCopies` or a module's small bound counts as
  lost, and losing a message is always allowed, so the bound hides no behaviour but that of more
  equal copies.
- **Time** is one bit per row where only an age is compared: `overdue` and `old` say that the age is
  past the reaper's cutoff. `Age` may set it at any moment for a run. For an outbox or webhook row
  it may not while a worker holds the row, since the actor's time limit (60 s) is far below the
  cutoff (600 s): `Unattended`. That is an assumption on the Dramatiq time limit, and the mutants
  that drop it show what rests on it. `MonitorSchedule`, `ChangeAlerts` and `Digest` have a clock
  of a few ticks; `Enrichment` counts units of time per call.  `DailyQuota`, `BrowserQuota` and
  `PageFetch` assume no time limit to be kept; in `PageFetch` the limit of an actor may strike at any
  step.
- **Death** of a process, a time limit and an exception outside the handlers are one action each
  (`WorkerDies`, `SchedulerAborts`, `CallerAborts`, `Interrupt`, `ReapRollback`, `Abandon`,
  `RecorderDies`, `PassFails`, `Fail`, `Rollback`, `PurgeDies`, `Die`, `TimeLimit`, ...), enabled at every control point
  where something would be left undone.
- `CHECK_DEADLOCK FALSE` in every configuration: the supply of rows, edits or ticks is finite and a
  system that has dealt with all of them rightly stops.
- Definitions introduced by "Faulty variant of ..." are not part of the models. They are the bugs
  against which each property is tried.

### RunLifecycle

`status`, `monitorOf` and `changes` are columns and rows; `overdue` is the age test of
`run_reaper.py`; `msgs` is the queue; `receipts` the browser-quota keys; `pc`, `job`, `saw` the
worker's position, its run and the status it loaded; `sched` the reaper's batch and the claimed
runs not yet sent; `caller` an API request. `executions` and `counted` are history.

| actions | code |
|---|---|
| `ClaimDue`, `Enqueue`, `SchedulerAborts` | `claim_due_monitors`, the send after its commit, the loop's `except` |
| `ReapSelect`, `ReapRead`, `ReapWins`, `ReapSkips` | `reap_stuck_runs`: SELECT ... SKIP LOCKED, `old_status = run.status`, UPDATE ... WHERE status = old, commit per run |
| `Receive`, `Discard`, `Bounce`, `PassHook`, `ExceedQuota`, `FailQuota` | the gate of `execute_monitored_run` and the hooks of `checks.py` and `browser_checks.py` |
| `Claim`, `LoseClaim` | the UPDATE ... WHERE status IN (scheduled, queued) and its rowcount |
| `EntryFence`, `ExtractFails`, `StoreSnapshot`, `FinishUnchanged`, `FlushChange`, `PreCommitFence`, `CommitTerminalSuccess` | `apply_fetch_result` and `_detect_change`, in the order of their commits and flushes |
| `Raise`, `FailRun`, `OutcomeRaises`, `RecordFailure`, `RecordSuccess`, `WorkerDies` | the handlers of `execute_monitored_run`, `fail_run`, `record_run_outcome` |
| `ManualRunFree`, `ManualRunStale`, `FailStale`, `InsertRun`, `SendRun`, `CallerAborts` | `manual_run` and `create_monitor` |

What is fetched, extracted and compared is a choice among outcomes; a change's outbox rows are
part of `changes`, since one commit publishes them all.

### NotificationOutbox, WebhookDelivery

`status`, `attempts` and `old` are columns; `worker` and `reaper` are local variables of
`deliver_outbox_message` and `reap_stuck_outbox_messages`; `accepted` and `unconfirmed` are
history: the provider's acceptances and those the row was never told of. `Claim` is the
conditional UPDATE with `attempts + 1`; `Drop` its rowcount 0; `ChannelOff`, `Accept`,
`ConfirmSent`, `DeliveryFails` the body; `Interrupt` whatever ends it from outside. `ReapSelect`
reads without locks, `ReapCommit` writes later what was read, `ReapRollback` is a pass that
fails, or that re-sends nothing, since the function commits only when it re-sent some row.
The branch "attempts exceeds the maximum" after the claim is not modelled: `AttemptsCapped`
shows that it cannot be reached.

In `WebhookDelivery` `Load` reads the row and the endpoint before the claim (`FailOff` then writes
FAILED over whatever the row has become); `Refresh` loads the row again after the claim;
`RequestFails` decides on the loaded attempts and `RaiseOrEnd` on a fresh read; the reaper takes
its rows back to PENDING and looks at PROCESSING rows only; `RetryLoad` and `RetryCommit` are the
manual retry, which writes by primary key.

### DomainSlots

`conc` and `expiring` are the Redis key and its expiry. `Acquire` is the script; `EvalRaises` a
call that raises, whether or not the script ran; `FallbackIncr`, `FallbackExpire`, `FallbackUndo`
the separate commands the code falls back to; `Release` and `Delete` the two commands of
`release_domain_slot`; `Abandon` a death or a Redis error at any point. `scripts`, chosen once,
says whether calls of the script may raise, because some guarantees hold only when they do not.
`lost` (history) counts slots taken from the present key that nobody will give back.

### MonitorSchedule

The monitor's row, and up to two runs with what each loaded before it fetched. A claim is one
action, since it holds the monitor's row lock from the SELECT to the commit.

| actions | code |
|---|---|
| `Claim` | `claim_due_monitors`: due and not leased; put off while a run is active or the quota is spent; lease, `next_run_at` advanced, idempotency key of the slot looked up, run inserted |
| `ReleaseLeases` | `release_expired_logic` |
| `Start`, `Succeed`, `Fail` | the worker: monitor loaded, page compared with the newest success of its `config_version`, `note_check_outcome` with the loaded interval, `next_run_at` after the check |
| `EditInterval`, `EditConfig`, `Pause`, `Resume` | `update_monitor` (a change of URL or selector raises `config_version`), pause, resume and their bulk forms |
| `ManualCheck`, `InsertByHand`, `InsertFails` | the look for an active run, and the insert after it, of `manual_run` and `create_monitor` |
| `QuotaFlips`, `Tick` | the day's quota, the clock |

`skipped`, `raced`, `overlapped` and `compared` are history: claims in a row that found their slot
taken, an edit that met a check under way, two runs at once, and the configurations behind the
last comparison.

### ChangeAlerts, FailureAlerts, Digest

`ChangeSync`, `ChangeSuppressed` and `ChangeAsync` are the terminal commit of the pipeline with the
gate `Quiet` (cool-down and flapping of `conditional.py`) and the rows of `Queue`. `Receive`,
`Answer`, `Finish` and `Fail` are `enrich_change_event`: placeholder and outbox test, the model's
answer, the last commit with summary and rows, and its retries. `Mark` is the user's noise flag.

`RunEnds`, `Compute`, `Write` and `RecorderDies` of `FailureAlerts` are `record_run_outcome`: the
monitor is loaded, the count computed and the keys looked up, both written, with a rollback when
the unique key refuses.

`Poll`, `Insert` and `PassFails` of `Digest` are a pass of the job: is the hour due, which signal
changes are of the day before this very moment (`Since`), the newest of which there is room for
(`Reported`, 100 in the code), which channels have no row of this period; a summary is asked for, and
one commit inserts the rows. `Change` and `Commit` are apart, as a change is dated when it is made and
seen when it is committed. An hour has several ticks, so two passes of one hour differ in what they
look back on.

### Screenshots, SnapshotStore

`CaptureAndHash`, `FetchPage`, `CommitRun` and `RunFails` are the check; `AskForAlert` and
`AskForPreview` the messages to `capture_alert_screenshot` and `capture_run_screenshot`;
`Receive`, `Shoot`, `LoadPending` and `WritePayload` those actors: look whether a picture exists,
capture, store, load the pending rows, write their payload (JSON of the row as it was loaded).
`Put` and `Exists` say what a request to the store may do; a failed look reads as "missing".

`Store`, `Compare`, `CommitCheck` and `CheckDies` of `SnapshotStore` are the check with its objects
first and its rows later; `PurgeRead`, `PurgeRefs`, `PurgeObjects`, `PurgeCommit` and `PurgeDies`
the retention job in the order of `retention.py`; `RemovalRead`, `RemovalObjects` and
`RemovalCommit` `delete_monitor`. `Age` lets snapshots and runs pass their retention.

### DailyQuota, BrowserQuota

`GetOrCreate` is `get_or_create_counter`: it waits for whoever has inserted or updated the row and not
committed, finds the row, or inserts it.

| actions | code |
|---|---|
| `LockDue`, `ClaimNext`, `ClaimCommit` | `claim_due_monitors`: monitor rows first, then the counter; the look at active runs and at the quota, the insert, one commit for the batch |
| `Ask`, `Look`, `Insert`, `RequestEnds` | `manual_run`: the look at the quota, the look at active runs (writing off one of five minutes), the insert; two requests for one monitor may both pass the look |
| `RunNow` | `create_monitor` with `run_now`, which looks at nothing |
| `Increment`, `LockMonitor`, `Commit`, `Rollback` | the worker: counter first, then the monitor row |
| `Reap`, `Midnight` | the reaper, which may write off the row of a worker that carries on; the next day's counter |
| `Circle`, `DeadlockAbort` | transactions that wait for each other, at any hour, and what the database does with them |

A run stays in `runOf` while a worker is at it, also when its row is no longer active (`live`). A row
that has started is not executed again (`ExecutedOnce`, `NeverRequeued` of `RunLifecycle`). `held` are
monitor rows that the
claim has locked; an insert of a run waits for them, because of its foreign key.

`Receive`, `Claim` and the steps between of `BrowserQuota` are one message of a run in
`execute_monitored_run`: the gate, `_pre_run_hook` of `run_browser_check`, and the claim after it, so
that two workers may be in the hook with one run. `Reserve` is the script, `FallbackExists`,
`FallbackIncr` and `FallbackSet` its fallback, `Undo` and `Forget` the two commands that give a refused
reservation back, `Refuse` the commit of FAILED. Each command may raise, carried out or not:
`ScriptRaises` goes on to the fallback, `FallbackRaises` leaves the hook with the run queued, to be
delivered again, `UndoRaises` is caught and the run refused.

### Team, Provisioning, Enrichment

A request of `Team` reads (`ReadRole`, `ReadRemove`, `ReadRevoke`, `Claim`) and writes later
(`WriteMember`, `DeleteInvite`, `Join`), or is abandoned. `Claim` is the conditional UPDATE of
`uses` that redeems an invite; `Join` inserts the member unless the person is in already.
`LastOwner` is the count of the owners. Keys and links change in one step.

`Request` of `Provisioning` leaves a task; `ReadUser`, `FlushUser`, `ReadMembership` and
`CommitUser` are the background transaction, `Fail` its rollback; `Seed`, `MoveAddress` and
`CreateWorkspace` are the other writers of these rows.

`ReadSettings` and `WriteSettings` of `Enrichment` are `update_workspace`; `Ask`, `SwitchedOff`,
`Gate`, `LookUp`, `GiveUp`, `Attempt`, `Unanswered`, `Refused` and `Answered` one call of
`ai_summary.py`: configuration, gatekeeper, cache, and the walk through models and modes under the
budget. `Durations` says how long an attempt may take: a lookup of the host, and at each of its
addresses several waits (connect, write, read), each of which the timeout bounds by itself; an answer
that drips in has no such bound.
`EffectiveBase` and `EffectiveKey` choose what the call uses, also for a key that can no longer be
decrypted.

### LiveEvents, PageFetch

`Flush`, `Commit` and `Rollback` are any process that writes a run or a change; `Flush` publishes.
`Subscribe`, `Wake`, `ReadRun`, `ReadChange`, `Blip` and `Close` are the generator of
`monitor_events`; `RedisFlips` and `CircuitCloses` its surroundings.

`Check`, `Robots`, `RobotsRead`, `Pin`, `Connect`, `Redirect` and `Body` of `PageFetch` are a plain
fetch, in an actor or in a request of the API (`where`), with an answer of the name service chosen anew
at every query. A response is read whole before anything of it is looked at, and it may never end.
`Surf` is a request of the page in Chromium: the name is validated, and Chromium connects to what it
resolves the name to by itself. `LocalTest` tests what the page shows and `LocalPage` records what it
shows later; `LocalFailure`, `ParentHears`, `ParentGivesUp`, `BlockedLater`, `AskEdge` and
`EdgeAnswers` are the rest of a browser fetch, in its child process or inline, and its fall-back to
the edge. `TimeLimit` is that of the actor.

## 3. Runs

| run | instance | distinct states | shows |
|---|---|---|---|
| `lifecycle_safety` | 1 monitor, 2 runs, 2 workers, 1 scheduler, 1 API request, 1 waiting copy of each message | 636,423 | `ExecutedOnce`, `NeverRequeued`, `ChangeOnlyWithSuccess`, `ImplementsContract` |
| `lifecycle_live` | the same with 1 worker and 2 waiting copies, under fairness | 154,357 | `EveryRunEnds` |
| `outbox_delivery` | 2 rows, 2 workers, 1 scheduler, 3 attempts, 1 retry, 1 copy | 73,288 | `OneDeliverer`, `NoNeedlessResend`, `AttemptsCapped`, `SettledStays`, `ImplementsContract`, `EventuallyAttempted` |
| `webhook_delivery` | 1 row, 2 workers, 1 scheduler, 1 manual retry, endpoints switched off | 275,483 | `OneDeliverer`, `NoNeedlessResend`, `AttemptsCapped`, `DeadAttemptRecovered` |
| `services` | slots: 4 workers, 2 slots, 3 lost slots, drift 1; stream: 2 runs, 1 change, 1 failed read, 1 outage; fetch: 2 public and 1 blocked address, 2 redirects | 144,416 | `NoPhantom`, `NoLockout`, `SlotsComeBack`; `LatestShown`; `FetchSafe`, `FetchEnds` |
| `monitoring` | schedule: 2 schedulers, intervals 1 and 2, streak 1, 10 ticks, 2 edits; alerts: 3 changes, 2 enrichers, 1 mark; failures: 2 recorders, threshold 2, 2 channels, 5 failures; digest: 2 jobs, 2 days of 4 ticks with due hours of 2, 2 changes, room for 1; pictures: 2 capturers, 2 channels, 1 fault, 3 captures | 2,298,016 | `CheckedInTime`, `LikeWithLike`; `EnrichedIsDecided`, `AlertsApart`; `CountAlerted`; `DigestComplete`; `PictureKept` |
| `workspace` | members: 2 users, 2 invites (1 from before owner invites were refused), 2 requests at once; people: 1 with 3 tasks; settings: 2 requests, 1 call, 2 models, 2 attempts, 2 waits and a lookup; daily: 2 monitors, 2 requests and 2 runs at once, quota 1, 3 results a day, 2 days; browser: 3 runs, 2 workers, quota 1, 2 deaths or commands that raise; snapshots: 3 checks, 1 death | 3,110,137 | `UsesCapped`, `OwnersSound`; `Provisioned`; `ServerKeyStaysHome`, `CallBounded`; `QuotaHeld`; `QuotaKept`; `ObjectsKept` |
| `lifecycle_resurrect` | 1 run, 1 worker, 1 scheduler | | violates `NeverResurrected` |
| `lifecycle_clobber` | 2 monitors, 2 runs: the second run of a batch | | violates `ReaperKeepsSuccess` |
| `outbox_processing` | 1 row, 1 worker, 8 attempts (the code's value) | | violates `DeadAttemptRecovered` |
| `webhook_lost` | no manual retry, endpoints stay on | | violates `AtLeastOnce` |
| `domain_limit` | no expiry | | violates `LimitKept` |

`TypesOK` of the three side-by-side runs is the type invariant of the part at work.

What the less obvious properties say:

- `CheckedInTime`: a monitor that is left alone never finds its slot taken twice in a row
  (`NotForgotten`), though the grid moves with the interval, and the interval stays within its range
  unless an edit met a check (`IntervalInRange`).
- `LikeWithLike`: the two pages of a comparison were fetched under one configuration, as long as no
  insert by hand made two runs overlap; `OverlapByHand` (proved) says nothing else makes them.
- `EnrichedIsDecided`: an enriched signal has its rows on every channel or was refused by a quiet
  period, through deaths, retries and repeated messages.
- `DigestComplete`: one digest per period and channel (`OneDigest`); and while every due hour has a
  complete pass within `PollGap` ticks of its beginning, the digest of the hour that begins at `n`
  tells of each change committed before `n` and less than a day old when those ticks are over, or of
  as many newer ones as it has room for (`NothingLost`). A change older than that may lie between the
  windows of two passes (`NoSeam`, section 5).
- `OvershootBounded` (in `QuotaHeld`): `allowed` is what was under way, of requests and runs,
  when the quota was last found to be left, plus one for each first check (`run_now`) since. A day's checks together with what is still under way stay below the
  limit plus `allowed`, whatever deadlocks, roll-backs, reapings and midnight do. The excess occurs,
  also with a single monitor: two requests at once both pass the look.
- `QuotaKept`: the runs that were counted within the limit (`granted`) are no more than it, and a run
  that was not is fetched only if it is in `troubled`: two of its messages met in the hook, its worker
  died, or a command was carried out whose reply did not come. In each case a receipt is left that
  lets a message of the run pass without having been granted.
- `CallBounded`: while none of its answers drips, a call outlasts its deadline by the last attempt's
  lookup and all of its waits but one, at most (`TimeBounded`); and no call goes on after a refusal
  (`RefusedStops`). `deadline_seconds` itself is no bound on a call.
- `FetchSafe`: a plain fetch connects to public addresses only (`OnlyPublic`); it returns no challenge
  or image for a page, and neither does the edge a challenge that shows in its text
  (`NoChallengeKept`); what challenged the local browser is not taken to the edge (`EdgeSpared`). What
  Chromium connects to, and what the local browser records after its test, is modelled and not claimed.
- `FetchEnds`: a fetch ends, or is held up for ever by a response that keeps coming to a request of the
  API, or by a browser that does not answer and runs in the actor's own process (`Held`).
- `OwnersSound`: nobody becomes owner but by an owner, and the last one goes only after two requests
  that both counted two.

**Why the bounds suffice.** Rows interact only through the reaper's batch (one commit, one set of
locks) and, for runs, through their monitor (active-run test, stale run before a new one): two
rows show both. Races for a row need two workers and one more writer: the reaper or the request.
Copies that wait are counted apart from those in a worker's hands: with one waiting copy of a
run's message two workers can hold the same run, one of them after a redelivery, a bounce or a
re-send, while a third copy waits; an outbox row may have a fresh and a retried message waiting
at once. Three attempts let a row fail, be retried and reach the ceiling. Four workers and two
slots let the limit be exceeded by two and the fallback be entered while slots are held. `MaxCount`
is 0 in the safety run, because no property of it reads `counted`. A streak of 1 lets the interval
move at every quiet check, so it reaches its cap of four and falls back within ten ticks; edits
happen in the first two ticks, which is enough for one to meet every step of a check. Three changes
let a refused change refuse the next; five failures with a threshold of two reach the second
outage. Two days have two due hours of two ticks each, so that a pass may be early on one
day and late on the other, and a change falls into the digest, into its neighbour or between them; two
changes and room for one let a newer change take the place of an older. A quota of one is overshot by
two runs at once; two requests, two monitors and the scheduler make every circle of the two kinds
of row; a third result follows a first check. Three browser runs and two workers on a quota of
one let two messages of one run meet while another run is granted or refused, and two faults let a
lost reply be followed by a failed retry. Three checks make the baseline of the baseline purgeable. Two
models in two modes, of which a call may have the second only, with two attempts end in each of the
three ways; two waits and a lookup tell the deadline from the end of an attempt. The proofs of section 4 remove the bounds for most of
the safety properties.

**Fairness.** The scheduler loop catches and logs every exception and runs again
(`scheduler.py`), so its steps are taken again and again. A single pass may still be aborted:
the steps it may fail before are strongly fair, which says that not *every* pass fails. Workers
are fair in what they do next (`WorkerProgress`, `Finish`, `Progress`), but never forced to die,
raise or be interrupted; a Dramatiq process that dies is restarted by its supervisor. In the
outbox, `Claim` of a row is strongly fair: not every message of one row is lost. Time passes
(`Age`, `Expire`) is weakly fair. The generator of the live stream is weakly fair in subscribing,
waking (its wait has a tick), and its two reads; failed reads are bounded by `MaxBlips`. In a
fetch the steps before a response begins are weakly fair: name service, connection and child process
are waited for within limits (`Fetch!Fairness`). The timeouts of `httpx` bound one read each, so nothing
is assumed of a response that has begun; in an actor its time limit strikes in the end
(`TimeLimit`, an exception that Dramatiq raises in the thread as soon as that runs Python code), unless
the thread waits inside Playwright, and in a child process the parent's wait ends. No fairness is assumed of API requests, of the
producer, of a domain's workers, of writers, of Redis or of a provider.

`EveryRunEnds` needs all of the run reaper: a run is blocked for ever if only started rows were
reaped (the mutant `ReapOnlyStarted`). `EventuallyAttempted` rests on the reaper's "attempts 0"
case (mutant `ResendProcessing`), `DeadAttemptRecovered` on the return to PENDING
(`AfterReapKept`), `SlotsComeBack` on an expiry set with the first slot of a key (`FirstBefore`),
`LatestShown` on sending what is committed rather than what was first read (`EmittedRaw`),
`FetchEnds` on the count of redirects (`RedirectedFreely`).

## 4. Proofs

TLAPS checks the following for any number of monitors, runs, workers, schedulers, requests, rows,
messages, retries, users, changes, channels and recorders. **Every safety invariant and every
action property that a passing run checks is a theorem**; what a run shows on its instance, the
theorem of the same property shows for all values of the constants.

The proofs rest on the `ASSUME`s of the modules, which TLC evaluates in every run that extends
them. They say

- that bounds, times and limits are naturals, and that intervals, the streak, the failure threshold,
  the lengths of a day, of its due hour and of `PollGap` within that, and the numbers of models, addresses, waits and changes in a digest are positive, the daily quota too;
- that "no row", "no run", "no event" and "nobody" are no rows, runs or workers, and that the roles
  include viewer and owner;
- that the sets whose cardinality a property or a guard takes are finite: workers of a domain,
  runs, requests, browser runs and workers of a workspace, changes;
- that there is a longest interval (the API has a largest choice), and that requests end before the
  clock does (`EditTime <= MaxTime`, two bounds of the model).

Assumptions of single theorems are named below. A theorem about a part of a side-by-side module is
of the form `AllSpec => []P` with `P == part = "x" => X!P`. `AllSpec` says of the part that is picked
what its own `Spec` says, so nothing is lost; the proof shows that `part = "x" => XInv` is invariant,
with `XInv` the inductive invariant of the part (its initial states, one lemma per action, one step
lemma, and `XAlways`, which puts them together).

**RunLifecycleProofs.** `TypeCorrect`; `AtMostOneExecution` (`ExecutedOnce`); `OneExecutorAtATime`;
`NoRequeue` (`NeverRequeued`); `PublishedWithSuccess` (`ChangeOnlyWithSuccess`) and `Refinement`
(`ImplementsContract`), both for synchronous enrichment (`~AsyncAI`), as with asynchronous
enrichment the first is false (section 5). `ExecutedOnce` is not inductive. The invariant adds

- `BusyHasJob`: a busy worker holds a run that exists, and one before its claim saw it QUEUED;
- `ExecutorsStarted`: the run of a worker past its claim is no longer QUEUED;
- `SingleExecutor`: two workers past their claims hold different runs;
- `NotStartedNotExecuted`: a run not inserted or QUEUED has been executed 0 times, so the claim,
  which demands QUEUED, is the first;
- `ReapedExist` and `StaleStarted`: what a reaper holds has been inserted, and what `manual_run` is
  about to fail has started;
- `FencedStillRunning`: a worker between its pre-commit fence and the commit holds a RUNNING
  run. This is where the row locks are used: everyone else who might write the row waits.

The refinement maps QUEUED to waiting, RUNNING to started and both ends to over, so it says
nothing about which end wins. The code does not keep *that* (section 5).

**NotificationOutboxProofs.** `TypeCorrect`; `OneDelivererAtATime` (`OneDeliverer`);
`ResentOnlyUnconfirmed` (`NoNeedlessResend`); `AttemptsNeverExceed` (`AttemptsCapped`);
`SettledForGood` (`SettledStays`); `Refinement` (`ImplementsContract`). The invariant adds
`IdleHoldsNone`; `HeldRow` (a held row is PROCESSING and not old); `ParkedRow` (a row the reaper
will park has used up its attempts, is PROCESSING or FAILED and is not with a worker: the late
write of FAILED changes nothing else); `Budgeted` (attempts stay within the ceiling, and below it
while the row is PENDING); `Accounted` and `HeldAccounted`, which tie acceptances to attempts and to
unconfirmed acceptances according to the row's status and its holder's control point. `RowStep`
says what any step does to one row; `SettledForGood` and `Refinement` follow from it. What a step
does to the messages is stated once, in `DramatiqProofs`.

**WebhookDeliveryProofs.** `TypeCorrect` for any number of reapers and manual retries;
`OneDelivererAtATime`, `ResentOnlyUnconfirmed` and `AttemptsNeverExceed` under `OneScheduler`, and,
as the properties themselves say, up to the first manual retry: with a second reaper or after such
a retry they are false. The invariant differs from the outbox's, because other processes do write
the row of a delivering worker: `Guarded` (such a row is PROCESSING or was failed by a worker that
found the endpoint off, and no reaper has it in reach), `Fresh` (what a worker loaded after its claim
is what it decides on), `Batched` (rows a reaper has read stay out of PENDING and out of workers'
hands until it writes them), with `Budgeted`, `Accounted`, `HeldAccounted` and `Single`.
Where endpoints also stay on (`AlwaysOn`), and again up to the first manual retry, more is true:
`Refinement`, the table implements `DeliveryContract`, as `notification_outbox` does, and
`SentUnlessOverwritten`, nothing leaves SENT. They need `Engaged` (a row that is delivered or that the
reaper has read is PROCESSING, so nobody fails it behind its holder's back) and `Tallied` (the
endpoint takes at most one request in each attempt), and follow from `RowStep`. No run states this
refinement: the runs of `WebhookDelivery` are about the cases in which the contract is broken.

**ServicesProofs.** *Slots*: `TypeCorrect`; `NeverPhantom` (`NoPhantom`), by the cardinality of the
set of workers counted in the key before and after each step; `NeverLockedOut` (`NoLockout`), with
the fact that no worker is in the fallback while scripts run. *Fetch*: `FetchesAreSafe`
(`FetchSafe`). That a plain fetch reaches public addresses only needs `OnlyValidated` (what is about
to be connected to was validated, and what a plain fetch has connected to) and `RightWay` (which kind
of fetch is at which step: a browser fetch connects at the steps of the browser, a plain one never
does); that the edge is spared needs `EdgeCounted`, which says at each step how often it was asked: the child at
most once, and each of the two only after an error of its own that is worth it. `ServicesTyped`
(`TypesOK`).

**MonitorScheduleProofs.** `ComparedAlike` (`LikeWithLike`): the invariant `Paired` says that while
runs do not overlap, the newest success of a version that may still be looked up was fetched under
it. `StretchBounded` (`IntervalInRange`), from `Ranged`: while no edit met a check, every check has
loaded the interval the user asked for. `SecondRunByHand` (`OverlapByHand`), for any number of
schedulers. `ScheduleKeepsTypes` and `NeverForgotten` (`CheckedInTime`): a claim may find the key of
its slot taken and skip the check, and the question is whether it can go on doing so. `LeftAlone`
says why not. Each key of a run is at least the base interval older than the time the monitor is due;
once a claim has found one of them taken, all are older by the *next* interval as well, because only
the run that `create_monitor` itself inserted can still stretch the interval meanwhile (`Stretch`). So
the next slot begins after every key. `SlotInRange` is all this uses of `%`.

**MonitoringProofs.** *Failures*: `EveryCountAlerted` (`CountAlerted`), for any number of recorders:
a recorder about to write a count has found, or will insert, each of its keys (`RecorderSound`).
`AlarmsAreTrue` (`NoFalseAlarm`): from `InOrder`, while outcomes are recorded one after the other no
count, committed or about to be, is above the failures in a row. *Pictures*: `PicturesAreKept`
(`PictureKept`): while the store is seen for what it is and the mode is not edited, nobody sets out to
take another picture after the check has stored one (`StoredIsSeen`), and rows are pointed at a
picture after it was put (`AttachedLater`). *Alerts*: `EveryEnrichedIsDecided` (`EnrichedIsDecided`)
and `AlertsComeApart` (`AlertsApart`). One row per change and channel holds because every queued
pair has its key among the rows (`RowsQueued`). A signal is decided because an enricher does not
take a fallback for noise (`JobsSound`), and what it loaded as no noise was none (`Unmarked`). The
cool-down is exact where the code is synchronous: changes come one after the other
(`OneAtATime`), so each decision sees all earlier ones. *Digest*: `DigestsAreComplete`
(`DigestComplete`), for any length of the day, of the hour and of `PollGap`, and any room: what a pass
begun at `t` is about to insert, and what a digest of it says, is `Enough`: each change seen before
`t` and at most a day old is in it, or as many newer ones as it has room for (`PassesReport`,
`DigestsReport`). While a complete pass has ended in this hour, every channel has its row, or there was
nothing old enough to tell (`PolledReports`). `LastCall` places the last tick of `PollGap` in its hour,
and there `PolledReports` becomes `OldIsTold`, which later changes and passes leave alone. The
arithmetic of `\div` and `%` is in lemmas of its own. `MonitoringTyped`
(`TypesOK`).

**WorkspaceProofs.** *Members*: `InvitesBounded` (`UsesCapped`), from `Redeeming`: one request at
most redeems an invite, and that invite has a use left. `OwnersByOwners` (`OwnersSound`), with
`Counted`: a request that takes an ownership away has counted a second owner. `MembersAudited`
(`ChangeAudited`). *People*: `AlwaysProvisioned` (`Provisioned`), from `Marked`: a task that is about to
make a workspace holds the user's row and the person has none; one that is not has seen one.
*Daily quota*: `QuotaIsHeld` (`QuotaHeld`), for any number of monitors, requests and runs at
once. The invariant is the property with the types; the work is in what each step does to the number
of what is under way (`DailyNoMore`, `DailyOneMore`, `DailyOneLess`, `DailyPassesOn`), set against what
it does to the counter and to `allowed`. *Browser quota*: `QuotaIsKept` (`QuotaKept`), for any number
of runs and workers, from `BrowserInv`: the runs granted are within the limit, and together with the
reservations that are still to be given back (`Over`) they never outnumber what the counter says
(`Accounted`); two messages of one run in the hook are known trouble (`Meeting`); and a receipt is that
of a granted or a troubled run, or of one that is or will be refused (`Receipts`). *Stored pages*:
`ObjectsAreKept` (`ObjectsKept`): what the check under way will name is in the store
(`CheckAhead`), a purge holds only old rows that are no event's (`PurgesOld`), and a row whose objects
are gone is one that a purge is at or will come to (`Losing`). *Calls*: `ServerKeyStays`
(`ServerKeyStaysHome`) and `CallsBounded` (`CallBounded`): what `SoundCall` says holds of a call from
its beginning, when key and base are read together; an attempt that begins before the deadline
and does not drip ends by `Latest` (`Duration`). `WorkspaceTyped` (`TypesOK`).

**What the proofs showed about the model.** `ChangeAlerts.CooledDown` was false for a cool-down of
zero, where two changes of one tick are both announced; the definition now says `Cooldown > 0`, as
`conditional.py` tests the cool-down only when one is set. `MonitorSchedule` did not say that its
intervals have a longest, without which the bound of `TypeOK` on the interval means nothing.

**Only model-checked**: liveness (`EveryRunEnds`, `EventuallyAttempted`, `DeadAttemptRecovered`,
`SlotsComeBack`, `LatestShown`, `FetchEnds`), which with `ENABLED` is beyond this prover, and the
violations.

## 5. Where the code departs from its documentation

Each of the five violation runs is such a case; `PROJECT.json` quotes code and text.

1. *A reaped run comes back* (`lifecycle_resurrect`). The baseline, unchanged and visually similar
   paths write SUCCEEDED unfenced (`pipeline.py:513`); `README.md:172` rules out
   "SUCCEEDED-over-FAILED".
2. *The reaper fails a run that has succeeded* (`lifecycle_clobber`). Its first commit releases the
   locks and expires the rows; `run_reaper.py:39-40` says this cannot happen.
3. *An alert stuck in PROCESSING* (`outbox_processing`). The reaper re-sends it, the claim refuses
   it, for ever (`notifications.py:250`).
4. *A webhook never sent* (`webhook_lost`). Its reaper looks at PROCESSING rows only
   (`webhooks.py:92`), though deliveries are said to be at-least-once.
5. *More fetches than the limit* (`domain_limit`). DECR and DELETE are two commands
   (`domain_guard.py:119`).

Defined in the modules, false in the code as modelled, and without a run of their own:

| definition | what happens |
|---|---|
| `RunLifecycle.ChangeOnlyWithSuccess` with `AsyncAI = TRUE` | the asynchronous path commits before it looks at the rowcount (`pipeline.py:1053`): a change of a failed run is published |
| `RunLifecycle.CountedOnce` | a run failed by the reaper and by its own worker counts twice as a failure (`run_guard.py:213` and `:217`) |
| `NotificationOutbox.FailedAttemptSettles` with more attempts than messages | an alert stays PENDING: six messages for eight attempts, and the reaper leaves attempted rows to a retry that no longer exists (`notifications.py:30`, `:248`) |
| `WebhookDelivery.SucceededNotResent` | the manual retry, and a worker that finds the endpoint off (`webhooks.py:124`), write over SENT |
| `WebhookDelivery.OneDeliverer` with two schedulers | the second reaper takes a row that is being delivered again back to PENDING (`webhooks.py:90`) |
| `DomainSlots.NegativeCleared` | a failed DELETE leaves a negative counter until the counter is at zero or below again |
| `FailureAlerts.OutageAlerted` | the keys of a second outage are those of the first, so it is not announced (`failure_notify.py:56`) |
| `ChangeAlerts.RefusedAfterAlert` | a quiet period counts changes that were themselves refused, and two that wait for enrichment refuse each other (`conditional.py:316`) |
| `Digest.NoSeam` | a digest looks back 24 hours from its own pass (`digest.py:173`): a change after the pass of one day, and more than 24 hours before that of the next, is in none; nor is the 101st of a day (`digest.py:83`) |
| `Team.AlwaysOwner` | two requests that each take one owner away both count two (`enterprise.py:687`) |
| `Enrichment.OverrideNeedsKey` | one request clears the key while another adds a base; the call then falls back to the server's base, so no key leaks (`workspaces.py:123`) |
| `PageFetch.EdgeOnce` | child and parent may each ask the edge for one page |
| `Screenshots.NamesPicture`, `ShownWasCompared` | a notification names the key before there is a picture, or when the capture failed; the preview may be taken for the compared picture |

Shown by the models, where a text of the code promises more:

- *The daily quota* (`DailyQuota`). The limit itself is no bound: `create_monitor` with `run_now` inserts
  a run without a look (`monitors.py:518`), `manual_run` looks and inserts later (`:1116`, `:1169`), so
  one monitor has two runs at once. Scheduler and
  worker, or scheduler and request, may deadlock over the counter at any hour, not only while the first
  row of a day is inserted: the upsert waits for an increment that is not committed too.
- *The browser quota* (`BrowserQuota`). `browser_checks.py:39` has it "charged ONCE per run". The script
  does; its fallback (`:70-77`), whose look, charge and receipt are three commands, may charge a run
  twice, and two messages in the hook, a lost reply or a death may let in a run that was counted beyond
  the limit.
- *The time of a call* (`Enrichment`). `deadline_seconds` and `timeout` (`ai_summary.py:958`, `:987`)
  are no bounds on a call: the timeout holds for each connect, write and read at each address, the
  lookup of the host (`:617`) is outside it, and an answer that drips in is never cut off here.
- *Browser pages* (`PageFetch`). The page is tested for a challenge (`browser_fetch.py:133`) and read
  again, later and untested, to be recorded (`:147`). The address check of a request
  (`browser_fetch.py:109-112`) resolves the name by itself, apart from Chromium, so it says nothing certain
  of the address that is then connected to.

Seen while reading, without a definition:

- `digest.py:168` reads an hour of 0 as 14 (`or 14`), and `ai_summary.py:346` and `:398` a cache
  time of 0 as 600, where the comment at `:343` has 0 switch the cache off.
- `ai_enrich.py:151` overwrites a noise mark that the user set while the model was asked.
- `notifications.py:188`: after an exception the delivery log row of the attempt is committed as
  sent along with the failure.
- `update_workspace` and `update_monitor` write their audit row in a second commit.
- `live_events.py:115` keeps a client that was `None` at the first attempt for good; `reset_caches`
  assigns a local name instead of the module's `_sync_client_built`.
- `delete_monitor` leaves the pictures of its runs in the store.
- The branches for a blocked domain or address end a run without sending the outbox ids of its
  failure alert; the reaper does it later.
- A stale run that `manual_run` fails is not recorded as a failure.
- A page's address is validated once more before the edge is asked (`browser_fetch.py:331`), and a
  refusal there is raised past the ladder of fall-backs.
- `docs/integrations/n8n-zapier.md:75-78` describes a back-off and a `Retry-After` for webhooks
  which the code only logs.

## 6. Not modelled

- *Text and images*: extraction, diff, price and value thresholds, image hashes, prompts, model
  catalog contents, templates, feeds, branding. They are functions of one input; the modules let
  them return anything.
- *The domain guard's rate and circuit*: Redis counters with an expiry each; they decide whether a run
  goes on to its fetch, which is a choice among outcomes in `RunLifecycle` (`Raise`).
- *Tokens, storage bytes and monitor counts* of the plan: the same upsert and increment as
  `DailyQuota`, or one count within one request.
- *Channels, endpoints, proxies and read endpoints*: single-row requests.
- *Verification and hashing of tokens, encryption, request rate limit*: computed on one request at a
  time.
- *A run or monitor that is gone when its message arrives*: the first branches of
  `execute_monitored_run` (`run_guard.py:145-156`) drop the message, or fail a run without monitor;
  `RunLifecycle` removes no rows, so `Receive` begins at the gate after them.
- *Import, feeds, scans, migrations, frontend, Cloudflare workers*: no step of theirs depends on
  another process's; the frontend polls, the workers are proxies.

`PROJECT.json` states for each component what is modelled.

## 7. Plan

All modules planned at the start are written. In the order of use to a reader of the code, what
could follow:

1. `DomainGuard`: the rate window and the circuit around `DomainSlots`.
2. A contract for `ChangeAlerts` (each signal is decided once, then delivered) with `DeliveryContract`
   below it.

## 8. Running it

    tlc -workers 2 -config NotificationOutbox_delivery.cfg NotificationOutbox.tla
    tlc -workers 2 -config RunLifecycle_safety.cfg MCRunLifecycle.tla
    tlc -workers 2 -config MCMonitoring.cfg MCMonitoring.tla
    tlapm RunLifecycleProofs.tla
    tlapm WorkspaceProofs.tla

Each configuration is named after its module and run; those of `RunLifecycle` go with
`MCRunLifecycle`. The longest run takes two to three minutes, the longest proof a few minutes.
