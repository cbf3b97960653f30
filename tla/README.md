# TLA+ models of SmallStack's background machinery

SmallStack (`apps/`) is a Django platform: CRUD pages, REST and MCP derived from one
declaration, and, under them, a task runner, a scheduler, webhooks, approvals and a
newsletter.  Requests are mostly one read or one write; what is hard to get right is the
machinery that runs beside them, several processes on one database with no lock but the
conditional `UPDATE`, and the requests that load a row, think, and save it.  This directory
models both, checks them with TLC and proves part of it with TLAPS.

- [Inventory](#inventory): the parts of the system and what makes each correct
- [Modules](#modules): which module models what, and how
- [Runs](#runs): what TLC checks, within which bounds, under which fairness
- [Where the documentation and the code disagree](#where-the-documentation-and-the-code-disagree)
- [Proofs](#proofs)
- [Plan](#plan) and [what is not modelled](#what-is-not-modelled)

## Inventory

Everything below shares one database.  Unless a `transaction.atomic()` says otherwise the code
runs in autocommit: each statement is its own transaction, and between two statements of one
function any other process may run, or this one may die.  That is the grain of every model here.
Where the code is in a transaction, SQLite's IMMEDIATE mode (`settings`) makes it one step; a row
that was loaded before the transaction began may be out of date inside it.

### Tasks (`apps/tasks`)

*State.* `DBTaskResult` (of `django_tasks_db`: status, claimant, exception), `TaskAttempt` (the
chain a retry belongs to), `WorkerHeartbeat` (one row per worker process).

*Operations.* A worker claims a READY row, runs the body, records the outcome and sends
`task_finished`; the receiver `retry_failed_task` records a late completion or retries.  A thread
of each worker beats, and every fourth beat runs a reaper pass: fail the RUNNING rows of dead
workers, retry them, repair retries that went missing, detect reaped attempts that finished
after all, prune old heartbeats.  `chain_outcome` tells the scheduler where a chain stands.

*Hard.* Three paths retry the same failure.  A worker taken for dead may be frozen and come back.
A worker may die between any two statements, of the receiver too.  Two incarnations may share a
label.

*Correct when* a chain stays within its budget and no attempt is retried twice; a verdict of the
reaper is overruled by the truth and by nothing else; a cancelled retry never ran; a task is not
re-run after its worker died unless its policy consents; a missed retry is repaired and a double
execution noticed; a live worker that beats keeps its task and a dead one loses it.

### Scheduler (`apps/scheduler`)

*State.* `ScheduledJob` (cadence, `next_run_at`, `enabled`, `auto_retired`,
`schedule_overridden`), `ScheduledJobRun` (a slot and its task).

*Operations.* `run_due_jobs` claims a due job by moving `next_run_at` on, applies the overlap
guard and the catch-up policy, enqueues the task and records a run.  Operators run a job now,
edit it or reset it; `sync_code_jobs` reconciles rows with `@scheduled` specs;
`reconcile_run_outcomes` promotes runs from the chain's outcome.

*Hard.* Ticks overlap (cron, the HTTP endpoint, the beat loop).  Forms and syncs read a row and
write it back later.  The claim comes before the enqueue, which may raise or never happen.

*Correct when* a slot fires once; a dead worker does not wedge a schedule; a claimed slot leaves
a trace; a due job does not stay due for ever; an operator's decision outlives a sync.

### Webhooks (`apps/webhooks`)

*State.* `WebhookEndpoint` (enabled, failures), `WebhookDelivery`, `WebhookReceiver`,
`WebhookReceipt`.

*Operations.* A save fires `fan_out`, which inserts a delivery and enqueues `deliver_webhook`; the
task posts and records success, a retry time or death, and may disable the endpoint; the tick
claims due retries; replay copies a row; `incoming_webhook` verifies, drops what carries its own
origin and enqueues `dispatch_incoming`.

*Hard.* Ticks overlap; a worker may die between the POST and the record; an enqueue is
best-effort; two paired sites can answer each other.

*Correct when* a delivery has one sender at a time, a terminal one is final, a scheduled retry is
made, and an event does not run in circles.

### Newsletter (`apps/blog`)

*State.* `Issue` (status, counts), `Delivery` (one per subscriber and issue, claimed by compare
and swap), `Subscription` with tokens.

*Operations.* Queue, batch, cancel, finalize, reap stale claims, retry failed; subscribe, confirm,
unsubscribe.

*Hard.* A slow batch outlives its claim timeout; an issue is cancelled mid-batch; several rows
held in memory are saved later.

*Correct when* nobody is mailed twice for one issue unless a claim timed out, a sent delivery stays
sent, an unsubscribed reader is not mailed, and an issue is eventually finalized.

### Posts (`apps/blog`)

*State.* `Post`: status, `published_at`, `scheduled_for`, the markdown and the HTML rendered from
it, and, for a post made from a runbook page, `source_version` and `source_sync`.

*Operations.* Create, edit, publish, unpublish, schedule, archive, delete, from the console, the
studio, REST, MCP and commands; the tick `publish_scheduled_posts`; import of a page, resync by
hand, and the receiver of `document_written` with its task for the posts that follow it.

*Hard.* Most operations load a post and save every column of it later.  The console form saves
twice.  What tells a post of a new version of its page is one task, queued after the page's commit.

*Correct when* a post goes live only by somebody's hand or because its hour has come, once, and its
date does not move; what is shown is what the row says; a post that follows its page catches up and
one that does not is left alone; a due post is published whatever else is in the queue.

### Runbook documents and the search index (`apps/runbook`, `apps/search`)

*State.* `Document` (head version, number, a copy of its text, lock, archive), `DocumentVersion` and
its files, the retention policy, a row of the full-text index per document.

*Operations.* Keyed writes with or without `expected_version`, bundle import, the web views (edit,
overwrite, restore, metadata, lock, archive, delete), the two retention jobs, the index rebuild.

*Hard.* Keyed writes read afresh inside a transaction, views and jobs act on what they loaded.  The
index is written from the instance that was saved.

*Correct when* the head is the newest version and its copy in the row is exact; an optimistic lock
lets nothing be replaced unread; search has the text of the head.

### Heartbeat monitors (`apps/heartbeat`)

*State.* A row per beat, a summary per day, an epoch, maintenance windows.

*Operations.* Record a beat, fold beats past the retention into summaries, enter, change, close and
delete windows, reset the epoch, re-prorate summaries; compute uptime.

*Hard.* Runners overlap and one may die; a day crosses the retention boundary a beat a minute; staff
rewrite history.

*Correct when* every beat is counted once and uptime is what one would count by hand.

### Approvals and notifications (`apps/approvals`, `apps/notifications`)

*State.* `ApprovalRequest` (pending, then one of approved, rejected, canceled, expired), its
assignees, inbox rows.

*Operations.* Request under a cap, decide, cancel, expire (on a page load or by the sweep): a
conditional `UPDATE`, then a callback, an audit row and, on commit, bells and mail.

*Hard.* An approver, the requester and the sweep act at once, on copies they loaded; a process dies
between the claim and the last effect; the request is visible before its assignees are.

*Correct when* a request is decided once, its callback hears of it at most once and of the stored
outcome, whoever decided was entitled to, nothing of a decision is missing, and an overdue request
is closed.

### The rest

| Part | State it keeps | Why it matters here |
|---|---|---|
| `mcp` | OAuth codes and tokens | one-use codes; the JSON-RPC part is stateless |
| `feeds` | collected entries, fetch state | deduplication, back-off |
| `telemetry`, `activity` | logs with pruning | bounds by age and count |
| `smallstack` | nothing beyond the rows it edits | CRUD, REST, OpenAPI: stateless handlers |
| `accounts`, `profile`, `usermanager`, `tokenmgr` | users, profiles, login codes, tokens | one-use codes; the last superuser is guarded by a check before the act |
| `calendar`, `datasets`, `explorer`, `help`, `api`, `website` | registries, read-only views | none |

`PROJECT.json` lists the components with their status and every hazard at the line where it bites.


## Modules

A step of a model is one statement of the code, or one `transaction.atomic()` block.  What a
function has loaded into memory is part of its process's state, so that it may be out of date
when it is used.  `MC*.tla` give TLC the instances.

| Module | Models | Composes or uses |
|---|---|---|
| `TaskReliability` | `reliability.py`, the reaper's verdict, the `task_finished` receiver | the worker is reduced to claim, finish, report, crash |
| `TaskReliabilityProofs` | theorems about the above | extends it |
| `WorkerLiveness` | `heartbeat.py`, `db_worker`, the passes of `reaper.py` | the retry of a task it fails is left to `TaskReliability` |
| `WorkerLivenessProofs` | theorems about `WorkerLiveness` | extends it |
| `Scheduler` | tick, requests, sync, reconciliation on one job | a chain's outcome is one bit of `engine` |
| `SchedulerProofs` | theorems about `Scheduler` | extends it |
| `Webhooks` | outbound and inbound of paired sites, joined | the task queue is a bag of waiting `deliver_webhook` jobs; implements `DeliveryPromise` |
| `DeliveryPromise` | what becomes of one delivery | abstract |
| `WebhooksProofs` | theorems about `Webhooks`, the refinement among them | extends it |
| `Newsletter` | issues, deliveries, ticks, operator | a tick is a task of the `email` queue |
| `Posts` | the lifecycle of posts, their editors, the publisher's tick, the runbook bridge | the page is reduced to its version and its writes in place |
| `BlogProofs` | theorems about `Newsletter` and `Posts` | extends both |
| `Documents` | a document's head, versions, lock, retention, and its index row | joins `runbook` and `search` |
| `DocumentsProofs` | theorems about `Documents` | extends it |
| `Approvals` | requests, decisions, expiry and what follows them | instantiates `Notifications`; implements `ApprovalDecision` |
| `ApprovalsProofs` | theorems about `Approvals`, the refinement among them | extends it |
| `ApprovalDecision` | what the primitive promises to the code behind a kind | abstract |
| `Notifications` | the unread rows of the bell | used by `Approvals` |
| `Uptime` | beats, daily summaries, windows, epoch, the uptime figures | stands alone |
| `UptimeProofs` | theorems about `Uptime` | extends it |

**TaskReliability.**  `row` is `DBTaskResult`, `att` is `TaskAttempt` (parent, budget pinned or
not, cause, `superseded_at`, `retry_cancelled`), `proc` the workers, `calls` the `maybe_retry`
calls between their reads and the insert, `marks` the `_mark_superseded` calls between their three
UPDATEs.  `Report` is the receiver `retry_failed_task`, `Reap` one row of `reap_lost_tasks`,
`Repair` one row of `repair_missed_retries`, `DetectLate` one candidate of
`detect_late_completions`.  `InsertCall` is the savepoint with the two INSERTs, where the unique
`parent_id` decides between racing callers; `CancelRetry` is the UPDATE that asks for READY.
`Chain`, `StopsAt` and `OutcomeStatus` are `chain_outcome`, as functions.  Time is kept as the
sweeps see it: a row is fresh, past the grace, past the window.  A retry is claimable at once: its
`run_after` is left out, which only adds behaviours.  `Repair` leaves out the cap of a hundred candidates
a sweep (`REPAIR_BATCH`), so what is said of repairs is of no more candidates than that.

**WorkerLiveness.**  `hb` is `WorkerHeartbeat`, `pass` a reaper pass with the `now` it took at its
start, the rows it read and those it has judged.  A pass is `Begin`, `Judge`, a `FailTask` per
lost row and `Prune`.  `Beat` and `BeatFails` are one round of the heartbeat thread with its
miss counter and `REAP_EVERY`.  `StartPlain` is a worker of the stock `db_worker`, which has no
heartbeat and is judged by the orphan rule.

**Webhooks.**  Two sites, each other's peer.  `Event` is a save and the `fan_out` it fires; `Send`,
`Record`, `Bump`, `Check`, `Disable` are the statements of `deliver_webhook`; `Receive` is the peer's
`incoming_webhook` and `Dispatch` its handler, which writes again with or without `suppress_webhooks`.
`ReadDue` and `Claim` are `run_due_deliveries`.  `root`, the site where a chain of events began, and
`hops`, how many handlers have passed it on, are history fields.  `DeliveryPromise` is what a delivery may
count on: one numbered attempt at a time, none twice, none past the last, an end that stands, and no more
than that: it may be lost, which is what a pending row without a task or a worker comes to (`Outcome`).

**Scheduler.**  One job, its runs and the tasks it enqueued.  `Begin`, `Claim`, `Guard`, `Fire`,
`Record` are `_process_job` and `enqueue_and_record` statement by statement, with `Fails` for the
`except` branch and `Disable` for a task path that does not resolve.  `Guard` may find the outcome of the
previous run unreadable, which `_engine_result` answers with None and the guard reads as not active; where a
statement raises that only the loop of `run_due_jobs` catches, `Raise` and `CountError` are what happens.
`RunNow`, `Edit` and `Save`,
`ResetSchedule`, `SyncRead`, `SyncSpec`, `SyncRetire` and `SyncSave`, `ReadQueued` and `Promote`
are what other processes do with the same row.  Times are slots of an abstract clock.

**Newsletter.**  `delivery` is the ledger `queue_issue` fills, `worker` the ticks: `Tick` reaps
stale claims, `ReadPending`, `Claim`, `ReadClaimed` are `_claim`, `Check`, `Send`, `Record` are
`_send_one`, `Finalize` and `Close` are `finalize_issue` on the issue the tick has in memory
(`open`).  `CancelRead` and `Cancel`, `RetryFailed` and `Resume` are the operator's two-step
requests.

**Posts.**  `post` is the row, `req` what a process is doing with the post as it loaded it (`seen`),
`tick` the due rows a run of `publish_due_posts` has read and the time it took at its start, `queue`
the waiting `resync_post_task`s, `page` the document by version and writes in place.  `Load` is what a
view, tool or command does first; `Publish`, `Schedule`, `Resync` and the tick's `TickRow` then save
every column (`Save`), `Unpublish`, `Archive` and `Edit` the ones they name (`SaveFields`, which
raises when the row has gone).  The console form and REST update are `FormSave` then `FormRender`, a
create in the console or by REST `FormCreate`, a row without its HTML, then `FormRender`; the
studio saves and goes on with the button that was pressed (`AndThen`).  `WritePage` and `Notify` are a
page write and its receiver, which queues a task or, when that raises, resyncs inline.  A resync or a receiver
may raise, which is logged and dropped (`Swallow`), as well as die (`Die`).  A text is
the version and edit it came from, or what an author typed, so that the properties can tell where
each came from.  `past` is history: what has happened to a post that excuses it.

**Documents.**  One key, and one after another the documents it has had (`Pks`): `versions` holds the text
of each version's file and `doc` the row, which keeps its pk when it is deleted, so that `Create` starts a
new document at version 1 and `Mine` tells whether the row a process loaded is still the one there.  `Put`,
`PutExpected` and `Import` are the keyed writes, one transaction each; `Load`, then `Edit`, `Restore`,
`Save` or `Delete`, is a view; `ListDoomed`, `DeleteDoomed` and `Expire` are the retention jobs, under a
policy by count, none to keep included, or by age (`Aged`); `RebuildClear` and `RebuildRead` are the index
rebuild.  `IndexRow` is the signal that writes the index row from the instance that was saved, in a savepoint,
or that raises, which is swallowed.  A metadata edit with an upload is a `Save` followed by an `Edit`.

**Approvals.**  `Count`, `Save`, `Assign` and `Announce` are `request_approval`; `Load` and `Judge` a view
and `decide`; `Claim` the conditional UPDATE of `_claim`; `Callback` and `Effect` what `_finish` does next,
in order, where a call of `resolve` or `notify` may raise (`Raises`, as often as `MaxFaults` allows) and is
swallowed; `deaf` remembers the requests whose bells stayed for that reason.  `StartSweep` and `NextOverdue`
are `mark_expired`, by the sweep or by a page load with its limit.  `ApprovalDecision` is the promise: a
request gets one outcome, which stands, and its callback hears of that outcome at most once.  The refinement
maps `outcome` to the status of the row and `heard` to what the callback was told (`KeepsPromise`).

**Uptime.**  A minute is the unit.  `StartCheck`, `Record` and `EnsureEpoch`, a statement of its own,
are `run_monitor_check`, `PruneRead` and
`PruneWrite` the two halves of `prune_old_heartbeats`, `OpenWindow` to `CloseWindows`, `ResetEpoch` and
`Reprorate` what staff do.  `DayUptime` and `Overall` are the figures of `status.py`, as functions of
the rows.  Days are those of `TIME_ZONE`, as in the code's queries, but `status.py` takes `.date()` of times
in UTC at the boundary between summaries and rows: `UTCDay` is that date, and `Overall` is a function of the
zone.

## Runs

Every run finishes; the sizes are distinct states.

| Run | Instance | States | What it shows |
|---|---|---|---|
| `tasks_races` | 3 rows, 2 workers, a task with a declared budget of 2 and one with none, pins {none, 2}, 1 root, 3 calls in flight | 390 k | no attempt is retried twice, only the reaper forks a chain and no chain outgrows its budget; consent; a late completion's marks are true and a cancelled retry never ran; a verdict is overruled by the truth alone |
| `tasks_live` | 2 rows, 2 workers, 1 call | 73 k | a missed retry is repaired; a double execution the reaper caused is noticed |
| `workers` | 2 processes, 1 task, thresholds 1, retention 2, clock to 3, a pass every 2nd beat, 2 missed beats | 355 k | nobody fails the task it executes and a worker that beats keeps its task; a heartbeat that holds a task is not pruned by a pass that could have failed it; a dead worker's task is reaped |
| `webhooks` | 2 sites, 1 cascading, 2 deliveries, 1 worker, 2 ticks, 2 attempts, disabling after 2 failures | 122 k | implements `DeliveryPromise`; one sender per delivery; no chain of events is longer than the row of cascading sites; a scheduled retry is made |
| `webhooks_pending` | as `webhooks`, none cascading | | disagreement, below |
| `scheduler` | 2 mortal ticks, 1 request of any kind, clock to 2 | 2.9 M | a slot fires once, and one fire is all that what a downtime missed comes to; a dead worker does not wedge the schedule |
| `scheduler_live` | 1 tick, 1 request | 96 k | a claimed slot leaves a run or a counted error; a due job is decided |
| `newsletter` | 1 issue, 1 reader, 2 ticks, batches of 1, 2 a tick, 2 attempts | 740 k | a second copy has an excuse; sent is terminal; a send ends |
| `posts` | 1 post beside a scheduled one that raises, 1 page with 3 versions and 1 write in place each, 1 author, 1 writer, 1 worker, 1 tick, clock to 2, 4 acts | 318 k | a post goes live as meant, once; its text changes by its author or its page; what is shown is what the row says; a due post goes live; a follower catches up |
| `documents` | 2 documents of one key, 2 versions each, 3 texts, policies of 0 and 1, 1 view, 1 job | 5.5 M | the head is the newest version; what the optimistic lock misses; search follows |
| `approvals` | 2 requests of one requester, an assignee, a retired one, a staff member, cap 1, 1 web process, the sweep, 1 fault (a death, or a bell that raises) | 1.35 M | implements `ApprovalDecision`; a decision has all its effects; only those named decide; what the cap can miss; overdue requests are closed |
| `uptime` | 2 runners, days of 2 minutes, retention of 1 day, clock to 4, 2 plans, 2 acts, zones of 0, 1 and -1 | 1.36 M | a beat counts once; the overall figure is the hand count, what it owes twice west of UTC and what it leaves out; folding changes no day's uptime |

Each module's `TypeOK` is checked in its main run: as an invariant of its own, or as the first conjunct of
the run's main invariant.

**Why the bounds suffice.**  Each names a case it must contain.  Three rows hold an attempt, its retry and
one more, which a budget of two forbids and a racing caller would need.  Three calls in flight are the
receiver, the reaper and the sweep on one attempt.  Two processes are a judge and a judged, one incarnation
and its successor.  The webhook attempts and failures reach both limits.  The scheduler's clock reaches a
second slot after the first and the stale threshold between them.  A post takes three versions to be
imported, followed, made manual with its resync still queued and then written again, four acts to get there,
and a clock of 2 for the tick that read a post its author reschedules.  One post per page is what the unique
(blog, document) constraint allows in one blog; a second blog's follower would be told by the same loop.
Two versions of a document are a head and the one it should have stayed on or retention may take, two
documents the one a client has read and its successor under the key, whose first version has the number the
client knows; each text is written once, which bounds the writes at three; one view beside atomic keyed
writes is the stale copy and what overtakes it.  Two requests and a cap of one are the least that two
filings can pass.  One fault is a death between two effects or a swallowed call, which no second one undoes.
Two days of two minutes hold a day that is half folded and one that is not begun, and a zone of one minute
is half a day off; `uptime` lets write transactions overlap (`Serial = FALSE`, PostgreSQL) and does not look
beyond the first fold that ran beside another (`NotTorn`).  The newsletter's two ticks are the slow batch
and the one that reaps it, and two batches a tick let a tick meet its own stale issue.  That run has one
issue, so the constraint of one live campaign per post (`Allowed`) never refuses there; two issues are
beyond five minutes and are left to the next step of the plan.  Symmetry is used for safety runs only.

**Fairness.**

- *Tasks.* The sweeps run every minute, in the heartbeat thread of every worker and by command:
  strong fairness for `Repair` and for the steps of a call, because a statement may raise but not
  each time, and because the model admits a bounded number of calls.  Nothing is assumed of the
  worker that failed: it may die for ever.
- *Workers.* Weak fairness for a live process's beats and passes: the thread logs an exception and
  loops.  From some time on the database answers.  A process that died owes nothing.
- *Webhooks.* Weak fairness for workers and for time; strong for a tick's claim, since another tick
  may take a row between.
- *Scheduler.* Weak fairness for the process under way.
- *Posts.* Weak fairness for the writer that has yet to run its receivers, for the worker of the default
  queue and for the tick, which the scheduler queues every five minutes.  A process may die with what
  it holds; `past` then says `missed`, and nothing is promised of that version (`stale_autosync_count`
  is the monitor that reports it).  Nothing is assumed of an author: a request that is never finished
  is one that died.
- *Approvals.* Weak fairness for the sweep, fired every five minutes, and for the worker running it.
- *Newsletter.* Weak fairness for the ticks and for a claim's ageing.  From some time on no worker
  dies and a batch ends within its claim timeout: if each batch outlived its claim, each would be
  reaped before it could read what it claimed, and the send would not end.

`documents` and `uptime` state safety only: their promises are about what is there.

`CHECK_DEADLOCK FALSE` is set throughout: the clocks and id sets are bounded, and a quiet system with
nothing enqueued does stop.

**Mutants.**  Each property of each passing run has one: an operator next to the definition it
replaces, which drops a guard, reads a counter one off or skips a step as a slip in the code would.
`PROJECT.json` lists them.

## Where the documentation and the code disagree

`webhooks_pending` is a run: TLC finds the property violated.  The other four properties marked *stated*
stand in their modules and TLC violates each; the traces are given here and no run is kept for them.

| Property | What is said | What happens |
|---|---|---|
| `PendingPickedUp` (run `webhooks_pending`) | "leaves the row PENDING for the tick to pick up" (`webhooks/services.py:191`) | the tick reads RETRYING rows only: event, enqueue raises, nothing reads the row again |
| `RetryingIsOnItsWay` (stated) | RETRYING: "another is on its way" (`tasks/reliability.py:497`) | an attempt is reaped, its retry queued, the original comes back and fails: the READY retry is cancelled, and the chain reads RETRYING for an hour though its child row exists and no path retries it |
| `EchoDropped` (stated) | "a self-originated event echoed back by a peer is dropped" (`webhooks.md:200`) | *a* sends, *b*'s handler (registered `cascade=True`) writes and fans out, *a* accepts: a delivery carries its sender's origin, so the echo carries *b*'s |
| `OperatorDisableSticks` (stated) | "Deliberate operator intent is never overwritten" (`scheduler/registry.py:17`) | the sync retires a job, an operator enables it, later disables it, the spec comes back: `auto_retired` outlived both and the sync enables the job |
| `CancelStopsTheRest` (stated) | "this only stops the rest" (`blog/service.py:1167`), "must stop further delivery" (its test) | claim, cancel, next message: the batch already loaded is sent to its end and its SKIPPED rows become SENT |

More, found while modelling:

- `detect_late_completions` reads its first hundred candidates in an order that never changes, so a
  hundred that cannot be settled hide the others for as long as the window lasts; `tasks_live` gives
  the sweep room for all.  `repair_missed_retries` takes the hundred oldest, and a hundred refused ones hide
  newer ones until they leave its window.  In the same way two hundred scheduled posts that raise would keep the
  publisher's tick from every later one (`PostsAssumption` has fewer of them than the limit).
- `SentIsTerminal` needs its exception: of two batches that hold one delivery, the one that was reaped
  writes its own outcome over the other's SENT.
- `prune_old_heartbeats` says its transaction keeps "the aggregate-then-delete pair" from being "torn by
  a concurrent prune".  With SQLite's IMMEDIATE it does.  Under PostgreSQL's read committed two prunes
  read the same old beats, both add them to the summary and one deletes nothing: the day counts them
  twice (`torn`, with `Serial = FALSE`).
- `publish_post` says a double click "cannot quietly move a post's date".  Two requests that loaded the
  draft before either saved move it, and so does one that overlaps the tick; the same whole-row save
  undoes an unpublish or a reschedule made since the load, and inserts again a post that was deleted.
  `GoesLiveAsMeant` names the three ways: somebody publishes a copy that is out of date, a tick
  publishes what was due when it read it and has been put off or taken back since, and a process that had
  read a live row saves it, date and all, after it was taken down.
- `receivers.py` says posts follow their page.  A page written in place keeps its version, resync compares
  versions and skips, and the monitor `stale_autosync_count` compares the same, so neither shows it.  A
  resync that was queued while the post was `auto` overwrites it after it became `manual`, if the page
  was written again since (`leftover`), and an editor opened before a resync puts the old text back
  under the new `source_version` (`retyped`).
- A resync that raises is logged and not repeated (`tasks.py:30`): the post stays behind its page until the
  next write or somebody's resync (`missed`, as after a death).
- `publish_document` publishes a scheduled post and leaves `scheduled_for` on it.
- Scheduler: an outcome the guard cannot read counts as a run that is over (`services.py:251-254`), and only
  the newest queued run is looked at, so a job without `allow_overlap` may fire beside an unfinished run.  No
  property bounds that: what is checked is that the guard errs to that side alone (`NeverWedged`).
- Approvals: `OnlyNamedDecide` has the exception `hasty`, a staff member who decides between the insert of the
  request and of its assignees; `SettledIsComplete` the exceptions `orphaned` (no repair of a `_finish`
  that died), `late` (bells rung after the decision retired them, which no one retires again) and `deaf`
  (`resolve` raised and was swallowed, `notifications/services.py:125-127`, nor is that repeated).  A `notify`
  that raises loses its bell in the same way; a bell may be cleared by its reader at any time, so no
  property tells the two apart.
- Documents: a view's `form.save()` writes back the head it loaded, after which every new version collides
  with the unique (document, version); `expected_version` cannot see what was written in place, nor that the
  key was deleted and created again, whose versions start at 1 (`reborn`).
- A policy that keeps nothing (`max_versions` or `max_version_age_days` of 0) spares the head as the prune
  loaded it: a version written in between is deleted though it is the head by then.
- An index write that raises is swallowed (`search/signals.py:45`, `:60`) and leaves the document under its
  old text, or a deleted one to be found, until the next save or rebuild (`blurred`).
- Uptime: `status.py` compares dates in UTC with days of `TIME_ZONE`, which by default is America/New_York.
  West of UTC the minutes between the two midnights of the boundary are expected by the summary's term and by
  the rows' term, so the overall figure owes up to the offset too much (`OverallByHand` bounds it by that).
- What `OverallByHand` calls a `Gap` is in neither term, of the good minutes and of the owed ones: minutes
  before the oldest row, of a day without any beat or, for as long as a day is being folded, of the part of it
  that has been folded already.
- A death between `update_or_create` and `ensure_epoch` leaves beats without an epoch row until the next
  check, and an epoch that begins after beats of its own day leaves that day's summary with more beats
  than it expects; `OverallByHand` says so.

## Proofs

Eight modules, one per component (the two of the blog share one), each checked by TLAPS from its component's
assumption on the constants alone.  A theorem holds for every number of processes, rows, texts and times,
where the run of the same property shows it on one small instance; the bounds of the instances stay in the
theorems as arbitrary numbers.  The pattern is the same throughout: an inductive invariant, checked by TLC
first over the states of the component's run; one lemma per action; the properties as consequences of the
invariant, or of a step that starts in it.

| Module | Assumes | Inductive invariant | Theorems |
|---|---|---|---|
| `TaskReliabilityProofs` | `ConstantsAssumption`: a policy has the shape `@retry_policy` accepts | `TypeOK`, `ConsentInv`, `ChainInv` | `TypeCorrect`, `ConsentRespected`, `BudgetNeverExceeded`, `MarkerIsTrue`, `VerdictsStand` |
| `WorkerLivenessProofs` | `ClockAssumption`: a heartbeat is kept at least as long as a worker may be silent | `PoolInv` | `ErrsTowardsLife`, `PruneSpares` |
| `SchedulerProofs` | `SchedulerAssumption`: cadences are ones that compute | `FireInv`, `NeverWedged` | `OneFirePerSlot`, `NoWedge`, `OneFirePerBacklog` |
| `WebhooksProofs` | `WebhooksAssumption`: a peer is another site | `SendInv`, `AttemptInv`, `Chained` | `NeverTwoSenders`, `DeliveryKeepsPromise`, `FinalIsFinal`, `NoEventCircles` |
| `BlogProofs` | `NewsletterAssumption` | `LedgerInv` | `NoSecondCopy`, `SentStays` |
| `BlogProofs` | `PostsAssumption`: fewer posts that raise than the publisher's limit | `PostsInv` | `RowsKeepTheirDates`, `ReadersSeeTheText`, `LiveIsMeant`, `TextIsMeant` |
| `ApprovalsProofs` | `ApprovalsAssumption`: staff and the active are users | `IInv`, `CapInv`, `Entitled`, `OneFinish`, `BellsRetired` | `TypeCorrectness`, `OneOutcome`, `CapHolds`, `OnlyTheNamed`, `SettledHasAll` |
| `DocumentsProofs` | `DocumentsAssumption` | `DocInv`, `IndexInv` | `HeadHolds`, `LockHolds`, `IndexHolds` |
| `UptimeProofs` | `UptimeAssumption`: a check takes less than the retention | `FoldInv`, `ScoreInv`, `FoldedFirst` | `CountsHold`, `UptimeStays`, `OverallIsByHand` |

**TaskReliability.**  `TypeOK` is inductive: it says too that a worker holds a task exactly while it runs it
or has yet to report it.  `LostRetryNeedsConsent` is not, because a call decides first and inserts the row
later: `PendingHasConsent` says that a call which has decided has consent already, and `UnusedIsFirst` that
an id never used carries the record of a first attempt.  `DecisionConsents` is where the policy is looked
at, `ConsentCreated` where the row appears.  `ChainInv` has five parts.  `RowsInv` and `HoldersInv`: a row
is run by its claimant and no two workers share one.  `LineInv`: a chain is a line, no two of its attempts
have one number, and the parent of a child has ended and, unless it was reaped, nobody runs it any more.
`CallsInv`: a call about to insert still has the budget.  `MarksInv`: what a late completion recorded is
what the worker reported. That a chain is a line, whatever number of callers race, is where the unique
`parent_id` goes in. `SameChains` is what every step that creates no row leaves alone, so that only
`InsertCall` is argued at length.

**WorkerLiveness.**  A pass judges rows that others go on beating and pruning, and fails tasks later.
`PoolInv` says that what it concluded lasts: `Doubts`, that a task somebody executes is thought lost only
for a reason that stays true while it is executed; `PassKnows`, that the running tasks a pass did not find
lost have a heartbeat its prune will spare, for which the retention must not be below the threshold.

**Scheduler.**  `SlotsInv` is the argument: a slot that a process holds between claim and enqueue, or that a
task was enqueued for, is one `next_run_at` has left behind (`Past`), unless a form has turned it back
since (`rewound`).  A claim compares `next_run_at` with what it read, so it cannot take such a slot.
`NextRunLater` is what the cadence arithmetic owes it.  `BacklogFiresOnce` needs more of the same: a claim
moves `next_run_at` beyond the time of its tick, not just beyond the slot, so a tick that fired leaves nothing
due at its time, and whoever holds a later slot took it after that (`Apart`, for the tasks enqueued and for
the slots still held).  `NeverWedged` is inductive given `FireInv`.

**Webhooks.**  `SendInv`: a delivery has one task at most, queued or sending, and only while it is pending;
a retry time only while it waits.  A claim that finds the time it read therefore finds nobody sending.
`LeftAlone` and `AloneKept` deal with every step on another delivery.  `NoRunaway` quantifies over the
rankings of the sites that fall along every push to a cascading site; `Chained`, for each of them, says that
what an event has spent in hops and the rank of where it is are no more than the rank of where it began,
whichever of send, retry, replay, receipt or dispatch carries it on.  `DeliveryKeepsPromise` is `Spec =>
KeepsPromise`: `Webhooks` implements `DeliveryPromise`.  `Create` maps to `Open`, `Start` to `Begin`,
`Record` to `Finish`; a crash in the middle of an attempt and a claim whose enqueue failed map to `Lose`
(`NobodyLeftLoses`); every other step is a stutter (`AsideStutters`).  A `Record` is a `Finish` only if the
number the worker read before it sent is still the one before its own, which is what `AttemptInv` adds.
`FinalIsFinal` says a little more than the promise, that no column of a terminal row is rewritten, and is
proved by itself.

**Newsletter.**  `LedgerInv` speaks of deliveries no claim on which has timed out.  `HeldBy` and `HeldOnce`: one
worker holds it at most, the one whose claim the row carries.  `CopyOnce`: once its message has left, the
row is recorded, given up on, or held by the worker that knows.  `NotYet` says that a worker has not claimed
what it is about to, without which a claim would look like an old one of its own.

**Posts.**  `ShowsWhatItSays` is not inductive: a form is "between its two saves" only if the second one will
happen, and the unique `source_document` may refuse it.  `Mending` adds that the row the form holds follows
the page only if the post does, `OneFollower` that then no other post does.  Every save goes through one
lemma, `SaveKeeps`: a row that shows its own text, or leaves a form that will mend it or a history that says
why not, keeps the invariant.  `Ripe` says of a tick that the rows it holds were due when it read them, and
`Dated` of every row, saved or only loaded, that its dates go with its status.
`LiveIsMeant` and `TextIsMeant` split a step by the process that takes it: the row a process saves is the one
it loaded, changed as its operation asks (`RequestStep`, `TickStep`, `ImportStep`), so either that copy was
the row, or another process overtook this one.  `TextIsMeant` excuses that (`Overlapped`); `LiveIsMeant` does
not, and says instead what a stale copy can do to what is live (`Leaves`): nothing, unless the copy is of a
live row, or its process publishes.  The tick publishes the
earliest of the due rows: that there is one is `Least`, the least element of a set of numbers, which the
library's well-founded induction gives without an operator as parameter.

**Approvals.**  `OneOutcome` is `Spec => KeepsPromise`: `Approvals` implements `ApprovalDecision`.  `Save` maps
to `File`, a `Claim` that finds its row pending to `Settle`, `Callback` to `Tell`, and every other step to a
stutter (`SaveFiles`, `ClaimSettles`, `CallbackTells`, `StepRefines`).  A `Save` is a `File` only if the row
was absent, and a `Callback` a `Tell` only if the outcome was settled and nobody was told: that is what
`IInv` adds to the types (`AtWork`, `OneClaim`).  `CapHolds` needs that finitely many filings have begun,
whatever `Requests` is (`CapInv`).  `OnlyTheNamed` needs what `Judge` found to hold until the claim
(`Entitled`).  `SettledHasAll` needs that one process finishes a request, effect by effect (`OneFinish`), and
that no bell rings after it was retired, where it was (`BellsRetired`, but for `late` and `deaf`).

**Documents.**  `DocInv`: until a view acts on a head that is no longer the head, the head of a document moves
to newer versions only, and a document to its successors only (`Advances`).  So what a prune has listed stays older
than the head, or belongs to a document that has gone, and a version number a client has read is behind, or
differs from the row's text by what was written in place, or is of a former document (`Fresh`).
`IndexInv`, of each document the key has had, is preserved because a step either indexes the row, leaves both
alone, leaves somebody who still has to (`Pend`), or marks it `blurred`.

**Uptime.**  `FoldInv`: what a runner still records is younger than what any fold has read (`CheckIsYoung`,
where a check must take less than the retention), so a batch stays, until it is folded, exactly the old
rows split as maintenance splits them now (`Timely`).  `FoldParts` says what a fold then makes of a day:
three disjoint parts of its rows go over to its three counts.  `CountsHold` and `UptimeStays` are
arithmetic on that.  Nothing is assumed of `Serial`: where write transactions overlap, the history variable
`torn` says when.

`OverallByHand` needs `ScoreInv`: a day with a summary is over, because a beat of the retention's age has its
whole day behind it (`FoldScores`, where the retention must be no shorter than a day), and until staff rescore
it the summary's two terms are the sizes of two sets of its minutes (`Scored`, `Owed`).  What `Overall` adds up
is then the size of the union of those sets: `TotalIs`.  The prover takes no induction principle over sets, so
`SumOfParts` takes a smallest set of days for which that fails (`Least`) and shows that it does not; and the
recursive function inside `MapThenSumSet` exists because the sizes of the unions are one (`TotalIs`).  The hand
count is of the minutes themselves.  That no beat is in both terms is `GoodOnce`; that what is owed in both lies
between the two midnights of the boundary, `OwedTwice`; and that in UTC what is in neither is a `Gap`,
`GapIs`, which needs that rows leave the oldest first (`FoldedFirst`).

Three assumptions were added for the proofs.  Two say of `None` what its use as NULL means:
`DocumentsAssumption` keeps it apart from the texts, `UptimeAssumption` from minutes and statuses.  The third,
in `PostsAssumption`, is that the posts are finitely many, without which the size of a tick's batch means
nothing.

Only model-checked:

- every liveness property (`MissedRetryRepaired`, `ReaperRerunNoticed`, `DeadWorkersTaskReaped`, `RetryComesRound`,
  `ClaimedSlotLeavesARun`, `DueIsDecided`, `IssueFinalized`, `OverdueEnds`, `DueGoesLive`,
  `AutoPostCatchesUp`): fairness and `ENABLED` are out of the prover's reach.

Every other property of a passing run is a theorem.  `TerminalIsFinal` is one without a run: `webhooks` checks
`KeepsPromise` instead.

## Plan

1. Proofs: abstract specifications implemented by two more of the modules that are proved about already (a
   slot fires once, `Scheduler`; a chain is a line of attempts, `TaskReliability`), each from its invariant.
2. *Access*: OAuth codes and refresh tokens, login codes, API tokens and the last superuser, each one
   use or one check before an act.
3. *Newsletter* with double opt-in (`subscribe`, `confirm_subscription`, `unsubscribe`, their tokens).
4. *RunOutcomes*: `last_status`, `total_runs` and the failure mail; backoff arithmetic as functions.
5. The feed collector, telemetry's pruning.

## What is not modelled

- Backoff values and `Retry-After`, signatures, URL and peer screening, event patterns, pairing of
  endpoints: conversions or one-step checks without state that outlives them.
- Calendar arithmetic, time zones (but for the offset of `Uptime`'s days) and the cron syntax: times are
  abstract; a cadence is periodic, once or broken.
- Suppression of subscribers: any subset of the confirmed may be an issue's audience.
- Database errors inside a transaction: a transaction happens or does not.  Isolation is read
  committed at the grain of a statement.
- CRUD, REST, OpenAPI, MCP dispatch, search parsing, feed rendering and the read-only pages: a request
  is one read or one write.  `PROJECT.json` gives each part's status.
- OAuth, login codes, tokens, feeds and telemetry keep state and are left for the plan.
- Posts: slugs, tags, covers, visibility, who may edit what, archived pages, blogs other than the one.
- Documents: runbooks and sections, templates and clones (new documents), images, subscriptions.
- Uptime: the checks themselves, `--repair-summaries`, timelines and calendars, the current state and its
  colours, rounding, the viewers' time zones, daylight saving, several monitors and surfaces; windows that
  begin or end within a minute, whose seconds the code's two terms floor separately.
- Tasks: the cap on the candidates of a repair sweep.  Scheduler: how many runs may overlap.
- Approvals: a kind's own hooks and the text of mails and pages.
