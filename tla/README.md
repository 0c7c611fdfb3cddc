# Verification of the 西虹 ERP data pipeline

TLA+ models, TLC model checking and TLAPS proofs for the parts of this
repository whose correctness depends on order, failure and concurrency. Paths
below are relative to `src/`.

## 1. Inventory

The program is a FastAPI backend with Celery workers and PostgreSQL (several
schemas), a Playwright-driven collector, and a Vue frontend. It collects reports
from e-commerce platforms, ingests them into `b_class.fact_*` tables, mirrors
those tables to a cloud database, refreshes projections from them, and runs
inventory, approval and payroll processes on top.

| Component | State | Operations | What is hard | What makes it correct |
|---|---|---|---|---|
| Ingestion (`raw_data_importer.py`) | `b_class.fact_*` rows, stamped with `ingest_timestamp` | build and stamp records, upsert and commit per chunk, skip a failed chunk | stamps precede commits, the clock may give one stamp twice, an upserted row keeps its id | rows become visible in the order of `(ingest_timestamp, id)` (assumed by the sync) |
| Cloud table sync (`cloud_b_class_sync_service.py`, `..._checkpoint_service.py`) | mirror rows in another database, one checkpoint per table and scope | read a batch beyond the checkpoint, upsert it in the cloud, advance, enqueue the projection refresh | two databases, crash between them, overlapping executions, repair while running | nothing skipped; mirror current; executions end; success means delivered and projected |
| Sync task queue (`cloud_b_class_auto_sync_*.py`, `event_listeners.py`) | `cloud_b_class_sync_tasks`: status, owner, lease, attempts, error code | dispatch or coalesce, claim, heartbeat, finish, recover stale | claims without locks, expired leases of live workers, crash between claim and outcome | running rows reclaimable and run; tasks settle; completed means synced; no event lost |
| Auto-recovery (`cloud_sync_auto_recovery_service.py`, Celery job) | the same rows | requeue recoverable failures, stale rows | unlocked read-modify-write, LIMIT | recoverable rows return to the queue |
| Admin commands (`cloud_sync_admin_command_service.py`) | tasks, checkpoints, run rows, settings | trigger, catch up, retry, cancel, recover, repair, pause | act on rows that workers own | a cancellation holds; a command never strands a row; repair loses nothing |
| Sync runs, task-center mirror (`task_center_sync_service.py`, `_update_parent_run`) | `cloud_b_class_sync_runs`, task-center rows | aggregate task statuses, mirror them | written in later commits | a run ends when its tasks have |
| Projection refresh queue (`data_pipeline/refresh_queue_service.py`, `tasks/refresh_queue_tasks.py`) | refresh rows, the targets' data | enqueue with dedupe, claim, run the plan, validate and repair, time out, complete, retry | check-then-act claim, timeout racing completion, failing failure handler | one refresh at a time; a completed row has served its triggers; projections never go back; open rows end |
| Collection runs (`collection_config_run_service.py`, `collection_queue_runner.py`, `collection_tasks.py`) | tasks and runs, verification codes | enqueue, claim, expand, execute, verify, cancel, fail, finalize, recover at start-up | every handler reads, then writes over what came between | one run at a time; a completed run is whole; verdicts stand; the queue drains |
| Session coordinator, leader lock | in-memory locks, advisory lock | acquire, release | cancellation, pooled connections | mutual exclusion; no leaked waiter |
| Inventory layers (`inventory/`, `bulk_importer.py`) | layers, consumptions, ledger, opening balances | receipt, adjustment, batch of orders, opening balance, balance page | unlocked read-modify-write, one transaction for a whole import | quantity is conserved; first in, first out; posted once; pages agree |
| Approval center, payroll locks, verification hand-over | instance and step rows; records; request/response rows | submit, approve, withdraw; lock, generate; ask, answer | commands in unexpected states | legal state sequences |
| Data sync and template mapping, dashboard, cache, executor, auth, frontend, migrations | - | - | data transformation and I/O | not modelled |

The flow: an importer commits rows and emits `DATA_INGESTED`; the event
listener calls the dispatcher, which inserts a task or counts the event on a
runnable one; a runtime thread recovers stale tasks, claims the lowest-id
claimable one and runs `sync_table` under a heartbeat thread; `sync_table` moves
batches and the checkpoint, then enqueues a projection refresh; the worker
commits the outcome on the task. An auto-recovery job and the console change
the same rows from other processes.

A refresh is enqueued after a cloud sync, by the `DATA_INGESTED` listener and by
a safety net; Celery beat starts a pass of the refresh queue every minute, in
whichever worker process is free. The leader process runs collection runs one
after the other, and each ends in files that the ingestion takes up. Orders
imported in bulk are posted to the stock in the import's own transaction;
receipts, adjustments and opening balances come from request handlers.

## 2. Modules

| Module | Models |
|---|---|
| `CloudMirror` | abstract contract of the mirror of one table: rows arrive, are delivered, are claimed by a checkpoint only once delivered; an execution reports `completed` only when all that was visible at its start is present |
| `CloudTableSync` | `sync_table` with reader, writer and checkpoint service, one step per database transaction; the ingester's stamp / commit / skip; row deletion; `repair_checkpoint` and `_table_needs_catch_up` |
| `CloudTableSyncProofs` | theorems about it |
| `CloudSyncQueue` | the task table and everyone who writes it: dispatcher, worker loop, heartbeat, recovery, auto-recovery, admin commands, crash and restart, passing time |
| `CloudSyncQueueProofs` | theorems about it |
| `RefreshQueue`, `RefreshQueueProofs` | the refresh queue, its enqueuers, Celery workers and operators, and what the projections show; theorems |
| `CollectionRun`, `CollectionRunProofs` | the queue runner with the tasks of its run, start-up recovery, and the requests that change runs and tasks; theorems |
| `StockBook` | abstract contract of the stock of one SKU: documents are booked together or not at all, each once, and the stock moves by what they say |
| `InventoryLayers`, `InventoryLayersProofs` | ledger, layers and consumptions of one SKU under concurrent postings; theorems |
| `InventorySumsProofs` | the theorems about its totals: consumptions, ledger, opening balances, layers |
| `InventoryBookProofs` | that it implements `StockBook` |
| `Sums`, `SumsProofs` | the sum of a function over a finite set, and what is proved about it |
| `MC...` | instances and symmetry sets for TLC |

### CloudTableSync

One table. A row is its sort key `[at, id]`, and so is a checkpoint; `at = 0` is
"no row", and NULL for a checkpoint. `Stamp` hands out the clock's value, which
may be the same as before, for one record; `CommitChunk` commits a chunk later, in
which an upserted row keeps its id and a new one gets the next. Contents are
identified with sort keys, because every upsert restamps the row (all data
domains upsert and list `ingest_timestamp` among the updated fields), so
`cloud[k] = local[k]` means the mirror is current. An update that ties with what
is already committed is the exception: chunk 1 commits a new row (T,1000), the sync
checkpoints it, chunk 2 commits an update (T,5), which no later batch selects. The
ghost `tied` notes it, and the freshness properties except it. `Keys` is the unique
key of the importer. The cloud's conflict key names other columns for the
services domain, but `data_hash` is a digest over platform, shop, domain,
granularity and sub-domain too (`deduplication_service.py:232`), so the two keys
tell the same rows apart.

An execution is `StartSync`, then rounds of `ReadBatch`, `WriteCloud`,
`Advance`, `RefreshCheckpoint`, then `Project`; the checkpoint advance is two
steps because another session may commit between `commit()` and `refresh()`.
`mem` is the checkpoint object in the session, `ckpt` the row. The UPDATE writes
only the columns in which the object differs from what it had loaded, so two
overlapping executions can store the timestamp of one and the id of the
other; `torn` notes that such a mixture went beyond both what the row held and
what the execution had reached. `Fail` is an exception, a failed write, or a
death of the process, at any step. `dirty`, `goal` and `lastAt` are ghosts as well.
Dry runs (which neither write nor advance) are left out.

### CloudSyncQueue

A row keeps the fields that control reads: status, owner, lease (none, live,
expired), whether a retry is due, attempts, class of error code, and whether its
recorded scope differs from the deployment's. Dispatch, claim, recovery, the
auto-recovery job and every command take two steps, a SELECT and a later UPDATE.
What was read is kept (`find`; `snap` for a worker; `desk` for a *clerk*, a session
of a command or of the auto-recovery job), and the UPDATE writes only the columns
whose new value differs from the one read (`Merge`), as the ORM does. So a retry
that read a row as pending and commits after it was claimed writes no status and
clears the lease of a running row. Heartbeats and finishes read and write within one
short transaction and are one step.
The `sync_table` call is abstracted to the moment of its last read
(`SyncReads`) and its result. `attempts` saturates one above the limit, since the
code only compares it with the limit. `Crash` is the death of a process and
`Restart` the start of the next. `LoopEnds` is the runtime's loop ending in status
"error": nothing in the living process starts it again, so nothing in the model
does. The heartbeat thread is
joined before the outcome is written; that the join may time out is left out.
`ChangeScope` stops the deployment and starts it with another cloud URL, so it
asks for all workers to be down.

Not in this model: events lost when the enqueue raises
(`event_listeners.py:232`), the run rows and the task-center mirror.

### RefreshQueue

A *key* stands for a dedupe key: one pipeline with its targets. Two keys of the
code may name common targets; the model gives each its own, so it says nothing of
what one key's refresh does to another's. What a
projection holds is abstracted to how many ingestions it shows (`fresh`); `asked`
is a ghost, what the triggers merged into a row reported. No operation locks a
row, so each is a read and a later, unconditional write: `StartEnqueue` /
`CommitEnqueue`, `BeginPass` / `FailStale`, `CheckRunning`, `Pick` / `Claim`,
`AskRetry` / `RetryFailed`. A plan is `Read` (rebuild the targets from what is
committed) and `CommitRefresh`; PostgreSQL keeps a rebuilt target locked until
the commit, which is `TargetsFree`. Validation may run the plan a second time.
`Raise` is an exception: after the rollback the row object is expired, reading
`task.id` in the handler raises again, and the row stays `running`. The age of a
row is a flag, set by `Age` for a row nobody runs, and at most `MaxSlow` times
for one that is run. A plan that succeeds in part only publishes nothing of the key.

### CollectionRun

`pc` follows `CollectionQueueRunner` through one run; `cur`, `todo`, `shop` are its
local variables and `seen` is what its open session has read. A task row is
`task[r][s]`. The ORM writes a column only when its value differs from the one
read, which is why `SaveTask` and `Continue` compare with `seen`. The UPDATE of a
cancelled run is flushed before its tasks are read, so the row is locked
(`Locked`) between `ReadForCancel` and `CommitCancel` and the runner's writes of
that row wait. The browser executor is the choice of a result (`Report`) or of
a request for verification (`AskVerification`); the code travels through Redis
(`codes`).

What follows a commit may fail. After `ClaimRun` has committed, the refresh may
raise outside the runner's `try`: the run stays running and nobody executes it
(`left`). After `Conclude`, the refresh may raise inside it, and `FailRun`, which
still sees the status it had loaded, writes "failed" over the verdict. After
`SaveTask`, the failure handler marks the saved task failed. `FailTask` and
`FailRun` may fail themselves.

`Crash` is the end of the process at any point, `Restart` and `Recover` the next
start-up; when the recovery raises, start-up goes on without a runner ("dead").
Every process of the application that starts marks running tasks "interrupted"
(`StartProcess`, `OtherStarts`, `InterruptTasks`; `Dockerfile.backend:83` starts four
workers), also those the leader is executing. The three paused
statuses are one, "waiting". One leader is assumed.

### InventoryLayers

One SKU of one shop. A poster is a transaction under READ COMMITTED. A row and the
commit that follows are one step, except in a batch of orders: what its earlier
orders took is `held` -- uncommitted, seen by the poster itself, locked for the
others -- until `CommitBatch`. `ReadLayers` is the SELECT, `TakeLayer` one round of
`consume_layers_fifo`; `WriteAdjustment` writes the quantity the ORM computed from
that reading, `WriteSale` subtracts in SQL from the row as it is. `Abort` is any
exception at any point. The ghosts name the four places where the code acts
on an outdated reading: `overlapped` (two posters past the check of one document),
`oversold`, `overwritten` (a layer had changed between reading and writing, in a sale
and in an adjustment), `reset` (an opening balance stated again after use).
`CorrectOpening` also gives the layer the date of the new request; `dated` is the date a
posting has read, so that a property can tell a layer re-dated under it. A
property that excepts one of them says exactly how far the code's promise goes:
it holds except there.

`StockBook` is what remains when layers, plans, row locks and transactions are
taken away: how often each document is booked, the opening balance of each
period, and one number, the stock. `ImplementsBook` maps that number to the sum
of the layers' remainders. A receipt, an adjustment and the commit of a batch
`Book` their documents, a new opening balance is `Open`, one stated again is
`Restate`, taking up a document another poster has in hand is `Dispute`; every
other step, an abort above all, must leave the book unchanged. `Misbook` and
`Misstate` are the steps from an outdated reading that the ghosts `overwritten` and
`reset` name: an adjustment, never an order, and a correction of an opening
balance.

## 3. Runs

| Run | Instance | Shows |
|---|---|---|
| `table_single` | 3 keys, 1 execution, batch 2, 3 records, 1 repair | `CheckpointFresh`, `CaughtUpIsCurrent`, `OnlyRepairRegresses`, `SyncTerminates`, `TypeOK` |
| `table_multi` | 2 keys, 2 executions, batch 1, 3 records, 1 repair | `NoSkippedRow`, `CompletedDelivers`, `ImplementsMirror` |
| `queue_single` | 1 worker, 2 dispatchers, 1 clerk, 2 rows, 1 retry, 2 ingestions, 1 crash, 1 command, 1 auto-recovery | `BudgetRespected`, `TasksSettle`, `TypeOK` |
| `queue_multi` | 2 workers, 1 dispatcher, 1 clerk, 1 row, 1 ingestion, otherwise the same | `RunningIsReclaimable`, `CancelledIsKept`, `RunningIsExecuted`, `CompletedCoversCreation` |
| `refresh` | 2 workers, 1 enqueuer, 1 operator, 1 key, 2 rows, 2 triggers, 1 ingestion, 1 crash, 1 slow refresh, 1 retry | `CompletedIsFresh`, `FreshNeverRegresses`, `OpenRowsEnd`, `TypeOK` |
| `collection` | 2 runs, 2 configurations (two shops, one of them), 1 operator, 2 events | `OneRunRunning`, `CompletedRunIsWhole`, `ShopHasOneOpenTask`, `VerdictStands`, `QueueDrains`, `TypeOK` |
| `inventory` | 2 posters, a receipt of 2, an adjustment of -1, orders of 1 and 2, 1 period stated up to twice with quantity 1 (two dates) or 2, 2 layers | `LayerAccounting`, `NeverOversold`, `OldestFirst`, `PostedOnce`, `ConsumptionMatchesLedger`, `BalanceMatchesLayers`, `ImplementsBook`, `TypeOK` |
| `table_late_commit`, `table_two_writers`, `table_lost_projection`, `queue_lost_trigger`, `refresh_two_workers` | smallest instances that show it | five places where the code does not do what a document says, see section 6 |

How the exceptions in the properties read. `CheckpointFresh` and
`CaughtUpIsCurrent` hold while no row was updated at a timestamp already committed
(`tied`). `NoSkippedRow`, `CompletedDelivers` and `CloudMirror`'s claim hold while no
mixed checkpoint was stored (`torn`). `RunningIsReclaimable` excepts a command that
read its row before the claim and commits after it (`OverClaim`): that row says
running without a lease, and nothing recovers it (`Stranded`). `CancelledIsKept` excepts
those who had the task in hand before it was cancelled, and a retry.
`VerdictStands` excepts a cancellation that read the run before its verdict, and
the failure handler of the step that wrote it. `OldestFirst` excepts a pair of
layers one of which was re-dated since it was read. `ConsumptionMatchesLedger`
equates two totals and no more: two adjustments that read the same last unit both
record that they took it (`overwritten`, `oversold`). Each exception is a step the
code can take, and except for `torn` and the second period of `BalanceMatchesLayers`
each is taken in the runs.

`SyncTerminates` promises an end only for a table that stands still: while full
batches keep arriving the loop goes on, and the code sets it no limit.
`TasksSettle` asks that auto-sync is on and that some loop has not ended
in "error", and gives up on stranded rows.

Why the bounds suffice. Table: a full batch, a short one and an empty read all
occur; a key is stamped twice (an update while its older version travels), also at
one timestamp; with two executions every pair of steps interleaves. A mixed
checkpoint needs three rows and five records, beyond `table_multi`: there its
properties are checked as if `torn` were not excepted, and the theorems cover the
rest. Queue: two rows give the id
order and a second task for one table; `MaxRetries = 1` reaches the limit; one
crash, command and recovery each may fall at any step, so every pair of them with
a claim or a finish occurs. With one clerk, a command and an auto-recovery pass do
not overlap each other, only the workers. The bounds (`MaxStamps`, `MaxRepairs`,
`MaxTasks`, `MaxIngests`, `MaxCrashes`, `MaxCommands`, `MaxRecoveries`) limit only
counters; deadlock is not checked because a bounded instance stops when they are
used up. The theorems of section 5 do not depend on their values. Symmetry is used
only in runs without liveness.

Refresh: two workers and two rows of one key give every race of claim, merge,
timeout, retry and completion. Collection: an event (crash, start of another
process, failure behind a commit or of a failure handler or of start-up, request on
a run or task) may fall at any step, two of them in any
order; the two configurations share a shop, so a run meets what an earlier one
left open; an expansion that skips every shop reaches the run that no task
carries; a second run of one configuration is asked for before, while and after
the first is active. Inventory:
the quantities are such that each order can be short, exact, partial, or
spread over two layers; the opening is dated before or after the receipt, and
re-dated across it; both orders may be in one batch, in two, or in two overlapping
ones.

Deadlock is checked in `refresh` (beat never stops). It is not in `collection`,
where an idle queue is a legitimate end, nor in `inventory`, which ends when every
document is posted.

`BudgetRespected` and `TasksSettle` are checked for one worker. With two, both
may load the same row and one attempt is not counted. `BudgetRespected` excludes
crashes because the code does: neither recovery nor claim looks at
`attempt_count`, so a task that kills its worker is taken up again. `TasksSettle`
relies on `MaxRecoveries`: claims prefer the lowest id, so an auto-recovery job
that requeues one task for ever starves those behind it.

## 4. Fairness

`CloudTableSync`: weak fairness of the steps of an execution that has begun (one
coroutine awaiting its own database calls); nothing obliges anyone to start one,
ingest or repair. `CloudSyncQueue`: weak fairness of the worker's step (the
runtime polls for ever), of `Restart` for a process that died
(`docker-compose.collection.yml:85`, `restart: unless-stopped`), of lease
expiry and retry delays (time passes). A loop that ended in "error" is not
restarted: `main.py` starts it at application start only. None for ingestion,
dispatch, heartbeats, admin or the auto-recovery job. `RefreshQueue`: weak fairness of each worker's
step (beat starts a pass every minute, and Celery's time limits end one that
hangs: `Raise`, `CrashRunner`) and of `Age` (time passes); none for enqueuers and
operators. `CollectionRun`: weak fairness of the runner (its loop catches
exceptions and polls again; waits for verification and pages are bounded; a
stopped process is started again, `restart: always` in `docker-compose.prod.yml`;
one that lives without a runner is not) and of the second half of a
request already begun. `InventoryLayers` states safety only.

## 5. Proofs

All are checked by TLAPS for every value of the constants, under the named
assumptions on the constants only, plus what a theorem's ASSUME says.

| Theorem | States | Assumes |
|---|---|---|
| `TypeCorrect` | `TypeOK` of `CloudTableSync` | - |
| `DeliveryInvariant` | `DeliveryInv`, inductive | one ingester |
| `NothingSkipped` | `NoSkippedRow` | one ingester |
| `CompletionDelivers` | `CompletedDelivers` | one ingester |
| `MirrorContract` | `CloudTableSync` implements `CloudMirror` | one ingester |
| `MirrorFresh`, `CaughtUpMeansCurrent` | `CheckpointFresh`, `CaughtUpIsCurrent`, for a clock with ties | one ingester, one execution |
| `OnlyRepairMovesBack` | `OnlyRepairRegresses` | one execution |
| `NeverTorn` | no mixed checkpoint is stored | one execution |
| `QueueTypeCorrect` | `TypeOK` of `CloudSyncQueue`, and a working worker's row exists | - |
| `RunningReclaimable` | `RunningIsReclaimable` | - |
| `CancelledKept` | `CancelledIsKept` | - |
| `RunningExecuted` | `RunningIsExecuted` | - |
| `CompletedCovers` | `CompletedCoversCreation` | - |
| `BudgetHolds` | `BudgetRespected` | one worker |
| `RefreshTypeCorrect` | `TypeOK` of `RefreshQueue` | - |
| `CompletedIsFreshHolds` | `CompletedIsFresh` | - |
| `SerialWithOneWorker` | `OneRefreshRunning` | one worker |
| `FreshNeverRegressesHolds` | `FreshNeverRegresses` | - |
| `RunTypeCorrect` | `TypeOK` of `CollectionRun` | - |
| `OneRunRunningHolds` | `OneRunRunning` | - |
| `CompletedRunIsWholeHolds` | `CompletedRunIsWhole` | - |
| `ShopHasOneOpenTaskHolds` | `ShopHasOneOpenTask` | - |
| `VerdictStandsHolds` | `VerdictStands` | - |
| `StockTypeCorrect` | `TypeOK` of `InventoryLayers` | - |
| `LayerAccountingHolds` | `LayerAccounting` | - |
| `NeverOversoldHolds` | `NeverOversold` | - |
| `OldestFirstHolds` | `OldestFirst` | - |
| `PostedOnceHolds` | `PostedOnce` | - |
| `ConsumptionMatchesLedgerHolds` | `ConsumptionMatchesLedger` | finitely many documents, periods |
| `BalanceMatchesLayersHolds` | `BalanceMatchesLayers` | finitely many documents, periods |
| `StockBookRefined` | `InventoryLayers` implements `StockBook` | finitely many documents, periods |

The assumptions are needed: without one ingester `table_late_commit` is a
counterexample, without one execution `table_two_writers` is, and with two refresh
workers `refresh_two_workers` is.

*Delivery.* `NoSkippedRow` is not inductive: `Advance` overwrites the checkpoint
with a position read long before, possibly by another execution. `DeliveryInv`
adds (a) every timestamp and id in use was handed out, (b) a row not yet
committed is stamped no earlier than all that was, so that a new row lies beyond
everything committed, read or checkpointed and a restamped one beyond its own place -- this
is where one ingester is needed -- (c) each session's copy of the checkpoint and
each batch's last row account for all rows below them: present in the
mirror or in the batch, and (d) what an execution has still to deliver lies
ahead of it or in its last batch; (c) and (d) hold while no mixed checkpoint was
stored. Since presence in the mirror never reverts, and a tie can only restamp a row
that is present or still ahead,
overlapping executions and repairs do not disturb (c). `MirrorContract` maps each
step to a step of `CloudMirror` or a stutter from the same invariant.

*Freshness.* With one execution `FreshInv` strengthens presence to equality, and
an update at a timestamp already committed sets `tied` and ends the claim.
`OnlyRepairRegresses` needs only `Held`: until the execution stores its progress the
checkpoint is what it loaded, or what a repair made of it, and the batch ends beyond
that. From the same invariant `NeverTorn` says that what a single execution stores is
never a mixture.

*Queue.* One lemma (`NextWritten`) shows that every step writes every row well:
it keeps its table, leaves a running row leased unless a command overtook its
claim, makes a row running only in a claim, completed only at the end of a sync,
and new rows pending with the ingestion count of that moment. Because an UPDATE
merges columns of two readings, the lemma rests on `ReadsFit`: whatever a session has
read exists and was in a status its operation looks for, so a column it does not
write is one another session wrote properly, or the claim's.
`RunningIsReclaimable` and `CancelledIsKept` then follow for each step. `RunningIsExecuted`
needs in addition that a worker leaves its task only by writing an outcome
(`WorksOnRow` says that the task is there); `CompletedCoversCreation` needs
`SeenCoversCreation`: a worker that has read to the end has seen what its row was
created for, whichever claim brought it there.

`BudgetRespected` speaks of the time before the first command,
auto-recovery or crash. Until then one worker leaves nothing stale behind
(`NothingStale`), so a claim finds a row within its budget, and only `FinishFailed`
with `MayRetry` puts a row back (`WithinBudget`). With two workers the statement is
false: both may claim on one reading.

*Refresh queue.* A worker holds the row it runs (`RefsOK`: whoever remembers a
row remembers one that exists, and nobody asks for more than was ingested).
`SeenOK` says that a worker about to publish has read no less than the projection
shows, which the lock on the targets gives; hence `FreshNeverRegresses`. `Served`
says that what a row was asked is covered by what its worker has read, or will be
read: a merge into a row that is already claimed is covered because the trigger
reports only ingestions committed before its SELECT, when the row was still
pending, so its worker reads later. `RunningBounded`, on the way to
`SerialWithOneWorker`, counts: each step that makes a row running takes a worker past
its check, and a worker passes the check only when nothing runs.

*Collection.* `Phase` ties the runner's position to the statuses: the run it holds
is running, was cancelled under it, or has its verdict because writing it raised;
nothing else runs. `VerdictStands` follows: the runner writes a verdict only
on the run it holds. `Whole` extends
`CompletedRunIsWhole` to the verdict read and not yet written: between the two only a
request that overwrites an ended task can spoil it (`raced`). For
`ShopHasOneOpenTask` the runner's writes are the danger: it marks a task running
long after the expansion looked for open ones. `Alone` says that this stays
harmless: the shops whose task it has still to execute, or is executing, have no
open task of another run, because only an expansion creates tasks, one runner
expands, and `RequestOnTasks` shows that no request opens a task that had ended
without setting `raced`.

*Inventory.* `IInv` adds to the accounting what the posters carry: a plan takes
from a prefix of the layers in FIFO order, partially only from the last, and at
most what was read, in the order of the dates that were read (`Plans`); two
transactions never hold one layer (`Locked`); what is held is still in the layer unless a reading was untrue (`Funds`); an unposted
document that nobody overlapped is in at most one transaction (`Single`).

*Totals.* `SumInv` adds what the sums are made of. `Hands`: an order of a batch is
written or still to come, never both, what a plan takes and what it still needs
make up its document, and what a batch holds uncommitted is what its written orders
send out. `ConsumptionMatchesLedger` then follows step by step. `Openings`: a
stated opening balance has exactly one layer, created with that quantity. `Origins`:
what the layers began with is what opening balances and receipts brought in. With
`LayerAccounting`, which relates each layer's beginning, remainder and consumption,
the two give `BalanceMatchesLayers`.

The sum of a function over a set is a fold, a recursive function on the subsets of
that set, and the library's induction theorems cannot be instantiated here. `SumsProofs`
goes around them: a set of subsets that is not empty has a smallest member
(`SmallestSubset`, since strict inclusion is well-founded on finite sets), so
a smallest counterexample to "the recursion has one solution" would exist, and does
not (`SumUnique`, `SumExists`). `SumEquation` gives the recursive step; that a sum
changes with one of its terms (`SumChange`), distributes over + (`SumPlus`), and
depends on its terms only (`SumSame`) are proved from it in the same way.

*Stock book.* `StockBookRefined` maps each step of `InventoryLayers` to a step of
`StockBook` or a stutter, from `IInv` and `SumInv`. A batch that commits takes out of
the layers what it holds, and `Hands` says that this is the sum of its orders; a
document may be entered because `Single` excludes a second entry of one that was
not overlapped. An adjustment's write moves the sum by the document's quantity
as long as every layer it writes still holds what it read; an opening balance
stated again moves it by the correction as long as its layer was not drawn from.

Only model-checked: liveness (`SyncTerminates`, `TasksSettle`, `OpenRowsEnd`,
`QueueDrains`), which needs ENABLED and is beyond the provers here.

## 6. Findings

1. Rows committed behind the checkpoint are never mirrored (`NoSkippedRow` with
   two ingesters): stamps precede commits, the reader trusts stamp order.
2. Two executions on one table leave an old version that no catch-up repairs
   (`QuietIsCurrent`).
3. A failure between checkpoint and projection loses the refresh
   (`SuccessIsProjected`).
4. An event coalesced into a task past its last read is lost (`BacklogHasTask`).
5. Two workers execute two rows of the serial refresh queue at once
   (`OneRefreshRunning`): the claim checks and writes without a lock.

`PROJECT.json` quotes the line each one contradicts.

Further disagreements with documents appear as the exceptions of properties that
pass, which state how far the promise is kept:

- `CancelledIsKept`: the worker that claims or runs a task overwrites its cancellation
  (`cloud_b_class_auto_sync_worker.py:91`, `:235`), although `:330` of the same file counts
  cancelled among the terminal statuses and
  `2026-03-22-collection-to-cloud-auto-sync-design.md:412` has an operator cancel tasks.
- `VerdictStands`: `collection_config_run_service.py:110` and
  `2026-04-10-collection-config-queue-runner-design.md:182-189`, `:245` let no terminal run
  be cancelled or changed. The check is made on a reading, so a cancellation that read the
  run before its verdict replaces it, and the failure handler replaces one it has not read.
  In the other direction the property is silent: a cancellation committed between the read
  and the write of `claim_next_queued_run` or `mark_run_failed` is overwritten.
- `CheckpointFresh`, `CaughtUpIsCurrent`: "always up to date"
  (`2026-04-06-b-class-cloud-catch-up-console-design.md:207`) fails for an update at a
  timestamp already checkpointed, also with one ingester and one execution.
- `RunningIsReclaimable`: a retry or reset committed over a claim leaves a running row
  without a lease, which neither the recovery nor the auto-recovery job finds.
- `BalanceMatchesLayers`: `2026-04-04-real-inventory-aging-design.md` section 4.2 takes the
  current stock to be the sum of the layers' remaining quantities. With two opened periods
  the balance adds the latest opening only, the layers all of them; an opening stated
  again after use, or an adjustment written from an old reading, makes the two differ as
  well. (The ageing page reads snapshot tables, not the layers, and is not modelled.)

Observations for which no contradicting document was found:

- `refresh_queue_tasks.py:240`: the failure handler reads an expired attribute after
  the rollback, so a refresh that raises is not marked failed but waits, and the
  whole queue with it, for the ten-minute timeout.
- A retried row may be completed by the worker that had timed out on it, with
  what that worker had read (`overtaken`).
- Tasks expanded after a cancellation stay pending and keep their shops out of later
  runs; a run whose verdict finds an open task, or whose claim raised after its commit,
  stays running and blocks the queue until it is cancelled or the process restarts
  (`left`); a failed start-up recovery leaves the process without a runner.
- A process that starts marks as interrupted the tasks another is executing.
- Two executions that overlap may store a checkpoint of mixed columns (`torn`).
- An opening balance stated again restores its layer in full; an adjustment and a
  sale planned from outdated readings lose an update and overdraw a layer.
- One order without stock rolls back the whole import. `LIMIT` is applied before
  the filter both there (`order_posting_service.py:50`) and in the auto-recovery.
- `sales_outbound_service.py:120` takes `DATE_PART('day', ...)` of the difference of
  two dates, an integer in PostgreSQL, for which the function has no form: run
  against the real database the statement fails and the import rolls back. The
  model keeps the posting possible (the intended statement) and the failure
  (`Abort`). No caller of `get_bulk_importer` is in the tree.

## 7. Not modelled

- *Sync runs and task-center mirror*: rows that report what the task rows say,
  written after them in commits of their own. They may lag or, after a crash or a
  cancellation, stay behind for good (listed as hazards); no decision reads them.
- *Tasks outside a run* (`create_task`, `retry_task` of `collection_tasks.py`): one task,
  no run waits for it; its effect on a run is a shop that is skipped.
- *Leader lock, session coordinator*: the lock's life depends on the connection
  pool, whose behaviour is outside this code; the coordinator is an `asyncio.Lock`
  per account with a waiter count that is only reported.
- *Approval center, payroll locks*: records changed by one request at a time;
  legal sequences are a matter of guards a unit test reaches. `withdraw_approval` has
  none on the status, which is listed as a hazard.
- *Clock*: it may stand still; a clock that steps back is the same hazard as two
  ingesters (`table_late_commit`) and is not a run of its own. Rows of deleted files
  stay in the mirror: `CloudMirror` promises presence only.
- *Common targets of refresh keys*: each key of `RefreshQueue` has its own.
- *Composition* of `CloudSyncQueue` with `CloudTableSync` expanded: the queue relies on
  `sync_table` only through `SyncReads` (it has read all that was visible), which is
  `CompletedDelivers` of the table.
- *Data*: parsing and template mapping, plans and SQL of projections, costs,
  dashboards and cache, browser automation, authentication, the frontend,
  migrations and archived code. Most of the repository's lines are of this kind,
  which is why the mapped share of it is small: their correctness is a matter of
  data and I/O, not of state and order.
