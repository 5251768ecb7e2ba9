# ContextHelp: models, checks and proofs

ContextHelp is a personal knowledge system. `dpkms serve` keeps knowledge objects in SQLite or
Postgres and their large contents in a blob store; everything that enters it is a job that a worker
pool runs through a pipeline. `ctxt` is the client: a command line, a watcher of directories and the
clipboard, a terminal UI.

This directory models the parts of it where several actors share state without one lock over it:
the job table and the worker pools, the objects and the blobs their contents are externalized to,
federation from one database to another, the re-projection of an upgraded database, the lock that
decides who may write or replace a SQLite file, and the run file that keeps one watcher per instance.
TLC checks the models on small instances; TLAPS proves their main invariants for every size.

## 1. Inventory

| Component | State | Operations | What makes it correct |
| --- | --- | --- | --- |
| Job table (`internal/storage/{sqlite,postgres}/jobs.go`) | one row per job: status, retry count, claim token, lease, start and creation time | Create, AcquireNext, Complete, Fail, Retry, Cancel, RecoverStale, ExtendLease, ReleaseLease; each one SQL statement | a job is claimed by one worker; retries stay within budget; recovery takes only abandoned jobs |
| Worker pools (`internal/jobs`) | goroutines; `inflight` map of running tasks with their claim tokens; a watcher goroutine per task | workerLoop, runTask, watchTask, process, retryOrFail, markCompleted/Failed, recoverStaleLoop, start, drain deadline and shutdown | one handler per task while its lease lives; a handler that lost its job stops; every job settles |
| Objects and blobs (`internal/storage/blob`, `objects.go`, `edges.go`, `worker.go` process, `service`) | object rows with blob refs, mention edges, blobs with ages | ingest (externalize, look up, reinforce or create, ensure, edges), update, hard delete, sweep | a stored ref resolves; a blob without an object goes away; no transaction spans the two stores |
| Local blob store (`blob/local`) | a file per blob | Put, Get, Delete, Exists, List | readers see whole blobs |
| Watch run file (`internal/watcher/watchstate/run.go`, `internal/filelock`) | a file that is locked, written, and unlinked at the end | AcquireRun, Release, ReadRun, RemoveStale | one watcher; its file is the one at the path |
| Federation (`internal/federation`, `service/federation.go`, the change counter of both stores) | a change number per row and the counter they come from; a watermark per target; the worker's page, failure count and skip map, in memory | Sync, pushPage, Push, Advance of both pushers, FederationAccept | the watermark never passes a change that was neither pushed nor given up, and keeps moving |
| Re-projection (`internal/jobs/reproject.go`, `internal/storage/indexsig`, `internal/upgrade`, `internal/embeddings/migrate`) | the stored FTS signature, a projection stamp per row, texts that are blob refs; jobs; a status per daemon | VerifyFTS, ScheduleReprojection, the run and its repair, StartTarget, Tick, Complete, Fail; the migration run | a current signature vouches for every row; one run at a time uses the status; no row keeps an older projection |
| Database lock, direct opens, restore (`internal/dblock`, `internal/directopen`, `internal/accessmarker`, `internal/safefs`, `service/restore*.go`) | the lock and its sidecar, the access marker, the database file and its WAL | serve's start and end, direct open and close, set-access, read-only opens, restore | one writer, on the file at the path, under the recorded class, with its own WAL |
| Read cursors (`internal/cursor`), pidfiles (`internal/pidfile`) | YAML file under a lock sidecar; a file per port | Advance, Reset, SetTo, Delete; Write, Scan | not modelled, see section 6 |
| Sessions and keys, ambient capture, sharing, search, pipelines, importers, servers, clients | see `PROJECT.json` | | not modelled; reasons there |

How they interact. Clients enqueue jobs; workers of any process claim them, and an ingest job's
`process` writes a blob, a row and edges. Requests update and delete objects through
`internal/storage/blob`, and `dpkms housekeeping` sweeps. The processes of one instance meet only in
the database, the blob store and the file system. Instances meet through federation: a URL entry posts
requests to another serve, a path entry opens the other database and writes it. A re-projection is a
job, so it has the pool's leases and retries under it. A SQLite database has one serve at a time
(`DirectOpen` shows it), whose workers still race one another and its request handlers; a Postgres
database is shared by several.

Hard behaviours: leases that run out under a live handler; a pool that re-acquires a job it is still
running; a drain deadline that passes in normal operation; writes that settle a job without naming the claim; removal of a blob racing an ingest of the
same content; a local put seen half done; change numbers that commit late, and answers lost after the
receiver took the request; a signature stamped after a count; a status shared by two kinds of run; a
database renamed under an open writer or beside an old WAL; locks on inodes that are no longer at
their path; crashes anywhere. `PROJECT.json` lists them under `hazards`, each with the properties that watch it.

## 2. Modules

| Module | What it models |
| --- | --- |
| `JobStore` | the table and its statements, one operator each |
| `TaskRun` | the abstract task: one worker has it, recovery leaves that worker alone, its own write settles it |
| `WorkerPool` (extends `JobStore`) | workers, task watchers, settling, recovery, operators, the drain deadline, shutdown, crash, restart; implements `TaskRun` |
| `WorkerPoolProofs` | seven theorems about it |
| `TaskRunProofs` | that `WorkerPool` implements `TaskRun`, and what `TaskRun` alone gives |
| `ObjectBlobs` | rows, edges and blobs; ingest, update, delete, sweep; faults; both kinds of blob store |
| `ObjectBlobsProofs` | type correctness, `EnsuredRowResolves`, and `PutBackKeepsContent` where puts are atomic |
| `ExclusiveRun` | the abstract run lock |
| `RunFile` | the run file protocol, a step per system call; implements `ExclusiveRun` |
| `RunFileProofs` | the implementation, and that a live watcher is listed |
| `ChangeFeed` | the abstract feed: numbers without gaps, a watermark that covers what it passes |
| `Federation` | a source database, one entry, the worker that pushes, the receiver; backup and restore of the source; implements `ChangeFeed` unless a path entry's source is restored |
| `FederationProofs` | that nothing is left behind the watermark, and the refinement |
| `ProjectionUpgrade` | the abstract upgrade: old rows go, none comes, the signature changes once |
| `Reprojection` | startup, scheduling, the re-projection and migration runs, the manager they share; implements `ProjectionUpgrade` |
| `ReprojectionProofs` | that the signature vouches for the rows, that a status has one run, and the refinement |
| `DatabaseFile` | the abstract database: one user at a time, who alone replaces it, served under a class on record |
| `DirectOpen` | the database lock, serve, commands, readers and restore on one SQLite file; implements `DatabaseFile` |
| `DirectOpenProofs` | theorems about who has the file, and the refinement |
| `MCWorkerPool`, `MCObjectBlobs`, `MCRunFile`, `MCFederation`, `MCReprojection`, `MCDirectOpen` | the instances TLC checks |

### Jobs

A row is the functions `status`, `retries`, `claim`, `lease`, `age` and `created`. Time is relative:
`lease` is the time left, `age` the time since the claim, so that behaviours are infinite over finitely
many states. `Tick` lets time go by. A job whose worker is alive goes stale only as a fault (a stall),
since the watcher renews three times per lease and an ingest is far shorter than `staleTimeout`.

A worker's `pc` names the store call it makes next: `claimed` (LoadOrStore), `takeover`, `leasing`
(first ExtendLease), `running` (the handler), `completing`, `failing`, `retryget`, `retrying`,
`releasing`, `leaving` (the deferred calls), and `processing` for an ingest. `own` is the claim the
worker acquired, `tok` the token in its `taskClaim`, which a take-over replaces, `wtok` the one its
watcher read at the last tick. `lapsed` is history: a lease was lost (a stall) or bypassed (an
operator's retry, a failed first lease) under a worker that was running or settling the job.
What a handler or a pipeline does is its result: ok, a permanent or a transient error. `process` is
one step here, and is taken apart in `ObjectBlobs`.

An ingest runs and settles under `drainCtx`, whose timeout starts with the pool. `drained` has the pools
that are past it: `DrainExpires` may put any running pool there if `DrainSet` (`jobs.drain_timeout` is
set; the default of 365 days outlasts a process), and `Start` gives a new context. Under an expired
context (`Expired`) the settling calls of an ingest can only fail (`SettleError`), which costs no fault.
Tasks settle under `context.WithoutCancel` and do not see the deadline. A stopping pool ends when its
workers have left (`Exit`), or under them (`ExitUndrained`): serve has a deadline of its own, which does
count from the stop, and a second signal does not wait either.

`NewString` stands for `uuid.NewString`: a token outside the ones still remembered. `Claims` has
enough tokens (jobs + 3 x workers + 1) that the guard `ClaimsLeft` never blocks.

### Objects and blobs

Content is its key. `raw` and `meta` are the two places a row names a blob, `hash` the unique content
hash. Every call on the database or the blob store is a step. `LocalStore` selects the local store,
where `PutTruncate` and `Put` are two steps and a delete unlinks the file under a put, or an object
store whose puts are atomic. A blob is `old` once it is past `DefaultSweepGrace`; `SlowOps` says
whether an operation may outlast the grace (a stalled process). `ensured[o]` is history: a writer's
`Ensure` has returned since `raw[o]` was written, and no remover of that blob has died or failed
between its delete and its put back.

Abstractions: one profile (dedup is within a profile), content above the threshold, at most one key
per ref. Federation's receiving side (`service/federation.go`) writes rows and calls `Ensure` in the
order ingest does and has no actions of its own.

### Run file

`locked` and `shared` are locks per inode, `path` is the inode at the run file's path, `text` the pid
in a file. `Crash` may take any process anywhere and drops its locks. Any error of a system call
closes the file and so ends like a crash. An inode that nobody has open and no path names is free to
be used again.

### Federation

`seq[o]` is the committed `change_seq` of a row, `counter` the row of `object_change_counter`.
`Stamp` takes the next number and keeps the counter's row lock until `Commit` or `Rollback`, so one
transaction has a stamp at a time. The worker's `pc` is `list` (the next page of the source), `push` (pushPage picks a
request or opens the target), `send` (a post), `write` (the local pusher, object by object) and `ack`
(Advance). `failing` and `skip` are the Syncer's memory and die with the process. A URL entry keeps
its watermark in the source and a path entry in the target, which is why a `Restore` of the source
moves the first back and not the second. `entry` has what an instance may be: URL or path, which rows
carry no content hash, whether the source is restored, how many faults there are. `settled` is history:
the pairs of object and change number that reached the target or were given up.

Left out: edges and entities, which ride along with objects; the sizes that split a push into requests
(any split may happen); pull, a stub that returns an error. The receiver's other writers are
`TargetEdit`, the conflict a path push meets.

### Re-projection

`sig` is the stored FTS signature, `row[o]` the projection stamp of a row, `ref` the rows whose
`text_content` is a blob ref that the run repairs first. A repair clears the stamp, so that the run
indexes the new text. A row that was current then is stale, but not of an older projection: `repaired`
is history that tells such rows from the `Old` ones. An old row that is repaired stays old until it is
re-projected. A daemon's startup is four steps (verify, list running jobs, list pending jobs, enqueue), because
ScheduleReprojection looks twice and then writes. `mgr[d]` is the state of the `upgrade.Manager` that
a daemon's runs, migrations included, share. A job is requeued once its daemon is gone; a lease that
lapses under a live run is as good as two jobs, which the model has. A daemon is restarted (`Stop`) when
all is quiet, or when its status is stuck in progress with no run behind it (`StatusIsLeaked`), which
only a restart ends. `site` gives the daemons (one on
SQLite), the migrations asked for and the faults.

Left out: what a projection contains; the shadow file's content (nothing reads it back; a failing
write is a step); databases older than migration 029, which have rows and no signature row.

### Direct opens and restore

A database is a number, and a restore brings the next one. `file` is the one at the path, `wal` the one
whose `-wal` is beside it, `conn[p]` the one a process has open, `seen[p]` (history) the one whose WAL
that open recovered. `lock` is the kernel's lock on the sidecar and `body` the role written in it, which
a command reads to decide between waiting and failing. `cut` is history: a restore ended after its
rename and before its removal of the WAL. Readers open read-only and take no lock, as in the code.
SQLite's own behaviour (a writer that closes last removes the WAL, an open recovers the one it finds) is
external. Protected and public are one class, since the code treats them alike here.

## 3. Runs

All bounds are in the `.cfg` files.

| Run | Instance | Checks |
| --- | --- | --- |
| `two_pools` | 1 task, 2 processes, 1 worker each, 1 fault, fair | `TypeOK`, `LeaseHolderIsAlone`, `OneRenewer`, `RetryBudget`, `StartsUnderLease`, `ImplementsTaskRun`, `EveryJobSettles`, `FormerHolderStops` |
| `two_jobs` | a task and an ingest, 1 process, 2 workers, a drain timeout, 1 fault, fair | `OneHandlerPerPool`, and `EveryJobSettles` with ties in `created_at` and past the drain deadline |
| `blobs` | 2 objects, 2 contents, 2 processes, 1 fault, atomic puts | `EnsuredRowResolves` |
| `blobs_live` | 2 objects, 1 content, 2 processes, 1 fault, local store, fair | `OrphansAreSwept`, `RemovedBlobComesBack` |
| `run_file` | 3 processes, 4 inodes, 2 attempts | `ImplementsRunLock`, `WatcherIsListed` |
| `federation` | 2 objects, 1 of them too large to be accepted, pages of 2, 3 change numbers; a path, a URL, a URL with a row that has no hash, a URL whose source is restored; 1 or 2 faults; fair | `WatermarkCovers`, `ImplementsChangeFeed`, `KeepsGoing` |
| `reprojection` | 2 objects, pages of 1, 2 jobs and a migration; 1 daemon with a migration and 1 fault, 1 daemon with 2 faults, 2 daemons with 1 fault; fair | `SignatureCovers`, `StatusIsOwn`, `ImplementsUpgrade`, `NextStartRetries` |
| `direct_open` | a daemon, a command, a reader, a restorer, 1 restore, 2 faults; fair | `OneWriter`, `WriterHasTheFile`, `ServedClassIsRecorded`, `ReplaysOwnWal`, `ImplementsDatabaseFile`, `LockComesBack` |
| `drain`, `local_put`, `fed_restore`, `stale_wal` | the smallest instance with the case | one property each, violated: section 4 |

The largest, `federation` and `reprojection`, have 760,791 and 743,961 distinct states; `two_pools`,
with 327,628, takes longest (three to four minutes with two workers), for its liveness; `two_jobs` has
398,398.

Why the bounds are enough to be interesting. Two workers and one fault (a stall) reach a lapse, the
second claim, the take-over and the settling by the former holder; operators' retries and cancels are
no faults and come at any time. Two contents let an update free one key
while it writes another; two objects share a key; more than two processes are left to the proof.
Three processes and one inode more than that let one release, one lock the
unlinked inode and one create the next file. Three change numbers over two objects let one object
change while the other is in flight, be listed, and change again behind the page; two failures in a row
reach the skip. Pages of one row make a re-projection list twice, so that a row written, deleted or
failed between two pages happens. One restore is enough to replace the file under every other actor;
more writers are left to the proof. The blob model can end, because object
ids are used once: its configurations say `CHECK_DEADLOCK FALSE`. The others are checked for deadlock.

Symmetry is used over objects, keys and processes (`blobs`) and over processes and
inodes (`run_file`), never with a liveness property.

### Fairness

`WorkerPool.Fairness`: the Go scheduler runs every goroutine that can run (weak fairness of each
worker's next call, of the watcher, of recovery), a process that is down is started again, and the
clock goes on. A job that is the oldest pending one again and again is claimed (strong fairness per
job): idle workers poll every `poll_interval`, and the requeues that come in between are as rare as
`stale_timeout`. Without it an ingest that cannot settle could be requeued before a newer task for ever.
Nothing is assumed of the drain deadline: it may pass or not. `EveryJobSettles` claims tasks in any case,
and ingests if from some time on no pool is past its deadline; `drain` is what happens otherwise.
A handler is only assumed to return once its context is cancelled, which is what
`TaskHandler` asks of it. `HandlersReturn`, that handlers return by themselves, is a hypothesis of
`EveryJobSettles` and of nothing else. For blobs: a started operation goes on, blobs age, and housekeeping is run again and again (strong fairness of `Sweep` per process, since other
operations may be under way whenever it is due); `OrphansAreSwept` also needs that ingests stop
putting the same content, since each put makes the blob young again. For federation: the worker ticks
for ever (one weak fairness of all its steps); nothing is assumed of transactions, which may stay open.
For the re-projection: runs and startups that can go on do, a daemon that is down is started, a job of
a dead daemon is recovered, and a daemon that is idle, or whose status is stuck, is restarted some day,
which is the "next dpkms start" that the code's own message counts on. For direct opens: a command or a restore that has begun ends; a
daemon may serve for ever, and `LockComesBack` says nothing of daemons.

## 4. What the code does and a comment does not say

Four runs violate a statement of the repository; `PROJECT.json` quotes each under `findings`.

- `drain`: the drain deadline counts from the start of the pool, not from its stop. With
  `jobs.drain_timeout` set (the documentation shows 30s), a process that has been up for that long settles
  no ingest any more: each is claimed, rejected by the expired context, left running, and requeued by
  recovery, until the process is restarted. With `DrainSet` false the same run has no violation.
- `local_put`: with the local store, a remover can read, and put back, a truncated file.
- `fed_restore`: a path entry's watermark is in the target, so a restore of the source brings its change
  counter back behind it, and the next changes are never listed.
- `stale_wal`: a restore that ends between its rename and its removal of the WAL leaves the old WAL to
  the next writer.

The models also take the following steps, which the code takes and a reader of its comments may not
expect. No run is kept for them.

- A patch writes back the refs it read, and one that a concurrent re-analysis has freed meanwhile stays in
  the row with no error: a patch carries no content, so `Ensure` returns without looking (`UpdateWrite`),
  though `update.go` says the error reports a blob that could not be put back.
- The dedup path of an ingest writes a ref and never checks the blob (`Reinforce`), and the retry after
  a failed edge write reinforces the row and writes no edges.
- An operator's retry requeues a job in any status (`JobStore.Retry`).
- A starting process requeues the ingest another one is running on a shared Postgres database, because
  ingests have no lease (`Start`).
- A task requeued by its own handler can be acquired before the handler's entry leaves `inflight`; it
  is then leased to nobody until the lease runs out (`TakeOver`).
- A failure between a remover's delete and its put back leaves another object's row without its blob
  (`LosesBlob`), and a delete between an ingest's row and its edges leaves edges of a deleted object.
- A run file taken over from a dead watcher shows the dead pid as alive until it is rewritten, and a
  reader's shared lock makes a starting watcher believe another one runs (`TryLock`).
- A row without a content hash that is edited and pushed to a URL again is inserted twice at the
  receiver: it answers 500, every time, and the entry does not move until the row is deleted.
  `KeepsGoing` excludes it by name.
- A shadow file that cannot be written leaves the manager in progress with no run to end it; runs of
  that daemon wait until it is restarted (`StatusIsLeaked`); `NextStartRetries` counts on that restart.
- A second run that repairs the text of a current row after the first has stamped leaves a stale row
  under a current signature until the next version (`repaired`).
- A reader that opens between a restore's rename and its removal of the WAL reads the new database
  through the old WAL (`OpenReadOnly`).
- A command that meets the lock before its holder has written the sidecar reads the body of the last
  holder and may fail as if a daemon served (`ReadHolder`).
- A serve whose start fails releases the lock with its database still open, and exits right after
  (`StartFails`).

Seen in the source and outside the models: an edge that fails at a federation receiver after its
object was created is not written by the retry, which finds a duplicate; a database with rows and no
signature row (older than migration 029) counts as a first boot and is stamped as it is; a scan that
reads a pidfile between its truncation and its write takes it for corrupt and removes it.

## 5. Proofs

TLAPS proves, for every value of the constants that satisfies the named assumptions:

`WorkerPoolProofs` (`JobsAssumption`, `ClaimsAssumption`, `TimesAssumption`, `WorkersAssumption`,
`NewStringAssumption`, `MaxFaultsAssumption`)
- `TypeCorrect`, and `LeaseInvariant`: `LeaseInv` holds always.
- `Exclusive`, `PoolRunsJobOnce`, `RenewerUnique`: consequences of it.
- `RetriesBounded`: the guard of the UPDATE, not the check before it, keeps the budget.
- `HandlerStartsLeased`: an action property.

Whether a drain timeout is set makes no difference to any of them: its deadline, and an exit under the
workers, are steps like the others.

`LeaseHolderIsAlone` is not inductive: it does not say why a second claimant must wait. `LeaseInv`
does. A claim is acquired by one worker (`OwnUnique`), an `inflight` entry is the worker that stored
it (`InflightOwner`), a token is in two `taskClaim`s only while its owner hands it over (`TokOwner`,
`TokUnique`), and until a lapse the row of an engaged worker carries that worker's claim under a lease
with time left, or is cancelled (`EngagedHolds`). Two engaged workers would then both own the claim of
one row.

`TaskRunProofs` (the same assumptions)
- `TaskRunImplemented`: `Spec => ImplementsTaskRun`. The mapping shows the status and the retries of a
  task, the workers engaged on it (`Runners`: from the start of the handler, or the failed first lease,
  to the settling write), and `lapsed`. Tokens, leases, `inflight` and watchers disappear. `LeaseInv`
  gives the guards of the abstract steps: a settling write meets a row that is the writer's own run or
  was cancelled (`EngagedHolds`), recovery meets a stale row, so nobody is engaged on it, and a handler
  begins where no other is. `Inserted` is the one addition: a worker's job and an operator's request
  name a row that was inserted, so the abstract task is never absent when they write it.
- `TaskRunExcludes`: `ImplementsTaskRun => []LeaseHolderIsAlone`. Exclusivity follows from the
  abstract task alone, so that `TaskRun` is strong enough to be used in place of `WorkerPool`.

`ObjectBlobsProofs` (`NoneAssumption`, `StoreAssumption`, `FaultsAssumption`)
- `TypeCorrect`, for both stores.
- `EnsuredRowsKeepBlobs`, for a store with atomic puts. `BlobInv` adds that no blob is ever seen in
  part, so that what a remover puts back is whole. The argument: only `DeleteBlob` takes a blob away,
  and it opens the window in which its remover still counts references; the window closes with no
  reference to the key, with a put of the whole content, or with a fault that un-ensures the rows.
  A row becomes ensured only when its blob was just seen or just put.
- `AtomicPutsKeepContent`: `PutBackKeepsContent`, the statement of `delete.go` that `local_put` violates,
  holds where puts are atomic. It needs `EnsuredHasRef` besides (an ensured row has a ref). A local
  store that renamed a finished file into place would be such a store.

`RunFileProofs` (`NoneAssumption`, `TriesAssumption`)
- `RunInvariant`, `RunLockImplemented` (refinement of `ExclusiveRun`) and `WatcherStaysListed`.
  `RunInv`: past `TryLock` a process has the lock of the inode it has open (`HasLock`), a locked inode
  is open in its locker (`LockIsOpen`), past the inode check it is the one at the path (`AtPath`), and
  a running watcher has written its pid there (`Written`). An inode has one exclusive holder and the
  path one inode, so two holders would be one process; the path changes only at the hands of that
  process, or from nothing to an inode nobody has open.

`FederationProofs` (`ObjectsAssumption`, `EntriesAssumption`, `LimitsAssumption`)
- `FederationInvariant` and `NothingLeftBehind`: `WatermarkCovers`, for any number of objects, page
  size, attempts, faults and restores.
  `FederationInv`: the one open transaction has the newest number (`StampIsLast`), so nothing up to the
  watermark, the page or a committed row is still to appear (`AllSeen`); a page has every change between
  its start and each of its objects but those replaced since (`PageIsPrefix`); what left the page was
  pushed or given up (`PageProgress`, `SkipIsSettled`); and a backup was itself covered
  (`BackupCovers`). The watermark moves to the last number of an acknowledged prefix, and every change
  below it is in the page and settled.
- `ChangeFeedImplemented`, under `MarksFollowTheSource`: no entry whose source is restored keeps its
  watermark in the target. The hypothesis is the complement of the `fed_restore` finding, which is what
  happens without it; the run has the four kinds of entry that satisfy it. The number a reader
  sees is `Visible`, one less than the counter while a transaction is open, so a `Commit` is the
  abstract change and a `Stamp` or `Rollback` none. `AllSeen` shows that what reaches the target is
  visible, and the guard of the abstract `Advance` is `WatermarkCovers` of the next state.
- `ChangeFeedCovers`: `ImplementsChangeFeed => []NoChangeBehindWatermark`. What `sync.go` says holds of
  every feed of this kind.

`ReprojectionProofs` (`ObjectsAssumption`, `JobsAssumption`, `SitesAssumption`, `LimitsAssumption`)
- `ReprojectionInvariant`, `SignatureVouches` and `StatusExclusive`, for any number of daemons, jobs and
  faults. `ReprojectionInv` adds `NoneOld`: a run that is about to stamp has seen no old row and none
  comes back, because writers write current rows and a repair makes rows stale that are not old; and
  that a run has a daemon (`RunHasDaemon`), without which a status would be nobody's.
- `UpgradeImplemented`: a step takes at most one row out of the old ones (`RowLeaves`) and brings none,
  and the stamp of `finish` meets none (`NoneOld`); a repair leaves the old rows as they are; a restart over a signature that is already current
  changes nothing.

`DirectOpenProofs` (`KindsAssumption`, `NoneAssumption`, `BoundsAssumption`)
- `DirectOpenInvariant`, `WriterIsAlone`, `WriterKeepsItsFile`, `ServedClass` and `OwnWal`, for any number
  of daemons, commands, readers and restores. From `TryLock` to `Release` a process has the lock
  (`LockIsHeld`); file, marker and WAL change only in the hands of the holder, so what a writer opened
  is still at the path (`WriterHasTheFile`), the class of a daemon was recorded by itself
  (`ClassIsRecorded`, `MarkHasClass`), and the WAL beside the file is the file's own unless a restore
  was cut short (`WalIsOwn`).
- `DatabaseFileImplemented`: the users are the processes that have the lock and the database open or
  being replaced (`Users`), the class is that of a protected daemon among them (`Served`). Lock, sidecar,
  WAL and readers disappear. An open meets no other user and a replacement no writer (`LockIsHeld`); a
  protected daemon opens after it has recorded its class, and nobody lowers the record without the lock
  (`ClassIsRecorded`).

Only model-checked: the liveness properties (`EveryJobSettles`, `FormerHolderStops`,
`OrphansAreSwept`, `RemovedBlobComesBack`, `KeepsGoing`, `NextStartRetries`, `LockComesBack`), which are
beyond the prover. The abstract specifications are safety only, for the same reason.

## 6. Not modelled

- Read cursors: each operation is load, change and rename inside one blocking lock of a file that is
  never unlinked. It is one critical section, with nothing to interleave.
- Pidfiles: discovery only. The database lock decides who serves.
- Watcher state and runtime: one process, kept alone by the run file; what a scan finds is file content.
- Ambient capture: buffers in memory, lost with the process by design. Event bus: best effort, no state
  depends on delivery.
- Sessions, tickets and keys: access control of the HTTP API, beside the storage core.
- Sharing policies, search and ranking, pipelines, importers: transformations and queries over content.
  A pipeline is its result in `WorkerPool`.
- Servers and clients: transport and user interface; their handlers appear as the actions they call.
- Of the embeddings, the registry, rate limits and purge; of upgrades, the re-ingest worker of `ctxt`,
  which has a manager of its own.
- Of objects, profiles (dedup is within one), aliases, tags, entities and views.

Most of the repository's lines are in these parts. What would be worth adding: the receiving side of
federation as processes of `ObjectBlobs`, and edges, which `Federation` leaves out.
