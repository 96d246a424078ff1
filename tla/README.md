# Verification of the backup server and of its release

The repository is a Dart/Flutter application for Windows that makes database
backups (SQL Server, Sybase, PostgreSQL, Firebird), sends them to destinations
(folder, FTP, Google Drive, Dropbox, Nextcloud), and can be driven by remote
clients over a socket, together with the Python scripts that build its installer
and the feed its clients update from. This directory holds TLA+ modules for the
parts where the concurrency lives: how the server accepts, queues, runs, cancels,
records and reports backups and sends them to a destination that fails, and how
an installer and the update feed are made while people go on editing. Paths below
are relative to `src/lib/` unless they begin with `installer/`, `scripts/` or
`.github/`, which are relative to `src/`.

Dart has one thread per isolate, so nothing here races in the memory-model sense.
What interleaves is *coroutines*: every `await` is a point where other requests,
the timers and the delivery of events run. The models take the code between two
awaits as one step, and no more. The Python scripts are sequential; what
interleaves with them is the working tree, the repository and the list of
releases, which others change between two of the programs and requests the
scripts wait for, and, for the workflow, other runs of the same script.

## 1. Inventory

| Component | State it keeps | Operations | Hard behaviour | Correct when |
|---|---|---|---|---|
| Execution queue (`infrastructure/socket/server/execution_queue_service.dart`, its persistence, DAO and housekeeping timer) | `_queue`, `_scheduleIdsInQueue`, table `execution_queue_items` | `tryEnqueue`, `dequeue`, `removeByRunId`, `pruneExpired`, `initialize` | memory and table are written one await apart; crash between them; TTL racing dispatch and cancellation | FIFO, nothing dispatched twice or after a crash again, one run per schedule, bounded, a run whose TTL passed leaves |
| Remote execution (`execution_message_handler.dart`) | none of its own; uses slot, registry, queue, scheduler | `startBackup`, `cancelBackup`, `cancelQueuedBackup`, `_runBackupAsync`, `_drainNextFromQueue` | looks, awaits, then acts on what it saw; puts runs back; two sources report the end of a run | a run goes through its states once, its client is told, the queue is drained |
| Run registry (`remote_execution_registry.dart`) | `_byRunId`, `_scheduleToRunId` | `register` (throws on a duplicate), `unregister`, `rebindClient` | register after unregister by another path | the two indexes agree, no context stays behind |
| State machine (`execution_state_machine.dart`) | none | `canTransition`, `enforceTransition` | only some callers ask it | the runs follow it |
| Legacy execution (`schedule_message_handler.dart`) | none of its own | `executeSchedule`, `cancelSchedule`, `_onProgressChanged` | the one loop that delivers events to all clients; sends that throw | each run's client hears of its own run; every context is removed |
| Scheduler (`application/services/scheduler_service.dart`) | `_executingSchedules`, `_cancelRequestedSchedules`, `_runningHistoryIds`, timers | `executeNow`, `cancelExecution`, `_checkSchedules`, watchdog | three ways in check the lock an await too early, one not at all | one backup at a time, lock released, cancellations do not hit the next run |
| Progress slot (`application/providers/backup_progress_provider.dart`) | `_isRunning`, the snapshot | `tryStartBackup`, `completeBackup`, `failBackup`, `cancelBackup` | freed by whoever calls, not by whoever took it | taken only while a backup is under way |
| Local UI start (`application/providers/scheduler_provider.dart`) | list of schedules | `executeNow`, CRUD | settles the slot a second time | as above |
| Idempotency (`infrastructure/protocol/idempotency_registry.dart`, store, DAO) | `_entries`, table `idempotency_entries` | `runIdempotent` | racing requests of one key, failures, TTL, unawaited save, restart | one computation per key, failures retried, no foreign answer |
| Client connections of the server (`client_handler.dart`, `client_manager.dart`, `tcp_socket_server.dart`, authentication, rate limiter) | sockets, send queue, auth and heartbeat state | accept, authenticate, send, disconnect | disconnect during a send; heartbeat against a late answer | no message before authentication, a dead client is forgotten |
| Execution events and status (`execution_event_sequencer.dart`, `queue_event_bus.dart`, `backup_event_deduplicator.dart`) | sequence numbers, seen ids | emit, deduplicate, status | duplicates and order across reconnects | each event once, in order |
| Client connection (`infrastructure/socket/client/`) | pending requests, reconnect state | request, timeout, reconnect | timeout racing a late answer | each request completes once |
| File transfer and staging (`file_transfer_message_handler.dart`, lock service, lease, staging) | leases, locks, chunks | start, chunk, resume, cleanup | cleanup against a download; resume after a crash | a staged file outlives its download; one holder of a lock |
| Circuit breaker and retries (`core/utils/circuit_breaker.dart`, `retry_utils.dart`) | state, failures, slot of half-open, time of opening | `tryAcquire`, `recordSuccess`, `recordFailure`, `executeResultWithRetry` | results of uploads nobody waits for any more, in any order; uploads that end without a result | one probe per cooldown, slot given back, test ends |
| Backup and destination orchestration (`application/services/backup_orchestrator_service.dart`, `infrastructure/destination/`) | the files of a backup | `executeBackup`, `uploadToDestination`, `copyToStaging`, `_deleteTempBackupArtifact` | one step of several fails | the last copy is not deleted, the user is told what happened |
| Backup history (`infrastructure/repositories/backup_history_repository.dart`, its DAO) | table of histories | create, `updateHistoryAndLogIfRunning`, `update`, `reconcileStaleRunning` | recovery reads, then writes, beside a run that finishes; writes that fail and are logged | a final status stays and is that of the run |
| Release build and installer (`installer/*.py`, `scripts/verify_windows_icons.py`, `windows_icon_utils.py`) | the working tree, `build/`, `installer/dist/`, `installer/dependencies/` | the eight steps of `build_installer.py` | the tree is edited meanwhile; times that lie; a kill; a failed download that stays | the installer is of the sources, version and icon of its own run |
| Update feed (`scripts/sync_appcast_from_releases.py`, `update_appcast_manual.py`, `.github/workflows/update-appcast.yml`) | `appcast.xml`, `appcast_policy.json`, the releases | rebuild, push, manual edit, publish, block, hold back | overlapping runs of the workflow, each with what it saw | no blocked version is pushed, no release lost, order |
| Single instance, IPC; licences; auto update, service; notifications, metrics; back ends; repository tools; UI and wiring | mutexes, caches, external | | mostly I/O | not modelled, see section 7 |

How the parts meet: `startBackup` and the drain take the slot, register the run
and call `executeNow` of the scheduler without awaiting it; the scheduler takes
its lock, uses the slot as progress display, and settles it; settling notifies
`_onProgressChanged`, which sends terminal events to every registered run and
unregisters it; when the coroutine that executed a `startBackup` run is over it
drains the queue, if lock and registry are free. No part holds the whole truth.
Within its lock the scheduler has the orchestrator make the backup and write its
row of the history, sends it to the destinations, each behind its circuit
breaker, copies it to the staging folder for remote clients, and deletes the
temporary copy. The release is apart from all this: the build script makes an
installer and its `.sha256`, people upload both as a release, and the workflow
rebuilds the feed from the releases.

## 2. Modules

| Module | Models |
|---|---|
| `FifoQueue` | abstract: what the queue promises. Reused in `BackupExecution` as the queue itself |
| `ExecutionQueue` | the queue service: memory, table, statements, coroutines, TTL, crash. Refines `FifoQueue` (`RefinesFifo`) |
| `RunLifecycle` | abstract: the transition table of a run |
| `BackupExecution` | scheduler, slot, registry, queue and events composed: five ways in. Refines `RunLifecycle` (`RefinesLifecycle`) |
| `IdempotencyRegistry` | `runIdempotent` with and without a store |
| `CircuitBreaker` | the breaker of one destination and the uploads that pass it |
| `BackupHistory` | the row of a run, the recovery of stale rows, the copies of a backup |
| `InstallerBuild` | the release build and a developer who edits meanwhile |
| `AppcastFeed` | the feed, the workflow that rebuilds it, and the people around it |
| `Selection` | filtering and sorting, which the code leaves to its libraries, in closed form |
| `MC*` | the instances TLC checks |
| `SequenceLemmas`, `*Proofs` | lemmas and theorems |

### ExecutionQueue

`queue`, `scheduleIdsInQueue` and `rows` are the two memory structures and the
table. A coroutine is a `task`; its record says which statement it awaits and
what the code captured before awaiting. The database is one drift connection in
a background isolate, which runs statements in the order they were submitted:
that order is `statements`. `Submit`, `Turn` and `Resubmit` are that external
queue; everything else is the service's code: one action for the code before an
await, one for the statement together with the code after it. `RowAccepted` is
the transaction in `tryInsert`, which counts and looks for the schedule again.
`Restart` empties memory, may or may not commit the statement that was running,
and loads the table, which the service awaits before it listens.
`TtlPasses` respects that all runs have the same TTL. `clear` and the trimming of
rows beyond the limit at start-up are left out: the limit never changes.

### BackupExecution

`pc[r]` says what the coroutine of run `r` awaits; each action is the code from
one await to the next. The actions come in five groups: the ways in
(`StartBackup`, `ExecuteSchedule`, `RunLocally` for the timer and the tray or
command line, `RunFromUi`), the backup itself, what each way in does when it
returns, the drain of the queue, and events and cancellations. Where a code path
ends in another component (orchestrator, destinations, licence) the result is a
nondeterministic choice of the results the code tells apart.

* `progress` keeps the running flag, whether the step is terminal, and the
  cancelled flag, because `copyWith` keeps the latter from one settling to the
  next; percentages, texts and non-terminal events are left out.
* `pending[r]` holds terminal events whose delivery `_onProgressChanged` has
  begun. Delivery sends first and unregisters afterwards; a send that throws ends
  the loop, so the contexts after it get neither (`DeliverThrows`).
* `lost` marks runs whose client's socket died under a send, at most `MaxLost`.
  `rebindClient` is not modelled, so a lost client stays lost.
* `sent[r]` is what was told about run `r`; `"scheduleCancelled"` goes to whoever
  asked for the cancellation.
* `CancelExecution` stands for cancelBackup, the UI and the watchdog.
* The branch of `TakeLock` that finds a cancellation already requested exists in
  the code; `NothingOutlivesTheLock` shows that it is never taken.

### IdempotencyRegistry

An answer is named by the call that computed it, so that "the same answer" can be
stated. `withStore` is chosen in the initial state and never changes: the class
accepts both, the server wires it with a store. `stale` and `staleRows` are
entries and rows past `expiresAt`; `saves` are the saves nobody awaits. `aged` and
`restarts` record history that excuses a second computation.

### CircuitBreaker

`state`, `failureCount`, `successes`, `inFlight` are the fields of the class;
`cooled` stands for "openDuration has passed since `_openedAt`". `upload[u]` is a
call of `uploadToDestination`: sending, waiting between attempts, or over, and
whether it was told to cancel. Uploads to one destination do overlap although one
backup runs at a time: after its upload timeout the scheduler stops waiting, and
the upload ends when its connection lets it. `probe`, `leaked` and `sinceCooled`
record who was admitted and what became of the slot. `BreakerAssumption` fixes
the two values of `CircuitBreakerConstants` (one success closes, one probe at a
time): with two successes needed, a late success of an upload admitted long ago
would give back the slot of the probe and let in a second one.

### BackupHistory

`row` is the status in the table, `recorded` the one in the `BackupHistory` object
the run carries along, `copies` where the backup is, `verdict` what `executeNow`
returned. `old` are runs started longer ago than `staleRunningBackupMaxAge`: the
recovery looks at age alone, also at the run under way when the tray pauses and
starts the scheduler. `recoveries` holds the rows a recovery under way has read;
its guarded writes come later. `update` of the repository reads, checks the state
machine and replaces, an await apart (`Update`, `Replace`). `Crash` is also the
end of a shutdown that stopped waiting. A failed write to the table is logged and
the run goes on (`WriteFails`).

### InstallerBuild

One action for the Python code between two of the programs the script starts; at
each of those points the developer may edit code, PNG, tray icon or version, also
with files whose modification time is old, and the script may be killed. Contents
are numbers; times are those of a clock that ticks at every write. Of flutter the
model assumes only what the script relies on: it compiles the sources it finds
when it begins, and links the executable anew if it is missing or of another
version, else at its own choice. Native sources with an old time, which the tool
chain may overlook, are therefore not promised by `SourcesOfThisRun`: `code` is
what flutter compiles into the Release folder. `VersionOnly` is the part of a
version before `+build`: setup.iss gets the whole version, the `.env` files and
both comparisons only that part. A write of setup.iss or of one `.env` file is one
step. `since` records what the tree held since the script was started, and what of
the two programs the installer carries was there at that time.

### AppcastFeed

`status`, `publishedAt`, `asset` are GitHub's list of releases; `policy`, `feed`
and `head` are main. A job is a run of the workflow: it checks out a commit
(`base`, with the policy in it), validates the release of its event, rebuilds,
and pushes only as a fast forward. Whatever people do to releases, the policy,
main or, with `update_appcast_manual.py`, the feed may fall between any two
steps. `missed` and `heals` tell apart a feed that is behind because nobody told
the workflow (a release edited or aged, a failed run) from one that is behind
although everything was announced, which `QuietFeedIsCurrent` excludes.

### Selection

`Only(s, S)` keeps the elements of `s` that are in `S`, in their order: what
`removeWhere` leaves in the queue's memory and what the manual script leaves of
the feed. `Ascending` and `Descending` list a set of numbers; the feed is sorted
by date with the latter. They are given in closed form (the n-th number is the one
with n - 1 smaller ones) because `SelectSeq` and the sorting operators of the
community modules are recursive: nothing can be proved of them here without
induction over data.

## 3. Runs

Passing runs:

| Run | Instance | Shows |
|---|---|---|
| `queue` | 3 runs (two of one schedule), queue of 2, two callers and the housekeeper, 1 crash; 2.3 M states | types, one row per schedule, rows visible in memory; the service implements `FifoQueue`; whatever overlaps, nothing is handed out twice and order holds |
| `queue_ttl` | 2 runs of different schedules, queue of 1, two callers, the housekeeper, 1 crash, fair; 54 k states | the bound holds when two callers race for the last place, which needs as many schedules as the queue has places and one more; a run whose TTL passed leaves the queue |
| `execution` | 3 runs of 2 schedules by `startBackup` or the tray, queue of 1; 0.8 M states | one backup at a time, nothing outlives the lock, registry consistent, clients told, life cycle refined |
| `execution_mixed` | 2 runs of one schedule by all five ways, one connection dies, fair; 0.18 M states | clients told and life cycle refined on every way in; every run of `startBackup` leaves the registry, the lock is always released |
| `idempotency` | 3 calls of one key and 1 of another, 1 crash, with and without store, fair; 0.3 M states | failures retried, answers genuine, one computation without a store, every waiting call returns |
| `upload` | 3 uploads, thresholds of the code, 3 attempts, fair; 8.6 k states | one probe per cooldown, slot accounted for, a probe that keeps its slot ends the test |
| `history` | 2 runs, 1 failed write; 0.8 M states | a final status stays, a run told as complete is recorded with its result |
| `installer` | 2 runs of the script, 2 edits, 1 kill, 4 versions (two with different build numbers, one malformed), 2 `.env` files; 4.2 M states | an installer carries code, icon, version of its own run, agreeing labels, its own hash, and no program whose download or write broke off in that run |
| `appcast` | 3 releases (2 of one version), 2 jobs, 1 change by hand; 2.2 M states | pushes honour the policy on main and lose no release, order, a quiet feed is current |

Bounds. Two runs of one schedule are the smallest conflict in queue, registry and
lock, a third of another schedule is what gets confused with them, and a queue
shorter than the number of runs makes it full. One crash is enough because
`Restart` forgets all that is not in the table: a second one starts from a state
the first could leave. A third call of one key is needed for one call to join the
entry by which a second replaced the first's. Symmetry is used in the runs
without liveness only, over interchangeable callers and over the two runs of one
schedule. The `queue` run and the mixed run are where an unbounded counter would
appear; the only ones (restarts, dead connections) are bounded by `MaxRestarts`
and `MaxLost`. Three uploads are a probe, a late result and one that asks for the
slot; the threshold of 3 failures is reached by their attempts. Two runs of a
history suffice, since a run touches its own row only and the recovery takes all
at once; more failed writes than one could, of course, leave a completed run
unrecorded. A second run of the build script is what finds the leavings of the
first, two edits are what the double reading of the version needs, and one kill
leaves one file half done. Two jobs are the smallest overlap; three releases give
two of one version and one more to lose. `MaxRuns`, `MaxEdits`, `MaxKills`,
`MaxChanges` and `MaxFaults` bound these; the attempts are bounded by the code.
The theorems need no bounds, but for `MaxFaults` (0 or 1).

`CHECK_DEADLOCK FALSE` where the system may stop: a server with nothing left to do
does, and there are only finitely many runs, calls, edits and releases. A circuit
breaker and a history never deadlock, and are checked for it. "Stuck" is covered by the liveness
properties instead.

Every action has a few forms marked *seeded fault* before it. They belong to no
specification. Put in the place of the action they show that each property can
be broken by a plausible mistake in that code.

Runs that find a comment of the code refuted (TLC's trace is the evidence; the
wording is in `PROJECT.json`, `findings`):

| Run | Property | What happens |
|---|---|---|
| `history_success` | `FailedIsNotSuccess` | the row is set to success before the upload, and every later failure or cancellation writes only rows that are running: a backup that reached no destination stays a success in the history |
| `only_copy` | `CompletedHasCopy` | the copy to staging fails, which is logged, and the temporary backup is deleted: of a remotely started backup nothing is left, and it is told as complete |
| `breaker_stuck` | `SlotIsReleased` | a probe that is cancelled or fails for good records nothing: the slot stays taken and the destination refused until the process restarts |

The execution core has seven more, found earlier. Their configurations are kept to
be run by hand (`tlc -config <cfg> <module>`); each must end with its property
violated:

| Configuration | Property | What happens |
|---|---|---|
| `MCExecutionQueueCancelled` | `CancelledIsNotDispatched` | `removeByRunId` answers true although a `dequeue` under way took the run: told cancelled, executed (`execution_queue_service.dart:199`, "Retorna `true` se removido") |
| `MCBackupExecutionSlot` | `SlotMeansBackup` | `register` throws after `tryStartBackup`: the slot stays taken with no backup (`backup_progress_provider.dart:151`) |
| `MCBackupExecutionOrphan` | `RegistryEmptied` | the catch block of `executeSchedule` sends before it unregisters; if that throws the context stays for ever (`schedule_message_handler.dart:585`; 561-564 says why it must not); under `FairSpec` |
| `MCBackupExecutionQueue` | `QueueAttended` | only a `startBackup` run drains the queue at its end: a run queued behind the timer, the tray, the UI or a legacy client waits with nothing under way, until its TTL (`execution_message_handler.dart:549`) |
| `MCBackupExecutionCancel` | `CancelReachesProcess` | the history id to kill by is stored after the backup returned (`scheduler_service.dart:587`, against 1164) |
| `MCBackupExecutionReported` | `CompletionReported` | a late `failBackup` of an earlier run unregisters the next one, whose completion then reaches nobody (`execution_message_handler.dart:439`, against 450) |
| `MCIdempotencyRegistryOnce` | `ComputeOnce` | with a store, the lookup and the entry are an await apart: two requests compute (`idempotency_registry.dart:90`, against 75) |

Divergences seen in the same traces, given no run of their own because one of
the configurations above already leads through them:

* `pruneExpired` reports every captured run as expired, also one that a
  `dequeue` dispatched meanwhile (`execution_queue_service.dart:247`; the
  comment in `execution_message_handler.dart:1027` promises "sem ter sido
  executado").
* `pruneExpired` removes schedule ids of runs captured earlier (line 249), also
  when a new run of the schedule waits by then; `isScheduleQueued` answers false.
  The table's own check keeps the queue right (`NoScheduleTwice`).
* The registry may hold two contexts at once, against
  `remote_execution_registry.dart:55`: the slot is free before the context goes.
* While there are two, the event of one run is sent to the client of the other,
  and a dead client keeps it from the ones after it.
* A cancelled run's client is told `backupCancelled` and then `backupFailed`.
* A backup can execute while the slot is free, after the late `failBackup`.

Divergences of the modules of the release and the history:

* `installer/build_installer.py:483` downloads `vc_redist.x64.exe` to its final
  name, and line 344 writes `nssm.exe` to its own (only its archive has another
  name). A download or write that breaks off leaves a part of the file, which the
  next run reports as found and packs. `ToolsWhole` says what is left: the run it
  happens to never packs it, so a part must have been there when the run began.
* The comparison after the build (`installer/build_installer.py:460`) leaves out
  the build number, with which `installer/update_version.py:82` names the
  installer. One edit from 1.0.0+1 to 1.0.0+2 between `update_version.py` and
  flutter goes unnoticed and ships an executable +2 in an installer named +1.
  `LabelOfTheExecutable` promises the whole version only without an edit.
* The second icon gate looks at the tray icon in the tree, not at the copy flutter
  took: a drawn one that was built in and then restored passes. `IconOfThisRun`
  excepts it.
* `newest_source_mtime` counts `.app_icon_source_sha256`, a file below `windows/`
  that step 2 writes in every run, so that every run builds and "executavel
  valido" is never taken. `SourcesOfThisRun` rests on it: a file with an old time
  would otherwise go unnoticed, which the mutant of that property shows.
* A PNG edited while the icon generator runs is recorded as the source of an icon
  that was made from the PNG before (`installer/build_installer.py:114`); the
  recorded hash, which ADR-015 relies on instead of times, is then wrong, and
  only the time of the PNG tells. `IconOfThisRun` excepts this case.
* A kill between ISCC and the sidecar leaves a new installer beside the `.sha256`
  of an older one of the same version, until the next run.
* `scripts/sync_appcast_from_releases.py:236`: one release without a readable
  sidecar fails the whole rebuild. A version just blocked then stays in the feed,
  while `docs/install/release_guide.md` (110-117) gives blocking as the quick way back.
* A release held back for its age is published by no event when it is old enough.
* Only the first page of the list of releases is read.
* A rebuild that changes nothing makes no commit, so a run that looked earlier, on
  the same base, may still push what it saw. `QuietFeedIsCurrent` excepts it by
  `MakesUp`.
* `update` of the history checks the transition and replaces the row an await
  later: a run that a recovery took for dead in between turns the error of its
  row into its result (the exception in `StatusIsFinal`).
* `allowsRequest` of the breaker is documented as free of effects and does change
  the state; tests alone call it.

## 4. Fairness

* `ExecutionQueue`: weak fairness of "some statement runs" (drift answers every
  statement, in order) and of the housekeeping, a periodic timer. No client and
  no drain is ever forced to act.
* `BackupExecution`: weak fairness of each coroutine (`Resumes`) and of each
  delivery: what is awaited ends, with success or error. For the backup itself
  the code has its own limit, the watchdog, and process time-outs. No fairness
  for arrivals, cancellations, expiry.
* `IdempotencyRegistry`: weak fairness of what a call awaits, with `Computed` and
  `ComputeFailed` both possible; none for the TTL, unawaited saves or crashes.
* `CircuitBreaker`: weak fairness of time (`CoolsDown`) and of what each upload
  awaits: the destination services have timeouts, and the wait between attempts
  is bounded. With which result an attempt ends is open, and nobody has to start
  an upload.
* `BackupHistory`, `InstallerBuild` and `AppcastFeed` state no fairness: their
  properties are about what was done, not that it is.

## 5. Theorems

All are proved by TLAPS for all values of the constants that satisfy the
assumptions of the modules (`QueueAssumption`, `ExecutionAssumption`,
`IdempotencyAssumption`: the schedule or key of each run or call exists, the
marker for "none" is none of them, bounds are naturals, a queue has room for one;
`BreakerAssumption`: thresholds are positive, one success closes, one probe at a
time; `HistoryAssumption`: at most one write to the table fails;
`InstallerAssumption`: the marker for a missing file is no installer;
`FeedAssumption`: releases are numbered, finitely many, each with its version).
Every safety property of the passing runs, every action property and both
refinements are proved.

**Queue** (`ExecutionQueueProofs`). Two inductive invariants. `QueueInv` is about
the table: types of the table and the tasks, `NoScheduleTwice`, `QueueBounded`,
`DispatchedIsGone` and `PendingInsertsAreNew`. The last is the strengthening: a run
whose insertion is under way is not in the table, was not dispatched since, and is
inserted by no other task; without it a late insertion could bring a dispatched
run back. All actions but three are *quiet* (they shrink or keep the table,
dispatch nothing, start no insertion): `QuietStep` deals with them at once, and
enqueueing, inserting and dispatching are proved one by one.

`MemoryInv` is about memory beside the table. `RowsVisible` (the rows are what
memory holds, in memory's order) is not inductive: `dequeue` removes whatever is
first in memory, an await after it deleted the row of what was first then. It
holds because the captured head is still first as long as its row is there
(`HeadStaysHead`); that in turn because nothing gets before it, and because an
insertion of the same run, put back by a drain, waits behind the deletion in the
line of statements (`InsertsFollow`), a run being inserted is not in memory yet
(`InsertsUnseen`), and what `pruneExpired` will take out of memory has no row left
or is still on its list (`ExpiredCaptured`). `TasksWait` says that a task is in the
line exactly while it awaits, once. `MemoryCovers` is `RowsVisible` in a form that a
step can be followed in: by pairs of runs one ahead of the other.

The refinement of `FifoQueue` rests on both: that a dispatch takes the *oldest* row
needs `RowsVisible` and `HeadStaysHead`; that an acceptance is of a new run needs
`PendingInsertsAreNew`. A crash maps to the deletion or insertion it let through,
or to no step. Results: `QueueInvariant`, `DispatchedOnce`, `TableConsistent`,
`BoundKept`, `QueueTypeCorrect`, `RowsStayVisible`, `ImplementsFifo`, and
what follows for a drain, `OldestFirst`.

**Execution** (`BackupExecutionProofs`). One backup at a time is not inductive:
handing out a run of the queue changes the `pc` of that run, and nothing yet says
that it was not executing. `QueueOnce` says it: the queue lists exactly the runs
whose coroutine waits there, each once. `LockInv` joins it with the types of
`pc`, `OneBackupAtATime` and `NothingOutlivesTheLock`. The registry is proved
apart: every step keeps it, registers or unregisters one run (`RegistrySteps`),
and each keeps the indexes in agreement. For the refinement of `RunLifecycle`,
`LifeInv` says that a run has an outcome exactly when its coroutine is past the
end of its backup, and each action moves one run along the table or none
(`MovesAlong`); `QueueOnce` is needed once more, for the run a drain hands out. `TellInv`
follows a remote run through registry, slot and coroutine: it is registered or
told, until it is past its report, when it is told; a run that has yet to begin
has no origin, so that beginning is where it gets registered or told. Results: `OneBackup`,
`CancellationsEnd`, `QueuedOnce`, `RegistryConsistent`, `TypeCorrect`,
`ImplementsLifecycle` with `EndedStaysEnded`, `ClientsAreTold`.

**Idempotency** (`IdempotencyRegistryProofs`). `EntryInv`: the entry of a key is a
call of that key that computes or has succeeded, which is what survives that a
failure removes whoever's entry is there. `OnceInv`: without a store, as long as
neither TTL nor crash removed it, whoever computes or computed *is* the entry.
`AnswerInv`: every way an answer travels, by the entry, the completer, the pending
save or the table, starts at a call of that key that computes or has computed it
itself. Results: `IdempotencyTypeCorrect`, `FailedIsRetried`, `SharedComputation`,
`AnswersAreTrue`.

**Breaker** (`CircuitBreakerProofs`). `BreakerInv` adds to types and the two
properties how the counters go with the state: half-open has taken its slot once
(`sinceCooled = 1` until it is left), no success is counted before it closes,
closed and open have no probe. Late results are the point: in open they change
nothing, in half-open the first of them, whoever's it is, ends the period, so
that no second slot is ever given. Results: `BreakerTypeCorrect`,
`ProbesAreRationed`, `SlotsAreAccounted`.

**History** (`BackupHistoryProofs`). `HistoryInv` relates where the run is to its
row: past the dump the row has the recorded status, or the one write that may
fail has failed and the row is still running, or a recovery has taken the run for
dead, for which it must be old. A run that is over keeps its row, because every
write but the last is guarded. Results: `HistoryTypeCorrect`,
`CompletionsAreRecorded`, `EndedRowsStay`.

**Release build** (`InstallerBuildProofs`). `BuildInv` says at each position of the
script what is already certain of what it will ship, one part per property: that
the hash file of step 2 is newer than any executable (`TimesInv`, hence
`AlwaysRebuilds`: a run always builds), which code was read, built and packed
(`SourcesInv`), how the three readings of the version relate (`LabelInv`), which
files carry it (`FilesInv`), what the second icon gate makes certain (`IconInv`),
that the installer just made is the newest in `dist/` (`SidecarInv`, hence
`LatestIsThis`), and that a program which was not there in part at the start is
whole once the script has looked for it (`ToolsInv`). Each part has one lemma, with one step per phase
of the script. Results: all seven properties of the run `installer`.

**Update feed** (`AppcastFeedProofs`). Three invariants, one on the other.
`OrderInv`: no two releases have the same date, and the feed and every list a run
holds are in order, with dates that are past (`RebuiltItems` shows it of what the
script computes, `WithItemInOrder` of what the manual script does to a feed in
order). `HonourInv`: a run whose base is the head of main has the policy of main
(`ChecksOut`), and what it is about to push has no blocked version and every
release that stands in the feed and should stay (`Honours`); a commit makes the
base of every run that is under way an old one (`MainMoves`), and without a commit
no release that was not offered comes to stand in the feed (`MainStays`).
`HealInv`, for the quiet feed: while nothing was missed, a run that read the
releases before a change nobody announced cannot push (`LateAreRefused`); a run
that read all there was leaves the feed current by its push, or the feed is not
current and another run is pending (`HealsOrHanded`); and whenever the feed is
neither current nor known to have missed something, some run is pending
(`CurrentOrPending`), where *pending* is a run that has yet to read, or whose
list is the current one unless main has moved, which makes its push fail, and a
failure is noticed. The case that makes the second needed is a release published
while a run that read before it is about to push: the run of that release is then
pending. Results: `FeedTypeCorrect`, `FeedInOrder`, `PushesHonourMain`,
`QuietFeedCurrent`.

`SequenceLemmas` has what removing elements, filtering and sorting do to a sequence:
membership, order by pairs (`Ahead`), and what `Ascending`, `Descending` and `Only`
list.

Model-checked only: liveness (`ExpiredLeaves`, `StartedRunsLeave`, `LockReleased`,
`CallsReturn`, `ProbeEnds`), since the prover handles neither fairness nor
`ENABLED`.

## 6. Plan

The core came first because every other part is reached through it.

1. `FileTransfer`: leases, the file lock, chunks and resume, and the staging
   cleanup against a download under way. (Seen while reading
   `infrastructure/file_transfer_lock_service.dart`: the lock file is looked at
   and written without exclusive creation, its name is a 16 bit hash, the lease
   is not renewed during a transfer.)
2. `ServerConnection`: authentication, rate limit, heartbeat, send queue and
   disconnect; what `SendThrows` abstracts. With it the order and duplicates of
   events and `rebindClient`.
3. `ClientConnection`: pending requests, time-outs against late answers,
   reconnects; abstract specification "each request completes exactly once".
4. `Destinations`: the parallel uploads of one run, their cancellation and the
   cleanup, between `CircuitBreaker` and `BackupHistory`.
5. Proofs: the state predicates the liveness properties rest on (who waits has
   somebody to wait for), and the theorems of each new module.

Each new module gets one passing run with its invariants and liveness together.

## 7. Not modelled, and why

The components of stages 1 to 4, until their turn. Beyond the plan: database and
destination back ends, the Windows service and auto-update drive external
programs, and a model of them would be a model of those; the repository tools
(`scripts/scan_encoding.py`, `coverage.py`, `install_git_hooks.py`,
`run_parse_ftp_metrics.py`) pass once over files and print; notifications,
metrics and logs change no state of the parts above; the UI enters as "somebody
starts or cancels a backup"; licences as a nondeterministic refusal; the
contents of messages (request ids, times, payloads) matter to no property here.
Of the modelled components, `PROJECT.json` says what is left out of each: next
run times and retention of the scheduler, the texts and rollout attributes of the
feed, an icon or PNG missing altogether, `listSchedules` and `updateSchedule`, and the crash between the answer and its save in the
idempotency registry, across which the code promises nothing.
