# A verification development for pfsense-backups

TLA+ models of the worker, of the web service's event plumbing and of the state
the two share, the
TLC runs that check them on small instances, and TLAPS proofs of the properties
that matter most. Every definition is translated from the Python source;
`PROJECT.json` maps each to the lines it stands for.

## 1. The system

pfsense-backups downloads `config.xml` from a fleet of pfSense firewalls and
keeps the files, a history of them and what changed between them. Two services
share a data volume with a SQLite database: **web** (FastAPI, serves the UI,
sends commands over ZeroMQ) and one or more **workers** (run the backups).

| Component | State it keeps | Operations | Interacts through |
|---|---|---|---|
| Command listener (`worker/ipc_listener.py`) | handler pool, commands in the socket's queue | dispatch by kind; fail a job its handler left behind | ZMQ from the web; `InstanceLocks`; the manager |
| Scheduler (`worker/scheduler.py`) | APScheduler jobs | fire, reload, add or replace | creates Job rows, calls the manager |
| Locks (`worker/instance_locks.py`) | one lock per instance and process, one flock per instance, one semaphore per host and process | acquire, release | held by listener, scheduler and manager, in different layers |
| Backup manager (`worker/backup_manager.py`) | Job status, Backup rows, files | back up one, back up all, test, re-encrypt one or all, prune, record, diff | database, disk, firewall, notifier, replication |
| Boot (`worker/__main__.py`) | – | fail jobs left by a crash; rotate-key; reindex, backfill commands | database, key file |
| Secret key (`pfsense_shared/crypto.py`) | key file, keys loaded by each service | create, load, prepend, drop | every encrypted column |
| Retention (`pfsense_shared/retention.py`) | none (pure) | `compute_keep_ids` | called by each backup |
| Archive store (`Backup` rows and files) | path, password, presence | save, unlink, record, delete, adopt, re-encrypt | worker under the instance lock, web without it |
| Off-site replication (`worker/replication.py`) | replica fields of Backup rows, remote objects | upload, retry sweep, verify, retrieve, mirror delete | retention, re-encrypt, web delete |
| Staleness (`worker/staleness.py`) | the instance's stale stamp | stamp, clear, alert | finishing backups |
| Notifier (`worker/notifier.py`) | channels, scopes | route, send, ping | manager, staleness, replication |
| Diffs and anchor events | BackupDiff, AnchorEvent rows | compute after a backup, reindex, cascade on delete | retention, web |
| Event bus, log ring, IPC client (`web/services`) | bounded queues, cursors | publish, subscribe, take a slow subscriber off | browser streams |
| Web routers, auth, tokens | rows | CRUD, trigger, download | all of the above |
| Parser, diff, redaction (`pfsense_shared/pfsense_*`) | none (pure) | XML to records | diffs, viewer |

What is hard here: threads of a sweep, cron fires and handlers of several
processes contending for three kinds of lock; exceptions that leave a handler at
any point; a process that dies between the file system, the database and a remote
store, or between two transactions of a rotation; the web, the retry sweep and
command-line tools acting on rows and files without the worker's locks, with what
they read before a network call; ids that SQLite gives out again; bounded queues
and lossy sockets between the two services; retention and event logs whose mistakes
show only several backups later.

What makes each part correct:
* **Worker**: backups of one instance exclude each other; the per-host ceiling
  holds; locks are given back on every path; no circular wait; a handled job is
  settled once and stays settled.
* **Archive**: a recorded backup can be opened with the recorded password; no
  operation removes another row's file.
* **Replication**: nothing leaves in plaintext; a row never ends up off-site only
  without its object; what is retrieved opens; the documented life cycle is kept.
* **Retention**: the newest backup survives; a tier's periods stay represented;
  the cap is exact.
* **Secret key**: every stored credential is readable with the file on disk at
  every crash point; services agree on the keys; a rotation ends.
* **Schedule and staleness**: the scheduler runs what the rows say; alerts are
  spaced, and silence is always noticed.
* **Notifier**: each row hears what its scope and trigger call for; a check that is
  started is ended; forms do not destroy secrets; a provisioned row has its check.
* **History**: diffs hide no change of a row they can see; the log of anchor events, the walk over the
  files and the cached diffs agree.
* **Streams**: a browser's stream has no holes; an answer is not missed; log lines
  reach their viewer; outdated timelines leave the cache.

## 2. Plan

Built, in this order: `Worker`, `SecretKey`, `Retention`, `Archive`, each with its
proofs (those of `SecretKey` share `ArchiveProof`: the key file is the other half of an
encrypted backup); then `Replication` with the abstract `OffsiteCopy`, `Schedule`
(scheduler reload and staleness), `Notifier`, `ConfigDiff` with `History`, and
`Streams`. Every component has its proofs.

Left, in order of importance:

1. Liveness by proof: the five temporal properties of the runs stay with TLC as
   long as the prover has no fairness.
2. A composition of `Archive` and `Replication` over one set of rows, when TLC can
   afford it: today `Replication` keeps the re-encrypt as one step and `Archive`
   has no off-site rows.
3. Authentication: the token cache against revocation, the session and CSRF cookies.

## 3. Modules and the code

### Worker (`Worker.tla`, `MCWorker.tla`, `WorkerProof.tla`)
One control label per thread (`pc`), the command it works on (`cmd`), and the
three lock tables exactly as the code keeps them: `ilock` per process, `flock`
per instance with the *process* as owner (the descriptor is cached, so a second
thread of the holder is granted it again and any `LOCK_UN` frees it), `sem` per
process and host. `held` is what a thread's `with` blocks hold, which the proofs
relate to the tables. `Submit`, `Fire` and `Dispatch*` bring work in;
`AcquireInstanceLock` … `ReleaseInstanceLocks` are the steps of
`backup_instance`, with early returns and exceptions as disjuncts; `Escape` is an
exception that leaves the manager (`_dispatch` settles the job, APScheduler and
the sweep only log). `MarkRaises` switches on exceptions of every write of a Job row
and of `publish`. Three of them matter. `_mark_job(running)` and the publication after
it stand between the flock and the `try`: `Unwind`, `Caught` and `zombie`
follow the flock until the traceback that owns its exit stack is freed.
`publish(BackupFinished)` (`Announce`) is still inside the `try` after the job was
marked a success: its failure goes through the `except` block, which marks the same job
a failure. And the clean-up of `_dispatch` has an `except` of its own: `stranded` are the
jobs it left queued or running, until a boot fails them. `Crash`
loses threads, in-process locks and flocks of a process and any commands it had
received; `Boot` is `_mark_stale_jobs`. Commands that have no job and take no lock
are in the modules they concern.

### Archive (`Archive.tla`, `MCArchive.tla`, `ArchiveProof.tla`)
The files of one instance (which backup each holds, under which password), the
staged `<path>.new`, the Backup rows, and the steps of a backup
(`Save`, `PlanPrune`, `Unlink`, `CommitPrune`, `Record`), of a re-encrypt
(`PlanReencrypt`, `Stage`, `CommitPassword`, `Swap` and their failures) and of the
web (`DeleteFile`/`DeleteRow`, `ImportScan`/`ImportCommit`). `Interrupt` and
`InterruptDelete` are a death or exception between any two steps: the open
transaction is undone, the disk is not. Rows have a number of the model's own and the
id the table gave them (`tid`): SQLite gives the id of a deleted row to a later one, so
a statement by id finds `Hit(r)`, which may be another row than the one it is meant for
(`CommitPassword` and `SwapFails` write a password, retention and the web delete). Ids are
given out over all instances, so statements of another instance's re-encrypt, retention
or delete may find a row here: `StrayPassword`, `StrayDelete`. `torn` and `lost` are
ghosts that record which rows an interruption, a failed restore or a password meant
for another row hit; these are the exceptions of `Recoverable`. Which rows are stale is
left open here except that one is kept (`NewestSurvives` in `Retention`).
Simplifications: one delete and one import request at a time, one file per import,
uncompressed saves, no off-site rows. `CoarseNames` says whether two backups may
get one name: the default timestamp has seconds, the setting can be coarser.

### Replication (`Replication.tla`, `OffsiteCopy.tla`, `MCReplication.tla`, `ReplicationProof.tla`)
The replica columns of the rows, the files, the objects at the destination and the
settings. A file is its password; an object is what is inside, the layer around it
and whose random salt that layer has. Every uploader runs `Snap`, `Read`, `Put`,
`MarkDone` or `MarkFailed` with the settings it loaded at its start; a sweep lists
rows with their attempt counts and works through them; `VerifyOne`, `Unlink` /
`CommitPrune` with the three fates of a stale row (off-site only, mirrored, dropped),
`BeginRetrieve` / `Download` / `Restore`, `Rekey`, `DeleteFile` / `DeleteRow` /
`DeleteObject`, `Backfill` and `PutReplication` interleave with it; `Crash`,
`LoseObject` and `Strike` are the faults. `Backfill` may come between a row and its own
queueing, which then queues it again. `Strike` is what reused ids do here: everyone who
writes by id after a wait on the network (`_mark`, `verify_replicas`, the restore, the
commit of retention) may find a later row under the id of the one it means. What the
statement leaves in that row is arbitrary as far as the row is concerned: it may be
marked done with another backup's key. So the row is not followed any further (it is in
`struck`), and the properties promise nothing of it; they do promise that its fate
touches no other row. For the same reason `CommitPrune` may go through although a row
it updates is gone. `Rekey` is one step here (its steps are in `Archive`),
which rows are stale is open, and file names are unique.

`OffsiteCopy` is the abstract specification: per backup, what the row promises of
the off-site copy (unborn, never, queued, kept, owed, given up, gone, after the
comment on `replica_status`; void, if it was struck), where it says the backup is, and
which backup may still queue its own row (`fresh`: it does so once, `QueueOwn`, or
never, `Forgo`). `KeepsPromise == Copy!Spec`, for `Copy == INSTANCE OffsiteCopy WITH`
`promise`, `place` and `fresh` as computed from the rows and the backup under way, is
the refinement.

### Schedule (`Schedule.tla`, `MCSchedule.tla`, `ScheduleProof.tla`)
Rows with their schedule, the reload commands in the socket, the reload each
handler thread works on (`TakeReload`, for all instances `ListJobs`, `DropJob`,
`AllDropped`, then `ReadRows`, `ApplyRow`, `EndReload`), the job table, backups, and the
staleness pass (`BeginPass` reads the rows and stamps, `CheckInstance` looks up the
newest success and alerts, `CommitPass` writes all stamps or none). `reload_all` removes
the jobs it has listed one by one; when another reload was faster with one of them,
`JobLookupError` leaves it before anything is loaded again (`DropFails`), and every
instance counts as `missed`. `SendStale` may raise, which the pass catches, and stamps
all the same: `unsent` are the instances whose last alert was lost like this. The worker
is down at first, with the rows of `AtBoot` in the database. Time is hours since an event, kept up to
the limit that matters; a pass is shorter than an hour. `WebStops` loses what the
socket holds (LINGER 0), `Crash` what the worker had taken. `OddCrons` are the
expressions croniter accepts and APScheduler refuses.

### Notifier (`Notifier.tla`, `MCNotifier.tla`, `NotifierProof.tla`)
A single run or a sweep from its start ping to the last message, by the names its
instances had when it looked, and `send` by the ids those names have when it sends.
`InScope`, `Succeeded`, `ShouldSend` and `Label` are the routing; `Expected` is the
reference by ids it is compared with. Operators rename, switch and delete instances
and create, edit and delete rows; a Healthchecks row may own a check upstream, and names
it in its config. An update reads the row and merges the form into it (`ReadHook`), may
wait for Healthchecks, and writes the columns that changed to whatever row has the id
then (`WriteHook`); two `Editors` do so at once. `typed`, `claims` and `raced` say what the
client sent and what was written in between, `claimed` which checks a client, and not
the provisioning, put into a row, `mixed` which rows were written by an update that had
read another row of the id. A create stores the config as it comes, a placeholder
included. Of an update's fields, trigger, secret and check are varied.
`TaskCrashes` is an exception past `backup_instance`'s own handler, for a task of a sweep
and for a single run, before and after its start ping. A format that cannot be filled in
ends every loop over rows (`SendOne`, and `Reached` for change messages and staleness
alerts), and a test message.
Messages are reduced to their label. A run that is sending has read its rows, so
edits wait for its end. `Routed` is about runs whose loop over the rows came to its
end: the row whose format ends it early may be gone by the time one looks, so the
condition is the run's own `broken`, and `notifier_silence` shows what it hides.

### ConfigDiff and History (`ConfigDiff.tla`, `History.tla`, `MCHistory.tla`, `HistoryProof.tla`)
`ConfigDiff` is pure: a configuration has a list whose order matters, one whose order
does not, a record of fields (flags with renamed anchors, a text, a list, a record inside
the record), and packages, of which one has fields and one a list; `DiffConfigs`, the
projection of a diff to anchor events, and the resolver of an anchor to a value, which
returns texts (`Stringify`). Three things the code does are visible in the properties.
Rows may share a key: the keys of NAT rules and of firewall rules without a tracker
leave the description out. The diff then compares the last row of a key (`Index`), the
resolver finds the first (`ValueIn`), and a change of a hidden row is none
(`Visible` in `SameConfig`). A change inside a record in a record has a dotted field,
which the projection discards: `Unlogged` are its anchors and those of packages.
And a field's value is compared with what the resolver prints of it (`Shown`). `Followed`
are the anchors that no retained backup gives to two rows and whose changes are
projected; the properties of the log are about those.
`History` has the Backup, BackupDiff and AnchorEvent rows of one
instance and whoever reads first and writes later: the ingest after a backup, a view
that recomputes a diff, the reindex command (one writer until its commit), deletions
with their cascades, imports and lost files. A new row takes the id after the highest,
as SQLite does without AUTOINCREMENT; `no` is a serial number of the model's own, by
which `Reused` and `FileOf` notice that an id now belongs to another backup. `lost` is a
file that cannot be read any more; what it held stays part of the model, since events
and diffs still speak of it. `gap` records that a change between two retained backups is
not in the log (an ingest that failed, a backup deleted from the middle), for which the
code promises nothing until a reindex, or until an instance that has only the new backup
is seeded from it. The ingest reads both bases before it writes. `SameConfig` takes two
configurations for equal that differ in the order of their aliases and in hidden rows
only, as the diff does.

### Streams (`Streams.tla`, `MCStreams.tla`, `StreamsProof.tla`)
The worker's publications on the wire, the bridge, the bus with a bounded queue per
subscriber (a full queue takes the subscriber off the bus and leaves it waiting), the
browsers, the request that subscribes, sends and waits for an answer or a timeout, the
cache of timelines with its invalidator and the walks that fill it, the log ring with
`post_threadsafe` in two steps (append, schedule) and a viewer that takes its snapshot
and subscribes in two. The web is one event loop, so a step ends where the code
awaits. Both sides restart; messages are lost. A backup of the worker owes its event
(`CommitBackup`, `PublishFinished`); an import commits rows and publishes nothing
(`ImportBackups`), so it counts as excused in `StaleTimelineGoes` until the next event.
Left out: deletions (a timeline that shows a backup too many), and a log line posted
while the loop is closing, which is only appended (`log_ring.py:51-57`).

### Retention (`Retention.tla`, `MCRetention.tla`, `RetentionProof.tla`)
`compute_keep_ids` over any order that sorts by time (ties are open), windows and
calendar buckets as functions of a tick, then the life of the rows: prune before
record, files that cannot be unlinked, imports with old timestamps, backups that
fail. Manual deletes and policy changes are left out, since both may legitimately
remove what the properties protect. Because pruning precedes the new row, the
directory holds up to `cap + 1` backups between two runs.

### SecretKey (`SecretKey.tla`, `MCSecretKey.tla`, proofs in `ArchiveProof.tla`)
The file as its first line and its lines, what each service has loaded, the key of
each ciphertext. `ensure_keys` is split at the test, the open that truncates and
the write; `rotate_key` at each transaction and file write; `AbortRotation` kills
it anywhere. `Creators` are the services started on a new volume. The stack is
stopped during a rotation, as the documentation asks. A crash between truncation and
write leaves an empty file that no service accepts, which is why `key_rotate` does
not check for deadlock.

## 4. Runs

| Run | Question and result |
|---|---|
| `worker_locks` | Two processes (one with two threads), two instances on one host with one permit, three jobs, one crash. `BackupExclusion`, `LockRegionsDisjoint`, `HostCap`, `NoLockLeak`, `BlockedIsNotRunning` hold; no deadlock. |
| `worker_live` | One process, two handler threads and a sweep thread, all job-bearing commands but the test, writes of jobs and publications may raise. `ThreadsReturn`, `HandledJobsSettle`, `SettledStaysSettled` hold. No deadlock. |
| `key_rotate` | New volume with one creating service, three backup rows in chunks of two, two services, and after the first key two rotations, each completed or cut off. `CredentialsReadable`, `ServicesAgree` hold at every crash point; `RotationEnds` holds. |
| `key_settings` | *Violation.* A completed rotation strands the secrets of the replication settings. |
| `retention` | Six policies (no limit, cap, tiers, both), days of two ticks, weeks of two days, months of three. `NewestSurvives`, `TiersCovered`, `CapTight` hold. |
| `archive_keep` | Three file names, two passwords, up to three backups and adoptions with ids that are given out again, any two of web requests, interruptions, failed restores and stray statements. `Recoverable`, `MissingExplained` hold; no deadlock. |
| `replication_keep` | One backup, its upload, a sweep, a verification, retention, a retrieval, a web delete, three settings, and one event: a change of settings, a re-encrypt, a crash, a lost object or a strike. `NoPlaintextOffsite`, `OffsiteOnlyHasObject`, `RetrievedOpens`, `AlertOnce` and the refinement `KeepsPromise` hold. |
| `schedule` | Two instances, two crons (one that APScheduler refuses), two zones, two handler threads; two edits and a stop of either service, or three hours with two backups and a stop, or two hours with a backup and an edit; under fairness of boot and pass. `ScheduleMatches`, `AlertsSpaced`, `NeverQuiet` hold. |
| `notifier` | Two instances, two rows of seven kinds; a run with one change of an instance or a row, one save or one other message at any point of it, or two updates at once with two creations or deletions between. `Routed`, `StartsAreEnded`, `SecretKept`, `ProvisionedHasCheck` hold. |
| `notifier_silence` | *Violation.* A message format that cannot be filled in ends the loop over the rows. |
| `history` | Three backups of two configurations that differ in every section, one with two rows under a key, two faults. `BlameDescribes`, `WalkChangesIndexed`, `CumulativeSound`, `CachedDiffTrue` hold in every state, `DiffSeesAll` and `AnchorsRoundTrip` over all pairs of four hundred sample configurations. |
| `streams` | One browser, one instance, queues and ring of one, two logging threads, any four inputs or faults. `StreamHasNoHoles`, `AnswerIsWaitedFor`, `LinesReachViewer` hold; `StaleTimelineGoes` under fairness. |

The violating runs each state a line of the repository's documentation or
comments; `PROJECT.json` quotes it under `findings`.

**Bounds.** Two threads in one process and one in another are the least that
show both halves of the exclusion (thread against thread, process against
process); two instances give a lock order and a shared host; three jobs put two
backups and a re-encrypt in flight. One crash is enough for every crash point,
since a second one starts from a state of the same kind. In `Archive` the
third backup is the first whose retention finds a stale row, and two events are a delete
and the import that gets its id, or a request and what interrupts it.
In `Replication` the rows meet only in retention's commit and the sweep's list, and
everything that races does so on one row; one event falls between any two steps of
the others (the proofs are about any number); two attempts cross the alert threshold and
the limit. In `Schedule` instances meet in `reload_all`, where a reload of one takes
the jobs of the other along, and in the commit of a pass; two edits and two threads are what overlapping
reloads take, and a threshold of zero with a repeat after two hours lets several alerts
happen. The clock does not touch the job table, so `Budgets` gives a behaviour either
edits or hours in number, not both. In `Notifier` one edit is enough to fall between any
two steps of a run, and two saves with two deletions or creations put a new row under an
update; `Budgets` keeps the two apart, and `Saves` are forms sent back as they were
shown, with something changed, with another row's check, or with a secret typed in.
In `History` three backups
have a middle one; two faults delete, import, lose or reindex twice, and one view
(`MaxViews`) recomputes a diff at any point. In `Streams`
queues of one are full at the second message. In `Retention` the calendar is shrunk
so that several buckets of every tier, and windows ending inside one, fit into five
ticks. Every bound is a named constant (`MaxCrashes`, `Jobs`, `MaxKeys`, `MaxTime`,
`MaxBackups`, `MaxImports`, `MaxIds`, `MaxId`, `MaxFaults`, `MaxEvents`, `Budgets`,
`MaxViews`, `MaxInputs`), and the proofs need none of them to be small.

**Symmetry** is used where model values are only compared: jobs and the two threads of
one process, file names, passwords, names of instances and ids of notification rows.

**Deadlock** is not checked where the bounds or the code let everything stop:
`key_rotate` (the empty key file), `schedule`, `notifier`, `history` and `streams` (all
inputs used up and nothing under way).

**Fairness.** `worker_live`, `key_rotate`, `schedule` and `streams` use it, weak
fairness only. Worker: each running thread takes its next step eventually (the
operating system schedules it; network calls have timeouts; the flock is polled), the
listener keeps polling, a dead container is restarted by its policy; a waiter for an
instance lock is not assumed to win against an endless stream of others, the jobs are
finite. Rotation: the command goes on until it ends or is killed. Schedule: the
container is restarted, the boot goes on, and the interval job runs its passes to
their end; nothing is assumed of reloads, backups or time. Streams: the worker
publishes what it has committed, the bridge and the invalidator take what there is.

**Mutants.** Each property of a passing run has a mutated definition, marked
`Mutant` in the module, under which TLC finds the property violated.

## 5. Proofs

All hold for every value of the constants that satisfies the module's ASSUMEs.

* `WorkerProof`. `IInv` = types; what each label implies about the command and
  the lock held (`ShapeInv`); lock tables and `with` blocks agree (`HeldInv`); the
  flock is held by a process exactly while one of its threads is in
  `backup_instance` (`FlockInv`); the semaphore counts the threads in the network
  phase (`SemInv`). Exclusion follows from two of these at once: the flock tells
  processes apart, `HeldInv` tells threads of one process apart; neither alone is
  inductive. `TypeCorrect`, `RegionsDisjoint` and `HostCeiling` are unconditional;
  `BackupsExclude` and `LocksReleased` assume `~MarkRaises` (section 6 says why).
  `JobInv` is about the jobs: a command waits in the socket or one thread works on it,
  so nobody else marks its job (`OwnerInv`, the items of a sweep share theirs), and a
  job that is not over is not settled while no worker dies (`OpenInv`).
  `WaitingIsQueued` follows without a hypothesis, `SettledStays` for
  `MaxCrashes = 0`: a booting worker fails jobs whose commands may still run. A thread
  that is about to announce its success, or to fail after it, works on a settled job:
  `OpenInv` leaves these two labels out, and the property names what may follow.
* `RetentionProof`. `TypeOK /\ NewestSurvives /\ TiersCovered` is inductive, from
  lemmas about the keep-set: the first position is always kept, and for each
  bucket inside a window the kept one is at least as new as any other. `CapIsTight`
  needs no history: `FirstOfIsSlice` shows that the positions taken are an initial
  part of the list and exactly as many as asked for, by way of the greatest position
  taken and the least one left (no induction over the list), and `KeepsWithinCap`
  carries that through the two branches of the keep-set.
* `ArchiveProof`. `TInv` for the types. `AInv`, when names are unique: each backup
  has its own path and a file lies at the path of the backup it holds
  (`HomeInv`), recorded rows name it (`RowInv`), the file of the backup in
  progress has the password its row will get (`CurInv`), and at each stage of a
  re-encrypt which of row, file and staged file has which password (`TaskInv`), for
  rows that no password meant for another row hit (`PwInv` keeps the two apart).
  `PasswordsKept` follows, whatever ids are given out again (`FoundById`: a statement
  by the id of a row that is still there finds that row). `MInv`, when moreover nothing is adopted while a backup
  runs: rows have distinct paths, stale entries and files about to be recorded or
  adopted belong to nobody else; `FilesKept` follows.
  The second half is about `SecretKey`, whose state machine has names of its own
  (`KeyInit`, `KeyNext`, `KeySpec`), so that one module can extend both. `KInv` adds to
  readability that the rotation's memory equals the file, that past the verification
  every walked ciphertext is under the new key (this is what makes the pruning step
  safe) and that a creating service has found no key in use. Hypothesis `OneCreator`:
  the file existed or one service creates it (section 6 says why).
* `ScheduleProof`. `SInv` adds to the types that a reload under way has its instance
  (`HandOK`), that a pass has just alerted what it has marked, or failed to (`MarkInv`), that
  the stamp of a row whose last alert is not forgotten is no older than that alert
  (`StampInv`; younger, where a later one could not be sent), and
  that what the pass read as due still is when it comes to the instance (`DueInv`).
  `StampInv` is what the spacing rests on: the pass decides by the stamp, the promise
  is about the alerts. `ScheduleTyped`, `StampsBacked` and `AlertsAreSpaced` are
  unconditional. `LoadInv` is about reloads: the boot loads
  alone, from an empty table (`BootInv`); two reloads of one instance at a time count as
  crossed (`AloneInv`); a job that a reload of all has dropped, or did not list, stays
  away until it has read the rows (`DroppedInv`); one that was not crossed holds the row of now and
  has applied it or will (`ApplyInv`); with none under way the table has what the row
  says (`TableInv`).
  `SchedulesMatch` follows; reloads that cross, that were lost or that raised half-way
  are its exceptions, as in `ScheduleMatches` itself.
* `ReplicationProof`. `RInv` says what each actor may still believe of a row it read
  earlier: an attempt, a sweep's list and a verification concern rows that were queued
  (`QueueInv`), what retention will keep as off-site only was copied and is local
  (`PruneInv`), the row just recorded keeps its file until its own queueing, whoever
  queues it earlier (`LockInv`), and what is to be deleted has no row, nor is a struck row
  followed again (`OrphanInv`). `RowsLast` is the common
  ground: what no step takes from a row that stays. From `RInv` every step maps to a
  step of `OffsiteCopy` or to a stutter, which gives `ImplementsOffsiteCopy`
  (`Spec => KeepsPromise`) and `DoomedAreOrphans`. Three more invariants rest on it:
  `KeyInv` (the key of a row names an object) for `OffsiteRowsHaveObjects`; `SealInv`
  (what is taken for encrypted has no plaintext anywhere, and what is sent is sealed)
  for `NothingInPlaintext`; `OpenInv` (every copy agrees with the row's password, and
  has the layer the suffix says) for `RetrievedFilesOpen`. `AlertInv` says that an
  alert was sent only for a row whose count has reached the threshold, and that a
  sweep's list holds no count above the row's own and, in the sweep that alerts, none
  that would alert a second time. The counts of
  a row never fall while it exists, whoever else adds to them, which gives `AlertsOnce`
  for one sweep with a notifier (`OneNotifier`; the command-line sweeps have none). The
  number of backups, sweeps, settings, edits and faults is arbitrary; of the constants
  only `ReplicationAssumption` is used.
* `NotifierProof`. `NInv`: names are unique (`NameInv`), Healthchecks rows hear of
  every run and a row names its own check or a claimed one (`HookInv`), an update that
  waits fits the row it has read, as long as no other has come in its place (`EditInv`:
  what `SecretsSurvive` and `ProvisionedChecked` need at its write), an undisturbed run knows the names of its ids (`RunInv`), has
  pinged only rows it concerns (`PingInv`), and each row the loop has come to was told
  what the reference by ids expects (`SendInv`). That names and ids give the same
  answer is `ScopeByIds`; it holds because no name is used twice. `RoutedRight`,
  `StartsEnded`, `SecretsSurvive` and `ProvisionedChecked` follow, for any number of
  instances, rows and edits.
* `StreamsProof`. `StInv`: what a subscriber has and what waits for it are a piece of
  the bus from where it subscribed (`FollowInv`, over `Tracks`, which speaks of
  positions and not of concatenations), a request number is used once (`RidInv`), no
  queue is longer than its bound (`BusInv`, `LogInv`) and the cache lags behind the
  backups (`CacheInv`). `NoHoles`, `AnswersAwaited` and `LinesArrive` follow, for any
  number of browsers and threads and any size of queues and ring.
* `HistoryProof`. First the pure part, for lists of any length, in which rows may share
  a key: the last row of a key is the one the diff sees, the first the one the resolver
  finds, and for a key with one row they are the same (`KeyPositions`, `ListValue`). That
  gives `EmptyIsSame` (a diff is empty exactly when the visible rows and the records are
  equal), `RoundTrip` (every enumerated anchor resolves to the text of a value written
  under it), `DiffTold` (every event of a diff says what the later configuration holds)
  and `DiffLogged` (every anchor whose value differs has an event that is more than a
  move). The invariants speak of the value the diff sees (`Held`), since two values may
  print the same text; `HeldShown` leads from it to what the resolver gives. Then the state. `RowStep` is the common ground: a row that stays keeps its
  time, number and content, and a new one has a number nothing has seen, so that what
  was read under a number is still true if the id still has it (`SameKept`). On it rest
  `SerialInv` (numbers and times), `IngestInv` and `ViewInv` (what was read is what the
  rows hold, as long as the ids are their own) and with them `CachedDiffTrue` itself;
  `BaseInv` and `NewestInv` (the base of the pending events is still the backup before,
  and the backup being ingested the newest), `ToldInv` (every event describes its own
  backup) and `CompleteInv` (every change from one backup to the next is told, unless
  the worker still owes it). `ToldInv` alone is not enough for the views: that an anchor
  has *no* later event must mean that it has not changed. `StaysSame` draws that from
  `CompleteInv` by the earliest backup with another value, instead of an induction along
  the timeline; `BlameTrue`, `CumulativeTrue` and `TimelineComplete` follow. Two facts
  turned up on the way: `ToldInv` must also cover, while the log has a gap, the backup
  that is being ingested, because an instance left with that one backup is seeded anew
  and counts as complete; and a row needs a number of its own besides its id, since a
  backup that takes over an id may have the same time and content as the one before.

Only model-checked: liveness (`ThreadsReturn`, `HandledJobsSettle`,
`RotationEnds`, `NeverQuiet`, `StaleTimelineGoes`), which the prover does not do.
`ENABLED` and induction over data (what a recursive function computes) do not occur in
the properties. Every invariant, action property and refinement that a run checks is
also a theorem. What each theorem is about is in `PROJECT.json`.

## 6. Observations without a run

Worker
* A re-encrypt takes no flock: with two workers it can rewrite archives during the
  other's backup of the same instance, against the comment in
  `ipc_listener.py:196-198`.
* When `_mark_job(running)` raises (`backup_manager.py:345`), the flock taken before
  it is released only when the traceback is freed, through a descriptor the process
  shares: the late `LOCK_UN` can free the flock of the next backup.
* A cron fire whose `_snapshot` raises (missing settings row, a credential that
  does not decrypt), a connection test of an instance that is gone, a sweep with no
  enabled instance, a test notification and a command of an unknown kind leave their
  job queued until the next boot: `HandledJobsSettle` names the kinds for which the
  code does settle it.
* A worker that boots fails the jobs of every live worker, and a command still in
  the socket's queue then re-opens the job that the boot has failed;
  `SettledStaysSettled` is about a worker that stays up.
* A success whose `BackupFinished` cannot be published is shown as a failure, though its
  archive and row are there (`backup_manager.py:425-465`); when the clean-up of
  `_dispatch` fails as well, the job stays open until a boot (`ipc_listener.py:176-177`).
* The fleet re-encrypt reads its rows after choosing its locks, without
  restricting them to the locked instances.

Keys and archive
* Web and worker that both find no key file each write one and keep their own
  (`crypto.py:38-48`); a running service then encrypts under a key the file lacks.
* A worker that dies between the commit of a new password and `os.replace` leaves the
  old file under a row with the new password; the staged copy opens (`Recoverable`),
  but no boot step looks for it.
* An import that scans while a backup is between its file and its row adopts the file:
  two rows then share it, and deleting one takes the other's archive.
* Adopted files are recorded as unencrypted whatever they hold. A re-encrypt whose
  archive the web deletes meanwhile brings the file back.
* A re-encrypt whose row the web deletes meanwhile, and whose id the next backup or
  import is given, records its password in that row (`backup_manager.py:962`), whose
  file then does not open with it.

Replication
* A keep-forever row is deleted when the sweep marks it done while retention holds it
  as pending; its object stays without a row.
* A sweep attempt that started early and fails late turns a good off-site-only row to
  failed, and `verify_replicas` does so on a transient error; the sweep then skips it,
  because it wants a local file.
* A backup's own upload and a sweep may send the same pending row at once, each with
  its own salt; the digest recorded can be that of the object the other replaced, and
  a retrieval is then refused.
* A failed mirrored delete is not "caught by verify-replicas" (comment in
  `backup_manager.py:1405-1407`): the row is gone by then. A re-encrypt leaves the
  off-site copy under the old password. The alert says that retries go on; after
  `MAX_ATTEMPTS` they do not.

* `_mark` (`replication.py:351-362`) writes by id after the upload. When the row was
  deleted meanwhile and its id given to another backup, that one is marked done with a
  key that is not its own; retention may then drop its local file, and a retrieval
  fetches the other's object.

Schedule and staleness
* A reload of all that races with a reload which removes a job raises half-way
  (`scheduler.py:149-152`): instances stay without their jobs until the next reload of
  all or the next boot.
* An alert whose sending raises is stamped as sent (`staleness.py:141-143`): nobody is
  told until the next repeat.
* Two reloads of one instance that overlap can leave the older schedule; a lost reload
  leaves the schedule until the next one or the next boot. A cron that croniter
  accepts and APScheduler refuses leaves the old job running.
* A pass whose commit meets a deleted row loses all its stamps, and the alerts repeat;
  a pass can stamp an instance that a success has just cleared.

Notifier
* A rename during a run makes scoped rows miss it. Deleting the only instance of a
  scope widens the row to all. A sweep task that crashes counts for nothing. Switching
  provisioning off, or a row that fails to be stored, leaves a check behind upstream.
  A lost ping leaves a check started, and so does a single run that raises past its
  handler.
* Two updates of a row that overlap can bring an older secret back; a client may store
  any check as provisioned; a row created from a copy of a form holds the placeholder
  as its secret.

History
* Deleting a middle backup, or a failed ingest, leaves a gap in the log until the
  instance is reindexed; backups ingested between the reindex's listing and its lock
  lose their events.
* A change inside a nested record of a singleton section (`system.webgui`, the SMTP part
  of the notifications) makes no event, though the section's anchors are seeded and the
  walk shows it: blame and the cumulative view stay at the old value.
* Rows that share a key (NAT rules and firewall rules without a tracker that differ in
  their description only) are one row to the diff, the last, and another to the
  resolver, the first; a change of a hidden one is not seen (`nat.py:72-77` hopes for
  more).
* A package that comes or goes, or a changed row of a package (an HAProxy backend),
  makes no event: `_field_changes` takes a list as one value, and the projection wants
  paths of four parts (`anchor_events.py:419`; `test_anchor_events.py:344-347` says it
  surfaces). Blame then shows the old setting.
* A change of order alone triggers no change notification. For the oldest backup the
  base of kind `first` is the second oldest (`backups.py:959-960` says none). The
  cumulative view shows the value after the first modification as the original.

Streams
* A walk that overlaps a purge stores an outdated timeline that stays until the next
  backup; deletions never purge, nor do imports (`backups.py:1571-1574` says that any
  new backup does); a lost event or an invalidator that fell behind
  leaves the cache stale.
* A browser taken off the bus keeps an open, silent connection. Lines fanned out
  between snapshot and subscription are missed, lines scheduled before it come twice.

## 7. Not modelled

Listed with reasons in `PROJECT.json`: parsers, redaction and metrics are pure or
write-only; of the diff, one section of each shape listed above stands for the forty; payload
layouts and HTTP calls of the notifier; read-only routers, authentication and the
frontend keep no state that interleaves with the worker beyond what is modelled; the
guards of the websocket routes (origin, session, rate) and the worker's heartbeat age;
the firewall, the database engine and the container runtime appear only through their
outcomes. Assumed: SQLite transactions are atomic, `os.replace` and `unlink` are
atomic, `fcntl.flock` excludes processes and is dropped when its holder dies.
