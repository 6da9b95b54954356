------------------------------- MODULE Worker -------------------------------
(***************************************************************************)
(* The worker side of pfsense-backups: one or more worker processes that   *)
(* share the database and the data volume, the threads each of them runs   *)
(* commands and cron fires on, the three locks a backup takes (the         *)
(* in-process instance lock, the cross-process flock, the per-host         *)
(* semaphore), and the Job rows the web UI reads.                          *)
(*                                                                         *)
(* A thread's control state is pc[t]; the labels name what it does next.   *)
(* Files, rows and passwords are the subject of other modules: here saving *)
(* a backup or rewriting an archive only succeeds or fails.                *)
(***************************************************************************)
EXTENDS Naturals, FiniteSets

CONSTANTS
    Procs,            \* worker processes on one data volume
    Threads,          \* threads of all processes
    ProcOf,           \* the process a thread belongs to
    SweepPool,        \* the threads of the backup_all pools
    Instances,        \* instance ids (ordered: reencrypt_all sorts them)
    Hosts,            \* pfSense hosts
    HostOf,           \* _host_key(instance.url)
    HostConcurrency,  \* _HOST_CONCURRENCY
    Jobs,             \* Job ids
    Requests,         \* kinds of command the web sends
    Handlers,         \* kinds of command this worker version knows
    Encrypted,        \* instances with encrypted backups at the start
    MaxCrashes,       \* bound: process crashes
    MarkRaises,       \* whether writing a Job or publishing an event may raise (database
                      \* busy too long, socket closed)
    None

BackupKinds == {"run_backup", "scheduled", "sweep_item"}
CommandKinds == {"run_backup", "run_backup_all", "test_connection",
                 "reencrypt_backups", "reencrypt_all_backups", "retrieve_replica"}
Kinds == BackupKinds \cup CommandKinds

Command == [kind: Kinds, inst: Instances \cup {None}, job: Jobs]

ASSUME ConstantsAssumption ==
    /\ Instances \subseteq Nat
    /\ IsFiniteSet(Threads) /\ IsFiniteSet(Instances)
    /\ ProcOf \in [Threads -> Procs]
    /\ SweepPool \subseteq Threads
    /\ HostOf \in [Instances -> Hosts]
    /\ HostConcurrency \in Nat
    /\ Requests \subseteq CommandKinds
    /\ Handlers \subseteq CommandKinds
    /\ Encrypted \subseteq Instances
    /\ MaxCrashes \in Nat
    /\ MarkRaises \in BOOLEAN
    /\ None \notin Procs \cup Threads \cup Instances \cup Jobs
    /\ None \notin Command

VARIABLES
    pc,       \* control state of each thread
    cmd,      \* the command each thread works on
    held,     \* the instance locks each thread's with-blocks hold
    todo,     \* reencrypt_all: locks still to take; backup_all: instances not started
    scope,    \* the instances whose archives a re-encrypt rewrites
    ilock,    \* InstanceLocks of each process: the thread that holds the lock
    flock,    \* CrossProcessInstanceLock: the process whose fd holds the flock
    sem,      \* HostSemaphores of each process: permits taken
    job,      \* Job.status
    inbox,    \* commands sent by the web and not yet picked up by a handler thread
    up,       \* live worker processes
    crashes,  \* crashes so far (bounded by MaxCrashes)
    stranded, \* jobs whose clean-up failed too (ghost, read by no action)
    zombie,   \* flocks kept by exceptions that a sweep's futures still refer to
    enc       \* instances a fleet re-encrypt concerns: encryption on, or encrypted rows

locks == <<held, ilock, flock, sem>>
env == <<up, crashes, zombie, enc>>
vars == <<pc, cmd, held, todo, scope, ilock, flock, sem, job, stranded, inbox, up, crashes, zombie, enc>>

Labels == {"idle", "ilock", "snapshot", "flock", "mark", "host", "network", "save",
           "publish", "fail", "unflock", "release", "lock_all", "sweep", "probe", "plan",
           "rewrite", "fetch", "settle", "raised", "caught"}

Status == {"none", "queued", "running", "success", "failure"}
Terminal == {"success", "failure"}

TypeOK ==
    /\ pc \in [Threads -> Labels]
    /\ cmd \in [Threads -> Command \cup {None}]
    /\ held \in [Threads -> SUBSET Instances]
    /\ todo \in [Threads -> SUBSET Instances]
    /\ scope \in [Threads -> SUBSET Instances]
    /\ ilock \in [Procs -> [Instances -> Threads \cup {None}]]
    /\ flock \in [Instances -> Procs \cup {None}]
    /\ sem \in [Procs -> [Hosts -> Nat]]
    /\ job \in [Jobs -> Status]
    /\ stranded \subseteq Jobs
    /\ inbox \subseteq Command
    /\ up \subseteq Procs
    /\ crashes \in 0..MaxCrashes
    /\ zombie \subseteq IF MarkRaises THEN Procs \X Jobs \X Instances ELSE {}
    /\ enc \subseteq Instances

Init ==
    /\ pc = [t \in Threads |-> "idle"]
    /\ cmd = [t \in Threads |-> None]
    /\ held = [t \in Threads |-> {}]
    /\ todo = [t \in Threads |-> {}]
    /\ scope = [t \in Threads |-> {}]
    /\ ilock = [p \in Procs |-> [i \in Instances |-> None]]
    /\ flock = [i \in Instances |-> None]
    /\ sem = [p \in Procs |-> [h \in Hosts |-> 0]]
    /\ job = [j \in Jobs |-> "none"]
    /\ stranded = {}
    /\ inbox = {}
    /\ up = Procs
    /\ crashes = 0
    /\ zombie = {}
    /\ enc = Encrypted

-----------------------------------------------------------------------------
(* Job rows.                                                               *)

\* _mark_job: the status is overwritten whatever it was.
Mark(j, status) == job' = [job EXCEPT ![j] = status] /\ UNCHANGED stranded

Open(j) == job[j] \in {"queued", "running"}

\* Mutant: without the status guard a settled job is failed again.
BugFailAny(j) == Mark(j, "failure")

\* _fail_orphaned_job: only a job that is still queued or running. Its own
\* exception is logged, and the job stays as it is until the next boot.
FailOrphan(j) ==
    \/ /\ job' = [job EXCEPT ![j] = IF Open(j) THEN "failure" ELSE @]
       /\ UNCHANGED stranded
    \/ /\ MarkRaises /\ Open(j)
       /\ stranded' = stranded \cup {j}
       /\ UNCHANGED job

\* An exception leaves backup_instance (or another manager call). _dispatch
\* catches it and fails the orphaned job; APScheduler and backup_all only log.
Escape(c) ==
    IF c.kind \in {"scheduled", "sweep_item"} THEN UNCHANGED <<job, stranded>> ELSE FailOrphan(c.job)

Goto(t, label) == pc' = [pc EXCEPT ![t] = label]

-----------------------------------------------------------------------------
(* Work arrives.                                                           *)

\* The web creates a queued Job, commits, and pushes the command. A command
\* for one instance names it, a fleet command does not.
Submit(k, i, j) ==
    /\ job[j] = "none"
    /\ (i = None) <=> (k \in {"run_backup_all", "reencrypt_all_backups"})
    /\ Mark(j, "queued")
    /\ inbox' = inbox \cup {[kind |-> k, inst |-> i, job |-> j]}
    /\ UNCHANGED <<pc, cmd, todo, scope, locks, env>>

\* The operator turns encryption on for an instance (update_instance).
EnableEncryption(i) ==
    /\ i \notin enc
    /\ enc' = enc \cup {i}
    /\ UNCHANGED <<pc, cmd, todo, scope, locks, job, stranded, inbox, up, crashes, zombie>>

Idle(t) == pc[t] = "idle" /\ ProcOf[t] \in up

Scheduled(u, i) == cmd[u] # None /\ cmd[u].kind = "scheduled" /\ cmd[u].inst = i

\* Scheduler._fire: create the Job, then take the instance lock. (A missing or
\* disabled instance returns before anything changes: no step.) max_instances=1:
\* a process never fires an instance whose last fire has not returned.
Fire(t, i, j) ==
    /\ Idle(t) /\ t \notin SweepPool
    /\ job[j] = "none"
    /\ \A u \in Threads : ~(ProcOf[u] = ProcOf[t] /\ Scheduled(u, i))
    /\ Mark(j, "queued")
    /\ cmd' = [cmd EXCEPT ![t] = [kind |-> "scheduled", inst |-> i, job |-> j]]
    /\ Goto(t, "ilock")
    /\ UNCHANGED <<todo, scope, locks, inbox, env>>

\* A handler thread takes a command of a kind that is run under one instance lock.
DispatchSingle(t, c) ==
    /\ c.kind \in {"run_backup", "test_connection", "reencrypt_backups"} \cap Handlers
    /\ Goto(t, "ilock")
    /\ UNCHANGED <<todo, job, stranded>>

\* _handle_reencrypt_all_backups: decrypt the new password (which may raise),
\* read the instances concerned, then lock them all.
DispatchReencryptAll(t, c) ==
    /\ c.kind = "reencrypt_all_backups" /\ c.kind \in Handlers
    /\ \/ /\ Goto(t, "lock_all")
          /\ todo' = [todo EXCEPT ![t] = enc]
          /\ UNCHANGED <<job, stranded>>
       \/ /\ FailOrphan(c.job)
          /\ UNCHANGED <<pc, todo>>

\* backup_all: the enabled instances (any of them may be disabled) are handed
\* to a pool of its own; the handler thread waits for the pool.
DispatchSweep(t, c) ==
    /\ c.kind = "run_backup_all" /\ c.kind \in Handlers
    /\ Goto(t, "sweep")
    /\ \E enabled \in SUBSET Instances : todo' = [todo EXCEPT ![t] = enabled]
    /\ UNCHANGED <<job, stranded>>

\* _handle_retrieve_replica: the job runs before the lock is asked for; a backup
\* row that is gone fails at once; the look-up or the first mark may raise.
DispatchRetrieve(t, c) ==
    /\ c.kind = "retrieve_replica" /\ c.kind \in Handlers
    /\ \/ Mark(c.job, "running") /\ Goto(t, "ilock")
       \/ Mark(c.job, "failure") /\ UNCHANGED pc
       \/ MarkRaises /\ FailOrphan(c.job) /\ UNCHANGED pc
    /\ UNCHANGED todo

\* The payload fails schema validation: _fail_orphaned_job.
DispatchInvalid(t, c) ==
    /\ c.kind \in Handlers
    /\ FailOrphan(c.job)
    /\ UNCHANGED <<pc, todo>>

\* A kind this worker has no handler for is logged and dropped.
DispatchUnknown(t, c) ==
    /\ c.kind \notin Handlers
    /\ UNCHANGED <<pc, todo, job, stranded>>

Dispatch(t, c) ==
    /\ Idle(t) /\ t \notin SweepPool
    /\ c \in inbox
    /\ inbox' = inbox \ {c}
    /\ \/ DispatchSingle(t, c)
       \/ DispatchReencryptAll(t, c)
       \/ DispatchSweep(t, c)
       \/ DispatchRetrieve(t, c)
       \/ DispatchInvalid(t, c)
       \/ DispatchUnknown(t, c)
    /\ cmd' = [cmd EXCEPT ![t] = IF pc'[t] = "idle" THEN None ELSE c]
    /\ UNCHANGED <<scope, locks, env>>

-----------------------------------------------------------------------------
(* Locks.                                                                  *)

\* Mutant: the map hands out a fresh lock each time, so nobody ever waits.
BugFreshLock(t, i) ==
    /\ ilock' = [ilock EXCEPT ![ProcOf[t]][i] = t]
    /\ held' = [held EXCEPT ![t] = @ \cup {i}]

TakeInstanceLock(t, i) ==
    /\ ilock[ProcOf[t]][i] = None
    /\ ilock' = [ilock EXCEPT ![ProcOf[t]][i] = t]
    /\ held' = [held EXCEPT ![t] = @ \cup {i}]

\* Leaving the with-block (or the ExitStack of reencrypt_all).
DropInstanceLocks(t) ==
    /\ ilock' = [ilock EXCEPT ![ProcOf[t]] =
                    [i \in Instances |-> IF i \in held[t] THEN None ELSE @[i]]]
    /\ held' = [held EXCEPT ![t] = {}]

\* with instance_locks.for_instance(i): the in-process lock is granted.
AcquireInstanceLock(t) ==
    /\ pc[t] = "ilock"
    /\ TakeInstanceLock(t, cmd[t].inst)
    /\ Goto(t, CASE cmd[t].kind \in BackupKinds \cup {"test_connection"} -> "snapshot"
                 [] cmd[t].kind = "reencrypt_backups" -> "plan"
                 [] OTHER -> "fetch")
    /\ UNCHANGED <<cmd, todo, scope, flock, sem, job, stranded, inbox, env>>

\* Mutant: the locks are taken in the order the rows come back (here: descending
\* for one of the two threads that may run a fleet re-encrypt at once).
BugUnsortedLocks(t) ==
    /\ pc[t] = "lock_all" /\ todo[t] # {}
    /\ \E i \in todo[t] : /\ TakeInstanceLock(t, i)
                           /\ todo' = [todo EXCEPT ![t] = @ \ {i}]
    /\ UNCHANGED <<pc, cmd, scope, flock, sem, job, stranded, inbox, env>>

\* reencrypt_all: the locks are taken one by one in ascending instance id.
AcquireNextLock(t) ==
    /\ pc[t] = "lock_all" /\ todo[t] # {}
    /\ \E i \in todo[t] : /\ \A k \in todo[t] : i <= k
                           /\ TakeInstanceLock(t, i)
                           /\ todo' = [todo EXCEPT ![t] = @ \ {i}]
    /\ UNCHANGED <<pc, cmd, scope, flock, sem, job, stranded, inbox, env>>

AllLocksTaken(t) ==
    /\ pc[t] = "lock_all" /\ todo[t] = {}
    /\ Goto(t, "plan")
    /\ UNCHANGED <<cmd, todo, scope, locks, job, stranded, inbox, env>>

\* Mutant: the BlockingIOError branch falls through instead of retrying.
BugFlockNoRetry(t) ==
    /\ pc[t] = "flock"
    /\ flock' = [flock EXCEPT ![cmd[t].inst] = ProcOf[t]]
    /\ Goto(t, "mark")
    /\ UNCHANGED <<cmd, held, todo, scope, ilock, sem, job, stranded, inbox, env>>

\* flock(fd, LOCK_EX | LOCK_NB) retried every few seconds. The fd is cached per
\* process, so the process that holds the flock is granted it again.
AcquireFlock(t) ==
    /\ pc[t] = "flock"
    /\ flock[cmd[t].inst] \in {None, ProcOf[t]}
    /\ flock' = [flock EXCEPT ![cmd[t].inst] = ProcOf[t]]
    /\ Goto(t, "mark")
    /\ UNCHANGED <<cmd, held, todo, scope, ilock, sem, job, stranded, inbox, env>>

\* HostSemaphores: a permit of the process for that host is left.
PermitFree(p, h) == sem[p][h] < HostConcurrency

\* Mutant: off by one in the semaphore bound.
BugHostOffByOne(t) ==
    /\ pc[t] = "host"
    /\ LET h == HostOf[cmd[t].inst]
       IN  /\ sem[ProcOf[t]][h] <= HostConcurrency
           /\ sem' = [sem EXCEPT ![ProcOf[t]][h] = @ + 1]
    /\ Goto(t, "network")
    /\ UNCHANGED <<cmd, held, todo, scope, ilock, flock, job, stranded, inbox, env>>

\* with host_semaphores.for_url(url)
AcquireHost(t) ==
    /\ pc[t] = "host"
    /\ LET h == HostOf[cmd[t].inst]
       IN  /\ PermitFree(ProcOf[t], h)
           /\ sem' = [sem EXCEPT ![ProcOf[t]][h] = @ + 1]
    /\ Goto(t, "network")
    /\ UNCHANGED <<cmd, held, todo, scope, ilock, flock, job, stranded, inbox, env>>

\* LOCK_UN on the cached fd, whichever thread of process p relies on it by now.
Unlock(p, S) == flock' = [i \in Instances |-> IF i \in S /\ flock[i] = p THEN None ELSE flock[i]]

\* cp_stack.close() in the finally of backup_instance.
ReleaseFlock(t) ==
    /\ pc[t] = "unflock"
    /\ Unlock(ProcOf[t], {cmd[t].inst})
    /\ Goto(t, "release")
    /\ UNCHANGED <<cmd, held, todo, scope, ilock, sem, job, stranded, inbox, env>>

\* The instance lock's with-block ends and the handler returns.
ReleaseInstanceLocks(t) ==
    /\ pc[t] = "release"
    /\ DropInstanceLocks(t)
    /\ Goto(t, "idle")
    /\ cmd' = [cmd EXCEPT ![t] = None]
    /\ UNCHANGED <<todo, scope, flock, sem, job, stranded, inbox, env>>

-----------------------------------------------------------------------------
(* backup_instance.                                                        *)

\* Mutant: the job is marked running before the flock is taken.
BugRunningBeforeFlock(t) ==
    /\ pc[t] = "snapshot" /\ cmd[t].kind \in BackupKinds
    /\ \/ Mark(cmd[t].job, "failure") /\ Goto(t, "release")
       \/ Escape(cmd[t]) /\ Goto(t, "release")
       \/ Mark(cmd[t].job, "running") /\ Goto(t, "flock")
    /\ UNCHANGED <<cmd, todo, scope, locks, inbox, env>>

\* _snapshot: the instance is gone or encryption has no password (the job is
\* failed), the snapshot raises (settings row missing, credential does not
\* decrypt), or the backup goes on to the flock.
Snapshot(t) ==
    /\ pc[t] = "snapshot" /\ cmd[t].kind \in BackupKinds
    /\ \/ Mark(cmd[t].job, "failure") /\ Goto(t, "release")
       \/ Escape(cmd[t]) /\ Goto(t, "release")
       \/ UNCHANGED <<job, stranded>> /\ Goto(t, "flock")
    /\ UNCHANGED <<cmd, todo, scope, locks, inbox, env>>

\* _mark_job(running) and publish(BackupStarted), outside the try: a raise of
\* either is not seen by the finally.
MarkRunning(t) ==
    /\ pc[t] = "mark"
    /\ \/ Mark(cmd[t].job, "running") /\ Goto(t, "host")
       \/ MarkRaises /\ UNCHANGED <<job, stranded>> /\ Goto(t, "raised")
       \/ MarkRaises /\ Mark(cmd[t].job, "running") /\ Goto(t, "raised")
    /\ UNCHANGED <<cmd, todo, scope, locks, inbox, env>>

\* That exception leaves the instance lock's with-block while cp_stack, and so
\* the flock, lives on in its traceback. A sweep item's future keeps it.
Unwind(t) ==
    /\ pc[t] = "raised"
    /\ DropInstanceLocks(t)
    /\ \/ /\ cmd[t].kind = "sweep_item"
          /\ zombie' = zombie \cup {<<ProcOf[t], cmd[t].job, cmd[t].inst>>}
          /\ Goto(t, "idle")
          /\ cmd' = [cmd EXCEPT ![t] = None]
       \/ /\ cmd[t].kind # "sweep_item"
          /\ Goto(t, "caught")
          /\ UNCHANGED <<cmd, zombie>>
    /\ UNCHANGED <<todo, scope, flock, sem, job, stranded, inbox, up, crashes, enc>>

\* The exception has been handled and its traceback is freed: for_instance's
\* finally runs.
Caught(t) ==
    /\ pc[t] = "caught"
    /\ Escape(cmd[t])
    /\ Unlock(ProcOf[t], {cmd[t].inst})
    /\ Goto(t, "idle")
    /\ cmd' = [cmd EXCEPT ![t] = None]
    /\ UNCHANGED <<held, todo, scope, ilock, sem, inbox, env>>

\* Mutant: the permit is released by the with-block and once more by hand.
BugDoubleRelease(t) ==
    /\ pc[t] = "network"
    /\ sem' = [sem EXCEPT ![ProcOf[t]][HostOf[cmd[t].inst]] = @ - 2]
    /\ Goto(t, "save") \/ Goto(t, "fail")
    /\ UNCHANGED <<cmd, held, todo, scope, ilock, flock, job, stranded, inbox, env>>

\* _authenticate and _download_config: every request has a timeout, and whatever
\* is not a logged-in page and then an XML body is a failure.
Download(t) == Goto(t, "save") \/ Goto(t, "fail")

\* The network phase ends, well or badly; the permit is given back.
Network(t) ==
    /\ pc[t] = "network"
    /\ sem' = [sem EXCEPT ![ProcOf[t]][HostOf[cmd[t].inst]] = @ - 1]
    /\ Download(t)
    /\ UNCHANGED <<cmd, held, todo, scope, ilock, flock, job, stranded, inbox, env>>

\* Save, retention, history row, diffs, replication; then _mark_job(success).
Save(t) ==
    /\ pc[t] = "save"
    /\ \/ Mark(cmd[t].job, "success") /\ Goto(t, "publish")
       \/ UNCHANGED <<job, stranded>> /\ Goto(t, "fail")
    /\ UNCHANGED <<cmd, todo, scope, locks, inbox, env>>

\* publish(BackupFinished) is still inside the try: when it raises, the except
\* block fails the job that was just marked a success.
Announce(t) ==
    /\ pc[t] = "publish"
    /\ \/ Goto(t, "unflock")
       \/ MarkRaises /\ Goto(t, "fail")
    /\ UNCHANGED <<cmd, todo, scope, locks, job, stranded, inbox, env>>

\* Mutant: the finally is missing and only the success path closes cp_stack.
BugFailLeaks(t) ==
    /\ pc[t] = "fail"
    /\ Mark(cmd[t].job, "failure") \/ Escape(cmd[t])
    /\ Goto(t, "release")
    /\ UNCHANGED <<cmd, todo, scope, locks, inbox, env>>

\* The except block marks the job first; if that raises, the exception escapes.
Fail(t) ==
    /\ pc[t] = "fail"
    /\ Mark(cmd[t].job, "failure") \/ Escape(cmd[t])
    /\ Goto(t, "unflock")
    /\ UNCHANGED <<cmd, todo, scope, locks, inbox, env>>

-----------------------------------------------------------------------------
(* backup_all.                                                             *)

\* A thread of the sweep's pool starts one instance. All share the sweep's Job.
StartSweepItem(t, c, i) ==
    /\ pc[t] = "sweep" /\ i \in todo[t]
    /\ c \in SweepPool /\ ProcOf[c] = ProcOf[t] /\ Idle(c)
    /\ todo' = [todo EXCEPT ![t] = @ \ {i}]
    /\ cmd' = [cmd EXCEPT ![c] = [kind |-> "sweep_item", inst |-> i, job |-> cmd[t].job]]
    /\ Goto(c, "ilock")
    /\ UNCHANGED <<scope, locks, job, stranded, inbox, env>>

SweepItem(c, j) == cmd[c] # None /\ cmd[c].kind = "sweep_item" /\ cmd[c].job = j

\* The pool has drained: the summary is sent and the Job row is not touched; or
\* the loop over the results raised and the exception reaches _dispatch. The
\* futures go, and with them the exceptions they kept.
FinishSweep(t) ==
    /\ pc[t] = "sweep" /\ todo[t] = {}
    /\ \A c \in SweepPool : ~SweepItem(c, cmd[t].job)
    /\ UNCHANGED <<job, stranded>> \/ Escape(cmd[t])
    /\ LET kept == {z \in zombie : z[1] = ProcOf[t] /\ z[2] = cmd[t].job}
       IN  zombie' = zombie \ kept /\ Unlock(ProcOf[t], {z[3] : z \in kept})
    /\ Goto(t, "idle")
    /\ cmd' = [cmd EXCEPT ![t] = None]
    /\ UNCHANGED <<held, todo, scope, ilock, sem, inbox, up, crashes, enc>>

-----------------------------------------------------------------------------
(* Re-encryption, connection test, retrieval.                              *)

\* reencrypt_backups / reencrypt_all_backups: _mark_job(running), which may raise,
\* then read the rows to rewrite: one instance's, or every encrypted row there is.
PlanRewrite(t) ==
    /\ pc[t] = "plan"
    /\ \/ /\ Mark(cmd[t].job, "running")
          /\ scope' = [scope EXCEPT ![t] = IF cmd[t].inst = None THEN enc ELSE {cmd[t].inst}]
          /\ Goto(t, "rewrite")
       \/ /\ MarkRaises /\ Escape(cmd[t])
          /\ Goto(t, "release")
          /\ UNCHANGED scope
    /\ UNCHANGED <<cmd, todo, locks, inbox, env>>

\* _reencrypt_rows ends and _finalize_reencrypt_job settles the job; or an
\* early failure (_fail_job) or a raise before the try.
Rewrite(t) ==
    /\ pc[t] = "rewrite"
    /\ \/ \E s \in Terminal : Mark(cmd[t].job, s)
       \/ Escape(cmd[t])
    /\ scope' = [scope EXCEPT ![t] = {}]
    /\ Goto(t, "release")
    /\ UNCHANGED <<cmd, todo, locks, inbox, env>>

\* test_connection: a missing instance publishes a result and leaves the job alone.
TestSnapshot(t) ==
    /\ pc[t] = "snapshot" /\ cmd[t].kind = "test_connection"
    /\ \/ UNCHANGED <<job, stranded>> /\ Goto(t, "release")
       \/ Escape(cmd[t]) /\ Goto(t, "release")
       \/ Mark(cmd[t].job, "running") /\ Goto(t, "probe")
    /\ UNCHANGED <<cmd, todo, scope, locks, inbox, env>>

Probe(t) ==
    /\ pc[t] = "probe"
    /\ (\E s \in Terminal : Mark(cmd[t].job, s)) \/ (MarkRaises /\ Escape(cmd[t]))
    /\ Goto(t, "release")
    /\ UNCHANGED <<cmd, todo, scope, locks, inbox, env>>

\* Mutant: a failed retrieval raises past the handler's lock without settling.
BugFetchSilent(t) ==
    /\ pc[t] = "fetch"
    /\ DropInstanceLocks(t)
    /\ \/ Goto(t, "settle") /\ UNCHANGED cmd
       \/ Goto(t, "idle") /\ cmd' = [cmd EXCEPT ![t] = None]
    /\ UNCHANGED <<todo, scope, flock, sem, job, stranded, inbox, env>>

\* retrieve_replica under the lock; the lock is dropped before the job is settled.
Fetch(t) ==
    /\ pc[t] = "fetch"
    /\ DropInstanceLocks(t)
    /\ Goto(t, "settle")
    /\ UNCHANGED <<cmd, todo, scope, flock, sem, job, stranded, inbox, env>>

\* _mark_job(success), or after an exception _mark_job(failure), which may raise.
Settle(t) ==
    /\ pc[t] = "settle"
    /\ (\E s \in Terminal : Mark(cmd[t].job, s)) \/ (MarkRaises /\ Escape(cmd[t]))
    /\ Goto(t, "idle")
    /\ cmd' = [cmd EXCEPT ![t] = None]
    /\ UNCHANGED <<todo, scope, locks, inbox, env>>

-----------------------------------------------------------------------------
(* Crash and boot.                                                         *)

\* A process dies: its threads and in-process locks are gone, the kernel drops
\* its flocks, and commands it had already received are lost with it.
Crash(p) ==
    /\ p \in up /\ crashes < MaxCrashes
    /\ up' = up \ {p}
    /\ crashes' = crashes + 1
    /\ LET Mine(t) == ProcOf[t] = p
       IN  /\ pc' = [t \in Threads |-> IF Mine(t) THEN "idle" ELSE pc[t]]
           /\ cmd' = [t \in Threads |-> IF Mine(t) THEN None ELSE cmd[t]]
           /\ held' = [t \in Threads |-> IF Mine(t) THEN {} ELSE held[t]]
           /\ todo' = [t \in Threads |-> IF Mine(t) THEN {} ELSE todo[t]]
           /\ scope' = [t \in Threads |-> IF Mine(t) THEN {} ELSE scope[t]]
    /\ ilock' = [ilock EXCEPT ![p] = [i \in Instances |-> None]]
    /\ sem' = [sem EXCEPT ![p] = [h \in Hosts |-> 0]]
    /\ flock' = [i \in Instances |-> IF flock[i] = p THEN None ELSE flock[i]]
    /\ zombie' = {z \in zombie : z[1] # p}
    /\ \E lost \in SUBSET inbox : inbox' = inbox \ lost
    /\ UNCHANGED <<job, stranded, enc>>

\* main: _mark_stale_jobs fails every queued or running job, then the scheduler
\* and the listener start.
Boot(p) ==
    /\ p \notin up
    /\ up' = up \cup {p}
    /\ job' = [j \in Jobs |-> IF Open(j) THEN "failure" ELSE job[j]]
    /\ stranded' = {}
    /\ UNCHANGED <<pc, cmd, todo, scope, locks, inbox, crashes, zombie, enc>>

-----------------------------------------------------------------------------
\* A step a running thread takes by itself.
Step(t) ==
    \/ AcquireInstanceLock(t) \/ AcquireNextLock(t) \/ AllLocksTaken(t)
    \/ AcquireFlock(t) \/ AcquireHost(t) \/ ReleaseFlock(t) \/ ReleaseInstanceLocks(t)
    \/ Snapshot(t) \/ MarkRunning(t) \/ Unwind(t) \/ Caught(t) \/ Network(t) \/ Save(t)
    \/ Announce(t) \/ Fail(t)
    \/ PlanRewrite(t) \/ Rewrite(t) \/ TestSnapshot(t) \/ Probe(t)
    \/ Fetch(t) \/ Settle(t) \/ FinishSweep(t)
    \/ \E c \in Threads, i \in Instances : StartSweepItem(t, c, i)

Receive == \E t \in Threads, c \in inbox : Dispatch(t, c)

\* Every job of the bounded instance is used up and served: the worker idles.
\* (With this step, TLC's deadlock check finds threads that wait on each other.)
Quiescent ==
    /\ \A t \in Threads : pc[t] = "idle"
    /\ inbox = {} /\ up = Procs
    /\ \A j \in Jobs : job[j] # "none"
    /\ UNCHANGED vars

Next ==
    \/ Quiescent
    \/ \E k \in Requests, i \in Instances \cup {None}, j \in Jobs : Submit(k, i, j)
    \/ \E i \in Instances : EnableEncryption(i)
    \/ \E t \in Threads, i \in Instances, j \in Jobs : Fire(t, i, j)
    \/ Receive
    \/ \E t \in Threads : Step(t)
    \/ \E p \in Procs : Crash(p) \/ Boot(p)

Spec == Init /\ [][Next]_vars

\* Threads that can run do run (the OS schedules them; network calls carry
\* timeouts), the listener keeps polling, and a dead container is restarted.
Fairness ==
    /\ \A t \in Threads : WF_vars(Step(t))
    /\ WF_vars(Receive)
    /\ \A p \in Procs : WF_vars(Boot(p))

FairSpec == Spec /\ Fairness

-----------------------------------------------------------------------------
(* Properties.                                                             *)

\* Where backup_instance holds the flock: from the grant to cp_stack.close().
InBackup(t) == pc[t] \in {"mark", "host", "network", "save", "publish", "fail", "unflock"}

\* One instance is never backed up twice at once, whatever triggered the two
\* backups (manual, cron, sweep) and whichever worker process runs them: the
\* in-process lock and the flock together exclude (backup_instance, 325-343).
BackupExclusion ==
    \A t, u \in Threads :
        InBackup(t) /\ InBackup(u) /\ cmd[t].inst = cmd[u].inst => t = u

\* Inside one process, no two threads are ever inside the instance-lock regions
\* of the same instance: a fleet re-encrypt, which collects locks one at a time,
\* never overlaps a backup, test or retrieval of an instance it already locked.
LockRegionsDisjoint ==
    \A t, u \in Threads :
        ProcOf[t] = ProcOf[u] /\ held[t] \cap held[u] # {} => t = u

NetworkThreads(p, h) ==
    {t \in Threads : ProcOf[t] = p /\ pc[t] = "network" /\ HostOf[cmd[t].inst] = h}

\* A worker process never has more than _HOST_CONCURRENCY backups talking to one
\* pfSense host, whichever instances share that host (backup_instance, 364).
HostCap ==
    \A p \in Procs, h \in Hosts : Cardinality(NetworkThreads(p, h)) <= HostConcurrency

\* No lock outlives its user: an instance lock, a flock or a host permit that is
\* taken belongs to a thread that is still inside the region it protects, on
\* every path out of it (early return, exception, crash).
NoLockLeak ==
    /\ \A p \in Procs, i \in Instances :
          ilock[p][i] # None => /\ ProcOf[ilock[p][i]] = p
                                /\ i \in held[ilock[p][i]]
                                /\ pc[ilock[p][i]] \notin {"idle", "ilock", "sweep", "settle"}
    /\ \A i \in Instances :
          flock[i] # None => \E t \in Threads :
                                /\ ProcOf[t] = flock[i]
                                /\ InBackup(t) /\ cmd[t].inst = i
    /\ \A p \in Procs, h \in Hosts : sem[p][h] = Cardinality(NetworkThreads(p, h))

\* A backup that waits for a lock does not show as running: its job is still
\* queued, or a booting worker has failed it (the comment at 329-338 on why the
\* flock is taken before _mark_job). A sweep's shared job is exempt.
BlockedIsNotRunning ==
    \A t \in Threads :
        /\ pc[t] \in {"ilock", "snapshot", "flock", "mark"}
        /\ cmd[t].kind \in {"run_backup", "scheduled"}
        => job[cmd[t].job] \in {"queued", "failure"}

\* A settled job is settled for good, with two exceptions: the items of a sweep
\* share its job, and a success whose BackupFinished could not be published is
\* turned into a failure by its own backup (backup_instance, 425-465). Nothing
\* else overwrites it and nothing re-opens it: not the clean-up after an escaped
\* exception (the guard of _fail_orphaned_job), not a handler of another job.
SettledStaysSettled ==
    [][\A j \in Jobs :
          job[j] \in Terminal /\ job'[j] # job[j] =>
              \/ \E c \in SweepPool : SweepItem(c, j)
              \/ /\ job[j] = "success" /\ job'[j] = "failure"
                 /\ \E t \in Threads : pc[t] = "fail" /\ cmd[t] # None /\ cmd[t].job = j]_vars

\* Every thread that starts work returns to its pool: no lock order in which the
\* handlers wait for one another, and no waiter is left behind when locks free.
ThreadsReturn == \A t \in Threads : pc[t] # "idle" ~> pc[t] = "idle"

\* Some thread works on a command of these kinds for job j.
InHand(j, kinds) == \E t \in Threads : cmd[t] # None /\ cmd[t].kind \in kinds /\ cmd[t].job = j

\* A job whose command runs on a handler thread is settled in the end, whatever
\* goes wrong on the way: _dispatch fails what the manager left behind. The one
\* way out is that this clean-up raises as well (_fail_orphaned_job, 176-177):
\* such a job stays queued or running until the next boot.
HandledJobsSettle ==
    \A j \in Jobs :
        InHand(j, {"run_backup", "reencrypt_backups", "reencrypt_all_backups", "retrieve_replica"})
            ~> job[j] \in Terminal \/ j \in stranded
=============================================================================
