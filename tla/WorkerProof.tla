---------------------------- MODULE WorkerProof ----------------------------
(***************************************************************************)
(* Proofs about Worker, for any number of processes, threads, instances,   *)
(* hosts, jobs and crashes.                                                *)
(*                                                                         *)
(* The exclusion the code promises rests on two locks at once: the flock   *)
(* tells processes apart but not the threads of one process (the fd is     *)
(* cached), the instance lock tells threads of one process apart but is    *)
(* unknown to the others.  The inductive invariant says what each region   *)
(* of a thread's code holds, and that nothing else is held.                *)
(*                                                                         *)
(* A second invariant, JobInv, says whose job a job is: a command in the   *)
(* socket or the thread that works on it, and nobody else but the items    *)
(* of a sweep.                                                             *)
(***************************************************************************)
EXTENDS Worker, FiniteSetTheorems, TLAPS

Fleet == {"run_backup_all", "reencrypt_all_backups"}

\* Labels at which a thread works on the one instance its command names.
Named == {"ilock", "snapshot", "flock", "mark", "host", "network", "save", "publish", "fail",
          "unflock", "raised", "probe", "fetch"}

\* Labels at which a thread holds no instance lock.
Bare == {"idle", "ilock", "sweep", "settle", "caught"}

\* Labels on the path of an exception raised by _mark_job(running).
Raise == {"raised", "caught"}

\* Commands name an instance exactly where the code uses one, and a thread holds
\* the lock of that instance once it is past the with statement.
ShapeInv ==
    /\ \A c \in inbox : c.kind \notin Fleet => c.inst \in Instances
    /\ \A t \in Threads :
          /\ pc[t] # "idle" => cmd[t] \in Command
          /\ pc[t] \in Named => cmd[t].inst \in Instances
          /\ pc[t] \in Bare => held[t] = {}
          /\ pc[t] \in Named \ {"ilock"} => cmd[t].inst \in held[t]
          /\ pc[t] \in Raise => MarkRaises

\* The lock table of a process and the with-blocks of its threads agree.
HeldInv ==
    /\ \A t \in Threads : \A i \in held[t] : ilock[ProcOf[t]][i] = t
    /\ \A p \in Procs, i \in Instances :
          ilock[p][i] # None => ProcOf[ilock[p][i]] = p /\ i \in held[ilock[p][i]]

\* The flock of an instance is held by a process exactly while one of its threads
\* is in backup_instance for that instance.
FlockHeld ==
    /\ \A t \in Threads : InBackup(t) => flock[cmd[t].inst] = ProcOf[t]
    /\ \A i \in Instances :
          flock[i] # None => \E t \in Threads : /\ ProcOf[t] = flock[i]
                                                /\ InBackup(t) /\ cmd[t].inst = i

\* That holds as long as _mark_job does not raise between the grant and the try:
\* an exception there leaves the flock to the garbage collector.
FlockInv == ~MarkRaises => FlockHeld

\* The semaphore counts the threads in the network phase and never passes its bound.
SemInv ==
    \A p \in Procs, h \in Hosts :
        /\ sem[p][h] = Cardinality(NetworkThreads(p, h))
        /\ sem[p][h] <= HostConcurrency

IInv == TypeOK /\ ShapeInv /\ HeldInv /\ FlockInv /\ SemInv

-----------------------------------------------------------------------------
\* What the invariant gives: the listed properties are its consequences.
LEMMA InvImplies ==
    IInv => /\ LockRegionsDisjoint /\ HostCap
            /\ ~MarkRaises => BackupExclusion /\ NoLockLeak
<1> SUFFICES ASSUME IInv
             PROVE  /\ LockRegionsDisjoint /\ HostCap
                    /\ ~MarkRaises => BackupExclusion /\ NoLockLeak
    OBVIOUS
<1> USE DEF IInv
<1>1. LockRegionsDisjoint
    BY DEF LockRegionsDisjoint, HeldInv
<1>2. ~MarkRaises => BackupExclusion
    <2> SUFFICES ASSUME ~MarkRaises, NEW t \in Threads, NEW u \in Threads, InBackup(t), InBackup(u),
                        cmd[t].inst = cmd[u].inst
                 PROVE  t = u
        BY DEF BackupExclusion
    <2>1. ProcOf[t] = ProcOf[u]
        BY DEF FlockInv, FlockHeld
    <2>2. cmd[t].inst \in held[t] /\ cmd[u].inst \in held[u]
        BY DEF ShapeInv, InBackup, Named
    <2> QED BY <2>1, <2>2 DEF HeldInv
<1>3. HostCap
    BY DEF HostCap, SemInv
<1>4. ~MarkRaises => NoLockLeak
    <2>1. ASSUME NEW p \in Procs, NEW i \in Instances, ilock[p][i] # None
          PROVE  /\ ProcOf[ilock[p][i]] = p
                 /\ i \in held[ilock[p][i]]
                 /\ pc[ilock[p][i]] \notin {"idle", "ilock", "sweep", "settle"}
        <3>1. ilock[p][i] \in Threads
            BY <2>1 DEF TypeOK
        <3> QED BY <2>1, <3>1 DEF HeldInv, ShapeInv, Bare
    <2> QED BY <2>1 DEF NoLockLeak, FlockInv, FlockHeld, SemInv
<1> QED BY <1>1, <1>2, <1>3, <1>4

-----------------------------------------------------------------------------
\* The initial state: every thread idle, every lock free.
LEMMA InitInv == Init => IInv
<1> SUFFICES ASSUME Init PROVE IInv
    OBVIOUS
<1> USE ConstantsAssumption DEF Init
<1>1. TypeOK
    BY DEF TypeOK, Labels, Status
<1>2. ShapeInv /\ HeldInv /\ FlockInv
    BY DEF ShapeInv, HeldInv, FlockInv, FlockHeld, InBackup, Named, Bare, Raise
<1>3. SemInv
    <2> SUFFICES ASSUME NEW p \in Procs, NEW h \in Hosts
                 PROVE  sem[p][h] = Cardinality(NetworkThreads(p, h)) /\ sem[p][h] <= HostConcurrency
        BY DEF SemInv
    <2>1. NetworkThreads(p, h) = {}
        BY DEF NetworkThreads
    <2> QED BY <2>1, FS_EmptySet
<1> QED BY <1>1, <1>2, <1>3 DEF IInv

\* A step in or out of which no thread enters or leaves the network phase keeps
\* the semaphore's count right.
LEMMA SameNetwork ==
    ASSUME SemInv, sem' = sem,
           \A u \in Threads : /\ pc'[u] = "network" <=> pc[u] = "network"
                              /\ pc[u] = "network" => cmd'[u] = cmd[u]
    PROVE  SemInv'
<1>1. ASSUME NEW p \in Procs, NEW h \in Hosts
      PROVE  NetworkThreads(p, h)' = NetworkThreads(p, h)
    BY DEF NetworkThreads
<1> QED BY <1>1 DEF SemInv

-----------------------------------------------------------------------------
(* Frames: what has to be shown of a step that takes or frees no lock.     *)

\* However a job is marked, its status stays one of the five.
LEMMA JobTyped ==
    ASSUME TypeOK, NEW j \in Jobs,
           (\E st \in Status : Mark(j, st)) \/ FailOrphan(j) \/ UNCHANGED <<job, stranded>>
    PROVE  job' \in [Jobs -> Status] /\ stranded' \subseteq Jobs
BY DEF TypeOK, Mark, FailOrphan, Open, Status

\* The same when an exception escapes a handler.
LEMMA EscapeTyped ==
    ASSUME TypeOK, NEW c, c.job \in Jobs, Escape(c)
    PROVE  job' \in [Jobs -> Status] /\ stranded' \subseteq Jobs
BY DEF TypeOK, Escape, FailOrphan, Open, Status

\* A step that changes no lock, and leaves the threads in the backup region and
\* in the network phase where they are, keeps the three lock invariants.
LEMMA LocksFrame ==
    ASSUME HeldInv, FlockInv, SemInv, UNCHANGED locks,
           \A u \in Threads : /\ InBackup(u)' <=> InBackup(u)
                              /\ pc'[u] = "network" <=> pc[u] = "network"
                              /\ InBackup(u) => cmd'[u] = cmd[u]
    PROVE  HeldInv' /\ FlockInv' /\ SemInv'
<1>1. HeldInv'
    BY DEF HeldInv, locks
<1>2. FlockInv'
    BY DEF FlockInv, FlockHeld, locks
<1>3. SemInv'
    BY SameNetwork DEF locks, InBackup
<1> QED BY <1>1, <1>2, <1>3

\* A thread that already holds its locks moves on, inside or outside the backup
\* region, touching only its job and its work list.
LEMMA Move ==
    ASSUME IInv, NEW t \in Threads, NEW l \in Labels, Goto(t, l),
           pc[t] \notin Bare, l \notin Bare,
           l \in Named => pc[t] \in Named, l \notin Raise,
           pc[t] # "network", l # "network",
           InBackup(t)' <=> InBackup(t),
           job' \in [Jobs -> Status], stranded' \subseteq Jobs,
           todo' \in [Threads -> SUBSET Instances],
           scope' \in [Threads -> SUBSET Instances],
           UNCHANGED <<cmd, locks, inbox, env>>
    PROVE  IInv'
<1> USE DEF IInv
<1>1. TypeOK'
    BY DEF TypeOK, Goto, locks, env
<1>2. \A u \in Threads : pc'[u] = IF u = t THEN l ELSE pc[u]
    BY DEF TypeOK, Goto
<1>3. ShapeInv'
    BY <1>2 DEF ShapeInv, Named, Bare, Raise, locks
<1>4. \A u \in Threads : /\ InBackup(u)' <=> InBackup(u)
                         /\ pc'[u] = "network" <=> pc[u] = "network"
    BY <1>2 DEF InBackup
<1> QED BY <1>1, <1>3, <1>4, LocksFrame

\* A thread that holds nothing takes up, or is done with, a command.
LEMMA Bare2Bare ==
    ASSUME IInv, NEW t \in Threads, NEW l \in Bare, Goto(t, l) \/ (l = pc[t] /\ UNCHANGED pc),
           l \notin Raise, pc[t] \in Bare, NEW c \in Command \cup {None}, cmd' = [cmd EXCEPT ![t] = c],
           l # "idle" => c \in Command,
           l = "ilock" => c.inst \in Instances,
           job' \in [Jobs -> Status], stranded' \subseteq Jobs,
           todo' \in [Threads -> SUBSET Instances],
           inbox' \subseteq inbox,
           UNCHANGED <<scope, locks, env>>
    PROVE  IInv'
<1> USE DEF IInv
<1>1. TypeOK'
    BY DEF TypeOK, Goto, locks, env, Bare, Labels
<1>2. \A u \in Threads : /\ pc'[u] = IF u = t THEN l ELSE pc[u]
                         /\ cmd'[u] = IF u = t THEN c ELSE cmd[u]
    BY DEF TypeOK, Goto
<1>3. ShapeInv'
    BY <1>2 DEF ShapeInv, Named, Bare, Raise, locks
<1>4. \A u \in Threads : /\ InBackup(u)' <=> InBackup(u)
                         /\ pc'[u] = "network" <=> pc[u] = "network"
                         /\ InBackup(u) => cmd'[u] = cmd[u]
    BY <1>2 DEF InBackup, Bare
<1> QED BY <1>1, <1>3, <1>4, LocksFrame

-----------------------------------------------------------------------------
(* One lemma per action, or per group of actions with the same frame.      *)

\* Commands arrive; nothing a thread holds changes.
LEMMA SubmitStep ==
    ASSUME IInv, NEW k \in Requests, NEW i \in Instances \cup {None}, NEW j \in Jobs,
           Submit(k, i, j)
    PROVE  IInv'
<1> USE ConstantsAssumption DEF IInv
<1>1. job' \in [Jobs -> Status] /\ stranded' \subseteq Jobs
    BY JobTyped DEF Submit, Status
<1>2. k \in Kinds /\ (k \notin Fleet => i \in Instances)
    BY DEF Kinds, Submit, Fleet
<1>3. TypeOK'
    BY <1>1, <1>2 DEF Submit, TypeOK, Command, locks, env
<1>4. ShapeInv'
    BY <1>2 DEF Submit, ShapeInv, locks
<1>5. HeldInv' /\ FlockInv' /\ SemInv'
    BY LocksFrame DEF Submit, InBackup
<1> QED BY <1>3, <1>4, <1>5

\* The operator switches encryption on, or the bounded instance has nothing left to do.
LEMMA EnableStep ==
    ASSUME IInv, NEW i \in Instances, EnableEncryption(i)
    PROVE  IInv'
<1> USE DEF IInv, EnableEncryption
<1>1. TypeOK'
    BY DEF TypeOK, locks
<1>2. ShapeInv'
    BY DEF ShapeInv, locks
<1>3. HeldInv' /\ FlockInv' /\ SemInv'
    BY LocksFrame DEF InBackup
<1> QED BY <1>1, <1>2, <1>3

\* A cron fire gives an idle thread a scheduled backup.
LEMMA FireStep ==
    ASSUME IInv, NEW t \in Threads, NEW i \in Instances, NEW j \in Jobs, Fire(t, i, j)
    PROVE  IInv'
<1> DEFINE c == [kind |-> "scheduled", inst |-> i, job |-> j]
<1>1. c \in Command
    BY DEF Command, Kinds, BackupKinds
<1>2. job' \in [Jobs -> Status] /\ stranded' \subseteq Jobs
    BY JobTyped DEF Fire, IInv, Status
<1>3. /\ Goto(t, "ilock") /\ pc[t] \in Bare /\ "ilock" \in Bare /\ "ilock" \notin Raise
      /\ cmd' = [cmd EXCEPT ![t] = c]
      /\ c.inst \in Instances
      /\ todo' \in [Threads -> SUBSET Instances] /\ inbox' \subseteq inbox
      /\ UNCHANGED <<scope, locks, env>>
    BY DEF Fire, Idle, Bare, Raise, IInv, TypeOK
<1> HIDE DEF c
<1> QED BY <1>1, <1>2, <1>3, Bare2Bare

\* A handler thread takes a command, whatever _dispatch makes of it.
LEMMA DispatchStep ==
    ASSUME IInv, NEW t \in Threads, NEW c \in inbox, Dispatch(t, c)
    PROVE  IInv'
<1> DEFINE d == IF pc'[t] = "idle" THEN None ELSE c
<1>1. c \in Command /\ pc[t] = "idle" /\ pc \in [Threads -> Labels]
    BY DEF Dispatch, Idle, IInv, TypeOK
<1>2. c.kind \notin Fleet => c.inst \in Instances
    BY DEF IInv, ShapeInv
<1>3. job' \in [Jobs -> Status] /\ stranded' \subseteq Jobs
    BY <1>1, JobTyped DEF IInv, Command, Dispatch, DispatchSingle, DispatchReencryptAll, DispatchSweep,
                    DispatchRetrieve, DispatchInvalid, DispatchUnknown, Status
<1>4. todo' \in [Threads -> SUBSET Instances]
    BY DEF IInv, TypeOK, Dispatch, DispatchSingle, DispatchReencryptAll, DispatchSweep,
           DispatchRetrieve, DispatchInvalid, DispatchUnknown
<1>5. PICK l \in {"idle", "ilock", "sweep", "lock_all"} :
            /\ Goto(t, l) \/ (l = pc[t] /\ UNCHANGED pc)
            /\ l = "ilock" => c.kind \notin Fleet
    BY <1>1 DEF Dispatch, DispatchSingle, DispatchReencryptAll, DispatchSweep,
           DispatchRetrieve, DispatchInvalid, DispatchUnknown, Fleet
<1>6. pc'[t] = l /\ d \in Command \cup {None} /\ (l # "idle" => d = c)
    BY <1>1, <1>5 DEF Goto
<1>7. /\ cmd' = [cmd EXCEPT ![t] = d] /\ inbox' \subseteq inbox
      /\ UNCHANGED <<scope, locks, env>>
    BY DEF Dispatch
<1> HIDE DEF d
<1>8. CASE l # "lock_all"
    <2>1. l \in Bare /\ pc[t] \in Bare /\ l \notin Raise
        BY <1>1, <1>8 DEF Bare, Raise
    <2>2. (l # "idle" => d \in Command) /\ (l = "ilock" => d.inst \in Instances)
        BY <1>1, <1>2, <1>5, <1>6
    <2> QED BY <1>3, <1>4, <1>5, <1>6, <1>7, <2>1, <2>2, Bare2Bare
<1>9. CASE l = "lock_all"
    <2> USE DEF IInv
    <2>1. TypeOK'
        BY <1>3, <1>4, <1>5, <1>6, <1>7, <1>9 DEF TypeOK, Goto, locks, env, Labels
    <2>2. \A u \in Threads : /\ pc'[u] = IF u = t THEN l ELSE pc[u]
                             /\ cmd'[u] = IF u = t THEN d ELSE cmd[u]
        BY <1>1, <1>5, <1>7 DEF TypeOK, Goto
    <2>3. ShapeInv'
        BY <1>1, <1>6, <1>7, <1>9, <2>2 DEF ShapeInv, Named, Bare, Raise, locks
    <2>4. \A u \in Threads : /\ InBackup(u)' <=> InBackup(u)
                             /\ pc'[u] = "network" <=> pc[u] = "network"
                             /\ InBackup(u) => cmd'[u] = cmd[u]
        BY <1>1, <1>9, <2>2 DEF InBackup
    <2> QED BY <1>7, <2>1, <2>3, <2>4, LocksFrame
<1> QED BY <1>8, <1>9

\* Steps inside the region of the instance lock that touch the job only.
LEMMA QuietSteps ==
    ASSUME IInv, NEW t \in Threads,
           \/ Snapshot(t) \/ Save(t) \/ Announce(t) \/ Fail(t) \/ PlanRewrite(t) \/ Rewrite(t)
           \/ TestSnapshot(t) \/ Probe(t) \/ AllLocksTaken(t)
    PROVE  IInv'
<1> USE DEF IInv
<1>0. TypeOK /\ cmd[t].job \in Jobs
    BY DEF ShapeInv, Command, Snapshot, Save, Announce, Fail, PlanRewrite, Rewrite, TestSnapshot, Probe, AllLocksTaken
<1>1. job' \in [Jobs -> Status] /\ stranded' \subseteq Jobs
    BY <1>0, JobTyped, EscapeTyped DEF Snapshot, Save, Announce, Fail, PlanRewrite, Rewrite, TestSnapshot,
        Probe, AllLocksTaken, Status, Terminal
<1>2. /\ todo' \in [Threads -> SUBSET Instances]
      /\ UNCHANGED <<cmd, locks, inbox, env>>
    BY DEF TypeOK, Snapshot, Save, Announce, Fail, PlanRewrite, Rewrite, TestSnapshot, Probe, AllLocksTaken
<1>3. scope' \in [Threads -> SUBSET Instances]
    <2>1. CASE PlanRewrite(t)
        <3>1. pc[t] # "idle" /\ cmd[t] \in Command
            BY <2>1 DEF PlanRewrite, ShapeInv
        <3> QED BY <2>1, <3>1 DEF TypeOK, PlanRewrite, Command
    <2>2. CASE ~PlanRewrite(t)
        BY <2>2 DEF TypeOK, Snapshot, Save, Announce, Fail, Rewrite, TestSnapshot, Probe, AllLocksTaken
    <2> QED BY <2>1, <2>2
<1>4. \E l \in Labels : /\ Goto(t, l) /\ pc[t] \notin Bare /\ l \notin Bare
                        /\ l \in Named => pc[t] \in Named
                        /\ l \notin Raise
                        /\ pc[t] # "network" /\ l # "network"
                        /\ InBackup(t)' <=> InBackup(t)
    <2> USE DEF TypeOK, Goto, Named, Bare, Raise, Labels, InBackup
    <2>1. CASE Snapshot(t)
        BY <2>1 DEF Snapshot
    <2>2. CASE Save(t) \/ Announce(t)
        BY <2>2 DEF Save, Announce
    <2>3. CASE Fail(t)
        BY <2>3 DEF Fail
    <2>4. CASE PlanRewrite(t) \/ Rewrite(t) \/ Probe(t)
        BY <2>4 DEF PlanRewrite, Rewrite, Probe
    <2>5. CASE TestSnapshot(t)
        BY <2>5 DEF TestSnapshot
    <2>6. CASE AllLocksTaken(t)
        BY <2>6 DEF AllLocksTaken
    <2> QED BY <2>1, <2>2, <2>3, <2>4, <2>5, <2>6
<1> QED BY <1>1, <1>2, <1>3, <1>4, Move

\* The retrieval's job is settled.
LEMMA SettleStep ==
    ASSUME IInv, NEW t \in Threads, Settle(t)
    PROVE  IInv'
<1> USE DEF IInv
<1>1. job' \in [Jobs -> Status] /\ stranded' \subseteq Jobs
    <2>1. cmd[t].job \in Jobs
        BY DEF Settle, ShapeInv, Command
    <2> QED BY <2>1, JobTyped, EscapeTyped DEF Settle, Status, Terminal
<1>2. /\ Goto(t, "idle") /\ "idle" \in Bare /\ "idle" \notin Raise /\ pc[t] \in Bare
      /\ cmd' = [cmd EXCEPT ![t] = None]
      /\ todo' \in [Threads -> SUBSET Instances] /\ inbox' \subseteq inbox
      /\ UNCHANGED <<scope, locks, env>>
    BY DEF Settle, Bare, Raise, TypeOK
<1> QED BY <1>1, <1>2, Bare2Bare

\* A thread outside every lock region returns to its pool, and the flocks that
\* exceptions kept are given back: a sweep ends, or an exception has been handled.
LEMMA FreeSteps ==
    ASSUME IInv, NEW t \in Threads, FinishSweep(t) \/ Caught(t)
    PROVE  IInv'
<1> USE DEF IInv
<1>1. job' \in [Jobs -> Status] /\ stranded' \subseteq Jobs
    <2>1. cmd[t].job \in Jobs
        BY DEF FinishSweep, Caught, ShapeInv, Command
    <2> QED BY <2>1, EscapeTyped DEF FinishSweep, Caught, TypeOK
<1>2. /\ pc[t] \in {"sweep", "caught"}
      /\ Goto(t, "idle") /\ cmd' = [cmd EXCEPT ![t] = None]
      /\ zombie' \subseteq zombie
      /\ UNCHANGED <<held, todo, scope, ilock, sem, inbox, up, crashes, enc>>
    BY DEF FinishSweep, Caught, env
<1>3. /\ flock' \in [Instances -> Procs \cup {None}]
      /\ ~MarkRaises => flock' = flock
    <2>1. PICK S : Unlock(ProcOf[t], S) /\ (~MarkRaises => S = {})
        <3>1. CASE FinishSweep(t)
            BY <3>1 DEF FinishSweep, TypeOK
        <3>2. CASE Caught(t)
            BY <3>2 DEF Caught, ShapeInv, Raise
        <3> QED BY <3>1, <3>2
    <2> QED BY <2>1 DEF Unlock, TypeOK
<1>4. \A u \in Threads : /\ pc'[u] = IF u = t THEN "idle" ELSE pc[u]
                         /\ cmd'[u] = IF u = t THEN None ELSE cmd[u]
    BY <1>2 DEF TypeOK, Goto
<1>5. TypeOK'
    BY <1>1, <1>2, <1>3 DEF TypeOK, Goto, Labels
<1>6. ShapeInv'
    BY <1>2, <1>4 DEF ShapeInv, Named, Bare, Raise
<1>7. HeldInv'
    BY <1>2 DEF HeldInv
<1>8. FlockInv'
    BY <1>2, <1>3, <1>4 DEF FlockInv, FlockHeld, InBackup
<1>9. SemInv'
    BY <1>2, <1>4, SameNetwork
<1> QED BY <1>5, <1>6, <1>7, <1>8, <1>9

\* A pool thread starts one instance of a sweep.
LEMMA SweepStep ==
    ASSUME IInv, NEW t \in Threads, NEW c \in Threads, NEW i \in Instances,
           StartSweepItem(t, c, i)
    PROVE  IInv'
<1> USE DEF IInv
<1> DEFINE d == [kind |-> "sweep_item", inst |-> i, job |-> cmd[t].job]
<1>1. cmd[t] \in Command
    BY DEF StartSweepItem, ShapeInv
<1>2. d \in Command /\ d.inst \in Instances
    BY <1>1 DEF Command, Kinds, BackupKinds
<1>3. job' \in [Jobs -> Status] /\ stranded' \subseteq Jobs /\ todo' \in [Threads -> SUBSET Instances]
    BY DEF StartSweepItem, TypeOK
<1>4. /\ Goto(c, "ilock") /\ "ilock" \in Bare /\ "ilock" \notin Raise /\ pc[c] \in Bare
      /\ cmd' = [cmd EXCEPT ![c] = d]
      /\ inbox' \subseteq inbox
      /\ UNCHANGED <<scope, locks, env>>
    BY DEF StartSweepItem, Idle, Bare, Raise
<1> HIDE DEF d
<1> QED BY <1>2, <1>3, <1>4, Bare2Bare

\* Taking a free instance lock keeps table and with-blocks in agreement.
LEMMA TakeKeepsHeld ==
    ASSUME TypeOK, HeldInv, NEW t \in Threads, NEW i \in Instances, TakeInstanceLock(t, i)
    PROVE  /\ HeldInv'
           /\ held' \in [Threads -> SUBSET Instances]
           /\ ilock' \in [Procs -> [Instances -> Threads \cup {None}]]
           /\ \A u \in Threads : held'[u] = IF u = t THEN held[t] \cup {i} ELSE held[u]
<1> USE ConstantsAssumption
<1>1. ProcOf[t] \in Procs
    OBVIOUS
<1>2. \A p \in Procs, k \in Instances :
          ilock'[p][k] = IF p = ProcOf[t] /\ k = i THEN t ELSE ilock[p][k]
    BY <1>1 DEF TypeOK, TakeInstanceLock
<1>3. \A u \in Threads : held'[u] = IF u = t THEN held[t] \cup {i} ELSE held[u]
    BY DEF TypeOK, TakeInstanceLock
<1>4. \A u \in Threads : ProcOf[u] \in Procs /\ held[u] \subseteq Instances
    BY DEF TypeOK
<1>5. ilock[ProcOf[t]][i] = None /\ None \notin Threads
    BY DEF TakeInstanceLock
<1>6. ASSUME NEW u \in Threads, NEW k \in held'[u]
      PROVE  ilock'[ProcOf[u]][k] = u
    <2>1. CASE u = t /\ k = i
        BY <1>1, <1>2, <2>1
    <2>2. CASE ~(u = t /\ k = i)
        <3>1. k \in held[u] /\ k \in Instances /\ ProcOf[u] \in Procs
            BY <1>3, <1>4, <1>6, <2>2
        <3>2. ilock[ProcOf[u]][k] = u
            BY <3>1 DEF HeldInv
        <3>3. ~(ProcOf[u] = ProcOf[t] /\ k = i)
            BY <1>5, <3>2
        <3> QED BY <1>2, <3>1, <3>2, <3>3
    <2> QED BY <2>1, <2>2
<1>7. ASSUME NEW p \in Procs, NEW k \in Instances, ilock'[p][k] # None
      PROVE  ProcOf[ilock'[p][k]] = p /\ k \in held'[ilock'[p][k]]
    <2>1. CASE p = ProcOf[t] /\ k = i
        BY <1>2, <1>3, <2>1
    <2>2. CASE ~(p = ProcOf[t] /\ k = i)
        <3>1. ilock'[p][k] = ilock[p][k] /\ ilock[p][k] \in Threads
            BY <1>2, <1>7, <2>2 DEF TypeOK
        <3> QED BY <1>3, <1>7, <3>1 DEF HeldInv
    <2> QED BY <2>1, <2>2
<1>8. /\ held' \in [Threads -> SUBSET Instances]
      /\ ilock' \in [Procs -> [Instances -> Threads \cup {None}]]
    BY <1>1 DEF TypeOK, TakeInstanceLock
<1> QED BY <1>3, <1>6, <1>7, <1>8 DEF HeldInv

\* Leaving the with-blocks does too.
LEMMA DropKeepsHeld ==
    ASSUME TypeOK, HeldInv, NEW t \in Threads, DropInstanceLocks(t)
    PROVE  /\ HeldInv'
           /\ held' \in [Threads -> SUBSET Instances]
           /\ ilock' \in [Procs -> [Instances -> Threads \cup {None}]]
           /\ \A u \in Threads : held'[u] = IF u = t THEN {} ELSE held[u]
<1> USE ConstantsAssumption
<1>1. ProcOf[t] \in Procs
    OBVIOUS
<1>2. \A p \in Procs, k \in Instances :
          ilock'[p][k] = IF p = ProcOf[t] /\ k \in held[t] THEN None ELSE ilock[p][k]
    BY <1>1 DEF TypeOK, DropInstanceLocks
<1>3. \A u \in Threads : held'[u] = IF u = t THEN {} ELSE held[u]
    BY DEF TypeOK, DropInstanceLocks
<1>4. \A u \in Threads : ProcOf[u] \in Procs /\ held[u] \subseteq Instances
    BY DEF TypeOK
<1>5. ASSUME NEW u \in Threads, NEW k \in held'[u]
      PROVE  ilock'[ProcOf[u]][k] = u
    <2>1. u # t /\ k \in held[u] /\ k \in Instances /\ ProcOf[u] \in Procs
        BY <1>3, <1>4, <1>5
    <2>2. ilock[ProcOf[u]][k] = u
        BY <2>1 DEF HeldInv
    <2>3. ~(ProcOf[u] = ProcOf[t] /\ k \in held[t])
        BY <2>1, <2>2 DEF HeldInv
    <2> QED BY <1>2, <2>1, <2>2, <2>3
<1>6. ASSUME NEW p \in Procs, NEW k \in Instances, ilock'[p][k] # None
      PROVE  ProcOf[ilock'[p][k]] = p /\ k \in held'[ilock'[p][k]]
    <2>1. ilock'[p][k] = ilock[p][k] /\ ilock[p][k] \in Threads
        BY <1>2, <1>6 DEF TypeOK
    <2>2. ~(p = ProcOf[t] /\ k \in held[t])
        BY <1>2, <1>6
    <2>3. ProcOf[ilock[p][k]] = p /\ k \in held[ilock[p][k]]
        BY <1>6, <2>1 DEF HeldInv
    <2>4. ilock[p][k] # t
        BY <2>2, <2>3
    <2> QED BY <1>3, <2>1, <2>3, <2>4
<1>7. /\ held' \in [Threads -> SUBSET Instances]
      /\ ilock' \in [Procs -> [Instances -> Threads \cup {None}]]
    BY <1>1 DEF TypeOK, DropInstanceLocks
<1> QED BY <1>3, <1>5, <1>6, <1>7 DEF HeldInv

\* The instance lock is granted: to a handler for one instance ...
LEMMA AcquireInstanceLockStep ==
    ASSUME IInv, NEW t \in Threads, AcquireInstanceLock(t)
    PROVE  IInv'
<1> USE DEF IInv
<1>1. pc[t] = "ilock" /\ cmd[t] \in Command /\ cmd[t].inst \in Instances /\ held[t] = {}
    BY DEF AcquireInstanceLock, ShapeInv, Named, Bare
<1>2. TakeInstanceLock(t, cmd[t].inst)
    BY DEF AcquireInstanceLock
<1>3. /\ HeldInv'
      /\ held' \in [Threads -> SUBSET Instances]
      /\ ilock' \in [Procs -> [Instances -> Threads \cup {None}]]
      /\ \A u \in Threads : held'[u] = IF u = t THEN held[t] \cup {cmd[t].inst} ELSE held[u]
    BY <1>1, <1>2, TakeKeepsHeld
<1>4. PICK l \in {"snapshot", "plan", "fetch"} : Goto(t, l)
    BY DEF AcquireInstanceLock
<1>5. \A u \in Threads : pc'[u] = IF u = t THEN l ELSE pc[u]
    BY <1>4 DEF TypeOK, Goto
<1>6. UNCHANGED <<cmd, todo, scope, flock, sem, job, stranded, inbox, env>>
    BY DEF AcquireInstanceLock
<1>7. TypeOK'
    BY <1>3, <1>4, <1>6 DEF TypeOK, Goto, env, Labels
<1>8. ShapeInv'
    BY <1>1, <1>3, <1>5, <1>6 DEF ShapeInv, Named, Bare, Raise
<1>9. FlockInv'
    BY <1>1, <1>5, <1>6 DEF FlockInv, FlockHeld, InBackup
<1>10. SemInv'
    BY <1>1, <1>5, <1>6, SameNetwork
<1> QED BY <1>3, <1>7, <1>8, <1>9, <1>10

\* ... or, one after the other, to a fleet re-encrypt.
LEMMA AcquireNextLockStep ==
    ASSUME IInv, NEW t \in Threads, AcquireNextLock(t)
    PROVE  IInv'
<1> USE DEF IInv
<1>1. PICK i \in todo[t] : /\ TakeInstanceLock(t, i)
                           /\ todo' = [todo EXCEPT ![t] = @ \ {i}]
    BY DEF AcquireNextLock
<1>2. i \in Instances
    BY DEF TypeOK
<1>3. /\ HeldInv'
      /\ held' \in [Threads -> SUBSET Instances]
      /\ ilock' \in [Procs -> [Instances -> Threads \cup {None}]]
      /\ \A u \in Threads : held'[u] = IF u = t THEN held[t] \cup {i} ELSE held[u]
    BY <1>1, <1>2, TakeKeepsHeld
<1>4. pc[t] = "lock_all" /\ UNCHANGED <<pc, cmd, scope, flock, sem, job, stranded, inbox, env>>
    BY DEF AcquireNextLock
<1>5. TypeOK'
    BY <1>1, <1>3, <1>4 DEF TypeOK, env
<1>6. ShapeInv'
    BY <1>3, <1>4 DEF ShapeInv, Named, Bare, Raise
<1>7. FlockInv'
    BY <1>4 DEF FlockInv, FlockHeld, InBackup
<1>8. SemInv'
    BY <1>4, SameNetwork
<1> QED BY <1>3, <1>5, <1>6, <1>7, <1>8

\* The with-block ends: at the end of a handler, or before a retrieval's job is settled.
LEMMA ReleaseStep ==
    ASSUME IInv, NEW t \in Threads, ReleaseInstanceLocks(t) \/ Fetch(t)
    PROVE  IInv'
<1> USE DEF IInv
<1>1. DropInstanceLocks(t) /\ UNCHANGED <<todo, scope, flock, sem, job, stranded, inbox, env>>
    BY DEF ReleaseInstanceLocks, Fetch
<1>2. /\ HeldInv'
      /\ held' \in [Threads -> SUBSET Instances]
      /\ ilock' \in [Procs -> [Instances -> Threads \cup {None}]]
      /\ \A u \in Threads : held'[u] = IF u = t THEN {} ELSE held[u]
    BY <1>1, DropKeepsHeld
<1>3. PICK l \in {"idle", "settle"} : /\ Goto(t, l)
                                     /\ \/ l = "idle" /\ cmd' = [cmd EXCEPT ![t] = None]
                                        \/ UNCHANGED cmd
    BY DEF ReleaseInstanceLocks, Fetch
<1>4. pc[t] \in {"release", "fetch"}
    BY DEF ReleaseInstanceLocks, Fetch
<1>5. \A u \in Threads : pc'[u] = IF u = t THEN l ELSE pc[u]
    BY <1>3 DEF TypeOK, Goto
<1>6. \A u \in Threads : u # t \/ l = "settle" => cmd'[u] = cmd[u]
    BY <1>3 DEF TypeOK
<1>7. TypeOK'
    BY <1>1, <1>2, <1>3 DEF TypeOK, Goto, env, Labels
<1>8. ShapeInv'
    BY <1>1, <1>2, <1>3, <1>4, <1>5, <1>6 DEF ShapeInv, Named, Bare, Raise
<1>9. FlockInv'
    BY <1>1, <1>3, <1>4, <1>5, <1>6 DEF FlockInv, FlockHeld, InBackup
<1>10. SemInv'
    BY <1>1, <1>3, <1>4, <1>5, <1>6, SameNetwork
<1> QED BY <1>2, <1>7, <1>8, <1>9, <1>10

\* The flock is granted to a process, possibly for the second time.
LEMMA AcquireFlockStep ==
    ASSUME IInv, NEW t \in Threads, AcquireFlock(t)
    PROVE  IInv'
<1> USE ConstantsAssumption DEF IInv
<1>1. pc[t] = "flock" /\ cmd[t].inst \in Instances /\ ProcOf[t] \in Procs
    BY DEF AcquireFlock, ShapeInv, Named
<1>2. /\ Goto(t, "mark")
      /\ flock[cmd[t].inst] \in {None, ProcOf[t]}
      /\ flock' = [flock EXCEPT ![cmd[t].inst] = ProcOf[t]]
      /\ UNCHANGED <<cmd, held, todo, scope, ilock, sem, job, stranded, inbox, env>>
    BY DEF AcquireFlock
<1>3. \A u \in Threads : pc'[u] = IF u = t THEN "mark" ELSE pc[u]
    BY <1>2 DEF TypeOK, Goto
<1>4. \A i \in Instances : flock'[i] = IF i = cmd[t].inst THEN ProcOf[t] ELSE flock[i]
    BY <1>2 DEF TypeOK
<1>5. TypeOK'
    BY <1>1, <1>2 DEF TypeOK, Goto, env, Labels
<1>6. ShapeInv'
    BY <1>1, <1>2, <1>3 DEF ShapeInv, Named, Bare, Raise
<1>7. HeldInv'
    BY <1>2 DEF HeldInv
<1>8. FlockInv'
    <2> SUFFICES ASSUME ~MarkRaises PROVE FlockHeld'
        BY DEF FlockInv
    <2>1. ASSUME NEW u \in Threads, InBackup(u)'
          PROVE  flock'[cmd'[u].inst] = ProcOf[u]
        <3>1. CASE u = t
            BY <1>1, <1>2, <1>4, <3>1
        <3>2. CASE u # t
            <4>1. InBackup(u) /\ cmd'[u] = cmd[u]
                BY <1>2, <1>3, <2>1, <3>2 DEF InBackup
            <4>2. cmd[u].inst \in Instances /\ flock[cmd[u].inst] = ProcOf[u] /\ ProcOf[u] # None
                BY <4>1 DEF FlockInv, FlockHeld, ShapeInv, InBackup, Named
            <4> QED BY <1>2, <1>4, <4>1, <4>2
        <3> QED BY <3>1, <3>2
    <2>2. ASSUME NEW i \in Instances, flock'[i] # None
          PROVE  \E u \in Threads : ProcOf[u] = flock'[i] /\ InBackup(u)' /\ cmd'[u].inst = i
        <3>1. CASE i = cmd[t].inst
            BY <1>2, <1>3, <1>4, <3>1 DEF InBackup
        <3>2. CASE i # cmd[t].inst
            <4>1. PICK u \in Threads : ProcOf[u] = flock[i] /\ InBackup(u) /\ cmd[u].inst = i
                BY <1>4, <2>2, <3>2 DEF FlockInv, FlockHeld
            <4> QED BY <1>2, <1>3, <1>4, <3>2, <4>1 DEF InBackup
        <3> QED BY <3>1, <3>2
    <2> QED BY <2>1, <2>2 DEF FlockInv, FlockHeld
<1>9. SemInv'
    BY <1>1, <1>2, <1>3, SameNetwork
<1> QED BY <1>5, <1>6, <1>7, <1>8, <1>9

\* The flock is given back by the one thread that is in backup_instance: it is no
\* other thread's flock, because the instance lock keeps the others out.
LEMMA DropFlock ==
    ASSUME IInv, NEW t \in Threads, InBackup(t), pc[t] # "network", Goto(t, "release"),
           Unlock(ProcOf[t], {cmd[t].inst}),
           job' \in [Jobs -> Status], stranded' \subseteq Jobs,
           UNCHANGED <<cmd, held, todo, scope, ilock, sem, inbox, env>>
    PROVE  IInv'
<1> USE DEF IInv
<1>1. cmd[t].inst \in Instances
    BY DEF InBackup, ShapeInv, Named
<1>2. \A u \in Threads : pc'[u] = IF u = t THEN "release" ELSE pc[u]
    BY DEF TypeOK, Goto
<1>3. ~MarkRaises =>
         \A i \in Instances : flock'[i] = IF i = cmd[t].inst THEN None ELSE flock[i]
    BY DEF TypeOK, Unlock, FlockInv, FlockHeld
<1>4. TypeOK'
    BY DEF TypeOK, Goto, Unlock, env, Labels
<1>5. ShapeInv'
    BY <1>2 DEF ShapeInv, Named, Bare, Raise, InBackup
<1>6. HeldInv'
    BY DEF HeldInv
<1>7. FlockInv'
    <2> SUFFICES ASSUME ~MarkRaises PROVE FlockHeld'
        BY DEF FlockInv
    <2>1. ASSUME NEW u \in Threads, InBackup(u)'
          PROVE  flock'[cmd'[u].inst] = ProcOf[u]
        <3>1. u # t /\ InBackup(u)
            BY <1>2, <2>1 DEF InBackup
        <3>2. cmd[u].inst \in Instances /\ flock[cmd[u].inst] = ProcOf[u]
            BY <3>1 DEF FlockInv, FlockHeld, ShapeInv, InBackup, Named
        <3>3. cmd[u].inst # cmd[t].inst
            BY <3>1, InvImplies DEF BackupExclusion
        <3> QED BY <1>3, <3>2, <3>3
    <2>2. ASSUME NEW i \in Instances, flock'[i] # None
          PROVE  \E u \in Threads : ProcOf[u] = flock'[i] /\ InBackup(u)' /\ cmd'[u].inst = i
        <3>1. i # cmd[t].inst /\ flock'[i] = flock[i]
            BY <1>3, <2>2
        <3>2. PICK u \in Threads : ProcOf[u] = flock[i] /\ InBackup(u) /\ cmd[u].inst = i
            BY <2>2, <3>1 DEF FlockInv, FlockHeld
        <3>3. u # t
            BY <3>1, <3>2
        <3> QED BY <1>2, <3>1, <3>2, <3>3 DEF InBackup
    <2> QED BY <2>1, <2>2 DEF FlockInv, FlockHeld
<1>8. SemInv'
    BY <1>2, SameNetwork
<1> QED BY <1>4, <1>5, <1>6, <1>7, <1>8

\* The finally of backup_instance.
LEMMA ReleaseFlockStep ==
    ASSUME IInv, NEW t \in Threads, ReleaseFlock(t)
    PROVE  IInv'
BY DropFlock DEF ReleaseFlock, InBackup, IInv, TypeOK

\* The job is marked running; a raise there takes the thread to "raised", with
\* its instance lock and, from then on, an unguarded flock.
LEMMA MarkRunningStep ==
    ASSUME IInv, NEW t \in Threads, MarkRunning(t)
    PROVE  IInv'
<1> USE DEF IInv
<1>1. pc[t] = "mark" /\ UNCHANGED <<cmd, todo, scope, locks, inbox, env>>
    BY DEF MarkRunning
<1>2. job' \in [Jobs -> Status] /\ stranded' \subseteq Jobs
    <2>1. cmd[t].job \in Jobs
        BY DEF MarkRunning, ShapeInv, Command
    <2> QED BY <2>1, JobTyped DEF MarkRunning, Status
<1>3. CASE Goto(t, "host")
    <2>1. InBackup(t)' /\ InBackup(t)
        BY <1>1, <1>3 DEF InBackup, Goto, TypeOK
    <2> QED BY <1>1, <1>2, <1>3, <2>1, Move DEF Labels, Bare, Named, Raise, TypeOK
<1>4. CASE MarkRaises /\ Goto(t, "raised")
    <2>1. \A u \in Threads : pc'[u] = IF u = t THEN "raised" ELSE pc[u]
        BY <1>4 DEF TypeOK, Goto
    <2>2. TypeOK'
        BY <1>1, <1>2, <1>4 DEF TypeOK, Goto, Labels, locks, env
    <2>3. ShapeInv'
        BY <1>1, <1>4, <2>1 DEF ShapeInv, Named, Bare, Raise, locks
    <2>4. HeldInv' /\ FlockInv'
        BY <1>1, <1>4 DEF HeldInv, FlockInv, locks
    <2>5. SemInv'
        BY <1>1, <2>1, SameNetwork DEF locks
    <2> QED BY <2>2, <2>3, <2>4, <2>5
<1> QED BY <1>3, <1>4 DEF MarkRunning

\* The exception leaves the with-block of the instance lock.
LEMMA UnwindStep ==
    ASSUME IInv, NEW t \in Threads, Unwind(t)
    PROVE  IInv'
<1> USE ConstantsAssumption DEF IInv
<1>1. /\ pc[t] = "raised" /\ DropInstanceLocks(t)
      /\ UNCHANGED <<todo, scope, flock, sem, job, stranded, inbox, up, crashes, enc>>
    BY DEF Unwind
<1>2. MarkRaises /\ cmd[t] \in Command /\ cmd[t].inst \in Instances /\ ProcOf[t] \in Procs
    BY <1>1 DEF ShapeInv, Raise, Named
<1>3. /\ HeldInv'
      /\ held' \in [Threads -> SUBSET Instances]
      /\ ilock' \in [Procs -> [Instances -> Threads \cup {None}]]
      /\ \A u \in Threads : held'[u] = IF u = t THEN {} ELSE held[u]
    BY <1>1, DropKeepsHeld
<1>4. zombie' \subseteq Procs \X Jobs \X Instances
    BY <1>2 DEF Unwind, TypeOK, Command
<1>5. PICK l \in {"idle", "caught"} : /\ Goto(t, l)
                                     /\ \/ l = "idle" /\ cmd' = [cmd EXCEPT ![t] = None]
                                        \/ UNCHANGED cmd
    BY DEF Unwind
<1>6. \A u \in Threads : pc'[u] = IF u = t THEN l ELSE pc[u]
    BY <1>5 DEF TypeOK, Goto
<1>7. \A u \in Threads : u # t \/ l = "caught" => cmd'[u] = cmd[u]
    BY <1>5 DEF TypeOK
<1>8. TypeOK'
    BY <1>1, <1>2, <1>3, <1>4, <1>5 DEF TypeOK, Goto, Labels
<1>9. ShapeInv'
    BY <1>1, <1>2, <1>3, <1>5, <1>6, <1>7 DEF ShapeInv, Named, Bare, Raise
<1>10. FlockInv'
    BY <1>2 DEF FlockInv
<1>11. SemInv'
    BY <1>1, <1>6, <1>7, SameNetwork
<1> QED BY <1>3, <1>8, <1>9, <1>10, <1>11

\* A permit is taken or given back: the counter follows the set of threads.
LEMMA SemSteps ==
    ASSUME IInv, NEW t \in Threads, AcquireHost(t) \/ Network(t)
    PROVE  IInv'
<1> USE ConstantsAssumption DEF IInv
<1> DEFINE q == ProcOf[t]
           g == HostOf[cmd[t].inst]
<1>1. /\ cmd[t].inst \in Instances /\ q \in Procs /\ g \in Hosts
      /\ pc[t] \in {"host", "network"}
    BY DEF AcquireHost, PermitFree, Network, Download, ShapeInv, Named
<1>2. UNCHANGED <<cmd, held, todo, scope, ilock, flock, job, stranded, inbox, env>>
    BY DEF AcquireHost, PermitFree, Network, Download
<1>3. PICK l \in {"network", "save", "fail"} :
          /\ Goto(t, l)
          /\ \/ /\ pc[t] = "host" /\ l = "network" /\ sem[q][g] < HostConcurrency
                /\ sem' = [sem EXCEPT ![q][g] = @ + 1]
             \/ /\ pc[t] = "network" /\ l # "network"
                /\ sem' = [sem EXCEPT ![q][g] = @ - 1]
    BY DEF AcquireHost, PermitFree, Network, Download
<1>4. \A u \in Threads : pc'[u] = IF u = t THEN l ELSE pc[u]
    BY <1>3 DEF TypeOK, Goto
<1>5. \A p \in Procs, h \in Hosts : IsFiniteSet(NetworkThreads(p, h))
    BY FS_Subset DEF NetworkThreads
<1>6. sem \in [Procs -> [Hosts -> Nat]]
    BY DEF TypeOK
<1>7. ASSUME NEW p \in Procs, NEW h \in Hosts, ~(p = q /\ h = g)
      PROVE  NetworkThreads(p, h)' = NetworkThreads(p, h) /\ sem'[p][h] = sem[p][h]
    <2>1. NetworkThreads(p, h)' = NetworkThreads(p, h)
        BY <1>2, <1>4, <1>7 DEF NetworkThreads
    <2>2. sem'[p][h] = sem[p][h]
        BY <1>1, <1>3, <1>6, <1>7
    <2> QED BY <2>1, <2>2
<1>8. /\ sem'[q][g] = Cardinality(NetworkThreads(q, g)')
      /\ sem'[q][g] <= HostConcurrency
      /\ sem'[q][g] \in Nat
    <2>1. sem[q][g] = Cardinality(NetworkThreads(q, g)) /\ sem[q][g] <= HostConcurrency
        BY <1>1 DEF SemInv
    <2>2. CASE l = "network"
        <3>1. NetworkThreads(q, g)' = NetworkThreads(q, g) \cup {t} /\ t \notin NetworkThreads(q, g)
            BY <1>1, <1>2, <1>3, <1>4, <2>2 DEF NetworkThreads
        <3>2. sem'[q][g] = sem[q][g] + 1 /\ sem[q][g] < HostConcurrency
            BY <1>1, <1>3, <1>6, <2>2
        <3>3. Cardinality(NetworkThreads(q, g) \cup {t}) = Cardinality(NetworkThreads(q, g)) + 1
            BY <1>1, <1>5, <3>1, FS_AddElement
        <3> QED BY <1>1, <1>6, <2>1, <3>1, <3>2, <3>3
    <2>3. CASE l # "network"
        <3>1. NetworkThreads(q, g)' = NetworkThreads(q, g) \ {t} /\ t \in NetworkThreads(q, g)
            BY <1>1, <1>2, <1>3, <1>4, <2>3 DEF NetworkThreads
        <3>2. sem'[q][g] = sem[q][g] - 1
            BY <1>1, <1>3, <1>6, <2>3
        <3> DEFINE N == NetworkThreads(q, g)
        <3>3. IsFiniteSet(N) /\ t \in N
            BY <1>1, <1>5, <3>1
        <3> HIDE DEF N
        <3>4. Cardinality(N \ {t}) = Cardinality(N) - 1 /\ Cardinality(N \ {t}) \in Nat
            BY <3>3, FS_RemoveElement, FS_CardinalityType
        <3> QED BY <1>1, <1>6, <2>1, <3>1, <3>2, <3>4 DEF N
    <2> QED BY <2>2, <2>3
<1>9. SemInv'
    <2> SUFFICES ASSUME NEW p \in Procs, NEW h \in Hosts
                 PROVE  /\ sem'[p][h] = Cardinality(NetworkThreads(p, h)')
                        /\ sem'[p][h] <= HostConcurrency
        BY DEF SemInv
    <2>1. CASE p = q /\ h = g
        <3>1. NetworkThreads(p, h)' = NetworkThreads(q, g)'
            BY <1>2, <2>1 DEF NetworkThreads
        <3> QED BY <1>8, <2>1, <3>1
    <2>2. CASE ~(p = q /\ h = g)
        BY <1>7, <2>2 DEF SemInv
    <2> QED BY <2>1, <2>2
<1>10. sem' \in [Procs -> [Hosts -> Nat]]
    <2>1. sem' = [sem EXCEPT ![q] = [sem[q] EXCEPT ![g] = sem'[q][g]]]
        BY <1>1, <1>3, <1>6
    <2> DEFINE row == [sem[q] EXCEPT ![g] = sem'[q][g]]
    <2>2. row \in [Hosts -> Nat]
        BY <1>1, <1>6, <1>8
    <2>3. sem' = [sem EXCEPT ![q] = row]
        BY <2>1
    <2> HIDE DEF row
    <2> QED BY <1>1, <1>6, <2>2, <2>3
<1>11. TypeOK'
    BY <1>2, <1>3, <1>10 DEF TypeOK, Goto, env, Labels
<1>12. ShapeInv'
    BY <1>1, <1>2, <1>3, <1>4 DEF ShapeInv, Named, Bare, Raise
<1>13. HeldInv'
    BY <1>2 DEF HeldInv
<1>14. FlockInv'
    BY <1>1, <1>2, <1>3, <1>4 DEF FlockInv, FlockHeld, InBackup
<1> QED BY <1>9, <1>11, <1>12, <1>13, <1>14

\* A crash frees exactly what the threads of that process held.
LEMMA CrashStep ==
    ASSUME IInv, NEW p \in Procs, Crash(p)
    PROVE  IInv'
<1> USE ConstantsAssumption DEF IInv
<1>1. \A u \in Threads :
          /\ pc'[u] = IF ProcOf[u] = p THEN "idle" ELSE pc[u]
          /\ cmd'[u] = IF ProcOf[u] = p THEN None ELSE cmd[u]
          /\ held'[u] = IF ProcOf[u] = p THEN {} ELSE held[u]
    BY DEF Crash
<1>2. /\ \A i \in Instances : flock'[i] = IF flock[i] = p THEN None ELSE flock[i]
      /\ \A q \in Procs, i \in Instances : ilock'[q][i] = IF q = p THEN None ELSE ilock[q][i]
      /\ \A q \in Procs, h \in Hosts : sem'[q][h] = IF q = p THEN 0 ELSE sem[q][h]
    BY DEF Crash, TypeOK
<1>3. TypeOK'
    BY DEF TypeOK, Crash, Labels
<1>4. ShapeInv'
    <2>1. inbox' \subseteq inbox
        BY DEF Crash
    <2> QED BY <1>1, <2>1 DEF ShapeInv, Named, Bare, Raise
<1>5. HeldInv'
    <2>1. ASSUME NEW u \in Threads, NEW i \in held'[u]
          PROVE  ilock'[ProcOf[u]][i] = u
        <3>1. ProcOf[u] # p /\ i \in held[u] /\ i \in Instances /\ ProcOf[u] \in Procs
            BY <1>1, <2>1 DEF TypeOK
        <3>2. ilock[ProcOf[u]][i] = u
            BY <3>1 DEF HeldInv
        <3>3. ilock'[ProcOf[u]][i] = IF ProcOf[u] = p THEN None ELSE ilock[ProcOf[u]][i]
            BY <1>2, <3>1
        <3> QED BY <3>1, <3>2, <3>3
    <2>2. ASSUME NEW q \in Procs, NEW i \in Instances, ilock'[q][i] # None
          PROVE  ProcOf[ilock'[q][i]] = q /\ i \in held'[ilock'[q][i]]
        <3>0. ilock'[q][i] = IF q = p THEN None ELSE ilock[q][i]
            BY <1>2, <2>2
        <3>1. q # p /\ ilock'[q][i] = ilock[q][i] /\ ilock[q][i] \in Threads
            BY <2>2, <3>0 DEF TypeOK
        <3>2. ProcOf[ilock[q][i]] = q /\ i \in held[ilock[q][i]]
            BY <2>2, <3>1 DEF HeldInv
        <3> QED BY <1>1, <3>1, <3>2
    <2> QED BY <2>1, <2>2 DEF HeldInv
<1>6. FlockInv'
    <2> SUFFICES ASSUME ~MarkRaises PROVE FlockHeld'
        BY DEF FlockInv
    <2>1. ASSUME NEW u \in Threads, InBackup(u)'
          PROVE  flock'[cmd'[u].inst] = ProcOf[u]
        <3>1. ProcOf[u] # p /\ InBackup(u) /\ cmd'[u] = cmd[u]
            BY <1>1, <2>1 DEF InBackup
        <3>2. cmd[u].inst \in Instances /\ flock[cmd[u].inst] = ProcOf[u]
            BY <3>1 DEF FlockInv, FlockHeld, ShapeInv, InBackup, Named
        <3> QED BY <1>2, <3>1, <3>2
    <2>2. ASSUME NEW i \in Instances, flock'[i] # None
          PROVE  \E u \in Threads : ProcOf[u] = flock'[i] /\ InBackup(u)' /\ cmd'[u].inst = i
        <3>1. flock[i] # p /\ flock'[i] = flock[i]
            BY <1>2, <2>2
        <3>2. PICK u \in Threads : ProcOf[u] = flock[i] /\ InBackup(u) /\ cmd[u].inst = i
            BY <2>2, <3>1 DEF FlockInv, FlockHeld
        <3> QED BY <1>1, <3>1, <3>2 DEF InBackup
    <2> QED BY <2>1, <2>2 DEF FlockInv, FlockHeld
<1>7. SemInv'
    <2> SUFFICES ASSUME NEW q \in Procs, NEW h \in Hosts
                 PROVE  /\ sem'[q][h] = Cardinality(NetworkThreads(q, h)')
                        /\ sem'[q][h] <= HostConcurrency
        BY DEF SemInv
    <2>1. CASE q = p
        <3>1. NetworkThreads(q, h)' = {}
            BY <1>1, <2>1 DEF NetworkThreads
        <3> QED BY <1>2, <2>1, <3>1, FS_EmptySet
    <2>2. CASE q # p
        <3>1. NetworkThreads(q, h)' = NetworkThreads(q, h)
            BY <1>1, <2>2 DEF NetworkThreads
        <3> QED BY <1>2, <2>2, <3>1 DEF SemInv
    <2> QED BY <2>1, <2>2
<1> QED BY <1>3, <1>4, <1>5, <1>6, <1>7

\* A boot rewrites job rows and nothing else.
LEMMA BootStep ==
    ASSUME IInv, NEW p \in Procs, Boot(p)
    PROVE  IInv'
<1> USE DEF IInv, Boot
<1>1. TypeOK'
    BY DEF TypeOK, Status, locks
<1>2. ShapeInv'
    BY DEF ShapeInv, locks
<1>3. HeldInv' /\ FlockInv' /\ SemInv'
    BY LocksFrame DEF InBackup
<1> QED BY <1>1, <1>2, <1>3

-----------------------------------------------------------------------------
\* The invariant is inductive.
LEMMA NextInv == IInv /\ [Next]_vars => IInv'
<1> SUFFICES ASSUME IInv, [Next]_vars PROVE IInv'
    OBVIOUS
<1>1. CASE UNCHANGED vars
    <2> USE <1>1 DEF vars, IInv
    <2>1. TypeOK' /\ ShapeInv'
        BY DEF TypeOK, ShapeInv
    <2>2. HeldInv' /\ FlockInv' /\ SemInv'
        BY LocksFrame DEF locks, InBackup
    <2> QED BY <2>1, <2>2
<1>2. ASSUME NEW t \in Threads, Step(t)
      PROVE  IInv'
    BY <1>2, QuietSteps, SettleStep, FreeSteps, SweepStep, AcquireInstanceLockStep, AcquireNextLockStep,
       ReleaseStep, AcquireFlockStep, ReleaseFlockStep, MarkRunningStep, UnwindStep,
       SemSteps DEF Step
<1>3. CASE Quiescent
    BY <1>1, <1>3 DEF Quiescent
<1> QED BY <1>1, <1>2, <1>3, SubmitStep, EnableStep, FireStep, DispatchStep, CrashStep, BootStep
        DEF Next, Receive

\* Every reachable state satisfies the invariant.
LEMMA Invariance == Spec => []IInv
<1> QED BY InitInv, NextInv, PTL DEF Spec

\* The variables keep their types, for every choice of the constants.
THEOREM TypeCorrect == Spec => []TypeOK
<1>1. IInv => TypeOK
    BY DEF IInv
<1> QED BY <1>1, Invariance, PTL

\* Threads of one process never hold the lock of the same instance at once.
THEOREM RegionsDisjoint == Spec => []LockRegionsDisjoint
<1> QED BY InvImplies, Invariance, PTL

\* The per-host ceiling holds in every worker process.
THEOREM HostCeiling == Spec => []HostCap
<1> QED BY InvImplies, Invariance, PTL

\* As long as marking a job running does not raise: one instance is never backed
\* up twice at once, not by two threads of one process, not by two processes,
\* not across crashes and restarts.
THEOREM BackupsExclude == ~MarkRaises /\ Spec => []BackupExclusion
<1> SUFFICES ASSUME ~MarkRaises PROVE Spec => []BackupExclusion
    OBVIOUS
<1>1. IInv => BackupExclusion
    BY InvImplies
<1> QED BY <1>1, Invariance, PTL

\* Under the same condition instance locks, flocks and host permits are released
\* on every path out of the region they protect.
THEOREM LocksReleased == ~MarkRaises /\ Spec => []NoLockLeak
<1> SUFFICES ASSUME ~MarkRaises PROVE Spec => []NoLockLeak
    OBVIOUS
<1>1. IInv => NoLockLeak
    BY InvImplies
<1> QED BY <1>1, Invariance, PTL
-----------------------------------------------------------------------------
(* Jobs: whose they are, and what they say.                                *)

\* Kinds that share one job: a sweep and its items.
Shared == {"run_backup_all", "sweep_item"}
Works(t) == pc[t] # "idle"
Blocked == {"ilock", "snapshot", "flock", "mark"}

\* Labels at which a thread's job may be settled already.
Over == {"idle", "release", "unflock", "publish", "fail"}

\* A job belongs to one command, waiting or worked on, unless it is a sweep's.
OwnerInv ==
    /\ \A t \in Threads : IF Works(t) THEN /\ cmd[t] \in Command /\ job[cmd[t].job] # "none"
                                           /\ pc[t] = "sweep" <=> cmd[t].kind = "run_backup_all"
                                           /\ cmd[t].kind = "sweep_item" => t \in SweepPool
                                      ELSE cmd[t] = None
    /\ \A t, u \in Threads : t # u /\ Works(t) /\ Works(u) /\ cmd[t].job = cmd[u].job =>
           cmd[t].kind \in Shared /\ cmd[u].kind \in Shared
    /\ \A c \in inbox : /\ c.kind \in CommandKinds /\ job[c.job] \in {"queued", "failure"}
                        /\ \A t \in Threads : Works(t) => cmd[t].job # c.job
                        /\ \A d \in inbox : d.job = c.job => d = c

\* While no worker dies, nothing settles a job but its own handler.
OpenInv ==
    MaxCrashes = 0 =>
        /\ up = Procs
        /\ \A c \in inbox : job[c.job] = "queued"
        /\ \A t \in Threads : pc[t] \notin Over /\ cmd[t].kind \notin Shared => job[cmd[t].job] \notin Terminal

JobInv == OwnerInv /\ OpenInv /\ BlockedIsNotRunning

\* What a thread may do to its job, and to itself, in a step of its own.
Own(t) ==
    /\ \A u \in Threads : u # t => pc'[u] = pc[u] /\ cmd'[u] = cmd[u]
    /\ UNCHANGED <<inbox, up>>
    /\ job' \in [Jobs -> Status]
    /\ \A j \in Jobs : j # cmd[t].job => job'[j] = job[j]
    /\ job'[cmd[t].job] # "none"
    /\ IF pc'[t] = "idle" THEN cmd'[t] = None ELSE cmd'[t] = cmd[t] /\ (pc'[t] = "sweep" <=> pc[t] = "sweep")
    /\ pc'[t] \in Blocked => pc[t] \in Blocked /\ UNCHANGED <<job, stranded>>
    /\ pc'[t] \notin Over => pc[t] \notin Over /\ job'[cmd[t].job] \in {job[cmd[t].job], "running"}

\* Such a step keeps the invariant.
LEMMA OwnStep ==
    ASSUME IInv, JobInv, NEW t \in Threads, Works(t), Own(t)
    PROVE  JobInv'
<1> USE DEF JobInv
<1>1. /\ cmd[t] \in Command /\ cmd[t].job \in Jobs /\ job[cmd[t].job] # "none"
      /\ pc[t] = "sweep" <=> cmd[t].kind = "run_backup_all"
      /\ cmd[t].kind = "sweep_item" => t \in SweepPool
    BY DEF OwnerInv, Command
<1>2. ASSUME NEW u \in Threads, Works(u)'
      PROVE  /\ Works(u) /\ cmd'[u] = cmd[u] /\ cmd[u] \in Command /\ cmd[u].job \in Jobs
             /\ pc'[u] = "sweep" <=> pc[u] = "sweep"
    BY <1>1, <1>2 DEF Own, Works, OwnerInv, Command
<1>3. ASSUME NEW c \in inbox PROVE c.job \in Jobs /\ c.job # cmd[t].job /\ job'[c.job] = job[c.job]
    BY DEF Own, OwnerInv, IInv, TypeOK, Command
<1>4. ASSUME NEW u \in Threads, Works(u)' PROVE job'[cmd[u].job] # "none"
    <2>1. job[cmd[u].job] # "none"
        BY <1>2, <1>4 DEF OwnerInv
    <2> QED BY <1>2, <1>4, <2>1 DEF Own
<1>5. OwnerInv'
    <2>1. ASSUME NEW u \in Threads
          PROVE  IF Works(u)' THEN /\ cmd'[u] \in Command /\ job'[cmd'[u].job] # "none"
                                   /\ pc'[u] = "sweep" <=> cmd'[u].kind = "run_backup_all"
                                   /\ cmd'[u].kind = "sweep_item" => u \in SweepPool
                              ELSE cmd'[u] = None
        <3>1. CASE Works(u)'
            BY <1>2, <1>4, <3>1 DEF OwnerInv
        <3>2. CASE ~Works(u)'
            BY <3>2 DEF Own, Works, OwnerInv
        <3> QED BY <3>1, <3>2
    <2>2. \A u, v \in Threads : u # v /\ Works(u)' /\ Works(v)' /\ cmd'[u].job = cmd'[v].job =>
             cmd'[u].kind \in Shared /\ cmd'[v].kind \in Shared
        BY <1>2 DEF OwnerInv
    <2>3. \A c \in inbox' : /\ c.kind \in CommandKinds /\ job'[c.job] \in {"queued", "failure"}
                            /\ \A u \in Threads : Works(u)' => cmd'[u].job # c.job
                            /\ \A d \in inbox' : d.job = c.job => d = c
        BY <1>2, <1>3 DEF OwnerInv, Own
    <2> QED BY <2>1, <2>2, <2>3 DEF OwnerInv, Works
<1>6. BlockedIsNotRunning'
    <2> SUFFICES ASSUME NEW u \in Threads, pc'[u] \in Blocked, cmd'[u].kind \in {"run_backup", "scheduled"}
                 PROVE  job'[cmd'[u].job] \in {"queued", "failure"}
        BY DEF BlockedIsNotRunning, Blocked
    <2>1. Works(u)' /\ Works(u) /\ cmd'[u] = cmd[u] /\ cmd[u].job \in Jobs
        BY <1>2 DEF Works, Blocked
    <2>2. pc[u] \in Blocked
        BY DEF Own
    <2>3. job[cmd[u].job] \in {"queued", "failure"}
        BY <2>1, <2>2 DEF BlockedIsNotRunning, Blocked
    <2>4. job'[cmd[u].job] = job[cmd[u].job]
        <3>1. CASE u = t
            BY <3>1 DEF Own
        <3>2. CASE u # t
            <4>1. cmd[u].job # cmd[t].job
                BY <2>1, <3>2 DEF OwnerInv, Shared
            <4> QED BY <2>1, <4>1 DEF Own
        <3> QED BY <3>1, <3>2
    <2> QED BY <2>1, <2>3, <2>4
<1>7. OpenInv'
    <2> SUFFICES ASSUME MaxCrashes = 0
                 PROVE  /\ up' = Procs
                        /\ \A c \in inbox' : job'[c.job] = "queued"
                        /\ \A u \in Threads : pc'[u] \notin Over /\ cmd'[u].kind \notin Shared =>
                               job'[cmd'[u].job] \notin Terminal
        BY DEF OpenInv
    <2>1. up' = Procs /\ \A c \in inbox' : job'[c.job] = "queued"
        BY <1>3 DEF OpenInv, Own
    <2>2. ASSUME NEW u \in Threads, pc'[u] \notin Over, cmd'[u].kind \notin Shared
          PROVE  job'[cmd'[u].job] \notin Terminal
        <3>1. Works(u)' /\ Works(u) /\ cmd'[u] = cmd[u] /\ cmd[u].job \in Jobs
            BY <1>2, <2>2 DEF Works, Over
        <3>2. pc[u] \notin Over
            BY <2>2 DEF Own
        <3>3. job[cmd[u].job] \notin Terminal
            BY <2>2, <3>1, <3>2 DEF OpenInv
        <3>4. CASE u = t
            BY <2>2, <3>1, <3>3, <3>4 DEF Own, Terminal
        <3>5. CASE u # t
            <4>1. cmd[u].job # cmd[t].job
                BY <2>2, <3>1, <3>5 DEF OwnerInv
            <4> QED BY <3>1, <3>3, <4>1 DEF Own
        <3> QED BY <3>4, <3>5
    <2> QED BY <2>1, <2>2
<1> QED BY <1>5, <1>6, <1>7

\* A mark on a thread's own job, or an exception that leaves it to be failed.
LEMMA OwnMark ==
    ASSUME IInv, JobInv, NEW t \in Threads, Works(t),
           \/ \E st \in {"running", "success", "failure"} : Mark(cmd[t].job, st)
           \/ Escape(cmd[t]) \/ UNCHANGED <<job, stranded>>
    PROVE  /\ job' \in [Jobs -> Status] /\ job'[cmd[t].job] # "none"
           /\ \A j \in Jobs : j # cmd[t].job => job'[j] = job[j]
<1>1. job \in [Jobs -> Status] /\ cmd[t].job \in Jobs /\ job[cmd[t].job] # "none"
    BY DEF IInv, TypeOK, JobInv, OwnerInv, Command
<1>2. CASE \E st \in {"running", "success", "failure"} : Mark(cmd[t].job, st)
    BY <1>1, <1>2 DEF Mark, Status
<1>3. CASE FailOrphan(cmd[t].job)
    BY <1>1, <1>3 DEF FailOrphan, Open, Status
<1> QED BY <1>1, <1>2, <1>3 DEF Escape

\* What a thread does by itself, but for starting an item of a sweep.
LEMMA OwnActions ==
    ASSUME IInv, JobInv, NEW t \in Threads, Step(t),
           ~(\E c \in Threads, i \in Instances : StartSweepItem(t, c, i))
    PROVE  Works(t) /\ Own(t)
<1> USE DEF locks, env
<1>1. pc \in [Threads -> Labels] /\ cmd \in [Threads -> Command \cup {None}] /\ job \in [Jobs -> Status]
    BY DEF IInv, TypeOK
<1>2. Works(t)
    BY DEF Step, Works, AcquireInstanceLock, AcquireNextLock, AllLocksTaken, AcquireFlock, AcquireHost, ReleaseFlock,
           ReleaseInstanceLocks, Snapshot, MarkRunning, Unwind, Caught, Network, Save, Announce, Fail, PlanRewrite, Rewrite,
           TestSnapshot, Probe, Fetch, Settle, FinishSweep
<1>3. cmd[t].job \in Jobs /\ job[cmd[t].job] # "none"
    BY <1>2 DEF JobInv, OwnerInv, Command
<1>4. ASSUME NEW l, Goto(t, l) PROVE pc'[t] = l /\ \A u \in Threads : u # t => pc'[u] = pc[u]
    BY <1>1, <1>4 DEF Goto
<1>5. UNCHANGED <<job, stranded>> => job' \in [Jobs -> Status] /\ job'[cmd[t].job] # "none"
    BY <1>1, <1>3
<1>6. CASE AcquireInstanceLock(t)
    <2> DEFINE l == CASE cmd[t].kind \in BackupKinds \cup {"test_connection"} -> "snapshot"
                      [] cmd[t].kind = "reencrypt_backups" -> "plan"
                      [] OTHER -> "fetch"
    <2>1. l \in {"snapshot", "plan", "fetch"}
        BY DEF BackupKinds
    <2>2. pc[t] = "ilock" /\ Goto(t, l) /\ UNCHANGED <<cmd, job, stranded, inbox, up>>
        BY <1>6 DEF AcquireInstanceLock
    <2> HIDE DEF l
    <2> QED BY <1>2, <1>4, <1>5, <2>1, <2>2 DEF Own, Blocked, Over
<1>7. CASE AcquireNextLock(t)
    BY <1>2, <1>5, <1>7 DEF AcquireNextLock, Own, Blocked, Over
<1>8. CASE AllLocksTaken(t)
    BY <1>2, <1>4, <1>5, <1>8 DEF AllLocksTaken, Own, Blocked, Over
<1>9. CASE AcquireFlock(t) \/ AcquireHost(t) \/ ReleaseFlock(t)
    BY <1>2, <1>4, <1>5, <1>9 DEF AcquireFlock, AcquireHost, ReleaseFlock, Own, Blocked, Over
<1>10. ASSUME Goto(t, "idle"), cmd' = [cmd EXCEPT ![t] = None], UNCHANGED <<inbox, up>>,
              \/ \E st \in {"running", "success", "failure"} : Mark(cmd[t].job, st)
              \/ Escape(cmd[t]) \/ UNCHANGED <<job, stranded>>
       PROVE  Works(t) /\ Own(t)
    BY <1>1, <1>2, <1>4, <1>10, OwnMark DEF Own, Blocked, Over
<1>11. CASE ReleaseInstanceLocks(t)
    BY <1>10, <1>11 DEF ReleaseInstanceLocks
<1>12. CASE Caught(t)
    BY <1>10, <1>12 DEF Caught
<1>13. CASE Settle(t)
    BY <1>10, <1>13 DEF Settle, Terminal
<1>14. CASE FinishSweep(t)
    BY <1>10, <1>14 DEF FinishSweep
<1>15. CASE Unwind(t)
    <2>1. CASE cmd[t].kind = "sweep_item"
        BY <1>10, <1>15, <2>1 DEF Unwind
    <2>2. CASE cmd[t].kind # "sweep_item"
        <3>1. pc[t] = "raised" /\ Goto(t, "caught") /\ UNCHANGED <<cmd, job, stranded, inbox, up>>
            BY <1>15, <2>2 DEF Unwind
        <3> QED BY <1>2, <1>4, <1>5, <3>1 DEF Own, Blocked, Over
    <2> QED BY <2>1, <2>2
<1>16. ASSUME NEW l \in {"release", "unflock", "publish"}, Goto(t, l), UNCHANGED <<cmd, inbox, up>>, pc[t] # "sweep",
              \/ \E st \in {"running", "success", "failure"} : Mark(cmd[t].job, st)
              \/ Escape(cmd[t]) \/ UNCHANGED <<job, stranded>>
       PROVE  Works(t) /\ Own(t)
    BY <1>2, <1>4, <1>16, OwnMark DEF Own, Blocked, Over
<1>17. ASSUME NEW l \in {"host", "save", "fail", "rewrite", "probe", "settle", "raised"},
              Goto(t, l), UNCHANGED <<cmd, inbox, up>>, pc[t] \notin Over \cup {"sweep"},
              Mark(cmd[t].job, "running") \/ UNCHANGED <<job, stranded>>
       PROVE  Works(t) /\ Own(t)
    <2>1. job'[cmd[t].job] \in {job[cmd[t].job], "running"}
        BY <1>1, <1>3, <1>17 DEF Mark
    <2> QED BY <1>2, <1>4, <1>17, <2>1, OwnMark DEF Own, Blocked, Over
<1>18. CASE Snapshot(t)
    <2>1. CASE UNCHANGED <<job, stranded>> /\ Goto(t, "flock")
        BY <1>2, <1>4, <1>5, <1>18, <2>1 DEF Snapshot, Own, Blocked, Over
    <2>2. CASE ~(UNCHANGED <<job, stranded>> /\ Goto(t, "flock"))
        BY <1>16, <1>18, <2>2 DEF Snapshot
    <2> QED BY <2>1, <2>2
<1>19. CASE MarkRunning(t)
    BY <1>17, <1>19 DEF MarkRunning, Over
<1>20. CASE Network(t)
    BY <1>17, <1>20 DEF Network, Download, Over
<1>21. CASE Save(t)
    BY <1>16, <1>17, <1>21 DEF Save, Over
<1>28. CASE Announce(t)
    BY <1>2, <1>4, <1>5, <1>28 DEF Announce, Own, Blocked, Over
<1>22. CASE Fail(t)
    BY <1>16, <1>22 DEF Fail
<1>23. CASE PlanRewrite(t)
    BY <1>16, <1>17, <1>23 DEF PlanRewrite, Over
<1>24. CASE Rewrite(t)
    BY <1>16, <1>24 DEF Rewrite, Terminal
<1>25. CASE TestSnapshot(t)
    BY <1>16, <1>17, <1>25 DEF TestSnapshot, Over
<1>26. CASE Probe(t)
    BY <1>16, <1>26 DEF Probe, Terminal
<1>27. CASE Fetch(t)
    BY <1>17, <1>27 DEF Fetch, Over
<1> QED BY <1>6, <1>7, <1>8, <1>9, <1>11, <1>12, <1>13, <1>14, <1>15, <1>18, <1>19, <1>20, <1>21, <1>22, <1>23, <1>24,
           <1>25, <1>26, <1>27, <1>28 DEF Step

\* A thread that was idle takes up a command whose job is nobody else's, or shares
\* it with a sweep.
LEMMA TakeUp ==
    ASSUME IInv, JobInv, NEW t \in Threads, ~Works(t), NEW c \in Command,
           inbox' \subseteq inbox, UNCHANGED up, job' \in [Jobs -> Status],
           \A u \in Threads : u # t => pc'[u] = pc[u] /\ cmd'[u] = cmd[u],
           pc'[t] # "idle", cmd'[t] = c,
           pc'[t] = "sweep" <=> c.kind = "run_backup_all",
           c.kind = "sweep_item" => t \in SweepPool,
           \A j \in Jobs : j # c.job => job'[j] = job[j],
           job'[c.job] # "none",
           \A d \in inbox' : d.job # c.job,
           \A u \in Threads : Works(u) /\ cmd[u].job = c.job =>
               cmd[u].kind \in Shared /\ c.kind \in Shared /\ UNCHANGED <<job, stranded>>,
           pc'[t] \in Blocked /\ c.kind \in {"run_backup", "scheduled"} => job'[c.job] \in {"queued", "failure"},
           MaxCrashes = 0 /\ c.kind \notin Shared => job'[c.job] \notin Terminal
    PROVE  JobInv'
<1> USE DEF JobInv
<1>1. c.job \in Jobs
    BY DEF Command
<1>2. ASSUME NEW u \in Threads, u # t, Works(u)
      PROVE  /\ pc'[u] = pc[u] /\ cmd'[u] = cmd[u] /\ cmd[u] \in Command /\ cmd[u].job \in Jobs
             /\ job'[cmd[u].job] = job[cmd[u].job]
             /\ cmd[u].job = c.job => cmd[u].kind \in Shared /\ c.kind \in Shared
    <2>1. cmd[u] \in Command /\ cmd[u].job \in Jobs
        BY <1>2 DEF OwnerInv, Command
    <2> QED BY <1>2, <2>1
<1>3. ASSUME NEW d \in inbox' PROVE d \in inbox /\ d.job \in Jobs /\ d.job # c.job /\ job'[d.job] = job[d.job]
    BY DEF IInv, TypeOK, Command
<1>4. OwnerInv'
    <2>1. ASSUME NEW u \in Threads
          PROVE  IF Works(u)' THEN /\ cmd'[u] \in Command /\ job'[cmd'[u].job] # "none"
                                   /\ pc'[u] = "sweep" <=> cmd'[u].kind = "run_backup_all"
                                   /\ cmd'[u].kind = "sweep_item" => u \in SweepPool
                              ELSE cmd'[u] = None
        <3>1. CASE u = t
            BY <3>1 DEF Works
        <3>2. CASE u # t
            BY <1>2, <3>2 DEF OwnerInv, Works
        <3> QED BY <3>1, <3>2
    <2>2. ASSUME NEW u \in Threads, NEW v \in Threads, u # v, Works(u)', Works(v)', cmd'[u].job = cmd'[v].job
          PROVE  cmd'[u].kind \in Shared /\ cmd'[v].kind \in Shared
        <3>1. CASE u = t
            BY <1>2, <2>2, <3>1 DEF Works
        <3>2. CASE v = t
            BY <1>2, <2>2, <3>2 DEF Works
        <3>3. CASE u # t /\ v # t
            BY <1>2, <2>2, <3>3 DEF OwnerInv, Works
        <3> QED BY <3>1, <3>2, <3>3
    <2>3. ASSUME NEW d \in inbox'
          PROVE  /\ d.kind \in CommandKinds /\ job'[d.job] \in {"queued", "failure"}
                 /\ \A u \in Threads : Works(u)' => cmd'[u].job # d.job
                 /\ \A e \in inbox' : e.job = d.job => e = d
        <3>1. \A u \in Threads : Works(u)' => cmd'[u].job # d.job
            <4> SUFFICES ASSUME NEW u \in Threads, Works(u)' PROVE cmd'[u].job # d.job
                OBVIOUS
            <4>1. CASE u = t
                BY <1>3, <4>1
            <4>2. CASE u # t
                BY <1>3, <4>2 DEF Works, OwnerInv
            <4> QED BY <4>1, <4>2
        <3> QED BY <1>3, <3>1 DEF OwnerInv
    <2> QED BY <2>1, <2>2, <2>3 DEF OwnerInv, Works
<1>5. BlockedIsNotRunning'
    <2> SUFFICES ASSUME NEW u \in Threads, pc'[u] \in Blocked, cmd'[u].kind \in {"run_backup", "scheduled"}
                 PROVE  job'[cmd'[u].job] \in {"queued", "failure"}
        BY DEF BlockedIsNotRunning, Blocked
    <2>1. CASE u = t
        BY <2>1
    <2>2. CASE u # t
        <3>1. Works(u)
            BY <2>2 DEF Works, Blocked
        <3> QED BY <1>2, <2>2, <3>1 DEF BlockedIsNotRunning, Blocked
    <2> QED BY <2>1, <2>2
<1>6. OpenInv'
    <2> SUFFICES ASSUME MaxCrashes = 0
                 PROVE  /\ up' = Procs
                        /\ \A d \in inbox' : job'[d.job] = "queued"
                        /\ \A u \in Threads : pc'[u] \notin Over /\ cmd'[u].kind \notin Shared =>
                               job'[cmd'[u].job] \notin Terminal
        BY DEF OpenInv
    <2>1. up' = Procs /\ \A d \in inbox' : job'[d.job] = "queued"
        BY <1>3 DEF OpenInv
    <2>2. ASSUME NEW u \in Threads, pc'[u] \notin Over, cmd'[u].kind \notin Shared
          PROVE  job'[cmd'[u].job] \notin Terminal
        <3>1. CASE u = t
            BY <2>2, <3>1
        <3>2. CASE u # t
            <4>1. Works(u)
                BY <2>2, <3>2 DEF Works, Over
            <4> QED BY <1>2, <2>2, <3>2, <4>1 DEF OpenInv
        <3> QED BY <3>1, <3>2
    <2> QED BY <2>1, <2>2
<1> QED BY <1>4, <1>5, <1>6

\* A step that touches no thread, and of jobs at most one that was never used, or
\* those a booting worker fails.
LEMMA NobodyMoves ==
    ASSUME IInv, JobInv, UNCHANGED <<pc, cmd>>, job' \in [Jobs -> Status],
           \A j \in Jobs : job[j] # "none" => job'[j] # "none",
           \A j \in Jobs : job[j] \in {"queued", "failure"} => job'[j] \in {"queued", "failure"},
           MaxCrashes = 0 => up' = Procs /\ \A j \in Jobs : job[j] # "none" => job'[j] = job[j],
           \A c \in inbox' :
               \/ c \in inbox
               \/ /\ c \in Command /\ c.kind \in CommandKinds /\ job[c.job] = "none" /\ job'[c.job] = "queued"
                  /\ \A d \in inbox' : d = c \/ d \in inbox
    PROVE  JobInv'
<1> USE DEF JobInv
<1>1. \A t \in Threads : Works(t) => cmd[t].job \in Jobs /\ job[cmd[t].job] # "none"
    BY DEF OwnerInv, Command
<1>2. \A c \in inbox : c.job \in Jobs /\ job[c.job] \in {"queued", "failure"}
    BY DEF OwnerInv, IInv, TypeOK, Command
<1>3. ASSUME NEW c \in inbox'
      PROVE  /\ c.kind \in CommandKinds /\ job'[c.job] \in {"queued", "failure"}
             /\ \A t \in Threads : Works(t) => cmd[t].job # c.job
             /\ \A d \in inbox' : d.job = c.job => d = c
             /\ MaxCrashes = 0 => job'[c.job] = "queued"
    <2>1. CASE c \in inbox
        <3>1. \A d \in inbox' : d.job = c.job => d \in inbox
            BY <1>2, <2>1
        <3>2. MaxCrashes = 0 => job'[c.job] = "queued"
            BY <1>2, <2>1 DEF OpenInv
        <3> QED BY <1>2, <2>1, <3>1, <3>2 DEF OwnerInv
    <2>2. CASE c \notin inbox
        <3>1. c.kind \in CommandKinds /\ job[c.job] = "none" /\ job'[c.job] = "queued" /\ \A d \in inbox' : d = c \/ d \in inbox
            BY <2>2
        <3> QED BY <1>1, <1>2, <3>1
    <2> QED BY <2>1, <2>2
<1>4. OwnerInv'
    <2>1. ASSUME NEW t \in Threads
          PROVE  IF Works(t) THEN /\ cmd[t] \in Command /\ job'[cmd[t].job] # "none"
                                  /\ pc[t] = "sweep" <=> cmd[t].kind = "run_backup_all"
                                  /\ cmd[t].kind = "sweep_item" => t \in SweepPool
                             ELSE cmd[t] = None
        BY <1>1 DEF OwnerInv
    <2>2. \A t, u \in Threads : t # u /\ Works(t) /\ Works(u) /\ cmd[t].job = cmd[u].job =>
              cmd[t].kind \in Shared /\ cmd[u].kind \in Shared
        BY DEF OwnerInv
    <2> QED BY <1>3, <2>1, <2>2 DEF OwnerInv, Works
<1>5. BlockedIsNotRunning'
    <2> SUFFICES ASSUME NEW t \in Threads, pc[t] \in Blocked, cmd[t].kind \in {"run_backup", "scheduled"}
                 PROVE  job'[cmd[t].job] \in {"queued", "failure"}
        BY DEF BlockedIsNotRunning, Blocked
    <2>1. Works(t)
        BY DEF Works, Blocked
    <2> QED BY <1>1, <2>1 DEF BlockedIsNotRunning, Blocked
<1>6. OpenInv'
    <2> SUFFICES ASSUME MaxCrashes = 0, NEW t \in Threads, pc[t] \notin Over, cmd[t].kind \notin Shared
                 PROVE  job'[cmd[t].job] \notin Terminal
        BY <1>3 DEF OpenInv
    <2>1. Works(t)
        BY DEF Works, Over
    <2> QED BY <1>1, <2>1 DEF OpenInv
<1> QED BY <1>4, <1>5, <1>6

\* A handler takes a command: it works on it, or has done with it at once.
LEMMA DispatchJob ==
    ASSUME IInv, JobInv, NEW t \in Threads, NEW c \in inbox, Dispatch(t, c)
    PROVE  JobInv'
<1> USE DEF locks, env
<1>1. /\ pc \in [Threads -> Labels] /\ cmd \in [Threads -> Command \cup {None}] /\ job \in [Jobs -> Status]
      /\ c \in Command /\ c.job \in Jobs /\ c.kind \in CommandKinds
    BY DEF IInv, TypeOK, Command, JobInv, OwnerInv
<1>2. /\ ~Works(t) /\ pc[t] = "idle" /\ cmd[t] = None /\ inbox' = inbox \ {c} /\ UNCHANGED up
      /\ cmd' = [cmd EXCEPT ![t] = IF pc'[t] = "idle" THEN None ELSE c]
    BY DEF Dispatch, Idle, Works, JobInv, OwnerInv
<1>3. /\ job[c.job] \in {"queued", "failure"} /\ \A u \in Threads : Works(u) => cmd[u].job # c.job
      /\ \A d \in inbox' : d.job # c.job
      /\ MaxCrashes = 0 => job[c.job] = "queued"
    BY <1>2 DEF JobInv, OwnerInv, OpenInv
<1>4. ASSUME NEW l \in {"ilock", "lock_all", "sweep"}, Goto(t, l), l = "sweep" <=> c.kind = "run_backup_all",
             UNCHANGED <<job, stranded>> \/ (c.kind = "retrieve_replica" /\ Mark(c.job, "running"))
      PROVE  JobInv'
    <2>1. pc'[t] = l /\ cmd'[t] = c /\ \A u \in Threads : u # t => pc'[u] = pc[u] /\ cmd'[u] = cmd[u]
        BY <1>1, <1>2, <1>4 DEF Goto
    <2>2. /\ job' \in [Jobs -> Status] /\ job'[c.job] # "none" /\ \A j \in Jobs : j # c.job => job'[j] = job[j]
          /\ c.kind # "retrieve_replica" => UNCHANGED <<job, stranded>>
          /\ MaxCrashes = 0 => job'[c.job] \notin Terminal
        BY <1>1, <1>3, <1>4 DEF Mark, Status, Terminal
    <2>3. c.kind # "sweep_item"
        BY <1>1 DEF CommandKinds
    <2> QED BY <1>1, <1>2, <1>3, <1>4, <2>1, <2>2, <2>3, TakeUp
<1>5. ASSUME UNCHANGED pc, UNCHANGED <<job, stranded>> \/ FailOrphan(c.job) \/ Mark(c.job, "failure") PROVE JobInv'
    <2>1. UNCHANGED cmd
        BY <1>1, <1>2, <1>5
    <2>2. /\ job' \in [Jobs -> Status] /\ job'[c.job] \in {"queued", "failure"}
          /\ \A j \in Jobs : j # c.job => job'[j] = job[j]
        BY <1>1, <1>3, <1>5 DEF FailOrphan, Open, Mark, Status
    <2> QED BY <1>1, <1>2, <1>3, <1>5, <2>1, <2>2 DEF JobInv, OwnerInv, OpenInv, BlockedIsNotRunning, IInv, TypeOK,
               Command, Works, Blocked, Over
<1>6. CASE DispatchSingle(t, c)
    BY <1>4, <1>6 DEF DispatchSingle
<1>7. CASE DispatchReencryptAll(t, c)
    BY <1>4, <1>5, <1>7 DEF DispatchReencryptAll
<1>8. CASE DispatchSweep(t, c)
    BY <1>4, <1>8 DEF DispatchSweep
<1>9. CASE DispatchRetrieve(t, c)
    BY <1>4, <1>5, <1>9 DEF DispatchRetrieve
<1>10. CASE DispatchInvalid(t, c)
    BY <1>5, <1>10 DEF DispatchInvalid
<1>11. CASE DispatchUnknown(t, c)
    BY <1>5, <1>11 DEF DispatchUnknown
<1> QED BY <1>6, <1>7, <1>8, <1>9, <1>10, <1>11 DEF Dispatch

\* A process dies: what its threads worked on is nobody's any more.
LEMMA CrashJob ==
    ASSUME IInv, JobInv, NEW p \in Procs, Crash(p)
    PROVE  JobInv'
<1>1. /\ \A t \in Threads : Works(t)' => Works(t) /\ pc'[t] = pc[t] /\ cmd'[t] = cmd[t]
      /\ \A t \in Threads : ~Works(t)' => cmd'[t] = None
      /\ UNCHANGED <<job, stranded>> /\ inbox' \subseteq inbox
    BY DEF Crash, Works, JobInv, OwnerInv
<1>2. MaxCrashes # 0
    BY ConstantsAssumption DEF Crash, IInv, TypeOK
<1>3. OwnerInv'
    <2>1. ASSUME NEW t \in Threads
          PROVE  IF Works(t)' THEN /\ cmd'[t] \in Command /\ job'[cmd'[t].job] # "none"
                                   /\ pc'[t] = "sweep" <=> cmd'[t].kind = "run_backup_all"
                                   /\ cmd'[t].kind = "sweep_item" => t \in SweepPool
                              ELSE cmd'[t] = None
        BY <1>1 DEF JobInv, OwnerInv
    <2>2. \A t, u \in Threads : t # u /\ Works(t)' /\ Works(u)' /\ cmd'[t].job = cmd'[u].job =>
             cmd'[t].kind \in Shared /\ cmd'[u].kind \in Shared
        BY <1>1 DEF JobInv, OwnerInv
    <2>3. \A c \in inbox' : /\ c.kind \in CommandKinds /\ job'[c.job] \in {"queued", "failure"}
                            /\ \A t \in Threads : Works(t)' => cmd'[t].job # c.job
                            /\ \A d \in inbox' : d.job = c.job => d = c
        BY <1>1 DEF JobInv, OwnerInv
    <2> QED BY <2>1, <2>2, <2>3 DEF OwnerInv, Works
<1>4. BlockedIsNotRunning'
    <2> SUFFICES ASSUME NEW t \in Threads, pc'[t] \in Blocked, cmd'[t].kind \in {"run_backup", "scheduled"}
                 PROVE  job'[cmd'[t].job] \in {"queued", "failure"}
        BY DEF BlockedIsNotRunning, Blocked
    <2>1. Works(t)'
        BY DEF Works, Blocked
    <2> QED BY <1>1, <2>1 DEF JobInv, BlockedIsNotRunning, Blocked
<1> QED BY <1>2, <1>3, <1>4 DEF JobInv, OpenInv

\* Every step keeps jobs and their owners right.
LEMMA JobStep == ASSUME IInv, JobInv, Next PROVE JobInv'
<1> USE DEF locks, env
<1>1. /\ pc \in [Threads -> Labels] /\ cmd \in [Threads -> Command \cup {None}] /\ job \in [Jobs -> Status]
    BY DEF IInv, TypeOK
<1>2. ASSUME NEW k \in Requests, NEW i \in Instances \cup {None}, NEW j \in Jobs, Submit(k, i, j) PROVE JobInv'
    <2> DEFINE c == [kind |-> k, inst |-> i, job |-> j]
    <2>1. /\ job[j] = "none" /\ job' = [job EXCEPT ![j] = "queued"] /\ UNCHANGED <<pc, cmd, up>>
          /\ inbox' = inbox \cup {c} /\ c \in Command /\ c.kind \in CommandKinds /\ c.job = j
        BY <1>2, ConstantsAssumption DEF Submit, Mark, Command, Kinds
    <2> HIDE DEF c
    <2>2. /\ job' \in [Jobs -> Status] /\ job'[j] = "queued" /\ \A x \in Jobs : x # j => job'[x] = job[x]
        BY <1>1, <2>1 DEF Status
    <2>3. MaxCrashes = 0 => up' = Procs
        BY <2>1 DEF JobInv, OpenInv
    <2> QED BY <2>1, <2>2, <2>3, NobodyMoves
<1>3. ASSUME UNCHANGED <<pc, cmd, job, stranded, inbox, up>> PROVE JobInv'
    BY <1>3 DEF JobInv, OwnerInv, OpenInv, BlockedIsNotRunning, Works
<1>4. ASSUME NEW i \in Instances, EnableEncryption(i) PROVE JobInv'
    BY <1>3, <1>4 DEF EnableEncryption
<1>5. CASE Quiescent
    BY <1>3, <1>5 DEF Quiescent, vars
<1>6. ASSUME NEW t \in Threads, NEW i \in Instances, NEW j \in Jobs, Fire(t, i, j) PROVE JobInv'
    <2> DEFINE c == [kind |-> "scheduled", inst |-> i, job |-> j]
    <2>1. /\ ~Works(t) /\ job[j] = "none" /\ job' = [job EXCEPT ![j] = "queued"] /\ UNCHANGED <<inbox, up>>
          /\ cmd' = [cmd EXCEPT ![t] = c] /\ Goto(t, "ilock")
        BY <1>6 DEF Fire, Idle, Mark, Works
    <2>2. c \in Command /\ c.job = j /\ c.kind = "scheduled"
        BY DEF Command, Kinds, BackupKinds
    <2> HIDE DEF c
    <2>3. pc'[t] = "ilock" /\ cmd'[t] = c /\ \A u \in Threads : u # t => pc'[u] = pc[u] /\ cmd'[u] = cmd[u]
        BY <1>1, <2>1 DEF Goto
    <2>4. job' \in [Jobs -> Status] /\ job'[j] = "queued" /\ \A x \in Jobs : x # j => job'[x] = job[x]
        BY <1>1, <2>1 DEF Status
    <2>5. (\A u \in Threads : Works(u) => cmd[u].job # j) /\ \A d \in inbox : d.job # j
        BY <2>1 DEF JobInv, OwnerInv
    <2> QED BY <2>1, <2>2, <2>3, <2>4, <2>5, TakeUp DEF Terminal
<1>7. ASSUME NEW t \in Threads, NEW c \in Threads, NEW i \in Instances, StartSweepItem(t, c, i) PROVE JobInv'
    <2> DEFINE k == [kind |-> "sweep_item", inst |-> i, job |-> cmd[t].job]
    <2>1. /\ pc[t] = "sweep" /\ c \in SweepPool /\ ~Works(c) /\ cmd' = [cmd EXCEPT ![c] = k] /\ Goto(c, "ilock")
          /\ UNCHANGED <<job, stranded, inbox, up>>
        BY <1>7 DEF StartSweepItem, Idle, Works
    <2>2. Works(t) /\ cmd[t] \in Command /\ cmd[t].job \in Jobs /\ job[cmd[t].job] # "none" /\ cmd[t].kind = "run_backup_all"
        BY <2>1 DEF Works, JobInv, OwnerInv, Command
    <2>3. k \in Command /\ k.job = cmd[t].job /\ k.kind = "sweep_item"
        BY <2>2 DEF Command, Kinds, BackupKinds
    <2> HIDE DEF k
    <2>4. pc'[c] = "ilock" /\ cmd'[c] = k /\ \A u \in Threads : u # c => pc'[u] = pc[u] /\ cmd'[u] = cmd[u]
        BY <1>1, <2>1 DEF Goto
    <2>5. (\A u \in Threads : Works(u) /\ cmd[u].job = k.job => cmd[u].kind \in Shared) /\ \A d \in inbox : d.job # k.job
        BY <2>2, <2>3 DEF JobInv, OwnerInv, Shared
    <2>6. k.kind \in Shared /\ job' \in [Jobs -> Status]
        BY <1>1, <2>1, <2>3 DEF Shared
    <2> QED BY <2>1, <2>2, <2>3, <2>4, <2>5, <2>6, TakeUp
<1>8. ASSUME NEW t \in Threads, Step(t) PROVE JobInv'
    <2>1. CASE \E c \in Threads, i \in Instances : StartSweepItem(t, c, i)
        BY <1>7, <2>1
    <2>2. CASE ~(\E c \in Threads, i \in Instances : StartSweepItem(t, c, i))
        BY <1>8, <2>2, OwnActions, OwnStep
    <2> QED BY <2>1, <2>2
<1>9. ASSUME NEW p \in Procs, Boot(p) PROVE JobInv'
    <2>1. /\ UNCHANGED <<pc, cmd, inbox>> /\ MaxCrashes # 0
          /\ job' = [j \in Jobs |-> IF Open(j) THEN "failure" ELSE job[j]]
        BY <1>9 DEF Boot, JobInv, OpenInv
    <2>2. /\ job' \in [Jobs -> Status]
          /\ \A j \in Jobs : job[j] # "none" => job'[j] # "none"
          /\ \A j \in Jobs : job[j] \in {"queued", "failure"} => job'[j] \in {"queued", "failure"}
        BY <1>1, <2>1 DEF Status, Open
    <2> QED BY <2>1, <2>2, NobodyMoves
<1> QED BY <1>2, <1>4, <1>5, <1>6, <1>8, <1>9, DispatchJob, CrashJob DEF Next, Receive

\* Jobs and their owners are right throughout.
LEMMA JobInvariance == Spec => []JobInv
<1>1. Init => JobInv
    BY DEF Init, JobInv, OwnerInv, OpenInv, BlockedIsNotRunning, Works, Over
<1>2. IInv /\ JobInv /\ [Next]_vars => JobInv'
    <2> SUFFICES ASSUME IInv, JobInv, [Next]_vars PROVE JobInv'
        OBVIOUS
    <2>1. CASE UNCHANGED vars
        BY <2>1 DEF vars, JobInv, OwnerInv, OpenInv, BlockedIsNotRunning, Works
    <2> QED BY <2>1, JobStep
<1> QED BY <1>1, <1>2, Invariance, PTL DEF Spec

\* A backup that waits for a lock does not show as running (the comment at 329-338 of
\* backup_manager.py): for any number of processes, threads and crashes.
THEOREM WaitingIsQueued == Spec => []BlockedIsNotRunning
<1>1. JobInv => BlockedIsNotRunning
    BY DEF JobInv
<1> QED BY <1>1, JobInvariance, PTL

\* While no worker dies a settled job stays as it is (_dispatch, _fail_orphaned_job),
\* but for the one the items of a sweep share, and for the success that its own
\* backup turns into a failure because BackupFinished could not be published. A worker that boots is another matter:
\* it fails jobs whose commands are still on their way, which then run.
THEOREM SettledStays == MaxCrashes = 0 => (Spec => SettledStaysSettled)
<1> SUFFICES ASSUME MaxCrashes = 0 PROVE Spec => SettledStaysSettled
    OBVIOUS
<1> DEFINE Unpublished(j) == /\ job[j] = "success" /\ job'[j] = "failure"
                             /\ \E t \in Threads : pc[t] = "fail" /\ cmd[t] # None /\ cmd[t].job = j
           Keep == \A j \in Jobs :
                       job[j] \in Terminal /\ job'[j] # job[j] =>
                           \/ \E c \in SweepPool : SweepItem(c, j)
                           \/ /\ job[j] = "success" /\ job'[j] = "failure"
                              /\ \E t \in Threads : pc[t] = "fail" /\ cmd[t] # None /\ cmd[t].job = j
<1>1. ASSUME IInv, JobInv, [Next]_vars PROVE Keep
    <2> USE DEF locks, env
    <2> SUFFICES ASSUME NEW j \in Jobs, job[j] \in Terminal, job'[j] # job[j]
                 PROVE  (\E c \in SweepPool : SweepItem(c, j)) \/ Unpublished(j)
        OBVIOUS
    <2>1. job \in [Jobs -> Status] /\ up = Procs
        BY <1>1 DEF IInv, TypeOK, JobInv, OpenInv
    <2>2. PICK t \in Threads : Step(t)
        <3>1. ASSUME NEW t \in Threads, NEW c \in inbox, Dispatch(t, c) PROVE FALSE
            <4>1. c.job \in Jobs /\ job[c.job] = "queued"
                BY <1>1 DEF IInv, TypeOK, Command, JobInv, OpenInv
            <4>2. UNCHANGED <<job, stranded>> \/ FailOrphan(c.job) \/ Mark(c.job, "running") \/ Mark(c.job, "failure")
                BY <3>1 DEF Dispatch, DispatchSingle, DispatchReencryptAll, DispatchSweep, DispatchRetrieve,
                            DispatchInvalid, DispatchUnknown
            <4> QED BY <2>1, <4>1, <4>2 DEF FailOrphan, Open, Mark, Terminal
        <3>2. ASSUME NEW k \in Requests, NEW i \in Instances \cup {None}, NEW x \in Jobs, Submit(k, i, x) PROVE FALSE
            BY <2>1, <3>2 DEF Submit, Mark, Terminal
        <3>3. ASSUME NEW t \in Threads, NEW i \in Instances, NEW x \in Jobs, Fire(t, i, x) PROVE FALSE
            BY <2>1, <3>3 DEF Fire, Mark, Terminal
        <3>4. ASSUME NEW p \in Procs, Crash(p) \/ Boot(p) PROVE FALSE
            BY <2>1, <3>4 DEF Crash, Boot
        <3>5. ~Quiescent /\ \A i \in Instances : ~EnableEncryption(i)
            BY DEF Quiescent, vars, EnableEncryption
        <3> QED BY <1>1, <3>1, <3>2, <3>3, <3>4, <3>5 DEF Next, Receive, vars
    <2>3. ~(\E c \in Threads, i \in Instances : StartSweepItem(t, c, i))
        BY DEF StartSweepItem
    <2>4. Works(t) /\ Own(t)
        BY <1>1, <2>2, <2>3, OwnActions
    <2>5. j = cmd[t].job
        BY <2>4 DEF Own
    <2>0. cmd[t] \in Command /\ cmd[t] # None
        BY <1>1, <2>4, ConstantsAssumption DEF JobInv, OwnerInv
    <2>8. CASE Fail(t)
        <3>1. Mark(j, "failure") \/ FailOrphan(j) \/ UNCHANGED job
            BY <2>5, <2>8 DEF Fail, Escape
        <3>2. job[j] = "success" /\ job'[j] = "failure"
            BY <2>1, <3>1 DEF Mark, FailOrphan, Open, Terminal
        <3> QED BY <2>0, <2>5, <2>8, <3>2 DEF Fail
    <2>6. ASSUME ~Fail(t) PROVE cmd[t].kind = "sweep_item"
        <3>1. ASSUME cmd[t].kind \notin Shared PROVE FALSE
            <4>1. pc[t] \in Over
                BY <1>1, <2>5, <3>1 DEF JobInv, OpenInv
            <4>2. UNCHANGED job
                BY <2>2, <2>4, <2>6, <4>1 DEF Works, Over, Step, AcquireInstanceLock, AcquireNextLock, AllLocksTaken,
                   AcquireFlock, AcquireHost, ReleaseFlock, ReleaseInstanceLocks, Snapshot, MarkRunning, Unwind,
                   Caught, Network, Save, Announce, PlanRewrite, Rewrite, TestSnapshot, Probe, Fetch, Settle,
                   FinishSweep, StartSweepItem
            <4> QED BY <4>2
        <3>2. ASSUME cmd[t].kind = "run_backup_all" PROVE FALSE
            <4>1. pc[t] = "sweep"
                BY <1>1, <2>4, <3>2 DEF JobInv, OwnerInv
            <4>2. FinishSweep(t)
                BY <2>2, <2>3, <4>1 DEF Step, AcquireInstanceLock, AcquireNextLock, AllLocksTaken,
                   AcquireFlock, AcquireHost, ReleaseFlock, ReleaseInstanceLocks, Snapshot, MarkRunning, Unwind,
                   Caught, Network, Save, Announce, Fail, PlanRewrite, Rewrite, TestSnapshot, Probe, Fetch, Settle
            <4>3. UNCHANGED <<job, stranded>> \/ FailOrphan(cmd[t].job)
                BY <3>2, <4>2 DEF FinishSweep, Escape
            <4> QED BY <2>1, <2>5, <4>3 DEF FailOrphan, Open, Terminal
        <3> QED BY <3>1, <3>2 DEF Shared
    <2>7. CASE ~Fail(t)
        <3>1. t \in SweepPool
            BY <1>1, <2>4, <2>6, <2>7 DEF JobInv, OwnerInv
        <3> QED BY <2>0, <2>5, <2>6, <2>7, <3>1 DEF SweepItem
    <2> QED BY <2>7, <2>8
<1>2. Spec => [][Keep]_vars
    BY <1>1, Invariance, JobInvariance, PTL DEF Spec
<1> QED BY <1>2 DEF SettledStaysSettled

=============================================================================
