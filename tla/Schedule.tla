------------------------------ MODULE Schedule ------------------------------
(***************************************************************************)
(* Cron schedules and the watch over them.  The web edits instance rows    *)
(* and the default time zone and asks the worker to reload; handler        *)
(* threads of the worker read the rows and change the scheduler's job      *)
(* table; jobs fire backups; the staleness pass alerts when an instance    *)
(* with a schedule has had no successful backup for too long, and a        *)
(* successful backup clears the alert.                                     *)
(*                                                                         *)
(* Time is hours since an event, kept up to the limit that matters.        *)
(***************************************************************************)
EXTENDS Naturals, Sequences

CONSTANTS
    Instances,   \* instance ids (SQLite gives a deleted one to the next row)
    Crons,       \* cron expressions the web accepts
    OddCrons,    \* those of them APScheduler refuses (aliases, six fields)
    Zones,       \* time zones
    Edits,       \* schedules an edit may set
    Threads,     \* the listener's handler threads
    Threshold,   \* hours of silence that are no alarm yet
    Renotify,    \* RENOTIFY_HOURS
    AtBoot,      \* the rows the database holds when the worker first boots
    Budgets,     \* bounds: how many edits, stops, hours and backups a behaviour has
    None

Row == [enabled: BOOLEAN, cron: Crons \cup {None}, tz: Zones \cup {None}]
Job == Crons \X Zones
All == "all"
Targets == Instances \cup {All}
\* What the world does to the worker and its rows.
Events == {"edit", "stop", "hour", "backup"}
Loaders == Threads \cup {"main"}

ASSUME ScheduleAssumption ==
    /\ OddCrons \subseteq Crons /\ Edits \subseteq Row
    /\ Threshold \in Nat /\ Renotify \in Nat \ {0}
    /\ AtBoot \in [Instances -> Row \cup {None}]
    /\ Budgets \subseteq [Events -> Nat]
    /\ "main" \notin Threads /\ All \notin Instances
    /\ None \notin Crons \cup Zones \cup Targets \cup Nat
    /\ None \notin [Instances -> Row \cup {None}]

VARIABLES
    inst,     \* Instance rows: schedule
    stamp,    \* Instance rows: hours since stale_notified_at
    age,      \* hours since the newest successful backup, or the row's creation
    zone,     \* BackupSettings.default_timezone
    queue,    \* reload commands on their way
    jobs,     \* the scheduler's job table
    hand,     \* the reload each thread works on; "main" is the boot
    up,       \* the worker listens
    run,      \* the backup of each instance
    pass,     \* the staleness pass
    alert,    \* hours since the last alert for the instance was sent
    crossed,  \* instances with reloads that overlapped, since a reload was alone
    missed,   \* instances with a reload that was lost, or raised half-way
    unsent,   \* instances whose last alert could not be sent: send_stale raised
    forgot,   \* instances whose last alert the row does not know of (a success, a
              \* new row under the id, a pass that did not commit)
    left      \* the events left of the behaviour's budget

rowVars == <<inst, stamp, age, zone>>
loadVars == <<queue, jobs, hand, up>>
ghosts == <<crossed, missed, left>>
vars == <<rowVars, loadVars, run, pass, alert, unsent, forgot, ghosts>>

Idle == [at |-> "idle", of |-> None, row |-> None, zone |-> None, todo |-> {}]
NoPass == [at |-> "idle", seen |-> {}, todo |-> {}, marks |-> {}]
Seen == [id: Instances, sched: BOOLEAN, due: BOOLEAN]

TypeOK ==
    /\ inst \in [Instances -> Row \cup {None}]
    /\ stamp \in [Instances -> (0..Renotify) \cup {None}]
    /\ age \in [Instances -> 0..(Threshold + 1)]
    /\ zone \in Zones
    /\ queue \in Seq(Targets)
    /\ jobs \in [Instances -> Job \cup {None}]
    /\ hand \in [Loaders -> [at: {"idle", "list", "drop", "read", "apply"}, of: Targets \cup {None},
                             row: [Instances -> Row \cup {None}] \cup {None},
                             zone: Zones \cup {None}, todo: SUBSET Instances]]
    /\ \A t \in Loaders : hand[t].at = "apply" => hand[t].row # None /\ hand[t].zone # None
    /\ up \in BOOLEAN
    /\ run \in [Instances -> {"idle", "running", "clear"}]
    /\ pass \in [at: {"idle", "on"}, seen: SUBSET Seen, todo: SUBSET Instances, marks: SUBSET Instances]
    /\ alert \in [Instances -> (0..Renotify) \cup {None}]
    /\ crossed \subseteq Instances /\ missed \subseteq Instances /\ forgot \subseteq Instances
    /\ unsent \subseteq Instances
    /\ left \in [Events -> Nat]

Init ==
    /\ inst = AtBoot
    /\ stamp = [i \in Instances |-> None]
    /\ age = [i \in Instances |-> 0]
    /\ zone \in Zones
    /\ queue = <<>>
    /\ jobs = [i \in Instances |-> None]
    /\ hand = [t \in Loaders |-> Idle]
    /\ up = FALSE
    /\ run = [i \in Instances |-> "idle"]
    /\ pass = NoPass
    /\ alert = [i \in Instances |-> None]
    /\ crossed = {} /\ missed = {} /\ forgot = {} /\ unsent = {}
    /\ left \in Budgets

Spend(e) == left[e] > 0 /\ left' = [left EXCEPT ![e] = @ - 1]
-----------------------------------------------------------------------------
(* The web: an edit commits, then sends the reload. The socket queues it.  *)

Send(target) == queue' = Append(queue, target)

\* create_instance; a row without a schedule needs no reload.
CreateInstance(i, r) ==
    /\ inst[i] = None
    /\ inst' = [inst EXCEPT ![i] = r]
    /\ stamp' = [stamp EXCEPT ![i] = None]
    /\ age' = [age EXCEPT ![i] = 0]
    /\ IF r.cron = None THEN UNCHANGED queue ELSE Send(i)
    /\ Spend("edit")
    /\ forgot' = forgot \cup {i}
    /\ UNCHANGED <<zone, jobs, hand, up, run, pass, alert, unsent, crossed, missed>>

\* put_schedule, and update_instance when it changes the schedule.
PutSchedule(i, r) ==
    /\ inst[i] # None
    /\ inst' = [inst EXCEPT ![i] = r]
    /\ Send(i)
    /\ Spend("edit")
    /\ UNCHANGED <<stamp, age, zone, jobs, hand, up, run, pass, alert, unsent, forgot, crossed, missed>>

\* delete_instance; the rows of its backups go with it.
DeleteInstance(i) ==
    /\ inst[i] # None
    /\ inst' = [inst EXCEPT ![i] = None]
    /\ stamp' = [stamp EXCEPT ![i] = None]
    /\ Send(i)
    /\ Spend("edit")
    /\ UNCHANGED <<age, zone, jobs, hand, up, run, pass, alert, unsent, forgot, crossed, missed>>

\* put_backup with another default time zone.
PutTimezone(z) ==
    /\ z # zone
    /\ zone' = z
    /\ Send(All)
    /\ Spend("edit")
    /\ UNCHANGED <<inst, stamp, age, jobs, hand, up, run, pass, alert, unsent, forgot, crossed, missed>>
-----------------------------------------------------------------------------
(* The worker: reloads, on the handler threads.                            *)

Concerns(target) == IF target = All THEN Instances ELSE {target}
InHand == UNION {Concerns(hand[t].of) : t \in {u \in Loaders : hand[u].at # "idle"}}

\* _handle_reload_schedule: commands are taken in order, by any free thread.
TakeReload(t) ==
    /\ up /\ queue # <<>> /\ hand[t].at = "idle"
    /\ LET c == Head(queue) IN
       /\ hand' = [hand EXCEPT ![t] = [Idle EXCEPT !.of = c, !.at = IF c = All THEN "list" ELSE "read"]]
       /\ crossed' = (crossed \ Concerns(c)) \cup (Concerns(c) \cap InHand)
       /\ missed' = missed \ Concerns(c)
    /\ queue' = Tail(queue)
    /\ UNCHANGED <<rowVars, jobs, up, run, pass, alert, unsent, forgot, left>>

\* reload_all: the jobs are listed, and removed one by one.
ListJobs(t) ==
    /\ hand[t].at = "list"
    /\ hand' = [hand EXCEPT ![t].at = "drop", ![t].todo = {i \in Instances : jobs[i] # None}]
    /\ UNCHANGED <<rowVars, queue, jobs, up, run, pass, alert, unsent, forgot, ghosts>>

DropJob(t, i) ==
    /\ hand[t].at = "drop" /\ i \in hand[t].todo /\ jobs[i] # None
    /\ jobs' = [jobs EXCEPT ![i] = None]
    /\ hand' = [hand EXCEPT ![t].todo = @ \ {i}]
    /\ UNCHANGED <<rowVars, queue, up, run, pass, alert, unsent, forgot, ghosts>>

\* A job that another reload has removed meanwhile: JobLookupError leaves
\* reload_all, the jobs dropped so far are not loaded again.
DropFails(t, i) ==
    /\ hand[t].at = "drop" /\ i \in hand[t].todo /\ jobs[i] = None
    /\ hand' = [hand EXCEPT ![t] = Idle]
    /\ missed' = Instances
    /\ UNCHANGED <<rowVars, queue, jobs, up, run, pass, alert, unsent, forgot, crossed, left>>

AllDropped(t) ==
    /\ hand[t].at = "drop" /\ hand[t].todo = {}
    /\ hand' = [hand EXCEPT ![t].at = "read"]
    /\ UNCHANGED <<rowVars, queue, jobs, up, run, pass, alert, unsent, forgot, ghosts>>

\* reload_instance reads one row; load_all_jobs every enabled one.
ReadRows(t) ==
    /\ hand[t].at = "read"
    /\ hand' = [hand EXCEPT ![t].at = "apply", ![t].row = inst, ![t].zone = zone,
           ![t].todo = IF hand[t].of = All
                       THEN {i \in Instances : inst[i] # None /\ inst[i].enabled}
                       ELSE {hand[t].of}]
    /\ UNCHANGED <<rowVars, queue, jobs, up, run, pass, alert, unsent, forgot, ghosts>>

ResolveTz(tz, z) == IF tz = None THEN z ELSE tz

\* _add_or_update and _remove: what the job table holds for i after r was read
\* with default zone z. A cron the scheduler refuses leaves the old job.
Loaded(i, r, z) ==
    IF r = None \/ ~r.enabled \/ r.cron = None THEN None
    ELSE IF r.cron \in OddCrons THEN jobs[i]
    ELSE <<r.cron, ResolveTz(r.tz, z)>>

\* Mutant: a schedule that was removed leaves its job.
BugApplyRow(t, i) ==
    /\ hand[t].at = "apply" /\ i \in hand[t].todo
    /\ LET j == Loaded(i, hand[t].row[i], hand[t].zone) IN
       jobs' = IF j = None THEN jobs ELSE [jobs EXCEPT ![i] = j]
    /\ hand' = [hand EXCEPT ![t].todo = @ \ {i}]
    /\ UNCHANGED <<rowVars, queue, up, run, pass, alert, unsent, forgot, ghosts>>

ApplyRow(t, i) ==
    /\ hand[t].at = "apply" /\ i \in hand[t].todo
    /\ jobs' = [jobs EXCEPT ![i] = Loaded(i, hand[t].row[i], hand[t].zone)]
    /\ hand' = [hand EXCEPT ![t].todo = @ \ {i}]
    /\ UNCHANGED <<rowVars, queue, up, run, pass, alert, unsent, forgot, ghosts>>

\* The reload is over; at the end of the boot the listener starts.
EndReload(t) ==
    /\ hand[t].at = "apply" /\ hand[t].todo = {}
    /\ hand' = [hand EXCEPT ![t] = Idle]
    /\ up' = (up \/ t = "main")
    /\ UNCHANGED <<rowVars, queue, jobs, run, pass, alert, unsent, forgot, ghosts>>
-----------------------------------------------------------------------------
(* Backups.                                                                *)

Start(i) ==
    /\ up /\ run[i] = "idle" /\ inst[i] # None
    /\ run' = [run EXCEPT ![i] = "running"]
    /\ Spend("backup")
    /\ UNCHANGED <<rowVars, loadVars, pass, alert, unsent, forgot, crossed, missed>>

\* _fire: a job whose instance is gone or disabled by now is skipped.
Fire(i) == jobs[i] # None /\ inst[i] # None /\ inst[i].enabled /\ Start(i)

\* backup_now and its command; the instance lock admits one backup at a time.
BackupNow(i) == Start(i)

\* The history row is written ...
Succeed(i) ==
    /\ run[i] = "running" /\ inst[i] # None
    /\ age' = [age EXCEPT ![i] = 0]
    /\ run' = [run EXCEPT ![i] = "clear"]
    /\ UNCHANGED <<inst, stamp, zone, loadVars, pass, alert, unsent, forgot, ghosts>>

FailRun(i) ==
    /\ run[i] = "running"
    /\ run' = [run EXCEPT ![i] = "idle"]
    /\ UNCHANGED <<rowVars, loadVars, pass, alert, unsent, forgot, ghosts>>

\* ... and _clear_stale_flag takes the stamp off (and reports the recovery).
ClearStaleFlag(i) ==
    /\ run[i] = "clear"
    /\ stamp' = [stamp EXCEPT ![i] = None]
    /\ run' = [run EXCEPT ![i] = "idle"]
    /\ forgot' = forgot \cup {i}
    /\ UNCHANGED <<inst, age, zone, loadVars, pass, alert, unsent, ghosts>>
-----------------------------------------------------------------------------
(* check_stale_instances, every 15 minutes, one at a time.                 *)

\* Mutant: an instance that was alerted once is never due again.
BugBeginPass ==
    /\ up /\ pass.at = "idle"
    /\ \E i \in Instances : inst[i] # None
    /\ LET rows == {i \in Instances : inst[i] # None} IN
       pass' = [at |-> "on", todo |-> rows, marks |-> {},
                seen |-> {[id |-> i, sched |-> inst[i].enabled /\ inst[i].cron # None,
                           due |-> stamp[i] = None] : i \in rows}]
    /\ UNCHANGED <<rowVars, loadVars, run, alert, unsent, forgot, ghosts>>

\* The rows are loaded, stamps and all ...
BeginPass ==
    /\ up /\ pass.at = "idle"
    /\ \E i \in Instances : inst[i] # None
    /\ LET rows == {i \in Instances : inst[i] # None} IN
       pass' = [at |-> "on", todo |-> rows, marks |-> {},
                seen |-> {[id |-> i, sched |-> inst[i].enabled /\ inst[i].cron # None,
                           due |-> stamp[i] \in {None, Renotify}] : i \in rows}]
    /\ UNCHANGED <<rowVars, loadVars, run, alert, unsent, forgot, ghosts>>

IsStale(i) == age[i] > Threshold

\* send_stale: the alert goes out, or the call raises and is caught.
SendStale(i) ==
    \/ /\ alert' = [alert EXCEPT ![i] = 0]
       /\ unsent' = unsent \ {i}
    \/ /\ unsent' = unsent \cup {i}
       /\ UNCHANGED alert

\* Mutant: the stamp is ignored, every pass alerts.
BugCheckInstance(i) ==
    /\ pass.at = "on" /\ i \in pass.todo
    /\ IF (\E s \in pass.seen : s.id = i /\ s.sched) /\ IsStale(i)
       THEN /\ SendStale(i)
            /\ pass' = [pass EXCEPT !.todo = @ \ {i}, !.marks = @ \cup {i}]
       ELSE pass' = [pass EXCEPT !.todo = @ \ {i}] /\ UNCHANGED <<alert, unsent>>
    /\ UNCHANGED <<rowVars, loadVars, run, forgot, ghosts>>

\* ... and gone through: the newest success is looked up now, the alert is sent
\* or fails, and in both cases the stamp waits for the commit.
CheckInstance(i) ==
    /\ pass.at = "on" /\ i \in pass.todo
    /\ IF [id |-> i, sched |-> TRUE, due |-> TRUE] \in pass.seen /\ IsStale(i)
       THEN /\ SendStale(i)
            /\ pass' = [pass EXCEPT !.todo = @ \ {i}, !.marks = @ \cup {i}]
       ELSE pass' = [pass EXCEPT !.todo = @ \ {i}] /\ UNCHANGED <<alert, unsent>>
    /\ UNCHANGED <<rowVars, loadVars, run, forgot, ghosts>>

\* One commit for all stamps. It fails as a whole if a stamped row is gone.
CommitPass ==
    /\ pass.at = "on" /\ pass.todo = {}
    /\ IF \E i \in pass.marks : inst[i] = None
       THEN forgot' = forgot \cup pass.marks /\ UNCHANGED stamp
       ELSE /\ stamp' = [i \in Instances |-> IF i \in pass.marks THEN 0 ELSE stamp[i]]
            /\ forgot' = forgot \ pass.marks
    /\ pass' = NoPass
    /\ UNCHANGED <<inst, age, zone, loadVars, run, alert, unsent, ghosts>>
-----------------------------------------------------------------------------
(* Time and faults.                                                        *)

Older(a, most) == IF a = None THEN None ELSE IF a < most THEN a + 1 ELSE most

\* An hour goes by. (A pass is shorter than that.)
Tick ==
    /\ pass.at = "idle"
    /\ age' = [i \in Instances |-> Older(age[i], Threshold + 1)]
    /\ stamp' = [i \in Instances |-> Older(stamp[i], Renotify)]
    /\ alert' = [i \in Instances |-> Older(alert[i], Renotify)]
    /\ <<age', stamp', alert'>> # <<age, stamp, alert>>
    /\ Spend("hour")
    /\ UNCHANGED <<inst, zone, loadVars, run, pass, unsent, forgot, crossed, missed>>

\* The worker dies; what it had taken from the socket is lost, the job table too.
Crash ==
    /\ up
    /\ Spend("stop")
    /\ up' = FALSE
    /\ jobs' = [i \in Instances |-> None]
    /\ hand' = [t \in Loaders |-> Idle]
    /\ run' = [i \in Instances |-> "idle"]
    /\ pass' = NoPass
    /\ forgot' = forgot \cup pass.marks
    /\ UNCHANGED <<rowVars, queue, alert, unsent, crossed, missed>>

\* Scheduler.start loads every job before the listener starts.
Boot ==
    /\ ~up /\ hand["main"].at = "idle"
    /\ hand' = [hand EXCEPT !["main"] = [Idle EXCEPT !.of = All, !.at = "read"]]
    /\ crossed' = {} /\ missed' = {}
    /\ UNCHANGED <<rowVars, queue, jobs, up, run, pass, alert, unsent, forgot, left>>

\* The web stops; commands still in its socket are dropped (LINGER 0).
WebStops ==
    /\ queue # <<>>
    /\ Spend("stop")
    /\ missed' = missed \cup UNION {Concerns(queue[k]) : k \in 1..Len(queue)}
    /\ queue' = <<>>
    /\ UNCHANGED <<rowVars, jobs, hand, up, run, pass, alert, unsent, forgot, crossed>>

Load(t) ==
    \/ ListJobs(t) \/ AllDropped(t) \/ ReadRows(t) \/ EndReload(t)
    \/ \E i \in Instances : DropJob(t, i) \/ DropFails(t, i) \/ ApplyRow(t, i)

Watch == BeginPass \/ CommitPass \/ \E i \in Instances : CheckInstance(i)

Next ==
    \/ \E i \in Instances, r \in Edits : CreateInstance(i, r) \/ PutSchedule(i, r)
    \/ \E i \in Instances : DeleteInstance(i)
    \/ \E z \in Zones : PutTimezone(z)
    \/ \E t \in Threads : TakeReload(t)
    \/ \E t \in Loaders : Load(t)
    \/ \E i \in Instances : Fire(i) \/ BackupNow(i) \/ Succeed(i) \/ FailRun(i) \/ ClearStaleFlag(i)
    \/ Watch
    \/ Tick \/ Crash \/ Boot \/ WebStops

Spec == Init /\ [][Next]_vars

\* The container is restarted, the boot goes on, and the interval job keeps
\* running passes to their end. Nothing is assumed of reloads, backups or time.
FairSpec == Spec /\ WF_vars(Boot) /\ WF_vars(Load("main")) /\ WF_vars(Watch)
-----------------------------------------------------------------------------
(* Properties.                                                             *)

Settled(i) ==
    /\ up /\ i \notin InHand
    /\ \A k \in 1..Len(queue) : i \notin Concerns(queue[k])

\* Once no reload is under way, the scheduler's job is what the row says, with the
\* default zone of now (reload_instance, reload_all, load_all_jobs); unless two
\* reloads overlapped, a reload was lost or raised half-way (a reload_all that
\* does concerns every instance), or the scheduler refuses the cron. A cron it
\* refuses leaves the other instances alone.
ScheduleMatches ==
    \A i \in Instances :
        /\ Settled(i) /\ i \notin crossed \cup missed
        /\ inst[i] # None => inst[i].cron \notin OddCrons
        => jobs[i] = Loaded(i, inst[i], zone)

\* A stamp that suppresses alerts is backed by an alert no older than itself,
\* however a pass, a finishing backup and edits interleave, unless the last
\* attempt to send one raised (check_stale_instances, 133-144).
StampHasAlert ==
    \A i \in Instances :
        stamp[i] # None /\ i \notin unsent => alert[i] # None /\ alert[i] <= stamp[i]

\* models.py: "re-alert only after 24h". An alert repeats a younger one only when
\* a success came in between, the row is a new one, or the pass that sent the
\* first did not commit.
AlertsSpaced ==
    [][\A i \in Instances :
          (pass.at = "on" /\ i \in pass'.marks \ pass.marks)
              => alert[i] \in {None, Renotify} \/ i \in forgot]_vars

Scheduled(i) == inst[i] # None /\ inst[i].enabled /\ inst[i].cron # None
Recent(a) == a \notin {None, Renotify}

\* No enabled instance with a schedule goes quiet unnoticed, whatever happens to
\* its job: when it is stale, an alert not older than RENOTIFY_HOURS exists or
\* follows. Only an alert whose sending raised may be missing, and it holds the
\* next attempt back no longer than the stamp it left is recent.
NeverQuiet ==
    \A i \in Instances :
        (Scheduled(i) /\ IsStale(i) /\ ~Recent(alert[i]))
        ~> \/ ~Scheduled(i) \/ ~IsStale(i) \/ Recent(alert[i])
           \/ i \in unsent /\ Recent(stamp[i])

=============================================================================
