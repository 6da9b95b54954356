--------------------------- MODULE ScheduleProof ---------------------------
(***************************************************************************)
(* Type correctness of Schedule; the two promises of the staleness pass    *)
(* that do not depend on fairness: alerts are spaced, and a stamp that     *)
(* holds alerts back is backed by an alert; and what the table of          *)
(* scheduled jobs owes to the rows once the reloads are over. For any      *)
(* number of instances, threads, edits and stops.                          *)
(***************************************************************************)
EXTENDS Schedule, TLAPS

\* A pass that is not on holds nothing; what it has marked it has just alerted,
\* or failed to.
MarkInv ==
    /\ pass.at = "idle" => pass.marks = {}
    /\ \A i \in pass.marks : alert[i] = 0 \/ i \in unsent

\* Unless the row has forgotten an alert, its stamp is no older than the alert (it
\* is younger when the last alert could not be sent).
StampInv ==
    \A i \in Instances : inst[i] # None /\ i \notin forgot /\ i \notin pass.marks =>
        alert[i] = None \/ (stamp[i] # None /\ stamp[i] <= alert[i])

\* What the pass has read as due still is, until it comes to the instance.
DueInv ==
    pass.at = "on" =>
        \A i \in pass.todo : [id |-> i, sched |-> TRUE, due |-> TRUE] \in pass.seen =>
            alert[i] \in {None, Renotify} \/ i \in forgot

\* The loaders' reloads: one that is under way has its instance, or is for all.
Reload == [at: {"idle", "list", "drop", "read", "apply"}, of: Targets \cup {None},
           row: [Instances -> Row \cup {None}] \cup {None},
           zone: Zones \cup {None}, todo: SUBSET Instances]
Ready(h) ==
    /\ h.at # "idle" => h.of \in Targets
    /\ h.at = "apply" => h.row # None /\ h.zone # None
HandOK == hand \in [Loaders -> Reload] /\ \A t \in Loaders : Ready(hand[t])

SInv == TypeOK /\ HandOK /\ MarkInv /\ StampInv /\ DueInv /\ StampHasAlert

-----------------------------------------------------------------------------
\* A loader that takes up another reload.
LEMMA HandStep ==
    ASSUME HandOK, NEW t \in Loaders, NEW h \in Reload, Ready(h), hand' = [hand EXCEPT ![t] = h]
    PROVE  HandOK'
BY DEF HandOK

\* Steps that leave them alone.
LEMMA HandSame == HandOK /\ UNCHANGED hand => HandOK'
BY DEF HandOK

\* What a reload leaves in the job table is a job or nothing.
LEMMA LoadedType ==
    ASSUME TypeOK, NEW i \in Instances, NEW r \in Row \cup {None}, NEW z \in Zones
    PROVE  Loaded(i, r, z) \in Job \cup {None}
BY DEF TypeOK, Loaded, ResolveTz, Row, Job

\* Getting older keeps an age within its limit.
LEMMA OlderType ==
    ASSUME NEW most \in Nat, NEW a \in (0..most) \cup {None}
    PROVE  /\ Older(a, most) \in (0..most) \cup {None}
           /\ a # None => Older(a, most) # None /\ Older(a, most) \in 0..most
           /\ \A b \in 0..most : a # None /\ a <= b => Older(a, most) <= Older(b, most)
BY ScheduleAssumption DEF Older

\* What is left of the budget stays a number.
LEMMA SpendType ==
    ASSUME TypeOK, NEW e \in Events, Spend(e)
    PROVE  left' \in [Events -> Nat]
BY DEF TypeOK, Spend

\* What the pass keeps of a row.
LEMMA SeenType ==
    ASSUME NEW i \in Instances, NEW b \in BOOLEAN, NEW c \in BOOLEAN
    PROVE  [id |-> i, sched |-> b, due |-> c] \in Seen
BY DEF Seen

-----------------------------------------------------------------------------
\* The initial state.
LEMMA SInit == Init => SInv
<1> SUFFICES ASSUME Init PROVE SInv
    OBVIOUS
<1> USE ScheduleAssumption DEF Init
<1>1. TypeOK
    <2>1. left \in [Events -> Nat] /\ inst \in [Instances -> Row \cup {None}] /\ queue \in Seq(Targets)
        OBVIOUS
    <2>2. stamp \in [Instances -> (0..Renotify) \cup {None}] /\ alert \in [Instances -> (0..Renotify) \cup {None}]
        OBVIOUS
    <2>3. age \in [Instances -> 0..(Threshold + 1)]
        OBVIOUS
    <2>4. pass \in [at: {"idle", "on"}, seen: SUBSET Seen, todo: SUBSET Instances, marks: SUBSET Instances]
        BY DEF NoPass
    <2>5. \A t \in Loaders : hand[t].at # "apply"
        BY DEF Idle
    <2> QED BY <2>1, <2>2, <2>3, <2>4, <2>5 DEF TypeOK, Idle
<1>2. HandOK
    BY DEF HandOK, Reload, Ready, Idle
<1>3. MarkInv /\ StampInv /\ DueInv /\ StampHasAlert
    BY DEF MarkInv, StampInv, DueInv, StampHasAlert, NoPass
<1> QED BY <1>1, <1>2, <1>3 DEF SInv

\* Edits in the web.
LEMMA SEdit ==
    ASSUME SInv,
           \/ \E i \in Instances, r \in Edits : CreateInstance(i, r) \/ PutSchedule(i, r)
           \/ \E i \in Instances : DeleteInstance(i)
           \/ \E z \in Zones : PutTimezone(z)
    PROVE  SInv'
<1> USE ScheduleAssumption DEF SInv, Send, Targets
<1>0. ASSUME Spend("edit") PROVE left' \in [Events -> Nat]
    BY <1>0, SpendType DEF Events
<1>1. ASSUME NEW i \in Instances, NEW r \in Edits, CreateInstance(i, r) PROVE SInv'
    <2> USE <1>1 DEF CreateInstance
    <2>1. TypeOK'
        <3>1. queue' \in Seq(Targets)
            <4>1. queue \in Seq(Targets) /\ i \in Targets
                BY DEF TypeOK
            <4>2. CASE r.cron = None
                BY <4>1, <4>2
            <4>3. CASE r.cron # None
                <5>1. queue' = Append(queue, i)
                    BY <4>3
                <5> QED BY <4>1, <5>1
            <4> QED BY <4>2, <4>3
        <3>2. inst' \in [Instances -> Row \cup {None}]
            BY DEF TypeOK
        <3> QED BY <1>0, <3>1, <3>2 DEF TypeOK
    <2>2. MarkInv' /\ StampInv' /\ DueInv' /\ StampHasAlert'
        BY DEF TypeOK, MarkInv, StampInv, DueInv, StampHasAlert
    <2> QED BY HandSame, <2>1, <2>2
<1>2. ASSUME NEW i \in Instances, NEW r \in Edits, PutSchedule(i, r) PROVE SInv'
    <2> USE <1>2 DEF PutSchedule
    <2>1. TypeOK'
        BY <1>0 DEF TypeOK
    <2>2. MarkInv' /\ StampInv' /\ DueInv' /\ StampHasAlert'
        BY DEF TypeOK, MarkInv, StampInv, DueInv, StampHasAlert
    <2> QED BY HandSame, <2>1, <2>2
<1>3. ASSUME NEW i \in Instances, DeleteInstance(i) PROVE SInv'
    <2> USE <1>3 DEF DeleteInstance
    <2>1. TypeOK'
        BY <1>0 DEF TypeOK
    <2>2. MarkInv' /\ StampInv' /\ DueInv' /\ StampHasAlert'
        BY DEF TypeOK, MarkInv, StampInv, DueInv, StampHasAlert
    <2> QED BY HandSame, <2>1, <2>2
<1>4. ASSUME NEW z \in Zones, PutTimezone(z) PROVE SInv'
    <2> USE <1>4 DEF PutTimezone
    <2>1. TypeOK'
        BY <1>0 DEF TypeOK
    <2>2. MarkInv' /\ StampInv' /\ DueInv' /\ StampHasAlert'
        BY DEF MarkInv, StampInv, DueInv, StampHasAlert
    <2> QED BY HandSame, <2>1, <2>2
<1> QED BY <1>1, <1>2, <1>3, <1>4

\* Reloads change the job table and what the loaders hold.
LEMMA SLoad ==
    ASSUME SInv, (\E t \in Threads : TakeReload(t)) \/ (\E t \in Loaders : Load(t)) \/ Boot
    PROVE  SInv'
<1> USE ScheduleAssumption DEF SInv, rowVars, ghosts
<1>1. ASSUME NEW t \in Threads, TakeReload(t) PROVE SInv'
    <2> USE <1>1 DEF TakeReload
    <2>1. queue' \in Seq(Targets) /\ Head(queue) \in Targets
        BY DEF TypeOK
    <2>2. HandOK'
        BY <2>1 DEF TypeOK, HandOK, Reload, Ready, Idle, Loaders
    <2>3. Concerns(Head(queue)) \subseteq Instances
        BY <2>1 DEF Concerns, Targets
    <2>4. crossed' \subseteq Instances /\ missed' \subseteq Instances
        BY <2>3 DEF TypeOK
    <2>5. TypeOK'
        BY <2>1, <2>2, <2>4 DEF TypeOK, HandOK, Reload, Ready
    <2>6. MarkInv' /\ StampInv' /\ DueInv' /\ StampHasAlert'
        BY DEF MarkInv, StampInv, DueInv, StampHasAlert
    <2> QED BY <2>2, <2>5, <2>6
<1>2. ASSUME NEW t \in Loaders, ListJobs(t) PROVE SInv'
    <2> USE <1>2 DEF ListJobs
    <2>1. HandOK'
        <3> DEFINE h == [hand[t] EXCEPT !.at = "drop", !.todo = {i \in Instances : jobs[i] # None}]
        <3>1. hand[t] \in Reload /\ Ready(hand[t])
            BY DEF HandOK
        <3>2. h \in Reload /\ Ready(h)
            BY <3>1 DEF Reload, Ready, Idle
        <3>3. hand' = [hand EXCEPT ![t] = h]
            OBVIOUS
        <3> HIDE DEF h
        <3> QED BY <3>2, <3>3, HandStep
    <2>2. TypeOK'
        BY <2>1 DEF TypeOK, HandOK, Reload, Ready
    <2>3. MarkInv' /\ StampInv' /\ DueInv' /\ StampHasAlert'
        BY DEF MarkInv, StampInv, DueInv, StampHasAlert
    <2> QED BY <2>1, <2>2, <2>3
<1>7. ASSUME NEW t \in Loaders, NEW i \in Instances, DropJob(t, i) PROVE SInv'
    <2> USE <1>7 DEF DropJob
    <2>1. HandOK'
        <3> DEFINE h == [hand[t] EXCEPT !.todo = @ \ {i}]
        <3>1. hand[t] \in Reload /\ Ready(hand[t])
            BY DEF HandOK
        <3>2. h \in Reload /\ Ready(h)
            BY <3>1 DEF Reload, Ready, Idle
        <3>3. hand' = [hand EXCEPT ![t] = h]
            OBVIOUS
        <3> HIDE DEF h
        <3> QED BY <3>2, <3>3, HandStep
    <2>2. TypeOK'
        BY <2>1 DEF TypeOK, HandOK, Reload, Ready
    <2>3. MarkInv' /\ StampInv' /\ DueInv' /\ StampHasAlert'
        BY DEF MarkInv, StampInv, DueInv, StampHasAlert
    <2> QED BY <2>1, <2>2, <2>3
<1>8. ASSUME NEW t \in Loaders, NEW i \in Instances, DropFails(t, i) PROVE SInv'
    <2> USE <1>8 DEF DropFails
    <2>1. HandOK'
        <3> DEFINE h == Idle
        <3>1. hand[t] \in Reload /\ Ready(hand[t])
            BY DEF HandOK
        <3>2. h \in Reload /\ Ready(h)
            BY <3>1 DEF Reload, Ready, Idle
        <3>3. hand' = [hand EXCEPT ![t] = h]
            OBVIOUS
        <3> HIDE DEF h
        <3> QED BY <3>2, <3>3, HandStep
    <2>2. TypeOK'
        BY <2>1 DEF TypeOK, HandOK, Reload, Ready
    <2>3. MarkInv' /\ StampInv' /\ DueInv' /\ StampHasAlert'
        BY DEF MarkInv, StampInv, DueInv, StampHasAlert
    <2> QED BY <2>1, <2>2, <2>3
<1>9. ASSUME NEW t \in Loaders, AllDropped(t) PROVE SInv'
    <2> USE <1>9 DEF AllDropped
    <2>1. HandOK'
        <3> DEFINE h == [hand[t] EXCEPT !.at = "read"]
        <3>1. hand[t] \in Reload /\ Ready(hand[t])
            BY DEF HandOK
        <3>2. h \in Reload /\ Ready(h)
            BY <3>1 DEF Reload, Ready, Idle
        <3>3. hand' = [hand EXCEPT ![t] = h]
            OBVIOUS
        <3> HIDE DEF h
        <3> QED BY <3>2, <3>3, HandStep
    <2>2. TypeOK'
        BY <2>1 DEF TypeOK, HandOK, Reload, Ready
    <2>3. MarkInv' /\ StampInv' /\ DueInv' /\ StampHasAlert'
        BY DEF MarkInv, StampInv, DueInv, StampHasAlert
    <2> QED BY <2>1, <2>2, <2>3
<1>3. ASSUME NEW t \in Loaders, ReadRows(t) PROVE SInv'
    <2> USE <1>3 DEF ReadRows
    <2>1. HandOK'
        <3> DEFINE todo == IF hand[t].of = All THEN {i \in Instances : inst[i] # None /\ inst[i].enabled}
                           ELSE {hand[t].of}
                   h == [hand[t] EXCEPT !.at = "apply", !.row = inst, !.zone = zone, !.todo = todo]
        <3>1. hand[t] \in Reload /\ Ready(hand[t])
            BY DEF HandOK
        <3>2. todo \in SUBSET Instances
            BY <3>1 DEF Reload, Ready, Targets
        <3>3. inst # None /\ zone # None /\ inst \in [Instances -> Row \cup {None}] /\ zone \in Zones
            BY DEF TypeOK
        <3>4. hand' = [hand EXCEPT ![t] = h]
            OBVIOUS
        <3> HIDE DEF todo
        <3>5. h \in Reload /\ Ready(h)
            BY <3>1, <3>2, <3>3 DEF Reload, Ready
        <3> HIDE DEF h
        <3> QED BY <3>4, <3>5, HandStep
    <2>2. TypeOK'
        BY <2>1 DEF TypeOK, HandOK, Reload, Ready
    <2>3. MarkInv' /\ StampInv' /\ DueInv' /\ StampHasAlert'
        BY DEF MarkInv, StampInv, DueInv, StampHasAlert
    <2> QED BY <2>1, <2>2, <2>3
<1>4. ASSUME NEW t \in Loaders, NEW i \in Instances, ApplyRow(t, i) PROVE SInv'
    <2> USE <1>4 DEF ApplyRow
    <2>1. HandOK'
        <3> DEFINE h == [hand[t] EXCEPT !.todo = @ \ {i}]
        <3>1. hand[t] \in Reload /\ Ready(hand[t])
            BY DEF HandOK
        <3>2. h \in Reload /\ Ready(h)
            BY <3>1 DEF Reload, Ready
        <3>3. hand' = [hand EXCEPT ![t] = h]
            OBVIOUS
        <3> HIDE DEF h
        <3> QED BY <3>2, <3>3, HandStep
    <2>2. hand[t].row[i] \in Row \cup {None} /\ hand[t].zone \in Zones
        BY DEF TypeOK
    <2>3. jobs' \in [Instances -> Job \cup {None}]
        BY <2>2, LoadedType DEF TypeOK
    <2>4. TypeOK'
        BY <2>1, <2>3 DEF TypeOK, HandOK, Reload, Ready
    <2>5. MarkInv' /\ StampInv' /\ DueInv' /\ StampHasAlert'
        BY DEF MarkInv, StampInv, DueInv, StampHasAlert
    <2> QED BY <2>1, <2>4, <2>5
<1>5. ASSUME NEW t \in Loaders, EndReload(t) PROVE SInv'
    <2> USE <1>5 DEF EndReload
    <2>1. HandOK'
        BY DEF HandOK, Reload, Ready, Idle
    <2>2. TypeOK'
        BY <2>1 DEF TypeOK, HandOK, Reload, Ready
    <2>3. MarkInv' /\ StampInv' /\ DueInv' /\ StampHasAlert'
        BY DEF MarkInv, StampInv, DueInv, StampHasAlert
    <2> QED BY <2>1, <2>2, <2>3
<1>6. ASSUME Boot PROVE SInv'
    <2> USE <1>6 DEF Boot
    <2>1. HandOK'
        BY DEF HandOK, Reload, Ready, Idle, Loaders, Targets
    <2>2. TypeOK'
        BY <2>1 DEF TypeOK, HandOK, Reload, Ready
    <2>3. MarkInv' /\ StampInv' /\ DueInv' /\ StampHasAlert'
        BY DEF MarkInv, StampInv, DueInv, StampHasAlert
    <2> QED BY <2>1, <2>2, <2>3
<1> QED BY <1>1, <1>2, <1>3, <1>4, <1>5, <1>6, <1>7, <1>8, <1>9 DEF Load

\* Backups: a success makes the row forget the alerts.
LEMMA SRun ==
    ASSUME SInv, NEW i \in Instances,
           Fire(i) \/ BackupNow(i) \/ Succeed(i) \/ FailRun(i) \/ ClearStaleFlag(i)
    PROVE  SInv'
<1> USE ScheduleAssumption DEF SInv, rowVars, loadVars, ghosts
<1>1. CASE Start(i)
    BY HandSame, SpendType, <1>1 DEF Events, Start, TypeOK, MarkInv, StampInv, DueInv, StampHasAlert
<1>2. CASE Succeed(i)
    BY HandSame, <1>2 DEF Succeed, TypeOK, MarkInv, StampInv, DueInv, StampHasAlert
<1>3. CASE FailRun(i)
    BY HandSame, <1>3 DEF FailRun, TypeOK, MarkInv, StampInv, DueInv, StampHasAlert
<1>4. CASE ClearStaleFlag(i)
    BY HandSame, <1>4 DEF ClearStaleFlag, TypeOK, MarkInv, StampInv, DueInv, StampHasAlert
<1> QED BY <1>1, <1>2, <1>3, <1>4 DEF Fire, BackupNow

\* The staleness pass.
LEMMA SWatch == ASSUME SInv, Watch PROVE SInv'
<1> USE ScheduleAssumption DEF SInv, rowVars, loadVars, ghosts
<1>1. ASSUME BeginPass PROVE SInv'
    <2> USE <1>1 DEF BeginPass
    <2>1. pass' \in [at: {"idle", "on"}, seen: SUBSET Seen, todo: SUBSET Instances, marks: SUBSET Instances]
        <3> DEFINE rows == {i \in Instances : inst[i] # None}
                   sched(i) == inst[i].enabled /\ inst[i].cron # None
                   due(i) == stamp[i] \in {None, Renotify}
                   seen == {[id |-> i, sched |-> sched(i), due |-> due(i)] : i \in rows}
        <3>1. pass' = [at |-> "on", todo |-> rows, marks |-> {}, seen |-> seen]
            OBVIOUS
        <3>2. \A i \in rows : i \in Instances /\ sched(i) \in BOOLEAN /\ due(i) \in BOOLEAN
            OBVIOUS
        <3>3. seen \subseteq Seen
            <4> HIDE DEF sched, due
            <4>1. \A i \in rows : [id |-> i, sched |-> sched(i), due |-> due(i)] \in Seen
                BY <3>2, SeenType
            <4> QED BY <4>1
        <3> HIDE DEF seen
        <3> QED BY <3>1, <3>3
    <2>2. TypeOK'
        BY <2>1 DEF TypeOK
    <2>3. MarkInv' /\ StampInv' /\ StampHasAlert'
        BY DEF MarkInv, StampInv, StampHasAlert
    <2>4. ASSUME NEW i \in pass'.todo, [id |-> i, sched |-> TRUE, due |-> TRUE] \in pass'.seen
          PROVE  alert[i] \in {None, Renotify} \/ i \in forgot
        <3>1. i \in Instances /\ inst[i] # None /\ stamp[i] \in {None, Renotify}
            BY <2>4
        <3> QED BY <3>1 DEF TypeOK, MarkInv, StampInv
    <2>5. DueInv'
        BY <2>4 DEF DueInv
    <2> QED BY HandSame, <2>2, <2>3, <2>5
<1>2. ASSUME NEW i \in Instances, CheckInstance(i) PROVE SInv'
    <2> USE <1>2 DEF CheckInstance
    <2>1. /\ pass'.at = "on" /\ pass'.seen = pass.seen /\ pass'.todo = pass.todo \ {i}
          /\ pass' \in [at: {"idle", "on"}, seen: SUBSET Seen, todo: SUBSET Instances, marks: SUBSET Instances]
        <3>1. CASE [id |-> i, sched |-> TRUE, due |-> TRUE] \in pass.seen /\ IsStale(i)
            <4>1. pass' = [pass EXCEPT !.todo = @ \ {i}, !.marks = @ \cup {i}]
                BY <3>1
            <4> QED BY <4>1 DEF TypeOK
        <3>2. CASE ~([id |-> i, sched |-> TRUE, due |-> TRUE] \in pass.seen /\ IsStale(i))
            <4>1. pass' = [pass EXCEPT !.todo = @ \ {i}]
                BY <3>2, Zenon
            <4> QED BY <4>1 DEF TypeOK
        <3> QED BY <3>1, <3>2
    <2>2. CASE [id |-> i, sched |-> TRUE, due |-> TRUE] \in pass.seen /\ IsStale(i)
        <3>1. SendStale(i) /\ pass'.marks = pass.marks \cup {i}
            BY <2>2 DEF TypeOK
        <3>2. CASE alert' = [alert EXCEPT ![i] = 0] /\ unsent' = unsent \ {i}
            <4>1. TypeOK'
                BY <2>1, <3>1, <3>2 DEF TypeOK
            <4>2. MarkInv' /\ StampInv' /\ StampHasAlert'
                BY <2>1, <3>1, <3>2 DEF TypeOK, MarkInv, StampInv, StampHasAlert
            <4>3. DueInv'
                BY <2>1, <3>1, <3>2 DEF TypeOK, DueInv
            <4> QED BY HandSame, <4>1, <4>2, <4>3
        <3>3. CASE unsent' = unsent \cup {i} /\ UNCHANGED alert
            <4>1. TypeOK'
                BY <2>1, <3>1, <3>3 DEF TypeOK
            <4>2. MarkInv' /\ StampInv' /\ StampHasAlert'
                BY <2>1, <3>1, <3>3 DEF TypeOK, MarkInv, StampInv, StampHasAlert
            <4>3. DueInv'
                BY <2>1, <3>1, <3>3 DEF TypeOK, DueInv
            <4> QED BY HandSame, <4>1, <4>2, <4>3
        <3> QED BY <3>1, <3>2, <3>3 DEF SendStale
    <2>3. CASE ~([id |-> i, sched |-> TRUE, due |-> TRUE] \in pass.seen /\ IsStale(i))
        <3>1. alert' = alert /\ unsent' = unsent /\ pass'.marks = pass.marks
            BY <2>3 DEF TypeOK
        <3>2. TypeOK'
            BY <2>1, <3>1 DEF TypeOK
        <3>3. MarkInv' /\ StampInv' /\ StampHasAlert'
            BY <2>1, <3>1 DEF TypeOK, MarkInv, StampInv, StampHasAlert
        <3>4. DueInv'
            BY <2>1, <3>1 DEF TypeOK, DueInv
        <3> QED BY HandSame, <3>2, <3>3, <3>4
    <2> QED BY <2>2, <2>3
<1>3. ASSUME CommitPass PROVE SInv'
    <2> USE <1>3 DEF CommitPass, NoPass
    <2>1. TypeOK'
        BY DEF TypeOK
    <2>2. MarkInv' /\ DueInv'
        BY DEF MarkInv, DueInv
    <2>3. StampInv'
        <3> SUFFICES ASSUME NEW i \in Instances, inst[i] # None, i \notin forgot'
                     PROVE  alert[i] = None \/ (stamp'[i] # None /\ stamp'[i] <= alert[i])
            BY DEF StampInv
        <3>1. CASE \E j \in pass.marks : inst[j] = None
            BY <3>1 DEF StampInv
        <3>2. CASE ~\E j \in pass.marks : inst[j] = None
            <4>1. stamp' = [k \in Instances |-> IF k \in pass.marks THEN 0 ELSE stamp[k]]
                  /\ forgot' = forgot \ pass.marks
                BY <3>2, Zenon
            <4>2. CASE i \in pass.marks
                BY <4>1, <4>2 DEF TypeOK
            <4>3. CASE i \notin pass.marks
                BY <4>1, <4>3 DEF StampInv
            <4> QED BY <4>2, <4>3
        <3> QED BY <3>1, <3>2
    <2>4. StampHasAlert'
        <3>1. CASE \E j \in pass.marks : inst[j] = None
            BY <3>1 DEF StampHasAlert
        <3>2. CASE ~\E j \in pass.marks : inst[j] = None
            <4>1. stamp' = [k \in Instances |-> IF k \in pass.marks THEN 0 ELSE stamp[k]]
                BY <3>2, Zenon
            <4>2. ASSUME NEW i \in Instances, stamp'[i] # None, i \notin unsent
                  PROVE  alert[i] # None /\ alert[i] <= stamp'[i]
                BY <4>1, <4>2 DEF StampHasAlert, MarkInv
            <4> QED BY <4>2 DEF StampHasAlert
        <3> QED BY <3>1, <3>2
    <2> QED BY HandSame, <2>1, <2>2, <2>3, <2>4
<1> QED BY <1>1, <1>2, <1>3 DEF Watch

\* Time goes by, and the services stop.
LEMMA SFault == ASSUME SInv, Tick \/ Crash \/ WebStops PROVE SInv'
<1> USE ScheduleAssumption DEF SInv, rowVars, loadVars, ghosts
<1>1. ASSUME Tick PROVE SInv'
    <2> USE <1>1 DEF Tick
    <2>1. /\ stamp' \in [Instances -> (0..Renotify) \cup {None}]
          /\ alert' \in [Instances -> (0..Renotify) \cup {None}]
        BY OlderType DEF TypeOK
    <2>2. age' \in [Instances -> 0..(Threshold + 1)]
        <3>1. \A i \in Instances : age[i] \in 0..(Threshold + 1) /\ age[i] # None
            BY DEF TypeOK
        <3> QED BY <3>1, OlderType
    <2>3. TypeOK'
        <3>1. left' \in [Events -> Nat]
            BY SpendType DEF Events
        <3> QED BY <2>1, <2>2, <3>1 DEF TypeOK
    <2>4. MarkInv' /\ DueInv'
        BY DEF TypeOK, MarkInv, DueInv
    <2>6. StampInv'
        <3> SUFFICES ASSUME NEW i \in Instances, inst[i] # None, i \notin forgot, i \notin pass.marks,
                            alert'[i] # None
                     PROVE  stamp'[i] # None /\ stamp'[i] <= alert'[i]
            BY DEF StampInv
        <3>1. alert[i] # None /\ alert[i] \in 0..Renotify
            BY DEF TypeOK, Older
        <3>2. stamp[i] # None /\ stamp[i] \in 0..Renotify /\ stamp[i] <= alert[i]
            BY <3>1 DEF TypeOK, StampInv
        <3> QED BY <3>1, <3>2 DEF Older
    <2>5. StampHasAlert'
        <3> SUFFICES ASSUME NEW i \in Instances, stamp'[i] # None, i \notin unsent
                     PROVE  alert'[i] # None /\ alert'[i] <= stamp'[i]
            BY DEF StampHasAlert
        <3>1. stamp[i] # None /\ stamp[i] \in 0..Renotify
            BY DEF TypeOK, Older
        <3>2. alert[i] # None /\ alert[i] \in 0..Renotify /\ alert[i] <= stamp[i]
            BY <3>1 DEF TypeOK, StampHasAlert
        <3> QED BY <3>1, <3>2 DEF Older
    <2> QED BY HandSame, <2>3, <2>4, <2>5, <2>6
<1>2. ASSUME Crash PROVE SInv'
    <2> USE <1>2 DEF Crash, NoPass
    <2>1. HandOK'
        BY DEF HandOK, Reload, Ready, Idle
    <2>2. TypeOK'
        <3>1. forgot' \subseteq Instances /\ left' \in [Events -> Nat]
            BY SpendType DEF TypeOK, Events
        <3>2. pass' \in [at: {"idle", "on"}, seen: SUBSET Seen, todo: SUBSET Instances, marks: SUBSET Instances]
            OBVIOUS
        <3> QED BY <2>1, <3>1, <3>2 DEF TypeOK, HandOK, Reload, Ready
    <2>3. MarkInv' /\ StampInv' /\ DueInv' /\ StampHasAlert'
        BY DEF TypeOK, MarkInv, StampInv, DueInv, StampHasAlert
    <2> QED BY <2>1, <2>2, <2>3
<1>3. ASSUME WebStops PROVE SInv'
    <2> USE <1>3 DEF WebStops
    <2>1. missed' \subseteq Instances
        <3>1. \A k \in 1..Len(queue) : queue[k] \in Targets
            BY DEF TypeOK
        <3> QED BY <3>1 DEF TypeOK, Concerns, Targets
    <2>2. TypeOK'
        <3>1. left' \in [Events -> Nat]
            BY SpendType DEF Events
        <3> QED BY <2>1, <3>1 DEF TypeOK
    <2>3. MarkInv' /\ StampInv' /\ DueInv' /\ StampHasAlert'
        BY DEF MarkInv, StampInv, DueInv, StampHasAlert
    <2> QED BY HandSame, <2>2, <2>3
<1> QED BY <1>1, <1>2, <1>3

\* Every step keeps the invariant.
LEMMA SInductive == ASSUME SInv, [Next]_vars PROVE SInv'
<1>1. CASE UNCHANGED vars
    BY HandSame, <1>1 DEF vars, rowVars, loadVars, ghosts, SInv, TypeOK, MarkInv, StampInv, DueInv, StampHasAlert
<1>2. CASE Next
    BY <1>2, SEdit, SLoad, SRun, SWatch, SFault DEF Next
<1> QED BY <1>1, <1>2

\* The invariant holds throughout.
LEMMA SInvariant == Spec => []SInv
BY SInit, SInductive, PTL DEF Spec

-----------------------------------------------------------------------------
\* Rows, reload commands, jobs, stamps and alerts keep their types, whatever the
\* web, the handler threads, the backups and the pass do.
THEOREM ScheduleTyped == Spec => []TypeOK
<1>1. SInv => TypeOK
    BY DEF SInv
<1> QED BY <1>1, SInvariant, PTL

\* A stamp that suppresses alerts is backed by an alert no older than itself
\* (check_stale_instances against _clear_stale_flag).
THEOREM StampsBacked == Spec => []StampHasAlert
<1>1. SInv => StampHasAlert
    BY DEF SInv
<1> QED BY <1>1, SInvariant, PTL

\* A step of the pass alerts only if there was no alert, the last one is
\* RENOTIFY_HOURS old, or the row does not know of it.
LEMMA SpacedStep ==
    ASSUME SInv, [Next]_vars
    PROVE  [\A i \in Instances :
               (pass.at = "on" /\ i \in pass'.marks \ pass.marks)
                   => alert[i] \in {None, Renotify} \/ i \in forgot]_vars
<1> SUFFICES ASSUME Next, NEW i \in Instances, pass.at = "on", i \in pass'.marks \ pass.marks
             PROVE  alert[i] \in {None, Renotify} \/ i \in forgot
    OBVIOUS
<1>1. pass' # pass /\ pass' # NoPass
    BY DEF NoPass
<1>2. \E j \in Instances : CheckInstance(j)
    BY <1>1 DEF Next, CreateInstance, PutSchedule, DeleteInstance, PutTimezone, TakeReload, Load, ListJobs,
                DropJob, DropFails, AllDropped, ReadRows, ApplyRow, EndReload, Fire, BackupNow, Start, Succeed, FailRun, ClearStaleFlag, Watch,
                BeginPass, CommitPass, Tick, Crash, Boot, WebStops
<1>3. PICK j \in Instances : CheckInstance(j)
    BY <1>2
<1>4. i = j /\ i \in pass.todo /\ [id |-> i, sched |-> TRUE, due |-> TRUE] \in pass.seen
    <2>1. CASE [id |-> j, sched |-> TRUE, due |-> TRUE] \in pass.seen /\ IsStale(j)
        <3>1. pass'.marks = pass.marks \cup {j}
            BY <1>3, <2>1 DEF CheckInstance, SInv, TypeOK
        <3> QED BY <1>3, <2>1, <3>1 DEF CheckInstance
    <2>2. CASE ~([id |-> j, sched |-> TRUE, due |-> TRUE] \in pass.seen /\ IsStale(j))
        <3>1. pass'.marks = pass.marks
            BY <1>3, <2>2 DEF CheckInstance, SInv, TypeOK
        <3> QED BY <3>1
    <2> QED BY <2>1, <2>2
<1> QED BY <1>4 DEF SInv, DueInv

\* models.py: "re-alert only after 24h", for every interleaving of passes, backups,
\* edits, crashes and the clock.
THEOREM AlertsAreSpaced == Spec => AlertsSpaced
BY SInvariant, SpacedStep, PTL DEF Spec, AlertsSpaced
-----------------------------------------------------------------------------
(* Reloads: who holds what, and what the job table owes to it.             *)

\* Loader t works on a reload that concerns i; such a command is on its way.
Reads(t, i) == hand[t].at # "idle" /\ i \in Concerns(hand[t].of)
Pend(i) == \E k \in 1..Len(queue) : i \in Concerns(queue[k])
Clear(i) == i \notin crossed /\ i \notin missed /\ ~Pend(i)

\* The scheduler refuses the row's cron, or has what the row says.
InTable(i) == (inst[i] # None /\ inst[i].cron \in OddCrons) \/ jobs[i] = Loaded(i, inst[i], zone)

\* What t has read is what is there now, or a row without schedule came since.
Same(t, i) ==
    /\ hand[t].zone = zone
    /\ hand[t].row[i] = inst[i] \/ (hand[t].row[i] = None /\ inst[i] # None /\ inst[i].cron = None)

\* The boot loads alone, with an empty table; only reload_all drops jobs.
BootInv ==
    /\ ~up => \A t \in Threads : hand[t].at = "idle"
    /\ up => hand["main"].at = "idle"
    /\ ~up /\ hand["main"].at = "idle" => \A i \in Instances : jobs[i] = None
    /\ hand["main"].at # "idle" => hand["main"].of = All /\ hand["main"].at \notin {"list", "drop"}
    /\ \A t \in Loaders : hand[t].at \in {"list", "drop"} => hand[t].of = All
    /\ \A t \in Loaders : hand[t].at = "apply" => hand[t].todo \subseteq Concerns(hand[t].of)

\* Two reloads of one instance at a time are crossed.
AloneInv ==
    \A i \in Instances : \A t, u \in Loaders : Reads(t, i) /\ Reads(u, i) /\ t # u => i \in crossed

\* A reload of all has removed i's job, or found none, and not read the rows.
Bare(h, i) == h.of = All /\ (h.at = "read" \/ (h.at = "drop" /\ i \notin h.todo))

\* Such a job stays away until then.
DroppedInv ==
    \A i \in Instances : \A t \in Loaders : Bare(hand[t], i) /\ i \notin crossed => jobs[i] = None

\* A reload that was not crossed holds the row of now and has applied it, or will.
ApplyInv ==
    \A i \in Instances : \A t \in Loaders :
        hand[t].at = "apply" /\ i \in Concerns(hand[t].of) /\ Clear(i)
            => Same(t, i) /\ (i \in hand[t].todo \/ InTable(i))

\* With no reload under way the table has what the row says.
TableInv ==
    \A i \in Instances : up /\ Clear(i) /\ (\A t \in Loaders : ~Reads(t, i)) => InTable(i)

LoadInv == BootInv /\ AloneInv /\ DroppedInv /\ ApplyInv /\ TableInv

-----------------------------------------------------------------------------
\* A command that is sent is on its way; the one that is taken no longer is.
LEMMA PendSent ==
    ASSUME TypeOK, NEW c \in Targets, queue' = Append(queue, c), NEW i
    PROVE  Pend(i)' <=> Pend(i) \/ i \in Concerns(c)
<1>1. /\ Len(queue') = Len(queue) + 1 /\ Len(queue) \in Nat
      /\ \A k \in 1..Len(queue) : queue'[k] = queue[k]
      /\ queue'[Len(queue) + 1] = c
    BY DEF TypeOK
<1>2. ASSUME Pend(i)' PROVE Pend(i) \/ i \in Concerns(c)
    <2>1. PICK k \in 1..Len(queue') : i \in Concerns(queue'[k])
        BY <1>2 DEF Pend, Concerns
    <2> QED BY <1>1, <2>1 DEF Pend
<1>3. ASSUME Pend(i) PROVE Pend(i)'
    <2>1. PICK k \in 1..Len(queue) : i \in Concerns(queue[k])
        BY <1>3 DEF Pend
    <2>2. k \in 1..Len(queue') /\ i \in Concerns(queue'[k])
        BY <1>1, <2>1
    <2> QED BY <2>2 DEF Pend, Concerns
<1>4. ASSUME i \in Concerns(c) PROVE Pend(i)'
    <2>1. Len(queue) + 1 \in 1..Len(queue') /\ i \in Concerns(queue'[Len(queue) + 1])
        BY <1>1, <1>4
    <2> QED BY <2>1 DEF Pend, Concerns
<1> QED BY <1>2, <1>3, <1>4

\* An instance that a queued reload concerns still waits when the first one is taken
\* off, or is concerned by that one.
LEMMA PendTaken ==
    ASSUME TypeOK, queue # <<>>, queue' = Tail(queue), NEW i, Pend(i)
    PROVE  Pend(i)' \/ i \in Concerns(Head(queue))
<1>1. PICK k \in 1..Len(queue) : i \in Concerns(queue[k])
    BY DEF Pend
<1>2. queue \in Seq(Targets) /\ Len(queue) \in Nat
    BY DEF TypeOK
<1>3. CASE k = 1
    BY <1>1, <1>2, <1>3
<1>4. CASE k # 1
    <2>1. k - 1 \in 1..Len(queue') /\ queue'[k - 1] = queue[k]
        BY <1>1, <1>2, <1>4
    <2>2. i \in Concerns(queue'[k - 1])
        BY <1>1, <2>1
    <2> QED BY <2>1, <2>2 DEF Pend, Concerns
<1> QED BY <1>3, <1>4

\* The instances in hand are those some loader works on.
LEMMA InHandReads ==
    ASSUME NEW i
    PROVE  i \in InHand <=> \E t \in Loaders : Reads(t, i)
BY DEF InHand, Reads

\* What a command concerns.
LEMMA Concerned ==
    /\ Concerns(All) = Instances
    /\ \A i \in Instances : Concerns(i) = {i}
BY ScheduleAssumption DEF Concerns

\* A loader that holds another reload reads what that is about.
LEMMA OtherHands ==
    ASSUME HandOK, NEW t \in Loaders, NEW h \in Reload, hand' = [hand EXCEPT ![t] = h]
    PROVE  /\ hand'[t] = h
           /\ \A u \in Loaders : u # t => hand'[u] = hand[u]
           /\ \A i : Reads(t, i)' <=> h.at # "idle" /\ i \in Concerns(h.of)
           /\ \A u \in Loaders : u # t => \A i : Reads(u, i)' <=> Reads(u, i)
<1>1. hand'[t] = h /\ \A u \in Loaders : u # t => hand'[u] = hand[u]
    BY DEF HandOK
<1>2. \A i : Reads(t, i)' <=> h.at # "idle" /\ i \in Concerns(h.of)
    BY <1>1 DEF Reads, Concerns
<1>3. \A u \in Loaders : u # t => \A i : Reads(u, i)' <=> Reads(u, i)
    BY <1>1 DEF Reads, Concerns
<1> QED BY <1>1, <1>2, <1>3

-----------------------------------------------------------------------------
\* Nothing is loaded at first.
LEMMA LoadInit == ASSUME Init PROVE LoadInv
<1> USE ScheduleAssumption DEF Init
<1>1. "main" \in Loaders /\ Threads \subseteq Loaders
    BY DEF Loaders
<1>2. \A t \in Loaders : hand[t].at = "idle"
    BY DEF Idle
<1>3. ~up /\ \A i \in Instances : jobs[i] = None
    OBVIOUS
<1> QED BY <1>1, <1>2, <1>3 DEF LoadInv, BootInv, AloneInv, DroppedInv, Bare, ApplyInv, TableInv, Reads

\* Steps that touch neither rows, zone, commands, loaders nor table.
LEMMA LoadSame ==
    ASSUME LoadInv, UNCHANGED <<inst, zone, queue, jobs, hand, up, crossed, missed>>
    PROVE  LoadInv'
BY DEF LoadInv, BootInv, AloneInv, DroppedInv, ApplyInv, TableInv, Reads, Pend, Clear, InTable, Same,
       Concerns, Loaded

\* An edit: the rows or the zone change, and where that matters a command is sent.
LEMMA LoadEdit ==
    ASSUME SInv, LoadInv, UNCHANGED <<jobs, hand, up, crossed>>,
           \A i \in Instances : Clear(i)' =>
               /\ Clear(i) /\ zone' = zone
               /\ inst'[i] = inst[i] \/ (inst[i] = None /\ inst'[i] # None /\ inst'[i].cron = None)
    PROVE  LoadInv'
<1>1. BootInv' /\ AloneInv' /\ DroppedInv'
    BY DEF LoadInv, BootInv, AloneInv, DroppedInv, Reads, Concerns
<1>2. ASSUME NEW i \in Instances, Clear(i)', InTable(i) PROVE InTable(i)'
    <2>1. CASE inst'[i] = inst[i]
        BY <1>2, <2>1 DEF InTable, Loaded
    <2>2. CASE inst[i] = None /\ inst'[i] # None /\ inst'[i].cron = None
        <3>1. jobs[i] = None
            BY <1>2, <2>2 DEF InTable, Loaded
        <3> QED BY <1>2, <2>2, <3>1 DEF InTable, Loaded
    <2> QED BY <1>2, <2>1, <2>2
<1>3. ApplyInv'
    <2> SUFFICES ASSUME NEW i \in Instances, NEW t \in Loaders,
                        hand[t].at = "apply", i \in Concerns(hand[t].of), Clear(i)'
                 PROVE  Same(t, i)' /\ (i \in hand[t].todo \/ InTable(i)')
        BY DEF ApplyInv, Concerns
    <2>1. Same(t, i) /\ (i \in hand[t].todo \/ InTable(i))
        BY DEF LoadInv, ApplyInv
    <2>2. Same(t, i)'
        BY <2>1 DEF Same
    <2> QED BY <1>2, <2>1, <2>2
<1>4. TableInv'
    <2> SUFFICES ASSUME NEW i \in Instances, up, Clear(i)', \A t \in Loaders : ~Reads(t, i)'
                 PROVE  InTable(i)'
        BY DEF TableInv
    <2>1. InTable(i)
        BY DEF LoadInv, TableInv, Reads, Concerns
    <2> QED BY <1>2, <2>1
<1> QED BY <1>1, <1>3, <1>4 DEF LoadInv

\* The edits of the web are such.
LEMMA LoadWeb ==
    ASSUME SInv, LoadInv,
           \/ \E i \in Instances, r \in Edits : CreateInstance(i, r) \/ PutSchedule(i, r)
           \/ \E i \in Instances : DeleteInstance(i)
           \/ \E z \in Zones : PutTimezone(z)
    PROVE  LoadInv'
<1> USE ScheduleAssumption
<1>1. ASSUME NEW c \in Targets, Send(c), UNCHANGED <<crossed, missed>>,
             NEW j \in Instances, Clear(j)'
      PROVE  Clear(j) /\ j \notin Concerns(c)
    BY <1>1, PendSent DEF Send, Clear, SInv
<1>2. ASSUME NEW i \in Instances, NEW r \in Edits, CreateInstance(i, r) PROVE LoadInv'
    <2> USE <1>2 DEF CreateInstance
    <2>1. i \in Targets /\ inst \in [Instances -> Row \cup {None}]
        BY DEF SInv, TypeOK, Targets, Row
    <2>2. ASSUME NEW j \in Instances, Clear(j)'
          PROVE  /\ Clear(j)
                 /\ inst'[j] = inst[j] \/ (inst[j] = None /\ inst'[j] # None /\ inst'[j].cron = None)
        <3>1. CASE r.cron = None
            <4>1. UNCHANGED queue
                BY <3>1
            <4>2. Clear(j)
                BY <2>2, <4>1 DEF Clear, Pend, Concerns
            <4> QED BY <2>1, <3>1, <4>2
        <3>2. CASE r.cron # None
            <4>1. Clear(j) /\ j \notin Concerns(i)
                BY <1>1, <2>1, <2>2, <3>2
            <4> QED BY <2>1, <4>1, Concerned
        <3> QED BY <3>1, <3>2
    <2> QED BY <2>2, LoadEdit
<1>3. ASSUME NEW i \in Instances, NEW r \in Edits, PutSchedule(i, r) \/ DeleteInstance(i) PROVE LoadInv'
    <2>1. /\ UNCHANGED <<zone, jobs, hand, up, crossed, missed>> /\ Send(i) /\ i \in Targets
          /\ \A j \in Instances : j # i => inst'[j] = inst[j]
        BY <1>3 DEF PutSchedule, DeleteInstance, Targets, SInv, TypeOK
    <2> QED BY <1>1, <2>1, Concerned, LoadEdit
<1>4. ASSUME NEW i \in Instances, DeleteInstance(i) PROVE LoadInv'
    <2>1. /\ UNCHANGED <<zone, jobs, hand, up, crossed, missed>> /\ Send(i) /\ i \in Targets
          /\ \A j \in Instances : j # i => inst'[j] = inst[j]
        BY <1>4 DEF DeleteInstance, Targets, SInv, TypeOK
    <2> QED BY <1>1, <2>1, Concerned, LoadEdit
<1>5. ASSUME NEW z \in Zones, PutTimezone(z) PROVE LoadInv'
    <2>1. UNCHANGED <<inst, jobs, hand, up, crossed, missed>> /\ Send(All) /\ All \in Targets
        BY <1>5 DEF PutTimezone, Targets
    <2> QED BY <1>1, <2>1, Concerned, LoadEdit
<1> QED BY <1>2, <1>3, <1>4, <1>5

\* A handler thread takes a command: what it concerns and is in hand is crossed.
LEMMA LoadTake == ASSUME SInv, LoadInv, NEW t \in Threads, TakeReload(t) PROVE LoadInv'
<1> DEFINE c == Head(queue)
           h == [Idle EXCEPT !.of = c, !.at = IF c = All THEN "list" ELSE "read"]
<1> USE ScheduleAssumption
<1>1. c \in Targets /\ t \in Loaders /\ t # "main" /\ hand[t].at = "idle" /\ up /\ queue # <<>>
    BY DEF TakeReload, SInv, TypeOK, Loaders
<1>2. h \in Reload /\ h.of = c /\ h.at = (IF c = All THEN "list" ELSE "read")
    BY <1>1 DEF Idle, Reload
<1>3. /\ hand' = [hand EXCEPT ![t] = h] /\ queue' = Tail(queue)
      /\ crossed' = (crossed \ Concerns(c)) \cup (Concerns(c) \cap InHand)
      /\ missed' = missed \ Concerns(c)
      /\ UNCHANGED <<inst, zone, jobs, up>>
    BY DEF TakeReload, rowVars
<1> HIDE DEF c, h
<1>4. /\ hand'[t] = h /\ \A u \in Loaders : u # t => hand'[u] = hand[u]
      /\ \A i : Reads(t, i)' <=> i \in Concerns(c)
      /\ \A u \in Loaders : u # t => \A i : Reads(u, i)' <=> Reads(u, i)
    BY <1>2, <1>3, <1>1, OtherHands DEF SInv
<1>5. \A i : ~Reads(t, i)
    BY <1>1 DEF Reads
<1>6. BootInv'
    BY <1>1, <1>2, <1>3, <1>4 DEF LoadInv, BootInv, Loaders, Concerns
<1>7. AloneInv'
    <2> SUFFICES ASSUME NEW i \in Instances, NEW u \in Loaders, NEW v \in Loaders,
                        Reads(u, i)', Reads(v, i)', u # v
                 PROVE  i \in crossed'
        BY DEF AloneInv
    <2>1. \E w \in Loaders : Reads(w, i)
        BY <1>4
    <2>2. CASE i \in Concerns(c)
        BY <1>3, <2>1, <2>2, InHandReads
    <2>3. CASE i \notin Concerns(c)
        BY <1>3, <1>4, <2>3 DEF LoadInv, AloneInv
    <2> QED BY <2>2, <2>3
<1>8. ASSUME NEW i \in Instances, NEW u \in Loaders, Reads(u, i), i \notin crossed'
      PROVE  i \notin Concerns(c) /\ i \notin crossed
    BY <1>3, <1>8, InHandReads
<1>9. ASSUME NEW i \in Instances, i \notin Concerns(c), Clear(i)' PROVE Clear(i)
    <2>1. Pend(i) => Pend(i)'
        BY <1>1, <1>3, <1>9, PendTaken DEF SInv, c
    <2> QED BY <1>3, <1>9, <2>1 DEF Clear
<1>10. \A i \in Instances : InTable(i)' <=> InTable(i)
    BY <1>3 DEF InTable, Loaded
<1>11. DroppedInv'
    <2> SUFFICES ASSUME NEW i \in Instances, NEW u \in Loaders,
                        Bare(hand'[u], i), i \notin crossed'
                 PROVE  jobs[i] = None
        BY <1>3 DEF DroppedInv
    <2>1. u # t
        BY <1>2, <1>4 DEF Bare
    <2>2. Bare(hand[u], i) /\ Reads(u, i)
        BY <1>4, <2>1 DEF Reads, Concerns, Bare
    <2> QED BY <1>8, <2>2 DEF LoadInv, DroppedInv
<1>12. ApplyInv'
    <2> SUFFICES ASSUME NEW i \in Instances, NEW u \in Loaders,
                        hand'[u].at = "apply", Reads(u, i)', Clear(i)'
                 PROVE  Same(u, i)' /\ (i \in hand'[u].todo \/ InTable(i)')
        BY DEF ApplyInv, Reads
    <2>1. u # t
        BY <1>2, <1>4
    <2>2. hand'[u] = hand[u] /\ Reads(u, i)
        BY <1>4, <2>1
    <2>3. i \notin Concerns(c)
        BY <1>8, <2>2 DEF Clear
    <2>4. Same(u, i) /\ (i \in hand[u].todo \/ InTable(i))
        BY <1>9, <2>2, <2>3 DEF LoadInv, ApplyInv, Reads
    <2>5. Same(u, i)'
        BY <1>3, <2>2, <2>4 DEF Same
    <2> QED BY <1>10, <2>2, <2>4, <2>5
<1>13. TableInv'
    <2> SUFFICES ASSUME NEW i \in Instances, Clear(i)', \A u \in Loaders : ~Reads(u, i)'
                 PROVE  InTable(i)'
        BY DEF TableInv
    <2>1. i \notin Concerns(c) /\ \A u \in Loaders : ~Reads(u, i)
        BY <1>1, <1>4, <1>5
    <2> QED BY <1>1, <1>9, <1>10, <2>1 DEF LoadInv, TableInv
<1> QED BY <1>6, <1>7, <1>11, <1>12, <1>13 DEF LoadInv

\* A loader goes on with its reload: it concerns what it did, commands and rows
\* stay. What is left to show is what the step did to the table.
LEMMA LoadGoesOn ==
    ASSUME SInv, LoadInv, NEW t \in Loaders, NEW h \in Reload, hand[t].at # "idle",
           hand' = [hand EXCEPT ![t] = h], h.at \in {"drop", "read", "apply"}, h.of = hand[t].of,
           h.at = "drop" => h.of = All /\ t # "main",
           h.at = "apply" => h.todo \subseteq Concerns(h.of),
           UNCHANGED <<inst, zone, queue, up, crossed, missed>>,
           \A i \in Instances : i \notin Concerns(h.of) => jobs'[i] = jobs[i],
           \A i \in Instances : \A u \in Loaders :
               u # t /\ Reads(u, i) /\ Bare(hand[u], i) /\ i \notin crossed => jobs'[i] = None,
           \A i \in Instances : Bare(h, i) /\ i \notin crossed => jobs'[i] = None,
           \A i \in Instances :
               h.at = "apply" /\ i \in Concerns(h.of) /\ Clear(i)
                   => Same(t, i)' /\ (i \in h.todo \/ InTable(i)')
    PROVE  LoadInv'
<1>1. /\ hand'[t] = h /\ \A u \in Loaders : u # t => hand'[u] = hand[u]
      /\ \A i : Reads(t, i)' <=> Reads(t, i)
      /\ \A u \in Loaders : \A i : Reads(u, i)' <=> Reads(u, i)
    BY OtherHands DEF SInv, Reads
<1>2. \A i : Clear(i)' <=> Clear(i)
    BY DEF Clear, Pend, Concerns
<1>3. ASSUME NEW i \in Instances, jobs'[i] = jobs[i] PROVE InTable(i)' <=> InTable(i)
    BY <1>3 DEF InTable, Loaded
<1>4. BootInv'
    <2>1. ASSUME ~up PROVE \A u \in Threads : hand'[u].at = "idle"
        BY <1>1, <2>1, ScheduleAssumption DEF LoadInv, BootInv, Loaders
    <2>2. ASSUME up PROVE hand'["main"].at = "idle"
        BY <1>1, <2>2 DEF LoadInv, BootInv, Loaders
    <2>3. ASSUME ~up, hand'["main"].at = "idle" PROVE FALSE
        BY <1>1, <2>3, ScheduleAssumption DEF LoadInv, BootInv, Loaders
    <2>4. ASSUME hand'["main"].at # "idle" PROVE hand'["main"].of = All /\ hand'["main"].at \notin {"list", "drop"}
        BY <1>1, <2>4 DEF LoadInv, BootInv, Loaders
    <2>5. ASSUME NEW u \in Loaders
          PROVE  /\ hand'[u].at \in {"list", "drop"} => hand'[u].of = All
                 /\ hand'[u].at = "apply" => hand'[u].todo \subseteq Concerns(hand'[u].of)
        BY <1>1 DEF LoadInv, BootInv, Concerns
    <2> QED BY <2>1, <2>2, <2>3, <2>4, <2>5 DEF BootInv, Concerns
<1>5. AloneInv'
    BY <1>1 DEF LoadInv, AloneInv
<1>6. DroppedInv'
    <2> SUFFICES ASSUME NEW i \in Instances, NEW u \in Loaders,
                        Bare(hand'[u], i), i \notin crossed
                 PROVE  jobs'[i] = None
        BY DEF DroppedInv
    <2>1. u # t => Reads(u, i)
        BY <1>1 DEF Reads, Concerns, Bare
    <2> QED BY <1>1, <2>1
<1>7. ApplyInv'
    <2> SUFFICES ASSUME NEW i \in Instances, NEW u \in Loaders,
                        hand'[u].at = "apply", Reads(u, i)', Clear(i)
                 PROVE  Same(u, i)' /\ (i \in hand'[u].todo \/ InTable(i)')
        BY <1>2 DEF ApplyInv, Reads
    <2>1. CASE u = t
        BY <1>1, <2>1 DEF Reads
    <2>2. CASE u # t
        <3>1. hand'[u] = hand[u] /\ Reads(u, i)
            BY <1>1, <2>2
        <3>2. Same(u, i) /\ (i \in hand[u].todo \/ InTable(i))
            BY <3>1 DEF LoadInv, ApplyInv, Reads
        <3>3. i \notin Concerns(hand[t].of)
            BY <2>2, <3>1 DEF LoadInv, AloneInv, Clear, Reads
        <3>4. Same(u, i)'
            BY <3>1, <3>2 DEF Same
        <3> QED BY <1>3, <3>1, <3>2, <3>3, <3>4
    <2> QED BY <2>1, <2>2
<1>8. TableInv'
    <2> SUFFICES ASSUME NEW i \in Instances, up, Clear(i), \A u \in Loaders : ~Reads(u, i)
                 PROVE  InTable(i)'
        BY <1>1, <1>2 DEF TableInv
    <2>1. i \notin Concerns(hand[t].of)
        BY DEF Reads
    <2>2. InTable(i)
        BY DEF LoadInv, TableInv
    <2> QED BY <1>3, <2>1, <2>2
<1> QED BY <1>4, <1>5, <1>6, <1>7, <1>8 DEF LoadInv

\* reload_all lists the jobs: the others have none.
LEMMA LoadList == ASSUME SInv, LoadInv, NEW t \in Loaders, ListJobs(t) PROVE LoadInv'
<1> DEFINE h == [hand[t] EXCEPT !.at = "drop", !.todo = {i \in Instances : jobs[i] # None}]
<1>1. hand[t] \in Reload /\ hand[t].at = "list" /\ hand[t].of = All /\ t # "main"
    BY DEF ListJobs, SInv, HandOK, LoadInv, BootInv
<1>2. h \in Reload /\ h.at = "drop" /\ h.of = hand[t].of /\ h.todo = {i \in Instances : jobs[i] # None}
    BY <1>1 DEF Reload
<1>3. hand' = [hand EXCEPT ![t] = h] /\ UNCHANGED <<inst, zone, queue, jobs, up, crossed, missed>>
    BY DEF ListJobs, rowVars, ghosts
<1> HIDE DEF h
<1>4. \A i \in Instances : Bare(h, i) => jobs'[i] = None
    BY <1>2, <1>3 DEF Bare
<1>5. \A i \in Instances : \A u \in Loaders : Bare(hand[u], i) /\ i \notin crossed => jobs'[i] = None
    BY <1>3 DEF LoadInv, DroppedInv
<1> QED BY <1>1, <1>2, <1>3, <1>4, <1>5, LoadGoesOn

\* It removes them one by one ...
LEMMA LoadDrop ==
    ASSUME SInv, LoadInv, NEW t \in Loaders, NEW i \in Instances, DropJob(t, i)
    PROVE  LoadInv'
<1> DEFINE h == [hand[t] EXCEPT !.todo = @ \ {i}]
<1>1. hand[t] \in Reload /\ hand[t].at = "drop" /\ hand[t].of = All /\ t # "main"
    BY DEF DropJob, SInv, HandOK, LoadInv, BootInv
<1>2. h \in Reload /\ h.at = "drop" /\ h.of = hand[t].of /\ h.todo = hand[t].todo \ {i}
    BY <1>1 DEF Reload
<1>3. /\ hand' = [hand EXCEPT ![t] = h] /\ jobs' = [jobs EXCEPT ![i] = None]
      /\ UNCHANGED <<inst, zone, queue, up, crossed, missed>>
    BY DEF DropJob, rowVars, ghosts
<1> HIDE DEF h
<1>4. \A j \in Instances : jobs'[j] = (IF j = i THEN None ELSE jobs[j]) /\ j \in Concerns(h.of)
    BY <1>1, <1>2, <1>3, Concerned DEF SInv, TypeOK
<1>5. \A j \in Instances : \A u \in Loaders : Bare(hand[u], j) /\ j \notin crossed => jobs'[j] = None
    BY <1>4 DEF LoadInv, DroppedInv
<1>6. ASSUME NEW j \in Instances, Bare(h, j), j \notin crossed PROVE jobs'[j] = None
    <2>1. j # i => Bare(hand[t], j)
        BY <1>1, <1>2, <1>6 DEF Bare
    <2> QED BY <1>4, <1>5, <1>6, <2>1
<1> QED BY <1>1, <1>2, <1>3, <1>4, <1>5, <1>6, LoadGoesOn

\* ... until none is left ...
LEMMA LoadDropped == ASSUME SInv, LoadInv, NEW t \in Loaders, AllDropped(t) PROVE LoadInv'
<1> DEFINE h == [hand[t] EXCEPT !.at = "read"]
<1>1. hand[t] \in Reload /\ hand[t].at = "drop" /\ hand[t].of = All /\ hand[t].todo = {}
    BY DEF AllDropped, SInv, HandOK, LoadInv, BootInv
<1>2. h \in Reload /\ h.at = "read" /\ h.of = hand[t].of
    BY <1>1 DEF Reload
<1>3. hand' = [hand EXCEPT ![t] = h] /\ UNCHANGED <<inst, zone, queue, jobs, up, crossed, missed>>
    BY DEF AllDropped, rowVars, ghosts
<1> HIDE DEF h
<1>4. \A i \in Instances : \A u \in Loaders : Bare(hand[u], i) /\ i \notin crossed => jobs'[i] = None
    BY <1>3 DEF LoadInv, DroppedInv
<1>5. \A i \in Instances : Bare(hand[t], i)
    BY <1>1 DEF Bare
<1> QED BY <1>1, <1>2, <1>3, <1>4, <1>5, LoadGoesOn

\* ... or one is gone already: nothing is promised of any instance then.
LEMMA LoadDropFails ==
    ASSUME SInv, LoadInv, NEW t \in Loaders, NEW i \in Instances, DropFails(t, i)
    PROVE  LoadInv'
<1> USE ScheduleAssumption
<1>1. hand[t].at = "drop" /\ hand' = [hand EXCEPT ![t] = Idle] /\ missed' = Instances
      /\ UNCHANGED <<inst, zone, queue, jobs, up, crossed>>
    BY DEF DropFails, rowVars, ghosts
<1>2. Idle \in Reload /\ Idle.at = "idle" /\ Idle.of = None /\ All # None
    BY DEF Idle, Reload, Targets
<1>3. /\ hand'[t] = Idle /\ \A u \in Loaders : u # t => hand'[u] = hand[u]
      /\ \A j : ~Reads(t, j)'
      /\ \A u \in Loaders : u # t => \A j : Reads(u, j)' <=> Reads(u, j)
    BY <1>1, <1>2, OtherHands DEF SInv
<1>4. \A j \in Instances : ~Clear(j)'
    BY <1>1 DEF Clear
<1>5. t # "main" /\ up
    BY <1>1 DEF LoadInv, BootInv, Loaders
<1>6. BootInv'
    BY <1>1, <1>2, <1>3, <1>5 DEF LoadInv, BootInv, Loaders, Concerns
<1>7. AloneInv'
    BY <1>1, <1>3 DEF LoadInv, AloneInv
<1>8. DroppedInv'
    BY <1>1, <1>2, <1>3 DEF LoadInv, DroppedInv, Bare
<1>9. ApplyInv' /\ TableInv'
    BY <1>4 DEF ApplyInv, TableInv
<1> QED BY <1>6, <1>7, <1>8, <1>9 DEF LoadInv

\* The rows of now are read; load_all_jobs skips those that have no job to get.
LEMMA LoadRead == ASSUME SInv, LoadInv, NEW t \in Loaders, ReadRows(t) PROVE LoadInv'
<1> DEFINE todo == IF hand[t].of = All THEN {i \in Instances : inst[i] # None /\ inst[i].enabled}
                   ELSE {hand[t].of}
           h == [hand[t] EXCEPT !.at = "apply", !.row = inst, !.zone = zone, !.todo = todo]
<1>1. hand[t] \in Reload /\ hand[t].at = "read" /\ hand[t].of \in Targets
    BY DEF ReadRows, SInv, HandOK, Ready
<1>2. todo \subseteq Instances /\ todo \subseteq Concerns(hand[t].of)
    BY <1>1, Concerned DEF Targets
<1>3. hand' = [hand EXCEPT ![t] = h] /\ UNCHANGED <<inst, zone, queue, jobs, up, crossed, missed>>
    BY DEF ReadRows, rowVars, ghosts
<1>4. ASSUME NEW i \in Instances, i \in Concerns(hand[t].of), Clear(i), i \notin todo PROVE InTable(i)
    <2>1. hand[t].of = All /\ (inst[i] = None \/ ~inst[i].enabled)
        BY <1>1, <1>4, Concerned DEF Targets
    <2>2. jobs[i] = None
        BY <1>1, <1>4, <2>1 DEF LoadInv, DroppedInv, Clear, Bare
    <2> QED BY <2>1, <2>2 DEF InTable, Loaded
<1>5. \A i \in Instances : InTable(i)' <=> InTable(i)
    BY <1>3 DEF InTable, Loaded
<1> HIDE DEF todo
<1>6. h \in Reload /\ h.at = "apply" /\ h.of = hand[t].of /\ h.todo = todo /\ h.row = inst /\ h.zone = zone
    BY <1>1, <1>2 DEF Reload, SInv, TypeOK
<1> HIDE DEF h
<1>7. hand'[t] = h
    BY <1>3 DEF SInv, HandOK
<1>8. \A i \in Instances : Same(t, i)'
    BY <1>3, <1>6, <1>7 DEF Same
<1>9. \A i \in Instances : \A u \in Loaders :
          Bare(hand[u], i) /\ i \notin crossed => jobs'[i] = None
    BY <1>3 DEF LoadInv, DroppedInv
<1>11. \A i \in Instances : ~Bare(h, i)
    BY <1>6 DEF Bare
<1>10. \A i \in Instances : i \in Concerns(h.of) /\ Clear(i) => Same(t, i)' /\ (i \in h.todo \/ InTable(i)')
    BY <1>4, <1>5, <1>6, <1>8
<1> QED BY <1>1, <1>2, <1>3, <1>6, <1>9, <1>10, <1>11, LoadGoesOn

\* One row is applied.
LEMMA LoadApply ==
    ASSUME SInv, LoadInv, NEW t \in Loaders, NEW i \in Instances, ApplyRow(t, i)
    PROVE  LoadInv'
<1> DEFINE h == [hand[t] EXCEPT !.todo = @ \ {i}]
<1>1. hand[t] \in Reload /\ hand[t].at = "apply" /\ i \in hand[t].todo
    BY DEF ApplyRow, SInv, HandOK
<1>2. h \in Reload /\ h.at = "apply" /\ h.of = hand[t].of /\ h.row = hand[t].row /\ h.zone = hand[t].zone
      /\ h.todo = hand[t].todo \ {i}
    BY <1>1 DEF Reload
<1>3. /\ hand' = [hand EXCEPT ![t] = h]
      /\ jobs' = [jobs EXCEPT ![i] = Loaded(i, hand[t].row[i], hand[t].zone)]
      /\ UNCHANGED <<inst, zone, queue, up, crossed, missed>>
    BY DEF ApplyRow, rowVars, ghosts
<1> HIDE DEF h
<1>4. hand[t].todo \subseteq Concerns(hand[t].of)
    BY <1>1 DEF LoadInv, BootInv
<1>5. /\ jobs'[i] = Loaded(i, hand[t].row[i], hand[t].zone)
      /\ \A j \in Instances : j # i => jobs'[j] = jobs[j]
    BY <1>3 DEF SInv, TypeOK
<1>6. \A j \in Instances : j \notin Concerns(h.of) => jobs'[j] = jobs[j]
    BY <1>1, <1>2, <1>4, <1>5
<1>7. ASSUME NEW j \in Instances, NEW u \in Loaders, u # t, Reads(u, j),
             Bare(hand[u], j), j \notin crossed
      PROVE  jobs'[j] = None
    <2>1. j # i
        BY <1>1, <1>4, <1>7 DEF LoadInv, AloneInv, Reads
    <2> QED BY <1>5, <1>7, <2>1 DEF LoadInv, DroppedInv
<1>8. hand'[t] = h
    BY <1>3 DEF SInv, HandOK
<1>10. \A j \in Instances : ~Bare(h, j)
    BY <1>2 DEF Bare
<1>9. ASSUME NEW j \in Instances, j \in Concerns(h.of), Clear(j)
      PROVE  Same(t, j)' /\ (j \in h.todo \/ InTable(j)')
    <2>1. Same(t, j) /\ (j \in hand[t].todo \/ InTable(j))
        BY <1>1, <1>2, <1>9 DEF LoadInv, ApplyInv
    <2>2. Same(t, j)'
        BY <1>2, <1>3, <1>8, <2>1 DEF Same
    <2>3. CASE j # i
        BY <1>2, <1>3, <1>5, <2>1, <2>2, <2>3 DEF InTable, Loaded
    <2>4. CASE j = i
        <3>1. InTable(i)'
            BY <1>3, <1>5, <2>1, <2>4 DEF Same, InTable, Loaded
        <3> QED BY <2>2, <2>4, <3>1
    <2> QED BY <2>3, <2>4
<1> QED BY <1>1, <1>2, <1>3, <1>4, <1>6, <1>7, <1>9, <1>10, LoadGoesOn

\* The reload is over.
LEMMA LoadEnd == ASSUME SInv, LoadInv, NEW t \in Loaders, EndReload(t) PROVE LoadInv'
<1> USE ScheduleAssumption
<1>1. hand[t].at = "apply" /\ hand[t].todo = {} /\ hand' = [hand EXCEPT ![t] = Idle]
      /\ up' = (up \/ t = "main") /\ UNCHANGED <<inst, zone, queue, jobs, crossed, missed>>
    BY DEF EndReload, rowVars, ghosts
<1>2. Idle \in Reload /\ Idle.at = "idle"
    BY DEF Idle, Reload
<1>3. /\ hand'[t].at = "idle" /\ \A u \in Loaders : u # t => hand'[u] = hand[u]
      /\ \A i : ~Reads(t, i)'
      /\ \A u \in Loaders : u # t => \A i : Reads(u, i)' <=> Reads(u, i)
    BY <1>1, <1>2, OtherHands DEF SInv
<1>4. /\ \A i : Clear(i)' <=> Clear(i)
      /\ \A i \in Instances : InTable(i)' <=> InTable(i)
    BY <1>1 DEF Clear, Pend, Concerns, InTable, Loaded
<1>5. up' /\ (t # "main" => up)
    BY <1>1 DEF LoadInv, BootInv, Loaders
<1>6. BootInv'
    BY <1>1, <1>3, <1>5 DEF LoadInv, BootInv, Loaders, Concerns
<1>7. AloneInv' /\ DroppedInv'
    BY <1>1, <1>3 DEF LoadInv, AloneInv, DroppedInv, Bare
<1>8. ApplyInv'
    <2> SUFFICES ASSUME NEW i \in Instances, NEW u \in Loaders,
                        hand'[u].at = "apply", Reads(u, i)', Clear(i)
                 PROVE  Same(u, i)' /\ (i \in hand'[u].todo \/ InTable(i)')
        BY <1>4 DEF ApplyInv, Reads
    <2>1. hand'[u] = hand[u] /\ Reads(u, i)
        BY <1>3
    <2>2. Same(u, i) /\ (i \in hand[u].todo \/ InTable(i))
        BY <2>1 DEF LoadInv, ApplyInv, Reads
    <2>3. Same(u, i)'
        BY <1>1, <2>1, <2>2 DEF Same
    <2> QED BY <1>4, <2>1, <2>2, <2>3
<1>9. TableInv'
    <2> SUFFICES ASSUME NEW i \in Instances, Clear(i), \A u \in Loaders : ~Reads(u, i)'
                 PROVE  InTable(i)
        BY <1>4 DEF TableInv
    <2>1. CASE Reads(t, i)
        BY <1>1, <2>1 DEF LoadInv, ApplyInv, Reads
    <2>2. CASE ~Reads(t, i)
        <3>1. \A u \in Loaders : ~Reads(u, i)
            BY <1>3, <2>2
        <3>2. up
            <4>1. CASE t = "main"
                <5>1. i \in Concerns(hand[t].of)
                    BY <1>1, <4>1, Concerned DEF LoadInv, BootInv
                <5> QED BY <1>1, <2>2, <5>1 DEF Reads
            <4> QED BY <1>5, <4>1
        <3> QED BY <3>1, <3>2 DEF LoadInv, TableInv
    <2> QED BY <2>1, <2>2
<1> QED BY <1>6, <1>7, <1>8, <1>9 DEF LoadInv

\* The worker dies, boots, and the web stops with commands in its socket.
LEMMA LoadFault == ASSUME SInv, LoadInv, Crash \/ Boot \/ WebStops PROVE LoadInv'
<1> USE ScheduleAssumption
<1>1. CASE Crash
    <2>1. \A t \in Loaders : hand'[t].at = "idle"
        BY <1>1 DEF Crash, Idle
    <2>2. ~up' /\ \A i \in Instances : jobs'[i] = None
        BY <1>1 DEF Crash
    <2>3. Threads \subseteq Loaders /\ "main" \in Loaders
        BY DEF Loaders
    <2>4. BootInv'
        BY <2>1, <2>2, <2>3 DEF BootInv
    <2>5. AloneInv' /\ DroppedInv' /\ ApplyInv' /\ TableInv'
        BY <2>1, <2>2 DEF Bare, AloneInv, DroppedInv, ApplyInv, TableInv, Reads
    <2> QED BY <2>4, <2>5 DEF LoadInv
<1>2. CASE Boot
    <2> DEFINE h == [Idle EXCEPT !.of = All, !.at = "read"]
    <2>1. h \in Reload /\ h.at = "read" /\ h.of = All
        BY DEF Idle, Reload, Targets
    <2>2. /\ hand' = [hand EXCEPT !["main"] = h] /\ ~up /\ hand["main"].at = "idle"
          /\ crossed' = {} /\ UNCHANGED <<jobs, up>>
        BY <1>2 DEF Boot
    <2> HIDE DEF h
    <2>3. "main" \in Loaders /\ Threads \subseteq Loaders /\ \A u \in Loaders : u # "main" => u \in Threads
        BY DEF Loaders
    <2>4. hand'["main"] = h /\ \A u \in Loaders : u # "main" => hand'[u].at = "idle"
        <3>1. \A u \in Threads : hand[u].at = "idle"
            BY <2>2 DEF LoadInv, BootInv
        <3>2. hand \in [Loaders -> Reload]
            BY DEF SInv, HandOK
        <3> QED BY <2>2, <2>3, <3>1, <3>2
    <2>5. \A i \in Instances : jobs'[i] = None
        BY <2>2 DEF LoadInv, BootInv
    <2>6. BootInv'
        BY <2>1, <2>2, <2>3, <2>4, <2>5 DEF BootInv
    <2>7. AloneInv' /\ DroppedInv' /\ ApplyInv' /\ TableInv'
        BY <2>1, <2>2, <2>3, <2>4, <2>5 DEF Bare, AloneInv, DroppedInv, ApplyInv, TableInv, Reads
    <2> QED BY <2>6, <2>7 DEF LoadInv
<1>3. CASE WebStops
    <2>1. /\ missed' = missed \cup UNION {Concerns(queue[k]) : k \in 1..Len(queue)}
          /\ UNCHANGED <<inst, zone, jobs, hand, up, crossed>>
        BY <1>3 DEF WebStops, rowVars
    <2>2. ASSUME NEW i \in Instances, Clear(i)' PROVE Clear(i)
        <3>1. i \notin missed' /\ i \notin crossed
            BY <2>1, <2>2 DEF Clear
        <3>2. \A k \in 1..Len(queue) : i \notin Concerns(queue[k])
            BY <2>1, <3>1
        <3> QED BY <2>1, <3>1, <3>2 DEF Clear, Pend
    <2>3. \A i \in Instances : Clear(i)' => Clear(i) /\ zone' = zone /\ inst'[i] = inst[i]
        BY <2>1, <2>2
    <2> QED BY <2>1, <2>3, LoadEdit
<1> QED BY <1>1, <1>2, <1>3

\* Every step keeps the invariant of the reloads.
LEMMA LoadInductive == ASSUME SInv, LoadInv, [Next]_vars PROVE LoadInv'
<1>1. CASE UNCHANGED vars
    BY <1>1, LoadSame DEF vars, rowVars, loadVars, ghosts
<1>2. ASSUME NEW t \in Loaders, Load(t) PROVE LoadInv'
    BY <1>2, LoadList, LoadDrop, LoadDropped, LoadDropFails, LoadRead, LoadApply, LoadEnd DEF Load
<1>3. ASSUME NEW i \in Instances, Fire(i) \/ BackupNow(i) \/ Succeed(i) \/ FailRun(i) \/ ClearStaleFlag(i)
      PROVE  LoadInv'
    BY <1>3, LoadSame DEF Fire, BackupNow, Start, Succeed, FailRun, ClearStaleFlag, rowVars, loadVars, ghosts
<1>4. ASSUME Watch \/ Tick PROVE LoadInv'
    BY <1>4, LoadSame DEF Watch, BeginPass, CheckInstance, CommitPass, Tick, rowVars, loadVars, ghosts
<1>5. CASE Next
    BY <1>2, <1>3, <1>4, <1>5, LoadWeb, LoadTake, LoadFault DEF Next
<1> QED BY <1>1, <1>5

\* Once its reloads are over, the scheduler fires an instance by the row and the
\* default zone of now (reload_instance, reload_all, load_all_jobs), for any number
\* of instances, handler threads, edits, crashes and lost commands.
THEOREM SchedulesMatch == Spec => []ScheduleMatches
<1>1. ASSUME LoadInv PROVE ScheduleMatches
    <2> SUFFICES ASSUME NEW i \in Instances, Settled(i), i \notin crossed \cup missed,
                        inst[i] # None => inst[i].cron \notin OddCrons
                 PROVE  jobs[i] = Loaded(i, inst[i], zone)
        BY DEF ScheduleMatches
    <2>1. up /\ Clear(i) /\ \A t \in Loaders : ~Reads(t, i)
        BY InHandReads DEF Settled, Clear, Pend
    <2>2. InTable(i)
        BY <1>1, <2>1 DEF LoadInv, TableInv
    <2> QED BY <2>2 DEF InTable
<1>2. Spec => []LoadInv
    <2>1. Init => LoadInv
        BY LoadInit
    <2>2. SInv /\ LoadInv /\ [Next]_vars => LoadInv'
        BY LoadInductive
    <2> QED BY <2>1, <2>2, SInvariant, PTL DEF Spec
<1> QED BY <1>1, <1>2, PTL

=============================================================================
