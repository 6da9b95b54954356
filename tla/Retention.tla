------------------------------ MODULE Retention ------------------------------
(***************************************************************************)
(* Retention of one instance's backups: the keep-set of                    *)
(* pfsense_shared/retention.py, and how it acts over time when the worker  *)
(* prunes before each new backup is recorded, unlinks fail, the web adopts *)
(* old files, and a backup dies between pruning and recording.             *)
(*                                                                         *)
(* A backup is its row id and its started_at.  Time is counted in ticks;   *)
(* calendar days, ISO weeks and months are functions of the tick.          *)
(***************************************************************************)
EXTENDS Naturals, FiniteSets

CONSTANTS
    Day,           \* ticks per day
    WeekDays,      \* days per week
    MonthDays,     \* days per month of the monthly window (31 in the code)
    MonthOf(_),    \* the calendar month of a day
    Policies,      \* the retention policies considered
    MaxTime,       \* bound: ticks
    MaxBackups,    \* bound: rows ever created
    MaxImports,    \* bound: imports are among the first rows
    None

Tiers == {"all", "daily", "weekly", "monthly"}

\* RetentionPolicy: the count cap and, per tier, its length or None.
Policy == [cap: Nat, tier: [Tiers -> Nat \cup {None}]]

ASSUME RetentionAssumption ==
    /\ Day \in Nat \ {0} /\ WeekDays \in Nat \ {0} /\ MonthDays \in Nat \ {0}
    /\ Policies \subseteq Policy
    /\ MaxTime \in Nat /\ MaxBackups \in Nat /\ MaxImports \in Nat
    /\ None \notin Nat

VARIABLES
    now,       \* the clock
    policy,    \* the instance's policy
    rows,      \* successful, locally present Backup rows
    taken,     \* every backup that ever had such a row
    pending,   \* the backup in progress: its started_at, and whether it has pruned
    nextId     \* next row id (bounded by MaxBackups)

vars == <<now, policy, rows, taken, pending, nextId>>

Backup == [id: Nat, ts: Nat]

TypeOK ==
    /\ now \in Nat
    /\ policy \in Policies
    /\ rows \in SUBSET Backup /\ IsFiniteSet(rows)
    /\ taken \in SUBSET Backup /\ rows \subseteq taken
    /\ \A b \in taken : b.ts <= now /\ b.id < nextId
    /\ pending \in [started: Nat \cup {None}, pruned: BOOLEAN]
    /\ pending.started # None => pending.started <= now
    /\ nextId \in Nat

Idle == [started |-> None, pruned |-> FALSE]

Init ==
    /\ now = 0
    /\ policy \in Policies
    /\ rows = {}
    /\ taken = {}
    /\ pending = Idle
    /\ nextId = 0

-----------------------------------------------------------------------------
(* compute_keep_ids.                                                       *)

HasTiers(p) == \E k \in Tiers : p.tier[k] # None

\* The tier's unit in ticks: days, weeks, blocks of 31 days.
Unit(k) == CASE k = "weekly" -> WeekDays * Day
             [] k = "monthly" -> MonthDays * Day
             [] OTHER -> Day

\* started_at >= now - window
InWindow(p, k, b, t) == p.tier[k] # None /\ b.ts + p.tier[k] * Unit(k) >= t

\* bucket_of; keep_all_days keeps each backup for itself.
Bucket(k, b) == CASE k = "daily" -> b.ts \div Day
                  [] k = "weekly" -> b.ts \div (Day * WeekDays)
                  [] k = "monthly" -> MonthOf(b.ts \div Day)
                  [] OTHER -> b.id

\* sorted(..., key=started_at, reverse=True): newest first, ties in any order.
Orderings(B) ==
    {o \in [1..Cardinality(B) -> B] :
        /\ \A b \in B : \E n \in DOMAIN o : o[n] = b
        /\ \A m, n \in DOMAIN o : m < n => o[n].ts <= o[m].ts}

\* Mutant: the oldest of each bucket is kept, not the newest.
BugOldestPerBucket(o, p, t) ==
    {n \in DOMAIN o : \E k \in Tiers :
        /\ InWindow(p, k, o[n], t)
        /\ \A m \in DOMAIN o : m > n /\ InWindow(p, k, o[m], t) => Bucket(k, o[m]) # Bucket(k, o[n])}

\* The union of the tiers: the first hit per bucket inside the tier's window.
TierKeep(o, p, t) ==
    {n \in DOMAIN o : \E k \in Tiers :
        /\ InWindow(p, k, o[n], t)
        /\ \A m \in DOMAIN o : m < n /\ InWindow(p, k, o[m], t) => Bucket(k, o[m]) # Bucket(k, o[n])}

\* Mutant: one too many.
BugFirstOfOne(S, c) == {n \in S : Cardinality({m \in S : m <= n}) <= c + 1}

\* The first c members of S, in order of position.
FirstOf(S, c) == {n \in S : Cardinality({m \in S : m <= n}) <= c}

\* Mutant: the newest is kept only if a tier wants it.
BugForgetNewest(o, p, t) ==
    LET wanted == TierKeep(o, p, t)
    IN  IF p.cap > 0 /\ Cardinality(wanted) > p.cap THEN FirstOf(wanted, p.cap) ELSE wanted

\* With tiers: their union, the newest, and the cap over that.
KeepTiered(o, p, t) ==
    LET wanted == TierKeep(o, p, t) \cup {1}
    IN  IF p.cap > 0 /\ Cardinality(wanted) > p.cap
        THEN FirstOf(wanted, p.cap) \cup {1}
        ELSE wanted

\* Positions of the sorted list that are kept.
KeepPositions(o, p, t) ==
    IF HasTiers(p) THEN KeepTiered(o, p, t)
    ELSE {n \in DOMAIN o : n <= p.cap} \cup {1}

Keep(o, p, t) == {o[n] : n \in KeepPositions(o, p, t)}

-----------------------------------------------------------------------------
(* The backup's life.                                                      *)

Tick ==
    /\ now < MaxTime
    /\ now' = now + 1
    /\ UNCHANGED <<policy, rows, taken, pending, nextId>>

\* backup_instance takes started_at and goes to the network.
Begin ==
    /\ pending = Idle
    /\ pending' = [started |-> now, pruned |-> FALSE]
    /\ UNCHANGED <<now, policy, rows, taken, nextId>>

\* _cleanup_old_backups: every row outside the keep-set is dropped unless its
\* file cannot be unlinked. Nothing is done without a cap and without tiers.
Prune ==
    /\ pending.started # None /\ ~pending.pruned
    /\ pending' = [pending EXCEPT !.pruned = TRUE]
    /\ \/ /\ policy.cap = 0 /\ ~HasTiers(policy)
          /\ UNCHANGED rows
       \/ /\ policy.cap > 0 \/ HasTiers(policy)
          /\ rows = {}
          /\ UNCHANGED rows
       \/ /\ policy.cap > 0 \/ HasTiers(policy)
          /\ rows # {}
          /\ \E o \in Orderings(rows), stuck \in SUBSET rows :
                rows' = Keep(o, policy, now) \cup stuck
    /\ UNCHANGED <<now, policy, taken, nextId>>

\* A successful Backup row with a new id.
Add(ts) ==
    /\ nextId < MaxBackups
    /\ rows' = rows \cup {[id |-> nextId, ts |-> ts]}
    /\ taken' = taken \cup {[id |-> nextId, ts |-> ts]}
    /\ nextId' = nextId + 1

\* _write_backup_history, after the pruning.
Record ==
    /\ pending.started # None /\ pending.pruned
    /\ Add(pending.started)
    /\ pending' = Idle
    /\ UNCHANGED <<now, policy>>

\* The backup fails or its worker dies: its row is not a successful one.
GiveUp ==
    /\ pending.started # None
    /\ pending' = Idle
    /\ UNCHANGED <<now, policy, rows, taken, nextId>>

\* import_backups adopts a file with its mtime, whatever else is going on.
Import ==
    /\ nextId < MaxImports
    /\ \E ts \in 0..now : Add(ts)
    /\ UNCHANGED <<now, policy, pending>>

Next == Tick \/ Begin \/ Prune \/ Record \/ GiveUp \/ Import

Spec == Init /\ [][Next]_vars

-----------------------------------------------------------------------------
(* Properties.                                                             *)

\* The newest backup ever taken has a row (or one of the same time has): no
\* sequence of prunings, imports and failures loses the latest configuration.
NewestSurvives ==
    taken # {} => \E r \in rows : \A b \in taken : b.ts <= r.ts

\* Without a cap, each day, week and month that a tier's window reaches and in
\* which a backup was taken still has a backup at least as new, however often
\* pruning ran in between; so a bucket's representative only changes to a newer
\* one (the module docstring's last paragraph).
TiersCovered ==
    policy.cap = 0 =>
        \A b \in taken, k \in Tiers :
            InWindow(policy, k, b, now) =>
                \E r \in rows : Bucket(k, r) = Bucket(k, b) /\ b.ts <= r.ts

\* The cap is tight: at most cap backups are kept, and when it drops one that a
\* tier wanted, exactly cap are kept and none of them is older.
CapTight ==
    policy.cap > 0 => \A o \in Orderings(rows) :
        LET kept == KeepPositions(o, policy, now)
        IN  rows # {} =>
            /\ Cardinality(kept) <= policy.cap
            /\ \A n \in TierKeep(o, policy, now) \ kept :
                  /\ Cardinality(kept) = policy.cap
                  /\ \A m \in kept : o[n].ts <= o[m].ts
=============================================================================
