------------------------------ MODULE History ------------------------------
(***************************************************************************)
(* The history of one instance's configuration: the cached diffs of each   *)
(* backup against the previous and the first one, and the log of anchor    *)
(* events that the blame, tooltip and cumulative views read.               *)
(*                                                                         *)
(* A backup is ingested after its row is committed; the web recomputes a   *)
(* diff whose base has changed; retention and operators delete backups;    *)
(* files get lost; older files are imported; the reindex command rebuilds  *)
(* the log. Each of them reads first and writes later. A new row takes the *)
(* id after the highest one, which may have been used before.              *)
(***************************************************************************)
EXTENDS ConfigDiff

CONSTANTS
    Configs,      \* configurations the firewall may have
    Samples,      \* configurations two of which are compared
    MaxId,        \* bound: ids of backups
    MaxBackups,   \* bound: backups made
    MaxFaults,    \* bound: deletions, lost files, imports and reindex runs
    MaxViews      \* bound: views that recompute a diff

Ids == 1..MaxId
Kinds == {"previous", "first"}
EventKinds == {"added", "modified", "removed", "reordered"}
Row == [at: 0..MaxBackups, no: 1..(MaxBackups + MaxFaults), cfg: Configs, lost: BOOLEAN]
Snapshot == [id: Ids, no: Nat, cfg: Configs \cup {None}]
Ingest == [of: Ids, no: Nat, at: {"read", "write"}, new: Configs \cup {None},
           base: {<<>>} \cup [Kinds -> Snapshot \cup {None}]]

ASSUME HistoryAssumption ==
    /\ \A c \in Configs \cup Samples : IsConfig(c)
    /\ MaxId \in Nat /\ MaxBackups \in Nat /\ MaxFaults \in Nat /\ MaxViews \in Nat
    /\ None \notin Nat \cup Configs \cup Row \cup Snapshot \cup Ingest

VARIABLES
    row,      \* Backup rows: when it was made, a number no other row ever has, what was
              \* saved, and whether the file is lost
    diff,     \* BackupDiff rows
    event,    \* AnchorEvent rows
    indexed,  \* Instance.anchor_events_backfilled_at is set
    ingest,   \* the worker's diff step after a backup
    view,     \* a request that recomputes a diff
    rebuild,  \* the reindex command
    made,     \* backups made so far; the clock
    gap,      \* a change between two retained backups is not in the log
    faults, views

vars == <<row, diff, event, indexed, ingest, view, rebuild, made, gap, faults, views>>

Alive == {b \in Ids : row[b] # None}
Readable == {b \in Alive : ~row[b].lost}
Earlier(b) == {p \in Alive : row[p].at < row[b].at}
Latest(S) == CHOOSE b \in S : \A p \in S : row[p].at <= row[b].at
Oldest(S) == CHOOSE b \in S : \A p \in S : row[b].at <= row[p].at

TypeOK ==
    /\ \A b \in Ids : row[b] = None \/ row[b] \in Row
    /\ \A b \in Ids, k \in Kinds : diff[b, k] # None =>
          /\ b \in Alive
          /\ diff[b, k].base \in Ids \cup {None}
          /\ diff[b, k].raced \in BOOLEAN
    /\ \A e \in event : e.of \in Alive /\ e.prev \in Alive \cup {None} /\ e.kind \in EventKinds
    /\ indexed \in BOOLEAN /\ gap \in BOOLEAN
    /\ ingest = None \/ ingest.of \in Ids
    /\ view = None \/ view.of \in Ids
    /\ rebuild.at \in {"idle", "listed", "locked"} /\ rebuild.list \subseteq Ids
    /\ made \in 0..MaxBackups /\ faults \in 0..MaxFaults /\ views \in 0..MaxViews

Init ==
    /\ row = [b \in Ids |-> None]
    /\ diff = [p \in Ids \X Kinds |-> None]
    /\ event = {}
    /\ indexed = FALSE
    /\ ingest = None /\ view = None
    /\ rebuild = [at |-> "idle", list |-> {}]
    /\ made = 0 /\ gap = FALSE /\ faults = 0 /\ views = 0

\* SQLite has one writer; the reindex command is it until its commit.
CanWrite == rebuild.at # "locked"
-----------------------------------------------------------------------------
(* The worker.                                                             *)

\* Mutant: the previous backup is looked for in the wrong order.
BugBase(b, kind) ==
    LET S == IF kind = "previous" THEN Earlier(b) ELSE Alive \ {b} IN
    IF S = {} THEN None ELSE Oldest(S)

\* The base of a diff: the worker's two queries, and _find_base.
Base(b, kind) ==
    LET S == IF kind = "previous" THEN Earlier(b) ELSE Alive \ {b} IN
    IF S = {} THEN None ELSE IF kind = "previous" THEN Latest(S) ELSE Oldest(S)

\* A row that is inserted; the number comes from a clock of insertions and faults.
NewRow(at, c) == [at |-> at, no |-> made + faults + 1, cfg |-> c, lost |-> FALSE]

\* _write_backup_history; one backup of an instance at a time.
Backup(c) ==
    /\ ingest = None /\ CanWrite /\ made < MaxBackups
    /\ LET b == 1 + Max({0} \cup Alive) IN
       /\ b \in Ids
       /\ row' = [row EXCEPT ![b] = NewRow(made + 1, c)]
       /\ ingest' = [of |-> b, no |-> made + faults + 1, at |-> "read", new |-> None, base |-> <<>>]
    /\ made' = made + 1
    /\ UNCHANGED <<diff, event, indexed, view, rebuild, gap, faults, views>>

\* A base together with what was read of it (read_backup_bytes and parse).
Read(b) ==
    IF b = None THEN None
    ELSE [id |-> b, no |-> row[b].no, cfg |-> IF row[b].lost THEN None ELSE row[b].cfg]

\* _compute_and_persist_diffs reads the new backup and both bases ...
IngestRead ==
    /\ ingest # None /\ ingest.at = "read"
    /\ IF ingest.of \in Readable
       THEN ingest' = [ingest EXCEPT !.at = "write", !.new = row[ingest.of].cfg,
                                     !.base = [k \in Kinds |-> Read(Base(ingest.of, k))]] /\ UNCHANGED gap
       ELSE ingest' = None /\ gap' = TRUE
    /\ UNCHANGED <<row, diff, event, indexed, view, rebuild, made, faults, views>>

Usable(r) == r # None /\ r.cfg # None
DiffRow(r, new, raced) == [base |-> r.id, body |-> DiffConfigs(r.cfg, new), raced |-> raced]
Logged(es, b, p) == {[of |-> b, prev |-> p, anchor |-> e.anchor, kind |-> e.kind, val |-> e.val] : e \in es}

\* The id has been given to another backup since it was read.
Reused(b, no) == b \in Alive /\ row[b].no # no

\* Foreign keys: the rows written must name backups that exist.
IngestFits == ingest.of \in Alive /\ \A k \in Kinds : Usable(ingest.base[k]) => ingest.base[k].id \in Alive

\* ... and writes diffs and events in one commit; the first backup of the instance
\* is logged whole and the instance counts as indexed.
IngestCommit ==
    /\ ingest # None /\ ingest.at = "write" /\ CanWrite /\ IngestFits
    /\ LET b == ingest.of
           prev == ingest.base["previous"]
           seeds == prev = None /\ ingest.base["first"] = None
           raced(k) == Reused(b, ingest.no) \/ Reused(ingest.base[k].id, ingest.base[k].no)
       IN /\ diff' = [p \in Ids \X Kinds |->
                        IF p[1] = b /\ Usable(ingest.base[p[2]])
                        THEN DiffRow(ingest.base[p[2]], ingest.new, raced(p[2])) ELSE diff[p]]
          /\ event' = event \cup
                (IF Usable(prev) THEN Logged(DiffToAnchorEvents(DiffConfigs(prev.cfg, ingest.new), ingest.new), b, prev.id)
                 ELSE IF seeds THEN Logged(SeedEvents(ingest.new), b, None) ELSE {})
          /\ indexed' = (indexed \/ seeds)
          /\ gap' = (IF seeds THEN Reused(b, ingest.no) \/ (gap /\ Alive # {b})
                   ELSE gap \/ ~Usable(prev) \/ raced("previous"))
    /\ ingest' = None
    /\ UNCHANGED <<row, view, rebuild, made, faults, views>>

\* The commit fails (a base is gone, or the database stays locked for more than
\* five seconds); the backup counts as a success all the same.
IngestFail ==
    /\ ingest # None /\ ingest.at = "write" /\ (~CanWrite \/ ~IngestFits)
    /\ ingest' = None
    /\ gap' = TRUE
    /\ UNCHANGED <<row, diff, event, indexed, view, rebuild, made, faults, views>>
-----------------------------------------------------------------------------
(* Deletions, imports and lost files.                                      *)

Fault == faults < MaxFaults /\ faults' = faults + 1

\* Mutant: a diff row keeps the id of a base that is gone.
BugForgotten(d, b) == d

\* ON DELETE SET NULL of BackupDiff.base_backup_id.
Forgotten(d, b) == IF d # None /\ d.base = b THEN [d EXCEPT !.base = None] ELSE d

\* Mutant: events outlive their backup.
BugCascaded(b) == {IF e.prev = b THEN [e EXCEPT !.prev = None] ELSE e : e \in event}

\* ON DELETE CASCADE and SET NULL of AnchorEvent.
Cascaded(b) == {IF e.prev = b THEN [e EXCEPT !.prev = None] ELSE e : e \in {f \in event : f.of # b}}

\* Retention or delete_backup. Diffs and events of the backup go with it.
Delete(b) ==
    /\ Fault /\ CanWrite /\ b \in Alive
    /\ row' = [row EXCEPT ![b] = None]
    /\ diff' = [p \in Ids \X Kinds |-> IF p[1] = b THEN None ELSE Forgotten(diff[p], b)]
    /\ event' = Cascaded(b)
    /\ gap' = (gap \/ (Earlier(b) # {} /\ \E p \in Alive : b \in Earlier(p)))
    /\ UNCHANGED <<indexed, ingest, view, rebuild, made, views>>

\* A file that cannot be read, decrypted or parsed any more.
LoseFile(b) ==
    /\ Fault /\ b \in Readable
    /\ row' = [row EXCEPT ![b].lost = TRUE]
    /\ UNCHANGED <<diff, event, indexed, ingest, view, rebuild, made, gap, views>>

\* import_backups adopts a file older than every backup, without diffs or events.
Import(c) ==
    /\ Fault /\ CanWrite /\ \A b \in Alive : row[b].at # 0
    /\ LET b == 1 + Max({0} \cup Alive) IN
       /\ b \in Ids
       /\ row' = [row EXCEPT ![b] = NewRow(0, c)]
    /\ gap' = (gap \/ Alive = {})
    /\ UNCHANGED <<diff, event, indexed, ingest, view, rebuild, made, views>>
-----------------------------------------------------------------------------
(* The web: backup_diff_summary, backup_diff_vs_first_parsed.              *)

\* _is_fresh
IsFresh(b, kind) == diff[b, kind] # None /\ diff[b, kind].base = Base(b, kind)

\* A view of a diff that is missing or stale: rows are snapshotted and the session
\* is closed.
OpenDiff(b, kind) ==
    /\ view = None /\ b \in Alive /\ Base(b, kind) # None /\ ~IsFresh(b, kind)
    /\ views < MaxViews /\ views' = views + 1
    /\ view' = [of |-> b, kind |-> kind, at |-> "read", new |-> None,
                base |-> Read(Base(b, kind)), no |-> row[b].no]
    /\ UNCHANGED <<row, diff, event, indexed, ingest, rebuild, made, gap, faults>>

\* backup_diff_summary looks at both diffs, backup_diff_vs_first_parsed at one.
DiffSummary(b) == \E k \in Kinds : OpenDiff(b, k)
DiffVsFirst(b) == OpenDiff(b, "first")

\* The file of a snapshot: gone with its row, or lost. (A file imported later has
\* another name.)
FileOf(b, no) == IF b \in Readable /\ row[b].no = no THEN row[b].cfg ELSE None

\* _recompute_diff_row: the files are read without a session ...
ReadDiff ==
    /\ view # None /\ view.at = "read"
    /\ LET new == FileOf(view.of, view.no)
           old == FileOf(view.base.id, view.base.no) IN
       view' = IF None \in {new, old} THEN None
               ELSE [view EXCEPT !.at = "write", !.new = new, !.base.cfg = old]
    /\ UNCHANGED <<row, diff, event, indexed, ingest, rebuild, made, gap, faults, views>>

\* ... and the row is replaced in a session of its own, unless a foreign key fails.
WriteDiff ==
    /\ view # None /\ view.at = "write" /\ CanWrite
    /\ IF {view.of, view.base.id} \subseteq Alive
       THEN LET raced == Reused(view.of, view.no) \/ Reused(view.base.id, view.base.no) IN
            diff' = [diff EXCEPT ![<<view.of, view.kind>>] = DiffRow(view.base, view.new, raced)]
       ELSE UNCHANGED diff
    /\ view' = None
    /\ UNCHANGED <<row, event, indexed, ingest, rebuild, made, gap, faults, views>>
-----------------------------------------------------------------------------
(* The reindex command.                                                    *)

\* _reindex_one_instance lists the backups; without any it only sets the mark.
ReindexList ==
    /\ Fault /\ rebuild.at = "idle"
    /\ IF Alive = {} THEN indexed' = TRUE /\ UNCHANGED rebuild
       ELSE rebuild' = [at |-> "listed", list |-> Alive] /\ UNCHANGED indexed
    /\ UNCHANGED <<row, diff, event, ingest, view, made, gap, views>>

\* The deletion of the old events opens the transaction ...
ReindexLock ==
    /\ rebuild.at = "listed"
    /\ rebuild' = [rebuild EXCEPT !.at = "locked"]
    /\ UNCHANGED <<row, diff, event, indexed, ingest, view, made, gap, faults, views>>

\* The listed backups that can be read, each with the one before it.
Walked == rebuild.list \cap Readable
Before(b) == LET S == Walked \cap Earlier(b) IN IF S = {} THEN None ELSE Latest(S)
Rebuilt(b) ==
    IF Before(b) = None THEN Logged(SeedEvents(row[b].cfg), b, None)
    ELSE Logged(DiffToAnchorEvents(DiffConfigs(row[Before(b)].cfg, row[b].cfg), row[b].cfg), b, Before(b))

\* ... and the walk ends in its commit, or fails at a backup that is gone.
ReindexCommit ==
    /\ rebuild.at = "locked"
    /\ IF rebuild.list \subseteq Alive
       THEN /\ event' = UNION {Rebuilt(b) : b \in Walked}
            /\ indexed' = TRUE
            /\ gap' = (rebuild.list # Alive \/ Walked # Alive)
       ELSE UNCHANGED <<event, indexed, gap>>
    /\ rebuild' = [at |-> "idle", list |-> {}]
    /\ UNCHANGED <<row, diff, ingest, view, made, faults, views>>

\* The command is stopped: the transaction is rolled back.
ReindexKilled ==
    /\ rebuild.at = "locked"
    /\ rebuild' = [at |-> "idle", list |-> {}]
    /\ UNCHANGED <<row, diff, event, indexed, ingest, view, made, gap, faults, views>>

Next ==
    \/ \E c \in Configs : Backup(c) \/ Import(c)
    \/ IngestRead \/ IngestCommit \/ IngestFail
    \/ \E b \in Ids : Delete(b) \/ LoseFile(b) \/ DiffSummary(b) \/ DiffVsFirst(b)
    \/ ReadDiff \/ WriteDiff
    \/ ReindexList \/ ReindexLock \/ ReindexCommit \/ ReindexKilled

Spec == Init /\ [][Next]_vars
-----------------------------------------------------------------------------
(* Reading the log.                                                        *)

\* _anchor_event_kind_priority
Priority == [modified |-> 1, added |-> 2, removed |-> 3, reordered |-> 4]

\* Of the events of one backup the one with the most to say.
Foremost(S) == CHOOSE e \in S : \A f \in S : Priority[e.kind] <= Priority[f.kind]
Deduped(S) == {Foremost({f \in S : f.of = b}) : b \in {e.of : e \in S}}

\* instance_anchor_history, indexed: one entry for each backup with an event.
IndexedHistory(anchor) == Deduped({e \in event : e.anchor = anchor})

\* instance_anchor_history, not indexed: every file is read, the value resolved and
\* compared with the one before (the walk aborts at a file it cannot read).
WalkHistory(anchor) ==
    [b \in Alive |->
        [value |-> Resolve(row[b].cfg, anchor),
         isChange |-> \/ Earlier(b) = {}
                      \/ Resolve(row[Latest(Earlier(b))].cfg, anchor) # Resolve(row[b].cfg, anchor)]]

\* instance_anchor_blame_summary: the newest event of an anchor as of backup b.
BlameCandidates(anchor, b) ==
    {e \in event : e.anchor = anchor /\ row[e.of].at <= row[b].at}
Blame(anchor, b) ==
    LET S == Deduped(BlameCandidates(anchor, b)) IN
    CHOOSE e \in S : \A f \in S : row[f.of].at <= row[e.of].at

\* Mutant: the window has no end.
BugInWindow(e, since, until) == row[since].at <= row[e.of].at

\* since and until are swapped when they are the wrong way round.
InWindow(e, since, until) ==
    \/ row[since].at <= row[e.of].at /\ row[e.of].at <= row[until].at
    \/ row[until].at <= row[e.of].at /\ row[e.of].at <= row[since].at

\* instance_cumulative_changes: the events of an anchor in the window; and, when there
\* are any, the last one and the number of backups that changed the anchor.
Windowed(anchor, since, until) ==
    Deduped({e \in event : e.anchor = anchor /\ InWindow(e, since, until)})
Cumulative(anchor, since, until) ==
    LET S == Windowed(anchor, since, until) IN
    [last |-> CHOOSE e \in S : \A f \in S : row[f.of].at <= row[e.of].at,
     count |-> Cardinality({e.of : e \in S})]

\* A value as the resolver would give it.
Shown(anchor, v) == IF anchor[1] = "xref" THEN v ELSE Stringify(v)
Describes(e, c) ==
    Resolve(c, e.anchor) = IF e.kind = "removed" THEN None ELSE Shown(e.anchor, e.val)

\* No two rows of the configuration share the anchor.
Sole(c, anchor) ==
    anchor[1] = "xref" => \A m, n \in At(RowsIn(c, anchor[2]), anchor[3]) : m = n

\* The anchors whose changes the projection loses: of packages and of records in records.
Unlogged(anchor) ==
    anchor = Telegraf \/ anchor[2] = "haproxy_backend" \/ \E f \in NestedFields : anchor = Rescope(f)

\* The others, unless rows of some retained backup share them.
Followed(anchor) == ~Unlogged(anchor) /\ \A b \in Alive : Sole(row[b].cfg, anchor)
Anchors == {e.anchor : e \in event}
Settled == indexed /\ ~gap /\ ingest = None
-----------------------------------------------------------------------------
(* Properties.                                                             *)

\* The newest event of an anchor as of any backup describes the value the anchor has
\* in that backup, whatever was deleted, imported or rebuilt; for the anchors that are
\* followed, and unless a backup between two others was deleted or could not be ingested.
BlameDescribes ==
    Settled =>
        \A b \in Alive : \A anchor \in {a \in Anchors : Followed(a)} :
            BlameCandidates(anchor, b) # {} => Describes(Blame(anchor, b), row[b].cfg)

\* The indexed timeline misses no change the walk over the files would show: an
\* anchor with another value than in the backup before has an event that says so
\* (instance_anchor_history answers the same either way), if the anchor is followed.
WalkChangesIndexed ==
    Settled /\ Alive = Readable =>
        \A anchor \in {x[1] : x \in UNION {EnumerateAnchors(row[q].cfg) : q \in Alive}} :
            \A b \in Alive :
                /\ Followed(anchor) /\ \E p \in Earlier(b) : row[p].at # 0
                /\ WalkHistory(anchor)[b].isChange
                => \E e \in IndexedHistory(anchor) : e.of = b /\ e.kind # "reordered"

\* The cumulative view between any two backups ends at what the later one holds, and
\* counts at least the changes in between, of every anchor that is followed.
CumulativeSound ==
    Settled /\ Alive = Readable =>
        \A anchor \in {a \in Anchors : Followed(a)} : \A since, until \in Alive :
            LET c == Cumulative(anchor, since, until)
                changes == {b \in Alive : /\ row[since].at < row[b].at /\ row[b].at <= row[until].at
                                          /\ \E p \in Earlier(b) : row[p].at # 0
                                          /\ WalkHistory(anchor)[b].isChange}
            IN row[since].at <= row[until].at =>
                  IF Windowed(anchor, since, until) = {} THEN changes = {}
                  ELSE Describes(c.last, row[until].cfg) /\ Cardinality(changes) <= c.count

\* A cached diff that names its base is the diff of the two files as they were
\* stored, also when ids are used again; unless base or backup was replaced while
\* the diff was being recomputed.
CachedDiffTrue ==
    \A b \in Alive, k \in Kinds :
        LET d == diff[b, k] IN
        d # None /\ ~d.raced /\ d.base # None => d.base \in Alive /\ d.body = DiffConfigs(row[d.base].cfg, row[b].cfg)

\* The rows of a list that no later row with the same key hides, with their positions.
Visible(s) == {<<n, s[n]>> : n \in {m \in DOMAIN s : \A l \in DOMAIN s : l > m => s[l].key # s[m].key}}
SameConfig(a, b) ==
    /\ Visible(a.rules) = Visible(b.rules)
    /\ {p[2] : p \in Visible(a.aliases)} = {p[2] : p \in Visible(b.aliases)}
    /\ a.dns = b.dns /\ a.pkgs = b.pkgs

\* The two properties of the diff alone are looked at once, in the initial state.
Pristine == made = 0 /\ faults = 0

\* A diff is empty exactly between configurations that are equal but for the order of
\* their aliases (pfsense_diff: "same rules, shuffled" is a change) and for rows that a
\* later row with the same key hides, which it never sees (_diff_list).
DiffSeesAll == Pristine => \A a, b \in Samples : IsEmpty(DiffConfigs(a, b)) <=> SameConfig(a, b)

\* Every anchor the projector writes is one the resolver finds, with the text of a
\* value that was written under it: the only one, unless rows share the anchor
\* (anchor_events: "the two paths stay round-trippable"). Records in records are
\* written as dictionaries and resolved as what str() prints of the model.
AnchorsRoundTrip ==
    Pristine =>
        \A c \in Samples : \A p \in EnumerateAnchors(c) :
            \/ \E f \in NestedFields : p[1] = Rescope(f)
            \/ \E q \in EnumerateAnchors(c) : q[1] = p[1] /\ Resolve(c, p[1]) = Shown(q[1], q[2])
=============================================================================
