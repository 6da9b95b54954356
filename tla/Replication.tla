---------------------------- MODULE Replication ----------------------------
(***************************************************************************)
(* The off-site copies of one instance's backups: the replica columns of   *)
(* the Backup rows, the objects at the destination, and who works on them. *)
(* A backup prunes, records and uploads, a retrieval and a re-encrypt hold *)
(* the instance lock; the retry sweep, the command-line tools and the web  *)
(* do not, and every one of them reads a row, talks to the network and     *)
(* writes the row again later.                                             *)
(*                                                                         *)
(* Files are their encryption password; an object is what is inside, the   *)
(* replication password around it and whose random salt that layer has.    *)
(* Backup i has its own path and object keys (file names are unique).      *)
(*                                                                         *)
(* SQLite gives the id of a deleted row to a later one. A statement by the *)
(* id of a row that is gone then finds that later row, of this instance or *)
(* another: it is Strike that says what this does to a row followed here.  *)
(***************************************************************************)
EXTENDS Naturals

CONSTANTS
    Sweeps,       \* threads and commands that run sweep_pending
    Silent,       \* those of them that have no notifier (replicate-backfill)
    Passwords,    \* encryption passwords of the instance
    Plain,        \* not encrypted
    Configs,      \* settings put_replication may be given
    MaxAttempts,  \* MAX_ATTEMPTS
    AlertAfter,   \* ALERT_AFTER_ATTEMPTS
    MaxIds,       \* bound: backups
    MaxEvents,    \* bound: crashes, lost objects, strikes, changes of settings and
                  \* passwords
    None

Ids == 1..MaxIds
Keys == Passwords \cup {Plain}
Uploaders == Sweeps \cup {"backup"}
Suffixes == {"xml", "enc", "2x"}
Objects == Ids \X Suffixes
ReplPasswords == {c.pw : c \in Configs}

Maybe(S) == S \cup {None}

Bodies == Keys \cup ReplPasswords
Payload == [inner: Bodies, outer: Maybe(ReplPasswords), salt: Maybe(Uploaders), whole: BOOLEAN]
Status == {"null", "pending", "done", "failed", "skipped"}
Row == [local: BOOLEAN, pw: Keys, status: Status, attempts: Nat,
        key: Maybe(Suffixes), sha: Maybe(Payload)]

ASSUME ReplicationAssumption ==
    /\ MaxIds \in Nat /\ MaxEvents \in Nat
    /\ MaxAttempts \in Nat /\ AlertAfter \in Nat
    /\ Silent \subseteq Sweeps /\ "backup" \notin Sweeps
    /\ Plain \notin Passwords /\ Plain \notin ReplPasswords
    /\ Configs \subseteq [enabled: BOOLEAN, mirror: BOOLEAN, encrypt: BOOLEAN,
                          double: BOOLEAN, pw: ReplPasswords]
    /\ None \notin Row /\ None \notin Payload /\ None \notin Suffixes \cup Keys

VARIABLES
    row,      \* successful Backup rows
    file,     \* local files
    remote,   \* objects at the destination
    cfg,      \* the ReplicationSettings row
    next,     \* next backup
    jpc,      \* what the holder of the instance lock does next
    stale,    \* retention: rows still to unlink, with what was read of them
    fate,     \* retention: what the commit will do to the rows unlinked
    fetch,    \* retrieve_replica: what it read of the row
    todo,     \* sweep_pending: rows listed and their attempts when listed
    up,       \* replicate_backup: the attempt each uploader makes
    check,    \* verify_replicas: a row listed as done
    web,      \* delete_backup: the row whose file it has unlinked
    doomed,   \* objects that prune (mirror_deletes) or the web want deleted
    alerts,   \* alerts sent per backup after a failed attempt was counted
    rekeyed,  \* backups re-encrypted after they were queued for upload
    lost,     \* objects the destination lost
    struck,   \* rows hit by a statement meant for an earlier row with their id
    faults, edits

lockVars == <<jpc, stale, fate, fetch>>
sweepVars == <<todo, up, alerts>>
ghosts == <<rekeyed, lost, struck, faults, edits>>
vars == <<row, file, remote, cfg, next, jpc, stale, fate, fetch, todo, up, check, web, doomed,
          alerts, rekeyed, lost, struck, faults, edits>>

Stale == [id: Ids, fate: {"offsite", "mirror", "drop"}, key: Maybe(Suffixes)]
Fetch == [id: Ids, key: Suffixes, sha: Maybe(Payload), enc: BOOLEAN, cfg: Configs]
Listed == [id: Ids, listed: Nat, tried: BOOLEAN]
Idle == [at |-> "idle", id |-> None, cfg |-> None, enc |-> FALSE, load |-> None, listed |-> 0]
Attempts == [at: {"idle", "next", "snap", "read", "put", "done", "fail"}, id: Maybe(Ids),
             cfg: Maybe(Configs), enc: BOOLEAN, load: Maybe(Payload), listed: Nat]

TypeOK ==
    /\ row \in [Ids -> Maybe(Row)]
    /\ file \in [Ids -> Maybe(Bodies)]
    /\ remote \in [Objects -> Maybe(Payload)]
    /\ cfg \in Configs
    /\ next \in 1..(MaxIds + 1) /\ (jpc = "pending" => next > 1)
    /\ jpc \in {"idle", "unlink", "record", "pending", "upload", "fetch", "restore"}
    /\ stale \subseteq Stale /\ fate \subseteq Stale
    /\ \A s \in stale \cup fate : s.fate \in {"offsite", "mirror"} => s.key # None
    /\ fetch \in Maybe(Fetch) /\ (jpc \in {"fetch", "restore"} => fetch \in Fetch)
    /\ todo \in [Sweeps -> SUBSET Listed]
    /\ up \in [Uploaders -> Attempts]
    /\ \A u \in Uploaders :
          /\ up[u].at # "idle" => up[u].cfg \in Configs
          /\ up[u].at \notin {"idle", "next"} => up[u].id \in Ids
          /\ up[u].at \in {"put", "done"} => up[u].load \in Payload
    /\ check \in Maybe(Ids)
    /\ web \in Maybe([id: Ids, key: Maybe(Suffixes)])
    /\ doomed \subseteq [by: {"prune", "web"}, obj: Objects]
    /\ alerts \in [Ids -> Nat]
    /\ rekeyed \subseteq Ids /\ lost \subseteq Objects /\ struck \subseteq Ids
    /\ faults \in 0..MaxEvents /\ edits \in 0..MaxEvents

Init ==
    /\ row = [i \in Ids |-> None]
    /\ file = [i \in Ids |-> None]
    /\ remote = [o \in Objects |-> None]
    /\ cfg \in {c \in Configs : c.enabled}
    /\ next = 1
    /\ jpc = "idle" /\ stale = {} /\ fate = {} /\ fetch = None
    /\ todo = [s \in Sweeps |-> {}]
    /\ up = [u \in Uploaders |-> Idle]
    /\ check = None /\ web = None /\ doomed = {}
    /\ alerts = [i \in Ids |-> 0]
    /\ rekeyed = {} /\ lost = {} /\ struck = {}
    /\ faults = 0 /\ edits = 0

\* One more event fits into the bound.
Quota == faults + edits < MaxEvents

Rows == {i \in Ids : row[i] # None}
LocalRows == {i \in Rows : row[i].local}

\* load_config: there are settings to work with. An attempt keeps those it loaded.
Loads == cfg.enabled

\* _mark: the row, if it is still there, gets the fields of r. (If it is gone and
\* its id was given to another row, that row does: Strike.)
Mark(i, r) == row' = IF row[i] = None THEN row ELSE [row EXCEPT ![i] = r]
-----------------------------------------------------------------------------
(* One upload attempt, replicate_backup.                                   *)

\* prepare_payload and object_key: which layer goes around the source, and the
\* suffix that says so. enc is what the row said, body what the file holds.
Wraps(c, enc) == IF enc THEN c.double ELSE c.encrypt
Suffix(c, enc) == IF enc THEN (IF c.double THEN "2x" ELSE "enc")
                         ELSE (IF c.encrypt THEN "enc" ELSE "xml")
Prepared(c, enc, body, u) ==
    [inner |-> body, outer |-> IF Wraps(c, enc) THEN c.pw ELSE None,
     salt |-> IF Wraps(c, enc) THEN u ELSE None, whole |-> TRUE]

Obj(u) == <<up[u].id, Suffix(up[u].cfg, up[u].enc)>>

Step(u, label) == up' = [up EXCEPT ![u].at = label]

\* Mutant: >= where the code has = .
BugAlerting(u) == u \in Sweeps \ Silent /\ up[u].listed + 1 >= AlertAfter

\* sweep_pending alerts when the attempts it listed reach the threshold now. (So
\* it does when the row or its file is gone; that alert is not counted here.)
Alerting(u) == u \in Sweeps \ Silent /\ up[u].listed + 1 = AlertAfter

\* The attempt returns to backup_instance, or to the sweep that made it.
Return(u) ==
    /\ up' = [up EXCEPT ![u] = IF u = "backup" THEN Idle ELSE [Idle EXCEPT !.at = "next", !.cfg = up[u].cfg]]
    /\ jpc' = IF u = "backup" THEN "idle" ELSE jpc

\* The row is read; one that is off-site only is an error, one that is gone is not.
Snap(u) ==
    /\ up[u].at = "snap"
    /\ IF row[up[u].id] = None
       THEN Return(u)
       ELSE /\ up' = [up EXCEPT ![u].at = IF row[up[u].id].local THEN "read" ELSE "fail",
                                ![u].enc = row[up[u].id].pw # Plain]
            /\ UNCHANGED jpc
    /\ UNCHANGED <<row, file, remote, cfg, next, stale, fate, fetch, todo, alerts, check, web, doomed, ghosts>>

\* Mutant: the file is sent as it is, without the replication layer.
BugRead(u) ==
    /\ up[u].at = "read" /\ file[up[u].id] # None
    /\ up' = [up EXCEPT ![u].at = "put",
                        ![u].load = [inner |-> file[up[u].id], outer |-> None, salt |-> None, whole |-> TRUE]]
    /\ UNCHANGED <<row, file, remote, cfg, next, lockVars, todo, alerts, check, web, doomed, ghosts>>

\* The file is read: missing on disk means skipped for good; a layer without a
\* password is refused.
Read(u) ==
    /\ up[u].at = "read"
    /\ LET i == up[u].id IN
       IF file[i] = None
       THEN /\ Mark(i, [row[i] EXCEPT !.status = "skipped"])
            /\ Return(u)
       ELSE /\ up' = IF Wraps(up[u].cfg, up[u].enc) /\ up[u].cfg.pw = None
                     THEN [up EXCEPT ![u].at = "fail"]
                     ELSE [up EXCEPT ![u].at = "put",
                                     ![u].load = Prepared(up[u].cfg, up[u].enc, file[i], u)]
            /\ UNCHANGED <<row, jpc>>
    /\ UNCHANGED <<file, remote, cfg, next, stale, fate, fetch, todo, alerts, check, web, doomed, ghosts>>

\* What is at o after an upload of p, and how the upload ended. S3 replaces the
\* object or fails and leaves it; SFTP truncates it first and may stop half-way.
S3Upload(o, p) == {<<p, "done">>, <<remote[o], "fail">>}
SftpUpload(o, p) == {p, [p EXCEPT !.whole = FALSE]} \X {"done", "fail"}

Put(u) ==
    /\ up[u].at = "put"
    /\ \E r \in S3Upload(Obj(u), up[u].load) \cup SftpUpload(Obj(u), up[u].load) :
          /\ remote' = [remote EXCEPT ![Obj(u)] = r[1]]
          /\ Step(u, r[2])
    /\ UNCHANGED <<row, file, cfg, next, lockVars, todo, check, web, doomed, alerts, ghosts>>

\* head_size must be the size that was sent (the request may fail too); then the
\* row says done and describes the object.
MarkDone(u) ==
    /\ up[u].at = "done"
    /\ remote[Obj(u)] # None /\ remote[Obj(u)].whole
    /\ LET i == up[u].id IN
       Mark(i, [row[i] EXCEPT !.status = "done",
                              !.key = Suffix(up[u].cfg, up[u].enc), !.sha = up[u].load])
    /\ Return(u)
    /\ UNCHANGED <<file, remote, cfg, next, stale, fate, fetch, todo, alerts, check, web, doomed, ghosts>>

MarkFailed(u) ==
    /\ up[u].at \in {"done", "fail"}
    /\ LET i == up[u].id IN
       Mark(i, [row[i] EXCEPT !.status = "failed", !.attempts = @ + 1])
    /\ Return(u)
    /\ alerts' = IF Alerting(u) THEN [alerts EXCEPT ![up[u].id] = @ + 1] ELSE alerts
    /\ UNCHANGED <<file, remote, cfg, next, stale, fate, fetch, todo, check, web, doomed, ghosts>>
-----------------------------------------------------------------------------
(* The retry sweep; replicate-backfill marks rows and runs it in place.    *)

Retryable(r) == r.status \in {"pending", "failed"} /\ r.attempts < MaxAttempts /\ r.local

\* sweep_pending lists the rows, with the settings of that moment.
SweepList(s) ==
    /\ up[s].at = "idle" /\ Loads
    /\ \E i \in Rows : Retryable(row[i])
    /\ todo' = [todo EXCEPT ![s] = {[id |-> i, listed |-> row[i].attempts, tried |-> row[i].status = "failed"] :
                                       i \in {j \in Rows : Retryable(row[j])}}]
    /\ up' = [up EXCEPT ![s] = [Idle EXCEPT !.at = "next", !.cfg = cfg]]
    /\ UNCHANGED <<row, file, remote, cfg, next, lockVars, check, web, doomed, alerts, ghosts>>

\* The next listed row: attempted if its backoff is over (always, when it was
\* never attempted), else skipped in this sweep.
SweepNext(s) ==
    /\ up[s].at = "next"
    /\ \E t \in todo[s] :
          /\ todo' = [todo EXCEPT ![s] = @ \ {t}]
          /\ \/ up' = [up EXCEPT ![s].at = "snap", ![s].id = t.id, ![s].listed = t.listed]
             \/ t.tried /\ UNCHANGED up
    /\ UNCHANGED <<row, file, remote, cfg, next, lockVars, check, web, doomed, alerts, ghosts>>

SweepEnd(s) ==
    /\ up[s].at = "next" /\ todo[s] = {}
    /\ up' = [up EXCEPT ![s] = Idle]
    /\ UNCHANGED <<row, file, remote, cfg, next, lockVars, todo, check, web, doomed, alerts, ghosts>>

\* Mutant: rows that gave up are queued anew, their attempts and all.
BugBackfill ==
    /\ \E S \in SUBSET {i \in LocalRows : row[i].status \in {"null", "skipped"}} :
          /\ S # {}
          /\ row' = [i \in Ids |-> IF i \in S THEN [row[i] EXCEPT !.status = "pending"] ELSE row[i]]
    /\ UNCHANGED <<file, remote, cfg, next, lockVars, sweepVars, check, web, doomed, ghosts>>

\* replicate_backfill: rows without a replica state become pending; also a row that
\* its own backup is about to queue, and so queues again.
Backfill ==
    /\ \E S \in SUBSET {i \in LocalRows : row[i].status = "null"} :
          /\ S # {}
          /\ row' = [i \in Ids |-> IF i \in S THEN [row[i] EXCEPT !.status = "pending"] ELSE row[i]]
    /\ UNCHANGED <<file, remote, cfg, next, lockVars, sweepVars, check, web, doomed, ghosts>>
-----------------------------------------------------------------------------
(* verify_replicas, from the command line.                                 *)

\* The done rows are listed; the time between that and the check of one of them is
\* what matters.
VerifyList ==
    /\ check = None /\ Loads
    /\ \E i \in Rows : row[i].status = "done" /\ check' = i
    /\ UNCHANGED <<row, file, remote, cfg, next, lockVars, sweepVars, web, doomed, ghosts>>

\* Missing, other than recorded (--deep), or an error talking to the destination:
\* the row is flipped to failed, whatever it is by then.
VerifyOne ==
    /\ check # None
    /\ UNCHANGED row \/ Mark(check, [row[check] EXCEPT !.status = "failed"])
    /\ check' = None
    /\ UNCHANGED <<file, remote, cfg, next, lockVars, sweepVars, web, doomed, ghosts>>
-----------------------------------------------------------------------------
(* Under the instance lock: a backup.                                      *)

\* Mutant: a row that is waiting for its upload is kept as off-site only.
BugFateOf(i) == IF cfg.enabled /\ ~cfg.mirror THEN "offsite" ELSE "drop"

FateOf(i) ==
    LET has == row[i].status = "done" /\ row[i].key # None
    IN  IF has /\ cfg.enabled /\ ~cfg.mirror THEN "offsite"
        ELSE IF has /\ cfg.enabled THEN "mirror" ELSE "drop"

\* _cleanup_old_backups reads the local rows, their keep-set (left open: Retention
\* has it, and rows may be kept that this module does not follow) and the settings.
PlanPrune ==
    /\ jpc = "idle"
    /\ \E S \in SUBSET LocalRows :
        stale' = {[id |-> i, fate |-> FateOf(i), key |-> row[i].key] : i \in S}
    /\ jpc' = "unlink"
    /\ UNCHANGED <<row, file, remote, cfg, next, fate, fetch, sweepVars, check, web, doomed, ghosts>>

\* One stale row: unlinked, or kept because of an OSError.
Unlink(s) ==
    /\ jpc = "unlink" /\ s \in stale
    /\ stale' = stale \ {s}
    /\ \/ file' = [file EXCEPT ![s.id] = None] /\ fate' = fate \cup {s}
       \/ UNCHANGED <<file, fate>>
    /\ UNCHANGED <<row, remote, cfg, next, jpc, fetch, sweepVars, check, web, doomed, ghosts>>

With(f) == {s.id : s \in {t \in fate : t.fate \in f}}
Mirrored == {[by |-> "prune", obj |-> <<s.id, s.key>>] : s \in {t \in fate : t.fate = "mirror"}}

\* The transaction: rows with an off-site copy stay without their local file, the
\* others go. It fails as a whole when a row to be updated has gone meanwhile,
\* unless another row has that row's id by now.
CommitPrune ==
    /\ jpc = "unlink" /\ stale = {}
    /\ \/ /\ \E i \in With({"offsite"}) : row[i] = None
          /\ jpc' = "idle"
          /\ UNCHANGED <<row, doomed>>
       \/ /\ row' = [i \in Ids |->
                IF i \in With({"mirror", "drop"}) THEN None
                ELSE IF i \in With({"offsite"}) /\ row[i] # None THEN [row[i] EXCEPT !.local = FALSE]
                ELSE row[i]]
          /\ doomed' = doomed \cup Mirrored
          /\ jpc' = "record"
    /\ fate' = {}
    /\ UNCHANGED <<file, remote, cfg, next, stale, fetch, sweepVars, check, web, ghosts>>

\* _write_backup_history, once the mirrored deletes have been tried. replicate is
\* the instance's opt-in when the backup began.
Record(pw, replicate) ==
    /\ jpc = "record" /\ next \in Ids /\ \A d \in doomed : d.by # "prune"
    /\ row' = [row EXCEPT ![next] = [local |-> TRUE, pw |-> pw, status |-> "null", attempts |-> 0,
                                     key |-> None, sha |-> None]]
    /\ file' = [file EXCEPT ![next] = pw]
    /\ next' = next + 1
    /\ jpc' = IF replicate THEN "pending" ELSE "idle"
    /\ UNCHANGED <<remote, cfg, stale, fate, fetch, sweepVars, check, web, doomed, ghosts>>

\* The row cannot be written: the backup fails after its retention pass.
BackupFails ==
    /\ jpc = "record" /\ \A d \in doomed : d.by # "prune"
    /\ jpc' = "idle"
    /\ UNCHANGED <<row, file, remote, cfg, next, stale, fate, fetch, sweepVars, check, web, doomed, ghosts>>

\* _replicate_new_backup: pending, then one attempt with the settings read here.
MarkPending ==
    /\ jpc = "pending"
    /\ LET i == next - 1 IN
       IF Loads /\ row[i] # None
       THEN /\ row' = [row EXCEPT ![i].status = "pending"]
            /\ up' = [up EXCEPT !["backup"] = [Idle EXCEPT !.at = "snap", !.id = i, !.cfg = cfg]]
            /\ jpc' = "upload"
       ELSE jpc' = "idle" /\ UNCHANGED <<row, up>>
    /\ UNCHANGED <<file, remote, cfg, next, stale, fate, fetch, todo, alerts, check, web, doomed, ghosts>>
-----------------------------------------------------------------------------
(* Under the instance lock: a retrieval, a re-encrypt.                     *)

\* retrieve_replica reads the row ...
BeginRetrieve(i) ==
    /\ jpc = "idle" /\ Loads
    /\ row[i] # None /\ ~row[i].local /\ row[i].status = "done" /\ row[i].key # None
    /\ fetch' = [id |-> i, key |-> row[i].key, sha |-> row[i].sha, enc |-> row[i].pw # Plain, cfg |-> cfg]
    /\ jpc' = "fetch"
    /\ UNCHANGED <<row, file, remote, cfg, next, stale, fate, sweepVars, check, web, doomed, ghosts>>

\* Mutant: a layer is stripped only when the suffix says so twice over.
BugLayered == fetch.key = "2x"

\* _undo_payload: the layer to strip, by the key's suffix and the row.
Layered == fetch.key = "2x" \/ (fetch.key = "enc" /\ ~fetch.enc)
Restorable(p) == Layered => p.outer # None /\ p.outer = fetch.cfg.pw

\* The bytes that come out, as the password that opens them (a layer left on: the
\* replication password).
Restored(p) == IF Layered \/ p.outer = None THEN p.inner ELSE p.outer

\* ... downloads the object, checks its digest, strips the layer and writes the
\* file; any failure ends the job ...
Download ==
    /\ jpc = "fetch"
    /\ LET p == remote[<<fetch.id, fetch.key>>] IN
       \/ /\ p # None /\ (fetch.sha # None => p = fetch.sha) /\ Restorable(p)
          /\ file' = [file EXCEPT ![fetch.id] = Restored(p)]
          /\ jpc' = "restore" /\ UNCHANGED fetch
       \/ jpc' = "idle" /\ fetch' = None /\ UNCHANGED file
    /\ UNCHANGED <<row, remote, cfg, next, stale, fate, sweepVars, check, web, doomed, ghosts>>

\* ... and puts local_present back.
Restore ==
    /\ jpc = "restore"
    /\ Mark(fetch.id, [row[fetch.id] EXCEPT !.local = TRUE])
    /\ jpc' = "idle" /\ fetch' = None
    /\ UNCHANGED <<file, remote, cfg, next, stale, fate, sweepVars, check, web, doomed, ghosts>>

\* A re-encrypt of one archive, file and row in one step (Archive has the parts);
\* a missing file fails, so off-site-only rows keep their password.
Rekey(i, pw) ==
    /\ jpc = "idle" /\ Quota
    /\ row[i] # None /\ row[i].pw \notin {Plain, pw} /\ file[i] = row[i].pw
    /\ row' = [row EXCEPT ![i].pw = pw]
    /\ file' = [file EXCEPT ![i] = pw]
    /\ rekeyed' = IF row[i].status = "null" THEN rekeyed ELSE rekeyed \cup {i}
    /\ edits' = edits + 1
    /\ UNCHANGED <<remote, cfg, next, lockVars, sweepVars, check, web, doomed, lost, struck, faults>>
-----------------------------------------------------------------------------
(* The web, and what may go wrong.                                         *)

\* delete_backup reads the row and unlinks the file ...
DeleteFile(i) ==
    /\ web = None /\ row[i] # None
    /\ web' = [id |-> i, key |-> IF row[i].status = "done" THEN row[i].key ELSE None]
    /\ file' = [file EXCEPT ![i] = None]
    /\ UNCHANGED <<row, remote, cfg, next, lockVars, sweepVars, check, doomed, ghosts>>

\* ... commits, and asks the worker to delete the object it read about.
DeleteRow ==
    /\ web # None
    /\ row' = [row EXCEPT ![web.id] = None]
    /\ doomed' = IF web.key = None THEN doomed ELSE doomed \cup {[by |-> "web", obj |-> <<web.id, web.key>>]}
    /\ web' = None
    /\ UNCHANGED <<file, remote, cfg, next, lockVars, sweepVars, check, ghosts>>

\* _handle_delete_replica_object, and the loop after the prune: deleted, failed,
\* or skipped because replication is off by now.
DeleteObject(d) ==
    /\ d \in doomed
    /\ doomed' = doomed \ {d}
    /\ \/ Loads /\ remote' = [remote EXCEPT ![d.obj] = None]
       \/ UNCHANGED remote
    /\ UNCHANGED <<row, file, cfg, next, lockVars, sweepVars, check, web, ghosts>>

\* put_replication refuses to be on with a layer and without a password.
PutReplication(c) ==
    /\ Quota /\ c # cfg
    /\ c.enabled /\ (c.encrypt \/ c.double) => c.pw # None
    /\ cfg' = c
    /\ edits' = edits + 1
    /\ UNCHANGED <<row, file, remote, next, lockVars, sweepVars, check, web, doomed, rekeyed, lost, struck, faults>>

\* The worker dies: attempts, deletes and the lock's holder are gone, commands it
\* had received may be.
Crash ==
    /\ Quota
    /\ faults' = faults + 1
    /\ jpc' = "idle" /\ stale' = {} /\ fate' = {} /\ fetch' = None
    /\ todo' = [s \in Sweeps |-> {}]
    /\ up' = [u \in Uploaders |-> Idle]
    /\ doomed' \in {{}, {d \in doomed : d.by = "web"}}
    /\ UNCHANGED <<row, file, remote, cfg, next, check, web, alerts, rekeyed, lost, struck, edits>>

\* The destination loses an object.
LoseObject(o) ==
    /\ remote[o] # None /\ Quota
    /\ remote' = [remote EXCEPT ![o] = None]
    /\ lost' = lost \cup {o}
    /\ faults' = faults + 1
    /\ UNCHANGED <<row, file, cfg, next, lockVars, sweepVars, check, web, doomed, rekeyed, struck, edits>>

\* Row i was given the id of a row that was deleted while someone still worked on
\* it, and that statement finds i: it is marked done with another backup's key and
\* digest (MarkDone), failed or skipped (MarkFailed, VerifyOne, Read), queued or
\* attempted although nobody asked (MarkPending, Snap), given another password or
\* local_present (CommitPrune, Restore), or deleted. From then on the row is not
\* followed: it names no object and no file of a row that is.
Strike(i) ==
    /\ row[i] # None /\ Quota
    /\ row' = [row EXCEPT ![i] = None]
    /\ struck' = struck \cup {i}
    /\ faults' = faults + 1
    /\ UNCHANGED <<file, remote, cfg, next, lockVars, sweepVars, check, web, doomed, rekeyed, lost, edits>>

Next ==
    \/ \E u \in Uploaders : Snap(u) \/ Read(u) \/ Put(u) \/ MarkDone(u) \/ MarkFailed(u)
    \/ \E s \in Sweeps : SweepList(s) \/ SweepNext(s) \/ SweepEnd(s)
    \/ Backfill \/ VerifyList \/ VerifyOne
    \/ PlanPrune \/ (\E s \in stale : Unlink(s)) \/ CommitPrune
    \/ \E pw \in Keys, replicate \in BOOLEAN : Record(pw, replicate)
    \/ BackupFails \/ MarkPending
    \/ \E i \in Ids : BeginRetrieve(i)
    \/ Download \/ Restore
    \/ \E i \in Ids, pw \in Passwords : Rekey(i, pw)
    \/ \E i \in Ids : DeleteFile(i)
    \/ DeleteRow
    \/ \E d \in doomed : DeleteObject(d)
    \/ \E c \in Configs : PutReplication(c)
    \/ Crash
    \/ \E o \in Objects : LoseObject(o)
    \/ \E i \in Ids : Strike(i)

Spec == Init /\ [][Next]_vars

-----------------------------------------------------------------------------
(* Properties.                                                             *)

\* The encryption contract at the head of replication.py: while every setting has
\* encrypt_plaintext on, no plaintext archive lands off-site, whichever settings
\* an uploader started with and whatever a re-encrypt or retrieval does meanwhile.
NoPlaintextOffsite ==
    (\A c \in Configs : c.encrypt) =>
        \A o \in Objects : remote[o] # None => remote[o].outer # None \/ remote[o].inner # Plain

\* What is about to be deleted at the destination (mirror_deletes in
\* _cleanup_old_backups, delete_backup) belongs to no row any more, so that an
\* interrupted deletion never leaves a row without its object (but for a row that
\* was marked with it under a reused id, which is in struck).
DoomedIsOrphan == \A d \in doomed : row[d.obj[1]] = None

\* A row that retention keeps as off-site only (local_present is false) names an
\* object that is there, unless the destination lost it or a statement meant for an
\* earlier row with the same id (_mark, 351-362) struck the row.
OffsiteOnlyHasObject ==
    \A i \in Rows : ~row[i].local =>
        /\ row[i].key # None
        /\ remote[<<i, row[i].key>>] # None \/ <<i, row[i].key>> \in lost

\* A local file opens with the password its row records, also when
\* retrieve_replica wrote it; backups re-encrypted since they were queued are left
\* out, because _reencrypt_rows changes the row's password and not the copy, and so
\* are rows that a stale _mark gave another backup's key (struck).
RetrievedOpens ==
    \A i \in LocalRows \ rekeyed : file[i] # None => file[i] = row[i].pw

\* "One alert per backup as it crosses the threshold" (sweep_pending): so it is
\* with a single sweep that has a notifier, although other uploaders count too.
AlertOnce == \A i \in Ids : alerts[i] <= 1

\* What the row promises of the off-site copy and where it says the backup is.
Promised(status) ==
    CASE status = "null" -> "never" [] status = "pending" -> "queued" [] status = "done" -> "kept"
      [] status = "failed" -> "owed" [] status = "skipped" -> "given_up"
promise == [i \in Ids |->
    IF i >= next THEN "unborn" ELSE IF i \in struck THEN "void"
    ELSE IF row[i] = None THEN "gone" ELSE Promised(row[i].status)]
place == [i \in Ids |->
    IF row[i] = None THEN "nowhere" ELSE IF row[i].local THEN "here" ELSE "offsite"]

\* The backup that has a row and has yet to queue it.
fresh == IF jpc = "pending" THEN {next - 1} ELSE {}

Copy == INSTANCE OffsiteCopy WITH promise <- promise, place <- place, fresh <- fresh

\* Whoever acts on a row, with whatever it read before: nothing is uploaded that
\* was not queued, a backup queues its row once and backfill only rows that never
\* were, a row becomes off-site only after an attempt succeeded, what is recorded
\* leaves only by retention or deletion and never comes back. A row struck under a
\* reused id is void: nothing is promised of it.
KeepsPromise == Copy!Spec
=============================================================================
