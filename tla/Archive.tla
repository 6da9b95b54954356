------------------------------ MODULE Archive ------------------------------
(***************************************************************************)
(* One instance's archives: the Backup rows in the database, the files in  *)
(* its directory, and the password each row records for its file.  The     *)
(* worker changes them under the instance lock (one backup or one          *)
(* re-encrypt at a time); the web deletes and adopts archives without it;  *)
(* either may be interrupted between the file system and the database.     *)
(*                                                                         *)
(* A file is the backup it holds and the password it is encrypted with.    *)
(* Rows are named by a number of their own here; the id the table gives    *)
(* them is tid, which a later row gets again once its owner is deleted.    *)
(* Off-site copies are not part of this module: every row here is local.   *)
(***************************************************************************)
EXTENDS Naturals

CONSTANTS
    Paths,               \* file names the instance's directory may hold
    Passwords,           \* encryption passwords
    Plain,               \* not encrypted
    CoarseNames,         \* whether timestamp_format lets two backups share a name
    ImportDuringBackup,  \* whether import_backups is called while a backup runs
    MaxIds,              \* bound: backups and adoptions
    MaxEvents,           \* bound: requests, interruptions, failed restores, stray writes
    None

Ids == 1..MaxIds
Keys == Passwords \cup {Plain}

ASSUME ArchiveAssumption ==
    /\ MaxIds \in Nat /\ MaxEvents \in Nat
    /\ CoarseNames \in BOOLEAN /\ ImportDuringBackup \in BOOLEAN
    /\ Plain \notin Passwords
    /\ None \notin Paths \cup Passwords \cup Ids

VARIABLES
    file,    \* what each path holds
    staged,  \* what <path>.new holds
    rows,    \* successful Backup rows
    home,    \* the path each backup was saved to
    tid,     \* the id the table gave each row; outlives the row
    next,    \* next backup number; a row has the number of its backup
    wpc,     \* what the worker does next under the instance lock
    cur,     \* the backup in progress: its number and password
    stale,   \* retention: rows (id and path) still to unlink
    gone,    \* retention: rows unlinked, to be deleted by the commit
    task,    \* re-encrypt: the work on each row
    newPw,   \* re-encrypt: the new password
    del,     \* delete_backup: the row whose file has just been unlinked
    imp,     \* import_backups: the path about to be adopted
    torn,    \* rows whose deletion was interrupted after the unlink
    lost,    \* rows whose old password could not be put back, or was overwritten
             \* by a write meant for an earlier row with the same id
    events   \* requests, interruptions, failed restores and stray writes so far

disk == <<file, staged>>
prune == <<stale, gone>>
web == <<del, imp>>
ghosts == <<torn, lost, events>>
vars == <<file, staged, rows, home, tid, next, wpc, cur, stale, gone, task, newPw, del, imp, torn, lost, events>>

Content == [body: Ids, pw: Keys]
Row == [path: Paths, encrypted: BOOLEAN, pw: Keys, adopted: BOOLEAN]
Stale == [id: Ids, path: Paths]
Task == [at: {"todo", "staged", "swap"}, path: Paths, old: Passwords]

ASSUME NoneAssumption == None \notin Content \cup Row \cup Task \cup [id: Ids, pw: Keys]

Maybe(S) == S \cup {None}

TypeOK ==
    /\ file \in [Paths -> Maybe(Content)]
    /\ staged \in [Paths -> Maybe(Content)]
    /\ rows \in [Ids -> Maybe(Row)]
    /\ home \in [Ids -> Maybe(Paths)]
    /\ tid \in [Ids -> Nat]
    /\ next \in 1..(MaxIds + 1)
    /\ \A r \in Ids : rows[r] # None \/ home[r] # None => r < next
    /\ wpc \in {"idle", "prune", "unlink", "record", "reencrypt"}
    /\ cur \in Maybe([id: Ids, pw: Keys])
    /\ stale \subseteq Stale
    /\ gone \subseteq Ids
    /\ task \in [Ids -> Maybe(Task)]
    /\ newPw \in Maybe(Passwords)
    /\ del \in Maybe(Ids)
    /\ imp \in Maybe(Paths)
    /\ torn \subseteq Ids /\ lost \subseteq Ids
    /\ events \in 0..MaxEvents

Init ==
    /\ file = [p \in Paths |-> None]
    /\ staged = [p \in Paths |-> None]
    /\ rows = [r \in Ids |-> None]
    /\ home = [r \in Ids |-> None]
    /\ tid = [r \in Ids |-> 0]
    /\ next = 1
    /\ wpc = "idle"
    /\ cur = None
    /\ stale = {} /\ gone = {}
    /\ task = [r \in Ids |-> None]
    /\ newPw = None
    /\ del = None /\ imp = None
    /\ torn = {} /\ lost = {}
    /\ events = 0

\* The requests of the web, and what goes wrong, are counted.
Happens == events < MaxEvents /\ events' = events + 1

Rows == {r \in Ids : rows[r] # None}

\* SQLite gives a new row one more than the highest id in the table, so the id
\* of a deleted row may come back.
NewTid(t) ==
    /\ \A q \in Rows : tid[q] < t
    /\ t = 1 \/ \E q \in Rows : tid[q] = t - 1

\* The row that a statement by r's id finds now: r, a later row, or none.
Hit(r) == {q \in Rows : tid[q] = tid[r]}

-----------------------------------------------------------------------------
(* A backup, from the saved file to the history row.                       *)

\* _save_backup: the name comes from the clock through timestamp_format; an
\* existing file of that name is overwritten.
Save(p, pw) ==
    /\ wpc = "idle" /\ next \in Ids
    /\ CoarseNames \/ \A r \in Ids : home[r] # p
    /\ file' = [file EXCEPT ![p] = [body |-> next, pw |-> pw]]
    /\ home' = [home EXCEPT ![next] = p]
    /\ cur' = [id |-> next, pw |-> pw]
    /\ next' = next + 1
    /\ wpc' = "prune"
    /\ UNCHANGED <<staged, rows, tid, prune, task, newPw, web, ghosts>>

\* _cleanup_old_backups reads the rows and the policy's keep-set, which is never
\* empty when there is a row (Retention); the rest is stale.
PlanPrune ==
    /\ wpc = "prune"
    /\ \E S \in SUBSET Rows :
          /\ Rows # {} => S # Rows
          /\ stale' = {[id |-> r, path |-> rows[r].path] : r \in S}
    /\ wpc' = "unlink"
    /\ UNCHANGED <<disk, rows, home, tid, next, cur, gone, task, newPw, web, ghosts>>

\* One stale row: its file is unlinked (or is missing already); on an OSError
\* the row is kept.
Unlink(s) ==
    /\ wpc = "unlink" /\ s \in stale
    /\ stale' = stale \ {s}
    /\ \/ /\ file' = [file EXCEPT ![s.path] = None]
          /\ gone' = gone \cup {s.id}
       \/ UNCHANGED <<file, gone>>
    /\ UNCHANGED <<staged, rows, home, tid, next, wpc, cur, task, newPw, web, ghosts>>

\* DELETE by primary key.
Without(S) == [q \in Ids |-> IF \E r \in S : q \in Hit(r) THEN None ELSE rows[q]]

\* Mutant: the rows are skipped after their files are gone.
BugCommitKeepsRows ==
    /\ wpc = "unlink" /\ stale = {}
    /\ gone' = {}
    /\ wpc' = "record"
    /\ UNCHANGED <<disk, rows, home, tid, next, cur, stale, task, newPw, web, ghosts>>

\* The transaction of the whole pass commits.
CommitPrune ==
    /\ wpc = "unlink" /\ stale = {}
    /\ rows' = Without(gone)
    /\ gone' = {}
    /\ wpc' = "record"
    /\ UNCHANGED <<disk, home, tid, next, cur, stale, task, newPw, web, ghosts>>

\* _write_backup_history: path and password as they were when the file was saved.
Record ==
    /\ wpc = "record"
    /\ rows' = [rows EXCEPT ![cur.id] = [path |-> home[cur.id], encrypted |-> cur.pw # Plain,
                                         pw |-> cur.pw, adopted |-> FALSE]]
    /\ \E t \in Ids : NewTid(t) /\ tid' = [tid EXCEPT ![cur.id] = t]
    /\ wpc' = "idle"
    /\ cur' = None
    /\ UNCHANGED <<disk, home, next, prune, task, newPw, web, ghosts>>

-----------------------------------------------------------------------------
(* Re-encryption of every encrypted row.                                   *)

Reencryptable == {r \in Rows : rows[r].encrypted /\ rows[r].pw # Plain}

\* The rows, their paths and old passwords are read once.
PlanReencrypt(pw) ==
    /\ wpc = "idle" /\ Reencryptable # {}
    /\ task' = [r \in Ids |-> IF r \in Reencryptable
                              THEN [at |-> "todo", path |-> rows[r].path, old |-> rows[r].pw]
                              ELSE None]
    /\ newPw' = pw
    /\ wpc' = "reencrypt"
    /\ UNCHANGED <<disk, rows, home, tid, next, cur, prune, web, ghosts>>

At(r, where) == task[r] # None /\ task[r].at = where
Drop(r) == task' = [task EXCEPT ![r] = None]

\* The child can decrypt the file it finds.
Opens(r) == file[task[r].path] # None /\ file[task[r].path].pw = task[r].old

\* Mutant: the child swaps the file in before the parent has committed.
BugSwapBeforeCommit(r) ==
    /\ At(r, "todo") /\ Opens(r)
    /\ file' = [file EXCEPT ![task[r].path].pw = newPw]
    /\ task' = [task EXCEPT ![r].at = "staged"]
    /\ UNCHANGED <<staged, rows, home, tid, next, wpc, cur, prune, newPw, web, ghosts>>

\* _reencrypt_one_subprocess: decrypt, encrypt, write <path>.new.
Stage(r) ==
    /\ At(r, "todo") /\ Opens(r)
    /\ staged' = [staged EXCEPT ![task[r].path] = [body |-> file[task[r].path].body, pw |-> newPw]]
    /\ task' = [task EXCEPT ![r].at = "staged"]
    /\ UNCHANGED <<file, rows, home, tid, next, wpc, cur, prune, newPw, web, ghosts>>

\* It fails: missing file, wrong password, or an error while writing <path>.new,
\* which is then removed.
StageFails(r) ==
    /\ At(r, "todo")
    /\ \/ ~Opens(r) /\ UNCHANGED staged
       \/ Opens(r) /\ staged' = [staged EXCEPT ![task[r].path] = None]
    /\ Drop(r)
    /\ UNCHANGED <<file, rows, home, tid, next, wpc, cur, prune, newPw, web, ghosts>>

\* The child died after staging: the parent sees a crashed subprocess.
LoseResult(r) ==
    /\ At(r, "staged")
    /\ Drop(r)
    /\ UNCHANGED <<disk, rows, home, tid, next, wpc, cur, prune, newPw, web, ghosts>>

\* s.get(Backup, id), then its password: the row with r's id by now.
Repassword(r, pw) ==
    rows' = [q \in Ids |-> IF q \in Hit(r) THEN [rows[q] EXCEPT !.pw = pw] ELSE rows[q]]

\* The rows that get a password meant for r.
Struck(r) == Hit(r) \ {r}

\* The parent records the new password in the row with that id, if there is one;
\* or the commit fails and the staged file is removed. One result at a time.
CommitPassword(r) ==
    /\ At(r, "staged") /\ \A q \in Ids : ~At(q, "swap")
    /\ \/ /\ Repassword(r, newPw)
          /\ lost' = lost \cup Struck(r)
          /\ task' = [task EXCEPT ![r].at = "swap"]
          /\ UNCHANGED staged
       \/ /\ staged' = [staged EXCEPT ![task[r].path] = None]
          /\ Drop(r)
          /\ UNCHANGED <<rows, lost>>
    /\ UNCHANGED <<file, home, tid, next, wpc, cur, prune, newPw, web, torn, events>>

\* os.replace(<path>.new, <path>)
Swap(r) ==
    /\ At(r, "swap")
    /\ file' = [file EXCEPT ![task[r].path] = staged[task[r].path]]
    /\ staged' = [staged EXCEPT ![task[r].path] = None]
    /\ Drop(r)
    /\ UNCHANGED <<rows, home, tid, next, wpc, cur, prune, newPw, web, ghosts>>

\* os.replace fails: the staged file goes, the old password is put back, unless
\* that commit fails too (its exception is suppressed).
SwapFails(r) ==
    /\ At(r, "swap")
    /\ staged' = [staged EXCEPT ![task[r].path] = None]
    /\ \/ /\ Repassword(r, task[r].old)
          /\ lost' = lost \cup Struck(r)
          /\ UNCHANGED events
       \/ /\ Happens
          /\ lost' = lost \cup {r}
          /\ UNCHANGED rows
    /\ Drop(r)
    /\ UNCHANGED <<file, home, tid, next, wpc, cur, prune, newPw, web, torn>>

FinishReencrypt ==
    /\ wpc = "reencrypt" /\ \A r \in Ids : task[r] = None
    /\ wpc' = "idle"
    /\ newPw' = None
    /\ UNCHANGED <<disk, rows, home, tid, next, cur, prune, task, web, ghosts>>

\* The worker dies, or an exception leaves backup_instance after the file was
\* saved: the open transaction is rolled back, the disk stays as it is.
Interrupt ==
    /\ wpc # "idle" /\ Happens
    /\ torn' = torn \cup gone
    /\ wpc' = "idle" /\ cur' = None
    /\ stale' = {} /\ gone' = {}
    /\ task' = [r \in Ids |-> None] /\ newPw' = None
    /\ UNCHANGED <<disk, rows, home, tid, next, web, lost>>

-----------------------------------------------------------------------------
(* The web.                                                                *)

\* delete_backup unlinks (a missing file is fine, an OSError ends the request
\* with nothing changed) ...
DeleteFile(r) ==
    /\ del = None /\ rows[r] # None /\ Happens
    /\ file' = [file EXCEPT ![rows[r].path] = None]
    /\ del' = r
    /\ UNCHANGED <<staged, rows, home, tid, next, wpc, cur, prune, task, newPw, imp, torn, lost>>

\* ... then deletes the row.
DeleteRow ==
    /\ del # None
    /\ rows' = Without({del})
    /\ del' = None
    /\ UNCHANGED <<disk, home, tid, next, wpc, cur, prune, task, newPw, imp, ghosts>>

InterruptDelete ==
    /\ del # None /\ Happens
    /\ torn' = torn \cup {del}
    /\ del' = None
    /\ UNCHANGED <<disk, rows, home, tid, next, wpc, cur, prune, task, newPw, imp, lost>>

\* import_backups: a file that no row refers to (one file per request here) ...
ImportScan(p) ==
    /\ imp = None /\ Happens
    /\ ImportDuringBackup \/ cur = None
    /\ file[p] # None /\ \A r \in Rows : rows[r].path # p
    /\ imp' = p
    /\ UNCHANGED <<disk, rows, home, tid, next, wpc, cur, prune, task, newPw, del, torn, lost>>

\* ... gets a row that calls it unencrypted, whatever it holds.
ImportCommit ==
    /\ imp # None /\ next \in Ids
    /\ rows' = [rows EXCEPT ![next] = [path |-> imp, encrypted |-> FALSE,
                                       pw |-> Plain, adopted |-> TRUE]]
    /\ \E t \in Ids : NewTid(t) /\ tid' = [tid EXCEPT ![next] = t]
    /\ next' = next + 1
    /\ imp' = None
    /\ UNCHANGED <<disk, home, wpc, cur, prune, task, newPw, del, ghosts>>

-----------------------------------------------------------------------------
(* Another instance: r was given the id of a row deleted there, and a      *)
(* re-encrypt that still works on that row records its password in r ...   *)

StrayPassword(r, pw) ==
    /\ rows[r] # None /\ rows[r].pw # pw /\ Happens
    /\ Repassword(r, pw)
    /\ lost' = lost \cup Hit(r)
    /\ UNCHANGED <<disk, home, tid, next, wpc, cur, prune, task, newPw, web, torn>>

\* ... or a retention pass or delete there, whose row was already gone, takes r.
StrayDelete(r) ==
    /\ rows[r] # None /\ Happens
    /\ rows' = Without({r})
    /\ UNCHANGED <<disk, home, tid, next, wpc, cur, prune, task, newPw, web, torn, lost>>

-----------------------------------------------------------------------------
\* The numbers or names of the bounded instance are used up and the worker is done.
Exhausted ==
    /\ wpc = "idle" /\ (next \notin Ids \/ \A p \in Paths : \E r \in Ids : home[r] = p)
    /\ UNCHANGED vars

Next ==
    \/ Exhausted
    \/ \E p \in Paths, pw \in Keys : Save(p, pw)
    \/ PlanPrune \/ (\E s \in stale : Unlink(s)) \/ CommitPrune \/ Record
    \/ \E pw \in Passwords : PlanReencrypt(pw)
    \/ \E r \in Ids : \/ Stage(r) \/ StageFails(r) \/ LoseResult(r)
                      \/ CommitPassword(r) \/ Swap(r) \/ SwapFails(r)
    \/ FinishReencrypt \/ Interrupt
    \/ \E r \in Ids : DeleteFile(r)
    \/ DeleteRow \/ InterruptDelete
    \/ \E p \in Paths : ImportScan(p)
    \/ ImportCommit
    \/ \E r \in Ids : (\E pw \in Passwords : StrayPassword(r, pw)) \/ StrayDelete(r)

Spec == Init /\ [][Next]_vars

-----------------------------------------------------------------------------
(* Properties.                                                             *)

Recorded == {r \in Rows : ~rows[r].adopted}

\* Whatever is interrupted, the password of a row the worker recorded opens that
\* very backup: in its file, or in the <path>.new beside it when the re-encrypt
\* died between its commit and its os.replace (_reencrypt_rows, 952-975). Only a
\* failed swap whose restore fails as well, or a re-encrypt whose own row was
\* deleted while it ran and whose id this row was given since, gives one up.
Recoverable ==
    \A r \in Recorded \ lost :
        LET p == rows[r].path
            own == [body |-> r, pw |-> rows[r].pw]
        IN  file[p] # None => /\ file[p].body = r
                              /\ file[p] = own \/ staged[p] = own

\* A row without its file is one whose own deletion is under way or was cut off
\* between unlink and commit: retention, web deletes, adoptions and re-encrypts
\* never take away the file of another row (_cleanup_old_backups, delete_backup).
MissingExplained ==
    \A r \in Rows : file[rows[r].path] = None => r \in torn \cup gone \cup {del}
=============================================================================
