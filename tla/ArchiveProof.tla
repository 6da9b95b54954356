---------------------------- MODULE ArchiveProof ----------------------------
(***************************************************************************)
(* Proofs about Archive, for any number of paths, passwords, backups and   *)
(* interruptions; and, in the second half, about SecretKey, whose key file *)
(* the passwords of the rows are stored under.                             *)
(***************************************************************************)
EXTENDS Archive, SecretKey, TLAPS

USE ArchiveAssumption, NoneAssumption DEF Maybe, Keys

-----------------------------------------------------------------------------
(* Types.                                                                  *)

\* What typing needs besides the types: a backup in progress has a path, and a
\* re-encrypt under way has a password.
BusyInv ==
    /\ cur # None => home[cur.id] # None
    /\ wpc \in {"prune", "unlink", "record"} => cur # None
    /\ \A r \in Ids : task[r] # None => newPw # None

TInv == TypeOK /\ BusyInv

\* Row q keeps its place; if a statement by r's id finds it, its password is k,
\* and otherwise it does not change.
Kept(q) ==
    /\ rows'[q] = None <=> rows[q] = None
    /\ rows[q] # None => /\ rows'[q].path = rows[q].path
                         /\ rows'[q].encrypted = rows[q].encrypted
                         /\ rows'[q].adopted = rows[q].adopted

OnlyPassword(r, k) ==
    \A q \in Ids : /\ Kept(q)
                   /\ q \in Hit(r) => rows'[q].pw = k
                   /\ q \notin Hit(r) => rows'[q] = rows[q]

\* Recording another password by a row's id touches nothing else of any row.
LEMMA WithPassword ==
    ASSUME rows \in [Ids -> Maybe(Row)], NEW r \in Ids, NEW k \in Keys, Repassword(r, k)
    PROVE  rows' \in [Ids -> Maybe(Row)] /\ OnlyPassword(r, k)
<1>1. rows' = [q \in Ids |-> IF q \in Hit(r) THEN [rows[q] EXCEPT !.pw = k] ELSE rows[q]]
    BY DEF Repassword
<1>2. ASSUME NEW q \in Ids
      PROVE  /\ rows'[q] \in Maybe(Row) /\ Kept(q)
             /\ q \in Hit(r) => rows'[q].pw = k
             /\ q \notin Hit(r) => rows'[q] = rows[q]
    <2>1. CASE q \notin Hit(r)
        BY <1>1, <2>1 DEF Kept
    <2>2. CASE q \in Hit(r)
        <3> DEFINE y == [rows[q] EXCEPT !.pw = k]
        <3>1. rows[q] # None /\ rows[q] \in Row
            BY <2>2 DEF Hit, Rows
        <3>2. /\ y \in Row /\ y.path = rows[q].path /\ y.adopted = rows[q].adopted
              /\ y.encrypted = rows[q].encrypted /\ y.pw = k
            BY <3>1 DEF Row
        <3>3. rows'[q] = y
            BY <1>1, <2>2
        <3> HIDE DEF y
        <3> QED BY <2>2, <3>1, <3>2, <3>3 DEF Kept
    <2> QED BY <2>1, <2>2
<1>3. rows' \in [Ids -> Maybe(Row)]
    BY <1>1, <1>2
<1> QED BY <1>2, <1>3 DEF OnlyPassword

\* A row that is there is found by its own id.
LEMMA FoundById == ASSUME NEW r \in Ids PROVE rows[r] # None => r \in Hit(r)
BY DEF Hit, Rows

\* Deleting by id takes whole rows, and every row it was meant for.
LEMMA WithoutRows ==
    ASSUME NEW S, rows' = Without(S)
    PROVE  \A q \in Ids : /\ rows'[q] \in {rows[q], None}
                          /\ q \in S => rows'[q] = None
BY DEF Without, Hit, Rows

\* Moving a task to its next stage changes nothing else.
LEMMA WithStage ==
    ASSUME task \in [Ids -> Maybe(Task)], NEW r \in Ids, task[r] # None,
           NEW a \in {"todo", "staged", "swap"},
           task' = [task EXCEPT ![r].at = a]
    PROVE  /\ task' \in [Ids -> Maybe(Task)]
           /\ \A q \in Ids : /\ task'[q] = None <=> task[q] = None
                             /\ task[q] # None =>
                                   /\ task'[q].path = task[q].path
                                   /\ task'[q].old = task[q].old
                                   /\ task'[q].at = IF q = r THEN a ELSE task[q].at
<1> DEFINE y == [task[r] EXCEPT !.at = a]
<1>1. y \in Task /\ y.path = task[r].path /\ y.old = task[r].old /\ y.at = a
    BY DEF Task
<1>2. task' = [task EXCEPT ![r] = y]
    OBVIOUS
<1> HIDE DEF y
<1>3. task'[r] = y /\ \A q \in Ids : q # r => task'[q] = task[q]
    BY <1>2
<1>4. task' \in [Ids -> Maybe(Task)]
    BY <1>1, <1>2
<1> QED BY <1>1, <1>3, <1>4

\* An empty instance directory and database are well typed.
LEMMA TypedInit == Init => TInv
BY DEF Ids, Init, TInv, TypeOK, BusyInv

\* The steps of a backup and its retention keep the types.
LEMMA TypedBackup ==
    ASSUME TInv, \/ \E p \in Paths, pw \in Keys : Save(p, pw)
                 \/ PlanPrune
                 \/ \E s \in stale : Unlink(s)
                 \/ CommitPrune
                 \/ Record
    PROVE  TInv'
<1> USE DEF TInv, TypeOK, BusyInv, disk, prune, web, ghosts, Happens
<1>1. ASSUME NEW p \in Paths, NEW pw \in Keys, Save(p, pw) PROVE TInv'
    BY <1>1 DEF Ids, Save, Content
<1>2. CASE PlanPrune
    BY <1>2 DEF PlanPrune, Rows, Stale, Row
<1>3. ASSUME NEW s \in stale, Unlink(s) PROVE TInv'
    <2>1. s.path \in Paths /\ s.id \in Ids
        BY DEF Stale
    <2> QED BY <1>3, <2>1 DEF Unlink
<1>4. CASE CommitPrune
    <2>1. rows' \in [Ids -> Maybe(Row)] /\ \A q \in Ids : rows'[q] # None => rows[q] # None
        BY <1>4, WithoutRows DEF CommitPrune, Without
    <2> QED BY <1>4, <2>1 DEF CommitPrune
<1>5. CASE Record
    <2>1. cur \in [id: Ids, pw: Keys] /\ home[cur.id] \in Paths
        BY <1>5 DEF Record
    <2>2. [path |-> home[cur.id], encrypted |-> cur.pw # Plain, pw |-> cur.pw,
           adopted |-> FALSE] \in Row
        BY <2>1 DEF Row
    <2>3. tid' \in [Ids -> Nat]
        BY <1>5 DEF Record, Ids
    <2> QED BY <1>5, <2>1, <2>2, <2>3 DEF Record
<1> QED BY <1>1, <1>2, <1>3, <1>4, <1>5

\* So do the steps of a re-encrypt, failed or interrupted ones included.
LEMMA TypedReencrypt ==
    ASSUME TInv, \/ \E pw \in Passwords : PlanReencrypt(pw)
                 \/ \E r \in Ids : \/ Stage(r) \/ StageFails(r) \/ LoseResult(r)
                                   \/ CommitPassword(r) \/ Swap(r) \/ SwapFails(r)
                 \/ FinishReencrypt
                 \/ Interrupt
    PROVE  TInv'
<1> USE DEF TInv, TypeOK, BusyInv, disk, prune, web, ghosts, Happens
<1>1. ASSUME NEW pw \in Passwords, PlanReencrypt(pw) PROVE TInv'
    BY <1>1 DEF PlanReencrypt, Reencryptable, Rows, Row, Task
<1>2. ASSUME NEW r \in Ids, Stage(r) PROVE TInv'
    <2>1. task[r] # None /\ task[r].path \in Paths /\ newPw \in Passwords
        BY <1>2 DEF Stage, At, Task
    <2>2. task' \in [Ids -> Maybe(Task)] /\ \A q \in Ids : task'[q] = None <=> task[q] = None
        BY <1>2, <2>1, WithStage DEF Stage
    <2>3. [body |-> file[task[r].path].body, pw |-> newPw] \in Content
        BY <1>2, <2>1 DEF Stage, Opens, Content
    <2> QED BY <1>2, <2>1, <2>2, <2>3 DEF Stage
<1>3. ASSUME NEW r \in Ids, StageFails(r) PROVE TInv'
    BY <1>3 DEF StageFails, At, Drop, Task
<1>4. ASSUME NEW r \in Ids, LoseResult(r) PROVE TInv'
    BY <1>4 DEF LoseResult, Drop
<1>5. ASSUME NEW r \in Ids, CommitPassword(r) PROVE TInv'
    <2>1. task[r] \in Task /\ task[r] # None /\ task[r].path \in Paths /\ newPw \in Keys
        BY <1>5 DEF CommitPassword, At, Task
    <2>2. CASE /\ UNCHANGED <<rows, lost>> /\ Drop(r)
               /\ staged' = [staged EXCEPT ![task[r].path] = None]
        BY <1>5, <2>1, <2>2 DEF CommitPassword, Drop
    <2>3. CASE /\ Repassword(r, newPw)
               /\ lost' = lost \cup Struck(r)
               /\ task' = [task EXCEPT ![r].at = "swap"]
               /\ UNCHANGED staged
        <3>1. task' \in [Ids -> Maybe(Task)] /\ \A q \in Ids : task'[q] = None <=> task[q] = None
            BY <2>1, <2>3, WithStage
        <3>2. Repassword(r, newPw) /\ rows \in [Ids -> Maybe(Row)]
            BY <2>3
        <3>3. rows' \in [Ids -> Maybe(Row)] /\ \A q \in Ids : rows'[q] = None <=> rows[q] = None
            BY <2>1, <3>2, WithPassword DEF OnlyPassword, Kept
        <3>4. lost' \subseteq Ids
            BY <2>3 DEF Struck, Hit, Rows
        <3> QED BY <1>5, <2>1, <2>3, <3>1, <3>3, <3>4 DEF CommitPassword
    <2> QED BY <1>5, <2>2, <2>3 DEF CommitPassword
<1>6. ASSUME NEW r \in Ids, Swap(r) PROVE TInv'
    BY <1>6 DEF Swap, At, Drop, Task
<1>7. ASSUME NEW r \in Ids, SwapFails(r) PROVE TInv'
    <2>1. task[r].path \in Paths /\ task[r].old \in Keys
        BY <1>7 DEF SwapFails, At, Task
    <2>2. rows' \in [Ids -> Maybe(Row)] /\ \A q \in Ids : rows'[q] = None <=> rows[q] = None
        <3>1. rows \in [Ids -> Maybe(Row)] /\ (Repassword(r, task[r].old) \/ UNCHANGED rows)
            BY <1>7 DEF SwapFails
        <3>2. CASE UNCHANGED rows
            BY <3>1, <3>2
        <3>3. CASE Repassword(r, task[r].old)
            BY <2>1, <3>1, <3>3, WithPassword DEF OnlyPassword, Kept
        <3> QED BY <3>1, <3>2, <3>3
    <2>3. /\ torn' \subseteq Ids /\ lost' \subseteq Ids /\ events' \in 0..MaxEvents
          /\ staged' \in [Paths -> Maybe(Content)] /\ task' \in [Ids -> Maybe(Task)]
          /\ \A q \in Ids : task'[q] # None => task[q] # None
        BY <1>7, <2>1 DEF SwapFails, Drop, Struck, Hit, Rows
    <2> QED BY <1>7, <2>2, <2>3 DEF SwapFails
<1>8. CASE FinishReencrypt
    BY <1>8 DEF FinishReencrypt
<1>9. CASE Interrupt
    BY <1>9 DEF Interrupt
<1> QED BY <1>1, <1>2, <1>3, <1>4, <1>5, <1>6, <1>7, <1>8, <1>9

\* So do the web's deletes and adoptions, and what other instances do to rows here.
LEMMA TypedWeb ==
    ASSUME TInv, \/ \E r \in Ids : DeleteFile(r)
                 \/ DeleteRow
                 \/ InterruptDelete
                 \/ \E p \in Paths : ImportScan(p)
                 \/ ImportCommit
                 \/ \E r \in Ids, pw \in Passwords : StrayPassword(r, pw)
                 \/ \E r \in Ids : StrayDelete(r)
    PROVE  TInv'
<1> USE DEF TInv, TypeOK, BusyInv, disk, prune, web, ghosts, Happens
<1>1. ASSUME NEW r \in Ids, DeleteFile(r) PROVE TInv'
    BY <1>1 DEF DeleteFile, Row
<1>2. CASE DeleteRow
    <2>1. rows' \in [Ids -> Maybe(Row)] /\ \A q \in Ids : rows'[q] # None => rows[q] # None
        BY <1>2, WithoutRows DEF DeleteRow, Without
    <2> QED BY <1>2, <2>1 DEF DeleteRow
<1>3. CASE InterruptDelete
    BY <1>3 DEF InterruptDelete
<1>4. ASSUME NEW p \in Paths, ImportScan(p) PROVE TInv'
    BY <1>4 DEF ImportScan
<1>5. CASE ImportCommit
    <2>1. tid' \in [Ids -> Nat]
        BY <1>5 DEF Ids, ImportCommit
    <2>2. [path |-> imp, encrypted |-> FALSE, pw |-> Plain, adopted |-> TRUE] \in Row
        BY <1>5 DEF ImportCommit, Row
    <2> QED BY <1>5, <2>1, <2>2 DEF Ids, ImportCommit
<1>6. ASSUME NEW r \in Ids, NEW pw \in Passwords, StrayPassword(r, pw) PROVE TInv'
    <2>1. rows' \in [Ids -> Maybe(Row)] /\ \A q \in Ids : rows'[q] = None <=> rows[q] = None
        <3>1. Repassword(r, pw) /\ pw \in Keys
            BY <1>6 DEF StrayPassword
        <3> QED BY <3>1, WithPassword DEF OnlyPassword, Kept
    <2>2. lost' \subseteq Ids
        BY <1>6 DEF StrayPassword, Hit, Rows
    <2> QED BY <1>6, <2>1, <2>2 DEF StrayPassword
<1>7. ASSUME NEW r \in Ids, StrayDelete(r) PROVE TInv'
    <2>1. rows' \in [Ids -> Maybe(Row)] /\ \A q \in Ids : rows'[q] # None => rows[q] # None
        BY <1>7, WithoutRows DEF StrayDelete, Without
    <2>2. UNCHANGED <<file, staged, home, tid, next, wpc, cur, stale, gone, task, newPw, del, imp,
                      torn, lost>>
        BY <1>7 DEF StrayDelete
    <2>3. events' \in 0..MaxEvents
        BY <1>7 DEF StrayDelete
    <2> QED BY <2>1, <2>2, <2>3
<1> QED BY <1>1, <1>2, <1>3, <1>4, <1>5, <1>6, <1>7

\* Every step keeps the types.
LEMMA TypedStep == TInv /\ [Next]_vars => TInv'
<1> SUFFICES ASSUME TInv, [Next]_vars PROVE TInv'
    OBVIOUS
<1>1. CASE UNCHANGED vars
    BY <1>1 DEF vars, TInv, TypeOK, BusyInv
<1> QED BY <1>1, TypedBackup, TypedReencrypt, TypedWeb DEF Next, Exhausted

\* Rows, files, tasks and requests keep their types, and no row or path carries
\* a number that has not been given out yet.
THEOREM ArchiveTyped == Spec => []TypeOK
<1>1. TInv => TypeOK
    BY DEF TInv
<1> QED BY <1>1, TypedInit, TypedStep, PTL DEF Spec

-----------------------------------------------------------------------------
(* Recorded passwords, when names are unique.                              *)

\* Every backup has a path of its own, and a file lies at the path of the backup
\* it holds.
HomeInv ==
    /\ \A a, b \in Ids : home[a] # None /\ home[a] = home[b] => a = b
    /\ \A p \in Paths : /\ file[p] # None => home[file[p].body] = p
                        /\ staged[p] # None => home[staged[p].body] = p

\* A recorded row names the path of its backup; an adopted one has no backup of
\* its own number and is not called encrypted.
Homed(r) ==
    IF rows[r].adopted THEN home[r] = None /\ ~rows[r].encrypted ELSE home[r] = rows[r].path

RowInv == \A r \in Ids : rows[r] # None => Homed(r)

\* The file of the backup in progress has the password its row will get, and only
\* a re-encrypt has tasks.
CurInv ==
    /\ cur # None => /\ wpc \in {"prune", "unlink", "record"}
                     /\ file[home[cur.id]] # None => file[home[cur.id]].pw = cur.pw
    /\ \A r \in Ids : task[r] # None => wpc = "reencrypt"

\* Where a re-encrypt stands with a row: which password the row records (unless it
\* was overwritten), what the file in place has, what is staged.
Progress(r) ==
    /\ rows[r] # None /\ r \notin lost => rows[r].pw = IF task[r].at = "swap" THEN newPw ELSE task[r].old
    /\ task[r].at # "todo" =>
          /\ staged[home[r]] = [body |-> r, pw |-> newPw]
          /\ file[home[r]] # None => file[home[r]].pw = task[r].old

TaskInv == \A r \in Ids : task[r] # None => task[r].path = home[r] /\ Progress(r)

\* The file of a recorded row, or what is staged beside it, has its password.
PwInv ==
    \A r \in Ids \ lost : rows[r] # None /\ ~rows[r].adopted /\ file[home[r]] # None =>
        \/ file[home[r]].pw = rows[r].pw
        \/ staged[home[r]] = [body |-> r, pw |-> rows[r].pw]

AInv == HomeInv /\ RowInv /\ CurInv /\ TaskInv /\ PwInv

\* The empty instance satisfies the password invariant.
LEMMA SoundInit == Init => AInv
BY DEF Init, AInv, HomeInv, RowInv, CurInv, TaskInv, PwInv

\* A row that is being re-encrypted is a recorded one, at its backup's path.
LEMMA TaskOwnsPath ==
    ASSUME TInv, AInv, NEW r \in Ids, task[r] # None
    PROVE  /\ task[r] \in Task /\ task[r].path = home[r] /\ home[r] \in Paths
           /\ newPw \in Passwords /\ wpc = "reencrypt" /\ cur = None
           /\ rows[r] # None => ~rows[r].adopted /\ rows[r].path = home[r]
<1>1. task[r] \in Task /\ task[r].path = home[r]
    BY DEF TInv, TypeOK, AInv, TaskInv
<1>2. home[r] \in Paths
    BY <1>1 DEF Task
<1>3. newPw \in Passwords
    BY DEF TInv, TypeOK, BusyInv
<1>4. wpc = "reencrypt" /\ cur = None
    BY DEF AInv, CurInv
<1>5. rows[r] # None => ~rows[r].adopted /\ rows[r].path = home[r]
    BY <1>2 DEF AInv, RowInv, Homed
<1> QED BY <1>1, <1>2, <1>3, <1>4, <1>5

\* A new backup is saved under a name no backup has had.
LEMMA SoundSave ==
    ASSUME ~CoarseNames, TInv, AInv, NEW p \in Paths, NEW pw \in Keys, Save(p, pw)
    PROVE  AInv'
<1> USE DEF TInv, TypeOK, BusyInv, AInv
<1>1. /\ next \in Ids /\ wpc = "idle" /\ \A r \in Ids : home[r] # p
      /\ home[next] = None /\ rows[next] = None
      /\ \A r \in Ids : task[r] = None
    BY DEF Ids, Save, CurInv
<1>2. /\ home' \in [Ids -> Paths \cup {None}]
      /\ home'[next] = p /\ \A r \in Ids : r # next => home'[r] = home[r]
    BY <1>1 DEF Save
<1>3. /\ file'[p] = [body |-> next, pw |-> pw]
      /\ \A q \in Paths : q # p => file'[q] = file[q]
      /\ staged' = staged /\ rows' = rows /\ task' = task /\ lost' = lost
    BY DEF Save, ghosts
<1>4. HomeInv'
    <2>1. ASSUME NEW q \in Paths, file'[q] # None PROVE home'[file'[q].body] = q
        BY <1>1, <1>2, <1>3, <2>1 DEF HomeInv, Content
    <2>2. ASSUME NEW q \in Paths, staged'[q] # None PROVE home'[staged'[q].body] = q
        BY <1>1, <1>2, <1>3, <2>2 DEF HomeInv, Content
    <2>3. ASSUME NEW a \in Ids, NEW b \in Ids, home'[a] # None, home'[a] = home'[b] PROVE a = b
        BY <1>1, <1>2, <2>3 DEF HomeInv
    <2> QED BY <2>1, <2>2, <2>3 DEF HomeInv
<1>5. RowInv' /\ TaskInv'
    BY <1>1, <1>2, <1>3 DEF RowInv, Homed, TaskInv
<1>6. CurInv'
    BY <1>1, <1>2, <1>3 DEF CurInv, Save
<1>7. PwInv'
    BY <1>1, <1>2, <1>3 DEF PwInv, RowInv, Homed, Row
<1> QED BY <1>4, <1>5, <1>6, <1>7

\* Files and rows only go: retention, the web's delete, an interrupted worker.
LEMMA SoundRemoval ==
    ASSUME TInv, AInv, home' = home, staged' = staged,
           \A p \in Paths : file'[p] \in {file[p], None},
           \A r \in Ids : rows'[r] \in {rows[r], None},
           \A r \in Ids : task'[r] \in {task[r], None},
           cur' \in {cur, None}, lost' = lost,
           newPw' = newPw \/ \A r \in Ids : task'[r] = None,
           wpc' = wpc \/ \A r \in Ids : task'[r] = None,
           cur' # None => wpc' \in {"prune", "unlink", "record"}
    PROVE  AInv'
<1> USE DEF TInv, TypeOK, BusyInv, AInv
<1>1. HomeInv'
    BY DEF HomeInv
<1>2. RowInv'
    BY DEF RowInv, Homed
<1>3. CurInv'
    BY DEF CurInv
<1>4. TaskInv'
    <2> SUFFICES ASSUME NEW r \in Ids, task'[r] # None
                 PROVE  task'[r].path = home[r] /\ Progress(r)'
        BY DEF TaskInv
    <2>1. task'[r] = task[r] /\ task[r] # None /\ newPw' = newPw
        OBVIOUS
    <2>2. home[r] \in Paths /\ task[r].path = home[r] /\ Progress(r)
        BY <2>1, TaskOwnsPath DEF TaskInv
    <2> QED BY <2>1, <2>2 DEF Progress
<1>5. PwInv'
    BY DEF PwInv, RowInv, Homed, Row
<1> QED BY <1>1, <1>2, <1>3, <1>4, <1>5

\* The history row gets the password its file was saved with.
LEMMA SoundRecord ==
    ASSUME TInv, AInv, Record
    PROVE  AInv'
<1> USE DEF TInv, TypeOK, BusyInv, AInv, disk, ghosts, Happens
<1>1. /\ cur \in [id: Ids, pw: Keys] /\ home[cur.id] \in Paths
      /\ \A r \in Ids : task[r] = None
    BY DEF Record, CurInv
<1> DEFINE row == [path |-> home[cur.id], encrypted |-> cur.pw # Plain, pw |-> cur.pw,
                   adopted |-> FALSE]
<1>2. row # None /\ row.path = home[cur.id] /\ row.pw = cur.pw /\ ~row.adopted
    <2>1. row \in Row
        BY <1>1 DEF Row
    <2> QED BY <2>1
<1>3. rows'[cur.id] = row /\ \A r \in Ids : r # cur.id => rows'[r] = rows[r]
    BY <1>1 DEF Record
<1> HIDE DEF row
<1>4. RowInv' /\ PwInv'
    BY <1>1, <1>2, <1>3 DEF Record, RowInv, Homed, PwInv, CurInv
<1>5. HomeInv' /\ CurInv' /\ TaskInv'
    BY <1>1 DEF Record, HomeInv, CurInv, TaskInv
<1> QED BY <1>4, <1>5

\* An adopted file gets a number that no backup has.
LEMMA SoundImport ==
    ASSUME TInv, AInv, ImportCommit
    PROVE  AInv'
<1> USE DEF TInv, TypeOK, BusyInv, AInv, disk, ghosts, Happens
<1>1. next \in Ids /\ home[next] = None /\ rows[next] = None /\ task[next] = None
    <2>1. next \in Ids /\ home[next] = None /\ rows[next] = None
        BY DEF Ids, ImportCommit
    <2>2. task[next] = None
        BY <2>1, TaskOwnsPath
    <2> QED BY <2>1, <2>2
<1> DEFINE row == [path |-> imp, encrypted |-> FALSE, pw |-> Plain, adopted |-> TRUE]
<1>2. row # None /\ ~row.encrypted /\ row.adopted
    <2>1. row \in Row
        BY DEF Row, ImportCommit
    <2> QED BY <2>1
<1>3. rows'[next] = row /\ \A r \in Ids : r # next => rows'[r] = rows[r]
    BY <1>1 DEF ImportCommit
<1> HIDE DEF row
<1>4. RowInv' /\ PwInv'
    BY <1>1, <1>2, <1>3 DEF ImportCommit, RowInv, Homed, PwInv
<1>5. TaskInv'
    BY <1>1, <1>3 DEF ImportCommit, TaskInv, Progress
<1>6. HomeInv' /\ CurInv'
    BY DEF ImportCommit, HomeInv, CurInv
<1> QED BY <1>4, <1>5, <1>6

\* The tasks of a re-encrypt start from what the rows record.
LEMMA SoundPlan ==
    ASSUME TInv, AInv, NEW pw \in Passwords, PlanReencrypt(pw)
    PROVE  AInv'
<1> USE DEF TInv, TypeOK, BusyInv, AInv, disk, ghosts, Happens
<1>1. ASSUME NEW r \in Ids, task'[r] # None
      PROVE  task'[r].path = home[r] /\ task'[r].at = "todo" /\ rows[r].pw = task'[r].old
    BY <1>1 DEF PlanReencrypt, Reencryptable, Rows, RowInv, Homed
<1>2. TaskInv'
    BY <1>1 DEF TaskInv, Progress, PlanReencrypt
<1>3. HomeInv' /\ RowInv' /\ CurInv' /\ PwInv'
    BY DEF PlanReencrypt, HomeInv, RowInv, Homed, CurInv, PwInv
<1> QED BY <1>2, <1>3

\* The other tasks have paths of their own.
LEMMA OthersProgress ==
    ASSUME TInv, AInv, NEW r \in Ids, home[r] # None, NEW q \in Ids, q # r, task[q] # None,
           task'[q] = task[q], home' = home, newPw' = newPw,
           lost \subseteq lost', rows'[q] = rows[q] \/ q \in lost',
           \A p \in Paths : p # home[r] => file'[p] = file[p] /\ staged'[p] = staged[p]
    PROVE  task'[q].path = home'[q] /\ Progress(q)'
<1>1. home[q] \in Paths /\ home[q] # home[r] /\ task[q].path = home[q] /\ Progress(q)
    BY TaskOwnsPath DEF AInv, HomeInv, TaskInv
<1> QED BY <1>1 DEF Progress

\* So have the other recorded rows.
LEMMA OthersReadable ==
    ASSUME TInv, AInv, NEW r \in Ids, home[r] # None, NEW q \in Ids \ lost, q # r,
           rows'[q] = rows[q], home' = home,
           \A p \in Paths : p # home[r] => file'[p] = file[p] /\ staged'[p] = staged[p],
           rows'[q] # None, ~rows'[q].adopted, file'[home'[q]] # None
    PROVE  \/ file'[home'[q]].pw = rows'[q].pw
           \/ staged'[home'[q]] = [body |-> q, pw |-> rows'[q].pw]
<1>1. home[q] = rows[q].path
    BY DEF AInv, RowInv, Homed
<1>2. home[q] \in Paths /\ home[q] # home[r]
    BY <1>1 DEF TInv, TypeOK, AInv, HomeInv, Row
<1> QED BY <1>2 DEF AInv, PwInv

\* Staging leaves the file in place and its row alone.
LEMMA SoundStage ==
    ASSUME TInv, AInv, NEW r \in Ids, Stage(r)
    PROVE  AInv'
<1> USE DEF disk, ghosts, Happens
<1>1. /\ task[r] # None /\ task[r].path = home[r] /\ home[r] \in Paths /\ newPw \in Passwords
      /\ wpc = "reencrypt" /\ cur = None /\ Progress(r)
      /\ task \in [Ids -> Maybe(Task)] /\ staged \in [Paths -> Maybe(Content)]
    BY TaskOwnsPath DEF Stage, At, AInv, TaskInv, TInv, TypeOK
<1>2. file[home[r]] # None /\ file[home[r]].body = r /\ file[home[r]].pw = task[r].old
    BY <1>1 DEF Stage, Opens, AInv, HomeInv, TInv, TypeOK, Content
<1>3. /\ staged'[home[r]] = [body |-> r, pw |-> newPw]
      /\ \A p \in Paths : p # home[r] => staged'[p] = staged[p]
    BY <1>1, <1>2 DEF Stage
<1>4. task'[r].path = home[r] /\ task'[r].old = task[r].old /\ task'[r].at = "staged"
    BY <1>1, WithStage DEF Stage
<1>5. \A q \in Ids : q # r => task'[q] = task[q]
    BY <1>1 DEF Stage
<1>6. UNCHANGED <<file, rows, home, newPw, wpc, cur, lost>>
    BY DEF Stage
<1>7. HomeInv'
    <2>1. staged'[home[r]].body = r
        BY <1>3
    <2> QED BY <1>1, <1>3, <1>6, <2>1 DEF AInv, HomeInv
<1>8. task[r].at = "todo" /\ (rows[r] # None /\ r \notin lost => rows[r].pw = task[r].old)
    BY <1>1 DEF Stage, At, Progress
<1>9. TaskInv'
    <2>1. task'[r].path = home'[r] /\ Progress(r)'
        BY <1>2, <1>3, <1>4, <1>6, <1>8 DEF Progress
    <2>2. ASSUME NEW q \in Ids, q # r, task'[q] # None
          PROVE  task'[q].path = home'[q] /\ Progress(q)'
        BY <1>1, <1>3, <1>5, <1>6, <2>2, OthersProgress
    <2> QED BY <2>1, <2>2 DEF TaskInv
<1>10. PwInv'
    BY <1>1, <1>2, <1>3, <1>6, <1>8, OthersReadable DEF PwInv
<1>11. RowInv' /\ CurInv'
    BY <1>1, <1>6 DEF AInv, RowInv, Homed, CurInv
<1> QED BY <1>7, <1>9, <1>10, <1>11 DEF AInv

\* A task that ends, with the file in place and its row's password agreeing.
LEMMA SoundEnd ==
    ASSUME TInv, TInv', AInv, NEW r \in Ids, task[r] # None, Drop(r),
           UNCHANGED <<home, newPw, wpc, cur>>,
           staged' = [staged EXCEPT ![home[r]] = None] \/ UNCHANGED staged,
           \A p \in Paths : p # home[r] => file'[p] = file[p],
           file'[home[r]] # None => home[file'[home[r]].body] = home[r],
           \A q \in Ids : Kept(q) /\ (q = r \/ rows'[q] = rows[q] \/ q \in lost'),
           lost \subseteq lost',
           \/ r \in lost'
           \/ rows[r] # None /\ file'[home[r]] # None => file'[home[r]].pw = rows'[r].pw
           \/ UNCHANGED <<file, staged, rows>>
    PROVE  AInv'
<1>1. /\ home[r] \in Paths /\ wpc = "reencrypt" /\ cur = None
      /\ rows[r] # None => ~rows[r].adopted
      /\ task \in [Ids -> Maybe(Task)] /\ staged \in [Paths -> Maybe(Content)]
    BY TaskOwnsPath DEF TInv, TypeOK
<1>2. \A p \in Paths : p # home[r] => staged'[p] = staged[p]
    BY <1>1
<1>3. staged'[home[r]] \in {None, staged[home[r]]}
    BY <1>1
<1>4. task'[r] = None /\ \A q \in Ids : q # r => task'[q] = task[q]
    BY <1>1 DEF Drop
<1>5. HomeInv'
    BY <1>1, <1>2, <1>3 DEF AInv, HomeInv
<1>6. TaskInv'
    <2>1. ASSUME NEW q \in Ids, task'[q] # None
          PROVE  task'[q].path = home'[q] /\ Progress(q)'
        <3>1. q # r /\ task'[q] = task[q] /\ task[q] # None
            BY <1>4, <2>1
        <3>2. rows'[q] = rows[q] \/ q \in lost'
            BY <3>1
        <3> QED BY <1>1, <1>2, <3>1, <3>2, OthersProgress
    <2> QED BY <2>1 DEF TaskInv
<1>7. PwInv'
    <2> SUFFICES ASSUME NEW q \in Ids \ lost', rows'[q] # None, ~rows'[q].adopted,
                        file'[home'[q]] # None
                 PROVE  \/ file'[home'[q]].pw = rows'[q].pw
                        \/ staged'[home'[q]] = [body |-> q, pw |-> rows'[q].pw]
        BY DEF PwInv
    <2>1. CASE q = r
        BY <2>1 DEF AInv, PwInv, Kept
    <2>2. CASE q # r
        BY <1>1, <1>2, <2>2, OthersReadable
    <2> QED BY <2>1, <2>2
<1>8. RowInv'
    <2> SUFFICES ASSUME NEW q \in Ids, rows'[q] # None
                 PROVE  Homed(q)'
        BY DEF RowInv
    <2>1. rows[q] # None /\ Kept(q) /\ home' = home
        BY DEF Kept
    <2> QED BY <2>1 DEF AInv, RowInv, Homed, Kept
<1>9. CurInv'
    BY <1>1, <1>4 DEF AInv, CurInv
<1> QED BY <1>5, <1>6, <1>7, <1>8, <1>9 DEF AInv

\* A task that fails, or whose child dies, ends with the old file and password.
LEMMA SoundStageFails ==
    ASSUME TInv, TInv', AInv, NEW r \in Ids, StageFails(r) \/ LoseResult(r)
    PROVE  AInv'
<1> USE DEF disk, ghosts, Happens
<1>1. /\ task[r] # None /\ task[r].path = home[r] /\ home[r] \in Paths
      /\ Progress(r) /\ Drop(r)
      /\ UNCHANGED <<file, rows, home, newPw, wpc, cur, lost>>
    BY TaskOwnsPath DEF StageFails, LoseResult, At, AInv, TaskInv
<1>2. file[home[r]] # None => home[file[home[r]].body] = home[r]
    BY <1>1 DEF AInv, HomeInv
<1>3. CASE UNCHANGED staged
    BY <1>1, <1>2, <1>3, SoundEnd DEF Kept
<1>4. CASE StageFails(r) /\ Opens(r) /\ staged' = [staged EXCEPT ![task[r].path] = None]
    <2>1. rows[r] # None /\ r \notin lost => file[home[r]].pw = rows[r].pw
        BY <1>1, <1>4 DEF StageFails, At, Opens, Progress
    <2> QED BY <1>1, <1>2, <1>4, <2>1, SoundEnd DEF Kept
<1> QED BY <1>3, <1>4 DEF StageFails, LoseResult

\* The file in place has the old password until the swap, which the staged file
\* and the row survive.
LEMMA SoundCommit ==
    ASSUME TInv, TInv', AInv, NEW r \in Ids, CommitPassword(r)
    PROVE  AInv'
<1> USE DEF ghosts, Happens
<1>1. /\ task[r] # None /\ task[r].path = home[r] /\ home[r] \in Paths /\ newPw \in Keys
      /\ wpc = "reencrypt" /\ cur = None
      /\ Progress(r) /\ task[r].at = "staged"
      /\ rows[r] # None => ~rows[r].adopted
      /\ UNCHANGED <<file, home, newPw, wpc, cur>>
    BY TaskOwnsPath DEF CommitPassword, At, AInv, TaskInv
<1>2. /\ staged[home[r]] = [body |-> r, pw |-> newPw]
      /\ file[home[r]] # None => file[home[r]].pw = task[r].old
      /\ rows[r] # None /\ r \notin lost => rows[r].pw = task[r].old
    BY <1>1 DEF Progress
<1>3. CASE /\ UNCHANGED <<rows, lost>> /\ Drop(r)
           /\ staged' = [staged EXCEPT ![task[r].path] = None]
    <2>1. file[home[r]] # None => home[file[home[r]].body] = home[r]
        BY <1>1 DEF AInv, HomeInv
    <2> QED BY <1>1, <1>2, <1>3, <2>1, SoundEnd DEF Kept
<1>4. CASE /\ Repassword(r, newPw)
           /\ lost' = lost \cup Struck(r)
           /\ task' = [task EXCEPT ![r].at = "swap"]
           /\ UNCHANGED staged
    <2>1. /\ \A q \in Ids : Kept(q) /\ (q = r \/ rows'[q] = rows[q] \/ q \in lost')
          /\ rows[r] # None => rows'[r].pw = newPw
        <3>1. rows \in [Ids -> Maybe(Row)]
            BY DEF TInv, TypeOK
        <3>2. OnlyPassword(r, newPw)
            BY <1>1, <1>4, <3>1, WithPassword
        <3> QED BY <1>4, <3>2, FoundById DEF OnlyPassword, Struck
    <2>2. /\ \A q \in Ids : q # r => task'[q] = task[q]
          /\ lost \subseteq lost'
        BY <1>4 DEF TInv, TypeOK
    <2>3. /\ task'[r].path = task[r].path /\ task'[r].old = task[r].old /\ task'[r].at = "swap"
        BY <1>1, <1>4, WithStage DEF TInv, TypeOK
    <2>4. TaskInv'
        <3>1. task'[r].path = home'[r] /\ Progress(r)'
            BY <1>1, <1>2, <1>4, <2>1, <2>3 DEF Progress, Kept
        <3>2. ASSUME NEW q \in Ids, q # r, task'[q] # None
              PROVE  task'[q].path = home'[q] /\ Progress(q)'
            BY <1>1, <1>4, <2>1, <2>2, <3>2, OthersProgress
        <3> QED BY <3>1, <3>2 DEF TaskInv
    <2>5. PwInv'
        <3> SUFFICES ASSUME NEW q \in Ids \ lost', rows'[q] # None, ~rows'[q].adopted,
                            file'[home'[q]] # None
                     PROVE  \/ file'[home'[q]].pw = rows'[q].pw
                            \/ staged'[home'[q]] = [body |-> q, pw |-> rows'[q].pw]
            BY <1>1 DEF PwInv
        <3>1. CASE q = r
            BY <1>1, <1>2, <1>4, <2>1, <3>1 DEF Kept
        <3>2. CASE q # r
            BY <1>1, <1>4, <2>1, <2>2, <3>2, OthersReadable
        <3> QED BY <3>1, <3>2
    <2>6. RowInv'
        BY <1>1, <2>1 DEF AInv, RowInv, Homed, Kept
    <2>7. HomeInv' /\ CurInv'
        BY <1>1, <1>4 DEF AInv, HomeInv, CurInv
    <2> QED BY <2>4, <2>5, <2>6, <2>7 DEF AInv
<1> QED BY <1>3, <1>4 DEF CommitPassword

\* The swap brings in the file the row's new password opens; when it fails the
\* old password comes back, or the row is given up.
LEMMA SoundSwap ==
    ASSUME TInv, TInv', AInv, NEW r \in Ids, Swap(r) \/ SwapFails(r)
    PROVE  AInv'
<1> USE DEF ghosts, Happens
<1>1. /\ task[r] # None /\ task[r].path = home[r] /\ home[r] \in Paths
      /\ task[r].old \in Keys
      /\ Progress(r) /\ task[r].at = "swap" /\ Drop(r)
      /\ staged' = [staged EXCEPT ![home[r]] = None]
      /\ UNCHANGED <<home, newPw, wpc, cur>>
    BY TaskOwnsPath DEF Swap, SwapFails, At, AInv, TaskInv, Task
<1>2. /\ staged[home[r]] = [body |-> r, pw |-> newPw]
      /\ file[home[r]] # None => file[home[r]].pw = task[r].old
      /\ rows[r] # None /\ r \notin lost => rows[r].pw = newPw
    BY <1>1 DEF Progress
<1>3. file[home[r]] # None => home[file[home[r]].body] = home[r]
    BY <1>1 DEF AInv, HomeInv
<1>4. CASE Swap(r)
    <2>1. /\ file'[home[r]] = [body |-> r, pw |-> newPw]
          /\ \A p \in Paths : p # home[r] => file'[p] = file[p]
          /\ UNCHANGED <<rows, lost>>
        BY <1>1, <1>2, <1>4 DEF Swap, TInv, TypeOK
    <2>2. file'[home[r]].body = r /\ file'[home[r]].pw = newPw
        BY <2>1
    <2> QED BY <1>1, <1>2, <2>1, <2>2, SoundEnd DEF Kept
<1>5. CASE SwapFails(r) /\ Repassword(r, task[r].old) /\ lost' = lost \cup Struck(r)
    <2>1. /\ \A q \in Ids : Kept(q) /\ (q = r \/ rows'[q] = rows[q] \/ q \in lost')
          /\ rows[r] # None => rows'[r].pw = task[r].old
        <3>1. rows \in [Ids -> Maybe(Row)]
            BY DEF TInv, TypeOK
        <3>2. OnlyPassword(r, task[r].old)
            BY <1>1, <1>5, <3>1, WithPassword
        <3> QED BY <1>5, <3>2, FoundById DEF OnlyPassword, Struck
    <2>2. lost \subseteq lost' /\ UNCHANGED file
        BY <1>5 DEF SwapFails
    <2> QED BY <1>1, <1>2, <1>3, <2>1, <2>2, SoundEnd
<1>6. CASE SwapFails(r) /\ lost' = lost \cup {r} /\ UNCHANGED rows
    BY <1>1, <1>3, <1>6, SoundEnd DEF SwapFails, Kept
<1> QED BY <1>4, <1>5, <1>6 DEF SwapFails

\* A password that was meant for another row gives up the row it lands on.
LEMMA SoundStray ==
    ASSUME TInv, AInv, NEW r \in Ids, NEW pw \in Passwords, StrayPassword(r, pw)
    PROVE  AInv'
<1> USE DEF disk, ghosts, Happens
<1>1. /\ \A q \in Ids : Kept(q) /\ (rows'[q] = rows[q] \/ q \in lost')
      /\ lost \subseteq lost'
    <2>1. rows \in [Ids -> Maybe(Row)] /\ Repassword(r, pw) /\ lost' = lost \cup Hit(r)
        BY DEF StrayPassword, TInv, TypeOK
    <2>2. OnlyPassword(r, pw)
        BY <2>1, WithPassword
    <2> QED BY <2>1, <2>2 DEF OnlyPassword
<1>2. UNCHANGED <<file, staged, home, newPw, wpc, cur, task>>
    BY DEF StrayPassword
<1>3. RowInv'
    BY <1>1, <1>2 DEF AInv, RowInv, Homed, Kept
<1>4. TaskInv'
    <2> SUFFICES ASSUME NEW q \in Ids, task[q] # None
                 PROVE  task[q].path = home[q] /\ Progress(q)'
        BY <1>2 DEF TaskInv
    <2>1. task[q].path = home[q] /\ Progress(q)
        BY DEF AInv, TaskInv
    <2> QED BY <1>1, <1>2, <2>1 DEF Progress
<1>5. PwInv'
    BY <1>1, <1>2 DEF AInv, PwInv
<1>6. HomeInv' /\ CurInv'
    BY <1>2 DEF AInv, HomeInv, CurInv
<1> QED BY <1>3, <1>4, <1>5, <1>6 DEF AInv

\* Every step keeps the password invariant.
LEMMA SoundStep ==
    ASSUME ~CoarseNames, TInv, TInv', AInv, [Next]_vars
    PROVE  AInv'
<1> USE DEF disk, prune, web, ghosts, Happens
<1>1. CASE \E p \in Paths, pw \in Keys : Save(p, pw)
    BY <1>1, SoundSave
<1>2. CASE UNCHANGED vars \/ PlanPrune \/ FinishReencrypt \/ Interrupt
    BY <1>2, SoundRemoval DEF vars, PlanPrune, FinishReencrypt, Interrupt, AInv, CurInv
<1>3. CASE \E s \in stale : Unlink(s)
    BY <1>3, SoundRemoval DEF Unlink, AInv, CurInv, TInv, TypeOK, Stale
<1>4. CASE CommitPrune
    BY <1>4, WithoutRows, SoundRemoval DEF CommitPrune, AInv, CurInv
<1>5. CASE \E r \in Ids : DeleteFile(r)
    BY <1>5, SoundRemoval DEF DeleteFile, AInv, CurInv, TInv, TypeOK
<1>6. CASE DeleteRow \/ InterruptDelete \/ \E p \in Paths : ImportScan(p)
    BY <1>6, WithoutRows, SoundRemoval DEF DeleteRow, InterruptDelete, ImportScan, AInv, CurInv
<1>7. CASE \E r \in Ids : StrayDelete(r)
    BY <1>7, WithoutRows, SoundRemoval DEF StrayDelete, AInv, CurInv
<1> QED BY <1>1, <1>2, <1>3, <1>4, <1>5, <1>6, <1>7, SoundStray, SoundRecord, SoundImport, SoundPlan, SoundStage,
           SoundStageFails, SoundCommit, SoundSwap DEF Next, Exhausted

\* The password invariant holds in every reachable state.
LEMMA SoundAlways == ~CoarseNames /\ Spec => [](TInv /\ AInv)
<1> SUFFICES ASSUME ~CoarseNames PROVE Spec => [](TInv /\ AInv)
    OBVIOUS
<1>1. TInv /\ AInv /\ [Next]_vars => (TInv /\ AInv)'
    BY TypedStep, SoundStep
<1> QED BY <1>1, TypedInit, SoundInit, PTL DEF Spec

\* A file holds the backup whose path it has, so the password is all that can
\* be wrong.
LEMMA SoundRecoverable == TInv /\ AInv => Recoverable
<1> SUFFICES ASSUME TInv, AInv, NEW r \in Recorded \ lost, file[rows[r].path] # None
             PROVE  /\ file[rows[r].path].body = r
                    /\ \/ file[rows[r].path] = [body |-> r, pw |-> rows[r].pw]
                       \/ staged[rows[r].path] = [body |-> r, pw |-> rows[r].pw]
    BY DEF Recoverable
<1>1. r \in Ids /\ rows[r] # None /\ ~rows[r].adopted
    BY DEF Recorded, Rows
<1>2. rows[r].path = home[r] /\ home[r] \in Paths
    BY <1>1 DEF TInv, TypeOK, AInv, RowInv, Homed, Row
<1>3. file[home[r]] \in Content /\ home[file[home[r]].body] = home[r]
    BY <1>2 DEF TInv, TypeOK, AInv, HomeInv
<1>4. file[home[r]].body = r
    BY <1>1, <1>2, <1>3 DEF AInv, HomeInv, Content
<1>5. \/ file[home[r]].pw = rows[r].pw
      \/ staged[home[r]] = [body |-> r, pw |-> rows[r].pw]
    BY <1>1, <1>2 DEF AInv, PwInv
<1> QED BY <1>2, <1>3, <1>4, <1>5 DEF Content

\* With unique names, whatever the worker and the web do and wherever they are
\* interrupted, the password of a recorded backup opens its file or the staged
\* copy beside it (_reencrypt_rows, _write_backup_history, delete_backup), unless
\* a restore failed or the id had belonged to a row that a re-encrypt still had.
THEOREM PasswordsKept == ~CoarseNames /\ Spec => []Recoverable
BY SoundAlways, SoundRecoverable, PTL

-----------------------------------------------------------------------------
(* Missing files, when nothing is adopted while a backup runs.             *)

\* Every row lies at a path some backup was saved to, and no two at the same.
PlacesInv ==
    /\ \A r \in Ids : rows[r] # None => \E a \in Ids : home[a] = rows[r].path
    /\ \A r, q \in Ids : rows[r] # None /\ rows[q] # None /\ rows[r].path = rows[q].path => r = q

\* Nothing that is about to be unlinked belongs to another row.
StaleInv ==
    /\ stale # {} => wpc = "unlink"
    /\ \A s \in stale, r \in Ids : rows[r] # None /\ rows[r].path = s.path => r = s.id

\* A file about to be recorded or adopted is there, and no row, no stale entry
\* and no one else is after it.
Claimed(p) ==
    /\ file[p] # None
    /\ \A r \in Ids : rows[r] # None => rows[r].path # p
    /\ \A s \in stale : s.path # p

ClaimInv ==
    /\ cur # None => Claimed(home[cur.id])
    /\ imp # None => Claimed(imp) /\ (cur # None => home[cur.id] # imp)

\* MissingExplained, with the rows spelled out.
GoneInv ==
    \A r \in Ids : rows[r] # None /\ file[rows[r].path] = None => r \in torn \cup gone \cup {del}

MInv == PlacesInv /\ StaleInv /\ ClaimInv /\ GoneInv

\* The empty instance satisfies the path invariant.
LEMMA PlacedInit == Init => MInv
BY DEF Init, MInv, PlacesInv, StaleInv, ClaimInv, Claimed, GoneInv

\* A step that takes no file away and adds no row.
LEMMA PlacedQuiet ==
    ASSUME TInv, MInv,
           UNCHANGED <<home, stale, gone, del, imp, torn>>,
           cur' \in {cur, None}, stale = {} \/ wpc' = wpc,
           \A p \in Paths : file[p] # None => file'[p] # None,
           \A r \in Ids : rows'[r] # None => rows[r] # None /\ rows'[r].path = rows[r].path
    PROVE  MInv'
<1> USE DEF TInv, TypeOK, MInv
<1>1. PlacesInv' /\ StaleInv'
    BY DEF PlacesInv, StaleInv
<1>2. ClaimInv'
    BY DEF ClaimInv, Claimed, BusyInv
<1>3. GoneInv'
    BY DEF GoneInv, Row
<1> QED BY <1>1, <1>2, <1>3

\* Re-encryption moves no row, and what it swaps in is a file.
LEMMA PlacedReencrypt ==
    ASSUME TInv, AInv, MInv,
           \/ \E pw \in Passwords : PlanReencrypt(pw)
           \/ \E r \in Ids : \/ Stage(r) \/ StageFails(r) \/ LoseResult(r)
                             \/ CommitPassword(r) \/ Swap(r) \/ SwapFails(r)
           \/ FinishReencrypt
    PROVE  MInv'
<1> USE DEF disk, prune, web, ghosts, Happens
<1>1. CASE FinishReencrypt \/ \E pw \in Passwords : PlanReencrypt(pw)
    BY <1>1, PlacedQuiet DEF FinishReencrypt, PlanReencrypt, MInv, StaleInv
<1>2. ASSUME NEW r \in Ids, Stage(r) \/ StageFails(r) \/ LoseResult(r) PROVE MInv'
    BY <1>2, PlacedQuiet DEF Stage, StageFails, LoseResult
<1>3. ASSUME NEW r \in Ids, CommitPassword(r) PROVE MInv'
    <2>1. newPw \in Keys /\ rows \in [Ids -> Maybe(Row)]
        BY <1>3, TaskOwnsPath DEF CommitPassword, At, TInv, TypeOK
    <2>2. CASE UNCHANGED rows
        BY <1>3, <2>2, PlacedQuiet DEF CommitPassword
    <2>3. CASE Repassword(r, newPw)
        <3>1. \A q \in Ids : rows'[q] # None => rows[q] # None /\ rows'[q].path = rows[q].path
            BY <2>1, <2>3, WithPassword DEF OnlyPassword, Kept
        <3> QED BY <1>3, <3>1, PlacedQuiet DEF CommitPassword
    <2> QED BY <1>3, <2>2, <2>3 DEF CommitPassword
<1>4. ASSUME NEW r \in Ids, Swap(r) PROVE MInv'
    <2>1. /\ task[r] # None /\ task[r].at = "swap"
        BY <1>4 DEF Swap, At
    <2>2. /\ task[r].path = home[r] /\ home[r] \in Paths /\ newPw \in Passwords
          /\ staged[home[r]] = [body |-> r, pw |-> newPw]
        BY <2>1, TaskOwnsPath DEF AInv, TaskInv, Progress
    <2>3. staged[home[r]] # None
        <3>1. [body |-> r, pw |-> newPw] \in Content
            BY <2>2 DEF Content
        <3> QED BY <2>2, <3>1
    <2>4. \A p \in Paths : file[p] # None => file'[p] # None
        BY <1>4, <2>2, <2>3 DEF Swap, TInv, TypeOK
    <2> QED BY <1>4, <2>4, PlacedQuiet DEF Swap
<1>5. ASSUME NEW r \in Ids, SwapFails(r) PROVE MInv'
    <2>1. task[r].old \in Keys /\ rows \in [Ids -> Maybe(Row)]
        BY <1>5, TaskOwnsPath DEF SwapFails, At, TInv, TypeOK, Task
    <2>2. CASE UNCHANGED rows
        BY <1>5, <2>2, PlacedQuiet DEF SwapFails
    <2>3. CASE Repassword(r, task[r].old)
        <3>1. \A q \in Ids : rows'[q] # None => rows[q] # None /\ rows'[q].path = rows[q].path
            BY <2>1, <2>3, WithPassword DEF OnlyPassword, Kept
        <3> QED BY <1>5, <3>1, PlacedQuiet DEF SwapFails
    <2> QED BY <1>5, <2>2, <2>3 DEF SwapFails
<1> QED BY <1>1, <1>2, <1>3, <1>4, <1>5

\* A backup claims a fresh path, prunes other rows' files, and becomes a row.
LEMMA PlacedBackup ==
    ASSUME ~CoarseNames, TInv, AInv, MInv,
           \/ \E p \in Paths, pw \in Keys : Save(p, pw)
           \/ PlanPrune
           \/ \E s \in stale : Unlink(s)
           \/ CommitPrune
           \/ Record
    PROVE  MInv'
<1> USE DEF TInv, TypeOK, BusyInv, MInv, disk, prune, web, ghosts, Happens
<1>1. ASSUME NEW p \in Paths, NEW pw \in Keys, Save(p, pw) PROVE MInv'
    <2>1. /\ next \in Ids /\ home[next] = None /\ stale = {} /\ \A a \in Ids : home[a] # p
        BY <1>1 DEF Ids, Save, StaleInv
    <2>2. /\ home'[next] = p /\ \A a \in Ids : a # next => home'[a] = home[a]
          /\ cur'.id = next
          /\ UNCHANGED <<rows, stale, gone, del, imp, torn>>
        BY <1>1, <2>1 DEF Save
    <2>3. file'[p] # None /\ \A q \in Paths : q # p => file'[q] = file[q]
        <3>1. [body |-> next, pw |-> pw] \in Content
            BY <2>1 DEF Content
        <3> QED BY <1>1, <3>1 DEF Save
    <2>4. \A r \in Ids : rows[r] # None => rows[r].path \in Paths /\ rows[r].path # p
        BY <2>1 DEF PlacesInv, Row
    <2>5. PlacesInv'
        BY <2>1, <2>2, <2>4 DEF PlacesInv
    <2>6. StaleInv'
        BY <2>1, <2>2 DEF StaleInv
    <2>7. imp # None => imp # p
        <3>1. imp # None => file[imp] \in Content /\ home[file[imp].body] = imp
            BY DEF ClaimInv, Claimed, AInv, HomeInv
        <3> QED BY <2>1, <3>1 DEF Content
    <2>8. ClaimInv'
        BY <2>1, <2>2, <2>3, <2>4, <2>7 DEF ClaimInv, Claimed
    <2>9. GoneInv'
        BY <2>2, <2>3, <2>4 DEF GoneInv
    <2> QED BY <2>5, <2>6, <2>8, <2>9
<1>2. CASE PlanPrune
    <2>1. ASSUME NEW s \in stale'
          PROVE  s.id \in Ids /\ rows[s.id] # None /\ s.path = rows[s.id].path
        BY <1>2, <2>1 DEF PlanPrune, Rows
    <2>2. StaleInv'
        BY <1>2, <2>1 DEF PlanPrune, StaleInv, PlacesInv
    <2>3. ClaimInv'
        BY <1>2, <2>1 DEF PlanPrune, ClaimInv, Claimed
    <2>4. PlacesInv' /\ GoneInv'
        BY <1>2 DEF PlanPrune, PlacesInv, GoneInv
    <2> QED BY <2>2, <2>3, <2>4
<1>3. ASSUME NEW s \in stale, Unlink(s) PROVE MInv'
    <2>1. s.path \in Paths /\ s.id \in Ids
        BY DEF Stale
    <2>2. \/ file'[s.path] = None /\ s.id \in gone'
          \/ UNCHANGED file
        BY <1>3, <2>1 DEF Unlink
    <2>3. (\A q \in Paths : q # s.path => file'[q] = file[q]) /\ gone \subseteq gone'
        BY <1>3 DEF Unlink
    <2>4. UNCHANGED <<rows, home, cur, del, imp, torn, wpc>> /\ stale' \subseteq stale
        BY <1>3 DEF Unlink
    <2>5. PlacesInv' /\ StaleInv'
        BY <2>4 DEF PlacesInv, StaleInv
    <2>6. ClaimInv'
        BY <2>3, <2>4 DEF ClaimInv, Claimed
    <2>7. GoneInv'
        BY <2>2, <2>3, <2>4 DEF GoneInv, StaleInv, Row
    <2> QED BY <2>5, <2>6, <2>7
<1>4. CASE CommitPrune
    <2>1. \A r \in Ids : rows'[r] # None => rows'[r] = rows[r] /\ r \notin gone
        BY <1>4, WithoutRows DEF CommitPrune
    <2> QED BY <1>4, <2>1 DEF CommitPrune, PlacesInv, StaleInv, ClaimInv, Claimed, GoneInv
<1>5. CASE Record
    <2>1. cur # None /\ cur.id \in Ids /\ home[cur.id] \in Paths /\ cur.pw \in Keys
        BY <1>5 DEF Record
    <2> DEFINE row == [path |-> home[cur.id], encrypted |-> cur.pw # Plain, pw |-> cur.pw,
                       adopted |-> FALSE]
    <2>2. row.path = home[cur.id]
        OBVIOUS
    <2>3. rows'[cur.id] = row /\ \A r \in Ids : r # cur.id => rows'[r] = rows[r]
        BY <1>5, <2>1 DEF Record
    <2> HIDE DEF row
    <2>4. /\ UNCHANGED <<file, home, stale, gone, del, imp, torn>> /\ stale = {} /\ cur' = None
          /\ Claimed(home[cur.id])
        BY <1>5, <2>1 DEF Record, StaleInv, ClaimInv
    <2>5. PlacesInv'
        BY <2>1, <2>2, <2>3, <2>4 DEF PlacesInv, Claimed
    <2>6. StaleInv' /\ ClaimInv'
        BY <2>1, <2>2, <2>3, <2>4 DEF StaleInv, ClaimInv, Claimed
    <2>7. GoneInv'
        BY <2>1, <2>2, <2>3, <2>4 DEF GoneInv, Claimed
    <2> QED BY <2>5, <2>6, <2>7
<1> QED BY <1>1, <1>2, <1>3, <1>4, <1>5

\* The web takes away the file of its own row only, and adopts what nobody claims.
LEMMA PlacedWeb ==
    ASSUME ~ImportDuringBackup, TInv, AInv, MInv,
           \/ \E r \in Ids : DeleteFile(r)
           \/ DeleteRow
           \/ InterruptDelete
           \/ \E p \in Paths : ImportScan(p)
           \/ ImportCommit
           \/ Interrupt
    PROVE  MInv'
<1> USE DEF TInv, TypeOK, BusyInv, MInv, disk, prune, web, ghosts, Happens
<1>1. ASSUME NEW r \in Ids, DeleteFile(r) PROVE MInv'
    <2>1. rows[r] # None /\ rows[r].path \in Paths /\ del = None /\ del' = r
        BY <1>1 DEF DeleteFile, Row
    <2>2. /\ UNCHANGED <<rows, home, cur, stale, gone, imp, torn, wpc>>
          /\ \A q \in Paths : q # rows[r].path => file'[q] = file[q]
        BY <1>1, <2>1 DEF DeleteFile
    <2>3. PlacesInv' /\ StaleInv'
        BY <2>2 DEF PlacesInv, StaleInv
    <2>4. ClaimInv'
        BY <2>1, <2>2 DEF ClaimInv, Claimed
    <2>5. GoneInv'
        BY <2>1, <2>2 DEF GoneInv, PlacesInv, Row
    <2> QED BY <2>3, <2>4, <2>5
<1>2. CASE DeleteRow
    <2>1. \A r \in Ids : rows'[r] # None => rows'[r] = rows[r] /\ r # del
        BY <1>2, WithoutRows DEF DeleteRow
    <2>2. UNCHANGED <<file, home, cur, wpc, stale, gone, imp, torn>> /\ del' = None
        BY <1>2 DEF DeleteRow
    <2>3. PlacesInv'
        BY <2>1, <2>2 DEF PlacesInv
    <2>4. StaleInv'
        BY <2>1, <2>2 DEF StaleInv
    <2>5. GoneInv'
        BY <2>1, <2>2 DEF GoneInv
    <2>6. ClaimInv'
        BY <2>1, <2>2 DEF ClaimInv, Claimed
    <2> QED BY <2>3, <2>4, <2>5, <2>6
<1>3. CASE InterruptDelete
    BY <1>3 DEF InterruptDelete, PlacesInv, StaleInv, ClaimInv, Claimed, GoneInv
<1>4. ASSUME NEW p \in Paths, ImportScan(p) PROVE MInv'
    <2>1. cur = None /\ stale = {}
        BY <1>4 DEF ImportScan, StaleInv
    <2>2. ClaimInv'
        BY <1>4, <2>1 DEF ImportScan, ClaimInv, Claimed, Rows
    <2>3. PlacesInv' /\ StaleInv' /\ GoneInv'
        BY <1>4 DEF ImportScan, PlacesInv, StaleInv, GoneInv
    <2> QED BY <2>2, <2>3
<1>5. CASE ImportCommit
    <2>1. next \in Ids /\ imp \in Paths /\ Claimed(imp) /\ (cur # None => home[cur.id] # imp)
        BY <1>5 DEF ImportCommit, ClaimInv
    <2> DEFINE row == [path |-> imp, encrypted |-> FALSE, pw |-> Plain, adopted |-> TRUE]
    <2>2. row.path = imp
        OBVIOUS
    <2>3. rows'[next] = row /\ \A r \in Ids : r # next => rows'[r] = rows[r]
        BY <1>5, <2>1 DEF ImportCommit
    <2> HIDE DEF row
    <2>4. /\ UNCHANGED <<file, home, cur, wpc, stale, gone, del, torn>> /\ imp' = None
          /\ \E a \in Ids : home[a] = imp
        <3>1. UNCHANGED <<file, home, cur, wpc, stale, gone, del, torn>> /\ imp' = None
            BY <1>5 DEF ImportCommit
        <3>2. \E a \in Ids : home[a] = imp
            BY <2>1 DEF Claimed, AInv, HomeInv, Content
        <3> QED BY <3>1, <3>2
    <2>5. PlacesInv' /\ StaleInv'
        BY <2>1, <2>2, <2>3, <2>4 DEF PlacesInv, StaleInv, Claimed
    <2>6. ClaimInv' /\ GoneInv'
        BY <2>1, <2>2, <2>3, <2>4 DEF ClaimInv, GoneInv, Claimed
    <2> QED BY <2>5, <2>6
<1>6. CASE Interrupt
    BY <1>6 DEF Interrupt, PlacesInv, StaleInv, ClaimInv, Claimed, GoneInv
<1> QED BY <1>1, <1>2, <1>3, <1>4, <1>5, <1>6

\* Every step keeps the path invariant.
LEMMA PlacedStep ==
    ASSUME ~CoarseNames, ~ImportDuringBackup, TInv, AInv, MInv, [Next]_vars
    PROVE  MInv'
<1>1. CASE UNCHANGED vars
    BY <1>1, PlacedQuiet DEF vars
<1>2. ASSUME NEW r \in Ids, NEW pw \in Passwords, StrayPassword(r, pw) PROVE MInv'
    <2>1. Repassword(r, pw) /\ rows \in [Ids -> Maybe(Row)] /\ pw \in Keys
        BY <1>2 DEF StrayPassword, TInv, TypeOK
    <2>2. \A q \in Ids : rows'[q] # None => rows[q] # None /\ rows'[q].path = rows[q].path
        BY <2>1, WithPassword DEF OnlyPassword, Kept
    <2> QED BY <1>2, <2>2, PlacedQuiet DEF StrayPassword, disk, prune, web
<1>3. ASSUME NEW r \in Ids, StrayDelete(r) PROVE MInv'
    BY <1>3, WithoutRows, PlacedQuiet DEF StrayDelete, disk, prune, web
<1> QED BY <1>1, <1>2, <1>3, PlacedBackup, PlacedReencrypt, PlacedWeb DEF Next, Exhausted

\* The spelled-out form is the property itself.
LEMMA GoneIsMissing == GoneInv => MissingExplained
BY DEF GoneInv, MissingExplained, Rows

\* With unique names and no adoption while a backup runs, a row whose file is
\* missing is one whose own deletion is under way or was cut off: no operation
\* takes away another row's file (_cleanup_old_backups, delete_backup).
THEOREM FilesKept == ~CoarseNames /\ ~ImportDuringBackup /\ Spec => []MissingExplained
<1> SUFFICES ASSUME ~CoarseNames, ~ImportDuringBackup PROVE Spec => []MissingExplained
    OBVIOUS
<1>1. Spec => [](TInv /\ AInv)
    BY SoundAlways, PTL
<1>2. TInv /\ AInv /\ MInv /\ [Next]_vars => MInv'
    BY PlacedStep
<1>3. MInv => MissingExplained
    BY GoneIsMissing DEF MInv
<1> QED BY <1>1, <1>2, <1>3, PlacedInit, PTL DEF Spec
-----------------------------------------------------------------------------
(* The other half of an encrypted backup: its row's password is a          *)
(* ciphertext under the key file (SecretKey). No credential of an instance *)
(* or a backup is ever out of reach of that file, for any number of        *)
(* services, rows and rotations, any chunk size and any bound, whatever    *)
(* step a crash falls on.                                                  *)

\* The key file exists, or one service alone is started on the new volume. (Two that
\* create it at once each keep a key of their own.)
OneCreator == \A s, t \in Creators : s = t

\* A service that is creating the file has found none: no key is in use yet.
CreationInv ==
    /\ Creators = {} => keyFile.exists
    /\ \A s \in Services : svc[s] \in {"create", "write"} => s \in Creators /\ keyFile.keys = {}

\* While rotate_key runs the stack is down and the file is what it wrote.
RotationInv ==
    rpc # "idle" => /\ Down
                    /\ keyFile = mem
                    /\ mem.keys # {}

\* Past the verification every walked ciphertext is under the new key.
VerifiedInv == rpc = "prune" => \A c \in Walked : ct[c] \in {Empty, mem.first}

KInv ==
    /\ KeyTypeOK
    /\ CreationInv
    /\ RotationInv
    /\ VerifiedInv
    /\ CredentialsReadable
    /\ ServicesAgree

-----------------------------------------------------------------------------
\* The initial state: a new volume without a key, or a file with one.
LEMMA KInit == KeyInit => KInv
<1> SUFFICES ASSUME KeyInit PROVE KInv
    OBVIOUS
<1> USE KeyAssumption DEF KeyInit, NoFile, OneKey
<1>1. KeyTypeOK
    BY DEF KeyTypeOK, KeyFile
<1>2. CreationInv /\ RotationInv /\ VerifiedInv /\ ServicesAgree
    BY DEF CreationInv, RotationInv, VerifiedInv, ServicesAgree
<1>3. CredentialsReadable
    BY DEF CredentialsReadable, Walked, Cts
<1> QED BY <1>1, <1>2, <1>3 DEF KInv

\* A service starts, creates the file, stops or stores a secret.
LEMMA KService ==
    ASSUME OneCreator, KInv, NEW s \in Services,
           \/ LoadKeys(s) \/ FindNoFile(s) \/ CreateFile(s) \/ WriteKey(s) \/ StopService(s)
           \/ \E c \in Cts : StoreSecret(s, c) \/ ClearSecret(s, c)
    PROVE  KInv'
<1> USE KeyAssumption DEF KInv, Down
<1>1. CASE LoadKeys(s)
    <2> USE <1>1 DEF LoadKeys
    <2>1. KeyTypeOK'
        BY DEF KeyTypeOK
    <2>2. CreationInv' /\ RotationInv' /\ VerifiedInv' /\ CredentialsReadable' /\ ServicesAgree'
        BY DEF KeyTypeOK, CreationInv, RotationInv, VerifiedInv, CredentialsReadable, ServicesAgree
    <2> QED BY <2>1, <2>2
<1>2. CASE FindNoFile(s)
    <2> USE <1>2 DEF FindNoFile
    <2>1. KeyTypeOK'
        BY DEF KeyTypeOK
    <2>2. keyFile.keys = {}
        BY DEF KeyTypeOK, KeyFile
    <2>3. CreationInv' /\ RotationInv' /\ VerifiedInv' /\ CredentialsReadable' /\ ServicesAgree'
        BY <2>2 DEF KeyTypeOK, CreationInv, RotationInv, VerifiedInv, CredentialsReadable, ServicesAgree
    <2> QED BY <2>1, <2>3
<1>3. CASE CreateFile(s)
    <2> USE <1>3 DEF CreateFile, NoKeys
    <2>1. KeyTypeOK'
        BY DEF KeyTypeOK, KeyFile
    <2>2. keyFile.keys = {} /\ rpc = "idle"
        BY DEF CreationInv, RotationInv
    <2>3. CreationInv' /\ RotationInv' /\ VerifiedInv' /\ CredentialsReadable' /\ ServicesAgree'
        BY <2>2 DEF KeyTypeOK, CreationInv, RotationInv, VerifiedInv, CredentialsReadable, ServicesAgree
    <2> QED BY <2>1, <2>3
<1>4. CASE WriteKey(s)
    <2> USE <1>4 DEF WriteKey, OneKey
    <2>1. KeyTypeOK'
        BY DEF KeyTypeOK, KeyFile
    <2>2. keyFile.keys = {} /\ rpc = "idle"
        BY DEF CreationInv, RotationInv
    <2>3. CredentialsReadable' /\ VerifiedInv' /\ RotationInv'
        BY <2>2 DEF CredentialsReadable, VerifiedInv, RotationInv
    <2>4. \A t \in Services : svc'[t] = "up" => t = s
        BY <2>2 DEF ServicesAgree, KeyTypeOK
    <2>5. ServicesAgree'
        BY <2>4 DEF ServicesAgree, KeyTypeOK
    <2>6. CreationInv'
        BY DEF CreationInv, OneCreator, KeyTypeOK
    <2> QED BY <2>1, <2>3, <2>5, <2>6
<1>5. CASE StopService(s)
    <2> USE <1>5 DEF StopService
    <2>1. KeyTypeOK'
        BY DEF KeyTypeOK
    <2>2. CreationInv' /\ RotationInv' /\ VerifiedInv' /\ CredentialsReadable' /\ ServicesAgree'
        BY DEF KeyTypeOK, CreationInv, RotationInv, VerifiedInv, CredentialsReadable, ServicesAgree
    <2> QED BY <2>1, <2>2
<1>6. ASSUME NEW c \in Cts, StoreSecret(s, c) PROVE KInv'
    <2> USE <1>6 DEF StoreSecret
    <2>1. /\ loaded[s] = keyFile /\ rpc = "idle"
          /\ keyFile.first \in keyFile.keys /\ keyFile.first \in Nat
        BY DEF ServicesAgree, RotationInv, KeyTypeOK, KeyFile
    <2>2. KeyTypeOK'
        BY <2>1 DEF KeyTypeOK
    <2>3. CredentialsReadable'
        BY <2>1 DEF CredentialsReadable, KeyTypeOK, Walked, Cts
    <2>4. CreationInv' /\ RotationInv' /\ VerifiedInv' /\ ServicesAgree'
        BY <2>1 DEF CreationInv, RotationInv, VerifiedInv, ServicesAgree
    <2> QED BY <2>2, <2>3, <2>4
<1>7. ASSUME NEW c \in Cts, ClearSecret(s, c) PROVE KInv'
    <2> USE <1>7 DEF ClearSecret
    <2>1. KeyTypeOK' /\ CredentialsReadable' /\ VerifiedInv'
        BY DEF KeyTypeOK, CredentialsReadable, VerifiedInv, Walked, Cts
    <2>2. CreationInv' /\ RotationInv' /\ ServicesAgree'
        BY DEF CreationInv, RotationInv, ServicesAgree
    <2> QED BY <2>1, <2>2
<1> QED BY <1>1, <1>2, <1>3, <1>4, <1>5, <1>6, <1>7

\* Re-encrypting some columns leaves every ciphertext under the new key or as
\* it was.
LEMMA ReencryptKeeps ==
    ASSUME KeyTypeOK, RotationInv, CredentialsReadable, rpc # "idle",
           NEW cols, Reencrypt(cols), keyFile' = keyFile
    PROVE  /\ ct' \in [Cts -> Nat \cup {Empty}]
           /\ CredentialsReadable'
<1>1. keyFile = mem /\ mem.first \in mem.keys /\ mem.first \in Nat
    BY DEF RotationInv, KeyTypeOK, KeyFile
<1>2. ct' \in [Cts -> Nat \cup {Empty}]
    BY <1>1 DEF Reencrypt, KeyTypeOK
<1>3. CredentialsReadable'
    BY <1>1 DEF Reencrypt, CredentialsReadable, KeyTypeOK, Walked, Cts
<1> QED BY <1>2, <1>3

\* A step of rotate_key, its failures and its crash included.
LEMMA KRotation ==
    ASSUME KInv, StartRotation \/ Rotate \/ AbortRotation
    PROVE  KInv'
<1> USE KeyAssumption DEF KInv
<1>1. CASE StartRotation
    <2> USE <1>1 DEF StartRotation, Prepend
    <2>1. KeyTypeOK'
        BY DEF KeyTypeOK, KeyFile
    <2>2. CredentialsReadable'
        BY DEF CredentialsReadable
    <2>3. CreationInv' /\ RotationInv' /\ VerifiedInv' /\ ServicesAgree'
        BY DEF CreationInv, RotationInv, VerifiedInv, ServicesAgree, Down
    <2> QED BY <2>1, <2>2, <2>3
<1>2. CASE RotateInstances
    <2> USE <1>2 DEF RotateInstances
    <2>1. KeyTypeOK' /\ CredentialsReadable'
        BY ReencryptKeeps DEF KeyTypeOK
    <2>2. CreationInv' /\ RotationInv' /\ VerifiedInv' /\ ServicesAgree'
        BY DEF CreationInv, RotationInv, VerifiedInv, ServicesAgree, Down
    <2> QED BY <2>1, <2>2
<1>3. CASE RotateChunk
    <2> USE <1>3 DEF RotateChunk
    <2>1. ct' \in [Cts -> Nat \cup {Empty}] /\ CredentialsReadable'
        BY ReencryptKeeps
    <2>2. KeyTypeOK'
        BY <2>1 DEF KeyTypeOK, NextRows
    <2>3. CreationInv' /\ RotationInv' /\ VerifiedInv' /\ ServicesAgree'
        BY DEF CreationInv, RotationInv, VerifiedInv, ServicesAgree, Down
    <2> QED BY <2>1, <2>2, <2>3
<1>4. CASE NoMoreRows
    BY <1>4 DEF NoMoreRows, KeyTypeOK, CreationInv, RotationInv, VerifiedInv,
                CredentialsReadable, ServicesAgree, Down
<1>5. CASE Verify
    BY <1>5 DEF Verify, KeyTypeOK, CreationInv, RotationInv, VerifiedInv,
                CredentialsReadable, ServicesAgree, Down
<1>6. CASE Prune
    <2> USE <1>6 DEF Prune, OneKey
    <2>1. mem.first \in Nat /\ Down /\ keyFile.keys # {}
        BY DEF KeyTypeOK, KeyFile, RotationInv
    <2>2. KeyTypeOK'
        BY <2>1 DEF KeyTypeOK, KeyFile
    <2>3. CredentialsReadable'
        BY DEF CredentialsReadable, VerifiedInv
    <2>4. CreationInv' /\ RotationInv' /\ VerifiedInv' /\ ServicesAgree'
        BY <2>1 DEF CreationInv, RotationInv, VerifiedInv, ServicesAgree, Down
    <2> QED BY <2>2, <2>3, <2>4
<1>7. CASE AbortRotation
    BY <1>7 DEF AbortRotation, FailRotation, KeyTypeOK, CreationInv, RotationInv,
                VerifiedInv, CredentialsReadable, ServicesAgree
<1> QED BY <1>1, <1>2, <1>3, <1>4, <1>5, <1>6, <1>7 DEF Rotate

\* The inductive invariant holds in every reachable state.
LEMMA KInductive == OneCreator /\ KeySpec => []KInv
<1> SUFFICES ASSUME OneCreator PROVE KeySpec => []KInv
    OBVIOUS
<1>1. KInv /\ [KeyNext]_(keyVars) => KInv'
    <2> SUFFICES ASSUME KInv, [KeyNext]_(keyVars) PROVE KInv'
        OBVIOUS
    <2>1. CASE UNCHANGED keyVars
        BY <2>1 DEF keyVars, KInv, KeyTypeOK, CreationInv, RotationInv, VerifiedInv,
                          CredentialsReadable, ServicesAgree, Down
    <2> QED BY <2>1, KService, KRotation DEF KeyNext
<1> QED BY <1>1, KInit, PTL DEF KeySpec

-----------------------------------------------------------------------------
\* The key file, the services' keys and the stored ciphertexts keep their shape;
\* a non-empty key file holds the key new secrets are encrypted under.
THEOREM KeysTyped == OneCreator /\ KeySpec => []KeyTypeOK
BY KInductive, PTL DEF KInv

\* No step of a rotation, finished, failed or killed, and no service that runs
\* before or after it, puts a credential of an instance or a backup out of reach
\* of the key file (rotate_key, ensure_keys, write_keys).
THEOREM RotationKeepsCredentials == OneCreator /\ KeySpec => []CredentialsReadable
BY KInductive, PTL DEF KInv

\* Every running service holds exactly the keys of the file, so it reads what
\* any other service stores (Crypto.from_file at start-up).
THEOREM ServicesShareKeys == OneCreator /\ KeySpec => []ServicesAgree
BY KInductive, PTL DEF KInv
=============================================================================
