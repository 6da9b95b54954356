-------------------------- MODULE ReplicationProof --------------------------
(***************************************************************************)
(* Replication implements OffsiteCopy, keeps what it deletes and what it   *)
(* promises apart, sends nothing in plaintext and alerts once for a row;   *)
(* for any number of backups, sweeps, settings, edits and faults.          *)
(***************************************************************************)
EXTENDS Replication, TLAPS

-----------------------------------------------------------------------------
(* Types.                                                                  *)

\* The attempts, split off the type invariant.
Sound(a) ==
    /\ a.at # "idle" => a.cfg \in Configs
    /\ a.at \notin {"idle", "next"} => a.id \in Ids
    /\ a.at \in {"put", "done"} => a.load \in Payload
UpOK == up \in [Uploaders -> Attempts] /\ \A u \in Uploaders : Sound(up[u])

\* An uploader goes on to another state of an attempt.
LEMMA UpStep ==
    ASSUME UpOK, NEW u \in Uploaders, NEW a \in Attempts, Sound(a), up' = [up EXCEPT ![u] = a]
    PROVE  UpOK'
BY DEF UpOK

\* Marking a row keeps the rows rows.
LEMMA MarkType ==
    ASSUME row \in [Ids -> Maybe(Row)], NEW i \in Ids, NEW r, row[i] # None => r \in Row, Mark(i, r)
    PROVE  row' \in [Ids -> Maybe(Row)]
BY DEF Mark, Maybe

\* The end of an attempt.
LEMMA ReturnType ==
    ASSUME UpOK, NEW u \in Uploaders, up[u].at # "idle", Return(u)
    PROVE  UpOK'
<1>1. CASE u = "backup"
    <2>1. Idle \in Attempts /\ Sound(Idle)
        BY DEF Idle, Attempts, Sound, Maybe
    <2>2. up' = [up EXCEPT ![u] = Idle]
        BY <1>1 DEF Return
    <2> QED BY <2>1, <2>2, UpStep
<1>2. CASE u # "backup"
    <2> DEFINE a == [Idle EXCEPT !.at = "next", !.cfg = up[u].cfg]
    <2>1. up[u] \in Attempts /\ Sound(up[u])
        BY DEF UpOK
    <2>2. a \in Attempts /\ Sound(a)
        BY <2>1 DEF Idle, Attempts, Sound, Maybe
    <2>3. up' = [up EXCEPT ![u] = a]
        BY <1>2 DEF Return
    <2> HIDE DEF a
    <2> QED BY <2>2, <2>3, UpStep
<1> QED BY <1>1, <1>2

\* Types and the parts of them.
LEMMA TypeParts == TypeOK => UpOK
BY DEF TypeOK, UpOK, Sound

\* The initial state has its types.
LEMMA InitType == Init => TypeOK
BY ReplicationAssumption DEF Init, TypeOK, Idle, Attempts, Maybe, Ids

\* What is sent, and what may be at the destination after it was.
LEMMA PreparedType ==
    ASSUME NEW c \in Configs, NEW enc, NEW body \in Bodies, NEW u \in Uploaders
    PROVE  Prepared(c, enc, body, u) \in Payload
<1>1. c.pw \in ReplPasswords
    BY DEF ReplPasswords
<1> QED BY <1>1 DEF Prepared, Payload, Maybe

\* An upload leaves the old object, the new one, or a part of the new one.
LEMMA UploadOutcome ==
    ASSUME TypeOK, NEW o \in Objects, NEW p \in Payload, NEW r \in S3Upload(o, p) \cup SftpUpload(o, p)
    PROVE  /\ r[1] \in Maybe(Payload) /\ r[2] \in {"done", "fail"}
           /\ r[1] = None => remote[o] = None
           /\ r[1] # remote[o] => r[1].inner = p.inner /\ r[1].outer = p.outer
<1>1. remote[o] \in Maybe(Payload)
    BY DEF TypeOK
<1>2. [p EXCEPT !.whole = FALSE] \in Payload /\ [p EXCEPT !.whole = FALSE].inner = p.inner
        /\ [p EXCEPT !.whole = FALSE].outer = p.outer
    BY DEF Payload
<1>3. r \in {<<p, "done">>, <<remote[o], "fail">>} \/ r \in {p, [p EXCEPT !.whole = FALSE]} \X {"done", "fail"}
    BY DEF S3Upload, SftpUpload
<1>4. CASE r = <<p, "done">>
    BY <1>4, ReplicationAssumption DEF Maybe
<1>5. CASE r = <<remote[o], "fail">>
    BY <1>1, <1>5
<1>6. CASE r \in {p, [p EXCEPT !.whole = FALSE]} \X {"done", "fail"}
    <2> DEFINE q == [p EXCEPT !.whole = FALSE]
    <2>1. r[1] \in {p, q} /\ r[2] \in {"done", "fail"}
        BY <1>6
    <2> HIDE DEF q
    <2> QED BY <1>2, <2>1, ReplicationAssumption DEF Maybe, q
<1> QED BY <1>3, <1>4, <1>5, <1>6

\* What an attempt does to the rows, the objects and itself.
LEMMA UploadType ==
    ASSUME TypeOK, NEW u \in Uploaders, Snap(u) \/ Read(u) \/ Put(u) \/ MarkDone(u) \/ MarkFailed(u)
    PROVE  TypeOK'
<1> DEFINE i == up[u].id
<1> USE ReplicationAssumption DEF ghosts, lockVars
<1>0. UpOK /\ up[u] \in Attempts /\ Sound(up[u]) /\ row \in [Ids -> Maybe(Row)]
    BY TypeParts DEF UpOK, TypeOK
<1>1. CASE Snap(u)
    <2>1. i \in Ids /\ up[u].cfg \in Configs
        BY <1>0, <1>1 DEF Snap, Sound
    <2>2. CASE row[i] = None
        <3>1. UpOK'
            BY <1>0, <1>1, <2>2, ReturnType DEF Snap
        <3>2. jpc' \in {"idle", jpc} /\ (jpc' # jpc => u = "backup")
            BY <1>1, <2>2 DEF Snap, Return
        <3> QED BY <1>1, <3>1, <3>2 DEF Snap, TypeOK, UpOK, Sound
    <2>3. CASE row[i] # None
        <3> DEFINE l == IF row[i].local THEN "read" ELSE "fail"
                   e == row[i].pw # Plain
                   a == [up[u] EXCEPT !.at = l, !.enc = e]
        <3>1. l \in {"read", "fail"} /\ e \in BOOLEAN
            OBVIOUS
        <3>2. up' = [up EXCEPT ![u] = a] /\ UNCHANGED jpc
            BY <1>1, <2>3 DEF Snap
        <3> HIDE DEF l, e
        <3>3. a \in Attempts /\ Sound(a)
            BY <1>0, <2>1, <3>1 DEF Attempts, Sound
        <3> HIDE DEF a
        <3>4. UpOK'
            BY <1>0, <3>2, <3>3, UpStep
        <3> QED BY <1>1, <3>2, <3>4 DEF Snap, TypeOK, UpOK, Sound
    <2> QED BY <2>2, <2>3
<1>2. CASE Read(u)
    <2>1. i \in Ids /\ up[u].cfg \in Configs
        BY <1>0, <1>2 DEF Read, Sound
    <2>2. CASE file[i] = None
        <3>1. UpOK' /\ jpc' \in {"idle", jpc}
            BY <1>0, <1>2, <2>2, ReturnType DEF Read, Return
        <3>2. row' \in [Ids -> Maybe(Row)]
            <4> DEFINE r == [row[i] EXCEPT !.status = "skipped"]
            <4>1. row[i] # None => r \in Row
                BY <1>0, <2>1 DEF Row, Status, Maybe
            <4>2. Mark(i, r)
                BY <1>2, <2>2 DEF Read
            <4> HIDE DEF r
            <4> QED BY <1>0, <2>1, <4>1, <4>2, MarkType
        <3> QED BY <1>2, <3>1, <3>2 DEF Read, TypeOK, UpOK, Sound
    <2>3. CASE file[i] # None /\ Wraps(up[u].cfg, up[u].enc) /\ up[u].cfg.pw = None
        <3> DEFINE a == [up[u] EXCEPT !.at = "fail"]
        <3>1. up' = [up EXCEPT ![u] = a] /\ UNCHANGED <<row, jpc>>
            BY <1>2, <2>3 DEF Read
        <3>2. a \in Attempts /\ Sound(a)
            BY <1>0, <2>1 DEF Attempts, Sound
        <3> HIDE DEF a
        <3>3. UpOK'
            BY <1>0, <3>1, <3>2, UpStep
        <3> QED BY <1>2, <3>1, <3>3 DEF Read, TypeOK, UpOK, Sound
    <2>4. CASE file[i] # None /\ ~(Wraps(up[u].cfg, up[u].enc) /\ up[u].cfg.pw = None)
        <3> DEFINE p == Prepared(up[u].cfg, up[u].enc, file[i], u)
                   a == [up[u] EXCEPT !.at = "put", !.load = p]
        <3>1. up' = [up EXCEPT ![u] = a] /\ UNCHANGED <<row, jpc>>
            BY <1>2, <2>4 DEF Read
        <3>2. p \in Payload
            BY <2>1, <2>4, PreparedType DEF TypeOK, Maybe
        <3> HIDE DEF p
        <3>3. a \in Attempts /\ Sound(a)
            BY <1>0, <2>1, <3>2 DEF Attempts, Sound, Maybe
        <3> HIDE DEF a
        <3>4. UpOK'
            BY <1>0, <3>1, <3>3, UpStep
        <3> QED BY <1>2, <3>1, <3>4 DEF Read, TypeOK, UpOK, Sound
    <2> QED BY <2>2, <2>3, <2>4
<1>3. CASE Put(u)
    <2>1. i \in Ids /\ up[u].cfg \in Configs /\ up[u].load \in Payload
        BY <1>0, <1>3 DEF Put, Sound
    <2>2. Obj(u) \in Objects
        BY <2>1 DEF Obj, Objects, Suffix, Suffixes
    <2>3. PICK r \in S3Upload(Obj(u), up[u].load) \cup SftpUpload(Obj(u), up[u].load) :
              remote' = [remote EXCEPT ![Obj(u)] = r[1]] /\ Step(u, r[2])
        BY <1>3 DEF Put
    <2>4. r[1] \in Maybe(Payload) /\ r[2] \in {"done", "fail"}
        BY <2>1, <2>2, <2>3, UploadOutcome
    <2>5. remote' \in [Objects -> Maybe(Payload)]
        BY <2>2, <2>3, <2>4 DEF TypeOK
    <2>6. UpOK'
        <3> DEFINE a == [up[u] EXCEPT !.at = r[2]]
        <3>1. up' = [up EXCEPT ![u] = a]
            BY <2>3 DEF Step
        <3>2. a \in Attempts /\ Sound(a)
            BY <1>0, <2>1, <2>4 DEF Attempts, Sound
        <3> HIDE DEF a
        <3> QED BY <1>0, <3>1, <3>2, UpStep
    <2> QED BY <1>3, <2>5, <2>6 DEF Put, TypeOK, UpOK, Sound
<1>4. CASE MarkDone(u)
    <2>1. i \in Ids /\ up[u].cfg \in Configs /\ up[u].load \in Payload
        BY <1>0, <1>4 DEF MarkDone, Sound
    <2>2. UpOK' /\ jpc' \in {"idle", jpc}
        BY <1>0, <1>4, ReturnType DEF MarkDone, Return
    <2>3. row' \in [Ids -> Maybe(Row)]
        <3> DEFINE x == Suffix(up[u].cfg, up[u].enc)
                   r == [row[i] EXCEPT !.status = "done", !.key = x, !.sha = up[u].load]
        <3>1. Mark(i, r)
            BY <1>4 DEF MarkDone
        <3>2. x \in Suffixes
            BY DEF Suffix, Suffixes
        <3> HIDE DEF x
        <3>3. row[i] # None => r \in Row
            BY <1>0, <2>1, <3>2 DEF Row, Status, Maybe
        <3> HIDE DEF r
        <3> QED BY <1>0, <2>1, <3>1, <3>3, MarkType
    <2> QED BY <1>4, <2>2, <2>3 DEF MarkDone, TypeOK, UpOK, Sound
<1>5. CASE MarkFailed(u)
    <2>1. i \in Ids
        BY <1>0, <1>5 DEF MarkFailed, Sound
    <2>2. UpOK' /\ jpc' \in {"idle", jpc}
        BY <1>0, <1>5, ReturnType DEF MarkFailed, Return
    <2>3. row' \in [Ids -> Maybe(Row)]
        <3> DEFINE r == [row[i] EXCEPT !.status = "failed", !.attempts = @ + 1]
        <3>1. Mark(i, r)
            BY <1>5 DEF MarkFailed
        <3>2. row[i] # None => r \in Row
            <4> SUFFICES ASSUME row[i] # None PROVE r \in Row
                OBVIOUS
            <4>1. row[i] \in Row
                BY <1>0, <2>1 DEF Maybe
            <4>2. row[i].attempts + 1 \in Nat
                BY <4>1 DEF Row
            <4> QED BY <4>1, <4>2 DEF Row, Status
        <3> HIDE DEF r
        <3> QED BY <1>0, <2>1, <3>1, <3>2, MarkType
    <2>4. alerts' \in [Ids -> Nat]
        BY <1>5, <2>1 DEF MarkFailed, TypeOK
    <2> QED BY <1>5, <2>2, <2>3, <2>4 DEF MarkFailed, TypeOK, UpOK, Sound
<1> QED BY <1>1, <1>2, <1>3, <1>4, <1>5

\* The sweeps, and verify_replicas.
LEMMA SweepType ==
    ASSUME TypeOK, (\E s \in Sweeps : SweepList(s) \/ SweepNext(s) \/ SweepEnd(s)) \/ VerifyList \/ VerifyOne
    PROVE  TypeOK'
<1> USE ReplicationAssumption DEF ghosts, lockVars, sweepVars
<1>0. UpOK /\ row \in [Ids -> Maybe(Row)]
    BY TypeParts DEF TypeOK
<1>1. ASSUME NEW s \in Sweeps, SweepList(s) PROVE TypeOK'
    <2>1. s \in Uploaders
        BY DEF Uploaders
    <2>2. UpOK'
        <3> DEFINE a == [Idle EXCEPT !.at = "next", !.cfg = cfg]
        <3>1. up' = [up EXCEPT ![s] = a]
            BY <1>1 DEF SweepList
        <3>2. a \in Attempts /\ Sound(a)
            BY DEF Idle, Attempts, Sound, Maybe, TypeOK
        <3> HIDE DEF a
        <3> QED BY <1>0, <2>1, <3>1, <3>2, UpStep
    <2>3. todo' \in [Sweeps -> SUBSET Listed]
        <3> DEFINE b(i) == row[i].status = "failed"
                   rows == {j \in Rows : Retryable(row[j])}
                   l == {[id |-> i, listed |-> row[i].attempts, tried |-> b(i)] : i \in rows}
        <3>1. todo' = [todo EXCEPT ![s] = l]
            BY <1>1 DEF SweepList
        <3>2. \A i \in rows : i \in Ids /\ row[i].attempts \in Nat /\ b(i) \in BOOLEAN
            BY <1>0 DEF Rows, Maybe, Row
        <3> HIDE DEF b, rows
        <3>3. l \subseteq Listed
            BY <3>2 DEF Listed
        <3> HIDE DEF l
        <3> QED BY <3>1, <3>3 DEF TypeOK
    <2> QED BY <1>1, <2>2, <2>3 DEF SweepList, TypeOK, UpOK, Sound
<1>2. ASSUME NEW s \in Sweeps, SweepNext(s) PROVE TypeOK'
    <2>1. s \in Uploaders
        BY DEF Uploaders
    <2>2. PICK t \in todo[s] :
            /\ todo' = [todo EXCEPT ![s] = @ \ {t}]
            /\ \/ up' = [up EXCEPT ![s].at = "snap", ![s].id = t.id, ![s].listed = t.listed]
               \/ UNCHANGED up
        BY <1>2 DEF SweepNext
    <2>3. t \in Listed /\ todo' \in [Sweeps -> SUBSET Listed]
        BY <2>2 DEF TypeOK
    <2>4. UpOK'
        <3> DEFINE a == [up[s] EXCEPT !.at = "snap", !.id = t.id, !.listed = t.listed]
        <3>1. CASE up' = [up EXCEPT ![s] = a]
            <4>1. up[s] \in Attempts /\ up[s].cfg \in Configs
                BY <1>0, <1>2, <2>1 DEF UpOK, Sound, SweepNext
            <4>2. t.id \in Ids /\ t.listed \in Nat
                BY <2>3 DEF Listed
            <4>3. a \in Attempts /\ Sound(a)
                BY <4>1, <4>2 DEF Attempts, Sound, Maybe
            <4> HIDE DEF a
            <4> QED BY <1>0, <2>1, <3>1, <4>3, UpStep
        <3>2. CASE UNCHANGED up
            BY <1>0, <3>2 DEF UpOK
        <3> QED BY <2>2, <3>1, <3>2
    <2> QED BY <1>2, <2>3, <2>4 DEF SweepNext, TypeOK, UpOK, Sound
<1>3. ASSUME NEW s \in Sweeps, SweepEnd(s) PROVE TypeOK'
    <2>1. UpOK'
        <3>1. Idle \in Attempts /\ Sound(Idle)
            BY DEF Idle, Attempts, Sound, Maybe
        <3> QED BY <1>0, <1>3, <3>1, UpStep DEF SweepEnd, Uploaders
    <2> QED BY <1>3, <2>1 DEF SweepEnd, TypeOK, UpOK, Sound
<1>4. CASE VerifyList
    BY <1>4 DEF VerifyList, TypeOK, Rows, Maybe
<1>5. CASE VerifyOne
    <2>1. check \in Ids
        BY <1>5 DEF VerifyOne, TypeOK, Maybe
    <2>2. row' \in [Ids -> Maybe(Row)]
        <3> DEFINE r == [row[check] EXCEPT !.status = "failed"]
        <3>1. row[check] # None => r \in Row
            BY <1>0, <2>1 DEF Row, Status, Maybe
        <3>2. UNCHANGED row \/ Mark(check, r)
            BY <1>5 DEF VerifyOne
        <3> HIDE DEF r
        <3> QED BY <1>0, <2>1, <3>1, <3>2, MarkType
    <2> QED BY <1>5, <2>2 DEF VerifyOne, TypeOK, Maybe
<1> QED BY <1>1, <1>2, <1>3, <1>4, <1>5

\* The transaction of a retention pass that commits.
Pruned ==
    /\ row' = [i \in Ids |->
          IF i \in With({"mirror", "drop"}) THEN None
          ELSE IF i \in With({"offsite"}) /\ row[i] # None THEN [row[i] EXCEPT !.local = FALSE]
          ELSE row[i]]
    /\ doomed' = doomed \cup Mirrored
    /\ jpc' = "record"

\* Backups: retention, the row, its queueing; and backfill.
LEMMA BackupType ==
    ASSUME TypeOK,
           \/ Backfill \/ PlanPrune \/ (\E s \in stale : Unlink(s)) \/ CommitPrune
           \/ \E pw \in Keys, replicate \in BOOLEAN : Record(pw, replicate)
           \/ BackupFails \/ MarkPending
    PROVE  TypeOK'
<1> USE ReplicationAssumption DEF ghosts, lockVars, sweepVars
<1>0. UpOK /\ row \in [Ids -> Maybe(Row)]
    BY TypeParts DEF TypeOK
<1>1. CASE Backfill
    <2>1. PICK S \in SUBSET {i \in LocalRows : row[i].status = "null"} :
            row' = [i \in Ids |-> IF i \in S THEN [row[i] EXCEPT !.status = "pending"] ELSE row[i]]
        BY <1>1 DEF Backfill
    <2>2. \A i \in S : i \in Ids /\ row[i] \in Row
        BY <1>0, <2>1 DEF LocalRows, Rows, Maybe
    <2>3. \A i \in S : [row[i] EXCEPT !.status = "pending"] \in Row
        BY <2>2 DEF Row, Status
    <2>4. row' \in [Ids -> Maybe(Row)]
        BY <1>0, <2>1, <2>3 DEF Maybe
    <2> QED BY <1>1, <2>4 DEF Backfill, TypeOK
<1>2. CASE PlanPrune
    <2>1. PICK S \in SUBSET LocalRows : stale' = {[id |-> i, fate |-> FateOf(i), key |-> row[i].key] : i \in S}
        BY <1>2 DEF PlanPrune
    <2>2. \A i \in S : /\ i \in Ids /\ row[i].key \in Maybe(Suffixes) /\ FateOf(i) \in {"offsite", "mirror", "drop"}
                       /\ FateOf(i) \in {"offsite", "mirror"} => row[i].key # None
        BY <1>0, <2>1 DEF LocalRows, Rows, Row, Maybe, FateOf
    <2>3. stale' \subseteq Stale /\ \A s \in stale' : s.fate \in {"offsite", "mirror"} => s.key # None
        BY <2>1, <2>2 DEF Stale
    <2> QED BY <1>2, <2>3 DEF PlanPrune, TypeOK
<1>3. ASSUME NEW s \in stale, Unlink(s) PROVE TypeOK'
    <2>1. s \in Stale /\ s.id \in Ids
        BY DEF TypeOK, Stale
    <2>2. file' \in [Ids -> Maybe(Bodies)]
        BY <1>3, <2>1 DEF Unlink, TypeOK, Maybe
    <2>3. stale' \subseteq stale /\ fate' \subseteq fate \cup {s}
        BY <1>3 DEF Unlink
    <2> QED BY <1>3, <2>1, <2>2, <2>3 DEF Unlink, TypeOK
<1>4. CASE CommitPrune
    <2>1. CASE jpc' = "idle" /\ UNCHANGED <<row, doomed>>
        BY <1>4, <2>1 DEF CommitPrune, TypeOK
    <2>2. CASE Pruned
        <3>1. row' = [i \in Ids |-> IF i \in With({"mirror", "drop"}) THEN None
                        ELSE IF i \in With({"offsite"}) /\ row[i] # None THEN [row[i] EXCEPT !.local = FALSE]
                        ELSE row[i]]
              /\ doomed' = doomed \cup Mirrored /\ jpc' = "record"
            BY <2>2 DEF Pruned
        <3>2. \A i \in Ids : row[i] # None => [row[i] EXCEPT !.local = FALSE] \in Row
            BY <1>0 DEF Row, Maybe
        <3>3. row' \in [Ids -> Maybe(Row)]
            BY <1>0, <3>1, <3>2 DEF Maybe
        <3>4. Mirrored \subseteq [by: {"prune", "web"}, obj: Objects]
            <4>1. \A s \in fate : s.id \in Ids /\ (s.fate = "mirror" => s.key \in Suffixes)
                BY DEF TypeOK, Stale, Maybe
            <4> QED BY <4>1 DEF Mirrored, Objects
        <3> QED BY <1>4, <3>1, <3>3, <3>4 DEF CommitPrune, TypeOK
    <2> QED BY <1>4, <2>1, <2>2 DEF CommitPrune, Pruned
<1>5. ASSUME NEW pw \in Keys, NEW replicate \in BOOLEAN, Record(pw, replicate) PROVE TypeOK'
    <2> DEFINE r == [local |-> TRUE, pw |-> pw, status |-> "null", attempts |-> 0, key |-> None, sha |-> None]
    <2>1. r \in Row
        BY DEF Row, Status, Maybe
    <2>2. row' = [row EXCEPT ![next] = r] /\ next \in Ids
        BY <1>5 DEF Record
    <2> HIDE DEF r
    <2>3. row' \in [Ids -> Maybe(Row)]
        BY <1>0, <2>1, <2>2 DEF Maybe
    <2>4. file' \in [Ids -> Maybe(Bodies)] /\ next' \in 1..(MaxIds + 1)
        BY <1>5, <2>2 DEF Record, TypeOK, Maybe, Bodies, Ids
    <2>5. jpc' \in {"pending", "idle"}
        BY <1>5 DEF Record
    <2> QED BY <1>5, <2>3, <2>4, <2>5 DEF Record, TypeOK
<1>6. CASE BackupFails
    BY <1>6 DEF BackupFails, TypeOK
<1>7. CASE MarkPending
    <2>1. CASE Loads /\ row[next - 1] # None
        <3>1. /\ row' = [row EXCEPT ![next - 1].status = "pending"]
              /\ up' = [up EXCEPT !["backup"] = [Idle EXCEPT !.at = "snap", !.id = next - 1, !.cfg = cfg]]
              /\ jpc' = "upload"
            BY <1>7, <2>1 DEF MarkPending
        <3>2. next - 1 \in Ids
            BY <1>7 DEF MarkPending, TypeOK, Ids
        <3>3. row' \in [Ids -> Maybe(Row)]
            <4>1. row[next - 1] \in Row
                BY <1>0, <2>1, <3>2 DEF Maybe
            <4>2. [row[next - 1] EXCEPT !.status = "pending"] \in Row
                BY <4>1 DEF Row, Status
            <4> QED BY <1>0, <3>1, <3>2, <4>2 DEF Maybe
        <3>4. UpOK'
            <4> DEFINE a == [Idle EXCEPT !.at = "snap", !.id = next - 1, !.cfg = cfg]
            <4>1. a \in Attempts /\ Sound(a)
                BY <3>2 DEF Idle, Attempts, Sound, Maybe, TypeOK
            <4>2. up' = [up EXCEPT !["backup"] = a] /\ "backup" \in Uploaders
                BY <3>1 DEF Uploaders
            <4> HIDE DEF a
            <4> QED BY <1>0, <4>1, <4>2, UpStep
        <3> QED BY <1>7, <3>1, <3>3, <3>4 DEF MarkPending, TypeOK, UpOK, Sound
    <2>2. CASE ~(Loads /\ row[next - 1] # None)
        BY <1>7, <2>2 DEF MarkPending, TypeOK
    <2> QED BY <2>1, <2>2
<1> QED BY <1>1, <1>2, <1>3, <1>4, <1>5, <1>6, <1>7

\* Retrievals, re-encrypts, the web and the faults.
LEMMA OtherType ==
    ASSUME TypeOK,
           \/ \E i \in Ids : BeginRetrieve(i)
           \/ Download \/ Restore
           \/ \E i \in Ids, pw \in Passwords : Rekey(i, pw)
           \/ \E i \in Ids : DeleteFile(i)
           \/ DeleteRow
           \/ \E d \in doomed : DeleteObject(d)
           \/ \E c \in Configs : PutReplication(c)
           \/ Crash
           \/ \E o \in Objects : LoseObject(o)
           \/ \E i \in Ids : Strike(i)
    PROVE  TypeOK'
<1> USE ReplicationAssumption DEF ghosts, lockVars, sweepVars
<1>0. UpOK /\ row \in [Ids -> Maybe(Row)] /\ \A i \in Ids : row[i] # None => row[i] \in Row
    BY TypeParts DEF TypeOK, Maybe
<1>1. ASSUME NEW i \in Ids, BeginRetrieve(i) PROVE TypeOK'
    <2> DEFINE e == row[i].pw # Plain
    <2>1. row[i] \in Row /\ row[i].key \in Suffixes /\ e \in BOOLEAN
        BY <1>0, <1>1 DEF BeginRetrieve, Row, Maybe
    <2>2. fetch' = [id |-> i, key |-> row[i].key, sha |-> row[i].sha, enc |-> e, cfg |-> cfg]
        BY <1>1 DEF BeginRetrieve
    <2> HIDE DEF e
    <2>3. fetch' \in Fetch
        BY <2>1, <2>2 DEF Fetch, Row, TypeOK
    <2> QED BY <1>1, <2>3 DEF BeginRetrieve, TypeOK, Maybe
<1>2. CASE Download
    <2> DEFINE p == remote[<<fetch.id, fetch.key>>]
    <2>1. fetch \in Fetch /\ fetch.id \in Ids /\ <<fetch.id, fetch.key>> \in Objects
        BY <1>2 DEF Download, TypeOK, Fetch, Objects
    <2>2. CASE p # None /\ Restorable(p) /\ file' = [file EXCEPT ![fetch.id] = Restored(p)]
               /\ jpc' = "restore" /\ UNCHANGED fetch
        <3>1. p \in Payload
            BY <2>1, <2>2 DEF TypeOK, Maybe
        <3>2. Restored(p) \in Bodies
            BY <3>1 DEF Restored, Payload, Bodies, Maybe
        <3>3. file' \in [Ids -> Maybe(Bodies)]
            BY <2>1, <2>2, <3>2 DEF TypeOK, Maybe
        <3> QED BY <1>2, <2>1, <2>2, <3>3 DEF Download, TypeOK
    <2>3. CASE jpc' = "idle" /\ fetch' = None /\ UNCHANGED file
        BY <1>2, <2>3 DEF Download, TypeOK, Maybe
    <2> QED BY <1>2, <2>2, <2>3 DEF Download
<1>3. CASE Restore
    <2>1. fetch.id \in Ids
        BY <1>3 DEF Restore, TypeOK, Fetch
    <2>2. row' \in [Ids -> Maybe(Row)]
        <3> DEFINE r == [row[fetch.id] EXCEPT !.local = TRUE]
        <3>1. Mark(fetch.id, r)
            BY <1>3 DEF Restore
        <3>2. row[fetch.id] # None => r \in Row
            BY <1>0, <2>1 DEF Row
        <3> HIDE DEF r
        <3> QED BY <1>0, <2>1, <3>1, <3>2, MarkType
    <2> QED BY <1>3, <2>2 DEF Restore, TypeOK, Maybe
<1>4. ASSUME NEW i \in Ids, NEW pw \in Passwords, Rekey(i, pw) PROVE TypeOK'
    <2>1. [row[i] EXCEPT !.pw = pw] \in Row
        BY <1>0, <1>4 DEF Rekey, Row, Keys
    <2>2. row' \in [Ids -> Maybe(Row)]
        BY <1>0, <1>4, <2>1 DEF Rekey, Maybe
    <2>3. file' \in [Ids -> Maybe(Bodies)]
        BY <1>4 DEF Rekey, TypeOK, Maybe, Bodies, Keys
    <2>4. rekeyed' \subseteq Ids /\ edits' \in 0..MaxEvents
        BY <1>4, ReplicationAssumption DEF Rekey, TypeOK, Quota
    <2> QED BY <1>4, <2>2, <2>3, <2>4 DEF Rekey, TypeOK
<1>5. ASSUME NEW i \in Ids, DeleteFile(i) PROVE TypeOK'
    <2>1. row[i] \in Row
        BY <1>0, <1>5 DEF DeleteFile
    <2>2. web' \in [id: Ids, key: Maybe(Suffixes)]
        BY <1>5, <2>1 DEF DeleteFile, Row, Maybe
    <2>3. file' \in [Ids -> Maybe(Bodies)]
        BY <1>5 DEF DeleteFile, TypeOK, Maybe
    <2> QED BY <1>5, <2>2, <2>3 DEF DeleteFile, TypeOK, Maybe
<1>6. CASE DeleteRow
    <2>1. web.id \in Ids /\ web.key \in Maybe(Suffixes)
        BY <1>6 DEF DeleteRow, TypeOK, Maybe
    <2>2. row' \in [Ids -> Maybe(Row)]
        BY <1>0, <1>6, <2>1 DEF DeleteRow, Maybe
    <2>3. doomed' \subseteq [by: {"prune", "web"}, obj: Objects]
        BY <1>6, <2>1 DEF DeleteRow, TypeOK, Maybe, Objects
    <2> QED BY <1>6, <2>2, <2>3 DEF DeleteRow, TypeOK, Maybe
<1>7. ASSUME NEW d \in doomed, DeleteObject(d) PROVE TypeOK'
    BY <1>7 DEF DeleteObject, TypeOK, Maybe
<1>8. ASSUME NEW c \in Configs, PutReplication(c) PROVE TypeOK'
    <2>1. edits' \in 0..MaxEvents
        BY <1>8, ReplicationAssumption DEF PutReplication, TypeOK, Quota
    <2> QED BY <1>8, <2>1 DEF PutReplication, TypeOK
<1>9. CASE Crash
    <2>1. UpOK'
        BY <1>9 DEF Crash, UpOK, Sound, Idle, Attempts, Maybe
    <2>2. doomed' \subseteq doomed /\ faults' \in 0..MaxEvents
        BY <1>9, ReplicationAssumption DEF Crash, TypeOK, Quota
    <2> QED BY <1>9, <2>1, <2>2 DEF Crash, TypeOK, UpOK, Sound, Maybe
<1>10. ASSUME NEW o \in Objects, LoseObject(o) PROVE TypeOK'
    <2>1. faults' \in 0..MaxEvents
        BY <1>10, ReplicationAssumption DEF LoseObject, TypeOK, Quota
    <2> QED BY <1>10, <2>1 DEF LoseObject, TypeOK, Maybe
<1>11. ASSUME NEW i \in Ids, Strike(i) PROVE TypeOK'
    <2>1. faults' \in 0..MaxEvents
        BY <1>11, ReplicationAssumption DEF Strike, TypeOK, Quota
    <2> QED BY <1>0, <1>11, <2>1 DEF Strike, TypeOK, Maybe
<1> QED BY <1>1, <1>2, <1>3, <1>4, <1>5, <1>6, <1>7, <1>8, <1>9, <1>10, <1>11

\* Every step keeps the types.
LEMMA TypeStep == ASSUME TypeOK, Next PROVE TypeOK'
BY UploadType, SweepType, BackupType, OtherType DEF Next

\* Rows, files, objects, attempts and what retention, retrievals and requests have
\* read keep their types, whoever acts in between.
THEOREM ReplicationTyped == Spec => []TypeOK
<1>1. ASSUME TypeOK, [Next]_vars PROVE TypeOK'
    <2>1. CASE UNCHANGED vars
        BY <1>1, <2>1 DEF vars, TypeOK
    <2> QED BY <1>1, <2>1, TypeStep
<1> QED BY <1>1, InitType, PTL DEF Spec

-----------------------------------------------------------------------------
(* Who refers to which rows.                                               *)

\* An attempt, a sweep's list and a verification concern rows that were queued once.
Asked(i) == i < next /\ (row[i] # None => row[i].status # "null")
QueueInv ==
    /\ \A u \in Uploaders : up[u].at \notin {"idle", "next"} => Asked(up[u].id)
    /\ \A s \in Sweeps : \A t \in todo[s] : Asked(t.id)
    /\ check # None => Asked(check)

\* What retention is about to keep as off-site only was copied, and is still here.
Ended == {"done", "failed", "skipped"}
Copied(s) == s.fate = "offsite" /\ row[s.id] # None =>
    row[s.id].status \in Ended /\ row[s.id].local /\ row[s.id].key # None
PruneInv ==
    /\ jpc # "unlink" => stale = {} /\ fate = {}
    /\ \A s \in stale \cup fate : s.id < next /\ Copied(s)

\* The lock's holder: a row just recorded keeps its file, an upload is its own step.
LockInv ==
    /\ jpc = "pending" /\ row[next - 1] # None => row[next - 1].local
    /\ up["backup"].at # "idle" => jpc = "upload"

\* What is gone does not come back, so that what is to be deleted belongs to no row;
\* nor is a row followed that was struck under a reused id.
OrphanInv ==
    /\ \A i \in Ids : row[i] # None => i < next
    /\ \A i \in struck : i < next /\ row[i] = None
    /\ web # None => web.id < next
    /\ \A d \in doomed : d.obj[1] < next /\ row[d.obj[1]] = None

RInv == TypeOK /\ QueueInv /\ PruneInv /\ LockInv /\ OrphanInv

\* What no step takes from a row that was there.
Lasts(i) == row'[i] # None =>
    \/ i = next /\ next' = next + 1
    \/ /\ row[i] # None
       /\ row[i].status # "null" => row'[i].status # "null"
       /\ row[i].status \in Ended /\ jpc # "pending" => row'[i].status \in Ended
       /\ row[i].key # None => row'[i].key # None
       /\ row[i].pw = Plain => row'[i].pw = Plain
       /\ row'[i].pw = row[i].pw \/ edits' # edits
       /\ row[i].local => row'[i].local \/ (stale' = {} /\ fate' = {})
       /\ row[i].local /\ jpc = "pending" => row'[i].local

\* The rows after a mark.
LEMMA MarkRow ==
    ASSUME TypeOK, NEW i \in Ids, NEW r, Mark(i, r)
    PROVE  \A j \in Ids : row'[j] = IF j = i /\ row[i] # None THEN r ELSE row[j]
BY DEF Mark, TypeOK

\* Steps that leave the rows alone.
Quiet ==
    \/ \E u \in Uploaders : Snap(u) \/ Put(u)
    \/ \E s \in Sweeps : SweepList(s) \/ SweepNext(s) \/ SweepEnd(s)
    \/ VerifyList \/ PlanPrune \/ (\E s \in stale : Unlink(s)) \/ BackupFails
    \/ (\E i \in Ids : BeginRetrieve(i)) \/ Download \/ (\E i \in Ids : DeleteFile(i))
    \/ (\E d \in doomed : DeleteObject(d)) \/ (\E c \in Configs : PutReplication(c))
    \/ Crash \/ \E o \in Objects : LoseObject(o)

\* Neither the rows nor the ids change in such a step.
LEMMA QuietRows == ASSUME Quiet PROVE UNCHANGED <<row, next>>
BY DEF Quiet, Snap, Put, SweepList, SweepNext, SweepEnd, VerifyList, PlanPrune, Unlink, BackupFails, BeginRetrieve,
       Download, DeleteFile, DeleteObject, PutReplication, Crash, LoseObject

\* Rows last, whatever the step.
LEMMA RowsLast == ASSUME TypeOK, Next PROVE (\A i \in Ids : Lasts(i)) /\ next' >= next
<1> USE ReplicationAssumption DEF Lasts, ghosts, lockVars, sweepVars, Ended
<1>0. row \in [Ids -> Maybe(Row)] /\ \A i \in Ids : row[i] # None => row[i] \in Row
    BY DEF TypeOK, Maybe
<1>00. next \in Nat
    BY DEF TypeOK
<1>1. CASE Quiet
    BY <1>00, <1>1, QuietRows
<1>2. ASSUME NEW u \in Uploaders, Read(u) \/ MarkDone(u) \/ MarkFailed(u)
      PROVE  (\A i \in Ids : Lasts(i)) /\ next' >= next
    <2> DEFINE i == up[u].id
    <2>1. i \in Ids /\ up[u].cfg \in Configs
        BY <1>2 DEF TypeOK, Read, MarkDone, MarkFailed
    <2>2. CASE Read(u)
        <3>1. UNCHANGED row \/ Mark(i, [row[i] EXCEPT !.status = "skipped"])
            BY <2>2 DEF Read
        <3> QED BY <1>0, <1>00, <2>1, <2>2, <3>1, MarkRow DEF Read, Row
    <2>3. CASE MarkDone(u)
        <3> DEFINE x == Suffix(up[u].cfg, up[u].enc)
                   r == [row[i] EXCEPT !.status = "done", !.key = x, !.sha = up[u].load]
        <3>1. Mark(i, r)
            BY <2>3 DEF MarkDone
        <3>2. x # None
            BY DEF Suffix, Suffixes
        <3> HIDE DEF x
        <3>3. row[i] # None => r.status = "done" /\ r.key = x /\ r.local = row[i].local /\ r.pw = row[i].pw
            BY <1>0, <2>1 DEF Row
        <3> HIDE DEF r
        <3>4. UNCHANGED next /\ \A j \in Ids : row'[j] = IF j = i /\ row[i] # None THEN r ELSE row[j]
            BY <2>1, <2>3, <3>1, MarkRow DEF MarkDone
        <3> QED BY <1>00, <3>2, <3>3, <3>4
    <2>4. CASE MarkFailed(u)
        <3> DEFINE r == [row[i] EXCEPT !.status = "failed", !.attempts = @ + 1]
        <3>1. Mark(i, r)
            BY <2>4 DEF MarkFailed
        <3>2. row[i] # None =>
                r.status = "failed" /\ r.key = row[i].key /\ r.local = row[i].local /\ r.pw = row[i].pw
            BY <1>0, <2>1 DEF Row
        <3> HIDE DEF r
        <3>3. UNCHANGED next /\ \A j \in Ids : row'[j] = IF j = i /\ row[i] # None THEN r ELSE row[j]
            BY <2>1, <2>4, <3>1, MarkRow DEF MarkFailed
        <3> QED BY <1>00, <3>2, <3>3
    <2> QED BY <1>2, <2>2, <2>3, <2>4
<1>3. CASE VerifyOne
    <2>1. check \in Ids /\ (UNCHANGED row \/ Mark(check, [row[check] EXCEPT !.status = "failed"]))
        BY <1>3 DEF VerifyOne, TypeOK, Maybe
    <2> QED BY <1>0, <1>00, <1>3, <2>1, MarkRow DEF VerifyOne, Row
<1>4. CASE Restore
    <2>1. fetch.id \in Ids /\ Mark(fetch.id, [row[fetch.id] EXCEPT !.local = TRUE])
        BY <1>4 DEF Restore, TypeOK, Fetch
    <2> QED BY <1>0, <1>00, <1>4, <2>1, MarkRow DEF Restore, Row
<1>5. CASE Backfill
    <2>1. PICK S \in SUBSET {i \in LocalRows : row[i].status = "null"} :
            row' = [i \in Ids |-> IF i \in S THEN [row[i] EXCEPT !.status = "pending"] ELSE row[i]]
        BY <1>5 DEF Backfill
    <2>2. \A i \in S : row[i] \in Row
        BY <1>0, <2>1 DEF LocalRows, Rows
    <2> QED BY <1>00, <1>5, <2>1, <2>2 DEF Backfill, Row, LocalRows, Rows
<1>6. CASE CommitPrune
    BY <1>0, <1>00, <1>6 DEF CommitPrune, Row
<1>7. ASSUME NEW pw \in Keys, NEW replicate \in BOOLEAN, Record(pw, replicate)
      PROVE  (\A i \in Ids : Lasts(i)) /\ next' >= next
    BY <1>0, <1>00, <1>7 DEF Record, Ids
<1>8. CASE MarkPending
    <2>1. next - 1 \in Ids
        BY <1>8 DEF MarkPending, TypeOK, Ids
    <2> QED BY <1>0, <1>00, <1>8, <2>1 DEF MarkPending, Row
<1>9. ASSUME NEW i \in Ids, NEW pw \in Passwords, Rekey(i, pw)
      PROVE  (\A j \in Ids : Lasts(j)) /\ next' >= next
    <2>1. edits' # edits
        BY <1>9 DEF Rekey, TypeOK
    <2> QED BY <1>0, <1>00, <1>9, <2>1 DEF Rekey, Row
<1>10. CASE DeleteRow
    BY <1>0, <1>00, <1>10 DEF DeleteRow, TypeOK
<1>11. ASSUME NEW i \in Ids, Strike(i) PROVE (\A j \in Ids : Lasts(j)) /\ next' >= next
    BY <1>0, <1>00, <1>11 DEF Strike
<1> QED BY <1>1, <1>2, <1>3, <1>4, <1>5, <1>6, <1>7, <1>8, <1>9, <1>10, <1>11 DEF Next, Quiet

\* Only a strike adds to what was struck.
LEMMA StruckFollows == ASSUME Next PROVE UNCHANGED struck \/ \E i \in Ids : Strike(i)
<1> USE DEF ghosts
<1>1. CASE \E u \in Uploaders : Snap(u) \/ Read(u) \/ Put(u) \/ MarkDone(u) \/ MarkFailed(u)
    BY <1>1 DEF Snap, Read, Put, MarkDone, MarkFailed
<1>2. CASE (\E t \in Sweeps : SweepList(t) \/ SweepNext(t) \/ SweepEnd(t)) \/ Backfill \/ VerifyList \/ VerifyOne
    BY <1>2 DEF SweepList, SweepNext, SweepEnd, Backfill, VerifyList, VerifyOne
<1>3. CASE \/ PlanPrune \/ (\E t \in stale : Unlink(t)) \/ CommitPrune \/ BackupFails \/ MarkPending
           \/ \E pw \in Keys, replicate \in BOOLEAN : Record(pw, replicate)
    BY <1>3 DEF PlanPrune, Unlink, CommitPrune, Record, BackupFails, MarkPending
<1>4. CASE (\E j \in Ids : BeginRetrieve(j)) \/ Download \/ Restore \/ \E j \in Ids, pw \in Passwords : Rekey(j, pw)
    BY <1>4 DEF BeginRetrieve, Download, Restore, Rekey
<1>5. CASE \/ (\E j \in Ids : DeleteFile(j)) \/ DeleteRow \/ (\E c \in Configs : PutReplication(c)) \/ Crash
           \/ (\E d \in doomed : DeleteObject(d)) \/ \E o \in Objects : LoseObject(o)
    BY <1>5 DEF DeleteFile, DeleteRow, PutReplication, Crash, DeleteObject, LoseObject
<1> QED BY <1>1, <1>2, <1>3, <1>4, <1>5 DEF Next

\* Steps that start no attempt, list nothing and verify nothing.
Aside ==
    \/ Backfill \/ PlanPrune \/ (\E s \in stale : Unlink(s)) \/ CommitPrune
    \/ (\E pw \in Keys, replicate \in BOOLEAN : Record(pw, replicate)) \/ BackupFails
    \/ (\E i \in Ids : BeginRetrieve(i)) \/ Download \/ Restore
    \/ (\E i \in Ids, pw \in Passwords : Rekey(i, pw)) \/ (\E i \in Ids : DeleteFile(i)) \/ DeleteRow
    \/ (\E d \in doomed : DeleteObject(d)) \/ (\E c \in Configs : PutReplication(c))
    \/ (\E o \in Objects : LoseObject(o)) \/ \E i \in Ids : Strike(i)

\* Neither attempts nor lists nor the verification change in such a step.
LEMMA AsideUnchanged == ASSUME Aside PROVE UNCHANGED <<up, todo, check>>
BY DEF Aside, sweepVars, Backfill, PlanPrune, Unlink, CommitPrune, Record, BackupFails, BeginRetrieve, Download,
       Restore, Rekey, DeleteFile, DeleteRow, DeleteObject, PutReplication, LoseObject, Strike

\* An attempt stays with its row.
LEMMA AttemptFollows ==
    ASSUME TypeOK, NEW u \in Uploaders, Snap(u) \/ Read(u) \/ Put(u) \/ MarkDone(u) \/ MarkFailed(u)
    PROVE  /\ UNCHANGED <<todo, check>>
           /\ \A v \in Uploaders : up'[v].at \notin {"idle", "next"} =>
                  up[v].at \notin {"idle", "next"} /\ up'[v].id = up[v].id /\ up'[v].listed = up[v].listed
<1> USE DEF lockVars
<1>1. up \in [Uploaders -> Attempts] /\ up[u].at \notin {"idle", "next"} /\ UNCHANGED <<todo, check>>
    BY DEF TypeOK, Snap, Read, Put, MarkDone, MarkFailed
<1>2. CASE Return(u)
    BY <1>1, <1>2 DEF Return, Idle
<1>3. CASE \E a : up' = [up EXCEPT ![u] = a] /\ a.id = up[u].id /\ a.listed = up[u].listed
    BY <1>1, <1>3
<1>4. Return(u) \/ \E a : up' = [up EXCEPT ![u] = a] /\ a.id = up[u].id /\ a.listed = up[u].listed
    <2>1. CASE Snap(u) /\ row[up[u].id] # None
        <3> DEFINE l == IF row[up[u].id].local THEN "read" ELSE "fail"
                   e == row[up[u].id].pw # Plain
        <3>1. up' = [up EXCEPT ![u] = [up[u] EXCEPT !.at = l, !.enc = e]]
            BY <2>1 DEF Snap
        <3> HIDE DEF l, e
        <3>2. LET a == [up[u] EXCEPT !.at = l, !.enc = e] IN a.id = up[u].id /\ a.listed = up[u].listed
            BY <1>1 DEF Attempts
        <3> QED BY <3>1, <3>2
    <2>2. CASE Read(u) /\ file[up[u].id] # None
        <3> DEFINE p == Prepared(up[u].cfg, up[u].enc, file[up[u].id], u)
        <3>1. \/ up' = [up EXCEPT ![u] = [up[u] EXCEPT !.at = "fail"]]
              \/ up' = [up EXCEPT ![u] = [up[u] EXCEPT !.at = "put", !.load = p]]
            BY <2>2 DEF Read
        <3> HIDE DEF p
        <3>2. /\ LET a == [up[u] EXCEPT !.at = "fail"] IN a.id = up[u].id /\ a.listed = up[u].listed
              /\ LET a == [up[u] EXCEPT !.at = "put", !.load = p] IN a.id = up[u].id /\ a.listed = up[u].listed
            BY <1>1 DEF Attempts
        <3> QED BY <3>1, <3>2
    <2>3. CASE Put(u)
        <3>1. PICK r : up' = [up EXCEPT ![u] = [up[u] EXCEPT !.at = r]]
            BY <2>3 DEF Put, Step
        <3>2. LET a == [up[u] EXCEPT !.at = r] IN a.id = up[u].id /\ a.listed = up[u].listed
            BY <1>1 DEF Attempts
        <3> QED BY <3>1, <3>2
    <2> QED BY <2>1, <2>2, <2>3 DEF Snap, Read, MarkDone, MarkFailed
<1> QED BY <1>1, <1>2, <1>3, <1>4

\* Ids and the next of them are numbers.
LEMMA NextNat == ASSUME TypeOK, Next PROVE next \in Nat /\ next' \in Nat /\ Ids \subseteq Nat
<1>1. next \in 1..(MaxIds + 1) /\ next' \in 1..(MaxIds + 1)
    BY TypeStep DEF TypeOK
<1> QED BY <1>1, ReplicationAssumption DEF Ids

\* Attempts, lists and verifications go on to concern queued rows.
LEMMA QueueStep == ASSUME RInv, Next PROVE QueueInv'
<1> USE ReplicationAssumption DEF RInv
<1>1. \A i \in Ids : Asked(i) => Asked(i)'
    <2> SUFFICES ASSUME NEW i \in Ids, Asked(i) PROVE Asked(i)'
        OBVIOUS
    <2>1. Lasts(i) /\ next' >= next /\ next \in Nat /\ next' \in Nat /\ i \in Nat
        BY RowsLast, NextNat
    <2> QED BY <2>1 DEF Lasts, Asked
<1>2. /\ \A u \in Uploaders : up[u].at \notin {"idle", "next"} => up[u].id \in Ids
      /\ \A s \in Sweeps : \A t \in todo[s] : t.id \in Ids
      /\ check # None => check \in Ids
    BY DEF TypeOK, Listed, Maybe
<1>3. CASE Aside
    BY <1>1, <1>2, <1>3, AsideUnchanged DEF QueueInv
<1>4. ASSUME NEW u \in Uploaders, Snap(u) \/ Read(u) \/ Put(u) \/ MarkDone(u) \/ MarkFailed(u) PROVE QueueInv'
    BY <1>1, <1>2, <1>4, AttemptFollows DEF QueueInv
<1>5. ASSUME NEW s \in Sweeps, SweepList(s) PROVE QueueInv'
    <2>1. up \in [Uploaders -> Attempts] /\ up' = [up EXCEPT ![s] = [Idle EXCEPT !.at = "next", !.cfg = cfg]]
          /\ UNCHANGED <<check, row, next>>
        BY <1>5 DEF SweepList, TypeOK
    <2>2. \A u \in Uploaders : up'[u].at \notin {"idle", "next"} => up'[u] = up[u]
        BY <2>1 DEF Idle
    <2>3. \A v \in Sweeps : \A t \in todo'[v] : t \in todo[v] \/ (t.id \in Ids /\ Asked(t.id))
        <3> DEFINE rows == {j \in Rows : Retryable(row[j])}
                   l == {[id |-> i, listed |-> row[i].attempts, tried |-> row[i].status = "failed"] : i \in rows}
        <3>1. todo' = [todo EXCEPT ![s] = l]
            BY <1>5 DEF SweepList
        <3>2. \A i \in rows : i \in Ids /\ Asked(i)
            BY DEF Rows, Retryable, Asked, OrphanInv
        <3> HIDE DEF rows
        <3>3. \A t \in l : t.id \in Ids /\ Asked(t.id)
            BY <3>2
        <3> HIDE DEF l
        <3> QED BY <3>1, <3>3 DEF TypeOK
    <2> QED BY <1>1, <1>2, <2>1, <2>2, <2>3 DEF QueueInv
<1>6. ASSUME NEW s \in Sweeps, SweepNext(s) PROVE QueueInv'
    <2>1. PICK t \in todo[s] :
            /\ todo' = [todo EXCEPT ![s] = @ \ {t}]
            /\ \/ up' = [up EXCEPT ![s] = [up[s] EXCEPT !.at = "snap", !.id = t.id, !.listed = t.listed]]
               \/ UNCHANGED up
        BY <1>6 DEF SweepNext
    <2>2. UNCHANGED <<check, row, next>> /\ up \in [Uploaders -> Attempts] /\ s \in Uploaders
        BY <1>6 DEF SweepNext, TypeOK, Uploaders
    <2>3. \A v \in Sweeps : todo'[v] \subseteq todo[v]
        BY <2>1 DEF TypeOK
    <2>4. [up[s] EXCEPT !.at = "snap", !.id = t.id, !.listed = t.listed].id = t.id
        BY <2>2 DEF Attempts
    <2>5. \A u \in Uploaders : up'[u] = up[u] \/ up'[u].id = t.id
        BY <2>1, <2>2, <2>4
    <2> QED BY <1>1, <1>2, <2>1, <2>2, <2>3, <2>5 DEF QueueInv
<1>7. ASSUME NEW s \in Sweeps, SweepEnd(s) PROVE QueueInv'
    BY <1>1, <1>2, <1>7 DEF SweepEnd, QueueInv, TypeOK, Idle
<1>8. CASE VerifyList
    <2>1. PICK i \in Rows : row[i].status = "done" /\ check' = i
        BY <1>8 DEF VerifyList
    <2>2. i \in Ids /\ Asked(i)
        BY <2>1 DEF Rows, Asked, OrphanInv
    <2> QED BY <1>1, <1>2, <1>8, <2>1, <2>2 DEF VerifyList, QueueInv, sweepVars
<1>9. CASE VerifyOne
    BY <1>1, <1>2, <1>9 DEF VerifyOne, QueueInv, sweepVars
<1>10. CASE MarkPending
    <2>1. UNCHANGED <<todo, check, next>>
        BY <1>10 DEF MarkPending
    <2>2. CASE UNCHANGED up
        BY <1>1, <1>2, <2>1, <2>2 DEF QueueInv
    <2>3. CASE Loads /\ row[next - 1] # None
        <3>1. next - 1 \in Ids /\ next - 1 < next
            BY <1>10 DEF MarkPending, TypeOK, Ids
        <3>2. row' = [row EXCEPT ![next - 1] = [row[next - 1] EXCEPT !.status = "pending"]]
            BY <1>10, <2>3 DEF MarkPending
        <3>3. row'[next - 1].status = "pending"
            BY <2>3, <3>1, <3>2 DEF TypeOK, Row, Maybe
        <3>4. up' = [up EXCEPT !["backup"] = [Idle EXCEPT !.at = "snap", !.id = next - 1, !.cfg = cfg]]
            BY <1>10, <2>3 DEF MarkPending
        <3>5. \A u \in Uploaders : up'[u] = up[u] \/ up'[u].id = next - 1
            BY <3>4 DEF TypeOK, Idle
        <3>6. Asked(next - 1)'
            BY <2>1, <3>1, <3>3 DEF Asked
        <3> QED BY <1>1, <1>2, <2>1, <3>5, <3>6 DEF QueueInv
    <2> QED BY <1>10, <2>2, <2>3 DEF MarkPending
<1>11. CASE Crash
    <2>1. todo' = [s \in Sweeps |-> {}] /\ up' = [u \in Uploaders |-> Idle] /\ UNCHANGED <<check, row, next>>
        BY <1>11 DEF Crash
    <2> QED BY <1>1, <1>2, <2>1 DEF QueueInv, Idle
<1> QED BY <1>3, <1>4, <1>5, <1>6, <1>7, <1>8, <1>9, <1>10, <1>11 DEF Next, Aside

\* What retention holds stays copied, whatever attempts do to the rows meanwhile.
LEMMA PruneStep == ASSUME RInv, Next PROVE PruneInv'
<1> USE ReplicationAssumption DEF RInv, ghosts, lockVars, sweepVars
<1>1. next' >= next /\ next \in Nat /\ next' \in Nat /\ \A i \in Ids : Lasts(i)
    BY RowsLast, NextNat
<1>2. \A s \in stale \cup fate : s \in Stale /\ s.id \in Ids /\ s.id \in Nat
    BY DEF TypeOK, Stale, Ids
<1>3. ASSUME UNCHANGED <<stale, fate>>, jpc = "unlink" => jpc' = "unlink" PROVE PruneInv'
    <2>1. CASE jpc # "unlink"
        BY <1>3, <2>1 DEF PruneInv
    <2>2. CASE jpc = "unlink"
        <3>1. ASSUME NEW s \in stale \cup fate PROVE s.id < next' /\ Copied(s)'
            <4>1. s.id < next /\ Copied(s) /\ Lasts(s.id)
                BY <1>1, <1>2 DEF PruneInv
            <4>2. stale' # {} \/ fate' # {}
                BY <1>3
            <4> QED BY <1>1, <1>2, <2>2, <4>1, <4>2 DEF Copied, Lasts
        <3> QED BY <1>3, <2>2, <3>1 DEF PruneInv
    <2> QED BY <2>1, <2>2
<1>4. ASSUME NEW u \in Uploaders, Snap(u) \/ Read(u) \/ Put(u) \/ MarkDone(u) \/ MarkFailed(u) PROVE PruneInv'
    <2>1. UNCHANGED <<stale, fate>> /\ up[u].at # "idle"
        BY <1>4 DEF Snap, Read, Put, MarkDone, MarkFailed
    <2>2. jpc' = jpc \/ u = "backup"
        BY <1>4 DEF Snap, Read, Put, MarkDone, MarkFailed, Return
    <2> QED BY <1>3, <2>1, <2>2 DEF LockInv
<1>5. CASE PlanPrune
    <2>1. PICK S \in SUBSET LocalRows : stale' = {[id |-> i, fate |-> FateOf(i), key |-> row[i].key] : i \in S}
        BY <1>5 DEF PlanPrune
    <2>2. \A i \in S : /\ i < next /\ row[i].local
                       /\ FateOf(i) = "offsite" => row[i].status = "done" /\ row[i].key # None
        BY <2>1 DEF LocalRows, Rows, FateOf, OrphanInv
    <2>3. fate' = {} /\ UNCHANGED <<row, next>> /\ jpc' = "unlink"
        BY <1>5 DEF PlanPrune, PruneInv
    <2>4. \A s \in stale' : s.id < next /\ Copied(s)
        BY <2>1, <2>2 DEF Copied, Ended
    <2> QED BY <2>3, <2>4 DEF PruneInv, Copied
<1>6. ASSUME NEW s \in stale, Unlink(s) PROVE PruneInv'
    BY <1>6 DEF Unlink, PruneInv, Copied
<1>7. CASE CommitPrune
    BY <1>7 DEF CommitPrune, PruneInv
<1>8. CASE Crash
    BY <1>8 DEF Crash, PruneInv
<1>9. CASE (\E s \in Sweeps : SweepList(s) \/ SweepNext(s) \/ SweepEnd(s)) \/ Backfill \/ VerifyList \/ VerifyOne
    BY <1>3, <1>9 DEF SweepList, SweepNext, SweepEnd, Backfill, VerifyList, VerifyOne
<1>10. CASE (\E pw \in Keys, replicate \in BOOLEAN : Record(pw, replicate)) \/ BackupFails \/ MarkPending
    BY <1>3, <1>10 DEF Record, BackupFails, MarkPending
<1>11. CASE (\E i \in Ids : BeginRetrieve(i)) \/ Download \/ Restore \/ \E i \in Ids, pw \in Passwords : Rekey(i, pw)
    BY <1>3, <1>11 DEF BeginRetrieve, Download, Restore, Rekey
<1>12. CASE \/ (\E i \in Ids : DeleteFile(i)) \/ DeleteRow \/ (\E d \in doomed : DeleteObject(d))
            \/ (\E c \in Configs : PutReplication(c)) \/ (\E o \in Objects : LoseObject(o))
            \/ \E i \in Ids : Strike(i)
    BY <1>3, <1>12 DEF DeleteFile, DeleteRow, DeleteObject, PutReplication, LoseObject, Strike
<1> QED BY <1>4, <1>5, <1>6, <1>7, <1>8, <1>9, <1>10, <1>11, <1>12 DEF Next

\* What is to be deleted stays without a row.
LEMMA OrphanStep == ASSUME RInv, Next PROVE OrphanInv'
<1> USE ReplicationAssumption DEF RInv, ghosts, lockVars, sweepVars
<1>1. next' >= next /\ next \in Nat /\ next' \in Nat /\ \A i \in Ids : Lasts(i)
    BY RowsLast, NextNat
<1>2. Ids \subseteq Nat /\ (\A d \in doomed : d.obj[1] \in Ids) /\ (web # None => web.id \in Ids)
    BY NextNat DEF TypeOK, Objects, Maybe
<1>3. ASSUME NEW d \in doomed PROVE d.obj[1] < next' /\ row'[d.obj[1]] = None
    <2>1. d.obj[1] \in Ids /\ d.obj[1] < next /\ row[d.obj[1]] = None
        BY <1>2 DEF OrphanInv
    <2>2. Lasts(d.obj[1]) /\ d.obj[1] \in Nat
        BY <1>1, <1>2, <2>1
    <2> HIDE DEF RInv
    <2> QED BY <1>1, <2>1, <2>2 DEF Lasts
<1>4. ASSUME NEW i \in Ids, row'[i] # None PROVE i < next'
    BY <1>1, <1>2, <1>4 DEF Lasts, OrphanInv
<1>40. \A i \in struck' : i < next' /\ row'[i] = None
    <2>1. ASSUME NEW i \in struck PROVE i < next' /\ row'[i] = None
        <3>1. i \in Ids /\ i < next /\ row[i] = None
            BY DEF OrphanInv, TypeOK
        <3>2. Lasts(i) /\ i \in Nat
            BY <1>1, <1>2, <3>1
        <3> HIDE DEF RInv
        <3> QED BY <1>1, <3>1, <3>2 DEF Lasts
    <2>2. ASSUME NEW i \in Ids, Strike(i) PROVE struck' = struck \cup {i} /\ row'[i] = None /\ i < next'
        BY <2>2 DEF Strike, OrphanInv, TypeOK
    <2> QED BY <2>1, <2>2, StruckFollows
<1>5. CASE DeleteRow
    <2>1. web.id \in Ids /\ web.id < next
        BY <1>2, <1>5 DEF DeleteRow, OrphanInv
    <2>2. row'[web.id] = None /\ web' = None /\ web.id < next'
        BY <1>1, <1>2, <1>5, <2>1 DEF DeleteRow, TypeOK
    <2>3. \A d \in doomed' : d \in doomed \/ d.obj[1] = web.id
        BY <1>5 DEF DeleteRow
    <2> QED BY <1>3, <1>4, <1>40, <2>2, <2>3 DEF OrphanInv
<1>6. CASE CommitPrune
    <2>1. CASE doomed' = doomed
        BY <1>1, <1>2, <1>3, <1>4, <1>40, <1>6, <2>1 DEF CommitPrune, OrphanInv
    <2>2. CASE Pruned
        <3>1. doomed' = doomed \cup Mirrored /\ UNCHANGED <<next, web>>
            BY <1>6, <2>2 DEF CommitPrune, Pruned
        <3>2. \A i \in Ids : i \in With({"mirror", "drop"}) => row'[i] = None
            BY <2>2 DEF Pruned
        <3>3. ASSUME NEW d \in Mirrored PROVE d.obj[1] < next /\ row'[d.obj[1]] = None
            <4>1. PICK s \in fate : s.fate = "mirror" /\ d.obj = <<s.id, s.key>>
                BY DEF Mirrored
            <4>2. s.id \in Ids /\ s.id < next
                BY DEF TypeOK, Stale, PruneInv
            <4>3. s.id \in With({"mirror", "drop"})
                BY <4>1 DEF With
            <4> QED BY <3>2, <4>1, <4>2, <4>3
        <3> QED BY <1>3, <1>4, <1>40, <3>1, <3>3 DEF OrphanInv
    <2> QED BY <1>6, <2>1, <2>2 DEF CommitPrune, Pruned
<1>7. ASSUME NEW i \in Ids, DeleteFile(i) PROVE OrphanInv'
    <2>1. web' = [id |-> i, key |-> IF row[i].status = "done" THEN row[i].key ELSE None] /\ row[i] # None
          /\ UNCHANGED <<doomed, next>>
        BY <1>7 DEF DeleteFile
    <2>2. web'.id = i /\ i < next
        BY <2>1 DEF OrphanInv
    <2> QED BY <1>3, <1>4, <1>40, <2>1, <2>2 DEF OrphanInv
<1>8. ASSUME UNCHANGED web, doomed' \subseteq doomed PROVE OrphanInv'
    <2>1. web' # None => web'.id < next'
        <3>1. web # None => web.id < next /\ web.id \in Nat
            BY <1>2 DEF OrphanInv
        <3> QED BY <1>1, <1>8, <3>1
    <2> QED BY <1>3, <1>4, <1>40, <1>8, <2>1 DEF OrphanInv
<1>9. CASE \E u \in Uploaders : Snap(u) \/ Read(u) \/ Put(u) \/ MarkDone(u) \/ MarkFailed(u)
    BY <1>8, <1>9 DEF Snap, Read, Put, MarkDone, MarkFailed
<1>10. CASE (\E s \in Sweeps : SweepList(s) \/ SweepNext(s) \/ SweepEnd(s)) \/ Backfill \/ VerifyList \/ VerifyOne
    BY <1>8, <1>10 DEF SweepList, SweepNext, SweepEnd, Backfill, VerifyList, VerifyOne
<1>11. CASE \/ PlanPrune \/ (\E s \in stale : Unlink(s)) \/ BackupFails \/ MarkPending
            \/ \E pw \in Keys, replicate \in BOOLEAN : Record(pw, replicate)
    BY <1>8, <1>11 DEF PlanPrune, Unlink, Record, BackupFails, MarkPending
<1>12. CASE (\E i \in Ids : BeginRetrieve(i)) \/ Download \/ Restore \/ \E i \in Ids, pw \in Passwords : Rekey(i, pw)
    BY <1>8, <1>12 DEF BeginRetrieve, Download, Restore, Rekey
<1>13. CASE \/ (\E d \in doomed : DeleteObject(d)) \/ (\E c \in Configs : PutReplication(c)) \/ Crash
            \/ (\E o \in Objects : LoseObject(o)) \/ \E i \in Ids : Strike(i)
    BY <1>8, <1>13 DEF DeleteObject, PutReplication, LoseObject, Crash, Strike
<1> QED BY <1>5, <1>6, <1>7, <1>9, <1>10, <1>11, <1>12, <1>13 DEF Next

\* Nobody else makes a row that the lock's holder is about to queue off-site only.
LEMMA LockStep == ASSUME RInv, Next PROVE LockInv'
<1> USE ReplicationAssumption DEF RInv, ghosts, lockVars, sweepVars
<1>0. next \in Nat /\ "backup" \in Uploaders /\ up \in [Uploaders -> Attempts]
    BY NextNat DEF Uploaders, TypeOK
<1>1. ASSUME jpc' = "pending" => jpc = "pending" /\ UNCHANGED next,
             up'["backup"].at # "idle" => jpc' = "upload"
      PROVE  LockInv'
    <2>1. ASSUME jpc' = "pending", row'[next - 1] # None PROVE row'[next - 1].local
        <3>1. PICK k \in Ids : k = next - 1
            BY <1>1, <2>1 DEF TypeOK, Ids
        <3>2. Lasts(k) /\ next' # next + 1 /\ jpc = "pending"
            BY <1>0, <1>1, <2>1, RowsLast
        <3>3. row[k] # None => row[k].local
            BY <3>1, <3>2 DEF LockInv
        <3> HIDE DEF RInv
        <3> QED BY <2>1, <3>1, <3>2, <3>3 DEF Lasts
    <2> QED BY <1>1, <2>1 DEF LockInv
<1>2. ASSUME NEW u \in Uploaders, Snap(u) \/ Read(u) \/ Put(u) \/ MarkDone(u) \/ MarkFailed(u) PROVE LockInv'
    <2>1. up[u].at # "idle" /\ UNCHANGED next
        BY <1>2 DEF Snap, Read, Put, MarkDone, MarkFailed
    <2>2. u = "backup" \/ (jpc' = jpc /\ up'["backup"] = up["backup"])
        BY <1>0, <1>2 DEF Snap, Read, Put, Step, MarkDone, MarkFailed, Return
    <2>3. u = "backup" => jpc = "upload" /\ (jpc' = jpc \/ up'["backup"].at = "idle")
        BY <1>0, <1>2, <2>1 DEF Snap, Read, Put, Step, MarkDone, MarkFailed, Return, LockInv, Idle
    <2>4. jpc' \in {jpc, "idle"}
        BY <1>2 DEF Snap, Read, Put, Step, MarkDone, MarkFailed, Return
    <2>5. up'["backup"].at # "idle" => jpc' = "upload"
        BY <2>2, <2>3 DEF LockInv
    <2> QED BY <1>1, <2>1, <2>4, <2>5
<1>3. CASE \E s \in Sweeps : SweepList(s) \/ SweepNext(s) \/ SweepEnd(s)
    <2>1. PICK s \in Sweeps : SweepList(s) \/ SweepNext(s) \/ SweepEnd(s)
        BY <1>3
    <2>2. s # "backup" /\ s \in Uploaders /\ UNCHANGED <<next, jpc>>
        BY <2>1 DEF Uploaders, SweepList, SweepNext, SweepEnd
    <2>3. up'["backup"] = up["backup"]
        BY <1>0, <2>1, <2>2 DEF SweepList, SweepNext, SweepEnd
    <2> QED BY <1>1, <2>2, <2>3 DEF LockInv
<1>4. CASE VerifyList \/ VerifyOne \/ Backfill
    BY <1>1, <1>4 DEF VerifyList, VerifyOne, Backfill, LockInv
<1>5. CASE PlanPrune \/ (\E s \in stale : Unlink(s)) \/ CommitPrune \/ BackupFails
    BY <1>5 DEF PlanPrune, Unlink, CommitPrune, BackupFails, LockInv
<1>6. ASSUME NEW pw \in Keys, NEW replicate \in BOOLEAN, Record(pw, replicate) PROVE LockInv'
    <2>1. row'[next].local /\ next' - 1 = next
        BY <1>0, <1>6 DEF Record, TypeOK
    <2> QED BY <1>6, <2>1 DEF Record, LockInv
<1>7. CASE MarkPending
    BY <1>7 DEF MarkPending, LockInv
<1>8. CASE (\E i \in Ids : BeginRetrieve(i)) \/ Download \/ Restore \/ \E i \in Ids, pw \in Passwords : Rekey(i, pw)
    BY <1>8 DEF BeginRetrieve, Download, Restore, Rekey, LockInv
<1>9. CASE Crash
    BY <1>0, <1>9 DEF Crash, LockInv, Idle
<1>10. CASE \/ (\E i \in Ids : DeleteFile(i)) \/ DeleteRow \/ (\E d \in doomed : DeleteObject(d))
            \/ (\E c \in Configs : PutReplication(c)) \/ (\E o \in Objects : LoseObject(o))
            \/ \E i \in Ids : Strike(i)
    BY <1>1, <1>10 DEF DeleteFile, DeleteRow, DeleteObject, PutReplication, LoseObject, Strike, LockInv
<1> QED BY <1>2, <1>3, <1>4, <1>5, <1>6, <1>7, <1>8, <1>9, <1>10 DEF Next

\* RInv is an invariant.
LEMMA RInvariant == Spec => []RInv
<1>1. Init => RInv
    BY InitType DEF Init, RInv, QueueInv, PruneInv, LockInv, OrphanInv, Idle, Uploaders
<1>2. ASSUME RInv, [Next]_vars PROVE RInv'
    <2>1. CASE UNCHANGED vars
        BY <1>2, <2>1 DEF vars, RInv, TypeOK, QueueInv, Asked, PruneInv, Copied, LockInv, OrphanInv
    <2>2. CASE Next
        <3>1. TypeOK'
            BY <1>2, <2>2, TypeStep DEF RInv
        <3> QED BY <1>2, <2>2, <3>1, QueueStep, PruneStep, LockStep, OrphanStep DEF RInv
    <2> QED BY <1>2, <2>1, <2>2
<1> QED BY <1>1, <1>2, PTL DEF Spec

\* What is about to be deleted at the destination belongs to no row, so that neither a
\* crash nor a deletion by the web meanwhile makes a deletion hit a backup that is
\* still promised (rows struck under a reused id are promised nothing).
THEOREM DoomedAreOrphans == Spec => []DoomedIsOrphan
<1>1. RInv => DoomedIsOrphan
    BY DEF RInv, OrphanInv, DoomedIsOrphan
<1> QED BY <1>1, RInvariant, PTL

-----------------------------------------------------------------------------
(* The refinement.                                                         *)

\* What the abstract specification sees of a row.
Shows(i) ==
    IF i >= next THEN "unborn" ELSE IF i \in struck THEN "void"
    ELSE IF row[i] = None THEN "gone" ELSE Promised(row[i].status)
Stands(i) == IF row[i] = None THEN "nowhere" ELSE IF row[i].local THEN "here" ELSE "offsite"

\* The refinement mapping, point by point.
LEMMA Mapped ==
    /\ promise = [i \in Ids |-> Shows(i)] /\ place = [i \in Ids |-> Stands(i)]
    /\ promise' = [i \in Ids |-> Shows(i)'] /\ place' = [i \in Ids |-> Stands(i)']
BY DEF promise, place, Shows, Stands

\* Only a new backup, its queueing and a crash change which backup is yet to queue.
LEMMA FreshFollows ==
    ASSUME RInv, Next
    PROVE  \/ UNCHANGED fresh \/ MarkPending \/ Crash
           \/ \E pw \in Keys, replicate \in BOOLEAN : Record(pw, replicate)
<1> USE DEF RInv, ghosts, lockVars, sweepVars
<1>0. ASSUME UNCHANGED next, jpc' = jpc \/ (jpc # "pending" /\ jpc' # "pending") PROVE UNCHANGED fresh
    BY <1>0 DEF fresh
<1>1. ASSUME NEW u \in Uploaders, Snap(u) \/ Read(u) \/ Put(u) \/ MarkDone(u) \/ MarkFailed(u)
      PROVE  UNCHANGED fresh
    <2>1. up[u].at # "idle" /\ UNCHANGED next
        BY <1>1 DEF Snap, Read, Put, MarkDone, MarkFailed
    <2>2. jpc' = jpc \/ (u = "backup" /\ jpc' = "idle")
        BY <1>1 DEF Snap, Read, Put, MarkDone, MarkFailed, Return
    <2> QED BY <1>0, <2>1, <2>2 DEF LockInv
<1>2. CASE (\E t \in Sweeps : SweepList(t) \/ SweepNext(t) \/ SweepEnd(t)) \/ Backfill \/ VerifyList \/ VerifyOne
    BY <1>0, <1>2 DEF SweepList, SweepNext, SweepEnd, Backfill, VerifyList, VerifyOne
<1>3. CASE PlanPrune \/ (\E t \in stale : Unlink(t)) \/ CommitPrune \/ BackupFails
    BY <1>0, <1>3 DEF PlanPrune, Unlink, CommitPrune, BackupFails
<1>4. CASE (\E j \in Ids : BeginRetrieve(j)) \/ Download \/ Restore \/ \E j \in Ids, pw \in Passwords : Rekey(j, pw)
    BY <1>0, <1>4 DEF BeginRetrieve, Download, Restore, Rekey
<1>5. CASE \/ (\E j \in Ids : DeleteFile(j)) \/ DeleteRow \/ (\E c \in Configs : PutReplication(c))
           \/ (\E d \in doomed : DeleteObject(d)) \/ (\E o \in Objects : LoseObject(o)) \/ \E j \in Ids : Strike(j)
    BY <1>0, <1>5 DEF DeleteFile, DeleteRow, PutReplication, DeleteObject, LoseObject, Strike
<1> QED BY <1>1, <1>2, <1>3, <1>4, <1>5 DEF Next

\* The end of an attempt, and verify_replicas.
LEMMA MarkRefines ==
    ASSUME RInv, NEW i \in Ids, Asked(i), NEW r, UNCHANGED <<next, struck, fresh>>, UNCHANGED row \/ Mark(i, r),
           row[i] # None => r # None /\ r.status \in Ended /\ r.local = row[i].local
    PROVE  Copy!Attempt(i) \/ UNCHANGED <<promise, place, fresh>>
<1> USE DEF RInv
<1>1. CASE UNCHANGED row
    BY <1>1 DEF promise, place
<1>2. CASE Mark(i, r) /\ row[i] = None
    BY <1>2 DEF Mark, promise, place
<1>3. CASE Mark(i, r) /\ row[i] # None
    <2>1. \A j \in Ids : row'[j] = IF j = i THEN r ELSE row[j]
        BY <1>3, MarkRow
    <2>2. ~(i >= next) /\ row[i].status \in Status \ {"null"} /\ i \notin struck
        BY <1>3, ReplicationAssumption DEF Asked, TypeOK, Row, Maybe, Ids, OrphanInv
    <2>3. Shows(i) \in {"queued", "kept", "owed", "given_up"} /\ Shows(i)' \in {"kept", "owed", "given_up"}
        BY <1>3, <2>1, <2>2 DEF Shows, Promised, Status, Ended
    <2>4. \A j \in Ids : j # i => Shows(j)' = Shows(j)
        BY <2>1 DEF Shows
    <2>5. \A j \in Ids : Stands(j)' = Stands(j)
        BY <1>3, <2>1 DEF Stands
    <2>6. promise' = [promise EXCEPT ![i] = Shows(i)']
        BY <2>4, Mapped
    <2>7. UNCHANGED place /\ promise[i] = Shows(i)
        BY <2>5, Mapped
    <2> QED BY <2>3, <2>6, <2>7 DEF Copy!Attempt
<1> QED BY <1>1, <1>2, <1>3

\* Initial states map to initial states.
LEMMA RefineInit == Init => Copy!Init
BY DEF Init, Copy!Init, promise, place, fresh, Ids

\* Every step maps to a step of OffsiteCopy or to a stutter.
LEMMA RefineStep == ASSUME RInv, Next PROVE Copy!Next \/ UNCHANGED <<promise, place, fresh>>
<1> USE ReplicationAssumption DEF RInv, ghosts, lockVars, sweepVars
<1>0. /\ row \in [Ids -> Maybe(Row)] /\ \A i \in Ids : row[i] # None => row[i] \in Row /\ row[i].status \in Status
      /\ next \in Nat /\ Ids \subseteq Nat
    BY NextNat DEF TypeOK, Maybe, Row
<1>00. ASSUME NEW i \in Ids, row[i] # None PROVE i \notin struck
    BY <1>00 DEF OrphanInv
<1>1. CASE Quiet /\ UNCHANGED fresh
    <2>1. UNCHANGED <<row, next>>
        BY <1>1, QuietRows
    <2>2. UNCHANGED struck
        BY <1>1 DEF Quiet, Snap, Put, SweepList, SweepNext, SweepEnd, VerifyList, PlanPrune, Unlink, BackupFails,
            BeginRetrieve, Download, DeleteFile, DeleteObject, PutReplication, Crash, LoseObject
    <2> QED BY <1>1, <2>1, <2>2 DEF promise, place
<1>2. ASSUME NEW u \in Uploaders, Read(u) \/ MarkDone(u) \/ MarkFailed(u), UNCHANGED fresh
      PROVE  Copy!Next \/ UNCHANGED <<promise, place, fresh>>
    <2> DEFINE i == up[u].id
               r1 == [row[i] EXCEPT !.status = "skipped"]
               r2 == [row[i] EXCEPT !.status = "done", !.key = Suffix(up[u].cfg, up[u].enc), !.sha = up[u].load]
               r3 == [row[i] EXCEPT !.status = "failed", !.attempts = @ + 1]
    <2>1. i \in Ids /\ Asked(i) /\ UNCHANGED <<next, struck, fresh>>
        BY <1>2 DEF TypeOK, QueueInv, Read, MarkDone, MarkFailed
    <2>2. ASSUME Read(u) PROVE Copy!Attempt(i) \/ UNCHANGED <<promise, place, fresh>>
        <3>1. row[i] # None => r1 \in Row /\ r1.status = "skipped" /\ r1.local = row[i].local
            BY <1>0, <2>1 DEF Row, Status
        <3>2. UNCHANGED row \/ Mark(i, r1)
            BY <2>2 DEF Read
        <3> HIDE DEF r1
        <3> QED BY <2>1, <3>1, <3>2, MarkRefines DEF Ended
    <2>3. ASSUME MarkDone(u) PROVE Copy!Attempt(i) \/ UNCHANGED <<promise, place, fresh>>
        <3>1. row[i] # None => r2.status = "done" /\ r2.local = row[i].local
            BY <1>0, <2>1 DEF Row
        <3>2. Mark(i, r2)
            BY <2>3 DEF MarkDone
        <3>3. row[i] # None => r2 # None
            <4>1. Suffix(up[u].cfg, up[u].enc) \in Suffixes /\ up[u].load \in Payload
                BY <2>3 DEF Suffix, Suffixes, MarkDone, TypeOK
            <4> QED BY <1>0, <2>1, <4>1 DEF Row, Status, Maybe
        <3> HIDE DEF r2
        <3> QED BY <2>1, <3>1, <3>2, <3>3, MarkRefines DEF Ended
    <2>4. ASSUME MarkFailed(u) PROVE Copy!Attempt(i) \/ UNCHANGED <<promise, place, fresh>>
        <3>1. row[i] # None => r3.status = "failed" /\ r3.local = row[i].local
            BY <1>0, <2>1 DEF Row
        <3>2. Mark(i, r3)
            BY <2>4 DEF MarkFailed
        <3>3. row[i] # None => r3 # None
            <4>1. row[i] # None => row[i].attempts + 1 \in Nat
                BY <1>0, <2>1 DEF Row
            <4> QED BY <1>0, <2>1, <4>1 DEF Row, Status
        <3> HIDE DEF r3
        <3> QED BY <2>1, <3>1, <3>2, <3>3, MarkRefines DEF Ended
    <2>5. Copy!Attempt(i) \/ UNCHANGED <<promise, place, fresh>>
        BY <1>2, <2>2, <2>3, <2>4
    <2> QED BY <2>1, <2>5 DEF Copy!Next
<1>3. CASE VerifyOne /\ UNCHANGED fresh
    <2> DEFINE r == [row[check] EXCEPT !.status = "failed"]
    <2>1. check \in Ids /\ Asked(check) /\ UNCHANGED <<next, struck, fresh>> /\ (UNCHANGED row \/ Mark(check, r))
        BY <1>3 DEF VerifyOne, TypeOK, QueueInv, Maybe
    <2>2. row[check] # None => r \in Row /\ r.status = "failed" /\ r.local = row[check].local
        BY <1>0, <2>1 DEF Row, Status
    <2> HIDE DEF r
    <2>3. Copy!Attempt(check) \/ UNCHANGED <<promise, place, fresh>>
        BY <2>1, <2>2, MarkRefines DEF Ended
    <2> QED BY <2>1, <2>3 DEF Copy!Next
<1>4. CASE Restore /\ UNCHANGED fresh
    <2>0. PICK i \in Ids : i = fetch.id
        BY <1>4 DEF Restore, TypeOK, Fetch
    <2> DEFINE r == [row[i] EXCEPT !.local = TRUE]
    <2>1. Mark(i, r) /\ UNCHANGED <<next, struck, fresh>>
        BY <1>4, <2>0 DEF Restore
    <2>2. CASE row[i] = None \/ row[i].local
        <3>1. row[i] # None => r = row[i]
            BY <1>0, <2>1, <2>2 DEF Row
        <3>2. row' = row
            BY <1>0, <2>1, <3>1 DEF Mark
        <3> QED BY <2>1, <3>2 DEF promise, place
    <2>3. CASE row[i] # None /\ ~row[i].local
        <3>1. r \in Row /\ r.local /\ r.status = row[i].status
            BY <1>0, <2>1, <2>3 DEF Row
        <3> HIDE DEF r
        <3>2. \A j \in Ids : row'[j] = IF j = i THEN r ELSE row[j]
            BY <2>1, <2>3, MarkRow
        <3>3. \A j \in Ids : Shows(j)' = Shows(j) /\ (j # i => Stands(j)' = Stands(j))
            BY <2>1, <2>3, <3>1, <3>2 DEF Shows, Stands
        <3>4. Stands(i) = "offsite" /\ Stands(i)' = "here"
            BY <2>1, <2>3, <3>1, <3>2 DEF Stands
        <3>5. UNCHANGED promise /\ place[i] = "offsite" /\ place' = [place EXCEPT ![i] = "here"]
            BY <2>1, <3>3, <3>4, Mapped
        <3> QED BY <2>1, <3>5 DEF Copy!Next, Copy!Retrieve
    <2> QED BY <2>2, <2>3
<1>5. CASE Backfill /\ UNCHANGED fresh
    <2>1. PICK S \in SUBSET {i \in LocalRows : row[i].status = "null"} :
            row' = [i \in Ids |-> IF i \in S THEN [row[i] EXCEPT !.status = "pending"] ELSE row[i]]
        BY <1>5 DEF Backfill
    <2>2. S \in SUBSET Ids /\ UNCHANGED <<next, struck, fresh>>
        BY <1>5 DEF LocalRows, Rows, Backfill
    <2>3. \A i \in S : /\ row[i] # None /\ row[i].status = "null" /\ row[i].local /\ i < next /\ i \notin struck
                       /\ row'[i] \in Row /\ row'[i].status = "pending" /\ row'[i].local = row[i].local
        BY <1>0, <1>00, <2>1, <2>2 DEF LocalRows, Rows, Row, Status, OrphanInv
    <2>4. \A i \in Ids : i \notin S => row'[i] = row[i]
        BY <2>1
    <2>5. \A i \in Ids : Shows(i)' = IF i \in S THEN "queued" ELSE Shows(i)
        <3>1. ASSUME NEW i \in S PROVE Shows(i)' = "queued"
            BY <1>0, <2>2, <2>3 DEF Shows, Promised
        <3>2. ASSUME NEW i \in Ids, i \notin S PROVE Shows(i)' = Shows(i)
            BY <2>2, <2>4, <3>2 DEF Shows
        <3> QED BY <2>2, <3>1, <3>2
    <2>6. \A i \in Ids : Stands(i)' = Stands(i)
        BY <2>2, <2>3, <2>4 DEF Stands
    <2>7. \A i \in S : Shows(i) = "never" /\ Stands(i) = "here"
        BY <1>0, <2>2, <2>3 DEF Shows, Promised, Stands
    <2>8. Copy!Queue(S)
        BY <2>2, <2>5, <2>6, <2>7, Mapped DEF Copy!Queue
    <2> QED BY <2>2, <2>8 DEF Copy!Next
<1>6. CASE CommitPrune /\ UNCHANGED fresh
    <2>0. UNCHANGED <<next, struck, fresh>>
        BY <1>6 DEF CommitPrune
    <2>1. CASE UNCHANGED row
        BY <2>0, <2>1 DEF promise, place
    <2>2. CASE Pruned
        <3> DEFINE S == {i \in With({"offsite"}) : row[i] # None}
                   D == With({"mirror", "drop"})
                   T == D \ struck
        <3>1. S \in SUBSET Ids /\ D \in SUBSET Ids /\ T \in SUBSET Ids
            BY DEF With, TypeOK, Stale
        <3>2. \A i \in S : row[i] # None /\ row[i].status \in Ended /\ row[i].local /\ i < next /\ i \notin struck
            BY <1>00, <3>1 DEF With, PruneInv, Copied
        <3>3. \A i \in D : i < next
            BY DEF With, PruneInv
        <3>4. \A i \in Ids : row'[i] = IF i \in D THEN None
                                     ELSE IF i \in S THEN [row[i] EXCEPT !.local = FALSE] ELSE row[i]
            BY <2>2 DEF Pruned
        <3>5. \A i \in S : LET r == [row[i] EXCEPT !.local = FALSE] IN
                             r \in Row /\ ~r.local /\ r.status = row[i].status
            BY <1>0, <3>1, <3>2 DEF Row
        <3>6. \A i \in D : i \notin T => i \in struck /\ row[i] = None /\ i \notin S
            BY <1>00, <3>1
        <3> HIDE DEF S, D
        <3>7. \A i \in Ids : Shows(i)' = IF i \in T THEN "gone" ELSE Shows(i)
            <4>1. ASSUME NEW i \in T PROVE Shows(i)' = "gone"
                <5>1. i \in Ids /\ row'[i] = None /\ i \notin struck
                    BY <3>1, <3>4
                <5>2. ~(i >= next)
                    BY <1>0, <3>3, <5>1
                <5> QED BY <2>0, <5>1, <5>2 DEF Shows
            <4>2. ASSUME NEW i \in S, i \notin D PROVE Shows(i)' = Shows(i)
                <5>1. row'[i] = [row[i] EXCEPT !.local = FALSE] /\ row[i] # None
                    BY <3>1, <3>2, <3>4, <4>2
                <5>2. row'[i] # None /\ row'[i].status = row[i].status
                    BY <3>5, <5>1
                <5> QED BY <2>0, <5>1, <5>2 DEF Shows
            <4>3. ASSUME NEW i \in Ids, i \notin S, i \notin D PROVE Shows(i)' = Shows(i)
                BY <2>0, <3>4, <4>3 DEF Shows
            <4>4. ASSUME NEW i \in D, i \notin T PROVE Shows(i)' = Shows(i)
                BY <2>0, <3>6, <4>4 DEF Shows
            <4> QED BY <3>1, <4>1, <4>2, <4>3, <4>4
        <3>8. \A i \in Ids : Stands(i)' = IF i \in T THEN "nowhere" ELSE IF i \in S THEN "offsite" ELSE Stands(i)
            <4>1. ASSUME NEW i \in D PROVE Stands(i)' = "nowhere"
                BY <3>1, <3>4 DEF Stands
            <4>2. ASSUME NEW i \in S, i \notin D PROVE Stands(i)' = "offsite"
                BY <3>1, <3>4, <3>5, <4>2 DEF Stands
            <4>3. ASSUME NEW i \in Ids, i \notin S, i \notin D PROVE Stands(i)' = Stands(i)
                BY <3>4, <4>3 DEF Stands
            <4>4. ASSUME NEW i \in D, i \notin T PROVE Stands(i) = "nowhere" /\ i \notin S
                BY <3>6, <4>4 DEF Stands
            <4> QED BY <4>1, <4>2, <4>3, <4>4
        <3>9. \A i \in S : Shows(i) \in {"kept", "owed", "given_up"} /\ Stands(i) = "here"
            BY <1>0, <3>1, <3>2 DEF Shows, Promised, Stands, Ended
        <3>10. \A i \in T : Shows(i) \notin {"unborn", "void"}
            BY <1>0, <3>1, <3>3 DEF Shows, Promised, Status
        <3> HIDE DEF T
        <3>11. Copy!Prune(S, T)
            BY <2>0, <3>1, <3>7, <3>8, <3>9, <3>10, Mapped DEF Copy!Prune
        <3> QED BY <3>1, <3>11 DEF Copy!Next
    <2> QED BY <1>6, <2>1, <2>2 DEF CommitPrune, Pruned
<1>7. ASSUME NEW pw \in Keys, NEW replicate \in BOOLEAN, Record(pw, replicate)
      PROVE  Copy!Next \/ UNCHANGED <<promise, place, fresh>>
    <2> DEFINE r == [local |-> TRUE, pw |-> pw, status |-> "null", attempts |-> 0, key |-> None, sha |-> None]
    <2>1. r \in Row /\ r.local /\ r.status = "null"
        BY DEF Row, Status, Maybe
    <2>0. PICK k \in Ids : k = next
        BY <1>7 DEF Record
    <2>2. row' = [row EXCEPT ![k] = r] /\ next' = k + 1 /\ UNCHANGED struck /\ jpc = "record" /\ k \notin struck
        BY <1>0, <1>7, <2>0 DEF Record, OrphanInv
    <2>20. fresh' \in {{}, {k}}
        BY <1>0, <1>7, <2>0 DEF Record, fresh
    <2> HIDE DEF r
    <2>3. \A i \in Ids : row'[i] = IF i = k THEN r ELSE row[i]
        BY <1>0, <2>2
    <2>4. Shows(k) = "unborn" /\ Shows(k)' = "never" /\ Stands(k)' = "here"
        BY <1>0, <2>0, <2>1, <2>2, <2>3 DEF Shows, Stands, Promised
    <2>5. \A i \in Ids : i # k => Shows(i)' = Shows(i) /\ Stands(i)' = Stands(i)
        BY <1>0, <2>0, <2>2, <2>3 DEF Shows, Stands
    <2>6. Copy!Record(k)
        BY <2>20, <2>4, <2>5, Mapped DEF Copy!Record
    <2> QED BY <2>2, <2>6 DEF Copy!Next
<1>8. CASE MarkPending
    <2>0. PICK k \in Ids : k = next - 1
        BY <1>8 DEF MarkPending, TypeOK, Ids
    <2>1. fresh = {k} /\ fresh' = {} /\ UNCHANGED <<next, struck>>
        BY <1>8, <2>0 DEF MarkPending, fresh
    <2>2. CASE UNCHANGED row
        <3>1. UNCHANGED <<promise, place>>
            BY <2>1, <2>2 DEF promise, place
        <3> QED BY <2>1, <3>1 DEF Copy!Next, Copy!Forgo
    <2>3. CASE Loads /\ row[next - 1] # None
        <3> DEFINE r == [row[k] EXCEPT !.status = "pending"]
        <3>1. k < next /\ row' = [row EXCEPT ![k] = r]
            BY <1>0, <1>8, <2>0, <2>3 DEF MarkPending
        <3>2. row[k] # None /\ row[k].local /\ k \notin struck
            BY <1>00, <1>8, <2>0, <2>3 DEF MarkPending, LockInv
        <3>3. r \in Row /\ r.status = "pending" /\ r.local
            BY <1>0, <2>0, <3>2 DEF Row, Status
        <3> HIDE DEF r
        <3>4. \A i \in Ids : row'[i] = IF i = k THEN r ELSE row[i]
            BY <1>0, <3>1
        <3>5. Shows(k)' = "queued"
            BY <1>0, <2>1, <3>1, <3>2, <3>3, <3>4 DEF Shows, Promised
        <3>6. \A i \in Ids : i # k => Shows(i)' = Shows(i)
            BY <2>1, <3>4 DEF Shows
        <3>7. \A i \in Ids : Stands(i)' = Stands(i)
            BY <3>2, <3>3, <3>4 DEF Stands
        <3>8. Stands(k) = "here"
            BY <3>2 DEF Stands
        <3>9. Copy!QueueOwn(k)
            BY <2>1, <3>5, <3>6, <3>7, <3>8, Mapped DEF Copy!QueueOwn
        <3> QED BY <3>9 DEF Copy!Next
    <2> QED BY <1>8, <2>2, <2>3 DEF MarkPending
<1>9. ASSUME NEW i \in Ids, NEW pw \in Passwords, Rekey(i, pw), UNCHANGED fresh
      PROVE  Copy!Next \/ UNCHANGED <<promise, place, fresh>>
    <2> DEFINE r == [row[i] EXCEPT !.pw = pw]
    <2>1. row' = [row EXCEPT ![i] = r] /\ row[i] # None /\ UNCHANGED <<next, struck, fresh>>
        BY <1>9 DEF Rekey
    <2>2. r \in Row /\ r.status = row[i].status /\ r.local = row[i].local
        BY <1>0, <2>1 DEF Row, Keys
    <2> HIDE DEF r
    <2>3. \A j \in Ids : row'[j] = IF j = i THEN r ELSE row[j]
        BY <1>0, <2>1
    <2>4. \A j \in Ids : Shows(j)' = Shows(j) /\ Stands(j)' = Stands(j)
        BY <2>1, <2>2, <2>3 DEF Shows, Stands
    <2> QED BY <2>1, <2>4, Mapped
<1>10. CASE DeleteRow /\ UNCHANGED fresh
    <2>0. PICK i \in Ids : i = web.id
        BY <1>10 DEF DeleteRow, TypeOK, Maybe
    <2>1. i < next /\ UNCHANGED <<next, struck, fresh>> /\ row' = [row EXCEPT ![i] = None]
        BY <1>10, <2>0 DEF DeleteRow, OrphanInv
    <2>2. \A j \in Ids : row'[j] = IF j = i THEN None ELSE row[j]
        BY <1>0, <2>1
    <2>3. CASE i \in struck
        <3>1. row' = row
            BY <1>0, <1>00, <2>1, <2>3
        <3> QED BY <2>1, <3>1 DEF promise, place
    <2>4. CASE i \notin struck
        <3>1. Shows(i) \notin {"unborn", "void"} /\ Shows(i)' = "gone" /\ Stands(i)' = "nowhere"
            BY <1>0, <2>1, <2>2, <2>4 DEF Shows, Stands, Promised, Status
        <3>2. \A j \in Ids : j # i => Shows(j)' = Shows(j) /\ Stands(j)' = Stands(j)
            BY <2>1, <2>2 DEF Shows, Stands
        <3>3. Copy!Delete(i)
            BY <2>1, <3>1, <3>2, Mapped DEF Copy!Delete
        <3> QED BY <3>3 DEF Copy!Next
    <2> QED BY <2>3, <2>4
<1>11. ASSUME NEW i \in Ids, Strike(i), UNCHANGED fresh PROVE Copy!Next
    <2>1. row[i] # None /\ i < next /\ UNCHANGED <<next, fresh>> /\ struck' = struck \cup {i}
        BY <1>11 DEF Strike, OrphanInv
    <2>2. \A j \in Ids : row'[j] = IF j = i THEN None ELSE row[j]
        BY <1>0, <1>11 DEF Strike
    <2>3. Stands(i) # "nowhere" /\ Shows(i)' = "void" /\ Stands(i)' = "nowhere"
        BY <1>0, <2>1, <2>2 DEF Shows, Stands
    <2>4. \A j \in Ids : j # i => Shows(j)' = Shows(j) /\ Stands(j)' = Stands(j)
        BY <2>1, <2>2 DEF Shows, Stands
    <2>5. Copy!Void(i)
        BY <2>1, <2>3, <2>4, Mapped DEF Copy!Void
    <2> QED BY <2>5 DEF Copy!Next
<1>12. CASE Crash
    <2>1. UNCHANGED <<promise, place>> /\ fresh' = {}
        BY <1>12 DEF Crash, promise, place, fresh
    <2> QED BY <2>1 DEF Copy!Next, Copy!Forgo
<1> QED BY <1>1, <1>2, <1>3, <1>4, <1>5, <1>6, <1>7, <1>8, <1>9, <1>10, <1>11, <1>12, FreshFollows DEF Next, Quiet

\* Replication implements OffsiteCopy: whoever acts on a row, with whatever it read
\* before, nothing is uploaded that was not queued, a row becomes off-site only after
\* an attempt ended, and what has left never comes back.
THEOREM ImplementsOffsiteCopy == Spec => KeepsPromise
<1>1. ASSUME RInv, [Next]_vars PROVE [Copy!Next]_(Copy!vars)
    <2>1. CASE UNCHANGED vars
        BY <2>1 DEF vars, Copy!vars, promise, place, fresh
    <2> QED BY <1>1, <2>1, RefineStep DEF Copy!vars
<1> QED BY <1>1, RefineInit, RInvariant, PTL DEF Spec, KeepsPromise, Copy!Spec

-----------------------------------------------------------------------------
(* Off-site rows have their objects.                                       *)

\* The key of a row names an object; a row that is not local has a key.
KeyInv == \A i \in Ids : row[i] # None =>
    /\ row[i].key # None => remote[<<i, row[i].key>>] # None \/ <<i, row[i].key>> \in lost
    /\ row[i].local \/ row[i].key # None

\* An object disappears only if it belongs to no row, or is lost.
LEMMA ObjectsStay ==
    ASSUME RInv, Next, NEW i \in Ids, NEW s \in Suffixes, row[i] # None
    PROVE  remote[<<i, s>>] # None \/ <<i, s>> \in lost => remote'[<<i, s>>] # None \/ <<i, s>> \in lost'
<1> USE ReplicationAssumption DEF RInv, ghosts
<1> DEFINE o == <<i, s>>
<1>0. o \in Objects /\ remote \in [Objects -> Maybe(Payload)]
    BY DEF Objects, TypeOK
<1>1. ASSUME NEW u \in Uploaders, Put(u) PROVE UNCHANGED lost /\ (remote[o] # None => remote'[o] # None)
    <2>1. up[u].id \in Ids /\ up[u].cfg \in Configs /\ up[u].load \in Payload
        BY <1>1 DEF Put, TypeOK
    <2>2. Obj(u) \in Objects
        BY <2>1 DEF Obj, Objects, Suffix, Suffixes
    <2>3. PICK r \in S3Upload(Obj(u), up[u].load) \cup SftpUpload(Obj(u), up[u].load) :
              remote' = [remote EXCEPT ![Obj(u)] = r[1]]
        BY <1>1 DEF Put
    <2>4. r[1] = None => remote[Obj(u)] = None
        BY <2>1, <2>2, <2>3, UploadOutcome
    <2> QED BY <1>0, <1>1, <2>2, <2>3, <2>4 DEF Put
<1>2. ASSUME NEW d \in doomed, DeleteObject(d) PROVE UNCHANGED lost /\ remote'[o] = remote[o]
    <2>1. d.obj # o
        BY DEF OrphanInv
    <2> QED BY <1>0, <1>2, <2>1 DEF DeleteObject
<1>3. ASSUME NEW q \in Objects, LoseObject(q)
      PROVE  lost \subseteq lost' /\ (remote'[o] = remote[o] \/ o \in lost')
    BY <1>0, <1>3 DEF LoseObject
<1>4. CASE UNCHANGED <<remote, lost>>
    BY <1>4
<1>5. CASE \E u \in Uploaders : Snap(u) \/ Read(u) \/ MarkDone(u) \/ MarkFailed(u)
    BY <1>4, <1>5 DEF Snap, Read, MarkDone, MarkFailed
<1>6. CASE (\E t \in Sweeps : SweepList(t) \/ SweepNext(t) \/ SweepEnd(t)) \/ Backfill \/ VerifyList \/ VerifyOne
    BY <1>4, <1>6 DEF SweepList, SweepNext, SweepEnd, Backfill, VerifyList, VerifyOne
<1>7. CASE \/ PlanPrune \/ (\E t \in stale : Unlink(t)) \/ CommitPrune \/ BackupFails \/ MarkPending
           \/ \E pw \in Keys, replicate \in BOOLEAN : Record(pw, replicate)
    BY <1>4, <1>7 DEF PlanPrune, Unlink, CommitPrune, Record, BackupFails, MarkPending
<1>8. CASE (\E j \in Ids : BeginRetrieve(j)) \/ Download \/ Restore \/ \E j \in Ids, pw \in Passwords : Rekey(j, pw)
    BY <1>4, <1>8 DEF BeginRetrieve, Download, Restore, Rekey
<1>9. CASE \/ (\E j \in Ids : DeleteFile(j)) \/ DeleteRow \/ (\E c \in Configs : PutReplication(c)) \/ Crash
           \/ \E j \in Ids : Strike(j)
    BY <1>4, <1>9 DEF DeleteFile, DeleteRow, PutReplication, Crash, Strike
<1> QED BY <1>1, <1>2, <1>3, <1>5, <1>6, <1>7, <1>8, <1>9 DEF Next

\* A row keeps its key, and is local or has one.
Keeps(i) ==
    /\ row[i] # None /\ row'[i].key = row[i].key
    /\ row'[i].local \/ row[i].key # None

\* So it is after a mark without a new key.
LEMMA MarkKeeps ==
    ASSUME TypeOK, KeyInv, NEW j \in Ids, NEW r, Mark(j, r) \/ UNCHANGED row,
           row[j] # None => r.key = row[j].key /\ (row[j].local => r.local),
           NEW i \in Ids, row'[i] # None
    PROVE  Keeps(i)
<1>1. row'[i] = row[i] \/ (i = j /\ row[j] # None /\ row'[j] = r)
    BY MarkRow
<1> QED BY <1>1 DEF Keeps, KeyInv

\* A row that stays keeps its key, or an attempt has just put the object there.
LEMMA KeysFollow ==
    ASSUME RInv, KeyInv, Next, NEW i \in Ids, row'[i] # None
    PROVE  \/ row'[i].key = None /\ row'[i].local
           \/ Keeps(i)
           \/ row'[i].key \in Suffixes /\ remote'[<<i, row'[i].key>>] # None
<1> USE ReplicationAssumption DEF RInv
<1>0. row \in [Ids -> Maybe(Row)] /\ \A j \in Ids : row[j] # None => row[j] \in Row
    BY DEF TypeOK, Maybe
<1>1. CASE Quiet
    BY <1>1, QuietRows DEF Keeps, KeyInv
<1>2. ASSUME NEW u \in Uploaders, Read(u) \/ MarkFailed(u) PROVE Keeps(i)
    <2>0. PICK k \in Ids : k = up[u].id
        BY <1>2 DEF TypeOK, Read, MarkFailed
    <2> DEFINE r1 == [row[k] EXCEPT !.status = "skipped"]
               r2 == [row[k] EXCEPT !.status = "failed", !.attempts = @ + 1]
    <2>1. UNCHANGED row \/ Mark(k, r1) \/ Mark(k, r2)
        BY <1>2, <2>0 DEF Read, MarkFailed
    <2>2. row[k] # None => /\ r1.key = row[k].key /\ r1.local = row[k].local
                           /\ r2.key = row[k].key /\ r2.local = row[k].local
        BY <1>0, <2>0 DEF Row
    <2> HIDE DEF r1, r2
    <2>3. CASE UNCHANGED row \/ Mark(k, r1)
        BY <2>0, <2>2, <2>3, MarkKeeps
    <2>4. CASE Mark(k, r2)
        BY <2>0, <2>2, <2>4, MarkKeeps
    <2> QED BY <2>1, <2>3, <2>4
<1>3. ASSUME NEW u \in Uploaders, MarkDone(u)
      PROVE  Keeps(i) \/ (row'[i].key \in Suffixes /\ remote'[<<i, row'[i].key>>] # None)
    <2>0. PICK k \in Ids : k = up[u].id
        BY <1>3 DEF TypeOK, MarkDone
    <2>00. PICK x \in Suffixes : x = Suffix(up[u].cfg, up[u].enc)
        BY DEF Suffix, Suffixes
    <2> DEFINE r == [row[k] EXCEPT !.status = "done", !.key = x, !.sha = up[u].load]
    <2>1. Mark(k, r) /\ remote' = remote /\ remote[<<k, x>>] # None
        BY <1>3, <2>0, <2>00 DEF MarkDone, Obj
    <2>2. row[k] # None => r.key = x
        BY <1>0 DEF Row
    <2> HIDE DEF r
    <2>3. row'[i] = row[i] \/ (i = k /\ row[k] # None /\ row'[i] = r)
        BY <2>1, MarkRow
    <2> QED BY <2>1, <2>2, <2>3 DEF Keeps, KeyInv
<1>4. CASE VerifyOne
    <2>0. PICK k \in Ids : k = check
        BY <1>4 DEF VerifyOne, TypeOK, Maybe
    <2> DEFINE r == [row[k] EXCEPT !.status = "failed"]
    <2>1. UNCHANGED row \/ Mark(k, r)
        BY <1>4, <2>0 DEF VerifyOne
    <2>2. row[k] # None => r.key = row[k].key /\ r.local = row[k].local
        BY <1>0 DEF Row
    <2> HIDE DEF r
    <2> QED BY <2>1, <2>2, MarkKeeps
<1>5. CASE Restore
    <2>0. PICK k \in Ids : k = fetch.id
        BY <1>5 DEF Restore, TypeOK, Fetch
    <2> DEFINE r == [row[k] EXCEPT !.local = TRUE]
    <2>1. Mark(k, r)
        BY <1>5, <2>0 DEF Restore
    <2>2. row[k] # None => r.key = row[k].key /\ r.local
        BY <1>0 DEF Row
    <2> HIDE DEF r
    <2> QED BY <2>1, <2>2, MarkKeeps
<1>6. CASE Backfill
    <2>1. PICK S \in SUBSET {j \in LocalRows : row[j].status = "null"} :
            row' = [j \in Ids |-> IF j \in S THEN [row[j] EXCEPT !.status = "pending"] ELSE row[j]]
        BY <1>6 DEF Backfill
    <2>2. CASE i \in S
        <3> DEFINE r == [row[i] EXCEPT !.status = "pending"]
        <3>1. row'[i] = r /\ row[i] # None
            BY <2>1, <2>2 DEF LocalRows, Rows
        <3>2. r.key = row[i].key /\ r.local = row[i].local
            BY <1>0, <3>1 DEF Row
        <3> HIDE DEF r
        <3> QED BY <3>1, <3>2 DEF Keeps, KeyInv
    <2>3. CASE i \notin S
        BY <2>1, <2>3 DEF Keeps, KeyInv
    <2> QED BY <2>2, <2>3
<1>7. CASE CommitPrune
    <2>1. CASE row' = row
        BY <2>1 DEF Keeps, KeyInv
    <2>2. CASE row' # row
        <3> DEFINE r == [row[i] EXCEPT !.local = FALSE]
        <3>1. /\ i \notin With({"mirror", "drop"})
              /\ row'[i] = IF i \in With({"offsite"}) /\ row[i] # None THEN r ELSE row[i]
            BY <1>7, <2>2 DEF CommitPrune
        <3>2. row[i] # None => r.key = row[i].key
            BY <1>0 DEF Row
        <3>3. i \in With({"offsite"}) /\ row[i] # None => row[i].key # None
            BY DEF With, PruneInv, Copied
        <3> HIDE DEF r
        <3> QED BY <3>1, <3>2, <3>3 DEF Keeps, KeyInv
    <2> QED BY <2>1, <2>2
<1>8. ASSUME NEW pw \in Keys, NEW replicate \in BOOLEAN, Record(pw, replicate)
      PROVE  (row'[i].key = None /\ row'[i].local) \/ Keeps(i)
    <2> DEFINE r == [local |-> TRUE, pw |-> pw, status |-> "null", attempts |-> 0, key |-> None, sha |-> None]
    <2>1. row' = [row EXCEPT ![next] = r] /\ r.key = None /\ r.local
        BY <1>8 DEF Record
    <2> HIDE DEF r
    <2>2. row'[i] = r \/ row'[i] = row[i]
        BY <1>0, <2>1
    <2> QED BY <2>1, <2>2 DEF Keeps, KeyInv
<1>9. CASE MarkPending
    <2>0. PICK k \in Ids : k = next - 1
        BY <1>9 DEF MarkPending, TypeOK, Ids
    <2> DEFINE r == [row[k] EXCEPT !.status = "pending"]
    <2>1. UNCHANGED row \/ Mark(k, r)
        BY <1>9, <2>0 DEF MarkPending, Mark
    <2>2. row[k] # None => r.key = row[k].key /\ r.local = row[k].local
        BY <1>0 DEF Row
    <2> HIDE DEF r
    <2> QED BY <2>1, <2>2, MarkKeeps
<1>10. ASSUME NEW k \in Ids, NEW pw \in Passwords, Rekey(k, pw) PROVE Keeps(i)
    <2> DEFINE r == [row[k] EXCEPT !.pw = pw]
    <2>1. Mark(k, r)
        BY <1>10 DEF Rekey, Mark
    <2>2. row[k] # None => r.key = row[k].key /\ r.local = row[k].local
        BY <1>0 DEF Row
    <2> HIDE DEF r
    <2> QED BY <2>1, <2>2, MarkKeeps
<1>11. CASE DeleteRow
    <2>1. row'[i] = row[i]
        BY <1>0, <1>11 DEF DeleteRow
    <2> QED BY <2>1 DEF Keeps, KeyInv
<1>12. ASSUME NEW k \in Ids, Strike(k) PROVE Keeps(i)
    <2>1. row'[i] = row[i]
        BY <1>0, <1>12 DEF Strike
    <2> QED BY <2>1 DEF Keeps, KeyInv
<1> QED BY <1>1, <1>2, <1>3, <1>4, <1>5, <1>6, <1>7, <1>8, <1>9, <1>10, <1>11, <1>12 DEF Next, Quiet

\* Every step keeps the objects that rows name.
LEMMA KeyStep == ASSUME RInv, KeyInv, Next PROVE KeyInv'
<1> SUFFICES ASSUME NEW i \in Ids, row'[i] # None
             PROVE  /\ row'[i].key # None => remote'[<<i, row'[i].key>>] # None \/ <<i, row'[i].key>> \in lost'
                    /\ row'[i].local \/ row'[i].key # None
    BY DEF KeyInv
<1>1. row[i] # None => row[i].key \in Maybe(Suffixes)
    BY DEF RInv, TypeOK, Row, Maybe
<1>2. CASE Keeps(i)
    <2>1. row[i].key # None => remote'[<<i, row[i].key>>] # None \/ <<i, row[i].key>> \in lost'
        BY <1>1, <1>2, ObjectsStay DEF Keeps, KeyInv, Maybe
    <2> QED BY <1>2, <2>1 DEF Keeps
<1> QED BY <1>2, KeysFollow, ReplicationAssumption

\* Retention leaves a row as off-site only when its object is there, or was lost by
\* the destination: no crash, sweep, verification or deletion takes it away.
THEOREM OffsiteRowsHaveObjects == Spec => []OffsiteOnlyHasObject
<1>1. Init => KeyInv
    BY DEF Init, KeyInv
<1>2. ASSUME RInv, KeyInv, [Next]_vars PROVE KeyInv'
    <2>1. CASE UNCHANGED vars
        BY <1>2, <2>1 DEF vars, KeyInv
    <2> QED BY <1>2, <2>1, KeyStep
<1>3. KeyInv => OffsiteOnlyHasObject
    BY DEF KeyInv, OffsiteOnlyHasObject, Rows
<1> QED BY <1>1, <1>2, <1>3, RInvariant, PTL DEF Spec

-----------------------------------------------------------------------------
(* Nothing goes off-site in plaintext.                                     *)

\* Where the plaintext of a backup may be, and who takes the backup for encrypted.
Bare(i) ==
    \/ file[i] = Plain
    \/ \E s \in Suffixes : remote[<<i, s>>] # None /\ remote[<<i, s>>].inner = Plain
    \/ \E u \in Uploaders : up[u].at = "put" /\ up[u].id = i /\ up[u].load.inner = Plain
Trusted(i) ==
    \/ row[i] # None /\ row[i].pw # Plain
    \/ \E u \in Uploaders : up[u].at = "read" /\ up[u].id = i /\ up[u].enc

Sealed(p) == p.outer # None \/ p.inner # Plain

\* What is taken for encrypted is so wherever it is; only recorded backups have
\* objects; and what is sent or stored has been sealed.
SealInv ==
    /\ \A i \in Ids : ~(Bare(i) /\ Trusted(i))
    /\ \A o \in Objects : remote[o] # None => o[1] < next
    /\ (\A c \in Configs : c.encrypt) =>
          /\ \A u \in Uploaders : up[u].at = "put" => Sealed(up[u].load)
          /\ \A o \in Objects : remote[o] # None => Sealed(remote[o])

\* What an attempt holds comes from the file, under the settings it loaded.
Sends(u) ==
    /\ up[u].at = "read" /\ file[up[u].id] # None
    /\ ~(Wraps(up[u].cfg, up[u].enc) /\ up[u].cfg.pw = None)
    /\ up'[u].id = up[u].id /\ up'[u].enc = up[u].enc /\ up'[u].cfg = up[u].cfg
    /\ up'[u].load = Prepared(up[u].cfg, up[u].enc, file[up[u].id], u)

\* What an attempt believes of the backup comes from its row.
Believes(u) ==
    /\ row[up[u].id] # None /\ up'[u].id = up[u].id
    /\ up'[u].enc = (row[up[u].id].pw # Plain)

\* Attempts that read or send have just got there, or were there before.
LEMMA AttemptsFollow ==
    ASSUME TypeOK, Next, NEW v \in Uploaders
    PROVE  /\ up'[v].at = "put" => up'[v] = up[v] \/ Sends(v)
           /\ up'[v].at = "read" => up'[v] = up[v] \/ (up[v].at = "snap" /\ Believes(v))
<1> DEFINE G == /\ up'[v].at = "put" => up'[v] = up[v] \/ Sends(v)
                /\ up'[v].at = "read" => up'[v] = up[v] \/ (up[v].at = "snap" /\ Believes(v))
<1>0. up \in [Uploaders -> Attempts]
    BY DEF TypeOK
<1>1. CASE UNCHANGED up
    BY <1>1
<1>2. ASSUME NEW u \in Uploaders, NEW a, a.at \notin {"put", "read"}, up' = [up EXCEPT ![u] = a] PROVE G
    BY <1>0, <1>2
<1>3. ASSUME NEW u \in Uploaders, Return(u) PROVE G
    <2>1. CASE u = "backup"
        BY <1>2, <1>3, <2>1 DEF Return, Idle
    <2>2. CASE u # "backup"
        <3> DEFINE a == [Idle EXCEPT !.at = "next", !.cfg = up[u].cfg]
        <3>1. up' = [up EXCEPT ![u] = a] /\ a.at = "next"
            BY <1>3, <2>2 DEF Return, Idle
        <3> HIDE DEF a
        <3> QED BY <1>2, <3>1
    <2> QED BY <2>1, <2>2
<1>4. ASSUME NEW u \in Uploaders, Snap(u) PROVE G
    <2>1. CASE row[up[u].id] = None
        BY <1>3, <1>4, <2>1 DEF Snap
    <2>2. CASE row[up[u].id] # None
        <3> DEFINE l == IF row[up[u].id].local THEN "read" ELSE "fail"
                   e == row[up[u].id].pw # Plain
                   a == [up[u] EXCEPT !.at = l, !.enc = e]
        <3>1. up' = [up EXCEPT ![u] = a] /\ up[u].at = "snap"
            BY <1>4, <2>2 DEF Snap
        <3>2. l # "put"
            OBVIOUS
        <3> HIDE DEF l
        <3>3. a.at = l /\ a.id = up[u].id /\ a.enc = e
            <4> HIDE DEF e
            <4> QED BY <1>0 DEF Attempts
        <3> HIDE DEF a
        <3>4. up'[u] = a /\ (v # u => up'[v] = up[v])
            BY <1>0, <3>1
        <3> QED BY <2>2, <3>1, <3>2, <3>3, <3>4 DEF Believes
    <2> QED BY <2>1, <2>2
<1>5. ASSUME NEW u \in Uploaders, Read(u) PROVE G
    <2>1. CASE file[up[u].id] = None
        BY <1>3, <1>5, <2>1 DEF Read
    <2>2. CASE file[up[u].id] # None /\ Wraps(up[u].cfg, up[u].enc) /\ up[u].cfg.pw = None
        <3> DEFINE a == [up[u] EXCEPT !.at = "fail"]
        <3>1. up' = [up EXCEPT ![u] = a]
            BY <1>5, <2>2 DEF Read
        <3>2. a.at = "fail"
            BY <1>0 DEF Attempts
        <3> HIDE DEF a
        <3> QED BY <1>2, <3>1, <3>2
    <2>3. CASE file[up[u].id] # None /\ ~(Wraps(up[u].cfg, up[u].enc) /\ up[u].cfg.pw = None)
        <3> DEFINE p == Prepared(up[u].cfg, up[u].enc, file[up[u].id], u)
                   a == [up[u] EXCEPT !.at = "put", !.load = p]
        <3>1. up' = [up EXCEPT ![u] = a] /\ up[u].at = "read"
            BY <1>5, <2>3 DEF Read
        <3>2. a.at = "put" /\ a.id = up[u].id /\ a.enc = up[u].enc /\ a.cfg = up[u].cfg /\ a.load = p
            <4> HIDE DEF p
            <4> QED BY <1>0 DEF Attempts
        <3> HIDE DEF a
        <3>3. up'[u] = a /\ (v # u => up'[v] = up[v])
            BY <1>0, <3>1
        <3> QED BY <2>3, <3>1, <3>2, <3>3 DEF Sends
    <2> QED BY <2>1, <2>2, <2>3
<1>6. ASSUME NEW u \in Uploaders, Put(u) PROVE G
    <2>1. up[u].id \in Ids /\ up[u].cfg \in Configs /\ up[u].load \in Payload
        BY <1>6 DEF Put, TypeOK
    <2>2. Obj(u) \in Objects
        BY <2>1 DEF Obj, Objects, Suffix, Suffixes
    <2>3. PICK r \in S3Upload(Obj(u), up[u].load) \cup SftpUpload(Obj(u), up[u].load) : Step(u, r[2])
        BY <1>6 DEF Put
    <2>4. r[2] \in {"done", "fail"}
        BY <2>1, <2>2, <2>3, UploadOutcome
    <2> DEFINE a == [up[u] EXCEPT !.at = r[2]]
    <2>5. up' = [up EXCEPT ![u] = a] /\ a.at = r[2]
        BY <1>0, <2>3 DEF Step, Attempts
    <2> HIDE DEF a
    <2> QED BY <1>2, <2>4, <2>5
<1>7. ASSUME NEW u \in Uploaders, MarkDone(u) \/ MarkFailed(u) PROVE G
    BY <1>3, <1>7 DEF MarkDone, MarkFailed
<1>8. ASSUME NEW s \in Sweeps, SweepList(s) \/ SweepNext(s) \/ SweepEnd(s) PROVE G
    <2>0. s \in Uploaders
        BY DEF Uploaders
    <2>1. CASE SweepList(s)
        <3> DEFINE a == [Idle EXCEPT !.at = "next", !.cfg = cfg]
        <3>1. up' = [up EXCEPT ![s] = a] /\ a.at = "next"
            BY <2>1 DEF SweepList, Idle
        <3> HIDE DEF a
        <3> QED BY <1>2, <2>0, <3>1
    <2>2. CASE SweepNext(s)
        <3>1. PICK t \in todo[s] :
                \/ up' = [up EXCEPT ![s].at = "snap", ![s].id = t.id, ![s].listed = t.listed]
                \/ UNCHANGED up
            BY <2>2 DEF SweepNext
        <3> DEFINE a == [up[s] EXCEPT !.at = "snap", !.id = t.id, !.listed = t.listed]
        <3>2. a.at = "snap"
            BY <1>0, <2>0 DEF Attempts
        <3>3. up' = [up EXCEPT ![s] = a] \/ UNCHANGED up
            BY <3>1
        <3> HIDE DEF a
        <3> QED BY <1>1, <1>2, <2>0, <3>2, <3>3
    <2>3. CASE SweepEnd(s)
        BY <1>2, <2>0, <2>3 DEF SweepEnd, Idle
    <2> QED BY <1>8, <2>1, <2>2, <2>3
<1>9. CASE MarkPending
    <2> DEFINE a == [Idle EXCEPT !.at = "snap", !.id = next - 1, !.cfg = cfg]
    <2>1. a.at = "snap" /\ "backup" \in Uploaders
        BY DEF Idle, Uploaders
    <2>2. up' = [up EXCEPT !["backup"] = a] \/ UNCHANGED up
        BY <1>9 DEF MarkPending
    <2> HIDE DEF a
    <2> QED BY <1>1, <1>2, <2>1, <2>2
<1>10. CASE Crash
    BY <1>10 DEF Crash, Idle
<1>11. CASE Aside \/ VerifyList \/ VerifyOne
    BY <1>1, <1>11, AsideUnchanged DEF VerifyList, VerifyOne, sweepVars
<1> QED BY <1>4, <1>5, <1>6, <1>7, <1>8, <1>9, <1>10, <1>11 DEF Next, Aside

\* An object that is there was there before, or an attempt has sent it.
LEMMA ObjectsFollow ==
    ASSUME TypeOK, Next, NEW o \in Objects, remote'[o] # None
    PROVE  \/ remote'[o] = remote[o]
           \/ \E u \in Uploaders :
                 /\ up[u].at = "put" /\ Obj(u) = o
                 /\ remote'[o].inner = up[u].load.inner /\ remote'[o].outer = up[u].load.outer
<1> USE DEF ghosts
<1>0. remote \in [Objects -> Maybe(Payload)]
    BY DEF TypeOK
<1>1. ASSUME NEW u \in Uploaders, Put(u)
      PROVE  \/ remote'[o] = remote[o]
             \/ /\ up[u].at = "put" /\ Obj(u) = o
                /\ remote'[o].inner = up[u].load.inner /\ remote'[o].outer = up[u].load.outer
    <2>1. up[u].id \in Ids /\ up[u].cfg \in Configs /\ up[u].load \in Payload
        BY <1>1 DEF Put, TypeOK
    <2>2. Obj(u) \in Objects
        BY <2>1 DEF Obj, Objects, Suffix, Suffixes
    <2>3. PICK r \in S3Upload(Obj(u), up[u].load) \cup SftpUpload(Obj(u), up[u].load) :
              remote' = [remote EXCEPT ![Obj(u)] = r[1]]
        BY <1>1 DEF Put
    <2>4. r[1] # remote[Obj(u)] => r[1].inner = up[u].load.inner /\ r[1].outer = up[u].load.outer
        BY <2>1, <2>2, <2>3, UploadOutcome
    <2> QED BY <1>0, <1>1, <2>2, <2>3, <2>4 DEF Put
<1>2. ASSUME NEW d \in doomed, DeleteObject(d) PROVE remote'[o] = remote[o]
    BY <1>0, <1>2 DEF DeleteObject
<1>3. ASSUME NEW q \in Objects, LoseObject(q) PROVE remote'[o] = remote[o]
    BY <1>0, <1>3 DEF LoseObject
<1>5. CASE \E u \in Uploaders : Snap(u) \/ Read(u) \/ MarkDone(u) \/ MarkFailed(u)
    BY <1>5 DEF Snap, Read, MarkDone, MarkFailed
<1>6. CASE (\E t \in Sweeps : SweepList(t) \/ SweepNext(t) \/ SweepEnd(t)) \/ Backfill \/ VerifyList \/ VerifyOne
    BY <1>6 DEF SweepList, SweepNext, SweepEnd, Backfill, VerifyList, VerifyOne
<1>7. CASE \/ PlanPrune \/ (\E t \in stale : Unlink(t)) \/ CommitPrune \/ BackupFails \/ MarkPending
           \/ \E pw \in Keys, replicate \in BOOLEAN : Record(pw, replicate)
    BY <1>7 DEF PlanPrune, Unlink, CommitPrune, Record, BackupFails, MarkPending
<1>8. CASE (\E j \in Ids : BeginRetrieve(j)) \/ Download \/ Restore \/ \E j \in Ids, pw \in Passwords : Rekey(j, pw)
    BY <1>8 DEF BeginRetrieve, Download, Restore, Rekey
<1>9. CASE \/ (\E j \in Ids : DeleteFile(j)) \/ DeleteRow \/ (\E c \in Configs : PutReplication(c)) \/ Crash
           \/ \E j \in Ids : Strike(j)
    BY <1>9 DEF DeleteFile, DeleteRow, PutReplication, Crash, Strike
<1> QED BY <1>1, <1>2, <1>3, <1>5, <1>6, <1>7, <1>8, <1>9 DEF Next

\* A retrieval writes the file of its backup from the object it has downloaded.
Retrieves(i) ==
    /\ jpc = "fetch" /\ fetch \in Fetch /\ fetch.id = i
    /\ remote[<<i, fetch.key>>] # None
    /\ file'[i] = Restored(remote[<<i, fetch.key>>])

\* Where a file comes from.
LEMMA FilesFollow ==
    ASSUME TypeOK, Next, NEW i \in Ids
    PROVE  \/ file'[i] \in {None, file[i]} \/ Retrieves(i)
           \/ \E pw \in Keys, replicate \in BOOLEAN : Record(pw, replicate)
           \/ \E j \in Ids, pw \in Passwords : Rekey(j, pw) /\ file'[i] = pw
<1> USE ReplicationAssumption DEF ghosts, lockVars
<1>0. file \in [Ids -> Maybe(Bodies)]
    BY DEF TypeOK
<1>1. ASSUME NEW s \in stale, Unlink(s) PROVE file'[i] \in {None, file[i]}
    BY <1>0, <1>1 DEF Unlink
<1>2. ASSUME NEW j \in Ids, DeleteFile(j) PROVE file'[i] \in {None, file[i]}
    BY <1>0, <1>2 DEF DeleteFile
<1>3. ASSUME NEW j \in Ids, NEW pw \in Passwords, Rekey(j, pw) PROVE file'[i] \in {pw, file[i]}
    BY <1>0, <1>3 DEF Rekey
<1>4. CASE Download
    <2>0. PICK k \in Ids : k = fetch.id /\ fetch \in Fetch /\ jpc = "fetch"
        BY <1>4 DEF Download, TypeOK, Fetch
    <2> DEFINE p == remote[<<k, fetch.key>>]
    <2>1. file' = file \/ (p # None /\ file' = [file EXCEPT ![k] = Restored(p)])
        BY <1>4, <2>0 DEF Download
    <2>2. file'[i] = file[i] \/ (i = k /\ p # None /\ file'[i] = Restored(p))
        BY <1>0, <2>1
    <2> QED BY <2>0, <2>2 DEF Retrieves
<1>6. CASE \E u \in Uploaders : Snap(u) \/ Read(u) \/ Put(u) \/ MarkDone(u) \/ MarkFailed(u)
    BY <1>6 DEF Snap, Read, Put, MarkDone, MarkFailed
<1>7. CASE (\E t \in Sweeps : SweepList(t) \/ SweepNext(t) \/ SweepEnd(t)) \/ Backfill \/ VerifyList \/ VerifyOne
    BY <1>7 DEF SweepList, SweepNext, SweepEnd, Backfill, VerifyList, VerifyOne
<1>8. CASE PlanPrune \/ CommitPrune \/ BackupFails \/ MarkPending \/ (\E j \in Ids : BeginRetrieve(j)) \/ Restore
    BY <1>8 DEF PlanPrune, CommitPrune, BackupFails, MarkPending, BeginRetrieve, Restore
<1>9. CASE \/ DeleteRow \/ (\E c \in Configs : PutReplication(c)) \/ Crash
           \/ (\E d \in doomed : DeleteObject(d)) \/ (\E o \in Objects : LoseObject(o)) \/ \E j \in Ids : Strike(j)
    BY <1>9 DEF DeleteRow, PutReplication, Crash, DeleteObject, LoseObject, Strike
<1> QED BY <1>1, <1>2, <1>3, <1>4, <1>6, <1>7, <1>8, <1>9 DEF Next

\* Only a new backup takes an id.
LEMMA NextFollows ==
    ASSUME Next
    PROVE  next' = next \/ \E pw \in Keys, replicate \in BOOLEAN : Record(pw, replicate)
<1> USE DEF ghosts, lockVars, sweepVars
<1>1. CASE Quiet
    BY <1>1, QuietRows
<1>2. CASE \E u \in Uploaders : Read(u) \/ MarkDone(u) \/ MarkFailed(u)
    BY <1>2 DEF Read, MarkDone, MarkFailed
<1>3. CASE \/ Backfill \/ VerifyOne \/ CommitPrune \/ MarkPending \/ Restore \/ DeleteRow
           \/ (\E i \in Ids, pw \in Passwords : Rekey(i, pw)) \/ \E i \in Ids : Strike(i)
    BY <1>3 DEF Backfill, VerifyOne, CommitPrune, MarkPending, Restore, DeleteRow, Rekey, Strike
<1> QED BY <1>1, <1>2, <1>3 DEF Next, Quiet

\* The next backup has no objects yet.
LEMMA FreshObjects ==
    ASSUME RInv, SealInv, NEW k \in Ids, k = next
    PROVE  \A s \in Suffixes : remote[<<k, s>>] = None
<1> SUFFICES ASSUME NEW s \in Suffixes, remote[<<k, s>>] # None PROVE FALSE
    OBVIOUS
<1>1. <<k, s>> \in Objects /\ <<k, s>>[1] = k
    BY DEF Objects
<1>2. k < next
    BY <1>1 DEF SealInv
<1> QED BY <1>2 DEF Ids

\* Nor does an attempt concern it.
LEMMA FreshAttempts ==
    ASSUME RInv, NEW k \in Ids, k = next
    PROVE  \A u \in Uploaders : up[u].at \notin {"idle", "next"} => up[u].id # k
<1>1. \A u \in Uploaders : up[u].at \notin {"idle", "next"} => up[u].id < next
    BY DEF RInv, QueueInv, Asked
<1> QED BY <1>1 DEF Ids

\* A new backup is bare or trusted, by its password.
LEMMA SealRecord ==
    ASSUME RInv, SealInv, NEW pw \in Keys, NEW replicate \in BOOLEAN, Record(pw, replicate)
    PROVE  SealInv'
<1> USE ReplicationAssumption DEF RInv, sweepVars
<1>0. PICK k \in Ids : k = next
    BY DEF Record
<1> DEFINE r == [local |-> TRUE, pw |-> pw, status |-> "null", attempts |-> 0, key |-> None, sha |-> None]
<1>1. /\ row' = [row EXCEPT ![k] = r] /\ r.pw = pw /\ file' = [file EXCEPT ![k] = pw]
      /\ next' = next + 1 /\ UNCHANGED <<remote, up>>
    BY <1>0 DEF Record
<1> HIDE DEF r
<1>2. \A s \in Suffixes : remote[<<k, s>>] = None
    BY <1>0, FreshObjects
<1>3. \A u \in Uploaders : up[u].at \notin {"idle", "next"} => up[u].id # k
    BY <1>0, FreshAttempts
<1>4. \A i \in Ids : ~(Bare(i) /\ Trusted(i))'
    <2>1. ~(Bare(k) /\ Trusted(k))'
        BY <1>1, <1>2, <1>3 DEF Bare, Trusted, TypeOK
    <2>2. ASSUME NEW i \in Ids, i # k PROVE ~(Bare(i) /\ Trusted(i))'
        <3>1. row'[i] = row[i] /\ file'[i] = file[i]
            BY <1>1, <2>2 DEF TypeOK
        <3> QED BY <1>1, <3>1 DEF Bare, Trusted, SealInv
    <2> QED BY <2>1, <2>2
<1>5. \A o \in Objects : remote[o] # None => o[1] < next + 1
    <2>1. \A o \in Objects : o[1] \in Nat
        BY DEF Objects, Ids
    <2> QED BY <2>1 DEF SealInv, TypeOK
<1> QED BY <1>1, <1>4, <1>5 DEF SealInv

\* Wherever the plaintext of a backup is, it was somewhere before.
LEMMA BareFollows ==
    ASSUME RInv, Next, UNCHANGED next, NEW i \in Ids, Bare(i)'
    PROVE  Bare(i)
<1> USE DEF RInv
<1>1. CASE file'[i] = Plain
    <2>0. Plain # None /\ Plain \notin Passwords
        BY ReplicationAssumption DEF Keys
    <2>1. ASSUME NEW pw \in Keys, NEW replicate \in BOOLEAN, Record(pw, replicate) PROVE FALSE
        BY <2>1, ReplicationAssumption DEF Record, TypeOK
    <2>2. CASE Retrieves(i)
        <3>0. PICK s \in Suffixes : s = fetch.key
            BY <2>2 DEF Retrieves, Fetch
        <3>1. remote[<<i, s>>] # None /\ Restored(remote[<<i, s>>]) = Plain
            BY <1>1, <2>2, <3>0 DEF Retrieves
        <3>2. remote[<<i, s>>].outer = None \/ remote[<<i, s>>].outer \in ReplPasswords
            BY <3>1 DEF TypeOK, Objects, Payload, Maybe
        <3>3. remote[<<i, s>>].inner = Plain
            BY <3>1, <3>2, ReplicationAssumption DEF Restored
        <3> QED BY <3>1, <3>3 DEF Bare
    <2>3. CASE file'[i] = file[i]
        BY <1>1, <2>3 DEF Bare
    <2> QED BY <1>1, <2>0, <2>1, <2>2, <2>3, FilesFollow
<1>2. ASSUME NEW s \in Suffixes, remote'[<<i, s>>] # None, remote'[<<i, s>>].inner = Plain PROVE Bare(i)
    <2>1. <<i, s>> \in Objects
        BY DEF Objects
    <2>2. CASE remote'[<<i, s>>] = remote[<<i, s>>]
        BY <1>2, <2>2 DEF Bare
    <2>3. ASSUME NEW u \in Uploaders, up[u].at = "put", Obj(u) = <<i, s>>,
                 remote'[<<i, s>>].inner = up[u].load.inner
          PROVE  Bare(i)
        <3>1. up[u].id = i
            BY <2>3 DEF Obj
        <3> QED BY <1>2, <2>3, <3>1 DEF Bare
    <2> QED BY <1>2, <2>1, <2>2, <2>3, ObjectsFollow
<1>3. ASSUME NEW u \in Uploaders, up'[u].at = "put", up'[u].id = i, up'[u].load.inner = Plain PROVE Bare(i)
    <2>1. CASE up'[u] = up[u]
        BY <1>3, <2>1 DEF Bare
    <2>2. CASE Sends(u)
        <3>1. up'[u].load.inner = file[up[u].id] /\ up[u].id = i
            BY <1>3, <2>2 DEF Sends, Prepared
        <3> QED BY <1>3, <3>1 DEF Bare
    <2> QED BY <1>3, <2>1, <2>2, AttemptsFollow
<1> QED BY <1>1, <1>2, <1>3 DEF Bare

\* Whoever takes a backup for encrypted has it from a row that said so before.
LEMMA TrustFollows ==
    ASSUME RInv, Next, UNCHANGED next, NEW i \in Ids, Trusted(i)'
    PROVE  Trusted(i)
<1> USE DEF RInv
<1>1. CASE row'[i] # None /\ row'[i].pw # Plain
    <2>1. next' # next + 1
        BY DEF TypeOK
    <2> QED BY <1>1, <2>1, RowsLast DEF Lasts, Trusted
<1>2. ASSUME NEW u \in Uploaders, up'[u].at = "read", up'[u].id = i, up'[u].enc PROVE Trusted(i)
    BY <1>2, AttemptsFollow DEF Believes, Trusted
<1> QED BY <1>1, <1>2 DEF Trusted

\* Every step keeps what goes off-site sealed.
LEMMA SealStep == ASSUME RInv, SealInv, Next PROVE SealInv'
<1> USE ReplicationAssumption DEF RInv
<1>1. CASE \E pw \in Keys, replicate \in BOOLEAN : Record(pw, replicate)
    BY <1>1, SealRecord
<1>2. CASE next' = next
    <2>1. \A i \in Ids : ~(Bare(i)' /\ Trusted(i)')
        BY <1>2, BareFollows, TrustFollows DEF SealInv
    <2>2. \A o \in Objects : remote'[o] # None => o[1] < next
        <3> SUFFICES ASSUME NEW o \in Objects, remote'[o] # None PROVE o[1] < next
            OBVIOUS
        <3>1. ASSUME NEW u \in Uploaders, up[u].at = "put", Obj(u) = o PROVE o[1] < next
            BY <3>1 DEF Obj, QueueInv, Asked
        <3> QED BY <3>1, ObjectsFollow DEF SealInv
    <2>3. ASSUME \A c \in Configs : c.encrypt, NEW u \in Uploaders, up'[u].at = "put"
          PROVE  Sealed(up'[u].load)
        <3>1. CASE up'[u] = up[u]
            BY <2>3, <3>1 DEF SealInv
        <3>2. CASE Sends(u)
            <4>1. up[u].cfg \in Configs /\ up[u].id \in Ids
                BY <3>2 DEF Sends, TypeOK
            <4>2. CASE up[u].enc
                <5>1. Trusted(up[u].id)
                    BY <3>2, <4>2 DEF Sends, Trusted
                <5>2. file[up[u].id] # Plain
                    BY <4>1, <5>1 DEF SealInv, Bare
                <5> QED BY <3>2, <5>2 DEF Sends, Prepared, Sealed
            <4>3. CASE ~up[u].enc
                <5>1. Wraps(up[u].cfg, up[u].enc)
                    BY <2>3, <4>1, <4>3 DEF Wraps
                <5> QED BY <3>2, <5>1 DEF Sends, Prepared, Sealed
            <4> QED BY <4>2, <4>3
        <3> QED BY <2>3, <3>1, <3>2, AttemptsFollow
    <2>4. ASSUME \A c \in Configs : c.encrypt, NEW o \in Objects, remote'[o] # None
          PROVE  Sealed(remote'[o])
        BY <2>4, ObjectsFollow DEF SealInv, Sealed
    <2>5. (\A i \in Ids : ~(Bare(i) /\ Trusted(i)))'
        BY <2>1
    <2> QED BY <1>2, <2>2, <2>3, <2>4, <2>5 DEF SealInv
<1> QED BY <1>1, <1>2, NextFollows

\* SealInv is an invariant.
LEMMA SealInvariant == Spec => []SealInv
<1>1. Init => SealInv
    BY ReplicationAssumption DEF Init, SealInv, Bare, Trusted, Idle, Objects, Keys
<1>2. ASSUME RInv, SealInv, [Next]_vars PROVE SealInv'
    <2>1. CASE UNCHANGED vars
        BY <1>2, <2>1 DEF vars, SealInv, Bare, Trusted
    <2> QED BY <1>2, <2>1, SealStep
<1> QED BY <1>1, <1>2, RInvariant, PTL DEF Spec

\* With encrypt_plaintext on in every setting, no archive lands off-site in plaintext:
\* whichever settings an attempt loaded, whoever replaced the file or the row between
\* its steps, and whatever a retrieval wrote back.
THEOREM NothingInPlaintext == Spec => []NoPlaintextOffsite
<1>1. SealInv => NoPlaintextOffsite
    BY DEF SealInv, Sealed, NoPlaintextOffsite
<1> QED BY <1>1, SealInvariant, PTL

-----------------------------------------------------------------------------
(* What is retrieved opens.                                                *)

\* An object or payload under suffix s holds the archive under pw, with the layer
\* that _undo_payload will infer from suffix and row.
Holds(p, s, pw) ==
    /\ p.inner = pw
    /\ p.outer # None <=> (s = "2x" \/ (s = "enc" /\ pw = Plain))

\* Every copy of a backup that was not re-encrypted since it was queued is under the
\* password of its row, and whoever read the row's flag has it right.
Agrees(i) ==
    /\ file[i] \in {None, row[i].pw}
    /\ \A s \in Suffixes : remote[<<i, s>>] # None =>
          row[i].status # "null" /\ Holds(remote[<<i, s>>], s, row[i].pw)
    /\ \A u \in Uploaders : up[u].at \in {"read", "put"} /\ up[u].id = i => up[u].enc = (row[i].pw # Plain)
    /\ \A u \in Uploaders : up[u].at = "put" /\ up[u].id = i =>
          Holds(up[u].load, Suffix(up[u].cfg, up[u].enc), row[i].pw)
    /\ jpc = "fetch" /\ fetch.id = i => fetch.enc = (row[i].pw # Plain)
OpenInv == \A i \in Ids \ rekeyed : row[i] # None => Agrees(i)

\* What is prepared for a row holds its archive.
LEMMA PreparedHolds ==
    ASSUME NEW c, NEW enc \in BOOLEAN, NEW pw, NEW u \in Uploaders, enc = (pw # Plain),
           ~(Wraps(c, enc) /\ c.pw = None)
    PROVE  Holds(Prepared(c, enc, pw, u), Suffix(c, enc), pw)
BY DEF Holds, Prepared, Suffix, Wraps

\* A retrieval is under way only since it read the row.
LEMMA FetchFollows ==
    ASSUME TypeOK, Next, jpc' = "fetch"
    PROVE  (jpc = "fetch" /\ fetch' = fetch) \/ \E i \in Ids : BeginRetrieve(i)
<1> USE DEF ghosts, lockVars, sweepVars
<1>1. CASE \E u \in Uploaders : Snap(u) \/ Read(u) \/ Put(u) \/ MarkDone(u) \/ MarkFailed(u)
    BY <1>1 DEF Snap, Read, Put, MarkDone, MarkFailed, Return
<1>2. CASE (\E t \in Sweeps : SweepList(t) \/ SweepNext(t) \/ SweepEnd(t)) \/ Backfill \/ VerifyList \/ VerifyOne
    BY <1>2 DEF SweepList, SweepNext, SweepEnd, Backfill, VerifyList, VerifyOne
<1>3. CASE \/ PlanPrune \/ (\E t \in stale : Unlink(t)) \/ CommitPrune \/ BackupFails \/ MarkPending
           \/ \E pw \in Keys, replicate \in BOOLEAN : Record(pw, replicate)
    BY <1>3 DEF PlanPrune, Unlink, CommitPrune, Record, BackupFails, MarkPending
<1>4. CASE (\E j \in Ids : BeginRetrieve(j)) \/ Download \/ Restore \/ \E j \in Ids, pw \in Passwords : Rekey(j, pw)
    BY <1>4 DEF Download, Restore, Rekey
<1>5. CASE \/ (\E j \in Ids : DeleteFile(j)) \/ DeleteRow \/ (\E c \in Configs : PutReplication(c)) \/ Crash
           \/ (\E d \in doomed : DeleteObject(d)) \/ (\E o \in Objects : LoseObject(o)) \/ \E j \in Ids : Strike(j)
    BY <1>5 DEF DeleteFile, DeleteRow, PutReplication, Crash, DeleteObject, LoseObject, Strike
<1> QED BY <1>1, <1>2, <1>3, <1>4, <1>5 DEF Next

\* Passwords of rows, and the record of who was re-encrypted, change in a re-encrypt.
LEMMA RekeyFollows ==
    ASSUME Next
    PROVE  \/ UNCHANGED <<rekeyed, edits>>
           \/ \E c \in Configs : PutReplication(c)
           \/ \E i \in Ids, pw \in Passwords : Rekey(i, pw)
<1> USE DEF ghosts
<1>1. CASE \E u \in Uploaders : Snap(u) \/ Read(u) \/ Put(u) \/ MarkDone(u) \/ MarkFailed(u)
    BY <1>1 DEF Snap, Read, Put, MarkDone, MarkFailed
<1>2. CASE (\E t \in Sweeps : SweepList(t) \/ SweepNext(t) \/ SweepEnd(t)) \/ Backfill \/ VerifyList \/ VerifyOne
    BY <1>2 DEF SweepList, SweepNext, SweepEnd, Backfill, VerifyList, VerifyOne
<1>3. CASE \/ PlanPrune \/ (\E t \in stale : Unlink(t)) \/ CommitPrune \/ BackupFails \/ MarkPending
           \/ \E pw \in Keys, replicate \in BOOLEAN : Record(pw, replicate)
    BY <1>3 DEF PlanPrune, Unlink, CommitPrune, Record, BackupFails, MarkPending
<1>4. CASE (\E j \in Ids : BeginRetrieve(j)) \/ Download \/ Restore
    BY <1>4 DEF BeginRetrieve, Download, Restore
<1>5. CASE \/ (\E j \in Ids : DeleteFile(j)) \/ DeleteRow \/ Crash
           \/ (\E d \in doomed : DeleteObject(d)) \/ (\E o \in Objects : LoseObject(o)) \/ \E j \in Ids : Strike(j)
    BY <1>5 DEF DeleteFile, DeleteRow, Crash, DeleteObject, LoseObject, Strike
<1> QED BY <1>1, <1>2, <1>3, <1>4, <1>5 DEF Next

\* A new backup agrees with its row.
LEMMA OpenRecord ==
    ASSUME RInv, SealInv, OpenInv, NEW pw \in Keys, NEW replicate \in BOOLEAN, Record(pw, replicate)
    PROVE  OpenInv'
<1> USE ReplicationAssumption DEF RInv, sweepVars, ghosts
<1>0. PICK k \in Ids : k = next
    BY DEF Record
<1> DEFINE r == [local |-> TRUE, pw |-> pw, status |-> "null", attempts |-> 0, key |-> None, sha |-> None]
<1>1. /\ row' = [row EXCEPT ![k] = r] /\ r.pw = pw /\ file' = [file EXCEPT ![k] = pw]
      /\ UNCHANGED <<remote, up, fetch, rekeyed>> /\ jpc' # "fetch"
    BY <1>0 DEF Record
<1> HIDE DEF r
<1>2. \A s \in Suffixes : remote[<<k, s>>] = None
    BY <1>0, FreshObjects
<1>3. \A u \in Uploaders : up[u].at \notin {"idle", "next"} => up[u].id # k
    BY <1>0, FreshAttempts
<1>4. Agrees(k)'
    BY <1>1, <1>2, <1>3 DEF Agrees, TypeOK
<1>5. ASSUME NEW i \in Ids \ rekeyed, i # k, row'[i] # None PROVE Agrees(i)'
    <2>1. row'[i] = row[i] /\ file'[i] = file[i]
        BY <1>1, <1>5 DEF TypeOK
    <2>2. Agrees(i)
        BY <1>5, <2>1 DEF OpenInv
    <2> QED BY <1>1, <2>1, <2>2 DEF Agrees
<1> QED BY <1>1, <1>4, <1>5 DEF OpenInv

\* A backup re-encrypted before it was queued has no copies yet.
LEMMA OpenRekey ==
    ASSUME RInv, OpenInv, NEW k \in Ids, NEW pw \in Passwords, Rekey(k, pw)
    PROVE  OpenInv'
<1> USE ReplicationAssumption DEF RInv, lockVars, sweepVars
<1> DEFINE r == [row[k] EXCEPT !.pw = pw]
<1>1. /\ row' = [row EXCEPT ![k] = r] /\ file' = [file EXCEPT ![k] = pw]
      /\ UNCHANGED <<remote, up, fetch, jpc>> /\ jpc = "idle" /\ row[k] # None
    BY DEF Rekey
<1>2. rekeyed \subseteq rekeyed' /\ (k \notin rekeyed' => row[k].status = "null")
    BY DEF Rekey
<1>3. r.pw = pw
    BY <1>1 DEF TypeOK, Row, Maybe
<1> HIDE DEF r
<1>4. ASSUME k \notin rekeyed' PROVE Agrees(k)'
    <2>1. Agrees(k) /\ row[k].status = "null"
        BY <1>1, <1>2, <1>4 DEF OpenInv
    <2>2. \A s \in Suffixes : remote[<<k, s>>] = None
        BY <2>1 DEF Agrees
    <2>3. \A u \in Uploaders : up[u].at \notin {"idle", "next"} => up[u].id # k
        BY <1>1, <2>1 DEF QueueInv, Asked
    <2> QED BY <1>1, <1>3, <2>2, <2>3 DEF Agrees, TypeOK
<1>5. ASSUME NEW i \in Ids \ rekeyed', i # k, row'[i] # None PROVE Agrees(i)'
    <2>1. row'[i] = row[i] /\ file'[i] = file[i]
        BY <1>1, <1>5 DEF TypeOK
    <2>2. Agrees(i)
        BY <1>2, <1>5, <2>1 DEF OpenInv
    <2> QED BY <1>1, <2>1, <2>2 DEF Agrees
<1> QED BY <1>4, <1>5 DEF OpenInv

\* Every other step leaves the password of a row, and copies agree with it.
LEMMA OpenOther ==
    ASSUME RInv, OpenInv, Next, UNCHANGED <<next, rekeyed>>, NEW i \in Ids \ rekeyed, row'[i] # None,
           row[i] # None /\ row'[i].pw = row[i].pw,
           ~\E k \in Ids, pw \in Passwords : Rekey(k, pw)
    PROVE  Agrees(i)'
<1> USE ReplicationAssumption DEF RInv
<1>0. Agrees(i) /\ i \in Ids
    BY DEF OpenInv
<1>00. row[i].status # "null" => row'[i].status # "null"
    <2>1. next' # next + 1
        BY DEF TypeOK
    <2> QED BY <2>1, RowsLast DEF Lasts
<1>1. file'[i] \in {None, row[i].pw}
    <2>1. CASE file'[i] \in {None, file[i]}
        BY <1>0, <2>1 DEF Agrees
    <2>2. CASE Retrieves(i)
        <3>0. PICK s \in Suffixes : s = fetch.key
            BY <2>2 DEF Retrieves, TypeOK, Fetch
        <3>1. /\ jpc = "fetch" /\ fetch.id = i /\ remote[<<i, s>>] # None
              /\ file'[i] = Restored(remote[<<i, s>>])
            BY <2>2, <3>0 DEF Retrieves
        <3>2. fetch.enc = (row[i].pw # Plain) /\ Holds(remote[<<i, s>>], s, row[i].pw)
            BY <1>0, <3>1 DEF Agrees
        <3>3. Restored(remote[<<i, s>>]) = row[i].pw
            BY <3>0, <3>2 DEF Restored, Layered, Holds
        <3> QED BY <3>1, <3>3
    <2>3. ASSUME NEW pw \in Keys, NEW replicate \in BOOLEAN, Record(pw, replicate) PROVE FALSE
        BY <2>3 DEF Record, TypeOK
    <2> QED BY <1>0, <2>1, <2>2, <2>3, FilesFollow
<1>2. ASSUME NEW u \in Uploaders, up'[u].at \in {"read", "put"}, up'[u].id = i
      PROVE  up'[u].enc = (row[i].pw # Plain)
    <2>1. CASE up'[u] = up[u]
        BY <1>0, <1>2, <2>1 DEF Agrees
    <2>2. CASE Sends(u)
        BY <1>0, <1>2, <2>2 DEF Agrees, Sends
    <2>3. CASE Believes(u)
        BY <1>2, <2>3 DEF Believes
    <2> QED BY <1>2, <2>1, <2>2, <2>3, AttemptsFollow
<1>3. ASSUME NEW u \in Uploaders, up'[u].at = "put", up'[u].id = i
      PROVE  Holds(up'[u].load, Suffix(up'[u].cfg, up'[u].enc), row[i].pw)
    <2>1. CASE up'[u] = up[u]
        BY <1>0, <1>3, <2>1 DEF Agrees
    <2>2. CASE Sends(u)
        <3>1. /\ up[u].id = i /\ up[u].at = "read" /\ up'[u].cfg = up[u].cfg /\ up'[u].enc = up[u].enc
              /\ file[i] # None /\ ~(Wraps(up[u].cfg, up[u].enc) /\ up[u].cfg.pw = None)
              /\ up'[u].load = Prepared(up[u].cfg, up[u].enc, file[i], u)
            BY <1>3, <2>2 DEF Sends
        <3>2. file[i] = row[i].pw /\ up[u].enc = (row[i].pw # Plain)
            BY <1>0, <3>1 DEF Agrees
        <3>3. up[u].enc \in BOOLEAN /\ up[u].cfg \in Configs /\ row[i].pw \in Keys
            BY <1>0, <3>1 DEF TypeOK, Attempts, Maybe, Row
        <3>4. PICK c \in Configs, e \in BOOLEAN, pw \in Keys : c = up[u].cfg /\ e = up[u].enc /\ pw = row[i].pw
            BY <3>3
        <3>5. Holds(Prepared(c, e, pw, u), Suffix(c, e), pw)
            BY <3>1, <3>2, <3>4, PreparedHolds
        <3>6. up'[u].load = Prepared(c, e, pw, u) /\ up'[u].cfg = c /\ up'[u].enc = e
            BY <3>1, <3>2, <3>4
        <3> QED BY <3>4, <3>5, <3>6
    <2> QED BY <1>3, <2>1, <2>2, AttemptsFollow
<1>4. ASSUME NEW s \in Suffixes, remote'[<<i, s>>] # None
      PROVE  row'[i].status # "null" /\ Holds(remote'[<<i, s>>], s, row[i].pw)
    <2>0. <<i, s>> \in Objects
        BY <1>0 DEF Objects
    <2>1. CASE remote'[<<i, s>>] = remote[<<i, s>>]
        BY <1>0, <1>00, <1>4, <2>1 DEF Agrees
    <2>2. ASSUME NEW u \in Uploaders, up[u].at = "put", Obj(u) = <<i, s>>,
                 remote'[<<i, s>>].inner = up[u].load.inner, remote'[<<i, s>>].outer = up[u].load.outer
          PROVE  row'[i].status # "null" /\ Holds(remote'[<<i, s>>], s, row[i].pw)
        <3>1. up[u].id = i /\ Suffix(up[u].cfg, up[u].enc) = s
            BY <2>2 DEF Obj
        <3>2. row[i].status # "null"
            BY <2>2, <3>1 DEF QueueInv, Asked
        <3>3. Holds(up[u].load, s, row[i].pw)
            BY <1>0, <2>2, <3>1 DEF Agrees
        <3> QED BY <1>00, <2>2, <3>2, <3>3 DEF Holds
    <2> QED BY <1>4, <2>0, <2>1, <2>2, ObjectsFollow
<1>5. ASSUME jpc' = "fetch", fetch'.id = i PROVE fetch'.enc = (row[i].pw # Plain)
    <2>1. CASE jpc = "fetch" /\ fetch' = fetch
        BY <1>0, <1>5, <2>1 DEF Agrees
    <2>2. ASSUME NEW j \in Ids, BeginRetrieve(j) PROVE fetch'.enc = (row[i].pw # Plain)
        <3> DEFINE e == row[j].pw # Plain
        <3>1. fetch' = [id |-> j, key |-> row[j].key, sha |-> row[j].sha, enc |-> e, cfg |-> cfg]
            BY <2>2 DEF BeginRetrieve
        <3> HIDE DEF e
        <3>2. fetch'.id = j /\ fetch'.enc = e
            BY <3>1
        <3> QED BY <1>5, <3>2 DEF e
    <2> QED BY <1>5, <2>1, <2>2, FetchFollows
<1> QED BY <1>1, <1>2, <1>3, <1>4, <1>5 DEF Agrees

\* Every step keeps copies and rows in agreement.
LEMMA OpenStep == ASSUME RInv, SealInv, OpenInv, Next PROVE OpenInv'
<1>1. CASE \E pw \in Keys, replicate \in BOOLEAN : Record(pw, replicate)
    BY <1>1, OpenRecord
<1>2. CASE \E k \in Ids, pw \in Passwords : Rekey(k, pw)
    BY <1>2, OpenRekey
<1>3. CASE /\ ~\E pw \in Keys, replicate \in BOOLEAN : Record(pw, replicate)
           /\ ~\E k \in Ids, pw \in Passwords : Rekey(k, pw)
    <2>1. UNCHANGED next /\ next' # next + 1
        BY <1>3, NextFollows DEF RInv, TypeOK
    <2>2. UNCHANGED rekeyed /\ (UNCHANGED edits \/ UNCHANGED row)
        BY <1>3, RekeyFollows DEF PutReplication
    <2>3. ASSUME NEW i \in Ids, row'[i] # None PROVE row[i] # None /\ row'[i].pw = row[i].pw
        BY <2>1, <2>2, <2>3, RowsLast DEF Lasts, RInv
    <2>4. ASSUME NEW i \in Ids \ rekeyed, row'[i] # None PROVE Agrees(i)'
        BY <1>3, <2>1, <2>2, <2>3, <2>4, OpenOther
    <2> QED BY <2>2, <2>4 DEF OpenInv
<1> QED BY <1>1, <1>2, <1>3

\* A local file opens with the password of its row, retrieved files included, although
\* the layer to strip is inferred from the key's suffix and the row, and settings, rows
\* and objects change while uploads and retrievals are under way. Backups re-encrypted
\* after they were queued are the exception.
THEOREM RetrievedFilesOpen == Spec => []RetrievedOpens
<1>1. Init => OpenInv
    BY DEF Init, OpenInv
<1>2. ASSUME RInv, SealInv, OpenInv, [Next]_vars PROVE OpenInv'
    <2>1. CASE UNCHANGED vars
        BY <1>2, <2>1 DEF vars, OpenInv, Agrees
    <2> QED BY <1>2, <2>1, OpenStep
<1>3. OpenInv => RetrievedOpens
    BY DEF OpenInv, Agrees, RetrievedOpens, LocalRows, Rows
<1> QED BY <1>1, <1>2, <1>3, RInvariant, SealInvariant, PTL DEF Spec
-----------------------------------------------------------------------------
(* Alerts.                                                                 *)

\* What a sweep has listed of a row: not more attempts than the row counts by now;
\* and if this attempt is the one that alerts, no alert was sent.
Fresh(s, i, n) ==
    /\ row[i] # None => n <= row[i].attempts
    /\ s \notin Silent /\ n + 1 = AlertAfter => alerts[i] = 0

\* Each row is listed once, and the row attempted is off the list.
Busy(s) == up[s].at \notin {"idle", "next"}
Lists(s) ==
    /\ \A t \in todo[s] : Fresh(s, t.id, t.listed)
    /\ Busy(s) => Fresh(s, up[s].id, up[s].listed)
    /\ \A t, w \in todo[s] : t.id = w.id => t = w
    /\ Busy(s) => \A t \in todo[s] : t.id # up[s].id

AlertInv ==
    /\ \A i \in Ids : alerts[i] <= 1 /\ (alerts[i] # 0 => i < next)
    /\ \A i \in Ids : alerts[i] # 0 /\ row[i] # None => row[i].attempts >= AlertAfter
    /\ \A s \in Sweeps : Lists(s)

\* A row that stays counts no fewer attempts than before.
LEMMA RowsCount ==
    ASSUME TypeOK, Next, NEW i \in Ids, i < next, row[i] # None, row'[i] # None
    PROVE  row'[i].attempts >= row[i].attempts
<1> USE ReplicationAssumption DEF ghosts, lockVars, sweepVars
<1>0. row \in [Ids -> Maybe(Row)] /\ row[i] \in Row /\ row[i].attempts \in Nat /\ next \in Nat /\ i \in Nat
    BY DEF TypeOK, Maybe, Row, Ids
<1>1. CASE UNCHANGED row
    BY <1>0, <1>1
<1>2. ASSUME NEW j \in Ids, NEW r, Mark(j, r), row[j] # None => r.attempts >= row[j].attempts
      PROVE  row'[i].attempts >= row[i].attempts
    <2>1. row'[i] = IF i = j /\ row[j] # None THEN r ELSE row[i]
        BY <1>2, MarkRow
    <2> QED BY <1>0, <1>2, <2>1
<1>3. ASSUME NEW j \in Ids, row[j] # None PROVE row[j] \in Row /\ row[j].attempts \in Nat
    BY <1>3 DEF TypeOK, Maybe, Row
<1>4. ASSUME NEW u \in Uploaders, Read(u) \/ MarkDone(u) \/ MarkFailed(u) PROVE row'[i].attempts >= row[i].attempts
    <2> DEFINE j == up[u].id
    <2>1. j \in Ids
        BY <1>4 DEF TypeOK, Read, MarkDone, MarkFailed
    <2>2. CASE Read(u)
        <3> DEFINE r == [row[j] EXCEPT !.status = "skipped"]
        <3>1. UNCHANGED row \/ Mark(j, r)
            BY <2>2 DEF Read
        <3>2. row[j] # None => r.attempts >= row[j].attempts
            BY <1>3, <2>1 DEF Row
        <3> HIDE DEF r
        <3> QED BY <1>1, <1>2, <2>1, <3>1, <3>2
    <2>3. CASE MarkDone(u)
        <3> DEFINE x == Suffix(up[u].cfg, up[u].enc)
                   r == [row[j] EXCEPT !.status = "done", !.key = x, !.sha = up[u].load]
        <3>1. Mark(j, r)
            BY <2>3 DEF MarkDone
        <3> HIDE DEF x
        <3>2. row[j] # None => r.attempts >= row[j].attempts
            BY <1>3, <2>1 DEF Row
        <3> HIDE DEF r
        <3> QED BY <1>2, <2>1, <3>1, <3>2
    <2>4. CASE MarkFailed(u)
        <3> DEFINE r == [row[j] EXCEPT !.status = "failed", !.attempts = @ + 1]
        <3>1. Mark(j, r)
            BY <2>4 DEF MarkFailed
        <3>2. row[j] # None => r.attempts >= row[j].attempts
            BY <1>3, <2>1 DEF Row
        <3> HIDE DEF r
        <3> QED BY <1>2, <2>1, <3>1, <3>2
    <2> QED BY <1>4, <2>2, <2>3, <2>4
<1>5. CASE VerifyOne
    <2> DEFINE r == [row[check] EXCEPT !.status = "failed"]
    <2>1. check \in Ids /\ (UNCHANGED row \/ Mark(check, r))
        BY <1>5 DEF VerifyOne, TypeOK, Maybe
    <2>2. row[check] # None => r.attempts >= row[check].attempts
        BY <1>3, <2>1 DEF Row
    <2> HIDE DEF r
    <2> QED BY <1>1, <1>2, <2>1, <2>2
<1>6. CASE Restore
    <2> DEFINE r == [row[fetch.id] EXCEPT !.local = TRUE]
    <2>1. fetch.id \in Ids /\ Mark(fetch.id, r)
        BY <1>6 DEF Restore, TypeOK, Fetch
    <2>2. row[fetch.id] # None => r.attempts >= row[fetch.id].attempts
        BY <1>3, <2>1 DEF Row
    <2> HIDE DEF r
    <2> QED BY <1>2, <2>1, <2>2
<1>7. CASE Backfill
    BY <1>0, <1>7 DEF Backfill, Row
<1>8. CASE CommitPrune
    BY <1>0, <1>8 DEF CommitPrune, Row
<1>9. ASSUME NEW pw \in Keys, NEW replicate \in BOOLEAN, Record(pw, replicate)
      PROVE  row'[i].attempts >= row[i].attempts
    BY <1>0, <1>9 DEF Record
<1>10. CASE MarkPending
    BY <1>0, <1>10 DEF MarkPending, Row
<1>11. ASSUME NEW j \in Ids, NEW pw \in Passwords, Rekey(j, pw) PROVE row'[i].attempts >= row[i].attempts
    BY <1>0, <1>11 DEF Rekey, Row
<1>12. CASE DeleteRow
    BY <1>0, <1>12 DEF DeleteRow
<1>13. CASE Quiet
    BY <1>1, <1>13, QuietRows
<1>14. ASSUME NEW j \in Ids, Strike(j) PROVE row'[i].attempts >= row[i].attempts
    BY <1>0, <1>14 DEF Strike
<1> QED BY <1>4, <1>5, <1>6, <1>7, <1>8, <1>9, <1>10, <1>11, <1>12, <1>13, <1>14 DEF Next, Quiet

\* What a sweep has listed stays good while nobody alerts for the row.
LEMMA FreshStays ==
    ASSUME RInv, Next, NEW s, NEW i \in Ids, NEW n \in Nat, i < next, Fresh(s, i, n),
           s \in Silent \/ alerts'[i] = alerts[i]
    PROVE  Fresh(s, i, n)'
<1>1. ASSUME row'[i] # None PROVE n <= row'[i].attempts
    <2>1. row[i] # None
        BY <1>1, RowsLast, NextNat DEF RInv, Lasts
    <2>2. row[i].attempts \in Nat /\ row'[i].attempts \in Nat
        BY <1>1, <2>1, TypeStep DEF RInv, TypeOK, Maybe, Row
    <2>3. row'[i].attempts >= row[i].attempts
        BY <1>1, <2>1, RowsCount DEF RInv
    <2> QED BY <2>1, <2>2, <2>3 DEF Fresh
<1> QED BY <1>1 DEF Fresh

\* An alert that was sent stays late: the row keeps its count.
LEMMA CountStays ==
    ASSUME RInv, Next, NEW i \in Ids, i < next, row[i] # None => row[i].attempts >= AlertAfter, row'[i] # None
    PROVE  row'[i].attempts >= AlertAfter
<1>1. row[i] # None
    BY RowsLast, NextNat DEF RInv, Lasts
<1>2. row[i].attempts \in Nat /\ row'[i].attempts \in Nat
    BY <1>1, TypeStep DEF RInv, TypeOK, Maybe, Row
<1>3. row'[i].attempts >= row[i].attempts
    BY <1>1, RowsCount DEF RInv
<1> QED BY <1>1, <1>2, <1>3, ReplicationAssumption

\* A sweep whose list shrinks and whose attempt stays the one it was.
LEMMA ListsStay ==
    ASSUME RInv, Next, NEW s \in Sweeps, Lists(s), todo'[s] \subseteq todo[s],
           Busy(s)' => Busy(s) /\ up'[s].id = up[s].id /\ up'[s].listed = up[s].listed,
           \A t \in todo'[s] : s \in Silent \/ alerts'[t.id] = alerts[t.id],
           Busy(s)' => s \in Silent \/ alerts'[up[s].id] = alerts[up[s].id]
    PROVE  Lists(s)'
<1>1. s \in Uploaders /\ todo[s] \subseteq Listed /\ up[s] \in Attempts
    BY DEF RInv, TypeOK, Uploaders
<1>2. ASSUME NEW t \in todo'[s] PROVE Fresh(s, t.id, t.listed)'
    <2>1. t \in todo[s] /\ t.id \in Ids /\ t.listed \in Nat /\ t.id < next /\ Fresh(s, t.id, t.listed)
        BY <1>1 DEF Listed, RInv, QueueInv, Asked, Lists
    <2>2. s \in Silent \/ alerts'[t.id] = alerts[t.id]
        OBVIOUS
    <2> QED BY <2>1, <2>2, FreshStays
<1>3. ASSUME Busy(s)' PROVE Fresh(s, up[s].id, up[s].listed)'
    <2> DEFINE i == up[s].id
               n == up[s].listed
    <2>1. i \in Ids /\ n \in Nat /\ i < next /\ Fresh(s, i, n) /\ (s \in Silent \/ alerts'[i] = alerts[i])
        BY <1>1, <1>3 DEF Attempts, RInv, TypeOK, QueueInv, Asked, Busy, Lists
    <2> HIDE DEF i, n
    <2>2. /\ row'[i] # None => n <= row'[i].attempts
          /\ s \notin Silent /\ n + 1 = AlertAfter => alerts'[i] = 0
        BY <2>1, FreshStays DEF Fresh
    <2> QED BY <1>3, <2>2 DEF Fresh, i, n
<1> QED BY <1>2, <1>3 DEF Lists, Fresh, Busy

\* Only one sweep alerts: the worker's, which is the one that has a notifier.
OneNotifier == \A s, t \in Sweeps \ Silent : s = t

\* Sweeps that are left alone keep their lists.
LEMMA ListsKept ==
    ASSUME RInv, AlertInv, Next, NEW s \in Sweeps, UNCHANGED alerts,
           todo'[s] = todo[s] /\ up'[s] = up[s]
    PROVE  Lists(s)'
<1>1. Lists(s) /\ todo'[s] \subseteq todo[s]
    BY DEF AlertInv
<1>2. Busy(s)' => Busy(s) /\ up'[s].id = up[s].id /\ up'[s].listed = up[s].listed
    BY DEF Busy
<1> QED BY <1>1, <1>2, ListsStay

\* A step without an alert.
LEMMA ListStep ==
    ASSUME RInv, AlertInv, Next, UNCHANGED alerts, NEW s \in Sweeps
    PROVE  Lists(s)'
<1> USE ReplicationAssumption DEF lockVars, sweepVars
<1>1. /\ s \in Uploaders /\ "backup" \in Uploaders /\ s # "backup" /\ up \in [Uploaders -> Attempts]
      /\ todo \in [Sweeps -> SUBSET Listed] /\ Sweeps \subseteq Uploaders /\ Lists(s)
    BY DEF RInv, TypeOK, Uploaders, AlertInv
<1>2. CASE todo'[s] = todo[s] /\ up'[s] = up[s]
    BY <1>2, ListsKept
<1>3. ASSUME todo'[s] \subseteq todo[s],
             Busy(s)' => Busy(s) /\ up'[s].id = up[s].id /\ up'[s].listed = up[s].listed
      PROVE  Lists(s)'
    BY <1>1, <1>3, ListsStay
<1>4. ASSUME NEW u \in Uploaders, Snap(u) \/ Read(u) \/ Put(u) \/ MarkDone(u) \/ MarkFailed(u) PROVE Lists(s)'
    <2>1. UNCHANGED todo /\ (up'[s].at \notin {"idle", "next"} =>
              up[s].at \notin {"idle", "next"} /\ up'[s].id = up[s].id /\ up'[s].listed = up[s].listed)
        BY <1>1, <1>4, AttemptFollows DEF RInv
    <2> QED BY <1>3, <2>1 DEF Busy
<1>5. ASSUME NEW v \in Sweeps, SweepList(v) PROVE Lists(s)'
    <2>1. CASE v # s
        BY <1>1, <1>2, <1>5, <2>1 DEF SweepList
    <2>2. CASE v = s
        <3> DEFINE b(i) == row[i].status = "failed"
                   rows == {j \in Rows : Retryable(row[j])}
        <3>1. /\ todo'[s] = {[id |-> i, listed |-> row[i].attempts, tried |-> b(i)] : i \in rows}
              /\ up'[s] = [Idle EXCEPT !.at = "next", !.cfg = cfg] /\ UNCHANGED row
            BY <1>1, <1>5, <2>2 DEF SweepList
        <3>2. rows \subseteq Ids /\ \A i \in rows : row[i] # None /\ row[i].attempts \in Nat
            BY DEF Rows, RInv, TypeOK, Maybe, Row
        <3>3. ASSUME NEW t \in todo'[s]
              PROVE  /\ Fresh(s, t.id, t.listed)' /\ t.id \in rows
                     /\ t = [id |-> t.id, listed |-> row[t.id].attempts, tried |-> b(t.id)]
            <4> HIDE DEF b, rows
            <4>1. PICK i \in rows : t = [id |-> i, listed |-> row[i].attempts, tried |-> b(i)]
                BY <3>1
            <4>2. t.id = i /\ t.listed = row[i].attempts
                BY <4>1
            <4>3. i \in Ids /\ row[i] # None /\ row[i].attempts \in Nat
                BY <3>2
            <4>4. alerts[i] # 0 => row[i].attempts >= AlertAfter
                BY <4>3 DEF AlertInv
            <4>5. Fresh(s, t.id, t.listed)'
                BY <3>1, <4>2, <4>3, <4>4 DEF Fresh
            <4> QED BY <4>1, <4>2, <4>5
        <3>4. \A t, w \in todo'[s] : t.id = w.id => t = w
            <4> SUFFICES ASSUME NEW t \in todo'[s], NEW w \in todo'[s], t.id = w.id PROVE t = w
                OBVIOUS
            <4>1. /\ t = [id |-> t.id, listed |-> row[t.id].attempts, tried |-> b(t.id)]
                  /\ w = [id |-> w.id, listed |-> row[w.id].attempts, tried |-> b(w.id)]
                BY <3>3
            <4> QED BY <4>1
        <3>5. ~Busy(s)'
            BY <3>1 DEF Busy, Idle
        <3> QED BY <3>3, <3>4, <3>5 DEF Lists, Busy
    <2> QED BY <2>1, <2>2
<1>6. ASSUME NEW v \in Sweeps, SweepNext(v) PROVE Lists(s)'
    <2>1. PICK t \in todo[v] :
            /\ todo' = [todo EXCEPT ![v] = @ \ {t}]
            /\ \/ up' = [up EXCEPT ![v].at = "snap", ![v].id = t.id, ![v].listed = t.listed]
               \/ UNCHANGED up
        BY <1>6 DEF SweepNext
    <2>2. CASE v # s
        BY <1>1, <1>2, <2>1, <2>2
    <2>3. CASE v = s
        <3>1. t \in todo[s] /\ todo'[s] = todo[s] \ {t} /\ t.id \in Ids /\ t.listed \in Nat /\ UNCHANGED <<row, alerts>>
            BY <1>1, <1>6, <2>1, <2>3 DEF Listed, SweepNext
        <3>2. CASE UNCHANGED up
            BY <1>3, <3>1, <3>2 DEF Busy
        <3>3. CASE up' = [up EXCEPT ![v].at = "snap", ![v].id = t.id, ![v].listed = t.listed]
            <4>1. up'[s].id = t.id /\ up'[s].listed = t.listed /\ up'[s].at = "snap"
                BY <1>1, <2>3, <3>3 DEF Attempts
            <4>2. \A w \in todo'[s] : w \in todo[s] /\ w.id # t.id
                BY <1>1, <3>1 DEF Lists
            <4>3. \A w \in todo[s] : Fresh(s, w.id, w.listed)
                BY <1>1 DEF Lists
            <4>4. \A w \in todo'[s] : Fresh(s, w.id, w.listed)'
                BY <3>1, <4>2, <4>3 DEF Fresh
            <4>5. Fresh(s, t.id, t.listed)
                BY <3>1, <4>3
            <4>6. Fresh(s, up[s].id, up[s].listed)'
                BY <3>1, <4>1, <4>5 DEF Fresh
            <4>7. \A w, x \in todo'[s] : w.id = x.id => w = x
                BY <1>1, <4>2 DEF Lists
            <4> QED BY <4>1, <4>2, <4>4, <4>6, <4>7 DEF Lists, Fresh, Busy
        <3> QED BY <2>1, <3>2, <3>3
    <2> QED BY <2>2, <2>3
<1>7. ASSUME NEW v \in Sweeps, SweepEnd(v) PROVE Lists(s)'
    <2>1. CASE v # s
        BY <1>1, <1>2, <1>7, <2>1 DEF SweepEnd
    <2>2. CASE v = s
        BY <1>1, <1>3, <1>7, <2>2 DEF SweepEnd, Busy, Idle
    <2> QED BY <2>1, <2>2
<1>8. CASE Crash
    <2>1. todo'[s] = {} /\ up'[s].at = "idle"
        BY <1>1, <1>8 DEF Crash, Idle
    <2> QED BY <1>3, <2>1 DEF Busy
<1>9. CASE MarkPending
    <2>1. todo'[s] = todo[s] /\ up'[s] = up[s]
        BY <1>1, <1>9 DEF MarkPending
    <2> QED BY <1>2, <2>1
<1>10. CASE Aside
    BY <1>2, <1>10, AsideUnchanged
<1>11. CASE VerifyList \/ VerifyOne
    BY <1>2, <1>11 DEF VerifyList, VerifyOne
<1> QED BY <1>4, <1>5, <1>6, <1>7, <1>8, <1>9, <1>10, <1>11 DEF Next, Aside

\* The alert: nobody else alerts, and the sweep that does has no other attempt at
\* this row to come.
LEMMA AlertSent ==
    ASSUME OneNotifier, RInv, AlertInv, Next, NEW u \in Uploaders, MarkFailed(u), Alerting(u)
    PROVE  AlertInv'
<1> USE ReplicationAssumption
<1> DEFINE i == up[u].id
<1>1. /\ u \in Sweeps \ Silent /\ up[u].listed + 1 = AlertAfter /\ Busy(u) /\ i \in Ids /\ i < next
      /\ alerts' = [alerts EXCEPT ![i] = @ + 1] /\ UNCHANGED <<next, todo>> /\ up[u].listed \in Nat
      /\ alerts \in [Ids -> Nat] /\ up \in [Uploaders -> Attempts]
      /\ Mark(i, [row[i] EXCEPT !.status = "failed", !.attempts = @ + 1])
    BY DEF MarkFailed, Alerting, Busy, RInv, TypeOK, QueueInv, Asked, Attempts
<1>2. Fresh(u, i, up[u].listed) /\ \A t \in todo[u] : t.id # i
    BY <1>1 DEF AlertInv, Lists
<1>3. alerts[i] = 0 /\ alerts'[i] = 1 /\ \A j \in Ids : j # i => alerts'[j] = alerts[j]
    BY <1>1, <1>2 DEF Fresh
<1>4. \A j \in Ids : alerts'[j] <= 1 /\ (alerts'[j] # 0 => j < next')
    BY <1>1, <1>3 DEF AlertInv
<1>5. ASSUME NEW j \in Ids, alerts'[j] # 0, row'[j] # None PROVE row'[j].attempts >= AlertAfter
    <2>1. CASE j = i
        <3> DEFINE r == [row[i] EXCEPT !.status = "failed", !.attempts = @ + 1]
        <3>1. row[i] # None /\ row'[i] = r
            BY <1>1, <1>5, <2>1 DEF Mark, RInv, TypeOK
        <3>2. row[i] \in Row /\ row[i].attempts \in Nat
            BY <1>1, <3>1 DEF RInv, TypeOK, Maybe, Row
        <3>3. r.attempts = row[i].attempts + 1
            BY <3>2 DEF Row
        <3>4. up[u].listed <= row[i].attempts
            BY <1>2, <3>1 DEF Fresh
        <3>5. up[u].listed + 1 <= row[i].attempts + 1
            BY <1>1, <3>2, <3>4
        <3> HIDE DEF r
        <3> QED BY <1>1, <2>1, <3>1, <3>2, <3>3, <3>5
    <2>2. CASE j # i
        <3>1. alerts[j] # 0
            BY <1>3, <1>5, <2>2
        <3>2. j < next /\ (row[j] # None => row[j].attempts >= AlertAfter)
            BY <3>1 DEF AlertInv
        <3> QED BY <1>5, <3>2, CountStays
    <2> QED BY <2>1, <2>2
<1>6. ASSUME NEW s \in Sweeps PROVE Lists(s)'
    <2>1. Lists(s) /\ todo'[s] \subseteq todo[s] /\ s \in Uploaders
        BY <1>1 DEF AlertInv, Uploaders
    <2>2. Busy(s)' => Busy(s) /\ up'[s].id = up[s].id /\ up'[s].listed = up[s].listed
        BY <2>1, AttemptFollows DEF RInv, Busy
    <2>3. CASE s # u
        <3>1. s \in Silent
            BY <1>1, <2>3 DEF OneNotifier
        <3> QED BY <2>1, <2>2, <3>1, ListsStay
    <2>4. CASE s = u
        <3>1. ~Busy(u)'
            BY <1>1 DEF MarkFailed, Return, Idle, Busy
        <3>2. ASSUME NEW t \in todo'[s] PROVE alerts'[t.id] = alerts[t.id]
            <4>1. t \in todo[u] /\ t.id \in Ids
                BY <1>1, <2>1, <2>4 DEF RInv, TypeOK, Listed
            <4> QED BY <1>2, <1>3, <4>1
        <3> QED BY <2>1, <2>2, <2>4, <3>1, <3>2, ListsStay
    <2> QED BY <2>3, <2>4
<1> QED BY <1>4, <1>5, <1>6 DEF AlertInv

\* Every step keeps the count of the alerts.
LEMMA AlertStep == ASSUME OneNotifier, RInv, AlertInv, Next PROVE AlertInv'
<1>1. CASE UNCHANGED alerts
    <2>1. \A s \in Sweeps : Lists(s)'
        BY <1>1, ListStep
    <2>2. ASSUME NEW i \in Ids PROVE alerts'[i] <= 1 /\ (alerts'[i] # 0 => i < next')
        <3>1. next' >= next
            BY RowsLast DEF RInv
        <3>2. next \in Nat /\ next' \in Nat /\ i \in Nat
            BY NextNat DEF RInv
        <3> QED BY <1>1, <3>1, <3>2 DEF AlertInv
    <2>3. ASSUME NEW i \in Ids, alerts'[i] # 0, row'[i] # None PROVE row'[i].attempts >= AlertAfter
        <3>1. i < next /\ (row[i] # None => row[i].attempts >= AlertAfter)
            BY <1>1, <2>3 DEF AlertInv
        <3> QED BY <2>3, <3>1, CountStays
    <2> QED BY <2>1, <2>2, <2>3 DEF AlertInv
<1>2. ASSUME NEW u \in Uploaders, MarkFailed(u), Alerting(u) PROVE AlertInv'
    BY <1>2, AlertSent
<1>3. UNCHANGED alerts \/ \E u \in Uploaders : MarkFailed(u) /\ Alerting(u)
    BY DEF Next, sweepVars, lockVars, Snap, Read, Put, MarkDone, MarkFailed, SweepList, SweepNext, SweepEnd, Backfill,
           VerifyList, VerifyOne, PlanPrune, Unlink, CommitPrune, Record, BackupFails, MarkPending, BeginRetrieve,
           Download, Restore, Rekey, DeleteFile, DeleteRow, DeleteObject, PutReplication, Crash, LoseObject, Strike
<1> QED BY <1>1, <1>2, <1>3

\* "One alert per backup as it crosses the threshold" (sweep_pending): with a single
\* sweep that has a notifier no backup is alerted about twice, although backups and
\* silent sweeps count attempts of the same rows meanwhile, and rows come and go.
THEOREM AlertsOnce == OneNotifier => (Spec => []AlertOnce)
<1> SUFFICES ASSUME OneNotifier PROVE Spec => []AlertOnce
    OBVIOUS
<1>1. Init => AlertInv
    <2> SUFFICES ASSUME Init PROVE AlertInv
        OBVIOUS
    <2>1. \A s \in Sweeps : todo[s] = {} /\ up[s].at = "idle"
        BY DEF Init, Idle, Uploaders
    <2>2. \A i \in Ids : alerts[i] = 0
        BY DEF Init
    <2> QED BY <2>1, <2>2 DEF AlertInv, Lists, Busy
<1>2. ASSUME RInv, AlertInv, [Next]_vars PROVE AlertInv'
    <2>1. CASE UNCHANGED vars
        BY <1>2, <2>1 DEF vars, AlertInv, Lists, Busy, Fresh
    <2>2. CASE Next
        BY <1>2, <2>2, AlertStep
    <2> QED BY <1>2, <2>1, <2>2
<1>3. AlertInv => AlertOnce
    BY DEF AlertInv, AlertOnce
<1> QED BY <1>1, <1>2, <1>3, RInvariant, PTL DEF Spec

=============================================================================
