------------------------------ MODULE SecretKey ------------------------------
(***************************************************************************)
(* The Fernet key file /app/data/secret.key and the ciphertexts stored     *)
(* under its keys: the first boot that creates the file (ensure_keys), the *)
(* services that encrypt under the key they loaded at start-up, and the    *)
(* rotate-key command with a crash or a failure between any two steps.     *)
(*                                                                         *)
(* A ciphertext is the key it was made with.  The file is its first line   *)
(* and the set of its lines: MultiFernet encrypts under the first and      *)
(* decrypts under any.                                                     *)
(***************************************************************************)
EXTENDS Naturals, FiniteSets

CONSTANTS
    Services,       \* web and worker processes
    InstanceCts,    \* ciphertext columns of Instance rows
    BackupCts,      \* Backup.encrypt_password_ct, ordered by row id
    SettingsCts,    \* ciphertext columns of ReplicationSettings
    Chunk,          \* rows per transaction in _rotate_backup_rows
    Creators,       \* services started on a new data volume; none: there is a key file
    MaxKeys,        \* bound: keys generated
    Empty           \* no ciphertext

ASSUME KeyAssumption ==
    /\ BackupCts \subseteq Nat /\ IsFiniteSet(BackupCts)
    /\ Chunk \in Nat \ {0}
    /\ Creators \subseteq Services
    /\ MaxKeys \in Nat
    /\ Empty \notin Nat

VARIABLES
    keyFile,   \* the key file: does it exist, its first line, its lines
    svc,       \* what each service is doing: down, create, write or up
    loaded,    \* the keys of each service's Crypto
    ct,        \* the key of each stored ciphertext, Empty for an empty column
    rpc,       \* rotate_key: what it does next
    mem,       \* rotate_key: the keys of its crypto_multi
    offset,    \* rotate_key: the backup rows already re-encrypted
    fresh      \* keys generated so far (bounded by MaxKeys)

keyVars == <<keyFile, svc, loaded, ct, rpc, mem, offset, fresh>>

Cts == InstanceCts \cup BackupCts \cup SettingsCts

\* What rotate_key walks and verifies.
Walked == InstanceCts \cup BackupCts

KeyFile == {f \in [exists: BOOLEAN, first: Nat, keys: SUBSET Nat] :
               f.keys # {} => f.exists /\ f.first \in f.keys}
NoFile == [exists |-> FALSE, first |-> 0, keys |-> {}]
NoKeys == [exists |-> TRUE, first |-> 0, keys |-> {}]
OneKey(k) == [exists |-> TRUE, first |-> k, keys |-> {k}]

Prepend(k, f) == [exists |-> TRUE, first |-> k, keys |-> {k} \cup f.keys]

KeyTypeOK ==
    /\ keyFile \in KeyFile
    /\ svc \in [Services -> {"down", "create", "write", "up"}]
    /\ loaded \in [Services -> KeyFile]
    /\ ct \in [Cts -> Nat \cup {Empty}]
    /\ rpc \in {"idle", "instances", "backups", "verify", "prune"}
    /\ mem \in KeyFile
    /\ offset \subseteq BackupCts
    /\ fresh \in Nat

KeyInit ==
    /\ keyFile = IF Creators = {} THEN OneKey(1) ELSE NoFile
    /\ svc = [s \in Services |-> "down"]
    /\ loaded = [s \in Services |-> NoFile]
    /\ ct \in [Cts -> IF Creators = {} THEN {Empty, 1} ELSE {Empty}]
    /\ rpc = "idle"
    /\ mem = NoFile
    /\ offset = {}
    /\ fresh = 1

-----------------------------------------------------------------------------
(* A service starts: Crypto.from_file.                                     *)

\* Mutant: only the first line is read, as before multi-key files.
BugReadOneLine(s) ==
    /\ svc[s] = "down" /\ rpc = "idle"
    /\ keyFile.exists /\ keyFile.keys # {}
    /\ loaded' = [loaded EXCEPT ![s] = OneKey(keyFile.first)]
    /\ svc' = [svc EXCEPT ![s] = "up"]
    /\ UNCHANGED <<keyFile, ct, rpc, mem, offset, fresh>>

\* ensure_keys finds the file and reads it. (An empty one raises: no step, the
\* container is restarted and tries again.)  Services run only while no
\* rotation does: the operator stops the stack first.
LoadKeys(s) ==
    /\ svc[s] = "down" /\ rpc = "idle"
    /\ keyFile.exists /\ keyFile.keys # {}
    /\ loaded' = [loaded EXCEPT ![s] = keyFile]
    /\ svc' = [svc EXCEPT ![s] = "up"]
    /\ UNCHANGED <<keyFile, ct, rpc, mem, offset, fresh>>

\* key_file.exists() is false. The other services are started later.
FindNoFile(s) ==
    /\ s \in Creators /\ svc[s] = "down" /\ rpc = "idle"
    /\ ~keyFile.exists
    /\ svc' = [svc EXCEPT ![s] = "create"]
    /\ UNCHANGED <<keyFile, loaded, ct, rpc, mem, offset, fresh>>

\* write_bytes opens the file, which creates or truncates it ...
CreateFile(s) ==
    /\ svc[s] = "create"
    /\ keyFile' = NoKeys
    /\ svc' = [svc EXCEPT ![s] = "write"]
    /\ UNCHANGED <<loaded, ct, rpc, mem, offset, fresh>>

\* ... and writes the new key; the service goes on with the key it generated.
WriteKey(s) ==
    /\ svc[s] = "write" /\ fresh < MaxKeys
    /\ fresh' = fresh + 1
    /\ keyFile' = OneKey(fresh + 1)
    /\ loaded' = [loaded EXCEPT ![s] = OneKey(fresh + 1)]
    /\ svc' = [svc EXCEPT ![s] = "up"]
    /\ UNCHANGED <<ct, rpc, mem, offset>>

\* docker compose stop, or a crash, at any point of a service's life.
StopService(s) ==
    /\ svc[s] # "down"
    /\ svc' = [svc EXCEPT ![s] = "down"]
    /\ UNCHANGED <<keyFile, loaded, ct, rpc, mem, offset, fresh>>

\* A running service stores a credential: Crypto.encrypt takes the first key.
StoreSecret(s, c) ==
    /\ svc[s] = "up"
    /\ ct' = [ct EXCEPT ![c] = loaded[s].first]
    /\ UNCHANGED <<keyFile, svc, loaded, rpc, mem, offset, fresh>>

\* A running service clears a column or deletes the row.
ClearSecret(s, c) ==
    /\ svc[s] = "up"
    /\ ct' = [ct EXCEPT ![c] = Empty]
    /\ UNCHANGED <<keyFile, svc, loaded, rpc, mem, offset, fresh>>

-----------------------------------------------------------------------------
(* rotate_key.                                                             *)

Down == \A s \in Services : svc[s] = "down"

\* Mutant: the transitional file holds the new key only.
BugDropOldKeys ==
    /\ rpc = "idle" /\ Down /\ fresh < MaxKeys
    /\ keyFile.exists /\ keyFile.keys # {}
    /\ fresh' = fresh + 1
    /\ mem' = Prepend(fresh + 1, keyFile)
    /\ keyFile' = OneKey(fresh + 1)
    /\ rpc' = "instances"
    /\ offset' = {}
    /\ UNCHANGED <<svc, loaded, ct>>

\* Load the old keys and write [new_key, *old_keys] (write_keys replaces the
\* file atomically). The stack is stopped.
StartRotation ==
    /\ rpc = "idle" /\ Down /\ fresh < MaxKeys
    /\ keyFile.exists /\ keyFile.keys # {}
    /\ fresh' = fresh + 1
    /\ mem' = Prepend(fresh + 1, keyFile)
    /\ keyFile' = mem'
    /\ rpc' = "instances"
    /\ offset' = {}
    /\ UNCHANGED <<svc, loaded, ct>>

\* The except branch: the transitional file stays, exit code 1.
FailRotation == rpc' = "idle" /\ UNCHANGED <<keyFile, svc, loaded, ct, mem, offset, fresh>>

Decrypts(c) == ct[c] # Empty => ct[c] \in mem.keys

Reencrypt(cols) ==
    ct' = [c \in Cts |-> IF c \in cols /\ ct[c] # Empty THEN mem.first ELSE ct[c]]

\* _rotate_instance_rows: every column, one transaction.
RotateInstances ==
    /\ rpc = "instances"
    /\ \A c \in InstanceCts : Decrypts(c)
    /\ Reencrypt(InstanceCts)
    /\ rpc' = "backups"
    /\ UNCHANGED <<keyFile, svc, loaded, mem, offset, fresh>>

\* The rows the chunk's query returns: the first Chunk of those not yet done.
NextRows ==
    LET left == {c \in BackupCts : ct[c] # Empty} \ offset
    IN  {c \in left : Cardinality({d \in left : d < c}) < Chunk}

\* Mutant: the offset is not advanced after the commit.
BugOffsetStuck ==
    /\ rpc = "backups"
    /\ NextRows # {}
    /\ \A c \in NextRows : Decrypts(c)
    /\ Reencrypt(NextRows)
    /\ UNCHANGED <<keyFile, svc, loaded, rpc, mem, offset, fresh>>

\* _rotate_backup_rows: one chunk, one transaction.
RotateChunk ==
    /\ rpc = "backups"
    /\ NextRows # {}
    /\ \A c \in NextRows : Decrypts(c)
    /\ Reencrypt(NextRows)
    /\ offset' = offset \cup NextRows
    /\ UNCHANGED <<keyFile, svc, loaded, rpc, mem, fresh>>

NoMoreRows ==
    /\ rpc = "backups"
    /\ NextRows = {}
    /\ rpc' = "verify"
    /\ UNCHANGED <<keyFile, svc, loaded, ct, mem, offset, fresh>>

\* _verify_all_rows_decrypt under crypto_new_only.
Verify ==
    /\ rpc = "verify"
    /\ \A c \in Walked : ct[c] \in {Empty, mem.first}
    /\ rpc' = "prune"
    /\ UNCHANGED <<keyFile, svc, loaded, ct, mem, offset, fresh>>

Prune ==
    /\ rpc = "prune"
    /\ keyFile' = OneKey(mem.first)
    /\ rpc' = "idle"
    /\ UNCHANGED <<svc, loaded, ct, mem, offset, fresh>>

\* A transaction or the verification fails, or the process is killed: what is
\* committed stays, the rest is rolled back.
AbortRotation == rpc # "idle" /\ FailRotation

\* An abort that is certain: a ciphertext under a key the file never held does not
\* decrypt (InvalidToken).
RotationRaises ==
    /\ \/ rpc = "instances" /\ \E c \in InstanceCts : ~Decrypts(c)
       \/ rpc = "backups" /\ \E c \in NextRows : ~Decrypts(c)
    /\ AbortRotation

Rotate == RotateInstances \/ RotateChunk \/ NoMoreRows \/ Verify \/ Prune

-----------------------------------------------------------------------------
KeyNext ==
    \/ \E s \in Services :
          \/ LoadKeys(s) \/ FindNoFile(s) \/ CreateFile(s) \/ WriteKey(s) \/ StopService(s)
          \/ \E c \in Cts : StoreSecret(s, c) \/ ClearSecret(s, c)
    \/ StartRotation \/ Rotate \/ AbortRotation

KeySpec == KeyInit /\ [][KeyNext]_keyVars

\* The command is one process: while it can go on it does, unless it is killed.
FairKeySpec == KeySpec /\ WF_keyVars(Rotate \/ RotationRaises)

-----------------------------------------------------------------------------
(* Properties.                                                             *)

\* Every credential of an instance or a backup can be decrypted with the key
\* file, at every moment: while the file is transitional, between two chunks,
\* after a crash of the rotation, after the old keys are pruned (rotate_key).
CredentialsReadable == \A c \in Walked : ct[c] # Empty => ct[c] \in keyFile.keys

\* A running service can decrypt whatever any other running service stored, and
\* encrypts under the key file's first line (Crypto.from_file is read once).
ServicesAgree ==
    \A s \in Services : svc[s] = "up" => loaded[s] = keyFile /\ keyFile.keys # {}

\* README 165-168: after a rotation "every stored credential is re-encrypted with
\* the new key", so every column of the database can be decrypted with the file,
\* those of ReplicationSettings included.
EveryCredentialReadable == \A c \in Cts : ct[c] # Empty => ct[c] \in keyFile.keys

\* The rotation terminates: its loop over the chunks runs out of rows.
RotationEnds == rpc # "idle" ~> rpc = "idle"
=============================================================================
