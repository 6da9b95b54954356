---------------------------- MODULE OffsiteCopy ----------------------------
(***************************************************************************)
(* What off-site replication promises of one backup, whoever acts on it:   *)
(* the states of replica_status as its comment in models.py lists them,    *)
(* and where the backup may be.  Replication is shown to implement this.   *)
(***************************************************************************)
CONSTANT Ids

VARIABLES
    promise,  \* what the row says of the off-site copy
    place,    \* where the row says the backup is
    fresh     \* the backup that may still queue its own row, if there is one

vars == <<promise, place, fresh>>

Promises == {"unborn", "never", "queued", "kept", "owed", "given_up", "gone", "void"}

TypeOK ==
    /\ promise \in [Ids -> Promises]
    /\ place \in [Ids -> {"here", "offsite", "nowhere"}]
    /\ fresh \subseteq Ids

Init ==
    /\ promise = [i \in Ids |-> "unborn"]
    /\ place = [i \in Ids |-> "nowhere"]
    /\ fresh = {}

\* A backup is recorded ...
Record(i) ==
    /\ promise[i] = "unborn"
    /\ promise' = [promise EXCEPT ![i] = "never"]
    /\ place' = [place EXCEPT ![i] = "here"]
    /\ fresh' \in {{}, {i}}

\* ... and then queues itself once, whoever was faster; or never gets to it.
QueueOwn(i) ==
    /\ i \in fresh /\ place[i] = "here"
    /\ promise' = [promise EXCEPT ![i] = "queued"]
    /\ fresh' = {}
    /\ UNCHANGED place

Forgo == fresh # {} /\ fresh' = {} /\ UNCHANGED <<promise, place>>

\* Later, backfill queues what never was.
Queue(S) ==
    /\ \A i \in S : promise[i] = "never" /\ place[i] = "here"
    /\ promise' = [i \in Ids |-> IF i \in S THEN "queued" ELSE promise[i]]
    /\ UNCHANGED <<place, fresh>>

\* An attempt ends: copied, to be tried again, or given up. Nothing that was
\* never queued is uploaded, nothing recorded is forgotten.
Attempt(i) ==
    /\ promise[i] \in {"queued", "kept", "owed", "given_up"}
    /\ \E p \in {"kept", "owed", "given_up"} : promise' = [promise EXCEPT ![i] = p]
    /\ UNCHANGED <<place, fresh>>

\* Retention: local copies go, of rows with an off-site copy (as far as retention
\* knows); other rows go altogether.
Prune(S, T) ==
    /\ \A i \in S : promise[i] \in {"kept", "owed", "given_up"} /\ place[i] = "here"
    /\ promise' = [i \in Ids |-> IF i \in T THEN "gone" ELSE promise[i]]
    /\ place' = [i \in Ids |-> IF i \in T THEN "nowhere" ELSE IF i \in S THEN "offsite" ELSE place[i]]
    /\ \A i \in T : promise[i] \notin {"unborn", "void"}
    /\ UNCHANGED fresh

\* An off-site backup is fetched.
Retrieve(i) ==
    /\ place[i] = "offsite"
    /\ place' = [place EXCEPT ![i] = "here"]
    /\ UNCHANGED <<promise, fresh>>

Delete(i) ==
    /\ promise[i] \notin {"unborn", "void"}
    /\ promise' = [promise EXCEPT ![i] = "gone"]
    /\ place' = [place EXCEPT ![i] = "nowhere"]
    /\ UNCHANGED fresh

\* The row was struck by a statement meant for an earlier row with its id.
Void(i) ==
    /\ place[i] # "nowhere"
    /\ promise' = [promise EXCEPT ![i] = "void"]
    /\ place' = [place EXCEPT ![i] = "nowhere"]
    /\ UNCHANGED fresh

Next ==
    \/ \E S \in SUBSET Ids : Queue(S)
    \/ \E i \in Ids : Record(i) \/ QueueOwn(i) \/ Attempt(i) \/ Retrieve(i) \/ Delete(i) \/ Void(i)
    \/ Forgo
    \/ \E S, T \in SUBSET Ids : Prune(S, T)

Spec == Init /\ [][Next]_vars
=============================================================================
