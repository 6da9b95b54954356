------------------------------ MODULE Notifier ------------------------------
(***************************************************************************)
(* Who is told what.  Backup runs (one instance, or the sweep over all)    *)
(* end in notifications: every enabled row is filtered by its scope and    *)
(* its trigger and dispatched; Healthchecks rows are also pinged when a    *)
(* run starts.  Meanwhile operators rename, disable and delete instances   *)
(* and edit, create and delete rows, some of which own a check at          *)
(* Healthchecks and a secret that never leaves the server.                 *)
(*                                                                         *)
(* A run knows its instances by id, the notifier by name: it looks the ids *)
(* up again when it sends.                                                 *)
(***************************************************************************)
EXTENDS Naturals, FiniteSets

CONSTANTS
    Instances, Names,
    Hooks,      \* notification ids
    HookRows,   \* rows clients create; without its key no check can be made for one
    Saves,      \* what clients send to change one
    Secrets,    \* secrets in a row's config
    Editors,    \* requests that change a row at the same time
    Budgets,    \* bounds: what happens in a behaviour, and how often; "run": at all
    None

Triggers == {"always", "success", "failure", "change", "stale"}
Placeholder == "__set__"
Secret == Secrets \cup {Placeholder, None}

\* A row: fmt, its message format can be filled in; and of its config a secret, and
\* the check it names (uuid), by the row the check was made for.
Row == [kind: {"webhook", "healthchecks"}, trigger: Triggers, scope: SUBSET Instances, on: BOOLEAN,
        fmt: BOOLEAN, secret: Secret, check: Hooks \cup {None}]
\* A row as it is sent to be created: provisioned or not.
NewRow == [kind: {"webhook", "healthchecks"}, trigger: Triggers, scope: SUBSET Instances, on: BOOLEAN,
           fmt: BOOLEAN, secret: Secret, provisioned: BOOLEAN]
\* What is sent to change one; more: something else in the config is new, too.
Save == [trigger: Triggers, secret: Secret, check: Hooks \cup {None}, more: BOOLEAN]
\* An update under way: what it writes (None: nothing of that), whether the client
\* sent a secret, or a check the row did not name, and what came in between.
Update == [of: Hooks, trigger: Triggers \cup {None}, config: [secret: Secret, check: Hooks \cup {None}] \cup {None},
           typed: BOOLEAN, claims: BOOLEAN, raced: {"no", "saved", "replaced"}]
Events == {"run", "instance", "row", "save", "message"}

ASSUME NotifierAssumption ==
    /\ IsFiniteSet(Names)
    /\ HookRows \subseteq NewRow /\ Saves \subseteq Save /\ Budgets \subseteq [Events -> Nat]
    /\ \A r \in HookRows : r.kind = "healthchecks" => r.trigger = "always"
    /\ \A r \in HookRows : r.provisioned => r.secret \in Secrets
    /\ Placeholder \notin Secrets
    /\ None \notin Secrets \cup Names \cup Hooks \cup Triggers \cup {Placeholder} \cup Update
    /\ None \notin Row \cup [secret: Secret, check: Hooks \cup {None}]

VARIABLES
    name,     \* Instance rows: name
    enabled,  \* Instance rows: enabled
    hook,     \* Notification rows
    dash,     \* the last ping of each row's check at Healthchecks
    stale,    \* per row, the instances it was told are stale
    checks,   \* checks that exist at Healthchecks, by the row they were made for
    run,      \* the backup run
    told,     \* what each row was last told in this run
    editor,   \* update_notification: the updates between their read and their write
    wait,     \* delete_notification: the row whose check has been deleted
    touched,  \* instances renamed, switched or deleted during the run, or whose
              \* backup raised past its own handler
    edited,   \* rows edited or deleted during the run
    cut,      \* rows whose deletion was interrupted
    claimed,  \* checks that a save named in a row that had not named them
    mixed,    \* rows written by a save that had read another row of the same id
    left      \* what is left of the behaviour's budget

instVars == <<name, enabled>>
webVars == <<hook, checks, editor, wait>>
outVars == <<dash, stale>>
webGhosts == <<cut, claimed, mixed>>
ghosts == <<touched, edited, webGhosts, left>>
vars == <<instVars, webVars, outVars, run, told, ghosts>>

Idle == [at |-> "idle", all |-> FALSE, todo |-> {}, ok |-> {}, bad |-> {}, changed |-> FALSE,
         okName |-> {}, badName |-> {}, pinged |-> {}, snap |-> {}, left |-> {}, ids |-> {}, broken |-> FALSE]

TypeOK ==
    /\ name \in [Instances -> Names \cup {None}]
    /\ enabled \subseteq Instances
    /\ hook \in [Hooks -> Row \cup {None}]
    /\ checks \subseteq Hooks
    /\ run \in [at: {"idle", "ping", "work", "send", "sent"}, all: BOOLEAN, todo: SUBSET Instances,
                ok: SUBSET Instances, bad: SUBSET Instances, changed: BOOLEAN,
                okName: SUBSET Names, badName: SUBSET Names, pinged: SUBSET Hooks,
                snap: SUBSET (Instances \X Names), left: SUBSET Hooks, ids: SUBSET (Instances \X Names), broken: BOOLEAN]
    /\ told \in [Hooks -> {None, "SUCCESS", "FAILURE", "CHANGED"}]
    /\ dash \in [Hooks -> {None, "START", "SUCCESS", "FAILURE"}]
    /\ stale \in [Hooks -> SUBSET Instances]
    /\ editor \in [Editors -> Update \cup {None}]
    /\ wait \in Hooks \cup {None}
    /\ touched \subseteq Instances /\ edited \subseteq Hooks /\ cut \subseteq Hooks
    /\ claimed \subseteq Hooks /\ mixed \subseteq Hooks
    /\ left \in [Events -> Nat]

\* create_notification: the row that is stored, with the check that was made for it.
\* The rest of the config is stored as it came, a placeholder included.
Stored(h, r) ==
    [kind |-> r.kind, trigger |-> r.trigger, scope |-> r.scope, on |-> r.on, fmt |-> r.fmt, secret |-> r.secret,
     check |-> IF r.provisioned THEN h ELSE None]

Init ==
    /\ name \in {f \in [Instances -> Names] : \A i, j \in Instances : f[i] = f[j] => i = j}
    /\ enabled \in SUBSET Instances
    /\ hook \in {[h \in Hooks |-> IF f[h] = None THEN None ELSE Stored(h, f[h])] : f \in [Hooks -> HookRows \cup {None}]}
    /\ checks = {h \in Hooks : hook[h] # None /\ hook[h].check # None}
    /\ run = Idle
    /\ told = [h \in Hooks |-> None]
    /\ dash = [h \in Hooks |-> None]
    /\ stale = [h \in Hooks |-> {}]
    /\ editor = [e \in Editors |-> None] /\ wait = None
    /\ touched = {} /\ edited = {} /\ cut = {} /\ claimed = {} /\ mixed = {}
    /\ left \in Budgets

Spend(e) == left[e] > 0 /\ left' = [left EXCEPT ![e] = @ - 1]

Alive == {i \in Instances : name[i] # None}
OnHooks == {h \in Hooks : hook[h] # None /\ hook[h].on}
-----------------------------------------------------------------------------
(* Routing.                                                                *)

\* _should_send
ShouldSend(trigger, ok, changed) ==
    \/ trigger = "always"
    \/ trigger = "change" /\ ok /\ changed
    \/ trigger = "success" /\ ok
    \/ trigger = "failure" /\ ~ok

\* _resolve_scope: the names of the run that fall into the row's scope, by the ids
\* the names have now; a scope none of them falls into skips the row.
InScope(h, names) == {n \in names : \E i \in hook[h].scope : <<i, n>> \in run.ids}
Skips(h) == hook[h].scope # {} /\ InScope(h, run.okName \cup run.badName) = {}

\* Mutant: a scoped row hears how the whole run went.
BugSucceeded(h) == run.badName = {}

\* Whether the run went well as far as the row is concerned.
Succeeded(h) == IF hook[h].scope = {} THEN run.badName = {} ELSE InScope(h, run.badName) = {}

\* The status label of the message.
Label(h) == IF hook[h].trigger = "change" THEN "CHANGED"
            ELSE IF Succeeded(h) THEN "SUCCESS" ELSE "FAILURE"

\* _send_healthchecks: the path of the ping is /fail, or none after a success.
SendHealthchecks(d, h, label) == [d EXCEPT ![h] = IF label = "FAILURE" THEN "FAILURE" ELSE "SUCCESS"]

\* _dispatch: one sender per kind; only a check keeps what it was last sent.
Dispatch(d, h, label) == IF hook[h].kind = "healthchecks" THEN SendHealthchecks(d, h, label) ELSE d

Sends(h) == ~Skips(h) /\ ShouldSend(hook[h].trigger, Succeeded(h), run.changed)
-----------------------------------------------------------------------------
(* A run.                                                                  *)

\* backup_instance: _snapshot reads the instance, its name included.
StartRun(i) ==
    /\ left["run"] > 0 /\ run.at = "idle" /\ i \in Alive
    /\ run' = [Idle EXCEPT !.at = "ping", !.todo = {i}, !.snap = {<<i, name[i]>>}]
    /\ told' = [h \in Hooks |-> None]
    /\ touched' = {} /\ edited' = {}
    /\ UNCHANGED <<outVars, instVars, webVars, webGhosts, left>>

\* backup_all
StartSweep ==
    /\ left["run"] > 0 /\ run.at = "idle"
    /\ run' = [Idle EXCEPT !.at = "ping", !.all = TRUE, !.todo = enabled]
    /\ told' = [h \in Hooks |-> None]
    /\ touched' = {} /\ edited' = {}
    /\ UNCHANGED <<outVars, instVars, webVars, webGhosts, left>>

\* Mutant: a scoped row is pinged whichever instance runs.
BugPingStarts ==
    /\ run.at = "ping"
    /\ LET pinged == {h \in OnHooks : hook[h].kind = "healthchecks"} IN
       /\ run' = [run EXCEPT !.at = "work", !.pinged = pinged]
       /\ dash' = [h \in Hooks |-> IF h \in pinged THEN "START" ELSE dash[h]]
    /\ UNCHANGED <<stale, instVars, webVars, told, ghosts>>

\* ping_starts: enabled Healthchecks rows whose scope has the instance, or (in a
\* sweep) an enabled instance.
PingStarts ==
    /\ run.at = "ping"
    /\ LET pinged == {h \in OnHooks :
                 /\ hook[h].kind = "healthchecks"
                 /\ \/ hook[h].scope = {}
                    \/ hook[h].scope \cap (IF run.all THEN enabled ELSE run.todo) # {}} IN
       /\ run' = [run EXCEPT !.at = "work", !.pinged = pinged]
       /\ dash' = [h \in Hooks |-> IF h \in pinged THEN "START" ELSE dash[h]]
    /\ UNCHANGED <<stale, instVars, webVars, told, ghosts>>

\* A single run of an instance that is to be encrypted and has no password is
\* refused before the ping.
Refuse(i) ==
    /\ run.at = "ping" /\ ~run.all /\ i \in run.todo
    /\ run' = [run EXCEPT !.at = "work", !.todo = {}, !.bad = {i}, !.badName = {p[2] : p \in run.snap}]
    /\ UNCHANGED <<outVars, instVars, webVars, told, ghosts>>

\* A task of the sweep takes its snapshot; an instance that is gone has none.
BeginBackup(i) ==
    /\ run.at = "work" /\ run.all /\ i \in run.todo /\ i \in Alive
    /\ \A p \in run.snap : p[1] # i
    /\ run' = [run EXCEPT !.snap = @ \cup {<<i, name[i]>>}]
    /\ UNCHANGED <<outVars, instVars, webVars, told, ghosts>>

\* The rows a loop over rows gets to: all, or those before one whose message
\* format cannot be filled in, which ends the loop.
Reached(rows) ==
    {some \in SUBSET {h \in rows : hook[h].fmt} : some = rows \/ \E h \in rows : ~hook[h].fmt}

\* send_change_only, per instance of a sweep: the snapshot's name is looked up.
ToldOfChange(n) ==
    Reached({h \in OnHooks : /\ hook[h].trigger = "change"
                             /\ hook[h].scope = {} \/ \E i \in hook[h].scope : name[i] = n})

\* The name a finished backup is counted under: a single run uses its snapshot, the
\* sweep reads the row again, and forgets an instance that is gone.
CountedAs(i) == IF run.all THEN {name[i]} \ {None} ELSE {p[2] : p \in run.snap}

\* One instance's backup ends.
EndBackup(i, ok, changed) ==
    /\ run.at = "work" /\ i \in run.todo
    /\ changed => ok
    /\ ok => \E p \in run.snap : p[1] = i
    /\ (\E p \in run.snap : p[1] = i) \/ i \notin Alive
    /\ run' = [run EXCEPT !.todo = @ \ {i},
           !.ok = IF ok THEN @ \cup {i} ELSE @, !.bad = IF ok THEN @ ELSE @ \cup {i},
           !.okName = IF ok THEN @ \cup CountedAs(i) ELSE @,
           !.badName = IF ok THEN @ ELSE @ \cup CountedAs(i),
           !.changed = IF run.all THEN FALSE ELSE changed,
           !.snap = {p \in @ : p[1] # i}]
    /\ \E some \in IF run.all /\ changed THEN ToldOfChange((CHOOSE p \in run.snap : p[1] = i)[2]) ELSE {{}} :
           /\ told' = [h \in Hooks |-> IF h \in some THEN "CHANGED" ELSE told[h]]
           /\ dash' = [h \in Hooks |-> IF h \in some THEN Dispatch(dash, h, "CHANGED")[h] ELSE dash[h]]
    /\ UNCHANGED <<stale, instVars, webVars, ghosts>>

\* backup_instance raises: its lock file, a write of the Job row or a publish
\* outside of the try, or in the handler itself. A task of the sweep counts for
\* nothing then; a single run is over, and no row is told.
TaskCrashes(i) ==
    /\ run.at = "work" \/ (run.at = "ping" /\ ~run.all)
    /\ i \in run.todo
    /\ run' = [run EXCEPT !.todo = @ \ {i}, !.snap = {p \in @ : p[1] # i},
                          !.at = IF run.all THEN @ ELSE "sent", !.broken = ~run.all]
    /\ touched' = touched \cup {i}
    /\ UNCHANGED <<outVars, instVars, webVars, told, edited, webGhosts, left>>

\* send: the enabled rows and the names are read ...
BeginSend ==
    /\ run.at = "work" /\ run.todo = {}
    /\ run' = [run EXCEPT !.at = "send", !.left = OnHooks, !.ids = {<<i, name[i]>> : i \in Alive}]
    /\ UNCHANGED <<outVars, instVars, webVars, told, ghosts>>

\* ... and every row is dispatched, whether the ones before it were delivered or
\* not; but a message format that cannot be filled in ends the loop.
SendOne(h) ==
    /\ run.at = "send" /\ h \in run.left /\ ~run.broken
    /\ LET sends == hook[h] # None /\ Sends(h)
           goes == sends /\ hook[h].fmt
       IN /\ run' = [run EXCEPT !.left = @ \ {h}, !.broken = sends /\ ~hook[h].fmt]
          /\ told' = IF goes THEN [told EXCEPT ![h] = Label(h)] ELSE told
          /\ dash' = IF goes THEN Dispatch(dash, h, Label(h)) ELSE dash
    /\ UNCHANGED <<stale, instVars, webVars, ghosts>>

EndSend ==
    /\ run.at = "send" /\ (run.left = {} \/ run.broken)
    /\ run' = [run EXCEPT !.at = "sent"]
    /\ UNCHANGED <<outVars, instVars, webVars, told, ghosts>>

EndRun ==
    /\ run.at = "sent"
    /\ run' = Idle
    /\ told' = [h \in Hooks |-> None]
    /\ touched' = {} /\ edited' = {}
    /\ UNCHANGED <<outVars, instVars, webVars, webGhosts, left>>
-----------------------------------------------------------------------------
(* Messages outside of runs.                                               *)

\* send_stale: rows with trigger stale or always, but not Healthchecks rows, which
\* notice silence by themselves.
SendStale(i, recovery) ==
    /\ i \in Alive /\ Spend("message")
    /\ LET rows == {h \in OnHooks : /\ hook[h].trigger \in {"stale", "always"}
                                    /\ hook[h].kind # "healthchecks"
                                    /\ hook[h].scope = {} \/ i \in hook[h].scope} IN
       \E some \in Reached(rows) :
           stale' = [h \in Hooks |-> IF h \notin some THEN stale[h]
                                     ELSE IF recovery THEN stale[h] \ {i} ELSE stale[h] \cup {i}]
    /\ UNCHANGED <<instVars, webVars, dash, run, told, touched, edited, webGhosts>>

\* send_test: whatever its trigger and scope, and also when it is disabled; a check
\* is pinged as after a success. A format that cannot be filled in raises before.
SendTest(h) ==
    /\ hook[h] # None /\ Spend("message")
    /\ dash' = IF hook[h].fmt THEN Dispatch(dash, h, "SUCCESS") ELSE dash
    /\ UNCHANGED <<instVars, webVars, stale, run, told, touched, edited, webGhosts>>
-----------------------------------------------------------------------------
(* Operators at work on the instances.                                     *)

\* update_instance; names are unique.
Rename(i, n) ==
    /\ i \in Alive /\ Spend("instance") /\ \A j \in Instances : name[j] # n
    /\ name' = [name EXCEPT ![i] = n]
    /\ touched' = touched \cup {i}
    /\ UNCHANGED <<outVars, enabled, webVars, run, told, edited, webGhosts>>

Switch(i) ==
    /\ i \in Alive /\ Spend("instance")
    /\ enabled' = IF i \in enabled THEN enabled \ {i} ELSE enabled \cup {i}
    /\ touched' = touched \cup {i}
    /\ UNCHANGED <<outVars, name, webVars, run, told, edited, webGhosts>>

\* delete_instance takes the id out of every scope; a scope that had no other is
\* then no scope at all. A run that is sending has read its rows before.
DeleteInstance(i) ==
    /\ i \in Alive /\ Spend("instance") /\ run.at # "send"
    /\ name' = [name EXCEPT ![i] = None]
    /\ enabled' = enabled \ {i}
    /\ hook' = [h \in Hooks |-> IF hook[h] = None THEN None ELSE [hook[h] EXCEPT !.scope = @ \ {i}]]
    /\ touched' = touched \cup {i}
    /\ edited' = edited \cup {h \in Hooks : hook[h] # None /\ i \in hook[h].scope}
    /\ UNCHANGED <<outVars, checks, editor, wait, run, told, webGhosts>>
-----------------------------------------------------------------------------
(* Operators at work on the rows.                                          *)

\* _maybe_provision and _healthchecks_create, whatever the kind. (A check that was
\* made for an earlier row of the id is not this one's.)
Provision(h, r) == checks' = IF r.provisioned THEN checks \cup {h} ELSE checks \ {h}

\* create_notification: the check is made first, then the row, which may fail.
CreateHook(h, r) ==
    /\ hook[h] = None /\ Spend("row")
    /\ Provision(h, r)
    /\ hook' \in {[hook EXCEPT ![h] = Stored(h, [r EXCEPT !.scope = @ \cap Alive])], hook}
    /\ edited' = edited \cup {h}
    /\ cut' = cut \ {h} /\ mixed' = mixed \ {h}
    /\ UNCHANGED <<outVars, instVars, editor, wait, run, told, touched, claimed>>

\* The updates that have read row h, when something else is written to it.
Raced(h, how) ==
    [e \in Editors |-> IF editor[e] = None \/ editor[e].of # h THEN editor[e]
                       ELSE [editor[e] EXCEPT !.raced = IF @ = "replaced" THEN @ ELSE how]]

\* Mutant: what the form holds is stored, placeholder and all.
BugMergeSecrets(old, new) == new

\* _merge_secrets: the placeholder, which _redact_config shows for a secret, stands
\* for what is stored now, or nothing.
MergeSecrets(old, new) == IF new = Placeholder THEN old ELSE new

\* update_notification reads the row and merges what it was sent into it; then it
\* may wait for Healthchecks. Healthchecks rows keep trigger always.
ReadHook(e, h, c) ==
    /\ editor[e] = None /\ hook[h] # None /\ Spend("save")
    /\ LET trigger == IF hook[h].kind = "healthchecks" THEN "always" ELSE c.trigger
           config == [secret |-> MergeSecrets(hook[h].secret, c.secret), check |-> c.check]
       IN editor' = [editor EXCEPT ![e] =
              [of |-> h, trigger |-> IF trigger = hook[h].trigger THEN None ELSE trigger,
               config |-> IF c.more \/ config # [secret |-> hook[h].secret, check |-> hook[h].check] THEN config ELSE None,
               typed |-> c.secret # Placeholder, claims |-> c.check \notin {hook[h].check, None}, raced |-> "no"]]
    /\ UNCHANGED <<outVars, instVars, hook, checks, wait, run, told, touched, edited, webGhosts>>

\* ... and writes the columns that changed to whatever row has the id now; if there
\* is none, the commit fails.
WriteHook(e) ==
    /\ editor[e] # None /\ run.at # "send"
    /\ LET u == editor[e]
           row == hook[u.of]
           there == row # None
       IN /\ hook' = IF ~there THEN hook ELSE
                 [hook EXCEPT ![u.of] = [row EXCEPT
                     !.trigger = IF u.trigger = None THEN row.trigger ELSE u.trigger,
                     !.secret = IF u.config = None THEN row.secret ELSE u.config.secret,
                     !.check = IF u.config = None THEN row.check ELSE u.config.check]]
          /\ claimed' = IF there /\ u.config # None /\ (u.claims \/ u.raced = "replaced")
                        THEN claimed \cup ({u.config.check} \ {None}) ELSE claimed
          /\ mixed' = IF there /\ u.raced = "replaced" THEN mixed \cup {u.of} ELSE mixed
          /\ editor' = [(IF there THEN Raced(u.of, "saved") ELSE editor) EXCEPT ![e] = None]
          /\ edited' = edited \cup {u.of}
    /\ UNCHANGED <<outVars, instVars, checks, wait, run, told, touched, cut, left>>

\* Mutant: the row is taken for provisioned whatever became of its check.
BugDeleteCheck(h) ==
    /\ hook[h] # None /\ wait = None /\ Spend("row")
    /\ checks' = checks \ {hook[h].check}
    /\ wait' \in {h, None}
    /\ edited' = edited \cup {h}
    /\ UNCHANGED <<outVars, instVars, hook, editor, run, told, touched, webGhosts>>

\* delete_notification: the check the row names goes first (if it can be reached
\* with the stored key), then the row.
DeleteCheck(h) ==
    /\ hook[h] # None /\ wait = None /\ Spend("row")
    /\ \/ /\ hook[h].kind = "healthchecks" /\ hook[h].check # None /\ hook[h].secret \in Secrets
          /\ checks' = checks \ {hook[h].check}
       \/ UNCHANGED checks
    /\ wait' = h
    /\ edited' = edited \cup {h}
    /\ UNCHANGED <<outVars, instVars, hook, editor, run, told, touched, webGhosts>>

DeleteRow ==
    /\ wait # None /\ run.at # "send"
    /\ hook' = [hook EXCEPT ![wait] = None]
    /\ dash' = [dash EXCEPT ![wait] = None]
    /\ stale' = [stale EXCEPT ![wait] = {}]
    /\ editor' = Raced(wait, "replaced")
    /\ wait' = None
    /\ edited' = edited \cup {wait}
    /\ UNCHANGED <<instVars, checks, run, told, touched, webGhosts, left>>

\* The web stops before the commit. (Its updates end there, too, or are written.)
DeleteCut ==
    /\ wait # None
    /\ cut' = cut \cup {wait}
    /\ wait' = None
    /\ editor' = [e \in Editors |-> None]
    /\ UNCHANGED <<outVars, instVars, hook, checks, run, told, touched, edited, claimed, mixed, left>>

Next ==
    \/ \E i \in Instances : StartRun(i) \/ Refuse(i) \/ BeginBackup(i) \/ TaskCrashes(i) \/ Switch(i) \/ DeleteInstance(i)
    \/ StartSweep \/ PingStarts \/ BeginSend \/ EndSend \/ EndRun
    \/ \E i \in Instances, ok, changed \in BOOLEAN : EndBackup(i, ok, changed)
    \/ \E i \in Instances, n \in Names : Rename(i, n)
    \/ \E h \in Hooks : SendOne(h) \/ SendTest(h) \/ DeleteCheck(h)
    \/ \E h \in Hooks, r \in HookRows : CreateHook(h, r)
    \/ \E e \in Editors, h \in Hooks, c \in Saves : ReadHook(e, h, c)
    \/ \E e \in Editors : WriteHook(e)
    \/ \E i \in Instances, recovery \in BOOLEAN : SendStale(i, recovery)
    \/ DeleteRow \/ DeleteCut

Spec == Init /\ [][Next]_vars
-----------------------------------------------------------------------------
(* Properties.                                                             *)

\* What a row is to hear of the run, by instance ids: it hears of the instances in
\* its scope (all, if it has none) and of a failure if one of those failed.
Concern(h) == IF hook[h].scope = {} THEN run.ok \cup run.bad ELSE hook[h].scope \cap (run.ok \cup run.bad)
Expected(h) ==
    LET failed == Concern(h) \cap run.bad # {} IN
    IF hook[h].scope # {} /\ Concern(h) = {} THEN None ELSE
    CASE hook[h].trigger = "change" -> IF run.changed /\ ~failed THEN "CHANGED" ELSE None
      [] hook[h].trigger = "stale" -> None
      [] hook[h].trigger = "always" -> IF failed THEN "FAILURE" ELSE "SUCCESS"
      [] hook[h].trigger = "success" -> IF failed THEN None ELSE "SUCCESS"
      [] hook[h].trigger = "failure" -> IF failed THEN "FAILURE" ELSE None

\* Nothing happened to the run's instances or the row while the run was on, and no
\* update ever mixed the row with another one of its id.
Undisturbed(h) == touched = {} /\ h \notin edited \cup mixed

\* A finished run has told every enabled row what its scope and trigger call for,
\* although send works with names it looks up again; as long as no message format
\* that cannot be filled in has ended the loop.
Routed ==
    run.at = "sent" /\ ~run.broken =>
        \A h \in OnHooks :
            Undisturbed(h) /\ ~(run.all /\ hook[h].trigger = "change") => told[h] = Expected(h)

\* Every run that Healthchecks saw start it also sees end, or Healthchecks would
\* raise an alarm of its own: the rows ping_starts picks by id and enabled are rows
\* send gets to with names and results. A check may only be left started where the
\* run, or a task of it, raised past its own handler, or a format broke the loop.
StartsAreEnded ==
    run.at = "sent" /\ ~run.broken =>
        \A h \in run.pinged : Undisturbed(h) => dash[h] # "START"

\* The update that step e of the editors ends.
Writes(e, h) == editor[e] # None /\ editor[e].of = h /\ editor'[e] = None

\* A client that sends back the placeholder it was shown does not change the secret,
\* whatever is written between the answer and the save (_redact_config,
\* _merge_secrets); unless something is written between the save's own read and its
\* write, which may bring the older secret back.
SecretKept ==
    [][\A h \in Hooks :
          hook[h] # None /\ hook'[h] # None /\ hook'[h].secret # hook[h].secret
              => \E e \in Editors : Writes(e, h) /\ (editor[e].typed \/ editor[e].raced # "no")]_vars

\* A row that names a check names one that exists, whatever fails between
\* Healthchecks and the database; unless its deletion was cut off between them, or
\* a client, and not the provisioning, gave a row that check.
ProvisionedHasCheck ==
    \A h \in Hooks :
        hook[h] # None /\ hook[h].check # None
            => hook[h].check \in checks \cup claimed \/ h = wait \/ h \in cut

\* notifier.py 120: "one broken webhook must not silence the rest".
NoneSilenced ==
    run.at = "sent" =>
        \A h \in OnHooks :
            Undisturbed(h) /\ hook[h].fmt /\ ~(run.all /\ hook[h].trigger = "change")
                => told[h] = Expected(h)
=============================================================================
