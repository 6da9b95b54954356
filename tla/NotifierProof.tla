--------------------------- MODULE NotifierProof ---------------------------
(***************************************************************************)
(* Notifier tells every row what its scope and trigger call for, ends at   *)
(* Healthchecks what it started there, keeps secrets through forms that    *)
(* are sent back, and rows with the checks that were made for them. For    *)
(* any number of instances, rows, names, secrets and updates at a time.    *)
(***************************************************************************)
EXTENDS Notifier, TLAPS

\* Names are unique; only instances that exist are enabled.
NameInv ==
    /\ \A i, j \in Instances : name[i] # None /\ name[i] = name[j] => i = j
    /\ \A i \in enabled : name[i] # None

\* Healthchecks rows hear of every run; a row names the check that was made for it,
\* or one that a client gave it.
HookInv ==
    \A h \in Hooks : hook[h] # None =>
        /\ hook[h].kind = "healthchecks" /\ h \notin mixed => hook[h].trigger = "always"
        /\ hook[h].check \in {None, h} \cup claimed

\* An update that is to be written fits the row it has read, as long as no other row
\* has come in its place.
EditInv ==
    \A e \in Editors : editor[e] # None /\ editor[e].raced # "replaced" =>
        /\ hook[editor[e].of] # None
        /\ hook[editor[e].of].kind = "healthchecks" => editor[e].trigger \in {None, "always"}
        /\ editor[e].config # None /\ ~editor[e].claims =>
              /\ editor[e].config.check \in {None, editor[e].of} \cup claimed
              /\ editor[e].config.check # None =>
                    editor[e].config.check \in checks \cup claimed \/ editor[e].of = wait \/ editor[e].of \in cut
        /\ editor[e].config # None /\ ~editor[e].typed /\ editor[e].raced = "no" =>
              editor[e].config.secret = hook[editor[e].of].secret

\* The run's instances, done or not, and their names.
Done == run.ok \cup run.bad
NamesOf(S) == {name[i] : i \in S}

\* As long as nobody touches an instance, the run's names are those of its ids.
RunInv ==
    run.at # "idle" /\ touched = {} =>
        /\ \A i \in run.todo \cup Done : name[i] # None
        /\ run.okName = NamesOf(run.ok) /\ run.badName = NamesOf(run.bad)
        /\ run.all => enabled = run.todo \cup Done
        /\ ~run.all => \A i \in run.todo : run.snap = {<<i, name[i]>>}
        /\ run.at = "ping" => Done = {}
        /\ run.at \in {"send", "sent"} => run.todo = {} /\ run.ids = {<<i, name[i]>> : i \in Alive}

\* A row that was pinged is one the run concerns.
PingInv ==
    /\ run.at = "ping" => run.pinged = {}
    /\ run.at # "idle" =>
        \A h \in run.pinged : Undisturbed(h) =>
            /\ hook[h] # None /\ hook[h].on /\ hook[h].kind = "healthchecks"
            /\ hook[h].scope = {} \/ hook[h].scope \cap (run.todo \cup Done) # {}

\* The loop over the rows: what it has come to is told what it should be.
Heard(h) ==
    IF run.at \in {"send", "sent"} /\ h \notin run.left
    THEN (hook[h].on => told[h] = Expected(h)) /\ (h \in run.pinged => dash[h] # "START")
    ELSE told[h] = None
SendInv ==
    /\ run.broken => run.at \in {"send", "sent"}
    /\ run.at = "sent" /\ ~run.broken => run.left = {}
    /\ run.at # "idle" /\ ~run.broken =>
        \A h \in Hooks :
            hook[h] # None /\ Undisturbed(h) /\ ~(run.all /\ hook[h].trigger = "change") => Heard(h)

NInv == TypeOK /\ NameInv /\ HookInv /\ EditInv /\ RunInv /\ PingInv /\ SendInv /\ ProvisionedHasCheck
-----------------------------------------------------------------------------
(* Types.                                                                  *)

RunType == [at: {"idle", "ping", "work", "send", "sent"}, all: BOOLEAN, todo: SUBSET Instances,
            ok: SUBSET Instances, bad: SUBSET Instances, changed: BOOLEAN,
            okName: SUBSET Names, badName: SUBSET Names, pinged: SUBSET Hooks,
            snap: SUBSET (Instances \X Names), left: SUBSET Hooks, ids: SUBSET (Instances \X Names), broken: BOOLEAN]
Told == {None, "SUCCESS", "FAILURE", "CHANGED"}
Shown == {None, "START", "SUCCESS", "FAILURE"}

\* What a run is when it starts.
LEMMA IdleFields ==
    /\ Idle \in RunType
    /\ Idle.at = "idle" /\ Idle.all = FALSE /\ Idle.todo = {} /\ Idle.ok = {} /\ Idle.bad = {}
    /\ Idle.okName = {} /\ Idle.badName = {} /\ Idle.pinged = {} /\ Idle.snap = {} /\ Idle.left = {}
    /\ Idle.ids = {} /\ Idle.broken = FALSE /\ Idle.changed = FALSE
BY DEF Idle, RunType

\* The names of instances that exist.
LEMMA AliveNames ==
    ASSUME TypeOK
    PROVE  /\ \A i \in Alive : i \in Instances /\ name[i] \in Names /\ <<i, name[i]>> \in Instances \X Names
           /\ {<<i, name[i]>> : i \in Alive} \subseteq Instances \X Names
           /\ \A p \in run.snap : p[1] \in Instances /\ p[2] \in Names
BY DEF TypeOK, Alive

\* A finished backup is counted under names.
LEMMA CountedNames == ASSUME TypeOK, NEW i \in Instances PROVE CountedAs(i) \subseteq Names
<1>1. \A p \in run.snap : p[2] \in Names
    BY AliveNames
<1>2. {p[2] : p \in run.snap} \subseteq Names
    BY <1>1
<1>3. {name[i]} \ {None} \subseteq Names
    BY DEF TypeOK
<1> QED BY <1>2, <1>3 DEF CountedAs

\* The start of a run, whatever it is over.
LEMMA TypeStart ==
    ASSUME TypeOK, (\E i \in Instances : StartRun(i)) \/ StartSweep \/ EndRun
    PROVE  TypeOK'
<1>1. run' \in RunType
    <2>1. CASE EndRun
        BY <2>1, IdleFields DEF EndRun
    <2>2. CASE StartSweep
        BY <2>2, IdleFields DEF StartSweep, RunType, TypeOK
    <2>3. ASSUME NEW i \in Instances, StartRun(i) PROVE run' \in RunType
        <3>1. {<<i, name[i]>>} \subseteq Instances \X Names
            BY <2>3, AliveNames DEF StartRun
        <3> QED BY <2>3, <3>1, IdleFields DEF StartRun, RunType
    <2> QED BY <2>1, <2>2, <2>3
<1>2. told' \in [Hooks -> Told] /\ touched' = {} /\ edited' = {}
      /\ UNCHANGED <<name, enabled, hook, checks, editor, wait, dash, stale, cut, claimed, mixed, left>>
    BY DEF StartRun, StartSweep, EndRun, Told, instVars, webVars, outVars, webGhosts
<1> QED BY <1>1, <1>2 DEF TypeOK, RunType, Told

\* The other steps of a run change it, what it told and the checks' pings.
LEMMA TypeRun ==
    ASSUME TypeOK, run' \in RunType, told' \in [Hooks -> Told], dash' \in [Hooks -> Shown],
           touched' \subseteq Instances,
           UNCHANGED <<name, enabled, hook, checks, editor, wait, stale, edited, cut, claimed, mixed, left>>
    PROVE  TypeOK'
BY DEF TypeOK, RunType, Told, Shown

\* Start pings add rows to those the run has pinged.
LEMMA TypePing == ASSUME TypeOK, PingStarts PROVE TypeOK'
<1> DEFINE pinged == {h \in OnHooks :
                 /\ hook[h].kind = "healthchecks"
                 /\ \/ hook[h].scope = {}
                    \/ hook[h].scope \cap (IF run.all THEN enabled ELSE run.todo) # {}}
<1>1. /\ run' = [run EXCEPT !.at = "work", !.pinged = pinged]
      /\ dash' = [h \in Hooks |-> IF h \in pinged THEN "START" ELSE dash[h]]
    BY DEF PingStarts
<1>2. pinged \subseteq Hooks
    BY DEF OnHooks
<1> HIDE DEF pinged
<1>3. run' \in RunType /\ dash' \in [Hooks -> Shown]
    BY <1>1, <1>2 DEF TypeOK, RunType, Shown
<1> QED BY <1>3, TypeRun DEF PingStarts, TypeOK, Told, ghosts, webGhosts, instVars, webVars

\* An instance that is refused, begun or lost with its task.
LEMMA TypeWork ==
    ASSUME TypeOK, NEW i \in Instances, Refuse(i) \/ BeginBackup(i) \/ TaskCrashes(i)
    PROVE  TypeOK'
<1>1. run' \in RunType
    <2>1. CASE Refuse(i)
        <3>1. {p[2] : p \in run.snap} \subseteq Names
            BY AliveNames
        <3> QED BY <2>1, <3>1 DEF Refuse, TypeOK, RunType
    <2>2. CASE BeginBackup(i)
        <3>1. <<i, name[i]>> \in Instances \X Names
            BY <2>2, AliveNames DEF BeginBackup
        <3> QED BY <2>2, <3>1 DEF BeginBackup, TypeOK, RunType
    <2>3. CASE TaskCrashes(i)
        <3> DEFINE at == IF run.all THEN run.at ELSE "sent"
                   over == ~run.all
        <3>1. at \in {"idle", "ping", "work", "send", "sent"} /\ over \in BOOLEAN
            BY DEF TypeOK
        <3>2. run' = [run EXCEPT !.todo = @ \ {i}, !.snap = {p \in @ : p[1] # i}, !.at = at, !.broken = over]
            BY <2>3 DEF TaskCrashes
        <3> HIDE DEF at, over
        <3> QED BY <3>1, <3>2 DEF TypeOK, RunType
    <2> QED BY <2>1, <2>2, <2>3
<1>2. touched' \subseteq Instances /\ UNCHANGED <<told, dash>>
      /\ UNCHANGED <<name, enabled, hook, checks, editor, wait, stale, edited, cut, claimed, mixed, left>>
    BY DEF TypeOK, Refuse, BeginBackup, TaskCrashes, ghosts, webGhosts, outVars, instVars, webVars
<1> QED BY <1>1, <1>2, TypeRun DEF TypeOK, Told, Shown

\* A backup that ends is counted as good or bad, under its name if it has one.
LEMMA TypeEnd ==
    ASSUME TypeOK, NEW i \in Instances, NEW ok \in BOOLEAN, NEW changed \in BOOLEAN, EndBackup(i, ok, changed)
    PROVE  TypeOK'
<1> DEFINE counted == CountedAs(i)
<1>1. /\ run' = [run EXCEPT !.todo = @ \ {i},
                 !.ok = IF ok THEN @ \cup {i} ELSE @, !.bad = IF ok THEN @ ELSE @ \cup {i},
                 !.okName = IF ok THEN @ \cup counted ELSE @,
                 !.badName = IF ok THEN @ ELSE @ \cup counted,
                 !.changed = IF run.all THEN FALSE ELSE changed,
                 !.snap = {p \in @ : p[1] # i}]
      /\ \E some :
            /\ told' = [h \in Hooks |-> IF h \in some THEN "CHANGED" ELSE told[h]]
            /\ dash' = [h \in Hooks |-> IF h \in some THEN Dispatch(dash, h, "CHANGED")[h] ELSE dash[h]]
    BY DEF EndBackup
<1>2. counted \subseteq Names
    BY CountedNames
<1>3. run' \in RunType
    <2> DEFINE flag == IF run.all THEN FALSE ELSE changed
               rest == {p \in run.snap : p[1] # i}
    <2>1. flag \in BOOLEAN /\ rest \subseteq Instances \X Names /\ run \in RunType
        BY DEF TypeOK, RunType
    <2> HIDE DEF counted
    <2>2. CASE ok
        <3>1. run' = [run EXCEPT !.todo = @ \ {i}, !.ok = @ \cup {i}, !.bad = @, !.okName = @ \cup counted,
                                 !.badName = @, !.changed = flag, !.snap = rest]
            BY <1>1, <2>2
        <3> HIDE DEF flag, rest
        <3> QED BY <1>2, <2>1, <3>1 DEF RunType
    <2>3. CASE ~ok
        <3>1. run' = [run EXCEPT !.todo = @ \ {i}, !.ok = @, !.bad = @ \cup {i}, !.okName = @,
                                 !.badName = @ \cup counted, !.changed = flag, !.snap = rest]
            BY <1>1, <2>3
        <3> HIDE DEF flag, rest
        <3> QED BY <1>2, <2>1, <3>1 DEF RunType
    <2> QED BY <2>2, <2>3
<1>4. told' \in [Hooks -> Told] /\ dash' \in [Hooks -> Shown]
    <2>1. PICK some :
            /\ told' = [h \in Hooks |-> IF h \in some THEN "CHANGED" ELSE told[h]]
            /\ dash' = [h \in Hooks |-> IF h \in some THEN Dispatch(dash, h, "CHANGED")[h] ELSE dash[h]]
        BY <1>1
    <2>2. \A h \in Hooks : told[h] \in Told /\ dash[h] \in Shown
        BY DEF TypeOK, Told, Shown
    <2>3. \A h \in Hooks : Dispatch(dash, h, "CHANGED")[h] \in Shown
        BY <2>2 DEF TypeOK, Shown, Dispatch, SendHealthchecks
    <2> QED BY <2>1, <2>2, <2>3 DEF Told, Shown
<1> QED BY <1>3, <1>4, TypeRun DEF EndBackup, TypeOK, ghosts, webGhosts, instVars, webVars

\* The loop over the rows tells each one of three outcomes, or nothing.
LEMMA TypeSend ==
    ASSUME TypeOK, BeginSend \/ (\E h \in Hooks : SendOne(h)) \/ EndSend
    PROVE  TypeOK'
<1>1. CASE BeginSend
    <2>1. {<<i, name[i]>> : i \in Alive} \subseteq Instances \X Names /\ OnHooks \subseteq Hooks
        BY AliveNames DEF OnHooks
    <2>2. run' \in RunType
        BY <1>1, <2>1 DEF BeginSend, TypeOK, RunType
    <2> QED BY <1>1, <2>2, TypeRun DEF BeginSend, TypeOK, Told, Shown, ghosts, webGhosts, outVars, instVars, webVars
<1>2. CASE EndSend
    <2>1. run' \in RunType
        BY <1>2 DEF EndSend, TypeOK, RunType
    <2> QED BY <1>2, <2>1, TypeRun DEF EndSend, TypeOK, Told, Shown, ghosts, webGhosts, outVars, instVars, webVars
<1>3. ASSUME NEW h \in Hooks, SendOne(h) PROVE TypeOK'
    <2> DEFINE b == (hook[h] # None /\ Sends(h)) /\ ~hook[h].fmt
    <2>1. run' = [run EXCEPT !.left = @ \ {h}, !.broken = b]
        BY <1>3 DEF SendOne
    <2>2. b \in BOOLEAN
        OBVIOUS
    <2> HIDE DEF b
    <2>3. run' \in RunType
        BY <2>1, <2>2 DEF TypeOK, RunType
    <2>4. Label(h) \in {"SUCCESS", "FAILURE", "CHANGED"}
        BY DEF Label
    <2>5. told' \in [Hooks -> Told]
        BY <1>3, <2>4 DEF SendOne, TypeOK, Told
    <2>6. dash' \in [Hooks -> Shown]
        <3>1. dash' = dash \/ dash' = Dispatch(dash, h, Label(h))
            BY <1>3 DEF SendOne
        <3> QED BY <3>1 DEF TypeOK, Shown, Dispatch, SendHealthchecks
    <2> QED BY <1>3, <2>3, <2>5, <2>6, TypeRun DEF SendOne, TypeOK, ghosts, webGhosts, instVars, webVars
<1> QED BY <1>1, <1>2, <1>3

\* What is spent of the budget.
LEMMA SpendType == ASSUME TypeOK, NEW v \in Events, Spend(v) PROVE left' \in [Events -> Nat]
<1>1. left \in [Events -> Nat] /\ left[v] > 0 /\ left' = [left EXCEPT ![v] = @ - 1]
    BY DEF TypeOK, Spend
<1>2. left[v] - 1 \in Nat
    BY <1>1
<1> QED BY <1>1, <1>2

\* Marking an update leaves everything else of it alone.
LEMMA RacedUpdates ==
    ASSUME TypeOK, NEW h \in Hooks, NEW how \in {"saved", "replaced"}, NEW e \in Editors
    PROVE  /\ Raced(h, how) \in [Editors -> Update \cup {None}]
           /\ Raced(h, how)[e] = None <=> editor[e] = None
           /\ editor[e] # None =>
                /\ Raced(h, how)[e].of = editor[e].of /\ Raced(h, how)[e].trigger = editor[e].trigger
                /\ Raced(h, how)[e].config = editor[e].config /\ Raced(h, how)[e].typed = editor[e].typed
                /\ Raced(h, how)[e].claims = editor[e].claims
                /\ Raced(h, how)[e].raced = IF editor[e].of = h /\ editor[e].raced # "replaced" THEN how
                                            ELSE editor[e].raced
<1>1. ASSUME NEW u \in Update PROVE [u EXCEPT !.raced = IF @ = "replaced" THEN @ ELSE how] \in Update
    <2> DEFINE new == IF u.raced = "replaced" THEN u.raced ELSE how
    <2>1. new \in {"no", "saved", "replaced"}
        OBVIOUS
    <2> HIDE DEF new
    <2>2. [u EXCEPT !.raced = new] \in Update
        BY <2>1 DEF Update
    <2> QED BY <2>2 DEF new
<1>2. \A f \in Editors : editor[f] # None => editor[f] \in Update
    BY DEF TypeOK
<1>3. Raced(h, how) \in [Editors -> Update \cup {None}]
    BY <1>1, <1>2 DEF Raced
<1>4. CASE editor[e] = None \/ editor[e].of # h
    <2>1. Raced(h, how)[e] = editor[e]
        BY <1>4 DEF Raced
    <2>2. editor[e] # None => editor[e].raced \in {"no", "saved", "replaced"}
        BY <1>2 DEF Update
    <2> QED BY <1>3, <1>4, <2>1, <2>2
<1>5. CASE editor[e] # None /\ editor[e].of = h
    <2> DEFINE u == editor[e]
               new == IF u.raced = "replaced" THEN u.raced ELSE how
    <2>1. u \in Update /\ Raced(h, how)[e] = [u EXCEPT !.raced = new]
        BY <1>2, <1>5 DEF Raced
    <2>2. Raced(h, how)[e] # None
        BY <1>1, <2>1, NotifierAssumption
    <2> HIDE DEF u, new
    <2>3. /\ Raced(h, how)[e].of = u.of /\ Raced(h, how)[e].trigger = u.trigger
          /\ Raced(h, how)[e].config = u.config /\ Raced(h, how)[e].typed = u.typed
          /\ Raced(h, how)[e].claims = u.claims /\ Raced(h, how)[e].raced = new
        BY <2>1 DEF Update
    <2> QED BY <1>3, <1>5, <2>2, <2>3 DEF u, new
<1> QED BY <1>3, <1>4, <1>5

\* A row that is stored, and the check it names.
LEMMA StoredRow ==
    ASSUME NEW h \in Hooks, NEW r \in NewRow
    PROVE  /\ Stored(h, r) \in Row /\ Stored(h, r).kind = r.kind /\ Stored(h, r).trigger = r.trigger
           /\ Stored(h, r).check = IF r.provisioned THEN h ELSE None
<1> DEFINE c == IF r.provisioned THEN h ELSE None
<1>1. c \in Hooks \cup {None}
    OBVIOUS
<1>2. Stored(h, r) = [kind |-> r.kind, trigger |-> r.trigger, scope |-> r.scope, on |-> r.on, fmt |-> r.fmt,
                      secret |-> r.secret, check |-> c]
    BY DEF Stored
<1> HIDE DEF c
<1>3. Stored(h, r) \in Row /\ Stored(h, r).kind = r.kind /\ Stored(h, r).trigger = r.trigger /\ Stored(h, r).check = c
    BY <1>1, <1>2 DEF Row, NewRow
<1> QED BY <1>3 DEF c

\* ... created with the instances of its scope that still exist.
LEMMA CreatedRow ==
    ASSUME TypeOK, NEW h \in Hooks, NEW r \in HookRows, CreateHook(h, r)
    PROVE  \E new \in Row :
              /\ new.kind = r.kind /\ new.trigger = r.trigger /\ new.check = (IF r.provisioned THEN h ELSE None)
              /\ hook' = hook \/ hook' = [hook EXCEPT ![h] = new]
<1> DEFINE kept == [r EXCEPT !.scope = @ \cap Alive]
<1>1. r \in NewRow
    BY NotifierAssumption
<1>2. kept \in NewRow /\ kept.kind = r.kind /\ kept.trigger = r.trigger /\ kept.provisioned = r.provisioned
    BY <1>1 DEF NewRow
<1>3. hook' = hook \/ hook' = [hook EXCEPT ![h] = Stored(h, kept)]
    BY DEF CreateHook
<1> HIDE DEF kept
<1> QED BY <1>2, <1>3, StoredRow

\* The update that ReadHook takes in hand.
LEMMA UpdateRead ==
    ASSUME TypeOK, NEW e \in Editors, NEW h \in Hooks, NEW c \in Saves, ReadHook(e, h, c)
    PROVE  \E u \in Update :
              /\ hook[h] # None /\ editor' = [editor EXCEPT ![e] = u] /\ u.of = h /\ u.raced = "no"
              /\ hook[h].kind = "healthchecks" => u.trigger \in {None, "always"}
              /\ u.config # None => u.config.check = c.check
              /\ u.config # None /\ ~u.typed => u.config.secret = hook[h].secret
              /\ ~u.claims => c.check \in {hook[h].check, None}
<1> DEFINE trigger == IF hook[h].kind = "healthchecks" THEN "always" ELSE c.trigger
           merged == MergeSecrets(hook[h].secret, c.secret)
           config == [secret |-> merged, check |-> c.check]
           t == IF trigger = hook[h].trigger THEN None ELSE trigger
           g == IF c.more \/ config # [secret |-> hook[h].secret, check |-> hook[h].check] THEN config ELSE None
           typed == c.secret # Placeholder
           claims == c.check \notin {hook[h].check, None}
<1>1. hook[h] \in Row /\ c \in Save /\ hook[h] # None
    BY NotifierAssumption DEF ReadHook, TypeOK
<1>2. hook[h].secret \in Secret /\ c.secret \in Secret /\ c.check \in Hooks \cup {None} /\ c.trigger \in Triggers
    BY <1>1 DEF Row, Save
<1>3. merged \in Secret /\ (c.secret = Placeholder => merged = hook[h].secret)
    BY <1>2 DEF MergeSecrets
<1>4. editor' = [editor EXCEPT ![e] = [of |-> h, trigger |-> t, config |-> g, typed |-> typed, claims |-> claims, raced |-> "no"]]
    BY DEF ReadHook
<1> HIDE DEF merged
<1>5. config \in [secret: Secret, check: Hooks \cup {None}] /\ config.secret = merged /\ config.check = c.check
    BY <1>2, <1>3
<1> HIDE DEF config
<1>6. t \in Triggers \cup {None} /\ (hook[h].kind = "healthchecks" => t \in {None, "always"})
    BY <1>2 DEF Triggers
<1>7. g \in [secret: Secret, check: Hooks \cup {None}] \cup {None} /\ g \in {config, None}
    BY <1>5
<1>8. typed \in BOOLEAN /\ claims \in BOOLEAN
    OBVIOUS
<1>9. /\ ~claims => c.check \in {hook[h].check, None}
      /\ ~typed => merged = hook[h].secret
    BY <1>3
<1> HIDE DEF t, g, typed, claims
<1> DEFINE u == [of |-> h, trigger |-> t, config |-> g, typed |-> typed, claims |-> claims, raced |-> "no"]
<1>10. u \in Update
    BY <1>6, <1>7, <1>8 DEF Update
<1>11. u.of = h /\ u.trigger = t /\ u.config = g /\ u.typed = typed /\ u.claims = claims /\ u.raced = "no"
    OBVIOUS
<1>12. editor' = [editor EXCEPT ![e] = u]
    BY <1>4
<1> HIDE DEF u
<1>13. u.config # None => u.config.check = c.check /\ u.config.secret = merged
    BY <1>5, <1>7, <1>11
<1> QED BY <1>1, <1>6, <1>9, <1>10, <1>11, <1>12, <1>13

\* What WriteHook writes, if there is a row.
LEMMA RowWritten ==
    ASSUME TypeOK, NEW e \in Editors, WriteHook(e)
    PROVE  /\ editor[e] \in Update /\ editor[e].of \in Hooks
           /\ hook[editor[e].of] = None => hook' = hook
           /\ hook[editor[e].of] # None =>
                 \E new \in Row :
                    /\ hook' = [hook EXCEPT ![editor[e].of] = new]
                    /\ new.kind = hook[editor[e].of].kind
                    /\ new.trigger = (IF editor[e].trigger = None THEN hook[editor[e].of].trigger ELSE editor[e].trigger)
                    /\ new.secret = (IF editor[e].config = None THEN hook[editor[e].of].secret ELSE editor[e].config.secret)
                    /\ new.check = (IF editor[e].config = None THEN hook[editor[e].of].check ELSE editor[e].config.check)
<1> DEFINE u == editor[e]
           h == u.of
           t == IF u.trigger = None THEN hook[h].trigger ELSE u.trigger
           x == IF u.config = None THEN hook[h].secret ELSE u.config.secret
           c == IF u.config = None THEN hook[h].check ELSE u.config.check
<1>1. u \in Update /\ h \in Hooks
    BY DEF WriteHook, TypeOK, Update
<1>2. hook[h] = None => hook' = hook
    BY DEF WriteHook
<1>3. ASSUME hook[h] # None
      PROVE  \E new \in Row : /\ hook' = [hook EXCEPT ![h] = new] /\ new.kind = hook[h].kind /\ new.trigger = t
                              /\ new.secret = x /\ new.check = c
    <2>1. hook[h] \in Row
        BY <1>1, <1>3 DEF TypeOK
    <2>2. t \in Triggers
        BY <1>1, <2>1 DEF Update, Row
    <2>3. u.config # None => u.config.secret \in Secret /\ u.config.check \in Hooks \cup {None}
        BY <1>1 DEF Update
    <2>4. x \in Secret /\ c \in Hooks \cup {None}
        BY <2>1, <2>3 DEF Row
    <2>5. hook' = [hook EXCEPT ![h] = [hook[h] EXCEPT !.trigger = t, !.secret = x, !.check = c]]
        BY <1>3 DEF WriteHook
    <2> HIDE DEF t, x, c
    <2> DEFINE new == [hook[h] EXCEPT !.trigger = t, !.secret = x, !.check = c]
    <2>6. new \in Row /\ new.kind = hook[h].kind /\ new.trigger = t /\ new.secret = x /\ new.check = c
        BY <2>1, <2>2, <2>4 DEF Row
    <2> HIDE DEF new
    <2>7. hook' = [hook EXCEPT ![h] = new]
        BY <2>5 DEF new
    <2> QED BY <2>6, <2>7
<1> QED BY <1>1, <1>2, <1>3

\* The updates after one of them was written.
LEMMA UpdatesAfter ==
    ASSUME TypeOK, NEW e \in Editors, WriteHook(e)
    PROVE  /\ editor' \in [Editors -> Update \cup {None}] /\ editor'[e] = None
           /\ \A f \in Editors : f # e =>
                 editor'[f] = (IF hook[editor[e].of] # None THEN Raced(editor[e].of, "saved")[f] ELSE editor[f])
<1> DEFINE base == IF hook[editor[e].of] # None THEN Raced(editor[e].of, "saved") ELSE editor
<1>1. editor[e].of \in Hooks
    BY RowWritten
<1>2. base \in [Editors -> Update \cup {None}]
    BY <1>1, RacedUpdates DEF TypeOK
<1>3. editor' = [base EXCEPT ![e] = None]
    BY DEF WriteHook
<1>4. \A f \in Editors : base[f] = (IF hook[editor[e].of] # None THEN Raced(editor[e].of, "saved")[f] ELSE editor[f])
    OBVIOUS
<1> HIDE DEF base
<1> QED BY <1>2, <1>3, <1>4

\* Operators change instances, rows and updates.
LEMMA TypeWeb ==
    ASSUME TypeOK,
           \/ \E i \in Instances : Switch(i) \/ DeleteInstance(i)
           \/ \E i \in Instances, n \in Names : Rename(i, n)
           \/ \E i \in Instances, recovery \in BOOLEAN : SendStale(i, recovery)
           \/ \E h \in Hooks : SendTest(h) \/ DeleteCheck(h)
           \/ \E h \in Hooks, r \in HookRows : CreateHook(h, r)
           \/ \E e \in Editors, h \in Hooks, c \in Saves : ReadHook(e, h, c)
           \/ \E e \in Editors : WriteHook(e)
           \/ DeleteRow \/ DeleteCut
    PROVE  TypeOK'
<1> USE NotifierAssumption DEF outVars, instVars, webVars, webGhosts
<1>0. \A v \in {"instance", "row", "save", "message"} : Spend(v) => left' \in [Events -> Nat]
    BY SpendType DEF Events
<1>1. ASSUME NEW i \in Instances, Switch(i) PROVE TypeOK'
    BY <1>0, <1>1 DEF Switch, TypeOK
<1>2. ASSUME NEW i \in Instances, DeleteInstance(i) PROVE TypeOK'
    <2>1. \A h \in Hooks : hook[h] # None => [hook[h] EXCEPT !.scope = @ \ {i}] \in Row
        BY DEF TypeOK, Row
    <2>2. hook' \in [Hooks -> Row \cup {None}]
        BY <1>2, <2>1 DEF DeleteInstance
    <2>3. name' \in [Instances -> Names \cup {None}] /\ enabled' \subseteq Instances /\ touched' \subseteq Instances
          /\ edited' \subseteq Hooks
        BY <1>2 DEF DeleteInstance, TypeOK
    <2> QED BY <1>0, <1>2, <2>2, <2>3 DEF DeleteInstance, TypeOK
<1>3. ASSUME NEW i \in Instances, NEW n \in Names, Rename(i, n) PROVE TypeOK'
    BY <1>0, <1>3 DEF Rename, TypeOK
<1>4. ASSUME NEW i \in Instances, NEW recovery \in BOOLEAN, SendStale(i, recovery) PROVE TypeOK'
    <2>1. PICK some : stale' = [h \in Hooks |-> IF h \notin some THEN stale[h]
                                     ELSE IF recovery THEN stale[h] \ {i} ELSE stale[h] \cup {i}]
        BY <1>4 DEF SendStale
    <2>2. stale' \in [Hooks -> SUBSET Instances]
        BY <2>1 DEF TypeOK
    <2> QED BY <1>0, <1>4, <2>2 DEF SendStale, TypeOK
<1>5. ASSUME NEW h \in Hooks, SendTest(h) PROVE TypeOK'
    <2>1. dash' \in [Hooks -> Shown]
        BY <1>5 DEF SendTest, Dispatch, SendHealthchecks, TypeOK, Shown
    <2> QED BY <1>0, <1>5, <2>1 DEF SendTest, TypeOK, Shown
<1>6. ASSUME NEW e \in Editors, NEW h \in Hooks, NEW c \in Saves, ReadHook(e, h, c) PROVE TypeOK'
    <2>1. PICK u \in Update : editor' = [editor EXCEPT ![e] = u]
        BY <1>6, UpdateRead
    <2> QED BY <1>0, <1>6, <2>1 DEF ReadHook, TypeOK
<1>7. ASSUME NEW h \in Hooks, DeleteCheck(h) PROVE TypeOK'
    BY <1>0, <1>7 DEF DeleteCheck, TypeOK
<1>8. ASSUME NEW h \in Hooks, NEW r \in HookRows, CreateHook(h, r) PROVE TypeOK'
    <2>1. PICK new \in Row : hook' = hook \/ hook' = [hook EXCEPT ![h] = new]
        BY <1>8, CreatedRow
    <2>2. hook' \in [Hooks -> Row \cup {None}]
        BY <2>1 DEF TypeOK
    <2>3. checks' \subseteq Hooks
        BY <1>8 DEF CreateHook, Provision, TypeOK
    <2> QED BY <1>0, <1>8, <2>2, <2>3 DEF CreateHook, TypeOK
<1>9. ASSUME NEW e \in Editors, WriteHook(e) PROVE TypeOK'
    <2>1. hook' \in [Hooks -> Row \cup {None}]
        BY <1>9, RowWritten DEF TypeOK
    <2>2. editor[e] \in Update /\ editor[e].of \in Hooks
        BY <1>9, RowWritten
    <2>3. editor[e].config # None => editor[e].config.check \in Hooks \cup {None}
        BY <2>2 DEF Update
    <2>4. edited' \subseteq Hooks /\ mixed' \subseteq Hooks
        BY <1>9, <2>2 DEF WriteHook, TypeOK
    <2>5. claimed' \subseteq Hooks
        BY <1>9, <2>3 DEF WriteHook, TypeOK
    <2> QED BY <1>9, <2>1, <2>4, <2>5, UpdatesAfter DEF WriteHook, TypeOK
<1>10. ASSUME DeleteRow PROVE TypeOK'
    <2>1. wait \in Hooks
        BY <1>10 DEF DeleteRow, TypeOK
    <2>2. editor' \in [Editors -> Update \cup {None}]
        <3>1. Raced(wait, "replaced") \in [Editors -> Update \cup {None}]
            <4>1. CASE Editors = {}
                BY <4>1 DEF Raced
            <4>2. CASE Editors # {}
                BY <2>1, <4>2, RacedUpdates
            <4> QED BY <4>1, <4>2
        <3> QED BY <1>10, <3>1 DEF DeleteRow
    <2> QED BY <1>10, <2>1, <2>2 DEF DeleteRow, TypeOK
<1>11. ASSUME DeleteCut PROVE TypeOK'
    BY <1>11 DEF DeleteCut, TypeOK
<1> QED BY <1>1, <1>2, <1>3, <1>4, <1>5, <1>6, <1>7, <1>8, <1>9, <1>10, <1>11

-----------------------------------------------------------------------------
(* The rows themselves.                                                    *)

RowInv == NameInv /\ HookInv /\ EditInv /\ ProvisionedHasCheck

\* The steps of a run leave instances and rows alone.
LEMMA RowSame ==
    ASSUME RowInv, UNCHANGED <<name, enabled, hook, checks, editor, wait, cut, claimed, mixed>>
    PROVE  RowInv'
BY DEF RowInv, NameInv, HookInv, EditInv, ProvisionedHasCheck

\* Operators at work on the instances keep names unique.
LEMMA RowInstances ==
    ASSUME TypeOK, RowInv,
           \/ \E i \in Instances : Switch(i) \/ DeleteInstance(i)
           \/ \E i \in Instances, n \in Names : Rename(i, n)
    PROVE  RowInv'
<1> USE NotifierAssumption DEF outVars, instVars, webVars, webGhosts, RowInv
<1>1. ASSUME NEW i \in Instances, Switch(i) PROVE RowInv'
    BY <1>1 DEF Switch, NameInv, HookInv, EditInv, ProvisionedHasCheck, Alive
<1>2. ASSUME NEW i \in Instances, DeleteInstance(i) PROVE RowInv'
    <2>1. NameInv'
        BY <1>2 DEF DeleteInstance, NameInv, TypeOK
    <2>2. \A h \in Hooks : hook'[h] # None =>
              hook[h] # None /\ hook'[h].kind = hook[h].kind /\ hook'[h].trigger = hook[h].trigger
              /\ hook'[h].check = hook[h].check /\ hook'[h].secret = hook[h].secret
        BY <1>2 DEF DeleteInstance, TypeOK, Row
    <2>3. \A h \in Hooks : hook[h] # None => hook'[h] # None
        <3> SUFFICES ASSUME NEW h \in Hooks, hook[h] # None PROVE hook'[h] # None
            OBVIOUS
        <3>1. [hook[h] EXCEPT !.scope = @ \ {i}] \in Row
            BY DEF TypeOK, Row
        <3> QED BY <1>2, <3>1 DEF DeleteInstance
    <2>4. UNCHANGED <<checks, editor, wait, cut, claimed, mixed>>
        BY <1>2 DEF DeleteInstance
    <2>5. HookInv'
        BY <2>2, <2>4 DEF HookInv
    <2>6. \A e \in Editors : editor[e] # None => editor[e].of \in Hooks
        BY DEF TypeOK, Update
    <2>7. EditInv'
        BY <2>2, <2>3, <2>4, <2>6 DEF EditInv
    <2>8. ProvisionedHasCheck'
        BY <2>2, <2>4 DEF ProvisionedHasCheck
    <2> QED BY <2>1, <2>5, <2>7, <2>8
<1>3. ASSUME NEW i \in Instances, NEW n \in Names, Rename(i, n) PROVE RowInv'
    <2>1. NameInv'
        BY <1>3 DEF Rename, NameInv, TypeOK, Alive
    <2> QED BY <1>3, <2>1 DEF Rename, HookInv, EditInv, ProvisionedHasCheck
<1> QED BY <1>1, <1>2, <1>3

\* A check that is deleted is the one of the row that is going to be deleted, or
\* one that a client has given to another row.
LEMMA RowCheckDeleted == ASSUME TypeOK, RowInv, NEW h \in Hooks, DeleteCheck(h) PROVE RowInv'
<1> USE DEF outVars, instVars, webVars, webGhosts, RowInv
<1>1. /\ hook[h] # None /\ wait = None /\ wait' = h
      /\ checks' = checks \ {hook[h].check} \/ checks' = checks
      /\ UNCHANGED <<name, enabled, hook, editor, cut, claimed, mixed>>
    BY DEF DeleteCheck
<1>2. ASSUME NEW g \in Hooks, NEW x, g # h, x \in checks, x \in {g} \cup claimed PROVE x \in checks' \cup claimed
    <2>1. hook[h].check \in {None, h} \cup claimed
        BY <1>1 DEF HookInv
    <2> QED BY <1>1, <1>2, <2>1, NotifierAssumption
<1>3. ProvisionedHasCheck'
    <2> SUFFICES ASSUME NEW g \in Hooks, hook[g] # None, hook[g].check # None, g # h
                 PROVE  hook[g].check \in checks' \cup claimed \/ g \in cut
        BY <1>1 DEF ProvisionedHasCheck
    <2>1. hook[g].check \in checks \cup claimed \/ g \in cut
        BY <1>1, NotifierAssumption DEF ProvisionedHasCheck
    <2>2. hook[g].check \in {g} \cup claimed
        BY DEF HookInv
    <2> QED BY <1>2, <2>1, <2>2
<1>4. EditInv'
    <2> SUFFICES ASSUME NEW e \in Editors, editor[e] # None, editor[e].raced # "replaced", editor[e].config # None,
                        ~editor[e].claims, editor[e].config.check # None, editor[e].of # h
                 PROVE  editor[e].config.check \in checks' \cup claimed \/ editor[e].of \in cut
        BY <1>1 DEF EditInv
    <2>1. editor[e].of \in Hooks
        BY DEF TypeOK, Update
    <2>2. editor[e].config.check \in checks \cup claimed \/ editor[e].of \in cut
        BY <1>1, <2>1, NotifierAssumption DEF EditInv
    <2>3. editor[e].config.check \in {editor[e].of} \cup claimed
        BY DEF EditInv
    <2> QED BY <1>2, <2>1, <2>2, <2>3
<1>5. NameInv' /\ HookInv'
    BY <1>1 DEF NameInv, HookInv
<1> QED BY <1>3, <1>4, <1>5

\* A new row has the check that was made for it; no update of it is under way that
\* was not of a row before it.
LEMMA RowCreated ==
    ASSUME TypeOK, RowInv, NEW h \in Hooks, NEW r \in HookRows, CreateHook(h, r)
    PROVE  RowInv'
<1> USE DEF outVars, instVars, webVars, RowInv
<1>1. PICK new \in Row :
          /\ new.kind = r.kind /\ new.trigger = r.trigger /\ new.check = (IF r.provisioned THEN h ELSE None)
          /\ hook' = hook \/ hook' = [hook EXCEPT ![h] = new]
    BY CreatedRow
<1>2. /\ hook[h] = None /\ checks' = (IF r.provisioned THEN checks \cup {h} ELSE checks \ {h})
      /\ cut' = cut \ {h} /\ mixed' = mixed \ {h}
      /\ UNCHANGED <<name, enabled, editor, wait, claimed>>
    BY DEF CreateHook, Provision
<1>3. \A g \in Hooks : g # h => hook'[g] = hook[g]
    BY <1>1 DEF TypeOK
<1>4. hook'[h] = None \/ hook'[h] = new
    BY <1>1, <1>2 DEF TypeOK
<1>5. r.kind = "healthchecks" => r.trigger = "always"
    BY NotifierAssumption
<1>6. HookInv'
    <2> SUFFICES ASSUME NEW g \in Hooks, hook'[g] # None
                 PROVE  /\ hook'[g].kind = "healthchecks" /\ g \notin mixed' => hook'[g].trigger = "always"
                        /\ hook'[g].check \in {None, g} \cup claimed'
        BY DEF HookInv
    <2>1. CASE g = h
        BY <1>1, <1>4, <1>5, <2>1
    <2>2. CASE g # h
        BY <1>2, <1>3, <2>2 DEF HookInv
    <2> QED BY <2>1, <2>2
<1>7. \A x \in checks \cup claimed : x = h \/ x \in checks' \cup claimed'
    BY <1>2
<1>8. ProvisionedHasCheck'
    <2> SUFFICES ASSUME NEW g \in Hooks, hook'[g] # None, hook'[g].check # None
                 PROVE  hook'[g].check \in checks' \cup claimed' \/ g = wait' \/ g \in cut'
        BY DEF ProvisionedHasCheck
    <2>1. CASE g = h
        BY <1>1, <1>2, <1>4, <2>1
    <2>2. CASE g # h
        <3>1. hook'[g] = hook[g] /\ (hook[g].check \in checks \cup claimed \/ g = wait \/ g \in cut)
            BY <1>3, <2>2 DEF ProvisionedHasCheck
        <3>2. hook[g].check \in {g} \cup claimed
            BY <3>1 DEF HookInv
        <3> QED BY <1>2, <1>7, <2>2, <3>1, <3>2
    <2> QED BY <2>1, <2>2
<1>9. EditInv'
    <2> SUFFICES ASSUME NEW e \in Editors, editor[e] # None, editor[e].raced # "replaced"
                 PROVE  EditInv!(e)'
        BY <1>2 DEF EditInv
    <2>1. editor[e].of \in Hooks /\ hook[editor[e].of] # None /\ editor[e].of # h
        BY <1>2 DEF TypeOK, Update, EditInv
    <2>2. hook'[editor[e].of] = hook[editor[e].of]
        BY <1>3, <2>1
    <2>3. ASSUME editor[e].config # None, ~editor[e].claims, editor[e].config.check # None
          PROVE  editor[e].config.check \in checks' \cup claimed' \/ editor[e].of = wait' \/ editor[e].of \in cut'
        <3>1. /\ editor[e].config.check \in checks \cup claimed \/ editor[e].of = wait \/ editor[e].of \in cut
              /\ editor[e].config.check \in {editor[e].of} \cup claimed
            BY <2>3 DEF EditInv
        <3> QED BY <1>2, <1>7, <2>1, <3>1
    <2> QED BY <1>2, <2>1, <2>2, <2>3 DEF EditInv
<1>10. NameInv'
    BY <1>2 DEF NameInv
<1> QED BY <1>6, <1>8, <1>9, <1>10

\* An update is taken in hand.
LEMMA RowRead ==
    ASSUME TypeOK, RowInv, NEW e \in Editors, NEW h \in Hooks, NEW c \in Saves, ReadHook(e, h, c)
    PROVE  RowInv'
<1> USE DEF outVars, instVars, webGhosts, RowInv
<1>1. UNCHANGED <<name, enabled, hook, checks, wait, cut, claimed, mixed>>
    BY DEF ReadHook
<1>2. PICK u \in Update :
          /\ hook[h] # None /\ editor' = [editor EXCEPT ![e] = u] /\ u.of = h /\ u.raced = "no"
          /\ hook[h].kind = "healthchecks" => u.trigger \in {None, "always"}
          /\ u.config # None => u.config.check = c.check
          /\ u.config # None /\ ~u.typed => u.config.secret = hook[h].secret
          /\ ~u.claims => c.check \in {hook[h].check, None}
    BY UpdateRead
<1>3. editor'[e] = u /\ \A f \in Editors : f # e => editor'[f] = editor[f]
    BY <1>2 DEF TypeOK
<1>4. ASSUME u.config # None, ~u.claims
      PROVE  /\ u.config.check \in {None, h} \cup claimed
             /\ u.config.check # None => u.config.check \in checks \cup claimed \/ h = wait \/ h \in cut
    <2>1. u.config.check \in {hook[h].check, None}
        BY <1>2, <1>4
    <2> QED BY <1>2, <2>1 DEF HookInv, ProvisionedHasCheck
<1>5. EditInv'
    <2> SUFFICES ASSUME NEW f \in Editors, editor'[f] # None, editor'[f].raced # "replaced" PROVE EditInv!(f)'
        BY DEF EditInv
    <2>1. CASE f = e
        BY <1>1, <1>2, <1>3, <1>4, <2>1
    <2>2. CASE f # e
        BY <1>1, <1>3, <2>2 DEF EditInv
    <2> QED BY <2>1, <2>2
<1> QED BY <1>1, <1>5 DEF NameInv, HookInv, ProvisionedHasCheck

\* An update is written, and the others of its row are marked.
LEMMA RowSaved == ASSUME TypeOK, RowInv, NEW e \in Editors, WriteHook(e) PROVE RowInv'
<1> USE NotifierAssumption DEF outVars, instVars, RowInv
<1> DEFINE u == editor[e]
           h == u.of
<1>1. u \in Update /\ h \in Hooks /\ u # None
    BY RowWritten DEF WriteHook
<1>2. UNCHANGED <<name, enabled, checks, wait, cut>>
    BY DEF WriteHook
<1>3. CASE hook[h] = None
    <2>1. hook' = hook /\ claimed' = claimed /\ mixed' = mixed /\ editor' = [editor EXCEPT ![e] = None]
        BY <1>3 DEF WriteHook
    <2>2. editor'[e] = None /\ \A f \in Editors : f # e => editor'[f] = editor[f]
        BY <2>1 DEF TypeOK
    <2>3. EditInv'
        BY <1>2, <2>1, <2>2 DEF EditInv
    <2> QED BY <1>2, <2>1, <2>3 DEF NameInv, HookInv, ProvisionedHasCheck
<1>4. CASE hook[h] # None
    <2>1. PICK new \in Row :
              /\ hook' = [hook EXCEPT ![h] = new]
              /\ new.kind = hook[h].kind
              /\ new.trigger = (IF u.trigger = None THEN hook[h].trigger ELSE u.trigger)
              /\ new.check = (IF u.config = None THEN hook[h].check ELSE u.config.check)
        BY <1>4, RowWritten
    <2>2. hook'[h] = new /\ new # None /\ \A g \in Hooks : g # h => hook'[g] = hook[g]
        BY <1>1, <2>1 DEF TypeOK
    <2>3. /\ claimed \subseteq claimed' /\ mixed \subseteq mixed'
          /\ u.config # None /\ (u.claims \/ u.raced = "replaced") => u.config.check \in claimed' \cup {None}
          /\ u.raced = "replaced" => h \in mixed'
        BY <1>4 DEF WriteHook
    <2>4. new.check \in {None, h} \cup claimed'
        <3>1. CASE u.config = None
            BY <1>1, <1>4, <2>1, <2>3, <3>1 DEF HookInv
        <3>2. CASE u.config # None /\ (u.claims \/ u.raced = "replaced")
            BY <2>1, <2>3, <3>2
        <3>3. CASE u.config # None /\ ~u.claims /\ u.raced # "replaced"
            BY <1>1, <2>1, <2>3, <3>3 DEF EditInv
        <3> QED BY <3>1, <3>2, <3>3
    <2>5. new.check # None => new.check \in checks \cup claimed' \/ h = wait \/ h \in cut
        <3>1. CASE u.config = None
            BY <1>1, <1>4, <2>1, <2>3, <3>1 DEF ProvisionedHasCheck
        <3>2. CASE u.config # None /\ (u.claims \/ u.raced = "replaced")
            BY <2>1, <2>3, <3>2
        <3>3. CASE u.config # None /\ ~u.claims /\ u.raced # "replaced"
            BY <1>1, <2>1, <2>3, <3>3 DEF EditInv
        <3> QED BY <3>1, <3>2, <3>3
    <2>6. new.kind = "healthchecks" /\ h \notin mixed' => new.trigger = "always"
        <3> SUFFICES ASSUME new.kind = "healthchecks", h \notin mixed' PROVE new.trigger = "always"
            OBVIOUS
        <3>1. hook[h].trigger = "always" /\ u.trigger \in {None, "always"}
            BY <1>1, <1>4, <2>1, <2>3 DEF HookInv, EditInv
        <3> QED BY <2>1, <3>1
    <2>7. HookInv'
        <3> SUFFICES ASSUME NEW g \in Hooks, hook'[g] # None
                     PROVE  /\ hook'[g].kind = "healthchecks" /\ g \notin mixed' => hook'[g].trigger = "always"
                            /\ hook'[g].check \in {None, g} \cup claimed'
            BY DEF HookInv
        <3> HIDE DEF u, h
        <3>1. CASE g = h
            BY <2>2, <2>4, <2>6, <3>1
        <3>2. CASE g # h
            BY <2>2, <2>3, <3>2 DEF HookInv
        <3> QED BY <3>1, <3>2
    <2>8. ProvisionedHasCheck'
        <3> SUFFICES ASSUME NEW g \in Hooks, hook'[g] # None, hook'[g].check # None
                     PROVE  hook'[g].check \in checks' \cup claimed' \/ g = wait' \/ g \in cut'
            BY DEF ProvisionedHasCheck
        <3> HIDE DEF u, h
        <3>1. CASE g = h
            BY <1>2, <2>2, <2>5, <3>1
        <3>2. CASE g # h
            BY <1>2, <2>2, <2>3, <3>2 DEF ProvisionedHasCheck
        <3> QED BY <3>1, <3>2
    <2>9. EditInv'
        <3> SUFFICES ASSUME NEW f \in Editors, editor'[f] # None, editor'[f].raced # "replaced" PROVE EditInv!(f)'
            BY DEF EditInv
        <3>1. f # e /\ editor'[f] = Raced(h, "saved")[f]
            BY <1>4, UpdatesAfter
        <3>2. /\ editor[f] # None /\ editor'[f].of = editor[f].of /\ editor'[f].trigger = editor[f].trigger
              /\ editor'[f].config = editor[f].config /\ editor'[f].typed = editor[f].typed
              /\ editor'[f].claims = editor[f].claims
              /\ editor'[f].raced = IF editor[f].of = h /\ editor[f].raced # "replaced" THEN "saved" ELSE editor[f].raced
            BY <1>1, <3>1, RacedUpdates
        <3>3. editor[f].raced # "replaced" /\ editor[f].of \in Hooks
            BY <3>2 DEF TypeOK, Update
        <3> HIDE DEF u, h
        <3>4. /\ hook'[editor[f].of] # None /\ hook'[editor[f].of].kind = hook[editor[f].of].kind
              /\ editor'[f].raced = "no" => editor[f].raced = "no" /\ hook'[editor[f].of] = hook[editor[f].of]
            BY <2>1, <2>2, <3>2, <3>3 DEF EditInv
        <3>5. /\ hook[editor[f].of].kind = "healthchecks" => editor[f].trigger \in {None, "always"}
              /\ editor[f].config # None /\ ~editor[f].claims =>
                    /\ editor[f].config.check \in {None, editor[f].of} \cup claimed
                    /\ editor[f].config.check # None =>
                          editor[f].config.check \in checks \cup claimed \/ editor[f].of = wait \/ editor[f].of \in cut
              /\ editor[f].config # None /\ ~editor[f].typed /\ editor[f].raced = "no" =>
                    editor[f].config.secret = hook[editor[f].of].secret
            BY <3>2, <3>3 DEF EditInv
        <3> QED BY <1>2, <2>3, <3>2, <3>4, <3>5
    <2> QED BY <1>2, <2>7, <2>8, <2>9 DEF NameInv
<1> QED BY <1>3, <1>4

\* A row goes, and the updates that have read it are not of the next one.
LEMMA RowDeleted == ASSUME TypeOK, RowInv, DeleteRow \/ DeleteCut PROVE RowInv'
<1> USE NotifierAssumption DEF outVars, instVars, webVars, webGhosts, RowInv
<1>1. CASE DeleteCut
    BY <1>1 DEF DeleteCut, NameInv, HookInv, EditInv, ProvisionedHasCheck
<1>2. CASE DeleteRow
    <2>1. /\ wait \in Hooks /\ hook' = [hook EXCEPT ![wait] = None] /\ editor' = Raced(wait, "replaced")
          /\ UNCHANGED <<name, enabled, checks, cut, claimed, mixed>>
        BY <1>2 DEF DeleteRow, TypeOK
    <2>2. hook'[wait] = None /\ \A g \in Hooks : g # wait => hook'[g] = hook[g]
        BY <2>1 DEF TypeOK
    <2>3. HookInv' /\ ProvisionedHasCheck' /\ NameInv'
        BY <2>1, <2>2 DEF HookInv, ProvisionedHasCheck, NameInv
    <2>4. EditInv'
        <3> SUFFICES ASSUME NEW f \in Editors, editor'[f] # None, editor'[f].raced # "replaced" PROVE EditInv!(f)'
            BY DEF EditInv
        <3>1. /\ editor[f] # None /\ editor'[f].of = editor[f].of /\ editor'[f].trigger = editor[f].trigger
              /\ editor'[f].config = editor[f].config /\ editor'[f].typed = editor[f].typed
              /\ editor'[f].claims = editor[f].claims
              /\ editor'[f].raced = IF editor[f].of = wait /\ editor[f].raced # "replaced" THEN "replaced" ELSE editor[f].raced
            BY <2>1, RacedUpdates
        <3>2. editor[f].of # wait /\ editor[f].of \in Hooks /\ editor'[f].raced = editor[f].raced
            BY <3>1 DEF TypeOK, Update
        <3>3. hook'[editor[f].of] = hook[editor[f].of]
            BY <2>2, <3>2
        <3> QED BY <2>1, <3>1, <3>2, <3>3 DEF EditInv
    <2> QED BY <2>3, <2>4
<1> QED BY <1>1, <1>2

-----------------------------------------------------------------------------
(* The run, as long as nobody interferes.                                  *)

WorkInv == RunInv /\ PingInv /\ SendInv

\* An instance was touched: nothing is said of the run any more.
LEMMA WorkTouched == ASSUME WorkInv, UNCHANGED run, touched' # {} PROVE WorkInv'
BY DEF WorkInv, RunInv, PingInv, SendInv, Undisturbed

\* What is expected of the run for a row depends on the row and the run.
LEMMA ExpectedSame ==
    ASSUME NEW h, hook'[h] = hook[h], run'.ok = run.ok, run'.bad = run.bad, run'.changed = run.changed
    PROVE  Expected(h)' = Expected(h)
BY DEF Expected, Concern

\* A row was edited: nothing is said of that row any more. (A test ping is no start.)
LEMMA WorkEdited ==
    ASSUME TypeOK, WorkInv, UNCHANGED <<name, enabled, run, told, touched>>, edited \subseteq edited',
           mixed \subseteq mixed' \cup edited',
           \A h \in Hooks : h \notin edited' => hook'[h] = hook[h] /\ (dash'[h] = dash[h] \/ dash'[h] # "START")
    PROVE  WorkInv'
<1>1. RunInv'
    BY DEF WorkInv, RunInv, NamesOf, Done, Alive
<1>2. ASSUME NEW h \in Hooks, Undisturbed(h)' PROVE Undisturbed(h) /\ hook'[h] = hook[h]
    BY <1>2 DEF Undisturbed
<1>3. run.pinged \subseteq Hooks
    BY DEF TypeOK
<1>4. PingInv'
    BY <1>2, <1>3 DEF WorkInv, PingInv, Done
<1>5. ASSUME NEW h \in Hooks, Undisturbed(h)', Heard(h) PROVE Heard(h)'
    <2>1. hook'[h] = hook[h] /\ (dash'[h] = dash[h] \/ dash'[h] # "START")
        BY <1>5 DEF Undisturbed
    <2>2. Expected(h)' = Expected(h)
        BY <2>1, ExpectedSame
    <2> QED BY <1>5, <2>1, <2>2 DEF Heard
<1>6. SendInv'
    BY <1>2, <1>5 DEF WorkInv, SendInv
<1> QED BY <1>1, <1>4, <1>6 DEF WorkInv

\* The steps of operators are of these two kinds.
LEMMA WorkWeb ==
    ASSUME TypeOK, WorkInv,
           \/ \E i \in Instances : Switch(i) \/ DeleteInstance(i)
           \/ \E i \in Instances, n \in Names : Rename(i, n)
           \/ \E i \in Instances, recovery \in BOOLEAN : SendStale(i, recovery)
           \/ \E h \in Hooks : SendTest(h) \/ DeleteCheck(h)
           \/ \E h \in Hooks, r \in HookRows : CreateHook(h, r)
           \/ \E e \in Editors, h \in Hooks, c \in Saves : ReadHook(e, h, c)
           \/ \E e \in Editors : WriteHook(e)
           \/ DeleteRow \/ DeleteCut
    PROVE  WorkInv'
<1> USE DEF outVars, instVars, webVars, webGhosts
<1>1. ASSUME NEW i \in Instances, Switch(i) \/ DeleteInstance(i) PROVE WorkInv'
    BY <1>1, WorkTouched DEF Switch, DeleteInstance
<1>2. ASSUME NEW i \in Instances, NEW n \in Names, Rename(i, n) PROVE WorkInv'
    BY <1>2, WorkTouched DEF Rename
<1>3. ASSUME NEW i \in Instances, NEW recovery \in BOOLEAN, SendStale(i, recovery) PROVE WorkInv'
    BY <1>3, WorkEdited DEF SendStale
<1>4. ASSUME NEW h \in Hooks, SendTest(h) PROVE WorkInv'
    <2>1. \A g \in Hooks : dash'[g] = dash[g] \/ dash'[g] # "START"
        BY <1>4 DEF SendTest, Dispatch, SendHealthchecks, TypeOK
    <2> QED BY <1>4, <2>1, WorkEdited DEF SendTest
<1>5. ASSUME \/ \E h \in Hooks : DeleteCheck(h)
             \/ \E e \in Editors, h \in Hooks, c \in Saves : ReadHook(e, h, c)
      PROVE  WorkInv'
    <2>1. UNCHANGED <<name, enabled, run, told, touched, mixed, hook, dash>> /\ edited \subseteq edited'
        BY <1>5 DEF ReadHook, DeleteCheck
    <2> QED BY <2>1, WorkEdited
<1>6. ASSUME NEW h \in Hooks, NEW r \in HookRows, CreateHook(h, r) PROVE WorkInv'
    <2>1. \A g \in Hooks : g \notin edited' => hook'[g] = hook[g]
        BY <1>6 DEF CreateHook, TypeOK
    <2>2. mixed \subseteq mixed' \cup edited'
        BY <1>6 DEF CreateHook
    <2> QED BY <1>6, <2>1, <2>2, WorkEdited DEF CreateHook
<1>7. ASSUME NEW e \in Editors, WriteHook(e) PROVE WorkInv'
    <2>1. edited' = edited \cup {editor[e].of} /\ mixed \subseteq mixed'
        BY <1>7 DEF WriteHook
    <2>2. \A g \in Hooks : g \notin edited' => hook'[g] = hook[g]
        BY <1>7, <2>1, RowWritten DEF TypeOK
    <2> QED BY <1>7, <2>1, <2>2, WorkEdited DEF WriteHook
<1>8. ASSUME DeleteRow PROVE WorkInv'
    <2>1. \A g \in Hooks : g \notin edited' => hook'[g] = hook[g] /\ dash'[g] = dash[g]
        BY <1>8 DEF DeleteRow, TypeOK
    <2> QED BY <1>8, <2>1, WorkEdited DEF DeleteRow
<1>9. ASSUME DeleteCut PROVE WorkInv'
    BY <1>9, WorkEdited DEF DeleteCut
<1> QED BY <1>1, <1>2, <1>3, <1>4, <1>5, <1>6, <1>7, <1>8, <1>9

\* A run starts over instances that exist.
LEMMA WorkStart ==
    ASSUME TypeOK, NameInv, (\E i \in Instances : StartRun(i)) \/ StartSweep \/ EndRun
    PROVE  WorkInv'
<1>1. CASE EndRun
    <2>1. run'.at = "idle" /\ run'.broken = FALSE
        BY <1>1, IdleFields DEF EndRun
    <2> QED BY <2>1 DEF WorkInv, RunInv, PingInv, SendInv
<1>2. ASSUME \/ StartSweep /\ run'.all = TRUE /\ run'.todo = enabled
             \/ \E i \in Instances : StartRun(i) /\ run'.all = FALSE /\ run'.todo = {i} /\ run'.snap = {<<i, name[i]>>},
             run'.at = "ping", run'.ok = {}, run'.bad = {}, run'.okName = {}, run'.badName = {},
             run'.pinged = {}, run'.broken = FALSE
      PROVE  WorkInv'
    <2>1. UNCHANGED <<name, enabled, hook>> /\ told' = [h \in Hooks |-> None]
        BY <1>2 DEF StartRun, StartSweep, instVars, webVars
    <2>2. \A i \in run'.todo : name[i] # None
        BY <1>2 DEF StartRun, NameInv, Alive
    <2>3. Done' = {} /\ NamesOf({})' = {}
        BY <1>2 DEF Done, NamesOf
    <2>4. RunInv'
        BY <1>2, <2>1, <2>2, <2>3 DEF RunInv, NamesOf, Done
    <2>5. PingInv' /\ SendInv'
        BY <1>2, <2>1 DEF PingInv, SendInv, Heard
    <2> QED BY <2>4, <2>5 DEF WorkInv
<1>3. CASE StartSweep
    <2>1. run' = [Idle EXCEPT !.at = "ping", !.all = TRUE, !.todo = enabled]
        BY <1>3 DEF StartSweep
    <2> QED BY <1>2, <1>3, <2>1, IdleFields DEF RunType
<1>4. ASSUME NEW i \in Instances, StartRun(i) PROVE WorkInv'
    <2>1. run' = [Idle EXCEPT !.at = "ping", !.todo = {i}, !.snap = {<<i, name[i]>>}]
        BY <1>4 DEF StartRun
    <2> QED BY <1>2, <1>4, <2>1, IdleFields DEF RunType
<1> QED BY <1>1, <1>3, <1>4

\* The starts are pinged: the rows whose scope the run falls into.
LEMMA WorkPing == ASSUME TypeOK, WorkInv, PingStarts PROVE WorkInv'
<1> DEFINE pinged == {h \in OnHooks :
                 /\ hook[h].kind = "healthchecks"
                 /\ \/ hook[h].scope = {}
                    \/ hook[h].scope \cap (IF run.all THEN enabled ELSE run.todo) # {}}
<1>1. /\ run.at = "ping" /\ run' = [run EXCEPT !.at = "work", !.pinged = pinged]
      /\ UNCHANGED <<name, enabled, hook, told, touched, edited, mixed>>
    BY DEF PingStarts, instVars, webVars, ghosts, webGhosts
<1>2. \A h \in pinged : /\ h \in Hooks /\ hook[h] # None /\ hook[h].on /\ hook[h].kind = "healthchecks"
                        /\ \/ hook[h].scope = {}
                           \/ hook[h].scope \cap (IF run.all THEN enabled ELSE run.todo) # {}
    BY DEF OnHooks
<1> HIDE DEF pinged
<1>3. /\ run'.at = "work" /\ run'.pinged = pinged /\ run'.all = run.all /\ run'.todo = run.todo
      /\ run'.ok = run.ok /\ run'.bad = run.bad /\ run'.okName = run.okName /\ run'.badName = run.badName
      /\ run'.snap = run.snap /\ run'.broken = run.broken
    BY <1>1 DEF TypeOK
<1>4. RunInv'
    BY <1>1, <1>3 DEF WorkInv, RunInv, NamesOf, Done
<1>5. PingInv'
    <2> SUFFICES ASSUME NEW h \in pinged, touched = {}
                 PROVE  /\ hook[h] # None /\ hook[h].on /\ hook[h].kind = "healthchecks"
                        /\ hook[h].scope = {} \/ hook[h].scope \cap (run'.todo \cup Done') # {}
        BY <1>1, <1>3 DEF PingInv, Undisturbed
    <2>1. run.all => enabled = run.todo \cup Done
        BY <1>1 DEF WorkInv, RunInv
    <2>2. Done' = Done
        BY <1>3 DEF Done
    <2>3. (IF run.all THEN enabled ELSE run.todo) \subseteq run'.todo \cup Done'
        BY <1>3, <2>1, <2>2
    <2> QED BY <1>2, <2>3
<1>6. SendInv'
    BY <1>1, <1>3 DEF WorkInv, SendInv, Heard, Undisturbed
<1> QED BY <1>4, <1>5, <1>6 DEF WorkInv

\* A refusal counts the instance under the name of its snapshot.
LEMMA WorkRefuse == ASSUME TypeOK, WorkInv, NEW i \in Instances, Refuse(i) PROVE WorkInv'
<1> DEFINE names == {p[2] : p \in run.snap}
<1>1. /\ run.at = "ping" /\ ~run.all /\ i \in run.todo
      /\ run' = [run EXCEPT !.at = "work", !.todo = {}, !.bad = {i}, !.badName = names]
      /\ UNCHANGED <<name, enabled, hook, told, touched, edited, mixed>>
    BY DEF Refuse, instVars, webVars, ghosts, webGhosts
<1>2. run.snap = {<<i, name[i]>>} => names = {name[i]}
    OBVIOUS
<1> HIDE DEF names
<1>3. /\ run'.at = "work" /\ run'.pinged = run.pinged /\ run'.all = run.all /\ run'.todo = {}
      /\ run'.ok = run.ok /\ run'.bad = {i} /\ run'.okName = run.okName /\ run'.badName = names
      /\ run'.broken = run.broken
    BY <1>1 DEF TypeOK
<1>4. RunInv'
    <2> SUFFICES ASSUME touched = {} PROVE RunInv'
        BY <1>1 DEF RunInv
    <2>1. /\ name[i] # None /\ run.ok = {} /\ run.okName = NamesOf({})
          /\ run.snap = {<<i, name[i]>>}
        BY <1>1 DEF WorkInv, RunInv, Done
    <2>2. names = NamesOf({i})'
        BY <1>1, <1>2, <2>1 DEF NamesOf
    <2>3. (run.okName = NamesOf(run.ok))' /\ (run.badName = NamesOf(run.bad))'
        BY <1>1, <1>3, <2>1, <2>2 DEF NamesOf
    <2>4. run'.todo \cup Done' = {i}
        BY <1>3, <2>1 DEF Done
    <2> QED BY <1>1, <1>3, <2>1, <2>3, <2>4 DEF RunInv, NamesOf
<1>5. PingInv'
    BY <1>1, <1>3 DEF WorkInv, PingInv
<1>6. SendInv'
    BY <1>1, <1>3 DEF WorkInv, SendInv, Heard, Undisturbed
<1> QED BY <1>4, <1>5, <1>6 DEF WorkInv

\* A task of the sweep begins, or dies.
LEMMA WorkTask ==
    ASSUME TypeOK, WorkInv, NEW i \in Instances, BeginBackup(i) \/ TaskCrashes(i)
    PROVE  WorkInv'
<1>1. CASE BeginBackup(i)
    <2>1. /\ run.at = "work" /\ run.all /\ run' = [run EXCEPT !.snap = @ \cup {<<i, name[i]>>}]
          /\ UNCHANGED <<name, enabled, hook, told, touched, edited, mixed>>
        BY <1>1 DEF BeginBackup, instVars, webVars, ghosts, webGhosts
    <2>2. /\ run'.at = "work" /\ run'.pinged = run.pinged /\ run'.all = run.all /\ run'.todo = run.todo
          /\ run'.ok = run.ok /\ run'.bad = run.bad /\ run'.okName = run.okName /\ run'.badName = run.badName
          /\ run'.broken = run.broken
        BY <2>1 DEF TypeOK
    <2>3. RunInv'
        BY <2>1, <2>2 DEF WorkInv, RunInv, NamesOf, Done
    <2>4. PingInv' /\ SendInv'
        BY <2>1, <2>2 DEF WorkInv, PingInv, SendInv, Heard, Undisturbed, Done
    <2> QED BY <2>3, <2>4 DEF WorkInv
<1>2. CASE TaskCrashes(i)
    <2> DEFINE at == IF run.all THEN run.at ELSE "sent"
               over == ~run.all
    <2>1. /\ run.at = "work" \/ (run.at = "ping" /\ ~run.all)
          /\ run' = [run EXCEPT !.todo = @ \ {i}, !.snap = {p \in @ : p[1] # i}, !.at = at, !.broken = over]
          /\ touched' # {}
        BY <1>2 DEF TaskCrashes
    <2>2. over \in BOOLEAN /\ (run.all => at = "work" /\ ~over) /\ (~run.all => at = "sent" /\ over)
        BY <2>1 DEF TypeOK
    <2> HIDE DEF at, over
    <2>3. run'.at = at /\ run'.broken = over
        BY <2>1, <2>2 DEF TypeOK
    <2>4. run.all \in BOOLEAN
        BY DEF TypeOK
    <2> QED BY <2>1, <2>2, <2>3, <2>4 DEF RunInv, PingInv, SendInv, Undisturbed, WorkInv
<1> QED BY <1>1, <1>2

\* One instance's backup ends: it is counted under its name, and only rows that
\* hear of changes are told something yet.
LEMMA WorkEnd ==
    ASSUME TypeOK, WorkInv, NEW i \in Instances, NEW ok \in BOOLEAN, NEW changed \in BOOLEAN,
           EndBackup(i, ok, changed)
    PROVE  WorkInv'
<1> DEFINE counted == CountedAs(i)
<1>1. /\ run' = [run EXCEPT !.todo = @ \ {i},
                 !.ok = IF ok THEN @ \cup {i} ELSE @, !.bad = IF ok THEN @ ELSE @ \cup {i},
                 !.okName = IF ok THEN @ \cup counted ELSE @,
                 !.badName = IF ok THEN @ ELSE @ \cup counted,
                 !.changed = IF run.all THEN FALSE ELSE changed,
                 !.snap = {p \in @ : p[1] # i}]
      /\ \E some : /\ \A h \in some : run.all /\ hook[h].trigger = "change"
                   /\ told' = [h \in Hooks |-> IF h \in some THEN "CHANGED" ELSE told[h]]
      /\ run.at = "work" /\ i \in run.todo
      /\ UNCHANGED <<name, enabled, hook, touched, edited, mixed>>
    <2>1. \A n : \A some \in ToldOfChange(n) : \A h \in some : hook[h].trigger = "change"
        BY DEF ToldOfChange, Reached
    <2> QED BY <2>1 DEF EndBackup, instVars, webVars, ghosts, webGhosts
<1>2. ASSUME touched = {} PROVE counted = {name[i]} /\ name[i] # None
    <2>1. name[i] # None /\ (~run.all => run.snap = {<<i, name[i]>>})
        BY <1>1, <1>2 DEF WorkInv, RunInv
    <2>2. CASE run.all
        BY <2>1, <2>2 DEF CountedAs
    <2>3. CASE ~run.all
        <3>1. run.snap = {<<i, name[i]>>}
            BY <2>1, <2>3
        <3>2. {p[2] : p \in run.snap} = {name[i]}
            BY <3>1
        <3> QED BY <2>1, <2>3, <3>2 DEF CountedAs
    <2> QED BY <2>2, <2>3
<1> HIDE DEF counted
<1>3. /\ run'.at = "work" /\ run'.pinged = run.pinged /\ run'.all = run.all /\ run'.todo = run.todo \ {i}
      /\ run'.broken = run.broken /\ run'.snap = {p \in run.snap : p[1] # i}
    BY <1>1 DEF TypeOK
<1>4. \/ /\ run'.ok = run.ok \cup {i} /\ run'.bad = run.bad
         /\ run'.okName = run.okName \cup counted /\ run'.badName = run.badName
      \/ /\ run'.ok = run.ok /\ run'.bad = run.bad \cup {i}
         /\ run'.okName = run.okName /\ run'.badName = run.badName \cup counted
    <2>1. CASE ok
        BY <1>1, <2>1 DEF TypeOK
    <2>2. CASE ~ok
        BY <1>1, <2>2 DEF TypeOK
    <2> QED BY <2>1, <2>2
<1>5. run'.todo \cup Done' = run.todo \cup Done
    BY <1>1, <1>3, <1>4 DEF Done
<1>6. RunInv'
    <2> SUFFICES ASSUME touched = {} PROVE RunInv'
        BY <1>1 DEF RunInv
    <2>1. /\ \A j \in run.todo \cup Done : name[j] # None
          /\ run.okName = NamesOf(run.ok) /\ run.badName = NamesOf(run.bad)
          /\ run.all => enabled = run.todo \cup Done
          /\ ~run.all => \A j \in run.todo : run.snap = {<<j, name[j]>>}
        BY <1>1 DEF WorkInv, RunInv
    <2>2. \A S : NamesOf(S)' = NamesOf(S)
        BY <1>1 DEF NamesOf
    <2>3. \A S : NamesOf(S \cup {i}) = NamesOf(S) \cup counted
        BY <1>2 DEF NamesOf
    <2>4. (run.okName = NamesOf(run.ok))' /\ (run.badName = NamesOf(run.bad))'
        BY <1>4, <2>1, <2>2, <2>3
    <2>5. ~run.all => run'.todo = {}
        <3> SUFFICES ASSUME ~run.all, NEW j \in run.todo, j # i PROVE FALSE
            BY <1>3
        <3>1. <<i, name[i]>> = <<j, name[j]>>
            BY <1>1, <2>1
        <3> QED BY <3>1
    <2> QED BY <1>1, <1>3, <1>5, <2>1, <2>4, <2>5 DEF RunInv
<1>7. PingInv'
    BY <1>1, <1>3, <1>5 DEF WorkInv, PingInv, Undisturbed
<1>8. ASSUME NEW h \in Hooks, hook[h] # None, ~(run.all /\ hook[h].trigger = "change") PROVE told'[h] = told[h]
    BY <1>1, <1>8
<1>9. SendInv'
    BY <1>1, <1>3, <1>8 DEF WorkInv, SendInv, Heard, Undisturbed
<1> QED BY <1>6, <1>7, <1>9 DEF WorkInv

\* The loop over the rows begins with everything that is enabled.
LEMMA WorkBegin == ASSUME TypeOK, WorkInv, BeginSend PROVE WorkInv'
<1> DEFINE ids == {<<i, name[i]>> : i \in Alive}
<1>1. /\ run.at = "work" /\ run.todo = {} /\ run' = [run EXCEPT !.at = "send", !.left = OnHooks, !.ids = ids]
      /\ UNCHANGED <<name, enabled, hook, told, touched, edited, mixed>>
    BY DEF BeginSend, instVars, webVars, ghosts, webGhosts
<1>2. (run'.ids = ids => (run.ids = {<<i, name[i]>> : i \in Alive})')
    BY <1>1 DEF Alive
<1> HIDE DEF ids
<1>3. /\ run'.at = "send" /\ run'.left = OnHooks /\ run'.ids = ids /\ run'.pinged = run.pinged
      /\ run'.all = run.all /\ run'.todo = {}
      /\ run'.ok = run.ok /\ run'.bad = run.bad /\ run'.okName = run.okName /\ run'.badName = run.badName
      /\ run'.broken = run.broken
    BY <1>1 DEF TypeOK
<1>4. RunInv'
    BY <1>1, <1>2, <1>3 DEF WorkInv, RunInv, NamesOf, Done
<1>5. PingInv'
    BY <1>1, <1>3 DEF WorkInv, PingInv, Undisturbed, Done
<1>6. SendInv'
    <2> SUFFICES ASSUME NEW h \in Hooks, hook[h] # None, Undisturbed(h), ~(run.all /\ hook[h].trigger = "change")
                 PROVE  Heard(h)'
        BY <1>1, <1>3 DEF WorkInv, SendInv, Undisturbed
    <2>1. told[h] = None /\ (h \in run.pinged => hook[h].on)
        BY <1>1 DEF WorkInv, SendInv, PingInv, Heard
    <2>2. h \in run'.left <=> hook[h].on
        BY <1>3 DEF OnHooks
    <2> QED BY <1>1, <1>3, <2>1, <2>2 DEF Heard
<1> QED BY <1>4, <1>5, <1>6 DEF WorkInv

\* Looking names up again finds the instances of the run, so that a row is skipped,
\* or hears of a failure, exactly by the ids in its scope.
LEMMA ScopeByIds ==
    ASSUME TypeOK, NameInv, RunInv, run.at = "send", touched = {}, NEW h \in Hooks, hook[h] # None
    PROVE  /\ Skips(h) <=> hook[h].scope # {} /\ Concern(h) = {}
           /\ ~Skips(h) => (Succeeded(h) <=> Concern(h) \cap run.bad = {})
<1>1. /\ run.okName = NamesOf(run.ok) /\ run.badName = NamesOf(run.bad)
      /\ run.ids = {<<i, name[i]>> : i \in Alive}
      /\ \A i \in Done : name[i] # None
    BY DEF RunInv
<1>2. Done \subseteq Instances /\ hook[h].scope \subseteq Instances
    BY DEF TypeOK, Row, Done
<1>3. ASSUME NEW S \in SUBSET Done
      PROVE  InScope(h, NamesOf(S)) = {} <=> hook[h].scope \cap S = {}
    <2>1. ASSUME NEW i \in hook[h].scope \cap S PROVE name[i] \in InScope(h, NamesOf(S))
        <3>1. i \in Alive
            BY <1>1, <1>2 DEF Alive
        <3>2. <<i, name[i]>> \in run.ids /\ name[i] \in NamesOf(S)
            BY <1>1, <3>1 DEF NamesOf
        <3> QED BY <3>2 DEF InScope
    <2>2. ASSUME NEW n \in InScope(h, NamesOf(S)) PROVE hook[h].scope \cap S # {}
        <3>1. PICK i \in hook[h].scope : <<i, n>> \in run.ids
            BY DEF InScope
        <3>2. PICK j \in S : n = name[j]
            BY DEF InScope, NamesOf
        <3>3. i \in Instances /\ name[i] = n /\ name[i] # None
            BY <1>1, <3>1 DEF Alive
        <3>4. i = j
            BY <1>2, <3>2, <3>3 DEF NameInv
        <3> QED BY <3>4
    <2> QED BY <2>1, <2>2
<1>4. run.okName \cup run.badName = NamesOf(Done)
    BY <1>1 DEF NamesOf, Done
<1>5. Skips(h) <=> hook[h].scope # {} /\ hook[h].scope \cap Done = {}
    BY <1>3, <1>4 DEF Skips
<1>6. run.badName = {} <=> run.bad = {}
    BY <1>1 DEF NamesOf
<1>7. InScope(h, run.badName) = {} <=> hook[h].scope \cap run.bad = {}
    BY <1>1, <1>3 DEF Done
<1> QED BY <1>5, <1>6, <1>7 DEF Succeeded, Concern, Done

\* What the loop sends a row is what is expected for it.
LEMMA SendsExpected ==
    ASSUME TypeOK, NameInv, RunInv, run.at = "send", touched = {}, NEW h \in Hooks, hook[h] # None
    PROVE  /\ Sends(h) => Label(h) = Expected(h)
           /\ ~Sends(h) => Expected(h) = None
<1>1. hook[h].trigger \in Triggers
    BY DEF TypeOK, Row
<1>2. CASE Skips(h)
    BY <1>2, ScopeByIds DEF Sends, Expected
<1>3. CASE ~Skips(h)
    <2> DEFINE failed == Concern(h) \cap run.bad # {}
    <2>1. ~(hook[h].scope # {} /\ Concern(h) = {}) /\ (Succeeded(h) <=> ~failed)
        BY <1>3, ScopeByIds
    <2>2. Sends(h) <=> ShouldSend(hook[h].trigger, ~failed, run.changed)
        BY <1>3, <2>1 DEF Sends, ShouldSend
    <2>3. Expected(h) =
              IF hook[h].scope # {} /\ Concern(h) = {} THEN None ELSE
              CASE hook[h].trigger = "change" -> IF run.changed /\ ~failed THEN "CHANGED" ELSE None
                [] hook[h].trigger = "stale" -> None
                [] hook[h].trigger = "always" -> IF failed THEN "FAILURE" ELSE "SUCCESS"
                [] hook[h].trigger = "success" -> IF failed THEN None ELSE "SUCCESS"
                [] hook[h].trigger = "failure" -> IF failed THEN "FAILURE" ELSE None
        BY DEF Expected
    <2> HIDE DEF failed
    <2>4. CASE hook[h].trigger = "change"
        BY <2>1, <2>2, <2>3, <2>4 DEF ShouldSend, Label
    <2>5. CASE hook[h].trigger = "stale"
        BY <2>1, <2>2, <2>3, <2>5 DEF ShouldSend, Label
    <2>6. CASE hook[h].trigger = "always"
        BY <2>1, <2>2, <2>3, <2>6 DEF ShouldSend, Label
    <2>7. CASE hook[h].trigger = "success"
        BY <2>1, <2>2, <2>3, <2>7 DEF ShouldSend, Label
    <2>8. CASE hook[h].trigger = "failure"
        BY <2>1, <2>2, <2>3, <2>8 DEF ShouldSend, Label
    <2> QED BY <1>1, <2>4, <2>5, <2>6, <2>7, <2>8 DEF Triggers
<1> QED BY <1>2, <1>3

\* A row is dispatched.
LEMMA WorkSend ==
    ASSUME TypeOK, NameInv, HookInv, WorkInv, NEW h \in Hooks, SendOne(h)
    PROVE  WorkInv'
<1> DEFINE sends == hook[h] # None /\ Sends(h)
           goes == sends /\ hook[h].fmt
           b == sends /\ ~hook[h].fmt
<1>1. /\ run.at = "send" /\ h \in run.left /\ ~run.broken
      /\ run' = [run EXCEPT !.left = @ \ {h}, !.broken = b]
      /\ told' = IF goes THEN [told EXCEPT ![h] = Label(h)] ELSE told
      /\ dash' = IF goes THEN Dispatch(dash, h, Label(h)) ELSE dash
      /\ UNCHANGED <<name, enabled, hook, touched, edited, mixed>>
    BY DEF SendOne, instVars, webVars, ghosts, webGhosts
<1>2. b \in BOOLEAN
    OBVIOUS
<1>3. ASSUME hook[h] # None, touched = {}, ~b
      PROVE  (goes /\ Label(h) = Expected(h)) \/ (~goes /\ ~Sends(h) /\ Expected(h) = None)
    BY <1>1, <1>3, SendsExpected DEF WorkInv
<1>4. ASSUME hook[h] # None, ~b, Undisturbed(h), h \in run.pinged PROVE goes
    <2>1. hook[h].trigger = "always"
        BY <1>1, <1>4 DEF WorkInv, PingInv, HookInv, Undisturbed
    <2>2. ~Skips(h)
        <3>1. hook[h].scope = {} \/ hook[h].scope \cap (run.todo \cup Done) # {}
            BY <1>1, <1>4 DEF WorkInv, PingInv
        <3>2. run.todo = {} /\ RunInv /\ touched = {}
            BY <1>1, <1>4 DEF WorkInv, RunInv, Undisturbed
        <3>3. Skips(h) <=> hook[h].scope # {} /\ Concern(h) = {}
            BY <1>1, <1>4, <3>2, ScopeByIds
        <3> QED BY <3>1, <3>2, <3>3 DEF Concern, Done
    <2> QED BY <1>4, <2>1, <2>2 DEF Sends, ShouldSend
<1> HIDE DEF b, goes
<1>5. /\ run'.at = "send" /\ run'.left = run.left \ {h} /\ run'.ids = run.ids /\ run'.pinged = run.pinged
      /\ run'.all = run.all /\ run'.todo = run.todo /\ run'.changed = run.changed
      /\ run'.ok = run.ok /\ run'.bad = run.bad /\ run'.okName = run.okName /\ run'.badName = run.badName
      /\ run'.broken = b
    BY <1>1, <1>2 DEF TypeOK
<1>6. RunInv'
    BY <1>1, <1>5 DEF WorkInv, RunInv, NamesOf, Done, Alive
<1>7. PingInv'
    BY <1>1, <1>5 DEF WorkInv, PingInv, Undisturbed, Done
<1>8. SendInv'
    <2> SUFFICES ASSUME NEW g \in Hooks, ~b, hook[g] # None, Undisturbed(g),
                        ~(run.all /\ hook[g].trigger = "change")
                 PROVE  Heard(g)'
        BY <1>1, <1>5 DEF SendInv, Undisturbed
    <2>1. Heard(g)
        BY <1>1 DEF WorkInv, SendInv
    <2>2. Expected(g)' = Expected(g)
        BY <1>1, <1>5, ExpectedSame
    <2>3. CASE g # h
        <3>1. told'[g] = told[g] /\ dash'[g] = dash[g]
            BY <1>1, <2>3 DEF TypeOK, Dispatch, SendHealthchecks
        <3> QED BY <1>1, <1>5, <2>1, <2>2, <2>3, <3>1 DEF Heard
    <2>4. CASE g = h
        <3>1. told[h] = None
            BY <1>1, <2>1, <2>4 DEF Heard
        <3>2. touched = {}
            BY DEF Undisturbed
        <3>3. told'[h] = Expected(h)
            BY <1>1, <1>3, <2>4, <3>1, <3>2 DEF TypeOK
        <3>4. ASSUME h \in run.pinged PROVE dash'[h] # "START"
            <4>1. goes /\ hook[h].kind = "healthchecks"
                BY <1>1, <1>4, <2>4, <3>4 DEF WorkInv, PingInv
            <4>2. dash'[h] \in {"FAILURE", "SUCCESS"}
                BY <1>1, <4>1 DEF TypeOK, Dispatch, SendHealthchecks
            <4> QED BY <4>2
        <3> QED BY <1>1, <1>5, <2>2, <2>4, <3>3, <3>4 DEF Heard
    <2> QED BY <2>3, <2>4
<1> QED BY <1>6, <1>7, <1>8 DEF WorkInv

\* The loop ends: with nothing left, or broken.
LEMMA WorkSent == ASSUME TypeOK, WorkInv, EndSend PROVE WorkInv'
<1>1. /\ run.at = "send" /\ (run.left = {} \/ run.broken) /\ run' = [run EXCEPT !.at = "sent"]
      /\ UNCHANGED <<name, enabled, hook, told, dash, touched, edited, mixed>>
    BY DEF EndSend, instVars, webVars, outVars, ghosts, webGhosts
<1>2. /\ run'.at = "sent" /\ run'.left = run.left /\ run'.ids = run.ids /\ run'.pinged = run.pinged
      /\ run'.all = run.all /\ run'.todo = run.todo /\ run'.changed = run.changed
      /\ run'.ok = run.ok /\ run'.bad = run.bad /\ run'.okName = run.okName /\ run'.badName = run.badName
      /\ run'.broken = run.broken
    BY <1>1 DEF TypeOK
<1>3. RunInv'
    BY <1>1, <1>2 DEF WorkInv, RunInv, NamesOf, Done, Alive
<1>4. PingInv'
    BY <1>1, <1>2 DEF WorkInv, PingInv, Undisturbed, Done
<1>5. \A h : Expected(h)' = Expected(h)
    BY <1>1, <1>2, ExpectedSame
<1>6. \A h \in Hooks : Heard(h)' <=> Heard(h)
    BY <1>1, <1>2, <1>5 DEF Heard
<1>7. SendInv'
    BY <1>1, <1>2, <1>6 DEF WorkInv, SendInv, Undisturbed
<1> QED BY <1>3, <1>4, <1>7 DEF WorkInv

-----------------------------------------------------------------------------
\* The initial state.
LEMMA NInit == ASSUME Init PROVE NInv
<1> USE NotifierAssumption DEF Init
<1>0. /\ hook \in [Hooks -> Row \cup {None}]
      /\ \A h \in Hooks : hook[h] # None =>
            /\ hook[h].kind = "healthchecks" => hook[h].trigger = "always"
            /\ hook[h].check \in {None, h}
    <2>1. PICK f \in [Hooks -> HookRows \cup {None}] :
              hook = [h \in Hooks |-> IF f[h] = None THEN None ELSE Stored(h, f[h])]
        OBVIOUS
    <2>2. \A h \in Hooks : f[h] # None => f[h] \in NewRow /\ (f[h].kind = "healthchecks" => f[h].trigger = "always")
        OBVIOUS
    <2> QED BY <2>1, <2>2, StoredRow
<1>1. TypeOK
    <2>1. run \in RunType
        BY IdleFields
    <2>2. hook \in [Hooks -> Row \cup {None}] /\ checks \subseteq Hooks
        BY <1>0
    <2>3. left \in [Events -> Nat]
        OBVIOUS
    <2> QED BY <2>1, <2>2, <2>3 DEF TypeOK, RunType
<1>2. NameInv /\ HookInv /\ EditInv /\ ProvisionedHasCheck
    BY <1>0 DEF NameInv, HookInv, EditInv, ProvisionedHasCheck
<1>3. RunInv /\ PingInv /\ SendInv
    BY IdleFields DEF RunInv, PingInv, SendInv
<1> QED BY <1>1, <1>2, <1>3 DEF NInv

\* Every step keeps the invariant.
LEMMA NInductive == ASSUME NInv, [Next]_vars PROVE NInv'
<1> USE DEF NInv
<1>1. RowInv /\ WorkInv
    BY DEF RowInv, WorkInv
<1>2. ASSUME TypeOK', RowInv', WorkInv' PROVE NInv'
    BY <1>2 DEF RowInv, WorkInv
<1>3. CASE UNCHANGED vars
    <2>1. TypeOK'
        BY <1>3 DEF vars, instVars, webVars, outVars, ghosts, webGhosts, TypeOK
    <2> QED BY <1>1, <1>2, <1>3, <2>1, RowSame, WorkEdited DEF vars, instVars, webVars, outVars, ghosts, webGhosts
<1>4. CASE \/ \E i \in Instances : StartRun(i) \/ Refuse(i) \/ BeginBackup(i) \/ TaskCrashes(i)
           \/ StartSweep \/ PingStarts \/ BeginSend \/ EndSend \/ EndRun
           \/ \E i \in Instances, ok, changed \in BOOLEAN : EndBackup(i, ok, changed)
           \/ \E h \in Hooks : SendOne(h)
    <2>1. UNCHANGED <<name, enabled, hook, checks, editor, wait, cut, claimed, mixed>>
        BY <1>4 DEF StartRun, Refuse, BeginBackup, TaskCrashes, StartSweep, PingStarts, BeginSend, EndSend,
                    EndRun, EndBackup, SendOne, instVars, webVars, ghosts, webGhosts
    <2>2. RowInv'
        BY <1>1, <2>1, RowSame
    <2>3. TypeOK'
        BY <1>4, TypeStart, TypePing, TypeWork, TypeEnd, TypeSend
    <2>4. WorkInv'
        BY <1>1, <1>4, WorkStart, WorkPing, WorkRefuse, WorkTask, WorkEnd, WorkBegin, WorkSend, WorkSent
    <2> QED BY <1>2, <2>2, <2>3, <2>4
<1>5. CASE \/ \E i \in Instances : Switch(i) \/ DeleteInstance(i)
           \/ \E i \in Instances, n \in Names : Rename(i, n)
           \/ \E i \in Instances, recovery \in BOOLEAN : SendStale(i, recovery)
           \/ \E h \in Hooks : SendTest(h) \/ DeleteCheck(h)
           \/ \E h \in Hooks, r \in HookRows : CreateHook(h, r)
           \/ \E e \in Editors, h \in Hooks, c \in Saves : ReadHook(e, h, c)
           \/ \E e \in Editors : WriteHook(e)
           \/ DeleteRow \/ DeleteCut
    <2>1. TypeOK'
        BY <1>5, TypeWeb
    <2>2. WorkInv'
        BY <1>1, <1>5, WorkWeb
    <2>3. ASSUME (\E h \in Hooks : SendTest(h)) \/ \E i \in Instances, recovery \in BOOLEAN : SendStale(i, recovery)
          PROVE  RowInv'
        <3>1. UNCHANGED <<name, enabled, hook, checks, editor, wait, cut, claimed, mixed>>
            BY <2>3 DEF SendStale, SendTest, instVars, webVars, webGhosts
        <3> QED BY <1>1, <3>1, RowSame
    <2>4. RowInv'
        BY <1>1, <1>5, <2>3, RowInstances, RowCheckDeleted, RowCreated, RowRead, RowSaved, RowDeleted
    <2> QED BY <1>2, <2>1, <2>2, <2>4
<1>6. CASE Next
    BY <1>4, <1>5, <1>6 DEF Next
<1> QED BY <1>3, <1>6

\* The invariant holds throughout.
LEMMA NInvariant == Spec => []NInv
<1>1. Init => NInv
    BY NInit
<1>2. NInv /\ [Next]_vars => NInv'
    BY NInductive
<1> QED BY <1>1, <1>2, PTL DEF Spec

-----------------------------------------------------------------------------
\* Runs, rows, checks and what was told keep their types, whatever operators do
\* meanwhile.
THEOREM NotifierTyped == Spec => []TypeOK
<1>1. NInv => TypeOK
    BY DEF NInv
<1> QED BY <1>1, NInvariant, PTL

\* Although a run knows instances by id and send (with _resolve_scope) by names it
\* looks up again, a finished run has told every row what scope and trigger call for.
THEOREM RoutedRight == Spec => []Routed
<1>1. ASSUME NInv PROVE Routed
    <2> SUFFICES ASSUME run.at = "sent", ~run.broken, NEW h \in OnHooks, Undisturbed(h),
                        ~(run.all /\ hook[h].trigger = "change")
                 PROVE  told[h] = Expected(h)
        BY DEF Routed
    <2>1. h \in Hooks /\ hook[h] # None /\ hook[h].on
        BY DEF OnHooks
    <2> QED BY <1>1, <2>1 DEF NInv, SendInv, Heard
<1> QED BY <1>1, NInvariant, PTL

\* No check is left started after a run (ping_starts against send).
THEOREM StartsEnded == Spec => []StartsAreEnded
<1>1. ASSUME NInv PROVE StartsAreEnded
    <2> SUFFICES ASSUME run.at = "sent", ~run.broken, NEW h \in run.pinged, Undisturbed(h)
                 PROVE  dash[h] # "START"
        BY DEF StartsAreEnded
    <2>1. h \in Hooks /\ hook[h] # None /\ hook[h].kind = "healthchecks" /\ h \notin mixed
        BY <1>1 DEF NInv, TypeOK, PingInv, Undisturbed
    <2>2. hook[h].trigger # "change"
        BY <1>1, <2>1 DEF NInv, HookInv
    <2> QED BY <1>1, <2>1, <2>2 DEF NInv, SendInv, Heard
<1> QED BY <1>1, NInvariant, PTL

\* Only an update whose client sent a secret, or one that another write came in
\* between of (update_notification), changes the secret of a row that stays.
LEMMA SecretStep ==
    ASSUME NInv, Next, NEW h \in Hooks, hook[h] # None, hook'[h] # None, hook'[h].secret # hook[h].secret
    PROVE  \E e \in Editors : Writes(e, h) /\ (editor[e].typed \/ editor[e].raced # "no")
<1> USE DEF instVars, webVars, outVars, ghosts, webGhosts
<1>1. TypeOK /\ EditInv
    BY DEF NInv
<1>2. ASSUME NEW i \in Instances, DeleteInstance(i) PROVE FALSE
    <2>1. hook'[h] = [hook[h] EXCEPT !.scope = @ \ {i}]
        BY <1>2 DEF DeleteInstance
    <2> QED BY <1>1, <2>1 DEF TypeOK, Row
<1>3. ASSUME NEW g \in Hooks, NEW r \in HookRows, CreateHook(g, r) PROVE FALSE
    BY <1>1, <1>3 DEF CreateHook, TypeOK
<1>4. ASSUME DeleteRow PROVE FALSE
    BY <1>1, <1>4 DEF DeleteRow, TypeOK
<1>5. PICK e \in Editors : WriteHook(e)
    BY <1>2, <1>3, <1>4
       DEF Next, StartRun, Refuse, BeginBackup, TaskCrashes, Switch, StartSweep, PingStarts, BeginSend, EndSend, EndRun,
           EndBackup, Rename, SendOne, SendTest, DeleteCheck, ReadHook, SendStale, DeleteCut
<1>6. editor[e] # None /\ editor'[e] = None
    BY <1>1, <1>5, UpdatesAfter DEF WriteHook
<1>7. editor[e].of = h
    BY <1>1, <1>5, RowWritten DEF TypeOK
<1>8. editor[e].config # None /\ editor[e].config.secret # hook[h].secret
    <2>1. PICK new \in Row :
              /\ hook' = [hook EXCEPT ![h] = new]
              /\ new.secret = (IF editor[e].config = None THEN hook[h].secret ELSE editor[e].config.secret)
        BY <1>1, <1>5, <1>7, RowWritten
    <2> QED BY <1>1, <2>1 DEF TypeOK
<1>9. editor[e].typed \in BOOLEAN
    BY <1>1, <1>6 DEF TypeOK, Update
<1> QED BY <1>1, <1>6, <1>7, <1>8, <1>9 DEF Writes, EditInv

\* A client that sends the placeholder back keeps the secret (_redact_config,
\* _merge_secrets), however updates, deletions and new rows overlap; except where
\* something is written between its own read and write.
THEOREM SecretsSurvive == Spec => SecretKept
<1> DEFINE Kept == \A h \in Hooks :
          hook[h] # None /\ hook'[h] # None /\ hook'[h].secret # hook[h].secret
              => \E e \in Editors : Writes(e, h) /\ (editor[e].typed \/ editor[e].raced # "no")
<1>1. NInv /\ [Next]_vars => [Kept]_vars
    BY SecretStep
<1>2. Spec => [][Kept]_vars
    BY <1>1, NInvariant, PTL DEF Spec
<1> QED BY <1>2 DEF SecretKept

\* A row has the check it names, whatever fails between Healthchecks and the
\* database, unless its deletion was cut off or a client gave a row that check.
THEOREM ProvisionedChecked == Spec => []ProvisionedHasCheck
<1>1. NInv => ProvisionedHasCheck
    BY DEF NInv
<1> QED BY <1>1, NInvariant, PTL

=============================================================================
