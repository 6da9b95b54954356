----------------------------- MODULE ConfigDiff -----------------------------
(***************************************************************************)
(* What the diff of two parsed configurations contains, and which anchors  *)
(* it touches.  A configuration is reduced to one section of each shape    *)
(* the code tells apart:                                                   *)
(*                                                                         *)
(*   rules    a list matched by key whose order matters (firewall, NAT)    *)
(*   aliases  a list matched by key whose order does not matter            *)
(*   dns      an optional record whose fields are anchors, with the kinds  *)
(*            of fields that the singleton sections have: flags (two, that *)
(*            get another scope and tag), texts, lists, and a record in    *)
(*            the record (webgui of SystemInfo, smtp of notifications)     *)
(*   pkgs     the optional installed packages: one with fields (telegraf)  *)
(*            and one with a list of rows (haproxy)                        *)
(*                                                                         *)
(* An anchor is <<namespace, scope, tail>>. A row is its key and the rest. *)
(* A record in a record and telegraf are reduced to one field of theirs.   *)
(***************************************************************************)
EXTENDS Naturals, Sequences, FiniteSets, FiniteSetsExt

CONSTANTS
    Keys,   \* keys of rows; two different ones are also different in an anchor
    Vals,   \* values of fields and rows
    Text,   \* for lists the items joined by commas, for records what str() prints
    None

ASSUME ConfigAssumption == None \notin Keys \cup Vals

Rows == [key: Keys, val: Vals]
NestedFields == {"webgui"}
DnsFields == {"dnsmasq_enabled", "unbound_enabled", "hostname", "servers"} \cup NestedFields
Dns == [DnsFields -> Vals \cup {None}]
Packages == [telegraf: Vals \cup {None}, haproxy: Seq(Rows) \cup {None}]

KeysOf(s) == {s[n].key : n \in DOMAIN s}
At(s, k) == {n \in DOMAIN s : s[n].key = k}

Backends(c) == IF c.pkgs = None \/ c.pkgs.haproxy = None THEN <<>> ELSE c.pkgs.haproxy

\* What parse returns. Two rows may have the same key: the keys of NAT rules, and of
\* firewall rules without a tracker, leave the description out.
IsConfig(c) ==
    /\ c.rules \in Seq(Rows)
    /\ c.aliases \in Seq(Rows)
    /\ c.dns \in Dns \cup {None}
    /\ c.pkgs \in Packages \cup {None}
-----------------------------------------------------------------------------
(* diff_configs                                                            *)

\* The dictionaries by key keep the last row of a key and its position.
Index(s, k) == Max(At(s, k))
RowAt(s, k) == s[Index(s, k)]

\* Mutant: order is never compared.
BugMoved(a, b, ordered) == {}

\* The keys whose position differs.
Moved(a, b, ordered) ==
    IF ordered THEN {k \in KeysOf(a) \cap KeysOf(b) : Index(a, k) # Index(b, k)} ELSE {}

\* _diff_list
DiffList(a, b, ordered) ==
    [added |-> {RowAt(b, k) : k \in KeysOf(b) \ KeysOf(a)},
     removed |-> {RowAt(a, k) : k \in KeysOf(a) \ KeysOf(b)},
     modified |-> {k \in KeysOf(a) \cap KeysOf(b) : RowAt(a, k) # RowAt(b, k)},
     reordered |-> Moved(a, b, ordered)]

\* _field_changes: where both sides are records the change is that of a field inside.
ChangedField(f, x, y) == IF f \in NestedFields /\ None \notin {x, y} THEN <<f, "port">> ELSE <<f>>
FieldChanges(a, b) ==
    {[field |-> ChangedField(f, a[f], b[f]), before |-> a[f], after |-> b[f]] :
        f \in {g \in DOMAIN a : a[g] # b[g]}}

\* _field_changes on the packages: a package on both sides is compared field by
\* field, but a list of rows is one value.
PackageChanges(a, b) ==
    (IF a.telegraf = b.telegraf THEN {}
     ELSE IF None \in {a.telegraf, b.telegraf}
     THEN {[field |-> <<"telegraf">>, before |-> a.telegraf, after |-> b.telegraf]}
     ELSE {[field |-> <<"telegraf", "url">>, before |-> a.telegraf, after |-> b.telegraf]})
    \cup
    (IF a.haproxy = b.haproxy THEN {}
     ELSE IF None \in {a.haproxy, b.haproxy}
     THEN {[field |-> <<"haproxy">>, before |-> None, after |-> None]}
     ELSE {[field |-> <<"haproxy", "backends">>, before |-> None, after |-> None]})

\* _diff_optional_model; changes are those of two records that are both there.
DiffOptional(a, b, changes) ==
    [added |-> IF a = None THEN {b} \ {None} ELSE {},
     removed |-> IF b = None THEN {a} \ {None} ELSE {},
     modified |-> IF None \in {a, b} THEN {} ELSE changes]

DiffConfigs(a, b) ==
    [rules |-> DiffList(a.rules, b.rules, TRUE),
     aliases |-> DiffList(a.aliases, b.aliases, FALSE),
     dns |-> DiffOptional(a.dns, b.dns, FieldChanges(a.dns, b.dns)),
     pkgs |-> DiffOptional(a.pkgs, b.pkgs, PackageChanges(a.pkgs, b.pkgs))]

Untouched(s) == s.added = {} /\ s.removed = {} /\ s.modified = {}

\* SectionDiff.is_empty, over all sections.
IsEmpty(d) ==
    /\ \A s \in {"rules", "aliases", "dns", "pkgs"} : Untouched(d[s])
    /\ d.rules.reordered = {} /\ d.aliases.reordered = {}
-----------------------------------------------------------------------------
(* Anchors                                                                 *)

\* _SINGLETON_FIELD_RESCOPE
Rescope(f) ==
    CASE f = "dnsmasq_enabled" -> <<"field", "dns", "enable">>
      [] f = "unbound_enabled" -> <<"field", "unbound", "enable">>
      [] OTHER -> <<"field", "dns", f>>

\* Mutant: the resolver does not know the names of unbound.
BugFieldOf(anchor) ==
    CASE anchor = <<"field", "dns", "enable">> -> "dnsmasq_enabled"
      [] OTHER -> anchor[3]

\* _FIELD_ALIASES
FieldOf(anchor) ==
    CASE anchor = <<"field", "dns", "enable">> -> "dnsmasq_enabled"
      [] anchor = <<"field", "unbound", "enable">> -> "unbound_enabled"
      [] OTHER -> anchor[3]

\* _row_anchor_id
RowAnchor(scope, k) == <<"xref", scope, k>>
Telegraf == <<"field", "telegraf", "url">>

\* enumerate_anchors: anchors and values; rows with the same key share an anchor.
EnumerateAnchors(c) ==
    {<<RowAnchor("rule", c.rules[n].key), c.rules[n].val>> : n \in DOMAIN c.rules}
    \cup {<<RowAnchor("alias", c.aliases[n].key), c.aliases[n].val>> : n \in DOMAIN c.aliases}
    \cup (IF c.dns = None THEN {} ELSE {<<Rescope(f), c.dns[f]>> : f \in DnsFields})
    \cup (IF c.pkgs = None \/ c.pkgs.telegraf = None THEN {} ELSE {<<Telegraf, c.pkgs.telegraf>>})
    \cup {<<RowAnchor("haproxy_backend", Backends(c)[n].key), Backends(c)[n].val>> : n \in DOMAIN Backends(c)}

\* _ROW_SCOPES
RowsIn(c, scope) ==
    CASE scope = "rule" -> c.rules
      [] scope = "alias" -> c.aliases
      [] OTHER -> Backends(c)

\* The first row with the key.
ValueIn(s, k) == IF k \in KeysOf(s) THEN s[Min(At(s, k))].val ELSE None

\* _stringify
Stringify(v) ==
    IF v = None THEN None
    ELSE IF v \in BOOLEAN THEN (IF v THEN "yes" ELSE "no")
    ELSE IF v \in DOMAIN Text THEN Text[v] ELSE v

\* resolve_anchor_value: rows as they are, fields as texts.
Resolve(c, anchor) ==
    CASE anchor[1] = "xref" -> ValueIn(RowsIn(c, anchor[2]), anchor[3])
      [] anchor = Telegraf -> Stringify(IF c.pkgs = None THEN None ELSE c.pkgs.telegraf)
      [] OTHER -> Stringify(IF c.dns = None \/ FieldOf(anchor) \notin DnsFields THEN None
                            ELSE c.dns[FieldOf(anchor)])

Event(anchor, kind, val) == [anchor |-> anchor, kind |-> kind, val |-> val]

\* The kind and value of a change of one field.
ChangeEvent(anchor, ch) ==
    IF ch.after = None /\ ch.before # None THEN Event(anchor, "removed", ch.before)
    ELSE IF ch.before = None /\ ch.after # None THEN Event(anchor, "added", ch.after)
    ELSE Event(anchor, "modified", ch.after)

\* Mutant: rows that are gone leave no event.
BugListEvents(s, scope, after) ==
    {Event(RowAnchor(scope, r.key), "added", r.val) : r \in s.added}
    \cup {Event(RowAnchor(scope, k), "modified", RowAt(after, k).val) : k \in s.modified}
    \cup {Event(RowAnchor(scope, k), "reordered", RowAt(after, k).val) : k \in s.reordered}

\* diff_to_anchor_events, lists: a row may be modified and reordered at once.
ListEvents(s, scope, after) ==
    {Event(RowAnchor(scope, r.key), "added", r.val) : r \in s.added}
    \cup {Event(RowAnchor(scope, r.key), "removed", r.val) : r \in s.removed}
    \cup {Event(RowAnchor(scope, k), "modified", RowAt(after, k).val) : k \in s.modified}
    \cup {Event(RowAnchor(scope, k), "reordered", RowAt(after, k).val) : k \in s.reordered}

\* diff_to_anchor_events, records: a change inside a record in a record has no anchor
\* and is dropped.
DnsEvents(s) ==
    {Event(Rescope(f), "added", w[f]) : w \in s.added, f \in DnsFields}
    \cup {Event(Rescope(f), "removed", w[f]) : w \in s.removed, f \in DnsFields}
    \cup {ChangeEvent(Rescope(ch.field[1]), ch) : ch \in {c \in s.modified : Len(c.field) = 1}}

\* diff_to_anchor_events, packages: paths of two parts are fields of a package; a
\* row of a package would need four parts, which no change has.
PackageEvents(s) ==
    {Event(Telegraf, "added", w.telegraf) : w \in {v \in s.added : v.telegraf # None}}
    \cup {Event(Telegraf, "removed", w.telegraf) : w \in {v \in s.removed : v.telegraf # None}}
    \cup {ChangeEvent(Telegraf, ch) : ch \in {c \in s.modified : c.field = <<"telegraf", "url">>}}

DiffToAnchorEvents(d, after) ==
    ListEvents(d.rules, "rule", after.rules) \cup ListEvents(d.aliases, "alias", after.aliases)
    \cup DnsEvents(d.dns) \cup PackageEvents(d.pkgs)

SeedEvents(c) == {Event(p[1], "added", p[2]) : p \in EnumerateAnchors(c)}
=============================================================================
